-------------------------- MODULE RouteCtrl_proofs --------------------------
(***************************************************************************)
(* A ctrl request that fails leaves the table it found, for any prefixes,  *)
(* next hops and number of commands.  The argument: past is the stack of   *)
(* the tables the request went through, and each saved route leads from    *)
(* one of them back to the one below.                                      *)
(***************************************************************************)
EXTENDS RouteCtrl, SequenceTheorems, TLAPS

\* the route old is there to be undone in tb, as UndoNeverRefused says of Top
Undoable(tb, old) ==
    /\ old.extra = "remove" => old.p \notin DOMAIN tb
    /\ old.extra # "remove" => old.p \in DOMAIN tb
    /\ old.extra = "add" => tb[old.p] = old.via

InCtrl == pc \in {"line", "blank", "rollback"}

StackInv == /\ table = past[Len(past)]
            /\ \A i \in 1 .. Len(old_routes) :
                  /\ past[i] = Undone(past[i + 1], old_routes[i])
                  /\ Undoable(past[i + 1], old_routes[i])

\* The inductive invariant: AllOrNothing and UndoNeverRefused need the stack.
IInv == /\ TypeOK
        /\ InCtrl => StackInv
        /\ pc = "line" => r = "ok"

\* A table has prefixes as its domain and next hops as its values.
LEMMA TableType ==
    ASSUME NEW f, NEW D \in SUBSET Prefixes, f \in [D -> Via]
    PROVE  f \in Tables
BY DEF Tables

LEMMA TableFacts ==
    ASSUME NEW tb \in Tables
    PROVE  /\ DOMAIN tb \in SUBSET Prefixes
           /\ tb \in [DOMAIN tb -> Via]
<1>1. PICK D \in SUBSET Prefixes : tb \in [D -> Via]  BY DEF Tables
<1>2. DOMAIN tb = D  BY <1>1
<1> QED  BY <1>1, <1>2

\* What a command leaves is a table.
LEMMA AfterType ==
    ASSUME NEW tb \in Tables, NEW cmd \in Cmd, NEW p \in Prefixes,
           NEW via, cmd # "remove" => via \in Via
    PROVE  After(tb, cmd, p, via) \in Tables
<1>1. DOMAIN tb \in SUBSET Prefixes /\ tb \in [DOMAIN tb -> Via]  BY TableFacts
<1>2. CASE cmd = "remove"
  <2>1. After(tb, cmd, p, via) \in [DOMAIN tb \ {p} -> Via]
    BY <1>1, <1>2 DEF After
  <2> QED  BY <1>1, <2>1, TableType
<1>3. CASE cmd # "remove"
  <2>1. After(tb, cmd, p, via) \in [DOMAIN tb \cup {p} -> Via]
    BY <1>1, <1>3 DEF After
  <2>2. DOMAIN tb \cup {p} \in SUBSET Prefixes  BY <1>1
  <2> QED  BY <2>1, <2>2, TableType
<1> QED  BY <1>2, <1>3

LEMMA UndoneType ==
    ASSUME NEW tb \in Tables, NEW old \in OldRoutes
    PROVE  Undone(tb, old) \in Tables
<1>1. old.p \in Prefixes /\ old.via \in Via /\ old.extra \in Cmd  BY DEF OldRoutes
<1>2. \A cmd \in Cmd : After(tb, cmd, old.p, old.via) \in Tables  BY <1>1, AfterType
<1>3. CASE old.extra = "remove"  BY <1>2, <1>3 DEF Undone, Cmd
<1>4. CASE old.extra = "add"  BY <1>2, <1>4 DEF Undone, Cmd
<1>5. CASE old.extra = "set"  BY <1>2, <1>5 DEF Undone, Cmd
<1> QED  BY <1>1, <1>3, <1>4, <1>5 DEF Cmd

\* What run_command saves is a route.
LEMMA OldRouteType ==
    ASSUME NEW tb \in Tables, NEW cmd \in Cmd, NEW p \in Prefixes,
           NEW via \in ViaIn(cmd), ~Refused(tb, cmd, p, via)
    PROVE  OldRoute(tb, cmd, p, via) \in OldRoutes
<1>1. tb \in [DOMAIN tb -> Via]  BY TableFacts
<1>2. p \notin DOMAIN tb => via \in Via  BY DEF Refused, ViaIn, Cmd
<1> QED  BY <1>1, <1>2 DEF OldRoute, OldRoutes, Cmd

\* A command that takes effect, undone with the route that it saved.
LEMMA UndoneAfter ==
    ASSUME NEW tb \in Tables, NEW cmd \in Cmd, NEW p \in Prefixes,
           NEW via \in ViaIn(cmd), ~Refused(tb, cmd, p, via)
    PROVE  /\ Undone(After(tb, cmd, p, via), OldRoute(tb, cmd, p, via)) = tb
           /\ Undoable(After(tb, cmd, p, via), OldRoute(tb, cmd, p, via))
<1> DEFINE to == After(tb, cmd, p, via)
           old == OldRoute(tb, cmd, p, via)
<1>1. tb \in [DOMAIN tb -> Via]  BY TableFacts
<1>2. CASE cmd = "remove"
  <2>1. p \in DOMAIN tb  BY <1>2 DEF Refused
  <2>2. old = [p |-> p, via |-> tb[p], extra |-> "remove"]
    BY <1>2, <2>1 DEF OldRoute
  <2>3. to = [q \in DOMAIN tb \ {p} |-> tb[q]]  BY <1>2 DEF After
  <2>4. Undone(to, old) = After(to, "add", p, tb[p])
    BY <2>2, <2>3 DEF Undone, Refused
  <2>5. After(to, "add", p, tb[p])
           = [q \in DOMAIN to \cup {p} |-> IF q = p THEN tb[p] ELSE to[q]]
    BY DEF After
  <2>6. DOMAIN to \cup {p} = DOMAIN tb  BY <2>1, <2>3
  <2>7. After(to, "add", p, tb[p]) = tb  BY <1>1, <2>3, <2>5, <2>6
  <2> QED  BY <2>2, <2>3, <2>4, <2>7 DEF Undoable
<1>3. CASE cmd # "remove" /\ p \notin DOMAIN tb
  <2>1. old = [p |-> p, via |-> via, extra |-> "add"]  BY <1>3 DEF OldRoute
  <2>2. to = [q \in DOMAIN tb \cup {p} |-> IF q = p THEN via ELSE tb[q]]
    BY <1>3 DEF After
  <2>3. Undone(to, old) = After(to, "remove", p, via)
    BY <2>1, <2>2 DEF Undone, Refused
  <2>4. After(to, "remove", p, via) = [q \in DOMAIN to \ {p} |-> to[q]]
    BY DEF After
  <2>5. DOMAIN to \ {p} = DOMAIN tb  BY <1>3, <2>2
  <2>6. After(to, "remove", p, via) = tb  BY <1>1, <1>3, <2>2, <2>4, <2>5
  <2> QED  BY <2>1, <2>2, <2>3, <2>6 DEF Undoable
<1>4. CASE cmd # "remove" /\ p \in DOMAIN tb
  <2>1. cmd = "set"  BY <1>4 DEF Refused, Cmd
  <2>2. old = [p |-> p, via |-> tb[p], extra |-> "set"]
    BY <1>4, <2>1 DEF OldRoute
  <2>3. to = [q \in DOMAIN tb \cup {p} |-> IF q = p THEN via ELSE tb[q]]
    BY <1>4 DEF After
  <2>4. Undone(to, old) = After(to, "set", p, tb[p])
    BY <2>2, <2>3 DEF Undone, Refused
  <2>5. After(to, "set", p, tb[p])
           = [q \in DOMAIN to \cup {p} |-> IF q = p THEN tb[p] ELSE to[q]]
    BY DEF After
  <2>6. DOMAIN to \cup {p} = DOMAIN tb  BY <1>4, <2>3
  <2>7. After(to, "set", p, tb[p]) = tb  BY <1>1, <2>3, <2>5, <2>6
  <2> QED  BY <2>2, <2>3, <2>4, <2>7 DEF Undoable
<1> QED  BY <1>2, <1>3, <1>4

\* The stack with a table and a saved route pushed, and with one of each popped.
LEMMA PushStack ==
    ASSUME TypeOK, StackInv, NEW new \in Tables, NEW old \in OldRoutes,
           Undone(new, old) = table, Undoable(new, old)
    PROVE  LET ps == Append(past, new)
               os == Append(old_routes, old)
           IN  /\ Len(ps) = Len(os) + 1
               /\ new = ps[Len(ps)]
               /\ \A i \in 1 .. Len(os) : /\ ps[i] = Undone(ps[i + 1], os[i])
                                          /\ Undoable(ps[i + 1], os[i])
<1> DEFINE ps == Append(past, new)
           os == Append(old_routes, old)
<1>1. past \in Seq(Tables) /\ old_routes \in Seq(OldRoutes)
      /\ Len(past) = Len(old_routes) + 1
  BY DEF TypeOK
<1>2. Len(ps) = Len(past) + 1 /\ Len(os) = Len(old_routes) + 1
      /\ ps[Len(past) + 1] = new /\ os[Len(old_routes) + 1] = old
  BY <1>1
<1>3. \A i \in 1 .. Len(past) : ps[i] = past[i]  BY <1>1
<1>4. \A i \in 1 .. Len(old_routes) : os[i] = old_routes[i]  BY <1>1
<1>5. Len(old_routes) \in Nat  BY <1>1
<1>6. ASSUME NEW i \in 1 .. Len(os)
      PROVE  ps[i] = Undone(ps[i + 1], os[i]) /\ Undoable(ps[i + 1], os[i])
  <2>1. CASE i = Len(old_routes) + 1
    <3>1. ps[i + 1] = new /\ os[i] = old  BY <1>1, <1>2, <2>1
    <3>2. ps[i] = table  BY <1>1, <1>3, <1>5, <2>1 DEF StackInv
    <3> HIDE DEF ps, os
    <3> QED  BY <3>1, <3>2
  <2>2. CASE i # Len(old_routes) + 1
    <3>1. i \in 1 .. Len(old_routes) /\ i \in 1 .. Len(past) /\ i + 1 \in 1 .. Len(past)
      BY <1>1, <1>2, <1>5, <2>2
    <3>2. ps[i] = past[i] /\ ps[i + 1] = past[i + 1] /\ os[i] = old_routes[i]
      BY <1>3, <1>4, <3>1
    <3> HIDE DEF ps, os
    <3> QED  BY <3>1, <3>2 DEF StackInv
  <2> QED  BY <2>1, <2>2
<1>7. Len(ps) = Len(os) + 1 /\ new = ps[Len(ps)]  BY <1>1, <1>2
<1> QED  BY <1>6, <1>7

LEMMA PopStack ==
    ASSUME TypeOK, StackInv, old_routes # << >>
    PROVE  LET ps == Popped(past)
               os == Popped(old_routes)
           IN  /\ ps \in Seq(Tables) /\ os \in Seq(OldRoutes)
               /\ Len(ps) = Len(os) + 1
               /\ Head(ps) = Head(past)
               /\ Undone(table, Top(old_routes)) = ps[Len(ps)]
               /\ Undoable(table, Top(old_routes))
               /\ \A i \in 1 .. Len(os) : /\ ps[i] = Undone(ps[i + 1], os[i])
                                          /\ Undoable(ps[i + 1], os[i])
<1> DEFINE ps == Popped(past)
           os == Popped(old_routes)
           n == Len(old_routes)
<1>1. past \in Seq(Tables) /\ old_routes \in Seq(OldRoutes) /\ Len(past) = n + 1
  BY DEF TypeOK
<1>2. n \in Nat /\ n > 0  BY <1>1
<1>3. ps \in Seq(Tables) /\ os \in Seq(OldRoutes) /\ Len(ps) = n /\ Len(os) = n - 1
  <2>1. ps = SubSeq(past, 1, n) /\ os = SubSeq(old_routes, 1, n - 1)
    BY <1>1, <1>2 DEF Popped
  <2>2. \A i \in 1 .. n : past[i] \in Tables  BY <1>1, <1>2
  <2>3. \A i \in 1 .. n - 1 : old_routes[i] \in OldRoutes  BY <1>1, <1>2
  <2> HIDE DEF ps, os, n
  <2>4. ps \in Seq(Tables) /\ Len(ps) = n  BY <1>2, <2>1, <2>2, SubSeqProperties
  <2>5. os \in Seq(OldRoutes) /\ Len(os) = n - 1
    BY <1>2, <2>1, <2>3, SubSeqProperties
  <2> QED  BY <2>4, <2>5
<1>4. \A i \in 1 .. n : ps[i] = past[i]  BY <1>1, <1>2 DEF Popped
<1>5. \A i \in 1 .. n - 1 : os[i] = old_routes[i]  BY <1>1, <1>2 DEF Popped
<1>6. Head(ps) = Head(past)  BY <1>1, <1>2, <1>3, <1>4
<1>7. past[n] = Undone(past[n + 1], old_routes[n]) /\ Undoable(past[n + 1], old_routes[n])
  BY <1>2 DEF StackInv
<1>8. table = past[n + 1] /\ Top(old_routes) = old_routes[n]
  BY <1>1 DEF StackInv, Top
<1>9. Undone(table, Top(old_routes)) = ps[n] /\ Undoable(table, Top(old_routes))
  BY <1>2, <1>4, <1>7, <1>8
<1>10. ASSUME NEW i \in 1 .. Len(os)
       PROVE  ps[i] = Undone(ps[i + 1], os[i]) /\ Undoable(ps[i + 1], os[i])
  <2>1. i \in 1 .. n /\ i + 1 \in 1 .. n /\ i \in 1 .. n - 1  BY <1>2, <1>3
  <2>2. ps[i] = past[i] /\ ps[i + 1] = past[i + 1] /\ os[i] = old_routes[i]
    BY <1>4, <1>5, <2>1
  <2>3. past[i] = Undone(past[i + 1], old_routes[i]) /\ Undoable(past[i + 1], old_routes[i])
    BY <2>1 DEF StackInv
  <2> HIDE DEF ps, os
  <2> QED  BY <2>2, <2>3
<1> HIDE DEF ps, os, n
<1>11. Len(ps) = Len(os) + 1  BY <1>2, <1>3
<1>12. Undone(table, Top(old_routes)) = ps[Len(ps)]  BY <1>3, <1>9
<1> QED  BY <1>3, <1>6, <1>9, <1>10, <1>11, <1>12 DEF ps, os

\* The invariant holds at first.
LEMMA InitIInv == Init => IInv
<1> SUFFICES ASSUME Init PROVE IInv  OBVIOUS
<1>1. table \in Tables
  <2>1. table \in [{} -> Via]  BY DEF Init
  <2> QED  BY <2>1, TableType
<1>2. old_routes = << >> /\ past = <<table>>  BY DEF Init
<1>3. old_routes \in Seq(OldRoutes) /\ past \in Seq(Tables)
      /\ Len(past) = 1 /\ Len(old_routes) = 0
  BY <1>1, <1>2
<1>4. pc = "configure" /\ r = "ok"  BY DEF Init
<1>5. Len(past) = Len(old_routes) + 1  BY <1>3
<1>6. pc \in {"configure", "failed", "idle", "line", "blank", "rollback"}
      /\ r \in {"ok", "EINVAL", "EEXIST", "ENOENT"}
  BY <1>4
<1>7. TypeOK  BY <1>1, <1>3, <1>4, <1>5, <1>6, Zenon DEF TypeOK
<1> QED  BY <1>7 DEF Init, IInv, InCtrl

\* A command of ctrl.
LEMMA LineStep ==
    ASSUME IInv, NEW cmd \in Cmd, NEW p \in Prefixes, NEW via \in ViaIn(cmd),
           Line(cmd, p, via)
    PROVE  IInv'
<1>1. TypeOK /\ StackInv /\ r = "ok"  BY DEF IInv, Line, InCtrl
<1>2. CASE Refused(table, cmd, p, via)
  <2>1. pc' = "rollback" /\ r' = Errno(cmd) /\ UNCHANGED <<table, old_routes, past>>
    BY <1>2 DEF Line
  <2>2. TypeOK'  BY <1>1, <2>1 DEF TypeOK, Errno
  <2>3. StackInv'  BY <1>1, <2>1 DEF StackInv
  <2> QED  BY <2>1, <2>2, <2>3 DEF IInv
<1>3. CASE ~Refused(table, cmd, p, via)
  <2> DEFINE new == After(table, cmd, p, via)
             old == OldRoute(table, cmd, p, via)
  <2>1. table' = new /\ old_routes' = Append(old_routes, old)
        /\ past' = Append(past, new) /\ UNCHANGED <<pc, r>>
    BY <1>3 DEF Line
  <2>2. table \in Tables /\ (cmd # "remove" => via \in Via)  BY <1>1 DEF TypeOK, ViaIn
  <2>3. new \in Tables /\ old \in OldRoutes  BY <1>3, <2>2, AfterType, OldRouteType
  <2>4. Undone(new, old) = table /\ Undoable(new, old)  BY <1>3, <2>2, UndoneAfter
  <2> HIDE DEF new, old
  <2>5. /\ Len(past') = Len(old_routes') + 1
        /\ new = past'[Len(past')]
        /\ \A i \in 1 .. Len(old_routes') :
              /\ past'[i] = Undone(past'[i + 1], old_routes'[i])
              /\ Undoable(past'[i + 1], old_routes'[i])
    BY <1>1, <2>1, <2>3, <2>4, PushStack
  <2>6. TypeOK'  BY <1>1, <2>1, <2>3, <2>5 DEF TypeOK
  <2>7. StackInv'  BY <2>1, <2>5 DEF StackInv, Undone, Undoable, Refused, After
  <2> QED  BY <1>1, <2>1, <2>6, <2>7 DEF IInv
<1> QED  BY <1>2, <1>3

\* One route undone.
LEMMA UndoStep ==
    ASSUME IInv, Undo
    PROVE  IInv'
<1>1. TypeOK /\ StackInv /\ pc = "rollback" /\ old_routes # << >>
  BY DEF IInv, Undo, InCtrl
<1>2. table' = Undone(table, Top(old_routes)) /\ old_routes' = Popped(old_routes)
      /\ past' = Popped(past) /\ UNCHANGED <<pc, r>>
  BY DEF Undo
<1>3. /\ past' \in Seq(Tables) /\ old_routes' \in Seq(OldRoutes)
      /\ Len(past') = Len(old_routes') + 1
      /\ table' = past'[Len(past')]
      /\ \A i \in 1 .. Len(old_routes') :
            /\ past'[i] = Undone(past'[i + 1], old_routes'[i])
            /\ Undoable(past'[i + 1], old_routes'[i])
  BY <1>1, <1>2, PopStack
<1>4. Len(past') \in 1 .. Len(past')  BY <1>3
<1>5. table' \in Tables  BY <1>3, <1>4
<1>6. TypeOK'  BY <1>1, <1>2, <1>3, <1>5 DEF TypeOK
<1>7. StackInv'  BY <1>3 DEF StackInv, Undone, Undoable, Refused, After
<1> QED  BY <1>1, <1>2, <1>6, <1>7 DEF IInv

\* Every other step, which changes no route in a request.
LEMMA OtherSteps ==
    ASSUME IInv,
           \/ \E p \in Prefixes, via \in Via : ConfigRoute(p, via)
           \/ \E p \in Prefixes, cmd \in Cmd : \E via \in ViaIn(cmd) : Handler(cmd, p, via)
           \/ ConfigBad \/ Configured \/ Ctrl \/ BadLine \/ BlankLine \/ LastLine
           \/ RolledBack \/ UNCHANGED vars
    PROVE  IInv'
<1>1. TypeOK  BY DEF IInv
<1>2. ASSUME NEW p \in Prefixes, NEW via \in Via, ConfigRoute(p, via) PROVE IInv'
  <2>1. After(table, "add", p, via) \in Tables  BY <1>1, AfterType DEF TypeOK, Cmd
  <2> QED  BY <1>1, <1>2, <2>1 DEF ConfigRoute, IInv, TypeOK, InCtrl
<1>3. ASSUME NEW p \in Prefixes, NEW cmd \in Cmd, NEW via \in ViaIn(cmd),
             Handler(cmd, p, via)
      PROVE  IInv'
  <2>1. After(table, cmd, p, via) \in Tables  BY <1>1, AfterType DEF TypeOK, ViaIn
  <2> QED  BY <1>1, <1>3, <2>1 DEF Handler, Errno, IInv, TypeOK, InCtrl
<1>4. CASE ConfigBad  BY <1>1, <1>4 DEF ConfigBad, IInv, TypeOK, InCtrl
<1>5. CASE Configured  BY <1>1, <1>5 DEF Configured, IInv, TypeOK, InCtrl
<1>6. CASE Ctrl
  <2>1. old_routes' = << >> /\ past' = <<table>> /\ table' = table /\ table \in Tables
    BY <1>1, <1>6 DEF Ctrl, TypeOK
  <2>2. TypeOK'  BY <1>1, <1>6, <2>1 DEF Ctrl, TypeOK
  <2>3. StackInv'  BY <2>1 DEF StackInv
  <2> QED  BY <1>6, <2>2, <2>3 DEF Ctrl, IInv
<1>7. CASE BadLine \/ BlankLine
  <2>1. TypeOK'  BY <1>1, <1>7 DEF BadLine, BlankLine, TypeOK
  <2>2. StackInv  BY <1>7 DEF BadLine, BlankLine, IInv, InCtrl
  <2>3. StackInv'  BY <1>7, <2>2 DEF BadLine, BlankLine, StackInv
  <2> QED  BY <1>7, <2>1, <2>3 DEF BadLine, BlankLine, IInv
<1>8. CASE LastLine \/ RolledBack
  BY <1>1, <1>8 DEF LastLine, RolledBack, IInv, TypeOK, InCtrl
<1>9. CASE UNCHANGED vars
  BY <1>9 DEF vars, IInv, TypeOK, InCtrl, StackInv
<1> QED  BY <1>2, <1>3, <1>4, <1>5, <1>6, <1>7, <1>8, <1>9

LEMMA NextIInv == IInv /\ [Next]_vars => IInv'
<1> SUFFICES ASSUME IInv, [Next]_vars PROVE IInv'  OBVIOUS
<1>1. ASSUME NEW p \in Prefixes, OnePrefix(p) PROVE IInv'
  BY <1>1, LineStep, OtherSteps DEF OnePrefix
<1>2. CASE Undo  BY <1>2, UndoStep
<1>3. CASE ConfigBad \/ Configured \/ Ctrl \/ BadLine \/ BlankLine \/ LastLine
           \/ RolledBack \/ UNCHANGED vars
  BY <1>3, OtherSteps
<1> QED  BY <1>1, <1>2, <1>3 DEF Next

LEMMA AlwaysIInv == Spec => []IInv
BY InitIInv, NextIInv, PTL DEF Spec

\* The types are right for any prefixes, next hops and number of commands.
THEOREM CtrlTypeCorrect == Spec => []TypeOK
<1>1. IInv => TypeOK  BY DEF IInv
<1> QED  BY <1>1, AlwaysIInv, PTL

\* No undoing step meets a route that is there already or one that is not.
THEOREM RollbackIsNeverRefused == Spec => []UndoNeverRefused
<1>1. IInv => UndoNeverRefused
  <2> SUFFICES ASSUME IInv, pc = "rollback", old_routes # << >>
               PROVE  Undoable(table, Top(old_routes))
    BY DEF UndoNeverRefused, Undoable
  <2>1. TypeOK /\ StackInv  BY DEF IInv, InCtrl
  <2> QED  BY <2>1, PopStack
<1> QED  BY <1>1, AlwaysIInv, PTL

\* A request that fails leaves the table it found: the last table of the rollback
\* is the first of the stack.
THEOREM CtrlIsAllOrNothing == Spec => AllOrNothing
<1>1. ASSUME IInv, [Next]_vars, pc \in {"line", "rollback"}, pc' = "idle", r' # "ok"
      PROVE  table' = Head(past)
  <2>1. TypeOK /\ StackInv /\ (pc = "line" => r = "ok")  BY <1>1 DEF IInv, InCtrl
  <2>2. CASE RolledBack
    <3>1. old_routes = << >> /\ table' = table  BY <2>2 DEF RolledBack
    <3>2. past \in Seq(Tables) /\ Len(past) = 1  BY <2>1, <3>1 DEF TypeOK
    <3>3. table = past[1]  BY <2>1, <3>2 DEF StackInv
    <3> QED  BY <3>1, <3>2, <3>3
  <2>3. ~LastLine  BY <1>1, <2>1 DEF LastLine
  <2>4. RolledBack
    BY <1>1, <2>3 DEF Next, OnePrefix, ConfigRoute, Handler, Line, ConfigBad,
      Configured, Ctrl, BadLine, BlankLine, Undo, vars
  <2> QED  BY <2>2, <2>4
<1>2. IInv /\ [Next]_vars
        => (pc' = "idle" /\ pc \in {"line", "rollback"} /\ r' # "ok" => table' = Head(past))
  BY <1>1
<1> QED  BY <1>2, AlwaysIInv, PTL DEF Spec, AllOrNothing
============================================================================
