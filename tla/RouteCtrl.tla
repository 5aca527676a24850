----------------------------- MODULE RouteCtrl -----------------------------
(***************************************************************************)
(* Commands of every routing table (iproutetable.cc): configure, the       *)
(* handlers add, set and remove, and the handler ctrl, which takes one     *)
(* command per line and undoes all of them when one fails.                 *)
(*                                                                         *)
(* The table is the one that add_route and remove_route promise, see       *)
(* RouteTable.  One step of ctrl is one line or one route undone.          *)
(***************************************************************************)
EXTENDS IPPrefix, Sequences

CONSTANTS Prefixes, \* the prefixes that commands name
          MaxLines  \* bound: commands of one ctrl request that take effect

ASSUME CtrlAssumption == MaxLines \in Nat

VARIABLES pc,         \* where the control is
          table,      \* prefix -> Via, the routes
          r,          \* what the last operation returned
          old_routes, \* ctrl: what its commands replaced
          past        \* history: the table when ctrl began and after each command
                      \* in old_routes

\* the newest element of a vector used as a stack, and the others
Top(s) == s[Len(s)]
Popped(s) == SubSeq(s, 1, Len(s) - 1)

vars == <<pc, table, r, old_routes, past>>

Cmd == {"add", "set", "remove"}
Tables == UNION {[D -> Via] : D \in SUBSET Prefixes}
OldRoutes == [p : Prefixes, via : Via, extra : Cmd]

Init == /\ pc = "configure" /\ table = << >> /\ r = "ok"
        /\ old_routes = << >> /\ past = <<table>>

\* add_route and remove_route: refused, or what they leave
Refused(tb, cmd, p, via) ==
    \/ cmd = "add" /\ p \in DOMAIN tb
    \/ cmd = "remove" /\ (p \notin DOMAIN tb \/ via \notin {Any, tb[p]})
Errno(cmd) == IF cmd = "add" THEN "EEXIST" ELSE "ENOENT"
After(tb, cmd, p, via) ==
    IF cmd = "remove" THEN [q \in DOMAIN tb \ {p} |-> tb[q]]
    ELSE [q \in DOMAIN tb \cup {p} |-> IF q = p THEN via ELSE tb[q]]

\* a command names a port but for a removal
ViaIn(cmd) == IF cmd = "remove" THEN Via \cup {Any} ELSE Via

\* what run_command saves: the old route, or the new one when there was none
OldRoute(tb, cmd, p, via) ==
    IF p \in DOMAIN tb THEN [p |-> p, via |-> tb[p], extra |-> cmd]
    ELSE [p |-> p, via |-> via, extra |-> "add"]

\* configure: a route for a prefix there already is no error, it is left out
\* (although a warning says that later versions replace earlier ones)
ConfigRoute(p, via) ==
    /\ pc = "configure"
    /\ table' = IF Refused(table, "add", p, via) THEN table
                ELSE After(table, "add", p, via)
    /\ UNCHANGED <<pc, r, old_routes, past>>

\* an argument that is no route, with the others still added
ConfigBad == /\ pc = "configure"
             /\ r' = "EINVAL"
             /\ UNCHANGED <<pc, table, old_routes, past>>

\* the router is not started after an error
Configured == /\ pc = "configure"
              /\ pc' = IF r = "ok" THEN "idle" ELSE "failed"
              /\ UNCHANGED <<table, r, old_routes, past>>

\* the handlers add, set and remove: one command, not saved
Handler(cmd, p, via) ==
    /\ pc = "idle"
    /\ IF Refused(table, cmd, p, via)
         THEN r' = Errno(cmd) /\ UNCHANGED table
         ELSE r' = "ok" /\ table' = After(table, cmd, p, via)
    /\ UNCHANGED <<pc, old_routes, past>>

Ctrl == /\ pc = "idle"
        /\ pc' = "line" /\ r' = "ok" /\ old_routes' = << >> /\ past' = <<table>>
        /\ UNCHANGED table

\* a line with a command: run_command, and on to the next line or to rollback
Line(cmd, p, via) ==
    /\ pc = "line"
    /\ IF Refused(table, cmd, p, via)
         THEN /\ pc' = "rollback" /\ r' = Errno(cmd)
              /\ UNCHANGED <<table, old_routes, past>>
         ELSE /\ Len(old_routes) < MaxLines
              /\ table' = After(table, cmd, p, via)
              /\ old_routes' = Append(old_routes, OldRoute(table, cmd, p, via))
              /\ past' = Append(past, table')
              /\ UNCHANGED <<pc, r>>

\* an unknown command, an unreadable route or a port out of range
BadLine == /\ pc = "line"
           /\ pc' = "rollback" /\ r' = "EINVAL"
           /\ UNCHANGED <<table, old_routes, past>>

\* a line without a word: continue, and s is on the same line again
BlankLine == /\ pc \in {"line", "blank"}
             /\ pc' = "blank"
             /\ UNCHANGED <<table, r, old_routes, past>>

LastLine == /\ pc = "line"
            /\ pc' = "idle"
            /\ UNCHANGED <<table, r, old_routes, past>>

\* mutant: a route that was set is removed
Undone_Unset(tb, old) ==
    IF old.extra = "remove" THEN After(tb, "add", old.p, old.via)
    ELSE After(tb, "remove", old.p, old.via)

\* rollback of one saved route; what add_route and remove_route return is
\* not looked at
Undone(tb, old) ==
    LET cmd == CASE old.extra = "remove" -> "add"
                 [] old.extra = "add" -> "remove"
                 [] old.extra = "set" -> "set"
    IN  IF Refused(tb, cmd, old.p, old.via) THEN tb ELSE After(tb, cmd, old.p, old.via)

\* mutant: first saved, first undone
Undo_Fifo == /\ pc = "rollback" /\ old_routes # << >>
             /\ table' = Undone(table, Head(old_routes))
             /\ old_routes' = Tail(old_routes)
             /\ past' = Popped(past)
             /\ UNCHANGED <<pc, r>>

Undo == /\ pc = "rollback" /\ old_routes # << >>
        /\ table' = Undone(table, Top(old_routes))
        /\ old_routes' = Popped(old_routes)
        /\ past' = Popped(past)
        /\ UNCHANGED <<pc, r>>

RolledBack == /\ pc = "rollback" /\ old_routes = << >>
              /\ pc' = "idle"
              /\ UNCHANGED <<table, r, old_routes, past>>

OnePrefix(p) ==
    \/ \E via \in Via : ConfigRoute(p, via)
    \/ \E cmd \in Cmd : \E via \in ViaIn(cmd) : Handler(cmd, p, via) \/ Line(cmd, p, via)

Next == \/ \E p \in Prefixes : OnePrefix(p)
        \/ ConfigBad \/ Configured \/ Ctrl \/ BadLine \/ BlankLine \/ LastLine
        \/ Undo \/ RolledBack

Spec == Init /\ [][Next]_vars

\* ctrl_handler runs to its end in one thread
CtrlStep ==
    \/ \E p \in Prefixes, cmd \in Cmd : \E via \in ViaIn(cmd) : Line(cmd, p, via)
    \/ BadLine \/ BlankLine \/ LastLine \/ Undo \/ RolledBack
FairSpec == Spec /\ WF_vars(CtrlStep)
----------------------------------------------------------------------------
\* Types of the variables; past has one table more than there are saved routes.
TypeOK ==
    /\ pc \in {"configure", "failed", "idle", "line", "blank", "rollback"}
    /\ table \in Tables
    /\ r \in {"ok", "EINVAL", "EEXIST", "ENOENT"}
    /\ old_routes \in Seq(OldRoutes)
    /\ past \in Seq(Tables)
    /\ Len(past) = Len(old_routes) + 1

\* "all commands are executed as one atomic operation" (lineariplookup.hh:74): a
\* ctrl request that fails leaves the table it found, whatever its lines added,
\* set and removed before, the same prefix several times included.
AllOrNothing == [][pc' = "idle" /\ pc \in {"line", "rollback"} /\ r' # "ok"
                     => table' = Head(past)]_vars

\* The rollback looks at no result (iproutetable.cc:257-266), and need not: no
\* route it adds exists and every one it removes does.
UndoNeverRefused ==
    pc = "rollback" /\ old_routes # << >> =>
        LET old == Top(old_routes)
        IN  /\ old.extra = "remove" => old.p \notin DOMAIN table
            /\ old.extra # "remove" => old.p \in DOMAIN table
            /\ old.extra = "add" => table[old.p] = old.via

\* ctrl returns (lineariplookup.hh:72-75 promises any number of lines).
CtrlEnds == pc = "line" ~> pc = "idle"
============================================================================
