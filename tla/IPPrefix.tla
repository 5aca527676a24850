------------------------------ MODULE IPPrefix ------------------------------
(***************************************************************************)
(* Prefixes and routes of the Click routing tables (struct IPRoute of      *)
(* iproutetable.hh).  Addresses have W bits, 32 in the code; a mask is its *)
(* length; where a route leads, its gateway and port, is one value of Via. *)
(***************************************************************************)
EXTENDS Integers, FiniteSets

CONSTANTS W,     \* bits of an address
          Via,   \* <<gateway, port>> of a route, the port a connected output
          Any,   \* no gateway and port given in a removal, port -1
          None   \* the lookup of an address without a route

ASSUME PrefixAssumption == W \in Nat \ {0} /\ Any \notin Via /\ None \notin Via

Addr == 0 .. 2^W - 1
Masked(addr, len) == (addr \div 2^(W - len)) * 2^(W - len)

\* cp_ip_route masks the address with the mask
AllPrefixes == {p \in [addr : Addr, len : 0 .. W] : Masked(p.addr, p.len) = p.addr}

\* IPRoute::contains, of an address and of a route
Holds(p, addr) == Masked(addr, p.len) = p.addr
Within(q, p) == q.len >= p.len /\ Holds(p, q.addr)

\* longest-prefix match of addr in table, a function from prefixes to Via
Best(table, addr) ==
    LET hits == {p \in DOMAIN table : Holds(p, addr)}
    IN  IF hits = {} THEN None
        ELSE table[CHOOSE p \in hits : \A q \in hits : q.len <= p.len]
============================================================================
