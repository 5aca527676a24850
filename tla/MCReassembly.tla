---------------------------- MODULE MCReassembly ----------------------------
(* Small instances of IPReassembler.                                       *)
EXTENDS IPReassembler

D(id, body, len, df, hl, opt) ==
    [id |-> id, body |-> body, off |-> 0, len |-> len, mf |-> FALSE, df |-> df,
     hl |-> hl, opt |-> opt]
MCDatagrams == {D(1, "x", 4, FALSE, 24, "end"), D(3, "y", 2, TRUE, 20, "none"),
                D(4, "z", 2, FALSE, 24, "other")}
MCMtus == {[mtu |-> 40, honor_df |-> TRUE], [mtu |-> 32, honor_df |-> FALSE]}
=============================================================================
