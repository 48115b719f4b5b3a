------------------------------ MODULE MCRelays ------------------------------
(* Relays r1 from pa to pb and r2 the other way, and a transfer of pb; all  *)
(* within one server when the configuration gives pa and pb the same value. *)
EXTENDS TransferPool

CONSTANTS pa, pb, r1, r2, s1, d1, s2, d2, t1

MCSrcLeg == [r \in Relays |-> IF r = r1 THEN s1 ELSE s2]
MCDstLeg == [r \in Relays |-> IF r = r1 THEN d1 ELSE d2]
MCPoolOf ==
    [l \in Tasks \cup RelayLegs |-> IF l \in {s1, d2} THEN pa ELSE pb]
=============================================================================
