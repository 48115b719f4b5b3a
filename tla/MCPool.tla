------------------------------- MODULE MCPool -------------------------------
(* Two transfers in the pool of one server: two of them contend for one     *)
(* login, or share two, with a queue of one behind a running transfer.      *)
EXTENDS TransferPool

CONSTANTS p1, t1, t2

MCNoRelays == [r \in Relays |-> t1]
MCPoolOf == [l \in Tasks |-> p1]
=============================================================================
