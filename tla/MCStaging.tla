----------------------------- MODULE MCStaging -----------------------------
(* One row uploaded, paused, resumed, stopped and retried again and again. *)
EXTENDS UploadStaging

CONSTANTS u1, t1

OneRow == {u1}
OneTarget == {t1}
ItsTarget == [u \in OneRow |-> t1]
=============================================================================
