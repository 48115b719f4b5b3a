----------------------------- MODULE MCSetAside -----------------------------
(* Two uploads replace one file, one attempt each, on a server that will    *)
(* not rename over a file.                                                  *)
EXTENDS SetAside, TLC

CONSTANTS s1, s2

TwoStagings == {s1, s2}
OneAttemptEach == (s1 :> 1) @@ (s2 :> 1)
=============================================================================
