------------------------------- MODULE MCQuit -------------------------------
(***************************************************************************)
(* Closing the window twice while the window still holds a change.         *)
(***************************************************************************)
EXTENDS Quit
=============================================================================
