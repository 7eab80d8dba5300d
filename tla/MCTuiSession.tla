---------------------------- MODULE MCTuiSession ----------------------------
(* Two prompts and two workflow runs. *)
EXTENDS TuiSession
=============================================================================
