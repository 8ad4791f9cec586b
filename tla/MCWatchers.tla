----------------------------- MODULE MCWatchers -----------------------------
(***************************************************************************)
(* Two risky proposals on the first forum, which answers with one.         *)
(***************************************************************************)
EXTENDS Watchers, TLC

CONSTANTS p1, p2

MCProposals == {p1, p2}
MCForum == (p1 :> 1) @@ (p2 :> 1)
=============================================================================
