-------------------------- MODULE MCEscalationLadder ------------------------
(* Instances of EscalationLadder; revisions and identities are             *)
(* interchangeable.                                                        *)
EXTENDS EscalationLadder, TLC

LadderSymmetry == Permutations(Processes) \cup Permutations(Identities)

=============================================================================
