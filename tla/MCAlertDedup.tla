---------------------------- MODULE MCAlertDedup ----------------------------
(* An instance of AlertDedup: a recurring identity with a window of its    *)
(* own and one with the default window; the interleavings are many.        *)
EXTENDS AlertDedup, TLC

MCFewKeys == {"cron", "plain"}
MCFewRecurring == {"cron"}
MCFewTtl == [k \in MCFewKeys |-> IF k = "cron" THEN 2 ELSE 1]

\* Revisions are interchangeable.
RevisionSymmetry == Permutations(Processes)

=============================================================================
