--------------------------- MODULE MCRelaunchBudget -------------------------
(* Instances of RelaunchBudget; revisions and VMs are interchangeable.     *)
EXTENDS RelaunchBudget, TLC

BudgetSymmetry == Permutations(Processes) \cup Permutations(Vms)

=============================================================================
