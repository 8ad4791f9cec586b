--------------------------- MODULE MCDispatchGate ---------------------------
(* Instances of DispatchGate: a VM-shaped finding of a name with a cooldown *)
(* and of one without, and one about a tuple of a name without.  One about  *)
(* a tuple of a name with a cooldown adds six more clocks and no new step.  *)
EXTENDS DispatchGate

MCFindings == [attempted: 0..2, backlog: {FALSE}] \cup {[attempted |-> 1, backlog |-> TRUE]}
MCKinds == Kind \ {[recurring |-> TRUE, tupleShaped |-> TRUE]}

=============================================================================
