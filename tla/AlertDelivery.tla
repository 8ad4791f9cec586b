--------------------------- MODULE AlertDelivery ---------------------------
(***************************************************************************)
(* What the live service promises about a published message, without       *)
(* saying how it polls: it is handled at most once, and it is lost only    *)
(* when the process that took it stops.  LiveService implements this.      *)
(***************************************************************************)
CONSTANT Message

VARIABLES
  fate,     \* of each message
  serving   \* a process is up and nobody has asked it to stop

vars == <<fate, serving>>

Fates == {"unsent", "waiting", "handled", "lost"}

Waiting == {m \in Message : fate[m] = "waiting"}

Settled(gone) == [m \in Message |-> IF m \in gone THEN "lost" ELSE fate[m]]

Init == /\ fate = [m \in Message |-> "unsent"]
        /\ serving = FALSE

Send(m) == /\ fate[m] = "unsent"
           /\ fate' = [fate EXCEPT ![m] = "waiting"]
           /\ UNCHANGED serving

Handle(m) == /\ fate[m] = "waiting"
             /\ fate' = [fate EXCEPT ![m] = "handled"]
             /\ UNCHANGED serving

Begin == ~serving /\ serving' = TRUE /\ UNCHANGED fate

\* The process stops, or has been asked to: what it held is gone.
Stop == /\ serving' = FALSE
        /\ \E gone \in SUBSET Waiting : fate' = Settled(gone)

Next == Begin \/ Stop \/ \E m \in Message : Send(m) \/ Handle(m)

Spec == Init /\ [][Next]_vars
============================================================================
