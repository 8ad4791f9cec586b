--------------------------- MODULE MCLiveService ---------------------------
EXTENDS LiveService

CONSTANTS m1, m2, m3, hook, bot

\* One subscription works and the other was never created.
MCMessage == {m1, m2, m3}
MCTopic == [m \in MCMessage |-> 1]
MCBroken == {2}

\* A read may bring one secret without the other.
MCSecrets == {hook, bot}
============================================================================
