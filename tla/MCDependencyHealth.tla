------------------------ MODULE MCDependencyHealth ------------------------
EXTENDS DependencyHealth

\* The first is a core service of ours: no fallback, and it halts everything.
\* The second has a fallback and every band of severity, and it halts a scope of
\* its own, so that each may starve the other.
MCPolicy == <<[expected |-> 2, warning |-> 2, human |-> 1, hard |-> 4,
               fallback |-> FALSE, scope |-> "GLOBAL"],
              [expected |-> 1, warning |-> 0, human |-> 1, hard |-> 3,
               fallback |-> TRUE, scope |-> "STRATEGY"]>>
===========================================================================
