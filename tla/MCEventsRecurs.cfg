SPECIFICATION EventsSpec
CONSTANTS
  Traffic <- MCTraffic
  Transitions <- MCTransitions
  Services = {"risk"}
  DefaultWindow = 1
  RecurringWindow = 2
  MaxTime = 2
INVARIANT ResolvedAndRecurringIsTold
