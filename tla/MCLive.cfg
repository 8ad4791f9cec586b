SPECIFICATION FairSpec
CONSTANTS
  m1 = m1
  m2 = m2
  m3 = m3
  Message <- MCMessage
  Topic <- MCTopic
  Broken <- MCBroken
  Subscriptions = 2
  BatchMax = 2
  ConfigHook = FALSE
  MaxRuns = 2
  hook = hook
  bot = bot
  Secrets <- MCSecrets
  Webhook = hook
INVARIANTS
  TypeOK
  LossIsOneBatchARun
  DeathIsReported
PROPERTIES
  ImplementsDelivery
  FailuresAreTold
  EventuallyHandled
\* The process may have been stopped for good.
CHECK_DEADLOCK FALSE
