\* Two chats on one task with a textual and a video step, disconnects, cancellations, a
\* failed elicitation and two deaths; undisturbed runs of plans of every kind.
SPECIFICATION RunsSpec
CONSTANTS
  t1 = t1
  t2 = t2
  t3 = t3
  t4 = t4
  s1 = s1
  s2 = s2
  Tasks = {t1}
  Targets <- OneTask
  Sessions = {s1, s2}
  MaxSteps = 2
  MaxMessages = 2
  PollBudget = 1
  MaxLocalFailures = 1
  MaxCrashes = 2
  Faults <- BothFaults
INVARIANTS SingleDispatcher EachStepCalledOnce DeliveredIsComplete LedgerIsBacked PlansReplay
PROPERTIES FollowsLifecycle PlansEnd
