SPECIFICATION Spec
CONSTANTS
  r1 = r1
  r2 = r2
  c1 = c1
  c2 = c2
  Rule = {r1, r2}
  Channel = {c1, c2}
  TargetFpr <- Fprs
  Active = {r1, r2}
  ChannelsOf <- Channels
  PValue = {0, 9}
  AlphaBudget = 3
  Window = 1
  Cooldown = 2
  MaxTime = 3
INVARIANTS
  CooldownKept
  EventsMatchNotifications
  BudgetKept
