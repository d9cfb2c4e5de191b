SPECIFICATION Spec
CONSTANTS
  Confirm = 2
  Cooldown = 4
  Window = 9
  MaxResets = 2
  PollEvery = 1
  Settle = 1
INVARIANT
  ResetLimitKept
