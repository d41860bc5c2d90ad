\* Both scripts, with and without a second party and KEEP, one lost message.
SPECIFICATION Spec
CONSTANTS
  TicksPerSecond = 2
  Delay <- Delays
  Skew <- Skews
  Prompt <- PromptDelays
  Tolerated <- ToleratedSkews
  Usual = 2
  MaxUnusual = 2
  MaxFaults = 1
INVARIANTS GreenRunIsComplete PromptRunsAreGreen
CHECK_DEADLOCK FALSE
