\* setservo of either servo while the timer interrupt keeps running.
CONSTANTS
  PWM_SERVOS = 2
  MINPULS = 1000
  MAXPULS = 2000
  TIMER_MAXPULS = 2000
  Values <- MCValues
  MaxCalls = 2
  LowByteFirst = TRUE
SPECIFICATION Spec
INVARIANT EveryPeriodExact
