----------------------------- MODULE MC_PwmServo -----------------------------
(* Two servos; the 8 MHz clock with prescaler 8 of lines 7 and 197 gives  *)
(* 1 tick = 1 us, so TIMER_MAXPULS is 2000 (2 ms, line 163) and the pulse *)
(* range 1000..2000 ticks; positions 0 and 255 beside the initial 128.    *)
EXTENDS PwmServo

MCValues == {0, 255}
=============================================================================
