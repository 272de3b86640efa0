------------------------------- MODULE PwmServo -------------------------------
(***************************************************************************)
(* The servo pulse generator of src/hardware/pwm/pwm_servo.c: the timer-1 *)
(* overflow interrupt (50-144) that walks the table Pulslength, and       *)
(* setservo (154-169), called from the main program, that writes a        *)
(* servo's high time and low time into two 16-bit entries.                *)
(*                                                                         *)
(* The interrupt reloads TCNT1 with Pulslength[servoindex_half]; the      *)
(* timer overflows 65536 - TCNT1 ticks later, so an entry 0 - t lasts t   *)
(* ticks.  Even slots are a servo's high time (SERVOSET), odd slots its   *)
(* low time (SERVOCLEAR).  The pin itself is abstracted to the durations. *)
(*                                                                         *)
(* setservo runs with the interrupt enabled.  On the 8-bit AVR each       *)
(* 16-bit store is two byte stores, so the interrupt may run between the  *)
(* two entries of a servo and between the two bytes of one entry: every   *)
(* byte store is a step of its own.  The order of the two bytes is the    *)
(* compiler's, a constant of the build (LowByteFirst).                    *)
(*                                                                         *)
(* MINPULS, MAXPULS, TIMER_MAXPULS and PWM_SERVOS come from pwm_servo.h   *)
(* and config.h, which are not in this repository's source.              *)
(***************************************************************************)
EXTENDS Integers

CONSTANTS
  PWM_SERVOS,      \* number of servos
  MINPULS,         \* high time of value 0, in timer ticks
  MAXPULS,         \* high time the value range is scaled to
  TIMER_MAXPULS,   \* high plus low time of one servo (2 ms)
  Values,          \* servo positions the callers of setservo pass
  MaxCalls,        \* setservo calls after initialisation
  LowByteFirst     \* the compiler stores the low byte of a word first

ASSUME PWM_SERVOS \in 1..10 /\ MaxCalls \in Nat /\ LowByteFirst \in BOOLEAN
ASSUME Values \subseteq 0..255

DOUBLE_PWM_SERVOS == 2 * PWM_SERVOS
Servos == 0..PWM_SERVOS - 1
U16(x) == x % 65536

\* Line 158: uint16_t arithmetic, the division before the product.
Wert(value) == U16(MINPULS + ((MAXPULS - MINPULS) \div 256) * value)

\* Lines 161 and 164: the two's-complement timer reloads.
HighEntry(wert) == U16(0 - wert)
LowEntry(wert) == U16(0 - (TIMER_MAXPULS - wert))

\* Ticks from reloading TCNT1 with x to the next overflow.
Ticks(x) == 65536 - x

VARIABLES
  Pulslength,       \* the table of timer reloads
  servoindex_half,  \* the interrupt's static slot index
  pc,               \* setservo: "idle" or the byte store it is about to do
  index,            \* setservo's arguments and wert
  wert,
  calls,            \* setservo calls made
  highTicks,        \* history: per servo, the high time of its current period
  period            \* history: the last completed period, [servo, high, low]

vars == <<Pulslength, servoindex_half, pc, index, wert, calls, highTicks,
          period>>

-----------------------------------------------------------------------------
\* Lines 57-143: set or clear the servo's pin, reload the timer from the
\* table, advance the index and wrap it at DOUBLE_PWM_SERVOS.
SIG_OVERFLOW1 ==
  LET k == servoindex_half
      s == k \div 2
      t == Ticks(Pulslength[k])
  IN /\ servoindex_half' = IF k + 1 = DOUBLE_PWM_SERVOS THEN 0 ELSE k + 1
     /\ IF k % 2 = 0
        THEN /\ highTicks' = [highTicks EXCEPT ![s] = t]
             /\ UNCHANGED period
        ELSE /\ period' = [servo |-> s, high |-> highTicks[s], low |-> t]
             /\ UNCHANGED highTicks
     /\ UNCHANGED <<Pulslength, pc, index, wert, calls>>

\* The byte stores of setservo, in program order: the two bytes of the
\* high entry (line 161), then the two bytes of the low entry (line 164).
Stores == <<"high1", "high2", "low1", "low2">>

\* Entry and value a store writes, and whether it writes the low byte.
StoreSlot(step) == IF step \in {"high1", "high2"} THEN 2 * index ELSE 2 * index + 1
StoreValue(step) == IF step \in {"high1", "high2"} THEN HighEntry(wert)
                                                   ELSE LowEntry(wert)
WritesLowByte(step) == (step \in {"high1", "low1"}) = LowByteFirst

PutByte(old, new, low) ==
  IF low THEN (old - (old % 256)) + (new % 256)
         ELSE ((new \div 256) * 256) + (old % 256)

\* Line 158: a caller enters setservo; wert is computed.
setservo(i, value) ==
  /\ pc = "idle" /\ calls < MaxCalls
  /\ pc' = "high1" /\ index' = i /\ wert' = Wert(value)
  /\ calls' = calls + 1
  /\ UNCHANGED <<Pulslength, servoindex_half, highTicks, period>>

\* Lines 161 and 164: one byte store.
SetservoStore ==
  /\ pc # "idle"
  /\ LET n == CHOOSE j \in 1..4 : Stores[j] = pc
     IN /\ Pulslength' = [Pulslength EXCEPT ![StoreSlot(pc)] =
                            PutByte(@, StoreValue(pc), WritesLowByte(pc))]
        /\ pc' = IF n = 4 THEN "idle" ELSE Stores[n + 1]
  /\ UNCHANGED <<servoindex_half, index, wert, calls, highTicks, period>>

\* Lines 177-201: pwm_servo_init starts the timer and init_servos sets
\* every servo to 128.  The interrupt is taken not to run before that:
\* the global interrupt flag is set outside src/ (a hazard of its own).
Init ==
  /\ Pulslength = [k \in 0..DOUBLE_PWM_SERVOS - 1 |->
                     IF k % 2 = 0 THEN HighEntry(Wert(128)) ELSE LowEntry(Wert(128))]
  /\ servoindex_half = 0
  /\ pc = "idle" /\ index = 0 /\ wert = 0 /\ calls = 0
  /\ highTicks = [s \in Servos |-> Wert(128)]
  /\ period = [servo |-> 0, high |-> Wert(128), low |-> TIMER_MAXPULS - Wert(128)]

Next ==
  \/ SIG_OVERFLOW1
  \/ \E i \in Servos, v \in Values : setservo(i, v)
  \/ SetservoStore

Spec == Init /\ [][Next]_vars /\ WF_vars(SIG_OVERFLOW1)

-----------------------------------------------------------------------------
\* Every period a servo's pin goes through lasts TIMER_MAXPULS ticks, its
\* high time one setservo computed: "sume of low and hightime for one
\* servo is 2ms" (line 163), so that ten servos give a 20 ms frame
\* (line 166), whatever setservo is doing when the interrupt fires.
EveryPeriodExact ==
  /\ period.high + period.low = TIMER_MAXPULS
  /\ period.high \in {Wert(v) : v \in Values \cup {128}}

=============================================================================
