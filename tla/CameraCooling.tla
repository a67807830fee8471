---------------------------- MODULE CameraCooling ----------------------------
(***************************************************************************)
(* The cooling control of AdvancedCamera (advanced_camera.py): the body of *)
(* update_loop that drives sensor_temp and cooler_power once a second, and *)
(* set_cooler, which the SET_COOLER handler calls on the thread of the     *)
(* message loop.  Neither takes a lock: the GIL may switch threads between *)
(* any two lines, so the loop's read of cooler_enabled (line 98), its read *)
(* of cooler_temp (line 100) and its write (lines 101-108) are steps of    *)
(* their own, and so are set_cooler's writes of cooler_enabled (line 267)  *)
(* and of cooler_temp (line 269).                                          *)
(*                                                                         *)
(* Temperatures are integers in millidegrees: the loop's arithmetic is in  *)
(* hundredths of a degree (power * 0.01) and its band is 0.1 degree, so    *)
(* the cooling branch is exact on this grid; the 5% relaxation step of the *)
(* warming branch is truncated to it (it differs from the float by less    *)
(* than a millidegree and is at least 5 outside the band).  The loop's     *)
(* sleep(1.0) ends at any point: nothing here races a timeout.  The model  *)
(* starts after start(); stop() is called by main() once run() has        *)
(* returned, so never while a SET_COOLER is being handled.                 *)
(***************************************************************************)
EXTENDS Integers

CONSTANTS
    Targets,   \* temperatures a SET_COOLER may ask for, in millidegrees
    NoTemp,    \* a SET_COOLER without "temperature" (temperature=None)
    MaxSets    \* SET_COOLER commands in a run

ASSUME CoolingConstantsAssumption ==
    /\ Targets \subseteq Int /\ NoTemp \notin Int
    /\ MaxSets \in Nat

Ambient == 20000       \* ambient_temp = 20.0 (line 112)
Band == 100            \* abs(...) > 0.1 (lines 101, 113)
Holding == 10          \* cooler_power = 10 (line 107)
TempLow == -30000      \* max(-30, ...) (line 269)
TempHigh == 50000      \* min(50, ...) (line 269)

Abs(x) == IF x < 0 THEN -x ELSE x
Sign(x) == IF x > 0 THEN 1 ELSE IF x < 0 THEN -1 ELSE 0    \* np.sign

\* max(-30, min(50, temperature)) (line 269)
Clamp(t) == IF t < TempLow THEN TempLow ELSE IF t > TempHigh THEN TempHigh ELSE t

\* min(100, max(0, int(abs(temp_diff) * 10))) (line 103): abs(d) * 10 in
\* degrees is abs(d) \div 100 in millidegrees.
DrivePower(d) == IF Abs(d) \div 100 < 100 THEN Abs(d) \div 100 ELSE 100

\* sensor_temp += (ambient_temp - sensor_temp) * 0.05 when more than 0.1
\* from ambient (lines 113-114), truncated toward zero on the grid
Relax(s) ==
    IF Abs(Ambient - s) > Band
      THEN s + Sign(Ambient - s) * (Abs(Ambient - s) \div 20)
      ELSE s

\* update_loop: at the while test, in sleep(1.0), about to read
\* cooler_enabled, about to read cooler_temp, about to write, returned
LoopStates == {"test", "sleep", "branch", "diff", "adjust", "done"}

VARIABLES
    enabled,   \* self.cooler_enabled
    target,    \* self.cooler_temp
    sensor,    \* self.sensor_temp
    power,     \* self.cooler_power
    running,   \* self.running
    lpc,       \* where update_loop is
    diff,      \* update_loop's temp_diff
    spc,       \* set_cooler: "idle", or between lines 267 and 269
    sarg,      \* the temperature argument of the set_cooler in progress
    sets       \* SET_COOLER commands handled so far

vars == <<enabled, target, sensor, power, running, lpc, diff, spc, sarg, sets>>

TypeOK ==
    /\ enabled \in BOOLEAN
    /\ target \in Int /\ sensor \in Int /\ diff \in Int
    /\ power \in 0..100
    /\ running \in BOOLEAN
    /\ lpc \in LoopStates
    /\ spc \in {"idle", "temp"}
    /\ sarg \in Targets \cup {NoTemp}
    /\ sets \in 0..MaxSets

\* __init__ (lines 22-25), then start(): running = True and the update
\* thread at its while test (lines 61-70)
Init ==
    /\ enabled = FALSE /\ target = Ambient /\ sensor = Ambient /\ power = 0
    /\ running = TRUE
    /\ lpc = "test" /\ diff = 0
    /\ spc = "idle" /\ sarg = NoTemp /\ sets = 0

LoopVarsOther == <<enabled, target, running, spc, sarg, sets>>

(***************************************************************************)
(* update_loop (lines 95-118).                                             *)
(***************************************************************************)
\* while self.running:
LoopTest ==
    /\ lpc = "test"
    /\ lpc' = IF running THEN "sleep" ELSE "done"
    /\ UNCHANGED <<sensor, power, diff>> /\ UNCHANGED LoopVarsOther

\* time.sleep(1.0) ends
LoopWake ==
    /\ lpc = "sleep"
    /\ lpc' = "branch"
    /\ UNCHANGED <<sensor, power, diff>> /\ UNCHANGED LoopVarsOther

\* if self.cooler_enabled: ... else: power 0 and relax toward ambient; the
\* two set_property calls publish the result (lines 98, 109-118)
LoopBranch ==
    /\ lpc = "branch"
    /\ IF enabled
         THEN lpc' = "diff" /\ UNCHANGED <<sensor, power>>
         ELSE lpc' = "test" /\ power' = 0 /\ sensor' = Relax(sensor)
    /\ UNCHANGED diff /\ UNCHANGED LoopVarsOther

\* temp_diff = self.cooler_temp - self.sensor_temp (line 100)
LoopDiff ==
    /\ lpc = "diff"
    /\ diff' = target - sensor
    /\ lpc' = "adjust"
    /\ UNCHANGED <<sensor, power>> /\ UNCHANGED LoopVarsOther

\* Mutant: power = int(abs(temp_diff)), the * 10 dropped.
LoopAdjust_NoScale ==
    /\ lpc = "adjust"
    /\ IF Abs(diff) > Band
         THEN LET p == IF Abs(diff) \div 1000 < 100 THEN Abs(diff) \div 1000
                                                    ELSE 100
              IN  power' = p /\ sensor' = sensor + Sign(diff) * p * 10
         ELSE power' = Holding /\ sensor' = target
    /\ lpc' = "test"
    /\ UNCHANGED diff /\ UNCHANGED LoopVarsOther

\* Outside the band: power from the gap, sensor_temp moves power * 0.01
\* degree toward the target read at line 100.  Inside: holding power, and
\* sensor_temp = self.cooler_temp, read afresh (lines 101-108); then the
\* set_property calls (lines 117-118).
LoopAdjust ==
    /\ lpc = "adjust"
    /\ IF Abs(diff) > Band
         THEN /\ power' = DrivePower(diff)
              /\ sensor' = sensor + Sign(diff) * DrivePower(diff) * 10
         ELSE power' = Holding /\ sensor' = target
    /\ lpc' = "test"
    /\ UNCHANGED diff /\ UNCHANGED LoopVarsOther

(***************************************************************************)
(* set_cooler (lines 262-289), through handle_set_cooler (lines 323-344).  *)
(* A command without "enabled" is answered with an error and changes       *)
(* nothing.                                                                *)
(***************************************************************************)
\* self.cooler_enabled = enabled; with temperature=None that is all
SetCoolerEnabled ==
    /\ running /\ spc = "idle" /\ sets < MaxSets
    /\ \E e \in BOOLEAN, t \in Targets \cup {NoTemp} :
         /\ enabled' = e
         /\ spc' = IF t = NoTemp THEN "idle" ELSE "temp"
         /\ sarg' = t
    /\ sets' = sets + 1
    /\ UNCHANGED <<target, sensor, power, running, lpc, diff>>

\* Mutant: the requested temperature is stored unclamped.
SetCoolerTemp_NoClamp ==
    /\ spc = "temp"
    /\ target' = sarg
    /\ spc' = "idle"
    /\ UNCHANGED <<enabled, sensor, power, running, lpc, diff, sarg, sets>>

\* self.cooler_temp = max(-30, min(50, temperature)); the properties and
\* the COOLER_CHANGED event follow
SetCoolerTemp ==
    /\ spc = "temp"
    /\ target' = Clamp(sarg)
    /\ spc' = "idle"
    /\ UNCHANGED <<enabled, sensor, power, running, lpc, diff, sarg, sets>>

\* stop(): self.running = False (line 78); the join is module AdvancedCamera's
Stop ==
    /\ running /\ spc = "idle"
    /\ running' = FALSE
    /\ UNCHANGED <<enabled, target, sensor, power, lpc, diff, spc, sarg, sets>>

LoopStep == LoopTest \/ LoopWake \/ LoopBranch \/ LoopDiff \/ LoopAdjust

Terminated == lpc = "done" /\ spc = "idle"

Next ==
    \/ LoopStep
    \/ SetCoolerEnabled \/ SetCoolerTemp \/ Stop
    \/ Terminated /\ UNCHANGED vars

\* The update thread runs whenever it can, and a set_cooler in progress
\* finishes; commands and stop() come when the client and main() choose.
Fairness == WF_vars(LoopStep) /\ WF_vars(SetCoolerTemp)

Spec == Init /\ [][Next]_vars
FairSpec == Spec /\ Fairness

(***************************************************************************)
(* Properties.                                                             *)
(***************************************************************************)

\* Spec section 3: the sensor temperature stays within the range the target
\* is clamped to, [-30, +50] degrees, whatever SET_COOLER asks for and
\* however its writes interleave with update_loop's reads (the loop never
\* steps past the target it read, and a snap or a stale step lands on a
\* clamped target).
SensorInRange == sensor \in TempLow..TempHigh

\* Spec section 8: once the last SET_COOLER has left the cooler enabled,
\* update_loop brings the sensor to the target and then reports the nonzero
\* holding power (unless stop() ends the loop first).
CoolingSettles ==
    (enabled /\ sets = MaxSets /\ spc = "idle")
        ~> ((sensor = target /\ power = Holding) \/ ~running)

\* Spec section 4.5: each tick moves the sensor toward the target in
\* proportion to the drive power, at most power * 0.01 degree per tick.
SensorStepBounded ==
    [][lpc = "adjust" /\ lpc' = "test" => Abs(sensor' - sensor) <= power' * 10]_vars
=============================================================================
