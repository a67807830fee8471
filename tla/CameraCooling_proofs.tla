------------------------ MODULE CameraCooling_proofs -------------------------
(***************************************************************************)
(* Proof that update_loop keeps sensor_temp within [-30, +50] degrees, for *)
(* every set of requested targets, every number of SET_COOLER commands and *)
(* every interleaving of set_cooler's writes with the loop's reads.        *)
(***************************************************************************)
EXTENDS CameraCooling, TLAPS

TempRange == TempLow..TempHigh

\* set_cooler stores only clamped targets, and the one it is about to store
\* was given with the command.
TargetInRange == target \in TempRange /\ (spc = "temp" => sarg \in Targets)

\* Between line 100 and its write the loop holds temp_diff; the target it
\* read, sensor + diff, was in range, and only the loop writes sensor_temp.
DiffToRange == lpc = "adjust" => sensor + diff \in TempRange

\* The inductive invariant.
IInv == /\ TypeOK /\ sensor \in TempRange /\ TargetInRange /\ DiffToRange
(***************************************************************************)
(* The loop's arithmetic.  An interval with literal bounds as large as     *)
(* these is beyond the SMT encoding, so the facts below reach TempRange    *)
(* only through InTempRange, and the bounds' values only as numbers.       *)
(***************************************************************************)

LEMMA InInterval ==
    ASSUME NEW a \in Int, NEW b \in Int, NEW x
    PROVE  x \in a..b <=> x \in Int /\ a <= x /\ x <= b
  OBVIOUS

LEMMA BoundsInt == TempLow \in Int /\ TempHigh \in Int
  BY DEF TempLow, TempHigh

LEMMA BoundsValue ==
    /\ TempLow = -30000 /\ TempHigh = 50000
    /\ Ambient = 20000 /\ Band = 100 /\ Holding = 10
  BY DEF TempLow, TempHigh, Ambient, Band, Holding

LEMMA InTempRange ==
    ASSUME NEW x
    PROVE  x \in TempRange <=> x \in Int /\ -30000 <= x /\ x <= 50000
<1>1. x \in TempRange <=> x \in Int /\ TempLow <= x /\ x <= TempHigh
  BY BoundsInt, InInterval DEF TempRange
<1>2. QED
  BY <1>1, BoundsValue

\* Line 269 yields a temperature in range, whatever was asked for.
LEMMA ClampInRange ==
    ASSUME NEW t \in Int
    PROVE  Clamp(t) \in TempRange
<1>1. Clamp(t) \in Int /\ -30000 <= Clamp(t) /\ Clamp(t) <= 50000
  BY BoundsValue DEF Clamp
<1>2. QED
  BY <1>1, InTempRange

\* Lines 113-114 move the sensor toward ambient by at most the gap.
LEMMA RelaxInRange ==
    ASSUME NEW x \in TempRange
    PROVE  Relax(x) \in TempRange
<1>1. x \in Int /\ -30000 <= x /\ x <= 50000
  BY InTempRange
<1>2. CASE x < 20000
  <2>1. Relax(x) \in Int /\ x <= Relax(x) /\ Relax(x) <= 20000
    BY <1>1, <1>2, BoundsValue DEF Relax, Abs, Sign
  <2>2. QED
    BY <1>1, <2>1, InTempRange
<1>3. CASE x >= 20000
  <2>1. Relax(x) \in Int /\ 20000 <= Relax(x) /\ Relax(x) <= x
    BY <1>1, <1>3, BoundsValue DEF Relax, Abs, Sign
  <2>2. QED
    BY <1>1, <2>1, InTempRange
<1>4. QED
  BY <1>1, <1>2, <1>3

\* Line 103's power is a percentage.
LEMMA DrivePowerType ==
    ASSUME NEW d \in Int
    PROVE  DrivePower(d) \in 0..100
  BY DEF DrivePower, Abs

\* Lines 103-105 move the sensor toward the target it read, by power * 0.01
\* degree, which is at most a tenth of the gap: it never overshoots.
LEMMA DriveInRange ==
    ASSUME NEW x \in TempRange, NEW d \in Int, x + d \in TempRange
    PROVE  x + Sign(d) * DrivePower(d) * 10 \in TempRange
<1>1. /\ x \in Int /\ -30000 <= x /\ x <= 50000
      /\ -30000 <= x + d /\ x + d <= 50000
  BY InTempRange
<1>2. DrivePower(d) \in 0..100
  BY DrivePowerType
<1>3. CASE d > 0
  <2>1. DrivePower(d) * 10 <= d /\ Sign(d) = 1
    BY <1>3 DEF DrivePower, Abs, Sign
  <2>2. QED
    BY <1>1, <1>2, <2>1, InTempRange
<1>4. CASE d < 0
  <2>1. DrivePower(d) * 10 <= -d /\ Sign(d) = -1
    BY <1>4 DEF DrivePower, Abs, Sign
  <2>2. QED
    BY <1>1, <1>2, <2>1, InTempRange
<1>5. CASE d = 0
  <2>1. x + Sign(d) * DrivePower(d) * 10 = x
    BY <1>1, <1>2, <1>5 DEF Sign
  <2>2. QED
    BY <2>1
<1>6. QED
  BY <1>3, <1>4, <1>5
(***************************************************************************)
(* The invariant.                                                          *)
(***************************************************************************)

LEMMA InitIInv == Init => IInv
<1> SUFFICES ASSUME Init PROVE IInv
  OBVIOUS
<1>1. Ambient \in TempRange
  BY BoundsValue, InTempRange
<1>2. Ambient \in Int
  BY BoundsValue
<1>3. 0 \in 0..MaxSets /\ 0 \in 0..100
  BY CoolingConstantsAssumption
<1>4. TypeOK
  <2>1. target \in Int /\ sensor \in Int /\ diff \in Int
    BY <1>2 DEF Init
  <2>2. power \in 0..100 /\ sets \in 0..MaxSets
    BY <1>3 DEF Init
  <2>3. /\ enabled \in BOOLEAN /\ running \in BOOLEAN
        /\ lpc \in LoopStates /\ spc \in {"idle", "temp"}
        /\ sarg \in Targets \cup {NoTemp}
    BY DEF Init, LoopStates
  <2>4. QED
    BY <2>1, <2>2, <2>3 DEF TypeOK
<1>5. QED
  BY <1>1, <1>4 DEF Init, IInv, TargetInRange, DiffToRange

\* update_loop's steps keep the sensor in range: it relaxes toward ambient,
\* drives toward the target it read, or snaps to the current target.
LEMMA LoopStepIInv ==
    ASSUME IInv, LoopStep
    PROVE  IInv'
<1> USE DEF IInv, TypeOK, TargetInRange, DiffToRange, LoopVarsOther,
            LoopStates
<1>1. CASE LoopTest \/ LoopWake
  BY <1>1 DEF LoopTest, LoopWake
<1>2. CASE LoopBranch /\ enabled
  BY <1>2 DEF LoopBranch
<1>3. CASE LoopBranch /\ ~enabled
  <2>1. sensor' = Relax(sensor) /\ power' = 0 /\ lpc' = "test"
    BY <1>3 DEF LoopBranch
  <2>2. Relax(sensor) \in TempRange
    BY RelaxInRange
  <2>3. QED
    BY <1>3, <2>1, <2>2, InTempRange DEF LoopBranch
<1>4. CASE LoopDiff
  <2>1. sensor + diff' = target
    BY <1>4, InTempRange DEF LoopDiff
  <2>2. QED
    BY <1>4, <2>1, InTempRange DEF LoopDiff
<1>5. CASE LoopAdjust /\ Abs(diff) > Band
  <2>1. /\ power' = DrivePower(diff)
        /\ sensor' = sensor + Sign(diff) * DrivePower(diff) * 10
        /\ lpc' = "test"
    BY <1>5 DEF LoopAdjust
  <2>2. sensor' \in TempRange
    <3>1. lpc = "adjust"
      BY <1>5 DEF LoopAdjust
    <3>2. sensor \in TempRange /\ diff \in Int /\ sensor + diff \in TempRange
      BY <3>1
    <3>3. QED
      BY <2>1, <3>2, DriveInRange
  <2>3. QED
    BY <1>5, <2>1, <2>2, DrivePowerType, InTempRange DEF LoopAdjust
<1>6. CASE LoopAdjust /\ ~(Abs(diff) > Band)
  <2>1. power' = Holding /\ sensor' = target /\ lpc' = "test"
    BY <1>6 DEF LoopAdjust
  <2>2. QED
    BY <1>6, <2>1, BoundsValue, InTempRange DEF LoopAdjust
<1>7. QED
  BY <1>1, <1>2, <1>3, <1>4, <1>5, <1>6 DEF LoopStep

\* set_cooler stores a clamped target; stop() only clears running.
LEMMA OtherStepIInv ==
    ASSUME IInv, SetCoolerEnabled \/ SetCoolerTemp \/ Stop
    PROVE  IInv'
<1> USE CoolingConstantsAssumption
<1> USE DEF IInv, TypeOK, TargetInRange, DiffToRange
<1>1. CASE SetCoolerEnabled
  BY <1>1 DEF SetCoolerEnabled
<1>2. CASE SetCoolerTemp
  <2>1. sarg \in Int
    BY <1>2 DEF SetCoolerTemp
  <2>2. target' = Clamp(sarg) /\ Clamp(sarg) \in TempRange
    BY <1>2, <2>1, ClampInRange DEF SetCoolerTemp
  <2>3. QED
    BY <1>2, <2>2, InTempRange DEF SetCoolerTemp
<1>3. CASE Stop
  BY <1>3 DEF Stop
<1>4. QED
  BY <1>1, <1>2, <1>3

\* The invariant holds in every reachable state.
THEOREM IInvHolds == Spec => []IInv
<1>1. Init => IInv
  BY InitIInv
<1>2. IInv /\ [Next]_vars => IInv'
  <2> SUFFICES ASSUME IInv, [Next]_vars PROVE IInv'
    OBVIOUS
  <2>1. CASE LoopStep
    BY <2>1, LoopStepIInv
  <2>2. CASE SetCoolerEnabled \/ SetCoolerTemp \/ Stop
    BY <2>2, OtherStepIInv
  <2>3. CASE UNCHANGED vars
    BY <2>3 DEF vars, IInv, TypeOK, TargetInRange, DiffToRange
  <2>4. QED
    BY <2>1, <2>2, <2>3 DEF Next, Terminated
<1>3. QED
  BY <1>1, <1>2, PTL DEF Spec

\* Spec section 3, for every set of requested targets and every number of
\* SET_COOLER commands: sensor_temp stays within the [-30, +50] degrees
\* that set_cooler clamps cooler_temp to (line 269), although update_loop
\* reads cooler_temp at line 100, writes at lines 103-108 and set_cooler
\* may store a new target between the two.
THEOREM SensorInRangeHolds == Spec => []SensorInRange
<1>1. IInv => SensorInRange
  BY DEF IInv, SensorInRange, TempRange
<1>2. QED
  BY <1>1, IInvHolds, PTL
=============================================================================
