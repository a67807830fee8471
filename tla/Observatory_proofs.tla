-------------------------- MODULE Observatory_proofs --------------------------
(***************************************************************************)
(* Proof that the weather monitor calls no device once cleanup() has      *)
(* stopped them, for every frame bound, every set of created devices,      *)
(* every weather history and every place a Ctrl+C ends the try block.     *)
(***************************************************************************)
EXTENDS Observatory, TLAPS

(***************************************************************************)
(* Cleanup against the weather monitor (lines 469-481 and 142-157).       *)
(***************************************************************************)

\* From cleanup's self.running = False on, running stays clear.
AfterCleanup == {"join", "stopdev", "shutdown", "done"}
\* Once the join has returned, the monitor is not inside a refresh or an
\* emergency shutdown: it has ended, or it sleeps or is about to test the
\* cleared flag.
AfterJoin == {"stopdev", "shutdown", "done"}
MonitorQuiet == {"none", "test", "sleep", "done"}

\* Once the devices are stopped, cleanup has cleared running and the join
\* has returned.
StopInv ==
    /\ mpc \in AfterCleanup => ~running
    /\ mpc \in AfterJoin => wpc \in MonitorQuiet
    /\ stopped => mpc \in {"shutdown", "done"}

\* Cleanup clears running, and it leaves the join only while the monitor is quiet.
LEMMA MainStepStopInv ==
    ASSUME StopInv, MainStep
    PROVE  StopInv'
<1> USE DEF StopInv, AfterCleanup, AfterJoin, MonitorQuiet, MainVarsOther
<1>1. CASE Initialize \/ StartMonitoring \/ PreCheck
  BY <1>1 DEF Initialize, StartMonitoring, PreCheck
<1>2. CASE Unpark \/ OpenShutter \/ OpenCover
  BY <1>2 DEF Unpark, OpenShutter, OpenCover
<1>3. CASE ImagingCheck \/ ImagingExpose \/ ImagingFinish
  BY <1>3 DEF ImagingCheck, ImagingExpose, ImagingFinish
<1>4. CASE CloseCover \/ ClosePark \/ CloseShutter
  BY <1>4 DEF CloseCover, ClosePark, CloseShutter
<1>5. CASE CleanupStart
  BY <1>5 DEF CleanupStart
<1>6. CASE CleanupJoin \/ StopDevices \/ Shutdown
  BY <1>6 DEF CleanupJoin, StopDevices, Shutdown
<1>7. QED
  BY <1>1, <1>2, <1>3, <1>4, <1>5, <1>6 DEF MainStep

\* A Ctrl+C comes only before cleanup(), and leaves running and the monitor
\* as they are.
LEMMA InterruptStopInv ==
    ASSUME StopInv, KeyboardInterrupt
    PROVE  StopInv'
  BY DEF StopInv, AfterCleanup, AfterJoin, KeyboardInterrupt, TryStates,
         MainStates

\* The monitor tests the cleared flag and ends; it calls no device.
LEMMA WeatherStepStopInv ==
    ASSUME StopInv, WeatherStep \/ WeatherChange
    PROVE  StopInv'
<1> USE DEF StopInv, AfterCleanup, AfterJoin, MonitorQuiet, WeatherVarsOther,
            Monitor
<1>1. CASE WeatherTest
  BY <1>1 DEF WeatherTest
<1>2. CASE WeatherCheck \/ WeatherWake
  BY <1>2 DEF WeatherCheck, WeatherWake
<1>3. CASE EmergencyDome \/ EmergencyPark \/ EmergencyCover \/ EmergencyCamera
  BY <1>3 DEF EmergencyDome, EmergencyPark, EmergencyCover, EmergencyCamera
<1>4. CASE WeatherChange
  BY <1>4 DEF WeatherChange
<1>5. QED
  BY <1>1, <1>2, <1>3, <1>4 DEF WeatherStep

\* The cleanup invariant holds in every reachable state.
THEOREM StopInvHolds == Spec => []StopInv
<1>1. Init => StopInv
  BY DEF Init, StopInv, AfterCleanup, AfterJoin
<1>2. StopInv /\ [Next]_vars => StopInv'
  <2> SUFFICES ASSUME StopInv, [Next]_vars PROVE StopInv'
    OBVIOUS
  <2>1. CASE MainStep
    BY <2>1, MainStepStopInv
  <2>2. CASE WeatherStep \/ WeatherChange
    BY <2>2, WeatherStepStopInv
  <2>3. CASE KeyboardInterrupt
    BY <2>3, InterruptStopInv
  <2>4. CASE UNCHANGED vars
    BY <2>4 DEF vars, StopInv
  <2>5. QED
    BY <2>1, <2>2, <2>3, <2>4 DEF Next
<1>3. QED
  BY <1>1, <1>2, PTL DEF Spec

\* Once cleanup has called stop_device on the devices, the weather monitor
\* calls none of them, for every frame bound, set of devices and weather
\* history, wherever a Ctrl+C sent the main thread to cleanup(): cleanup
\* clears self.running before its join(timeout=5), and the join gives up
\* only while the monitor sleeps, so the monitor's next step is the while
\* test that ends it.
THEOREM NoCommandAfterStopHolds == Spec => NoCommandAfterStop
<1>1. StopInv => ~(stopped /\ MonitorCalls)
  BY DEF StopInv, AfterJoin, MonitorQuiet, MonitorCalls
<1>2. StopInv /\ [Next]_vars
        => [(stopped /\ MonitorCalls) => wpc' = wpc]_vars
  BY <1>1
<1>3. QED
  BY <1>2, StopInvHolds, PTL DEF NoCommandAfterStop, Spec
=============================================================================
