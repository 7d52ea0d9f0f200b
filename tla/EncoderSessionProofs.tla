------------------------ MODULE EncoderSessionProofs ------------------------
(***************************************************************************)
(* For every pipe size, frame size, log and number of calls: an error      *)
(* carries the child's whole log, and success means that every frame was   *)
(* written whole.  For any number of smoke frames: probe_encoders chooses  *)
(* hardware exactly when it has seen it work.                              *)
(***************************************************************************)
EXTENDS EncoderProbe, TLAPS

-----------------------------------------------------------------------------
\* The inductive invariant

\* What the child has logged is in the pipe or with the drainer, and a drainer
\* that has ended left nothing in the pipe of a child that is gone.
LogAccounted ==
  /\ logged = drained + errPipe /\ (child = "Logging" => logged < MaxLog)
  /\ drainer = "Ended" => child = "Exited" /\ errPipe = 0

\* The handle is there until the first error takes it.
HandleKept ==
  /\ pc = "Unspawned" => child = "Unspawned" /\ errors = 0 /\ sent = 0 /\ written = 0
  /\ errors = 0 /\ pc \notin {"Unspawned", "Gone"} => handle
  /\ result.verdict \in {"ChildDied", "NonZeroExit"} => errors # 0
  /\ result.verdict = "Finished" => pc = "Gone"

Reaping ==
  /\ reaped => child = "Exited"
  /\ pc \in {"WriteTail", "FinishTail"} => reaped

\* Before the first error, between calls every frame is whole, and within one
\* what is missing is what is left.
FramesWhole ==
  errors = 0 =>
    /\ pc \in {"Unspawned", "Idle", "Waiting", "FinishTail"} => written = sent * FrameUnits
    /\ pc = "Writing" => written + left = sent * FrameUnits + FrameUnits

\* A child that has not closed its stdin has read what is no longer in it.
InputAccounted ==
  /\ child # "Exited" /\ ~deaf => written = taken + inPipe
  /\ sawEof => inEnd = "Closed" /\ inPipe = 0 /\ taken = written /\ pc # "Unspawned"

IInv ==
  /\ TypeOK
  /\ LogAccounted
  /\ HandleKept
  /\ Reaping
  /\ FramesWhole
  /\ InputAccounted
  /\ ErrorCarriesLog
  /\ SuccessIsWhole
-----------------------------------------------------------------------------
\* What one more frame adds to the units written.
LEMMA NextFrame ==
  ASSUME NEW s \in Nat, NEW f \in Nat
  PROVE  s * f \in Nat /\ (s + 1) * f = s * f + f
BY SMT

\* The inductive invariant holds at first.
LEMMA InitInvariant == Init => IInv
<1> SUFFICES ASSUME Init PROVE IInv
  OBVIOUS
<1> USE PipeAssumption, MaxLogAssumption, FrameAssumption DEF Init, ChildInit, NoResult
<1>1. TypeOK
  <2>1. killed \in BOOLEAN /\ deaf \in BOOLEAN /\ sawEof \in BOOLEAN
        /\ handle \in BOOLEAN /\ reaped \in BOOLEAN
    OBVIOUS
  <2>2. left \in 0..FrameUnits /\ drained \in 0..logged
    OBVIOUS
  <2> QED
    BY <2>1, <2>2 DEF TypeOK, ChildTypeOK
<1>2. LogAccounted /\ HandleKept /\ Reaping /\ InputAccounted
  BY DEF LogAccounted, HandleKept, Reaping, InputAccounted
<1>3. FramesWhole /\ ErrorCarriesLog /\ SuccessIsWhole
  BY DEF FramesWhole, ErrorCarriesLog, SuccessIsWhole
<1> QED
  BY <1>1, <1>2, <1>3 DEF IInv

\* Every action of the caller, the drainer and the child keeps it.
LEMMA StepInvariant == IInv /\ [Next]_vars => IInv'
<1> SUFFICES ASSUME IInv, [Next]_vars PROVE IInv'
  OBVIOUS
<1> USE PipeAssumption, MaxLogAssumption, FrameAssumption, NextFrame
    DEF IInv, TypeOK, ChildTypeOK, LogAccounted, HandleKept, Reaping, FramesWhole,
        InputAccounted, ErrorCarriesLog, SuccessIsWhole
<1>1. CASE Spawn
  BY <1>1 DEF Spawn, childVars
<1>2. CASE SpawnFails
  BY <1>2 DEF SpawnFails, childVars, NoResult
<1>3. CASE CallWriteFrame
  BY <1>3 DEF CallWriteFrame, childVars
<1>4. CASE WriteUnit
  BY <1>4 DEF WriteUnit, childVars, More, Broken
<1>5. CASE FrameWritten
  BY <1>5 DEF FrameWritten, childVars, Whole, NoResult
<1>6. CASE WriteFails
  BY <1>6 DEF WriteFails, childVars, Kill, Broken
<1>7. CASE WriteReaps
  BY <1>7 DEF WriteReaps, childVars, Reap
<1>8. CASE WriteErrs
  <2>1. result'.verdict = "ChildDied" /\ (errors = 0 => result'.tail = Tail(drained))
    BY <1>8 DEF WriteErrs, StderrTail
  <2>2. errors = 0 => drained = logged
    BY <1>8 DEF WriteErrs, TailReady
  <2>3. handle' \in BOOLEAN /\ reaped' \in BOOLEAN
    BY <1>8 DEF WriteErrs
  <2>4. TypeOK'
    BY <1>8, <2>1, <2>3 DEF WriteErrs, childVars
  <2>5. LogAccounted' /\ HandleKept' /\ Reaping'
    BY <1>8, <2>1 DEF WriteErrs, childVars
  <2>6. reaped' /\ child' = "Exited" /\ logged' = logged /\ errors' = errors + 1
    BY <1>8 DEF WriteErrs, childVars
  <2>7. FramesWhole' /\ SuccessIsWhole'
    BY <2>1, <2>6
  <2>8. InputAccounted'
    BY <1>8 DEF WriteErrs, childVars
  <2>9. ErrorCarriesLog'
    BY <2>1, <2>2, <2>6
  <2> QED
    BY <2>4, <2>5, <2>7, <2>8, <2>9
<1>9. CASE CallFinish
  BY <1>9 DEF CallFinish, childVars, CloseStdin
<1>10. CASE FinishReaps
  BY <1>10 DEF FinishReaps, childVars, Reap
<1>11. CASE Finished
  <2>1. result'.verdict \in {"Finished", "NonZeroExit"}
    BY <1>11 DEF Finished, NoResult
  <2>2. result'.verdict = "NonZeroExit" =>
          errors' = errors + 1 /\ (errors = 0 => result'.tail = Tail(drained))
    BY <1>11 DEF Finished, NoResult, StderrTail
  <2>3. result'.verdict = "Finished" => status = "Success" /\ errors' = errors
    BY <1>11 DEF Finished, NoResult
  <2>4. errors = 0 => drained = logged
    BY <1>11 DEF Finished, TailReady
  <2>5. errors' \in Nat /\ (errors' = 0 => errors = 0)
    BY <1>11 DEF Finished
  <2>6. /\ pc = "FinishTail" /\ pc' = "Gone" /\ handle' = FALSE
        /\ UNCHANGED <<childVars, left, written, sent, drainer, drained, reaped>>
    BY <1>11 DEF Finished
  <2>7. handle' \in BOOLEAN /\ reaped' \in BOOLEAN
    BY <2>6
  <2>8. TypeOK'
    BY <2>1, <2>5, <2>6, <2>7 DEF childVars
  <2>9. LogAccounted' /\ HandleKept' /\ Reaping'
    BY <2>1, <2>2, <2>5, <2>6 DEF childVars
  <2>10. FramesWhole' /\ InputAccounted'
    BY <2>5, <2>6 DEF childVars
  <2>11. reaped' /\ child' = "Exited" /\ logged' = logged
    BY <2>6 DEF childVars
  <2>12. ErrorCarriesLog'
    BY <2>1, <2>2, <2>4, <2>11
  <2>13. SuccessIsWhole'
    BY <2>3, <2>5, <2>6 DEF childVars
  <2> QED
    BY <2>8, <2>9, <2>10, <2>12, <2>13
<1>12. CASE Dropped
  BY <1>12 DEF Dropped, childVars, KillOnDrop, NoResult
<1>13. CASE Drain
  BY <1>13 DEF Drain, childVars, Drains
<1>14. CASE DrainEnds
  BY <1>14 DEF DrainEnds, childVars, Drains
<1>15. CASE ChildReads /\ UNCHANGED sessionVars
  BY <1>15 DEF ChildReads, sessionVars
<1>16. CASE ChildSeesEof /\ UNCHANGED sessionVars
  BY <1>16 DEF ChildSeesEof, sessionVars
<1>17. CASE ChildLogs /\ UNCHANGED sessionVars
  BY <1>17 DEF ChildLogs, sessionVars
<1>18. CASE ChildLogged /\ UNCHANGED sessionVars
  BY <1>18 DEF ChildLogged, sessionVars
<1>19. CASE ChildStopsReading /\ UNCHANGED sessionVars
  BY <1>19 DEF ChildStopsReading, sessionVars
<1>20. CASE ChildExits /\ UNCHANGED sessionVars
  BY <1>20 DEF ChildExits, sessionVars, Dies
<1>21. CASE ChildCrashes /\ UNCHANGED sessionVars
  BY <1>21 DEF ChildCrashes, sessionVars, Dies, Alive
<1>22. CASE ChildIsKilled /\ UNCHANGED sessionVars
  BY <1>22 DEF ChildIsKilled, sessionVars, Dies, Alive
<1>23. CASE UNCHANGED vars
  BY <1>23 DEF vars, childVars, sessionVars
<1> QED
  BY <1>1, <1>2, <1>3, <1>4, <1>5, <1>6, <1>7, <1>8, <1>9, <1>10, <1>11, <1>12, <1>13, <1>14, <1>15, <1>16, <1>17, <1>18, <1>19, <1>20, <1>21, <1>22, <1>23
     DEF Next, SessionStep, WriteStep, FinishStep, ChildStep, Over

-----------------------------------------------------------------------------
\* The inductive invariant holds always.
THEOREM Invariance == Spec => []IInv
BY InitInvariant, StepInvariant, PTL DEF Spec

\* Type correctness.
THEOREM TypeCorrect == Spec => []TypeOK
<1>1. IInv => TypeOK
  BY DEF IInv
<1> QED
  BY <1>1, Invariance, PTL

\* However the caller, the drainer and the child interleave, the first error a
\* session returns carries the end of the child's whole log, and the child has
\* been waited for (session.rs:58-94).
THEOREM LogIsCarried == Spec => []ErrorCarriesLog
<1>1. IInv => ErrorCarriesLog
  BY DEF IInv
<1> QED
  BY <1>1, Invariance, PTL

\* A session that finishes without an error has written every frame whole, to a
\* child that exited with success (session.rs:67-94).
THEOREM SuccessIsSound == Spec => []SuccessIsWhole
<1>1. IInv => SuccessIsWhole
  BY DEF IInv
<1> QED
  BY <1>1, Invariance, PTL
-----------------------------------------------------------------------------
\* The probe over the session

\* What a smoke encode that finished has shown.
Worked ==
  result.verdict = "Finished" => errors = 0 /\ sent = SmokeFrames /\ NvencListed

\* The session is there only from the listing on, and finish is only called with
\* every frame written; once the probe is done nobody calls the session again.
ProbeInv ==
  /\ IInv
  /\ Worked
  /\ step \in {"Start", "Listing"} => pc = "Unspawned" /\ result.verdict = "None"
  /\ step = "Smoke" =>
       /\ NvencListed
       /\ pc \in {"Waiting", "FinishTail"} => errors = 0 /\ sent = SmokeFrames
  /\ step = "Done" =>
       /\ pc \in {"Unspawned", "Gone"}
       /\ IF Proven THEN table = Hardware ELSE table = Software

LEMMA InitProbeInv == ProbeInit => ProbeInv
<1>1. Init => IInv
  BY InitInvariant
<1>2. QED
  BY <1>1 DEF ProbeInit, Init, NoResult, ProbeInv, Worked

\* The probe's own steps, and those of its listing, leave the session alone.
LEMMA ProbeStepInv ==
  ASSUME ProbeInv,
         \/ ForcedSoftware \/ List \/ ListSpawnFails \/ ListTimeout \/ ListWithout \/ ListWith
         \/ SmokeReturns \/ ListerExits \/ ListerIsKilled \/ UNCHANGED allVars
  PROVE  ProbeInv'
<1>1. vars' = vars
  BY DEF ForcedSoftware, List, ListSpawnFails, ListTimeout, ListWithout, ListWith, SmokeReturns,
     ListerExits, ListerIsKilled, allVars
<1>2. IInv' /\ result' = result /\ errors' = errors /\ sent' = sent /\ pc' = pc
  BY <1>1, StepInvariant DEF ProbeInv, vars, sessionVars
<1> USE <1>2 DEF ProbeInv, Worked, Proven, NvencListed, Return
<1>3. CASE ForcedSoftware \/ List \/ ListSpawnFails
  BY <1>3 DEF ForcedSoftware, List, ListSpawnFails
<1>4. CASE ListTimeout \/ ListWithout \/ ListWith
  BY <1>4 DEF ListTimeout, ListWithout, ListWith
<1>5. CASE SmokeReturns
  BY <1>5 DEF SmokeReturns, Hardware
<1>6. CASE ListerExits \/ ListerIsKilled
  <2>1. lister = "Running" /\ step' = step /\ table' = table
    BY <1>6 DEF ListerExits, ListerIsKilled
  <2>2. QED
    BY <2>1
<1>7. CASE UNCHANGED allVars
  BY <1>7 DEF allVars, probeVars, Hardware
<1>8. QED
  BY <1>3, <1>4, <1>5, <1>6, <1>7

\* The steps of the session, the drainer and the child under the probe.
LEMMA SessionProbeInv ==
  ASSUME ProbeInv,
         \/ SmokeSpawns \/ SmokeWrites \/ SmokeFinishes \/ SmokeGoesOn
         \/ SmokeFails \/ SmokeTimeout
         \/ (Drain \/ DrainEnds) /\ UNCHANGED probeVars
         \/ ChildStep /\ UNCHANGED <<sessionVars, probeVars>>
  PROVE  ProbeInv'
<1>1. Next
  BY DEF SmokeSpawns, SmokeWrites, SmokeFinishes, SmokeGoesOn, SmokeFails, SmokeTimeout,
     Next, SessionStep
<1>2. IInv /\ IInv' /\ HandleKept
  BY <1>1, StepInvariant DEF ProbeInv, IInv
<1> USE <1>2 DEF ProbeInv, Worked, Proven, NvencListed, Return
<1>3. CASE SmokeSpawns
  BY <1>3 DEF SmokeSpawns, Spawn, SpawnFails, NoResult, probeVars
<1>4. CASE SmokeWrites
  BY <1>4 DEF SmokeWrites, CallWriteFrame, probeVars, HandleKept
<1>5. CASE SmokeFinishes
  BY <1>5 DEF SmokeFinishes, CallFinish, probeVars
<1>6. CASE SmokeGoesOn
  <2>1. step = "Smoke" /\ UNCHANGED probeVars /\ (WriteStep \/ FinishStep)
    BY <1>6 DEF SmokeGoesOn
  <2>2. CASE WriteStep
    BY <2>1, <2>2 DEF WriteStep, WriteUnit, FrameWritten, WriteFails, WriteReaps, WriteErrs, Reap,
       NoResult, probeVars, HandleKept
  <2>3. CASE FinishStep
    BY <2>1, <2>3 DEF FinishStep, FinishReaps, Finished, Reap, NoResult, probeVars, HandleKept
  <2>4. QED
    BY <2>1, <2>2, <2>3
<1>7. CASE SmokeFails \/ SmokeTimeout
  BY <1>7 DEF SmokeFails, SmokeTimeout, Dropped, NoResult
<1>8. CASE (Drain \/ DrainEnds) /\ UNCHANGED probeVars
  BY <1>8 DEF Drain, DrainEnds, probeVars, Hardware
<1>9. CASE ChildStep /\ UNCHANGED <<sessionVars, probeVars>>
  BY <1>9 DEF sessionVars, probeVars, Hardware
<1>10. QED
  BY <1>3, <1>4, <1>5, <1>6, <1>7, <1>8, <1>9

\* For every frame size, number of smoke frames and behaviour of the two
\* children: hardware is chosen exactly when the smoke encode took every frame
\* and exited well, on a listing that names the encoder (probe.rs:54-101).
THEOREM HardwareWorked == ProbeSpec => []HardwareIsProven
<1>1. ProbeInv /\ [ProbeNext]_allVars => ProbeInv'
  BY ProbeStepInv, SessionProbeInv DEF ProbeNext, ProbeRuns, ProbeOver
<1>2. ProbeInv => HardwareIsProven
  <2> SUFFICES ASSUME ProbeInv, step = "Done" PROVE HardwareIsProven
    BY DEF HardwareIsProven
  <2>1. /\ Hardware.h264 = "H264Nvenc" /\ Software.h264 # "H264Nvenc"
        /\ Software.hevc # "HevcNvenc"
        /\ Hardware.hevc = "HevcNvenc" => "hevc_nvenc" \in listed
    BY DEF Hardware, Software
  <2>2. IF Proven THEN table = Hardware ELSE table = Software
    BY DEF ProbeInv
  <2>3. Proven => /\ errors = 0 /\ sent = SmokeFrames /\ NvencListed
                  /\ reaped /\ status = "Success" /\ written = sent * FrameUnits
    BY DEF ProbeInv, Worked, Proven, IInv, SuccessIsWhole
  <2>4. QED
    BY <2>1, <2>2, <2>3 DEF HardwareIsProven, Proven, NvencListed
<1>3. QED
  BY <1>1, <1>2, InitProbeInv, PTL DEF ProbeSpec
=============================================================================
