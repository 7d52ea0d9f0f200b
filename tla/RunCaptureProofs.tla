-------------------------- MODULE RunCaptureProofs --------------------------
(***************************************************************************)
(* For every size of the three pipes, of the input, the output and the     *)
(* log: what run_capture_stdout returns is the whole of what the child     *)
(* said.                                                                   *)
(***************************************************************************)
EXTENDS RunCapture, TLAPS

-----------------------------------------------------------------------------
\* The inductive invariant

\* What the child has said is in a pipe or with the future that reads it, and a
\* future that has ended left nothing behind of a child that is gone.
LogAccounted ==
  /\ logged = drained + errPipe /\ (child = "Logging" => logged < MaxLog)
  /\ errbuf => child = "Exited" /\ errPipe = 0
OutAccounted ==
  /\ emitted = out + outPipe
  /\ read => child = "Exited" /\ outPipe = 0

\* stdin is open until the writer is done with it, and what a child that listens
\* has not read is still in it.
InputAccounted ==
  /\ pc = "Joining" /\ wrote = "Pending" /\ input > 0 => inEnd = "Open"
  /\ wrote = "Ok" => written = input
  /\ child # "Exited" /\ ~deaf => written = taken + inPipe
  /\ sawEof => inEnd = "Closed" /\ taken = written

\* The call has an answer when it is over, and waits only when all have ended.
CallInOrder ==
  /\ pc = "Unspawned" => child = "Unspawned" /\ ~sawEof
  /\ pc = "Waiting" => wrote # "Pending" /\ read /\ errbuf
  /\ pc # "Gone" => result.verdict = "None"

IInv ==
  /\ TypeOK
  /\ LogAccounted
  /\ OutAccounted
  /\ InputAccounted
  /\ CallInOrder
  /\ CaptureIsWhole

-----------------------------------------------------------------------------
\* The three answers of an exit, and what each rests on.
LEMMA OutcomeIs ==
  /\ status # "Success" =>
       Outcome = [verdict |-> "NonZeroExit", out |-> 0, tail |-> Tail(drained)]
  /\ status = "Success" /\ wrote = "Err" =>
       Outcome = [verdict |-> "ChildDied", out |-> 0, tail |-> Tail(drained)]
  /\ status = "Success" /\ wrote # "Err" =>
       Outcome = [verdict |-> "Ok", out |-> out, tail |-> {}]
BY DEF Outcome

\* The inductive invariant holds at first.
LEMMA InitInvariant == Init => IInv
<1> SUFFICES ASSUME Init PROVE IInv
  OBVIOUS
<1> USE PipeAssumption, MaxLogAssumption, StdoutAssumption, InputAssumption
    DEF Init, ChildInit, Pending
<1>1. killed \in BOOLEAN /\ deaf \in BOOLEAN /\ sawEof \in BOOLEAN
      /\ emitting \in BOOLEAN /\ read \in BOOLEAN /\ errbuf \in BOOLEAN
  OBVIOUS
<1>2. TypeOK
  BY <1>1 DEF TypeOK, ChildTypeOK
<1>3. LogAccounted /\ OutAccounted /\ InputAccounted /\ CallInOrder /\ CaptureIsWhole
  BY DEF LogAccounted, OutAccounted, InputAccounted, CallInOrder, CaptureIsWhole
<1> QED
  BY <1>2, <1>3 DEF IInv

\* The exit is waited for: the answer is made of what the futures brought.
LEMMA WaitedInvariant == IInv /\ Waited => IInv'
<1> SUFFICES ASSUME IInv, Waited PROVE IInv'
  OBVIOUS
<1> USE DEF IInv
<1>1. /\ pc = "Waiting" /\ child = "Exited" /\ pc' = "Gone" /\ result' = Outcome
      /\ UNCHANGED <<childVars, stdoutVars, input, written, wrote, out, read, drained, errbuf>>
  BY DEF Waited
<1>2. wrote # "Pending" /\ drained = logged /\ out = emitted
  BY <1>1, PipeAssumption, StdoutAssumption
     DEF CallInOrder, LogAccounted, OutAccounted, TypeOK, ChildTypeOK
<1>3. wrote # "Err" => written = input
  BY <1>2 DEF TypeOK, InputAccounted
<1>4. sawEof => taken = written
  BY DEF InputAccounted
<1>5. CaptureIsWhole'
  <2>1. CASE status # "Success"
    BY <2>1, <1>1, <1>2, OutcomeIs DEF CaptureIsWhole, childVars, stdoutVars
  <2>2. CASE status = "Success" /\ wrote = "Err"
    BY <2>2, <1>1, <1>2, OutcomeIs DEF CaptureIsWhole, childVars, stdoutVars
  <2>3. CASE status = "Success" /\ wrote # "Err"
    BY <2>3, <1>1, <1>2, <1>3, <1>4, OutcomeIs DEF CaptureIsWhole, childVars, stdoutVars
  <2> QED
    BY <2>1, <2>2, <2>3
<1>6. (TypeOK /\ LogAccounted /\ OutAccounted /\ InputAccounted /\ CallInOrder)'
  BY <1>1 DEF TypeOK, ChildTypeOK, LogAccounted, OutAccounted, InputAccounted, CallInOrder,
              childVars, stdoutVars
<1> QED
  BY <1>5, <1>6

\* Every step of the futures and of the child keeps it.
LEMMA StepInvariant == IInv /\ [Next]_vars => IInv'
<1> SUFFICES ASSUME IInv, [Next]_vars PROVE IInv'
  OBVIOUS
<1> USE PipeAssumption, MaxLogAssumption, StdoutAssumption, InputAssumption
    DEF IInv, TypeOK, ChildTypeOK, LogAccounted, OutAccounted, InputAccounted, CallInOrder,
        CaptureIsWhole, childVars, stdoutVars, callVars
<1>1. CASE Spawn
  BY <1>1 DEF Spawn, StdinPiped
<1>2. CASE SpawnFails
  BY <1>2 DEF SpawnFails, Pending
<1>3. CASE WriteUnit
  BY <1>3 DEF WriteUnit, Broken
<1>4. CASE WriterDone
  BY <1>4 DEF WriterDone, WriterEnds
<1>5. CASE WriterFails
  BY <1>5 DEF WriterFails, WriterEnds
<1>6. CASE ReadUnit
  BY <1>6 DEF ReadUnit, Reads
<1>7. CASE ReaderEnds
  BY <1>7 DEF ReaderEnds, Reads, StdoutEnds
<1>8. CASE DrainUnit
  BY <1>8 DEF DrainUnit
<1>9. CASE DrainEnds
  BY <1>9 DEF DrainEnds
<1>10. CASE Joined
  BY <1>10 DEF Joined
<1>11. CASE Waited
  BY <1>11, WaitedInvariant
<1>12. CASE Dropped
  BY <1>12 DEF Dropped, Pending
<1>13. CASE ChildEmits
  BY <1>13 DEF ChildEmits
<1>14. CASE ChildEmitted
  <2>1. /\ child = "Running" /\ outPipe < StdoutCap /\ emitting' = FALSE
        /\ outPipe' = outPipe + 1 /\ emitted' = emitted + 1
        /\ UNCHANGED <<childVars, callVars>>
    BY <1>14 DEF ChildEmitted
  <2>2. OutAccounted' /\ CaptureIsWhole'
    BY <2>1
  <2>3. emitting' \in BOOLEAN
    BY ONLY <2>1
  <2>4. outPipe' \in 0..StdoutCap /\ emitted' \in Nat
    BY <2>1
  <2> QED
    BY <2>1, <2>2, <2>3, <2>4
<1>15. CASE ChildElse
  <2> UNCHANGED <<stdoutVars, callVars>>
    BY <1>15 DEF ChildElse
  <2>1. CASE ChildReads
    BY <2>1 DEF ChildReads
  <2>2. CASE ChildSeesEof
    BY <2>2 DEF ChildSeesEof
  <2>3. CASE ChildLogs
    BY <2>3 DEF ChildLogs
  <2>4. CASE ChildLogged
    BY <2>4 DEF ChildLogged
  <2>5. CASE ChildStopsReading
    BY <2>5 DEF ChildStopsReading
  <2>6. CASE ChildExits
    BY <2>6 DEF ChildExits, Dies
  <2>7. CASE ChildCrashes
    BY <2>7 DEF ChildCrashes, Dies, Alive
  <2>8. CASE ChildIsKilled
    BY <2>8 DEF ChildIsKilled, Dies, Alive
  <2> QED
    BY <1>15, <2>1, <2>2, <2>3, <2>4, <2>5, <2>6, <2>7, <2>8 DEF ChildElse, ChildStep
<1>16. CASE UNCHANGED vars
  BY <1>16 DEF vars
<1> QED
  BY <1>1, <1>2, <1>3, <1>4, <1>5, <1>6, <1>7, <1>8, <1>9, <1>10, <1>11, <1>12, <1>13,
     <1>14, <1>15, <1>16
     DEF Next, CallStep, WriterStep, ReaderStep, DrainStep, Over

-----------------------------------------------------------------------------
\* The call, its futures and its child keep their variables in range
\* (session.rs:119-171).
THEOREM TypeCorrect == Spec => []TypeOK
<1>1. IInv => TypeOK
  BY DEF IInv
<1> QED
  BY <1>1, InitInvariant, StepInvariant, PTL DEF Spec

\* What the call returns is the whole of what the child said: all of its output
\* on success, the end of all of its log on an error (session.rs:157-170).
THEOREM CaptureIsSound == Spec => []CaptureIsWhole
<1>1. IInv => CaptureIsWhole
  BY DEF IInv
<1> QED
  BY <1>1, InitInvariant, StepInvariant, PTL DEF Spec
=============================================================================
