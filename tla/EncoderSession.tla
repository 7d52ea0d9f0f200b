--------------------------- MODULE EncoderSession ---------------------------
(***************************************************************************)
(* EncoderSession (replay-encode/src/session.rs:27-95): a caller streams   *)
(* frames into ffmpeg's stdin and collects its exit, while a task of its   *)
(* own drains ffmpeg's stderr.  An action is what runs between two awaits, *)
(* so that the caller, the drainer and the child interleave as they may.   *)
(*                                                                         *)
(* The caller writes frames and finishes when it likes, goes on after an   *)
(* error, or drops the session at any await, as a timeout around it does   *)
(* (probe.rs:86-90).  One thing the API allows and no caller in the        *)
(* repository does is left out: to cancel one write_frame and keep the     *)
(* session.  A frame would then be half written, or the stderr handle      *)
(* lost in a cancelled stderr_tail, and ErrorCarriesLog and SuccessIsWhole *)
(* would not hold.                                                         *)
(***************************************************************************)
EXTENDS FfmpegChild

CONSTANTS
  FrameUnits,  \* units one frame takes in the pipe
  TailUnits,   \* STDERR_TAIL_BYTES
  MaxCalls     \* bound: the write_frame calls of one session

ASSUME FrameAssumption == FrameUnits \in Nat \ {0} /\ TailUnits \in Nat
ASSUME MaxCallsAssumption == MaxCalls \in Nat

VARIABLES
  pc,       \* where the caller is in the session
  left,     \* units of the current frame still to write
  written,  \* units the pipe has accepted
  sent,     \* write_frame calls that returned Ok
  errors,   \* calls that returned an error
  drainer,  \* the drainer task: "None", "Draining" or "Ended"
  handle,   \* self.stderr is Some
  drained,  \* units the drainer has read
  reaped,   \* the child has been waited for
  result    \* what the last call returned, and the stderr tail with it

sessionVars == <<pc, left, written, sent, errors, drainer, handle, drained, reaped, result>>
vars == <<childVars, sessionVars>>

\* tail_str: the last units of a log of n.
Tail(n) == {i \in 1..n : i + TailUnits > n}

NoResult == [verdict |-> "None", tail |-> {}]

-----------------------------------------------------------------------------
\* spawn

Spawn ==
  /\ pc = "Unspawned"
  /\ child' = "Running" /\ inEnd' = "Open"
  /\ drainer' = "Draining" /\ handle' = TRUE
  /\ pc' = "Idle"
  /\ UNCHANGED <<status, killed, deaf, sawEof, inPipe, taken, errPipe, logged>>
  /\ UNCHANGED <<left, written, sent, errors, drained, reaped, result>>

SpawnFails ==
  /\ pc = "Unspawned"
  /\ pc' = "Gone" /\ result' = [NoResult EXCEPT !.verdict = "Spawn"]
  /\ UNCHANGED <<childVars, left, written, sent, errors, drainer, handle, drained, reaped>>

-----------------------------------------------------------------------------
\* write_frame

CallWriteFrame ==
  /\ pc = "Idle" /\ sent + errors < MaxCalls
  /\ pc' = "Writing" /\ left' = FrameUnits
  /\ UNCHANGED <<childVars, written, sent, errors, drainer, handle, drained, reaped, result>>

\* write_all has something left to write.
More == left > 0

\* write_all puts in what there is room for, and goes on.
WriteUnit ==
  /\ pc = "Writing" /\ More
  /\ inEnd = "Open" /\ ~Broken /\ inPipe < StdinCap
  /\ inPipe' = inPipe + 1
  /\ left' = left - 1 /\ written' = written + 1
  /\ UNCHANGED <<child, status, killed, deaf, sawEof, inEnd, taken, errPipe, logged>>
  /\ UNCHANGED <<pc, sent, errors, drainer, handle, drained, reaped, result>>

\* Mutant: write instead of write_all, one call that takes part of the frame.
MutantWhole == left < FrameUnits
\* write_all is done.
Whole == left = 0

FrameWritten ==
  /\ pc = "Writing" /\ Whole
  /\ pc' = "Idle" /\ sent' = sent + 1
  /\ result' = [NoResult EXCEPT !.verdict = "Ok"]
  /\ UNCHANGED <<childVars, left, written, errors, drainer, handle, drained, reaped>>

\* Child::kill: the signal is sent unless the child is already waited for.
Kill == killed' = (killed \/ ~reaped)

\* A broken pipe, or stdin closed by an earlier failure.
WriteFails ==
  /\ pc = "Writing" /\ left > 0
  /\ inEnd = "Closed" \/ Broken
  /\ inEnd' = "Closed" /\ Kill
  /\ pc' = "Killing"
  /\ UNCHANGED <<child, status, deaf, sawEof, inPipe, taken, errPipe, logged>>
  /\ UNCHANGED <<left, written, sent, errors, drainer, handle, drained, reaped, result>>

Reap(at, next) ==
  /\ pc = at /\ child = "Exited"
  /\ reaped' = TRUE
  /\ pc' = next
  /\ UNCHANGED <<childVars, left, written, sent, errors, drainer, handle, drained, result>>

WriteReaps == Reap("Killing", "WriteTail")

\* Mutant: the tail is taken from what happens to be drained.
MutantTailReady == TRUE
\* stderr_tail awaits the drainer, the first time.
TailReady == handle => drainer = "Ended"

StderrTail == IF handle THEN Tail(drained) ELSE {}

WriteErrs ==
  /\ pc = "WriteTail" /\ TailReady
  /\ result' = [verdict |-> "ChildDied", tail |-> StderrTail]
  /\ errors' = errors + 1
  /\ handle' = FALSE
  /\ pc' = "Idle"
  /\ UNCHANGED <<childVars, left, written, sent, drainer, drained, reaped>>

-----------------------------------------------------------------------------
\* finish

\* Mutant: finish waits with stdin still open.
MutantCloseStdin == UNCHANGED inEnd
\* drop(self.stdin.take())
CloseStdin == inEnd' = "Closed"

CallFinish ==
  /\ pc = "Idle"
  /\ CloseStdin
  /\ pc' = "Waiting"
  /\ UNCHANGED <<child, status, killed, deaf, sawEof, inPipe, taken, errPipe, logged>>
  /\ UNCHANGED <<left, written, sent, errors, drainer, handle, drained, reaped, result>>

FinishReaps == Reap("Waiting", "FinishTail")

Finished ==
  /\ pc = "FinishTail" /\ TailReady
  /\ handle' = FALSE
  /\ pc' = "Gone"
  /\ \/ /\ status = "Success"
        /\ result' = [NoResult EXCEPT !.verdict = "Finished"]
        /\ UNCHANGED errors
     \/ /\ status # "Success"
        /\ result' = [verdict |-> "NonZeroExit", tail |-> StderrTail]
        /\ errors' = errors + 1
  /\ UNCHANGED <<childVars, left, written, sent, drainer, drained, reaped>>

-----------------------------------------------------------------------------
\* The session is dropped where it stands: kill_on_drop, stdin closed, the
\* drainer detached.

\* Mutant: Command without kill_on_drop.
MutantKillOnDrop == UNCHANGED killed
KillOnDrop == killed' = (killed \/ ~reaped)

Dropped ==
  /\ pc \notin {"Unspawned", "Gone"}
  /\ inEnd' = "Closed" /\ KillOnDrop
  /\ handle' = FALSE
  /\ pc' = "Gone" /\ result' = [NoResult EXCEPT !.verdict = "Dropped"]
  /\ UNCHANGED <<child, status, deaf, sawEof, inPipe, taken, errPipe, logged>>
  /\ UNCHANGED <<left, written, sent, errors, drainer, drained, reaped>>

-----------------------------------------------------------------------------
\* drain_stderr, a task of its own

\* Mutant: stderr is read only when the tail is wanted.
MutantDrains == drainer = "Draining" /\ pc \in {"WriteTail", "FinishTail", "Gone"}
Drains == drainer = "Draining"

Drain ==
  /\ Drains /\ errPipe > 0
  /\ errPipe' = errPipe - 1 /\ drained' = drained + 1
  /\ UNCHANGED <<child, status, killed, deaf, sawEof, inEnd, inPipe, taken, logged>>
  /\ UNCHANGED <<pc, left, written, sent, errors, drainer, handle, reaped, result>>

\* read_to_end ends when the child is gone and the pipe is empty.
DrainEnds ==
  /\ Drains /\ errPipe = 0 /\ child = "Exited"
  /\ drainer' = "Ended"
  /\ UNCHANGED <<childVars, pc, left, written, sent, errors, handle, drained, reaped, result>>

-----------------------------------------------------------------------------
WriteStep == WriteUnit \/ FrameWritten \/ WriteFails \/ WriteReaps \/ WriteErrs
FinishStep == FinishReaps \/ Finished
SessionStep ==
  \/ Spawn \/ SpawnFails \/ CallWriteFrame \/ WriteStep
  \/ CallFinish \/ FinishStep \/ Dropped

Init ==
  /\ ChildInit
  /\ pc = "Unspawned" /\ left = 0 /\ written = 0
  /\ sent = 0 /\ errors = 0
  /\ drainer = "None" /\ handle = FALSE /\ drained = 0
  /\ reaped = FALSE /\ result = NoResult

Over == pc = "Gone" /\ UNCHANGED vars

Next ==
  \/ SessionStep
  \/ Drain \/ DrainEnds
  \/ ChildStep /\ UNCHANGED sessionVars
  \/ Over

\* A task that can run is run by the tokio runtime; whether and when the caller
\* calls is its own affair.  ffmpeg is trusted to read on and log on while it
\* runs, to exit once it has read the end of its input, and to die of a SIGKILL.
Spec ==
  /\ Init /\ [][Next]_vars
  /\ WF_vars(WriteStep) /\ WF_vars(FinishStep)
  /\ WF_vars(Drain) /\ WF_vars(DrainEnds)
  /\ WF_vars(ChildReads /\ UNCHANGED sessionVars)
  /\ WF_vars(ChildSeesEof /\ UNCHANGED sessionVars)
  /\ WF_vars(ChildLogged /\ UNCHANGED sessionVars)
  /\ WF_vars(sawEof /\ ChildExits /\ UNCHANGED sessionVars)
  /\ WF_vars(ChildIsKilled /\ UNCHANGED sessionVars)

-----------------------------------------------------------------------------
\* Properties

TypeOK ==
  /\ ChildTypeOK
  /\ pc \in {"Unspawned", "Idle", "Writing", "Killing", "WriteTail",
             "Waiting", "FinishTail", "Gone"}
  /\ left \in 0..FrameUnits /\ written \in Nat
  /\ sent \in Nat /\ errors \in Nat
  /\ drainer \in {"None", "Draining", "Ended"} /\ drained \in 0..logged
  /\ handle \in BOOLEAN /\ reaped \in BOOLEAN
  /\ result.verdict \in {"None", "Spawn", "Ok", "ChildDied", "Finished",
                         "NonZeroExit", "Dropped"}

\* The first error a session returns carries the end of all the child ever
\* wrote to stderr, and the child is gone and waited for when it is returned
\* (session.rs:1-4, 65-66): no log line still in the pipe is missed, however
\* the child, the drainer and the caller interleave.
ErrorCarriesLog ==
  (result.verdict \in {"ChildDied", "NonZeroExit"} /\ errors = 1) =>
    /\ reaped /\ child = "Exited"
    /\ result.tail = Tail(logged)

\* A session that finishes, no write having failed, has put every frame into
\* the pipe whole and its child exited with success; a child that read to the
\* end of its input has read every frame (session.rs:82-94, 98-111).
SuccessIsWhole ==
  (result.verdict = "Finished" /\ errors = 0) =>
    /\ reaped /\ status = "Success"
    /\ written = sent * FrameUnits
    /\ sawEof => taken = written

\* A write_frame call returns whatever the child does short of hanging: while
\* the child is busy logging, once it has died and once it has closed its stdin
\* and lives on (session.rs:50, 67-80).
WriteReturns == pc \in {"Writing", "Killing", "WriteTail"} ~> pc \in {"Idle", "Gone"}

\* finish returns if the child reads its input to the end: it has to be told
\* the end, and its stderr must not fill up (session.rs:83-86).
FinishReturns == pc \in {"Waiting", "FinishTail"} ~> (pc = "Gone" \/ deaf)

\* Once the session is gone, finished or dropped at any await, neither the child
\* nor the drainer task outlives it for long (session.rs:43, 50; probe.rs:86-90).
NothingOutlivesSession ==
  (pc = "Gone" /\ drainer # "None") ~> (child = "Exited" /\ drainer = "Ended")
=============================================================================
