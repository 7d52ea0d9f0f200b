----------------------------- MODULE RunCapture -----------------------------
(***************************************************************************)
(* run_capture_stdout (replay-encode/src/session.rs:119-171): one task     *)
(* writes ffmpeg's stdin, reads its stdout and drains its stderr, all      *)
(* three joined, then waits for the exit.  Here the child writes to its    *)
(* stdout too, and blocks when that pipe is full.                          *)
(*                                                                         *)
(* An action is what one of the three futures does between two awaits.     *)
(***************************************************************************)
EXTENDS FfmpegChild

CONSTANTS
  StdoutCap,  \* units the stdout pipe holds
  MaxOut,     \* bound: the units the child writes to stdout
  TailUnits,  \* STDERR_TAIL_BYTES
  MaxInput    \* bound: the units all the frames take

ASSUME StdoutAssumption == StdoutCap \in Nat \ {0} /\ MaxOut \in Nat
ASSUME InputAssumption == MaxInput \in Nat /\ TailUnits \in Nat

VARIABLES
  emitting,  \* the child is in a write to stdout
  outPipe,   \* units in stdout
  emitted,   \* units the child has written to stdout
  input,     \* the units of stdin_frames
  pc,        \* "Unspawned", "Joining", "Waiting" or "Gone"
  written,   \* units the writer has put into stdin
  wrote,     \* the writer: "Pending", "Ok" or "Err"
  out,       \* units the reader has read
  read,      \* the reader has seen the end of stdout
  drained,   \* units drain_stderr has read
  errbuf,    \* drain_stderr has seen the end of stderr
  result     \* what the call returned

stdoutVars == <<emitting, outPipe, emitted>>
callVars == <<input, pc, written, wrote, out, read, drained, errbuf, result>>
vars == <<childVars, stdoutVars, callVars>>

Pending == [verdict |-> "None", out |-> 0, tail |-> {}]

\* tail_str: the last units of a log of n.
Tail(n) == {i \in 1..n : i + TailUnits > n}

-----------------------------------------------------------------------------
\* The child's stdout

ChildEmits ==
  /\ child = "Running" /\ ~emitting /\ emitted < MaxOut
  /\ emitting' = TRUE
  /\ UNCHANGED <<childVars, outPipe, emitted, callVars>>

ChildEmitted ==
  /\ child = "Running" /\ emitting /\ outPipe < StdoutCap
  /\ emitting' = FALSE
  /\ outPipe' = outPipe + 1 /\ emitted' = emitted + 1
  /\ UNCHANGED <<childVars, callVars>>

\* Whatever else a child does, but not while it is blocked in that write.
ChildElse ==
  /\ \/ ~emitting /\ ChildStep
     \/ ChildCrashes \/ ChildIsKilled
  /\ UNCHANGED <<stdoutVars, callVars>>

-----------------------------------------------------------------------------
\* No frames, no pipe: stdin is then null.
StdinPiped == input > 0

Spawn ==
  /\ pc = "Unspawned"
  /\ child' = "Running"
  /\ inEnd' = IF StdinPiped THEN "Open" ELSE "Closed"
  /\ pc' = "Joining"
  /\ UNCHANGED <<status, killed, deaf, sawEof, inPipe, taken, errPipe, logged, stdoutVars>>
  /\ UNCHANGED <<input, written, wrote, out, read, drained, errbuf, result>>

SpawnFails ==
  /\ pc = "Unspawned"
  /\ pc' = "Gone" /\ result' = [Pending EXCEPT !.verdict = "Spawn"]
  /\ UNCHANGED <<childVars, stdoutVars, input, written, wrote, out, read, drained, errbuf>>

\* The three futures run while joined.

WriteUnit ==
  /\ pc = "Joining" /\ wrote = "Pending" /\ written < input
  /\ ~Broken /\ inPipe < StdinCap
  /\ inPipe' = inPipe + 1 /\ written' = written + 1
  /\ UNCHANGED <<child, status, killed, deaf, sawEof, inEnd, taken, errPipe, logged, stdoutVars>>
  /\ UNCHANGED <<input, pc, wrote, out, read, drained, errbuf, result>>

\* The writer ends, well or badly, and its stdin is dropped with it.
WriterEnds(how) == wrote' = how /\ inEnd' = "Closed"

WriterDone ==
  /\ pc = "Joining" /\ wrote = "Pending" /\ written = input
  /\ WriterEnds("Ok")
  /\ UNCHANGED <<child, status, killed, deaf, sawEof, inPipe, taken, errPipe, logged, stdoutVars>>
  /\ UNCHANGED <<input, pc, written, out, read, drained, errbuf, result>>

WriterFails ==
  /\ pc = "Joining" /\ wrote = "Pending" /\ written < input
  /\ Broken
  /\ WriterEnds("Err")
  /\ UNCHANGED <<child, status, killed, deaf, sawEof, inPipe, taken, errPipe, logged, stdoutVars>>
  /\ UNCHANGED <<input, pc, written, out, read, drained, errbuf, result>>

\* Mutant: awaited one after the other, stdin first.
MutantReads == pc = "Joining" /\ ~read /\ wrote # "Pending"
Reads == pc = "Joining" /\ ~read

ReadUnit ==
  /\ Reads /\ outPipe > 0
  /\ outPipe' = outPipe - 1 /\ out' = out + 1
  /\ UNCHANGED <<childVars, emitting, emitted>>
  /\ UNCHANGED <<input, pc, written, wrote, read, drained, errbuf, result>>

\* read_to_end ends when the child is gone and the pipe is empty.
StdoutEnds == outPipe = 0 /\ child = "Exited"

ReaderEnds ==
  /\ Reads /\ StdoutEnds
  /\ read' = TRUE
  /\ UNCHANGED <<childVars, stdoutVars, input, pc, written, wrote, out, drained, errbuf, result>>

DrainUnit ==
  /\ pc = "Joining" /\ ~errbuf /\ errPipe > 0
  /\ errPipe' = errPipe - 1 /\ drained' = drained + 1
  /\ UNCHANGED <<child, status, killed, deaf, sawEof, inEnd, inPipe, taken, logged, stdoutVars>>
  /\ UNCHANGED <<input, pc, written, wrote, out, read, errbuf, result>>

DrainEnds ==
  /\ pc = "Joining" /\ ~errbuf /\ errPipe = 0 /\ child = "Exited"
  /\ errbuf' = TRUE
  /\ UNCHANGED <<childVars, stdoutVars, input, pc, written, wrote, out, read, drained, result>>

Joined ==
  /\ pc = "Joining" /\ wrote # "Pending" /\ read /\ errbuf
  /\ pc' = "Waiting"
  /\ UNCHANGED <<childVars, stdoutVars, input, written, wrote, out, read, drained, errbuf, result>>

-----------------------------------------------------------------------------
\* Mutant: the exit decides alone.
MutantOutcome ==
  IF status # "Success" THEN [verdict |-> "NonZeroExit", out |-> 0, tail |-> Tail(drained)]
  ELSE [verdict |-> "Ok", out |-> out, tail |-> {}]
\* A bad exit comes before a failed write.
Outcome ==
  CASE status # "Success" -> [verdict |-> "NonZeroExit", out |-> 0, tail |-> Tail(drained)]
    [] status = "Success" /\ wrote = "Err" ->
         [verdict |-> "ChildDied", out |-> 0, tail |-> Tail(drained)]
    [] OTHER -> [verdict |-> "Ok", out |-> out, tail |-> {}]

Waited ==
  /\ pc = "Waiting" /\ child = "Exited"
  /\ result' = Outcome
  /\ pc' = "Gone"
  /\ UNCHANGED <<childVars, stdoutVars, input, written, wrote, out, read, drained, errbuf>>

\* The future is dropped at an await: kill_on_drop, the pipes closed.
Dropped ==
  /\ pc \in {"Joining", "Waiting"}
  /\ inEnd' = "Closed" /\ killed' = TRUE
  /\ pc' = "Gone" /\ result' = [Pending EXCEPT !.verdict = "Dropped"]
  /\ UNCHANGED <<child, status, deaf, sawEof, inPipe, taken, errPipe, logged, stdoutVars>>
  /\ UNCHANGED <<input, written, wrote, out, read, drained, errbuf>>

-----------------------------------------------------------------------------
WriterStep == WriteUnit \/ WriterDone \/ WriterFails
ReaderStep == ReadUnit \/ ReaderEnds
DrainStep == DrainUnit \/ DrainEnds
CallStep ==
  \/ Spawn \/ SpawnFails
  \/ WriterStep \/ ReaderStep \/ DrainStep
  \/ Joined \/ Waited \/ Dropped

Init ==
  /\ ChildInit
  /\ emitting = FALSE /\ outPipe = 0 /\ emitted = 0
  /\ input \in 0..MaxInput
  /\ pc = "Unspawned" /\ written = 0 /\ wrote = "Pending"
  /\ out = 0 /\ read = FALSE /\ drained = 0 /\ errbuf = FALSE
  /\ result = Pending

Over == pc = "Gone" /\ UNCHANGED vars

Next ==
  \/ CallStep
  \/ ChildEmits \/ ChildEmitted \/ ChildElse
  \/ Over

\* tokio::join! polls each of the futures that can go on.  Of ffmpeg: as in
\* EncoderSession, and that it goes on with a write to stdout once there is room.
Spec ==
  /\ Init /\ [][Next]_vars
  /\ WF_vars(WriterStep) /\ WF_vars(ReaderStep) /\ WF_vars(DrainStep)
  /\ WF_vars(Joined) /\ WF_vars(Waited)
  /\ WF_vars(ChildReads /\ ~emitting /\ UNCHANGED <<stdoutVars, callVars>>)
  /\ WF_vars(ChildSeesEof /\ ~emitting /\ UNCHANGED <<stdoutVars, callVars>>)
  /\ WF_vars(ChildLogged /\ UNCHANGED <<stdoutVars, callVars>>)
  /\ WF_vars(ChildEmitted)
  /\ WF_vars(sawEof /\ ~emitting /\ ChildExits /\ UNCHANGED <<stdoutVars, callVars>>)
  /\ WF_vars(ChildIsKilled /\ UNCHANGED <<stdoutVars, callVars>>)

-----------------------------------------------------------------------------
\* Properties

TypeOK ==
  /\ ChildTypeOK
  /\ emitting \in BOOLEAN /\ outPipe \in 0..StdoutCap /\ emitted \in Nat
  /\ input \in Nat /\ written \in 0..input
  /\ pc \in {"Unspawned", "Joining", "Waiting", "Gone"}
  /\ wrote \in {"Pending", "Ok", "Err"}
  /\ out \in Nat /\ drained \in Nat
  /\ read \in BOOLEAN /\ errbuf \in BOOLEAN

\* What the call returns is the whole of what the child said: on success all it
\* ever wrote to stdout, every frame having gone into its stdin (and been read,
\* by a child that read to the end); on an error the end of all it ever logged.
\* However the futures and the child interleave, and whether the child died,
\* went deaf or exited early (session.rs:144-170).
CaptureIsWhole ==
  /\ result.verdict = "Ok" =>
       /\ child = "Exited" /\ status = "Success"
       /\ result.out = emitted
       /\ written = input
       /\ sawEof => taken = input
  /\ result.verdict \in {"NonZeroExit", "ChildDied"} =>
       child = "Exited" /\ result.tail = Tail(logged)

\* The call returns, with three pipes that can each fill up, unless the child
\* closes its stdin and then lives on for ever: there is no timeout, and a
\* failed write does not kill it (session.rs:113-118, 144-157).
CaptureReturns == pc = "Joining" ~> (pc = "Gone" \/ [](deaf /\ Alive))
=============================================================================
