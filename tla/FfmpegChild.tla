---------------------------- MODULE FfmpegChild ----------------------------
(***************************************************************************)
(* The ffmpeg child process as replay-encode/src/session.rs uses it: it    *)
(* reads raw frames from its stdin, logs to its stderr and exits.  Nothing *)
(* more is assumed of it than an operating system grants any child: pipes  *)
(* hold a bounded number of units (a unit stands for a run of bytes, no    *)
(* write is larger than one), a write to a full pipe blocks, and the child *)
(* may stop reading, exit with either status or crash at any time.         *)
(***************************************************************************)
EXTENDS Naturals

CONSTANTS
  StdinCap, StderrCap,  \* units the two pipes hold
  MaxLog                \* bound: the units the child logs

ASSUME PipeAssumption == StdinCap \in Nat \ {0} /\ StderrCap \in Nat \ {0}
ASSUME MaxLogAssumption == MaxLog \in Nat

VARIABLES
  child,    \* "Unspawned", "Running", "Logging" (in a write to stderr), "Exited"
  status,   \* how it exited
  killed,   \* a SIGKILL is on its way
  deaf,     \* it has closed its end of stdin
  sawEof,   \* it has read the end of its stdin
  inEnd,    \* the parent's end of stdin: "Open" or "Closed"
  inPipe,   \* units in stdin
  taken,    \* units the child has read
  errPipe,  \* units in stderr
  logged    \* units the child has written to stderr, all told

childVars == <<child, status, killed, deaf, sawEof, inEnd, inPipe, taken, errPipe, logged>>

Alive == child \in {"Running", "Logging"}

\* A write to stdin fails with a broken pipe.
Broken == deaf \/ child = "Exited"

-----------------------------------------------------------------------------
ChildReads ==
  /\ child = "Running" /\ ~deaf /\ inPipe > 0
  /\ inPipe' = inPipe - 1 /\ taken' = taken + 1
  /\ UNCHANGED <<child, status, killed, deaf, sawEof, inEnd, errPipe, logged>>

ChildSeesEof ==
  /\ child = "Running" /\ ~deaf /\ inPipe = 0 /\ inEnd = "Closed"
  /\ sawEof' = TRUE
  /\ UNCHANGED <<child, status, killed, deaf, inEnd, inPipe, taken, errPipe, logged>>

\* The child has something to say: until stderr has room it does nothing else.
ChildLogs ==
  /\ child = "Running" /\ logged < MaxLog
  /\ child' = "Logging"
  /\ UNCHANGED <<status, killed, deaf, sawEof, inEnd, inPipe, taken, errPipe, logged>>

ChildLogged ==
  /\ child = "Logging" /\ errPipe < StderrCap
  /\ child' = "Running"
  /\ errPipe' = errPipe + 1 /\ logged' = logged + 1
  /\ UNCHANGED <<status, killed, deaf, sawEof, inEnd, inPipe, taken>>

\* It closes its stdin and lives on; what was in the pipe is lost.
ChildStopsReading ==
  /\ child = "Running" /\ ~deaf
  /\ deaf' = TRUE /\ inPipe' = 0
  /\ UNCHANGED <<child, status, killed, sawEof, inEnd, taken, errPipe, logged>>

\* What is in stderr outlives the child, what is in stdin does not.
Dies(how) ==
  /\ child' = "Exited" /\ status' = how
  /\ inPipe' = 0
  /\ UNCHANGED <<killed, deaf, sawEof, inEnd, taken, errPipe, logged>>

ChildExits == child = "Running" /\ \E how \in {"Success", "Failure"} : Dies(how)

ChildCrashes == Alive /\ Dies("Failure")

ChildIsKilled == Alive /\ killed /\ Dies("Failure")

ChildStep ==
  \/ ChildReads \/ ChildSeesEof \/ ChildLogs \/ ChildLogged
  \/ ChildStopsReading \/ ChildExits \/ ChildCrashes \/ ChildIsKilled

ChildInit ==
  /\ child = "Unspawned" /\ status = "None" /\ killed = FALSE
  /\ deaf = FALSE /\ sawEof = FALSE
  /\ inEnd = "Closed" /\ inPipe = 0 /\ taken = 0
  /\ errPipe = 0 /\ logged = 0

ChildTypeOK ==
  /\ child \in {"Unspawned", "Running", "Logging", "Exited"}
  /\ status \in {"None", "Success", "Failure"}
  /\ killed \in BOOLEAN /\ deaf \in BOOLEAN /\ sawEof \in BOOLEAN
  /\ inEnd \in {"Open", "Closed"}
  /\ inPipe \in 0..StdinCap /\ taken \in Nat
  /\ errPipe \in 0..StderrCap /\ logged \in 0..MaxLog
=============================================================================
