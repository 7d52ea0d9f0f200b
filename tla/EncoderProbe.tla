---------------------------- MODULE EncoderProbe ----------------------------
(***************************************************************************)
(* probe_encoders (replay-encode/src/probe.rs): ffmpeg is run once to list *)
(* its encoders, then an EncoderSession encodes a few frames on the        *)
(* hardware to see whether it works; each run has a timeout, since either  *)
(* may hang.  The session's steps are EncoderSession's: this module is one *)
(* of its callers, run_with_frames inside timeout.                         *)
(***************************************************************************)
EXTENDS EncoderSession

CONSTANT SmokeFrames  \* frames of the smoke encode

ASSUME SmokeAssumption == SmokeFrames \in 1..MaxCalls

\* The encoders the probe looks for in the listing.
Nvenc == {"h264_nvenc", "hevc_nvenc"}

VARIABLES
  step,     \* "Start", "Listing", "Smoke" or "Done"
  force,    \* force_software
  lister,   \* the listing child: "None", "Running", "Success" or "Failure"
  stopped,  \* it has been sent a SIGKILL
  listed,   \* the encoders its output names
  table     \* the EncoderTable returned

probeVars == <<step, force, lister, stopped, listed, table>>
allVars == <<vars, probeVars>>

None == [h264 |-> "None", hevc |-> "None"]
Software == [h264 |-> "Libx264", hevc |-> "Libx265"]

Hardware ==
  [h264 |-> "H264Nvenc", hevc |-> IF "hevc_nvenc" \in listed THEN "HevcNvenc" ELSE "Libx265"]

Return(t) == step' = "Done" /\ table' = t

-----------------------------------------------------------------------------
\* The listing child, which may take any time, and exit or be killed.

ListerExits ==
  /\ lister = "Running"
  /\ lister' \in {"Success", "Failure"} /\ listed' \in SUBSET Nvenc
  /\ UNCHANGED <<vars, step, force, stopped, table>>

ListerIsKilled ==
  /\ lister = "Running" /\ stopped
  /\ lister' = "Failure"
  /\ UNCHANGED <<vars, step, force, stopped, listed, table>>

-----------------------------------------------------------------------------
\* The probe's steps

ForcedSoftware ==
  /\ step = "Start" /\ force
  /\ Return(Software)
  /\ UNCHANGED <<vars, force, lister, stopped, listed>>

List ==
  /\ step = "Start" /\ ~force
  /\ step' = "Listing" /\ lister' = "Running"
  /\ UNCHANGED <<vars, force, stopped, listed, table>>

ListSpawnFails ==
  /\ step = "Start" /\ ~force
  /\ Return(Software)
  /\ UNCHANGED <<vars, force, lister, stopped, listed>>

\* Mutant: Command::output without kill_on_drop.
MutantStopLister == UNCHANGED stopped
\* kill_on_drop, when the timeout drops the future.
StopLister == stopped' = TRUE

ListTimeout ==
  /\ step = "Listing"
  /\ StopLister
  /\ Return(Software)
  /\ UNCHANGED <<vars, force, lister, listed>>

\* A listing that succeeded names the encoder.
NvencListed == lister = "Success" /\ "h264_nvenc" \in listed

ListWithout ==
  /\ step = "Listing" /\ lister \in {"Success", "Failure"} /\ ~NvencListed
  /\ Return(Software)
  /\ UNCHANGED <<vars, force, lister, stopped, listed>>

ListWith ==
  /\ step = "Listing" /\ lister \in {"Success", "Failure"} /\ NvencListed
  /\ step' = "Smoke"
  /\ UNCHANGED <<vars, force, lister, stopped, listed, table>>

-----------------------------------------------------------------------------
\* The smoke encode: run_with_frames.

SmokeSpawns ==
  /\ step = "Smoke" /\ (Spawn \/ SpawnFails)
  /\ UNCHANGED probeVars

SmokeWrites ==
  /\ step = "Smoke" /\ errors = 0 /\ sent < SmokeFrames
  /\ CallWriteFrame
  /\ UNCHANGED probeVars

SmokeFinishes ==
  /\ step = "Smoke" /\ errors = 0 /\ sent = SmokeFrames
  /\ CallFinish
  /\ UNCHANGED probeVars

\* What the session does inside write_frame and finish.
SmokeGoesOn ==
  /\ step = "Smoke" /\ (WriteStep \/ FinishStep)
  /\ UNCHANGED probeVars

\* A frame failed: run_with_frames returns and the session is dropped.
SmokeFails ==
  /\ step = "Smoke" /\ pc = "Idle" /\ errors > 0
  /\ Dropped
  /\ Return(Software)
  /\ UNCHANGED <<force, lister, stopped, listed>>

\* Mutant: any answer within the time is taken for a yes.
MutantProven == result.verdict # "Spawn"
\* Ok(Ok(()))
Proven == result.verdict = "Finished"

SmokeReturns ==
  /\ step = "Smoke" /\ pc = "Gone"
  /\ Return(IF Proven THEN Hardware ELSE Software)
  /\ UNCHANGED <<vars, force, lister, stopped, listed>>

\* Mutant: the timeout is around finish, not around the writes.
MutantSmokeTimeout ==
  /\ step = "Smoke" /\ pc \in {"Waiting", "FinishTail"}
  /\ Dropped
  /\ Return(Software)
  /\ UNCHANGED <<force, lister, stopped, listed>>
\* The timeout drops the session wherever it stands.
SmokeTimeout ==
  /\ step = "Smoke"
  /\ Dropped
  /\ Return(Software)
  /\ UNCHANGED <<force, lister, stopped, listed>>

-----------------------------------------------------------------------------
ProbeRuns ==
  \/ ForcedSoftware \/ List \/ ListSpawnFails \/ ListWithout \/ ListWith
  \/ SmokeSpawns \/ SmokeWrites \/ SmokeFinishes \/ SmokeGoesOn
  \/ SmokeFails \/ SmokeReturns

ProbeInit ==
  /\ Init
  /\ step = "Start" /\ force \in BOOLEAN
  /\ lister = "None" /\ stopped = FALSE /\ listed = {}
  /\ table = None

ProbeOver == step = "Done" /\ UNCHANGED allVars

ProbeNext ==
  \/ ProbeRuns \/ ListTimeout \/ SmokeTimeout
  \/ (Drain \/ DrainEnds) /\ UNCHANGED probeVars
  \/ ListerExits \/ ListerIsKilled
  \/ ChildStep /\ UNCHANGED <<sessionVars, probeVars>>
  \/ ProbeOver

\* The runtime runs its tasks and its timers.  Of ffmpeg nothing is assumed but
\* that it dies of a SIGKILL: it may hang.
ProbeSpec ==
  /\ ProbeInit /\ [][ProbeNext]_allVars
  /\ WF_allVars(ProbeRuns)
  /\ WF_allVars(ListTimeout) /\ WF_allVars(SmokeTimeout)
  /\ WF_allVars(Drain /\ UNCHANGED probeVars) /\ WF_allVars(DrainEnds /\ UNCHANGED probeVars)
  /\ WF_allVars(ListerIsKilled)
  /\ WF_allVars(ChildIsKilled /\ UNCHANGED <<sessionVars, probeVars>>)

-----------------------------------------------------------------------------
\* Properties

\* Hardware is chosen only when it has been seen to work: the listing exited
\* well and names the encoder, and the smoke encode took every frame, its child
\* exiting with success and waited for, before the timeout; and then always, so
\* that a working encoder is never passed over.  hevc_nvenc is only taken with
\* h264_nvenc, and if it is listed (probe.rs:1-7, 54-62, 91-101).
HardwareIsProven ==
  step = "Done" =>
    /\ table \in {Software, Hardware}
    /\ table.h264 = "H264Nvenc" <=>
         /\ result.verdict = "Finished" /\ errors = 0
         /\ lister = "Success" /\ "h264_nvenc" \in listed
         /\ reaped /\ status = "Success"
         /\ sent = SmokeFrames /\ written = SmokeFrames * FrameUnits
    /\ table.hevc = "HevcNvenc" => table.h264 = "H264Nvenc" /\ "hevc_nvenc" \in listed

\* The probe always returns a table, though either child may hang at any point
\* for ever, with its pipes full or not (probe.rs:5-7, 33-35).
ProbeReturns == <>(step = "Done")

\* A child that was given up on does not live on beside replayd, nor does the
\* drainer task (probe.rs:43, 48, 86-90).
NothingOutlivesProbe ==
  step = "Done" ~> (lister # "Running" /\ ~Alive /\ drainer # "Draining")
=============================================================================
