---------------------------- MODULE FrameOverlay ----------------------------
(***************************************************************************)
(* What the overlay draws on the frames of a pack: the buttons held at     *)
(* each, which HudTimeline folds from the PAD_SET records of the segments  *)
(* (replay-overlay/src/hud.rs).                                            *)
(*                                                                         *)
(* The frames and the segments both come from a replay of the path.  Here  *)
(* the replay runs: records are revealed in the order write_segment gives  *)
(* them (SegmentWriter), the guest's pad latches follow them, and at each  *)
(* FRAME_MARK a frame goes into the pack.                                  *)
(***************************************************************************)
EXTENDS FramePack

CONSTANTS
  Ports, Masks,  \* the pads, and the button masks a PAD_SET may carry
  Payloads,      \* what a frame may look like
  MaxSegments, MaxIcount, MaxEvents,  \* bounds of the path replayed
  MaxEventsCut   \* bound: of the path whose pack has an accident

\* What a frame looks like are bytes that a frame may be made of.
ASSUME PayloadsAssumption ==
  \A b \in Payloads :
    IsFrame([frame |-> 0, segment |-> 0, comp |-> 0, icount |-> 0, bytes |-> b])

VARIABLES
  segment,  \* the 1-based segment replayed
  icount,   \* where in it
  marked,   \* the FRAME_MARK of this icount has passed
  latch,    \* the guest's pad latches, part of every snapshot
  shown,    \* the latches at each frame pushed
  events    \* the HudTimeline

replayVars == <<segment, icount, marked, latch, shown, events>>
allVars == <<vars, replayVars>>

-----------------------------------------------------------------------------
\* The replay

\* A PAD_SET carries the whole state of its port.
PadSet ==
  /\ finished = "No" /\ ~marked /\ Len(events) < MaxEvents
  /\ \E p \in Ports, b \in Masks :
       /\ latch' = [latch EXCEPT ![p] = b]
       /\ events' = Append(events, [segment |-> segment, icount |-> icount,
                                    port |-> p, buttons |-> b])
  /\ UNCHANGED <<vars, segment, icount, marked, shown>>

\* At one icount a FRAME_MARK comes after all canonical records.
FrameMark ==
  /\ ~marked
  /\ \E b \in Payloads :
       Push([frame |-> Len(pushed), segment |-> segment, comp |-> 0,
             icount |-> icount, bytes |-> b])
  /\ marked' = TRUE
  /\ shown' = Append(shown, latch)
  /\ UNCHANGED <<segment, icount, latch, events>>

Advance ==
  /\ finished = "No" /\ icount < MaxIcount
  /\ icount' = icount + 1 /\ marked' = FALSE
  /\ UNCHANGED <<vars, segment, latch, shown, events>>

\* The next segment goes on from the snapshot, latches included.
NextSegment ==
  /\ finished = "No" /\ segment < MaxSegments
  /\ segment' = segment + 1 /\ icount' = 0 /\ marked' = FALSE
  /\ UNCHANGED <<vars, latch, shown, events>>

-----------------------------------------------------------------------------
\* Mutant: an event at the frame's own icount comes too late for it.
MutantUpTo(ev, s, ic) == ev.segment < s \/ (ev.segment = s /\ ev.icount < ic)
\* An event at or before a frame, in its segment or an earlier one.
UpTo(ev, s, ic) == ev.segment < s \/ (ev.segment = s /\ ev.icount <= ic)

\* held_at: the last event of the port up to the frame, or nothing held.
HeldAt(s, ic, p) ==
  LET held[i \in 0..Len(events)] ==
        IF i = 0 THEN 0
        ELSE IF events[i].port = p /\ UpTo(events[i], s, ic) THEN events[i].buttons
             ELSE held[i - 1]
  IN  held[Len(events)]

-----------------------------------------------------------------------------
OverlayInit ==
  /\ Init
  /\ segment = 1 /\ icount = 0 /\ marked = FALSE
  /\ latch = [p \in Ports |-> 0]
  /\ shown = <<>> /\ events = <<>>

OverlayNext ==
  \/ PadSet \/ FrameMark \/ Advance \/ NextSegment
  \/ Accident /\ Len(events) <= MaxEventsCut /\ UNCHANGED replayVars
  \/ (Finish \/ ReadStep \/ Over) /\ UNCHANGED replayVars

OverlaySpec == OverlayInit /\ [][OverlayNext]_allVars

-----------------------------------------------------------------------------
\* Properties

\* The buttons the HUD shows on a frame, found from the numbers in its record
\* alone, are those the guest held when the frame was captured: events at the
\* frame's own icount count, presses carry over from segment to segment, and
\* nothing that comes later changes it; also on the frames read back from a pack
\* (hud.rs:4-8, 73-90).
HudShowsTheLatch ==
  /\ \A i \in 1..Len(pushed), p \in Ports :
       HeldAt(pushed[i].segment, pushed[i].icount, p) = shown[i][p]
  /\ outcome = "Complete" =>
       \A i \in 1..Len(records), p \in Ports :
         HeldAt(records[i].segment, records[i].icount, p) = shown[i][p]
=============================================================================
