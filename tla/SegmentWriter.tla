--------------------------- MODULE SegmentWriter ----------------------------
(***************************************************************************)
(* write_segment (replay-mockhv/src/writer.rs): a script of events, frame  *)
(* marks and an optional skew is merged with the epoch boundaries into one *)
(* order, run through the toy guest, and recorded as a sealed segment.     *)
(*                                                                         *)
(* The code sorts the emissions and walks them; here the least one not yet *)
(* emitted is the next.                                                    *)
(***************************************************************************)
EXTENDS GuestSim

CONSTANT Scripts   \* the segments to be written (see IsScript)

CanonicalKinds == {"PAD_SET", "DEV_EVENT", "NET_RX"}

\* The writer's own limits on payload_len: any record's, and a NET_RX frame's.
MaxPayload == 4096
MaxFrame == 2048

\* An event: its kind, what its payload says, and the length of the payload.
IsEvent(ev) ==
  /\ ev.kind \in CanonicalKinds
  /\ ev.len \in Nat /\ ev.len <= MaxPayload
  /\ ev.kind = "NET_RX" => ev.len <= MaxFrame

(***************************************************************************)
(* What write_segment is given, its assertions included:                   *)
(*   end     end_icount                                                    *)
(*   events  the canonical events, each with the icount it is scheduled at *)
(*   frames  the icounts of the frame marks, in any order                  *)
(*   skew    skew_at: empty for None                                       *)
(*   omit    omit_epoch_hashes                                             *)
(***************************************************************************)
IsScript(s) ==
  /\ s.end \in Nat
  /\ \A i \in DOMAIN s.events :
       /\ IsEvent(s.events[i].event)
       /\ s.events[i].icount \in 0..s.end
       /\ \A j \in 1..i : s.events[j].icount <= s.events[i].icount
  /\ \A i \in DOMAIN s.frames : s.frames[i] \in 0..s.end
  /\ s.skew \subseteq 0..s.end /\ \A m, n \in s.skew : m = n
  /\ s.omit \in BOOLEAN

ASSUME ScriptsAssumption == \A s \in Scripts : IsScript(s)

VARIABLES
  script,   \* the segment to write
  pending,  \* the emissions still to come
  guest,    \* sim: the recorded execution
  log,      \* body: the records written
  endHash,  \* end_state_hash: the chain value recorded at END
  header    \* the header, once the segment is sealed

writerVars == <<script, pending, guest, log, endHash, header>>

-----------------------------------------------------------------------------
\* The merge order

\* Mutant: END does not wait for the frame marks of the last icount.
MutantRank ==
  [EPOCH_HASH |-> 0, SKEW |-> 1, CANONICAL |-> 2, FRAME_MARK |-> 4, END |-> 3]
\* Class ranks at equal icount: a boundary's hash is recorded before anything
\* lands on the boundary, and END is always last.
Rank == [EPOCH_HASH |-> 0, SKEW |-> 1, CANONICAL |-> 2, FRAME_MARK |-> 3, END |-> 4]

Before(e, f) ==
  \/ e.icount < f.icount
  \/ e.icount = f.icount /\ Rank[e.class] < Rank[f.class]
  \/ e.icount = f.icount /\ e.class = f.class /\ e.tie < f.tie

Emission(class, icount, tie) == [class |-> class, icount |-> icount, tie |-> tie]

EpochEmissions(s) ==
  IF s.omit THEN {}
  ELSE {Emission("EPOCH_HASH", k * EpochIcounts, 0) : k \in 1..(s.end \div EpochIcounts)}

Emissions(s) ==
  EpochEmissions(s)
    \cup {Emission("SKEW", m, 0) : m \in s.skew}
    \cup {Emission("CANONICAL", s.events[i].icount, i) : i \in DOMAIN s.events}
    \cup {Emission("FRAME_MARK", s.frames[i], i) : i \in DOMAIN s.frames}
    \cup {Emission("END", s.end, 0)}

-----------------------------------------------------------------------------
\* One emission

NoHeader == [sealed |-> FALSE]

\* The next emission, of the given class.
TakeNext(class, em) ==
  /\ em \in pending /\ em.class = class
  /\ \A other \in pending \ {em} : Before(em, other)
  /\ pending' = pending \ {em}

PushRecord(kind, aux, icount, payload, len) ==
  log' = Append(log, [kind |-> kind, aux |-> aux, seq |-> Len(log), icount |-> icount,
                      payload |-> payload, len |-> len])

EmitEpochHash(em) ==
  /\ TakeNext("EPOCH_HASH", em)
  /\ guest' = StepTo(guest, em.icount)
  /\ PushRecord("EPOCH_HASH", TRUE, em.icount, guest'.chain, 40)
  /\ UNCHANGED <<script, endHash, header>>

\* The skew leaves no record.
EmitSkew(em) ==
  /\ TakeNext("SKEW", em)
  /\ guest' = FoldBytes(StepTo(guest, em.icount), "Skew")
  /\ UNCHANGED <<script, log, endHash, header>>

\* The bytes an event folds into the register: its kind, then its payload.
EventBytes(kind, payload) == <<kind, payload>>

EmitCanonical(em) ==
  /\ TakeNext("CANONICAL", em)
  /\ LET ev == script.events[em.tie].event
     IN  /\ guest' = FoldBytes(StepTo(guest, em.icount), EventBytes(ev.kind, ev.data))
         /\ PushRecord(ev.kind, FALSE, em.icount, ev.data, ev.len)
  /\ UNCHANGED <<script, endHash, header>>

EmitFrameMark(em) ==
  /\ TakeNext("FRAME_MARK", em)
  /\ guest' = StepTo(guest, em.icount)
  /\ PushRecord("FRAME_MARK", TRUE, em.icount, em.tie, 8)
  /\ UNCHANGED <<script, endHash, header>>

EmitEnd(em) ==
  /\ TakeNext("END", em)
  /\ guest' = StepTo(guest, em.icount)
  /\ endHash' = ChainValue(guest')
  /\ PushRecord("END", TRUE, em.icount, endHash', 40)
  /\ UNCHANGED <<script, header>>

\* The header is put before the body.
Seal ==
  /\ pending = {} /\ ~header.sealed
  /\ header' = [sealed |-> TRUE, epochHashes |-> ~script.omit, recordCount |-> Len(log),
                endIcount |-> script.end, endHash |-> endHash]
  /\ UNCHANGED <<script, pending, guest, log, endHash>>

WriterStep ==
  \/ \E em \in pending :
       \/ EmitEpochHash(em) \/ EmitSkew(em) \/ EmitCanonical(em)
       \/ EmitFrameMark(em) \/ EmitEnd(em)
  \/ Seal

WriterInit ==
  /\ script \in Scripts
  /\ pending = Emissions(script)
  /\ guest = NewGuest
  /\ log = <<>>
  /\ endHash = <<>>
  /\ header = NoHeader

-----------------------------------------------------------------------------
\* Properties

\* A record as SegmentValidator sees it.
AsRead(rec) ==
  [torn |-> FALSE, kind |-> rec.kind, aux |-> rec.aux, undefined |-> FALSE, padZero |-> TRUE,
   len |-> rec.len, seq |-> rec.seq, icount |-> rec.icount,
   hashOk |-> rec.kind = "END" => rec.payload = header.endHash]

\* The validator at the end of the file that was written.
Validator ==
  INSTANCE SegmentValidator WITH
    Headers <- {}, Records <- {}, SeqMax <- 2^32 - 1, MaxRecords <- 0,
    header <- [readable |-> TRUE, sealed |-> header.sealed, endHashSet |-> TRUE,
               bodyHashOk |-> TRUE, endIcount |-> header.endIcount,
               recordCount |-> header.recordCount],
    read <- [i \in DOMAIN log |-> AsRead(log[i])],
    count <- Len(log), prev <- header.endIcount, endSeen <- TRUE, verdict <- "Ok"

\* What the writer seals is a whole segment by the validator's account of R4
\* and R5, however the events, the frame marks and the boundaries fall on the
\* same icounts: ordered, numbered by position, one END and that the last.
SealedIsWellFormed == header.sealed => Validator!AcceptedIsWellFormed
=============================================================================
