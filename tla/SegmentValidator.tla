-------------------------- MODULE SegmentValidator --------------------------
(***************************************************************************)
(* Reading one DHILOG segment and validating its structure                 *)
(* (replay-splice/src/dhilog.rs): the header parse, the record iterator    *)
(* and validate_structure, one record per step.                            *)
(*                                                                         *)
(* The file is revealed as it is read: a step takes any record the next    *)
(* bytes may hold, or finds the end of the file, so every file of up to    *)
(* MaxRecords records is covered.  Of a record only what the checks tell   *)
(* apart is kept; hashes are whether they equal the one they should.       *)
(***************************************************************************)
EXTENDS Naturals, Sequences

CONSTANTS
  Headers,    \* the headers a file may have (see HeaderShape)
  Records,    \* the records a file may hold (see RecordShape)
  SeqMax,     \* u32::MAX, the last value of a record's seq
  MaxRecords  \* bound: the records read from one file

(***************************************************************************)
(*   readable    magic, header_len, length and reserved bytes are right    *)
(*   sealed      flags.SEALED                                              *)
(*   endHashSet  end_state_hash is not zero                                *)
(*   bodyHashOk  body_hash is the hash of the bytes after the header       *)
(***************************************************************************)
HeaderShape ==
  [readable : BOOLEAN, sealed : BOOLEAN, endHashSet : BOOLEAN, bodyHashOk : BOOLEAN,
   endIcount : Nat, recordCount : Nat]

Kinds == {"PAD_SET", "DEV_EVENT", "NET_RX", "EPOCH_HASH", "FRAME_MARK", "END", "unknown"}

(***************************************************************************)
(*   torn       the bytes left are no whole record                         *)
(*   padZero    its padding bytes are zero                                 *)
(*   undefined  rflags bits other than AUX are set                         *)
(*   len        payload_len                                                *)
(*   hashOk     the state hash in an END payload is the header's           *)
(***************************************************************************)
RecordShape ==
  [torn : BOOLEAN, kind : Kinds, aux : BOOLEAN, undefined : BOOLEAN, padZero : BOOLEAN,
   len : Nat, seq : 0..SeqMax, icount : Nat, hashOk : BOOLEAN]

ASSUME HeadersAssumption == Headers \subseteq HeaderShape
ASSUME RecordsAssumption == SeqMax \in Nat /\ Records \subseteq RecordShape
ASSUME MaxRecordsAssumption == MaxRecords \in Nat

VARIABLES
  header,   \* the file's header
  read,     \* the records read, the one rejected included
  count,    \* the records accepted
  prev,     \* prev_icount
  endSeen,  \* end_seen
  verdict   \* what the validator says, once it has

vars == <<header, read, count, prev, endSeen, verdict>>

-----------------------------------------------------------------------------
\* The checks, in the order of the code: the first that is broken decides.

\* What a check finds: the rule it raises, or nothing.
Check(rule, broken) == IF broken THEN rule ELSE "Ok"

Broken(checks) == {i \in DOMAIN checks : checks[i] # "Ok"}

\* The rule of the first broken check is the verdict.
RejectBy(checks) ==
  \E i \in Broken(checks) :
    /\ \A j \in Broken(checks) : i <= j
    /\ verdict' = checks[i]

\* parse_header, then the checks before the record walk.
HeaderChecks ==
  << Check("Unreadable", ~header.readable),
     Check("R4", ~header.sealed),
     Check("R4", ~header.endHashSet),
     Check("R4", ~header.bodyHashOk) >>

Canonical == {"PAD_SET", "DEV_EVENT", "NET_RX"}

IsEnd(rec) == rec.kind = "END" /\ rec.aux

\* count as u32
Wrapped(n) == n % (SeqMax + 1)

\* Mutant: one record more than seq can number is let through.
MutantTooMany == count > SeqMax + 1
\* More records than seq can number.
TooMany == count > SeqMax

\* Limits on payload_len: any record's, and a NET_RX frame's.
MaxPayload == 4096
MaxFrame == 2048

\* Mutant: the wrong rule is named for a step back.
MutantStepsBack(rec) == Check("R4", rec.icount < prev)
\* A record of an earlier icount than the one before it.
StepsBack(rec) == Check("R5", rec.icount < prev)

\* One record's checks.
RecordChecks(rec) ==
  << Check("R4", rec.torn),
     Check("R5", endSeen),
     Check("R4", ~rec.padZero),
     Check("R4", rec.undefined),
     Check("R4", rec.len > MaxPayload),
     Check("R4", ~rec.aux /\ rec.kind = "NET_RX" /\ rec.len > MaxFrame),
     Check("R4", ~rec.aux /\ rec.kind \notin Canonical),
     Check("R5", TooMany),
     Check("R5", rec.seq # Wrapped(count)),
     StepsBack(rec),
     Check("R5", rec.icount > header.endIcount),
     Check("R4", IsEnd(rec) /\ rec.len # 40),
     Check("R5", IsEnd(rec) /\ rec.icount # header.endIcount),
     Check("R4", IsEnd(rec) /\ ~rec.hashOk) >>

\* The checks once the file is at its end.
EofChecks == << Check("R4", ~endSeen), Check("R4", count # header.recordCount) >>

-----------------------------------------------------------------------------
\* The validator's steps

HeaderRejected ==
  /\ verdict = "Parsing"
  /\ RejectBy(HeaderChecks)
  /\ UNCHANGED <<header, read, count, prev, endSeen>>

HeaderAccepted ==
  /\ verdict = "Parsing" /\ Broken(HeaderChecks) = {}
  /\ verdict' = "Walking"
  /\ UNCHANGED <<header, read, count, prev, endSeen>>

RecordRejected ==
  /\ verdict = "Walking" /\ Len(read) < MaxRecords
  /\ \E rec \in Records :
       /\ read' = Append(read, rec)
       /\ RejectBy(RecordChecks(rec))
  /\ UNCHANGED <<header, count, prev, endSeen>>

\* What the walk remembers of a record it accepts.
Advance(rec) ==
  /\ count' = count + 1
  /\ endSeen' = (endSeen \/ IsEnd(rec))
  /\ prev' = rec.icount

RecordAccepted ==
  /\ verdict = "Walking" /\ Len(read) < MaxRecords
  /\ \E rec \in Records :
       /\ Broken(RecordChecks(rec)) = {}
       /\ read' = Append(read, rec)
       /\ Advance(rec)
  /\ UNCHANGED <<header, verdict>>

Eof ==
  /\ verdict = "Walking"
  /\ \/ Broken(EofChecks) = {} /\ verdict' = "Ok"
     \/ RejectBy(EofChecks)
  /\ UNCHANGED <<header, read, count, prev, endSeen>>

Step == HeaderRejected \/ HeaderAccepted \/ RecordRejected \/ RecordAccepted \/ Eof

Init ==
  /\ header \in Headers
  /\ read = <<>>
  /\ count = 0 /\ prev = 0 /\ endSeen = FALSE
  /\ verdict = "Parsing"

Verdicts == {"Ok", "R4", "R5", "Unreadable"}

Validated == verdict \in Verdicts /\ UNCHANGED vars

Next == Step \/ Validated

Spec == Init /\ [][Next]_vars

-----------------------------------------------------------------------------
\* Properties: what R4 and R5 say of a whole file.

TypeOK ==
  /\ header \in Headers
  /\ read \in Seq(Records)
  /\ count \in Nat /\ count <= Len(read) /\ Len(read) <= count + 1
  /\ prev \in Nat
  /\ endSeen \in BOOLEAN
  /\ verdict \in Verdicts \cup {"Parsing", "Walking"}

HeaderSealed == header.readable /\ header.sealed /\ header.endHashSet /\ header.bodyHashOk

\* R4 of one record: it is framed, bounded and of a kind a reader knows.
Intact(rec) ==
  /\ ~rec.torn /\ rec.padZero /\ ~rec.undefined
  /\ rec.len <= MaxPayload
  /\ rec.aux \/ rec.kind \in Canonical
  /\ (rec.kind = "NET_RX" /\ ~rec.aux) => rec.len <= MaxFrame
  /\ IsEnd(rec) => rec.len = 40 /\ rec.hashOk

\* R5 of the first n records: each has its own index for its seq, they are
\* ordered by icount, and only the last can be the END, at end_icount.
Ordered(n) ==
  \A i \in 1..n :
    /\ read[i].seq = i - 1
    /\ read[i].icount <= header.endIcount
    /\ \A j \in 1..i : read[j].icount <= read[i].icount
    /\ IsEnd(read[i]) => i = n /\ read[i].icount = header.endIcount

\* The log is whole: it ends in an END and has as many records as it says.
Complete ==
  /\ read # <<>> /\ IsEnd(read[Len(read)])
  /\ Len(read) = header.recordCount

\* A segment that is accepted is sealed and ordered as a whole: every record
\* is intact, seq is the record's index (with no wrap past u32), icounts never
\* decrease, and the one END is the last record (dhilog.rs:291-393).  The
\* verifier and the frame tables index segments on the strength of this.
AcceptedIsWellFormed ==
  verdict = "Ok" =>
    /\ HeaderSealed
    /\ \A i \in 1..Len(read) : Intact(read[i])
    /\ Ordered(Len(read))
    /\ Complete

\* The rejection was made on the last record read, those before it accepted.
AtRecord == Len(read) = count + 1

\* A rejection names the rule that is really broken, where it was made.  All
\* before it was intact and in order.  R5 is answered at a record that comes
\* out of order, under a sound header.  R4 is answered before the first record
\* for a header that is not sealed, at a record only if that record is damaged
\* (so never at one that merely comes out of order), and at the end of the file
\* for a log in which all is in order but that is not complete
\* (dhilog.rs:295-299).
RejectionIsJustified ==
  /\ verdict \in {"R4", "R5"} =>
       /\ header.readable
       /\ \A i \in 1..count : Intact(read[i])
       /\ Ordered(count)
  /\ verdict = "R5" => HeaderSealed /\ AtRecord /\ ~Ordered(Len(read))
  /\ verdict = "R4" =>
       \/ ~HeaderSealed /\ read = <<>>
       \/ HeaderSealed /\ AtRecord /\ ~Intact(read[Len(read)])
       \/ HeaderSealed /\ ~AtRecord /\ ~Complete
=============================================================================
