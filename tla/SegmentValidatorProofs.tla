----------------------- MODULE SegmentValidatorProofs -----------------------
(***************************************************************************)
(* What a verdict of the structural validator means, for files of every    *)
(* length.  Walked is the loop invariant of the record walk: the records   *)
(* accepted so far are intact and ordered, and end_seen is whether the     *)
(* last of them is the END.                                                *)
(***************************************************************************)
EXTENDS SegmentValidator, TLAPS

\* The records accepted are intact, each has its index for its seq, icounts
\* are bounded by prev_icount, and only the last may be the END.
Walked ==
  /\ count <= SeqMax + 1
  /\ prev = IF count = 0 THEN 0 ELSE read[count].icount
  /\ \A i \in 1..count :
       /\ Intact(read[i])
       /\ read[i].seq = i - 1
       /\ read[i].icount <= prev /\ read[i].icount <= header.endIcount
       /\ \A j \in 1..i : read[j].icount <= read[i].icount
       /\ IsEnd(read[i]) => i = count /\ endSeen /\ read[i].icount = header.endIcount
  /\ endSeen => count > 0 /\ IsEnd(read[count])

\* Where the walk stands, and what a verdict was given for.
Reached ==
  /\ verdict # "Parsing" /\ verdict # "Unreadable" => header.readable
  /\ verdict = "Walking" => HeaderSealed /\ Len(read) = count
  /\ verdict = "Ok" =>
       /\ HeaderSealed /\ Len(read) = count
       /\ Complete
  /\ verdict = "Parsing" => read = <<>> /\ count = 0
  /\ verdict = "R5" => HeaderSealed /\ AtRecord /\ ~Ordered(Len(read))
  /\ verdict = "R4" =>
       \/ ~HeaderSealed /\ read = <<>>
       \/ HeaderSealed /\ AtRecord /\ ~Intact(read[Len(read)])
       \/ HeaderSealed /\ ~AtRecord /\ ~Complete

IInv == TypeOK /\ Walked /\ Reached

\* What the checks of the header ask, and which rule they raise.
LEMMA HeaderBroken ==
  /\ Broken(HeaderChecks) = {} <=> HeaderSealed
  /\ ~header.readable => 1 \in Broken(HeaderChecks)
  /\ \A i \in Broken(HeaderChecks) :
       HeaderChecks[i] = IF i = 1 THEN "Unreadable" ELSE "R4"
<1>1. DOMAIN HeaderChecks = 1..4
  BY DEF HeaderChecks
<1>2. /\ HeaderChecks[1] = IF header.readable THEN "Ok" ELSE "Unreadable"
      /\ HeaderChecks[2] = IF header.sealed THEN "Ok" ELSE "R4"
      /\ HeaderChecks[3] = IF header.endHashSet THEN "Ok" ELSE "R4"
      /\ HeaderChecks[4] = IF header.bodyHashOk THEN "Ok" ELSE "R4"
  BY DEF HeaderChecks, Check
<1>. QED  BY <1>1, <1>2 DEF Broken, HeaderSealed

\* A record breaks R5 after the END, or by its number or its place.
Displaced(rec) ==
  \/ endSeen
  \/ TooMany \/ rec.seq # Wrapped(count)
  \/ rec.icount < prev \/ rec.icount > header.endIcount
  \/ IsEnd(rec) /\ rec.icount # header.endIcount

\* What the checks of a record ask, and which rule they raise.
LEMMA RecordBroken ==
  ASSUME NEW rec \in Records, endSeen \in BOOLEAN
  PROVE  /\ Broken(RecordChecks(rec)) = {} => Intact(rec) /\ ~Displaced(rec)
         /\ \A i \in Broken(RecordChecks(rec)) :
              \/ RecordChecks(rec)[i] = "R4" /\ ~Intact(rec)
              \/ RecordChecks(rec)[i] = "R5" /\ Displaced(rec)
<1>. DEFINE c == RecordChecks(rec)
<1>1. DOMAIN c = 1..14
  BY DEF RecordChecks
<1>2. /\ c[1] = Check("R4", rec.torn)
      /\ c[3] = Check("R4", ~rec.padZero)
      /\ c[4] = Check("R4", rec.undefined)
      /\ c[5] = Check("R4", rec.len > MaxPayload)
      /\ c[6] = Check("R4", ~rec.aux /\ rec.kind = "NET_RX" /\ rec.len > MaxFrame)
      /\ c[7] = Check("R4", ~rec.aux /\ rec.kind \notin Canonical)
      /\ c[12] = Check("R4", IsEnd(rec) /\ rec.len # 40)
      /\ c[14] = Check("R4", IsEnd(rec) /\ ~rec.hashOk)
  BY DEF RecordChecks, Check
<1>3. /\ c[2] = Check("R5", endSeen)
      /\ c[8] = Check("R5", TooMany)
      /\ c[9] = Check("R5", rec.seq # Wrapped(count))
      /\ c[10] = StepsBack(rec)
      /\ c[11] = Check("R5", rec.icount > header.endIcount)
      /\ c[13] = Check("R5", IsEnd(rec) /\ rec.icount # header.endIcount)
  BY DEF RecordChecks, Check, StepsBack
<1>. HIDE DEF c
<1>4. /\ \A i \in {1, 3, 4, 5, 6, 7, 12, 14} : c[i] \in {"R4", "Ok"}
      /\ \A i \in {2, 8, 9, 10, 11, 13} : c[i] \in {"R5", "Ok"}
  BY <1>2, <1>3 DEF Check, StepsBack
<1>5. Displaced(rec) <=> \E i \in {2, 8, 9, 10, 11, 13} : c[i] = "R5"
  BY <1>3 DEF Displaced, Check, StepsBack
<1>6. ~Intact(rec) <=> \E i \in {1, 3, 4, 5, 6, 7, 12, 14} : c[i] = "R4"
  <2>1. rec.len \in Nat
    BY RecordsAssumption DEF RecordShape
  <2>2. MaxPayload \in Nat /\ MaxFrame \in Nat
    BY DEF MaxPayload, MaxFrame
  <2>. QED  BY <1>2, <2>1, <2>2 DEF Intact, Check
<1>7. Broken(c) = {} => Intact(rec) /\ ~Displaced(rec)
  BY <1>1, <1>4, <1>5, <1>6 DEF Broken
<1>8. \A i \in Broken(c) :
        \/ c[i] = "R4" /\ ~Intact(rec)
        \/ c[i] = "R5" /\ Displaced(rec)
  <2>1. \A i \in 1..14 : i \in {1, 3, 4, 5, 6, 7, 12, 14} \/ i \in {2, 8, 9, 10, 11, 13}
    OBVIOUS
  <2>. QED  BY <1>1, <1>4, <1>5, <1>6, <2>1 DEF Broken
<1>. QED  BY <1>7, <1>8 DEF c

\* A count that fits a u32 is not changed by the cast.
LEMMA WrappedSmall ==
  ASSUME NEW n \in 0..SeqMax
  PROVE  Wrapped(n) = n
  BY RecordsAssumption, SMT DEF Wrapped

LEMMA InitIInv == Init => IInv
<1>. SUFFICES ASSUME Init PROVE IInv
  OBVIOUS
<1>1. read \in Seq(Records) /\ Len(read) = 0
  BY DEF Init
<1>2. TypeOK
  <2>1. endSeen \in BOOLEAN /\ verdict \in Verdicts \cup {"Parsing", "Walking"}
    BY DEF Init
  <2>. QED  BY <1>1, <2>1 DEF Init, TypeOK
<1>3. Walked
  BY RecordsAssumption DEF Init, Walked
<1>4. Reached
  BY DEF Init, Reached
<1>. QED  BY <1>2, <1>3, <1>4 DEF IInv

\* Only a record that is accepted moves the walk.
LEMMA WalkedUnchanged ==
  ASSUME Walked, count \in Nat, header' = header, count' = count, prev' = prev, endSeen' = endSeen,
         \A i \in 1..count : read'[i] = read[i]
  PROVE  Walked'
  BY DEF Walked, Intact, IsEnd

\* The header is rejected: by R4 unless it could not be parsed.
LEMMA HeaderRejectedIInv == ASSUME IInv, HeaderRejected PROVE IInv'
<1>1. PICK i \in Broken(HeaderChecks) :
        /\ \A j \in Broken(HeaderChecks) : i <= j
        /\ verdict' = HeaderChecks[i]
  BY DEF HeaderRejected, RejectBy
<1>2. UNCHANGED <<header, read, count, prev, endSeen>>
  BY DEF HeaderRejected
<1>3. ~HeaderSealed /\ verdict' \in {"R4", "Unreadable"}
  BY <1>1, HeaderBroken
<1>4. verdict' = "R4" => header.readable
  BY <1>1, HeaderBroken DEF Broken, HeaderChecks
<1>5. TypeOK'
  BY <1>2, <1>3 DEF IInv, TypeOK, Verdicts
<1>6. Walked'
  BY <1>2, WalkedUnchanged DEF IInv, TypeOK
<1>7. Reached'
  <2>1. verdict = "Parsing" /\ read = <<>>
    BY DEF HeaderRejected, IInv, Reached
  <2>. QED  BY <1>2, <1>3, <1>4, <2>1 DEF Reached, HeaderSealed
<1>. QED  BY <1>5, <1>6, <1>7 DEF IInv

LEMMA HeaderAcceptedIInv == ASSUME IInv, HeaderAccepted PROVE IInv'
<1>1. /\ verdict' = "Walking" /\ verdict = "Parsing"
      /\ UNCHANGED <<header, read, count, prev, endSeen>>
  BY DEF HeaderAccepted
<1>2. HeaderSealed
  BY HeaderBroken DEF HeaderAccepted
<1>3. TypeOK'
  BY <1>1 DEF IInv, TypeOK
<1>4. Walked'
  BY <1>1, WalkedUnchanged DEF IInv, TypeOK
<1>5. Reached'
  BY <1>1, <1>2 DEF IInv, Reached, HeaderSealed
<1>. QED  BY <1>3, <1>4, <1>5 DEF IInv

\* A record is rejected: it breaks the rule the verdict names.
LEMMA RecordRejectedIInv == ASSUME IInv, RecordRejected PROVE IInv'
<1>1. PICK rec \in Records : read' = Append(read, rec) /\ RejectBy(RecordChecks(rec))
  BY DEF RecordRejected
<1>2. /\ verdict = "Walking"
      /\ UNCHANGED <<header, count, prev, endSeen>>
  BY DEF RecordRejected
<1>3. /\ header \in Headers /\ read \in Seq(Records) /\ count \in Nat
      /\ endSeen \in BOOLEAN /\ prev \in Nat
  BY DEF IInv, TypeOK
<1>4. HeaderSealed /\ Len(read) = count
  BY <1>2 DEF IInv, Reached
<1>5. /\ read' \in Seq(Records) /\ Len(read') = count + 1
      /\ read'[count + 1] = rec /\ \A i \in 1..count : read'[i] = read[i]
  BY <1>1, <1>3, <1>4
<1>6. PICK k \in Broken(RecordChecks(rec)) : verdict' = RecordChecks(rec)[k]
  BY <1>1 DEF RejectBy
<1>7. \/ verdict' = "R4" /\ ~Intact(rec)
      \/ verdict' = "R5" /\ Displaced(rec)
  BY <1>3, <1>6, RecordBroken
<1>8. TypeOK'
  BY <1>2, <1>3, <1>5, <1>7 DEF TypeOK, Verdicts
<1>9. Walked'
  BY <1>2, <1>3, <1>5, WalkedUnchanged DEF IInv
<1>10. Displaced(rec) => ~Ordered(Len(read))'
  <2>1. ASSUME Ordered(Len(read))' PROVE ~Displaced(rec)
    <3>1. /\ rec.seq = count
          /\ rec.icount <= header.endIcount
          /\ \A j \in 1..count : read[j].icount <= rec.icount
          /\ \A j \in 1..count : ~IsEnd(read[j])
          /\ IsEnd(rec) => rec.icount = header.endIcount
      <4>1. PICK n \in Nat : n = count + 1
        BY <1>3
      <4>2. n \in 1..Len(read') /\ n - 1 = count /\ read'[n] = rec
        BY <1>3, <1>5, <4>1
      <4>3. /\ read'[n].seq = n - 1
            /\ read'[n].icount <= header.endIcount
            /\ IsEnd(read'[n]) => read'[n].icount = header.endIcount
        BY <1>2, <2>1, <4>2 DEF Ordered, IsEnd
      <4>4. \A j \in 1..n : read'[j].icount <= read'[n].icount
        BY <1>2, <2>1, <4>2 DEF Ordered
      <4>5. ASSUME NEW j \in 1..count PROVE read[j].icount <= rec.icount /\ ~IsEnd(read[j])
        <5>1. j \in 1..n /\ j \in 1..Len(read') /\ j # Len(read')
          BY <1>3, <1>5, <4>1
        <5>2. read'[j] = read[j]
          BY <1>5
        <5>3. ~IsEnd(read'[j])
          BY <2>1, <5>1 DEF Ordered, IsEnd
        <5>. QED  BY <4>2, <4>4, <5>1, <5>2, <5>3
      <4>. QED  BY <4>2, <4>3, <4>5
    <3>2. ~endSeen
      BY <1>3, <3>1 DEF IInv, Walked
    <3>3. prev <= rec.icount
      BY <1>3, <3>1, RecordsAssumption DEF IInv, Walked, RecordShape
    <3>4. rec.seq \in 0..SeqMax /\ rec.icount \in Nat /\ header.endIcount \in Nat
      BY <1>3, RecordsAssumption, HeadersAssumption DEF RecordShape, HeaderShape
    <3>5. ~TooMany /\ Wrapped(count) = count
      BY <1>3, <3>1, <3>4, WrappedSmall, RecordsAssumption DEF TooMany
    <3>. QED  BY <1>3, <3>1, <3>2, <3>3, <3>4, <3>5 DEF Displaced
  <2>. QED  BY <2>1
<1>11. Reached'
  <2>1. HeaderSealed' /\ AtRecord' /\ header'.readable
    BY <1>2, <1>4, <1>5 DEF HeaderSealed, AtRecord
  <2>2. verdict' = "R4" => ~Intact(read[Len(read)])'
    BY <1>5, <1>7 DEF Intact, IsEnd
  <2>. QED  BY <1>7, <1>10, <2>1, <2>2 DEF Reached
<1>. QED  BY <1>8, <1>9, <1>11 DEF IInv

\* A record is accepted: it is intact, has the next number, is in its place
\* and does not follow the END.
LEMMA RecordAcceptedIInv == ASSUME IInv, RecordAccepted PROVE IInv'
<1>1. PICK rec \in Records :
        /\ Broken(RecordChecks(rec)) = {}
        /\ read' = Append(read, rec) /\ Advance(rec)
  BY DEF RecordAccepted
<1>2. verdict = "Walking" /\ UNCHANGED <<header, verdict>>
  BY DEF RecordAccepted
<1>3. /\ header \in Headers /\ read \in Seq(Records) /\ count \in Nat
      /\ endSeen \in BOOLEAN /\ prev \in Nat
  BY DEF IInv, TypeOK
<1>4. HeaderSealed /\ Len(read) = count
  BY <1>2 DEF IInv, Reached
<1>5. /\ read' \in Seq(Records) /\ Len(read') = count + 1
      /\ read'[count + 1] = rec /\ \A i \in 1..count : read'[i] = read[i]
  BY <1>1, <1>3, <1>4
<1>6. Intact(rec) /\ ~Displaced(rec)
  BY <1>1, <1>3, RecordBroken
<1>7. rec.seq \in 0..SeqMax /\ rec.icount \in Nat /\ header.endIcount \in Nat
  BY <1>3, RecordsAssumption, HeadersAssumption DEF RecordShape, HeaderShape
<1>8. ~endSeen /\ count <= SeqMax /\ rec.seq = count
  <2>1. ~endSeen /\ ~TooMany /\ rec.seq = Wrapped(count)
    BY <1>6 DEF Displaced
  <2>. QED  BY <1>3, <2>1, WrappedSmall, RecordsAssumption DEF TooMany
<1>9. /\ prev <= rec.icount /\ rec.icount <= header.endIcount
      /\ IsEnd(rec) => rec.icount = header.endIcount
  BY <1>3, <1>6, <1>7 DEF Displaced
<1>10. count' = count + 1 /\ prev' = rec.icount /\ endSeen' = (endSeen \/ IsEnd(rec))
  BY <1>1 DEF Advance
<1>11. TypeOK'
  BY <1>2, <1>3, <1>5, <1>7, <1>10 DEF IInv, TypeOK, IsEnd
<1>12. Walked'
  <2>1. \A i \in 1..count :
          /\ Intact(read[i]) /\ read[i].seq = i - 1 /\ ~IsEnd(read[i])
          /\ read[i].icount <= prev /\ read[i].icount <= header.endIcount
          /\ \A j \in 1..i : read[j].icount <= read[i].icount
    BY <1>8 DEF IInv, Walked
  <2>2. \A i \in 1..count : read[i].icount \in Nat
    BY <1>3, <1>4, RecordsAssumption DEF RecordShape
  <2>3. \A i \in 1..(count + 1) : i \in 1..count \/ i = count + 1
    BY <1>3
  <2>4. \A i \in 1..(count + 1) :
          /\ Intact(read'[i]) /\ read'[i].seq = i - 1
          /\ read'[i].icount <= rec.icount /\ read'[i].icount <= header.endIcount
          /\ IsEnd(read'[i]) => i = count + 1 /\ IsEnd(rec)
    BY <1>3, <1>5, <1>6, <1>7, <1>8, <1>9, <2>1, <2>2, <2>3
  <2>5. \A i \in 1..(count + 1) : \A j \in 1..i : read'[j].icount <= read'[i].icount
    <3>. SUFFICES ASSUME NEW i \in 1..(count + 1), NEW j \in 1..i
                  PROVE  read'[j].icount <= read'[i].icount
      OBVIOUS
    <3>1. CASE i \in 1..count
      <4>1. j \in 1..count
        BY <1>3, <3>1
      <4>2. read'[i] = read[i] /\ read'[j] = read[j]
        BY <1>5, <3>1, <4>1
      <4>3. read[j].icount <= read[i].icount
        BY <2>1, <3>1
      <4>. QED  BY <4>2, <4>3
    <3>2. CASE i = count + 1
      BY <1>3, <1>5, <2>4, <3>2
    <3>. QED  BY <2>3, <3>1, <3>2
  <2>6. endSeen' => IsEnd(rec)
    BY <1>8, <1>10
  <2>7. /\ count' <= SeqMax + 1
        /\ prev' = IF count' = 0 THEN 0 ELSE read'[count'].icount
    BY <1>3, <1>5, <1>8, <1>10, RecordsAssumption
  <2>8. endSeen' => count' > 0 /\ IsEnd(read'[count'])
    BY <1>3, <1>5, <1>10, <2>6
  <2>9. \A i \in 1..count' :
          /\ Intact(read'[i]) /\ read'[i].seq = i - 1
          /\ read'[i].icount <= prev' /\ read'[i].icount <= header'.endIcount
          /\ \A j \in 1..i : read'[j].icount <= read'[i].icount
          /\ IsEnd(read'[i]) => i = count' /\ endSeen' /\ read'[i].icount = header'.endIcount
    BY <1>2, <1>5, <1>9, <1>10, <2>4, <2>5
  <2>. QED  BY <2>7, <2>8, <2>9 DEF Walked, Intact, IsEnd
<1>13. Reached'
  BY <1>2, <1>4, <1>5, <1>10 DEF IInv, Reached, HeaderSealed
<1>. QED  BY <1>11, <1>12, <1>13 DEF IInv

\* The end of the file is found.
LEMMA EofIInv == ASSUME IInv, Eof PROVE IInv'
<1>1. /\ verdict = "Walking"
      /\ UNCHANGED <<header, read, count, prev, endSeen>>
  BY DEF Eof
<1>2. HeaderSealed /\ Len(read) = count
  BY <1>1 DEF IInv, Reached
<1>3. /\ DOMAIN EofChecks = 1..2
      /\ EofChecks[1] = IF ~endSeen THEN "R4" ELSE "Ok"
      /\ EofChecks[2] = IF count # header.recordCount THEN "R4" ELSE "Ok"
  BY DEF EofChecks, Check
<1>4. \/ verdict' = "Ok" /\ Complete
      \/ verdict' = "R4" /\ ~Complete
  <2>1. \/ verdict' = "Ok" /\ endSeen /\ count = header.recordCount
        \/ verdict' = "R4" /\ (~endSeen \/ count # header.recordCount)
    <3>1. CASE Broken(EofChecks) = {} /\ verdict' = "Ok"
      BY <1>3, <3>1 DEF Broken
    <3>2. CASE RejectBy(EofChecks)
      BY <1>3, <3>2 DEF RejectBy, Broken
    <3>. QED  BY <3>1, <3>2 DEF Eof
  <2>2. read \in Seq(Records) /\ count \in Nat /\ (read # <<>> <=> count > 0)
    BY <1>2 DEF IInv, TypeOK
  <2>3. endSeen <=> read # <<>> /\ IsEnd(read[Len(read)])
    <3>1. endSeen => count > 0 /\ IsEnd(read[count])
      BY DEF IInv, Walked
    <3>2. ASSUME count > 0, IsEnd(read[count]) PROVE endSeen
      <4>1. count \in 1..count
        BY <2>2, <3>2
      <4>. QED  BY <3>2, <4>1 DEF IInv, Walked
    <3>. QED  BY <1>2, <2>2, <3>1, <3>2
  <2>. QED  BY <1>2, <2>1, <2>3 DEF Complete
<1>5. TypeOK'
  BY <1>1, <1>4 DEF IInv, TypeOK, Verdicts
<1>6. Walked'
  BY <1>1, WalkedUnchanged DEF IInv, TypeOK
<1>7. Reached'
  <2>1. HeaderSealed' /\ header'.readable /\ Len(read') = count' /\ ~AtRecord'
    <3>1. ~AtRecord
      BY <1>2 DEF IInv, TypeOK, AtRecord
    <3>. QED  BY <1>1, <1>2, <3>1 DEF HeaderSealed, AtRecord
  <2>2. Complete' <=> Complete
    BY <1>1 DEF Complete, IsEnd
  <2>. QED  BY <1>4, <2>1, <2>2 DEF Reached
<1>. QED  BY <1>5, <1>6, <1>7 DEF IInv

LEMMA StepIInv == IInv /\ [Next]_vars => IInv'
<1>. SUFFICES ASSUME IInv, [Next]_vars PROVE IInv'
  OBVIOUS
<1>1. CASE UNCHANGED vars
  <2>1. TypeOK'
    BY <1>1 DEF IInv, TypeOK, vars
  <2>2. Walked'
    BY <1>1, WalkedUnchanged DEF IInv, TypeOK, vars
  <2>3. Reached'
    BY <1>1 DEF IInv, Reached, HeaderSealed, Ordered, AtRecord, Complete, Intact, IsEnd, vars
  <2>. QED  BY <2>1, <2>2, <2>3 DEF IInv
<1>. QED
  BY <1>1, HeaderRejectedIInv, HeaderAcceptedIInv, RecordRejectedIInv, RecordAcceptedIInv,
     EofIInv DEF Next, Step, Validated

LEMMA InvariantIInv == Spec => []IInv
  BY InitIInv, StepIInv, PTL DEF Spec

-----------------------------------------------------------------------------
\* Type correctness (dhilog.rs:300-393).
THEOREM TypeCorrect == Spec => []TypeOK
<1>1. IInv => TypeOK
  BY DEF IInv
<1>. QED  BY <1>1, InvariantIInv, PTL

\* Whatever the file, a segment accepted is sealed, intact and ordered as a
\* whole, and ends in its one END (dhilog.rs:291-393).
THEOREM Acceptance == Spec => []AcceptedIsWellFormed
<1>1. IInv => AcceptedIsWellFormed
  <2>. SUFFICES ASSUME IInv, verdict = "Ok" PROVE AcceptedIsWellFormed
    BY DEF AcceptedIsWellFormed
  <2>1. HeaderSealed /\ Len(read) = count /\ Complete
    BY DEF IInv, Reached
  <2>2. (\A i \in 1..count : Intact(read[i])) /\ Ordered(count)
    BY DEF IInv, Walked, Ordered
  <2>. QED  BY <2>1, <2>2 DEF AcceptedIsWellFormed
<1>. QED  BY <1>1, InvariantIInv, PTL

\* Whatever the file, a rejection names a rule that is broken where it was made
\* (R5 by the order of a record, R4 by the header, by the record itself or by a
\* log that is cut short), and nothing before breaks any (dhilog.rs:295-299).
THEOREM Justification == Spec => []RejectionIsJustified
<1>1. IInv => RejectionIsJustified
  BY DEF IInv, Walked, Reached, Ordered, RejectionIsJustified
<1>. QED  BY <1>1, InvariantIInv, PTL
=============================================================================
