-------------------------- MODULE FramePackProofs --------------------------
(***************************************************************************)
(* For packs of any frames, whatever the hash reads as, and any one cut or *)
(* damage: read_rfp lets a render resume only from all the frames pushed,  *)
(* and a torn pack loses none of those before the accident.  For any path  *)
(* replayed into one: the HUD shows on each frame what the guest held.     *)
(***************************************************************************)
EXTENDS FrameOverlay, SequenceTheorems, WellFoundedInduction, TLAPS

-----------------------------------------------------------------------------
\* Sequences of cells, whatever a cell is

\* A sequence, over no set in particular.
IsSeq(s) == Len(s) \in Nat /\ s = [i \in 1..Len(s) |-> s[i]]

\* What is a sequence is one over any set its elements are in.
LEMMA SeqOf ==
  ASSUME NEW s, IsSeq(s), NEW S, \A i \in 1..Len(s) : s[i] \in S
  PROVE  s \in Seq(S)
<1>1. s \in [1..Len(s) -> S]
  BY DEF IsSeq
<1> QED
  BY <1>1, SeqDef DEF IsSeq

\* A member of Seq(S) is a sequence.
LEMMA SeqIs ==
  ASSUME NEW S, NEW s \in Seq(S)
  PROVE  IsSeq(s)
<1>1. Len(s) \in Nat /\ s \in [1..Len(s) -> S]
  BY LenProperties
<1> QED
  BY <1>1 DEF IsSeq

\* Sequences of one length with the same elements are the same.
LEMMA SameSeq ==
  ASSUME NEW s, NEW t, IsSeq(s), IsSeq(t), Len(s) = Len(t), \A i \in 1..Len(s) : s[i] = t[i]
  PROVE  s = t
BY DEF IsSeq

\* What \o makes of two sequences.
LEMMA ConcatIs ==
  ASSUME NEW s, NEW t, IsSeq(s), IsSeq(t)
  PROVE  /\ IsSeq(s \o t) /\ Len(s \o t) = Len(s) + Len(t)
         /\ \A i \in 1..Len(s) : (s \o t)[i] = s[i]
         /\ \A i \in 1..Len(t) : (s \o t)[Len(s) + i] = t[i]
<1> DEFINE S == {s[i] : i \in 1..Len(s)} \cup {t[i] : i \in 1..Len(t)}
<1>1. s \in Seq(S) /\ t \in Seq(S)
  BY SeqOf
<1>2. Len(s) \in Nat /\ Len(t) \in Nat
  BY DEF IsSeq
<1> HIDE DEF S
<1>3. /\ s \o t \in Seq(S) /\ Len(s \o t) = Len(s) + Len(t)
      /\ \A i \in 1..(Len(s) + Len(t)) :
           (s \o t)[i] = IF i <= Len(s) THEN s[i] ELSE t[i - Len(s)]
  BY <1>1, ConcatProperties
<1>4. \A i \in 1..Len(s) : (s \o t)[i] = s[i]
  BY <1>2, <1>3
<1>5. ASSUME NEW i \in 1..Len(t) PROVE (s \o t)[Len(s) + i] = t[i]
  <2>1. Len(s) + i \in 1..(Len(s) + Len(t)) /\ ~(Len(s) + i <= Len(s)) /\ Len(s) + i - Len(s) = i
    BY <1>2
  <2> QED
    BY <2>1, <1>3
<1> QED
  BY <1>3, <1>4, <1>5, SeqIs

\* What Append makes of a sequence.
LEMMA AppendIs ==
  ASSUME NEW s, NEW e, IsSeq(s)
  PROVE  /\ IsSeq(Append(s, e)) /\ Len(Append(s, e)) = Len(s) + 1
         /\ \A i \in 1..Len(s) : Append(s, e)[i] = s[i]
         /\ Append(s, e)[Len(s) + 1] = e
<1> DEFINE S == {s[i] : i \in 1..Len(s)} \cup {e}
<1>1. s \in Seq(S) /\ e \in S
  BY SeqOf
<1>2. Len(s) \in Nat
  BY DEF IsSeq
<1> HIDE DEF S
<1>3. /\ Append(s, e) \in Seq(S) /\ Len(Append(s, e)) = Len(s) + 1
      /\ \A i \in 1..Len(s) : Append(s, e)[i] = s[i]
      /\ Append(s, e)[Len(s) + 1] = e
  BY <1>1, <1>2
<1> QED
  BY <1>3, SeqIs

\* What SubSeq takes of a sequence.
LEMMA SubSeqIs ==
  ASSUME NEW s, IsSeq(s), NEW m \in Nat \ {0}, NEW n \in Nat, m <= n + 1, n <= Len(s)
  PROVE  /\ IsSeq(SubSeq(s, m, n)) /\ Len(SubSeq(s, m, n)) = n + 1 - m
         /\ \A i \in 1..(n + 1 - m) : SubSeq(s, m, n)[i] = s[m + i - 1]
<1> DEFINE S == {s[i] : i \in 1..Len(s)}
<1>1. \A i \in m..n : s[i] \in S
  BY DEF IsSeq
<1> HIDE DEF S
<1>2. /\ SubSeq(s, m, n) \in Seq(S)
      /\ Len(SubSeq(s, m, n)) = IF m <= n THEN n - m + 1 ELSE 0
      /\ \A i \in 1..(n - m + 1) : SubSeq(s, m, n)[i] = s[m + i - 1]
  BY <1>1, SubSeqProperties
<1>3. n - m + 1 = n + 1 - m /\ (~(m <= n) => n + 1 - m = 0)
  OBVIOUS
<1> QED
  BY <1>2, <1>3, SeqIs

-----------------------------------------------------------------------------
\* The inductive invariant

\* Where the cells of record k end, and those of all records.
EndOf(k) == IF k = 0 THEN HeaderLen ELSE ends[k]
BodyLen == EndOf(Len(pushed))

\* The cells of frame f follow the first o cells of b.
RecordAt(b, o, f) ==
  /\ IsFrame(f) /\ o \in Nat /\ o >= 1
  /\ b[o + 1] = [t |-> "id", frame |-> f.frame, segment |-> f.segment]
  /\ b[o + 2] = [t |-> "comp", comp |-> f.comp]
  /\ b[o + 3] = [t |-> "mark", icount |-> f.icount, len |-> Len(f.bytes)]
  /\ \A j \in 1..Len(f.bytes) : b[o + RecordHeaderLen + j] = f.bytes[j]

\* Record k lies whole behind the one before it.
RecordLies(k) ==
  /\ RecordAt(buf, EndOf(k - 1), pushed[k])
  /\ ends[k] \in Nat /\ ends[k] = EndOf(k - 1) + RecordHeaderLen + Len(pushed[k].bytes)
  /\ ends[k] <= BodyLen

\* The writer's cells are the header and the records.
Packed ==
  /\ IsSeq(pushed) /\ IsSeq(ends) /\ IsSeq(buf)
  /\ Len(ends) = Len(pushed)
  /\ BodyLen \in Nat /\ BodyLen >= 1 /\ BodyLen <= Len(buf)
  /\ buf[1] = HeaderCell
  /\ \A k \in 1..Len(pushed) : RecordLies(k)
  /\ \A j, k \in 1..Len(pushed) : j <= k => ends[j] <= ends[k]
  /\ \A i \in 1..BodyLen : HasLength(buf[i]) /\ HashesNoPack(buf[i])

\* Once finished they are followed by a footer that hashes them.
Sealed ==
  /\ finished \in {"No", "True", "False"}
  /\ finished = "No" => Len(buf) = BodyLen
  /\ finished # "No" =>
       /\ Len(buf) = BodyLen + FooterLen
       /\ \E h \in HashLens :
            \A i \in 1..FooterLen :
              buf[BodyLen + i] = FooterCells(SubSeq(buf, 1, BodyLen), Len(pushed),
                                             IF finished = "True" THEN 1 ELSE 0, h)[i]

\* The file is what was written up to the accident.
Filed ==
  /\ accident \in {"None", "Cut", "Damage"}
  /\ finished = "No" => accident = "None" /\ reading = "No"
  /\ finished # "No" =>
       /\ IsSeq(file) /\ sound \in Nat
       /\ sound <= Len(file) /\ Len(file) <= Len(buf)
       /\ \A i \in 1..sound : file[i] = buf[i]
       /\ \A i \in 1..Len(file) : HasLength(file[i])
       /\ accident = "None" => file = buf /\ sound = Len(buf)
       /\ accident = "Cut" => sound = Len(file) /\ sound < Len(buf)
       /\ accident = "Damage" =>
            /\ sound < Len(file) /\ Len(file) = Len(buf)
            /\ file[sound + 1] # buf[sound + 1]
            /\ \A i \in 1..Len(file) : i # sound + 1 => file[i] = buf[i]

\* The records read are those pushed up to the accident; the one that meets it
\* may be anything, and on a file that was cut it is the last.
Walked ==
  LET n == Len(records)
  IN  /\ IsSeq(records) /\ off \in Nat /\ framing \in BOOLEAN
      /\ HeaderOk /\ footer = IF FooterOk THEN Len(file) - FooterLen ELSE 0
      /\ off <= ZoneEnd
      /\ \A i \in 1..Len(pushed) : Kept(i) /\ i <= n => records[i] = pushed[i]
      /\ n = 0 \/ Kept(n) => off = EndOf(n)
      /\ ~framing => ~Kept(n + 1)
      /\ accident # "Damage" =>
           /\ \A i \in 1..(n - 1) : Kept(i)
           /\ n = 0 \/ Kept(n) \/ off = ZoneEnd
      /\ footer > 0 => framing /\ n <= Len(pushed)

Read ==
  /\ reading \in {"No", "Records", "Done"}
  /\ reading = "No" => outcome = "None" /\ records = <<>> /\ framing = TRUE /\ footer = 0
  /\ reading = "Records" => outcome = "None" /\ Walked
  /\ reading = "Done" => outcome \in {"Complete", "Torn", "Error"} /\ ResumeIsSafe /\ TornKeepsFrames

PackInv == Packed /\ Sealed /\ Filed /\ Read

-----------------------------------------------------------------------------
\* The writer

USE DEF HeaderLen, RecordHeaderLen, FooterLen

\* The empty sequence is one.
LEMMA EmptyIsSeq == IsSeq(<<>>) /\ Len(<<>>) = 0
BY EmptySeq, SeqIs

\* RfpWriter::new: the header and no record.
LEMMA InitPackInv == Init => PackInv
<1> SUFFICES ASSUME Init PROVE PackInv
  OBVIOUS
<1>1. IsSeq(buf) /\ Len(buf) = 1 /\ buf[1] = HeaderCell
  <2>1. <<HeaderCell>> \in Seq({HeaderCell})
    OBVIOUS
  <2> QED
    BY <2>1, SeqIs DEF Init
<1>2. IsSeq(pushed) /\ IsSeq(ends) /\ Len(pushed) = 0 /\ Len(ends) = 0
  BY EmptyIsSeq DEF Init
<1>3. HasLength(HeaderCell) /\ HashesNoPack(HeaderCell)
  BY DEF HasLength, HashesNoPack, HeaderCell
<1>4. Packed
  BY <1>1, <1>2, <1>3 DEF Packed, BodyLen, EndOf
<1>5. Sealed /\ Filed /\ Read
  BY <1>1, <1>2 DEF Init, Sealed, BodyLen, EndOf, Filed, Read
<1> QED
  BY <1>4, <1>5 DEF PackInv

\* The cells of a record, and that each may stand in a pack.
LEMMA RecordCellsAre ==
  ASSUME NEW f, IsFrame(f)
  PROVE  LET r == RecordCells(f)
         IN  /\ IsSeq(r) /\ Len(r) = RecordHeaderLen + Len(f.bytes)
             /\ r[1] = [t |-> "id", frame |-> f.frame, segment |-> f.segment]
             /\ r[2] = [t |-> "comp", comp |-> f.comp]
             /\ r[3] = [t |-> "mark", icount |-> f.icount, len |-> Len(f.bytes)]
             /\ \A j \in 1..Len(f.bytes) : r[RecordHeaderLen + j] = f.bytes[j]
             /\ \A i \in 1..Len(r) : HasLength(r[i]) /\ HashesNoPack(r[i])
<1> DEFINE a == [t |-> "id", frame |-> f.frame, segment |-> f.segment]
           b == [t |-> "comp", comp |-> f.comp]
           c == [t |-> "mark", icount |-> f.icount, len |-> Len(f.bytes)]
           h == <<a, b, c>>
           r == h \o f.bytes
<1>1. IsSeq(f.bytes) /\ Len(f.bytes) \in Nat
  BY DEF IsFrame, IsSeq
<1>2. /\ HasLength(a) /\ HashesNoPack(a) /\ HasLength(b) /\ HashesNoPack(b)
      /\ HasLength(c) /\ HashesNoPack(c)
  BY <1>1 DEF HasLength, HashesNoPack
<1> HIDE DEF a, b, c
<1>3. IsSeq(h) /\ Len(h) = 3 /\ h[1] = a /\ h[2] = b /\ h[3] = c
  <2>1. h \in Seq({a, b, c})
    OBVIOUS
  <2> QED
    BY <2>1, SeqIs
<1> HIDE DEF h
<1>4. /\ IsSeq(r) /\ Len(r) = 3 + Len(f.bytes)
      /\ \A i \in 1..3 : r[i] = h[i]
      /\ \A j \in 1..Len(f.bytes) : r[3 + j] = f.bytes[j]
  <2>1. /\ IsSeq(r) /\ Len(r) = Len(h) + Len(f.bytes)
        /\ \A i \in 1..Len(h) : r[i] = h[i]
        /\ \A j \in 1..Len(f.bytes) : r[Len(h) + j] = f.bytes[j]
    <3> DEFINE g == f.bytes
    <3>1. IsSeq(h) /\ IsSeq(g)
      BY <1>1, <1>3
    <3> HIDE DEF g
    <3>2. /\ IsSeq(h \o g) /\ Len(h \o g) = Len(h) + Len(g)
          /\ \A i \in 1..Len(h) : (h \o g)[i] = h[i]
          /\ \A j \in 1..Len(g) : (h \o g)[Len(h) + j] = g[j]
      BY ONLY <3>1, ConcatIs
    <3> QED
      BY <3>2 DEF g
  <2> HIDE DEF r
  <2> QED
    BY <2>1, <1>1, <1>3
<1> HIDE DEF r
<1>5. ASSUME NEW i \in 1..Len(r) PROVE HasLength(r[i]) /\ HashesNoPack(r[i])
  <2>1. CASE i \in 1..3
    <3>1. r[i] = a \/ r[i] = b \/ r[i] = c
      BY <2>1, <1>3, <1>4
    <3> QED
      BY <3>1, <1>2
  <2>2. CASE i \notin 1..3
    <3>1. i - 3 \in 1..Len(f.bytes) /\ 3 + (i - 3) = i
      BY <2>2, <1>1, <1>4
    <3>2. r[i] = f.bytes[i - 3]
      BY <3>1, <1>4
    <3> QED
      BY <3>1, <3>2 DEF IsFrame
  <2> QED
    BY <2>1, <2>2
<1>6. RecordCells(f) = r
  BY DEF RecordCells, r, h, a, b, c
<1>7. r[1] = a /\ r[2] = b /\ r[3] = c
  BY <1>3, <1>4
<1> QED
  BY <1>4, <1>5, <1>6, <1>7 DEF a, b, c

\* A record is where it is in every sequence that agrees so far.
LEMMA RecordCopied ==
  ASSUME NEW b, NEW c, NEW o, NEW f, RecordAt(b, o, f),
         \A i \in 1..(o + RecordHeaderLen + Len(f.bytes)) : c[i] = b[i]
  PROVE  RecordAt(c, o, f)
<1>1. o \in Nat /\ o >= 1 /\ Len(f.bytes) \in Nat
  BY DEF RecordAt, IsFrame
<1>2. \A i \in 1..3 : c[o + i] = b[o + i]
  <2> TAKE i \in 1..3
  <2> DEFINE m == Len(f.bytes)
  <2>1. m \in Nat
    BY <1>1
  <2> HIDE DEF m
  <2>2. o + i \in 1..(o + RecordHeaderLen + m)
    BY <2>1, <1>1
  <2> QED
    BY <2>2 DEF m
<1>3. \A j \in 1..Len(f.bytes) : c[o + RecordHeaderLen + j] = b[o + RecordHeaderLen + j]
  <2> TAKE j \in 1..Len(f.bytes)
  <2>1. o + RecordHeaderLen + j \in 1..(o + RecordHeaderLen + Len(f.bytes))
    BY <1>1
  <2> QED
    BY <2>1
<1>4. 1 \in 1..3 /\ 2 \in 1..3 /\ 3 \in 1..3
  OBVIOUS
<1> QED
  BY <1>2, <1>3, <1>4 DEF RecordAt

\* What push appends is the record, behind what was there.
LEMMA RecordBehind ==
  ASSUME NEW b, NEW f, IsSeq(b), Len(b) >= 1, IsFrame(f)
  PROVE  LET c == b \o RecordCells(f)
         IN  /\ IsSeq(c) /\ Len(c) = Len(b) + RecordHeaderLen + Len(f.bytes)
             /\ \A i \in 1..Len(b) : c[i] = b[i]
             /\ RecordAt(c, Len(b), f)
             /\ \A i \in (Len(b) + 1)..Len(c) : HasLength(c[i]) /\ HashesNoPack(c[i])
<1> DEFINE r == RecordCells(f)
           c == b \o r
<1>1. Len(b) \in Nat /\ Len(f.bytes) \in Nat
  BY DEF IsSeq, IsFrame
<1>2. /\ IsSeq(r) /\ Len(r) = RecordHeaderLen + Len(f.bytes)
      /\ r[1] = [t |-> "id", frame |-> f.frame, segment |-> f.segment]
      /\ r[2] = [t |-> "comp", comp |-> f.comp]
      /\ r[3] = [t |-> "mark", icount |-> f.icount, len |-> Len(f.bytes)]
      /\ \A j \in 1..Len(f.bytes) : r[RecordHeaderLen + j] = f.bytes[j]
      /\ \A i \in 1..Len(r) : HasLength(r[i]) /\ HashesNoPack(r[i])
  BY RecordCellsAre
<1> HIDE DEF r
<1>3. /\ IsSeq(c) /\ Len(c) = Len(b) + Len(r)
      /\ \A i \in 1..Len(b) : c[i] = b[i]
      /\ \A i \in 1..Len(r) : c[Len(b) + i] = r[i]
  <2>1. IsSeq(b) /\ IsSeq(r)
    BY <1>2
  <2> QED
    BY ONLY <2>1, ConcatIs
<1> HIDE DEF c
<1>4. \A i \in 1..3 : c[Len(b) + i] = r[i]
  <2>1. \A i \in 1..3 : i \in 1..Len(r)
    BY <1>1, <1>2
  <2> QED
    BY <2>1, <1>3
<1>5. \A j \in 1..Len(f.bytes) : c[Len(b) + RecordHeaderLen + j] = f.bytes[j]
  <2> TAKE j \in 1..Len(f.bytes)
  <2>1. RecordHeaderLen + j \in 1..Len(r) /\ Len(b) + RecordHeaderLen + j = Len(b) + (RecordHeaderLen + j)
    BY <1>1, <1>2
  <2> QED
    BY <2>1, <1>2, <1>3
<1>6. RecordAt(c, Len(b), f)
  BY <1>1, <1>2, <1>4, <1>5 DEF RecordAt
<1>7. \A i \in (Len(b) + 1)..Len(c) : HasLength(c[i]) /\ HashesNoPack(c[i])
  <2> TAKE i \in (Len(b) + 1)..Len(c)
  <2>1. i - Len(b) \in 1..Len(r) /\ Len(b) + (i - Len(b)) = i
    BY <1>1, <1>2, <1>3
  <2> QED
    BY <2>1, <1>2, <1>3
<1>8. Len(c) = Len(b) + RecordHeaderLen + Len(f.bytes)
  <2> DEFINE m == Len(f.bytes)
  <2>1. m \in Nat /\ Len(r) = RecordHeaderLen + m
    BY <1>1, <1>2
  <2> HIDE DEF m
  <2>2. Len(c) = Len(b) + RecordHeaderLen + m
    BY <2>1, <1>1, <1>3
  <2> QED
    BY <2>2 DEF m
<1> QED
  BY <1>3, <1>6, <1>7, <1>8 DEF c, r

\* push keeps every record in its place and lays one more behind them.
LEMMA PushPacks ==
  ASSUME PackInv, NEW f, IsFrame(f), Push(f)
  PROVE  PackInv'
<1> PICK n : n = Len(pushed)
  OBVIOUS
<1>1. IsFrame(f) /\ finished = "No" /\ reading = "No" /\ finished' = "No" /\ reading' = "No"
  BY DEF Push, PackInv, Filed, fileVars, readVars
<1>2. /\ n \in Nat /\ Len(buf) \in Nat /\ Len(buf) = BodyLen /\ Len(buf) >= 1
      /\ Len(ends) = n /\ Len(f.bytes) \in Nat
  BY <1>1 DEF PackInv, Packed, Sealed, IsSeq, IsFrame
<1>3. /\ IsSeq(buf') /\ Len(buf') = Len(buf) + RecordHeaderLen + Len(f.bytes)
      /\ \A i \in 1..Len(buf) : buf'[i] = buf[i]
      /\ RecordAt(buf', Len(buf), f)
      /\ \A i \in (Len(buf) + 1)..Len(buf') : HasLength(buf'[i]) /\ HashesNoPack(buf'[i])
  <2>1. IsSeq(buf) /\ buf' = buf \o RecordCells(f)
    BY DEF Push, PackInv, Packed
  <2> QED
    BY <2>1, <1>1, <1>2, RecordBehind
<1>4. /\ IsSeq(pushed') /\ Len(pushed') = n + 1 /\ pushed'[n + 1] = f
      /\ \A i \in 1..n : pushed'[i] = pushed[i]
  BY AppendIs DEF Push, PackInv, Packed
<1>5. /\ IsSeq(ends') /\ Len(ends') = n + 1 /\ ends'[n + 1] = Len(buf')
      /\ \A i \in 1..n : ends'[i] = ends[i]
  <2>1. IsSeq(ends) /\ ends' = Append(ends, Len(buf'))
    BY DEF Push, PackInv, Packed
  <2> QED
    BY <2>1, <1>2, AppendIs
<1>6. /\ BodyLen' = Len(buf') /\ EndOf(n) = Len(buf)
      /\ \A k \in 0..n : EndOf(k)' = EndOf(k)
  BY <1>2, <1>4, <1>5 DEF BodyLen, EndOf
<1>7. BodyLen' >= 1 /\ BodyLen <= BodyLen' /\ BodyLen' \in Nat
  BY <1>2, <1>3, <1>6
<1>8. ASSUME NEW k \in 1..n
      PROVE  RecordLies(k)' /\ ends'[k] \in Nat /\ ends'[k] <= Len(buf)
  <2>1. RecordLies(k)
    BY DEF PackInv, Packed
  <2>2. ends'[k] = ends[k] /\ pushed'[k] = pushed[k] /\ EndOf(k - 1)' = EndOf(k - 1)
    BY <1>2, <1>4, <1>5, <1>6
  <2>3. ends[k] <= Len(buf) /\ ends[k] \in Nat
    BY <2>1, <1>2 DEF RecordLies
  <2>4. \A i \in 1..(EndOf(k - 1) + RecordHeaderLen + Len(pushed[k].bytes)) : buf'[i] = buf[i]
    BY <2>1, <2>3, <1>2, <1>3 DEF RecordLies
  <2>5. RecordAt(buf', EndOf(k - 1), pushed[k])
    BY <2>1, <2>4, RecordCopied DEF RecordLies
  <2>6. ends[k] <= BodyLen'
    BY <2>3, <1>2, <1>7
  <2> QED
    BY <2>1, <2>2, <2>3, <2>5, <2>6 DEF RecordLies
<1>9. RecordLies(n + 1)' /\ ends'[n + 1] = BodyLen'
  <2>1. (n + 1) - 1 = n /\ n \in 0..n
    BY <1>2
  <2>2. EndOf(n)' = Len(buf)
    BY <2>1, <1>6
  <2>3. ends'[n + 1] = BodyLen' /\ BodyLen' <= BodyLen'
    BY <1>5, <1>6, <1>7
  <2>4. RecordAt(buf', EndOf((n + 1) - 1)', pushed'[n + 1])
    BY <2>1, <2>2, <1>3, <1>4
  <2>5. ends'[n + 1] = EndOf((n + 1) - 1)' + RecordHeaderLen + Len(pushed'[n + 1].bytes)
    BY <2>1, <2>2, <1>3, <1>4, <1>5
  <2> QED
    BY <2>3, <2>4, <2>5, <1>7 DEF RecordLies
<1>10. \A i \in 1..BodyLen' : HasLength(buf'[i]) /\ HashesNoPack(buf'[i])
  <2> TAKE i \in 1..BodyLen'
  <2>1. CASE i <= Len(buf)
    <3>1. i \in 1..Len(buf) /\ i \in 1..BodyLen
      BY <2>1, <1>2, <1>7
    <3> QED
      BY <3>1, <1>3 DEF PackInv, Packed
  <2>2. CASE ~(i <= Len(buf))
    BY <2>2, <1>2, <1>3, <1>6, <1>7
  <2> QED
    BY <2>1, <2>2
<1>11. \A j, k \in 1..(n + 1) : j <= k => ends'[j] <= ends'[k]
  <2> SUFFICES ASSUME NEW j \in 1..(n + 1), NEW k \in 1..(n + 1), j <= k
               PROVE  ends'[j] <= ends'[k]
    OBVIOUS
  <2>1. CASE k <= n
    BY <2>1, <1>2, <1>5 DEF PackInv, Packed
  <2>2. CASE k = n + 1 /\ j <= n
    BY <2>2, <1>2, <1>7, <1>8, <1>9
  <2>3. CASE k = n + 1 /\ j = n + 1
    BY <2>3, <1>7, <1>9
  <2> QED
    BY <2>1, <2>2, <2>3, <1>2
<1>12. \A k \in 1..(n + 1) : RecordLies(k)'
  <2> SUFFICES ASSUME NEW k \in 1..(n + 1) PROVE RecordLies(k)'
    OBVIOUS
  <2>1. CASE k \in 1..n
    BY <2>1, <1>8
  <2>2. CASE k = n + 1
    BY ONLY <2>2, <1>9
  <2> QED
    BY <2>1, <2>2, <1>2
<1>13. buf'[1] = HeaderCell
  <2>1. 1 \in 1..Len(buf)
    BY <1>2
  <2> QED
    BY <2>1, <1>3 DEF PackInv, Packed
<1>14. Packed'
  BY <1>2, <1>3, <1>4, <1>5, <1>6, <1>7, <1>10, <1>11, <1>12, <1>13 DEF Packed
<1>15. Sealed' /\ Filed' /\ Read'
  BY <1>1, <1>6 DEF Sealed, Filed, Read, PackInv, Push, fileVars, readVars
<1> QED
  BY <1>14, <1>15 DEF PackInv

\* finish appends the four cells of a footer that hashes the rest.
LEMMA FooterBehind ==
  ASSUME NEW b, IsSeq(b), NEW n, NEW d, NEW h \in HashLens
  PROVE  LET w == FooterCells(b, n, d, h)
             c == b \o w
         IN  /\ IsSeq(c) /\ Len(c) = Len(b) + FooterLen
             /\ SubSeq(c, 1, Len(b)) = b
             /\ \A i \in 1..Len(b) : c[i] = b[i]
             /\ \A i \in 1..FooterLen : c[Len(b) + i] = w[i] /\ HasLength(w[i])
<1> DEFINE e == [t |-> "end", count |-> n]
           g == [t |-> "high"]
           k == [t |-> "flag", complete |-> d, hash |-> b, len |-> h]
           s == [t |-> "rest", hash |-> b]
           w == FooterCells(b, n, d, h)
           c == b \o w
<1>1. HasLength(e) /\ HasLength(g) /\ HasLength(k) /\ HasLength(s)
  BY HashLensAssumption DEF HasLength
<1>2. w = <<e, g, k, s>>
  BY DEF FooterCells
<1> HIDE DEF e, g, k, s, w
<1>3. IsSeq(w) /\ Len(w) = 4 /\ w[1] = e /\ w[2] = g /\ w[3] = k /\ w[4] = s
  <2>1. <<e, g, k, s>> \in Seq({e, g, k, s})
    OBVIOUS
  <2> QED
    BY <2>1, <1>2, SeqIs
<1>4. \A i \in 1..4 : HasLength(w[i])
  <2> TAKE i \in 1..4
  <2>1. w[i] = e \/ w[i] = g \/ w[i] = k \/ w[i] = s
    BY <1>3
  <2> QED
    BY <2>1, <1>1
<1>5. /\ IsSeq(c) /\ Len(c) = Len(b) + Len(w)
      /\ \A i \in 1..Len(b) : c[i] = b[i]
      /\ \A i \in 1..Len(w) : c[Len(b) + i] = w[i]
  <2>1. IsSeq(b) /\ IsSeq(w)
    BY <1>3
  <2> QED
    BY ONLY <2>1, ConcatIs
<1> HIDE DEF c
<1>6. Len(b) \in Nat /\ Len(c) = Len(b) + FooterLen
  BY <1>3, <1>5 DEF IsSeq
<1>7. SubSeq(c, 1, Len(b)) = b
  <2> DEFINE l == Len(b)
             u == SubSeq(c, 1, l)
  <2>1. l \in Nat /\ l <= Len(c) /\ 1 <= l + 1
    BY <1>6
  <2>2. IsSeq(u) /\ Len(u) = l + 1 - 1 /\ \A i \in 1..(l + 1 - 1) : u[i] = c[1 + i - 1]
    <3> HIDE DEF l
    <3>1. IsSeq(c) /\ 1 \in Nat \ {0}
      BY <1>5
    <3> QED
      BY ONLY <2>1, <3>1, SubSeqIs
  <2>3. l + 1 - 1 = l /\ \A i \in 1..l : 1 + i - 1 = i
    BY <2>1
  <2>4. Len(u) = l /\ \A i \in 1..l : u[i] = b[i]
    BY <2>2, <2>3, <1>5
  <2> QED
    BY <2>2, <2>4, SameSeq
<1> QED
  BY <1>3, <1>4, <1>5, <1>6, <1>7 DEF c, w

\* finish seals the records with a footer, and the file is what was written.
LEMMA FinishPacks ==
  ASSUME PackInv, Finish
  PROVE  PackInv'
<1>1. PICK d \in {0, 1}, h \in HashLens :
        /\ finished' = IF d = 1 THEN "True" ELSE "False"
        /\ buf' = buf \o FooterCells(buf, Len(pushed), d, h)
  BY DEF Finish
<1>2. PICK w : w = FooterCells(buf, Len(pushed), d, h)
  OBVIOUS
<1>3. /\ finished' \in {"True", "False"} /\ d = IF finished' = "True" THEN 1 ELSE 0
      /\ reading = "No" /\ accident = "None" /\ Len(buf) = BodyLen
      /\ BodyLen \in Nat /\ BodyLen >= 1 /\ IsSeq(buf) /\ buf[1] = HeaderCell
  BY <1>1 DEF PackInv, Packed, Sealed, Filed, Finish
<1>4. /\ IsSeq(buf') /\ Len(buf') = BodyLen + FooterLen
      /\ SubSeq(buf', 1, BodyLen) = buf
      /\ \A i \in 1..BodyLen : buf'[i] = buf[i]
      /\ \A i \in 1..FooterLen : buf'[BodyLen + i] = w[i] /\ HasLength(w[i])
  <2>1. IsSeq(buf) /\ buf' = buf \o w
    BY <1>1, <1>2, <1>3
  <2>2. /\ IsSeq(buf') /\ Len(buf') = Len(buf) + FooterLen
        /\ SubSeq(buf', 1, Len(buf)) = buf
        /\ \A i \in 1..Len(buf) : buf'[i] = buf[i]
        /\ \A i \in 1..FooterLen : buf'[Len(buf) + i] = w[i] /\ HasLength(w[i])
    BY <2>1, <1>2, FooterBehind
  <2> QED
    BY <2>2, <1>3
<1>5. pushed' = pushed /\ ends' = ends /\ BodyLen' = BodyLen /\ \A k : EndOf(k)' = EndOf(k)
  BY DEF Finish, BodyLen, EndOf
<1>6. Packed'
  <2>1. ASSUME NEW k \in 1..Len(pushed) PROVE RecordLies(k)'
    <3>1. RecordLies(k)
      BY DEF PackInv, Packed
    <3>2. \A i \in 1..(EndOf(k - 1) + RecordHeaderLen + Len(pushed[k].bytes)) : buf'[i] = buf[i]
      BY <3>1, <1>3, <1>4 DEF RecordLies
    <3>3. RecordAt(buf', EndOf(k - 1), pushed[k])
      BY <3>1, <3>2, RecordCopied DEF RecordLies
    <3> QED
      BY <3>1, <3>3, <1>5 DEF RecordLies
  <2>2. \A i \in 1..BodyLen : HasLength(buf'[i]) /\ HashesNoPack(buf'[i])
    BY <1>4 DEF PackInv, Packed
  <2>3. buf'[1] = HeaderCell /\ BodyLen <= Len(buf')
    BY <1>3, <1>4
  <2> QED
    BY <1>3, <1>4, <1>5, <2>1, <2>2, <2>3 DEF PackInv, Packed
<1>7. Sealed'
  <2>1. w = FooterCells(SubSeq(buf', 1, BodyLen'), Len(pushed'),
                        IF finished' = "True" THEN 1 ELSE 0, h)
    BY <1>2, <1>3, <1>4, <1>5
  <2>2. \A i \in 1..FooterLen : buf'[BodyLen' + i] = w[i]
    BY <1>4, <1>5
  <2> QED
    BY <1>3, <1>4, <1>5, <2>1, <2>2 DEF Sealed
<1>8. Filed'
  <2>1. \A i \in 1..Len(buf') : HasLength(buf'[i])
    <3> TAKE i \in 1..Len(buf')
    <3>1. CASE i \in 1..BodyLen
      BY <3>1, <1>4 DEF PackInv, Packed
    <3>2. CASE i \notin 1..BodyLen
      <4>1. i - BodyLen \in 1..FooterLen /\ BodyLen + (i - BodyLen) = i
        BY <3>2, <1>3, <1>4
      <4> QED
        BY <4>1, <1>4
    <3> QED
      BY <3>1, <3>2
  <2>2. file' = buf' /\ sound' = Len(buf') /\ accident' = "None" /\ Len(buf') \in Nat
    BY <1>3, <1>4 DEF Finish
  <2> QED
    BY <2>1, <2>2, <1>3, <1>4 DEF Filed
<1>9. Read'
  BY <1>3 DEF Read, PackInv, Finish, readVars
<1> QED
  BY <1>6, <1>7, <1>8, <1>9 DEF PackInv

-----------------------------------------------------------------------------
\* Accidents

\* A damaged length is still a length.
LEMMA AlteredHasLength ==
  ASSUME NEW c, HasLength(c), NEW d \in Altered(c)
  PROVE  HasLength(d)
BY DEF HasLength, Altered

\* What the writer wrote stays as it is when its variables do.
LEMMA WriterRests ==
  ASSUME PackInv, UNCHANGED writeVars
  PROVE  Packed' /\ Sealed'
<1>1. BodyLen' = BodyLen /\ \A k : EndOf(k)' = EndOf(k)
  BY DEF writeVars, BodyLen, EndOf
<1>2. \A k : RecordLies(k)' = RecordLies(k)
  BY <1>1 DEF writeVars, RecordLies
<1> QED
  BY <1>1, <1>2 DEF writeVars, PackInv, Packed, Sealed

\* A file that is cut is sound to its end.
LEMMA CutFiles ==
  ASSUME PackInv, Cut
  PROVE  PackInv'
<1>1. PICK n \in 0..(Len(buf) - 1) : file' = SubSeq(buf, 1, n) /\ sound' = n
  BY DEF Cut
<1>2. /\ finished # "No" /\ reading = "No" /\ accident' = "Cut"
      /\ file = buf /\ IsSeq(buf) /\ Len(buf) \in Nat
      /\ \A i \in 1..Len(buf) : HasLength(buf[i])
      /\ UNCHANGED <<writeVars, readVars>>
  BY DEF Cut, Intact, PackInv, Filed, IsSeq
<1>3. n \in Nat /\ n < Len(buf) /\ n <= Len(buf) /\ 1 <= n + 1
  BY <1>2
<1>4. IsSeq(file') /\ Len(file') = n /\ \A i \in 1..n : file'[i] = buf[i]
  <2>1. /\ IsSeq(file') /\ Len(file') = n + 1 - 1
        /\ \A i \in 1..(n + 1 - 1) : file'[i] = buf[1 + i - 1]
    BY <1>1, <1>2, <1>3, SubSeqIs
  <2>2. n + 1 - 1 = n /\ \A i \in 1..n : 1 + i - 1 = i
    BY <1>3
  <2> QED
    BY <2>1, <2>2
<1>5. Filed'
  BY <1>1, <1>2, <1>3, <1>4 DEF Filed, writeVars
<1>6. Packed' /\ Sealed'
  BY <1>2, WriterRests
<1>7. Read'
  BY <1>2 DEF Read, PackInv, readVars
<1> QED
  BY <1>5, <1>6, <1>7 DEF PackInv

\* A file with a cell damaged is as it was written but for that cell.
LEMMA DamageFiles ==
  ASSUME PackInv, Damage
  PROVE  PackInv'
<1>0. PICK p \in 1..Len(buf) :
        \E c \in Altered(buf[p]) \cup Damages :
          c # buf[p] /\ file' = [buf EXCEPT ![p] = c] /\ sound' = p - 1
  BY DEF Damage
<1>1. PICK c \in Altered(buf[p]) \cup Damages :
        c # buf[p] /\ file' = [buf EXCEPT ![p] = c] /\ sound' = p - 1
  BY <1>0
<1>2. /\ finished # "No" /\ reading = "No" /\ accident' = "Damage"
      /\ file = buf /\ IsSeq(buf) /\ Len(buf) \in Nat
      /\ \A i \in 1..Len(buf) : HasLength(buf[i])
      /\ UNCHANGED <<writeVars, readVars>>
  BY DEF Damage, Intact, PackInv, Filed, IsSeq
<1>3. HasLength(c)
  BY <1>2, AlteredHasLength, DamagesAssumption
<1>4. /\ IsSeq(file') /\ Len(file') = Len(buf) /\ file'[p] = c
      /\ \A i \in 1..Len(buf) : i # p => file'[i] = buf[i]
  <2> DEFINE S == {buf[i] : i \in 1..Len(buf)} \cup {c}
  <2>1. buf \in Seq(S) /\ c \in S
    BY <1>2, SeqOf
  <2> HIDE DEF S
  <2>2. /\ file' \in Seq(S) /\ Len(file') = Len(buf)
        /\ \A j \in 1..Len(buf) : file'[j] = IF j = p THEN c ELSE buf[j]
    BY <2>1, <1>1, ExceptSeq
  <2> QED
    BY <2>2, SeqIs
<1>5. sound' \in Nat /\ sound' < Len(buf) /\ sound' + 1 = p /\ \A i \in 1..sound' : i # p /\ i \in 1..Len(buf)
  BY <1>1, <1>2
<1>6. \A i \in 1..Len(buf) : HasLength(file'[i])
  BY <1>2, <1>3, <1>4
<1>7. Filed'
  BY <1>1, <1>2, <1>4, <1>5, <1>6 DEF Filed, writeVars
<1>8. Packed' /\ Sealed'
  BY <1>2, WriterRests
<1>9. Read'
  BY <1>2 DEF Read, PackInv, readVars
<1> QED
  BY <1>7, <1>8, <1>9 DEF PackInv

-----------------------------------------------------------------------------
\* The footer

\* What finish wrote behind the records.
LEMMA FooterIs ==
  ASSUME PackInv, finished # "No"
  PROVE  \E b, h :
           /\ h \in Nat /\ IsSeq(b) /\ Len(b) = BodyLen
           /\ \A i \in 1..BodyLen : b[i] = buf[i]
           /\ buf[BodyLen + 1] = [t |-> "end", count |-> Len(pushed)]
           /\ buf[BodyLen + 2] = [t |-> "high"]
           /\ buf[BodyLen + 3] = [t |-> "flag", complete |-> IF finished = "True" THEN 1 ELSE 0,
                                  hash |-> b, len |-> h]
           /\ buf[BodyLen + 4] = [t |-> "rest", hash |-> b]
           /\ b = SubSeq(buf, 1, BodyLen)
<1>1. PICK l : l = BodyLen
  OBVIOUS
<1>2. PICK h \in HashLens :
        \A i \in 1..FooterLen :
          buf[l + i] = FooterCells(SubSeq(buf, 1, l), Len(pushed),
                                   IF finished = "True" THEN 1 ELSE 0, h)[i]
  BY <1>1 DEF PackInv, Sealed
<1>3. PICK b : b = SubSeq(buf, 1, l)
  OBVIOUS
<1>4. l \in Nat /\ l <= Len(buf) /\ IsSeq(buf) /\ 1 <= l + 1
  BY <1>1 DEF PackInv, Packed
<1>5. IsSeq(b) /\ Len(b) = l /\ \A i \in 1..l : b[i] = buf[i]
  <2>1. IsSeq(b) /\ Len(b) = l + 1 - 1 /\ \A i \in 1..(l + 1 - 1) : b[i] = buf[1 + i - 1]
    BY <1>3, <1>4, SubSeqIs
  <2>2. l + 1 - 1 = l /\ \A i \in 1..l : 1 + i - 1 = i
    BY <1>4
  <2> QED
    BY <2>1, <2>2
<1>6. /\ buf[l + 1] = [t |-> "end", count |-> Len(pushed)]
      /\ buf[l + 2] = [t |-> "high"]
      /\ buf[l + 3] = [t |-> "flag", complete |-> IF finished = "True" THEN 1 ELSE 0,
                       hash |-> b, len |-> h]
      /\ buf[l + 4] = [t |-> "rest", hash |-> b]
  BY <1>2, <1>3 DEF FooterCells
<1> QED
  BY <1>1, <1>2, <1>3, <1>5, <1>6, HashLensAssumption

\* The cells before a footer, as HashOk takes them.
LEMMA BodyIs ==
  ASSUME NEW s, IsSeq(s), NEW n \in Nat, n <= Len(s)
  PROVE  /\ IsSeq(SubSeq(s, 1, n)) /\ Len(SubSeq(s, 1, n)) = n
         /\ \A i \in 1..n : SubSeq(s, 1, n)[i] = s[i]
<1>1. PICK b : b = SubSeq(s, 1, n)
  OBVIOUS
<1>2. IsSeq(b) /\ Len(b) = n + 1 - 1 /\ \A i \in 1..(n + 1 - 1) : b[i] = s[1 + i - 1]
  BY <1>1, SubSeqIs
<1>3. n + 1 - 1 = n /\ \A i \in 1..n : 1 + i - 1 = i
  OBVIOUS
<1> QED
  BY <1>1, <1>2, <1>3

\* A footer is believed only where finish put one, behind records that are sound;
\* that of a pack nothing happened to is.
LEMMA FooterFacts ==
  ASSUME PackInv, finished # "No", HeaderOk
  PROVE  /\ FooterOk => /\ Len(file) - FooterLen = BodyLen /\ Len(file) \in Nat
                        /\ BodyLen <= sound /\ accident # "Cut"
         /\ accident = "None" => FooterOk
<1>1. PICK l : l = BodyLen
  OBVIOUS
<1>2. PICK b, h :
        /\ IsSeq(b) /\ Len(b) = l
        /\ \A i \in 1..l : b[i] = buf[i]
        /\ buf[l + 1] = [t |-> "end", count |-> Len(pushed)]
        /\ buf[l + 2] = [t |-> "high"]
        /\ buf[l + 3] = [t |-> "flag", complete |-> IF finished = "True" THEN 1 ELSE 0,
                         hash |-> b, len |-> h]
        /\ buf[l + 4] = [t |-> "rest", hash |-> b]
        /\ b = SubSeq(buf, 1, l)
  BY <1>1, FooterIs
<1>3. /\ l \in Nat /\ l >= 1 /\ Len(buf) = l + 4 /\ IsSeq(buf)
      /\ \A i \in 1..l : HashesNoPack(buf[i])
  BY <1>1 DEF PackInv, Packed, Sealed
<1>4. PICK n : n = Len(file)
  OBVIOUS
<1>5. /\ IsSeq(file) /\ n \in Nat /\ n <= l + 4 /\ sound \in Nat /\ sound <= n
      /\ n >= 1 /\ file[1] = HeaderCell
  BY <1>3, <1>4 DEF PackInv, Filed, HeaderOk, IsSeq
<1>6. ASSUME FooterOk PROVE n = l + 4 /\ l <= sound /\ accident # "Cut"
  <2>1. PICK fs : fs = n - 4
    OBVIOUS
  <2>2. PICK body : body = SubSeq(file, 1, fs)
    OBVIOUS
  <2>3. /\ fs \in Nat /\ fs < n /\ file[fs + 1].t = "end"
        /\ "hash" \in DOMAIN file[fs + 3] /\ file[fs + 3].hash = body
        /\ file[fs + 4].hash = body
    BY <1>4, <1>5, <1>6, <2>1, <2>2 DEF FooterOk, HashOk
  <2>4. IsSeq(body) /\ Len(body) = fs /\ \A i \in 1..fs : body[i] = file[i]
    BY <1>4, <1>5, <2>2, <2>3, BodyIs
  <2>5. fs >= 1
    <3>1. fs # 0
      BY <1>5, <2>3 DEF HeaderCell
    <3> QED
      BY <3>1, <2>3
  <2>6. body # <<>> /\ body[1] = HeaderCell
    BY <2>4, <2>5, <1>5, EmptyIsSeq
  <2>7. accident # "Cut"
    <3> SUFFICES ASSUME accident = "Cut" PROVE FALSE
      OBVIOUS
    <3>1. n < l + 4 /\ \A i \in 1..n : file[i] = buf[i]
      BY <1>3, <1>4 DEF PackInv, Filed
    <3>2. fs + 3 <= l + 2 /\ fs + 3 \in 1..n /\ fs + 3 \in Nat
      BY <3>1, <2>1, <2>3, <1>3, <1>5
    <3>3. "hash" \in DOMAIN buf[fs + 3] /\ buf[fs + 3].hash = body
      BY <3>1, <3>2, <2>3
    <3>4. CASE fs + 3 \in 1..l
      BY <3>3, <3>4, <2>6, <1>3 DEF HashesNoPack
    <3>5. CASE fs + 3 = l + 1
      <4>1. PICK k : buf[fs + 3] = [t |-> "end", count |-> k]
        BY <3>5, <1>2
      <4> QED
        BY <4>1, <3>3
    <3>6. CASE fs + 3 = l + 2
      BY <3>3, <3>6, <1>2
    <3> QED
      BY <3>2, <3>4, <3>5, <3>6, <1>3
  <2>8. n = l + 4 /\ fs = l
    BY <2>1, <2>7, <1>3, <1>4 DEF PackInv, Filed
  <2>9. l <= sound
    <3> SUFFICES ASSUME sound < l PROVE FALSE
      BY <1>3, <1>5
    <3>1. accident = "Damage"
      BY <2>7, <1>3, <1>5 DEF PackInv, Filed
    <3>2. /\ file[sound + 1] # buf[sound + 1]
          /\ \A i \in 1..n : i # sound + 1 => file[i] = buf[i]
      BY <3>1, <1>4 DEF PackInv, Filed
    <3>3. l + 4 \in 1..n /\ l + 4 # sound + 1 /\ sound + 1 \in 1..l
      BY <2>8, <1>3, <1>5
    <3>4. file[l + 4] = [t |-> "rest", hash |-> b]
      BY <3>2, <3>3, <1>2
    <3>5. b = body
      BY <3>4, <2>3, <2>8
    <3> QED
      BY <3>2, <3>3, <3>5, <2>4, <2>8, <1>2
  <2> QED
    BY <2>7, <2>8, <2>9
<1>7. ASSUME accident = "None" PROVE FooterOk
  <2>1. file = buf /\ n = l + 4 /\ n - 4 = l /\ n >= 4
    BY <1>3, <1>4, <1>7 DEF PackInv, Filed
  <2>2. file[l + 1].t = "end"
    BY <2>1, <1>2
  <2>3. /\ "hash" \in DOMAIN file[l + 3] /\ file[l + 3].hash = b
        /\ "hash" \in DOMAIN file[l + 4] /\ file[l + 4].hash = b
    BY <2>1, <1>2
  <2>4. HashOk(l)
    BY <2>1, <2>3, <1>2 DEF HashOk
  <2> QED
    BY <2>1, <2>2, <2>4, <1>4 DEF FooterOk
<1> QED
  BY <1>1, <1>3, <1>4, <1>5, <1>6, <1>7

-----------------------------------------------------------------------------
\* The reader

\* From where a record lies the reader takes the frame.
LEMMA RecordIsRead ==
  ASSUME NEW s, NEW o, NEW f, IsSeq(s), RecordAt(s, o, f),
         o + RecordHeaderLen + Len(f.bytes) <= Len(s)
  PROVE  /\ Field(s[o + 2], "comp") = f.comp /\ Field(s[o + 3], "len") = Len(f.bytes)
         /\ [frame |-> Field(s[o + 1], "frame"), segment |-> Field(s[o + 1], "segment"),
             comp |-> Field(s[o + 2], "comp"), icount |-> Field(s[o + 3], "icount"),
             bytes |-> SubSeq(s, o + RecordHeaderLen + 1, o + RecordHeaderLen + Len(f.bytes))] = f
<1>1. PICK m : m = Len(f.bytes)
  OBVIOUS
<1>2. PICK b : b = SubSeq(s, o + RecordHeaderLen + 1, o + RecordHeaderLen + m)
  OBVIOUS
<1>3. IsFrame(f) /\ o \in Nat /\ m \in Nat /\ Len(s) \in Nat /\ IsSeq(f.bytes)
  BY <1>1 DEF RecordAt, IsFrame, IsSeq
<1>4. PICK g : g = f.bytes
  OBVIOUS
<1>5. /\ IsSeq(g) /\ Len(g) = m /\ \A j \in 1..m : s[o + RecordHeaderLen + j] = g[j]
  BY <1>1, <1>3, <1>4 DEF RecordAt
<1>6. b = g
  <2>1. PICK x : x = o + RecordHeaderLen + 1
    OBVIOUS
  <2>2. PICK y : y = o + RecordHeaderLen + m
    OBVIOUS
  <2>3. x \in Nat \ {0} /\ y \in Nat /\ x <= y + 1 /\ y <= Len(s) /\ y + 1 - x = m
    <3>1. o + RecordHeaderLen + m <= Len(s) /\ o \in Nat /\ m \in Nat
      BY <1>1, <1>3
    <3> QED
      BY ONLY <3>1, <2>1, <2>2
  <2>4. /\ IsSeq(b) /\ Len(b) = y + 1 - x
        /\ \A i \in 1..(y + 1 - x) : b[i] = s[x + i - 1]
    BY <2>1, <2>2, <2>3, <1>2, SubSeqIs
  <2>5. \A i \in 1..m : x + i - 1 = o + RecordHeaderLen + i
    BY <2>1, <1>3
  <2>6. Len(b) = Len(g) /\ \A i \in 1..Len(b) : b[i] = g[i]
    BY <2>3, <2>4, <2>5, <1>5
  <2> QED
    BY <2>4, <2>6, <1>5, SameSeq
<1>7. /\ Field(s[o + 1], "frame") = f.frame /\ Field(s[o + 1], "segment") = f.segment
      /\ Field(s[o + 2], "comp") = f.comp
      /\ Field(s[o + 3], "icount") = f.icount /\ Field(s[o + 3], "len") = m
  BY <1>1 DEF RecordAt, Field
<1>8. f = [frame |-> f.frame, segment |-> f.segment, comp |-> f.comp, icount |-> f.icount,
           bytes |-> f.bytes]
  BY <1>3 DEF IsFrame
<1> QED
  BY <1>1, <1>2, <1>4, <1>6, <1>7, <1>8

\* What the reader knows of the file.
LEMMA ReaderStands ==
  ASSUME PackInv, reading = "Records"
  PROVE  /\ finished # "No"
         /\ IsSeq(file) /\ Len(file) \in Nat /\ sound \in Nat /\ sound <= Len(file)
         /\ BodyLen \in Nat /\ ZoneEnd \in Nat /\ ZoneEnd <= Len(file) /\ off \in Nat
         /\ footer > 0 =>
              /\ ZoneEnd = BodyLen /\ footer = BodyLen /\ Len(file) = BodyLen + FooterLen
              /\ BodyLen <= sound /\ accident # "Cut"
         /\ footer = 0 => ZoneEnd = Len(file) /\ accident # "None"
         /\ footer \in Nat
<1>1. finished # "No" /\ HeaderOk /\ Walked
  BY DEF PackInv, Filed, Read, Walked
<1>2. /\ IsSeq(file) /\ Len(file) \in Nat /\ sound \in Nat /\ sound <= Len(file)
      /\ BodyLen \in Nat /\ BodyLen >= 1 /\ off \in Nat
  BY <1>1 DEF PackInv, Packed, Filed, Walked, IsSeq
<1>3. footer = IF FooterOk THEN Len(file) - FooterLen ELSE 0
  BY <1>1 DEF Walked
<1>4. CASE FooterOk
  BY <1>1, <1>2, <1>3, <1>4, FooterFacts DEF ZoneEnd
<1>5. CASE ~FooterOk
  BY <1>1, <1>2, <1>3, <1>5, FooterFacts DEF ZoneEnd
<1> QED
  BY <1>4, <1>5

\* The frames before the accident are the first ones.
LEMMA KeptBefore ==
  ASSUME PackInv, NEW i \in 1..Len(pushed), NEW k, Kept(k), i <= k, sound \in Nat
  PROVE  Kept(i)
<1>1. k \in 1..Len(pushed) /\ ends[k] <= sound
  BY DEF Kept
<1>2. /\ ends[i] <= ends[k] /\ ends[i] \in Nat /\ ends[k] \in Nat
  BY <1>1 DEF PackInv, Packed, RecordLies
<1> QED
  BY <1>1, <1>2 DEF Kept

\* At the first cell of a frame before the accident the reader reads it.
LEMMA KeptIsRead ==
  ASSUME PackInv, reading = "Records", NEW k \in Nat, off = EndOf(k), Kept(k + 1)
  PROVE  /\ Framed /\ off < ZoneEnd
         /\ LenField = Len(pushed[k + 1].bytes)
         /\ off + RecordHeaderLen + LenField = ends[k + 1]
         /\ [frame |-> Field(file[off + 1], "frame"), segment |-> Field(file[off + 1], "segment"),
             comp |-> CompField, icount |-> Field(file[off + 3], "icount"),
             bytes |-> SubSeq(file, off + RecordHeaderLen + 1, off + RecordHeaderLen + LenField)]
            = pushed[k + 1]
<1>1. PICK f : f = pushed[k + 1]
  OBVIOUS
<1>2. k + 1 \in 1..Len(pushed) /\ ends[k + 1] <= sound /\ (k + 1) - 1 = k
  BY DEF Kept
<1>3. /\ RecordAt(buf, off, f)
      /\ ends[k + 1] = off + RecordHeaderLen + Len(f.bytes) /\ ends[k + 1] <= BodyLen
  BY <1>1, <1>2 DEF PackInv, Packed, RecordLies
<1>4. IsFrame(f) /\ Len(f.bytes) \in Nat /\ off \in Nat /\ f.comp \in {0, 1}
  BY <1>3 DEF RecordAt, IsFrame
<1>5. /\ sound \in Nat /\ sound <= Len(file) /\ Len(file) \in Nat /\ IsSeq(file)
      /\ ZoneEnd \in Nat /\ BodyLen \in Nat
      /\ \A i \in 1..sound : file[i] = buf[i]
      /\ ends[k + 1] <= ZoneEnd
  <2>1. \A i \in 1..sound : file[i] = buf[i]
    BY ReaderStands DEF PackInv, Filed
  <2>2. ends[k + 1] \in Nat
    BY <1>3, <1>4
  <2> QED
    BY <2>1, <2>2, <1>2, <1>3, ReaderStands
<1>6. RecordAt(file, off, f)
  <2>1. \A i \in 1..(off + RecordHeaderLen + Len(f.bytes)) : file[i] = buf[i]
    BY <1>2, <1>3, <1>4, <1>5
  <2> QED
    BY <2>1, <1>3, RecordCopied
<1>7. off + RecordHeaderLen + Len(f.bytes) <= Len(file)
  BY <1>2, <1>3, <1>4, <1>5
<1>8. /\ CompField = f.comp /\ LenField = Len(f.bytes)
      /\ [frame |-> Field(file[off + 1], "frame"), segment |-> Field(file[off + 1], "segment"),
          comp |-> CompField, icount |-> Field(file[off + 3], "icount"),
          bytes |-> SubSeq(file, off + RecordHeaderLen + 1, off + RecordHeaderLen + LenField)] = f
  BY <1>5, <1>6, <1>7, RecordIsRead DEF CompField, LenField
<1>9. off < ZoneEnd /\ ZoneEnd - off >= RecordHeaderLen
  <2>1. PICK m : m = Len(f.bytes)
    OBVIOUS
  <2> QED
    BY <2>1, <1>3, <1>4, <1>5
<1> QED
  BY <1>1, <1>3, <1>4, <1>5, <1>8, <1>9 DEF Framed

\* A step of the reader changes nothing else.
LEMMA FileRests ==
  ASSUME PackInv, finished # "No", UNCHANGED <<writeVars, fileVars>>
  PROVE  /\ Packed' /\ Sealed' /\ Filed'
         /\ HeaderOk' = HeaderOk /\ FooterOk' = FooterOk
         /\ \A k : EndOf(k)' = EndOf(k) /\ Kept(k)' = Kept(k)
<1>1. Packed' /\ Sealed'
  BY WriterRests
<1>2. Filed'
  BY DEF PackInv, Filed, writeVars, fileVars
<1>3. HeaderOk' = HeaderOk /\ FooterOk' = FooterOk
  BY DEF HeaderOk, FooterOk, HashOk, fileVars
<1>4. \A k : EndOf(k)' = EndOf(k) /\ Kept(k)' = Kept(k)
  BY DEF EndOf, Kept, writeVars, fileVars
<1> QED
  BY <1>1, <1>2, <1>3, <1>4

\* Only a file with an accident is refused for its header.
LEMMA HeaderErrsReads ==
  ASSUME PackInv, HeaderErrs
  PROVE  PackInv'
<1>1. finished # "No" /\ ~HeaderOk /\ UNCHANGED <<writeVars, fileVars>>
  BY DEF HeaderErrs
<1>2. Packed' /\ Sealed' /\ Filed'
  BY <1>1, FileRests
<1>3. accident # "None"
  <2> SUFFICES ASSUME accident = "None" PROVE FALSE
    OBVIOUS
  <2>1. file = buf /\ buf[1] = HeaderCell /\ Len(buf) \in Nat /\ BodyLen \in Nat
        /\ BodyLen >= 1 /\ BodyLen <= Len(buf)
    BY <1>1 DEF PackInv, Packed, Filed, IsSeq
  <2> QED
    BY <2>1, <1>1 DEF HeaderOk
<1>4. Read'
  BY <1>1, <1>3 DEF Read, HeaderErrs, ResumeIsSafe, TornKeepsFrames, fileVars
<1> QED
  BY <1>2, <1>4 DEF PackInv

\* The walk begins behind the header, with no record read.
LEMMA LocateFooterReads ==
  ASSUME PackInv, LocateFooter
  PROVE  PackInv'
<1>1. /\ finished # "No" /\ reading = "No" /\ HeaderOk /\ UNCHANGED <<writeVars, fileVars>>
      /\ outcome' = "None" /\ records' = <<>> /\ framing' = TRUE /\ off' = 1
      /\ footer' = IF FooterOk THEN Len(file) - FooterLen ELSE 0
      /\ reading' = "Records"
  BY DEF LocateFooter, PackInv, Read
<1>2. /\ Packed' /\ Sealed' /\ Filed'
      /\ HeaderOk' = HeaderOk /\ FooterOk' = FooterOk
      /\ \A k : EndOf(k)' = EndOf(k) /\ Kept(k)' = Kept(k)
  BY <1>1, FileRests
<1>3. IsSeq(records') /\ Len(records') = 0
  BY <1>1, EmptyIsSeq
<1>4. file' = file /\ pushed' = pushed /\ accident' = accident
  BY <1>1 DEF writeVars, fileVars
<1>5. /\ BodyLen \in Nat /\ BodyLen >= 1 /\ Len(file) \in Nat /\ Len(file) >= 1
      /\ Len(pushed) \in Nat
  BY <1>1 DEF PackInv, Packed, Filed, HeaderOk, IsSeq
<1>6. 1 <= ZoneEnd'
  <2>1. CASE FooterOk
    BY <2>1, <1>1, <1>5, FooterFacts DEF ZoneEnd
  <2>2. CASE ~FooterOk
    BY <2>2, <1>1, <1>4, <1>5 DEF ZoneEnd
  <2> QED
    BY <2>1, <2>2
<1>7. ~Kept(0) /\ ~Kept(0)' /\ EndOf(0)' = 1
  BY <1>2, <1>5 DEF Kept, EndOf
<1>8. Walked'
  BY <1>1, <1>2, <1>3, <1>4, <1>5, <1>6, <1>7 DEF Walked
<1>9. Read'
  BY <1>1, <1>8 DEF Read
<1> QED
  BY <1>2, <1>9 DEF PackInv

\* Whatever a record read says of its length, the reader stays in the records.
LEMMA LengthRead ==
  ASSUME PackInv, reading = "Records", Framed
  PROVE  LenField \in Nat
<1>1. /\ ZoneEnd \in Nat /\ off \in Nat /\ Len(file) \in Nat /\ ZoneEnd <= Len(file)
      /\ finished # "No"
  BY ReaderStands
<1>2. off + 3 \in 1..Len(file)
  BY <1>1 DEF Framed
<1>3. HasLength(file[off + 3])
  BY <1>1, <1>2 DEF PackInv, Filed
<1> QED
  BY <1>3 DEF HasLength, LenField, Field

\* With the records before the accident read, one more that is not such a record
\* ends the walk, unless a cell was damaged.
LEMMA LastIsLast ==
  ASSUME PackInv, reading = "Records", accident # "Damage",
         NEW k \in Nat, k = 0 \/ Kept(k), off = EndOf(k), off < ZoneEnd, Framed,
         ~Kept(k + 1)
  PROVE  off + RecordHeaderLen + LenField = ZoneEnd
<1>1. /\ finished # "No" /\ sound \in Nat /\ sound <= Len(file) /\ Len(file) \in Nat
      /\ BodyLen \in Nat /\ ZoneEnd \in Nat /\ ZoneEnd <= Len(file) /\ off \in Nat
      /\ footer > 0 => ZoneEnd = BodyLen
      /\ footer = 0 => ZoneEnd = Len(file) /\ accident # "None"
      /\ footer \in Nat /\ LenField \in Nat
  BY ReaderStands, LengthRead
<1>2. off + RecordHeaderLen <= ZoneEnd /\ off + RecordHeaderLen + LenField <= ZoneEnd
  BY <1>1 DEF Framed
<1>3. Len(pushed) \in Nat
  BY DEF PackInv, Packed, IsSeq
<1>4. CASE k = Len(pushed)
  <2>1. off = BodyLen
    BY <1>4 DEF BodyLen
  <2>2. footer = 0 /\ ZoneEnd = Len(file) /\ accident = "Cut"
    BY <2>1, <1>1 DEF PackInv, Filed
  <2>3. Len(file) < BodyLen + 4
    BY <2>2, <1>1 DEF PackInv, Filed, Sealed
  <2> QED
    BY <2>1, <2>2, <2>3, <1>1, <1>2
<1>5. CASE k # Len(pushed)
  <2>1. k + 1 \in 1..Len(pushed) /\ (k + 1) - 1 = k
    BY <1>3, <1>5 DEF Kept
  <2>2. PICK m : m = Len(pushed[k + 1].bytes)
    OBVIOUS
  <2>3. /\ buf[off + 3].len = m /\ "len" \in DOMAIN buf[off + 3]
        /\ ends[k + 1] = off + RecordHeaderLen + m
        /\ ends[k + 1] <= BodyLen /\ ends[k + 1] \in Nat
    <3>1. RecordLies(k + 1)
      BY <2>1 DEF PackInv, Packed
    <3>2. RecordAt(buf, off, pushed[k + 1])
      BY <2>1, <3>1 DEF RecordLies
    <3>3. PICK c : buf[off + 3] = [t |-> "mark", icount |-> c, len |-> m]
      BY <3>2, <2>2 DEF RecordAt
    <3>4. /\ ends[k + 1] = off + RecordHeaderLen + m
          /\ ends[k + 1] <= BodyLen /\ ends[k + 1] \in Nat
      BY <2>1, <2>2, <3>1 DEF RecordLies
    <3> QED
      BY <3>3, <3>4
  <2>4. sound < ends[k + 1]
    BY <2>1, <2>3, <1>1 DEF Kept
  <2>5. accident = "Cut" /\ sound = Len(file)
    <3>1. accident = "None" => sound = Len(buf) /\ BodyLen <= Len(buf) /\ Len(buf) \in Nat
      BY <1>1 DEF PackInv, Packed, Filed, IsSeq
    <3> QED
      BY <3>1, <2>3, <2>4, <1>1 DEF PackInv, Filed
  <2>6. file[off + 3] = buf[off + 3]
    <3>1. off + 3 \in 1..sound
      BY <2>5, <1>1, <1>2
    <3> QED
      BY <3>1, <1>1 DEF PackInv, Filed
  <2>7. LenField = m
    BY <2>3, <2>6 DEF LenField, Field
  <2> QED
    BY <2>3, <2>4, <2>5, <2>7, <1>1, <1>2
<1> QED
  BY <1>4, <1>5

\* Behind a good footer every record is sound.
LEMMA FooterKeepsAll ==
  ASSUME PackInv, reading = "Records", footer > 0, NEW k \in 1..Len(pushed)
  PROVE  Kept(k)
<1>1. sound \in Nat /\ BodyLen \in Nat /\ BodyLen <= sound
  BY ReaderStands
<1>2. ends[k] <= BodyLen /\ ends[k] \in Nat
  BY DEF PackInv, Packed, RecordLies
<1> QED
  BY <1>1, <1>2 DEF Kept

\* A record read before the accident is the frame pushed.
LEMMA ReadRecordReads ==
  ASSUME PackInv, ReadRecord
  PROVE  PackInv'
<1>1. PICK n : n = Len(records)
  OBVIOUS
<1>2. PICK r : r = [frame |-> Field(file[off + 1], "frame"),
                    segment |-> Field(file[off + 1], "segment"), comp |-> CompField,
                    icount |-> Field(file[off + 3], "icount"),
                    bytes |-> SubSeq(file, off + RecordHeaderLen + 1,
                                     off + RecordHeaderLen + LenField)]
  OBVIOUS
<1>3. /\ reading = "Records" /\ reading' = "Records" /\ outcome' = outcome
      /\ framing /\ framing' = framing /\ footer' = footer /\ Framed /\ off < ZoneEnd
      /\ records' = Append(records, r) /\ off' = off + RecordHeaderLen + LenField
      /\ UNCHANGED <<writeVars, fileVars>>
  BY <1>2 DEF ReadRecord, More
<1>4. /\ finished # "No" /\ sound \in Nat
      /\ ZoneEnd \in Nat /\ off \in Nat /\ LenField \in Nat /\ BodyLen \in Nat
      /\ footer > 0 => ZoneEnd = BodyLen
  BY <1>3, ReaderStands, LengthRead
<1>5. /\ Packed' /\ Sealed' /\ Filed'
      /\ HeaderOk' = HeaderOk /\ FooterOk' = FooterOk
      /\ \A k : EndOf(k)' = EndOf(k) /\ Kept(k)' = Kept(k)
  BY <1>3, <1>4, FileRests
<1>6. /\ file' = file /\ pushed' = pushed /\ accident' = accident /\ ZoneEnd' = ZoneEnd
      /\ Len(pushed) \in Nat
  BY <1>3 DEF writeVars, fileVars, ZoneEnd, PackInv, Packed, IsSeq
<1>7. /\ IsSeq(records) /\ n \in Nat /\ HeaderOk
      /\ footer = IF FooterOk THEN Len(file) - FooterLen ELSE 0
      /\ \A i \in 1..Len(pushed) : Kept(i) /\ i <= n => records[i] = pushed[i]
      /\ n = 0 \/ Kept(n) => off = EndOf(n)
      /\ accident # "Damage" =>
           /\ \A i \in 1..(n - 1) : Kept(i)
           /\ n = 0 \/ Kept(n) \/ off = ZoneEnd
      /\ footer > 0 => n <= Len(pushed)
  BY <1>1, <1>3 DEF PackInv, Read, Walked, IsSeq
<1>8. /\ IsSeq(records') /\ Len(records') = n + 1
      /\ \A i \in 1..n : records'[i] = records[i]
      /\ records'[n + 1] = r
  BY <1>1, <1>3, <1>7, AppendIs
<1>9. Kept(n + 1) => off = EndOf(n)
  <2> SUFFICES ASSUME Kept(n + 1), n # 0 PROVE Kept(n)
    BY <1>7
  <2>1. n \in 1..Len(pushed) /\ n <= n + 1
    BY <1>6, <1>7 DEF Kept
  <2> QED
    BY <2>1, <1>4, KeptBefore
<1>10. Kept(n + 1) => r = pushed[n + 1] /\ off' = EndOf(n + 1)
  <2> SUFFICES ASSUME Kept(n + 1) PROVE r = pushed[n + 1] /\ off' = EndOf(n + 1)
    OBVIOUS
  <2>1. r = pushed[n + 1] /\ off + RecordHeaderLen + LenField = ends[n + 1]
    BY <1>2, <1>3, <1>7, <1>9, KeptIsRead
  <2>2. EndOf(n + 1) = ends[n + 1]
    BY <1>7 DEF EndOf
  <2> QED
    BY <2>1, <2>2, <1>3
<1>11. off' \in Nat /\ off' <= ZoneEnd
  BY <1>3, <1>4 DEF Framed
<1>12. \A i \in 1..Len(pushed) : Kept(i) /\ i <= n + 1 => records'[i] = pushed[i]
  <2> SUFFICES ASSUME NEW i \in 1..Len(pushed), Kept(i), i <= n + 1
               PROVE  records'[i] = pushed[i]
    OBVIOUS
  <2>1. CASE i <= n
    BY <2>1, <1>7, <1>8
  <2>2. CASE i = n + 1
    BY <2>2, <1>8, <1>10
  <2> QED
    BY <2>1, <2>2, <1>7
<1>13. accident # "Damage" =>
         /\ \A i \in 1..n : Kept(i)
         /\ Kept(n + 1) \/ off' = ZoneEnd
  <2> SUFFICES ASSUME accident # "Damage"
               PROVE  (\A i \in 1..n : Kept(i)) /\ (Kept(n + 1) \/ off' = ZoneEnd)
    OBVIOUS
  <2>1. n = 0 \/ Kept(n)
    BY <1>3, <1>4, <1>7
  <2>2. \A i \in 1..n : Kept(i)
    BY <2>1, <1>7
  <2>3. ~Kept(n + 1) => off' = ZoneEnd
    BY <2>1, <1>3, <1>7, LastIsLast
  <2> QED
    BY <2>2, <2>3
<1>14. footer > 0 => n + 1 <= Len(pushed)
  <2> SUFFICES ASSUME footer > 0, ~(n + 1 <= Len(pushed)) PROVE FALSE
    OBVIOUS
  <2>1. n = Len(pushed) /\ ZoneEnd = BodyLen
    BY <1>4, <1>6, <1>7
  <2>2. n = 0 \/ Kept(n)
    BY <2>1, <1>3, <1>7, FooterKeepsAll
  <2> QED
    BY <2>1, <2>2, <1>3, <1>4, <1>7 DEF BodyLen
<1>15. Walked'
  <2>1. (n + 1 = 0 \/ Kept(n + 1)) => off' = EndOf(n + 1)
    BY <1>7, <1>10
  <2>2. (n + 1) - 1 = n
    BY <1>7
  <2> QED
    BY <2>1, <2>2, <1>3, <1>5, <1>6, <1>7, <1>8, <1>11, <1>12, <1>13, <1>14 DEF Walked
<1>16. Read'
  BY <1>3, <1>15 DEF PackInv, Read
<1> QED
  BY <1>5, <1>16 DEF PackInv

\* When the framing breaks, or the walk ends, no frame before the accident is left.
LEMMA NoneLeft ==
  ASSUME PackInv, reading = "Records", ~(More /\ Framed), NEW k, k = Len(records)
  PROVE  ~Kept(k + 1)
<1> SUFFICES ASSUME Kept(k + 1) PROVE FALSE
  OBVIOUS
<1>1. Walked /\ sound \in Nat
  BY ReaderStands DEF PackInv, Read
<1>2. k \in Nat /\ framing /\ k + 1 \in 1..Len(pushed) /\ Len(pushed) \in Nat
  BY <1>1 DEF Walked, IsSeq, Kept, PackInv, Packed
<1>3. k = 0 \/ Kept(k)
  <2>1. k # 0 => k \in 1..Len(pushed) /\ k <= k + 1
    BY <1>2
  <2> QED
    BY <2>1, <1>1, KeptBefore
<1>4. off = EndOf(k)
  BY <1>1, <1>3 DEF Walked
<1>5. Framed /\ off < ZoneEnd
  BY <1>2, <1>4, KeptIsRead
<1> QED
  BY <1>2, <1>5 DEF More

\* The framing breaks only where no frame before the accident is left.
LEMMA FramingBreaksReads ==
  ASSUME PackInv, FramingBreaks
  PROVE  PackInv'
<1>1. PICK n : n = Len(records)
  OBVIOUS
<1>2. /\ reading = "Records" /\ reading' = "Records" /\ outcome' = outcome
      /\ framing' = FALSE /\ ~Framed /\ off < ZoneEnd /\ Walked
      /\ UNCHANGED <<writeVars, fileVars, footer, off, records>>
  BY DEF FramingBreaks, More, PackInv, Read
<1>3. finished # "No" /\ ZoneEnd \in Nat /\ off \in Nat /\ (footer > 0 => ZoneEnd = BodyLen)
  BY <1>2, ReaderStands
<1>4. /\ Packed' /\ Sealed' /\ Filed'
      /\ HeaderOk' = HeaderOk /\ FooterOk' = FooterOk
      /\ \A k : EndOf(k)' = EndOf(k) /\ Kept(k)' = Kept(k)
  BY <1>2, <1>3, FileRests
<1>5. file' = file /\ pushed' = pushed /\ accident' = accident /\ ZoneEnd' = ZoneEnd
  BY <1>2 DEF writeVars, fileVars, ZoneEnd
<1>6. ~Kept(n + 1)
  BY <1>1, <1>2, NoneLeft
<1>7. ~(footer > 0)
  <2> SUFFICES ASSUME footer > 0 PROVE FALSE
    OBVIOUS
  <2>1. n \in Nat /\ n <= Len(pushed) /\ Len(pushed) \in Nat
    BY <1>1, <1>2 DEF Walked, IsSeq, PackInv, Packed
  <2>2. n = 0 \/ Kept(n)
    BY <2>1, <1>2, FooterKeepsAll
  <2>3. n # Len(pushed)
    <3> SUFFICES ASSUME n = Len(pushed) PROVE FALSE
      OBVIOUS
    <3>1. off = EndOf(n) /\ ZoneEnd = EndOf(n)
      BY <2>2, <1>1, <1>2, <1>3 DEF Walked, BodyLen
    <3> QED
      BY <3>1, <1>2, <1>3
  <2>4. n + 1 \in 1..Len(pushed)
    BY <2>1, <2>3
  <2> QED
    BY <2>4, <1>2, <1>6, FooterKeepsAll
<1>8. Walked'
  BY <1>1, <1>2, <1>4, <1>5, <1>6, <1>7 DEF Walked
<1>9. Read'
  BY <1>2, <1>8 DEF PackInv, Read
<1> QED
  BY <1>4, <1>9 DEF PackInv

\* What the cells behind a good footer's start say.
LEMMA FooterSays ==
  ASSUME PackInv, reading = "Records", footer > 0
  PROVE  /\ Field(file[footer + 3], "complete") = 1 =>
              finished = "True" \/ (accident = "Damage" /\ sound = FlagAt - 1)
         /\ accident = "None" =>
              /\ Field(file[footer + 3], "complete") = IF finished = "True" THEN 1 ELSE 0
              /\ file[footer + 1].count = Len(pushed) /\ file[footer + 2] = [t |-> "high"]
<1>1. /\ finished # "No" /\ footer = BodyLen /\ BodyLen \in Nat /\ sound \in Nat
      /\ Len(file) = BodyLen + 4 /\ accident # "Cut"
  BY ReaderStands
<1>2. PICK l : l = BodyLen
  OBVIOUS
<1>3. PICK b, h :
        /\ buf[l + 1] = [t |-> "end", count |-> Len(pushed)]
        /\ buf[l + 2] = [t |-> "high"]
        /\ buf[l + 3] = [t |-> "flag", complete |-> IF finished = "True" THEN 1 ELSE 0,
                         hash |-> b, len |-> h]
  BY <1>1, <1>2, FooterIs
<1>4. Field(buf[l + 3], "complete") = IF finished = "True" THEN 1 ELSE 0
  BY <1>3 DEF Field
<1>5. l \in Nat /\ l + 3 \in 1..Len(file) /\ FlagAt = l + 3 /\ footer = l
  BY <1>1, <1>2 DEF FlagAt
<1>6. ASSUME ~(accident = "Damage" /\ sound = FlagAt - 1) PROVE file[l + 3] = buf[l + 3]
  <2>1. accident = "None" \/ (accident = "Damage" /\ l + 3 # sound + 1)
    BY <1>1, <1>5, <1>6 DEF PackInv, Filed
  <2> QED
    BY <2>1, <1>1, <1>5 DEF PackInv, Filed
<1>7. accident = "None" => file = buf
  BY <1>1 DEF PackInv, Filed
<1>8. ASSUME Field(file[footer + 3], "complete") = 1,
             ~(accident = "Damage" /\ sound = FlagAt - 1)
      PROVE  finished = "True"
  BY <1>4, <1>5, <1>6, <1>8
<1>9. ASSUME accident = "None"
      PROVE  /\ Field(file[footer + 3], "complete") = IF finished = "True" THEN 1 ELSE 0
             /\ file[footer + 1].count = Len(pushed) /\ file[footer + 2] = [t |-> "high"]
  BY <1>3, <1>4, <1>5, <1>7, <1>9
<1> QED
  BY <1>8, <1>9

\* When the walk is over both properties hold of what read_rfp returns.
LEMMA ReadEndsReads ==
  ASSUME PackInv, ReadEnds
  PROVE  PackInv'
<1>1. PICK n : n = Len(records)
  OBVIOUS
<1>2. /\ reading = "Records" /\ reading' = "Done" /\ ~More /\ Walked
      /\ outcome' = IF Resumable THEN "Complete" ELSE "Torn"
      /\ UNCHANGED <<writeVars, fileVars, footer, off, framing, records>>
  BY DEF ReadEnds, PackInv, Read
<1>3. finished # "No" /\ sound \in Nat /\ footer \in Nat /\ (footer = 0 => accident # "None")
  BY <1>2, ReaderStands
<1>4. /\ Packed' /\ Sealed' /\ Filed'
      /\ \A k : EndOf(k)' = EndOf(k) /\ Kept(k)' = Kept(k)
  BY <1>2, <1>3, FileRests
<1>5. /\ file' = file /\ pushed' = pushed /\ accident' = accident /\ finished' = finished
      /\ sound' = sound /\ records' = records /\ FlagAt' = FlagAt
  BY <1>2 DEF writeVars, fileVars, FlagAt
<1>6. /\ n \in Nat /\ Len(pushed) \in Nat /\ IsSeq(records) /\ IsSeq(pushed)
      /\ \A i \in 1..Len(pushed) : Kept(i) /\ i <= n => records[i] = pushed[i]
      /\ accident # "Damage" => \A i \in 1..(n - 1) : Kept(i)
      /\ footer > 0 => framing /\ n <= Len(pushed)
  BY <1>1, <1>2 DEF PackInv, Packed, Walked, IsSeq
<1>7. \A i \in 1..Len(pushed) : Kept(i) => i <= n /\ records[i] = pushed[i]
  <2> SUFFICES ASSUME NEW i \in 1..Len(pushed), Kept(i) PROVE i <= n
    BY <1>6
  <2> SUFFICES ASSUME ~(i <= n) PROVE FALSE
    OBVIOUS
  <2>1. n + 1 \in 1..Len(pushed) /\ n + 1 <= i
    BY <1>6
  <2>2. Kept(n + 1)
    BY <2>1, <1>3, KeptBefore
  <2> QED
    BY <2>2, <1>1, <1>2, NoneLeft
<1>8. TornKeepsFrames'
  BY <1>1, <1>4, <1>5, <1>6, <1>7 DEF TornKeepsFrames
<1>9. footer > 0 => records = pushed
  <2> SUFFICES ASSUME footer > 0 PROVE records = pushed
    OBVIOUS
  <2>1. \A i \in 1..Len(pushed) : Kept(i)
    BY <1>2, FooterKeepsAll
  <2>2. n = Len(pushed)
    <3>1. Len(pushed) # 0 => Len(pushed) \in 1..Len(pushed)
      BY <1>6
    <3>2. Len(pushed) <= n
      BY <3>1, <2>1, <1>6, <1>7
    <3> QED
      BY <3>2, <1>6
  <2> QED
    BY <2>1, <2>2, <1>1, <1>6, <1>7, SameSeq
<1>10. ASSUME Resumable
       PROVE  /\ records = pushed
              /\ finished = "True" \/ (accident = "Damage" /\ sound = FlagAt - 1)
  BY <1>2, <1>9, <1>10, FooterSays DEF Resumable
<1>11. ASSUME finished = "True", accident = "None"
       PROVE  Resumable
  <2>1. footer > 0
    BY <1>3, <1>11
  <2> QED
    BY <2>1, <1>2, <1>6, <1>9, <1>11, FooterSays DEF Resumable
<1>12. ResumeIsSafe'
  BY <1>2, <1>5, <1>10, <1>11 DEF ResumeIsSafe
<1>13. Read'
  BY <1>2, <1>8, <1>12 DEF Read
<1> QED
  BY <1>4, <1>13 DEF PackInv

-----------------------------------------------------------------------------
\* The theorems

\* Every step preserves the invariant.
LEMMA PackInvIsInductive ==
  ASSUME PackInv, [Next]_vars
  PROVE  PackInv'
<1>1. CASE \E f \in Frames : Push(f)
  BY <1>1, PushPacks, FramesAssumption
<1>2. CASE Finish
  BY <1>2, FinishPacks
<1>3. CASE Accident
  BY <1>3, CutFiles, DamageFiles DEF Accident
<1>4. CASE ReadStep
  BY <1>4, HeaderErrsReads, LocateFooterReads, ReadRecordReads, FramingBreaksReads, ReadEndsReads
     DEF ReadStep
<1>5. CASE UNCHANGED vars
  <2>1. UNCHANGED <<writeVars, fileVars, readVars>>
    BY <1>5 DEF vars
  <2>2. Packed' /\ Sealed'
    BY <2>1, WriterRests
  <2>3. Filed'
    BY <2>1 DEF PackInv, Filed, writeVars, fileVars, readVars
  <2>4. /\ HeaderOk' = HeaderOk /\ FooterOk' = FooterOk /\ ZoneEnd' = ZoneEnd
        /\ \A k : EndOf(k)' = EndOf(k) /\ Kept(k)' = Kept(k)
    BY <2>1 DEF writeVars, fileVars, readVars, HeaderOk, FooterOk, HashOk, ZoneEnd, EndOf, Kept
  <2>5. Walked' = Walked
    BY <2>1, <2>4 DEF Walked, writeVars, fileVars, readVars
  <2>6. ResumeIsSafe' = ResumeIsSafe /\ TornKeepsFrames' = TornKeepsFrames
    BY <2>1, <2>4 DEF ResumeIsSafe, TornKeepsFrames, FlagAt, writeVars, fileVars, readVars
  <2>7. Read'
    BY <2>1, <2>5, <2>6 DEF PackInv, Read, readVars
  <2> QED
    BY <2>2, <2>3, <2>7 DEF PackInv
<1> QED
  BY <1>1, <1>2, <1>3, <1>4, <1>5 DEF Next, Over

\* read_rfp calls a pack complete only if it holds all the frames that were pushed
\* and was finished as complete, and never refuses one that nothing happened to;
\* whatever the frames, the hash and the one cut or damage (rfp.rs:191-247).
THEOREM ResumeSafety == Spec => []ResumeIsSafe
<1>1. Init => PackInv
  BY InitPackInv
<1>2. PackInv /\ [Next]_vars => PackInv'
  BY PackInvIsInductive
<1>3. PackInv => ResumeIsSafe
  BY DEF PackInv, Read, ResumeIsSafe
<1> QED
  BY <1>1, <1>2, <1>3, PTL DEF Spec

\* What read_rfp reads of a pack, torn or not, are the frames before the accident as
\* they were pushed; on a file that was cut at most one record more (rfp.rs:200-233).
THEOREM TornKeeps == Spec => []TornKeepsFrames
<1>1. Init => PackInv
  BY InitPackInv
<1>2. PackInv /\ [Next]_vars => PackInv'
  BY PackInvIsInductive
<1>3. PackInv => TornKeepsFrames
  BY DEF PackInv, Read, TornKeepsFrames
<1> QED
  BY <1>1, <1>2, <1>3, PTL DEF Spec

-----------------------------------------------------------------------------
\* Induction

\* Every non-empty set of naturals has a least element.
LEMMA LeastNatural ==
  ASSUME NEW T, T \subseteq Nat, T # {}
  PROVE  \E x \in T : \A y \in T : x <= y
<1> DEFINE R == {ss \in Nat \X Nat : ss[1] < ss[2]}
<1>1. IsWellFoundedOn(R, Nat)
  BY NatLessThanWellFounded DEF OpToRel
<1>2. \A x, y \in Nat : <<y, x>> \notin R => x <= y
  OBVIOUS
<1> HIDE DEF R
<1>3. \E x \in T : \A y \in T : <<y, x>> \notin R
  BY <1>1, WFMin
<1>4. QED
  BY <1>2, <1>3

\* Induction, for the numbers of a set instead of those with a property.
LEMMA SetInduction ==
  ASSUME NEW T, 0 \in T, \A n \in Nat : n \in T => n + 1 \in T
  PROVE  Nat \subseteq T
<1> DEFINE C == Nat \ T
<1> SUFFICES ASSUME C # {} PROVE FALSE
  OBVIOUS
<1>1. PICK x \in C : \A y \in C : x <= y
  BY LeastNatural
<1>2. x # 0 /\ x - 1 \in Nat /\ x - 1 \notin C
  BY <1>1
<1>3. QED
  BY <1>2, x - 1 + 1 = x

-----------------------------------------------------------------------------
\* What the HUD shows

\* Event i is one of port p that counts for a frame at ic in segment s.
Hits(i, s, ic, p) == events[i].port = p /\ UpTo(events[i], s, ic)

\* v is what the last event that counts sets, or 0 if none does.
LastSets(s, ic, p, v) ==
  \/ v = 0 /\ \A i \in 1..Len(events) : ~Hits(i, s, ic, p)
  \/ \E i \in 1..Len(events) :
       /\ Hits(i, s, ic, p) /\ v = events[i].buttons
       /\ \A j \in (i + 1)..Len(events) : ~Hits(j, s, ic, p)

\* There is only one such value.
LEMMA LastSetsOne ==
  ASSUME Len(events) \in Nat, NEW s, NEW ic, NEW p, NEW v, NEW w,
         LastSets(s, ic, p, v), LastSets(s, ic, p, w)
  PROVE  v = w
<1>1. CASE \A i \in 1..Len(events) : ~Hits(i, s, ic, p)
  BY <1>1 DEF LastSets
<1>2. CASE ~\A i \in 1..Len(events) : ~Hits(i, s, ic, p)
  <2>1. PICK i \in 1..Len(events) :
          /\ Hits(i, s, ic, p) /\ v = events[i].buttons
          /\ \A j \in (i + 1)..Len(events) : ~Hits(j, s, ic, p)
    BY <1>2 DEF LastSets
  <2>2. PICK k \in 1..Len(events) :
          /\ Hits(k, s, ic, p) /\ w = events[k].buttons
          /\ \A j \in (k + 1)..Len(events) : ~Hits(j, s, ic, p)
    BY <1>2 DEF LastSets
  <2>3. ~(i < k) /\ ~(k < i)
    <3>1. i < k => k \in (i + 1)..Len(events)
      OBVIOUS
    <3>2. k < i => i \in (k + 1)..Len(events)
      OBVIOUS
    <3> QED
      BY <2>1, <2>2, <3>1, <3>2
  <2>4. i = k
    BY <2>3
  <2> QED
    BY <2>1, <2>2, <2>4
<1> QED
  BY <1>1, <1>2

\* g is the fold of held_at on the first k events.
Folded(g, k, s, ic, p) ==
  g = [i \in 0..k |-> IF i = 0 THEN 0
                      ELSE IF Hits(i, s, ic, p) THEN events[i].buttons ELSE g[i - 1]]

\* There is a fold for any number of events.
LEMMA FoldExists ==
  ASSUME NEW s, NEW ic, NEW p, NEW n \in Nat
  PROVE  \E g : Folded(g, n, s, ic, p)
<1> DEFINE T == {k \in Nat : \E g : Folded(g, k, s, ic, p)}
<1>1. 0 \in T
  <2>1. Folded([i \in 0..0 |-> 0], 0, s, ic, p)
    BY DEF Folded
  <2> QED
    BY <2>1
<1>2. ASSUME NEW k \in Nat, k \in T PROVE k + 1 \in T
  <2>1. PICK g : Folded(g, k, s, ic, p)
    BY <1>2
  <2>2. PICK last : last = IF Hits(k + 1, s, ic, p) THEN events[k + 1].buttons ELSE g[k]
    OBVIOUS
  <2>3. PICK h : h = [i \in 0..(k + 1) |-> IF i = k + 1 THEN last ELSE g[i]]
    OBVIOUS
  <2>4. ASSUME NEW i \in 0..(k + 1)
        PROVE  h[i] = IF i = 0 THEN 0
                      ELSE IF Hits(i, s, ic, p) THEN events[i].buttons ELSE h[i - 1]
    <3>1. CASE i = k + 1
      <4>1. h[i - 1] = g[k] /\ i # 0 /\ h[i] = last
        BY <2>3, <3>1
      <4> QED
        BY <2>2, <3>1, <4>1
    <3>2. CASE i \in 0..k
      <4>1. h[i] = g[i] /\ (i # 0 => h[i - 1] = g[i - 1])
        BY <2>3, <3>2
      <4>2. g[i] = IF i = 0 THEN 0
                   ELSE IF Hits(i, s, ic, p) THEN events[i].buttons ELSE g[i - 1]
        BY <2>1, <3>2 DEF Folded
      <4> QED
        BY <4>1, <4>2
    <3> QED
      BY <3>1, <3>2
  <2>5. DOMAIN h = 0..(k + 1) /\ h = [i \in 0..(k + 1) |-> h[i]]
    BY <2>3
  <2>6. Folded(h, k + 1, s, ic, p)
    BY <2>4, <2>5 DEF Folded
  <2> QED
    BY <2>6
<1> QED
  <2> HIDE DEF T
  <2>1. Nat \subseteq T
    BY <1>1, <1>2, SetInduction
  <2> QED
    BY <2>1 DEF T

\* The value held_at returns is the one the last event that counts sets.
LEMMA HeldAtIsLast ==
  ASSUME Len(events) \in Nat, NEW s, NEW ic, NEW p
  PROVE  LastSets(s, ic, p, HeldAt(s, ic, p))
<1>1. PICK n : n = Len(events) /\ n \in Nat
  OBVIOUS
<1>2. PICK f : f = CHOOSE g : Folded(g, n, s, ic, p)
  OBVIOUS
<1>3. Folded(f, n, s, ic, p)
  BY <1>1, <1>2, FoldExists
<1>4. HeldAt(s, ic, p) = f[n]
  BY <1>1, <1>2 DEF HeldAt, Folded, Hits
<1>5. \A i \in 0..n : f[i] = IF i = 0 THEN 0
                             ELSE IF Hits(i, s, ic, p) THEN events[i].buttons ELSE f[i - 1]
  BY <1>1, <1>3 DEF Folded
<1> DEFINE LastUpTo(k) ==
             \/ f[k] = 0 /\ \A i \in 1..k : ~Hits(i, s, ic, p)
             \/ \E i \in 1..k : /\ Hits(i, s, ic, p) /\ f[k] = events[i].buttons
                                /\ \A j \in (i + 1)..k : ~Hits(j, s, ic, p)
           T == {k \in Nat : k <= n => LastUpTo(k)}
<1>6. 0 \in T
  BY <1>1, <1>5
<1>7. ASSUME NEW k \in Nat, k \in T PROVE k + 1 \in T
  <2> SUFFICES ASSUME k + 1 <= n PROVE LastUpTo(k + 1)
    OBVIOUS
  <2>1. k + 1 \in 0..n /\ k + 1 # 0 /\ k + 1 - 1 = k /\ k <= n
    BY <1>1
  <2>2. LastUpTo(k)
    BY <1>7, <2>1
  <2>3. CASE Hits(k + 1, s, ic, p)
    <3>1. f[k + 1] = events[k + 1].buttons
      BY <1>5, <2>1, <2>3
    <3>2. k + 1 \in 1..(k + 1) /\ \A j \in (k + 1 + 1)..(k + 1) : FALSE
      OBVIOUS
    <3> QED
      BY <2>3, <3>1, <3>2
  <2>4. CASE ~Hits(k + 1, s, ic, p)
    <3>1. f[k + 1] = f[k]
      BY <1>5, <2>1, <2>4
    <3>2. CASE f[k] = 0 /\ \A i \in 1..k : ~Hits(i, s, ic, p)
      <4>1. \A i \in 1..(k + 1) : i = k + 1 \/ i \in 1..k
        OBVIOUS
      <4> QED
        BY <2>4, <3>1, <3>2, <4>1
    <3>3. CASE \E i \in 1..k : /\ Hits(i, s, ic, p) /\ f[k] = events[i].buttons
                               /\ \A j \in (i + 1)..k : ~Hits(j, s, ic, p)
      <4>1. PICK i \in 1..k : /\ Hits(i, s, ic, p) /\ f[k] = events[i].buttons
                              /\ \A j \in (i + 1)..k : ~Hits(j, s, ic, p)
        BY <3>3
      <4>2. i \in 1..(k + 1) /\ \A j \in (i + 1)..(k + 1) : j = k + 1 \/ j \in (i + 1)..k
        OBVIOUS
      <4> QED
        BY <2>4, <3>1, <4>1, <4>2
    <3> QED
      BY <2>2, <3>2, <3>3
  <2> QED
    BY <2>3, <2>4
<1>8. n \in T
  <2> HIDE DEF T
  <2>1. Nat \subseteq T
    BY <1>6, <1>7, SetInduction
  <2> QED
    BY <1>1, <2>1
<1>9. LastUpTo(n)
  BY <1>1, <1>8
<1> QED
  BY <1>1, <1>4, <1>9 DEF LastSets

\* A frame at ic in segment s lies before where the replay is, in it or at it.
Before(s, ic) == s < segment \/ (s = segment /\ ic < icount)
NotAfter(s, ic) == s < segment \/ (s = segment /\ ic <= icount)

\* The latches are those the last events set; each frame shows those of its time,
\* and no event still to come can count for it: at the icount of its FRAME_MARK
\* there are no more.
HudInv ==
  /\ segment \in Nat /\ icount \in Nat /\ marked \in BOOLEAN
  /\ IsSeq(events) /\ IsSeq(shown) /\ Len(shown) = Len(pushed)
  /\ latch = [p \in Ports |-> latch[p]]
  /\ \A i \in 1..Len(events) :
       /\ events[i].segment \in Nat /\ events[i].icount \in Nat
       /\ NotAfter(events[i].segment, events[i].icount)
  /\ \A p \in Ports : LastSets(segment, icount, p, latch[p])
  /\ \A k \in 1..Len(pushed) :
       /\ pushed[k].segment \in Nat /\ pushed[k].icount \in Nat
       /\ NotAfter(pushed[k].segment, pushed[k].icount)
       /\ ~marked => Before(pushed[k].segment, pushed[k].icount)
       /\ \A p \in Ports : LastSets(pushed[k].segment, pushed[k].icount, p, shown[k][p])

\* What the last event sets does not change while the events do not.
LEMMA LastSetsStays ==
  ASSUME UNCHANGED events, NEW s, NEW ic, NEW p, NEW v
  PROVE  LastSets(s, ic, p, v)' <=> LastSets(s, ic, p, v)
BY DEF LastSets, Hits, UpTo

\* What the last event sets is the same where the same events count.
LEMMA LastSetsMoves ==
  ASSUME NEW s, NEW ic, NEW u, NEW jc, NEW p, NEW v, LastSets(s, ic, p, v),
         \A i \in 1..Len(events) : UpTo(events[i], s, ic) <=> UpTo(events[i], u, jc)
  PROVE  LastSets(u, jc, p, v)
<1>1. \A i \in 1..Len(events) : Hits(i, s, ic, p) <=> Hits(i, u, jc, p)
  BY DEF Hits
<1>2. CASE v = 0 /\ \A i \in 1..Len(events) : ~Hits(i, s, ic, p)
  BY <1>1, <1>2 DEF LastSets
<1> QED
  BY <1>1, <1>2 DEF LastSets

\* An event more, and how it bears on what the last one sets.
LEMMA LastSetsAppend ==
  ASSUME NEW n \in Nat, Len(events) = n, Len(events') = n + 1,
         \A i \in 1..n : events'[i] = events[i],
         NEW s, NEW ic, NEW p, NEW v
  PROVE  /\ Hits(n + 1, s, ic, p)' => LastSets(s, ic, p, events[n + 1].buttons)'
         /\ ~Hits(n + 1, s, ic, p)' /\ LastSets(s, ic, p, v) => LastSets(s, ic, p, v)'
<1>1. \A i \in 1..n : Hits(i, s, ic, p)' <=> Hits(i, s, ic, p)
  BY DEF Hits, UpTo
<1>2. n + 1 \in 1..(n + 1) /\ \A j \in (n + 1 + 1)..(n + 1) : FALSE
  OBVIOUS
<1>3. Hits(n + 1, s, ic, p)' => LastSets(s, ic, p, events[n + 1].buttons)'
  BY <1>2 DEF LastSets
<1>4. ASSUME ~Hits(n + 1, s, ic, p)', LastSets(s, ic, p, v) PROVE LastSets(s, ic, p, v)'
  <2>1. \A i \in 1..(n + 1) : i = n + 1 \/ i \in 1..n
    OBVIOUS
  <2>2. CASE v = 0 /\ \A i \in 1..n : ~Hits(i, s, ic, p)
    BY <1>1, <1>4, <2>1, <2>2 DEF LastSets
  <2>3. CASE \E i \in 1..n : /\ Hits(i, s, ic, p) /\ v = events[i].buttons
                             /\ \A j \in (i + 1)..n : ~Hits(j, s, ic, p)
    <3>1. PICK i \in 1..n : /\ Hits(i, s, ic, p) /\ v = events[i].buttons
                            /\ \A j \in (i + 1)..n : ~Hits(j, s, ic, p)
      BY <2>3
    <3>2. /\ i \in 1..(n + 1) /\ Hits(i, s, ic, p)' /\ v = events'[i].buttons
      BY <1>1, <3>1
    <3>3. ASSUME NEW j \in (i + 1)..(n + 1) PROVE ~Hits(j, s, ic, p)'
      <4>1. j = n + 1 \/ (j \in (i + 1)..n /\ j \in 1..n)
        OBVIOUS
      <4> QED
        BY <1>1, <1>4, <3>1, <4>1
    <3> QED
      BY <3>2, <3>3 DEF LastSets
  <2> QED
    BY <1>4, <2>2, <2>3 DEF LastSets
<1> QED
  BY <1>3, <1>4

\* A PAD_SET moves the latch of its port and no frame already captured.
LEMMA PadSetShows ==
  ASSUME HudInv, PadSet
  PROVE  HudInv'
<1>1. PICK p \in Ports : \E b \in Masks :
        /\ latch' = [latch EXCEPT ![p] = b]
        /\ events' = Append(events, [segment |-> segment, icount |-> icount,
                                     port |-> p, buttons |-> b])
  BY DEF PadSet
<1>2. PICK b \in Masks :
        /\ latch' = [latch EXCEPT ![p] = b]
        /\ events' = Append(events, [segment |-> segment, icount |-> icount,
                                     port |-> p, buttons |-> b])
  BY <1>1
<1>3. ~marked /\ UNCHANGED <<pushed, segment, icount, marked, shown>>
  BY DEF PadSet, vars, writeVars
<1>4. PICK n \in Nat : n = Len(events)
  BY DEF HudInv, IsSeq
<1>5. PICK e : e = [segment |-> segment, icount |-> icount, port |-> p, buttons |-> b]
  OBVIOUS
<1>6. /\ IsSeq(events') /\ Len(events') = n + 1
      /\ \A i \in 1..n : events'[i] = events[i]
      /\ events'[n + 1] = e
  BY <1>2, <1>4, <1>5, AppendIs DEF HudInv
<1>7. e.segment = segment /\ e.icount = icount /\ e.port = p /\ e.buttons = b
  BY <1>5
<1>8. segment \in Nat /\ icount \in Nat
  BY DEF HudInv
<1>9. \A i \in 1..Len(events)' :
        /\ events'[i].segment \in Nat /\ events'[i].icount \in Nat
        /\ NotAfter(events[i].segment, events[i].icount)'
  <2>1. \A i \in 1..(n + 1) : i = n + 1 \/ i \in 1..n
    OBVIOUS
  <2> QED
    BY <1>3, <1>4, <1>6, <1>7, <1>8, <2>1 DEF HudInv, NotAfter
<1>10. latch' = [q \in Ports |-> latch'[q]] /\ latch'[p] = b
       /\ \A q \in Ports : q # p => latch'[q] = latch[q]
  BY <1>2 DEF HudInv
<1>11. ASSUME NEW q \in Ports PROVE LastSets(segment, icount, q, latch[q])'
  <2>1. LastSets(segment, icount, q, latch[q])
    BY DEF HudInv
  <2>2. PICK s, ic, v : s = segment /\ ic = icount /\ v = latch[q]
    OBVIOUS
  <2>3. Hits(n + 1, s, ic, q)' <=> q = p
    BY <1>3, <1>6, <1>7, <1>8, <2>2 DEF Hits, UpTo
  <2>4. /\ Hits(n + 1, s, ic, q)' => LastSets(s, ic, q, events[n + 1].buttons)'
        /\ ~Hits(n + 1, s, ic, q)' /\ LastSets(s, ic, q, v) => LastSets(s, ic, q, v)'
    BY <1>4, <1>6, LastSetsAppend
  <2>5. CASE q = p
    <3>1. latch'[q] = events'[n + 1].buttons /\ segment' = s /\ icount' = ic
      BY <1>3, <1>6, <1>7, <1>10, <2>2, <2>5
    <3> QED
      BY <2>3, <2>4, <2>5, <3>1
  <2>6. CASE q # p
    <3>1. latch'[q] = v /\ segment' = s /\ icount' = ic
      BY <1>3, <1>10, <2>2, <2>6
    <3> QED
      BY <2>1, <2>2, <2>3, <2>4, <2>6, <3>1
  <2> QED
    BY <2>5, <2>6
<1>12. ASSUME NEW k \in 1..Len(pushed)
       PROVE  /\ pushed[k].segment \in Nat /\ pushed[k].icount \in Nat
              /\ NotAfter(pushed[k].segment, pushed[k].icount)
              /\ Before(pushed[k].segment, pushed[k].icount)
              /\ \A q \in Ports :
                   LastSets(pushed[k].segment, pushed[k].icount, q, shown[k][q])'
  <2>1. /\ pushed[k].segment \in Nat /\ pushed[k].icount \in Nat
        /\ NotAfter(pushed[k].segment, pushed[k].icount)
        /\ Before(pushed[k].segment, pushed[k].icount)
    BY <1>3 DEF HudInv
  <2>2. ASSUME NEW q \in Ports
        PROVE  LastSets(pushed[k].segment, pushed[k].icount, q, shown[k][q])'
    <3>1. LastSets(pushed[k].segment, pushed[k].icount, q, shown[k][q])
      BY DEF HudInv
    <3>2. PICK s, ic, v : s = pushed[k].segment /\ ic = pushed[k].icount /\ v = shown[k][q]
      OBVIOUS
    <3>3. ~Hits(n + 1, s, ic, q)'
      BY <1>6, <1>7, <1>8, <2>1, <3>2 DEF Hits, UpTo, Before
    <3>4. LastSets(s, ic, q, v)'
      BY <1>4, <1>6, <3>1, <3>2, <3>3, LastSetsAppend
    <3>5. pushed'[k].segment = s /\ pushed'[k].icount = ic /\ shown'[k][q] = v
      BY <1>3, <3>2
    <3> QED
      BY <3>4, <3>5
  <2> QED
    BY <2>1, <2>2
<1>13. \A k \in 1..Len(pushed)' :
         /\ pushed'[k].segment \in Nat /\ pushed'[k].icount \in Nat
         /\ NotAfter(pushed[k].segment, pushed[k].icount)'
         /\ ~marked' => Before(pushed[k].segment, pushed[k].icount)'
         /\ \A q \in Ports : LastSets(pushed[k].segment, pushed[k].icount, q, shown[k][q])'
  BY <1>3, <1>12 DEF NotAfter, Before
<1> QED
  BY <1>3, <1>6, <1>9, <1>10, <1>11, <1>13 DEF HudInv

\* A frame is pushed with the latches as they are.
LEMMA FrameMarkShows ==
  ASSUME HudInv, IsSeq(pushed), FrameMark
  PROVE  HudInv'
<1>1. PICK b \in Payloads : Push([frame |-> Len(pushed), segment |-> segment, comp |-> 0,
                                  icount |-> icount, bytes |-> b])
  BY DEF FrameMark
<1>2. PICK n \in Nat : n = Len(pushed) /\ n = Len(shown)
  BY DEF HudInv, IsSeq
<1>3. PICK f : f = [frame |-> Len(pushed), segment |-> segment, comp |-> 0,
                    icount |-> icount, bytes |-> b]
  OBVIOUS
<1>4. f.segment = segment /\ f.icount = icount
  BY <1>3
<1>5. /\ IsSeq(pushed') /\ Len(pushed') = n + 1 /\ pushed'[n + 1] = f
      /\ \A k \in 1..n : pushed'[k] = pushed[k]
  <2>1. pushed' = Append(pushed, f)
    BY <1>1, <1>3 DEF Push
  <2>2. /\ IsSeq(Append(pushed, f)) /\ Len(Append(pushed, f)) = Len(pushed) + 1
        /\ \A k \in 1..Len(pushed) : Append(pushed, f)[k] = pushed[k]
        /\ Append(pushed, f)[Len(pushed) + 1] = f
    BY AppendIs
  <2> QED
    BY <1>2, <2>1, <2>2
<1>6. /\ IsSeq(shown') /\ Len(shown') = n + 1 /\ shown'[n + 1] = latch
      /\ \A k \in 1..n : shown'[k] = shown[k]
  BY <1>2, AppendIs DEF FrameMark, HudInv
<1>7. marked' /\ UNCHANGED <<segment, icount, latch, events>>
  BY DEF FrameMark
<1>8. \A s, ic, p, v : LastSets(s, ic, p, v)' <=> LastSets(s, ic, p, v)
  BY <1>7, LastSetsStays
<1>9. ASSUME NEW k \in 1..Len(pushed)'
      PROVE  /\ pushed'[k].segment \in Nat /\ pushed'[k].icount \in Nat
             /\ NotAfter(pushed[k].segment, pushed[k].icount)'
             /\ \A p \in Ports : LastSets(pushed[k].segment, pushed[k].icount, p, shown[k][p])'
  <2>1. CASE k = n + 1
    <3>1. pushed'[k].segment = segment /\ pushed'[k].icount = icount /\ shown'[k] = latch
      BY <1>4, <1>5, <1>6, <2>1
    <3>2. segment \in Nat /\ icount \in Nat /\ \A p \in Ports : LastSets(segment, icount, p, latch[p])
      BY DEF HudInv
    <3>3. \A p \in Ports : LastSets(segment, icount, p, latch[p])'
      BY <1>7, <1>8, <3>2 DEF LastSets, Hits, UpTo
    <3>4. \A p \in Ports : LastSets(pushed[k].segment, pushed[k].icount, p, shown[k][p])'
      BY <1>7, <3>1, <3>3
    <3> QED
      BY <1>7, <3>1, <3>2, <3>4 DEF NotAfter
  <2>2. CASE k \in 1..n
    <3>1. pushed'[k] = pushed[k] /\ shown'[k] = shown[k] /\ k \in 1..Len(pushed)
      BY <1>2, <1>5, <1>6, <2>2
    <3>2. /\ pushed[k].segment \in Nat /\ pushed[k].icount \in Nat
          /\ NotAfter(pushed[k].segment, pushed[k].icount)
          /\ \A p \in Ports : LastSets(pushed[k].segment, pushed[k].icount, p, shown[k][p])
      BY <3>1 DEF HudInv
    <3>3. \A p \in Ports : LastSets(pushed[k].segment, pushed[k].icount, p, shown[k][p])'
      BY <1>7, <3>1, <3>2 DEF LastSets, Hits, UpTo
    <3> QED
      BY <1>7, <3>1, <3>2, <3>3 DEF NotAfter
  <2> QED
    BY <1>5, <2>1, <2>2
<1>10. /\ segment' \in Nat /\ icount' \in Nat /\ marked' \in BOOLEAN /\ IsSeq(events')
       /\ latch' = [p \in Ports |-> latch'[p]]
       /\ \A i \in 1..Len(events)' :
            /\ events'[i].segment \in Nat /\ events'[i].icount \in Nat
            /\ NotAfter(events[i].segment, events[i].icount)'
       /\ \A p \in Ports : LastSets(segment, icount, p, latch[p])'
  BY <1>7 DEF HudInv, NotAfter, LastSets, Hits, UpTo
<1>11. \A k \in 1..Len(pushed)' :
         /\ pushed'[k].segment \in Nat /\ pushed'[k].icount \in Nat
         /\ NotAfter(pushed[k].segment, pushed[k].icount)'
         /\ ~marked' => Before(pushed[k].segment, pushed[k].icount)'
         /\ \A p \in Ports : LastSets(pushed[k].segment, pushed[k].icount, p, shown[k][p])'
  BY <1>7, <1>9
<1>12. IsSeq(shown') /\ Len(shown') = Len(pushed')
  BY <1>5, <1>6
<1> QED
  BY <1>10, <1>11, <1>12 DEF HudInv

\* The replay goes on: what was at or before its place is before it.
LEMMA ReplayShows ==
  ASSUME HudInv, Advance \/ NextSegment
  PROVE  HudInv'
<1>1. /\ segment' \in Nat /\ icount' \in Nat /\ marked' = FALSE
      /\ \A s, ic \in Nat : NotAfter(s, ic) => Before(s, ic)'
      /\ UNCHANGED <<pushed, latch, shown, events>>
  <2>1. CASE Advance
    BY <2>1 DEF Advance, HudInv, NotAfter, Before, vars, writeVars
  <2>2. CASE NextSegment
    BY <2>2 DEF NextSegment, HudInv, NotAfter, Before, vars, writeVars
  <2> QED
    BY <2>1, <2>2
<1>2. \A s, ic \in Nat : Before(s, ic)' => NotAfter(s, ic)'
  BY <1>1 DEF Before, NotAfter
<1>3. \A i \in 1..Len(events)' :
        /\ events'[i].segment \in Nat /\ events'[i].icount \in Nat
        /\ NotAfter(events[i].segment, events[i].icount)'
  BY <1>1, <1>2 DEF HudInv, NotAfter
<1>4. ASSUME NEW p \in Ports PROVE LastSets(segment, icount, p, latch[p])'
  <2>1. LastSets(segment, icount, p, latch[p])
    BY DEF HudInv
  <2>2. PICK u, jc : u = segment' /\ jc = icount'
    OBVIOUS
  <2>3. \A i \in 1..Len(events) : UpTo(events[i], segment, icount) <=> UpTo(events[i], u, jc)
    BY <1>1, <1>3, <2>2 DEF HudInv, UpTo, NotAfter
  <2>4. LastSets(u, jc, p, latch[p])
    BY <2>1, <2>3, LastSetsMoves
  <2> QED
    BY <1>1, <2>2, <2>4 DEF LastSets, Hits, UpTo
<1>5. ASSUME NEW k \in 1..Len(pushed)
      PROVE  /\ pushed[k].segment \in Nat /\ pushed[k].icount \in Nat
             /\ Before(pushed[k].segment, pushed[k].icount)'
             /\ \A p \in Ports : LastSets(pushed[k].segment, pushed[k].icount, p, shown[k][p])'
  <2>1. /\ pushed[k].segment \in Nat /\ pushed[k].icount \in Nat
        /\ NotAfter(pushed[k].segment, pushed[k].icount)
        /\ \A p \in Ports : LastSets(pushed[k].segment, pushed[k].icount, p, shown[k][p])
    BY DEF HudInv
  <2>2. Before(pushed[k].segment, pushed[k].icount)'
    BY <1>1, <2>1 DEF Before
  <2> QED
    BY <1>1, <2>1, <2>2 DEF LastSets, Hits, UpTo
<1>6. \A k \in 1..Len(pushed)' :
        /\ pushed'[k].segment \in Nat /\ pushed'[k].icount \in Nat
        /\ NotAfter(pushed[k].segment, pushed[k].icount)'
        /\ ~marked' => Before(pushed[k].segment, pushed[k].icount)'
        /\ \A p \in Ports : LastSets(pushed[k].segment, pushed[k].icount, p, shown[k][p])'
  BY <1>1, <1>2, <1>5 DEF NotAfter, Before
<1> QED
  BY <1>1, <1>3, <1>4, <1>6 DEF HudInv

\* What held_at finds for a frame of the pack is what was shown on it.
LEMMA PushedShow ==
  ASSUME HudInv
  PROVE  \A i \in 1..Len(pushed), p \in Ports :
           HeldAt(pushed[i].segment, pushed[i].icount, p) = shown[i][p]
<1>1. Len(events) \in Nat
  BY DEF HudInv, IsSeq
<1>2. ASSUME NEW i \in 1..Len(pushed), NEW p \in Ports
      PROVE  HeldAt(pushed[i].segment, pushed[i].icount, p) = shown[i][p]
  <2>1. LastSets(pushed[i].segment, pushed[i].icount, p, shown[i][p])
    BY DEF HudInv
  <2>2. LastSets(pushed[i].segment, pushed[i].icount, p,
                 HeldAt(pushed[i].segment, pushed[i].icount, p))
    BY <1>1, HeldAtIsLast
  <2> QED
    BY <1>1, <2>1, <2>2, LastSetsOne
<1> QED
  BY <1>2

\* The pack of a replay is one like any other.
LEMMA OverlayKeepsPack ==
  ASSUME PackInv, [OverlayNext]_allVars
  PROVE  PackInv'
<1>1. CASE FrameMark
  <2>1. PICK b \in Payloads : Push([frame |-> Len(pushed), segment |-> segment, comp |-> 0,
                                    icount |-> icount, bytes |-> b])
    BY <1>1 DEF FrameMark
  <2>2. IsFrame([frame |-> Len(pushed), segment |-> segment, comp |-> 0,
                 icount |-> icount, bytes |-> b])
    BY PayloadsAssumption DEF IsFrame
  <2> QED
    BY <2>1, <2>2, PushPacks
<1>2. CASE UNCHANGED vars
  BY <1>2, PackInvIsInductive
<1>3. CASE Accident \/ Finish \/ ReadStep \/ Over
  BY <1>3, PackInvIsInductive DEF Next
<1> QED
  BY <1>1, <1>2, <1>3 DEF OverlayNext, PadSet, Advance, NextSegment, allVars

\* Every step of the replay, and every other, keeps what the HUD is to show.
LEMMA HudInvIsInductive ==
  ASSUME PackInv, HudInv, [OverlayNext]_allVars
  PROVE  HudInv'
<1>1. CASE PadSet
  BY <1>1, PadSetShows
<1>2. CASE FrameMark
  BY <1>2, FrameMarkShows DEF PackInv, Packed
<1>3. CASE Advance \/ NextSegment
  BY <1>3, ReplayShows
<1>4. CASE UNCHANGED replayVars /\ UNCHANGED pushed
  <2>1. UNCHANGED <<segment, icount, marked, latch, shown, events, pushed>>
    BY <1>4 DEF replayVars
  <2>2. \A s, ic, p, v : LastSets(s, ic, p, v)' <=> LastSets(s, ic, p, v)
    BY <2>1, LastSetsStays
  <2> QED
    BY <2>1, <2>2 DEF HudInv, LastSets, Hits, UpTo, NotAfter, Before
<1>5. (Accident \/ Finish \/ ReadStep \/ Over \/ UNCHANGED vars) => UNCHANGED pushed
  BY DEF Accident, Cut, Damage, Finish, ReadStep, HeaderErrs, LocateFooter, ReadRecord,
         FramingBreaks, ReadEnds, Over, vars, writeVars
<1> QED
  BY <1>1, <1>2, <1>3, <1>4, <1>5 DEF OverlayNext, allVars

\* The HUD shows on every frame, as it was pushed and as it is read back from a
\* complete pack, the buttons the guest held when it was captured: whatever the
\* path, its frames and its events (hud.rs:73-90).
THEOREM HudTruth == OverlaySpec => []HudShowsTheLatch
<1>1. OverlayInit => PackInv /\ HudInv
  <2>1. OverlayInit => PackInv
    BY InitPackInv DEF OverlayInit
  <2>2. ASSUME OverlayInit PROVE HudInv
    <3>1. /\ segment = 1 /\ icount = 0 /\ marked = FALSE /\ latch = [p \in Ports |-> 0]
          /\ shown = <<>> /\ events = <<>> /\ pushed = <<>>
      BY <2>2 DEF OverlayInit, Init
    <3>2. \A i \in 1..0 : FALSE
      OBVIOUS
    <3>3. \A p \in Ports : LastSets(segment, icount, p, latch[p])
      BY <3>1, <3>2, EmptyIsSeq DEF LastSets
    <3>4. latch = [p \in Ports |-> latch[p]]
      BY <3>1
    <3> QED
      BY <3>1, <3>2, <3>3, <3>4, EmptyIsSeq DEF HudInv
  <2> QED
    BY <2>1, <2>2
<1>2. PackInv /\ HudInv /\ [OverlayNext]_allVars => PackInv' /\ HudInv'
  BY OverlayKeepsPack, HudInvIsInductive
<1>3. PackInv /\ HudInv => HudShowsTheLatch
  <2> SUFFICES ASSUME PackInv, HudInv PROVE HudShowsTheLatch
    OBVIOUS
  <2>1. outcome = "Complete" => records = pushed
    BY DEF PackInv, Read, ResumeIsSafe
  <2> QED
    BY <2>1, PushedShow DEF HudShowsTheLatch
<1> QED
  BY <1>1, <1>2, <1>3, PTL DEF OverlaySpec

\* The pack of a replay that a render resumes from holds its frames, and no frame
\* before an accident is lost (rfp.rs:191-247).
THEOREM OverlayPack == OverlaySpec => [](ResumeIsSafe /\ TornKeepsFrames)
<1>1. OverlayInit => PackInv
  BY InitPackInv DEF OverlayInit
<1>2. PackInv /\ [OverlayNext]_allVars => PackInv'
  BY OverlayKeepsPack
<1>3. PackInv => ResumeIsSafe /\ TornKeepsFrames
  BY DEF PackInv, Read, ResumeIsSafe, TornKeepsFrames
<1> QED
  BY <1>1, <1>2, <1>3, PTL DEF OverlaySpec
=============================================================================
