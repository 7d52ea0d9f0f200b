------------------------- MODULE ResimulationProofs -------------------------
(***************************************************************************)
(* What is proved of the segment writer and of the replay of what it       *)
(* wrote, for every script, every defect and every epoch length: a sealed  *)
(* segment is well formed by the structural validator's account; the       *)
(* oracle recomputes the recorded hashes; the two sides differ exactly     *)
(* from the defect on; the honest verdict says so; no guest ever steps     *)
(* back.                                                                   *)
(*                                                                         *)
(* A side's simulation is a run: the sequence of what it holds after each  *)
(* record (IsRun).  Two runs over the same records, one with the defect's  *)
(* fold, are the same up to the fold and twins after it: of equal shape,   *)
(* but one register longer by an event than the other, and so, from the    *)
(* next boundary on, the last one in the chain (Twin).  RecInv says that   *)
(* the recording is where the oracle's run will be.                        *)
(***************************************************************************)
EXTENDS Resimulation, SequenceTheorems, WellFoundedInduction, TLAPS

EndEmission == Emission("END", script.end, 0)

\* A record the validator finds nothing wrong with by itself.
Sound(rec) ==
  /\ rec.aux \in BOOLEAN
  /\ rec.len \in Nat /\ rec.len <= MaxPayload
  /\ rec.aux = FALSE => rec.kind \in CanonicalKinds
  /\ (rec.kind = "NET_RX" /\ rec.aux = FALSE) => rec.len <= MaxFrame

\* The END record says where the segment ends and in what state.
Ending(rec, end, hash) ==
  rec.aux = TRUE /\ rec.icount = end /\ rec.len = 40 /\ rec.payload = hash

\* The records written so far: numbered by position, within the segment,
\* ordered by icount, and none after END.
Written ==
  /\ log \in Seq({log[i] : i \in DOMAIN log})
  /\ \A i \in 1..Len(log) :
       /\ log[i].seq = i - 1
       /\ log[i].icount \in 0..script.end
       /\ \A j \in 1..i : log[j].icount <= log[i].icount
       /\ Sound(log[i])
       /\ log[i].kind = "END" => i = Len(log) /\ pending = {} /\ Ending(log[i], script.end, endHash)

\* What is still to be emitted comes at or after what was, and END is among it
\* until it is the last record.
Ahead ==
  /\ pending \subseteq Emissions(script)
  /\ \A em \in pending : \A i \in 1..Len(log) : log[i].icount <= em.icount
  /\ \/ EndEmission \in pending
     \/ pending = {} /\ Len(log) > 0 /\ log[Len(log)].kind = "END"

\* The header is of the body under it.
HeaderFits ==
  /\ header.sealed \in BOOLEAN
  /\ header.sealed =>
       /\ pending = {}
       /\ header.endIcount = script.end
       /\ header.recordCount = Len(log)
       /\ header.endHash = endHash

WInv == script \in Scripts /\ Written /\ Ahead /\ HeaderFits

-----------------------------------------------------------------------------

\* Every boundary up to n is an icount of the segment.
LEMMA BoundaryInside ==
  ASSUME NEW n \in Nat, NEW k \in 1..(n \div EpochIcounts)
  PROVE  k * EpochIcounts \in 0..n
<1> DEFINE q == n \div EpochIcounts
<1>1. EpochIcounts \in Nat /\ EpochIcounts > 0
  BY EpochIcountsAssumption
<1>2. q \in Nat /\ q * EpochIcounts <= n
  BY <1>1, Z3
<1>3. k \in Nat /\ k <= q
  BY <1>2
<1> HIDE DEF q
<1>4. k * EpochIcounts <= q * EpochIcounts
  BY <1>1, <1>2, <1>3, Z3
<1>5. k * EpochIcounts \in Nat /\ q * EpochIcounts \in Nat
  BY <1>1, <1>2, <1>3, Z3
<1> QED BY <1>2, <1>4, <1>5

\* Every emission is inside the segment, and the one END at its end.
LEMMA EmissionShape ==
  ASSUME script \in Scripts, NEW em \in Emissions(script)
  PROVE  /\ em.icount \in 0..script.end
         /\ em.class \in {"EPOCH_HASH", "SKEW", "CANONICAL", "FRAME_MARK", "END"}
         /\ em.class = "END" => em = EndEmission
         /\ em.class = "CANONICAL" =>
              em.tie \in DOMAIN script.events /\ IsEvent(script.events[em.tie].event)
<1>1. IsScript(script)
  BY ScriptsAssumption
<1>2. CASE em \in EpochEmissions(script)
  BY <1>1, <1>2, BoundaryInside DEF EpochEmissions, Emission, IsScript
<1>3. CASE em \in {Emission("SKEW", m, 0) : m \in script.skew}
  BY <1>1, <1>3 DEF Emission, IsScript
<1>4. CASE em \in {Emission("CANONICAL", script.events[i].icount, i) : i \in DOMAIN script.events}
  BY <1>1, <1>4 DEF Emission, IsScript
<1>5. CASE em \in {Emission("FRAME_MARK", script.frames[i], i) : i \in DOMAIN script.frames}
  BY <1>1, <1>5 DEF Emission, IsScript
<1>6. CASE em = EndEmission
  BY <1>1, <1>6 DEF Emission, EndEmission, IsScript
<1> QED BY <1>2, <1>3, <1>4, <1>5, <1>6 DEF Emissions, EndEmission

\* The emission taken is the earliest, and END only when nothing else is left.
LEMMA TakenIsFirst ==
  ASSUME WInv, NEW class, NEW em \in pending, TakeNext(class, em)
  PROVE  /\ \A other \in pending : em.icount <= other.icount
         /\ em.class = "END" => pending' = {} /\ em.icount = script.end
         /\ em.class # "END" => EndEmission \in pending'
         /\ em \in Emissions(script)
         /\ pending' \subseteq pending
<1>1. \A other \in pending : other \in Emissions(script)
  BY DEF WInv, Ahead
<1>2. script \in Scripts /\ script.end \in Nat
  BY ScriptsAssumption DEF WInv, IsScript
<1>3. \A other \in pending : other.icount \in 0..script.end
  BY <1>1, <1>2, EmissionShape
<1>4. \A other \in pending : em.icount <= other.icount
  BY <1>2, <1>3 DEF TakeNext, Before
<1>5. ASSUME em.class = "END", NEW other \in pending \ {em}
      PROVE  FALSE
  <2>1. em = EndEmission /\ em.icount = script.end
    BY <1>1, <1>2, <1>5, EmissionShape DEF EndEmission, Emission
  <2>2. other.class # "END"
    BY <1>1, <1>2, <1>5, <2>1, EmissionShape
  <2>3. other.class \in {"EPOCH_HASH", "SKEW", "CANONICAL", "FRAME_MARK"}
    BY <1>1, <1>2, <2>2, EmissionShape
  <2>4. other.icount <= em.icount /\ other.icount \in Nat
    BY <1>2, <1>3, <2>1
  <2>5. Rank[em.class] = 4 /\ Rank[other.class] \in 0..3
    BY <1>5, <2>3 DEF Rank
  <2>6. Before(em, other)
    BY <1>5 DEF TakeNext
  <2> QED BY <1>2, <1>5, <2>1, <2>2, <2>4, <2>5, <2>6 DEF Before
<1>6. em.class = "END" => pending' = {}
  BY <1>5 DEF TakeNext
<1>7. em.class = "END" => em.icount = script.end
  BY <1>1, <1>2, EmissionShape DEF EndEmission, Emission
<1>8. em.class # "END" => EndEmission \in pending'
  BY DEF WInv, Ahead, TakeNext, EndEmission, Emission
<1> QED BY <1>1, <1>4, <1>6, <1>7, <1>8 DEF TakeNext

\* Appending the record of the emission taken keeps the log in order.
LEMMA RecordKeepsOrder ==
  ASSUME WInv, NEW em \in pending, TakeNext(em.class, em),
         UNCHANGED <<script, header>>,
         NEW rec, log' = Append(log, rec),
         rec.seq = Len(log), rec.icount = em.icount, Sound(rec),
         rec.kind = "END" <=> em.class = "END",
         rec.kind = "END" => Ending(rec, rec.icount, endHash')
  PROVE  WInv'
<1> DEFINE S == {log[i] : i \in DOMAIN log} \cup {rec}
<1>2. /\ log \in Seq({log[i] : i \in DOMAIN log})
      /\ \A i \in 1..Len(log) :
           /\ log[i].seq = i - 1
           /\ log[i].icount \in 0..script.end
           /\ \A j \in 1..i : log[j].icount <= log[i].icount
           /\ Sound(log[i])
           /\ log[i].kind # "END"
  BY DEF WInv, Written
<1>3. /\ Len(log) \in Nat
      /\ Len(log') = Len(log) + 1
      /\ DOMAIN log' = 1..(Len(log) + 1)
      /\ \A i \in 1..Len(log) : log'[i] = log[i]
      /\ log'[Len(log) + 1] = rec
  BY <1>2
<1>4. log' \in Seq({log'[i] : i \in DOMAIN log'})
  <2>1. log \in Seq(S) /\ rec \in S
    <3>1. {log[i] : i \in DOMAIN log} \subseteq S /\ rec \in S
      OBVIOUS
    <3> HIDE DEF S
    <3> QED BY <1>2, <3>1, SeqMonotonic
  <2>2. log' \in Seq(S)
    BY <2>1
  <2>3. DOMAIN log' = 1..Len(log') /\ Len(log') \in Nat
    BY <1>3
  <2> HIDE DEF S
  <2> DEFINE T == {log'[i] : i \in DOMAIN log'}
  <2>4. log' \in [1..Len(log') -> T]
    BY <2>2, <2>3, LenProperties
  <2> HIDE DEF T
  <2>5. log' \in Seq(T)
    BY <2>3, <2>4, SeqDef
  <2> QED BY <2>5 DEF T
<1>6. /\ script' \in Scripts /\ script' = script /\ script.end \in Nat
      /\ em.icount \in 0..script.end
  BY TakenIsFirst, EmissionShape, ScriptsAssumption DEF WInv, IsScript
<1>9. Written'
  <2>1. ASSUME NEW i \in 1..Len(log)
        PROVE  /\ log'[i].seq = i - 1
               /\ log'[i].icount \in 0..script.end
               /\ \A j \in 1..i : log'[j].icount <= log'[i].icount
               /\ Sound(log'[i])
               /\ log'[i].kind # "END"
    <3>1. log'[i] = log[i] /\ \A j \in 1..i : log'[j] = log[j]
      BY <1>3
    <3>2. /\ log[i].seq = i - 1
          /\ log[i].icount \in 0..script.end
          /\ \A j \in 1..i : log[j].icount <= log[i].icount
          /\ Sound(log[i])
          /\ log[i].kind # "END"
      BY <1>2
    <3>3. \A j \in 1..i : log'[j].icount <= log'[i].icount
      BY <3>1, <3>2
    <3> QED BY <3>1, <3>2, <3>3
  <2>2. \A j \in 1..Len(log) : log'[j].icount <= em.icount
    BY <1>3 DEF WInv, Ahead
  <2>3. /\ log'[Len(log) + 1].seq = (Len(log) + 1) - 1
        /\ log'[Len(log) + 1].icount \in 0..script.end
        /\ \A j \in 1..(Len(log) + 1) : log'[j].icount <= log'[Len(log) + 1].icount
        /\ Sound(log'[Len(log) + 1])
    BY <1>3, <1>6, <2>2
  <2>4. rec.kind = "END" => pending' = {} /\ em.icount = script.end
    BY TakenIsFirst
  <2>5. log'[Len(log) + 1].kind = "END" =>
          pending' = {} /\ Ending(log'[Len(log) + 1], script.end, endHash')
    BY <1>3, <2>4
  <2>6. ASSUME NEW i \in 1..Len(log')
        PROVE  /\ log'[i].seq = i - 1
               /\ log'[i].icount \in 0..script.end
               /\ \A j \in 1..i : log'[j].icount <= log'[i].icount
               /\ Sound(log'[i])
               /\ log'[i].kind = "END" =>
                    i = Len(log') /\ pending' = {} /\ Ending(log'[i], script.end, endHash')
    BY <1>3, <2>1, <2>3, <2>5
  <2> QED BY <1>4, <1>6, <2>6 DEF Written
<1>7. Ahead'
  <2>1. pending' \subseteq Emissions(script')
    BY <1>6, TakenIsFirst DEF WInv, Ahead
  <2>2. ASSUME NEW e \in pending', NEW i \in 1..Len(log')
        PROVE  log'[i].icount <= e.icount
    <3>1. e \in pending /\ em.icount <= e.icount
      BY TakenIsFirst
    <3>2. CASE i \in 1..Len(log)
      BY <1>3, <3>1, <3>2 DEF WInv, Ahead
    <3>3. CASE i = Len(log) + 1
      BY <1>3, <3>1, <3>3
    <3> QED BY <1>3, <3>2, <3>3
  <2>3. \/ EndEmission' \in pending'
        \/ pending' = {} /\ Len(log') > 0 /\ log'[Len(log')].kind = "END"
    BY <1>3, <1>6, TakenIsFirst DEF EndEmission
  <2> QED BY <2>1, <2>2, <2>3 DEF Ahead
<1>8. HeaderFits'
  <2>1. ~header.sealed
    BY DEF WInv, HeaderFits
  <2> QED BY <2>1 DEF WInv, HeaderFits
<1> QED BY <1>6, <1>7, <1>8, <1>9 DEF WInv

-----------------------------------------------------------------------------

LEMMA WriterStart == Init => WInv
<1> SUFFICES ASSUME Init PROVE WInv
  OBVIOUS
<1>1. script \in Scripts /\ pending = Emissions(script) /\ log = <<>> /\ ~header.sealed
  BY DEF Init, WriterInit, NoHeader
<1>2. EndEmission \in pending
  BY <1>1 DEF EndEmission, Emissions
<1>3. HeaderFits
  BY DEF Init, WriterInit, NoHeader, HeaderFits
<1> QED BY <1>1, <1>2, <1>3 DEF WInv, Written, Ahead

LEMMA WriterKeeps == WInv /\ WriterStep => WInv'
<1> SUFFICES ASSUME WInv, WriterStep PROVE WInv'
  OBVIOUS
<1>0. (\E em \in pending : TRUE) => ~header.sealed
  BY DEF WInv, HeaderFits
<1>1. ASSUME NEW em \in pending, EmitEpochHash(em) PROVE WInv'
  <2> DEFINE rec == [kind |-> "EPOCH_HASH", aux |-> TRUE, seq |-> Len(log),
                     icount |-> em.icount, payload |-> guest'.chain, len |-> 40]
  <2>1. /\ TakeNext(em.class, em) /\ em.class = "EPOCH_HASH"
        /\ UNCHANGED <<script, header>> /\ log' = Append(log, rec)
    BY <1>1 DEF EmitEpochHash, TakeNext, PushRecord
  <2>2. /\ rec.seq = Len(log) /\ rec.icount = em.icount
        /\ Sound(rec) /\ rec.kind = "EPOCH_HASH"
    BY DEF Sound, MaxPayload
  <2> HIDE DEF rec
  <2> QED BY <2>1, <2>2, RecordKeepsOrder
<1>2. ASSUME NEW em \in pending, EmitSkew(em) PROVE WInv'
  <2>1. TakeNext("SKEW", em) /\ em.class = "SKEW" /\ UNCHANGED <<script, log, endHash, header>>
    BY <1>2 DEF EmitSkew, TakeNext
  <2>2. pending' \subseteq pending /\ EndEmission \in pending'
    BY <2>1, TakenIsFirst
  <2> QED BY <1>0, <2>1, <2>2 DEF WInv, Written, Ahead, HeaderFits, EndEmission
<1>3. ASSUME NEW em \in pending, EmitCanonical(em) PROVE WInv'
  <2> DEFINE ev == script.events[em.tie].event
             rec == [kind |-> ev.kind, aux |-> FALSE, seq |-> Len(log),
                     icount |-> em.icount, payload |-> ev.data, len |-> ev.len]
  <2>1. /\ TakeNext(em.class, em) /\ em.class = "CANONICAL"
        /\ UNCHANGED <<script, header>> /\ log' = Append(log, rec)
    BY <1>3 DEF EmitCanonical, TakeNext, PushRecord
  <2>2. IsEvent(ev)
    BY <2>1, TakenIsFirst, EmissionShape DEF WInv
  <2>3. /\ rec.seq = Len(log) /\ rec.icount = em.icount /\ rec.aux = FALSE
        /\ rec.kind = ev.kind /\ rec.len = ev.len
    OBVIOUS
  <2> HIDE DEF ev, rec
  <2>4. Sound(rec)
    <3>1. /\ rec.kind \in CanonicalKinds /\ rec.len \in Nat /\ rec.len <= MaxPayload
          /\ rec.kind = "NET_RX" => rec.len <= MaxFrame
      BY <2>2, <2>3 DEF IsEvent
    <3>2. rec.aux \in BOOLEAN
      BY <2>3
    <3> QED BY <3>1, <3>2, Zenon DEF Sound
  <2>5. rec.kind # "END"
    BY <2>2, <2>3 DEF IsEvent, CanonicalKinds
  <2> QED BY <2>1, <2>3, <2>4, <2>5, RecordKeepsOrder
<1>4. ASSUME NEW em \in pending, EmitFrameMark(em) PROVE WInv'
  <2> DEFINE rec == [kind |-> "FRAME_MARK", aux |-> TRUE, seq |-> Len(log),
                     icount |-> em.icount, payload |-> em.tie, len |-> 8]
  <2>1. /\ TakeNext(em.class, em) /\ em.class = "FRAME_MARK"
        /\ UNCHANGED <<script, header>> /\ log' = Append(log, rec)
    BY <1>4 DEF EmitFrameMark, TakeNext, PushRecord
  <2>2. /\ rec.seq = Len(log) /\ rec.icount = em.icount
        /\ Sound(rec) /\ rec.kind = "FRAME_MARK"
    BY DEF Sound, MaxPayload
  <2> HIDE DEF rec
  <2> QED BY <2>1, <2>2, RecordKeepsOrder
<1>5. ASSUME NEW em \in pending, EmitEnd(em) PROVE WInv'
  <2> DEFINE rec == [kind |-> "END", aux |-> TRUE, seq |-> Len(log),
                     icount |-> em.icount, payload |-> endHash', len |-> 40]
  <2>1. /\ TakeNext(em.class, em) /\ em.class = "END"
        /\ UNCHANGED <<script, header>> /\ log' = Append(log, rec)
    BY <1>5 DEF EmitEnd, TakeNext, PushRecord
  <2>2. /\ rec.seq = Len(log) /\ rec.icount = em.icount
        /\ Sound(rec) /\ rec.kind = "END"
        /\ Ending(rec, rec.icount, endHash')
    BY DEF Sound, Ending, MaxPayload
  <2> HIDE DEF rec
  <2> QED BY <2>1, <2>2, RecordKeepsOrder
<1>6. CASE Seal
  BY <1>6 DEF Seal, WInv, Written, Ahead, HeaderFits, EndEmission
<1> QED BY <1>1, <1>2, <1>3, <1>4, <1>5, <1>6 DEF WriterStep

\* The replay leaves what was written alone.
LEMMA ReplayLeavesLog ==
  ASSUME Next, ~Record
  PROVE  UNCHANGED writerVars
BY DEF Next, Step, Answered, vars, BeginHonest, HonestRecord, HonestBadEpoch, HonestEnd,
       BeginProbe, SimRecord, ReplayedStops, OracleStops

LEMMA WriterInvariant == Spec => []WInv
<1>1. Init => WInv
  BY WriterStart
<1>2. ASSUME WInv, [Next]_vars PROVE WInv'
  <2>1. CASE Record
    BY <1>2, <2>1, WriterKeeps DEF Record
  <2>2. CASE UNCHANGED writerVars
    BY <1>2, <2>2 DEF writerVars, WInv, Written, Ahead, HeaderFits, EndEmission
  <2> QED BY <1>2, <2>1, <2>2, ReplayLeavesLog DEF vars
<1> QED BY <1>1, <1>2, PTL DEF Spec

\* A sealed segment, read back, is what the validator accepts.
LEMMA SealedReadsWell == WInv => SealedIsWellFormed
<1> SUFFICES ASSUME WInv, header.sealed PROVE Validator!AcceptedIsWellFormed
  BY DEF SealedIsWellFormed
<1> DEFINE r == [i \in DOMAIN log |-> AsRead(log[i])]
<1>1. /\ Len(log) \in Nat /\ DOMAIN log = 1..Len(log)
      /\ pending = {} /\ Len(log) > 0 /\ log[Len(log)].kind = "END"
      /\ header.recordCount = Len(log)
  BY DEF WInv, Written, Ahead, HeaderFits
<1>2. r \in Seq({AsRead(log[i]) : i \in DOMAIN log}) /\ Len(r) = Len(log)
  BY <1>1
<1>3. \A i \in 1..Len(log) : r[i] = AsRead(log[i])
  BY <1>1
<1> HIDE DEF r
<1>4. \A i \in 1..Len(log) :
        /\ log[i].seq = i - 1
        /\ log[i].icount \in 0..script.end
        /\ \A j \in 1..i : log[j].icount <= log[i].icount
        /\ Sound(log[i])
        /\ log[i].kind = "END" => i = Len(log) /\ Ending(log[i], script.end, endHash)
  BY DEF WInv, Written
<1>5. header.endHash = endHash /\ header.endIcount = script.end
  BY DEF WInv, HeaderFits
<1>6. ASSUME NEW i \in 1..Len(log) PROVE Validator!Intact(r[i])
  <2> DEFINE rec == log[i]
             got == r[i]
  <2>1. Sound(rec) /\ (rec.kind = "END" => Ending(rec, script.end, header.endHash))
    BY <1>4, <1>5
  <2>2. got = AsRead(rec)
    BY <1>3
  <2> HIDE DEF rec, got
  <2>3. /\ got.torn = FALSE /\ got.padZero = TRUE /\ got.undefined = FALSE
        /\ got.kind = rec.kind /\ got.aux = rec.aux /\ got.len = rec.len
    BY <2>2 DEF AsRead
  <2>4. rec.kind = "END" => got.hashOk = TRUE
    BY <2>1, <2>2 DEF AsRead, Ending
  <2>5. rec.kind = "END" => rec.len = 40
    BY <2>1 DEF Ending
  <2>6. rec.len <= MaxPayload
    BY <2>1, Zenon DEF Sound
  <2>7. /\ rec.aux = FALSE => rec.kind \in CanonicalKinds
        /\ (rec.kind = "NET_RX" /\ rec.aux = FALSE) => rec.len <= MaxFrame
        /\ rec.aux = TRUE \/ rec.aux = FALSE
    BY <2>1, Zenon DEF Sound
  <2>8. Validator!MaxPayload = MaxPayload /\ Validator!MaxFrame = MaxFrame
    BY DEF MaxPayload, MaxFrame, Validator!MaxPayload, Validator!MaxFrame
  <2>9. Validator!Intact(got)
    BY <2>3, <2>4, <2>5, <2>6, <2>7, <2>8, Zenon
    DEF CanonicalKinds, Validator!Intact, Validator!Canonical, Validator!IsEnd
  <2> QED BY <2>9 DEF got
<1>7. ASSUME NEW i \in 1..Len(log)
      PROVE  /\ r[i].seq = i - 1
             /\ r[i].icount <= script.end
             /\ \A j \in 1..i : r[j].icount <= r[i].icount
             /\ Validator!IsEnd(r[i]) => i = Len(log) /\ r[i].icount = script.end
  <2>1. \A j \in 1..Len(log) :
          r[j].seq = log[j].seq /\ r[j].icount = log[j].icount /\ r[j].kind = log[j].kind
    <3>1. ASSUME NEW rec
          PROVE  /\ AsRead(rec).seq = rec.seq /\ AsRead(rec).icount = rec.icount
                 /\ AsRead(rec).kind = rec.kind
      BY DEF AsRead
    <3> QED BY <1>3, <3>1
  <2>2. script.end \in Nat
    BY ScriptsAssumption DEF WInv, IsScript
  <2>3. log[i].kind = "END" => i = Len(log) /\ log[i].icount = script.end
    BY <1>4 DEF Ending
  <2>4. /\ log[i].seq = i - 1 /\ log[i].icount <= script.end
        /\ \A j \in 1..i : log[j].icount <= log[i].icount
    BY <1>4, <2>2
  <2>5. Validator!IsEnd(r[i]) => i = Len(log) /\ r[i].icount = script.end
    BY <2>1, <2>3 DEF Validator!IsEnd
  <2>6. \A j \in 1..i : j \in 1..Len(log)
    BY <1>1
  <2>7. \A j \in 1..i : r[j].icount <= r[i].icount
    BY <2>1, <2>4, <2>6
  <2> QED BY <2>1, <2>4, <2>5, <2>7
<1>8. Validator!IsEnd(r[Len(log)])
  <2> DEFINE last == log[Len(log)]
  <2>1. Len(log) \in 1..Len(log)
    BY <1>1
  <2>2. last.kind = "END" => Ending(last, script.end, endHash)
    BY <1>4, <2>1
  <2>3. r[Len(log)] = AsRead(last) /\ last.kind = "END"
    BY <1>1, <1>3, <2>1
  <2> HIDE DEF last
  <2>4. last.aux = TRUE
    BY <2>2, <2>3 DEF Ending
  <2>5. AsRead(last).kind = "END" /\ AsRead(last).aux = TRUE
    BY <2>3, <2>4 DEF AsRead
  <2> QED BY <2>3, <2>5 DEF Validator!IsEnd
<1>9. Validator!HeaderSealed
  BY DEF Validator!HeaderSealed
<1>10. Validator!Ordered(Len(log))
  BY <1>5, <1>7 DEF r, Validator!Ordered
<1>11. r # <<>>
  BY <1>1, <1>2
<1> QED
  BY <1>1, <1>2, <1>6, <1>8, <1>9, <1>10, <1>11
  DEF r, Validator!AcceptedIsWellFormed, Validator!Complete

\* Whatever the script and the epoch length, and however its events, frame
\* marks, skew and boundaries fall on the same icounts, a segment that is
\* sealed is one the structural validator accepts.
THEOREM WriterIsSound == Spec => []SealedIsWellFormed
BY WriterInvariant, SealedReadsWell, PTL

-----------------------------------------------------------------------------
\* Sequences, and induction

\* A sequence, over no set in particular.
IsSeq(s) == Len(s) \in Nat /\ s = [i \in 1..Len(s) |-> s[i]]

\* What is a sequence is one over any set its elements are in.
LEMMA SeqOf ==
  ASSUME NEW s, IsSeq(s), NEW S, \A i \in 1..Len(s) : s[i] \in S
  PROVE  s \in Seq(S)
<1>1. s \in [1..Len(s) -> S]
  BY DEF IsSeq
<1> QED
  BY <1>1, SeqDef DEF IsSeq

\* A member of Seq(S) is a sequence.
LEMMA SeqIs ==
  ASSUME NEW S, NEW s \in Seq(S)
  PROVE  IsSeq(s)
<1>1. Len(s) \in Nat /\ s \in [1..Len(s) -> S]
  BY LenProperties
<1> QED
  BY <1>1 DEF IsSeq

\* Sequences of one length with the same elements are the same.
LEMMA SameSeq ==
  ASSUME NEW s, NEW t, IsSeq(s), IsSeq(t), Len(s) = Len(t), \A i \in 1..Len(s) : s[i] = t[i]
  PROVE  s = t
BY DEF IsSeq

\* What \o makes of two sequences.
LEMMA ConcatIs ==
  ASSUME NEW s, NEW t, IsSeq(s), IsSeq(t)
  PROVE  /\ IsSeq(s \o t) /\ Len(s \o t) = Len(s) + Len(t)
         /\ \A i \in 1..Len(s) : (s \o t)[i] = s[i]
         /\ \A i \in 1..Len(t) : (s \o t)[Len(s) + i] = t[i]
<1> DEFINE S == {s[i] : i \in 1..Len(s)} \cup {t[i] : i \in 1..Len(t)}
<1>1. s \in Seq(S) /\ t \in Seq(S)
  BY SeqOf
<1>2. Len(s) \in Nat /\ Len(t) \in Nat
  BY DEF IsSeq
<1> HIDE DEF S
<1>3. /\ s \o t \in Seq(S) /\ Len(s \o t) = Len(s) + Len(t)
      /\ \A i \in 1..(Len(s) + Len(t)) :
           (s \o t)[i] = IF i <= Len(s) THEN s[i] ELSE t[i - Len(s)]
  BY <1>1, ConcatProperties
<1>4. \A i \in 1..Len(s) : (s \o t)[i] = s[i]
  BY <1>2, <1>3
<1>5. ASSUME NEW i \in 1..Len(t) PROVE (s \o t)[Len(s) + i] = t[i]
  <2>1. Len(s) + i \in 1..(Len(s) + Len(t)) /\ ~(Len(s) + i <= Len(s)) /\ Len(s) + i - Len(s) = i
    BY <1>2
  <2> QED
    BY <2>1, <1>3
<1> QED
  BY <1>3, <1>4, <1>5, SeqIs

\* What Append makes of a sequence.
LEMMA AppendIs ==
  ASSUME NEW s, NEW e, IsSeq(s)
  PROVE  /\ IsSeq(Append(s, e)) /\ Len(Append(s, e)) = Len(s) + 1
         /\ \A i \in 1..Len(s) : Append(s, e)[i] = s[i]
         /\ Append(s, e)[Len(s) + 1] = e
<1> DEFINE S == {s[i] : i \in 1..Len(s)} \cup {e}
<1>1. s \in Seq(S) /\ e \in S
  BY SeqOf
<1>2. Len(s) \in Nat
  BY DEF IsSeq
<1> HIDE DEF S
<1>3. /\ Append(s, e) \in Seq(S) /\ Len(Append(s, e)) = Len(s) + 1
      /\ \A i \in 1..Len(s) : Append(s, e)[i] = s[i]
      /\ Append(s, e)[Len(s) + 1] = e
  BY <1>1, <1>2
<1> QED
  BY <1>3, SeqIs

\* Every non-empty set of naturals has a least element.
LEMMA LeastNatural ==
  ASSUME NEW T, T \subseteq Nat, T # {}
  PROVE  \E x \in T : \A y \in T : x <= y
<1> DEFINE R == {ss \in Nat \X Nat : ss[1] < ss[2]}
<1>1. IsWellFoundedOn(R, Nat)
  BY NatLessThanWellFounded DEF OpToRel
<1>2. \A x, y \in Nat : <<y, x>> \notin R => x <= y
  OBVIOUS
<1> HIDE DEF R
<1>3. \E x \in T : \A y \in T : <<y, x>> \notin R
  BY <1>1, WFMin
<1>4. QED
  BY <1>2, <1>3

\* Induction, for the numbers of a set instead of those with a property.
LEMMA SetInduction ==
  ASSUME NEW T, 0 \in T, \A n \in Nat : n \in T => n + 1 \in T
  PROVE  Nat \subseteq T
<1> DEFINE C == Nat \ T
<1> SUFFICES ASSUME C # {} PROVE FALSE
  OBVIOUS
<1>1. PICK x \in C : \A y \in C : x <= y
  BY LeastNatural
<1>2. x # 0 /\ x - 1 \in Nat /\ x - 1 \notin C
  BY <1>1
<1>3. QED
  BY <1>2, x - 1 + 1 = x

-----------------------------------------------------------------------------
\* The guest

IsGuest(g) ==
  /\ g = [reg |-> g.reg, chain |-> g.chain, icount |-> g.icount, panicked |-> g.panicked]
  /\ IsSeq(g.reg) /\ IsSeq(g.chain) /\ g.icount \in Nat /\ g.panicked = FALSE

\* The boundaries at or before m.
Epoch(m) == m \div EpochIcounts

LEMMA EpochMonotone ==
  \A m, n \in Nat : Epoch(m) \in Nat /\ (m <= n => Epoch(m) <= Epoch(n))
<1>1. EpochIcounts \in Nat /\ EpochIcounts > 0
  BY EpochIcountsAssumption
<1> QED
  BY <1>1, SMT DEF Epoch

\* Fewer boundaries come before an icount short of one than before that one.
LEMMA EpochBefore ==
  ASSUME NEW k \in Nat, NEW m \in Nat, m < k * EpochIcounts
  PROVE  Epoch(m) < Epoch(k * EpochIcounts)
<1>1. EpochIcounts \in Nat /\ EpochIcounts > 0
  BY EpochIcountsAssumption
<1>2. Epoch(k * EpochIcounts) = k
  BY <1>1, SMT DEF Epoch
<1>3. Epoch(m) < k
  BY <1>1, SMT DEF Epoch
<1> QED
  BY <1>2, <1>3

LEMMA NewGuestIs == IsGuest(NewGuest) /\ NewGuest.icount = 0
<1>1. IsSeq(<<>>)
  BY EmptySeq, SeqIs
<1> QED
  BY <1>1 DEF NewGuest, IsGuest

\* What step_to does to a guest that has not passed the target: the register enters
\* the chain once for every boundary.
LEMMA StepIs ==
  ASSUME NEW g, IsGuest(g), NEW t \in Nat, g.icount <= t
  PROVE  LET s == StepTo(g, t)
         IN  /\ IsGuest(s) /\ s.icount = t /\ s.reg = g.reg
             /\ Len(s.chain) = Len(g.chain) + (Epoch(t) - Epoch(g.icount))
             /\ \A i \in 1..Len(g.chain) : s.chain[i] = g.chain[i]
             /\ \A i \in (Len(g.chain) + 1)..Len(s.chain) : s.chain[i] = g.reg
<1> DEFINE n == Epoch(t) - Epoch(g.icount)
           more == [b \in 1..n |-> g.reg]
<1>1. n \in Nat /\ Len(g.chain) \in Nat
  BY EpochMonotone DEF IsGuest, IsSeq
<1>2. IsSeq(more) /\ Len(more) = n /\ \A b \in 1..n : more[b] = g.reg
  <2> HIDE DEF n
  <2> QED
    BY <1>1 DEF IsSeq
<1>3. StepTo(g, t) = [reg |-> g.reg, chain |-> g.chain \o more, icount |-> t,
                      panicked |-> FALSE]
  <2>1. (g.panicked \/ t < g.icount) = FALSE
    BY DEF IsGuest
  <2>2. StepTo(g, t) = [g EXCEPT !.chain = g.chain \o more, !.icount = t,
                                 !.panicked = (g.panicked \/ t < g.icount)]
    BY DEF StepTo, BoundariesPassed, Epoch
  <2>3. StepTo(g, t) = [g EXCEPT !.chain = g.chain \o more, !.icount = t, !.panicked = FALSE]
    BY <2>1, <2>2
  <2>4. g = [reg |-> g.reg, chain |-> g.chain, icount |-> g.icount, panicked |-> g.panicked]
    BY DEF IsGuest
  <2> HIDE DEF more
  <2> QED
    BY <2>3, <2>4
<1> HIDE DEF n, more
<1>4. /\ IsSeq(g.chain \o more) /\ Len(g.chain \o more) = Len(g.chain) + n
      /\ \A i \in 1..Len(g.chain) : (g.chain \o more)[i] = g.chain[i]
      /\ \A i \in 1..n : (g.chain \o more)[Len(g.chain) + i] = more[i]
  BY <1>2, ConcatIs DEF IsGuest
<1>5. \A i \in (Len(g.chain) + 1)..(Len(g.chain) + n) : (g.chain \o more)[i] = g.reg
  <2>1. \A i \in (Len(g.chain) + 1)..(Len(g.chain) + n) :
          i - Len(g.chain) \in 1..n /\ i = Len(g.chain) + (i - Len(g.chain))
    BY <1>1
  <2> QED
    BY <1>2, <1>4, <2>1
<1>6. PICK s : s = StepTo(g, t)
  OBVIOUS
<1>7. /\ s = [reg |-> g.reg, chain |-> g.chain \o more, icount |-> t, panicked |-> FALSE]
      /\ s.reg = g.reg /\ s.chain = g.chain \o more /\ s.icount = t /\ s.panicked = FALSE
  BY <1>3, <1>6
<1>8. IsGuest(s)
  BY <1>4, <1>7 DEF IsGuest
<1> QED
  BY <1>4, <1>5, <1>6, <1>7, <1>8 DEF n

\* What fold_bytes does.
LEMMA FoldIs ==
  ASSUME NEW g, IsGuest(g), NEW b
  PROVE  LET f == FoldBytes(g, b)
         IN  /\ IsGuest(f) /\ f.icount = g.icount /\ f.chain = g.chain
             /\ Len(f.reg) = Len(g.reg) + 1
<1>1. PICK f : f = FoldBytes(g, b)
  OBVIOUS
<1>2. f = [reg |-> Append(g.reg, b), chain |-> g.chain, icount |-> g.icount,
           panicked |-> g.panicked]
  BY <1>1 DEF FoldBytes, IsGuest
<1>3. IsSeq(Append(g.reg, b)) /\ Len(Append(g.reg, b)) = Len(g.reg) + 1
  BY AppendIs DEF IsGuest
<1> QED
  BY <1>1, <1>2, <1>3 DEF IsGuest

\* Guests that agree in all that a hash shows are the same.
LEMMA SameGuest ==
  ASSUME NEW g, NEW h, IsGuest(g), IsGuest(h), g.reg = h.reg, g.icount = h.icount,
         Len(g.chain) = Len(h.chain), \A i \in 1..Len(g.chain) : g.chain[i] = h.chain[i]
  PROVE  g = h
<1>1. g.chain = h.chain
  BY SameSeq DEF IsGuest
<1> QED
  BY <1>1 DEF IsGuest

\* A step to where the guest is changes nothing.
LEMMA StepStays ==
  ASSUME NEW g, IsGuest(g)
  PROVE  StepTo(g, g.icount) = g
<1>1. g.icount \in Nat /\ Epoch(g.icount) \in Nat /\ Len(g.chain) \in Nat
  BY EpochMonotone DEF IsGuest, IsSeq
<1>2. PICK s : s = StepTo(g, g.icount)
  OBVIOUS
<1>3. /\ IsGuest(s) /\ s.icount = g.icount /\ s.reg = g.reg
      /\ Len(s.chain) = Len(g.chain)
      /\ \A i \in 1..Len(g.chain) : s.chain[i] = g.chain[i]
  BY <1>1, <1>2, StepIs
<1> QED
  BY <1>2, <1>3, SameGuest

\* Two steps are as one.
LEMMA StepTwice ==
  ASSUME NEW g, IsGuest(g), NEW t \in Nat, NEW u \in Nat, g.icount <= t, t <= u
  PROVE  StepTo(StepTo(g, t), u) = StepTo(g, u)
<1>1. PICK s : s = StepTo(g, t)
  OBVIOUS
<1>2. PICK v : v = StepTo(s, u)
  OBVIOUS
<1>3. PICK w : w = StepTo(g, u)
  OBVIOUS
<1>4. /\ g.icount \in Nat /\ Len(g.chain) \in Nat /\ g.icount <= u
      /\ Epoch(g.icount) \in Nat /\ Epoch(t) \in Nat /\ Epoch(u) \in Nat
      /\ Epoch(g.icount) <= Epoch(t) /\ Epoch(t) <= Epoch(u)
  BY EpochMonotone DEF IsGuest, IsSeq
<1>5. /\ IsGuest(s) /\ s.icount = t /\ s.reg = g.reg
      /\ Len(s.chain) = Len(g.chain) + (Epoch(t) - Epoch(g.icount))
      /\ \A i \in 1..Len(g.chain) : s.chain[i] = g.chain[i]
      /\ \A i \in (Len(g.chain) + 1)..Len(s.chain) : s.chain[i] = g.reg
  BY <1>1, StepIs
<1>6. /\ IsGuest(v) /\ v.icount = u /\ v.reg = g.reg
      /\ Len(v.chain) = Len(s.chain) + (Epoch(u) - Epoch(t))
      /\ \A i \in 1..Len(s.chain) : v.chain[i] = s.chain[i]
      /\ \A i \in (Len(s.chain) + 1)..Len(v.chain) : v.chain[i] = g.reg
  BY <1>2, <1>5, StepIs
<1>7. /\ IsGuest(w) /\ w.icount = u /\ w.reg = g.reg
      /\ Len(w.chain) = Len(g.chain) + (Epoch(u) - Epoch(g.icount))
      /\ \A i \in 1..Len(g.chain) : w.chain[i] = g.chain[i]
      /\ \A i \in (Len(g.chain) + 1)..Len(w.chain) : w.chain[i] = g.reg
  BY <1>3, <1>4, StepIs
<1>8. Len(v.chain) = Len(w.chain) /\ Len(s.chain) \in Nat /\ Len(v.chain) \in Nat
  BY <1>4, <1>5, <1>6, <1>7 DEF IsGuest, IsSeq
<1>9. ASSUME NEW i \in 1..Len(v.chain) PROVE v.chain[i] = w.chain[i]
  <2>1. CASE i \in 1..Len(g.chain)
    <3>1. i \in 1..Len(s.chain)
      BY <1>4, <1>5, <2>1
    <3> QED
      BY <1>5, <1>6, <1>7, <2>1, <3>1
  <2>2. CASE i \in (Len(g.chain) + 1)..Len(s.chain)
    <3>1. i \in 1..Len(s.chain) /\ i \in (Len(g.chain) + 1)..Len(w.chain)
      BY <1>4, <1>8, <2>2
    <3> QED
      BY <1>5, <1>6, <1>7, <2>2, <3>1
  <2>3. CASE i \in (Len(s.chain) + 1)..Len(v.chain)
    <3>1. i \in (Len(g.chain) + 1)..Len(w.chain)
      <4>1. Len(g.chain) <= Len(s.chain)
        BY <1>4, <1>5
      <4> QED
        BY <1>4, <1>8, <2>3, <4>1
    <3> QED
      BY <1>6, <1>7, <2>3, <3>1
  <2> QED
    BY <1>4, <1>8, <2>1, <2>2, <2>3
<1>10. v = w
  BY <1>6, <1>7, <1>8, <1>9, SameGuest
<1> QED
  BY <1>1, <1>2, <1>3, <1>10

-----------------------------------------------------------------------------
\* Two guests, one of which has folded the defect

\* g has folded one thing more than h, at the icount at, and they agree otherwise:
\* their chains until the next boundary, where the registers enter.
Twin(g, h, at) ==
  /\ IsGuest(g) /\ IsGuest(h) /\ g.icount = h.icount /\ at <= g.icount
  /\ Len(g.reg) = Len(h.reg) + 1
  /\ Len(g.chain) = Len(h.chain)
  /\ Epoch(g.icount) = Epoch(at) => g.chain = h.chain
  /\ Epoch(g.icount) > Epoch(at) =>
       /\ Len(g.chain) > 0
       /\ Len(g.chain[Len(g.chain)]) = Len(h.chain[Len(g.chain)]) + 1
       /\ Len(h.chain[Len(g.chain)]) \in Nat

\* Their hashes differ for good, and their chains after the next boundary.
LEMMA TwinsDiffer ==
  ASSUME NEW g, NEW h, NEW at \in Nat, Twin(g, h, at)
  PROVE  /\ ChainValue(g) # ChainValue(h)
         /\ g.chain # h.chain <=> Epoch(at) < Epoch(g.icount)
<1>1. Len(g.reg) # Len(h.reg)
  BY DEF Twin, IsGuest, IsSeq
<1>2. g.reg # h.reg
  BY <1>1
<1>3. Epoch(at) \in Nat /\ Epoch(g.icount) \in Nat /\ Epoch(at) <= Epoch(g.icount)
  BY EpochMonotone DEF Twin, IsGuest
<1>4. ASSUME Epoch(at) < Epoch(g.icount) PROVE g.chain # h.chain
  <2>1. Len(g.chain[Len(g.chain)]) # Len(h.chain[Len(g.chain)])
    BY <1>3, <1>4 DEF Twin
  <2> QED
    BY <2>1
<1>5. ~(Epoch(at) < Epoch(g.icount)) => g.chain = h.chain
  BY <1>3 DEF Twin
<1> QED
  BY <1>2, <1>4, <1>5 DEF ChainValue

\* A step keeps guests twins.
LEMMA TwinsStep ==
  ASSUME NEW g, NEW h, NEW at \in Nat, Twin(g, h, at), NEW t \in Nat, g.icount <= t
  PROVE  Twin(StepTo(g, t), StepTo(h, t), at)
<1>1. PICK a : a = StepTo(g, t)
  OBVIOUS
<1>2. PICK b : b = StepTo(h, t)
  OBVIOUS
<1>3. PICK m : m = Len(g.chain)
  OBVIOUS
<1>4. PICK n : n = Epoch(t) - Epoch(g.icount)
  OBVIOUS
<1>5. /\ m \in Nat /\ n \in Nat /\ g.icount \in Nat /\ h.icount = g.icount
      /\ Epoch(t) \in Nat /\ Epoch(g.icount) \in Nat /\ Epoch(at) \in Nat
      /\ Epoch(at) <= Epoch(g.icount) /\ Epoch(t) = Epoch(g.icount) + n
      /\ Len(h.chain) = m /\ Len(h.reg) \in Nat /\ IsGuest(g) /\ IsGuest(h)
  BY <1>3, <1>4, EpochMonotone DEF Twin, IsGuest, IsSeq
<1>6. /\ IsGuest(a) /\ a.icount = t /\ a.reg = g.reg /\ Len(a.chain) = m + n
      /\ \A i \in 1..m : a.chain[i] = g.chain[i]
      /\ \A i \in (m + 1)..(m + n) : a.chain[i] = g.reg
  <2>1. /\ IsGuest(a) /\ a.icount = t /\ a.reg = g.reg
        /\ Len(a.chain) = Len(g.chain) + (Epoch(t) - Epoch(g.icount))
        /\ \A i \in 1..Len(g.chain) : a.chain[i] = g.chain[i]
        /\ \A i \in (Len(g.chain) + 1)..Len(a.chain) : a.chain[i] = g.reg
    BY <1>1, <1>5, StepIs
  <2> QED
    BY <1>3, <1>4, <2>1
<1>7. /\ IsGuest(b) /\ b.icount = t /\ b.reg = h.reg /\ Len(b.chain) = m + n
      /\ \A i \in 1..m : b.chain[i] = h.chain[i]
      /\ \A i \in (m + 1)..(m + n) : b.chain[i] = h.reg
  <2>1. /\ IsGuest(b) /\ b.icount = t /\ b.reg = h.reg
        /\ Len(b.chain) = Len(h.chain) + (Epoch(t) - Epoch(h.icount))
        /\ \A i \in 1..Len(h.chain) : b.chain[i] = h.chain[i]
        /\ \A i \in (Len(h.chain) + 1)..Len(b.chain) : b.chain[i] = h.reg
    BY <1>2, <1>5, StepIs
  <2> QED
    BY <1>4, <1>5, <2>1
<1>8. CASE n = 0
  <2>1. a.chain = g.chain /\ b.chain = h.chain
    BY <1>3, <1>5, <1>6, <1>7, <1>8, SameSeq DEF IsGuest
  <2>2. Epoch(t) = Epoch(g.icount) /\ at <= t
    BY <1>5, <1>8 DEF Twin
  <2>3. Twin(a, b, at)
    BY <1>6, <1>7, <2>1, <2>2 DEF Twin
  <2> QED
    BY <1>1, <1>2, <2>3
<1>9. CASE n # 0
  <2>1. m + n \in (m + 1)..(m + n) /\ m + n > 0
    BY <1>5, <1>9
  <2>2. a.chain[m + n] = g.reg /\ b.chain[m + n] = h.reg
    BY <1>6, <1>7, <2>1
  <2>3. Len(a.chain[Len(a.chain)]) = Len(b.chain[Len(a.chain)]) + 1
        /\ Len(b.chain[Len(a.chain)]) \in Nat
    BY <1>5, <1>6, <2>2 DEF Twin
  <2>4. ~(Epoch(t) = Epoch(at)) /\ at <= t /\ Len(a.chain) > 0
    BY <1>5, <1>6, <1>9, <2>1 DEF Twin
  <2>5. Twin(a, b, at)
    BY <1>6, <1>7, <2>3, <2>4 DEF Twin
  <2> QED
    BY <1>1, <1>2, <2>5
<1> QED
  BY <1>8, <1>9

\* So does a fold of the same bytes into both.
LEMMA TwinsFold ==
  ASSUME NEW g, NEW h, NEW at \in Nat, Twin(g, h, at), NEW bytes
  PROVE  Twin(FoldBytes(g, bytes), FoldBytes(h, bytes), at)
<1>1. PICK a : a = FoldBytes(g, bytes)
  OBVIOUS
<1>2. PICK b : b = FoldBytes(h, bytes)
  OBVIOUS
<1>3. IsGuest(a) /\ a.icount = g.icount /\ a.chain = g.chain /\ Len(a.reg) = Len(g.reg) + 1
  BY <1>1, FoldIs DEF Twin
<1>4. IsGuest(b) /\ b.icount = h.icount /\ b.chain = h.chain /\ Len(b.reg) = Len(h.reg) + 1
  BY <1>2, FoldIs DEF Twin
<1>5. Twin(a, b, at)
  BY <1>3, <1>4 DEF Twin, IsGuest, IsSeq
<1> QED
  BY <1>1, <1>2, <1>5

-----------------------------------------------------------------------------
\* A simulation, as a function of the records and the side's fold

\* Due, Folded, After, Left and Finished, of any guest g and fold f.
Reaches(rec, at) == rec.icount > at \/ (rec.icount = at /\ rec.kind # "EPOCH_HASH")
DueOn(f, rec) == ~f.done /\ Reaches(rec, f.at)
FoldedOn(g, f) == FoldBytes(StepTo(g, f.at), f.bytes)
SteppedOn(g, f, rec) == StepTo(IF DueOn(f, rec) THEN FoldedOn(g, f) ELSE g, rec.icount)
AfterOn(g, f, rec) ==
  IF rec.aux THEN SteppedOn(g, f, rec)
  ELSE FoldBytes(SteppedOn(g, f, rec), EventBytes(rec.kind, rec.payload))
FinishedOn(g, f, end) ==
  StepTo(IF ~f.done /\ f.at <= end THEN FoldedOn(g, f) ELSE g, end)

IsFold(f) == f = [at |-> f.at, bytes |-> f.bytes, done |-> f.done] /\ f.at \in Nat
             /\ f.done \in BOOLEAN

\* A fold not yet made is not behind the guest.
InTime(g, f) == IsGuest(g) /\ IsFold(f) /\ (~f.done => g.icount <= f.at)

\* The defect's fold, at an icount the guest has not passed.
LEMMA FoldedIs ==
  ASSUME NEW g, NEW f, IsGuest(g), IsFold(f), g.icount <= f.at
  PROVE  /\ IsGuest(FoldedOn(g, f)) /\ FoldedOn(g, f).icount = f.at
         /\ g.icount = f.at => FoldedOn(g, f).chain = g.chain
         /\ Twin(FoldedOn(g, f), StepTo(g, f.at), f.at)
<1>1. PICK s : s = StepTo(g, f.at)
  OBVIOUS
<1>2. PICK x : x = FoldBytes(s, f.bytes)
  OBVIOUS
<1>3. IsGuest(s) /\ s.icount = f.at /\ f.at \in Nat
  BY <1>1, StepIs DEF IsFold
<1>4. IsGuest(x) /\ x.icount = f.at /\ x.chain = s.chain /\ Len(x.reg) = Len(s.reg) + 1
  BY <1>2, <1>3, FoldIs
<1>5. g.icount = f.at => s = g
  BY <1>1, StepStays
<1>6. Twin(x, s, f.at)
  <2>1. Epoch(x.icount) = Epoch(f.at) /\ Epoch(f.at) \in Nat
    BY <1>3, <1>4, EpochMonotone
  <2> QED
    BY <1>3, <1>4, <2>1 DEF Twin
<1> QED
  BY <1>1, <1>2, <1>4, <1>5, <1>6 DEF FoldedOn

\* The guest after a record it has not passed.
LEMMA AfterIs ==
  ASSUME NEW g, NEW f, InTime(g, f), NEW rec, rec.icount \in Nat, g.icount <= rec.icount
  PROVE  /\ IsGuest(AfterOn(g, f, rec)) /\ AfterOn(g, f, rec).icount = rec.icount
         /\ g.icount = rec.icount => AfterOn(g, f, rec).chain = g.chain
<1>1. PICK m : m = IF DueOn(f, rec) THEN FoldedOn(g, f) ELSE g
  OBVIOUS
<1>2. /\ IsGuest(m) /\ m.icount \in Nat /\ m.icount <= rec.icount
      /\ g.icount = rec.icount => m.chain = g.chain /\ m.icount = rec.icount
  <2>1. CASE DueOn(f, rec)
    <3>1. f.at <= rec.icount /\ g.icount <= f.at /\ f.at \in Nat /\ g.icount \in Nat
      BY <2>1 DEF DueOn, Reaches, InTime, IsFold, IsGuest
    <3>2. /\ IsGuest(m) /\ m.icount = f.at
          /\ g.icount = f.at => m.chain = g.chain
      BY <1>1, <2>1, <3>1, FoldedIs DEF InTime
    <3> QED
      BY <3>1, <3>2
  <2>2. CASE ~DueOn(f, rec)
    BY <1>1, <2>2 DEF InTime, IsGuest
  <2> QED
    BY <2>1, <2>2
<1>3. PICK s : s = StepTo(m, rec.icount)
  OBVIOUS
<1>4. IsGuest(s) /\ s.icount = rec.icount
  BY <1>2, <1>3, StepIs
<1>5. g.icount = rec.icount => s.chain = g.chain
  BY <1>2, <1>3, StepStays
<1>6. PICK x : x = FoldBytes(s, EventBytes(rec.kind, rec.payload))
  OBVIOUS
<1>7. IsGuest(x) /\ x.icount = rec.icount /\ x.chain = s.chain
  BY <1>4, <1>6, FoldIs
<1>8. AfterOn(g, f, rec) = IF rec.aux THEN s ELSE x
  BY <1>1, <1>3, <1>6 DEF AfterOn, SteppedOn
<1> QED
  BY <1>4, <1>5, <1>7, <1>8

\* The guest at the stop.
LEMMA FinishedIs ==
  ASSUME NEW g, NEW f, InTime(g, f), NEW end \in Nat, g.icount <= end
  PROVE  /\ IsGuest(FinishedOn(g, f, end)) /\ FinishedOn(g, f, end).icount = end
         /\ g.icount = end => FinishedOn(g, f, end).chain = g.chain
         /\ g.icount = end /\ f.done => FinishedOn(g, f, end) = g
<1>1. PICK m : m = IF ~f.done /\ f.at <= end THEN FoldedOn(g, f) ELSE g
  OBVIOUS
<1>2. /\ IsGuest(m) /\ m.icount \in Nat /\ m.icount <= end
      /\ g.icount = end => m.chain = g.chain /\ m.icount = end
      /\ f.done => m = g
  <2>1. CASE ~f.done /\ f.at <= end
    <3>1. g.icount <= f.at /\ f.at \in Nat /\ g.icount \in Nat
      BY <2>1 DEF InTime, IsFold, IsGuest
    <3>2. IsGuest(m) /\ m.icount = f.at /\ (g.icount = f.at => m.chain = g.chain)
      BY <1>1, <2>1, <3>1, FoldedIs DEF InTime
    <3> QED
      BY <2>1, <3>1, <3>2
  <2>2. CASE ~(~f.done /\ f.at <= end)
    BY <1>1, <2>2 DEF InTime, IsGuest
  <2> QED
    BY <2>1, <2>2
<1>3. PICK s : s = StepTo(m, end)
  OBVIOUS
<1>4. IsGuest(s) /\ s.icount = end
  BY <1>2, <1>3, StepIs
<1>5. g.icount = end => s = m
  BY <1>2, <1>3, StepStays
<1>6. FinishedOn(g, f, end) = s
  BY <1>1, <1>3 DEF FinishedOn
<1> QED
  BY <1>2, <1>4, <1>5, <1>6

\* The fold after a record.
FoldAfter(f, rec) == [f EXCEPT !.done = @ \/ DueOn(f, rec)]

LEMMA FoldAfterIs ==
  ASSUME NEW f, IsFold(f), NEW rec
  PROVE  /\ IsFold(FoldAfter(f, rec)) /\ FoldAfter(f, rec).at = f.at
         /\ FoldAfter(f, rec).bytes = f.bytes
         /\ FoldAfter(f, rec).done <=> f.done \/ Reaches(rec, f.at)
<1>1. PICK d : d = (f.done \/ DueOn(f, rec))
  OBVIOUS
<1>2. d \in BOOLEAN /\ (d <=> f.done \/ Reaches(rec, f.at))
  BY <1>1 DEF DueOn
<1>3. PICK x : x = FoldAfter(f, rec)
  OBVIOUS
<1>4. x = [f EXCEPT !.done = d]
  BY <1>1, <1>3 DEF FoldAfter
<1>5. f = [at |-> f.at, bytes |-> f.bytes, done |-> f.done] /\ f.at \in Nat
  BY DEF IsFold
<1>6. x = [at |-> f.at, bytes |-> f.bytes, done |-> d]
  BY <1>4, <1>5
<1>7. x.at = f.at /\ x.bytes = f.bytes /\ x.done = d
  BY <1>6
<1>8. IsFold(x)
  BY <1>2, <1>5, <1>6, <1>7 DEF IsFold
<1> QED
  BY <1>2, <1>3, <1>7, <1>8

\* A record leaves the fold in time.
LEMMA InTimeAfter ==
  ASSUME NEW g, NEW f, InTime(g, f), NEW rec, rec.icount \in Nat, g.icount <= rec.icount
  PROVE  InTime(AfterOn(g, f, rec), FoldAfter(f, rec))
<1>1. /\ IsFold(FoldAfter(f, rec)) /\ FoldAfter(f, rec).at = f.at /\ f.at \in Nat
      /\ FoldAfter(f, rec).done <=> f.done \/ Reaches(rec, f.at)
  BY FoldAfterIs DEF InTime, IsFold
<1>2. IsGuest(AfterOn(g, f, rec)) /\ AfterOn(g, f, rec).icount = rec.icount
  BY AfterIs
<1>3. ~Reaches(rec, f.at) => rec.icount <= f.at
  BY <1>1 DEF Reaches
<1> QED
  BY <1>1, <1>2, <1>3 DEF InTime

\* What the fold f has made of the two sides: g with it, h without.
Apart(g, f, h) ==
  /\ ~f.done => g = h
  /\ f.done => Twin(g, h, f.at)

\* The step to a record or a stop at t, with the fold before it if it is due.
LEMMA FoldParts ==
  ASSUME NEW g, IsGuest(g), NEW f, IsFold(f), NEW t \in Nat, g.icount <= f.at, f.at <= t
  PROVE  Twin(StepTo(FoldedOn(g, f), t), StepTo(g, t), f.at)
<1>1. f.at \in Nat
  BY DEF IsFold
<1>2. Twin(FoldedOn(g, f), StepTo(g, f.at), f.at) /\ FoldedOn(g, f).icount = f.at
  BY FoldedIs
<1>3. PICK x : x = FoldedOn(g, f)
  OBVIOUS
<1>4. PICK y : y = StepTo(g, f.at)
  OBVIOUS
<1>5. Twin(StepTo(x, t), StepTo(y, t), f.at)
  BY <1>1, <1>2, <1>3, <1>4, TwinsStep
<1>6. StepTo(y, t) = StepTo(g, t)
  BY <1>1, <1>4, StepTwice
<1> QED
  BY <1>3, <1>5, <1>6

LEMMA ApartAfter ==
  ASSUME NEW g, NEW f, InTime(g, f), NEW h, NEW e, IsGuest(h), e.done, Apart(g, f, h),
         NEW rec, rec.icount \in Nat, g.icount <= rec.icount
  PROVE  Apart(AfterOn(g, f, rec), FoldAfter(f, rec), AfterOn(h, e, rec))
<1>1. /\ FoldAfter(f, rec).at = f.at /\ f.at \in Nat
      /\ FoldAfter(f, rec).done <=> f.done \/ Reaches(rec, f.at)
  BY FoldAfterIs DEF InTime, IsFold
<1>2. SteppedOn(h, e, rec) = StepTo(h, rec.icount)
  BY DEF SteppedOn, DueOn
<1>3. CASE FoldAfter(f, rec).done
  <2>1. Twin(SteppedOn(g, f, rec), StepTo(h, rec.icount), f.at)
    <3>1. CASE f.done
      <4>1. SteppedOn(g, f, rec) = StepTo(g, rec.icount)
        BY <3>1 DEF SteppedOn, DueOn
      <4> QED
        BY <1>1, <3>1, <4>1, TwinsStep DEF Apart
    <3>2. CASE ~f.done
      <4>1. g = h /\ DueOn(f, rec) /\ g.icount <= f.at /\ IsGuest(g) /\ IsFold(f)
        BY <1>1, <1>3, <3>2 DEF Apart, DueOn, InTime
      <4>2. f.at <= rec.icount
        BY <1>1, <4>1 DEF DueOn, Reaches
      <4>3. SteppedOn(g, f, rec) = StepTo(FoldedOn(g, f), rec.icount)
        BY <4>1 DEF SteppedOn
      <4> QED
        BY <4>1, <4>2, <4>3, FoldParts
    <3> QED
      BY <3>1, <3>2
  <2>2. PICK x : x = SteppedOn(g, f, rec)
    OBVIOUS
  <2>3. PICK y : y = StepTo(h, rec.icount)
    OBVIOUS
  <2>4. PICK b : b = EventBytes(rec.kind, rec.payload)
    OBVIOUS
  <2>5. Twin(x, y, f.at) /\ Twin(FoldBytes(x, b), FoldBytes(y, b), f.at)
    BY <1>1, <2>1, <2>2, <2>3, TwinsFold
  <2>6. /\ AfterOn(g, f, rec) = IF rec.aux THEN x ELSE FoldBytes(x, b)
        /\ AfterOn(h, e, rec) = IF rec.aux THEN y ELSE FoldBytes(y, b)
    BY <1>2, <2>2, <2>3, <2>4 DEF AfterOn
  <2>7. Twin(AfterOn(g, f, rec), AfterOn(h, e, rec), f.at)
    BY <2>5, <2>6
  <2> QED
    BY <1>1, <1>3, <2>7 DEF Apart
<1>4. CASE ~FoldAfter(f, rec).done
  <2>1. ~f.done /\ ~DueOn(f, rec) /\ g = h
    BY <1>1, <1>4 DEF DueOn, Apart
  <2>2. SteppedOn(g, f, rec) = StepTo(h, rec.icount)
    BY <2>1 DEF SteppedOn
  <2> QED
    BY <1>2, <1>4, <2>2 DEF Apart, AfterOn
<1> QED
  BY <1>3, <1>4

\* At the stop the sides are apart if and only if the fold is at or before it.
LEMMA ApartFinished ==
  ASSUME NEW g, NEW f, InTime(g, f), NEW h, NEW e, IsGuest(h), e.done, Apart(g, f, h),
         NEW end \in Nat, g.icount <= end, f.done => f.at <= end
  PROVE  IF f.at <= end THEN Twin(FinishedOn(g, f, end), FinishedOn(h, e, end), f.at)
         ELSE FinishedOn(g, f, end) = FinishedOn(h, e, end)
<1>1. FinishedOn(h, e, end) = StepTo(h, end)
  BY DEF FinishedOn
<1>2. f.at \in Nat /\ IsGuest(g) /\ IsFold(f)
  BY DEF InTime, IsFold
<1>3. CASE f.done
  <2>1. FinishedOn(g, f, end) = StepTo(g, end)
    BY <1>3 DEF FinishedOn
  <2> QED
    BY <1>1, <1>2, <1>3, <2>1, TwinsStep DEF Apart
<1>4. CASE ~f.done /\ f.at <= end
  <2>1. FinishedOn(g, f, end) = StepTo(FoldedOn(g, f), end)
    BY <1>4 DEF FinishedOn
  <2> QED
    BY <1>1, <1>2, <1>4, <2>1, FoldParts DEF Apart, InTime
<1>5. CASE ~f.done /\ ~(f.at <= end)
  BY <1>1, <1>5 DEF Apart, FinishedOn
<1> QED
  BY <1>3, <1>4, <1>5

-----------------------------------------------------------------------------
\* The simulation of the records up to each

\* r[i] is the simulated guest, and the fold, after the first i records.
IsRun(r, f, recs) ==
  /\ r = [i \in 0..Len(recs) |-> r[i]]
  /\ r[0] = [sim |-> NewGuest, fold |-> f]
  /\ \A i \in 1..Len(recs) :
       r[i] = [sim |-> AfterOn(r[i - 1].sim, r[i - 1].fold, recs[i]),
               fold |-> FoldAfter(r[i - 1].fold, recs[i])]

\* There is one, up to any record.
RunTo(r, f, recs, n) ==
  /\ r = [i \in 0..n |-> r[i]]
  /\ r[0] = [sim |-> NewGuest, fold |-> f]
  /\ \A i \in 1..n :
       r[i] = [sim |-> AfterOn(r[i - 1].sim, r[i - 1].fold, recs[i]),
               fold |-> FoldAfter(r[i - 1].fold, recs[i])]

LEMMA RunExists ==
  ASSUME NEW f, NEW recs, Len(recs) \in Nat
  PROVE  \E r : IsRun(r, f, recs)
<1> DEFINE T == {k \in Nat : \E r : RunTo(r, f, recs, k)}
<1>1. 0 \in T
  <2>1. PICK z : z = [sim |-> NewGuest, fold |-> f]
    OBVIOUS
  <2>2. PICK r : r = [i \in 0..0 |-> z]
    OBVIOUS
  <2>3. r[0] = z /\ r = [i \in 0..0 |-> r[i]]
    BY <2>2
  <2>4. RunTo(r, f, recs, 0)
    BY <2>1, <2>3 DEF RunTo
  <2> QED
    BY <2>4
<1>2. ASSUME NEW k \in Nat, k \in T PROVE k + 1 \in T
  <2>1. PICK r : RunTo(r, f, recs, k)
    BY <1>2
  <2>2. PICK z : z = [sim |-> AfterOn(r[k].sim, r[k].fold, recs[k + 1]),
                      fold |-> FoldAfter(r[k].fold, recs[k + 1])]
    OBVIOUS
  <2>3. PICK s : s = [i \in 0..(k + 1) |-> IF i = k + 1 THEN z ELSE r[i]]
    OBVIOUS
  <2>4. s[k + 1] = z /\ \A i \in 0..k : s[i] = r[i]
    BY <2>3
  <2>5. ASSUME NEW i \in 1..(k + 1)
        PROVE  s[i] = [sim |-> AfterOn(s[i - 1].sim, s[i - 1].fold, recs[i]),
                       fold |-> FoldAfter(s[i - 1].fold, recs[i])]
    <3>1. CASE i = k + 1
      <4>1. s[i - 1] = r[k] /\ s[i] = z /\ recs[i] = recs[k + 1]
        BY <2>4, <3>1
      <4> QED
        BY <2>2, <4>1
    <3>2. CASE i \in 1..k
      <4>1. s[i] = r[i] /\ s[i - 1] = r[i - 1]
        BY <2>4, <3>2
      <4> QED
        BY <2>1, <3>2, <4>1 DEF RunTo
    <3> QED
      BY <3>1, <3>2
  <2>6. s[0] = [sim |-> NewGuest, fold |-> f]
    BY <2>1, <2>4 DEF RunTo
  <2>7. s = [i \in 0..(k + 1) |-> s[i]]
    BY <2>3
  <2>8. RunTo(s, f, recs, k + 1)
    BY <2>5, <2>6, <2>7 DEF RunTo
  <2> QED
    BY <2>8
<1> QED
  <2> HIDE DEF T
  <2>1. Nat \subseteq T
    BY <1>1, <1>2, SetInduction
  <2>2. Len(recs) \in T
    BY <2>1
  <2> QED
    BY <2>2 DEF T, RunTo, IsRun

\* From one record to the next.
LEMMA RunStep ==
  ASSUME NEW f, NEW recs, NEW r, IsRun(r, f, recs), NEW k \in Nat, k + 1 \in 1..Len(recs)
  PROVE  r[k + 1] = [sim |-> AfterOn(r[k].sim, r[k].fold, recs[k + 1]),
                     fold |-> FoldAfter(r[k].fold, recs[k + 1])]
<1>1. PICK i \in 1..Len(recs) : i = k + 1
  OBVIOUS
<1>2. r[i] = [sim |-> AfterOn(r[i - 1].sim, r[i - 1].fold, recs[i]),
              fold |-> FoldAfter(r[i - 1].fold, recs[i])]
  BY DEF IsRun
<1>3. i - 1 = k
  BY <1>1
<1>4. r[i] = [sim |-> AfterOn(r[k].sim, r[k].fold, recs[i]),
              fold |-> FoldAfter(r[k].fold, recs[i])]
  BY <1>2, <1>3
<1> QED
  BY <1>1, <1>4

\* Runs of the same fold over the same first n records agree on them.
SameUpTo(recs, more, n) ==
  /\ n \in Nat /\ Len(recs) \in Nat /\ Len(more) \in Nat
  /\ n <= Len(recs) /\ n <= Len(more)
  /\ \A i \in 1..n : recs[i] = more[i]

LEMMA RunsAgree ==
  ASSUME NEW f, NEW recs, NEW more, NEW n, SameUpTo(recs, more, n),
         NEW r, IsRun(r, f, recs), NEW s, IsRun(s, f, more)
  PROVE  \A i \in 0..n : r[i] = s[i]
<1>0. /\ n \in Nat /\ Len(recs) \in Nat /\ Len(more) \in Nat
      /\ n <= Len(recs) /\ n <= Len(more)
      /\ \A i \in 1..n : recs[i] = more[i]
  BY DEF SameUpTo
<1> DEFINE T == {k \in Nat : k <= n => r[k] = s[k]}
<1>1. 0 \in T
  BY DEF IsRun
<1>2. ASSUME NEW k \in Nat, k \in T PROVE k + 1 \in T
  <2> SUFFICES ASSUME k + 1 <= n PROVE r[k + 1] = s[k + 1]
    OBVIOUS
  <2>1. k + 1 \in 1..n /\ k + 1 \in 1..Len(recs) /\ k + 1 \in 1..Len(more) /\ k + 1 - 1 = k
    BY <1>0
  <2>2. r[k] = s[k] /\ recs[k + 1] = more[k + 1]
    BY <1>0, <1>2, <2>1
  <2>3. r[k + 1] = [sim |-> AfterOn(r[k].sim, r[k].fold, recs[k + 1]),
                    fold |-> FoldAfter(r[k].fold, recs[k + 1])]
    BY <2>1, RunStep
  <2>4. s[k + 1] = [sim |-> AfterOn(s[k].sim, s[k].fold, more[k + 1]),
                    fold |-> FoldAfter(s[k].fold, more[k + 1])]
    BY <2>1, RunStep
  <2> QED
    BY <2>2, <2>3, <2>4
<1> QED
  <2> HIDE DEF T
  <2>1. Nat \subseteq T
    BY <1>1, <1>2, SetInduction
  <2> QED
    BY <1>0, <2>1 DEF T

\* Records in the order they may be written in.
InOrder(recs) ==
  /\ Len(recs) \in Nat
  /\ \A i \in 1..Len(recs) :
       recs[i].icount \in Nat /\ \A j \in 1..i : recs[j].icount <= recs[i].icount

\* Where the guest is after i records.
At(recs, i) == IF i = 0 THEN 0 ELSE recs[i].icount

LEMMA AtMonotone ==
  ASSUME NEW recs, InOrder(recs)
  PROVE  \A i, j \in 0..Len(recs) : At(recs, i) \in Nat /\ (i <= j => At(recs, i) <= At(recs, j))
BY DEF InOrder, At

\* The guest is at the last record, and the fold is made if some record reached it.
RunShape(r, f, recs, i) ==
  /\ InTime(r[i].sim, r[i].fold) /\ r[i].sim.icount = At(recs, i)
  /\ r[i].fold.at = f.at /\ r[i].fold.bytes = f.bytes
  /\ r[i].fold.done <=> f.done \/ \E j \in 1..i : Reaches(recs[j], f.at)

LEMMA RunIs ==
  ASSUME NEW f, IsFold(f), NEW recs, InOrder(recs), NEW r, IsRun(r, f, recs)
  PROVE  \A i \in 0..Len(recs) : RunShape(r, f, recs, i)
<1> DEFINE T == {k \in Nat : k <= Len(recs) => RunShape(r, f, recs, k)}
<1>0. Len(recs) \in Nat
  BY DEF InOrder
<1>1. 0 \in T
  <2>1. r[0].sim = NewGuest /\ r[0].fold = f
    BY DEF IsRun
  <2>2. InTime(NewGuest, f)
    BY NewGuestIs DEF InTime, IsFold
  <2> QED
    BY <2>1, <2>2, NewGuestIs DEF RunShape, At
<1>2. ASSUME NEW k \in Nat, k \in T PROVE k + 1 \in T
  <2> SUFFICES ASSUME k + 1 <= Len(recs) PROVE RunShape(r, f, recs, k + 1)
    OBVIOUS
  <2>1. k + 1 \in 1..Len(recs) /\ k \in 0..Len(recs) /\ k + 1 \in 0..Len(recs) /\ k + 1 - 1 = k
    BY <1>0
  <2>2. RunShape(r, f, recs, k)
    BY <1>2, <2>1
  <2>3. PICK g : g = r[k].sim
    OBVIOUS
  <2>4. PICK e : e = r[k].fold
    OBVIOUS
  <2>5. PICK rec : rec = recs[k + 1]
    OBVIOUS
  <2>6. r[k + 1].sim = AfterOn(g, e, rec) /\ r[k + 1].fold = FoldAfter(e, rec)
    <3>1. r[k + 1] = [sim |-> AfterOn(r[k].sim, r[k].fold, recs[k + 1]),
                      fold |-> FoldAfter(r[k].fold, recs[k + 1])]
      BY <2>1, RunStep
    <3> QED
      BY <2>3, <2>4, <2>5, <3>1
  <2>7. /\ InTime(g, e) /\ IsFold(e) /\ rec.icount \in Nat /\ g.icount <= rec.icount
        /\ At(recs, k + 1) = rec.icount
    <3>1. At(recs, k + 1) = rec.icount
      BY <2>5 DEF At
    <3>2. At(recs, k) <= At(recs, k + 1) /\ At(recs, k + 1) \in Nat
      BY <2>1, AtMonotone
    <3> QED
      BY <2>2, <2>3, <2>4, <3>1, <3>2 DEF RunShape, InTime
  <2>8. InTime(r[k + 1].sim, r[k + 1].fold) /\ r[k + 1].sim.icount = At(recs, k + 1)
    BY <2>6, <2>7, InTimeAfter, AfterIs
  <2>9. /\ r[k + 1].fold.at = f.at /\ r[k + 1].fold.bytes = f.bytes
        /\ r[k + 1].fold.done <=> e.done \/ Reaches(rec, f.at)
    BY <2>2, <2>4, <2>6, <2>7, FoldAfterIs DEF RunShape
  <2>10. (\E j \in 1..(k + 1) : Reaches(recs[j], f.at))
           <=> (\E j \in 1..k : Reaches(recs[j], f.at)) \/ Reaches(rec, f.at)
    <3>1. \A j \in 1..(k + 1) : j \in 1..k \/ j = k + 1
      OBVIOUS
    <3>2. k + 1 \in 1..(k + 1) /\ \A j \in 1..k : j \in 1..(k + 1)
      OBVIOUS
    <3> QED
      BY <2>5, <3>1, <3>2
  <2> QED
    BY <2>2, <2>4, <2>8, <2>9, <2>10 DEF RunShape
<1> QED
  <2> HIDE DEF T
  <2>1. Nat \subseteq T
    BY <1>1, <1>2, SetInduction
  <2> QED
    BY <1>0, <2>1 DEF T

\* The chain stays while the records are of one icount.
LEMMA RunChainStays ==
  ASSUME NEW f, IsFold(f), NEW recs, InOrder(recs), NEW r, IsRun(r, f, recs),
         NEW j \in 1..Len(recs)
  PROVE  \A i \in j..Len(recs) :
           recs[i].icount = recs[j].icount => r[i].sim.chain = r[j].sim.chain
<1> DEFINE T == {k \in Nat : k \in j..Len(recs) /\ recs[k].icount = recs[j].icount
                               => r[k].sim.chain = r[j].sim.chain}
<1>0. Len(recs) \in Nat /\ \A i \in 0..Len(recs) : RunShape(r, f, recs, i)
  BY RunIs DEF InOrder
<1>1. 0 \in T
  BY <1>0
<1>2. ASSUME NEW k \in Nat, k \in T PROVE k + 1 \in T
  <2> SUFFICES ASSUME k + 1 \in j..Len(recs), recs[k + 1].icount = recs[j].icount
               PROVE  r[k + 1].sim.chain = r[j].sim.chain
    OBVIOUS
  <2>1. CASE k + 1 = j
    BY <2>1
  <2>2. CASE k + 1 # j
    <3>1. k \in j..Len(recs) /\ k \in 0..Len(recs) /\ k \in 1..Len(recs) /\ k + 1 \in 1..Len(recs)
          /\ k <= k + 1 /\ j \in 1..k /\ k \in 1..(k + 1)
      BY <1>0, <2>2
    <3>2. /\ recs[k].icount \in Nat /\ recs[k + 1].icount \in Nat /\ recs[j].icount \in Nat
          /\ recs[j].icount <= recs[k].icount /\ recs[k].icount <= recs[k + 1].icount
      BY <3>1 DEF InOrder
    <3>3. recs[k].icount = recs[j].icount
      BY <3>2
    <3>4. PICK g : g = r[k].sim
      OBVIOUS
    <3>5. PICK e : e = r[k].fold
      OBVIOUS
    <3>6. InTime(g, e) /\ g.icount = recs[k].icount
      BY <1>0, <3>1, <3>4, <3>5 DEF RunShape, At
    <3>7. r[k + 1].sim = AfterOn(g, e, recs[k + 1])
      <4>1. r[k + 1] = [sim |-> AfterOn(r[k].sim, r[k].fold, recs[k + 1]),
                        fold |-> FoldAfter(r[k].fold, recs[k + 1])]
        BY <3>1, RunStep
      <4> QED
        BY <3>4, <3>5, <4>1
    <3>8. r[k + 1].sim.chain = g.chain
      BY <3>2, <3>3, <3>6, <3>7, AfterIs
    <3>9. r[k].sim.chain = r[j].sim.chain
      BY <1>2, <3>1, <3>3
    <3> QED
      BY <3>4, <3>8, <3>9
  <2> QED
    BY <2>1, <2>2
<1> QED
  <2> HIDE DEF T
  <2>1. Nat \subseteq T
    BY <1>1, <1>2, SetInduction
  <2>2. \A i \in j..Len(recs) : i \in T
    BY <1>0, <2>1
  <2> QED
    BY <2>2 DEF T

\* Two sides over the same records, one with the fold and one that never has one.
LEMMA RunsApart ==
  ASSUME NEW recs, InOrder(recs), NEW f, IsFold(f), ~f.done, NEW r, IsRun(r, f, recs),
         NEW e, IsFold(e), e.done, NEW s, IsRun(s, e, recs)
  PROVE  \A i \in 0..Len(recs) : Apart(r[i].sim, r[i].fold, s[i].sim)
<1> DEFINE T == {k \in Nat : k <= Len(recs) => Apart(r[k].sim, r[k].fold, s[k].sim)}
<1>0. /\ Len(recs) \in Nat
      /\ \A i \in 0..Len(recs) : RunShape(r, f, recs, i) /\ RunShape(s, e, recs, i)
  BY RunIs DEF InOrder
<1>1. 0 \in T
  <2>1. r[0].sim = NewGuest /\ s[0].sim = NewGuest /\ ~r[0].fold.done
    BY DEF IsRun
  <2> QED
    BY <2>1 DEF Apart
<1>2. ASSUME NEW k \in Nat, k \in T PROVE k + 1 \in T
  <2> SUFFICES ASSUME k + 1 <= Len(recs) PROVE Apart(r[k + 1].sim, r[k + 1].fold, s[k + 1].sim)
    OBVIOUS
  <2>1. k + 1 \in 1..Len(recs) /\ k \in 0..Len(recs) /\ k + 1 \in 0..Len(recs) /\ k <= k + 1
    BY <1>0
  <2>2. PICK g : g = r[k].sim
    OBVIOUS
  <2>3. PICK c : c = r[k].fold
    OBVIOUS
  <2>4. PICK h : h = s[k].sim
    OBVIOUS
  <2>5. PICK d : d = s[k].fold
    OBVIOUS
  <2>6. PICK rec : rec = recs[k + 1]
    OBVIOUS
  <2>7. /\ InTime(g, c) /\ IsGuest(h) /\ d.done /\ g.icount = At(recs, k)
    <3>1. RunShape(r, f, recs, k) /\ RunShape(s, e, recs, k)
      BY <1>0, <2>1
    <3> QED
      BY <2>2, <2>3, <2>4, <2>5, <3>1 DEF RunShape, InTime
  <2>8. At(recs, k) <= At(recs, k + 1) /\ At(recs, k + 1) = rec.icount /\ rec.icount \in Nat
    <3>1. At(recs, k + 1) = rec.icount
      BY <2>6 DEF At
    <3> QED
      BY <2>1, <3>1, AtMonotone
  <2>9. Apart(g, c, h)
    BY <1>2, <2>1, <2>2, <2>3, <2>4
  <2>10. Apart(AfterOn(g, c, rec), FoldAfter(c, rec), AfterOn(h, d, rec))
    BY <2>7, <2>8, <2>9, ApartAfter
  <2>11. r[k + 1] = [sim |-> AfterOn(r[k].sim, r[k].fold, recs[k + 1]),
                     fold |-> FoldAfter(r[k].fold, recs[k + 1])]
    BY <2>1, RunStep
  <2>12. s[k + 1] = [sim |-> AfterOn(s[k].sim, s[k].fold, recs[k + 1]),
                     fold |-> FoldAfter(s[k].fold, recs[k + 1])]
    BY <2>1, RunStep
  <2>13. /\ r[k + 1].sim = AfterOn(g, c, rec) /\ r[k + 1].fold = FoldAfter(c, rec)
         /\ s[k + 1].sim = AfterOn(h, d, rec)
    BY <2>2, <2>3, <2>4, <2>5, <2>6, <2>11, <2>12
  <2> QED
    BY <2>10, <2>13
<1> QED
  <2> HIDE DEF T
  <2>1. Nat \subseteq T
    BY <1>1, <1>2, SetInduction
  <2> QED
    BY <1>0, <2>1 DEF T

-----------------------------------------------------------------------------
\* What the recording leaves in the log

LEMMA FoldForIs ==
  ASSUME defect \in Defects, NEW side \in {"recorded", "replayed"}
  PROVE  /\ IsFold(FoldFor(side))
         /\ ~FoldFor(side).done => /\ FoldFor(side).at = defect.at
                                   /\ FoldFor(side).bytes = defect.kind
         /\ ~FoldFor(side).done <=> \/ defect.kind = "Skew" /\ side = "recorded"
                                    \/ defect.kind = "Flake" /\ side = "replayed"
<1>1. IsDefect(defect)
  BY DefectsAssumption
<1>2. CASE \/ defect.kind = "Skew" /\ side = "recorded"
           \/ defect.kind = "Flake" /\ side = "replayed"
  BY <1>1, <1>2 DEF FoldFor, IsFold, IsDefect
<1>3. CASE ~(\/ defect.kind = "Skew" /\ side = "recorded"
             \/ defect.kind = "Flake" /\ side = "replayed")
  BY <1>3 DEF FoldFor, NoFold, IsFold
<1> QED
  BY <1>2, <1>3

\* The skew is still to be folded.
SkewPending == \E em \in pending : em.class = "SKEW"

\* The recording guest is where the oracle's run r of the records so far is, with
\* the skew folded already if it was emitted after the last of them; what is left
\* then comes after the skew.
Recorder(r) ==
  LET g == r[Len(log)].sim
      f == r[Len(log)].fold
  IN  \/ ~f.done /\ SkewPending /\ guest = g
      \/ /\ ~f.done /\ ~SkewPending /\ guest = FoldedOn(g, f)
         /\ \A em \in pending :
              em.icount > defect.at \/ (em.icount = defect.at /\ em.class # "EPOCH_HASH")
      \/ f.done /\ ~SkewPending /\ guest = g

\* The hashes in the records are those of the oracle's run.
Recorded(r) ==
  /\ IsRun(r, FoldFor("recorded"), log)
  /\ Recorder(r)
  /\ \A i \in 1..Len(log) :
       log[i].kind = "EPOCH_HASH" =>
         /\ log[i].payload = r[i].sim.chain
         /\ \E k \in Nat : log[i].icount = k * EpochIcounts
  /\ pending = {} => r[Len(log)].fold.done /\ endHash = ChainValue(r[Len(log)].sim)

RecInv ==
  /\ WInv /\ defect \in Defects /\ SameDefect
  /\ \E r : Recorded(r)

\* The records are in order, all within the segment.
LEMMA LogInOrder ==
  ASSUME WInv
  PROVE  /\ InOrder(log) /\ script.end \in Nat /\ IsSeq(log)
         /\ \A i \in 1..Len(log) : log[i].icount \in 0..script.end
<1>1. script.end \in Nat
  BY ScriptsAssumption DEF WInv, IsScript
<1>2. IsSeq(log)
  <2>1. log \in Seq({log[i] : i \in DOMAIN log})
    BY DEF WInv, Written
  <2> QED
    BY <2>1, SeqIs
<1>3. \A i \in 1..Len(log) :
        log[i].icount \in 0..script.end /\ \A j \in 1..i : log[j].icount <= log[i].icount
  BY DEF WInv, Written
<1> QED
  BY <1>1, <1>2, <1>3 DEF InOrder, IsSeq

\* A skew emission is the defect's.
LEMMA SkewIsDefect ==
  ASSUME RecInv, NEW em \in pending, em.class = "SKEW"
  PROVE  defect.kind = "Skew" /\ em = Emission("SKEW", defect.at, 0) /\ em.icount = defect.at
<1>1. em \in Emissions(script)
  BY DEF RecInv, WInv, Ahead
<1>2. PICK m \in script.skew : em = Emission("SKEW", m, 0)
  BY <1>1 DEF Emissions, EpochEmissions, Emission
<1>3. defect.kind = "Skew" /\ m = defect.at
  BY <1>2 DEF RecInv, SameDefect
<1> QED
  BY <1>2, <1>3 DEF Emission

\* A record is written of every emission but the skew: the guest is where the
\* oracle will be.
LEMMA RecordRecorded ==
  ASSUME RecInv, WInv', NEW em \in pending, TakeNext(em.class, em), em.class # "SKEW",
         UNCHANGED <<script, header, defect>>,
         NEW rec, log' = Append(log, rec), rec.icount = em.icount, rec.icount \in Nat,
         rec.kind = "EPOCH_HASH" <=> em.class = "EPOCH_HASH",
         guest' = IF rec.aux THEN StepTo(guest, em.icount)
                  ELSE FoldBytes(StepTo(guest, em.icount), EventBytes(rec.kind, rec.payload)),
         rec.kind = "EPOCH_HASH" => rec.payload = guest'.chain,
         em.class = "END" => endHash' = ChainValue(guest')
  PROVE  RecInv'
<1>1. PICK n : n = Len(log)
  OBVIOUS
<1>2. /\ n \in Nat /\ Len(log') = n + 1 /\ log'[n + 1] = rec
      /\ \A i \in 1..n : log'[i] = log[i]
  BY <1>1, LogInOrder, AppendIs DEF RecInv, IsSeq
<1>3. PICK c : c = FoldFor("recorded")
  OBVIOUS
<1>4. /\ IsFold(c) /\ FoldFor("recorded")' = c
      /\ ~c.done => c.at = defect.at
  BY <1>3, FoldForIs DEF RecInv, FoldFor
<1>5. PICK r : Recorded(r)
  BY DEF RecInv
<1>6. PICK l : l = log'
  OBVIOUS
<1>7. Len(l) = n + 1 /\ Len(l) \in Nat /\ l[n + 1] = rec /\ \A i \in 1..n : l[i] = log[i]
  BY <1>2, <1>6
<1>8. PICK s : IsRun(s, c, l)
  BY <1>7, RunExists
<1>9. IsRun(r, c, log) /\ InOrder(log)
  BY <1>3, <1>5, LogInOrder DEF RecInv, Recorded
<1>10. \A i \in 0..n : s[i] = r[i]
  <2>1. SameUpTo(log, l, n)
    BY <1>1, <1>2, <1>7 DEF SameUpTo
  <2>2. \A i \in 0..n : r[i] = s[i]
    BY <1>8, <1>9, <2>1, RunsAgree
  <2> QED
    BY <2>2
<1>11. PICK g : g = r[n].sim
  OBVIOUS
<1>12. PICK f : f = r[n].fold
  OBVIOUS
<1>13. /\ InTime(g, f) /\ f.at = c.at /\ IsFold(f)
       /\ f.done <=> c.done \/ \E j \in 1..n : Reaches(log[j], c.at)
  <2>1. RunShape(r, c, log, n)
    BY <1>1, <1>2, <1>4, <1>9, RunIs
  <2> QED
    BY <1>11, <1>12, <2>1 DEF RunShape, InTime
<1>14. s[n + 1].sim = AfterOn(g, f, rec) /\ s[n + 1].fold = FoldAfter(f, rec)
  <2>1. n + 1 \in 1..Len(l)
    BY <1>2, <1>7
  <2>2. s[n + 1] = [sim |-> AfterOn(s[n].sim, s[n].fold, l[n + 1]),
                    fold |-> FoldAfter(s[n].fold, l[n + 1])]
    BY <1>2, <1>8, <2>1, RunStep
  <2>3. s[n] = r[n]
    BY <1>2, <1>10
  <2> QED
    BY <1>11, <1>12, <1>7, <2>2, <2>3
<1>15. s[n + 1].fold.done <=> f.done \/ Reaches(rec, c.at)
  BY <1>13, <1>14, FoldAfterIs
<1>16. AfterOn(g, f, rec) =
         LET m == StepTo(IF DueOn(f, rec) THEN FoldedOn(g, f) ELSE g, em.icount)
         IN  IF rec.aux THEN m ELSE FoldBytes(m, EventBytes(rec.kind, rec.payload))
  BY DEF AfterOn, SteppedOn
<1>17. Recorder(r)
  BY <1>5 DEF Recorded
<1>18. /\ s[n + 1].sim = guest'
       /\ \/ ~s[n + 1].fold.done /\ SkewPending'
          \/ s[n + 1].fold.done /\ ~SkewPending'
  <2>1. CASE ~f.done /\ SkewPending /\ guest = g
    <3>1. PICK k \in pending : k.class = "SKEW"
      BY <2>1 DEF SkewPending
    <3>2. k.icount = defect.at /\ c.at = defect.at /\ k \in pending' /\ Before(em, k)
      BY <1>4, <1>13, <2>1, <3>1, SkewIsDefect DEF TakeNext
    <3>3. defect.at \in Nat
      BY DefectsAssumption DEF RecInv, IsDefect
    <3>4. em.class \in {"EPOCH_HASH", "CANONICAL", "FRAME_MARK", "END"}
      BY EmissionShape DEF RecInv, WInv, Ahead
    <3>5. ~Reaches(rec, c.at)
      BY <3>1, <3>2, <3>3, <3>4 DEF Before, Rank, Reaches
    <3>6. ~DueOn(f, rec)
      BY <1>13, <3>5 DEF DueOn
    <3>7. SkewPending' /\ ~s[n + 1].fold.done
      BY <1>15, <2>1, <3>1, <3>2, <3>5 DEF SkewPending
    <3> QED
      BY <1>14, <1>16, <2>1, <3>6, <3>7
  <2>2. CASE /\ ~f.done /\ ~SkewPending /\ guest = FoldedOn(g, f)
             /\ \A e \in pending :
                  e.icount > defect.at \/ (e.icount = defect.at /\ e.class # "EPOCH_HASH")
    <3>1. c.at = defect.at
      BY <1>4, <1>13, <2>2
    <3>2. Reaches(rec, c.at)
      BY <2>2, <3>1 DEF Reaches
    <3>3. DueOn(f, rec)
      BY <1>13, <2>2, <3>2 DEF DueOn
    <3>4. s[n + 1].fold.done /\ ~SkewPending'
      BY <1>15, <2>2, <3>2 DEF SkewPending, TakeNext
    <3> QED
      BY <1>14, <1>16, <2>2, <3>3, <3>4
  <2>3. CASE f.done /\ ~SkewPending /\ guest = g
    <3>1. ~DueOn(f, rec)
      BY <2>3 DEF DueOn
    <3>2. s[n + 1].fold.done /\ ~SkewPending'
      BY <1>15, <2>3 DEF SkewPending, TakeNext
    <3> QED
      BY <1>14, <1>16, <2>3, <3>1, <3>2
  <2> QED
    BY <1>1, <1>11, <1>12, <1>17, <2>1, <2>2, <2>3 DEF Recorder
<1>19. Recorder(s)'
  BY <1>2, <1>18 DEF Recorder
<1>20. ASSUME NEW i \in 1..Len(log'), log'[i].kind = "EPOCH_HASH"
       PROVE  /\ log'[i].payload = s[i].sim.chain
              /\ \E k \in Nat : log'[i].icount = k * EpochIcounts
  <2>1. CASE i \in 1..n
    <3>1. log'[i] = log[i] /\ s[i] = r[i] /\ i \in 1..Len(log)
      BY <1>1, <1>2, <1>10, <2>1
    <3> QED
      BY <1>5, <1>20, <3>1 DEF Recorded
  <2>2. CASE i = n + 1
    <3>1. em.class = "EPOCH_HASH" /\ rec.payload = guest'.chain
      BY <1>2, <1>20, <2>2
    <3>2. em \in EpochEmissions(script)
      <4>1. em \in Emissions(script)
        BY DEF RecInv, WInv, Ahead
      <4> QED
        BY <3>1, <4>1 DEF Emissions, Emission
    <3>3. \E k \in Nat : em.icount = k * EpochIcounts
      <4>1. PICK k \in 1..(script.end \div EpochIcounts) :
              em = Emission("EPOCH_HASH", k * EpochIcounts, 0)
        BY <3>2 DEF EpochEmissions
      <4>2. em.icount = k * EpochIcounts /\ k \in Nat
        BY <4>1 DEF Emission
      <4> QED
        BY <4>2
    <3> QED
      BY <1>2, <1>18, <2>2, <3>1, <3>3
  <2> QED
    BY <1>2, <2>1, <2>2
<1>21. pending' = {} => s[n + 1].fold.done /\ endHash' = ChainValue(s[n + 1].sim)
  <2> SUFFICES ASSUME pending' = {}
               PROVE  s[n + 1].fold.done /\ endHash' = ChainValue(s[n + 1].sim)
    OBVIOUS
  <2>1. em.class = "END"
    BY TakenIsFirst DEF RecInv
  <2>2. ~SkewPending'
    BY DEF SkewPending
  <2> QED
    BY <1>18, <2>1, <2>2
<1>22. Recorded(s)'
  BY <1>2, <1>4, <1>8, <1>19, <1>20, <1>21, <1>6 DEF Recorded
<1> QED
  BY <1>22 DEF RecInv, SameDefect

LEMMA RecordingStart == Init => RecInv
<1> SUFFICES ASSUME Init PROVE RecInv
  OBVIOUS
<1>1. /\ WInv /\ defect \in Defects /\ SameDefect /\ log = <<>> /\ Len(log) = 0
      /\ pending = Emissions(script) /\ guest = NewGuest
  BY WriterStart DEF Init, WriterInit
<1>2. PICK c : c = FoldFor("recorded")
  OBVIOUS
<1>3. PICK r : IsRun(r, c, log)
  BY <1>1, RunExists
<1>4. r[0].sim = NewGuest /\ r[0].fold = c
  BY <1>3 DEF IsRun
<1>5. EndEmission \in pending
  BY <1>1 DEF WInv, Ahead
<1>6. ~c.done <=> defect.kind = "Skew"
  BY <1>1, <1>2, FoldForIs
<1>7. SkewPending <=> defect.kind = "Skew"
  <2>1. \A em \in pending : em.class = "SKEW" => \E m \in script.skew : TRUE
    BY <1>1 DEF Emissions, EpochEmissions, Emission
  <2>2. \A m \in script.skew : Emission("SKEW", m, 0) \in pending
    BY <1>1 DEF Emissions
  <2>3. \A m : Emission("SKEW", m, 0).class = "SKEW"
    BY DEF Emission
  <2> QED
    BY <1>1, <2>1, <2>2, <2>3 DEF SameDefect, SkewPending
<1>8. Recorder(r)
  BY <1>1, <1>4, <1>6, <1>7 DEF Recorder
<1> QED
  BY <1>1, <1>2, <1>3, <1>5, <1>8 DEF RecInv, Recorded

\* After the skew, what is left comes after it.
LEMMA SkewRecorded ==
  ASSUME RecInv, WInv', NEW em \in pending, EmitSkew(em), UNCHANGED defect
  PROVE  RecInv'
<1>1. /\ em.class = "SKEW" /\ pending' = pending \ {em} /\ UNCHANGED <<script, log, endHash>>
      /\ guest' = FoldBytes(StepTo(guest, em.icount), "Skew")
      /\ \A other \in pending \ {em} : Before(em, other)
  BY DEF EmitSkew, TakeNext
<1>2. defect.kind = "Skew" /\ em = Emission("SKEW", defect.at, 0) /\ em.icount = defect.at
  BY <1>1, SkewIsDefect
<1>3. ~SkewPending'
  <2> SUFFICES ASSUME NEW k \in pending, k # em, k.class = "SKEW" PROVE FALSE
    BY <1>1 DEF SkewPending
  <2> QED
    BY <1>2, SkewIsDefect
<1>4. PICK r : Recorded(r)
  BY DEF RecInv
<1>5. PICK c : c = FoldFor("recorded")
  OBVIOUS
<1>6. IsFold(c) /\ FoldFor("recorded")' = c /\ c.at = defect.at /\ c.bytes = "Skew"
  BY <1>2, <1>5, FoldForIs DEF RecInv, FoldFor
<1>7. IsRun(r, c, log) /\ Recorder(r)
  BY <1>4, <1>5 DEF Recorded
<1>8. InOrder(log)
  BY LogInOrder DEF RecInv
<1>9. PICK n \in 0..Len(log) : n = Len(log)
  BY <1>8 DEF InOrder
<1>10. RunShape(r, c, log, n)
  BY <1>6, <1>7, <1>8, RunIs
<1>11. ~r[n].fold.done /\ guest = r[n].sim
  BY <1>1, <1>7, <1>9 DEF Recorder, SkewPending
<1>12. guest' = FoldedOn(r[n].sim, r[n].fold)
  BY <1>1, <1>2, <1>6, <1>10, <1>11 DEF RunShape, FoldedOn
<1>13. \A k \in pending' :
         k.icount > defect.at \/ (k.icount = defect.at /\ k.class # "EPOCH_HASH")
  <2> SUFFICES ASSUME NEW k \in pending, k # em
               PROVE  k.icount > defect.at \/ (k.icount = defect.at /\ k.class # "EPOCH_HASH")
    BY <1>1
  <2>1. Before(em, k)
    BY <1>1
  <2>2. /\ k.icount \in 0..script.end
        /\ k.class \in {"EPOCH_HASH", "SKEW", "CANONICAL", "FRAME_MARK", "END"}
    BY EmissionShape DEF RecInv, WInv, Ahead
  <2>3. defect.at \in Nat /\ k.icount \in Nat
    BY <2>2, LogInOrder, DefectsAssumption DEF RecInv, IsDefect
  <2> QED
    BY <1>1, <1>2, <2>1, <2>2, <2>3 DEF Before, Rank
<1>14. Recorder(r)'
  BY <1>1, <1>3, <1>9, <1>11, <1>12, <1>13 DEF Recorder
<1>15. pending' # {}
  BY <1>1, TakenIsFirst DEF RecInv, EmitSkew
<1>16. Recorded(r)'
  BY <1>1, <1>4, <1>5, <1>6, <1>7, <1>14, <1>15 DEF Recorded
<1> QED
  BY <1>1, <1>16 DEF RecInv, SameDefect

LEMMA RecordingStays ==
  ASSUME RecInv, WInv', UNCHANGED <<script, pending, guest, log, endHash, defect>>
  PROVE  RecInv'
BY DEF RecInv, Recorded, Recorder, SkewPending, SameDefect, FoldFor

LEMMA RecordingKeeps ==
  ASSUME RecInv, Record
  PROVE  RecInv'
<1>1. WriterStep /\ UNCHANGED <<defect, replayVars>>
  BY DEF Record
<1>2. WInv /\ WInv'
  BY <1>1, WriterKeeps DEF RecInv
<1>3. ASSUME NEW em \in pending, EmitEpochHash(em) PROVE RecInv'
  <2> DEFINE rec == [kind |-> "EPOCH_HASH", aux |-> TRUE, seq |-> Len(log),
                     icount |-> em.icount, payload |-> guest'.chain, len |-> 40]
  <2>1. /\ TakeNext(em.class, em) /\ em.class = "EPOCH_HASH"
        /\ UNCHANGED <<script, header, defect>> /\ log' = Append(log, rec)
        /\ guest' = StepTo(guest, em.icount)
    BY <1>1, <1>3 DEF EmitEpochHash, TakeNext, PushRecord
  <2>2. /\ rec.icount = em.icount /\ rec.kind = "EPOCH_HASH" /\ rec.aux = TRUE
        /\ rec.payload = guest'.chain
    OBVIOUS
  <2>3. em.icount \in Nat
    BY <1>2, <2>1, TakenIsFirst, EmissionShape, LogInOrder DEF WInv
  <2> HIDE DEF rec
  <2> QED
    BY <1>2, <2>1, <2>2, <2>3, RecordRecorded
<1>4. ASSUME NEW em \in pending, EmitCanonical(em) PROVE RecInv'
  <2> DEFINE ev == script.events[em.tie].event
             rec == [kind |-> ev.kind, aux |-> FALSE, seq |-> Len(log),
                     icount |-> em.icount, payload |-> ev.data, len |-> ev.len]
  <2>1. /\ TakeNext(em.class, em) /\ em.class = "CANONICAL"
        /\ UNCHANGED <<script, header, defect>> /\ log' = Append(log, rec)
        /\ guest' = FoldBytes(StepTo(guest, em.icount), EventBytes(ev.kind, ev.data))
    BY <1>1, <1>4 DEF EmitCanonical, TakeNext, PushRecord
  <2>2. IsEvent(ev)
    BY <1>2, <2>1, TakenIsFirst, EmissionShape DEF WInv
  <2>3. /\ rec.icount = em.icount /\ rec.kind = ev.kind /\ rec.aux = FALSE
        /\ rec.payload = ev.data
    OBVIOUS
  <2>4. em.icount \in Nat
    BY <1>2, <2>1, TakenIsFirst, EmissionShape, LogInOrder DEF WInv
  <2> HIDE DEF ev, rec
  <2>5. rec.kind # "EPOCH_HASH"
    BY <2>2, <2>3 DEF IsEvent, CanonicalKinds
  <2>6. guest' = FoldBytes(StepTo(guest, em.icount), EventBytes(rec.kind, rec.payload))
    BY <2>1, <2>3
  <2> QED
    BY <1>2, <2>1, <2>3, <2>4, <2>5, <2>6, RecordRecorded
<1>5. ASSUME NEW em \in pending, EmitFrameMark(em) PROVE RecInv'
  <2> DEFINE rec == [kind |-> "FRAME_MARK", aux |-> TRUE, seq |-> Len(log),
                     icount |-> em.icount, payload |-> em.tie, len |-> 8]
  <2>1. /\ TakeNext(em.class, em) /\ em.class = "FRAME_MARK"
        /\ UNCHANGED <<script, header, defect>> /\ log' = Append(log, rec)
        /\ guest' = StepTo(guest, em.icount)
    BY <1>1, <1>5 DEF EmitFrameMark, TakeNext, PushRecord
  <2>2. rec.icount = em.icount /\ rec.kind = "FRAME_MARK" /\ rec.aux = TRUE
    OBVIOUS
  <2>3. em.icount \in Nat
    BY <1>2, <2>1, TakenIsFirst, EmissionShape, LogInOrder DEF WInv
  <2> HIDE DEF rec
  <2> QED
    BY <1>2, <2>1, <2>2, <2>3, RecordRecorded
<1>6. ASSUME NEW em \in pending, EmitEnd(em) PROVE RecInv'
  <2> DEFINE rec == [kind |-> "END", aux |-> TRUE, seq |-> Len(log),
                     icount |-> em.icount, payload |-> endHash', len |-> 40]
  <2>1. /\ TakeNext(em.class, em) /\ em.class = "END"
        /\ UNCHANGED <<script, header, defect>> /\ log' = Append(log, rec)
        /\ guest' = StepTo(guest, em.icount) /\ endHash' = ChainValue(guest')
    BY <1>1, <1>6 DEF EmitEnd, TakeNext, PushRecord
  <2>2. rec.icount = em.icount /\ rec.kind = "END" /\ rec.aux = TRUE
    OBVIOUS
  <2>3. em.icount \in Nat
    BY <1>2, <2>1, TakenIsFirst, EmissionShape, LogInOrder DEF WInv
  <2> HIDE DEF rec
  <2> QED
    BY <1>2, <2>1, <2>2, <2>3, RecordRecorded
<1>7. ASSUME NEW em \in pending, EmitSkew(em) PROVE RecInv'
  BY <1>1, <1>2, <1>7, SkewRecorded
<1>8. CASE Seal
  BY <1>1, <1>2, <1>8, RecordingStays DEF Seal
<1> QED
  BY <1>1, <1>3, <1>4, <1>5, <1>6, <1>7, <1>8 DEF WriterStep

-----------------------------------------------------------------------------
\* The records of the epoch boundaries

\* The first n elements of the recursive function that gathers them.
Gathers(g, n) ==
  g = [i \in 0..n |->
         IF i = 0 THEN <<>>
         ELSE IF log[i].kind = "EPOCH_HASH" THEN Append(g[i - 1], log[i]) ELSE g[i - 1]]

LEMMA GathersExists ==
  ASSUME NEW n \in Nat
  PROVE  \E g : Gathers(g, n)
<1> DEFINE T == {k \in Nat : \E g : Gathers(g, k)}
<1>1. 0 \in T
  <2>1. PICK g : g = [i \in 0..0 |-> <<>>]
    OBVIOUS
  <2>2. Gathers(g, 0)
    BY <2>1 DEF Gathers
  <2> QED
    BY <2>2
<1>2. ASSUME NEW k \in Nat, k \in T PROVE k + 1 \in T
  <2>1. PICK g : Gathers(g, k)
    BY <1>2
  <2>2. PICK z : z = IF log[k + 1].kind = "EPOCH_HASH" THEN Append(g[k], log[k + 1]) ELSE g[k]
    OBVIOUS
  <2>3. PICK h : h = [i \in 0..(k + 1) |-> IF i = k + 1 THEN z ELSE g[i]]
    OBVIOUS
  <2>4. h[k + 1] = z /\ \A i \in 0..k : h[i] = g[i]
    BY <2>3
  <2>5. ASSUME NEW i \in 0..(k + 1)
        PROVE  h[i] = IF i = 0 THEN <<>>
                      ELSE IF log[i].kind = "EPOCH_HASH" THEN Append(h[i - 1], log[i])
                           ELSE h[i - 1]
    <3>1. CASE i = k + 1
      <4>1. h[i - 1] = g[k] /\ h[i] = z /\ log[i] = log[k + 1] /\ i # 0
        BY <2>4, <3>1
      <4> QED
        BY <2>2, <4>1
    <3>2. CASE i \in 1..k
      <4>1. h[i] = g[i] /\ h[i - 1] = g[i - 1] /\ i \in 0..k /\ i # 0
        BY <2>4, <3>2
      <4>2. g[i] = IF log[i].kind = "EPOCH_HASH" THEN Append(g[i - 1], log[i]) ELSE g[i - 1]
        BY <2>1, <4>1 DEF Gathers
      <4> QED
        BY <4>1, <4>2
    <3>3. CASE i = 0
      <4>1. g[0] = <<>> /\ h[0] = g[0]
        BY <2>1, <2>4 DEF Gathers
      <4> QED
        BY <3>3, <4>1
    <3> QED
      BY <3>1, <3>2, <3>3
  <2>6. h = [i \in 0..(k + 1) |-> h[i]]
    BY <2>3
  <2>7. Gathers(h, k + 1)
    BY <2>5, <2>6 DEF Gathers
  <2> QED
    BY <2>7
<1> QED
  <2> HIDE DEF T
  <2>1. Nat \subseteq T
    BY <1>1, <1>2, SetInduction
  <2> QED
    BY <2>1 DEF T

\* They are a sequence of records of the log.
LEMMA EpochRecordsAre ==
  ASSUME InOrder(log)
  PROVE  /\ IsSeq(EpochRecords)
         /\ \A k \in 1..Len(EpochRecords) : \E j \in 1..Len(log) :
              log[j].kind = "EPOCH_HASH" /\ EpochRecords[k] = log[j]
<1>1. Len(log) \in Nat
  BY DEF InOrder
<1>2. PICK n \in Nat : n = Len(log)
  BY <1>1
<1>3. PICK g : Gathers(g, n) /\ EpochRecords = g[n]
  <2>1. \E g : Gathers(g, Len(log))
    BY <1>1, GathersExists
  <2>2. Gathers(CHOOSE g : Gathers(g, Len(log)), Len(log))
    BY <2>1
  <2>3. EpochRecords = (CHOOSE g : Gathers(g, Len(log)))[Len(log)]
    BY DEF EpochRecords, Gathers
  <2> QED
    BY <1>2, <2>2, <2>3
<1> DEFINE Good(s) == /\ IsSeq(s)
                      /\ \A k \in 1..Len(s) : \E j \in 1..Len(log) :
                           log[j].kind = "EPOCH_HASH" /\ s[k] = log[j]
           T == {i \in Nat : i <= n => Good(g[i])}
<1>4. 0 \in T
  <2>1. g[0] = <<>>
    BY <1>3 DEF Gathers
  <2>2. Len(g[0]) = 0 /\ g[0] = [i \in 1..0 |-> g[0][i]]
    BY <2>1
  <2> QED
    BY <2>2 DEF IsSeq
<1>5. ASSUME NEW i \in Nat, i \in T PROVE i + 1 \in T
  <2> SUFFICES ASSUME i + 1 <= n PROVE Good(g[i + 1])
    OBVIOUS
  <2>1. Good(g[i])
    BY <1>5
  <2>2. g[i + 1] = IF log[i + 1].kind = "EPOCH_HASH" THEN Append(g[i], log[i + 1]) ELSE g[i]
    <3>1. i + 1 \in 0..n /\ i + 1 # 0 /\ i + 1 - 1 = i
      OBVIOUS
    <3>2. \A k \in 0..n :
            g[k] = IF k = 0 THEN <<>>
                   ELSE IF log[k].kind = "EPOCH_HASH" THEN Append(g[k - 1], log[k])
                        ELSE g[k - 1]
      BY <1>3 DEF Gathers
    <3>3. PICK m \in 0..n : m = i + 1
      BY <3>1
    <3>4. g[m] = IF log[m].kind = "EPOCH_HASH" THEN Append(g[m - 1], log[m]) ELSE g[m - 1]
      BY <3>1, <3>2, <3>3
    <3> QED
      BY <3>1, <3>3, <3>4
  <2>3. CASE log[i + 1].kind = "EPOCH_HASH"
    <3>1. PICK s : s = g[i]
      OBVIOUS
    <3>2. PICK t : t = g[i + 1]
      OBVIOUS
    <3>3. t = Append(s, log[i + 1]) /\ Good(s)
      BY <2>1, <2>2, <2>3, <3>1, <3>2
    <3>4. /\ IsSeq(t) /\ Len(t) = Len(s) + 1 /\ t[Len(s) + 1] = log[i + 1]
          /\ \A k \in 1..Len(s) : t[k] = s[k]
      BY <3>3, AppendIs
    <3>5. i + 1 \in 1..Len(log)
      BY <1>2
    <3>6. ASSUME NEW k \in 1..Len(t)
          PROVE  \E j \in 1..Len(log) : log[j].kind = "EPOCH_HASH" /\ t[k] = log[j]
      <4>1. CASE k \in 1..Len(s)
        BY <3>3, <3>4, <4>1
      <4>2. CASE k = Len(s) + 1
        BY <2>3, <3>4, <3>5, <4>2
      <4> QED
        BY <3>3, <3>4, <4>1, <4>2 DEF IsSeq
    <3> QED
      BY <3>2, <3>4, <3>6
  <2>4. CASE log[i + 1].kind # "EPOCH_HASH"
    BY <2>1, <2>2, <2>4
  <2> QED
    BY <2>3, <2>4
<1>6. n \in T
  <2> HIDE DEF T
  <2>1. Nat \subseteq T
    BY <1>4, <1>5, SetInduction
  <2> QED
    BY <2>1
<1> QED
  BY <1>3, <1>6

-----------------------------------------------------------------------------
\* The two sides at an icount

\* The first q records are those at or before the icount.
CutAt(q, at) ==
  q \in 0..Len(log) /\ \A i \in 1..Len(log) : i <= q <=> log[i].icount <= at

\* The run of the side with the defect, stopped, is the other's twin from the
\* defect on, and the same guest short of it.
LEMMA RunsMeet ==
  ASSUME NEW recs, InOrder(recs), NEW f, IsFold(f), ~f.done, NEW r, IsRun(r, f, recs),
         NEW e, IsFold(e), e.done, NEW s, IsRun(s, e, recs),
         NEW q \in 0..Len(recs), NEW at \in Nat, \A i \in 1..q : recs[i].icount <= at
  PROVE  LET a == FinishedOn(r[q].sim, r[q].fold, at)
             b == FinishedOn(s[q].sim, s[q].fold, at)
         IN  /\ IF f.at <= at THEN Twin(a, b, f.at) ELSE a = b
             /\ IsGuest(a) /\ IsGuest(b) /\ a.icount = at /\ b.icount = at
<1>1. /\ RunShape(r, f, recs, q) /\ RunShape(s, e, recs, q)
      /\ Apart(r[q].sim, r[q].fold, s[q].sim)
  BY RunIs, RunsApart
<1>2. PICK g : g = r[q].sim
  OBVIOUS
<1>3. PICK h : h = s[q].sim
  OBVIOUS
<1>4. PICK x : x = r[q].fold
  OBVIOUS
<1>5. PICK y : y = s[q].fold
  OBVIOUS
<1>6. /\ InTime(g, x) /\ InTime(h, y) /\ IsGuest(h) /\ Apart(g, x, h)
      /\ g.icount = At(recs, q) /\ h.icount = At(recs, q)
      /\ x.at = f.at /\ y.done
      /\ x.done => \E j \in 1..q : Reaches(recs[j], f.at)
  BY <1>1, <1>2, <1>3, <1>4, <1>5 DEF RunShape, InTime
<1>7. At(recs, q) <= at /\ At(recs, q) \in Nat
  BY DEF At, InOrder
<1>8. x.done => x.at <= at
  <2> SUFFICES ASSUME x.done PROVE f.at <= at
    BY <1>6
  <2>1. PICK j \in 1..q : Reaches(recs[j], f.at)
    BY <1>6
  <2>2. recs[j].icount \in Nat /\ recs[j].icount <= at /\ f.at \in Nat
    BY DEF InOrder, IsFold
  <2> QED
    BY <2>1, <2>2 DEF Reaches
<1>9. IF x.at <= at THEN Twin(FinishedOn(g, x, at), FinishedOn(h, y, at), x.at)
      ELSE FinishedOn(g, x, at) = FinishedOn(h, y, at)
  BY <1>6, <1>7, <1>8, ApartFinished
<1>10. /\ IsGuest(FinishedOn(g, x, at)) /\ FinishedOn(g, x, at).icount = at
       /\ IsGuest(FinishedOn(h, y, at)) /\ FinishedOn(h, y, at).icount = at
  BY <1>6, <1>7, FinishedIs
<1> QED
  BY <1>2, <1>3, <1>4, <1>5, <1>6, <1>9, <1>10

\* Before the defect's icount the records leave both the same.
LEMMA RunsTogether ==
  ASSUME NEW recs, InOrder(recs), NEW f, IsFold(f), ~f.done, NEW r, IsRun(r, f, recs),
         NEW e, IsFold(e), e.done, NEW s, IsRun(s, e, recs),
         NEW q \in 0..Len(recs), \A i \in 1..q : recs[i].icount < f.at
  PROVE  r[q].sim = s[q].sim
<1>1. RunShape(r, f, recs, q) /\ Apart(r[q].sim, r[q].fold, s[q].sim)
  BY RunIs, RunsApart
<1>2. ASSUME NEW j \in 1..q PROVE ~Reaches(recs[j], f.at)
  <2>1. recs[j].icount \in Nat /\ recs[j].icount < f.at /\ f.at \in Nat
    BY DEF InOrder, IsFold
  <2> QED
    BY <2>1 DEF Reaches
<1>3. ~r[q].fold.done
  BY <1>1, <1>2 DEF RunShape
<1> QED
  BY <1>1, <1>3 DEF Apart

\* The defect takes effect at or before the icount.
TakesEffect(at) == defect.kind # "None" /\ defect.at <= at

\* The runs of the recorded and the replayed side.
Sides(r, s) == Recorded(r) /\ IsRun(s, FoldFor("replayed"), log)

LEMMA SidesMeet ==
  ASSUME RecInv, NEW r, NEW s, Sides(r, s), NEW at \in Nat, NEW q, CutAt(q, at)
  PROVE  LET a == FinishedOn(r[q].sim, r[q].fold, at)
             b == FinishedOn(s[q].sim, s[q].fold, at)
         IN  /\ IF TakesEffect(at) THEN Twin(a, b, defect.at) \/ Twin(b, a, defect.at)
                ELSE a = b
             /\ IsGuest(a) /\ IsGuest(b) /\ a.icount = at /\ b.icount = at
<1>1. /\ InOrder(log) /\ q \in 0..Len(log) /\ \A i \in 1..q : log[i].icount <= at
      /\ defect.at \in Nat /\ defect.kind \in {"None", "Skew", "Flake"}
  BY LogInOrder, DefectsAssumption DEF RecInv, CutAt, IsDefect, InOrder
<1>2. PICK c : c = FoldFor("recorded")
  OBVIOUS
<1>3. PICK d : d = FoldFor("replayed")
  OBVIOUS
<1>4. /\ IsFold(c) /\ IsFold(d)
      /\ ~c.done => c.at = defect.at
      /\ ~d.done => d.at = defect.at
      /\ ~c.done <=> defect.kind = "Skew"
      /\ ~d.done <=> defect.kind = "Flake"
  BY <1>2, <1>3, FoldForIs DEF RecInv
<1>5. IsRun(r, c, log) /\ IsRun(s, d, log)
  BY <1>2, <1>3 DEF Sides, Recorded
<1>6. CASE defect.kind = "Skew"
  <2>1. ~c.done /\ d.done /\ c.at = defect.at
    BY <1>4, <1>6
  <2>2. LET a == FinishedOn(r[q].sim, r[q].fold, at)
            b == FinishedOn(s[q].sim, s[q].fold, at)
        IN  /\ IF c.at <= at THEN Twin(a, b, c.at) ELSE a = b
            /\ IsGuest(a) /\ IsGuest(b) /\ a.icount = at /\ b.icount = at
    BY <1>1, <1>4, <1>5, <2>1, RunsMeet
  <2> QED
    BY <1>6, <2>1, <2>2 DEF TakesEffect
<1>7. CASE defect.kind = "Flake"
  <2>1. c.done /\ ~d.done /\ d.at = defect.at
    BY <1>4, <1>7
  <2>2. LET a == FinishedOn(s[q].sim, s[q].fold, at)
            b == FinishedOn(r[q].sim, r[q].fold, at)
        IN  /\ IF d.at <= at THEN Twin(a, b, d.at) ELSE a = b
            /\ IsGuest(a) /\ IsGuest(b) /\ a.icount = at /\ b.icount = at
    BY <1>1, <1>4, <1>5, <2>1, RunsMeet
  <2> QED
    BY <1>7, <2>1, <2>2 DEF TakesEffect
<1>8. CASE defect.kind = "None"
  <2>1. c = d
    BY <1>2, <1>3, <1>8 DEF FoldFor
  <2>2. SameUpTo(log, log, Len(log))
    BY <1>1 DEF SameUpTo, InOrder
  <2>3. \A i \in 0..Len(log) : r[i] = s[i]
    BY <1>5, <2>1, <2>2, RunsAgree
  <2>4. r[q] = s[q]
    BY <1>1, <2>3
  <2>5. RunShape(r, c, log, q)
    BY <1>1, <1>4, <1>5, RunIs
  <2>6. At(log, q) <= at /\ At(log, q) \in Nat
    BY <1>1 DEF At, InOrder
  <2>7. PICK g : g = r[q].sim
    OBVIOUS
  <2>8. PICK x : x = r[q].fold
    OBVIOUS
  <2>9. InTime(g, x) /\ g.icount <= at
    BY <2>5, <2>6, <2>7, <2>8 DEF RunShape
  <2>10. IsGuest(FinishedOn(g, x, at)) /\ FinishedOn(g, x, at).icount = at
    BY <2>9, FinishedIs
  <2> QED
    BY <1>8, <2>4, <2>7, <2>8, <2>10 DEF TakesEffect
<1> QED
  BY <1>1, <1>6, <1>7, <1>8

\* What the hashes tell of the two sides stopped at an icount.
LEMMA SidesTell ==
  ASSUME RecInv, NEW r, NEW s, Sides(r, s), NEW at \in Nat, NEW q, CutAt(q, at)
  PROVE  LET a == FinishedOn(r[q].sim, r[q].fold, at)
             b == FinishedOn(s[q].sim, s[q].fold, at)
         IN  /\ ChainValue(b) # ChainValue(a) <=> TakesEffect(at)
             /\ b.chain # a.chain <=> TakesEffect(at) /\ Epoch(defect.at) < Epoch(at)
<1>1. PICK a : a = FinishedOn(r[q].sim, r[q].fold, at)
  OBVIOUS
<1>2. PICK b : b = FinishedOn(s[q].sim, s[q].fold, at)
  OBVIOUS
<1>3. /\ IF TakesEffect(at) THEN Twin(a, b, defect.at) \/ Twin(b, a, defect.at) ELSE a = b
      /\ a.icount = at /\ b.icount = at
  BY <1>1, <1>2, SidesMeet
<1>4. defect.at \in Nat
  BY DefectsAssumption DEF RecInv, IsDefect
<1>5. PICK d \in Nat : d = defect.at
  BY <1>4
<1>6. CASE ~TakesEffect(at)
  BY <1>1, <1>2, <1>3, <1>6
<1>7. CASE TakesEffect(at) /\ Twin(a, b, d)
  <2>1. ChainValue(a) # ChainValue(b) /\ (a.chain # b.chain <=> Epoch(d) < Epoch(a.icount))
    BY <1>7, TwinsDiffer
  <2> QED
    BY <1>1, <1>2, <1>3, <1>5, <1>7, <2>1
<1>8. CASE TakesEffect(at) /\ Twin(b, a, d)
  <2>1. ChainValue(b) # ChainValue(a) /\ (b.chain # a.chain <=> Epoch(d) < Epoch(b.icount))
    BY <1>8, TwinsDiffer
  <2> QED
    BY <1>1, <1>2, <1>3, <1>5, <1>8, <2>1
<1> QED
  BY <1>3, <1>5, <1>6, <1>7, <1>8

\* The oracle, stopped at a boundary, has the chain the boundary's record holds.
LEMMA OracleAtBoundary ==
  ASSUME RecInv, NEW r, Recorded(r), NEW at \in Nat, NEW q, CutAt(q, at),
         NEW j \in 1..Len(log), log[j].kind = "EPOCH_HASH", log[j].icount = at
  PROVE  log[j].payload = FinishedOn(r[q].sim, r[q].fold, at).chain
<1>1. /\ InOrder(log) /\ q \in 0..Len(log) /\ q \in j..Len(log) /\ log[q].icount = at
  BY LogInOrder DEF RecInv, CutAt, InOrder
<1>2. PICK c : c = FoldFor("recorded")
  OBVIOUS
<1>3. IsFold(c) /\ IsRun(r, c, log)
  BY <1>2, FoldForIs DEF RecInv, Recorded
<1>4. RunShape(r, c, log, q)
  BY <1>1, <1>3, RunIs
<1>5. log[j].payload = r[j].sim.chain
  BY DEF Recorded
<1>6. r[q].sim.chain = r[j].sim.chain
  BY <1>1, <1>3, RunChainStays
<1>7. PICK g : g = r[q].sim
  OBVIOUS
<1>8. PICK x : x = r[q].fold
  OBVIOUS
<1>9. InTime(g, x) /\ g.icount = at
  BY <1>1, <1>4, <1>7, <1>8 DEF RunShape, At
<1>10. FinishedOn(g, x, at).chain = g.chain
  BY <1>9, FinishedIs
<1> QED
  BY <1>5, <1>6, <1>7, <1>8, <1>10

\* At the end it is where the recording ended.
LEMMA OracleAtEnd ==
  ASSUME RecInv, header.sealed, NEW r, Recorded(r)
  PROVE  /\ CutAt(Len(log), header.endIcount) /\ header.endIcount \in Nat
         /\ LET a == FinishedOn(r[Len(log)].sim, r[Len(log)].fold, header.endIcount)
            IN  ChainValue(a) = header.endHash
         /\ \A q : CutAt(q, header.endIcount) => q = Len(log)
<1>1. /\ InOrder(log) /\ script.end \in Nat
      /\ \A i \in 1..Len(log) : log[i].icount \in 0..script.end
  BY LogInOrder DEF RecInv
<1>2. /\ pending = {} /\ header.endIcount = script.end /\ header.endHash = endHash
      /\ Len(log) > 0 /\ log[Len(log)].kind = "END"
  BY DEF RecInv, WInv, HeaderFits, Ahead
<1>3. log[Len(log)].icount = script.end /\ Len(log) \in 1..Len(log)
  BY <1>1, <1>2 DEF RecInv, WInv, Written, Ending, InOrder
<1>4. CutAt(Len(log), script.end) /\ \A q : CutAt(q, script.end) => q = Len(log)
  BY <1>1, <1>3 DEF CutAt, InOrder
<1>5. PICK c : c = FoldFor("recorded")
  OBVIOUS
<1>6. IsFold(c) /\ IsRun(r, c, log)
  BY <1>5, FoldForIs DEF RecInv, Recorded
<1>7. PICK n \in 1..Len(log) : n = Len(log)
  BY <1>3
<1>8. RunShape(r, c, log, n)
  BY <1>1, <1>6, <1>7, RunIs
<1>9. r[n].fold.done /\ endHash = ChainValue(r[n].sim)
  BY <1>2, <1>7 DEF Recorded
<1>10. PICK g : g = r[n].sim
  OBVIOUS
<1>11. PICK x : x = r[n].fold
  OBVIOUS
<1>12. InTime(g, x) /\ g.icount = script.end /\ x.done
  BY <1>3, <1>7, <1>8, <1>9, <1>10, <1>11 DEF RunShape, At
<1>13. FinishedOn(g, x, script.end) = g
  BY <1>1, <1>12, FinishedIs
<1> QED
  BY <1>1, <1>2, <1>4, <1>7, <1>9, <1>10, <1>11, <1>13

-----------------------------------------------------------------------------
\* The replay

\* The records so far bring the simulation to where run t is.
Ran(t) == sim = t[position - 1].sim /\ fold = t[position - 1].fold

\* Guest g is where run t stops.
StoppedAs(g, t) ==
  \E q : CutAt(q, stop) /\ g = FinishedOn(t[q].sim, t[q].fold, stop)

\* Every boundary before record n matched the replayed run.
Matched(s, n) ==
  \A i \in 1..Len(log) :
    i < n /\ log[i].kind = "EPOCH_HASH" => log[i].payload = s[i].sim.chain

\* The replay of what was recorded: the oracle is in run r, every other side in s.
Replay(r, s) ==
  /\ stop \in Nat /\ stop <= header.endIcount
  /\ position \in 1..(Len(log) + 1)
  /\ task = "honest" =>
       /\ stop = header.endIcount /\ verdict = "Pending" /\ Ran(s)
       /\ Matched(s, position) /\ ~replayed.panicked
  /\ task \in {"replayed", "oracle"} =>
       /\ verdict = "Pending"
       /\ \A i \in 1..Len(log) : i < position => log[i].icount <= stop
  /\ task = "replayed" => Ran(s) /\ ~replayed.panicked
  /\ task = "oracle" => Ran(r) /\ StoppedAs(replayed, s)
  /\ task = "done" /\ verdict = "Pending" => StoppedAs(replayed, s) /\ StoppedAs(sim, r)
  /\ task = "done" /\ verdict # "Pending" =>
       /\ ~sim.panicked /\ ~replayed.panicked
       /\ LET b == FinishedOn(s[Len(log)].sim, s[Len(log)].fold, header.endIcount)
              same == Matched(s, Len(log) + 1) /\ ChainValue(b) = header.endHash
          IN  verdict = IF same THEN "Verified" ELSE "Diverged"

ReplayInv ==
  /\ RecInv
  /\ task \in {"recording", "idle", "honest", "replayed", "oracle", "done"}
  /\ task \in {"recording", "idle"} =>
       verdict = "Pending" /\ ~sim.panicked /\ ~replayed.panicked
  /\ task # "recording" => header.sealed
  /\ task \notin {"recording", "idle"} => \E r, s : Sides(r, s) /\ Replay(r, s)

\* The simulation goes on as the run does.
LEMMA ReplayedIs ==
  ASSUME RecInv, NEW t, NEW c, IsRun(t, c, log), Ran(t), position \in 1..Len(log),
         ReplayRecord(log[position])
  PROVE  /\ position' = position + 1 /\ After(log[position]) = t[position].sim
         /\ sim' = t[position' - 1].sim /\ fold' = t[position' - 1].fold
<1>1. PICK n \in 1..Len(log) : n = position
  OBVIOUS
<1>2. PICK m : m = n - 1
  OBVIOUS
<1>3. Len(log) \in Nat
  BY LogInOrder DEF RecInv, InOrder
<1>4. m \in Nat /\ m + 1 = n /\ m + 1 \in 1..Len(log)
  BY <1>2, <1>3
<1>5. t[m + 1] = [sim |-> AfterOn(t[m].sim, t[m].fold, log[m + 1]),
                  fold |-> FoldAfter(t[m].fold, log[m + 1])]
  BY <1>4, RunStep
<1>6. t[n].sim = AfterOn(sim, fold, log[n]) /\ t[n].fold = FoldAfter(fold, log[n])
  BY <1>1, <1>2, <1>4, <1>5 DEF Ran
<1>7. /\ After(log[n]) = AfterOn(sim, fold, log[n])
      /\ DueOn(fold, log[n]) = Due(log[n])
  BY DEF After, AfterOn, SteppedOn, Due, DueOn, Reaches, Folded, FoldedOn
<1>8. /\ sim' = After(log[n]) /\ fold' = [fold EXCEPT !.done = @ \/ Due(log[n])]
      /\ position' = n + 1
  BY <1>1 DEF ReplayRecord
<1>9. fold' = FoldAfter(fold, log[n])
  BY <1>7, <1>8 DEF FoldAfter
<1> QED
  BY <1>1, <1>4, <1>6, <1>7, <1>8, <1>9

\* The records through, it stops where the run does.
LEMMA FinishedStops ==
  ASSUME NEW t, Ran(t), NEW end
  PROVE  Finished(end) = FinishedOn(t[position - 1].sim, t[position - 1].fold, end)
BY DEF Ran, Finished, FinishedOn, Left, Folded, FoldedOn

\* What is left of the records is past the stop.
LEMMA StopsAtCut ==
  ASSUME RecInv, stop \in Nat, position \in 1..(Len(log) + 1), ~MoreRecords,
         \A i \in 1..Len(log) : i < position => log[i].icount <= stop
  PROVE  CutAt(position - 1, stop)
<1>1. InOrder(log)
  BY LogInOrder DEF RecInv
<1>2. position - 1 \in 0..Len(log) /\ Len(log) \in Nat
  BY <1>1 DEF InOrder
<1>3. ASSUME NEW i \in 1..Len(log), i >= position PROVE ~(log[i].icount <= stop)
  <2>1. position \in 1..Len(log) /\ position \in 1..i
    BY <1>2, <1>3
  <2>2. ~(log[position].icount <= stop)
    BY <1>2, <2>1 DEF MoreRecords
  <2>3. log[position].icount <= log[i].icount /\ log[i].icount \in Nat /\ log[position].icount \in Nat
    BY <1>1, <2>1 DEF InOrder
  <2> QED
    BY <2>2, <2>3
<1>4. ASSUME NEW i \in 1..Len(log) PROVE i <= position - 1 <=> log[i].icount <= stop
  BY <1>2, <1>3
<1> QED
  BY <1>2, <1>4 DEF CutAt

\* A side starts where its run does.
LEMMA StartsAsRun ==
  ASSUME NEW side, NEW t, IsRun(t, FoldFor(side), log), Start(side)
  PROVE  position' = 1 /\ sim' = t[position' - 1].sim /\ fold' = t[position' - 1].fold
<1>1. t[0].sim = NewGuest /\ t[0].fold = FoldFor(side)
  BY DEF IsRun
<1> QED
  BY <1>1 DEF Start

LEMMA SidesExist ==
  ASSUME RecInv
  PROVE  \E r, s : Sides(r, s)
<1>1. PICK r : Recorded(r)
  BY DEF RecInv
<1>2. PICK d : d = FoldFor("replayed")
  OBVIOUS
<1>3. PICK s : IsRun(s, d, log)
  BY LogInOrder, RunExists DEF RecInv, InOrder
<1> QED
  BY <1>1, <1>2, <1>3 DEF Sides

LEMMA SidesStay ==
  ASSUME NEW r, NEW s, Sides(r, s), UNCHANGED <<writerVars, defect>>
  PROVE  Sides(r, s)'
BY DEF Sides, Recorded, Recorder, SkewPending, FoldFor, writerVars

LEMMA ReplayStart == Init => ReplayInv
<1> SUFFICES ASSUME Init PROVE ReplayInv
  OBVIOUS
<1>1. NewGuest.panicked = FALSE
  BY DEF NewGuest
<1> QED
  BY <1>1, RecordingStart DEF Init, ReplayInv

\* The replay leaves the recording alone.
LEMMA RecordedStays ==
  ASSUME RecInv, UNCHANGED <<writerVars, defect>>
  PROVE  RecInv'
<1>1. WInv'
  BY DEF RecInv, writerVars, WInv, Written, Ahead, HeaderFits, EndEmission
<1> QED
  BY <1>1, RecordingStays DEF writerVars

LEMMA RecordKeeps ==
  ASSUME ReplayInv, Record
  PROVE  ReplayInv'
<1>1. RecInv'
  BY RecordingKeeps DEF ReplayInv
<1>2. /\ task = "recording" /\ task' \in {"recording", "idle"}
      /\ task' # "recording" => header'.sealed
      /\ UNCHANGED <<verdict, sim, replayed>>
  BY DEF Record, replayVars
<1> QED
  BY <1>1, <1>2 DEF ReplayInv

LEMMA BeginKeeps ==
  ASSUME ReplayInv, BeginHonest \/ BeginProbe
  PROVE  ReplayInv'
<1>0. task = "idle" /\ header.endIcount \in Nat
  BY LogInOrder DEF BeginHonest, BeginProbe, ReplayInv, RecInv, WInv, HeaderFits
<1>1. /\ UNCHANGED <<writerVars, defect, replayed, verdict>>
      /\ Start("replayed") /\ stop' \in 0..header.endIcount
      /\ \/ task' = "honest" /\ stop' = header.endIcount
         \/ task' = "replayed"
  BY <1>0 DEF BeginHonest, BeginProbe
<1>2. RecInv /\ RecInv' /\ header.sealed /\ verdict = "Pending" /\ ~replayed.panicked
  BY <1>0, <1>1, RecordedStays DEF ReplayInv
<1>3. PICK r, s : Sides(r, s)
  BY <1>2, SidesExist
<1>4. Sides(r, s)'
  BY <1>1, <1>3, SidesStay
<1>5. position' = 1 /\ Ran(s)'
  BY <1>1, <1>3, StartsAsRun DEF Sides, Ran
<1>6. Len(log) \in Nat /\ log' = log /\ header' = header
  BY <1>1, <1>2, LogInOrder DEF writerVars, InOrder, RecInv
<1>7. stop' \in Nat /\ stop' <= header.endIcount
  BY <1>0, <1>1
<1>8. Matched(s, position)'
  BY <1>5, <1>6 DEF Matched
<1>9. Replay(r, s)'
  BY <1>1, <1>2, <1>5, <1>6, <1>7, <1>8 DEF Replay
<1> QED
  BY <1>1, <1>2, <1>4, <1>6, <1>9 DEF ReplayInv

\* The verdict of the honest replay is that of the whole run: HonestRecord,
\* HonestBadEpoch and HonestEnd.
LEMMA HonestKeeps ==
  ASSUME ReplayInv, HonestRecord \/ HonestBadEpoch \/ HonestEnd
  PROVE  ReplayInv'
<1>1. task = "honest" /\ UNCHANGED <<writerVars, defect, stop, replayed>>
  BY DEF HonestRecord, HonestBadEpoch, HonestEnd
<1>2. RecInv /\ RecInv' /\ header.sealed
  BY <1>1, RecordedStays DEF ReplayInv
<1>3. PICK r, s : Sides(r, s) /\ Replay(r, s)
  BY <1>1 DEF ReplayInv
<1>4. Sides(r, s)' /\ IsRun(s, FoldFor("replayed"), log)
  BY <1>1, <1>3, SidesStay DEF Sides
<1>5. /\ stop \in Nat /\ stop = header.endIcount /\ position \in 1..(Len(log) + 1)
      /\ verdict = "Pending" /\ Ran(s) /\ Matched(s, position) /\ ~replayed.panicked
  BY <1>1, <1>3 DEF Replay
<1>6. /\ Len(log) \in Nat /\ InOrder(log) /\ log' = log /\ header' = header /\ stop' = stop
      /\ replayed' = replayed
  BY <1>1, <1>2, LogInOrder DEF writerVars, InOrder, RecInv
<1>7. PICK d : d = FoldFor("replayed")
  OBVIOUS
<1>8. IsFold(d) /\ IsRun(s, d, log)
  BY <1>2, <1>4, <1>7, FoldForIs DEF RecInv
<1>9. CASE HonestRecord
  <2>1. position \in 1..Len(log) /\ task' = "honest" /\ UNCHANGED verdict
    BY <1>5, <1>6, <1>9 DEF HonestRecord
  <2>2. PICK n \in 1..Len(log) : n = position
    BY <2>1
  <2>3. /\ ReplayRecord(log[n])
        /\ log[n].kind = "EPOCH_HASH" => After(log[n]).chain = log[n].payload
    BY <1>9, <2>2 DEF HonestRecord, EpochMatches
  <2>4. /\ position' = n + 1 /\ After(log[n]) = s[n].sim /\ Ran(s)'
    BY <1>2, <1>5, <1>8, <2>1, <2>2, <2>3, ReplayedIs DEF Ran
  <2>5. Matched(s, position)'
    <3>1. \A i \in 1..Len(log) : i < n + 1 => i < n \/ i = n
      BY <2>2
    <3>2. ASSUME NEW i \in 1..Len(log), i < n + 1, log[i].kind = "EPOCH_HASH"
          PROVE  log[i].payload = s[i].sim.chain
      BY <1>5, <2>2, <2>3, <2>4, <3>1, <3>2 DEF Matched
    <3> QED
      BY <1>6, <2>4, <3>2 DEF Matched
  <2>6. position' \in 1..(Len(log) + 1)
    BY <1>6, <2>2, <2>4
  <2>7. Replay(r, s)'
    BY <1>5, <1>6, <2>1, <2>4, <2>5, <2>6 DEF Replay
  <2> QED
    BY <1>2, <1>4, <1>6, <2>1, <2>7 DEF ReplayInv
<1>10. CASE HonestBadEpoch
  <2>1. position \in 1..Len(log) /\ task' = "done" /\ verdict' = "Diverged"
    BY <1>5, <1>6, <1>10 DEF HonestBadEpoch
  <2>2. PICK n \in 1..Len(log) : n = position
    BY <2>1
  <2>3. ReplayRecord(log[n]) /\ log[n].kind = "EPOCH_HASH" /\ After(log[n]).chain # log[n].payload
    BY <1>10, <2>2 DEF HonestBadEpoch, EpochMatches
  <2>4. position' = n + 1 /\ After(log[n]) = s[n].sim /\ sim' = s[n].sim
    <3>1. /\ position' = position + 1 /\ After(log[position]) = s[position].sim
          /\ sim' = s[position' - 1].sim
      BY <1>2, <1>5, <1>8, <2>1, <2>2, <2>3, ReplayedIs
    <3>2. n + 1 - 1 = n
      BY <2>2
    <3> QED
      BY <2>2, <3>1, <3>2
  <2>5. ~Matched(s, Len(log) + 1)'
    <3>1. n < Len(log) + 1 /\ log[n].payload # s[n].sim.chain
      BY <2>2, <2>3, <2>4
    <3> QED
      BY <1>6, <2>3, <3>1 DEF Matched
  <2>6. ~sim'.panicked
    <3>1. RunShape(s, d, log, n)
      BY <1>6, <1>8, RunIs
    <3> QED
      BY <2>4, <3>1 DEF RunShape, InTime, IsGuest
  <2>7. position' \in 1..(Len(log) + 1) /\ verdict' # "Pending"
    BY <1>6, <2>1, <2>2, <2>4
  <2>8. Replay(r, s)'
    BY <1>5, <1>6, <2>1, <2>5, <2>6, <2>7 DEF Replay
  <2> QED
    BY <1>2, <1>4, <1>6, <2>1, <2>8 DEF ReplayInv
<1>11. CASE HonestEnd
  <2>1. position = Len(log) + 1 /\ task' = "done" /\ sim' = Finished(stop) /\ UNCHANGED position
    BY <1>5, <1>6, <1>11 DEF HonestEnd
  <2>2. PICK n \in 0..Len(log) : n = Len(log) /\ n = position - 1
    BY <1>6, <2>1
  <2>3. sim' = FinishedOn(s[n].sim, s[n].fold, stop)
    BY <1>5, <2>1, <2>2, FinishedStops
  <2>4. verdict' = IF ChainValue(sim') = header.endHash THEN "Verified" ELSE "Diverged"
    BY <1>11 DEF HonestEnd
  <2>5. Matched(s, Len(log) + 1)'
    BY <1>5, <1>6, <2>1 DEF Matched
  <2>6. RunShape(s, d, log, n)
    BY <1>6, <1>8, RunIs
  <2>7. At(log, n) <= stop /\ At(log, n) \in Nat
    <3>1. CutAt(Len(log), header.endIcount)
      BY <1>2, <1>3, OracleAtEnd DEF Sides
    <3> QED
      BY <1>5, <1>6, <2>2, <3>1 DEF CutAt, At, InOrder
  <2>8. PICK g : g = s[n].sim
    OBVIOUS
  <2>9. PICK x : x = s[n].fold
    OBVIOUS
  <2>10. InTime(g, x) /\ g.icount <= stop
    BY <2>6, <2>7, <2>8, <2>9 DEF RunShape
  <2>11. IsGuest(FinishedOn(g, x, stop))
    BY <1>5, <2>10, FinishedIs
  <2>12. ~sim'.panicked
    BY <2>3, <2>8, <2>9, <2>11 DEF IsGuest
  <2>13. verdict' # "Pending"
    BY <2>4
  <2>14. Replay(r, s)'
    BY <1>5, <1>6, <2>1, <2>2, <2>3, <2>4, <2>5, <2>12, <2>13 DEF Replay
  <2> QED
    BY <1>2, <1>4, <1>6, <2>1, <2>14 DEF ReplayInv
<1> QED
  BY <1>9, <1>10, <1>11

\* A probe's simulations, of the replayed side and of the oracle: SimRecord,
\* ReplayedStops and OracleStops.
LEMMA ProbeKeeps ==
  ASSUME ReplayInv, SimRecord \/ ReplayedStops \/ OracleStops
  PROVE  ReplayInv'
<1>1. task \in {"replayed", "oracle"} /\ UNCHANGED <<writerVars, defect, stop, verdict>>
  BY DEF SimRecord, ReplayedStops, OracleStops
<1>2. RecInv /\ RecInv' /\ header.sealed
  BY <1>1, RecordedStays DEF ReplayInv
<1>3. PICK r, s : Sides(r, s) /\ Replay(r, s)
  BY <1>1 DEF ReplayInv
<1>4. /\ Sides(r, s)'
      /\ IsRun(s, FoldFor("replayed"), log) /\ IsRun(r, FoldFor("recorded"), log)
  BY <1>1, <1>3, SidesStay DEF Sides, Recorded
<1>5. /\ stop \in Nat /\ stop <= header.endIcount /\ position \in 1..(Len(log) + 1)
      /\ verdict = "Pending"
      /\ \A i \in 1..Len(log) : i < position => log[i].icount <= stop
      /\ task = "replayed" => Ran(s) /\ ~replayed.panicked
      /\ task = "oracle" => Ran(r) /\ StoppedAs(replayed, s)
  BY <1>1, <1>3 DEF Replay
<1>6. /\ Len(log) \in Nat /\ log' = log /\ header' = header /\ stop' = stop
      /\ verdict' = verdict
  BY <1>1, <1>2, LogInOrder DEF writerVars, InOrder, RecInv
<1>7. CASE SimRecord
  <2>1. /\ position \in 1..Len(log) /\ log[position].icount <= stop
        /\ UNCHANGED <<task, replayed>> /\ ReplayRecord(log[position])
    BY <1>5, <1>6, <1>7 DEF SimRecord, MoreRecords
  <2>2. position' = position + 1
    BY <2>1 DEF ReplayRecord
  <2>3. task = "replayed" => Ran(s)'
    <3>1. PICK d : d = FoldFor("replayed")
      OBVIOUS
    <3> QED
      BY <1>2, <1>4, <1>5, <2>1, <3>1, ReplayedIs DEF Ran
  <2>4. task = "oracle" => Ran(r)'
    <3>1. PICK c : c = FoldFor("recorded")
      OBVIOUS
    <3> QED
      BY <1>2, <1>4, <1>5, <2>1, <3>1, ReplayedIs DEF Ran
  <2>5. task = "oracle" => StoppedAs(replayed, s)'
    BY <1>5, <1>6, <2>1 DEF StoppedAs, CutAt
  <2>6. \A i \in 1..Len(log) : i < position' => log[i].icount <= stop
    <3>1. \A i \in 1..Len(log) : i < position' => i < position \/ i = position
      BY <2>1, <2>2
    <3> QED
      BY <1>5, <2>1, <3>1
  <2>7. position' \in 1..(Len(log) + 1)
    BY <1>6, <2>1, <2>2
  <2>8. Replay(r, s)'
    BY <1>1, <1>5, <1>6, <2>1, <2>3, <2>4, <2>5, <2>6, <2>7 DEF Replay
  <2> QED
    BY <1>1, <1>2, <1>4, <1>6, <2>1, <2>8 DEF ReplayInv
<1>8. CASE ReplayedStops
  <2>1. /\ task = "replayed" /\ ~MoreRecords /\ replayed' = Finished(stop) /\ task' = "oracle"
        /\ Start("recorded")
    BY <1>8 DEF ReplayedStops
  <2>2. CutAt(position - 1, stop)
    BY <1>2, <1>5, <2>1, StopsAtCut
  <2>3. replayed' = FinishedOn(s[position - 1].sim, s[position - 1].fold, stop)
    BY <1>5, <2>1, FinishedStops
  <2>4. StoppedAs(replayed, s)'
    <3>1. PICK q : q = position - 1
      OBVIOUS
    <3>2. CutAt(q, stop) /\ replayed' = FinishedOn(s[q].sim, s[q].fold, stop)
      BY <2>2, <2>3, <3>1
    <3> QED
      BY <1>6, <3>2 DEF StoppedAs, CutAt
  <2>5. position' = 1 /\ Ran(r)'
    BY <1>4, <2>1, StartsAsRun DEF Ran
  <2>6. \A i \in 1..Len(log) : i < position' => log[i].icount <= stop
    BY <2>5
  <2>7. Replay(r, s)'
    BY <1>1, <1>5, <1>6, <2>1, <2>4, <2>5, <2>6 DEF Replay
  <2> QED
    BY <1>2, <1>4, <1>6, <2>1, <2>7 DEF ReplayInv
<1>9. CASE OracleStops
  <2>1. /\ task = "oracle" /\ ~MoreRecords /\ sim' = Finished(stop) /\ task' = "done"
        /\ UNCHANGED <<position, replayed>>
    BY <1>9 DEF OracleStops
  <2>2. CutAt(position - 1, stop)
    BY <1>2, <1>5, <2>1, StopsAtCut
  <2>3. sim' = FinishedOn(r[position - 1].sim, r[position - 1].fold, stop)
    BY <1>5, <2>1, FinishedStops
  <2>4. StoppedAs(sim, r)' /\ StoppedAs(replayed, s)'
    <3>1. PICK q : q = position - 1
      OBVIOUS
    <3>2. CutAt(q, stop) /\ sim' = FinishedOn(r[q].sim, r[q].fold, stop)
      BY <2>2, <2>3, <3>1
    <3>3. StoppedAs(replayed, s)
      BY <1>5, <2>1
    <3> QED
      BY <1>6, <2>1, <3>2, <3>3 DEF StoppedAs, CutAt
  <2>5. Replay(r, s)'
    BY <1>1, <1>5, <1>6, <2>1, <2>4 DEF Replay
  <2> QED
    BY <1>2, <1>4, <1>6, <2>1, <2>5 DEF ReplayInv
<1> QED
  BY <1>7, <1>8, <1>9

LEMMA ReplayStays ==
  ASSUME ReplayInv, UNCHANGED vars
  PROVE  ReplayInv'
<1>1. UNCHANGED <<writerVars, defect>> /\ RecInv'
  BY RecordedStays DEF ReplayInv, vars
<1>2. /\ UNCHANGED <<task, stop, position, fold, sim, replayed, verdict, log, header>>
  BY DEF vars, replayVars, writerVars
<1>3. CASE task \in {"recording", "idle"}
  BY <1>1, <1>2, <1>3 DEF ReplayInv
<1>4. CASE task \notin {"recording", "idle"}
  <2>1. PICK r, s : Sides(r, s) /\ Replay(r, s)
    BY <1>4 DEF ReplayInv
  <2>2. Sides(r, s)' /\ Replay(r, s)'
    BY <1>1, <1>2, <2>1, SidesStay DEF Replay, Ran, StoppedAs, CutAt, Matched
  <2> QED
    BY <1>1, <1>2, <1>4, <2>2 DEF ReplayInv
<1> QED
  BY <1>3, <1>4

LEMMA ReplayInvariant == Spec => []ReplayInv
<1>1. ASSUME ReplayInv, [Next]_vars PROVE ReplayInv'
  BY <1>1, RecordKeeps, BeginKeeps, HonestKeeps, ProbeKeeps, ReplayStays
     DEF Next, Step, Answered
<1> QED
  BY <1>1, ReplayStart, PTL DEF Spec

-----------------------------------------------------------------------------
\* What the replay tells

LEMMA GuestsNeverPanic ==
  ASSUME ReplayInv
  PROVE  NeverStepsBack
<1>1. ~guest.panicked
  <2>1. PICK r : Recorded(r)
    BY DEF ReplayInv, RecInv
  <2>2. InOrder(log)
    BY LogInOrder DEF ReplayInv, RecInv
  <2>3. PICK c : c = FoldFor("recorded")
    OBVIOUS
  <2>4. IsFold(c) /\ IsRun(r, c, log)
    BY <2>1, <2>3, FoldForIs DEF ReplayInv, RecInv, Recorded
  <2>5. PICK n \in 0..Len(log) : n = Len(log)
    BY <2>2 DEF InOrder
  <2>6. InTime(r[n].sim, r[n].fold)
    BY <2>2, <2>4, RunIs DEF RunShape
  <2>7. PICK g : g = r[n].sim
    OBVIOUS
  <2>8. PICK f : f = r[n].fold
    OBVIOUS
  <2>9. IsGuest(g) /\ (~f.done => IsGuest(FoldedOn(g, f)))
    BY <2>6, <2>7, <2>8, FoldedIs DEF InTime
  <2>10. guest = g \/ (~f.done /\ guest = FoldedOn(g, f))
    BY <2>1, <2>5, <2>7, <2>8 DEF Recorded, Recorder
  <2> QED
    BY <2>9, <2>10 DEF IsGuest
<1>2. ~sim.panicked /\ ~replayed.panicked
  <2>1. CASE task \in {"recording", "idle"}
    BY <2>1 DEF ReplayInv
  <2>2. CASE task \notin {"recording", "idle"}
    <3>1. PICK r, s : Sides(r, s) /\ Replay(r, s)
      BY <2>2 DEF ReplayInv
    <3>2. InOrder(log) /\ RecInv
      BY LogInOrder DEF ReplayInv, RecInv
    <3>3. stop \in Nat /\ position - 1 \in 0..Len(log)
      BY <3>1, <3>2 DEF Replay, InOrder
    <3>4. PICK c : c = FoldFor("recorded")
      OBVIOUS
    <3>5. PICK d : d = FoldFor("replayed")
      OBVIOUS
    <3>6. IsFold(c) /\ IsRun(r, c, log) /\ IsFold(d) /\ IsRun(s, d, log)
      BY <3>1, <3>2, <3>4, <3>5, FoldForIs DEF RecInv, Sides, Recorded
    <3>7. PICK n \in 0..Len(log) : n = position - 1
      BY <3>3
    <3>8. IsGuest(r[n].sim) /\ IsGuest(s[n].sim)
      BY <3>2, <3>6, RunIs DEF RunShape, InTime
    <3>9. Ran(s) => ~sim.panicked
      BY <3>7, <3>8 DEF IsGuest, Ran
    <3>10. Ran(r) => ~sim.panicked
      BY <3>7, <3>8 DEF IsGuest, Ran
    <3>11. StoppedAs(replayed, s) => ~replayed.panicked
      <4> SUFFICES ASSUME NEW q, CutAt(q, stop),
                          replayed = FinishedOn(s[q].sim, s[q].fold, stop)
                   PROVE  ~replayed.panicked
        BY DEF StoppedAs
      <4>1. IsGuest(FinishedOn(s[q].sim, s[q].fold, stop))
        BY <3>1, <3>2, <3>3, SidesMeet
      <4> QED
        BY <4>1 DEF IsGuest
    <3>12. StoppedAs(sim, r) => ~sim.panicked
      <4> SUFFICES ASSUME NEW q, CutAt(q, stop), sim = FinishedOn(r[q].sim, r[q].fold, stop)
                   PROVE  ~sim.panicked
        BY DEF StoppedAs
      <4>1. IsGuest(FinishedOn(r[q].sim, r[q].fold, stop))
        BY <3>1, <3>2, <3>3, SidesMeet
      <4> QED
        BY <4>1 DEF IsGuest
    <3> QED
      BY <2>2, <3>1, <3>9, <3>10, <3>11, <3>12 DEF ReplayInv, Replay
  <2> QED
    BY <2>1, <2>2
<1> QED
  BY <1>1, <1>2 DEF NeverStepsBack

\* The guest never steps backwards, in the recording or in any simulation
\* (guest.rs:85-90).
THEOREM GuestGoesForward == Spec => []NeverStepsBack
BY ReplayInvariant, GuestsNeverPanic, PTL

\* The segment's defect as the search is told of it.
LEMMA DefectSeen ==
  ASSUME RecInv, header.endIcount \in Nat, NEW at \in 0..header.endIcount
  PROVE  /\ Truth!ChainDiffers(Seg, at) <=> TakesEffect(at)
         /\ Seg.defect \in Nat /\ (Seg.defect < at <=> TakesEffect(at) /\ defect.at # at)
<1>1. /\ defect.at \in Nat /\ Seg.defect =
           IF defect.kind = "None" THEN header.endIcount + 1 ELSE defect.at
  BY DefectsAssumption DEF RecInv, IsDefect, Seg
<1>2. Truth!ChainDiffers(Seg, at) <=> Seg.defect <= at
  BY DEF Truth!ChainDiffers
<1> QED
  BY <1>1, <1>2 DEF TakesEffect

\* What the k-th boundary says.
LEMMA BoundarySeen ==
  ASSUME RecInv, header.endIcount \in Nat, NEW k \in DOMAIN EpochRecords
  PROVE  /\ Seg.at[k] = EpochRecords[k].icount
         /\ Truth!EpochDiffers(Seg, k) <=> Seg.defect < EpochRecords[k].icount
         /\ \E j \in 1..Len(log) : log[j].kind = "EPOCH_HASH" /\ EpochRecords[k] = log[j]
<1>1. IsSeq(EpochRecords) /\ \A i \in 1..Len(EpochRecords) : \E j \in 1..Len(log) :
        log[j].kind = "EPOCH_HASH" /\ EpochRecords[i] = log[j]
  BY LogInOrder, EpochRecordsAre DEF RecInv
<1>2. k \in 1..Len(EpochRecords)
  BY <1>1 DEF IsSeq
<1>3. Seg.at = [i \in DOMAIN EpochRecords |-> EpochRecords[i].icount] /\ Seg.tampered = {}
  BY DEF Seg
<1>4. Seg.at[k] = EpochRecords[k].icount
  BY <1>3
<1>5. Truth!EpochDiffers(Seg, k) <=> k \in Seg.tampered \/ Seg.defect < Seg.at[k]
  BY DEF Truth!EpochDiffers
<1> QED
  BY <1>1, <1>2, <1>3, <1>4, <1>5

\* At a boundary, a defect before it is in an earlier epoch.
LEMMA BoundaryTells ==
  ASSUME RecInv, NEW r, Recorded(r), NEW j \in 1..Len(log), log[j].kind = "EPOCH_HASH",
         TakesEffect(log[j].icount)
  PROVE  Epoch(defect.at) < Epoch(log[j].icount) <=> defect.at # log[j].icount
<1>1. PICK n \in Nat : log[j].icount = n * EpochIcounts
  BY DEF Recorded
<1>2. defect.at \in Nat /\ log[j].icount \in Nat /\ defect.at <= log[j].icount
  BY DefectsAssumption, LogInOrder DEF RecInv, IsDefect, TakesEffect, InOrder
<1>3. PICK d \in Nat : d = defect.at
  BY <1>2
<1>4. CASE d = log[j].icount
  BY <1>2, <1>3, <1>4, EpochMonotone
<1>5. CASE d # log[j].icount
  <2>1. d < n * EpochIcounts
    BY <1>1, <1>2, <1>3, <1>5
  <2>2. Epoch(d) < Epoch(n * EpochIcounts)
    BY <2>1, EpochBefore
  <2> QED
    BY <1>1, <1>3, <1>5, <2>2
<1> QED
  BY <1>4, <1>5

LEMMA ProbeTells ==
  ASSUME ReplayInv, ProbeAnswered
  PROVE  OracleReproducesRecording /\ ProbeTellsTruth
<1>1. RecInv /\ header.sealed
  BY DEF ReplayInv, ProbeAnswered
<1>2. PICK r, s : Sides(r, s) /\ Replay(r, s)
  BY DEF ReplayInv, ProbeAnswered
<1>3. /\ StoppedAs(replayed, s) /\ StoppedAs(sim, r)
      /\ stop \in Nat /\ stop <= header.endIcount
  BY <1>2 DEF Replay, ProbeAnswered
<1>4. /\ Recorded(r) /\ CutAt(Len(log), header.endIcount) /\ header.endIcount \in Nat
      /\ \A q : CutAt(q, header.endIcount) => q = Len(log)
      /\ LET a == FinishedOn(r[Len(log)].sim, r[Len(log)].fold, header.endIcount)
         IN  ChainValue(a) = header.endHash
  BY <1>1, <1>2, OracleAtEnd DEF Sides
<1>5. PICK q : CutAt(q, stop) /\ replayed = FinishedOn(s[q].sim, s[q].fold, stop)
  BY <1>3 DEF StoppedAs
<1>6. PICK p : CutAt(p, stop) /\ sim = FinishedOn(r[p].sim, r[p].fold, stop)
  BY <1>3 DEF StoppedAs
<1>7. p = q
  BY <1>1, <1>5, <1>6, LogInOrder DEF CutAt, RecInv, InOrder
<1>8. /\ SidesDiffer <=> TakesEffect(stop)
      /\ replayed.chain # sim.chain <=> TakesEffect(stop) /\ Epoch(defect.at) < Epoch(stop)
  BY <1>1, <1>2, <1>3, <1>5, <1>6, <1>7, SidesTell DEF SidesDiffer
<1>9. stop \in 0..header.endIcount
  BY <1>3, <1>4
<1>10. SidesDiffer <=> Truth!ChainDiffers(Seg, stop)
  BY <1>1, <1>4, <1>8, <1>9, DefectSeen
<1>11. ASSUME NEW k \in DOMAIN EpochRecords, EpochRecords[k].icount = stop
       PROVE  /\ sim.chain = EpochRecords[k].payload
              /\ replayed.chain # EpochRecords[k].payload <=> Truth!EpochDiffers(Seg, k)
  <2>1. PICK j \in 1..Len(log) : log[j].kind = "EPOCH_HASH" /\ EpochRecords[k] = log[j]
    BY <1>1, <1>4, BoundarySeen
  <2>2. log[j].icount = stop
    BY <1>11, <2>1
  <2>3. log[j].payload = sim.chain
    BY <1>1, <1>3, <1>4, <1>6, <2>1, <2>2, OracleAtBoundary
  <2>4. Truth!EpochDiffers(Seg, k) <=> TakesEffect(stop) /\ defect.at # stop
    BY <1>1, <1>4, <1>9, <1>11, BoundarySeen, DefectSeen
  <2>5. TakesEffect(stop) => (Epoch(defect.at) < Epoch(stop) <=> defect.at # stop)
    BY <1>1, <1>4, <2>1, <2>2, BoundaryTells
  <2> QED
    BY <1>8, <2>1, <2>3, <2>4, <2>5
<1>12. stop = header.endIcount => ChainValue(sim) = header.endHash
  BY <1>4, <1>6
<1> QED
  BY <1>10, <1>11, <1>12 DEF OracleReproducesRecording, ProbeTellsTruth

LEMMA HonestTells ==
  ASSUME ReplayInv, task = "done", verdict # "Pending"
  PROVE  verdict = Truth!HonestVerdict(Seg)
<1>1. RecInv /\ header.sealed
  BY DEF ReplayInv
<1>2. PICK r, s : Sides(r, s) /\ Replay(r, s)
  BY DEF ReplayInv
<1>3. /\ Recorded(r) /\ CutAt(Len(log), header.endIcount) /\ header.endIcount \in Nat
      /\ LET a == FinishedOn(r[Len(log)].sim, r[Len(log)].fold, header.endIcount)
         IN  ChainValue(a) = header.endHash
  BY <1>1, <1>2, OracleAtEnd DEF Sides
<1>4. PICK b : b = FinishedOn(s[Len(log)].sim, s[Len(log)].fold, header.endIcount)
  OBVIOUS
<1>5. verdict = IF Matched(s, Len(log) + 1) /\ ChainValue(b) = header.endHash
                THEN "Verified" ELSE "Diverged"
  BY <1>2, <1>4 DEF Replay
<1>6. ChainValue(b) # header.endHash <=> TakesEffect(header.endIcount)
  BY <1>1, <1>2, <1>3, <1>4, SidesTell
<1>7. ~TakesEffect(header.endIcount) => Matched(s, Len(log) + 1)
  <2> SUFFICES ASSUME ~TakesEffect(header.endIcount), NEW i \in 1..Len(log),
                      log[i].kind = "EPOCH_HASH"
               PROVE  log[i].payload = s[i].sim.chain
    BY DEF Matched
  <2>1. log[i].payload = r[i].sim.chain
    BY <1>3 DEF Recorded
  <2>2. r[i].sim = s[i].sim
    <3>1. InOrder(log) /\ defect.at \in Nat /\ defect.kind \in {"None", "Skew", "Flake"}
      BY <1>1, LogInOrder, DefectsAssumption DEF RecInv, IsDefect
    <3>2. i \in 0..Len(log) /\ \A j \in 1..i : j \in 1..Len(log)
      BY <3>1 DEF InOrder
    <3>3. \A j \in 1..Len(log) : log[j].icount \in Nat /\ log[j].icount <= header.endIcount
      BY <1>3, <3>1 DEF CutAt, InOrder
    <3>4. PICK c : c = FoldFor("recorded")
      OBVIOUS
    <3>5. PICK d : d = FoldFor("replayed")
      OBVIOUS
    <3>6. /\ IsFold(c) /\ IsRun(r, c, log) /\ IsFold(d) /\ IsRun(s, d, log)
          /\ ~c.done => c.at = defect.at
          /\ ~d.done => d.at = defect.at
          /\ ~c.done <=> defect.kind = "Skew"
          /\ ~d.done <=> defect.kind = "Flake"
      BY <1>1, <1>2, <3>4, <3>5, FoldForIs DEF RecInv, Sides, Recorded
    <3>7. defect.kind # "None" => \A j \in 1..i : log[j].icount < defect.at
      BY <1>3, <3>1, <3>2, <3>3 DEF TakesEffect
    <3>8. CASE defect.kind = "Skew"
      <4>1. ~c.done /\ d.done /\ \A j \in 1..i : log[j].icount < c.at
        BY <3>6, <3>7, <3>8
      <4> QED
        BY <3>1, <3>2, <3>6, <4>1, RunsTogether
    <3>9. CASE defect.kind = "Flake"
      <4>1. ~d.done /\ c.done /\ \A j \in 1..i : log[j].icount < d.at
        BY <3>6, <3>7, <3>9
      <4>2. s[i].sim = r[i].sim
        BY <3>1, <3>2, <3>6, <4>1, RunsTogether
      <4> QED
        BY <4>2
    <3>10. CASE defect.kind = "None"
      <4>1. c = d
        BY <3>4, <3>5, <3>10 DEF FoldFor
      <4>2. SameUpTo(log, log, Len(log))
        BY <3>1 DEF SameUpTo, InOrder
      <4>3. \A j \in 0..Len(log) : r[j] = s[j]
        BY <3>6, <4>1, <4>2, RunsAgree
      <4> QED
        BY <3>2, <4>3
    <3> QED
      BY <3>1, <3>8, <3>9, <3>10
  <2> QED
    BY <2>1, <2>2
<1>8. Truth!HonestVerdict(Seg) =
        IF TakesEffect(header.endIcount) THEN "Diverged" ELSE "Verified"
  <2>1. PICK g : g = Seg
    OBVIOUS
  <2>2. IsSeq(EpochRecords)
    BY <1>1, LogInOrder, EpochRecordsAre DEF RecInv
  <2>3. /\ Len(EpochRecords) \in Nat /\ DOMAIN EpochRecords = 1..Len(EpochRecords)
        /\ g.at = [k \in DOMAIN EpochRecords |-> EpochRecords[k].icount]
        /\ g.short = Len(EpochRecords) + 1 /\ g.badEnd = FALSE /\ g.end = header.endIcount
    BY <2>1, <2>2 DEF Seg, IsSeq
  <2>4. IsSeq(g.at) /\ Len(g.at) = Len(EpochRecords)
    BY <2>3, SeqIs DEF IsSeq
  <2>5. \A k \in 1..Len(EpochRecords) :
          Truth!EpochDiffers(g, k) => Truth!ChainDiffers(g, g.end)
    <3> SUFFICES ASSUME NEW k \in 1..Len(EpochRecords), Truth!EpochDiffers(g, k)
                 PROVE  Truth!ChainDiffers(g, g.end)
      OBVIOUS
    <3>1. PICK j \in 1..Len(log) : EpochRecords[k] = log[j]
      BY <1>1, <1>3, <2>3, BoundarySeen
    <3>2. log[j].icount \in Nat /\ log[j].icount <= header.endIcount
      BY <1>1, <1>3, LogInOrder DEF CutAt, InOrder, RecInv
    <3>3. g.defect < log[j].icount /\ g.defect \in Nat
      BY <1>1, <1>3, <2>1, <2>3, <3>1, BoundarySeen, DefectSeen
    <3> QED
      BY <1>3, <2>3, <3>2, <3>3 DEF Truth!ChainDiffers
  <2>6. Truth!ChainDiffers(g, g.end) <=> TakesEffect(header.endIcount)
    BY <1>1, <1>3, <2>1, <2>3, DefectSeen
  <2>7. ~(g.short <= Len(g.at))
    BY <2>3, <2>4
  <2> QED
    BY <2>1, <2>3, <2>4, <2>5, <2>6, <2>7 DEF Truth!HonestVerdict
<1> QED
  BY <1>5, <1>6, <1>7, <1>8

\* The oracle recomputes the very hashes the writer recorded, whatever was
\* recorded and wherever the skew landed (mock.rs:22-23).
THEOREM OracleIsTheRecording == Spec => []OracleReproducesRecording
BY ReplayInvariant, ProbeTells, PTL DEF OracleReproducesRecording

\* Divergence is monotone: a probe sees the sides differ from the defect on and
\* only then (mock.rs:384-387).
THEOREM DivergenceIsMonotone == Spec => []ProbeTellsTruth
BY ReplayInvariant, ProbeTells, PTL DEF ProbeTellsTruth

\* The honest replay reports divergence exactly of the segments whose defect
\* takes effect (mock.rs:234-289).
THEOREM HonestIsRight == Spec => []HonestTellsTruth
BY ReplayInvariant, HonestTells, PTL DEF HonestTellsTruth
=============================================================================
