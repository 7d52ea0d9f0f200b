--------------------------- MODULE ContainerFile ---------------------------
(***************************************************************************)
(* The .dilog file (replay-splice/src/container.rs) of what assemble makes *)
(* (SplicePath): DilogContainer::write lays it out, the file may then be   *)
(* damaged, or be another writer's, and DilogContainer::read decides       *)
(* whether to take it.                                                     *)
(*                                                                         *)
(* A file is a sequence of cells and all of its offsets count cells; a     *)
(* cell stands for a run of bytes.  Header, table entry and footer take    *)
(* two cells, a multiple of Align like theirs of 8, while META and the     *)
(* segments' blobs have any length and are padded.                         *)
(***************************************************************************)
EXTENDS SplicePath, SequencesExt

CONSTANTS
  Align,     \* pad8 pads to this many cells
  UsizeMax,  \* usize::MAX
  U32Max,    \* u32::MAX, the largest count of segments and length of META
  MetaLens, BlobLens,  \* the lengths META and a blob may have
  MaxEditing  \* bound: the edits made to a file and the edges it holds, less than this

VARIABLES
  file,      \* the cells
  edits,     \* the edits made so far
  damaged,   \* the footer was not made anew after an edit
  reading,   \* "NoFile", "Written", "Segments" or "Done"
  expected,  \* expected_blob_off
  segments,  \* the segments read
  outcome    \* what read returns

fileVars == <<file, edits, damaged, reading, expected, segments, outcome>>
allVars == <<vars, fileVars>>

HeaderLen == 2
EntryLen == 2
FooterLen == 2

ASSUME AlignAssumption ==
  /\ Align \in Nat \ {0} /\ HeaderLen % Align = 0 /\ EntryLen % Align = 0
  /\ UsizeMax \in Nat /\ UsizeMax % Align = Align - 1
  /\ U32Max \in Nat /\ U32Max + Align <= UsizeMax

\* Neither META nor a blob is ever empty; META, a few ids and names, has fewer
\* than 2^32 bytes (write would cut its length), a Vec isize::MAX bytes at most.
ASSUME LengthsAssumption ==
  MetaLens \subseteq 1..U32Max /\ BlobLens \subseteq 1..(UsizeMax \div 2)

\* A path has fewer than 2^32 edges, and "x" is the hash of none of them.
ASSUME EdgesAssumption ==
  \A p \in Paths :
    Len(p.segs) <= U32Max /\ \A i \in 1..Len(p.segs) : p.segs[i].endHash # "x"

Zero == [t |-> "zero"]
Space == [t |-> "space"]  \* JSON white space
Junk == [t |-> "junk"]

\* The next multiple of Align, in usize arithmetic.
Pad(n) == (((n + Align - 1) % (UsizeMax + 1)) \div Align) * Align

-----------------------------------------------------------------------------
\* write

\* Mutant: what needs no padding is padded all the same.
MutantPadded(cells) == cells \o [k \in 1..(Align - (Len(cells) % Align)) |-> Zero]
Padded(cells) == cells \o [k \in 1..(Pad(Len(cells)) - Len(cells)) |-> Zero]

HeaderCell(c) ==
  [t |-> "head", version |-> 2, flags |-> IF c.epochs THEN 1 ELSE 0,
   count |-> Len(c.segments) % (U32Max + 1), metaLen |-> Len(c.meta) % (U32Max + 1),
   root |-> c.root, machine |-> c.machine, clock |-> c.clock]

\* What the blobs before the i-th take, each of them padded, one after the other.
BlobsBefore(segs, i) ==
  LET sum[j \in 0..Len(segs)] ==
        IF j = 0 THEN 0 ELSE sum[j - 1] + Pad(Len(segs[j].blob))
  IN  sum[i - 1]

BlobOffset(c, i) ==
  HeaderLen + Pad(Len(c.meta)) + Len(c.segments) * EntryLen + BlobsBefore(c.segments, i)

TableEntry(c, i) ==
  LET s == c.segments[i]
  IN  << [t |-> "entry", node |-> s.node, base |-> s.base, child |-> s.child, hash |-> s.hash],
         [t |-> "extent", offset |-> BlobOffset(c, i), len |-> Len(s.blob)] >>

\* The footer: the hash of all that precedes it, taken for the cells themselves.
Sealed(cells) == cells \o << [t |-> "hash", of |-> cells], [t |-> "end"] >>

Stored(c) ==
  Sealed(<<HeaderCell(c), Zero>> \o Padded(c.meta)
           \o FlattenSeq([i \in DOMAIN c.segments |-> TableEntry(c, i)])
           \o FlattenSeq([i \in DOMAIN c.segments |-> Padded(c.segments[i].blob)]))

\* META's canonical JSON, and the bytes of segment i of the path.
Meta(goal, n) == [k \in 1..n |-> [t |-> "meta", goal |-> goal, part |-> k, of |-> n]]
Blob(i, n) == [k \in 1..n |-> [t |-> "blob", seg |-> i, part |-> k, of |-> n]]

\* The assembled container, its META and blobs having the lengths m and ls.
Assembly(m, ls) ==
  [root |-> result.root, machine |-> result.machine, clock |-> result.clock,
   epochs |-> result.epochs, meta |-> Meta(result.goal, m),
   segments |-> [i \in 1..NSegs |->
     [node |-> result.segments[i].node, base |-> result.segments[i].base,
      child |-> result.segments[i].child, hash |-> result.segments[i].hash,
      blob |-> Blob(i, ls[i])]]]

\* A Vec holds isize::MAX bytes at most.
Fits(cells) == Len(cells) <= UsizeMax \div 2

WriteFile ==
  /\ result.kind = "Container" /\ reading = "NoFile"
  /\ \E m \in MetaLens, ls \in [1..NSegs -> BlobLens] : file' = Stored(Assembly(m, ls))
  /\ Fits(file')
  /\ reading' = "Written"
  /\ UNCHANGED <<vars, edits, damaged, expected, segments, outcome>>

-----------------------------------------------------------------------------
\* What may become of a file between its writer and its reader

Near(n, d, max) == {n - d, n + d} \cap 0..max

\* A cell with a field changed.
Variants(cell) ==
  CASE cell.t = "head" ->
         {[cell EXCEPT !.flags = 1 - @], [cell EXCEPT !.flags = 2],
          [cell EXCEPT !.version = 1], [cell EXCEPT !.root = 99],
          [cell EXCEPT !.machine = "x"], [cell EXCEPT !.clock = "x"]}
         \cup {[cell EXCEPT !.count = n] : n \in Near(cell.count, 1, U32Max)}
         \cup {[cell EXCEPT !.metaLen = n] : n \in Near(cell.metaLen, 1, U32Max)}
    [] cell.t = "entry" ->
         {[cell EXCEPT !.node = 99], [cell EXCEPT !.base = 99],
          [cell EXCEPT !.child = 99], [cell EXCEPT !.hash = "x"]}
    [] cell.t = "extent" ->
         {[cell EXCEPT !.offset = n] : n \in Near(cell.offset, Align, UsizeMax)}
         \cup {[cell EXCEPT !.len = n] :
                 n \in Near(cell.len, 1, UsizeMax) \cup {UsizeMax - cell.offset, UsizeMax}}
    [] OTHER -> {}

\* One cell replaced, inserted or lost.
Edits(cells) ==
  UNION {{ReplaceAt(cells, p, c) : c \in Variants(cells[p]) \cup {Zero, Space, Junk}}
         \cup {InsertAt(cells, p, c) : c \in {Zero, Space, Junk}}
         \cup {RemoveAt(cells, p)} : p \in DOMAIN cells}

Body == SubSeq(file, 1, Len(file) - FooterLen)

CanEdit == reading = "Written" /\ edits + NSegs < MaxEditing

\* Another writer: what it writes differs, and has a good footer.
WrittenOtherwise ==
  /\ CanEdit /\ ~damaged
  /\ \E cells \in Edits(Body) \cup {Append(Body, Zero)} : file' = Sealed(cells)
  /\ Fits(file')
  /\ edits' = edits + 1
  /\ UNCHANGED <<vars, damaged, reading, expected, segments, outcome>>

\* Damage: the file changes and its footer does not follow.
Damage ==
  /\ CanEdit /\ edits = 0
  /\ \E cells \in Edits(file) : cells # file /\ file' = cells
  /\ Fits(file')
  /\ edits' = edits + 1 /\ damaged' = TRUE
  /\ UNCHANGED <<vars, reading, expected, segments, outcome>>

-----------------------------------------------------------------------------
\* read.  The checks in the order of the code; the first that is broken decides.

\* Bytes of any kind can be read as any field: a value that fits nothing then.
Number(cell, f) == IF f \in DOMAIN cell THEN cell[f] ELSE UsizeMax
Text(cell, f) == IF f \in DOMAIN cell THEN cell[f] ELSE "x"
Cell(p) == IF p \in DOMAIN file THEN file[p] ELSE Junk
Cells(first, last) == [k \in 1..(last - first + 1) |-> Cell(first + k - 1)]
AllZero(first, last) == \A p \in first..last : Cell(p) = Zero

Check(error, broken) == IF broken THEN error ELSE "Ok"
Passed(checks) == \A i \in DOMAIN checks : checks[i] = "Ok"
RejectBy(checks) ==
  \E i \in DOMAIN checks :
    /\ checks[i] # "Ok" /\ \A j \in 1..(i - 1) : checks[j] = "Ok"
    /\ outcome' = checks[i]

Header == Cell(1)
Count == Number(Header, "count")
MetaLen == Number(Header, "metaLen")
FooterStart == Len(file) - FooterLen
TableOff == HeaderLen + Pad(MetaLen)
BlobsOff == TableOff + Count * EntryLen
MetaCells == Cells(HeaderLen + 1, HeaderLen + MetaLen)

\* META parses as JSON, and is the one encoding of what it says.
Parses(m) ==
  \E n \in 1..Len(m) :
    /\ SubSeq(m, 1, n) = Meta(Number(m[1], "goal"), n)
    /\ \A k \in (n + 1)..Len(m) : m[k] = Space
CanonicalJson(m) == \A k \in DOMAIN m : m[k] # Space

HeaderChecks ==
  << Check("Truncated", Len(file) < HeaderLen + FooterLen),
     Check("BadMagic", Header.t # "head"),
     Check("UnsupportedVersion", Number(Header, "version") # 2),
     Check("NonzeroReserved", Number(Header, "flags") \notin {0, 1}),
     Check("NonzeroReserved", Cell(2) # Zero),
     Check("BadEndMagic", Cell(Len(file)).t # "end"),
     Check("BadFooterHash", Cell(FooterStart + 1) # [t |-> "hash", of |-> Body]),
     Check("NonCanonical", Count = 0),
     Check("Panic", MetaLen + Align - 1 > UsizeMax),
     Check("Truncated", BlobsOff > UsizeMax),
     Check("Truncated", BlobsOff > FooterStart),
     Check("Panic", HeaderLen + MetaLen > TableOff),
     Check("NonCanonical", ~AllZero(HeaderLen + MetaLen + 1, TableOff)),
     Check("Meta", ~Parses(MetaCells)),
     Check("NonCanonical", ~CanonicalJson(MetaCells)) >>

HeaderAccepted ==
  /\ reading = "Written" /\ Passed(HeaderChecks)
  /\ reading' = "Segments" /\ expected' = BlobsOff
  /\ UNCHANGED <<vars, file, edits, damaged, segments, outcome>>

HeaderRejected ==
  /\ reading = "Written" /\ RejectBy(HeaderChecks)
  /\ reading' = "Done"
  /\ UNCHANGED <<vars, file, edits, damaged, expected, segments>>

\* The table entry of the segment in hand.
EntryAt == TableOff + Len(segments) * EntryLen
Refs == Cell(EntryAt + 1)
BlobLen == Number(Cell(EntryAt + 2), "len")
BlobEnd == expected + BlobLen

\* Mutant: padded first, and then compared with the end of the file.
MutantExtentChecks ==
  << Check("Panic", EntryAt + EntryLen > Len(file)),
     Check("NonCanonical", Number(Cell(EntryAt + 2), "offset") # expected),
     Check("Truncated", BlobEnd > UsizeMax),
     Check("Panic", BlobEnd + Align - 1 > UsizeMax),
     Check("Truncated", Pad(BlobEnd) > FooterStart),
     Check("Panic", BlobEnd > Len(file)),
     Check("NonCanonical", ~AllZero(BlobEnd + 1, Pad(BlobEnd))) >>
\* Where its blob lies.  An addition that overflows, or a slice of bytes the file
\* has not, is a panic.
ExtentChecks ==
  << Check("Panic", EntryAt + EntryLen > Len(file)),
     Check("NonCanonical", Number(Cell(EntryAt + 2), "offset") # expected),
     Check("Truncated", BlobEnd > UsizeMax),
     Check("Truncated", BlobEnd > FooterStart),
     Check("Panic", BlobEnd + Align - 1 > UsizeMax),
     Check("Truncated", Pad(BlobEnd) > FooterStart),
     Check("Panic", BlobEnd > Len(file)),
     Check("NonCanonical", ~AllZero(BlobEnd + 1, Pad(BlobEnd))) >>

\* DhilogSegment::parse, of bytes that are one segment and nothing else.
IsBlob(cells) == cells # <<>> /\ \E i \in 1..NSegs : cells = Blob(i, Len(cells))

\* Mutant: the first segment has none before it, so nothing is compared.
MutantAdjacent(base) == segments # <<>> => base = segments[Len(segments)].child
\* The adjacency chain of the table.
Adjacent(base) ==
  base = IF segments = <<>> THEN Number(Header, "root") ELSE segments[Len(segments)].child

\* What is in the blob: its header is Seg's.
ContentChecks(blob) ==
  IF ~IsBlob(blob) THEN <<"Segment">> ELSE
  LET h == Seg(blob[1].seg)
      base == Number(Refs, "base")
  IN << Check("Segment", h.version \notin SupportedVersions),
        Check("Segment", h.structure # "Ok"),
        Check("Disagreement", base # h.base),
        Check("Disagreement", Number(Refs, "child") # h.end),
        Check("Disagreement", Text(Refs, "hash") # h.endHash),
        Check("Disagreement", h.machine # Text(Header, "machine")),
        Check("Disagreement", h.clock # Text(Header, "clock")),
        Check("Disagreement", ~Adjacent(base)) >>

SegmentRejected ==
  /\ reading = "Segments" /\ Len(segments) < Count
  /\ \/ RejectBy(ExtentChecks)
     \/ Passed(ExtentChecks) /\ RejectBy(ContentChecks(Cells(expected + 1, BlobEnd)))
  /\ reading' = "Done"
  /\ UNCHANGED <<vars, file, edits, damaged, expected, segments>>

SegmentAccepted ==
  /\ reading = "Segments" /\ Len(segments) < Count
  /\ Passed(ExtentChecks)
  /\ LET blob == Cells(expected + 1, BlobEnd)
     IN  /\ Passed(ContentChecks(blob))
         /\ segments' = Append(segments,
              [node |-> Number(Refs, "node"), base |-> Number(Refs, "base"),
               child |-> Number(Refs, "child"), hash |-> Text(Refs, "hash"), blob |-> blob])
  /\ expected' = Pad(BlobEnd)
  /\ UNCHANGED <<vars, file, edits, damaged, reading, outcome>>

AllEpochs == \A i \in DOMAIN segments : Seg(segments[i].blob[1].seg).epochs

\* Mutant: what follows the last blob is not looked at.
MutantEndChecks == << Check("NonCanonical", (Number(Header, "flags") = 1) # AllEpochs) >>
EndChecks ==
  << Check("NonCanonical", expected # FooterStart),
     Check("NonCanonical", (Number(Header, "flags") = 1) # AllEpochs) >>

ReadEnds ==
  /\ reading = "Segments" /\ Len(segments) = Count
  /\ \/ Passed(EndChecks) /\ outcome' = "Ok"
     \/ RejectBy(EndChecks)
  /\ reading' = "Done"
  /\ UNCHANGED <<vars, file, edits, damaged, expected, segments>>

\* The container an accepted file holds.
Container ==
  [root |-> Header.root, machine |-> Header.machine, clock |-> Header.clock,
   epochs |-> AllEpochs, meta |-> MetaCells, segments |-> segments]

-----------------------------------------------------------------------------
ReadStep ==
  \/ HeaderAccepted \/ HeaderRejected
  \/ SegmentAccepted \/ SegmentRejected
  \/ ReadEnds

FileInit ==
  /\ Init
  /\ file = <<>> /\ edits = 0 /\ damaged = FALSE
  /\ reading = "NoFile" /\ expected = 0 /\ segments = <<>>
  /\ outcome = "None"

AssembleStep == Step /\ UNCHANGED fileVars

\* A path that is refused, or a file that is read, is the end of it.
Over ==
  /\ reading = "Done" \/ result.kind \in {"Rule", "VerifyUnsupported"}
  /\ UNCHANGED allVars

FileNext ==
  \/ AssembleStep
  \/ WriteFile
  \/ WrittenOtherwise \/ Damage
  \/ ReadStep
  \/ Over

FileSpec == FileInit /\ [][FileNext]_allVars

-----------------------------------------------------------------------------
\* Properties

\* Whatever assemble lets through, write and read bring back unchanged: the
\* rules R1 to R6 of a path are enough for every check read makes of a file,
\* which knows only the segments' headers and the table (assemble.rs:59-80,
\* container.rs:117-376).
AssembledIsReadBack ==
  (reading = "Done" /\ edits = 0) =>
    /\ outcome = "Ok"
    /\ \E m \in MetaLens, ls \in [1..NSegs -> BlobLens] : Container = Assembly(m, ls)

\* A container has one encoding: an accepted file is, cell for cell, what write
\* makes of the container read from it, paddings, offsets, flags and all, and it
\* is as its writer left it (container.rs:3-6, 182-184).
AcceptedIsCanonical ==
  outcome = "Ok" => ~damaged /\ file = Stored(Container)

\* An accepted file, whoever wrote it, can be replayed from its table alone: each
\* segment it holds is whole, sound, of a known version and of the container's
\* machine and clock, and starts where the one before ended, as its own header
\* says (container.rs:309-358).
AcceptedIsReplayable ==
  outcome = "Ok" =>
    \A i \in DOMAIN segments :
      LET s == segments[i]
          h == Seg(s.blob[1].seg)
      IN  /\ s.blob = Blob(s.blob[1].seg, Len(s.blob)) /\ s.blob[1].of = Len(s.blob)
          /\ h.version \in SupportedVersions /\ h.structure = "Ok"
          /\ h.machine = Header.machine /\ h.clock = Header.clock
          /\ h.base = IF i = 1 THEN Header.root ELSE Seg(segments[i - 1].blob[1].seg).end
          /\ h.endHash = s.hash /\ h.end = s.child

\* The reader refuses what it cannot read: no offset or length, up to the largest
\* there is, makes it add past usize or take a slice outside of the file
\* (container.rs:8-11, 269-280).
ReaderNeverPanics == outcome # "Panic"
=============================================================================
