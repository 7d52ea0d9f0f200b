----------------------------- MODULE FramePack -----------------------------
(***************************************************************************)
(* The .rfp frame pack (replay-frames/src/rfp.rs): a writer pushes frames  *)
(* and finishes with a footer; the file it leaves may be torn or damaged;  *)
(* the reader walks it record by record and decides whether a render may   *)
(* resume from it (Complete) or not (Torn).                                *)
(*                                                                         *)
(* A file is a sequence of cells, a cell a run of bytes.  A record's three *)
(* are 12, 4 and 12 bytes and the footer's four 12, 4, 12 and 21, so that  *)
(* what a reader that misses the footer takes for a record is what the     *)
(* code would take for one.                                                *)
(***************************************************************************)
EXTENDS Naturals, Sequences

CONSTANTS
  Frames,     \* what push may be given (see IsFrame)
  HashLens,   \* what bytes 7 to 10 of a hash may be, read as a length
  Damages,    \* the cells that damage may put in the place of another
  MaxFrames   \* bound: the frames of a pack

HeaderCell == [t |-> "head"]

\* What a cell's bytes say where a record's length is looked for is a length.
HasLength(c) == "len" \in DOMAIN c => c.len \in Nat

\* A frame is not made knowing the hash of a pack it will be in.
HashesNoPack(c) == "hash" \in DOMAIN c => c.hash = <<>> \/ c.hash[1] # HeaderCell

\* frame_index, segment_index, comp (0 raw, 1 lz4), icount and the bytes.  A
\* frame has fewer than 2^32 bytes: push's cast of their number to u32, which
\* would cut more, is left out.
IsFrame(f) ==
  /\ f = [frame |-> f.frame, segment |-> f.segment, comp |-> f.comp, icount |-> f.icount,
          bytes |-> f.bytes]
  /\ f.comp \in {0, 1}
  /\ Len(f.bytes) \in Nat /\ f.bytes = [i \in 1..Len(f.bytes) |-> f.bytes[i]]
  /\ \A i \in 1..Len(f.bytes) : HasLength(f.bytes[i]) /\ HashesNoPack(f.bytes[i])

ASSUME FramesAssumption == \A f \in Frames : IsFrame(f)
ASSUME HashLensAssumption == HashLens \subseteq Nat
ASSUME DamagesAssumption == \A c \in Damages : HasLength(c)

VARIABLES
  pushed,    \* the frames pushed
  ends,      \* where the cells of each of them end
  buf,       \* the writer's cells
  finished,  \* what finish was called with: "No", "True" or "False"
  file,      \* the cells of the file
  accident,  \* what befell the file: "None", "Cut" or "Damage"
  sound,     \* how many cells from the first on are as they were written
  reading,   \* "No", "Records" or "Done"
  footer,    \* where the footer begins, or 0: footer_ok
  off,       \* the cells before the next record
  framing,   \* framing_ok
  records,   \* the records read
  outcome    \* what read_rfp returns

writeVars == <<pushed, ends, buf, finished>>
fileVars == <<file, accident, sound>>
readVars == <<reading, footer, off, framing, records, outcome>>
vars == <<writeVars, fileVars, readVars>>

HeaderLen == 1
RecordHeaderLen == 3
FooterLen == 4

-----------------------------------------------------------------------------
\* RfpWriter

RecordCells(f) ==
  << [t |-> "id", frame |-> f.frame, segment |-> f.segment],
     [t |-> "comp", comp |-> f.comp],
     [t |-> "mark", icount |-> f.icount, len |-> Len(f.bytes)] >> \o f.bytes

\* The hash of cells is the cells; a part of it can be read as the length h.
FooterCells(cells, n, complete, h) ==
  << [t |-> "end", count |-> n],
     [t |-> "high"],
     [t |-> "flag", complete |-> complete, hash |-> cells, len |-> h],
     [t |-> "rest", hash |-> cells] >>

Push(f) ==
  /\ finished = "No" /\ Len(pushed) < MaxFrames
  /\ pushed' = Append(pushed, f)
  /\ buf' = buf \o RecordCells(f)
  /\ ends' = Append(ends, Len(buf'))
  /\ UNCHANGED <<finished, fileVars, readVars>>

Finish ==
  /\ finished = "No"
  /\ \E complete \in {0, 1}, h \in HashLens :
       /\ finished' = IF complete = 1 THEN "True" ELSE "False"
       /\ buf' = buf \o FooterCells(buf, Len(pushed), complete, h)
  /\ file' = buf' /\ sound' = Len(buf')
  /\ UNCHANGED <<pushed, ends, accident, readVars>>

-----------------------------------------------------------------------------
\* What becomes of the file: one accident.

Intact == finished # "No" /\ reading = "No" /\ accident = "None"

\* The file ends early.
Cut ==
  /\ Intact
  /\ \E n \in 0..(Len(buf) - 1) : file' = SubSeq(buf, 1, n) /\ sound' = n
  /\ accident' = "Cut"
  /\ UNCHANGED <<writeVars, readVars>>

\* A cell with a field changed.
Altered(c) ==
  CASE c.t = "id" -> {[c EXCEPT !.frame = @ + 1]}
    [] c.t = "comp" -> {[c EXCEPT !.comp = 1 - @], [c EXCEPT !.comp = 2]}
    [] c.t = "mark" -> {[c EXCEPT !.len = @ + 1], [c EXCEPT !.len = 0]}
    [] c.t = "end" -> {[c EXCEPT !.count = @ + 1], [c EXCEPT !.count = 0]}
    [] c.t = "flag" -> {[c EXCEPT !.complete = 1 - @], [c EXCEPT !.hash = <<>>]}
    [] OTHER -> {}

\* A cell changes.
Damage ==
  /\ Intact
  /\ \E p \in 1..Len(buf) : \E c \in Altered(buf[p]) \cup Damages :
       /\ c # buf[p]
       /\ file' = [buf EXCEPT ![p] = c] /\ sound' = p - 1
  /\ accident' = "Damage"
  /\ UNCHANGED <<writeVars, readVars>>

-----------------------------------------------------------------------------
\* read_rfp

\* A field of a cell; of any other cell's bytes zero is as good as any value.
Field(cell, f) == IF f \in DOMAIN cell THEN cell[f] ELSE 0

HeaderOk == Len(file) >= HeaderLen /\ file[1] = HeaderCell

HeaderErrs ==
  /\ reading = "No" /\ finished # "No"
  /\ ~HeaderOk
  /\ reading' = "Done" /\ outcome' = "Error"
  /\ UNCHANGED <<writeVars, fileVars, footer, off, framing, records>>

\* Mutant: the magic is enough.
MutantHashOk(fs) == TRUE
\* The hash in the footer at fs is the hash of what precedes it.
HashOk(fs) ==
  LET body == SubSeq(file, 1, fs)
  IN  /\ "hash" \in DOMAIN file[fs + 3] /\ file[fs + 3].hash = body
      /\ "hash" \in DOMAIN file[fs + 4] /\ file[fs + 4].hash = body

\* The last cells of the file are a footer.
FooterOk ==
  LET fs == Len(file) - FooterLen
  IN  Len(file) >= FooterLen /\ file[fs + 1].t = "end" /\ HashOk(fs)

LocateFooter ==
  /\ reading = "No" /\ finished # "No"
  /\ HeaderOk
  /\ footer' = IF FooterOk THEN Len(file) - FooterLen ELSE 0
  /\ off' = HeaderLen
  /\ reading' = "Records"
  /\ UNCHANGED <<writeVars, fileVars, framing, records, outcome>>

\* Mutant: the last cells are taken for a footer, good or not.
MutantZoneEnd == Len(file) - FooterLen
\* Where the records end.
ZoneEnd == IF footer > 0 THEN footer ELSE Len(file)

More == framing /\ off < ZoneEnd
CompField == Field(file[off + 2], "comp")
LenField == Field(file[off + 3], "len")

\* What is left begins with a whole record.
Framed ==
  /\ ZoneEnd - off >= RecordHeaderLen
  /\ off + RecordHeaderLen + LenField <= ZoneEnd
  /\ CompField \in {0, 1}

ReadRecord ==
  /\ reading = "Records" /\ More /\ Framed
  /\ records' = Append(records,
       [frame |-> Field(file[off + 1], "frame"), segment |-> Field(file[off + 1], "segment"),
        comp |-> CompField, icount |-> Field(file[off + 3], "icount"),
        bytes |-> SubSeq(file, off + RecordHeaderLen + 1, off + RecordHeaderLen + LenField)])
  /\ off' = off + RecordHeaderLen + LenField
  /\ UNCHANGED <<writeVars, fileVars, reading, footer, framing, outcome>>

FramingBreaks ==
  /\ reading = "Records" /\ More /\ ~Framed
  /\ framing' = FALSE
  /\ UNCHANGED <<writeVars, fileVars, reading, footer, off, records, outcome>>

\* The footer is good, the framing too, and the footer says the pack is complete
\* and how many records it has.
Resumable ==
  /\ footer > 0 /\ framing
  /\ Field(file[footer + 3], "complete") = 1
  /\ file[footer + 1].count = Len(records) /\ file[footer + 2] = [t |-> "high"]

ReadEnds ==
  /\ reading = "Records" /\ ~More
  /\ outcome' = IF Resumable THEN "Complete" ELSE "Torn"
  /\ reading' = "Done"
  /\ UNCHANGED <<writeVars, fileVars, footer, off, framing, records>>

-----------------------------------------------------------------------------
Accident == Cut \/ Damage
ReadStep == HeaderErrs \/ LocateFooter \/ ReadRecord \/ FramingBreaks \/ ReadEnds

Init ==
  /\ pushed = <<>> /\ ends = <<>> /\ buf = <<HeaderCell>> /\ finished = "No"
  /\ file = <<>> /\ accident = "None" /\ sound = 0
  /\ reading = "No" /\ footer = 0 /\ off = 0 /\ framing = TRUE
  /\ records = <<>> /\ outcome = "None"

Over == reading = "Done" /\ UNCHANGED vars

Next ==
  \/ \E f \in Frames : Push(f)
  \/ Finish
  \/ Accident
  \/ ReadStep
  \/ Over

Spec == Init /\ [][Next]_vars

-----------------------------------------------------------------------------
\* Properties

\* The cell of a finished pack that says whether it is complete.
FlagAt == Len(file) - 1

\* A pack a render resumes from holds every frame that was pushed, whole and in
\* order, and nothing else, wherever the file was cut or damaged; and it is one
\* that was finished as complete, unless the accident hit the very cell that
\* says so, which the hash does not cover (rfp.rs:4-6, 149-153, 202-206, 236).
\* A complete pack that nothing happened to is never refused.
ResumeIsSafe ==
  /\ outcome = "Complete" =>
       /\ records = pushed
       /\ finished = "True" \/ (accident = "Damage" /\ sound = FlagAt - 1)
  /\ (reading = "Done" /\ finished = "True" /\ accident = "None") => outcome = "Complete"

\* The i-th frame pushed and those before it lie before the accident.
Kept(i) == i \in 1..Len(pushed) /\ ends[i] <= sound

\* A torn pack loses no frame before the accident: all of them are read, as they
\* were pushed; and of a file that was only cut, nothing else is made up but at
\* most one record, of what is left of the footer (rfp.rs:4-6, 164-165, 222-224).
TornKeepsFrames ==
  outcome \in {"Complete", "Torn"} =>
    /\ \A i \in 1..Len(pushed) : Kept(i) => i <= Len(records) /\ records[i] = pushed[i]
    /\ accident # "Damage" => \A i \in 1..(Len(records) - 1) : Kept(i)
=============================================================================
