------------------------------- MODULE Inventory -------------------------------
(***************************************************************************)
(* The structural inventory of a RAW file (src/src/inventory/mod.rs): one  *)
(* call of DecodeJob::inventory, from the check of the stop token to the   *)
(* report.  A CR3 is walked box by box, a RAF section by section; the TIFF *)
(* of a TIFF-based RAW, of a RAF's sections and of a CR3's CMT boxes is    *)
(* walked by zenmeta, which is external: a walk asks the rules whether to  *)
(* stop, may run out of its budget, and yields directories.                *)
(*                                                                         *)
(* Positions are 1..Size; a box header takes one of them.  The walk reads  *)
(* a header at a position at most once, so what the file holds there is    *)
(* chosen when it is read.  trak stands for the trak box with the mdia and *)
(* minf inside it, stbl for the sample tables; which of a box's bytes are  *)
(* header, which payload, padding boxes and the wording of details are      *)
(* left out.                                                               *)
(***************************************************************************)
EXTENDS Integers, Sequences, FiniteSets, TLC

CONSTANTS
  Builds,     \* which backends the crate may be built with
  Size,       \* bound: positions of a file
  MaxBoxes,   \* the box budget of a CR3 walk (4096)
  MaxDepth,   \* its depth cap (16)
  Reasons,    \* why a stop token may ask to stop
  KindsIn,    \* bound: per parent, the boxes a file may hold there
  Tables,     \* bound: what the sample tables of a track may be
  Samples,    \* bound: the samples tables may locate
  Files,      \* bound: what a call may be given
  MaxHeader   \* where a RAF's preview may start at the latest to end its header (4096)

\* at is the first position, end the one after the last.
Ranges == {r \in [at : 1 .. Size, end : 1 .. Size + 1] : r.at < r.end}

\* The boxes of a CR3; canon and xmp are uuid boxes.
Kinds == {"moov", "trak", "stbl", "canon", "CCTP", "CMT", "mdat", "xmp", "ftyp"}

\* A section of a RAF, as its header gives it: it may run past the file.
\* holds: the JPEG or CFA section holds a TIFF, the header an ImageWidth record.
Sections == [off : 1 .. Size + 1, len : 0 .. Size, holds : BOOLEAN]

\* whole: the header with the section offsets is there.
RafSpace == [whole : BOOLEAN, jpeg : Sections, cfa : Sections, header : Sections]

\* container: what the first bytes announce.  fits: the job's limit admits it.
\* raw, gate: is_raw_file and the backend's container_check take it.
\* packet: where the byte scan finds the first XMP packet, if it does.
FileSpace ==
  [container : {"cr3", "raf", "tiff", "other"}, fits : BOOLEAN, raw : BOOLEAN, gate : BOOLEAN,
   packet : {{}} \cup {{r} : r \in Ranges}, raf : RafSpace]

ASSUME InventoryAssumption ==
  /\ Builds \subseteq {"rawler", "rawloader"}
  /\ Size \in Nat \ {0} /\ MaxBoxes \in Nat /\ MaxDepth \in Nat
  /\ "none" \notin Reasons
  /\ Tables \subseteq SUBSET {"stsz", "co64", "stco", "CTMD"}
  /\ Samples \subseteq Seq(Ranges)
  /\ DOMAIN KindsIn = {"Top", "Moov", "Trak", "Canon", "Other"}
  /\ \A parent \in DOMAIN KindsIn : KindsIn[parent] \subseteq Kinds
  /\ Files \subseteq FileSpace
  /\ MaxHeader \in Nat

File == 0     \* what the top-level parts are in

VARIABLES
  build, file,        \* the crate's backend; what the call is given
  reason,             \* InventoryStop: the stop reason, once the token gave one
  asked, truncated,   \* history: the token's first reason; some walk stopped early
  pc,                 \* where the call is
  stack,              \* CR3: the walk_box calls in progress
  budget, traks, rawTrak, cancelled, stopped, packetPlaced,   \* CR3: the walk's state
  tiff,               \* the place_tiff call in progress
  widths,             \* RAF: whether a TIFF held RafImageWidth
  parts, logicalEnd, gap,   \* the placement
  result

given  == <<build, file>>
stop   == <<reason, asked>>
walk   == <<budget, traks, rawTrak, stopped, packetPlaced>>
placed == <<parts, logicalEnd, gap>>
vars   == <<given, stop, truncated, pc, stack, walk, cancelled, tiff, widths, placed, result>>

\* in: the box or section it is listed in.  lists: its children are listed.
Part(at, end, in, kind, disp) ==
  [at |-> at, end |-> end, in |-> in, kind |-> kind, disp |-> disp, gap |-> "Unreferenced",
   lists |-> FALSE]

\* The packet the report surfaces: a CR3 is decoded by rawler only.
Packet == IF file.container = "cr3" /\ build = "rawloader" THEN {} ELSE file.packet

\* Disposition::is_consumed: what the decode reads.
Consumed == {"Structure", "ImageData", "Metadata"}

(***************************************************************************)
(* The stop token.                                                         *)
(***************************************************************************)
\* Mutant: nothing is kept, the token is asked anew every time.
HeardAnew(answer) == answer

\* should_stop: the token is asked until it has given a reason.
Heard(answer) == IF reason = "none" THEN answer ELSE reason

Ask ==
  \E answer \in Reasons \cup {"none"} :
    /\ reason' = Heard(answer)
    /\ asked' = IF asked = "none" THEN answer ELSE asked

Told == reason' # "none"

(***************************************************************************)
(* CR3.                                                                    *)
(***************************************************************************)
\* What rawler's reader does with a box; what it does not parse it skips.
RawlerTable ==
  [Top   |-> [moov |-> "Moov", mdat |-> "Mdat", xmp |-> "Xmp", ftyp |-> "Whole"],
   Moov  |-> [trak |-> "Trak", canon |-> "Canon"],
   Trak  |-> [stbl |-> "Whole"],
   Canon |-> [CCTP |-> "Whole", CMT |-> "Cmt"]]

RawlerParse(parent, kind) ==
  IF kind \in DOMAIN RawlerTable[parent] THEN RawlerTable[parent][kind] ELSE "Header"

\* Under rawloader nothing is decoded; containers are still enumerated.
RawloaderParse(parent, kind) ==
  CASE kind = "ftyp" -> "Whole"
    [] kind \in {"moov", "trak"} -> "Other"
    [] kind = "canon" -> "Canon"
    [] kind = "CMT" /\ parent = "Canon" -> "Cmt"
    [] kind = "mdat" -> "Mdat"
    [] OTHER -> "Header"

Parse(parent, kind) ==
  IF build = "rawler" THEN RawlerParse(parent, kind) ELSE RawloaderParse(parent, kind)

Containers == {"Moov", "Trak", "Canon", "Other"}

\* The innermost walk_box call that lists children, or cr3's own loop.
Frame == stack[Len(stack)]

Call(at, end, depth, trak, parent, box) ==
  [at |-> at, end |-> end, depth |-> depth, trak |-> trak, parent |-> parent, box |-> box]

\* The loop condition: only inside a box do the budget and the depth count.
MoreToList(f) ==
  /\ f.at < f.end
  /\ f.box # File => f.depth <= MaxDepth /\ budget > 0

\* Mutants: clipped to the file, not to the parent; a size of zero taken as no
\* size.
EndInFile(f, size)  == IF size = 0 \/ f.at + size > Size + 1 THEN f.end ELSE f.at + size
EndAtZero(f, size)  == IF f.at + size > f.end THEN f.end ELSE f.at + size

\* The range a box takes in its parent, and whether it runs past it.
BoxEnd(f, size) ==
  IF size = 0 \/ f.at + size > f.end THEN f.end ELSE f.at + size
Cut(f, size) == f.at + size > f.end

BoxDisp(parse, cut) ==
  IF cut THEN "Malformed"
  ELSE IF build = "rawler" \/ parse = "Whole" THEN "Structure" ELSE "Skipped"

\* The token says stop: the call returns nothing and its caller's loop ends.
Listing == pc = "boxes" /\ Frame.parent # "Cmt"

Abandon ==
  /\ cancelled' = TRUE
  /\ truncated' = TRUE
  /\ stack' = SubSeq(stack, 1, Len(stack) - 1)
  /\ UNCHANGED <<walk, parts, logicalEnd>>

\* No box header here: the rest of the parent is malformed.
BadHeader ==
  LET f == Frame IN
  /\ parts' = parts \cup {Part(f.at, f.end, f.box, "rest", "Malformed")}
  /\ stack' = [stack EXCEPT ![Len(stack)].at = f.end]
  /\ logicalEnd' = IF f.box = File THEN f.end ELSE logicalEnd
  /\ UNCHANGED <<walk, cancelled, truncated>>

\* Mutant: from any box that has a part of it.
HoldsSome(at, end) == \E p \in Packet : at < p.end /\ p.at < end

\* The XMP packet is surfaced from the box whose payload holds it.
HoldsPacket(at, end) ==
  \E p \in Packet : at < p.at /\ p.end <= end

\* The packet, when a box that is read to its end holds it.
Surfaced(parse, cut, at, end) == parse = "Xmp" /\ ~cut /\ HoldsPacket(at, end)

\* The tables and the raw track's number are noted whatever is done with the box.
NoteTables(trak, kind) ==
  IF kind = "stbl" /\ trak # 0
  THEN \E t \in Tables : traks' = [traks EXCEPT ![trak] = @ \cup t]
  ELSE traks' = IF kind = "trak" /\ Frame.depth <= 1 THEN Append(traks, {}) ELSE traks

ReadCctp(kind) ==
  rawTrak' \in IF kind = "CCTP" THEN {rawTrak, 1, 2} ELSE {rawTrak}

ReadBox(kind, size) ==
  LET f     == Frame
      end   == BoxEnd(f, size)
      cut   == Cut(f, size)
      parse == Parse(f.parent, kind)
      lists == ~cut /\ parse \in Containers
      box   == [Part(f.at, end, f.box, kind, BoxDisp(parse, cut)) EXCEPT !.lists = lists]
      xmp   == {Part(p.at, p.end, f.at, "XMP", "Metadata") : p \in Packet}
      trak  == IF kind = "trak" /\ f.depth <= 1 THEN Len(traks) + 1 ELSE f.trak
      next  == [stack EXCEPT ![Len(stack)].at = end]
  IN
  /\ budget' = IF budget = 0 THEN 0 ELSE budget - 1
  /\ parts' = parts \cup {box} \cup IF Surfaced(parse, cut, f.at, end) THEN xmp ELSE {}
  /\ packetPlaced' = (packetPlaced \/ Surfaced(parse, cut, f.at, end))
  /\ NoteTables(trak, kind)
  /\ ReadCctp(kind)
  /\ logicalEnd' = IF f.box = File THEN end ELSE logicalEnd
  /\ stack' = IF lists \/ (~cut /\ parse = "Cmt")
              THEN Append(next, Call(f.at + 1, end, f.depth + 1, trak, parse, f.at))
              ELSE next
  /\ UNCHANGED <<stopped, cancelled, truncated>>

WalkBox ==
  /\ Listing /\ MoreToList(Frame)
  /\ Ask
  /\ \/ Told /\ Abandon
     \/ ~Told /\ BadHeader
     \/ ~Told /\ \E kind \in KindsIn[Frame.parent], size \in 0 .. Size : ReadBox(kind, size)
  /\ pc' = IF stack' = << >> THEN "samples" ELSE pc
  /\ UNCHANGED <<given, tiff, widths, gap, result>>

WithGap(at) == {IF p.at = at /\ p.lists THEN [p EXCEPT !.gap = "Unknown"] ELSE p : p \in parts}

\* A loop ends; what the budget or the depth left unlisted is unknown.
EndOfBox ==
  LET f      == Frame
      capped == f.at < f.end /\ ~cancelled
  IN
  /\ Listing /\ ~MoreToList(f)
  /\ stopped' = (stopped \/ capped)
  /\ parts' = IF capped THEN WithGap(f.box) ELSE parts
  /\ stack' = SubSeq(stack, 1, Len(stack) - 1)
  /\ pc' = IF stack' = << >> THEN "samples" ELSE pc
  /\ UNCHANGED <<given, stop, truncated, budget, traks, rawTrak, packetPlaced, cancelled,
                 tiff, widths, logicalEnd, gap, result>>

\* samples: a track has some when its tables give sizes and chunk offsets.
Located(t) == "stsz" \in traks[t] /\ traks[t] \cap {"co64", "stco"} # {}

SampleDisp(t, n) ==
  IF build # "rawler" THEN "Skipped"
  ELSE IF rawTrak = t THEN IF n = 1 /\ "co64" \in traks[t] THEN "ImageData" ELSE "Skipped"
  ELSE IF n = 1 /\ "CTMD" \in traks[t] THEN "Structure" ELSE "Skipped"

Media == {m \in parts : m.kind = "mdat" /\ m.in = File /\ m.disp # "Malformed"}

\* The n-th sample of track t, listed under media data m.
Sample(located, t, n, m) ==
  Part(located[t][n].at, located[t][n].end, m.at, "sample", SampleDisp(t, n))

\* Each track's samples hang under the media data that holds them whole.
LiesIn(r, m) == r.at > m.at /\ r.end <= m.end

Extents(located) ==
  UNION {UNION {{Sample(located, t, n, m) : n \in {x \in DOMAIN located[t] : LiesIn(located[t][x], m)}} :
                  t \in 1 .. Len(traks)} : m \in Media}

\* Mutant: what the depth cap leaves out is forgotten.
IncompleteByBudget == budget = 0

Incomplete == stopped \/ budget = 0

\* map_samples, and the packet when no box surfaced it.
MapSamples ==
  /\ pc = "samples"
  /\ \E located \in [1 .. Len(traks) -> Samples] :
       /\ \A t \in 1 .. Len(traks) : ~Located(t) => located[t] = << >>
       /\ parts' = {IF Incomplete /\ p \in Media THEN [p EXCEPT !.gap = "Unknown"] ELSE p : p \in parts}
                   \cup Extents(located)
                   \cup {Part(p.at, p.end, File, "XMP", "Metadata") :
                           p \in IF packetPlaced THEN {} ELSE Packet}
  /\ gap' = IF Incomplete THEN "Unknown" ELSE "Unreferenced"
  /\ pc' = "final"
  /\ UNCHANGED <<given, stop, truncated, stack, walk, cancelled, tiff, widths, logicalEnd, result>>

(***************************************************************************)
(* One TIFF: place_tiff.                                                   *)
(***************************************************************************)
\* sony: what the first walk finds, Make "SONY" and no DNGVersion.
\* follows: whether the walk held now followed the pointer to SR2Private.
NewTiff(role, in, at, end) ==
  [role |-> role, in |-> in, at |-> at, end |-> end, sony |-> FALSE, follows |-> FALSE,
   ok |-> TRUE, cancelled |-> FALSE]

StartTiff(role, in, at, end) ==
  /\ tiff' = NewTiff(role, in, at, end)
  /\ pc' = "walk"

\* A CMT box's payload is the next thing to walk.
StartCmt ==
  /\ pc = "boxes" /\ Frame.parent = "Cmt"
  /\ StartTiff("Cmt", Frame.box, Frame.at, Frame.end)
  /\ UNCHANGED <<given, stop, truncated, stack, walk, cancelled, widths, placed, result>>

\* The rules ask the token for the walk; what it found stays what it was.
TiffWalk(t) ==
  /\ Ask
  /\ truncated' = (truncated \/ Told)
  /\ tiff' = [t EXCEPT !.cancelled = Told]
  /\ UNCHANGED <<given, stack, walk, cancelled, widths, placed, result>>

FirstWalk ==
  /\ pc = "walk"
  /\ \E sony \in IF tiff.role = "Main" THEN BOOLEAN ELSE {FALSE}, ok \in BOOLEAN :
       /\ TiffWalk([tiff EXCEPT !.sony = sony, !.ok = ok])
       /\ pc' = IF sony THEN "rewalk" ELSE "notes"

\* DNGPrivateData leads to SR2Private only for Sony ARWs: walk again with it.
SecondWalk ==
  /\ pc = "rewalk"
  /\ \E ok \in BOOLEAN : TiffWalk([tiff EXCEPT !.follows = tiff.sony, !.ok = ok])
  /\ pc' = "notes"

\* Maker notes are walked to find the raw and the orientation directory and
\* again to be placed; their walks only ask the token, and report no cancel.
MakerNotes ==
  /\ pc = "notes"
  /\ \/ /\ tiff.role \in {"Main", "Jpeg"}
        /\ Ask
        /\ truncated' = (truncated \/ Told)
     \/ UNCHANGED <<stop, truncated>>
  /\ pc' = "place"
  /\ UNCHANGED <<given, stack, walk, cancelled, tiff, widths, placed, result>>

\* The parts of the TIFF, and where the call goes on.  Only Main's own
\* failure to parse makes what nothing references malformed.
Contents(hit, read) ==
  LET body == Part(tiff.at, tiff.end, tiff.in, "tiff", IF read THEN "Structure" ELSE "Skipped")
  IN  IF tiff.at >= tiff.end THEN {}
      ELSE {IF hit THEN [body EXCEPT !.gap = "Unknown"] ELSE body}

PlaceTiff ==
  /\ pc = "place"
  /\ \E hit, width, read \in BOOLEAN :
       /\ parts' = parts \cup Contents(hit, read)
       /\ widths' = (widths \/ (width /\ tiff.role \in {"Jpeg", "Cfa"}))
       /\ gap' = IF tiff.role # "Main" THEN gap
                 ELSE IF ~tiff.ok THEN "Malformed"
                 ELSE IF hit THEN "Unknown" ELSE "Unreferenced"
  /\ cancelled' = (cancelled \/ tiff.cancelled)
  /\ logicalEnd' = IF tiff.role = "Main" THEN tiff.end ELSE logicalEnd
  /\ stack' = IF tiff.role = "Cmt" THEN SubSeq(stack, 1, Len(stack) - 1) ELSE stack
  /\ pc' = CASE tiff.role = "Cmt" -> "boxes"
             [] tiff.role = "Main" -> "final"
             [] tiff.role = "Jpeg" -> "cfa"
             [] tiff.role = "Cfa" -> "records"
  /\ UNCHANGED <<given, stop, truncated, walk, tiff, result>>

(***************************************************************************)
(* RAF.                                                                    *)
(***************************************************************************)
\* section: clipped to the file, or nothing when it starts outside it.
Present(s) == s.off <= Size /\ s.len > 0
Past(s)    == s.off + s.len > Size + 1
SectionEnd(s) == IF Past(s) THEN Size + 1 ELSE s.off + s.len

\* Mutant: the section placed last ends the file.
Latest(end) == end

Further(end) == IF end > logicalEnd THEN end ELSE logicalEnd

\* The header ends where the preview starts, if that is near enough.
HeaderEnd == IF file.raf.jpeg.off \in 2 .. MaxHeader THEN file.raf.jpeg.off ELSE 2

RafHeader ==
  /\ pc = "raf"
  /\ IF file.raf.whole
     THEN /\ parts' = parts \cup {Part(1, HeaderEnd, File, "header", "Structure")}
          /\ logicalEnd' = HeaderEnd
          /\ pc' = "jpeg"
     ELSE /\ parts' = parts \cup {Part(1, Size + 1, File, "header", "Malformed")}
          /\ logicalEnd' = Size + 1
          /\ pc' = "final"
  /\ UNCHANGED <<given, stop, truncated, stack, walk, cancelled, tiff, widths, gap, result>>

\* A section's part, and the TIFF inside it if it is the next thing to walk.
PlaceSection(s, kind, disp, role, at, next) ==
  /\ IF Present(s)
     THEN /\ parts' = parts \cup {Part(s.off, SectionEnd(s), File, kind, disp)}
          /\ logicalEnd' = Further(SectionEnd(s))
     ELSE UNCHANGED <<parts, logicalEnd>>
  /\ IF Present(s) /\ s.holds /\ at < SectionEnd(s)
     THEN StartTiff(role, s.off, at, SectionEnd(s))
     ELSE tiff' = tiff /\ pc' = next
  /\ UNCHANGED <<given, stop, truncated, stack, walk, cancelled, widths, gap, result>>

JpegSection ==
  /\ pc = "jpeg"
  /\ LET s == file.raf.jpeg IN
       PlaceSection(s, "jpeg", IF Past(s) THEN "Malformed" ELSE "Skipped", "Jpeg", s.off + 1, "cfa")

CfaSection ==
  /\ pc = "cfa"
  /\ LET s == file.raf.cfa IN
       PlaceSection(s, "cfa",
                    IF Past(s) THEN "Malformed" ELSE IF s.holds THEN "Structure" ELSE "ImageData",
                    "Cfa", s.off, "records")

\* The record ImageWidth is the size only when no TIFF has RafImageWidth.
RecordDisp == IF widths THEN "Dropped" ELSE "Structure"

RafRecords ==
  /\ pc = "records"
  /\ LET s == file.raf.header IN
       /\ parts' = parts \cup
            IF Present(s)
            THEN {Part(s.off, SectionEnd(s), File, "cfaHeader", IF Past(s) THEN "Malformed" ELSE "Structure")}
                 \cup {Part(s.off, SectionEnd(s), s.off, "ImageWidth", RecordDisp) :
                         x \in {y \in {s} : y.holds}}
            ELSE {}
       /\ logicalEnd' = IF \E t \in {file.raf.jpeg, file.raf.cfa, s} : Past(t) THEN Size + 1
                        ELSE IF Present(s) THEN Further(SectionEnd(s)) ELSE logicalEnd
  /\ gap' = "Unreferenced"
  /\ pc' = "final"
  /\ UNCHANGED <<given, stop, truncated, stack, walk, cancelled, tiff, widths, result>>

(***************************************************************************)
(* The call.                                                               *)
(***************************************************************************)
Init ==
  /\ build \in Builds
  /\ file \in Files
  /\ file.container = "cr3" /\ build = "rawloader" => ~file.gate
  /\ reason = "none" /\ asked = "none" /\ truncated = FALSE
  /\ pc = "start" /\ stack = << >> /\ tiff = NewTiff("Main", File, 1, Size + 1)
  /\ budget = MaxBoxes /\ traks = << >> /\ rawTrak = 0
  /\ cancelled = FALSE /\ stopped = FALSE /\ packetPlaced = FALSE /\ widths = FALSE
  /\ parts = {} /\ logicalEnd = 1 /\ gap = "Malformed"
  /\ result = "none"

TopPacket == {Part(p.at, p.end, File, "XMP", "Metadata") : p \in Packet}

\* Which container the first bytes announce.
Dispatch ==
  CASE file.container = "raf" ->
         /\ parts' = TopPacket /\ pc' = "raf"
         /\ UNCHANGED <<stack, tiff, logicalEnd>>
    [] file.container = "cr3" ->
         /\ stack' = <<Call(1, Size + 1, 0, 0, "Top", File)>> /\ pc' = "boxes"
         /\ UNCHANGED <<parts, tiff, logicalEnd>>
    [] file.container = "tiff" ->
         /\ parts' = TopPacket /\ StartTiff("Main", File, 1, Size + 1)
         /\ UNCHANGED <<stack, logicalEnd>>
    [] OTHER ->
         /\ logicalEnd' = Size + 1 /\ pc' = "final"
         /\ UNCHANGED <<parts, stack, tiff>>

Answer(r) == result' = r /\ pc' = "done"

\* The job's checks before the walk; this reason is not the walk's to keep.
Start ==
  /\ pc = "start"
  /\ Ask
  /\ IF Told THEN Answer("stopped") /\ UNCHANGED <<parts, stack, tiff, logicalEnd>>
     ELSE IF ~file.fits THEN Answer("limit") /\ UNCHANGED <<parts, stack, tiff, logicalEnd>>
     ELSE Dispatch /\ result' = result
  /\ UNCHANGED <<given, truncated, walk, cancelled, widths, gap>>

\* not_decoded: what no decode gets to is read by nothing, at any depth.
NotDecoded == {IF p.disp \in Consumed THEN [p EXCEPT !.disp = "Skipped"] ELSE p : p \in parts}

\* The token is asked once more; then zenraw's and the backend's own checks.
Final ==
  /\ pc = "final"
  /\ Ask
  /\ IF Told THEN Answer("stopped") /\ parts' = parts
     ELSE /\ parts' = IF file.raw /\ file.gate THEN parts ELSE NotDecoded
          /\ \E r \in {"inventory", "parts"} : Answer(r)
  /\ UNCHANGED <<given, truncated, stack, walk, cancelled, tiff, widths, logicalEnd, gap>>

Next ==
  \/ Start \/ Final
  \/ WalkBox \/ EndOfBox \/ StartCmt \/ MapSamples
  \/ FirstWalk \/ SecondWalk \/ MakerNotes \/ PlaceTiff
  \/ RafHeader \/ JpegSection \/ CfaSection \/ RafRecords

Spec == Init /\ [][Next]_vars /\ WF_vars(Next)

(***************************************************************************)
(* Properties.                                                             *)
(***************************************************************************)
PartSpace ==
  [at : 1 .. Size, end : 2 .. Size + 1, in : File .. Size,
   kind : Kinds \cup {"rest", "XMP", "sample", "tiff", "header", "jpeg", "cfa", "cfaHeader", "ImageWidth"},
   disp : Consumed \cup {"Malformed", "Skipped", "Dropped"}, gap : {"Unreferenced", "Unknown"},
   lists : BOOLEAN]

\* Every variable has its type: no part leaves the file, whatever sizes it gives.
TypeOK ==
  /\ build \in Builds /\ file \in Files
  /\ reason \in Reasons \cup {"none"} /\ asked \in Reasons \cup {"none"}
  /\ truncated \in BOOLEAN /\ cancelled \in BOOLEAN /\ stopped \in BOOLEAN
  /\ packetPlaced \in BOOLEAN /\ widths \in BOOLEAN
  /\ budget \in 0 .. MaxBoxes /\ rawTrak \in 0 .. 2
  /\ \A t \in 1 .. Len(traks) : traks[t] \subseteq {"stsz", "co64", "stco", "CTMD"}
  /\ \A p \in parts : p \in PartSpace
  /\ logicalEnd \in 1 .. Size + 1
  /\ gap \in {"Malformed", "Unknown", "Unreferenced"}
  /\ result \in {"none", "stopped", "limit", "parts", "inventory"}

Delivered == result = "inventory"
IsCr3 == file.container = "cr3"

Inside(p) == {q \in parts : q.in = p.at /\ q.kind \in Kinds \cup {"rest"}}
Boxes == {p \in parts : p.kind \in Kinds}

\* The parts of a CR3 nest: whatever is listed in a box, a box, a rest, the
\* packet, a TIFF or a sample the tables located, lies in it after its header,
\* and sibling boxes do not overlap (walk_box clips every box to its parent
\* and goes on at its end; map_samples).
PartsNest ==
  IsCr3 =>
    /\ \A p \in Boxes : \A q \in parts : q.in = p.at => p.at < q.at /\ q.end <= p.end
    /\ \A p, q \in {x \in parts : x.kind \in Kinds \cup {"rest"}} :
         p # q /\ p.in = q.in => p.end <= q.at \/ q.end <= p.at

\* A stop any walk heard of ends the call, even if the token has no more to
\* say of it, and with the reason the token gave first; a cancelled walk
\* always has its reason (the assertion in inventory_with).
StopIsFinal ==
  /\ Delivered => ~truncated
  /\ result = "stopped" => reason = asked /\ reason # "none"
  /\ cancelled /\ pc = "final" => reason # "none"

\* When a report of a CR3 has a box whose children are not listed to its end,
\* then what nothing references is unknown there, in the media data the
\* unlisted tables might locate, and in the file: never unreferenced.
FullyListed(p) == \A x \in p.at + 1 .. p.end - 1 : \E q \in Inside(p) : x \in q.at .. q.end - 1

UnlistedIsUnknown ==
  LET short == {p \in parts : p.lists /\ ~FullyListed(p)} IN
  Delivered /\ IsCr3 /\ short # {} =>
    gap = "Unknown" /\ \A p \in short \cup Media : p.gap = "Unknown"

\* The packet the byte scan finds is in a delivered report exactly once,
\* wherever it lies: in the XMP box, across boxes, in a box that is cut.
PacketOnce ==
  Delivered /\ file.container # "other" =>
    Cardinality({p \in parts : p.kind = "XMP"}) = Cardinality(Packet)

\* Nothing a container lists lies beyond its logical end, where every byte is
\* reported as trailing; only the packet may.
NothingBeyondTheEnd ==
  Delivered => \A p \in parts : p.in = File /\ p.kind # "XMP" => p.end <= logicalEnd

\* Every call answers: the box walk ends whatever sizes the boxes give.
Answers == <>(result # "none")
=============================================================================
