---------------------------- MODULE AppleMetadata ----------------------------
(***************************************************************************)
(* One call of extract_apple_metadata (src/src/apple.rs) on one file, with *)
(* the readers below it: the classification by magic bytes (classify.rs),  *)
(* the bounded walk of a TIFF's directories (tiff_ifd.rs), the preview an  *)
(* external EXIF reader points to (exif.rs), the marker walks that find a  *)
(* JPEG's picture index and frame header, and the scan for XMP packets     *)
(* (xmp.rs).                                                               *)
(*                                                                         *)
(* A file is what its readers can tell apart: at which positions there is  *)
(* a directory, a JPEG marker, a JPEG's first byte or a piece of XMP.  An  *)
(* optional value is a sequence of at most one element; byte orders and    *)
(* the layout of numbers are left out, and sizes are those of a 64-bit     *)
(* usize, which no sum of two file offsets exceeds.                        *)
(***************************************************************************)
EXTENDS Geometry, Sequences, FiniteSets

LOCAL INSTANCE FiniteSetsExt

CONSTANTS
  Files,          \* the files considered
  MaxDirs,        \* directories of a chain that are read (20)
  MaxImageBytes,  \* what the strips of a matte may announce (256 MiB)
  MaxEntries      \* entries of a gain table (16 Mi)

Heads == {"short", "jpeg", "tiff", "orf", "raf", "rw2", "cr3", "other"}

Listed(s) == {s[i] : i \in DOMAIN s}

\* A directory: its first entry of each tag as the reader of that tag returns
\* it; what its SUB_IFDS and EXIF_IFD entries point to, in order; whether it
\* is in the file to its end, next pointer included; whether DNGVersion is met
\* before a larger tag or the end of the data.
DirSpace(d) ==
  /\ DOMAIN d = {"tags", "points", "next", "whole", "version"}
  /\ d.points \in Seq(Nat) /\ d.next \in Nat
  /\ d.whole \in BOOLEAN /\ d.version \in BOOLEAN

\* signed: "APPLEDNG" at byte 8, or "AMPF" in the first 64.  strip, thumb and
\* note are the EXIF reader's.
FileSpace(f) ==
  /\ f.head \in Heads /\ f.signed \in BOOLEAN /\ f.size \in Nat
  /\ f.first \in Nat /\ DOMAIN f.dirs \subseteq Nat /\ IsFiniteSet(DOMAIN f.dirs)
  /\ \A o \in DOMAIN f.dirs : DirSpace(f.dirs[o])
  /\ \A s \in {f.strip, f.thumb} : s \in Seq(Nat \X Nat) /\ Len(s) <= 1
  /\ f.images \subseteq Nat /\ DOMAIN f.text \subseteq Nat /\ DOMAIN f.marks \subseteq Nat
  /\ \A p \in DOMAIN f.marks :
       f.marks[p].len \in Nat /\ f.marks[p].index \in Seq([offset : Nat, size : Nat])

ASSUME AppleMetadataAssumption ==
  /\ \A f \in Files : FileSpace(f)
  /\ MaxDirs \in Nat /\ MaxImageBytes \in Nat /\ MaxEntries \in Nat

VARIABLES
  file,
  pc,
  current,    \* the next directory of the chain
  ifds,       \* the chain, as far as it was read
  sub_ifds,   \* the directories it points to
  off,        \* which of its pointers is followed next
  span,       \* the JPEG that is walked: where it begins and ends
  pos,        \* where the walk is
  from,       \* where the search for XMP goes on
  meta        \* what was extracted

structure == <<current, ifds, sub_ifds, off>>
walk      == <<span, pos>>
vars      == <<file, pc, structure, walk, from, meta>>

-----------------------------------------------------------------------------
(* Classification.                                                         *)

Classify ==
  CASE file.head = "jpeg" -> IF file.signed THEN "AppleAmpf" ELSE "Jpeg"
    [] file.head = "tiff" ->
         IF file.signed THEN "AppleDng"
         ELSE IF file.first \in DOMAIN file.dirs /\ file.dirs[file.first].version THEN "Dng"
         ELSE "TiffRaw"
    [] file.head = "orf" -> "Orf"
    [] file.head = "raf" -> "Raf"
    [] file.head = "rw2" -> "Rw2"
    [] file.head = "cr3" -> "Cr3"
    [] OTHER -> "Unknown"

IsApple == Classify \in {"AppleDng", "AppleAmpf"}

-----------------------------------------------------------------------------
(* The structure of a TIFF.                                                *)

Parses(o) == o # 0 /\ o \in DOMAIN file.dirs /\ file.dirs[o].whole

\* Mutant: the bound counts one directory more than was read.
GoesOnShort == Len(ifds) + 1 < MaxDirs /\ Parses(current)

\* safety < 20: a chain that comes back to itself is read again and again.
GoesOn == Len(ifds) < MaxDirs /\ Parses(current)

Has(tag, d) == tag \in DOMAIN file.dirs[d].tags

\* The first entry of a tag: in the chain, then in what it points to.
FindEntry(tag) ==
  LET having == SelectSeq(ifds \o sub_ifds, LAMBDA d : Has(tag, d)) IN
  IF having = <<>> THEN <<>> ELSE file.dirs[having[1]].tags[tag]

Ifd0Entry(tag) ==
  IF ifds # <<>> /\ Has(tag, ifds[1]) THEN file.dirs[ifds[1]].tags[tag] ELSE <<>>

-----------------------------------------------------------------------------
(* The maker note: an entry is [tag, type, data, many], data what of its    *)
(* value lies in the note, many whether it says three values or more.      *)

Integral == {"IMAGE_CAPTURE_TYPE", "HDR_IMAGE_TYPE", "AF_STABLE"}
Textual  == {"BURST_UUID", "IMAGE_UNIQUE_ID", "LIVE_PHOTO_ID"}
NoteTags == Integral \cup Textual \cup {"AE_STABLE", "SIGNAL_TO_NOISE_RATIO", "ACCELERATION_VECTOR"}

\* Whether an entry says anything of its field, and what: a text whose bytes
\* are missing is the empty text, a number is none.
Tells(e) ==
  CASE e.tag \in Textual -> e.type = "ASCII"
    [] e.tag = "SIGNAL_TO_NOISE_RATIO" -> e.type = "RATIONAL" /\ e.data # <<>>
    [] e.tag = "ACCELERATION_VECTOR" -> e.type \in {"RATIONAL", "SRATIONAL"} /\ e.many
    [] OTHER -> e.tag \in NoteTags

Told(e) ==
  CASE e.tag \in Integral -> IF e.type \in {"SHORT", "LONG", "SLONG"} THEN e.data ELSE <<>>
    [] e.tag = "AE_STABLE" -> <<e.data # <<>>>>
    [] e.tag = "SIGNAL_TO_NOISE_RATIO" -> e.data
    [] OTHER -> <<e.data>>

\* A field is what the last entry that tells it says; a note without Apple's
\* prefix is no note.
ParseMakernote(note) ==
  IF ~note.apple THEN <<>>
  ELSE <<[t \in NoteTags |->
           LET telling == SelectSeq(note.entries, LAMBDA e : e.tag = t /\ Tells(e)) IN
           IF telling = <<>> THEN <<>> ELSE Told(telling[Len(telling)])]>>

Makernote(found) == IF found = <<>> THEN <<>> ELSE ParseMakernote(found[1])

-----------------------------------------------------------------------------
(* Mattes, profile and gain table.                                         *)

\* The ranges of the file a pair of lists names: all or none, as the cap
\* allows, but for those outside the file.
Collect(offsets, counts) ==
  LET total == MapThenSumSet(LAMBDA i : counts[i], DOMAIN counts)
      pairs == [i \in DOMAIN offsets \cap DOMAIN counts |-> <<offsets[i], counts[i]>>]
  IN IF total > MaxImageBytes THEN <<>>
     ELSE SelectSeq(pairs, LAMBDA p : p[1] + p[2] <= file.size)

\* Strips first; tiles only where one of the strips' lists is missing.
ImageData(d) ==
  LET tags == file.dirs[d].tags IN
  IF Has("STRIP_OFFSETS", d) /\ Has("STRIP_BYTE_COUNTS", d)
  THEN Collect(tags["STRIP_OFFSETS"], tags["STRIP_BYTE_COUNTS"])
  ELSE IF Has("TILE_OFFSETS", d) /\ Has("TILE_BYTE_COUNTS", d)
  THEN Collect(tags["TILE_OFFSETS"], tags["TILE_BYTE_COUNTS"])
  ELSE <<>>

IsMatte(d) == Has("APPLE_AUX_TYPE", d) /\ file.dirs[d].tags["APPLE_AUX_TYPE"] = <<"aux:semantic">>

SemanticMattes ==
  LET mattes == SelectSeq(sub_ifds, IsMatte) IN
  [i \in DOMAIN mattes |-> [of |-> mattes[i], data |-> ImageData(mattes[i])]]

ProfileTags ==
  {"PROFILE_NAME", "PROFILE_TONE_CURVE", "NOISE_PROFILE", "PROFILE_HUE_SAT_MAP_ENCODING",
   "DEFAULT_USER_CROP", "BASELINE_NOISE", "BASELINE_SHARPNESS", "LINEAR_RESPONSE_LIMIT"}

DngProfile == [t \in ProfileTags |-> Ifd0Entry(t)]

Header == 64

\* The header of a gain table is in its bytes, and so is every entry.
TableFits(t) ==
  LET entries == t.rows * t.cols * t.tones IN
  /\ t.bytes >= Header
  /\ entries \in 1 .. MaxEntries
  /\ Header + 4 * entries <= t.bytes

GainTableMap ==
  LET found == FindEntry("PROFILE_GAIN_TABLE_MAP") IN
  IF found # <<>> /\ TableFits(found[1]) THEN found ELSE <<>>

\* lookup: where `apply` finds a gain, and the neighbour it goes to in a side
\* of n.
Lookup(t, row, col, tone) == At(At(row, col, t.cols), tone, t.tones)
Following(i, n)           == IF i + 1 < n THEN i + 1 ELSE n - 1

-----------------------------------------------------------------------------
(* JPEG: markers by position, each [kind, len, index]; len is what the     *)
(* segment says of its length, index the pictures an MPF segment lists.    *)

Base  == span[1]
Limit == span[2]
Mark  == file.marks[pos]

AtMark == pos \in DOMAIN file.marks

\* Mutant: what a segment says of its length is taken to count from its marker.
BeyondMarker ==
  IF ~AtMark THEN pos + 1 ELSE IF Mark.kind = "bare" THEN pos + 2 ELSE pos + Mark.len

\* A byte that is no marker is passed over, a segment by its own length.
Beyond ==
  IF ~AtMark THEN pos + 1 ELSE IF Mark.kind = "bare" THEN pos + 2 ELSE pos + 2 + Mark.len

\* The walks end at the scan.
Over == pos + 4 >= Limit \/ (AtMark /\ Mark.kind = "sos")

IsIndex == AtMark /\ Mark.kind = "mpf" /\ Mark.len >= 6 /\ pos + 8 <= Limit
IsFrame == AtMark /\ Mark.kind = "sof" /\ pos + 9 <= Limit

\* Where picture i of the index lies: the first at the beginning, as does one
\* with offset 0, the others from the index on.
Picture(i) ==
  LET p == Mark.index[i]
      start == IF i = 1 \/ p.offset = 0 THEN Base ELSE pos + 8 + p.offset
  IN [start |-> start, end |-> start + p.size]

\* The preview: the thumbnail's only if there is no strip, and a JPEG.
Preview ==
  {p \in Listed(IF file.strip # <<>> THEN file.strip ELSE file.thumb) :
     p[1] # 0 /\ p[2] >= 2 /\ p[1] + p[2] <= file.size /\ p[1] \in file.images}

\* The JPEG that may hold a gain map: the file, or a DNG's preview.
Jpeg ==
  IF Classify = "AppleAmpf" THEN {<<0, file.size>>} ELSE {<<p[1], p[1] + p[2]>> : p \in Preview}

-----------------------------------------------------------------------------
(* XMP: pieces of text by position, each <<what, field, value>>.            *)

Least(S) == {x \in S : \A y \in S : x <= y}

Find(what, p, end) == {q \in DOMAIN file.text : p <= q /\ q < end /\ file.text[q][1] = what}

\* The packet a search from p finds, and the block without a packet's marks.
Packet(p, end) ==
  {b \in Least(Find("begin", p, end)) \X Find("close", p, end) :
     \E e \in Least(Find("end", b[1], end)) : b[2] \in Least(Find("close", e, end))}

Block(p, end) ==
  {b \in Least(Find("open", p, end)) \X Find("shut", p, end) : b[2] \in Least(Find("shut", b[1], end))}

\* Bytes that are not UTF-8 make a text unreadable.
Readable(x) == Find("binary", x[1], x[2]) = {}

Fields == {"AuxiliaryImageType", "NativeFormat", "StoredFormat"}

\* An attribute is taken before an element; of elements only the first is
\* looked at, and one that holds others says nothing.
Property(x, field) ==
  LET Said(how) == {q \in Find(how, x[1], x[2]) : file.text[q][2] = field}
      Values(S) == LET q == CHOOSE q \in Least(S) : TRUE IN file.text[q][3]
  IN IF Said("attribute") # {} THEN Values(Said("attribute"))
     ELSE IF Said("element") # {} THEN Values(Said("element"))
     ELSE <<>>

\* Mutant: a later packet has the last word.
FillLater(apdi, x) ==
  [f \in Fields |-> IF Property(x, f) # <<>> THEN Property(x, f) ELSE apdi[f]]

Fill(apdi, x) ==
  [f \in Fields |-> IF apdi[f] # <<>> THEN apdi[f] ELSE Property(x, f)]

-----------------------------------------------------------------------------
NoMeta ==
  [format |-> "Unknown", makernote |-> <<>>, dng_profile |-> <<>>, gain_table_map |-> <<>>,
   semantic_mattes |-> <<>>, gain_map |-> <<>>, apdi |-> [f \in Fields |-> <<>>]]

Init ==
  /\ file \in Files
  /\ pc = "classify"
  /\ current = 0 /\ ifds = <<>> /\ sub_ifds = <<>> /\ off = 1
  /\ span = <<0, 0>> /\ pos = 0 /\ from = 0
  /\ meta = NoMeta

\* Only Apple's formats are read further; of a JPEG the note is the EXIF reader's.
Begin ==
  /\ pc = "classify"
  /\ pc' = IF ~IsApple THEN "none" ELSE IF Classify = "AppleDng" THEN "chain" ELSE "gain"
  /\ current' = file.first
  /\ meta' = [meta EXCEPT !.format = Classify,
                          !.makernote = IF Classify = "AppleAmpf" THEN Makernote(file.note) ELSE <<>>]
  /\ UNCHANGED <<file, ifds, sub_ifds, off, walk, from>>

ReadDirectory ==
  /\ pc = "chain" /\ GoesOn
  /\ ifds' = Append(ifds, current)
  /\ off' = 1
  /\ pc' = "points"
  /\ UNCHANGED <<file, current, sub_ifds, walk, from, meta>>

\* What cannot be parsed is passed over; what a directory that is pointed to
\* points to in turn is not followed.
ReadSubIfd ==
  /\ pc = "points" /\ off <= Len(file.dirs[current].points)
  /\ LET o == file.dirs[current].points[off] IN
       sub_ifds' = IF Parses(o) THEN Append(sub_ifds, o) ELSE sub_ifds
  /\ off' = off + 1
  /\ UNCHANGED <<file, pc, current, ifds, walk, from, meta>>

NextDirectory ==
  /\ pc = "points" /\ off > Len(file.dirs[current].points)
  /\ current' = file.dirs[current].next
  /\ pc' = "chain"
  /\ UNCHANGED <<file, ifds, sub_ifds, off, walk, from, meta>>

\* Every reader of tags parses the structure anew, and finds the same.
ReadTags ==
  /\ pc = "chain" /\ ~GoesOn
  /\ pc' = "gain"
  /\ meta' = [meta EXCEPT !.makernote = Makernote(FindEntry("MAKER_NOTE")),
                          !.dng_profile = <<DngProfile>>,
                          !.gain_table_map = GainTableMap,
                          !.semantic_mattes = SemanticMattes]
  /\ UNCHANGED <<file, structure, walk, from>>

OpenJpeg ==
  /\ pc = "gain"
  /\ IF Jpeg = {} THEN pc' = "packets" /\ UNCHANGED walk
     ELSE pc' = "mpf" /\ (\E j \in Jpeg : span' = j /\ pos' = j[1] + 2)
  /\ UNCHANGED <<file, structure, from, meta>>

Walk ==
  /\ \/ pc = "mpf" /\ ~IsIndex
     \/ pc = "sof" /\ ~IsFrame
  /\ ~Over
  /\ pos' = Beyond
  /\ UNCHANGED <<file, pc, structure, span, from, meta>>

\* Mutant: the second picture is looked for up to the end of the file.
SpanToEnd(p) == <<p.start, file.size>>

SpanOf(p) == <<p.start, p.end>>

\* The second picture is the gain map, if it is a JPEG in the JPEG.
ReadIndex ==
  /\ pc = "mpf" /\ IsIndex /\ ~Over
  /\ IF /\ Len(Mark.index) >= 2
        /\ Picture(2).end <= Limit /\ Picture(2).end >= Picture(2).start + 2
        /\ Picture(2).start \in file.images
     THEN /\ meta' = [meta EXCEPT !.gain_map = <<[at |-> Picture(2), frame |-> <<>>, xmp |-> <<>>]>>]
          /\ span' = SpanOf(Picture(2))
          /\ pos' = Picture(2).start + 2
          /\ pc' = "sof"
     ELSE pc' = "packets" /\ UNCHANGED <<meta, walk>>
  /\ UNCHANGED <<file, structure, from>>

\* The frame header gives the gain map its dimensions; then its XMP is read.
ReadFrame ==
  /\ pc = "sof" /\ IsFrame /\ ~Over
  /\ meta' = [meta EXCEPT !.gain_map[1].frame = <<pos>>]
  /\ pc' = "gainxmp" /\ from' = Base
  /\ UNCHANGED <<file, structure, walk>>

WalkIsOver ==
  /\ pc \in {"mpf", "sof"} /\ Over
  /\ IF pc = "mpf" THEN pc' = "packets" /\ UNCHANGED from ELSE pc' = "gainxmp" /\ from' = Base
  /\ UNCHANGED <<file, structure, walk, meta>>

\* extract_xmp: the first packet that is readable, or else the block.
GainPacket ==
  /\ pc = "gainxmp"
  /\ \E x \in Packet(from, Limit) :
       IF Readable(x)
       THEN meta' = [meta EXCEPT !.gain_map[1].xmp = <<x>>] /\ pc' = "packets" /\ from' = 0
       ELSE from' = x[2] + 1 /\ UNCHANGED <<pc, meta>>
  /\ UNCHANGED <<file, structure, walk>>

GainBlock ==
  /\ pc = "gainxmp" /\ Packet(from, Limit) = {}
  /\ LET blocks == {x \in Block(Base, Limit) : Readable(x)} IN
       IF blocks = {} THEN UNCHANGED meta
       ELSE \E x \in blocks : meta' = [meta EXCEPT !.gain_map[1].xmp = <<x>>]
  /\ pc' = "packets" /\ from' = 0
  /\ UNCHANGED <<file, structure, walk>>

\* A readable packet of the file says what no earlier one has said.
ReadPacket ==
  /\ pc = "packets"
  /\ \E x \in Packet(from, file.size) :
       /\ from' = x[2] + 1
       /\ meta' = IF Readable(x) THEN [meta EXCEPT !.apdi = Fill(meta.apdi, x)] ELSE meta
  /\ UNCHANGED <<file, pc, structure, walk>>

\* After the file's packets the gain map's is asked.
Answer ==
  /\ pc = "packets" /\ Packet(from, file.size) = {}
  /\ meta' = IF meta.gain_map # <<>> /\ meta.gain_map[1].xmp # <<>>
             THEN [meta EXCEPT !.apdi = Fill(meta.apdi, meta.gain_map[1].xmp[1])] ELSE meta
  /\ pc' = "some"
  /\ UNCHANGED <<file, structure, walk, from>>

Returned == pc \in {"some", "none"} /\ UNCHANGED vars

Next ==
  \/ Begin \/ ReadDirectory \/ ReadSubIfd \/ NextDirectory \/ ReadTags \/ OpenJpeg \/ Walk \/ ReadIndex \/ ReadFrame \/ WalkIsOver
  \/ GainPacket \/ GainBlock \/ ReadPacket \/ Answer \/ Returned

\* A call runs to its end.
Spec == Init /\ [][Next]_vars /\ WF_vars(Next)

-----------------------------------------------------------------------------
TypeOK ==
  /\ FileSpace(file)
  /\ pc \in {"classify", "chain", "points", "gain", "mpf", "sof", "gainxmp", "packets", "some", "none"}
  /\ pc = "points" => current \in DOMAIN file.dirs
  /\ current \in Nat /\ from \in Nat /\ pos \in Nat /\ span \in Nat \X Nat
  /\ ifds \in Seq(DOMAIN file.dirs) /\ Len(ifds) <= MaxDirs
  /\ sub_ifds \in Seq(DOMAIN file.dirs) /\ off \in Nat \ {0}

\* The chain: the least set of directories with the first that follows every
\* next pointer to a directory that parses.
Follows(S) ==
  /\ Parses(file.first) => file.first \in S
  /\ \A o \in S : Parses(file.dirs[o].next) => file.dirs[o].next \in S

ChainDirs == {o \in DOMAIN file.dirs : \A S \in SUBSET DOMAIN file.dirs : Follows(S) => o \in S}

\* Whatever the next pointers say, in a circle too: nothing but the chain is
\* read, and a chain of no more than the allowed directories completely, and
\* of the sub-directories those it points to and that parse.
EveryDirectoryRead ==
  /\ Listed(ifds) \subseteq ChainDirs
  /\ pc \notin {"classify", "chain", "points", "none"} /\ Classify = "AppleDng" =>
       /\ Cardinality(ChainDirs) <= MaxDirs => Listed(ifds) = ChainDirs
       /\ Listed(sub_ifds) =
            UNION {{o \in Listed(file.dirs[d].points) : Parses(o)} : d \in Listed(ifds)}

NextMark(p) == p + 2 + (IF file.marks[p].kind = "bare" THEN 0 ELSE file.marks[p].len)

\* The segments of a JPEG: the least set of markers with the one behind its
\* first two bytes that goes on behind every segment, up to the scan.  What
\* lies inside a segment, a thumbnail's markers say, is not among them.
Continues(S, start) ==
  /\ start + 2 \in DOMAIN file.marks => start + 2 \in S
  /\ \A p \in S : file.marks[p].kind # "sos" /\ NextMark(p) \in DOMAIN file.marks => NextMark(p) \in S

Segments(start) ==
  {p \in DOMAIN file.marks : \A S \in SUBSET DOMAIN file.marks : Continues(S, start) => p \in S}

\* A JPEG in order: up to the scan or its end there is no gap between them.
InOrder(start, end) ==
  /\ start + 2 \in DOMAIN file.marks
  /\ \A p \in Segments(start) :
       file.marks[p].kind # "sos" /\ NextMark(p) < end => NextMark(p) \in DOMAIN file.marks

\* The segments of a kind that have as many bytes as are needed, and the
\* first of them.
Marks(kind, start, end, bytes) ==
  {p \in Segments(start) : /\ p + bytes <= end /\ p + 4 < end
                           /\ file.marks[p].kind = kind /\ (kind = "mpf" => file.marks[p].len >= 6)}

FirstMark(kind, start, end, bytes) == Least(Marks(kind, start, end, bytes))

\* The second picture the index at p lists, if it is a JPEG in that JPEG.
Second(p, jpeg) ==
  LET index == file.marks[p].index
      start == IF index[2].offset = 0 THEN jpeg[1] ELSE p + 8 + index[2].offset
  IN IF Len(index) < 2 THEN {}
     ELSE {at \in {[start |-> start, end |-> start + index[2].size]} :
             start \in file.images /\ at.end <= jpeg[2] /\ at.end >= start + 2}

\* A text in order: every packet ends before the next begins.
TextInOrder(start, end) ==
  \A b \in Find("begin", start, end) :
    \E c \in Find("close", b, end) :
      /\ \E e \in Find("end", b, c) : TRUE
      /\ \A n \in Find("begin", b + 1, end) : c < n

\* The first readable packet of a text in order, or else its readable block.
OwnXmp(start, end) ==
  LET readable == {x \in UNION {Packet(b, end) : b \in Find("begin", start, end)} : Readable(x)} IN
  IF readable # {} THEN {x \in readable : \A y \in readable : x[1] <= y[1]}
  ELSE {x \in Block(start, end) : Readable(x)}

\* Of a JPEG in order the gain map is the second picture its first index
\* lists, and it is found when there is one.  Its dimensions and its XMP are
\* its own, not those of the picture before it or behind it: in order, those
\* of the first frame header before its scan and of its first packet.
GainMapIsItsOwn ==
  pc = "packets" =>
    /\ \A j \in Jpeg : InOrder(j[1], j[2]) =>
         {g.at : g \in Listed(meta.gain_map)} =
           UNION {Second(p, j) : p \in FirstMark("mpf", j[1], j[2], 8)}
    /\ \A g \in Listed(meta.gain_map) :
         /\ \A p \in Listed(g.frame) : g.at.start + 2 <= p /\ p + 9 <= g.at.end
         /\ InOrder(g.at.start, g.at.end) =>
              Listed(g.frame) = FirstMark("sof", g.at.start, g.at.end, 9)
         /\ TextInOrder(g.at.start, g.at.end) => Listed(g.xmp) = OwnXmp(g.at.start, g.at.end)

\* The packets of a text in order that say something of a field.
Saying(f) ==
  {b \in Find("begin", 0, file.size) :
     \E x \in Packet(b, file.size) : x[1] = b /\ Readable(x) /\ Property(x, f) # <<>>}

\* What is reported of a field is what the first packet that speaks of it
\* says, whatever other packets say and whichever of them are unreadable; the
\* gain map is asked only where they are silent.
FirstWordStands ==
  pc = "some" /\ TextInOrder(0, file.size) =>
    \A f \in Fields :
      IF Saying(f) # {}
      THEN \A b \in Least(Saying(f)) : \A x \in Packet(b, file.size) : meta.apdi[f] = Property(x, f)
      ELSE meta.apdi[f] # <<>> =>
             \E g \in Listed(meta.gain_map) : \E x \in Listed(g.xmp) : meta.apdi[f] = Property(x, f)

\* However its pointers and lengths are, every file is answered.
Answers == <>(pc \in {"some", "none"})
=============================================================================
