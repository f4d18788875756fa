--------------------------- MODULE MCAppleMetadata ---------------------------
(***************************************************************************)
(* Small instances of AppleMetadata: APPLEDNGs with every chain of three   *)
(* directories, circles included, of which two are read; AMPFs and         *)
(* previews with every short order of segments, sound or not, around an    *)
(* index and in the picture it lists; texts of up to two packets, whole,   *)
(* cut or unreadable, before the gain map's own.                           *)
(***************************************************************************)
EXTENDS AppleMetadata, SequencesExt

Empty == <<>>

Nobody ==
  [head |-> "tiff", signed |-> TRUE, size |-> 9, first |-> 0, dirs |-> Empty, strip |-> <<>>, thumb |-> <<>>,
   note |-> <<>>, images |-> {}, marks |-> Empty, text |-> Empty]

-----------------------------------------------------------------------------
(* Classification, and chains of directories.                              *)

Others ==
  {[Nobody EXCEPT !.head = k, !.signed = s] : k \in Heads \ {"tiff", "jpeg"}, s \in BOOLEAN}
  \cup {[Nobody EXCEPT !.head = k, !.signed = FALSE, !.first = o] : k \in {"tiff", "jpeg"}, o \in 0 .. 2}

Entry(t, type, data) == [tag |-> t, type |-> type, data |-> data, many |-> TRUE]

Note ==
  [apple |-> TRUE,
   entries |-> <<Entry("AF_STABLE", "LONG", <<1>>), Entry("BURST_UUID", "ASCII", <<>>),
                 Entry("AE_STABLE", "UNDEFINED", <<2>>), Entry("AF_STABLE", "ASCII", <<3>>),
                 Entry("ACCELERATION_VECTOR", "SRATIONAL", <<4>>), Entry("UNKNOWN", "LONG", <<5>>),
                 Entry("SIGNAL_TO_NOISE_RATIO", "RATIONAL", <<>>)>>]

\* What the directories at offsets 1, 2 and 3 hold.
Tags ==
  <<[PROFILE_NAME |-> <<"P">>, MAKER_NOTE |-> <<[Note EXCEPT !.apple = FALSE]>>],
    [MAKER_NOTE |-> <<Note>>, APPLE_AUX_TYPE |-> <<"aux:semantic">>, TILE_OFFSETS |-> <<1, 8>>,
     TILE_BYTE_COUNTS |-> <<2, 2, 1>>,
     PROFILE_GAIN_TABLE_MAP |-> <<[rows |-> 1, cols |-> 2, tones |-> 2, bytes |-> 80]>>],
    [APPLE_AUX_TYPE |-> <<"aux:semantic">>, STRIP_OFFSETS |-> <<3>>, STRIP_BYTE_COUNTS |-> <<4, 9>>]>>

Points == <<{<<>>, <<3, 4, 1>>}, {<<>>, <<0, 2>>}, {<<3>>}>>

Dirs(o) ==
  {[tags |-> Tags[o], points |-> p, next |-> n, whole |-> w, version |-> o = 2] :
     p \in Points[o], n \in 0 .. 4, w \in BOOLEAN}

Chained ==
  {[Nobody EXCEPT !.first = 1, !.dirs = <<d, e, f>>] : d \in Dirs(1), e \in Dirs(2), f \in Dirs(3)}

-----------------------------------------------------------------------------
(* JPEGs: pieces one after the other, each with the bytes it takes.        *)

Piece(kind, width, len) == [kind |-> kind, width |-> width, len |-> len]

Sound == {Piece("seg", 4, 2), Piece("bare", 2, 0), Piece("sof", 9, 7)}
Odd   == {Piece("none", 1, 0), Piece("seg", 4, 0), Piece("seg", 4, 9), Piece("seg", 4, 10), Piece("sof", 4, 2)}
Scan  == Piece("sos", 6, 2)

\* The byte after the first i pieces of a picture that begins at start.
Behind(pieces, i, start) ==
  start + 2 + FoldLeft(LAMBDA n, p : n + p.width, 0, SubSeq(pieces, 1, i))

MarksOf(pieces, start, index) ==
  [q \in {Behind(pieces, i - 1, start) : i \in {k \in DOMAIN pieces : pieces[k].kind # "none"}} |->
     LET p == pieces[CHOOSE i \in DOMAIN pieces : Behind(pieces, i - 1, start) = q] IN
     [kind |-> p.kind, len |-> p.len, index |-> IF p.kind = "mpf" THEN index ELSE <<>>]]

Both(f, g) == [q \in DOMAIN f \cup DOMAIN g |-> IF q \in DOMAIN f THEN f[q] ELSE g[q]]

\* A picture at start with an index, and behind it the second one, of which
\* the index says where it is, d bytes off, and that it is s bytes longer.
Pictures(first, second, start, d, s, zero) ==
  LET middle == Behind(first, Len(first), start)
      end    == Behind(second, Len(second), middle)
      mpf    == CHOOSE q \in {Behind(first, i - 1, start) : i \in {k \in DOMAIN first : first[k].kind = "mpf"}} : TRUE
      index  == <<[offset |-> 0, size |-> 0],
                  [offset |-> IF zero THEN 0 ELSE middle + d - (mpf + 8), size |-> IF end + s > middle THEN end - middle + s ELSE 0]>>
  IN [Nobody EXCEPT !.head = "jpeg", !.note = <<Note>>, !.size = end + 3, !.images = {start, middle},
                    !.marks = Both(MarksOf(first, start, index), MarksOf(second, middle, <<>>))]

Shorts(S) == {<<>>} \cup {<<p>> : p \in S}

Firsts  == {a \o <<Piece("mpf", 8, 6)>> \o b \o <<Scan>> : a \in Shorts(Sound \cup Odd), b \in Shorts({Piece("sof", 9, 7)})}
Seconds == {a \o b \o c : a \in Shorts(Sound \cup Odd), b \in Shorts({Piece("sof", 9, 7)}), c \in Shorts({Scan})}

Ampfs ==
  {Pictures(f, g, 0, v[1], v[2], v[3]) : f \in Firsts, g \in Seconds,
     v \in {<<0, 0, FALSE>>, <<0, -6, FALSE>>, <<0, 4, FALSE>>, <<1, 0, FALSE>>, <<0, 2, TRUE>>}}

\* The same behind a TIFF's header, as the strip or the thumbnail of a DNG.
Previews ==
  {LET f == Pictures(first, <<Piece("sof", 9, 7), Scan>>, 3, 0, 0, FALSE) IN
     [f EXCEPT !.head = "tiff", !.strip = s, !.thumb = <<<<3, f.size - 3>>>>] :
     first \in Firsts, s \in {<<>>, <<<<3, 30>>>>, <<<<2, 20>>>>}}

-----------------------------------------------------------------------------
(* XMP in an AMPF whose gain map begins at 26.                             *)

Bodies ==
  {<<>>, <<<<"binary", "", <<>>>>>>, <<<<"element", "NativeFormat", <<>>>>, <<"element", "NativeFormat", <<1>>>>>>,
   <<<<"element", "NativeFormat", <<2>>>>, <<"attribute", "NativeFormat", <<3>>>>>>,
   <<<<"attribute", "AuxiliaryImageType", <<4>>>>>>, <<<<"element", "AuxiliaryImageType", <<5>>>>>>}

Sign(what) == <<<<what, "", <<>>>>>>

Packets == {Sign("begin") \o b \o Sign("end") \o Sign("close") : b \in Bodies}
Blocks  == {Sign("open") \o <<<<"attribute", f, <<6>>>>>> \o b \o Sign("shut") : f \in Fields, b \in {<<>>, Sign("binary")}}
Cuts    == {<<>>, Sign("begin"), Sign("begin") \o Sign("end")}

Texts ==
  LET base == Pictures(<<Piece("mpf", 8, 6), Piece("seg", 10, 8), Scan>>, <<Piece("sof", 9, 7), Piece("seg", 9, 7), Scan>>,
                       0, 0, 3, FALSE)
      Placed(a, b) == [q \in DOMAIN a \cup {28 + i : i \in DOMAIN b} |-> IF q \in DOMAIN a THEN a[q] ELSE b[q - 28]]
  IN {[base EXCEPT !.text = Placed(a \o b, d \o e)] :
        a \in Packets \cup Cuts, b \in Packets \cup Cuts, d \in Packets \cup Cuts, e \in Blocks \cup {<<>>}}

MCFiles == Others \cup Previews \cup Ampfs \cup Texts \cup Chained
=============================================================================
