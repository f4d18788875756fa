------------------------------- MODULE Demosaic -------------------------------
(***************************************************************************)
(* The demosaicing kernels (src/src/demosaic.rs), one call at a time: the  *)
(* choice of a kernel for the colour filter array, the Bayer kernels       *)
(* (bilinear and Malvar-He-Cutler, the latter with a clamped border and a  *)
(* direct interior) and the generic kernel of the other arrays.            *)
(*                                                                         *)
(* A channel of the result is the weighted sum of samples it was computed  *)
(* from: of is the divisor, taps the weight of each sample.  The values of *)
(* the samples, and the cut of negative results to zero, are left out.     *)
(***************************************************************************)
EXTENDS Geometry, Sequences, FiniteSets, Functions

CONSTANTS
  Calls,      \* the calls considered
  Pace        \* rows between two polls of a loop (32)

\* Colour indices of the filter array.
R == 0
G == 1
B == 2
E == 3

Methods == {"Bilinear", "MalvarHeCutler"}

\* plain: the entry that allocates infallibly and is not observed, for images
\* that fit in memory; the other is the pipeline's.  A tile is its rows; the empty one describes nothing.
CallSpace ==
  {c \in [plain : BOOLEAN, w : Nat, h : Nat, tile : Seq(Seq({R, G, B, E})), method : Methods] :
     /\ \A r \in DOMAIN c.tile : Len(c.tile[r]) = Len(c.tile[1]) /\ Len(c.tile[r]) > 0
     /\ c.plain => c.w * c.h * 3 <= UsizeMax}

ASSUME DemosaicAssumption == Calls \subseteq CallSpace /\ Pace \in Nat \ {0}

VARIABLES
  call,       \* the arguments
  pc,
  stage,      \* which loop runs: a place in Stages
  row,        \* its row
  rgb,        \* the buffer of the result: channels by position
  visits,     \* how often each pixel was computed
  pending,    \* work not yet reported
  stop,       \* whether a stop request is raised
  result

place  == <<stage, row>>
image  == <<rgb, visits>>
vars   == <<call, pc, place, image, pending, stop, result>>

w == call.w
h == call.h
Positions == 0 .. w * h - 1

-----------------------------------------------------------------------------
(* The filter array.                                                       *)

Described == call.tile # <<>>
TileDims  == IF Described THEN <<Len(call.tile[1]), Len(call.tile)>> ELSE <<0, 0>>
Bayer     == TileDims = <<2, 2>>

\* An array that is not described answers, but what it says is a guess.
ColorAt(r, c) ==
  IF Described THEN call.tile[1 + (r % Len(call.tile))][1 + (c % Len(call.tile[1]))] ELSE R

Rows == 0 .. h - 1
Cols == 0 .. w - 1

-----------------------------------------------------------------------------
(* What a channel is made of.                                              *)

Nothing   == [of |-> 1, taps |-> <<>>]                    \* 0.0, as in a fresh buffer
Sample(i) == [of |-> 1, taps |-> [j \in {i} |-> 1]]

\* The mean of the samples at those places, 0.0 if there are none.
Average(places) ==
  IF places = {} THEN Nothing
  ELSE [of |-> Cardinality(places), taps |-> [i \in {At(p[1], p[2], w) : p \in places} |-> 1]]

North == <<-1, 0>>
South == <<1, 0>>
East  == <<0, 1>>
West  == <<0, -1>>
NE == <<-1, 1>>
NW == <<-1, -1>>
SE == <<1, 1>>
SW == <<1, -1>>
FarNS == {<<-2, 0>>, <<2, 0>>}
FarEW == {<<0, 2>>, <<0, -2>>}

\* Mutant: one of the diagonals is forgotten.
DiagonalCut == {NE, NW, SE}

Cross    == {North, South, East, West}
Diagonal == {NE, NW, SE, SW}

\* The neighbours at those offsets that are in the image.
Neighbours(r, c, offsets) == {<<r + o[1], c + o[2]>> : o \in offsets} \cap (Rows \X Cols)

Mean(r, c, offsets) == Average(Neighbours(r, c, offsets))

Offsets == {<<0, 0>>} \cup Cross \cup Diagonal \cup FarNS \cup FarEW

\* A Malvar kernel: offsets and their weights, in sixteenths.
Kernel(center, near, n, diagonal, d, far, f, others, g) ==
  [o \in {<<0, 0>>} \cup near \cup diagonal \cup far \cup others |->
     IF o = <<0, 0>> THEN center ELSE IF o \in near THEN n
     ELSE IF o \in diagonal THEN d ELSE IF o \in far THEN f ELSE g]

GreenKernel      == Kernel(8, Cross, 4, {}, 0, FarNS \cup FarEW, -2, {}, 0)
OppositeKernel   == Kernel(12, {}, 0, Diagonal, 4, FarNS \cup FarEW, -3, {}, 0)
HorizontalKernel == Kernel(10, {East, West}, 8, Diagonal, -2, FarEW, -2, FarNS, 1)
VerticalKernel   == Kernel(10, {North, South}, 8, Diagonal, -2, FarNS, -2, FarEW, 1)

\* Mutant: the last row and column are one off.
ClampPast(x, n) == IF x < 0 THEN 0 ELSE IF x > n THEN n ELSE x

Clamp(x, n) == IF x < 0 THEN 0 ELSE IF x > n - 1 THEN n - 1 ELSE x

\* px: where a clamped kernel finds its samples, the nearest in the image.
Clamped(r, c) == [o \in Offsets |-> At(Clamp(r + o[1], h), Clamp(c + o[2], w), w)]

\* The interior loop finds them without looking where it is.
Direct(r, c) == [o \in Offsets |-> At(r, c, w) + o[1] * w + o[2]]

Weighted(kernel, fetch) ==
  [of |-> 16,
   taps |-> [i \in {fetch[o] : o \in DOMAIN kernel} |->
               SumFunctionOnSet(kernel, {o \in DOMAIN kernel : fetch[o] = i})]]

\* Mutant: the neighbour below is looked at.
BesideBelow(r, c) == ColorAt(r + 1, c)

\* Which colour the horizontal neighbours of a green site have.
Beside(r, c) == IF c > 0 THEN ColorAt(r, c - 1) ELSE ColorAt(r, c + 1)

\* The three channels of a Bayer site; a fourth colour is taken for green and
\* leaves the others as they are.
Site(r, c, green, opposite, horizontal, vertical) ==
  LET sample == Sample(At(r, c, w)) IN
  CASE ColorAt(r, c) = R -> <<sample, green, opposite>>
    [] ColorAt(r, c) = B -> <<opposite, green, sample>>
    [] ColorAt(r, c) = G /\ Beside(r, c) = R -> <<horizontal, sample, vertical>>
    [] ColorAt(r, c) = G /\ Beside(r, c) # R -> <<vertical, sample, horizontal>>
    [] OTHER -> <<Nothing, sample, Nothing>>

BilinearSite(r, c) ==
  Site(r, c, Mean(r, c, Cross), Mean(r, c, Diagonal),
       Mean(r, c, {East, West}), Mean(r, c, {North, South}))

MalvarSite(r, c, fetch) ==
  Site(r, c, Weighted(GreenKernel, fetch), Weighted(OppositeKernel, fetch),
       Weighted(HorizontalKernel, fetch), Weighted(VerticalKernel, fetch))

Window == ((-2 .. 2) \X (-2 .. 2)) \ {<<0, 0>>}

\* The places around a site that have colour k.
Around(r, c, k) == {p \in Neighbours(r, c, Window) : ColorAt(p[1], p[2]) = k}

\* A sample of a fourth colour is none of the three channels.
GenericSite(r, c) ==
  [k \in 1 .. 3 |->
     IF ColorAt(r, c) = k - 1 THEN Sample(At(r, c, w))
     ELSE Average(Around(r, c, k - 1))]

-----------------------------------------------------------------------------
(* The loops: which pixels each of them computes, and how.                 *)

Border == 2
Malvar == Bayer /\ call.method = "MalvarHeCutler"

Small  == w <= 2 * Border \/ h <= 2 * Border

Stages == IF Malvar /\ ~Small THEN <<"top", "bottom", "sides", "interior">> ELSE <<"all">>
Loop   == Stages[stage]

\* Mutant: the bottom rows begin one row early.
FirstRowEarly(s) == IF s = "bottom" THEN h - Border - 1 ELSE IF s \in {"sides", "interior"} THEN Border ELSE 0

FirstRow(s) == IF s = "bottom" THEN h - Border ELSE IF s \in {"sides", "interior"} THEN Border ELSE 0
EndRow(s)   == IF s = "top" THEN Border ELSE IF s \in {"sides", "interior"} THEN h - Border ELSE h

\* Mutant: the direct loop starts a column early.
ColumnsEarly(s) ==
  IF s = "sides" THEN {c \in Cols : c < Border \/ c >= w - Border}
  ELSE IF s = "interior" THEN Border - 1 .. w - Border - 1 ELSE Cols

Columns(s) ==
  IF s = "sides" THEN {c \in Cols : c < Border \/ c >= w - Border}
  ELSE IF s = "interior" THEN Border .. w - Border - 1 ELSE Cols

\* The work a row is reported as, and how much of it lies between two polls.
RowUnits(s) == IF s = "sides" THEN 4 ELSE IF s = "interior" THEN w - 4 ELSE w
Every(s)    == Pace * (IF s = "interior" THEN w - 4 ELSE IF w > 0 THEN w ELSE 1)

Pixel(s, r, c) ==
  IF ~Bayer THEN GenericSite(r, c)
  ELSE IF call.method = "Bilinear" THEN BilinearSite(r, c)
  ELSE IF s = "interior" THEN MalvarSite(r, c, Direct(r, c))
  ELSE MalvarSite(r, c, Clamped(r, c))

\* The positions a row of a loop computes.
Computed(s, r) == {At(r, c, w) : c \in Columns(s)}

\* The generic kernel stores a sample in the channel of its colour's number: a
\* fourth colour's in the first channel of the next pixel, which is computed
\* afterwards.  The last pixel has none, and the index is out of bounds.
Strays(r, c) == ~Bayer /\ c \in Cols /\ ColorAt(r, c) = E
Overruns(r)  == r = h - 1 /\ Strays(r, w - 1)

\* The image after a row of a loop.
AfterRow(s, r) ==
  [i \in Positions |->
     IF i \in Computed(s, r) THEN Pixel(s, r, i - r * w)
     ELSE IF i = At(r + 1, 0, w) /\ Strays(r, w - 1)
          THEN <<Sample(At(r, w - 1, w)), rgb[i][2], rgb[i][3]>>
     ELSE rgb[i]]

-----------------------------------------------------------------------------
Init ==
  /\ call \in Calls
  /\ pc = "begin"
  /\ stage = 1 /\ row = 0
  /\ rgb = [i \in Positions |-> <<Nothing, Nothing, Nothing>>]
  /\ visits = [i \in Positions |-> 0]
  /\ pending = 0
  /\ stop = FALSE
  /\ result = "none"

Return(how) == pc' = "done" /\ result' = how

Heard == stop /\ ~call.plain

\* A poll: the request is heard, or the call goes on at the place named.
Poll(next) == IF Heard THEN Return("Stopped") ELSE pc' = next /\ UNCHANGED result

\* The kernel is chosen and the buffer allocated, which may fail and must when
\* its length is more than a usize.
Begin ==
  /\ pc = "begin"
  /\ IF ~call.plain /\ ~Described THEN Return("UnsupportedFeature")
     ELSE \/ w * h * 3 <= UsizeMax /\ pc' = "row" /\ UNCHANGED result
          \/ ~call.plain /\ Return("OutOfMemory")
  /\ UNCHANGED <<call, place, image, pending, stop>>

\* One row of a loop; every Pace rows the sides poll before they begin.
Row ==
  /\ pc = "row" /\ row < EndRow(Loop)
  /\ IF Loop = "sides" /\ row % Pace = 0 /\ Heard
     THEN Return("Stopped") /\ UNCHANGED <<row, image, pending>>
     ELSE IF Overruns(row) THEN Return("panicked") /\ UNCHANGED <<row, image, pending>>
     ELSE /\ rgb' = AfterRow(Loop, row)
          /\ visits' = [i \in Positions |-> IF i \in Computed(Loop, row) THEN visits[i] + 1 ELSE visits[i]]
          /\ row' = row + 1
          /\ LET due == pending + RowUnits(Loop) IN
               IF due >= Every(Loop) THEN pending' = 0 /\ pc' = "paced"
               ELSE pending' = due /\ pc' = "row"
          /\ UNCHANGED result
  /\ UNCHANGED <<call, stage, stop>>

Paced ==
  /\ pc = "paced"
  /\ Poll("row")
  /\ UNCHANGED <<call, place, image, pending, stop>>

\* A loop of the border is followed by the next; after the others what is left
\* is reported.
EndOfLoop ==
  /\ pc = "row" /\ row >= EndRow(Loop)
  /\ IF Loop \in {"top", "bottom"}
     THEN stage' = stage + 1 /\ row' = FirstRow(Stages[stage + 1]) /\ UNCHANGED <<pc, pending>>
     ELSE pc' = "finish" /\ pending' = 0 /\ UNCHANGED place
  /\ UNCHANGED <<call, image, stop, result>>

\* Reporting the rest polls; then the interior begins, or the kernel is done.
Finish ==
  /\ pc = "finish"
  /\ Poll(IF stage < Len(Stages) THEN "row" ELSE "check")
  /\ IF stage < Len(Stages) /\ ~Heard
     THEN stage' = stage + 1 /\ row' = FirstRow(Stages[stage + 1])
     ELSE UNCHANGED place
  /\ UNCHANGED <<call, image, pending, stop>>

Check ==
  /\ pc = "check"
  /\ Return(IF Heard THEN "Stopped" ELSE "ok")
  /\ UNCHANGED <<call, place, image, pending, stop>>

\* Another thread, or the observer of a report, asks for a stop.
Raise ==
  /\ pc # "done" /\ ~stop
  /\ stop' = TRUE
  /\ UNCHANGED <<call, pc, place, image, pending, result>>

Returned == pc = "done" /\ UNCHANGED vars

Next == Begin \/ Row \/ Paced \/ EndOfLoop \/ Finish \/ Check \/ Raise \/ Returned

Spec == Init /\ [][Next]_vars

-----------------------------------------------------------------------------
\* No kernel reads a sample outside the data, at the border or in the interior.
TypeOK ==
  /\ call \in Calls
  /\ pc \in {"begin", "row", "paced", "finish", "check", "done"}
  /\ stage \in DOMAIN Stages /\ row \in 0 .. h
  /\ DOMAIN rgb = Positions /\ DOMAIN visits = Positions
  /\ \A i \in Positions : \A k \in 1 .. 3 : DOMAIN rgb[i][k].taps \subseteq Positions
  /\ pending \in Nat /\ stop \in BOOLEAN
  /\ result \in {"none", "ok", "Stopped", "OutOfMemory", "UnsupportedFeature", "panicked"}

\* However the image is cut into border and interior, no pixel is computed
\* twice, and none is missing from an image that is returned.
EveryPixelOnce ==
  \A i \in Positions : visits[i] <= 1 /\ (result = "ok" => visits[i] = 1)

\* The interior loop, which does not look at the edges, computes what the
\* clamped kernels compute: where Malvar's method cuts the image cannot be seen.
PathsAgree ==
  result = "ok" /\ Malvar =>
    \A r \in Rows, c \in Cols : rgb[At(r, c, w)] = MalvarSite(r, c, Clamped(r, c))

\* A tile of two by two as cameras have them: red and blue on one diagonal,
\* green or the fourth colour on the other.
Mosaic(tile) ==
  \/ {tile[1][1], tile[2][2]} = {R, B} /\ {tile[1][2], tile[2][1]} \subseteq {G, E}
  \/ {tile[1][2], tile[2][1]} = {R, B} /\ {tile[1][1], tile[2][2]} \subseteq {G, E}

TwoByTwo(tile) == Len(tile) = 2 /\ Len(tile[1]) = 2

\* The pixels whose 5 x 5 neighbourhood is in the image.
OffTheEdge(r, c) == r \in 2 .. h - 3 /\ c \in 2 .. w - 3

\* Whether some site of colour k is near enough for the kernel to look at it.
InReach(r, c, k) ==
  \E p \in Neighbours(r, c, IF Bayer THEN Cross \cup Diagonal ELSE Window) : ColorAt(p[1], p[2]) = k

\* The weight a value gives to the samples of those colours.
WeightOf(v, colors) ==
  SumFunctionOnSet(v.taps, {i \in DOMAIN v.taps : ColorAt(i \div w, i % w) \in colors})

\* A plain colour comes out as that colour: every channel is made of the
\* samples of its own colour, and what it takes of the others cancels out.
\* Where Malvar's kernels cross the edge only a plain grey comes out as it
\* was; a colour no site in reach has stays 0.0.  The Bayer kernels take a
\* fourth colour for green and compute nothing else at its sites; the generic
\* kernel takes it for none, and no channel keeps a sample that strayed.
ColoursKept ==
  result = "ok" =>
    \A r \in Rows, c \in Cols : \A k \in {R, G, B} :
      LET v == rgb[At(r, c, w)][k + 1] IN
      (Bayer => ColorAt(r, c) # E) =>
        /\ InReach(r, c, k) => v # Nothing
        /\ v # Nothing => WeightOf(v, {R, G, B, E}) = v.of
        /\ v # Nothing /\ (~Malvar \/ OffTheEdge(r, c)) =>
             WeightOf(v, IF k = G THEN {G, E} ELSE {k}) = v.of

\* The picture is not moved: away from the edge the samples a Bayer kernel
\* takes of a channel have their centre at the pixel.
Centred ==
  result = "ok" /\ Bayer =>
    \A r \in Rows, c \in Cols : \A k \in 1 .. 3 :
      LET v == rgb[At(r, c, w)][k] IN
      OffTheEdge(r, c) /\ v # Nothing =>
        /\ SumFunction([j \in DOMAIN v.taps |-> v.taps[j] * ((j \div w) - r)]) = 0
        /\ SumFunction([j \in DOMAIN v.taps |-> v.taps[j] * ((j % w) - c)]) = 0

\* An image is never returned over a stop request.
StopIsHeard == result = "ok" /\ ~call.plain => ~stop
=============================================================================
