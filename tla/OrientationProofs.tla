-------------------------- MODULE OrientationProofs --------------------------
(***************************************************************************)
(* The orientation kernels of Orientation move every pixel to where its    *)
(* orientation shows it, for sources of every size, batches of every       *)
(* length and polls at every pace.                                         *)
(*                                                                         *)
(* The lemmas come first: what one turn of each loop does to the part of   *)
(* the buffer it has been through.                                         *)
(***************************************************************************)
EXTENDS Orientation, TLAPS

-----------------------------------------------------------------------------
(* Rows and columns as positions.                                          *)

LEMMA PositionInRange ==
  ASSUME NEW W \in Nat, NEW H \in Nat, NEW r \in 0 .. H - 1, NEW c \in 0 .. W - 1
  PROVE  At(r, c, W) \in 0 .. W * H - 1
<1>1. PICK k \in Nat : H = r + 1 + k
  <2>1. H - r - 1 \in Nat /\ H = r + 1 + (H - r - 1)
    OBVIOUS
  <2> QED
    BY <2>1
<1>2. W * H = r * W + W + W * k /\ r * W \in Nat /\ W * k \in Nat
  BY <1>1
<1> QED
  BY <1>2 DEF At

LEMMA PositionsDiffer ==
  ASSUME NEW W \in Nat, NEW r \in Nat, NEW s \in Nat,
         NEW c \in 0 .. W - 1, NEW d \in 0 .. W - 1, At(r, c, W) = At(s, d, W)
  PROVE  r = s /\ c = d
<1>1. ASSUME NEW x \in Nat, NEW y \in Nat, NEW a \in 0 .. W - 1, NEW b \in 0 .. W - 1, x < y
      PROVE  At(x, a, W) # At(y, b, W)
  <2>1. PICK k \in Nat : y = x + 1 + k
    <3>1. y - x - 1 \in Nat /\ y = x + 1 + (y - x - 1)
      BY <1>1
    <3> QED
      BY <3>1
  <2>2. y * W = x * W + W + k * W /\ x * W \in Nat /\ k * W \in Nat
    BY <2>1
  <2> QED
    BY <2>2 DEF At
<1>2. r = s
  BY <1>1
<1>3. r * W \in Nat
  OBVIOUS
<1> QED
  BY <1>2, <1>3 DEF At

LEMMA PositionHasAPlace ==
  ASSUME NEW W \in Nat, NEW H \in Nat, NEW p \in 0 .. W * H - 1
  PROVE  \E r \in 0 .. H - 1, c \in 0 .. W - 1 : p = At(r, c, W)
<1>1. W > 0
  OBVIOUS
<1>2. p = (p \div W) * W + (p % W) /\ p % W \in 0 .. W - 1 /\ p \div W \in Nat
  BY <1>1
<1>3. p \div W \in 0 .. H - 1
  BY <1>2
<1>4. p = At(p \div W, p % W, W)
  BY <1>2 DEF At
<1> QED
  BY <1>2, <1>3, <1>4

-----------------------------------------------------------------------------
\* Counted from the end, a position is that of the opposite row and column.
LEMMA OppositePosition ==
  ASSUME NEW W \in Nat, NEW H \in Nat, NEW r \in 0 .. H - 1, NEW c \in 0 .. W - 1
  PROVE  At(H - 1 - r, W - 1 - c, W) = W * H - 1 - At(r, c, W)
  BY DEF At

-----------------------------------------------------------------------------
(* The loops in place.                                                     *)

\* Rows before i, and in row i the columns up to j from either side.
FlippedAcross(b, i, j, W, H) ==
  \A r \in 0 .. H - 1, c \in 0 .. W - 1 :
    b[At(r, c, W)] = IF r < i \/ (r = i /\ (c < j \/ c > W - 1 - j))
                   THEN At(r, W - 1 - c, W) ELSE At(r, c, W)

\* Rows before i from either side, and of the next two the columns before j.
FlippedDown(b, i, j, W, H) ==
  \A r \in 0 .. H - 1, c \in 0 .. W - 1 :
    b[At(r, c, W)] = IF r < i \/ r > H - 1 - i \/ ((r = i \/ r = H - 1 - i) /\ c < j)
                   THEN At(H - 1 - r, c, W) ELSE At(r, c, W)

\* The first k positions from either end.
Reversed(b, k, n) ==
  \A p \in 0 .. n - 1 : b[p] = IF p < k \/ p > n - 1 - k THEN n - 1 - p ELSE p

\* A turn of the inner loop, and the end of a row, of flip_horizontal.
LEMMA FlipAcrossSwaps ==
  ASSUME NEW W \in Nat, NEW H \in Nat, NEW b \in [0 .. W * H - 1 -> Int],
         NEW i \in 0 .. H - 1, NEW j \in Nat, j < W \div 2, FlippedAcross(b, i, j, W, H)
  PROVE  FlippedAcross(Swapped(b, At(i, j, W), At(i, W - 1 - j, W)), i, j + 1, W, H)
<1> DEFINE x == At(i, j, W)
           y == At(i, W - 1 - j, W)
<1>1. j \in 0 .. W - 1 /\ W - 1 - j \in 0 .. W - 1 /\ j < W - 1 - j
  OBVIOUS
<1>2. x \in 0 .. W * H - 1 /\ y \in 0 .. W * H - 1
  BY <1>1, PositionInRange
<1>3. b[x] = x /\ b[y] = y
  BY <1>1 DEF FlippedAcross
<1>4. ASSUME NEW r \in 0 .. H - 1, NEW c \in 0 .. W - 1
      PROVE  Swapped(b, x, y)[At(r, c, W)] =
               IF r < i \/ (r = i /\ (c < j + 1 \/ c > W - 1 - (j + 1)))
               THEN At(r, W - 1 - c, W) ELSE At(r, c, W)
  <2> DEFINE p == At(r, c, W)
  <2>1. p \in 0 .. W * H - 1
    BY PositionInRange
  <2>2. (p = x <=> r = i /\ c = j) /\ (p = y <=> r = i /\ c = W - 1 - j)
    BY <1>1, PositionsDiffer
  <2>3. Swapped(b, x, y)[p] = IF p = y THEN b[x] ELSE IF p = x THEN b[y] ELSE b[p]
    BY <1>2, <2>1 DEF Swapped
  <2>4. b[p] = IF r < i \/ (r = i /\ (c < j \/ c > W - 1 - j))
               THEN At(r, W - 1 - c, W) ELSE At(r, c, W)
    BY DEF FlippedAcross
  <2>5. CASE p = x
    BY <1>1, <1>3, <2>2, <2>3, <2>5
  <2>6. CASE p = y
    BY <1>1, <1>3, <2>2, <2>3, <2>6
  <2>7. CASE p # x /\ p # y
    <3>1. Swapped(b, x, y)[p] = b[p] /\ ~(r = i /\ c = j) /\ ~(r = i /\ c = W - 1 - j)
      BY <2>2, <2>3, <2>7
    <3>2. (r = i /\ (c < j + 1 \/ c > W - 1 - (j + 1))) <=> (r = i /\ (c < j \/ c > W - 1 - j))
      BY <3>1
    <3> QED
      BY <2>4, <3>1, <3>2
  <2> QED
    BY <2>5, <2>6, <2>7
<1> QED
  BY <1>4 DEF FlippedAcross

LEMMA FlipAcrossEndsRow ==
  ASSUME NEW W \in Nat, NEW H \in Nat, NEW b, NEW i \in Nat, NEW j \in Nat, j = W \div 2,
         FlippedAcross(b, i, j, W, H)
  PROVE  FlippedAcross(b, i + 1, 0, W, H)
<1> SUFFICES ASSUME NEW r \in 0 .. H - 1, NEW c \in 0 .. W - 1
             PROVE  b[At(r, c, W)] = IF r < i + 1 \/ (r = i + 1 /\ (c < 0 \/ c > W - 1 - 0))
                                     THEN At(r, W - 1 - c, W) ELSE At(r, c, W)
  BY DEF FlippedAcross
<1>1. b[At(r, c, W)] = IF r < i \/ (r = i /\ (c < j \/ c > W - 1 - j))
                       THEN At(r, W - 1 - c, W) ELSE At(r, c, W)
  BY DEF FlippedAcross
<1>2. ~(c < j \/ c > W - 1 - j) => c = W - 1 - c
  OBVIOUS
<1> QED
  BY <1>1, <1>2

\* A turn of the inner loop, and the end of a row, of flip_vertical.
LEMMA FlipDownSwaps ==
  ASSUME NEW W \in Nat, NEW H \in Nat, NEW b \in [0 .. W * H - 1 -> Int],
         NEW i \in Nat, i < H \div 2, NEW j \in 0 .. W - 1, FlippedDown(b, i, j, W, H)
  PROVE  FlippedDown(Swapped(b, At(i, j, W), At(H - 1 - i, j, W)), i, j + 1, W, H)
<1> DEFINE x == At(i, j, W)
           y == At(H - 1 - i, j, W)
<1>1. i \in 0 .. H - 1 /\ H - 1 - i \in 0 .. H - 1 /\ i < H - 1 - i
  OBVIOUS
<1>2. x \in 0 .. W * H - 1 /\ y \in 0 .. W * H - 1
  BY <1>1, PositionInRange
<1>3. b[x] = x /\ b[y] = y
  BY <1>1 DEF FlippedDown
<1>4. ASSUME NEW r \in 0 .. H - 1, NEW c \in 0 .. W - 1
      PROVE  Swapped(b, x, y)[At(r, c, W)] =
               IF r < i \/ r > H - 1 - i \/ ((r = i \/ r = H - 1 - i) /\ c < j + 1)
               THEN At(H - 1 - r, c, W) ELSE At(r, c, W)
  <2> DEFINE p == At(r, c, W)
  <2>1. p \in 0 .. W * H - 1
    BY PositionInRange
  <2>2. (p = x <=> r = i /\ c = j) /\ (p = y <=> r = H - 1 - i /\ c = j)
    <3>1. r \in Nat /\ H - 1 - i \in Nat
      BY <1>1
    <3>2. p = x <=> r = i /\ c = j
      BY <3>1, PositionsDiffer
    <3>3. ASSUME NEW s \in Nat
          PROVE  p = At(s, j, W) <=> r = s /\ c = j
      BY <3>1, PositionsDiffer
    <3> QED
      BY <3>1, <3>2, <3>3
  <2>3. Swapped(b, x, y)[p] = IF p = y THEN b[x] ELSE IF p = x THEN b[y] ELSE b[p]
    BY <1>2, <2>1 DEF Swapped
  <2>4. b[p] = IF r < i \/ r > H - 1 - i \/ ((r = i \/ r = H - 1 - i) /\ c < j)
               THEN At(H - 1 - r, c, W) ELSE At(r, c, W)
    BY DEF FlippedDown
  <2>5. CASE p = x
    BY <1>1, <1>3, <2>2, <2>3, <2>5
  <2>6. CASE p = y
    BY <1>1, <1>3, <2>2, <2>3, <2>6
  <2>7. CASE p # x /\ p # y
    <3>1. Swapped(b, x, y)[p] = b[p] /\ ~(r = i /\ c = j) /\ ~(r = H - 1 - i /\ c = j)
      BY <2>2, <2>3, <2>7
    <3>2. ((r = i \/ r = H - 1 - i) /\ c < j + 1) <=> ((r = i \/ r = H - 1 - i) /\ c < j)
      BY <3>1
    <3> QED
      BY <2>4, <3>1, <3>2
  <2> QED
    BY <2>5, <2>6, <2>7
<1> QED
  BY <1>4 DEF FlippedDown

LEMMA FlipDownEndsRow ==
  ASSUME NEW W \in Nat, NEW H \in Nat, NEW b, NEW i \in Nat, NEW j \in Nat, j = W,
         FlippedDown(b, i, j, W, H)
  PROVE  FlippedDown(b, i + 1, 0, W, H)
<1> SUFFICES ASSUME NEW r \in 0 .. H - 1, NEW c \in 0 .. W - 1
             PROVE  b[At(r, c, W)] =
                      IF r < i + 1 \/ r > H - 1 - (i + 1) \/ ((r = i + 1 \/ r = H - 1 - (i + 1)) /\ c < 0)
                      THEN At(H - 1 - r, c, W) ELSE At(r, c, W)
  BY DEF FlippedDown
<1>1. b[At(r, c, W)] = IF r < i \/ r > H - 1 - i \/ ((r = i \/ r = H - 1 - i) /\ c < j)
                       THEN At(H - 1 - r, c, W) ELSE At(r, c, W)
  BY DEF FlippedDown
<1> QED
  BY <1>1

\* A turn of the loop of rotate_180.
LEMMA HalfTurnSwaps ==
  ASSUME NEW n \in Nat, NEW b \in [0 .. n - 1 -> Int],
         NEW k \in Nat, k < n \div 2, Reversed(b, k, n)
  PROVE  Reversed(Swapped(b, k, n - 1 - k), k + 1, n)
<1>1. k \in 0 .. n - 1 /\ n - 1 - k \in 0 .. n - 1 /\ k < n - 1 - k
  OBVIOUS
<1>2. b[k] = k /\ b[n - 1 - k] = n - 1 - k
  BY <1>1 DEF Reversed
<1>3. ASSUME NEW p \in 0 .. n - 1
      PROVE  Swapped(b, k, n - 1 - k)[p] =
               IF p < k + 1 \/ p > n - 1 - (k + 1) THEN n - 1 - p ELSE p
  <2>1. Swapped(b, k, n - 1 - k)[p] = IF p = n - 1 - k THEN b[k] ELSE IF p = k THEN b[n - 1 - k] ELSE b[p]
    BY <1>1 DEF Swapped
  <2>2. b[p] = IF p < k \/ p > n - 1 - k THEN n - 1 - p ELSE p
    BY DEF Reversed
  <2> QED
    BY <1>1, <1>2, <2>1, <2>2
<1> QED
  BY <1>3 DEF Reversed

\* Wherever these loops are interrupted, the buffer holds different pixels.
LEMMA AcrossIsInjective ==
  ASSUME NEW W \in Nat, NEW H \in Nat, NEW b, NEW i \in Nat, NEW j \in Nat,
         FlippedAcross(b, i, j, W, H),
         NEW p \in 0 .. W * H - 1, NEW q \in 0 .. W * H - 1
  PROVE  b[p] \in 0 .. W * H - 1 /\ (b[p] = b[q] => p = q)
<1>a. PICK r \in 0 .. H - 1, c \in 0 .. W - 1 : p = At(r, c, W)
  BY PositionHasAPlace
<1>b. PICK s \in 0 .. H - 1, d \in 0 .. W - 1 : q = At(s, d, W)
  BY PositionHasAPlace
<1> DEFINE T(a, x) == a < i \/ (a = i /\ (x < j \/ x > W - 1 - j))
           M(a, x) == IF T(a, x) THEN W - 1 - x ELSE x
<1>1. ASSUME NEW a \in 0 .. H - 1, NEW x \in 0 .. W - 1
      PROVE  M(a, x) \in 0 .. W - 1 /\ b[At(a, x, W)] = At(a, M(a, x), W)
  <2>1. b[At(a, x, W)] = IF T(a, x) THEN At(a, W - 1 - x, W) ELSE At(a, x, W)
    BY DEF FlippedAcross
  <2> QED
    BY <2>1
<1>2. M(r, c) \in 0 .. W - 1 /\ b[At(r, c, W)] = At(r, M(r, c), W)
  BY <1>1
<1>3. M(s, d) \in 0 .. W - 1 /\ b[At(s, d, W)] = At(s, M(s, d), W)
  BY <1>1
<1>4. b[At(r, c, W)] \in 0 .. W * H - 1
  BY <1>2, PositionInRange
<1>5. ASSUME b[At(r, c, W)] = b[At(s, d, W)] PROVE r = s /\ c = d
  <2>1. At(r, M(r, c), W) = At(s, M(s, d), W)
    BY <1>2, <1>3, <1>5
  <2>2. r = s /\ M(r, c) = M(s, d)
    <3> HIDE DEF M
    <3> QED
      BY <1>2, <1>3, <2>1, PositionsDiffer
  <2> QED
    BY <2>2
<1> QED
  BY <1>a, <1>b, <1>4, <1>5

LEMMA DownIsInjective ==
  ASSUME NEW W \in Nat, NEW H \in Nat, NEW b, NEW i \in Nat, NEW j \in Nat,
         FlippedDown(b, i, j, W, H),
         NEW p \in 0 .. W * H - 1, NEW q \in 0 .. W * H - 1
  PROVE  b[p] \in 0 .. W * H - 1 /\ (b[p] = b[q] => p = q)
<1>a. PICK r \in 0 .. H - 1, c \in 0 .. W - 1 : p = At(r, c, W)
  BY PositionHasAPlace
<1>b. PICK s \in 0 .. H - 1, d \in 0 .. W - 1 : q = At(s, d, W)
  BY PositionHasAPlace
<1> DEFINE T(a, x) == a < i \/ a > H - 1 - i \/ ((a = i \/ a = H - 1 - i) /\ x < j)
           M(a, x) == IF T(a, x) THEN H - 1 - a ELSE a
<1>1. ASSUME NEW a \in 0 .. H - 1, NEW x \in 0 .. W - 1
      PROVE  M(a, x) \in 0 .. H - 1 /\ b[At(a, x, W)] = At(M(a, x), x, W)
  <2>1. b[At(a, x, W)] = IF T(a, x) THEN At(H - 1 - a, x, W) ELSE At(a, x, W)
    BY DEF FlippedDown
  <2> QED
    BY <2>1
<1>2. M(r, c) \in 0 .. H - 1 /\ b[At(r, c, W)] = At(M(r, c), c, W)
  BY <1>1
<1>3. M(s, d) \in 0 .. H - 1 /\ b[At(s, d, W)] = At(M(s, d), d, W)
  BY <1>1
<1>4. b[At(r, c, W)] \in 0 .. W * H - 1
  BY <1>2, PositionInRange
<1>5. ASSUME b[At(r, c, W)] = b[At(s, d, W)] PROVE r = s /\ c = d
  <2>1. At(M(r, c), c, W) = At(M(s, d), d, W)
    BY <1>2, <1>3, <1>5
  <2>2. c = d /\ M(r, c) = M(s, d)
    <3> HIDE DEF M
    <3> QED
      BY <1>2, <1>3, <2>1, PositionsDiffer
  <2> QED
    BY <2>2
<1> QED
  BY <1>a, <1>b, <1>4, <1>5

LEMMA ReversedIsInjective ==
  ASSUME NEW n \in Nat, NEW b, NEW k \in Nat, Reversed(b, k, n),
         NEW p \in 0 .. n - 1, NEW q \in 0 .. n - 1
  PROVE  b[p] \in 0 .. n - 1 /\ (b[p] = b[q] => p = q)
<1>1. /\ b[p] = IF p < k \/ p > n - 1 - k THEN n - 1 - p ELSE p
      /\ b[q] = IF q < k \/ q > n - 1 - k THEN n - 1 - q ELSE q
  BY DEF Reversed
<1> QED
  BY <1>1

-----------------------------------------------------------------------------
(* The loops that copy.                                                    *)

CallSpace == [form : Forms, o : Orientations, w : Sizes, h : Sizes]

\* Rows before i, and in row i the columns before j; the rest is fresh.
CopiedUpTo(b, i, j) ==
  \A r \in 0 .. OutH - 1, c \in 0 .. OutW - 1 :
    b[At(r, c, OutW)] = IF r < i \/ (r = i /\ c < j)
                        THEN At(Source(r, c)[1], Source(r, c)[2], w) ELSE Zero

LEMMA SizesAreNumbers ==
  ASSUME call \in CallSpace
  PROVE  /\ w \in Nat /\ h \in Nat /\ OutW \in Nat /\ OutH \in Nat /\ o \in Orientations
         /\ N \in Nat /\ OutW * OutH = N
<1>1. w \in Nat /\ h \in Nat /\ o \in Orientations
  BY OrientationAssumption DEF CallSpace, w, h, o
<1>2. (OutW = w /\ OutH = h) \/ (OutW = h /\ OutH = w)
  BY DEF OutW, OutH, OrientedDims
<1>3. w * h \in Nat /\ w * h = h * w
  BY <1>1
<1> QED
  BY <1>1, <1>2, <1>3 DEF N

\* Source is a map from the result onto the source, and Shown its inverse.
LEMMA SourceInRange ==
  ASSUME call \in CallSpace, NEW r \in 0 .. OutH - 1, NEW c \in 0 .. OutW - 1
  PROVE  Source(r, c) \in (0 .. h - 1) \X (0 .. w - 1)
  BY SizesAreNumbers DEF Source, OutW, OutH, OrientedDims, SwapsAxes, Orientations

LEMMA SourceDiffers ==
  ASSUME call \in CallSpace,
         NEW r \in 0 .. OutH - 1, NEW c \in 0 .. OutW - 1,
         NEW s \in 0 .. OutH - 1, NEW d \in 0 .. OutW - 1, Source(r, c) = Source(s, d)
  PROVE  r = s /\ c = d
  BY SizesAreNumbers DEF Source, OutW, OutH, OrientedDims, SwapsAxes, Orientations

\* The maps of orient.rs are the orientations of EXIF: the pixel fetched for
\* the place where the source's pixel r, c is shown is that pixel.
THEOREM SourceIsShown ==
  ASSUME call \in CallSpace, NEW r \in 0 .. h - 1, NEW c \in 0 .. w - 1
  PROVE  /\ Shown(r, c) \in (0 .. OutH - 1) \X (0 .. OutW - 1)
         /\ Source(Shown(r, c)[1], Shown(r, c)[2]) = <<r, c>>
  BY SizesAreNumbers DEF Source, Shown, FirstRow, FirstCol, OutW, OutH, OrientedDims, SwapsAxes, Orientations

\* A turn of the inner loop, and the end of a row, of remap and its likes.
LEMMA CopyingCopies ==
  ASSUME call \in CallSpace, NEW b \in [0 .. N - 1 -> Int],
         NEW i \in 0 .. OutH - 1, NEW j \in 0 .. OutW - 1, CopiedUpTo(b, i, j)
  PROVE  CopiedUpTo(Copied(b, i, j), i, j + 1)
<1> SUFFICES ASSUME NEW r \in 0 .. OutH - 1, NEW c \in 0 .. OutW - 1
             PROVE  Copied(b, i, j)[At(r, c, OutW)] =
                      IF r < i \/ (r = i /\ c < j + 1)
                      THEN At(Source(r, c)[1], Source(r, c)[2], w) ELSE Zero
  BY DEF CopiedUpTo
<1>1. At(r, c, OutW) \in 0 .. N - 1 /\ At(i, j, OutW) \in 0 .. N - 1
  BY SizesAreNumbers, PositionInRange
<1>2. At(r, c, OutW) = At(i, j, OutW) <=> r = i /\ c = j
  BY SizesAreNumbers, PositionsDiffer
<1>3. Copied(b, i, j)[At(r, c, OutW)] =
        IF r = i /\ c = j THEN At(Source(i, j)[1], Source(i, j)[2], w) ELSE b[At(r, c, OutW)]
  BY <1>1, <1>2 DEF Copied
<1>4. b[At(r, c, OutW)] = IF r < i \/ (r = i /\ c < j)
                          THEN At(Source(r, c)[1], Source(r, c)[2], w) ELSE Zero
  BY DEF CopiedUpTo
<1>5. CASE r = i /\ c = j
  BY <1>3, <1>5
<1>6. CASE ~(r = i /\ c = j)
  <2>1. (r = i /\ c < j + 1) <=> (r = i /\ c < j)
    BY <1>6
  <2> QED
    BY <1>3, <1>4, <1>6, <2>1
<1> QED
  BY <1>5, <1>6

LEMMA CopyingEndsRow ==
  ASSUME call \in CallSpace, NEW b, NEW i \in Nat, NEW j \in Nat, j = OutW, CopiedUpTo(b, i, j)
  PROVE  CopiedUpTo(b, i + 1, 0)
<1> SUFFICES ASSUME NEW r \in 0 .. OutH - 1, NEW c \in 0 .. OutW - 1
             PROVE  b[At(r, c, OutW)] = IF r < i + 1 \/ (r = i + 1 /\ c < 0)
                                        THEN At(Source(r, c)[1], Source(r, c)[2], w) ELSE Zero
  BY DEF CopiedUpTo
<1>1. b[At(r, c, OutW)] = IF r < i \/ (r = i /\ c < j)
                          THEN At(Source(r, c)[1], Source(r, c)[2], w) ELSE Zero
  BY DEF CopiedUpTo
<1> QED
  BY <1>1, SizesAreNumbers

LEMMA CopyIsInjective ==
  ASSUME call \in CallSpace, NEW b, NEW i \in Nat, NEW j \in Nat, CopiedUpTo(b, i, j),
         NEW r \in 0 .. OutH - 1, NEW c \in 0 .. OutW - 1,
         NEW s \in 0 .. OutH - 1, NEW d \in 0 .. OutW - 1,
         b[At(r, c, OutW)] # Zero, b[At(r, c, OutW)] = b[At(s, d, OutW)]
  PROVE  r = s /\ c = d
<1>1. /\ b[At(r, c, OutW)] = At(Source(r, c)[1], Source(r, c)[2], w)
      /\ b[At(s, d, OutW)] = At(Source(s, d)[1], Source(s, d)[2], w)
  BY DEF CopiedUpTo
<1>2. Source(r, c) \in (0 .. h - 1) \X (0 .. w - 1) /\ Source(s, d) \in (0 .. h - 1) \X (0 .. w - 1)
  BY SourceInRange
<1>3. At(Source(r, c)[1], Source(r, c)[2], w) = At(Source(s, d)[1], Source(s, d)[2], w)
  BY <1>1
<1>4. /\ Source(r, c)[1] \in 0 .. h - 1 /\ Source(r, c)[2] \in 0 .. w - 1
      /\ Source(s, d)[1] \in 0 .. h - 1 /\ Source(s, d)[2] \in 0 .. w - 1
      /\ Source(r, c)[1] \in Nat /\ Source(s, d)[1] \in Nat /\ w \in Nat
  BY <1>2, SizesAreNumbers
<1>5. Source(r, c)[1] = Source(s, d)[1] /\ Source(r, c)[2] = Source(s, d)[2]
  BY <1>3, <1>4, PositionsDiffer
<1>6. Source(r, c) = Source(s, d)
  BY <1>2, <1>5
<1> QED
  BY <1>6, SourceDiffers

-----------------------------------------------------------------------------
(* The invariant.                                                          *)

\* What has been moved when the loops stand at i, j.
Moved(b, i, j) ==
  IF Copies THEN CopiedUpTo(b, i, j)
  ELSE IF Turns THEN Reversed(b, LeastOf(i + j, N \div 2), N)
  ELSE IF o = 2 THEN FlippedAcross(b, i, j, w, h)
  ELSE FlippedDown(b, i, j, w, h)

Nothing == call.form = "native" /\ o = 1

Places ==
  /\ pc = "begin" => row = 0 /\ col = 0 /\ reported = 0 /\ pending = 0
  /\ pc \in {"turn", "row", "paced", "finish"} => ~Nothing /\ total = Announced
  /\ pc \in {"turn", "paced", "finish"} => col = 0
  /\ pc = "row" => row < Outer /\ col <= Inner
  /\ pc = "finish" => row >= Outer /\ pending = 0
  /\ pc \in {"paced", "finish"} => ~Turns
  /\ ~Turns => row <= Outer
  /\ result = "none" <=> pc # "done"

Moving ==
  /\ pc = "begin" => buf = [p \in 0 .. N - 1 |-> p]
  /\ pc \in {"turn", "row", "paced", "finish"} => Moved(buf, row, col)

Reporting ==
  pc \in {"turn", "row", "paced", "finish"} =>
    IF Turns THEN reported = LeastOf(row, N \div 2) /\ pending = 0
    ELSE IF Observed THEN reported + pending = row
    ELSE reported = 0 /\ pending = 0

Delivered == pc = "done" => IsOriented /\ NothingLost /\ ReportsAll

OrientInv == TypeOK /\ Places /\ Moving /\ Reporting /\ Delivered

LEMMA ExtentsAreNumbers ==
  ASSUME call \in CallSpace, row \in Nat
  PROVE  /\ Outer \in Nat /\ Step \in Nat \ {0}
         /\ row < Outer => Inner \in Nat
         /\ N \div 2 \in Nat
<1>1. w \in Nat /\ h \in Nat /\ OutW \in Nat /\ OutH \in Nat /\ N \in Nat
  BY SizesAreNumbers
<1>2. N \div 2 \in Nat /\ h \div 2 \in Nat /\ w \div 2 \in Nat
  BY <1>1
<1>3. Outer \in Nat /\ Step \in Nat \ {0}
  BY <1>1, <1>2, OrientationAssumption DEF Outer, Step
<1>4. row < Outer => Inner \in Nat
  BY <1>1, <1>2, OrientationAssumption DEF Outer, Inner, LeastOf, Turns
<1> QED
  BY <1>2, <1>3, <1>4

LEMMA ValuesDifferWhileMoving ==
  ASSUME w \in Nat, h \in Nat, OutW \in Nat, OutH \in Nat, N \in Nat,
         N = w * h, N = OutW * OutH, call \in CallSpace, NEW i \in Nat, NEW j \in Nat,
         Moved(buf, i, j), NEW p \in 0 .. N - 1, NEW q \in 0 .. N - 1
  PROVE  /\ buf[p] # Zero /\ buf[p] = buf[q] => p = q
         /\ ~Copies => buf[p] # Zero
<1>1. CASE Copies
  <2>0. p \in 0 .. OutW * OutH - 1 /\ q \in 0 .. OutW * OutH - 1
    OBVIOUS
  <2>1. PICK r \in 0 .. OutH - 1, c \in 0 .. OutW - 1 : p = At(r, c, OutW)
    BY <2>0, PositionHasAPlace
  <2>2. PICK s \in 0 .. OutH - 1, d \in 0 .. OutW - 1 : q = At(s, d, OutW)
    BY <2>0, PositionHasAPlace
  <2>3. CopiedUpTo(buf, i, j)
    BY <1>1 DEF Moved
  <2>4. ASSUME buf[p] # Zero, buf[p] = buf[q] PROVE r = s /\ c = d
    BY <2>1, <2>2, <2>3, <2>4, CopyIsInjective
  <2> QED
    BY <1>1, <2>1, <2>2, <2>4
<1>2. CASE ~Copies /\ Turns
  <2>1. N \div 2 \in Nat
    OBVIOUS
  <2>2. LeastOf(i + j, N \div 2) \in Nat
    BY <2>1 DEF LeastOf
  <2>3. buf[p] \in 0 .. N - 1 /\ (buf[p] = buf[q] => p = q)
    BY <1>2, <2>2, ReversedIsInjective DEF Moved
  <2> QED
    BY <2>3 DEF Zero
<1>3. CASE ~Copies /\ ~Turns
  <2>1. p \in 0 .. w * h - 1 /\ q \in 0 .. w * h - 1
    OBVIOUS
  <2>2. CASE FlippedAcross(buf, i, j, w, h)
    <3>1. buf[p] \in 0 .. w * h - 1 /\ (buf[p] = buf[q] => p = q)
      BY <2>1, <2>2, AcrossIsInjective
    <3> QED
      BY <3>1 DEF Zero
  <2>3. CASE FlippedDown(buf, i, j, w, h)
    <3>1. buf[p] \in 0 .. w * h - 1 /\ (buf[p] = buf[q] => p = q)
      BY <2>1, <2>3, DownIsInjective
    <3> QED
      BY <3>1 DEF Zero
  <2> QED
    BY <1>3, <2>2, <2>3 DEF Moved
<1> QED
  BY <1>1, <1>2, <1>3

\* Buffers that are permuted so far lose nothing.
LEMMA NothingLostWhileMoving ==
  ASSUME call \in CallSpace, NEW i \in Nat, NEW j \in Nat,
         DOMAIN buf = 0 .. N - 1, Moved(buf, i, j)
  PROVE  NothingLost
<1>1. w \in Nat /\ h \in Nat /\ OutW \in Nat /\ OutH \in Nat /\ N \in Nat
      /\ N = w * h /\ N = OutW * OutH
  BY SizesAreNumbers DEF N
<1>2. ASSUME NEW p \in 0 .. N - 1, NEW q \in 0 .. N - 1
      PROVE  (buf[p] # Zero /\ buf[p] = buf[q] => p = q) /\ (~Copies => buf[p] # Zero)
  BY <1>1, ValuesDifferWhileMoving
<1> QED
  BY <1>2 DEF NothingLost

-----------------------------------------------------------------------------
(* When the loops have ended, every pixel is where it is shown.            *)

LEMMA AllReversed ==
  ASSUME NEW n \in Nat, NEW b, NEW k \in Nat, k = n \div 2, Reversed(b, k, n),
         NEW p \in 0 .. n - 1
  PROVE  b[p] = n - 1 - p
<1>1. b[p] = IF p < k \/ p > n - 1 - k THEN n - 1 - p ELSE p
  BY DEF Reversed
<1>2. ~(p < k \/ p > n - 1 - k) => p = n - 1 - p
  OBVIOUS
<1> QED
  BY <1>1, <1>2

LEMMA AllFlippedDown ==
  ASSUME NEW W \in Nat, NEW H \in Nat, NEW b, NEW i \in Nat, i = H \div 2,
         FlippedDown(b, i, 0, W, H), NEW r \in 0 .. H - 1, NEW c \in 0 .. W - 1
  PROVE  b[At(r, c, W)] = At(H - 1 - r, c, W)
<1>1. b[At(r, c, W)] = IF r < i \/ r > H - 1 - i \/ ((r = i \/ r = H - 1 - i) /\ c < 0)
                       THEN At(H - 1 - r, c, W) ELSE At(r, c, W)
  BY DEF FlippedDown
<1>2. ~(r < i \/ r > H - 1 - i) => r = H - 1 - r
  OBVIOUS
<1> QED
  BY <1>1, <1>2

LEMMA LoopsPlaceEveryPixel ==
  ASSUME call \in CallSpace, ~Nothing, NEW i \in Nat, i >= Outer, ~Turns => i = Outer,
         Moved(buf, i, 0), NEW r \in 0 .. h - 1, NEW c \in 0 .. w - 1
  PROVE  buf[At(Shown(r, c)[1], Shown(r, c)[2], OutW)] = At(r, c, w)
<1>0. w \in Nat /\ h \in Nat /\ OutW \in Nat /\ OutH \in Nat /\ o \in Orientations
      /\ N \in Nat /\ N = w * h
  BY SizesAreNumbers DEF N
<1>1. CASE Copies
  <2>1. CopiedUpTo(buf, OutH, 0)
    BY <1>1 DEF Moved, Outer, Turns
  <2>2. PICK s \in 0 .. OutH - 1, d \in 0 .. OutW - 1 :
          Shown(r, c)[1] = s /\ Shown(r, c)[2] = d /\ Source(s, d) = <<r, c>>
    BY SourceIsShown
  <2>3. buf[At(s, d, OutW)] = At(Source(s, d)[1], Source(s, d)[2], w)
    BY <2>1, <1>0 DEF CopiedUpTo
  <2> QED
    BY <2>2, <2>3
<1>2. CASE Turns
  <2>1. Shown(r, c) = <<h - 1 - r, w - 1 - c>> /\ OutW = w
    BY <1>2 DEF Shown, FirstRow, FirstCol, Turns, OutW, OrientedDims, SwapsAxes
  <2>2. N \div 2 \in Nat /\ LeastOf(i + 0, N \div 2) = N \div 2
    BY <1>0, <1>2 DEF LeastOf, Outer, Turns
  <2>3. Reversed(buf, N \div 2, N)
    BY <1>2, <2>2 DEF Moved, Turns
  <2>4. At(h - 1 - r, w - 1 - c, w) = N - 1 - At(r, c, w) /\ At(r, c, w) \in 0 .. N - 1
    BY <1>0, OppositePosition, PositionInRange
  <2>5. N - 1 - At(r, c, w) \in 0 .. N - 1
    BY <1>0, <2>4
  <2>6. buf[N - 1 - At(r, c, w)] = N - 1 - (N - 1 - At(r, c, w))
    BY <1>0, <2>2, <2>3, <2>5, AllReversed
  <2> QED
    BY <1>0, <2>1, <2>4, <2>6
<1>3. CASE ~Copies /\ o = 2
  <2>1. Shown(r, c) = <<r, w - 1 - c>> /\ OutW = w
    BY <1>3 DEF Shown, FirstRow, FirstCol, OutW, OrientedDims, SwapsAxes
  <2>2. FlippedAcross(buf, h, 0, w, h)
    BY <1>3 DEF Moved, Outer, Turns
  <2>3. w - 1 - c \in 0 .. w - 1 /\ w - 1 - (w - 1 - c) = c /\ r < h
    BY <1>0
  <2>4. buf[At(r, w - 1 - c, w)] = At(r, w - 1 - (w - 1 - c), w)
    BY <2>2, <2>3 DEF FlippedAcross
  <2> QED
    BY <2>1, <2>3, <2>4
<1>4. CASE ~Copies /\ ~Turns /\ o # 2
  <2>0. o = 4
    BY <1>0, <1>4 DEF Copies, Turns, Nothing, SwapsAxes, Orientations
  <2>1. Shown(r, c) = <<h - 1 - r, c>> /\ OutW = w
    BY <2>0 DEF Shown, FirstRow, FirstCol, OutW, OrientedDims, SwapsAxes
  <2>2. FlippedDown(buf, i, 0, w, h) /\ i = h \div 2
    BY <1>4 DEF Moved, Outer
  <2>3. h - 1 - r \in 0 .. h - 1 /\ h - 1 - (h - 1 - r) = r
    BY <1>0
  <2>4. buf[At(h - 1 - r, c, w)] = At(h - 1 - (h - 1 - r), c, w)
    BY <1>0, <2>2, <2>3, AllFlippedDown
  <2> QED
    BY <2>1, <2>3, <2>4
<1> QED
  BY <1>1, <1>2, <1>3, <1>4 DEF Turns

-----------------------------------------------------------------------------
(* One turn of the inner loop, whichever loop it is.                       *)

LEMMA SwappingKeepsTheType ==
  ASSUME NEW D, NEW V, NEW b \in [D -> V], NEW x \in D, NEW y \in D
  PROVE  Swapped(b, x, y) \in [D -> V]
  BY DEF Swapped

LEMMA BodyMoves ==
  ASSUME call \in CallSpace, ~Nothing, buf \in [0 .. N - 1 -> {Zero} \cup 0 .. N - 1],
         row \in Nat, col \in Nat, row < Outer, col < Inner, Moved(buf, row, col)
  PROVE  Body \in [0 .. N - 1 -> {Zero} \cup 0 .. N - 1] /\ Moved(Body, row, col + 1)
<1>0. w \in Nat /\ h \in Nat /\ OutW \in Nat /\ OutH \in Nat /\ o \in Orientations
      /\ N \in Nat /\ N = w * h /\ N = OutW * OutH
  BY SizesAreNumbers DEF N
<1>b. buf \in [0 .. N - 1 -> Int]
  BY <1>0 DEF Zero
<1>1. CASE Copies
  <2>1. row \in 0 .. OutH - 1 /\ col \in 0 .. OutW - 1
    BY <1>0, <1>1 DEF Outer, Inner
  <2>2. CopiedUpTo(Copied(buf, row, col), row, col + 1)
    BY <1>1, <1>b, <2>1, CopyingCopies DEF Moved
  <2>3. PICK s \in 0 .. h - 1, d \in 0 .. w - 1 : Source(row, col)[1] = s /\ Source(row, col)[2] = d
    BY <2>1, SourceInRange
  <2>4. At(s, d, w) \in 0 .. N - 1
    BY <1>0, PositionInRange
  <2>5. Copied(buf, row, col) \in [0 .. N - 1 -> {Zero} \cup 0 .. N - 1]
    BY <2>3, <2>4 DEF Copied
  <2> QED
    BY <1>1, <2>2, <2>5 DEF Body, Moved
<1>2. CASE Turns
  <2>1. row + col \in Nat /\ row + col < N \div 2 /\ N \div 2 \in Nat
    BY <1>0, <1>2, OrientationAssumption DEF Outer, Inner, LeastOf, Turns
  <2>2. LeastOf(row + col, N \div 2) = row + col
        /\ LeastOf(row + (col + 1), N \div 2) = row + col + 1
    BY <2>1 DEF LeastOf
  <2>3. Reversed(buf, row + col, N)
    BY <1>2, <2>2 DEF Moved, Turns
  <2>4. Reversed(Swapped(buf, row + col, N - 1 - (row + col)), row + col + 1, N)
    BY <1>0, <1>b, <2>1, <2>3, HalfTurnSwaps
  <2>5. row + col \in 0 .. N - 1 /\ N - 1 - (row + col) \in 0 .. N - 1
    BY <1>0, <2>1
  <2>6. Swapped(buf, row + col, N - 1 - (row + col)) \in [0 .. N - 1 -> {Zero} \cup 0 .. N - 1]
    BY <2>5, SwappingKeepsTheType
  <2> QED
    BY <1>2, <2>2, <2>4, <2>6 DEF Body, Moved, Turns
<1>3. CASE ~Copies /\ o = 2
  <2>1. row \in 0 .. h - 1 /\ col < w \div 2 /\ col \in 0 .. w - 1 /\ w - 1 - col \in 0 .. w - 1
    BY <1>0, <1>3 DEF Outer, Inner, Turns
  <2>2. FlippedAcross(buf, row, col, w, h) /\ buf \in [0 .. w * h - 1 -> Int]
    BY <1>0, <1>b, <1>3 DEF Moved, Turns
  <2>3. FlippedAcross(Swapped(buf, At(row, col, w), At(row, w - 1 - col, w)), row, col + 1, w, h)
    BY <1>0, <2>1, <2>2, FlipAcrossSwaps
  <2>4. At(row, col, w) \in 0 .. N - 1 /\ At(row, w - 1 - col, w) \in 0 .. N - 1
    BY <1>0, <2>1, PositionInRange
  <2>5. Swapped(buf, At(row, col, w), At(row, w - 1 - col, w)) \in [0 .. N - 1 -> {Zero} \cup 0 .. N - 1]
    BY <2>4, SwappingKeepsTheType
  <2> QED
    BY <1>3, <2>3, <2>5 DEF Body, Moved, Turns
<1>4. CASE ~Copies /\ ~Turns /\ o # 2
  <2>1. row < h \div 2 /\ row \in 0 .. h - 1 /\ h - 1 - row \in 0 .. h - 1 /\ col \in 0 .. w - 1
    BY <1>0, <1>4 DEF Outer, Inner
  <2>2. FlippedDown(buf, row, col, w, h) /\ buf \in [0 .. w * h - 1 -> Int]
    BY <1>0, <1>b, <1>4 DEF Moved
  <2>3. FlippedDown(Swapped(buf, At(row, col, w), At(h - 1 - row, col, w)), row, col + 1, w, h)
    BY <1>0, <2>1, <2>2, FlipDownSwaps
  <2>4. At(row, col, w) \in 0 .. N - 1 /\ At(h - 1 - row, col, w) \in 0 .. N - 1
    BY <1>0, <2>1, PositionInRange
  <2>5. Swapped(buf, At(row, col, w), At(h - 1 - row, col, w)) \in [0 .. N - 1 -> {Zero} \cup 0 .. N - 1]
    BY <2>4, SwappingKeepsTheType
  <2> QED
    BY <1>4, <2>3, <2>5 DEF Body, Moved
<1> QED
  BY <1>1, <1>2, <1>3, <1>4 DEF Turns

\* The end of a row, a column or a batch.
LEMMA RowsEnd ==
  ASSUME call \in CallSpace, row \in Nat, row < Outer, col = Inner, Moved(buf, row, col)
  PROVE  Moved(buf, row + Step, 0)
<1>0. w \in Nat /\ h \in Nat /\ OutW \in Nat /\ OutH \in Nat /\ N \in Nat /\ N \div 2 \in Nat
  BY SizesAreNumbers, ExtentsAreNumbers
<1>1. CASE Copies
  BY <1>0, <1>1, CopyingEndsRow DEF Moved, Inner, Step, Turns
<1>2. CASE Turns
  <2>1. LeastOf(row + col, N \div 2) = LeastOf(row + Step + 0, N \div 2)
    BY <1>0, <1>2, OrientationAssumption DEF LeastOf, Inner, Step, Outer, Turns
  <2> QED
    BY <1>2, <2>1 DEF Moved, Turns
<1>3. CASE ~Copies /\ o = 2
  <2>1. w \div 2 \in Nat /\ col = w \div 2 /\ Step = 1
    BY <1>0, <1>3 DEF Inner, Step, Turns
  <2> QED
    BY <1>0, <1>3, <2>1, FlipAcrossEndsRow DEF Moved, Turns
<1>4. CASE ~Copies /\ ~Turns /\ o # 2
  <2>1. col = w /\ Step = 1
    BY <1>0, <1>4 DEF Inner, Step, Turns
  <2> QED
    BY <1>0, <1>4, <2>1, FlipDownEndsRow DEF Moved
<1> QED
  BY <1>1, <1>2, <1>3, <1>4 DEF Turns

-----------------------------------------------------------------------------
(* What a step leaves alone.                                               *)

\* A call stays the call it is, and with it its sizes and loops.
LEMMA CallStays ==
  ASSUME call' = call
  PROVE  /\ w' = w /\ h' = h /\ o' = o /\ N' = N /\ OutW' = OutW /\ OutH' = OutH
         /\ Copies' = Copies /\ Turns' = Turns /\ Observed' = Observed /\ Nothing' = Nothing
         /\ Outer' = Outer /\ Step' = Step /\ Announced' = Announced
  BY DEF w, h, o, N, OutW, OutH, Copies, Turns, Observed, Nothing, Outer, Step, Announced,
         OrientedDims, SwapsAxes

LEMMA InnerStays ==
  ASSUME call' = call, row' = row
  PROVE  Inner' = Inner
  BY CallStays DEF Inner, LeastOf

LEMMA MovedStays ==
  ASSUME call' = call
  PROVE  Moved(buf, row, col)' <=> Moved(buf', row', col')
<1>1. ASSUME NEW r, NEW c PROVE Source(r, c)' = Source(r, c)
  BY CallStays DEF Source
<1>2. CopiedUpTo(buf, row, col)' <=> CopiedUpTo(buf', row', col')
  BY CallStays, <1>1 DEF CopiedUpTo, At, Zero
<1>3. /\ Reversed(buf, LeastOf(row + col, N \div 2), N)'
           <=> Reversed(buf', LeastOf(row' + col', N \div 2), N)
      /\ FlippedAcross(buf, row, col, w, h)' <=> FlippedAcross(buf', row', col', w, h)
      /\ FlippedDown(buf, row, col, w, h)' <=> FlippedDown(buf', row', col', w, h)
  BY CallStays DEF Reversed, FlippedAcross, FlippedDown, LeastOf, At
<1> QED
  BY CallStays, <1>2, <1>3 DEF Moved

LEMMA LossStays ==
  ASSUME call' = call, buf' = buf
  PROVE  NothingLost' <=> NothingLost
  BY CallStays DEF NothingLost, Zero

LEMMA NothingCopied ==
  ASSUME call \in CallSpace, NEW b,
         \A r \in 0 .. OutH - 1, c \in 0 .. OutW - 1 : b[At(r, c, OutW)] = Zero
  PROVE  CopiedUpTo(b, 0, 0)
  BY SizesAreNumbers DEF CopiedUpTo

LEMMA NothingFlipped ==
  ASSUME NEW W \in Nat, NEW H \in Nat, NEW b,
         \A r \in 0 .. H - 1, c \in 0 .. W - 1 : b[At(r, c, W)] = At(r, c, W)
  PROVE  FlippedAcross(b, 0, 0, W, H) /\ FlippedDown(b, 0, 0, W, H)
  BY DEF FlippedAcross, FlippedDown

\* A fresh buffer, and one that holds every pixel where it was.
LEMMA FreshIsLossless ==
  ASSUME call' = call, call \in CallSpace,
         buf' = IF Copies THEN [p \in 0 .. N - 1 |-> Zero] ELSE [p \in 0 .. N - 1 |-> p]
  PROVE  /\ NothingLost'
         /\ buf' \in [0 .. N - 1 -> {Zero} \cup 0 .. N - 1]
         /\ ~Nothing => Moved(buf', 0, 0)
<1>0. w \in Nat /\ h \in Nat /\ OutW \in Nat /\ OutH \in Nat /\ N \in Nat
      /\ N = w * h /\ N = OutW * OutH /\ N \div 2 \in Nat /\ o \in Orientations
  BY SizesAreNumbers DEF N
<1>1. NothingLost'
  BY <1>0, CallStays DEF NothingLost, Zero
<1>2. buf' \in [0 .. N - 1 -> {Zero} \cup 0 .. N - 1]
  OBVIOUS
<1>3. CASE Copies
  <2>1. ASSUME NEW r \in 0 .. OutH - 1, NEW c \in 0 .. OutW - 1
        PROVE  buf'[At(r, c, OutW)] = Zero
    <3>1. At(r, c, OutW) \in 0 .. N - 1
      BY <1>0, PositionInRange
    <3> QED
      BY <1>3, <3>1
  <2>2. CopiedUpTo(buf', 0, 0)
    BY <2>1, NothingCopied
  <2> QED
    BY <1>1, <1>2, <1>3, <2>2 DEF Moved
<1>4. CASE ~Copies
  <2>1. buf' = [p \in 0 .. N - 1 |-> p]
    BY <1>4
  <2>2. ASSUME NEW r \in 0 .. h - 1, NEW c \in 0 .. w - 1
        PROVE  buf'[At(r, c, w)] = At(r, c, w)
    <3>1. At(r, c, w) \in 0 .. N - 1
      BY <1>0, PositionInRange
    <3> QED
      BY <2>1, <3>1
  <2>3. LeastOf(0 + 0, N \div 2) = 0
    BY <1>0 DEF LeastOf
  <2>4. Reversed(buf', 0, N)
    BY <1>0, <2>1 DEF Reversed
  <2>5. FlippedAcross(buf', 0, 0, w, h) /\ FlippedDown(buf', 0, 0, w, h)
    BY <1>0, <2>2, NothingFlipped
  <2> QED
    BY <1>1, <1>2, <1>4, <2>3, <2>4, <2>5 DEF Moved
<1> QED
  BY <1>3, <1>4

\* The native form has nothing to do for orientation 1.
LEMMA NothingToMove ==
  ASSUME call \in CallSpace, Nothing, buf = [p \in 0 .. N - 1 |-> p],
         NEW r \in 0 .. h - 1, NEW c \in 0 .. w - 1
  PROVE  buf[At(Shown(r, c)[1], Shown(r, c)[2], OutW)] = At(r, c, w)
<1>1. w \in Nat /\ h \in Nat /\ N = w * h
  BY SizesAreNumbers DEF N
<1>2. Shown(r, c) = <<r, c>> /\ OutW = w
  BY DEF Nothing, Shown, FirstRow, FirstCol, OutW, OrientedDims, SwapsAxes
<1>3. At(r, c, w) \in 0 .. N - 1
  BY <1>1, PositionInRange
<1> QED
  BY <1>2, <1>3

LEMMA OrientationStays ==
  ASSUME call' = call, buf' = buf,
         \A r \in 0 .. h - 1, c \in 0 .. w - 1 :
           buf[At(Shown(r, c)[1], Shown(r, c)[2], OutW)] = At(r, c, w)
  PROVE  IsOriented'
<1>1. ASSUME NEW r, NEW c PROVE Shown(r, c)' = Shown(r, c)
  BY CallStays DEF Shown, FirstRow, FirstCol
<1> QED
  BY CallStays, <1>1 DEF IsOriented, At

-----------------------------------------------------------------------------
(* The invariant holds at first, and every action keeps it.                *)

LEMMA InvariantInitially ==
  ASSUME Init PROVE OrientInv
<1>1. call \in CallSpace /\ N \in Nat
  BY SizesAreNumbers DEF Init, CallSpace
<1>2. TypeOK
  <2>1. buf \in [0 .. N - 1 -> {Zero} \cup 0 .. N - 1]
    BY DEF Init
  <2>2. 0 \in 0 .. Pace - 1
    BY OrientationAssumption
  <2> QED
    BY <2>1, <2>2 DEF Init, TypeOK
<1>3. Places
  BY <1>1, ExtentsAreNumbers DEF Init, Places
<1> QED
  BY <1>2, <1>3 DEF Init, OrientInv, Moving, Reporting, Delivered

\* A step by which the call returns, the buffer unchanged.
LEMMA ReturningKeeps ==
  ASSUME OrientInv, pc # "done", pc' = "done", call' = call, buf' = buf, total' = total,
         row' = row, col' = col, reported' \in Nat, pending' \in 0 .. Pace - 1, stop' \in BOOLEAN,
         result' \in {"ok", "Stopped"},
         pc # "begin", result' = "ok" => col = 0 /\ row >= Outer /\ reported' = total
  PROVE  OrientInv'
<1>0. call \in CallSpace /\ row \in Nat /\ col \in Nat /\ Outer \in Nat
  BY ExtentsAreNumbers DEF OrientInv, TypeOK, CallSpace
<1>1. pc \in {"turn", "row", "paced", "finish"} /\ ~Nothing /\ Moved(buf, row, col)
  BY DEF OrientInv, TypeOK, Places, Moving
<1>2. TypeOK'
  BY CallStays DEF OrientInv, TypeOK
<1>3. Places'
  BY CallStays, <1>0 DEF OrientInv, Places
<1>4. IsOriented'
  <2>1. CASE result' = "ok"
    <3>1. ~Turns => row = Outer
      BY <1>0, <2>1 DEF OrientInv, Places
    <3>2. \A r \in 0 .. h - 1, c \in 0 .. w - 1 :
            buf[At(Shown(r, c)[1], Shown(r, c)[2], OutW)] = At(r, c, w)
      BY <1>0, <1>1, <2>1, <3>1, LoopsPlaceEveryPixel
    <3> QED
      BY <3>2, OrientationStays
  <2>2. CASE result' # "ok"
    BY <2>2 DEF IsOriented
  <2> QED
    BY <2>1, <2>2
<1>5. NothingLost'
  <2>1. DOMAIN buf = 0 .. N - 1
    BY DEF OrientInv, TypeOK
  <2> QED
    BY <1>0, <1>1, <2>1, NothingLostWhileMoving, LossStays
<1> QED
  BY <1>2, <1>3, <1>4, <1>5 DEF OrientInv, Moving, Reporting, Delivered, ReportsAll

LEMMA BeginKeeps ==
  ASSUME OrientInv, BeginInPlace \/ BeginCopy PROVE OrientInv'
<1>0. call \in CallSpace /\ row = 0 /\ col = 0 /\ reported = 0 /\ pending = 0
      /\ pc = "begin" /\ buf = [p \in 0 .. N - 1 |-> p] /\ call' = call
      /\ row' = row /\ col' = col /\ reported' = 0 /\ pending' = 0 /\ stop' = stop
      /\ total' = Announced
  BY DEF OrientInv, TypeOK, Places, Moving, BeginInPlace, BeginCopy, CallSpace, loop
<1>1. Outer \in Nat /\ Announced \in Nat /\ N \in Nat /\ N \div 2 \in Nat
  BY <1>0, ExtentsAreNumbers, SizesAreNumbers DEF Announced
<1>2. /\ buf' = IF Copies THEN [p \in 0 .. N - 1 |-> Zero] ELSE [p \in 0 .. N - 1 |-> p]
      /\ \/ pc' = "turn" /\ result' = result /\ ~Nothing
         \/ pc' = "done" /\ result' \in {"Stopped", "OutOfMemory"}
         \/ pc' = "done" /\ result' = "ok" /\ Nothing
  BY <1>0 DEF BeginInPlace, BeginCopy, Return, Nothing, Copies
<1>3. NothingLost' /\ buf' \in [0 .. N - 1 -> {Zero} \cup 0 .. N - 1]
      /\ (~Nothing => Moved(buf', 0, 0))
  BY <1>0, <1>2, FreshIsLossless
<1>4. TypeOK'
  BY <1>0, <1>1, <1>2, <1>3, CallStays, OrientationAssumption DEF OrientInv, TypeOK
<1>5. Places'
  BY <1>0, <1>1, <1>2, CallStays DEF OrientInv, Places
<1>6. Moving'
  BY <1>0, <1>2, <1>3, MovedStays DEF Moving
<1>7. Reporting'
  <2>1. LeastOf(0, N \div 2) = 0
    BY <1>1 DEF LeastOf
  <2>2. LeastOf(row, N \div 2)' = LeastOf(0, N \div 2)
    BY <1>0, CallStays DEF LeastOf
  <2> QED
    BY <1>0, <2>1, <2>2, CallStays DEF Reporting
<1>8. Delivered'
  <2>1. CASE result' = "ok" /\ pc' = "done"
    <3>1. Nothing /\ ~Copies
      BY <1>0, <1>2, <2>1 DEF OrientInv, Places, Nothing, Copies, SwapsAxes
    <3>2. IsOriented'
      BY <1>0, <1>2, <3>1, NothingToMove, OrientationStays
    <3>3. ReportsAll'
      BY <1>0, <3>1 DEF ReportsAll, Announced, Nothing
    <3> QED
      BY <1>3, <3>2, <3>3 DEF Delivered
  <2>2. CASE pc' # "done" \/ result' # "ok"
    BY <1>3, <2>2 DEF Delivered, IsOriented, ReportsAll
  <2> QED
    BY <2>1, <2>2
<1> QED
  BY <1>4, <1>5, <1>6, <1>7, <1>8 DEF OrientInv

LEMMA TurnKeeps ==
  ASSUME OrientInv, Turn PROVE OrientInv'
<1>0. /\ pc = "turn" /\ row < Outer /\ call' = call /\ row' = row /\ col' = col /\ buf' = buf
      /\ total' = total /\ reported' = reported /\ pending' = pending /\ stop' = stop
      /\ \/ pc' = "row" /\ result' = result
         \/ pc' = "done" /\ result' = "Stopped"
  BY DEF Turn, Poll, Return, loop, work
<1>1. CASE pc' = "row"
  <2>0. call \in CallSpace /\ row \in Nat /\ col = 0 /\ Inner \in Nat
    BY <1>0, ExtentsAreNumbers DEF OrientInv, TypeOK, Places, CallSpace
  <2>1. TypeOK'
    BY <1>0, <1>1, CallStays DEF OrientInv, TypeOK
  <2>2. Places'
    BY <1>0, <1>1, <2>0, CallStays, InnerStays DEF OrientInv, Places
  <2>3. Moving'
    BY <1>0, <1>1, MovedStays DEF OrientInv, Moving
  <2>4. Reporting'
    BY <1>0, <1>1, CallStays DEF OrientInv, Reporting, LeastOf
  <2> QED
    BY <1>1, <2>1, <2>2, <2>3, <2>4 DEF OrientInv, Delivered
<1>2. CASE pc' = "done"
  BY <1>0, <1>2, ReturningKeeps DEF OrientInv, TypeOK
<1> QED
  BY <1>0, <1>1, <1>2

LEMMA MoveKeeps ==
  ASSUME OrientInv, Move PROVE OrientInv'
<1>0. /\ pc = "row" /\ col < Inner /\ call' = call /\ pc' = pc /\ row' = row /\ col' = col + 1
      /\ buf' = Body /\ total' = total /\ reported' = reported /\ pending' = pending
      /\ stop' = stop /\ result' = result
  BY DEF Move, work
<1>1. /\ call \in CallSpace /\ row \in Nat /\ col \in Nat /\ row < Outer /\ ~Nothing
      /\ Moved(buf, row, col) /\ buf \in [0 .. N - 1 -> {Zero} \cup 0 .. N - 1]
  BY <1>0 DEF OrientInv, TypeOK, Places, Moving, CallSpace
<1>2. Inner \in Nat
  BY <1>1, ExtentsAreNumbers
<1>3. buf' \in [0 .. N - 1 -> {Zero} \cup 0 .. N - 1] /\ Moved(buf', row, col + 1)
  BY <1>0, <1>1, BodyMoves
<1>4. TypeOK'
  BY <1>0, <1>1, <1>3, CallStays DEF OrientInv, TypeOK
<1>5. Places'
  BY <1>0, <1>1, <1>2, CallStays, InnerStays DEF OrientInv, Places
<1>6. Moving'
  BY <1>0, <1>3, MovedStays DEF Moving
<1>7. Reporting'
  BY <1>0, CallStays DEF OrientInv, Reporting, LeastOf
<1> QED
  BY <1>0, <1>4, <1>5, <1>6, <1>7 DEF OrientInv, Delivered

LEMMA RowDoneKeeps ==
  ASSUME OrientInv, RowDone PROVE OrientInv'
<1>0. /\ pc = "row" /\ col = Inner /\ call' = call /\ row' = row + Step /\ col' = 0
      /\ buf' = buf /\ total' = total /\ stop' = stop /\ result' = result
      /\ pc' \in {"turn", "paced"} /\ (pc' = "paced" => ~Turns)
  BY DEF RowDone
<1>1. /\ call \in CallSpace /\ row \in Nat /\ col \in Nat /\ row < Outer /\ ~Nothing
      /\ Moved(buf, row, col) /\ Step \in Nat \ {0} /\ Outer \in Nat /\ Inner \in Nat
      /\ reported \in Nat /\ pending \in 0 .. Pace - 1 /\ N \div 2 \in Nat /\ Pace \in Nat \ {0}
  BY <1>0, ExtentsAreNumbers, OrientationAssumption DEF OrientInv, TypeOK, Places, Moving, CallSpace
<1>2. /\ reported' \in Nat /\ pending' \in 0 .. Pace - 1
      /\ Reporting'
  <2>1. CASE Turns
    <3>1. reported' = reported + Inner /\ pending' = pending
      BY <2>1 DEF RowDone, BatchReport
    <3>2. reported = LeastOf(row, N \div 2) /\ pending = 0
      BY <1>0, <2>1 DEF OrientInv, Reporting
    <3>3. Inner = LeastOf(BatchLen, N \div 2 - row) /\ Outer = N \div 2 /\ Step = BatchLen
      BY <2>1 DEF Inner, Outer, Step, Turns
    <3>4. reported' = LeastOf(row + Step, N \div 2)
      BY <1>1, <3>1, <3>2, <3>3 DEF LeastOf
    <3>5. LeastOf(row, N \div 2)' = LeastOf(row + Step, N \div 2)
      BY <1>0, CallStays DEF LeastOf
    <3> QED
      BY <1>0, <1>1, <2>1, <3>1, <3>2, <3>4, <3>5, CallStays DEF Reporting
  <2>2. CASE ~Turns
    <3>1. Step = 1
      BY <2>2 DEF Step
    <3>2. \/ ~Observed /\ reported' = reported /\ pending' = pending
          \/ Observed /\ reported' = reported + Pace /\ pending' = 0 /\ pending + 1 = Pace
          \/ Observed /\ reported' = reported /\ pending' = pending + 1 /\ pending + 1 # Pace
      BY <2>2 DEF RowDone
    <3>3. IF Observed THEN reported + pending = row ELSE reported = 0 /\ pending = 0
      BY <1>0, <2>2 DEF OrientInv, Reporting
    <3>4. /\ reported' \in Nat /\ pending' \in 0 .. Pace - 1
          /\ IF Observed THEN reported' + pending' = row + 1 ELSE reported' = 0 /\ pending' = 0
      BY <1>1, <3>2, <3>3
    <3> QED
      BY <1>0, <2>2, <3>1, <3>4, CallStays DEF Reporting
  <2> QED
    BY <2>1, <2>2
<1>3. TypeOK'
  BY <1>0, <1>1, <1>2, CallStays DEF OrientInv, TypeOK
<1>4. Places'
  <2>1. ~Turns => Step = 1
    BY DEF Step
  <2> QED
    BY <1>0, <1>1, <2>1, CallStays DEF OrientInv, Places
<1>5. Moving'
  BY <1>0, <1>1, RowsEnd, MovedStays DEF Moving
<1> QED
  BY <1>0, <1>2, <1>3, <1>4, <1>5 DEF OrientInv, Delivered

LEMMA PacedKeeps ==
  ASSUME OrientInv, Paced PROVE OrientInv'
<1>0. /\ pc = "paced" /\ call' = call /\ row' = row /\ col' = col /\ buf' = buf
      /\ total' = total /\ reported' = reported /\ pending' = pending /\ stop' = stop
      /\ \/ pc' = "turn" /\ result' = result
         \/ pc' = "done" /\ result' = "Stopped"
  BY DEF Paced, Poll, Return, loop, work
<1>1. CASE pc' = "turn"
  <2>1. TypeOK'
    BY <1>0, <1>1, CallStays DEF OrientInv, TypeOK
  <2>2. Places'
    BY <1>0, <1>1, CallStays DEF OrientInv, Places
  <2>3. Moving'
    BY <1>0, <1>1, MovedStays DEF OrientInv, Moving
  <2>4. Reporting'
    BY <1>0, <1>1, CallStays DEF OrientInv, Reporting, LeastOf
  <2> QED
    BY <1>1, <2>1, <2>2, <2>3, <2>4 DEF OrientInv, Delivered
<1>2. CASE pc' = "done"
  BY <1>0, <1>2, ReturningKeeps DEF OrientInv, TypeOK
<1> QED
  BY <1>0, <1>1, <1>2

LEMMA FinishKeeps ==
  ASSUME OrientInv, Finish PROVE OrientInv'
<1>0. /\ pc = "turn" /\ row >= Outer /\ call' = call /\ row' = row /\ col' = col /\ buf' = buf
      /\ total' = total /\ reported' = reported + pending /\ pending' = 0 /\ stop' = stop
  BY DEF Finish, loop
<1>1. /\ call \in CallSpace /\ row \in Nat /\ col = 0 /\ ~Nothing /\ Outer \in Nat
      /\ reported \in Nat /\ pending \in 0 .. Pace - 1 /\ 0 \in 0 .. Pace - 1
      /\ total = Announced /\ N \div 2 \in Nat
  BY <1>0, ExtentsAreNumbers, OrientationAssumption DEF OrientInv, TypeOK, Places, CallSpace
<1>2. CASE Turns
  <2>1. pc' = "done" /\ result' = "ok"
    BY <1>2 DEF Finish, Return
  <2>2. reported' = N \div 2
    BY <1>0, <1>1, <1>2 DEF OrientInv, Reporting, LeastOf, Outer, Turns
  <2>3. total = N \div 2
    BY <1>1, <1>2 DEF Announced, Outer, Turns, Observed, Copies
  <2> QED
    BY <1>0, <1>1, <2>1, <2>2, <2>3, ReturningKeeps DEF OrientInv, TypeOK
<1>3. CASE ~Turns
  <2>1. pc' = "finish" /\ result' = result
    BY <1>3 DEF Finish
  <2>2. TypeOK'
    BY <1>0, <1>1, <2>1, CallStays DEF OrientInv, TypeOK
  <2>3. Places'
    BY <1>0, <1>1, <1>3, <2>1, CallStays DEF OrientInv, Places
  <2>4. Moving'
    BY <1>0, <2>1, MovedStays DEF OrientInv, Moving
  <2>5. Reporting'
    BY <1>0, <1>1, <1>3, <2>1, CallStays DEF OrientInv, Reporting
  <2> QED
    BY <2>1, <2>2, <2>3, <2>4, <2>5 DEF OrientInv, Delivered
<1> QED
  BY <1>2, <1>3

LEMMA FinishPollKeeps ==
  ASSUME OrientInv, FinishPoll PROVE OrientInv'
<1>0. /\ pc = "finish" /\ call' = call /\ row' = row /\ col' = col /\ buf' = buf
      /\ total' = total /\ reported' = reported /\ pending' = pending /\ stop' = stop
      /\ pc' = "done" /\ result' \in {"ok", "Stopped"}
  BY DEF FinishPoll, Return, loop, work
<1>1. /\ call \in CallSpace /\ row \in Nat /\ col = 0 /\ ~Nothing /\ Outer \in Nat
      /\ row >= Outer /\ ~Turns /\ row <= Outer /\ reported \in Nat /\ pending = 0
      /\ total = Announced
  BY <1>0, ExtentsAreNumbers DEF OrientInv, TypeOK, Places, CallSpace
<1>2. reported = total
  <2>1. IF Observed THEN reported = Outer ELSE reported = 0
    BY <1>0, <1>1 DEF OrientInv, Reporting
  <2>2. Announced = IF Observed THEN Outer ELSE 0
    BY <1>1 DEF Announced, Nothing, Copies
  <2> QED
    BY <1>1, <2>1, <2>2
<1> QED
  BY <1>0, <1>1, <1>2, ReturningKeeps DEF OrientInv, TypeOK

LEMMA StutterKeeps ==
  ASSUME OrientInv, Raise \/ UNCHANGED vars PROVE OrientInv'
<1>0. /\ call' = call /\ pc' = pc /\ row' = row /\ col' = col /\ buf' = buf
      /\ total' = total /\ reported' = reported /\ pending' = pending /\ stop' \in BOOLEAN
      /\ result' = result
  BY DEF Raise, vars, loop, work, OrientInv, TypeOK
<1>1. TypeOK'
  BY <1>0, CallStays DEF OrientInv, TypeOK
<1>2. Places'
  BY <1>0, CallStays, InnerStays DEF OrientInv, Places
<1>3. Moving'
  BY <1>0, CallStays, MovedStays DEF OrientInv, Moving
<1>4. Reporting'
  BY <1>0, CallStays DEF OrientInv, Reporting, LeastOf
<1>5. Delivered'
  <2>1. ASSUME NEW r, NEW c PROVE Shown(r, c)' = Shown(r, c)
    BY <1>0, CallStays DEF Shown, FirstRow, FirstCol
  <2>2. IsOriented => IsOriented'
    BY <1>0, <2>1, CallStays DEF IsOriented, At
  <2>3. NothingLost => NothingLost'
    BY <1>0, LossStays
  <2> QED
    BY <1>0, <2>2, <2>3 DEF OrientInv, Delivered, ReportsAll
<1> QED
  BY <1>1, <1>2, <1>3, <1>4, <1>5 DEF OrientInv

LEMMA InvariantHolds == Spec => []OrientInv
<1>1. OrientInv /\ [Next]_vars => OrientInv'
  BY BeginKeeps, TurnKeeps, MoveKeeps, RowDoneKeeps, PacedKeeps, FinishKeeps, FinishPollKeeps,
     StutterKeeps DEF Next, Returned
<1> QED
  BY InvariantInitially, <1>1, PTL DEF Spec

-----------------------------------------------------------------------------
\* The variables keep their types; no index leaves its buffer.
THEOREM TypeCorrect == Spec => []TypeOK
<1>1. OrientInv => TypeOK
  BY DEF OrientInv
<1> QED
  BY InvariantHolds, <1>1, PTL

\* A call that returns a picture returns it the way its orientation shows it.
THEOREM ShowsThePicture == Spec => []IsOriented
<1>1. OrientInv => IsOriented
  <2>1. OrientInv /\ result = "ok" => pc = "done"
    BY DEF OrientInv, Places
  <2> QED
    BY <2>1 DEF OrientInv, Delivered, IsOriented
<1> QED
  BY InvariantHolds, <1>1, PTL

\* At every moment the pixels in the buffer are different pixels.
THEOREM LosesNothing == Spec => []NothingLost
<1>1. OrientInv => NothingLost
  <2>1. ASSUME OrientInv PROVE call \in CallSpace /\ N \in Nat /\ DOMAIN buf = 0 .. N - 1
    BY <2>1, SizesAreNumbers DEF OrientInv, TypeOK, CallSpace
  <2>2. CASE pc = "begin"
    BY <2>1, <2>2 DEF OrientInv, Moving, NothingLost, Zero
  <2>3. CASE pc = "done"
    BY <2>3 DEF OrientInv, Delivered
  <2>4. CASE pc \in {"turn", "row", "paced", "finish"}
    <3>1. ASSUME OrientInv PROVE row \in Nat /\ col \in Nat /\ Moved(buf, row, col)
      BY <2>4, <3>1 DEF OrientInv, TypeOK, Moving
    <3> QED
      BY <2>1, <3>1, NothingLostWhileMoving
  <2> QED
    BY <2>2, <2>3, <2>4 DEF OrientInv, TypeOK
<1> QED
  BY InvariantHolds, <1>1, PTL

\* A call that returns a picture has reported the work it announced.
THEOREM ReportsEverything == Spec => []ReportsAll
<1>1. OrientInv => ReportsAll
  BY DEF OrientInv, Places, Delivered, ReportsAll
<1> QED
  BY InvariantHolds, <1>1, PTL
=============================================================================
