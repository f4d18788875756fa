------------------------------- MODULE Geometry -------------------------------
(***************************************************************************)
(* The size arithmetic both backends share: the post-crop dimensions that  *)
(* `probe` reports and the crop pass copies, the admission check against   *)
(* the configured limits, and the axis swap of the EXIF orientations.      *)
(*                                                                         *)
(* A size is a natural number; UsizeMax is the largest value of the        *)
(* machine's usize, and an addition or product that would exceed it is     *)
(* treated the way the code treats it (checked, or reported as an error).  *)
(***************************************************************************)
EXTENDS Integers

CONSTANT UsizeMax        \* usize::MAX (= u64::MAX on the supported targets)

ASSUME UsizeAssumption == UsizeMax \in Nat \ {0}

\* An optional value is a set of at most one element.
Some(x)   == {x}
None      == {}
The(opt)  == CHOOSE x \in opt : TRUE

-----------------------------------------------------------------------------
(* rawloader: crop margins [top, right, bottom, left].                     *)

Margins == [top : Nat, right : Nat, bottom : Nat, left : Nat]

\* The crop would empty the image or reach outside it.
MarginsMalformed(w, h, m) == m.top + m.bottom >= h \/ m.left + m.right >= w

CroppedDims(w, h, m) ==
  IF MarginsMalformed(w, h, m)
  THEN <<w, h>>
  ELSE <<w - m.left - m.right, h - m.top - m.bottom>>

-----------------------------------------------------------------------------
(* rawler: a rectangle (x, y, w, h), the crop area before the active area. *)

Rects == [x : Nat, y : Nat, w : Nat, h : Nat]

RawlerCropRect(cropArea, activeArea) == IF cropArea # None THEN cropArea ELSE activeArea

\* checked_add: an end past usize::MAX does not fit.
Fits(start, length, bound) == start + length <= UsizeMax /\ start + length <= bound

RectMalformed(w, h, r) ==
  \/ r.w = 0 \/ r.h = 0
  \/ ~Fits(r.x, r.w, w) \/ ~Fits(r.y, r.h, h)

RawlerCroppedDims(w, h, rect) ==
  IF rect = None \/ RectMalformed(w, h, The(rect))
  THEN <<w, h>>
  ELSE <<The(rect).w, The(rect).h>>

-----------------------------------------------------------------------------
(* The rows a crop pass copies and where they start in the source buffer.  *)

\* First column, first row and row count copied out of a w x h sensor.
MarginWindow(w, h, m) ==
  LET d == CroppedDims(w, h, m) IN
    IF d = <<w, h>> THEN [left |-> 0, top |-> 0, width |-> w, rows |-> h]
    ELSE [left |-> m.left, top |-> m.top, width |-> d[1], rows |-> h - m.bottom - m.top]

RectWindow(w, h, rect) ==
  LET d == RawlerCroppedDims(w, h, rect) IN
    IF rect = None \/ d = <<w, h>> THEN [left |-> 0, top |-> 0, width |-> w, rows |-> h]
    ELSE [left |-> The(rect).x, top |-> The(rect).y, width |-> d[1], rows |-> d[2]]

\* The half-open range of rgb[] that row number i of the window is copied from.
RowStart(w, win, i) == ((win.top + i) * w + win.left) * 3
RowEnd(w, win, i)   == RowStart(w, win, i) + win.width * 3

-----------------------------------------------------------------------------
(* Limits.                                                                 *)

\* enforce_decode_limits: "ok", or the error it returns.
DecodeLimits(w, h, maxPixels, maxDecodeBytes) ==
  IF w * h > UsizeMax THEN "OutOfMemory"
  ELSE IF w * h > maxPixels THEN "LimitExceeded"
  ELSE IF w * h * 12 > UsizeMax THEN "OutOfMemory"
  ELSE IF w * h * 12 > maxDecodeBytes THEN "LimitExceeded"
  ELSE "ok"

\* The pixel cap of both probes, which the configuration cannot change.
ProbeLimits(w, h, cap) ==
  IF w * h > UsizeMax THEN "OutOfMemory"
  ELSE IF w * h > cap THEN "LimitExceeded"
  ELSE "ok"

-----------------------------------------------------------------------------
(* EXIF orientations 1..8; 5..8 exchange the axes.                         *)

Orientations == 1 .. 8
SwapsAxes(o) == o \in 5 .. 8
OrientedDims(o, d) == IF SwapsAxes(o) THEN <<d[2], d[1]>> ELSE d

-----------------------------------------------------------------------------
\* The position of row r and column c in a buffer of that width.
At(r, c, width) == r * width + c
=============================================================================
