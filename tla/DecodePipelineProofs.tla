------------------------- MODULE DecodePipelineProofs -------------------------
(***************************************************************************)
(* Theorems about DecodePipeline, for files and configurations of any kind *)
(* and images of any size.  The inductive invariant is Inv: the types, the *)
(* place of the code in its plan, the outcomes reported so far, the stop   *)
(* request it has or has not heard, and the work that is still to do.      *)
(***************************************************************************)
EXTENDS DecodePipeline, TLAPS

-----------------------------------------------------------------------------
(* The window a crop copies is the one the probe announces, and lies on    *)
(* the sensor, whatever its size.                                          *)

Windows == [left : Nat, top : Nat, width : Nat, rows : Nat]

\* A window lies on a w x h sensor.
Inside(win, w, h) ==
  /\ win \in Windows
  /\ win.left + win.width <= w
  /\ win.top + win.rows <= h

LEMMA TheIsAMember ==
  ASSUME NEW opt, opt # None
  PROVE  The(opt) \in opt
  BY DEF The, None

\* The margins of rawloader never reach outside the sensor (apply_crop), and
\* the window has the dimensions that cropped_dims announces.
THEOREM MarginWindowIsInside ==
  ASSUME NEW w \in Nat, NEW h \in Nat, NEW m \in Margins
  PROVE  /\ Inside(MarginWindow(w, h, m), w, h)
         /\ CroppedDims(w, h, m) = <<MarginWindow(w, h, m).width, MarginWindow(w, h, m).rows>>
<1> DEFINE d == CroppedDims(w, h, m)
<1>0. m.top \in Nat /\ m.bottom \in Nat /\ m.left \in Nat /\ m.right \in Nat
  BY DEF Margins
<1>1. CASE d = <<w, h>>
  BY <1>0, <1>1 DEF MarginWindow, Inside, Windows
<1>2. CASE d # <<w, h>>
  <2>1. ~MarginsMalformed(w, h, m) /\ d = <<w - m.left - m.right, h - m.top - m.bottom>>
    BY <1>2 DEF CroppedDims
  <2>2. m.top + m.bottom < h /\ m.left + m.right < w
    BY <2>1, <1>0 DEF MarginsMalformed
  <2>3. MarginWindow(w, h, m)
          = [left |-> m.left, top |-> m.top, width |-> d[1], rows |-> h - m.bottom - m.top]
    BY <1>2 DEF MarginWindow
  <2> QED BY <2>1, <2>2, <2>3, <1>0 DEF Inside, Windows
<1> QED BY <1>1, <1>2

\* The same for a rectangle of rawler (rawler_cropped_dims, apply_rawler_crop).
THEOREM RectWindowIsInside ==
  ASSUME NEW w \in Nat, NEW h \in Nat, NEW opt \in SUBSET Rects
  PROVE  /\ Inside(RectWindow(w, h, opt), w, h)
         /\ RawlerCroppedDims(w, h, opt) = <<RectWindow(w, h, opt).width, RectWindow(w, h, opt).rows>>
<1> DEFINE d == RawlerCroppedDims(w, h, opt)
<1>1. CASE opt = None \/ d = <<w, h>>
  BY <1>1 DEF RectWindow, RawlerCroppedDims, Inside, Windows
<1>2. CASE opt # None /\ d # <<w, h>>
  <2> DEFINE r == The(opt)
  <2>1. r \in Rects
    BY <1>2, TheIsAMember
  <2>3. ~RectMalformed(w, h, r) /\ d = <<r.w, r.h>>
    BY <1>2 DEF RawlerCroppedDims
  <2>4. r.x + r.w <= w /\ r.y + r.h <= h
    BY <2>3 DEF RectMalformed, Fits
  <2>5. RectWindow(w, h, opt) = [left |-> r.x, top |-> r.y, width |-> d[1], rows |-> d[2]]
    BY <1>2 DEF RectWindow
  <2> QED BY <2>1, <2>3, <2>4, <2>5 DEF Inside, Windows, Rects
<1> QED BY <1>1, <1>2

LEMMA ProductIsMonotonic ==
  ASSUME NEW a \in Nat, NEW b \in Nat, NEW c \in Nat, a <= b
  PROVE  a * c <= b * c
  OBVIOUS

\* A row of a window that lies on the sensor is read inside the sensor's
\* buffer of three samples a pixel, so the copying slices never panic.
THEOREM RowsAreInBounds ==
  ASSUME NEW w \in Nat, NEW h \in Nat, NEW win, Inside(win, w, h),
         NEW i \in Nat, i < win.rows
  PROVE  /\ 0 <= RowStart(w, win, i)
         /\ RowEnd(w, win, i) <= w * h * 3
<1> DEFINE top == win.top  from == win.left  width == win.width
<1>1. top \in Nat /\ from \in Nat /\ width \in Nat /\ win.rows \in Nat
  BY DEF Inside, Windows
<1>2. top + i + 1 <= h /\ from + width <= w
  BY <1>1 DEF Inside
<1>3. (top + i + 1) * w <= h * w
  BY <1>1, <1>2, ProductIsMonotonic
<1>4. (top + i) * w \in Nat /\ (top + i + 1) * w = (top + i) * w + w
  BY <1>1
<1>5. h * w = w * h
  OBVIOUS
<1> HIDE DEF top, from, width
<1> DEFINE a == (top + i) * w  b == w * h
<1>6. a \in Nat /\ b \in Nat /\ a + w <= b
  BY <1>1, <1>3, <1>4, <1>5
<1>7. RowStart(w, win, i) = (a + from) * 3 /\ RowEnd(w, win, i) = (a + from) * 3 + width * 3
  BY DEF RowStart, RowEnd, top, from, width
<1> HIDE DEF a, b
<1>8. 0 <= (a + from) * 3 /\ (a + from) * 3 + width * 3 <= b * 3
  BY <1>1, <1>2, <1>6
<1> QED BY <1>7, <1>8 DEF b

-----------------------------------------------------------------------------
(* The invariant.                                                          *)

InPhase == pc \in {"opened", "loop", "paced"}

\* Where the code is in its plan, and what it is about to return.
Position ==
  /\ pc = "entry" => step = Parse /\ cursor = Parse
  /\ pc \in {"turn", "aborted"} \/ InPhase => cursor = step
  /\ pc = "gap" => cursor = step + 1
  /\ pc \in {"unwind", "done"} /\ error = "none" => step = Render /\ cursor = Render + 1
  /\ pc \notin {"unwind", "done"} => error = "none"
  /\ pc = "aborted" \/ InPhase => Performs(step)
  /\ pc = "done" => verdict = IF error = "none" THEN "ok"
                              ELSE IF error = "Stopped" THEN "stopped" ELSE "failed"
  /\ pc # "done" => verdict = "none"

\* The outcome of a phase the code has left behind.
Behind(s) == IF Performs(s) THEN "Succeeded" ELSE "Skipped"
Broken    == IF error = "Stopped" THEN "Cancelled" ELSE "Failed"

\* The outcomes reported: phases before the cursor are settled, those after it
\* untouched, and the one at the cursor tells what the code is doing.
Outcome ==
  pc # "done" =>
    \A s \in Stages :
      /\ s < cursor => child[s] = Behind(s)
      /\ s > cursor => child[s] = "Planned"
      /\ s = cursor =>
           /\ pc \in {"entry", "turn", "gap"} => child[s] = "Planned"
           /\ pc = "aborted" \/ InPhase => child[s] = "Running"
           /\ pc = "unwind" => \/ error # "none" /\ child[s] = "Planned"
                               \/ error # "none" /\ s = step /\ child[s] = Broken

\* A request raised in a phase is still pending, or ends the call.
Heard ==
  /\ raisedIn # 0 => \/ InPhase /\ Stopping
                     \/ pc \in {"unwind", "done"} /\ error # "none"
                     \/ pc = "aborted"
  /\ stop = "spent" => pc \in {"unwind", "done"} /\ error = "Stopped"

\* After a batch begun under a pending request, a poll comes before the next.
Prompt ==
  /\ late <= 1
  /\ pc = "loop" /\ step = Crop => left <= Work(Crop)[1]
  /\ pc = "paced" => step # Crop
  /\ late = 1 => \/ pc = "paced" /\ Stopping
                 \/ pc = "loop" /\ Stopping /\ step = Crop /\ left < Work(Crop)[1]
                 \/ pc \in {"unwind", "done"}

\* Nothing follows the parse unless the limits admit the image.
WithinLimits == DecodeLimits(input.w, input.h, input.maxPixels, input.maxBytes) = "ok"

Admitted ==
  /\ step # Parse \/ pc = "gap" => WithinLimits
  /\ pc = "loop" /\ step = Parse /\ left = 0 => WithinLimits
  /\ pc = "paced" => step # Parse

\* The image buffer once the first c - 1 phases are behind.
Expected(c) ==
  LET d == IF c > Crop /\ Performs(Crop) THEN <<CropWindow.width, CropWindow.rows>>
                                         ELSE <<input.w, input.h>>
      e == IF c > Orient /\ Performs(Orient) THEN OrientedDims(input.orient, d) ELSE d
  IN [w |-> e[1], h |-> e[2],
      len |-> IF c > Reconstruct THEN e[1] * e[2] * 3 ELSE 0,
      orient |-> IF c > Orient /\ Performs(Orient) THEN 1 ELSE input.orient]

Imaged == img = Expected(cursor) /\ error # "Buffer"

\* The units of the passes of a phase that come after pass p.
Rest(w, p) == If(p < 2, w[2]) + If(p < 3, w[3]) + If(p < 4, w[4]) + If(p < 5, w[5]) + If(p < 6, w[6])

\* What was reported and what is still to do make up what was announced.
Accounted ==
  \A s \in Stages :
    /\ completed[s] <= total[s]
    /\ child[s] = "Succeeded" => completed[s] = total[s]
    /\ s > cursor \/ (s = cursor /\ pc \in {"entry", "turn", "opened", "gap"})
         => completed[s] = 0
    /\ s = cursor /\ pc \in {"loop", "paced"}
         => completed[s] + left + Rest(Work(s), pass) = total[s]

-----------------------------------------------------------------------------
(* The quantities of the model are natural numbers.                        *)

LEMMA CropWindowIsInside ==
  ASSUME input \in InputSpace
  PROVE  Inside(CropWindow, input.w, input.h)
<1>1. /\ input.w \in Nat /\ input.h \in Nat /\ input.margins \in Margins
      /\ input.cropArea \in SUBSET Rects /\ input.activeArea \in SUBSET Rects
  BY DEF InputSpace
<1>2. RawlerCropRect(input.cropArea, input.activeArea) \in SUBSET Rects
  BY <1>1 DEF RawlerCropRect
<1> QED BY <1>1, <1>2, MarginWindowIsInside, RectWindowIsInside DEF CropWindow

LEMMA ProductIsNat == \A a, b \in Nat : a * b \in Nat
  OBVIOUS

LEMMA AnnouncedIsNat ==
  ASSUME TypeOK, NEW s \in Stages
  PROVE  Announced(s) \in Nat
<1>1. /\ input.w \in Nat /\ input.h \in Nat /\ input.cpp \in Nat /\ img.len \in Nat
      /\ img.w \in Nat /\ img.h \in Nat /\ input.orient \in Orientations
  BY DEF TypeOK, InputSpace
<1>2. input.w * input.h \in Nat /\ input.w * input.h * input.cpp \in Nat /\ img.w * img.h \in Nat
  BY <1>1, ProductIsNat
<1>3. CropWindow.width \in Nat /\ CropWindow.rows \in Nat
  BY CropWindowIsInside DEF TypeOK, Inside, Windows
<1>4. CropWindow.width * CropWindow.rows \in Nat /\ CropWindow.width * CropWindow.rows * 3 \in Nat
  BY <1>3, ProductIsNat
<1>5. \A o \in Orientations : OrientRows(o) \in Nat
  BY <1>1, <1>2 DEF OrientRows, Orientations
<1>6. \A c \in BOOLEAN, n \in Nat : If(c, n) \in Nat
  BY DEF If
<1> QED BY <1>1, <1>2, <1>4, <1>5, <1>6, SMTT(30) DEF Announced, Stages, Parse, Normalize, Reconstruct, Color, Crop,
          Orient, Samples, If

LEMMA CopiedIsNat ==
  ASSUME TypeOK
  PROVE  CopiedByCrop \in Nat
<1>1. CropWindow.width \in Nat /\ CropWindow.rows \in Nat /\ img.len \in Nat
  BY CropWindowIsInside DEF TypeOK, Inside, Windows
<1>2. CropWindow.width * 3 \in Nat
  BY <1>1
<1>3. CropWindow.rows * (CropWindow.width * 3) \in Nat
  BY <1>1, <1>2, ProductIsNat
<1> QED BY <1>1, <1>3 DEF CopiedByCrop

LEMMA PassesAreNat ==
  ASSUME NEW a, NEW b, NEW c, NEW d, NEW e, NEW f,
         a \in Nat /\ b \in Nat /\ c \in Nat /\ d \in Nat /\ e \in Nat /\ f \in Nat
  PROVE  Passes(a, b, c, d, e, f) \in [1 .. MaxPasses -> Nat]
  BY DEF Passes, MaxPasses

LEMMA WorkIsNat ==
  ASSUME TypeOK, NEW s \in Stages
  PROVE  Work(s) \in [1 .. MaxPasses -> Nat]
<1>1. /\ input.w \in Nat /\ input.h \in Nat /\ input.cpp \in Nat /\ img.len \in Nat
      /\ img.w \in Nat /\ img.h \in Nat /\ input.orient \in Orientations
  BY DEF TypeOK, InputSpace
<1>2. input.w * input.h * input.cpp \in Nat /\ img.w * img.h \in Nat /\ input.h * input.w \in Nat
  BY <1>1, ProductIsNat
<1>3. OrientRows(input.orient) \in Nat
  BY <1>1, <1>2 DEF OrientRows, Orientations
<1>4. CopiedByCrop \in Nat
  BY CopiedIsNat
<1>5. If(input.ev, Samples) \in Nat /\ Samples \in Nat /\ Samples * 4 \in Nat
  BY <1>1 DEF If, Samples
<1>6. CASE s = Reconstruct
  <2>1. CASE ~NonBayer /\ HasInterior
    <3>1. input.w - 4 \in Nat /\ input.h - 4 \in Nat
      BY <1>1, <2>1 DEF HasInterior
    <3>2. (input.h - 4) * (input.w - 4) \in Nat /\ (input.h - 4) * 4 \in Nat
      BY <3>1, ProductIsNat
    <3>3. 2 * input.w + 2 * input.w + (input.h - 4) * 4 \in Nat
      BY <1>1, <3>2
    <3>4. Work(s) = Passes(2 * input.w + 2 * input.w + (input.h - 4) * 4,
                           (input.h - 4) * (input.w - 4), 0, 0, 0, 0)
      BY <1>6, <2>1 DEF Work, Parse, Normalize, Reconstruct, Color, Crop, Orient
    <3> QED BY <3>2, <3>3, <3>4, PassesAreNat
  <2>2. CASE ~(~NonBayer /\ HasInterior)
    <3>1. Work(s) = Passes(input.h * input.w, 0, 0, 0, 0, 0)
      BY <1>6, <2>2 DEF Work, Parse, Normalize, Reconstruct, Color, Crop, Orient
    <3> QED BY <1>2, <3>1, PassesAreNat
  <2> QED BY <2>1, <2>2
<1>7. CASE s = Render
  <2>1. Work(s) = RenderPasses
    BY <1>7 DEF Work, Parse, Normalize, Reconstruct, Color, Crop, Orient, Render
  <2> QED BY <1>5, <2>1, PassesAreNat DEF RenderPasses
<1>8. CASE s \in {Parse, Normalize, Color, Crop, Orient}
  <2>1. \/ Work(s) = Passes(1, 0, 0, 0, 0, 0)
        \/ Work(s) = Passes(input.w * input.h * input.cpp, 0, 0, 0, 0, 0)
        \/ Work(s) = Passes(Samples, If(input.ev, Samples), 0, 0, 0, 0)
        \/ Work(s) = Passes(CopiedByCrop, 0, 0, 0, 0, 0)
        \/ Work(s) = Passes(OrientRows(input.orient), 0, 0, 0, 0, 0)
    BY <1>8 DEF Work, Parse, Normalize, Reconstruct, Color, Crop, Orient
  <2> QED BY <1>2, <1>3, <1>4, <1>5, <2>1, PassesAreNat
<1> QED BY <1>6, <1>7, <1>8 DEF Stages, Parse, Normalize, Reconstruct, Color, Crop, Orient, Render

LEMMA ImageIsTyped ==
  ASSUME TypeOK, NEW s \in Stages
  PROVE  Image(s) \in [w : Nat, h : Nat, len : Nat, orient : Orientations]
<1>1. /\ input.w \in Nat /\ input.h \in Nat
      /\ img \in [w : Nat, h : Nat, len : Nat, orient : Orientations]
  BY DEF TypeOK, InputSpace
<1>2. input.w * input.h * 3 \in Nat
  BY <1>1, ProductIsNat
<1>3. CropWindow.width \in Nat /\ CropWindow.rows \in Nat /\ CopiedByCrop \in Nat
  BY CropWindowIsInside, CopiedIsNat DEF TypeOK, Inside, Windows
<1>4. CASE s = Orient
  <2> DEFINE d == OrientedDims(input.orient, <<img.w, img.h>>)
  <2>1. d[1] \in Nat /\ d[2] \in Nat
    BY <1>1 DEF OrientedDims
  <2>2. d[1] * d[2] * 3 \in Nat
    BY <2>1, ProductIsNat
  <2> HIDE DEF d
  <2>3. Image(s) = [w |-> d[1], h |-> d[2], orient |-> 1,
                    len |-> IF SwapsAxes(input.orient) THEN d[1] * d[2] * 3 ELSE img.len]
    BY <1>4 DEF Image, Reconstruct, Crop, Orient, d
  <2> QED BY <1>1, <2>1, <2>2, <2>3 DEF Orientations
<1>5. CASE s # Orient
  BY <1>1, <1>2, <1>3, <1>5 DEF Image
<1> QED BY <1>4, <1>5

-----------------------------------------------------------------------------
(* Types.                                                                  *)

LEMMA InitTypeOK == Init => TypeOK
<1> SUFFICES ASSUME Init PROVE TypeOK
  OBVIOUS
<1>1. input \in InputSpace
  BY PipelineAssumption DEF Init
<1>2. input.w \in Nat /\ input.h \in Nat /\ input.orient \in Orientations
  BY <1>1 DEF InputSpace
<1> QED BY <1>1, <1>2
        DEF Init, TypeOK, Pcs, Stages, Errors, MaxPasses, Parse

LEMMA ErrorsAreErrors ==
  /\ ParseError \in Errors
  /\ \A s : SetupErrors(s) \subseteq Errors
  BY DEF ParseError, DecodeLimits, SetupErrors, Errors

\* What the code does to its place in the plan never leaves the plan.
LEMMA NextTypeOK ==
  ASSUME TypeOK, Position, [Next]_vars
  PROVE  TypeOK'
<1> USE DEF code, progress, request
<1> USE DEF TypeOK
<1>1. CASE EntryStopped \/ EntryTooShort \/ EntryPasses
  BY <1>1 DEF EntryStopped, EntryTooShort, EntryPasses, Abandon, Reported, Pcs, Errors
<1>2. CASE Enter
  BY <1>2 DEF Enter, Pcs
<1>3. CASE Skip
  BY <1>3 DEF Skip, Pcs, Position, Stages
<1>4. CASE OpenStopped
  BY <1>4 DEF OpenStopped, BreakStopped, Break, Reported, Pcs, Errors
<1>5. CASE Open
  <2>1. Announced(step) \in Nat
    BY AnnouncedIsNat
  <2>2. Work(step)[1] \in Nat /\ 1 \in 1 .. MaxPasses
    BY WorkIsNat DEF MaxPasses
  <2>3. PICK e \in SetupErrors(step) \cup
              IF AllocatesByPref(step) /\ input.pref # "Infallible"
              THEN {"OutOfMemory"} ELSE {} :
           IF e = "none"
           THEN /\ pc' = "loop" /\ pass' = 1 /\ left' = Work(step)[1]
                /\ UNCHANGED <<step, img, error, cursor, child, verdict>>
           ELSE Break(e)
    BY <1>5 DEF Open
  <2>4. e \in Errors
    BY ErrorsAreErrors DEF Errors
  <2>5. /\ total' = [total EXCEPT ![cursor] = Announced(step)]
        /\ UNCHANGED <<input, completed, request>>
    BY <1>5 DEF Open
  <2>6. total' \in [Stages -> Nat]
    BY <2>1, <2>5
  <2>7. CASE e = "none"
    BY <2>2, <2>3, <2>5, <2>6, <2>7 DEF Pcs
  <2>8. CASE e # "none"
    BY <2>3, <2>4, <2>5, <2>6, <2>8 DEF Break, Pcs
  <2> QED BY <2>7, <2>8
<1>6. CASE Abort
  BY <1>6 DEF Abort, Pcs
<1>7. CASE ParseFails
  BY <1>7, ErrorsAreErrors DEF ParseFails, Break, Pcs
<1>8. CASE BatchStopped
  BY <1>8 DEF BatchStopped, BreakStopped, Break, Reported, Pcs, Errors
<1>9. CASE BatchDone
  <2> DEFINE n == IF left < Batch THEN left ELSE Batch
  <2>1. n \in Nat /\ left - n \in Nat
    BY PipelineAssumption
  <2> HIDE DEF n
  <2>2. Advance(n)
    BY <1>9 DEF BatchDone, n
  <2>3. cursor \in Stages
    BY <1>9 DEF BatchDone, Position, InPhase
  <2>4. completed' \in [Stages -> Nat]
    BY <2>1, <2>2, <2>3 DEF Advance
  <2>5. left' \in Nat /\ late' \in Nat
    BY <2>1, <2>2 DEF Advance
  <2> QED BY <1>9, <2>4, <2>5 DEF BatchDone, Pcs
<1>10. CASE PacedStopped \/ PacedGoesOn
  BY <1>10 DEF PacedStopped, PacedGoesOn, BreakStopped, Break, Reported, Pcs, Errors
<1>11. CASE NextPass
  <2>1. pass + 1 \in 1 .. MaxPasses
    BY <1>11 DEF NextPass, MaxPasses
  <2>2. Work(step)[pass + 1] \in Nat
    BY <2>1, WorkIsNat
  <2> QED BY <1>11, <2>1, <2>2 DEF NextPass
<1>12. CASE LeaveBroken
  BY <1>12 DEF LeaveBroken, Break, Reported, Pcs, Errors
<1>13. CASE Leave
  <2>1. Image(step) \in [w : Nat, h : Nat, len : Nat, orient : Orientations]
    BY ImageIsTyped
  <2>2. cursor + 1 \in 1 .. 8
    BY <1>13 DEF Leave, Position, InPhase, Stages
  <2> QED BY <1>13, <2>1, <2>2 DEF Leave, Pcs
<1>14. CASE GapStopped
  BY <1>14 DEF GapStopped, Abandon, Reported, Pcs, Errors
<1>15. CASE GapPasses
  BY <1>15 DEF GapPasses, Pcs, Stages, Render
<1>16. CASE Complete
  BY <1>16 DEF Complete, Pcs
<1>17. CASE Raise
  BY <1>17 DEF Raise, Stages
<1>18. CASE UNCHANGED vars
  BY <1>18 DEF vars
<1> QED BY <1>1, <1>2, <1>3, <1>4, <1>5, <1>6, <1>7, <1>8, <1>9, <1>10, <1>11, <1>12, <1>13,
          <1>14, <1>15, <1>16, <1>17, <1>18 DEF Next, Decode, Returned

-----------------------------------------------------------------------------
(* The place of the code in its plan.                                      *)

LEMMA PerformsIsFixed ==
  ASSUME UNCHANGED input
  PROVE  \A s : Performs(s)' = Performs(s)
  BY DEF Performs, NonBayer, RawlerBayer, Color, Crop, Orient

LEMMA NextKeepsInput ==
  ASSUME [Next]_vars
  PROVE  UNCHANGED input
  BY DEF Next, Decode, vars, EntryStopped, EntryTooShort, EntryPasses, Enter, Skip, OpenStopped,
         Open, Abort, ParseFails, BatchStopped, BatchDone, PacedStopped, PacedGoesOn, NextPass,
         LeaveBroken, Leave, GapStopped, GapPasses, Complete, Raise, Returned, Abandon,
         BreakStopped

LEMMA NextPosition ==
  ASSUME TypeOK, Position, [Next]_vars
  PROVE  Position'
<1> USE DEF Position, InPhase, code, progress, request
<1>a. \A s : Performs(s)' = Performs(s)
  BY NextKeepsInput, PerformsIsFixed
<1>1. CASE EntryStopped \/ EntryTooShort \/ EntryPasses
  BY <1>1, <1>a DEF EntryStopped, EntryTooShort, EntryPasses, Abandon
<1>2. CASE Enter \/ Skip
  BY <1>2, <1>a DEF Enter, Skip
<1>3. CASE OpenStopped \/ BatchStopped \/ PacedStopped \/ ParseFails \/ LeaveBroken
  BY <1>3, <1>a DEF OpenStopped, BatchStopped, PacedStopped, ParseFails, LeaveBroken,
                    BreakStopped, Break
<1>4. CASE Open
  BY <1>4, <1>a DEF Open, Break
<1>5. CASE Abort
  BY <1>5, <1>a DEF Abort
<1>6. CASE BatchDone \/ PacedGoesOn \/ NextPass
  BY <1>6, <1>a DEF BatchDone, PacedGoesOn, NextPass
<1>7. CASE Leave
  BY <1>7, <1>a DEF Leave
<1>8. CASE GapStopped \/ GapPasses
  BY <1>8, <1>a DEF GapStopped, GapPasses, Abandon
<1>9. CASE Complete
  BY <1>9, <1>a DEF Complete
<1>10. CASE Raise
  BY <1>10, <1>a DEF Raise
<1>11. CASE UNCHANGED vars
  BY <1>11, <1>a DEF vars
<1> QED BY <1>1, <1>2, <1>3, <1>4, <1>5, <1>6, <1>7, <1>8, <1>9, <1>10, <1>11
        DEF Next, Decode, Returned

-----------------------------------------------------------------------------
(* The outcomes reported.                                                  *)

LEMMA NextOutcome ==
  ASSUME TypeOK, Position, Outcome, [Next]_vars
  PROVE  Outcome'
<1> USE DEF Outcome, Behind, Broken, InPhase, code, progress, request
<1>a. \A s : Performs(s)' = Performs(s)
  BY NextKeepsInput, PerformsIsFixed
<1>b. /\ child \in [Stages -> {"Planned", "Running", "Succeeded", "Skipped", "Failed",
                               "Cancelled", "NotRun"}]
      /\ Stages \subseteq Nat /\ cursor \in Nat /\ step \in Stages
  BY DEF TypeOK, Stages
<1>1. CASE EntryStopped \/ EntryTooShort \/ EntryPasses
  BY <1>1, <1>a, <1>b DEF EntryStopped, EntryTooShort, EntryPasses, Abandon, Position
<1>2. CASE Enter
  BY <1>2, <1>a, <1>b DEF Enter, Position
<1>3. CASE Skip
  BY <1>3, <1>a, <1>b DEF Skip, Position
<1>4. CASE OpenStopped \/ BatchStopped \/ PacedStopped \/ ParseFails \/ LeaveBroken
  <2>1. PICK e : e # "none" /\ Break(e)
    BY <1>4 DEF OpenStopped, BatchStopped, PacedStopped, ParseFails, LeaveBroken, BreakStopped
  <2>2. pc \in {"opened", "loop", "paced"} /\ cursor = step
    BY <1>4 DEF OpenStopped, BatchStopped, PacedStopped, ParseFails, LeaveBroken, Position
  <2> QED BY <2>1, <2>2, <1>a, <1>b DEF Break
<1>5. CASE Open
  <2>1. CASE pc' = "loop" /\ UNCHANGED <<step, cursor, child>>
    BY <1>5, <2>1, <1>a, <1>b DEF Open
  <2>2. CASE \E e : e # "none" /\ Break(e)
    BY <1>5, <2>2, <1>a, <1>b DEF Open, Break, Position
  <2> QED BY <1>5, <2>1, <2>2 DEF Open
<1>6. CASE Abort \/ BatchDone \/ PacedGoesOn \/ NextPass
  BY <1>6, <1>a, <1>b DEF Abort, BatchDone, PacedGoesOn, NextPass
<1>7. CASE Leave
  BY <1>7, <1>a, <1>b DEF Leave, Position
<1>8. CASE GapStopped \/ GapPasses
  BY <1>8, <1>a, <1>b DEF GapStopped, GapPasses, Abandon, Position, Stages, Render
<1>9. CASE Complete
  BY <1>9 DEF Complete
<1>10. CASE Raise
  BY <1>10, <1>a DEF Raise
<1>11. CASE UNCHANGED vars
  BY <1>11, <1>a DEF vars
<1> QED BY <1>1, <1>2, <1>3, <1>4, <1>5, <1>6, <1>7, <1>8, <1>9, <1>10, <1>11
        DEF Next, Decode, Returned

LEMMA OutcomeIsAligned ==
  ASSUME TypeOK, Position, Outcome, pc # "done"
  PROVE  PlanAligned
<1>1. \A s \in Stages : s < cursor \/ s = cursor \/ s > cursor
  BY DEF TypeOK, Stages
<1> QED BY <1>1 DEF Outcome, Position, PlanAligned, Behind, Broken, InPhase, TypeOK, Pcs

LEMMA NextAligned ==
  ASSUME TypeOK, Position, Outcome, PlanAligned, [Next]_vars
  PROVE  PlanAligned'
<1>a. TypeOK' /\ Position' /\ Outcome'
  BY NextTypeOK, NextPosition, NextOutcome
<1>b. \A s : Performs(s)' = Performs(s)
  BY NextKeepsInput, PerformsIsFixed
<1>1. CASE pc' # "done"
  <2>1. (TypeOK /\ Position /\ Outcome /\ pc # "done" => PlanAligned)'
    BY OutcomeIsAligned, PTL
  <2> QED BY <1>1, <1>a, <2>1
<1>2. CASE pc' = "done" /\ Complete
  BY <1>2, <1>b DEF Complete, PlanAligned, TypeOK
<1>3. CASE pc' = "done" /\ UNCHANGED <<step, child>>
  BY <1>3, <1>b DEF PlanAligned
<1> QED BY <1>1, <1>2, <1>3
        DEF Next, Decode, vars, code, progress, EntryStopped, EntryTooShort, EntryPasses, Enter,
            Skip, OpenStopped, Open, Abort, ParseFails, BatchStopped, BatchDone, PacedStopped,
            PacedGoesOn, NextPass, LeaveBroken, Leave, GapStopped, GapPasses, Raise, Returned,
            Abandon, BreakStopped, Break

-----------------------------------------------------------------------------
(* Stop requests.                                                          *)

LEMMA NextHeard ==
  ASSUME TypeOK, Position, Heard, [Next]_vars
  PROVE  Heard'
<1> USE DEF Heard, InPhase, Stopping, code, progress, request
<1>1. CASE EntryStopped \/ EntryTooShort \/ EntryPasses
  BY <1>1 DEF EntryStopped, EntryTooShort, EntryPasses, Abandon, Reported
<1>2. CASE Enter \/ Skip
  BY <1>2 DEF Enter, Skip
<1>3. CASE OpenStopped \/ BatchStopped \/ PacedStopped
  BY <1>3 DEF OpenStopped, BatchStopped, PacedStopped, BreakStopped, Break, Reported
<1>4. CASE ParseFails
  BY <1>4 DEF ParseFails, Break
<1>5. CASE LeaveBroken
  BY <1>5 DEF LeaveBroken, Break, Reported
<1>6. CASE Open
  BY <1>6 DEF Open, Break
<1>7. CASE Abort
  BY <1>7 DEF Abort
<1>8. CASE BatchDone \/ PacedGoesOn \/ NextPass
  BY <1>8 DEF BatchDone, PacedGoesOn, NextPass
<1>9. CASE Leave
  BY <1>9 DEF Leave
<1>10. CASE GapStopped \/ GapPasses
  BY <1>10 DEF GapStopped, GapPasses, Abandon, Reported
<1>11. CASE Complete
  BY <1>11 DEF Complete
<1>12. CASE Raise
  BY <1>12 DEF Raise, TypeOK, Stages
<1>13. CASE UNCHANGED vars
  BY <1>13 DEF vars
<1> QED BY <1>1, <1>2, <1>3, <1>4, <1>5, <1>6, <1>7, <1>8, <1>9, <1>10, <1>11, <1>12, <1>13
        DEF Next, Decode, Returned

\* Work depends on the call and on the image, not on the place in the phase.
LEMMA CropWork ==
  ASSUME TypeOK
  PROVE  /\ Work(Crop)[1] \in Nat
         /\ \A p \in 2 .. MaxPasses : Work(Crop)[p] = 0
<1>1. Work(Crop) = Passes(CopiedByCrop, 0, 0, 0, 0, 0)
  BY DEF Work, Parse, Normalize, Reconstruct, Color, Crop, Orient
<1>2. CopiedByCrop \in Nat
  BY CopiedIsNat
<1> QED BY <1>1, <1>2 DEF Passes, MaxPasses

\* The work of a crop depends on the call and the image alone.
LEMMA CropWorkIsFixed ==
  ASSUME UNCHANGED <<input, img>>
  PROVE  Work(Crop)' = Work(Crop)
  BY DEF Work, Passes, Parse, Normalize, Reconstruct, Color, Crop, Orient, CopiedByCrop,
         FullWindow, CropWindow

LEMMA NextPrompt ==
  ASSUME TypeOK, Position, Heard, Prompt, [Next]_vars
  PROVE  Prompt'
<1> USE DEF Prompt, Stopping, code, progress, request
<1>a. late \in Nat /\ Work(Crop)[1] \in Nat
  BY CropWork DEF TypeOK
<1>b. UNCHANGED <<input, img>> => Work(Crop)' = Work(Crop)
  BY CropWorkIsFixed
<1>1. CASE EntryStopped \/ EntryTooShort \/ EntryPasses
  BY <1>1, <1>b DEF EntryStopped, EntryTooShort, EntryPasses, Abandon
<1>2. CASE Enter \/ Skip
  BY <1>2, <1>b DEF Enter, Skip
<1>3. CASE OpenStopped \/ BatchStopped \/ PacedStopped \/ ParseFails \/ LeaveBroken
  BY <1>3, <1>b DEF OpenStopped, BatchStopped, PacedStopped, ParseFails, LeaveBroken,
                    BreakStopped, Break
<1>4. CASE Open
  <2>1. late # 1
    BY <1>4 DEF Open
  <2>2. UNCHANGED late
    BY <1>4 DEF Open
  <2>3. CASE pc' = "loop" /\ left' = Work(step)[1] /\ UNCHANGED <<step, img>>
    BY <1>4, <2>1, <2>2, <2>3, <1>a, <1>b DEF Open
  <2>4. CASE pc' = "unwind"
    BY <2>2, <2>4
  <2> QED BY <1>4, <2>3, <2>4 DEF Open, Break
<1>5. CASE Abort
  BY <1>5 DEF Abort
<1>6. CASE BatchDone
  <2>1. left' \in Nat /\ left \in Nat /\ left' < left
    BY <1>6, PipelineAssumption DEF BatchDone, Advance, TypeOK
  <2>2. /\ Work(Crop)' = Work(Crop) /\ UNCHANGED <<step, stop>> /\ pc = "loop"
        /\ pc' = "paced" => step # Crop
    BY <1>6, <1>b DEF BatchDone
  <2>3. CASE ~Stopping
    BY <1>6, <2>1, <2>2, <2>3, <1>a DEF BatchDone, Advance
  <2>4. CASE Stopping
    <3>1. late = 0
      BY <1>6, <2>4, <1>a DEF BatchDone, PollsFirst, Parse, Normalize, Reconstruct, Color, Crop,
                              Orient
    <3>2. late' = 1
      BY <1>6, <2>4, <3>1 DEF BatchDone, Advance
    <3>3. pc' = "paced" \/ (pc' = "loop" /\ step = Crop)
      BY <1>6, <2>4 DEF BatchDone
    <3>4. step = Crop => left' < Work(Crop)[1]
      BY <2>1, <2>2, <1>a
    <3> QED BY <2>1, <2>2, <2>4, <3>2, <3>3, <3>4, <1>a
  <2> QED BY <2>3, <2>4
<1>7. CASE PacedGoesOn
  BY <1>7, <1>a, <1>b DEF PacedGoesOn, Crop
<1>8. CASE NextPass
  <2>1. pass + 1 \in 2 .. MaxPasses
    BY <1>8 DEF NextPass, TypeOK, MaxPasses
  <2>2. step = Crop => left' = 0
    BY <1>8, <2>1, CropWork DEF NextPass
  <2>3. Work(Crop)' = Work(Crop) /\ UNCHANGED <<step, pc, late, stop>> /\ left = 0
    BY <1>8, <1>b DEF NextPass
  <2> QED BY <1>8, <2>2, <2>3, <1>a DEF NextPass
<1>9. CASE Leave
  BY <1>9, <1>a DEF Leave
<1>10. CASE GapStopped \/ GapPasses
  BY <1>10, <1>a DEF GapStopped, GapPasses, Abandon
<1>11. CASE Complete
  BY <1>11 DEF Complete
<1>12. CASE Raise
  BY <1>12, <1>a, <1>b DEF Raise
<1>13. CASE UNCHANGED vars
  BY <1>13, <1>b DEF vars
<1> QED BY <1>1, <1>2, <1>3, <1>4, <1>5, <1>6, <1>7, <1>8, <1>9, <1>10, <1>11, <1>12, <1>13
        DEF Next, Decode, Returned

-----------------------------------------------------------------------------
(* The limits.                                                             *)

LEMMA ParseErrorTells ==
  ParseError = "none" => WithinLimits
  BY DEF ParseError, WithinLimits, DecodeLimits

LEMMA NextAdmitted ==
  ASSUME TypeOK, Position, Admitted, [Next]_vars
  PROVE  Admitted'
<1> USE DEF Admitted, code, progress, request
<1>a. WithinLimits' = WithinLimits
  BY NextKeepsInput DEF WithinLimits
<1>1. CASE EntryStopped \/ EntryTooShort \/ EntryPasses
  BY <1>1, <1>a DEF EntryStopped, EntryTooShort, EntryPasses, Abandon, Position
<1>2. CASE Enter
  BY <1>2, <1>a DEF Enter
<1>3. CASE Skip
  BY <1>3, <1>a DEF Skip, Performs, Parse, Color, Crop, Orient
<1>4. CASE OpenStopped \/ BatchStopped \/ PacedStopped \/ ParseFails \/ LeaveBroken
  BY <1>4, <1>a DEF OpenStopped, BatchStopped, PacedStopped, ParseFails, LeaveBroken,
                    BreakStopped, Break
<1>5. CASE Open
  <2>1. step = Parse => Work(step)[1] = 1
    BY DEF Work, Passes, Parse, Normalize, Reconstruct, Color, Crop, Orient
  <2> QED BY <1>5, <2>1, <1>a DEF Open, Break
<1>6. CASE Abort
  BY <1>6, <1>a DEF Abort
<1>7. CASE BatchDone
  BY <1>7, <1>a, ParseErrorTells
     DEF BatchDone, PollsFirst, Parse, Reconstruct, Orient, Crop
<1>8. CASE PacedGoesOn \/ NextPass
  BY <1>8, <1>a DEF PacedGoesOn, NextPass
<1>9. CASE Leave
  BY <1>9, <1>a DEF Leave
<1>10. CASE GapStopped \/ GapPasses
  BY <1>10, <1>a DEF GapStopped, GapPasses, Abandon
<1>11. CASE Complete
  BY <1>11, <1>a DEF Complete
<1>12. CASE Raise
  BY <1>12, <1>a DEF Raise
<1>13. CASE UNCHANGED vars
  BY <1>13, <1>a DEF vars
<1> QED BY <1>1, <1>2, <1>3, <1>4, <1>5, <1>6, <1>7, <1>8, <1>9, <1>10, <1>11, <1>12, <1>13
        DEF Next, Decode, Returned

-----------------------------------------------------------------------------
(* The image buffer.                                                       *)

LEMMA ExpectedIsFixed ==
  ASSUME UNCHANGED input
  PROVE  \A c : Expected(c)' = Expected(c)
  BY PerformsIsFixed DEF Expected, CropWindow

LEMMA ProductIsCommutative == \A a, b \in Nat : a * b * 3 = b * (a * 3)
  OBVIOUS

\* A crop that changes nothing copies as much as one that copies every row.
LEMMA CopiedFillsWindow ==
  ASSUME TypeOK, img.len = input.w * input.h * 3
  PROVE  CopiedByCrop = CropWindow.width * CropWindow.rows * 3
<1>1. CropWindow.width \in Nat /\ CropWindow.rows \in Nat
  BY CropWindowIsInside DEF TypeOK, Inside, Windows
<1> QED BY <1>1, ProductIsCommutative DEF CopiedByCrop, FullWindow

\* A phase that leaves makes of the buffer what is expected after it.
LEMMA LeaveImages ==
  ASSUME TypeOK, Position, Imaged, Leave
  PROVE  Image(step) = Expected(step + 1)
<1>1. img = Expected(step) /\ Performs(step) /\ step \in Stages
  BY DEF Leave, Position, InPhase, Imaged, TypeOK
<1>2. CASE step \in {Parse, Normalize, Color, Render}
  BY <1>1, <1>2 DEF Image, Expected, Parse, Normalize, Reconstruct, Color, Crop, Orient, Render
<1>3. CASE step = Reconstruct
  BY <1>1, <1>3 DEF Image, Expected, Reconstruct, Crop, Orient
<1>4. CASE step = Crop
  <2>1. img.len = input.w * input.h * 3
    BY <1>1, <1>4 DEF Expected, Reconstruct, Crop, Orient
  <2>2. CopiedByCrop = CropWindow.width * CropWindow.rows * 3
    BY <2>1, CopiedFillsWindow
  <2>3. img = [w |-> input.w, h |-> input.h, len |-> input.w * input.h * 3,
               orient |-> input.orient]
    BY <1>1, <1>4 DEF Expected, Reconstruct, Crop, Orient
  <2>4. Image(step) = [w |-> CropWindow.width, h |-> CropWindow.rows, len |-> CopiedByCrop,
                       orient |-> input.orient]
    BY <1>4, <2>3 DEF Image, Reconstruct, Crop, Orient
  <2>5. Expected(step + 1)
          = [w |-> CropWindow.width, h |-> CropWindow.rows,
             len |-> CropWindow.width * CropWindow.rows * 3, orient |-> input.orient]
    BY <1>1, <1>4 DEF Expected, Reconstruct, Crop, Orient
  <2> QED BY <2>2, <2>4, <2>5
<1>5. CASE step = Orient
  <2> DEFINE d == <<img.w, img.h>>
             e == OrientedDims(input.orient, d)
  <2>1. d = IF Performs(Crop) THEN <<CropWindow.width, CropWindow.rows>> ELSE <<input.w, input.h>>
    BY <1>1, <1>5 DEF Expected, Crop, Orient
  <2>2. img.len = d[1] * d[2] * 3
    BY <1>1, <1>5 DEF Expected, Reconstruct, Crop, Orient
  <2>3. ~SwapsAxes(input.orient) => e = d
    BY DEF OrientedDims
  <2>4. Image(step) = [w |-> e[1], h |-> e[2], orient |-> 1, len |-> e[1] * e[2] * 3]
    BY <1>5, <2>2, <2>3 DEF Image, Reconstruct, Crop, Orient
  <2>5. Expected(step + 1) = [w |-> e[1], h |-> e[2], len |-> e[1] * e[2] * 3, orient |-> 1]
    BY <1>1, <1>5, <2>1 DEF Expected, Reconstruct, Crop, Orient
  <2> QED BY <2>4, <2>5
<1> QED BY <1>1, <1>2, <1>3, <1>4, <1>5
        DEF Stages, Parse, Normalize, Reconstruct, Color, Crop, Orient, Render

LEMMA BufferIsFilled ==
  ASSUME TypeOK, Imaged, cursor > Reconstruct
  PROVE  BufferFilled
  BY DEF Imaged, Expected, BufferFilled

LEMMA NextImaged ==
  ASSUME TypeOK, Position, Imaged, [Next]_vars
  PROVE  Imaged'
<1> USE DEF code, progress, request
<1>a. \A c : Expected(c)' = Expected(c)
  BY NextKeepsInput, ExpectedIsFixed
<1>1. CASE Leave
  BY <1>1, <1>a, LeaveImages DEF Leave, Position, InPhase, Imaged
<1>2. CASE Skip
  <2>1. Expected(cursor + 1) = Expected(cursor)
    BY <1>2 DEF Skip, Position, InPhase, Expected, TypeOK, Performs, Stages, Parse, Normalize,
                Reconstruct, Color, Crop, Orient
  <2> QED BY <1>2, <2>1, <1>a DEF Skip, Imaged
<1>3. CASE LeaveBroken
  <2>1. step = Render => BufferFilled
    BY <1>3, BufferIsFilled DEF LeaveBroken, Position, InPhase, Render, Reconstruct
  <2> QED BY <1>3, <2>1, <1>a DEF LeaveBroken, Break, Imaged
<1>4. CASE UNCHANGED <<img, cursor, error>>
  BY <1>4, <1>a DEF Imaged
<1>5. CASE UNCHANGED <<img, cursor>> /\ error' # "Buffer"
  BY <1>5, <1>a DEF Imaged
<1>6. CASE OpenStopped \/ BatchStopped \/ PacedStopped \/ ParseFails
  BY <1>5, <1>6 DEF OpenStopped, BatchStopped, PacedStopped, ParseFails, BreakStopped, Break,
                    ParseError, DecodeLimits
<1>7. CASE Open
  BY <1>4, <1>5, <1>7 DEF Open, Break, SetupErrors
<1> QED BY <1>1, <1>2, <1>3, <1>4, <1>5, <1>6, <1>7
        DEF Next, Decode, Returned, vars, EntryStopped, EntryTooShort, EntryPasses, Enter, Abort,
            BatchDone, PacedGoesOn, NextPass, GapStopped, GapPasses, Complete, Raise, Abandon

-----------------------------------------------------------------------------
(* The work.                                                               *)

LEMMA WorkIsFixed ==
  ASSUME UNCHANGED <<input, img>>
  PROVE  \A s : Work(s)' = Work(s)
  BY DEF Work, Passes, Parse, Normalize, Reconstruct, Color, Crop, Orient, CopiedByCrop,
         FullWindow, CropWindow, NonBayer, HasInterior, OrientRows, RenderPasses, RawlerBayer,
         Samples, If

\* The border and the interior of the Malvar kernel make up the image.
LEMMA BorderAndInterior ==
  ASSUME NEW w \in Nat, NEW h \in Nat
  PROVE  2 * w + 2 * w + (h - 4) * 4 + (h - 4) * (w - 4) = w * h
  OBVIOUS

LEMMA ProductCommutes == \A a, b \in Nat : a * b = b * a
  OBVIOUS

\* The units of all the passes of a phase.
Units(w) == w[1] + Rest(w, 1)

LEMMA PassesAddUp ==
  ASSUME NEW a, NEW b, NEW c, NEW d, NEW e, NEW f,
         a \in Nat /\ b \in Nat /\ c \in Nat /\ d \in Nat /\ e \in Nat /\ f \in Nat
  PROVE  Units(Passes(a, b, c, d, e, f)) = a + b + c + d + e + f
  BY DEF Passes, Units, Rest, If

\* The passes a phase makes add up to the total it announces.
LEMMA WorkIsAnnounced ==
  ASSUME TypeOK, Position, Imaged, cursor = step, Performs(step)
  PROVE  Units(Work(step)) = Announced(step)
<1>a. /\ input.w \in Nat /\ input.h \in Nat /\ input.cpp \in Nat /\ img.len \in Nat
      /\ img.w \in Nat /\ img.h \in Nat /\ input.orient \in Orientations /\ step \in Stages
      /\ input.w * input.h \in Nat /\ input.w * input.h * input.cpp \in Nat
  BY ProductIsNat DEF TypeOK, InputSpace
<1>1. CASE step = Parse
  <2>1. Work(step) = Passes(1, 0, 0, 0, 0, 0) /\ Announced(step) = 1
    BY <1>1 DEF Work, Announced, Parse, Normalize, Reconstruct, Color, Crop, Orient
  <2> QED BY <2>1, PassesAddUp
<1>2. CASE step = Normalize
  <2> DEFINE n == input.w * input.h * input.cpp
  <2>1. Work(step) = Passes(n, 0, 0, 0, 0, 0) /\ Announced(step) = n
    BY <1>2 DEF Work, Announced, Parse, Normalize, Reconstruct, Color, Crop, Orient
  <2>2. n \in Nat
    BY <1>a
  <2> HIDE DEF n
  <2> QED BY <2>1, <2>2, PassesAddUp
<1>3. CASE step = Reconstruct
  <2>1. Announced(step) = input.w * input.h
    BY <1>3 DEF Announced, Parse, Normalize, Reconstruct, Color, Crop, Orient
  <2>2. CASE ~NonBayer /\ HasInterior
    <3> DEFINE a == 2 * input.w + 2 * input.w + (input.h - 4) * 4
               b == (input.h - 4) * (input.w - 4)
    <3>1. Work(step) = Passes(a, b, 0, 0, 0, 0)
      BY <1>3, <2>2 DEF Work, Parse, Normalize, Reconstruct, Color, Crop, Orient
    <3>2. input.w - 4 \in Nat /\ input.h - 4 \in Nat
      BY <1>a, <2>2 DEF HasInterior
    <3>3. a \in Nat /\ b \in Nat
      BY <3>2, <1>a, ProductIsNat
    <3>4. a + b = input.w * input.h
      BY <1>a, BorderAndInterior
    <3> HIDE DEF a, b
    <3> QED BY <2>1, <3>1, <3>3, <3>4, PassesAddUp
  <2>3. CASE ~(~NonBayer /\ HasInterior)
    <3> DEFINE n == input.h * input.w
    <3>1. Work(step) = Passes(n, 0, 0, 0, 0, 0)
      BY <1>3, <2>3 DEF Work, Parse, Normalize, Reconstruct, Color, Crop, Orient
    <3>2. n \in Nat /\ n = input.w * input.h
      BY <1>a, ProductCommutes
    <3> HIDE DEF n
    <3> QED BY <2>1, <3>1, <3>2, PassesAddUp
  <2> QED BY <2>2, <2>3
<1>4. CASE step = Color
  <2> DEFINE e == If(input.ev, Samples)
  <2>1. Work(step) = Passes(Samples, e, 0, 0, 0, 0)
    BY <1>4 DEF Work, Parse, Normalize, Reconstruct, Color, Crop, Orient
  <2>2. Announced(step) = Samples * (1 + If(input.ev, 1))
    BY <1>4 DEF Announced, Parse, Normalize, Reconstruct, Color, Crop, Orient
  <2>3. Samples \in Nat /\ e \in Nat /\ Samples * (1 + If(input.ev, 1)) = Samples + e
    BY <1>a DEF If, Samples
  <2> HIDE DEF e
  <2> QED BY <2>1, <2>2, <2>3, PassesAddUp
<1>5. CASE step = Crop
  <2>1. img.len = input.w * input.h * 3
    BY <1>5, <1>a DEF Imaged, Expected, Reconstruct, Crop, Orient
  <2>2. Work(step) = Passes(CopiedByCrop, 0, 0, 0, 0, 0)
    BY <1>5 DEF Work, Parse, Normalize, Reconstruct, Color, Crop, Orient
  <2>3. Announced(step) = CropWindow.width * CropWindow.rows * 3
    BY <1>5 DEF Announced, Parse, Normalize, Reconstruct, Color, Crop, Orient
  <2>4. CopiedByCrop \in Nat /\ CopiedByCrop = CropWindow.width * CropWindow.rows * 3
    BY <2>1, CopiedIsNat, CopiedFillsWindow
  <2> QED BY <2>2, <2>3, <2>4, PassesAddUp
<1>6. CASE step = Orient
  <2>1. Work(step) = Passes(OrientRows(input.orient), 0, 0, 0, 0, 0)
    BY <1>6 DEF Work, Parse, Normalize, Reconstruct, Color, Crop, Orient
  <2>2. Announced(step) = OrientRows(input.orient)
    BY <1>6 DEF Announced, Parse, Normalize, Reconstruct, Color, Crop, Orient
  <2>3. img.w * img.h \in Nat
    BY <1>a, ProductIsNat
  <2>4. OrientRows(input.orient) \in Nat
    BY <1>a, <2>3 DEF OrientRows, Orientations
  <2> QED BY <2>1, <2>2, <2>4, PassesAddUp
<1>7. CASE step = Render
  <2> DEFINE n == img.len  e == If(input.ev, n)
  <2>1. Work(step) = RenderPasses
    BY <1>7 DEF Work, Parse, Normalize, Reconstruct, Color, Crop, Orient, Render
  <2>2. n \in Nat /\ e \in Nat /\ n * 4 \in Nat
    BY <1>a DEF If
  <2>3. CASE RawlerBayer /\ input.mode = "Develop" /\ input.builds
    <3>1. RenderPasses = Passes(e, n, n, n, n, n)
      BY <2>3 DEF RenderPasses, Samples
    <3>2. Announced(step) = n * 5 + e
      BY <1>7, <2>2, <2>3 DEF Announced, Parse, Normalize, Reconstruct, Color, Crop, Orient,
                              Render, Samples, If
    <3> HIDE DEF n, e
    <3>3. Units(Passes(e, n, n, n, n, n)) = n * 5 + e
      BY <2>2, PassesAddUp
    <3> QED BY <2>1, <3>1, <3>2, <3>3
  <2>4. CASE RawlerBayer /\ input.mode = "Develop" /\ ~input.builds
    <3>1. RenderPasses = Passes(n, e, n, n, 0, 0)
      BY <2>4 DEF RenderPasses, Samples
    <3>2. Announced(step) = n * 3 + e
      BY <1>7, <2>2, <2>4 DEF Announced, Parse, Normalize, Reconstruct, Color, Crop, Orient,
                              Render, Samples, If
    <3> HIDE DEF n, e
    <3>3. Units(Passes(n, e, n, n, 0, 0)) = n * 3 + e
      BY <2>2, PassesAddUp
    <3> QED BY <2>1, <3>1, <3>2, <3>3
  <2>5. CASE RawlerBayer /\ input.mode = "Linear"
    <3>1. RenderPasses = Passes(n, e, n * 4, 0, 0, 0)
      BY <2>5 DEF RenderPasses, Samples
    <3>2. Announced(step) = n * 5 + e
      BY <1>7, <2>2, <2>5 DEF Announced, Parse, Normalize, Reconstruct, Color, Crop, Orient,
                              Render, Samples, If
    <3> HIDE DEF n, e
    <3>3. Units(Passes(n, e, n * 4, 0, 0, 0)) = n * 5 + e
      BY <2>2, PassesAddUp
    <3> QED BY <2>1, <3>1, <3>2, <3>3
  <2>6. CASE ~RawlerBayer /\ input.mode = "Develop"
    <3>1. RenderPasses = Passes(n, n, 0, 0, 0, 0)
      BY <2>6 DEF RenderPasses, Samples
    <3>2. Announced(step) = n * 2
      BY <1>7, <2>6 DEF Announced, Parse, Normalize, Reconstruct, Color, Crop, Orient, Render,
                        Samples
    <3> HIDE DEF n, e
    <3>3. Units(Passes(n, n, 0, 0, 0, 0)) = n * 2
      BY <2>2, PassesAddUp
    <3> QED BY <2>1, <3>1, <3>2, <3>3
  <2>7. CASE input.mode = "CameraRaw" \/ (~RawlerBayer /\ input.mode = "Linear")
    <3>1. RenderPasses = Passes(n * 4, 0, 0, 0, 0, 0)
      BY <2>7 DEF RenderPasses, Samples
    <3>2. Announced(step) = n * 4
      BY <1>7, <2>7 DEF Announced, Parse, Normalize, Reconstruct, Color, Crop, Orient, Render,
                        Samples
    <3> HIDE DEF n, e
    <3>3. Units(Passes(n * 4, 0, 0, 0, 0, 0)) = n * 4
      BY <2>2, PassesAddUp
    <3> QED BY <2>1, <3>1, <3>2, <3>3
  <2> QED BY <2>3, <2>4, <2>5, <2>6, <2>7 DEF TypeOK, InputSpace, Modes
<1> QED BY <1>1, <1>2, <1>3, <1>4, <1>5, <1>6, <1>7, <1>a
        DEF Stages, Parse, Normalize, Reconstruct, Color, Crop, Orient, Render

LEMMA RestIsNat ==
  ASSUME NEW w \in [1 .. MaxPasses -> Nat], NEW p \in Nat
  PROVE  Rest(w, p) \in Nat
  BY DEF Rest, If, MaxPasses

LEMMA NextAccounted ==
  ASSUME TypeOK, Position, Outcome, Imaged, Accounted, [Next]_vars
  PROVE  Accounted'
<1> USE DEF code, progress, request
<1>a. /\ completed \in [Stages -> Nat] /\ total \in [Stages -> Nat] /\ left \in Nat
      /\ cursor \in Nat /\ Stages \subseteq Nat /\ pass \in 1 .. MaxPasses /\ step \in Stages
      /\ \A s \in Stages : child[s] = "Succeeded" => s # cursor \/ pc = "done"
  BY DEF TypeOK, Stages, Outcome, InPhase, Pcs, Broken
<1>b. UNCHANGED <<input, img>> => \A s : Work(s)' = Work(s)
  BY WorkIsFixed
<1>c. \A s \in Stages : Work(s) \in [1 .. MaxPasses -> Nat]
  BY WorkIsNat
<1>1. CASE EntryStopped \/ EntryTooShort \/ EntryPasses
  BY <1>1, <1>a, <1>b DEF EntryStopped, EntryTooShort, EntryPasses, Abandon, Accounted
<1>2. CASE Enter
  BY <1>2, <1>a, <1>b DEF Enter, Accounted, TypeOK
<1>3. CASE Skip
  BY <1>3, <1>a, <1>b DEF Skip, Accounted, TypeOK
<1>4. CASE OpenStopped \/ BatchStopped \/ PacedStopped \/ ParseFails \/ LeaveBroken
  <2>1. PICK e : Break(e)
    BY <1>4 DEF OpenStopped, BatchStopped, PacedStopped, ParseFails, LeaveBroken, BreakStopped
  <2>2. UNCHANGED <<completed, total, cursor>> /\ pc' = "unwind"
    BY <2>1, <1>4 DEF Break, OpenStopped, BatchStopped, PacedStopped, ParseFails, LeaveBroken,
                      BreakStopped
  <2>3. \A s \in Stages : child'[s] = "Succeeded" => child[s] = "Succeeded"
    BY <2>1 DEF Break, TypeOK
  <2> QED BY <2>2, <2>3 DEF Accounted
<1>5. CASE Open
  <2>1. pc = "opened" /\ cursor = step
    BY <1>5 DEF Open, Position, InPhase
  <2>2. /\ total' = [total EXCEPT ![cursor] = Announced(step)]
        /\ UNCHANGED <<completed, cursor, input, img, step>>
    BY <1>5 DEF Open, Break
  <2>3. completed[cursor] = 0 /\ Announced(step) \in Nat
    BY <2>1, <1>a, AnnouncedIsNat DEF Accounted
  <2>4. \A s \in Stages : completed'[s] <= total'[s]
    BY <2>1, <2>2, <2>3, <1>a DEF Accounted
  <2>5. \A s \in Stages : child'[s] = "Succeeded" => s # cursor /\ child[s] = "Succeeded"
    BY <1>5, <2>1, <1>a DEF Open, Break, TypeOK
  <2>6. \A s \in Stages : child'[s] = "Succeeded" => completed'[s] = total'[s]
    BY <2>2, <2>5, <1>a DEF Accounted
  <2>7. CASE pc' = "loop"
    <3>1. pass' = 1 /\ left' = Work(step)[1]
      BY <1>5, <2>7 DEF Open, Break
    <3>2. Units(Work(step)) = Announced(step)
      BY <2>1, WorkIsAnnounced DEF Position, InPhase
    <3>3. Work(step)' = Work(step) /\ Work(step)[1] \in Nat
      BY <1>a, <1>b, <1>c, <2>2 DEF MaxPasses
    <3>4. completed'[cursor] + left' + Rest(Work(cursor)', pass') = total'[cursor]
      <4>1. Work(step)[1] + Rest(Work(step), 1) = Announced(step)
        BY <3>2 DEF Units
      <4>2. Rest(Work(step), 1) \in Nat
        BY <1>a, <1>c, RestIsNat
      <4>3. 0 + Work(step)[1] + Rest(Work(step), 1) = Announced(step)
        BY <3>3, <4>1, <4>2
      <4>4. total'[cursor] = Announced(step) /\ completed'[cursor] = 0
        BY <2>1, <2>2, <2>3, <1>a
      <4>5. Work(cursor)' = Work(step)
        BY <2>1, <2>2, <1>b
      <4> QED BY <2>1, <2>2, <3>1, <3>3, <4>3, <4>4, <4>5
    <3>5. \A s \in Stages : s > cursor => completed'[s] = 0
      BY <2>2 DEF Accounted
    <3> QED BY <2>2, <2>4, <2>6, <2>7, <3>4, <3>5 DEF Accounted
  <2>8. CASE pc' = "unwind"
    BY <2>2, <2>4, <2>6, <2>8 DEF Accounted
  <2> QED BY <1>5, <2>7, <2>8 DEF Open, Break
<1>6. CASE Abort
  BY <1>6, <1>a, <1>b DEF Abort, Accounted
<1>7. CASE BatchDone
  <2> DEFINE n == IF left < Batch THEN left ELSE Batch
             rest == Rest(Work(cursor), pass)
  <2>1. n \in Nat /\ n <= left
    BY <1>a, PipelineAssumption
  <2>2. completed' = [completed EXCEPT ![cursor] = @ + n] /\ left' = left - n
    BY <1>7 DEF BatchDone, Advance
  <2> HIDE DEF n
  <2>3. /\ pc = "loop" /\ pc' \in {"loop", "paced"} /\ cursor = step
        /\ UNCHANGED <<input, img, step, pass, cursor, child, total>>
    BY <1>7 DEF BatchDone, Position, InPhase
  <2>4. Rest(Work(cursor), pass)' = rest
    BY <2>3, <1>b DEF Rest
  <2>5. rest \in Nat
    BY <2>3, <1>a, <1>c, RestIsNat DEF MaxPasses
  <2>6. completed[cursor] + left + rest = total[cursor]
    BY <2>3, <1>a DEF Accounted
  <2> HIDE DEF rest
  <2>7. completed'[cursor] = completed[cursor] + n /\ completed[cursor] \in Nat
        /\ total[cursor] \in Nat
    BY <2>2, <2>3, <1>a
  <2>8. /\ completed'[cursor] + left' + rest = total[cursor]
        /\ completed'[cursor] <= total[cursor]
    BY <2>1, <2>2, <2>5, <2>6, <2>7, <1>a
  <2>9. \A s \in Stages : s # cursor => completed'[s] = completed[s]
    BY <2>2, <1>a
  <2>10. \A s \in Stages : s = cursor => child[s] # "Succeeded"
    BY <2>3, <1>a
  <2> QED BY <2>3, <2>4, <2>8, <2>9, <2>10, <1>a DEF Accounted
<1>8. CASE PacedGoesOn
  BY <1>8, <1>a, <1>b DEF PacedGoesOn, Accounted, Rest
<1>9. CASE NextPass
  <2>1. /\ pc = "loop" /\ cursor = step /\ left = 0 /\ pass \in {1, 2, 3, 4, 5}
        /\ pass' = pass + 1 /\ left' = Work(step)[pass + 1]
        /\ UNCHANGED <<input, img, pc, step, child, cursor, completed, total>>
    BY <1>9, <1>a DEF NextPass, Position, InPhase, MaxPasses
  <2> DEFINE w == Work(step)
  <2>2. w \in [1 .. 6 -> Nat]
    BY <1>a, <1>c DEF MaxPasses
  <2> HIDE DEF w
  <2>3. left + Rest(w, pass) = left' + Rest(w, pass + 1)
    BY <2>1, <2>2 DEF Rest, If, w
  <2>4. w' = w
    BY <2>1, <1>b DEF w
  <2>5. Rest(w, pass) \in Nat /\ Rest(w, pass + 1) \in Nat /\ left' \in Nat
    BY <2>1, <2>2, RestIsNat, NextTypeOK DEF TypeOK, MaxPasses
  <2>6. completed[step] + left + Rest(w, pass) = total[step] /\ completed[step] \in Nat
    BY <2>1, <1>a DEF Accounted, w
  <2>7. completed[step] + left' + Rest(w, pass + 1) = total[step]
    BY <2>3, <2>5, <2>6, <1>a
  <2>8. \A s \in Stages : s = cursor => Rest(Work(s), pass)' = Rest(w, pass + 1)
    BY <2>1, <2>4, <1>b DEF Rest, w
  <2> QED BY <2>1, <2>7, <2>8 DEF Accounted
<1>10. CASE Leave
  <2>1. /\ pc = "loop" /\ cursor = step /\ left = 0 /\ pass = 6 /\ cursor' = cursor + 1
        /\ child' = [child EXCEPT ![cursor] = "Succeeded"] /\ pc' = "gap"
        /\ UNCHANGED <<completed, total>>
    BY <1>10 DEF Leave, Position, InPhase, MaxPasses
  <2>2. Rest(Work(cursor), pass) = 0
    BY <2>1 DEF Rest, If
  <2>3. completed[cursor] = total[cursor]
    BY <2>1, <2>2, <1>a DEF Accounted
  <2> QED BY <2>1, <2>3, <1>a DEF Accounted, TypeOK
<1>11. CASE GapStopped \/ GapPasses
  BY <1>11, <1>a, <1>b DEF GapStopped, GapPasses, Abandon, Accounted
<1>12. CASE Complete
  <2>1. \A s \in Stages : child'[s] = "Succeeded" => child[s] = "Succeeded"
    BY <1>12 DEF Complete
  <2> QED BY <1>12, <2>1 DEF Complete, Accounted
<1>13. CASE Raise
  BY <1>13, <1>b DEF Raise, Accounted, Rest
<1>14. CASE UNCHANGED vars
  BY <1>14, <1>b DEF vars, Accounted, Rest
<1> QED BY <1>1, <1>2, <1>3, <1>4, <1>5, <1>6, <1>7, <1>8, <1>9, <1>10, <1>11, <1>12, <1>13,
          <1>14 DEF Next, Decode, Returned

-----------------------------------------------------------------------------
(* A decode keeps the contract of StagePlan.                               *)

LEMMA PhasesAreStages == Plan!Phases = Stages
  BY DEF Plan!Phases, Stages

LEMMA InitPlans == Init => Plan!PlanInit
  BY PhasesAreStages DEF Init, Plan!PlanInit

LEMMA NextPlans ==
  ASSUME TypeOK, Position, Outcome, [Next]_vars
  PROVE  [Plan!PlanNext]_(Plan!planVars)
<1> USE PhasesAreStages DEF code, progress, request
<1>a. /\ child \in [Stages -> {"Planned", "Running", "Succeeded", "Skipped", "Failed",
                               "Cancelled", "NotRun"}]
      /\ Stages \subseteq Nat /\ cursor \in Nat /\ step \in Stages
  BY DEF TypeOK, Stages
<1>b. \A s \in Stages : Behind(s) \in {"Succeeded", "Skipped"}
  BY DEF Behind
<1>c. ASSUME pc \in {"entry", "turn", "gap"}, cursor = step
      PROVE  Plan!IsNext(step) /\ verdict = "none"
  BY <1>a, <1>b, <1>c DEF Outcome, Position, Plan!IsNext
<1>d. ASSUME InPhase
      PROVE  child[step] = "Running" /\ verdict = "none" /\ cursor = step
  BY <1>a, <1>d DEF Outcome, Position, InPhase
<1>1. CASE Enter
  <2>1. Plan!Begin(step)
    BY <1>1, <1>c DEF Enter, Position, Plan!Begin
  <2> QED BY <2>1, <1>a DEF Plan!PlanNext
<1>2. CASE Skip
  <2>1. Plan!PassOver(step)
    BY <1>2, <1>c DEF Skip, Position, Plan!PassOver
  <2> QED BY <2>1, <1>a DEF Plan!PlanNext
<1>3. CASE Leave
  <2>1. Plan!Finish(step)
    BY <1>3, <1>d DEF Leave, InPhase, Plan!Finish
  <2> QED BY <2>1, <1>a DEF Plan!PlanNext
<1>4. ASSUME NEW e, Break(e), InPhase
      PROVE  Plan!PlanNext
  <2> DEFINE how == IF e = "Stopped" THEN "stopped" ELSE "failed"
  <2>1. Plan!Break(step, how)
    BY <1>4, <1>d DEF Break, Plan!Break
  <2> QED BY <2>1, <1>a DEF Plan!PlanNext
<1>5. CASE OpenStopped \/ BatchStopped \/ PacedStopped \/ ParseFails \/ LeaveBroken
  <2>1. InPhase /\ \E e : Break(e)
    BY <1>5 DEF OpenStopped, BatchStopped, PacedStopped, ParseFails, LeaveBroken, BreakStopped,
                InPhase
  <2> QED BY <2>1, <1>4
<1>6. CASE Open
  <2>1. UNCHANGED <<child, verdict>> \/ \E e : Break(e)
    BY <1>6 DEF Open
  <2> QED BY <1>6, <2>1, <1>4 DEF Open, InPhase, Plan!planVars
<1>7. CASE Complete
  <2>1. verdict = "none" /\ pc = "unwind"
    BY <1>7 DEF Complete, Position
  <2>2. CASE error = "none"
    <3>1. \A s \in Stages : child[s] \in {"Succeeded", "Skipped"}
      BY <2>1, <2>2, <1>a, <1>b DEF Outcome, Position, Stages, Render
    <3>2. child' = child
      BY <1>7, <2>2, <1>a DEF Complete
    <3>3. Plan!Succeed
      BY <1>7, <2>1, <2>2, <3>1, <3>2 DEF Complete, Plan!Succeed
    <3> QED BY <3>3 DEF Plan!PlanNext
  <2>3. CASE error # "none"
    <3> DEFINE how == IF error = "Stopped" THEN "stopped" ELSE "failed"
    <3>1. \A s \in Stages : /\ child[s] # "Running"
                            /\ child[s] = "Cancelled" => how = "stopped"
                            /\ child[s] = "Failed" => how = "failed"
      BY <2>1, <1>a, <1>b DEF Outcome, Broken
    <3>2. /\ child' = [s \in Stages |-> IF child[s] = "Planned" THEN "NotRun" ELSE child[s]]
          /\ verdict' = how
      BY <1>7, <2>3 DEF Complete
    <3>3. Plan!EndEarly(how)
      BY <2>1, <3>1, <3>2 DEF Plan!EndEarly
    <3> QED BY <3>3 DEF Plan!PlanNext
  <2> QED BY <2>2, <2>3
<1>8. CASE UNCHANGED <<child, verdict>>
  BY <1>8 DEF Plan!planVars
<1> QED BY <1>1, <1>2, <1>3, <1>5, <1>6, <1>7, <1>8
        DEF Next, Decode, Returned, vars, EntryStopped, EntryTooShort, EntryPasses, Abort,
            BatchDone, PacedGoesOn, NextPass, GapStopped, GapPasses, Raise, Abandon

-----------------------------------------------------------------------------
(* The inductive invariant and what follows from it.                       *)

Inv ==
  /\ TypeOK /\ Position /\ Outcome /\ PlanAligned
  /\ Heard /\ Prompt /\ Admitted /\ Imaged /\ Accounted

LEMMA InitInv == Init => Inv
<1> SUFFICES ASSUME Init PROVE Inv
  OBVIOUS
<1>1. TypeOK
  BY InitTypeOK
<1>2. /\ pc = "entry" /\ step = 1 /\ cursor = 1 /\ verdict = "none" /\ error = "none"
      /\ stop = "quiet" /\ late = 0 /\ raisedIn = 0
      /\ child = [s \in Stages |-> "Planned"]
      /\ total = [s \in Stages |-> 0] /\ completed = [s \in Stages |-> 0]
      /\ img = [w |-> input.w, h |-> input.h, len |-> 0, orient |-> input.orient]
  BY DEF Init, Parse
<1>3. Position /\ Outcome /\ PlanAligned
  BY <1>2 DEF Position, InPhase, Outcome, PlanAligned, Stages, Parse
<1>4. Heard /\ Prompt /\ Admitted
  BY <1>2 DEF Heard, Prompt, Admitted, Parse
<1>5. Expected(1) = [w |-> input.w, h |-> input.h, len |-> 0, orient |-> input.orient]
  BY DEF Expected, Reconstruct, Crop, Orient
<1>6. Imaged
  BY <1>2, <1>5 DEF Imaged
<1>7. Accounted
  BY <1>2 DEF Accounted
<1> QED BY <1>1, <1>3, <1>4, <1>6, <1>7 DEF Inv

LEMMA NextInv == Inv /\ [Next]_vars => Inv'
  BY NextTypeOK, NextPosition, NextOutcome, NextAligned, NextHeard, NextPrompt, NextAdmitted,
     NextImaged, NextAccounted DEF Inv

LEMMA Invariance == Spec => []Inv
  BY InitInv, NextInv, PTL DEF Spec

\* Every variable keeps its type, for every input and every image size.
THEOREM TypeCorrect == Spec => []TypeOK
  BY Invariance, PTL DEF Inv

\* Every code path runs or skips the phases in the order it announced them.
THEOREM RunsItsPlan == Spec => []PlanAligned
  BY Invariance, PTL DEF Inv

\* On every path, and for an image of any size, a phase that succeeds has
\* reported exactly the total it announced, and none ever reports more.
THEOREM ReportsItsTotals == Spec => []WorkIsExact
<1>1. Inv => WorkIsExact
  BY DEF Inv, Accounted, WorkIsExact
<1> QED BY <1>1, Invariance, PTL

\* A decode during one of whose phases a stop was requested never succeeds,
\* and a one-shot request, once reported, ends the call as stopped.
THEOREM HearsStops == Spec => []StopIsHeard
<1>1. Inv => StopIsHeard
  BY DEF Inv, TypeOK, Pcs, Position, Heard, StopIsHeard, InPhase
<1> QED BY <1>1, Invariance, PTL

\* However many batches are left, at most one is begun after a stop request.
THEOREM StopsPromptly == Spec => []StopIsPrompt
<1>1. Inv => StopIsPrompt
  BY DEF Inv, Prompt, StopIsPrompt
<1> QED BY <1>1, Invariance, PTL

\* No phase works on an image whose size the configured limits forbid.
THEOREM KeepsLimits == Spec => []NothingBeyondLimits
<1>1. Inv => NothingBeyondLimits
  BY DEF Inv, TypeOK, Position, Admitted, WithinLimits, NothingBeyondLimits, Pcs, Parse, Render
<1> QED BY <1>1, Invariance, PTL

\* The buffer delivered fills the dimensions delivered with it.
THEOREM FillsTheBuffer == Spec => []BufferMatchesDims
<1>1. Inv => BufferMatchesDims
  BY BufferIsFilled DEF Inv, TypeOK, Position, Imaged, BufferMatchesDims, Reconstruct, Render
<1> QED BY <1>1, Invariance, PTL

LEMMA ProbeSeesTheWindow ==
  ASSUME input \in InputSpace
  PROVE  ProbeDims = <<CropWindow.width, CropWindow.rows>>
<1>1. /\ input.w \in Nat /\ input.h \in Nat /\ input.margins \in Margins
      /\ RawlerCropRect(input.cropArea, input.activeArea) \in SUBSET Rects
  BY DEF InputSpace, RawlerCropRect
<1> QED BY <1>1, MarginWindowIsInside, RectWindowIsInside DEF ProbeDims, CropWindow

\* Every decode with the crop applied has the size and orientation that the
\* probe of the same file announced.
THEOREM KeepsTheProbesWord == Spec => []AgreesWithProbe
<1>1. ASSUME Inv, verdict = "ok", input.crop
      PROVE  IF input.orientOn
             THEN OutInfo.dims = OrientedDims(input.orient, ProbeDims) /\ OutInfo.orient = 1
             ELSE OutInfo.dims = ProbeDims /\ OutInfo.orient = input.orient
  <2> DEFINE d == <<CropWindow.width, CropWindow.rows>>
  <2>1. img = Expected(8) /\ input.orient \in Orientations /\ ProbeDims = d
    BY <1>1, ProbeSeesTheWindow DEF Inv, TypeOK, Pcs, InputSpace, Position, Imaged, Render
  <2>2. Performs(Crop) /\ (Performs(Orient) <=> input.orientOn /\ input.orient > 1)
    BY <1>1 DEF Performs, Color, Crop, Orient
  <2> HIDE DEF d
  <2>3. OutInfo.dims = <<img.w, img.h>> /\ OutInfo.orient = img.orient
    BY DEF OutInfo
  <2>4. CASE Performs(Orient)
    <3> DEFINE e == OrientedDims(input.orient, d)
    <3>1. e = <<e[1], e[2]>>
      BY DEF OrientedDims, d
    <3>2. img.w = e[1] /\ img.h = e[2] /\ img.orient = 1
      BY <2>1, <2>2, <2>4 DEF Expected, Crop, Orient, d
    <3> QED BY <2>1, <2>2, <2>3, <2>4, <3>1, <3>2
  <2>5. CASE ~Performs(Orient)
    <3>1. img.w = d[1] /\ img.h = d[2] /\ img.orient = input.orient
      BY <2>1, <2>2, <2>5 DEF Expected, Crop, Orient, d
    <3>2. OutInfo.dims = d
      BY <2>3, <3>1 DEF d
    <3>3. input.orientOn => input.orient = 1
      BY <2>1, <2>2, <2>5 DEF Orientations
    <3> QED BY <2>1, <2>3, <3>1, <3>2, <3>3 DEF OrientedDims, SwapsAxes
  <2> QED BY <2>4, <2>5
<1>2. Inv => AgreesWithProbe
  BY <1>1 DEF AgreesWithProbe
<1> QED BY <1>2, Invariance, PTL

\* No row of any crop is read outside the buffer it is copied from.
THEOREM CropsInBounds == Spec => []CropStaysInside
<1>1. ASSUME Inv, pc = "loop", step = Crop, NEW i \in 0 .. CropWindow.rows - 1
      PROVE  /\ 0 <= RowStart(img.w, CropWindow, i)
             /\ RowEnd(img.w, CropWindow, i) <= img.len
  <2>1. img = Expected(Crop) /\ input.w \in Nat /\ input.h \in Nat
    BY <1>1 DEF Inv, TypeOK, InputSpace, Position, InPhase, Imaged
  <2>2. img.w = input.w /\ img.len = input.w * input.h * 3
    BY <2>1 DEF Expected, Reconstruct, Crop, Orient
  <2>3. Inside(CropWindow, input.w, input.h)
    BY <1>1, CropWindowIsInside DEF Inv, TypeOK
  <2>4. i \in Nat /\ i < CropWindow.rows
    BY <2>3 DEF Inside, Windows
  <2> QED BY <2>1, <2>2, <2>3, <2>4, RowsAreInBounds
<1>2. Inv => CropStaysInside
  BY <1>1 DEF CropStaysInside
<1> QED BY <1>2, Invariance, PTL

\* Seen through its phases and its verdict, every decode is a StagePlan.
THEOREM RefinesPlan == Spec => ImplementsPlan
<1>1. Inv /\ [Next]_vars => [Plan!PlanNext]_(Plan!planVars)
  BY NextPlans DEF Inv
<1> QED BY <1>1, InitPlans, Invariance, PTL DEF Spec, ImplementsPlan, Plan!PlanSpec
=============================================================================
