---------------------------- MODULE DecodePipeline ----------------------------
(***************************************************************************)
(* One call of zenraw's native `decode`, in either backend: rawloader      *)
(* (src/src/decode.rs) or rawler (src/src/rawler_backend.rs).              *)
(*                                                                         *)
(* The call announces seven phases on the caller's pulse, then runs or     *)
(* skips them in order.  A phase is a few passes over a buffer; a pass is  *)
(* cut in batches, and the pulse is polled between batches, on entering    *)
(* and leaving a phase, and at some of the gaps between phases.  A stop    *)
(* request may arrive at any moment.  Pixel values are abstracted away:    *)
(* what is kept is the number of units every pass works off and reports,   *)
(* the dimensions and length of the image buffer, and every early return.  *)
(***************************************************************************)
EXTENDS Geometry

CONSTANTS
  Inputs,        \* the calls considered: file contents and configuration
  Batch,         \* the most units worked off between two polls of the pulse
  CheckRows,     \* a crop pass polls on source rows divisible by this (256)
  ProbeCap       \* the default max_pixels, which both probes enforce

Backends == {"rawloader", "rawler"}
Modes    == {"Develop", "Linear", "CameraRaw"}
Tilings  == {"bayer", "xtrans", "odd", "none"}  \* "odd": a tile that is not square
Prefs    == {"CodecDefault", "Fallible", "Infallible"}
Parses   == {"ok", "error", "panic"}

\* What a call can be given: the file as the external parser sees it, and the
\* RawDecodeConfig.  `sticky` says whether a stop request stays raised once
\* reported, `builds` whether DngPipeline::from_raw_info finds a matrix.
InputSpace ==
  [backend : Backends, tooShort : BOOLEAN, parse : Parses,
   w : Nat, h : Nat, cpp : Nat \ {0}, samplesShort : BOOLEAN, tiling : Tilings,
   margins : Margins, cropArea : SUBSET Rects, activeArea : SUBSET Rects,
   orient : Orientations, builds : BOOLEAN,
   mode : Modes, crop : BOOLEAN, orientOn : BOOLEAN, ev : BOOLEAN,
   malvar : BOOLEAN, wbOverride : BOOLEAN, pref : Prefs,
   maxPixels : Nat, maxBytes : Nat, sticky : BOOLEAN]

ASSUME PipelineAssumption ==
  /\ Inputs \subseteq InputSpace
  /\ Batch \in Nat \ {0}
  /\ CheckRows \in Nat \ {0}
  /\ ProbeCap \in Nat

\* The announced plan, in order.
Parse       == 1
Normalize   == 2
Reconstruct == 3
Color       == 4
Crop        == 5
Orient      == 6
Render      == 7
Stages      == 1 .. 7
MaxPasses   == 6   \* no phase makes more passes than this

VARIABLES
  input,      \* the call's arguments; fixed
  pc,         \* where the code is within or between phases
  step,       \* the phase the code is working towards
  cursor,     \* the next phase of the announced plan, kept by how_far::Stages
  child,      \* the outcome reported for each announced phase
  total,      \* the exact amount of work announced for each phase
  completed,  \* the units reported done in each phase
  pass,       \* the pass under way in the running phase
  left,       \* the units of that pass still to do
  img,        \* the image buffer: width, height, length, orientation tag
  error,      \* the error being returned, "none" while there is none
  verdict,    \* how the call ended
  stop,       \* the stop request: "quiet", "pending" or "spent" (one-shot, reported)
  late,       \* batches started while a stop request was pending
  raisedIn    \* the phase that was running when the request was raised, 0 if none

code     == <<pc, step, pass, left, img, error>>
progress == <<cursor, child, total, completed>>
request  == <<stop, late, raisedIn>>
vars     == <<input, code, progress, verdict, request>>

-----------------------------------------------------------------------------
(* The file and the configuration.                                         *)

NonBayer == input.cpp > 1
RawlerBayer == input.backend = "rawler" /\ ~NonBayer

\* Mutant: the crop pass prefers the active area, the probe the crop area.
CropWindowActiveFirst ==
  IF input.backend = "rawloader"
  THEN MarginWindow(input.w, input.h, input.margins)
  ELSE RectWindow(input.w, input.h, RawlerCropRect(input.activeArea, input.cropArea))

CropWindow ==
  IF input.backend = "rawloader"
  THEN MarginWindow(input.w, input.h, input.margins)
  ELSE RectWindow(input.w, input.h, RawlerCropRect(input.cropArea, input.activeArea))

FullWindow == CropWindow.width = input.w /\ CropWindow.rows = input.h

\* Which phases the code performs; the others it skips.
Performs(s) ==
  CASE s = Color  -> ~RawlerBayer /\ input.mode # "CameraRaw"
    [] s = Crop   -> input.crop
    [] s = Orient -> input.orientOn /\ input.orient > 1
    [] OTHER      -> TRUE

\* Gaps with a poll of their own, outside any phase.
PollsAfter(s) ==
  CASE NonBayer    -> s \in {Normalize, Reconstruct, Color}
    [] RawlerBayer -> s \in {Normalize, Color, Crop, Orient}
    [] OTHER       -> s \in {Normalize, Reconstruct, Color, Crop, Orient}

-----------------------------------------------------------------------------
(* The work: what a phase announces, and the passes it makes.              *)

Samples == img.len                                   \* rgb.len()
If(cond, n) == IF cond THEN n ELSE 0

OrientRows(o) ==
  CASE o = 2 -> img.h
    [] o = 3 -> (img.w * img.h) \div 2
    [] o = 4 -> img.h \div 2
    [] o \in 5 .. 8 -> img.w
    [] OTHER -> 0

\* The argument of progress::total on entering phase s.
Announced(s) ==
  CASE s = Parse -> 1
    [] s = Normalize -> input.w * input.h * input.cpp
    [] s = Reconstruct -> input.w * input.h
    [] s = Color -> Samples * (1 + If(input.ev, 1))
    [] s = Crop -> CropWindow.width * CropWindow.rows * 3
    [] s = Orient -> OrientRows(input.orient)
    [] OTHER ->
         CASE RawlerBayer /\ input.mode = "Develop" ->
                Samples * (If(input.builds, 5) + If(~input.builds, 3) + If(input.ev, 1))
           [] RawlerBayer /\ input.mode = "Linear" -> Samples * (5 + If(input.ev, 1))
           [] ~RawlerBayer /\ input.mode = "Develop" -> Samples * 2
           [] OTHER -> Samples * 4

\* The Malvar kernel does the two-sample border first and the interior after.
HasInterior == input.malvar /\ input.tiling = "bayer" /\ input.w > 4 /\ input.h > 4

\* Mutant: a row is copied over the full width of the sensor.
CopiedWholeRows == IF FullWindow THEN img.len ELSE CropWindow.rows * (img.w * 3)

\* A crop that changes nothing copies the buffer whole, any other row by row.
CopiedByCrop == IF FullWindow THEN img.len ELSE CropWindow.rows * (CropWindow.width * 3)

Passes(p1, p2, p3, p4, p5, p6) == <<p1, p2, p3, p4, p5, p6>>

\* Mutant: the gamma of the matrix branch is applied, but not reported.
RenderPassesSilentGamma ==
  LET n == Samples  e == If(input.ev, Samples) IN
  CASE RawlerBayer /\ input.mode = "Develop" -> Passes(n, e, n, n, 0, 0)
    [] RawlerBayer /\ input.mode = "Linear" -> Passes(n, e, n * 4, 0, 0, 0)
    [] ~RawlerBayer /\ input.mode = "Develop" -> Passes(n, n, 0, 0, 0, 0)
    [] OTHER -> Passes(n * 4, 0, 0, 0, 0, 0)

RenderPasses ==
  LET n == Samples  e == If(input.ev, Samples) IN
  CASE RawlerBayer /\ input.mode = "Develop" /\ input.builds -> Passes(e, n, n, n, n, n)
    [] RawlerBayer /\ input.mode = "Develop" /\ ~input.builds -> Passes(n, e, n, n, 0, 0)
    [] RawlerBayer /\ input.mode = "Linear" -> Passes(n, e, n * 4, 0, 0, 0)
    [] ~RawlerBayer /\ input.mode = "Develop" -> Passes(n, n, 0, 0, 0, 0)
    [] OTHER -> Passes(n * 4, 0, 0, 0, 0, 0)

\* The units of each loop the phase runs, in order.
Work(s) ==
  CASE s = Parse -> Passes(1, 0, 0, 0, 0, 0)
    [] s = Normalize -> Passes(input.w * input.h * input.cpp, 0, 0, 0, 0, 0)
    [] s = Reconstruct ->
         IF ~NonBayer /\ HasInterior
         THEN Passes(2 * input.w + 2 * input.w + (input.h - 4) * 4,
                     (input.h - 4) * (input.w - 4), 0, 0, 0, 0)
         ELSE Passes(input.h * input.w, 0, 0, 0, 0, 0)
    [] s = Color -> Passes(Samples, If(input.ev, Samples), 0, 0, 0, 0)
    [] s = Crop -> Passes(CopiedByCrop, 0, 0, 0, 0, 0)
    [] s = Orient -> Passes(OrientRows(input.orient), 0, 0, 0, 0, 0)
    [] OTHER -> RenderPasses

\* A loop polls before each batch, or reports each batch and then polls
\* (`paced`); a crop that starts between two polled rows polls only later.
PollsFirst(s) ==
  CASE s = Reconstruct -> NonBayer
    [] s = Orient -> input.orient = 3
    [] s = Crop -> FullWindow \/ CropWindow.top % CheckRows = 0 \/ left < Work(Crop)[1]
    [] OTHER -> TRUE

\* The error a phase may meet before its first pass, "none" if it meets none.
SetupErrors(s) ==
  CASE s = Normalize -> IF input.samplesShort THEN {"UnexpectedEof"} ELSE {"none"}
    [] s = Reconstruct /\ ~NonBayer ->
         IF input.tiling = "none" \/ (input.backend = "rawler" /\ input.tiling = "odd")
         THEN {"UnsupportedFeature"} ELSE {"none"}
    [] OTHER -> {"none"}

\* Buffers of image size: through alloc_util (the caller's preference decides
\* whether failure is an error or an abort), or a plain `vec!` (an abort).
AllocatesByPref(s) == s \in {Normalize, Reconstruct} \/ (s = Crop /\ ~FullWindow)
AllocatesPlain(s)  == s \in {Crop, Orient, Render} /\ ~AllocatesByPref(s)
                      /\ (s = Orient => SwapsAxes(input.orient))

-----------------------------------------------------------------------------
(* Polling the pulse.                                                      *)

Stopping == stop = "pending"
\* A one-shot request is gone once reported.
Reported == stop' = IF input.sticky THEN stop ELSE "spent"

\* Mutant: a stop request inside a phase is reported like any other failure.
BreakUnclassified(e) ==
  /\ error' = e
  /\ pc' = "unwind"
  /\ child' = [child EXCEPT ![cursor] = "Failed"]
  /\ UNCHANGED <<step, pass, left, img, cursor, verdict>>

\* The running phase breaks off with error e.
Break(e) ==
  /\ error' = e
  /\ pc' = "unwind"
  /\ child' = [child EXCEPT ![cursor] = IF e = "Stopped" THEN "Cancelled" ELSE "Failed"]
  /\ UNCHANGED <<step, pass, left, img, cursor, verdict>>

BreakStopped ==
  /\ Break("Stopped") /\ Reported
  /\ UNCHANGED <<input, total, completed, late, raisedIn>>

\* The code returns an error between two phases.
Abandon(e) ==
  /\ error' = e
  /\ pc' = "unwind"
  /\ UNCHANGED <<input, step, pass, left, img, progress, verdict, late, raisedIn>>

-----------------------------------------------------------------------------
Init ==
  /\ input \in Inputs
  /\ pc = "entry" /\ step = Parse /\ cursor = Parse
  /\ child = [s \in Stages |-> "Planned"]
  /\ total = [s \in Stages |-> 0] /\ completed = [s \in Stages |-> 0]
  /\ pass = 1 /\ left = 0
  /\ img = [w |-> input.w, h |-> input.h, len |-> 0, orient |-> input.orient]
  /\ error = "none" /\ verdict = "none"
  /\ stop = "quiet" /\ late = 0 /\ raisedIn = 0

\* decode_inner, first lines: poll, then refuse an input below 64 bytes.
EntryStopped == pc = "entry" /\ Stopping /\ Abandon("Stopped") /\ Reported
EntryTooShort ==
  /\ pc = "entry" /\ ~Stopping /\ input.tooShort
  /\ Abandon("UnexpectedEof") /\ UNCHANGED stop
EntryPasses ==
  /\ pc = "entry" /\ ~Stopping /\ ~input.tooShort
  /\ pc' = "turn"
  /\ UNCHANGED <<input, step, pass, left, img, error, progress, verdict, request>>

\* progress.run enters the next phase of the plan.
Enter ==
  /\ pc = "turn" /\ Performs(step)
  /\ child' = [child EXCEPT ![cursor] = "Running"]
  /\ pc' = "opened"
  /\ UNCHANGED <<input, step, pass, left, img, error, cursor, total, completed, verdict, request>>

\* progress.skip settles it without work.
Skip ==
  /\ pc = "turn" /\ ~Performs(step)
  /\ child' = [child EXCEPT ![cursor] = "Skipped"]
  /\ cursor' = cursor + 1
  /\ pc' = "gap"
  /\ UNCHANGED <<input, step, pass, left, img, error, total, completed, verdict, request>>

OpenStopped == pc = "opened" /\ Stopping /\ BreakStopped

\* The phase announces its total, then checks and allocates what it needs.
Open ==
  /\ pc = "opened" /\ ~Stopping
  /\ total' = [total EXCEPT ![cursor] = Announced(step)]
  /\ \E e \in SetupErrors(step) \cup
              IF AllocatesByPref(step) /\ input.pref # "Infallible"
              THEN {"OutOfMemory"} ELSE {} :
       /\ e = "OutOfMemory" => ~(\E f \in SetupErrors(step) : f # "none")
       /\ IF e = "none"
          THEN /\ pc' = "loop" /\ pass' = 1 /\ left' = Work(step)[1]
               /\ UNCHANGED <<step, img, error, cursor, child, verdict>>
          ELSE Break(e)
  /\ UNCHANGED <<input, completed, request>>

\* An infallible allocation fails: the process aborts, nothing is returned.
Abort ==
  /\ pc = "opened" /\ ~Stopping
  /\ SetupErrors(step) = {"none"}
  /\ AllocatesPlain(step) \/ (AllocatesByPref(step) /\ input.pref = "Infallible")
  /\ pc' = "aborted"
  /\ UNCHANGED <<input, step, pass, left, img, error, progress, verdict, request>>

\* Mutant: the size the parser returns is not checked against the limits.
ParseErrorUnlimited == IF input.parse # "ok" THEN "Malformed" ELSE "none"

\* The external parser returns, panics (caught), or its image is over a limit.
ParseError ==
  IF input.parse # "ok" THEN "Malformed"
  ELSE LET l == DecodeLimits(input.w, input.h, input.maxPixels, input.maxBytes)
       IN IF l = "ok" THEN "none" ELSE l

ParseFails ==
  /\ pc = "loop" /\ step = Parse /\ left > 0 /\ ParseError # "none"
  /\ Break(ParseError)
  /\ UNCHANGED <<input, total, completed, request>>

Advance(n) ==
  /\ completed' = [completed EXCEPT ![cursor] = @ + n]
  /\ left' = left - n
  /\ late' = IF Stopping THEN late + 1 ELSE late

\* A poll inside a loop hears the request before the next batch.
BatchStopped ==
  /\ pc = "loop" /\ left > 0 /\ Stopping /\ PollsFirst(step)
  /\ step = Parse => ParseError = "none"
  /\ BreakStopped

\* Mutant: a loop works off its batches without polling in between.
BatchUnpolled ==
  /\ pc = "loop" /\ left > 0
  /\ step = Parse => ParseError = "none"
  /\ Advance(IF left < Batch THEN left ELSE Batch)
  /\ UNCHANGED <<input, pc, step, pass, img, error, cursor, child, total, verdict, stop, raisedIn>>

\* One batch is worked off and reported.
BatchDone ==
  /\ pc = "loop" /\ left > 0
  /\ ~(Stopping /\ PollsFirst(step))
  /\ step = Parse => ParseError = "none"
  /\ Advance(IF left < Batch THEN left ELSE Batch)
  /\ pc' = IF PollsFirst(step) \/ step = Crop THEN "loop" ELSE "paced"
  /\ UNCHANGED <<input, step, pass, img, error, cursor, child, total, verdict, stop, raisedIn>>

\* A paced loop polls after the batch it reported.
PacedStopped == pc = "paced" /\ Stopping /\ BreakStopped
\* Mutant: the paced loop polls again and again without advancing.
PacedSpins == pc = "paced" /\ ~Stopping /\ UNCHANGED vars

PacedGoesOn ==
  /\ pc = "paced" /\ ~Stopping
  /\ pc' = "loop"
  /\ UNCHANGED <<input, step, pass, left, img, error, progress, verdict, request>>

NextPass ==
  /\ pc = "loop" /\ left = 0 /\ pass < MaxPasses
  /\ pass' = pass + 1
  /\ left' = Work(step)[pass + 1]
  /\ UNCHANGED <<input, pc, step, img, error, progress, verdict, request>>

\* What the phase has made of the image buffer.
Image(s) ==
  CASE s = Reconstruct -> [img EXCEPT !.len = input.w * input.h * 3]
    [] s = Crop -> [w |-> CropWindow.width, h |-> CropWindow.rows, len |-> CopiedByCrop,
                    orient |-> img.orient]
    [] s = Orient -> LET d == OrientedDims(input.orient, <<img.w, img.h>>) IN
                     [w |-> d[1], h |-> d[2], orient |-> 1,
                      len |-> IF SwapsAxes(input.orient) THEN d[1] * d[2] * 3 ELSE img.len]
    [] OTHER -> img

BufferFilled == img.len = img.w * img.h * 3

\* progress.run polls once more after the work, whose last report may have
\* raised a request; PixelBuffer::from_vec, the last call inside Render, refuses
\* a buffer that does not fill its dimensions.
LeaveBroken ==
  /\ pc = "loop" /\ left = 0 /\ pass = MaxPasses
  /\ IF step = Render /\ ~BufferFilled
     THEN Break("Buffer") /\ UNCHANGED stop
     ELSE Stopping /\ Break("Stopped") /\ Reported
  /\ UNCHANGED <<input, total, completed, late, raisedIn>>

\* Mutant: the poll on leaving a phase is dropped.
LeaveUnpolled ==
  /\ pc = "loop" /\ left = 0 /\ pass = MaxPasses
  /\ child' = [child EXCEPT ![cursor] = "Succeeded"]
  /\ cursor' = cursor + 1
  /\ img' = Image(step)
  /\ pc' = "gap"
  /\ UNCHANGED <<input, step, pass, left, error, total, completed, verdict, request>>

Leave ==
  /\ pc = "loop" /\ left = 0 /\ pass = MaxPasses /\ ~Stopping
  /\ step = Render => BufferFilled
  /\ child' = [child EXCEPT ![cursor] = "Succeeded"]
  /\ cursor' = cursor + 1
  /\ img' = Image(step)
  /\ pc' = "gap"
  /\ UNCHANGED <<input, step, pass, left, error, total, completed, verdict, request>>

GapStopped == pc = "gap" /\ PollsAfter(step) /\ Stopping /\ Abandon("Stopped") /\ Reported

GapPasses ==
  /\ pc = "gap" /\ ~(PollsAfter(step) /\ Stopping)
  /\ IF step = Render THEN pc' = "unwind" /\ UNCHANGED step
                      ELSE pc' = "turn" /\ step' = step + 1
  /\ UNCHANGED <<input, pass, left, img, error, progress, verdict, request>>

\* progress.complete settles the phases never reached, and decode returns.
Complete ==
  /\ pc = "unwind"
  /\ child' = [s \in Stages |-> IF error # "none" /\ child[s] = "Planned"
                                THEN "NotRun" ELSE child[s]]
  /\ verdict' = CASE error = "none" -> "ok" [] error = "Stopped" -> "stopped"
                  [] OTHER -> "failed"
  /\ pc' = "done"
  /\ UNCHANGED <<input, step, pass, left, img, error, cursor, total, completed, request>>

\* The caller, another thread or a progress callback raises a stop request.
Raise ==
  /\ stop = "quiet" /\ pc \notin {"done", "aborted"}
  /\ stop' = "pending"
  /\ raisedIn' = IF pc \in {"opened", "loop", "paced"} THEN step ELSE 0
  /\ UNCHANGED <<input, code, progress, verdict, late>>

-----------------------------------------------------------------------------
(* What the decoded image and the probe say of the file.                   *)

\* The RawInfo of the decoded image.
OutInfo ==
  [dims   |-> <<img.w, img.h>>,
   orient |-> img.orient,
   wb     |-> CASE input.mode = "CameraRaw" -> "none"
                [] RawlerBayer /\ input.mode = "Develop" -> "as-shot"
                [] OTHER -> IF input.wbOverride THEN "override" ELSE "as-shot"]

\* The dimensions and orientation `probe` reports, when it reports any.
ProbeDims ==
  IF input.backend = "rawloader"
  THEN CroppedDims(input.w, input.h, input.margins)
  ELSE RawlerCroppedDims(input.w, input.h, RawlerCropRect(input.cropArea, input.activeArea))

\* rawloader caps the sensor's pixels, rawler those of the crop it reports.
ProbeAdmits ==
  LET d == IF input.backend = "rawloader" THEN <<input.w, input.h>> ELSE ProbeDims
  IN ProbeLimits(d[1], d[2], ProbeCap) = "ok"

Decode ==
  \/ EntryStopped \/ EntryTooShort \/ EntryPasses
  \/ Enter \/ Skip \/ OpenStopped \/ Open \/ Abort
  \/ ParseFails \/ BatchStopped \/ BatchDone \/ PacedStopped \/ PacedGoesOn \/ NextPass
  \/ LeaveBroken \/ Leave
  \/ GapStopped \/ GapPasses \/ Complete

Returned == pc \in {"done", "aborted"} /\ UNCHANGED vars

Next == Decode \/ Raise \/ Returned

\* The decoding thread keeps running and the external parser returns; nobody
\* is obliged to raise a stop request.
Spec == Init /\ [][Next]_vars /\ WF_vars(Decode)

-----------------------------------------------------------------------------
Pcs    == {"entry", "turn", "opened", "loop", "paced", "gap", "unwind", "done", "aborted"}
Errors == {"none", "Stopped", "UnexpectedEof", "Malformed", "OutOfMemory", "LimitExceeded",
           "UnsupportedFeature", "Buffer"}

TypeOK ==
  /\ input \in InputSpace
  /\ pc \in Pcs /\ step \in Stages /\ cursor \in 1 .. 8
  /\ child \in [Stages -> {"Planned", "Running", "Succeeded", "Skipped", "Failed",
                          "Cancelled", "NotRun"}]
  /\ total \in [Stages -> Nat] /\ completed \in [Stages -> Nat]
  /\ pass \in 1 .. MaxPasses /\ left \in Nat
  /\ img \in [w : Nat, h : Nat, len : Nat, orient : Orientations]
  /\ error \in Errors /\ verdict \in {"none", "ok", "stopped", "failed"}
  /\ stop \in {"quiet", "pending", "spent"} /\ late \in Nat /\ raisedIn \in 0 .. 7

\* Seen through its phases and its verdict, a decode is a StagePlan: phases in
\* plan order, one at a time, settled once, "Cancelled" exactly for a stop.
Plan == INSTANCE StagePlan WITH PlanLength <- 7
ImplementsPlan == Plan!PlanSpec

\* Whichever path the code takes, the phase it runs or skips is the one the
\* announced plan has at that place: run and skip calls never drift apart.
PlanAligned ==
  \A s \in Stages :
    /\ child[s] \in {"Running", "Failed", "Cancelled"} => s = step
    /\ child[s] = "Succeeded" => Performs(s)
    /\ child[s] = "Skipped" => ~Performs(s)

\* A phase that succeeds has reported exactly the work it announced, and no
\* phase ever reports more (the `total` expressions against the loops).
WorkIsExact ==
  \A s \in Stages :
    /\ completed[s] <= total[s]
    /\ child[s] = "Succeeded" => completed[s] = total[s]

\* A request raised while a phase runs is never outlived by a success, and a
\* one-shot request that was reported to the code is never swallowed.
StopIsHeard ==
  /\ raisedIn # 0 => verdict # "ok"
  /\ stop = "spent" => verdict \in {"none", "stopped"}

\* Cancellation is prompt: after the request at most one batch is started.
StopIsPrompt == late <= 1

\* No phase after the parse begins on an image the limits forbid.
NothingBeyondLimits ==
  (step # Parse \/ verdict = "ok")
     => DecodeLimits(input.w, input.h, input.maxPixels, input.maxBytes) = "ok"

\* The buffer delivered always fills the dimensions reported with it.
BufferMatchesDims == error # "Buffer" /\ (verdict = "ok" => BufferFilled)

\* Every row the crop copies lies inside the buffer it is copied from, so the
\* slices of the copying loop never panic.
CropStaysInside ==
  pc = "loop" /\ step = Crop =>
    \A i \in 0 .. CropWindow.rows - 1 :
      0 <= RowStart(img.w, CropWindow, i) /\ RowEnd(img.w, CropWindow, i) <= img.len

\* A decode with the crop applied has the dimensions the probe announced, with
\* the axes exchanged when it also applied an orientation that does so.
AgreesWithProbe ==
  verdict = "ok" /\ input.crop /\ ProbeAdmits =>
    IF input.orientOn
    THEN OutInfo.dims = OrientedDims(input.orient, ProbeDims) /\ OutInfo.orient = 1
    ELSE OutInfo.dims = ProbeDims /\ OutInfo.orient = input.orient

\* Every call returns (or the process aborts), stop request or not.
Terminates == <>(pc \in {"done", "aborted"})

-----------------------------------------------------------------------------
(* A statement of the documentation that the code does not keep.           *)

\* RawDecodeConfig::wb_override replaces the as-shot white balance.
WbOverrideIsUsed ==
  verdict = "ok" /\ input.wbOverride /\ input.mode # "CameraRaw" => OutInfo.wb = "override"
=============================================================================
