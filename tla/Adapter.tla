------------------------------- MODULE Adapter -------------------------------
(***************************************************************************)
(* The zencodec adapter (src/src/zencodec_impl.rs): what a job says of a   *)
(* file by probe and by output_info, and what its one-shot decoder makes   *)
(* of it.  All three are asked of the same file under the same job, in any *)
(* order and each once, while a stop may be requested at any moment.       *)
(*                                                                         *)
(* The native decode is one action here, with the outcomes DecodePipeline  *)
(* and Orientation show it and the kernels to have.  An orientation is its *)
(* EXIF number; 1 is the identity.                                         *)
(***************************************************************************)
EXTENDS Geometry

CONSTANTS
  Jobs,        \* the files and jobs considered
  ProbeCap     \* the pixel cap of the native probe (200 000 000)

Backends == {"rawler", "rawloader"}
Modes    == {"Develop", "Linear", "CameraRaw"}
Calls    == {"probe", "output_info", "decode"}
Hints    == [kind : {"Preserve", "Correct"}, by : {1}]
              \cup [kind : {"ExactTransform", "CorrectAndTransform"}, by : Orientations]

Sides   == (Nat \ {0}) \X (Nat \ {0})
Limit   == {l \in SUBSET Nat : \A m, n \in l : m = n}

\* A file: its length, whether the parser takes it, its sensor, what the crop
\* keeps of it and its orientation tag.  A job: configuration, hint, limits.
JobForms ==
  [backend : Backends, length : Nat, parses : BOOLEAN, sensor : Sides, window : Sides,
   tag : Orientations, mode : Modes, prefersLinear : BOOLEAN, crop : BOOLEAN, hint : Hints,
   maxPixels : Nat, maxBytes : Nat,
   limits : [input : Limit, width : Limit, height : Limit, pixels : Limit, memory : Limit],
   sticky : BOOLEAN]

\* A crop keeps no more than there is (CroppedDims, RawlerCroppedDims).
JobSpace == {j \in JobForms : j.window[1] <= j.sensor[1] /\ j.window[2] <= j.sensor[2]}

ASSUME AdapterAssumption == ProbeCap \in Nat /\ Jobs \subseteq JobSpace

VARIABLES
  job,
  pc, call,     \* where the code is, and in which call
  img,          \* the decoded picture: its size, its tag, how its pixels were turned
  error,        \* the error on its way out, "none" if there is none
  child, verdict,   \* what an observer sees of the decoder's two phases
  stop,         \* the job's request: "quiet", "pending" or "spent"
  owed,         \* the request came before the last poll of the call under way
  told          \* the answer to each call

phases == <<child, verdict>>
vars   == <<job, pc, call, img, error, phases, stop, owed, told>>

NoImage == [dims |-> <<0, 0>>, tag |-> 1, turned |-> 1]
Answer(how, i) == [how |-> how, dims |-> i.dims, tag |-> i.tag, turned |-> i.turned]

-----------------------------------------------------------------------------
(* Orientations.                                                           *)

Corners == {0, 1} \X {0, 1}

\* The corner that an orientation fetches for each corner of its result.
Fetched(o) == [p \in Corners |->
  CASE o = 1 -> p
    [] o = 2 -> <<p[1], 1 - p[2]>>
    [] o = 3 -> <<1 - p[1], 1 - p[2]>>
    [] o = 4 -> <<1 - p[1], p[2]>>
    [] o = 5 -> <<p[2], p[1]>>
    [] o = 6 -> <<1 - p[2], p[1]>>
    [] o = 7 -> <<1 - p[2], 1 - p[1]>>
    [] o = 8 -> <<p[2], 1 - p[1]>>]

\* The one orientation that does what a and, after it, b do.
Then(a, b) == CHOOSE o \in Orientations :
  \A p \in Corners : Fetched(o)[p] = Fetched(a)[Fetched(b)[p]]

Bakes(hint) == hint.kind # "Preserve"

\* Mutant: the transform is applied before the correction.
ResolvedSwapped(hint, tag) ==
  CASE hint.kind = "Preserve"       -> 1
    [] hint.kind = "Correct"        -> tag
    [] hint.kind = "ExactTransform" -> hint.by
    [] OTHER                        -> Then(hint.by, tag)

\* resolve_orientation.
Resolved(hint, tag) ==
  CASE hint.kind = "Preserve"       -> 1
    [] hint.kind = "Correct"        -> tag
    [] hint.kind = "ExactTransform" -> hint.by
    [] OTHER                        -> Then(tag, hint.by)

\* A picture turned by an orientation, nothing being left for the viewer.
Baked(i, o) == [dims |-> OrientedDims(o, i.dims), tag |-> 1, turned |-> Then(i.turned, o)]

-----------------------------------------------------------------------------
(* The header and the limits.                                              *)

\* What probe_inner and build_image_info report: the size after the crop.
Header == [dims |-> job.window, tag |-> job.tag, turned |-> 1]

\* The native probe's cap; rawloader applies it before the crop.
HeaderLimits ==
  LET d == IF job.backend = "rawler" THEN job.window ELSE job.sensor
  IN  ProbeLimits(d[1], d[2], ProbeCap)

\* report_probe_for_hint.
ReportForHint(i, hint) == IF Bakes(hint) THEN Baked(i, Resolved(hint, i.tag)) ELSE i

\* Mutant: what is said to be applied is the correction, whatever was asked.
InfoCorrecting == Baked(Header, IF Bakes(job.hint) THEN job.tag ELSE 1)

\* output_info.
OutputInfo == Baked(Header, Resolved(job.hint, job.tag))

Over(limit, n) == limit # None /\ n > The(limit)

\* A caller that prefers linear floats gets them.
DecoderMode == IF job.prefersLinear THEN "Linear" ELSE job.mode

BytesPerPixel(mode) == IF mode = "Develop" THEN 6 ELSE 12

\* Mutant: the memory is estimated for the mode configured.
DecoderAdmitsConfigured ==
  LET w == job.window[1]
      h == job.window[2]
  IN  /\ ~Over(job.limits.width, w) /\ ~Over(job.limits.height, h) /\ ~Over(job.limits.pixels, w * h)
      /\ ~Over(job.limits.memory, w * h * BytesPerPixel(job.mode))

\* check_dimensions and check_memory on the probed size.
DecoderAdmits ==
  LET w == job.window[1]
      h == job.window[2]
  IN  /\ ~Over(job.limits.width, w) /\ ~Over(job.limits.height, h) /\ ~Over(job.limits.pixels, w * h)
      /\ ~Over(job.limits.memory, w * h * BytesPerPixel(DecoderMode))

\* The cap the native decode is given: the job's limit replaces the configured.
DecodeCap == IF job.limits.pixels = None THEN job.maxPixels ELSE The(job.limits.pixels)

NativeLimits == DecodeLimits(job.sensor[1], job.sensor[2], DecodeCap, job.maxBytes)

\* The native decode runs without orientation: stored pixels and their tag.
NativeImage == [dims |-> IF job.crop THEN job.window ELSE job.sensor, tag |-> job.tag, turned |-> 1]

-----------------------------------------------------------------------------
Init ==
  /\ job \in Jobs
  /\ pc = "idle" /\ call = "none"
  /\ img = NoImage /\ error = "none"
  /\ child = [p \in 1 .. 2 |-> "Planned"] /\ verdict = "none"
  /\ stop = "quiet" /\ owed = FALSE
  /\ told = [c \in Calls |-> Answer("none", NoImage)]

Stopping == stop = "pending"
\* A one-shot request is gone once reported.
Reported == stop' = IF job.sticky THEN stop ELSE "spent"

Return(how, i) ==
  /\ told' = [told EXCEPT ![call] = Answer(how, i)]
  /\ pc' = "idle" /\ call' = "none"

\* A call is made; decoder() looks at the length of the input first.
Start(c) ==
  /\ pc = "idle" /\ told[c].how = "none"
  /\ owed' = Stopping
  /\ IF c = "decode" /\ Over(job.limits.input, job.length)
     THEN /\ told' = [told EXCEPT ![c] = Answer("LimitExceeded", NoImage)]
          /\ UNCHANGED <<pc, call>>
     ELSE pc' = "entry" /\ call' = c /\ UNCHANGED told
  /\ UNCHANGED <<job, img, error, phases, stop>>

\* A poll outside the decoder's phases: the call returns, or goes on.
Stopped ==
  /\ pc \in {"entry", "probed"} /\ Stopping
  /\ Return("Stopped", NoImage) /\ Reported
  /\ UNCHANGED <<job, img, error, phases, owed>>

Entered ==
  /\ pc = "entry" /\ ~Stopping
  /\ pc' = "probing"
  /\ UNCHANGED <<job, call, img, error, phases, stop, owed, told>>

\* probe_inner: the external parser, and the cap.
ProbeNative ==
  /\ pc = "probing"
  /\ IF ~job.parses THEN Return("Malformed", NoImage)
     ELSE IF HeaderLimits # "ok" THEN Return(HeaderLimits, NoImage)
     ELSE pc' = "probed" /\ UNCHANGED <<call, told>>
  /\ UNCHANGED <<job, img, error, phases, stop, owed>>

\* The probed header is reported, or the decoder admits it.
Probed ==
  /\ pc = "probed" /\ ~Stopping
  /\ \/ call = "probe" /\ Return("ok", ReportForHint(Header, job.hint))
     \/ call = "output_info" /\ Return("ok", OutputInfo)
     \/ call = "decode" /\ ~DecoderAdmits /\ Return("LimitExceeded", NoImage)
     \/ call = "decode" /\ DecoderAdmits /\ pc' = "turn" /\ UNCHANGED <<call, told>>
  /\ UNCHANGED <<job, img, error, phases, stop, owed>>

-----------------------------------------------------------------------------
(* RawDecoder::decode, in two phases.                                      *)

Phase == IF child[1] = "Planned" \/ child[1] = "Running" THEN 1 ELSE 2

\* progress.run enters a phase.
Enter ==
  /\ pc = "turn"
  /\ Phase = 2 => Bakes(job.hint)
  /\ child' = [child EXCEPT ![Phase] = "Running"]
  /\ pc' = "opened"
  /\ UNCHANGED <<job, call, img, error, verdict, stop, owed, told>>

\* Mutant: a hint that bakes nothing forgets to settle the second phase.
SkipForgotten ==
  /\ pc = "turn" /\ Phase = 2 /\ ~Bakes(job.hint)
  /\ pc' = "unwind"
  /\ UNCHANGED <<job, call, img, error, phases, stop, owed, told>>

Skip ==
  /\ pc = "turn" /\ Phase = 2 /\ ~Bakes(job.hint)
  /\ child' = [child EXCEPT ![2] = "Skipped"]
  /\ pc' = "unwind"
  /\ UNCHANGED <<job, call, img, error, verdict, stop, owed, told>>

\* The running phase ends with an error.
Break(e) ==
  /\ error' = e
  /\ child' = [child EXCEPT ![Phase] = IF e = "Stopped" THEN "Cancelled" ELSE "Failed"]
  /\ pc' = "unwind"
  /\ UNCHANGED <<job, call, img, verdict, owed, told>>

\* The polls on entry and on leaving, and those of the work itself.
BreakStopped ==
  /\ pc \in {"opened", "working", "worked"} /\ Stopping
  /\ Break("Stopped") /\ Reported

Open ==
  /\ pc = "opened" /\ ~Stopping
  /\ pc' = "working"
  /\ UNCHANGED <<job, call, img, error, phases, stop, owed, told>>

\* crate::decode, which refuses what is over its limits and may yet fail.
DecodeNative ==
  /\ pc = "working" /\ Phase = 1
  /\ \/ /\ NativeLimits = "ok"
        /\ img' = NativeImage /\ pc' = "worked"
        /\ UNCHANGED <<job, call, error, phases, owed, told>>
     \/ Break(IF NativeLimits = "ok" THEN "Failed" ELSE NativeLimits)
  /\ UNCHANGED stop

\* apply_orientation_to_output_pulse; the identity moves no pixel.
Bake ==
  /\ pc = "working" /\ Phase = 2
  /\ LET resolved == Resolved(job.hint, img.tag) IN
       \/ /\ img' = Baked(img, resolved) /\ pc' = "worked"
          /\ UNCHANGED <<job, call, error, phases, owed, told>>
       \/ resolved # 1 /\ Break("OutOfMemory")
  /\ UNCHANGED stop

\* Mutant: a phase succeeds without the poll on leaving.
LeaveUnpolled ==
  /\ pc = "worked"
  /\ child' = [child EXCEPT ![Phase] = "Succeeded"]
  /\ pc' = IF Phase = 1 THEN "turn" ELSE "unwind"
  /\ UNCHANGED <<job, call, img, error, verdict, stop, owed, told>>

Leave ==
  /\ pc = "worked" /\ ~Stopping
  /\ child' = [child EXCEPT ![Phase] = "Succeeded"]
  /\ pc' = IF Phase = 1 THEN "turn" ELSE "unwind"
  /\ UNCHANGED <<job, call, img, error, verdict, stop, owed, told>>

\* progress.complete settles the phase never reached, and decode returns.
Complete ==
  /\ pc = "unwind"
  /\ IF error = "none"
     THEN verdict' = "ok" /\ UNCHANGED child /\ Return("ok", img)
     ELSE /\ verdict' = IF error = "Stopped" THEN "stopped" ELSE "failed"
          /\ child' = [p \in 1 .. 2 |-> IF child[p] = "Planned" THEN "NotRun" ELSE child[p]]
          /\ Return(error, NoImage)
  /\ UNCHANGED <<job, img, error, stop, owed>>

\* The caller's token or observer asks for a stop.
Raise ==
  /\ stop = "quiet"
  /\ \E c \in Calls : told[c].how = "none"
  /\ stop' = "pending"
  /\ owed' = (owed \/ pc \in {"entry", "probing", "probed", "opened", "working", "worked"}
                   \/ (pc = "turn" /\ (Phase = 1 \/ Bakes(job.hint))))
  /\ UNCHANGED <<job, pc, call, img, error, phases, told>>

Returned == pc = "idle" /\ (\A c \in Calls : told[c].how # "none") /\ UNCHANGED vars

Next ==
  \/ \E c \in Calls : Start(c)
  \/ Stopped \/ Entered \/ ProbeNative \/ Probed
  \/ Enter \/ Skip \/ BreakStopped \/ Open \/ DecodeNative \/ Bake \/ Leave \/ Complete
  \/ Raise \/ Returned

Spec == Init /\ [][Next]_vars

-----------------------------------------------------------------------------
Errors == {"Stopped", "Malformed", "LimitExceeded", "OutOfMemory", "Failed"}
Images == [dims : Nat \X Nat, tag : Orientations, turned : Orientations]

TypeOK ==
  /\ job \in Jobs
  /\ pc \in {"idle", "entry", "probing", "probed", "turn", "opened", "working", "worked", "unwind"}
  /\ call \in Calls \cup {"none"} /\ (pc = "idle" <=> call = "none")
  /\ img \in Images
  /\ error \in Errors \cup {"none"}
  /\ child \in [1 .. 2 -> {"Planned", "Running", "Succeeded", "Skipped", "Failed", "Cancelled", "NotRun"}]
  /\ verdict \in {"none", "ok", "stopped", "failed"}
  /\ stop \in {"quiet", "pending", "spent"} /\ owed \in BOOLEAN
  /\ \A c \in Calls : /\ told[c].how \in Errors \cup {"none", "ok"}
                      /\ [dims |-> told[c].dims, tag |-> told[c].tag, turned |-> told[c].turned] \in Images

Ok(c) == told[c].how = "ok"

\* What a job announces of a file is what it decodes, whichever is called
\* first and under every hint: a probe has the decode's size and the
\* orientation left to apply, output_info its size and the orientation the
\* pixels have been turned by.  Without the crop the sizes differ (see
\* AnnouncesWhatItDecodes).
AnnouncementsHold ==
  Ok("decode") =>
    /\ Ok("probe") => /\ told["probe"].tag = told["decode"].tag
                      /\ job.crop => told["probe"].dims = told["decode"].dims
    /\ Ok("output_info") => /\ told["output_info"].turned = told["decode"].turned
                            /\ job.crop => told["output_info"].dims = told["decode"].dims

\* What a viewer sees, who applies the orientation that is left: for Preserve
\* and Correct the upright picture, corrected once and never twice; for an
\* exact transform the stored picture so transformed; for a correction with a
\* transform the upright picture, transformed.
ShownAsAsked ==
  Ok("decode") =>
    LET seen(p) == Fetched(told["decode"].turned)[Fetched(told["decode"].tag)[p]]
        upright == Fetched(job.tag)
    IN \A p \in Corners : seen(p) =
         CASE job.hint.kind \in {"Preserve", "Correct"} -> upright[p]
           [] job.hint.kind = "ExactTransform" -> Fetched(job.hint.by)[p]
           [] OTHER -> upright[Fetched(job.hint.by)[p]]

\* No picture beyond the job's limits is made, or turned: the decoder begins on
\* an input within its limit only, and neither the crop nor the orientation
\* nor the mode takes the picture over the pixel limit or its floats over the
\* configured bytes.  The limits on width, height and output memory are held
\* against the cropped size as stored: they bind the picture where the crop
\* is applied, before a quarter turn exchanges its sides.
NothingBeyondLimits ==
  LET l == job.limits
      stored == OrientedDims(img.turned, img.dims)
      pixels == img.dims[1] * img.dims[2]
      linear == job.prefersLinear \/ job.mode # "Develop"
  IN /\ child[1] # "Planned" => ~Over(l.input, job.length)
     /\ img # NoImage =>
          /\ ~Over(l.pixels, pixels) /\ pixels * 12 <= job.maxBytes
          /\ job.crop => /\ ~Over(l.width, stored[1]) /\ ~Over(l.height, stored[2])
                         /\ ~Over(l.memory, pixels * IF linear THEN 12 ELSE 6)

\* No call succeeds once a stop was requested before its last poll.
StopIsHeard == [][\A c \in Calls : told[c].how = "none" /\ told'[c].how = "ok" => ~owed]_vars

\* The decoder's two phases are a StagePlan to whoever observes them.
Plan == INSTANCE StagePlan WITH PlanLength <- 2
ImplementsPlan == Plan!PlanSpec

\* zencodec_impl.rs: probe reports "consistently with what `decode()` produces".
AnnouncesWhatItDecodes ==
  Ok("probe") /\ Ok("decode") => told["probe"].dims = told["decode"].dims
=============================================================================
