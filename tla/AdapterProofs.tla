----------------------------- MODULE AdapterProofs -----------------------------
(***************************************************************************)
(* Theorems about Adapter, for files, hints and limits of every kind: what *)
(* a job says of a file and what it decodes agree, nothing beyond its      *)
(* limits is decoded, and its observer sees a StagePlan.  The inductive    *)
(* invariant is AdapterInv: the types, where the decoder is in its two     *)
(* phases, what was answered, what was checked, and the stop still owed.   *)
(***************************************************************************)
EXTENDS Adapter, TLAPS

-----------------------------------------------------------------------------
(* Orientations are a group acting on the corners.                         *)

LEMMA FetchedIsACorner ==
  ASSUME NEW o \in Orientations, NEW p \in Corners
  PROVE  Fetched(o)[p] \in Corners
<1>1. PICK a \in {0, 1}, b \in {0, 1} : p = <<a, b>>
  BY DEF Corners
<1>2. 1 - a \in {0, 1} /\ 1 - b \in {0, 1} /\ p[1] = a /\ p[2] = b
  BY <1>1
<1> QED
  BY <1>1, <1>2 DEF Fetched, Corners, Orientations

\* What the eight do to a corner.
LEMMA FetchedAt ==
  ASSUME NEW a \in {0, 1}, NEW b \in {0, 1}
  PROVE  /\ Fetched(1)[<<a, b>>] = <<a, b>>
         /\ Fetched(2)[<<a, b>>] = <<a, 1 - b>>
         /\ Fetched(3)[<<a, b>>] = <<1 - a, 1 - b>>
         /\ Fetched(4)[<<a, b>>] = <<1 - a, b>>
         /\ Fetched(5)[<<a, b>>] = <<b, a>>
         /\ Fetched(6)[<<a, b>>] = <<1 - b, a>>
         /\ Fetched(7)[<<a, b>>] = <<1 - b, 1 - a>>
         /\ Fetched(8)[<<a, b>>] = <<b, 1 - a>>
<1>1. <<a, b>> \in Corners /\ <<a, b>>[1] = a /\ <<a, b>>[2] = b
  BY DEF Corners
<1> QED
  BY <1>1 DEF Fetched

\* An orientation exchanges the axes or not (s), then mirrors either (u, v).
Other(u, x) == IF u = 0 THEN x ELSE 1 - x
Moved(s, u, v, x, y) == IF s = 0 THEN <<Other(u, x), Other(v, y)>> ELSE <<Other(u, y), Other(v, x)>>

LEMMA MovedAt ==
  ASSUME NEW x \in {0, 1}, NEW y \in {0, 1}
  PROVE  /\ Moved(0, 0, 0, x, y) = <<x, y>>
         /\ Moved(0, 0, 1, x, y) = <<x, 1 - y>>
         /\ Moved(0, 1, 1, x, y) = <<1 - x, 1 - y>>
         /\ Moved(0, 1, 0, x, y) = <<1 - x, y>>
         /\ Moved(1, 0, 0, x, y) = <<y, x>>
         /\ Moved(1, 1, 0, x, y) = <<1 - y, x>>
         /\ Moved(1, 1, 1, x, y) = <<1 - y, 1 - x>>
         /\ Moved(1, 0, 1, x, y) = <<y, 1 - x>>
  BY DEF Moved, Other

LEMMA OrientationMoves ==
  ASSUME NEW o \in Orientations
  PROVE  \E s, u, v \in {0, 1} : \A x, y \in {0, 1} : Fetched(o)[<<x, y>>] = Moved(s, u, v, x, y)
<1>1. CASE o = 1
  <2>1. ASSUME NEW x \in {0, 1}, NEW y \in {0, 1} PROVE Fetched(o)[<<x, y>>] = Moved(0, 0, 0, x, y)
    BY <1>1, FetchedAt, MovedAt, Zenon
  <2> QED  BY <2>1
<1>2. CASE o = 2
  <2>1. ASSUME NEW x \in {0, 1}, NEW y \in {0, 1} PROVE Fetched(o)[<<x, y>>] = Moved(0, 0, 1, x, y)
    BY <1>2, FetchedAt, MovedAt, Zenon
  <2> QED  BY <2>1
<1>3. CASE o = 3
  <2>1. ASSUME NEW x \in {0, 1}, NEW y \in {0, 1} PROVE Fetched(o)[<<x, y>>] = Moved(0, 1, 1, x, y)
    BY <1>3, FetchedAt, MovedAt, Zenon
  <2> QED  BY <2>1
<1>4. CASE o = 4
  <2>1. ASSUME NEW x \in {0, 1}, NEW y \in {0, 1} PROVE Fetched(o)[<<x, y>>] = Moved(0, 1, 0, x, y)
    BY <1>4, FetchedAt, MovedAt, Zenon
  <2> QED  BY <2>1
<1>5. CASE o = 5
  <2>1. ASSUME NEW x \in {0, 1}, NEW y \in {0, 1} PROVE Fetched(o)[<<x, y>>] = Moved(1, 0, 0, x, y)
    BY <1>5, FetchedAt, MovedAt, Zenon
  <2> QED  BY <2>1
<1>6. CASE o = 6
  <2>1. ASSUME NEW x \in {0, 1}, NEW y \in {0, 1} PROVE Fetched(o)[<<x, y>>] = Moved(1, 1, 0, x, y)
    BY <1>6, FetchedAt, MovedAt, Zenon
  <2> QED  BY <2>1
<1>7. CASE o = 7
  <2>1. ASSUME NEW x \in {0, 1}, NEW y \in {0, 1} PROVE Fetched(o)[<<x, y>>] = Moved(1, 1, 1, x, y)
    BY <1>7, FetchedAt, MovedAt, Zenon
  <2> QED  BY <2>1
<1>8. CASE o = 8
  <2>1. ASSUME NEW x \in {0, 1}, NEW y \in {0, 1} PROVE Fetched(o)[<<x, y>>] = Moved(1, 0, 1, x, y)
    BY <1>8, FetchedAt, MovedAt, Zenon
  <2> QED  BY <2>1
<1> QED
  BY <1>1, <1>2, <1>3, <1>4, <1>5, <1>6, <1>7, <1>8 DEF Orientations

LEMMA MovesAreOrientations ==
  ASSUME NEW s \in {0, 1}, NEW u \in {0, 1}, NEW v \in {0, 1}
  PROVE  \E o \in Orientations : \A x, y \in {0, 1} : Fetched(o)[<<x, y>>] = Moved(s, u, v, x, y)
<1> DEFINE o == IF s = 0 THEN IF u = 0 THEN IF v = 0 THEN 1 ELSE 2
                              ELSE IF v = 0 THEN 4 ELSE 3
                ELSE IF u = 0 THEN IF v = 0 THEN 5 ELSE 8
                     ELSE IF v = 0 THEN 6 ELSE 7
<1>1. o \in Orientations
  BY DEF Orientations
<1>2. ASSUME NEW x \in {0, 1}, NEW y \in {0, 1} PROVE Fetched(o)[<<x, y>>] = Moved(s, u, v, x, y)
  BY FetchedAt DEF Moved, Other
<1> HIDE DEF o
<1> QED
  BY <1>1, <1>2

\* One move after another is a third.
Composing(s, u, v, t, m, n, i, j, k) == \A x, y \in {0, 1} :
  /\ Moved(t, m, n, x, y)[1] \in {0, 1} /\ Moved(t, m, n, x, y)[2] \in {0, 1}
  /\ Moved(s, u, v, Moved(t, m, n, x, y)[1], Moved(t, m, n, x, y)[2]) = Moved(i, j, k, x, y)

LEMMA MovesCompose ==
  ASSUME NEW s \in {0, 1}, NEW u \in {0, 1}, NEW v \in {0, 1},
         NEW t \in {0, 1}, NEW m \in {0, 1}, NEW n \in {0, 1}
  PROVE  \E i, j, k \in {0, 1} : Composing(s, u, v, t, m, n, i, j, k)
<1> DEFINE i == Other(s, t)
           j == Other(u, IF s = 0 THEN m ELSE n)
           k == Other(v, IF s = 0 THEN n ELSE m)
<1>1. i \in {0, 1} /\ j \in {0, 1} /\ k \in {0, 1}
  BY DEF Other
<1>2. ASSUME NEW x \in {0, 1}, NEW y \in {0, 1}
      PROVE  /\ Moved(t, m, n, x, y)[1] \in {0, 1} /\ Moved(t, m, n, x, y)[2] \in {0, 1}
             /\ Moved(s, u, v, Moved(t, m, n, x, y)[1], Moved(t, m, n, x, y)[2]) = Moved(i, j, k, x, y)
  <2>1. CASE s = 0 /\ t = 0
    BY <2>1 DEF Moved, Other
  <2>2. CASE s = 1 /\ t = 0
    BY <2>2 DEF Moved, Other
  <2>3. CASE s = 0 /\ t = 1
    BY <2>3 DEF Moved, Other
  <2>4. CASE s = 1 /\ t = 1
    BY <2>4 DEF Moved, Other
  <2> QED  BY <2>1, <2>2, <2>3, <2>4
<1>3. Composing(s, u, v, t, m, n, i, j, k)
  BY <1>2 DEF Composing
<1> HIDE DEF i, j, k
<1> QED
  BY <1>1, <1>3

\* The eight are closed under doing one after another.
LEMMA Composes ==
  ASSUME NEW a \in Orientations, NEW b \in Orientations
  PROVE  \E o \in Orientations : \A p \in Corners : Fetched(o)[p] = Fetched(a)[Fetched(b)[p]]
<1>1. PICK s \in {0, 1}, u \in {0, 1}, v \in {0, 1} :
        \A x, y \in {0, 1} : Fetched(a)[<<x, y>>] = Moved(s, u, v, x, y)
  BY OrientationMoves
<1>2. PICK t \in {0, 1}, m \in {0, 1}, n \in {0, 1} :
        \A x, y \in {0, 1} : Fetched(b)[<<x, y>>] = Moved(t, m, n, x, y)
  BY OrientationMoves
<1>3. PICK i, j, k \in {0, 1} : Composing(s, u, v, t, m, n, i, j, k)
  BY MovesCompose
<1>4. PICK o \in Orientations : \A x, y \in {0, 1} : Fetched(o)[<<x, y>>] = Moved(i, j, k, x, y)
  BY MovesAreOrientations
<1>5. ASSUME NEW x \in {0, 1}, NEW y \in {0, 1}
      PROVE  Fetched(o)[<<x, y>>] = Fetched(a)[Fetched(b)[<<x, y>>]]
  <2> DEFINE q == Moved(t, m, n, x, y)
  <2>1. q = <<q[1], q[2]>>
    BY DEF Moved
  <2>2. q[1] \in {0, 1} /\ q[2] \in {0, 1} /\ Moved(s, u, v, q[1], q[2]) = Moved(i, j, k, x, y)
    BY <1>3 DEF Composing
  <2>3. Fetched(b)[<<x, y>>] = q
    BY <1>2
  <2> HIDE DEF q
  <2>4. Fetched(a)[<<q[1], q[2]>>] = Moved(s, u, v, q[1], q[2])
    BY <1>1, <2>2
  <2> QED
    BY <1>4, <2>1, <2>2, <2>3, <2>4
<1> QED
  BY <1>5 DEF Corners

\* An orientation is what it does.
LEMMA FetchedDiffers ==
  ASSUME NEW a \in Orientations, NEW b \in Orientations, \A p \in Corners : Fetched(a)[p] = Fetched(b)[p]
  PROVE  a = b
<1>1. Fetched(a)[<<0, 0>>] = Fetched(b)[<<0, 0>>] /\ Fetched(a)[<<0, 1>>] = Fetched(b)[<<0, 1>>]
  BY DEF Corners
<1>3. 0 \in {0, 1} /\ 1 \in {0, 1} /\ 1 - 0 = 1
  OBVIOUS
<1>4. \A o \in Orientations : \/ o = 1 /\ Fetched(o)[<<0, 0>>] = <<0, 0>> /\ Fetched(o)[<<0, 1>>] = <<0, 1>>
                              \/ o = 2 /\ Fetched(o)[<<0, 0>>] = <<0, 1>> /\ Fetched(o)[<<0, 1>>] = <<0, 0>>
                              \/ o = 3 /\ Fetched(o)[<<0, 0>>] = <<1, 1>> /\ Fetched(o)[<<0, 1>>] = <<1, 0>>
                              \/ o = 4 /\ Fetched(o)[<<0, 0>>] = <<1, 0>> /\ Fetched(o)[<<0, 1>>] = <<1, 1>>
                              \/ o = 5 /\ Fetched(o)[<<0, 0>>] = <<0, 0>> /\ Fetched(o)[<<0, 1>>] = <<1, 0>>
                              \/ o = 6 /\ Fetched(o)[<<0, 0>>] = <<1, 0>> /\ Fetched(o)[<<0, 1>>] = <<0, 0>>
                              \/ o = 7 /\ Fetched(o)[<<0, 0>>] = <<1, 1>> /\ Fetched(o)[<<0, 1>>] = <<0, 1>>
                              \/ o = 8 /\ Fetched(o)[<<0, 0>>] = <<0, 1>> /\ Fetched(o)[<<0, 1>>] = <<1, 1>>
  <2>1. /\ Fetched(1)[<<0, 0>>] = <<0, 0>> /\ Fetched(2)[<<0, 0>>] = <<0, 1 - 0>>
        /\ Fetched(3)[<<0, 0>>] = <<1 - 0, 1 - 0>> /\ Fetched(4)[<<0, 0>>] = <<1 - 0, 0>>
        /\ Fetched(5)[<<0, 0>>] = <<0, 0>> /\ Fetched(6)[<<0, 0>>] = <<1 - 0, 0>>
        /\ Fetched(7)[<<0, 0>>] = <<1 - 0, 1 - 0>> /\ Fetched(8)[<<0, 0>>] = <<0, 1 - 0>>
    BY <1>3, FetchedAt, Zenon
  <2>2. /\ Fetched(1)[<<0, 1>>] = <<0, 1>> /\ Fetched(2)[<<0, 1>>] = <<0, 1 - 1>>
        /\ Fetched(3)[<<0, 1>>] = <<1 - 0, 1 - 1>> /\ Fetched(4)[<<0, 1>>] = <<1 - 0, 1>>
        /\ Fetched(5)[<<0, 1>>] = <<1, 0>> /\ Fetched(6)[<<0, 1>>] = <<1 - 1, 0>>
        /\ Fetched(7)[<<0, 1>>] = <<1 - 1, 1 - 0>> /\ Fetched(8)[<<0, 1>>] = <<1, 1 - 0>>
    BY <1>3, FetchedAt, Zenon
  <2>3. 1 - 0 = 1 /\ 1 - 1 = 0
    OBVIOUS
  <2>4. \A o \in Orientations : o = 1 \/ o = 2 \/ o = 3 \/ o = 4 \/ o = 5 \/ o = 6 \/ o = 7 \/ o = 8
    BY DEF Orientations
  <2> QED
    BY <2>1, <2>2, <2>3, <2>4
<1>5. <<0, 0>> # <<0, 1>> /\ <<0, 0>> # <<1, 0>> /\ <<0, 0>> # <<1, 1>>
      /\ <<0, 1>> # <<1, 0>> /\ <<0, 1>> # <<1, 1>> /\ <<1, 0>> # <<1, 1>>
  OBVIOUS
<1> QED
  BY <1>1, <1>4, <1>5

LEMMA ThenFetches ==
  ASSUME NEW a \in Orientations, NEW b \in Orientations
  PROVE  /\ Then(a, b) \in Orientations
         /\ \A p \in Corners : Fetched(Then(a, b))[p] = Fetched(a)[Fetched(b)[p]]
<1>1. \E o \in Orientations : \A p \in Corners : Fetched(o)[p] = Fetched(a)[Fetched(b)[p]]
  BY Composes
<1> QED
  BY <1>1 DEF Then

LEMMA NothingMoves ==
  ASSUME NEW p \in Corners
  PROVE  Fetched(1)[p] = p
<1>1. PICK a \in {0, 1}, b \in {0, 1} : p = <<a, b>>
  BY DEF Corners
<1> QED
  BY <1>1, FetchedAt

LEMMA ThenOfNothing ==
  ASSUME NEW o \in Orientations
  PROVE  Then(1, o) = o
<1>1. 1 \in Orientations
  BY DEF Orientations
<1>2. \A p \in Corners : Fetched(Then(1, o))[p] = Fetched(o)[p]
  BY <1>1, NothingMoves, ThenFetches, FetchedIsACorner
<1> QED
  BY <1>1, <1>2, ThenFetches, FetchedDiffers

-----------------------------------------------------------------------------
(* The invariant.                                                          *)

Resolution == Resolved(job.hint, job.tag)

\* What the decoder's phases make of the file.
Turned == Baked(NativeImage, Resolution)
Final  == IF Bakes(job.hint) THEN Turned ELSE NativeImage

Probing == ReportForHint(Header, job.hint)

Fresh  == child = [p \in 1 .. 2 |-> "Planned"] /\ verdict = "none" /\ img = NoImage /\ error = "none"
Broken == IF error = "Stopped" THEN "Cancelled" ELSE "Failed"

\* In which phase the decoder is, and what of the picture is there.
First(made)  == child[1] = "Running" /\ child[2] = "Planned" /\ img = IF made THEN NativeImage ELSE NoImage
Second(made) == /\ child[1] = "Succeeded" /\ child[2] = "Running" /\ Bakes(job.hint)
                /\ img = IF made THEN Turned ELSE NativeImage
Between      == child[1] = "Succeeded" /\ child[2] = "Planned" /\ img = NativeImage

\* How the phases stand when the decode is about to return.
Unwound ==
  IF error = "none"
  THEN /\ child[1] = "Succeeded" /\ img = Final
       /\ child[2] = IF Bakes(job.hint) THEN "Succeeded" ELSE "Skipped"
  ELSE \/ child[1] = Broken /\ child[2] = "Planned"
       \/ child[1] = "Succeeded" /\ child[2] = Broken

Working == {"turn", "opened", "working", "worked"}

Placed ==
  /\ call # "none" => told[call].how = "none"
  /\ pc \in Working \cup {"unwind"} => call = "decode" /\ verdict = "none"
  /\ pc \in Working => error = "none"
  /\ told["decode"].how = "none" /\ pc \notin Working \cup {"unwind"} => Fresh
  /\ pc = "turn" => Fresh \/ Between
  /\ pc \in {"opened", "working"} => First(FALSE) \/ Second(FALSE)
  /\ pc = "worked" => First(TRUE) \/ Second(TRUE)
  /\ pc = "unwind" => Unwound

\* What was answered: the header as the hint has it, or what was decoded.
Answers == [how : Errors \cup {"none", "ok"}, dims : Nat \X Nat, tag : Orientations, turned : Orientations]

Answered ==
  /\ told \in [Calls -> Answers]
  /\ Ok("probe") => told["probe"] = Answer("ok", Probing)
  /\ Ok("output_info") => told["output_info"] = Answer("ok", OutputInfo)
  /\ Ok("decode") => told["decode"] = Answer("ok", Final)

\* The checks that were made: of the input before the call, of the header
\* before the phases, of the sensor before there is a picture, which is the
\* native one or that one turned.
Checked ==
  /\ call = "decode" => ~Over(job.limits.input, job.length)
  /\ pc = "turn" => DecoderAdmits
  /\ child[1] # "Planned" => ~Over(job.limits.input, job.length) /\ DecoderAdmits
  /\ img # NoImage => /\ NativeLimits = "ok" /\ child[1] # "Planned"
                      /\ img = NativeImage \/ img = Turned

\* A request that a call owes an answer is pending until it is reported, and
\* none is owed where no poll follows.
Heard ==
  /\ pc \in {"entry", "probing", "probed"} \cup Working /\ owed => Stopping
  /\ pc = "turn" /\ child[1] = "Succeeded" /\ ~Bakes(job.hint) => ~owed
  /\ pc = "unwind" /\ error = "none" => ~owed

AdapterInv == TypeOK /\ Placed /\ Answered /\ Checked /\ Heard

-----------------------------------------------------------------------------
(* Types.                                                                  *)

LEMMA ResolvedIsAnOrientation ==
  ASSUME NEW hint \in Hints, NEW tag \in Orientations
  PROVE  Resolved(hint, tag) \in Orientations
<1>1. hint.by \in Orientations /\ 1 \in Orientations
  BY DEF Hints, Orientations
<1> QED
  BY <1>1, ThenFetches DEF Resolved

LEMMA BakedIsAnImage ==
  ASSUME NEW i \in Images, NEW o \in Orientations
  PROVE  Baked(i, o) \in Images
<1>1. i.dims \in Nat \X Nat /\ i.turned \in Orientations /\ 1 \in Orientations
  BY DEF Images, Orientations
<1>2. OrientedDims(o, i.dims) \in Nat \X Nat
  BY <1>1 DEF OrientedDims
<1> QED
  BY <1>1, <1>2, ThenFetches DEF Baked, Images

LEMMA JobFacts ==
  ASSUME TypeOK
  PROVE  /\ job \in JobSpace
         /\ job.hint \in Hints /\ job.tag \in Orientations /\ Resolution \in Orientations
         /\ job.window \in Sides /\ job.sensor \in Sides
         /\ job.window \in Nat \X Nat /\ job.sensor \in Nat \X Nat
         /\ job.window[1] <= job.sensor[1] /\ job.window[2] <= job.sensor[2]
         /\ job.maxPixels \in Nat /\ job.maxBytes \in Nat
         /\ job.limits \in [input : Limit, width : Limit, height : Limit, pixels : Limit, memory : Limit]
<1>1. job \in JobSpace
  BY AdapterAssumption DEF TypeOK
<1>2. job \in JobForms /\ job.window[1] <= job.sensor[1] /\ job.window[2] <= job.sensor[2]
  BY <1>1 DEF JobSpace
<1>3. job.hint \in Hints /\ job.tag \in Orientations /\ job.window \in Sides /\ job.sensor \in Sides
      /\ job.maxPixels \in Nat /\ job.maxBytes \in Nat
      /\ job.limits \in [input : Limit, width : Limit, height : Limit, pixels : Limit, memory : Limit]
  BY <1>2 DEF JobForms
<1> QED
  BY <1>1, <1>2, <1>3, ResolvedIsAnOrientation DEF Resolution, Sides

LEMMA PicturesAreImages ==
  ASSUME TypeOK
  PROVE  /\ NoImage \in Images /\ Header \in Images /\ NativeImage \in Images
         /\ Turned \in Images /\ Final \in Images /\ Probing \in Images /\ OutputInfo \in Images
<1>1. NoImage \in Images
  BY DEF NoImage, Images, Orientations
<1>2. Header \in Images /\ Header.tag = job.tag
  BY JobFacts DEF Header, Images, Orientations
<1>3. NativeImage \in Images
  BY JobFacts DEF NativeImage, Images, Orientations
<1>4. Turned \in Images /\ Final \in Images
  BY <1>3, JobFacts, BakedIsAnImage DEF Turned, Final
<1>5. Probing \in Images /\ OutputInfo \in Images
  BY <1>2, JobFacts, BakedIsAnImage DEF Probing, ReportForHint, OutputInfo, Resolution
<1> QED
  BY <1>1, <1>2, <1>3, <1>4, <1>5

LEMMA AnswerIsTyped ==
  ASSUME NEW how \in Errors \cup {"none", "ok"}, NEW i \in Images
  PROVE  Answer(how, i) \in Answers
  BY DEF Answer, Answers, Images

\* What depends on the job alone stays.
LEMMA JobIsFixed ==
  ASSUME job' = job
  PROVE  /\ Header' = Header /\ NativeImage' = NativeImage /\ Resolution' = Resolution
         /\ Turned' = Turned /\ Final' = Final /\ Probing' = Probing /\ OutputInfo' = OutputInfo
         /\ DecoderAdmits' = DecoderAdmits /\ NativeLimits' = NativeLimits
<1>1. Header' = Header /\ NativeImage' = NativeImage /\ Resolution' = Resolution
  BY DEF Header, NativeImage, Resolution
<1>2. Turned' = Turned /\ Final' = Final /\ Probing' = Probing /\ OutputInfo' = OutputInfo
  BY <1>1 DEF Turned, Final, Probing, OutputInfo
<1>3. DecoderAdmits' = DecoderAdmits /\ NativeLimits' = NativeLimits
  BY DEF DecoderAdmits, DecoderMode, NativeLimits, DecodeCap
<1> QED
  BY <1>1, <1>2, <1>3

LEMMA AnswersAreTyped ==
  ASSUME NEW t \in [Calls -> Answers], NEW c \in Calls
  PROVE  /\ t[c].how \in Errors \cup {"none", "ok"}
         /\ [dims |-> t[c].dims, tag |-> t[c].tag, turned |-> t[c].turned] \in Images
<1>1. t[c] \in Answers
  OBVIOUS
<1> QED
  BY <1>1 DEF Answers, Images

-----------------------------------------------------------------------------
(* What is answered.                                                       *)

\* What a call may be answered when it succeeds.
Due(c, i) ==
  /\ c = "probe" => i = Probing
  /\ c = "output_info" => i = OutputInfo
  /\ c = "decode" => i = Final

LEMMA AnswersStay ==
  ASSUME Answered, job' = job, told' = told
  PROVE  Answered'
  BY JobIsFixed DEF Answered, Ok

LEMMA AnswersGrow ==
  ASSUME Answered, job' = job, NEW c \in Calls, NEW how \in Errors \cup {"ok"}, NEW i \in Images,
         told' = [told EXCEPT ![c] = Answer(how, i)], how = "ok" => Due(c, i)
  PROVE  /\ Answered'
         /\ told'[c].how = how /\ \A d \in Calls \ {c} : told'[d] = told[d]
<1>1. Answer(how, i) \in Answers /\ Answer(how, i).how = how
  BY AnswerIsTyped DEF Answer
<1>2. told' \in [Calls -> Answers]
  BY <1>1 DEF Answered
<1>3. told'[c] = Answer(how, i) /\ \A d \in Calls \ {c} : told'[d] = told[d]
  BY DEF Answered
<1>4. ASSUME NEW d \in Calls, NEW k, Ok(d) => told[d] = Answer("ok", k), how = "ok" /\ d = c => k = i
      PROVE  Ok(d)' => told'[d] = Answer("ok", k)
  BY <1>1, <1>3, <1>4 DEF Ok
<1>5. /\ Ok("probe")' => told'["probe"] = Answer("ok", Probing)
      /\ Ok("output_info")' => told'["output_info"] = Answer("ok", OutputInfo)
      /\ Ok("decode")' => told'["decode"] = Answer("ok", Final)
  BY <1>4 DEF Answered, Due, Calls
<1> QED
  BY <1>1, <1>2, <1>3, <1>5, JobIsFixed DEF Answered

-----------------------------------------------------------------------------
(* Where the decoder is.                                                   *)

Outcomes == {"Planned", "Running", "Succeeded", "Skipped", "Failed", "Cancelled", "NotRun"}

LEMMA PhaseIs ==
  ASSUME child \in [1 .. 2 -> Outcomes]
  PROVE  /\ Fresh => Phase = 1 /\ child[1] = "Planned" /\ child[2] = "Planned"
         /\ Between => Phase = 2
         /\ \A made \in BOOLEAN : (First(made) => Phase = 1) /\ (Second(made) => Phase = 2)
  BY DEF Fresh, Between, First, Second, Phase, Outcomes

LEMMA ChildAt ==
  ASSUME NEW ch \in [1 .. 2 -> Outcomes],
         NEW p \in 1 .. 2,
         NEW s \in Outcomes
  PROVE  /\ [ch EXCEPT ![p] = s]
              \in [1 .. 2 -> Outcomes]
         /\ [ch EXCEPT ![p] = s][1] = IF p = 1 THEN s ELSE ch[1]
         /\ [ch EXCEPT ![p] = s][2] = IF p = 2 THEN s ELSE ch[2]
  OBVIOUS

LEMMA InitHolds == Init => AdapterInv
<1> SUFFICES ASSUME Init PROVE AdapterInv
  OBVIOUS
<1>1. NoImage \in Images
  BY DEF NoImage, Images, Orientations
<1>2. Answer("none", NoImage) \in Answers /\ Answer("none", NoImage).how = "none"
  BY <1>1, AnswerIsTyped DEF Answer
<1>3. told \in [Calls -> Answers] /\ \A c \in Calls : told[c].how = "none"
  BY <1>2 DEF Init
<1>4. TypeOK
  BY <1>1, <1>3, AnswersAreTyped DEF Init, TypeOK
<1>5. Placed
  BY <1>3 DEF Init, Placed, Fresh, Working, Calls
<1>6. Answered
  BY <1>3 DEF Answered, Ok, Calls
<1>7. Checked
  BY DEF Init, Checked
<1>8. Heard
  BY DEF Init, Heard, Working
<1> QED
  BY <1>4, <1>5, <1>6, <1>7, <1>8 DEF AdapterInv

-----------------------------------------------------------------------------
(* Every step keeps the invariant.                                         *)

\* The facts of the invariant a step starts from.
LEMMA Standing ==
  ASSUME AdapterInv
  PROVE  /\ child \in [1 .. 2 -> Outcomes] /\ told \in [Calls -> Answers]
         /\ call \in Calls \cup {"none"} /\ (pc = "idle" <=> call = "none")
         /\ call # "none" => told[call].how = "none"
         /\ "decode" \in Calls
  BY DEF AdapterInv, TypeOK, Answered, Placed, Outcomes, Calls

\* What was checked of a picture, and which picture it is.
LEMMA PictureFacts ==
  ASSUME AdapterInv, img # NoImage
  PROVE  /\ NativeLimits = "ok" /\ DecoderAdmits
         /\ img = NativeImage \/ img = Turned
<1>1. Checked
  BY DEF AdapterInv
<1> QED
  BY <1>1, Zenon DEF Checked

LEMMA StartKeeps ==
  ASSUME AdapterInv, NEW c \in Calls, Start(c)
  PROVE  AdapterInv'
<1>1. NoImage \in Images
  BY PicturesAreImages DEF AdapterInv
<1>2. /\ job' = job /\ img' = img /\ error' = error /\ child' = child /\ verdict' = verdict /\ stop' = stop
      /\ pc = "idle" /\ call = "none" /\ told[c].how = "none" /\ owed' = Stopping
  BY Standing DEF Start, phases
<1>3. CASE c = "decode" /\ Over(job.limits.input, job.length)
  <2>1. told' = [told EXCEPT ![c] = Answer("LimitExceeded", NoImage)] /\ pc' = pc /\ call' = call
    BY <1>3 DEF Start
  <2>2. Answered' /\ told'[c].how = "LimitExceeded" /\ \A d \in Calls \ {c} : told'[d] = told[d]
    <3>1. "LimitExceeded" \in Errors \cup {"ok"} /\ "LimitExceeded" # "ok" /\ Answered
      BY DEF AdapterInv, Errors
    <3> QED
      BY <1>1, <1>2, <2>1, <3>1, AnswersGrow
  <2>3. TypeOK'
    BY <1>2, <2>1, <2>2, AnswersAreTyped DEF AdapterInv, TypeOK, Answered, Stopping
  <2>4. Placed'
    BY <1>2, <1>3, <2>1, <2>2 DEF AdapterInv, Placed, Working
  <2>5. Checked'
    BY <1>2, <2>1, JobIsFixed DEF AdapterInv, Checked
  <2>6. Heard'
    BY <1>2, <2>1 DEF Heard, Working
  <2> QED
    BY <2>2, <2>3, <2>4, <2>5, <2>6 DEF AdapterInv
<1>4. CASE ~(c = "decode" /\ Over(job.limits.input, job.length))
  <2>1. pc' = "entry" /\ call' = c /\ told' = told
    BY <1>4 DEF Start
  <2>2. Answered'
    BY <1>2, <2>1, AnswersStay DEF AdapterInv
  <2>3. TypeOK'
    BY <1>2, <2>1 DEF AdapterInv, TypeOK, Stopping, Calls
  <2>4. Placed'
    BY <1>2, <2>1 DEF AdapterInv, Placed, Working, Fresh
  <2>5. Checked'
    BY <1>2, <1>4, <2>1, JobIsFixed DEF AdapterInv, Checked
  <2>6. Heard'
    BY <1>2, <2>1 DEF Heard, Working, Stopping
  <2> QED
    BY <2>2, <2>3, <2>4, <2>5, <2>6 DEF AdapterInv
<1> QED
  BY <1>3, <1>4

\* A call returns without touching the decoder's phases.
LEMMA ReturnKeeps ==
  ASSUME AdapterInv, pc \in {"entry", "probing", "probed"},
         job' = job, img' = img, error' = error, child' = child, verdict' = verdict, owed' = owed,
         stop' \in {"quiet", "pending", "spent"},
         NEW how \in Errors \cup {"ok"}, NEW i \in Images, Return(how, i), how = "ok" => Due(call, i),
         call = "decode" => how # "ok"
  PROVE  AdapterInv'
<1>1. call \in Calls /\ told[call].how = "none"
  BY Standing
<1>2. told' = [told EXCEPT ![call] = Answer(how, i)] /\ pc' = "idle" /\ call' = "none"
  BY DEF Return
<1>3. Answered' /\ told'[call].how = how /\ \A d \in Calls \ {call} : told'[d] = told[d]
  BY <1>1, <1>2, AnswersGrow DEF AdapterInv
<1>4. TypeOK'
  BY <1>2, <1>3, AnswersAreTyped DEF AdapterInv, TypeOK, Answered
<1>5. how # "none"
  BY DEF Errors
<1>6. Placed'
  BY <1>1, <1>2, <1>3, <1>5, Standing DEF AdapterInv, Placed, Working, Fresh
<1>7. Checked'
  BY <1>2, JobIsFixed DEF AdapterInv, Checked
<1>8. Heard'
  BY <1>2 DEF Heard, Working
<1> QED
  BY <1>3, <1>4, <1>6, <1>7, <1>8 DEF AdapterInv

\* The code goes on to another place before the phases.
LEMMA GoOnKeeps ==
  ASSUME AdapterInv, pc \in {"entry", "probing", "probed"}, pc' \in {"probing", "probed", "turn"},
         job' = job, call' = call, img' = img, error' = error, child' = child, verdict' = verdict,
         stop' = stop, owed' = owed, told' = told,
         pc' = "turn" => call = "decode" /\ DecoderAdmits
  PROVE  AdapterInv'
<1>1. call \in Calls /\ told[call].how = "none"
  BY Standing
<1>2. Answered'
  BY AnswersStay DEF AdapterInv
<1>3. TypeOK'
  BY <1>1 DEF AdapterInv, TypeOK, Calls
<1>4. call = "decode" => Fresh
  BY <1>1 DEF AdapterInv, Placed, Working
<1>5. Fresh' = Fresh
  BY DEF Fresh
<1>6. Placed'
  BY <1>1, <1>4, <1>5 DEF AdapterInv, Placed, Working, Fresh
<1>7. Checked'
  BY JobIsFixed DEF AdapterInv, Checked
<1>8. Heard'
  <2>1. pc' = "turn" => child[1] = "Planned"
    BY <1>4 DEF Fresh
  <2> QED
    BY <2>1 DEF AdapterInv, Heard, Working, Stopping
<1> QED
  BY <1>2, <1>3, <1>6, <1>7, <1>8 DEF AdapterInv

\* A step inside the decode: the call goes on and nothing is answered yet.
DecodeStep ==
  /\ AdapterInv /\ pc \in Working
  /\ job' = job /\ call' = call /\ verdict' = verdict /\ told' = told /\ pc' \in Working \cup {"unwind"}

LEMMA DecodeStepKeeps ==
  ASSUME DecodeStep
  PROVE  /\ Answered' /\ call = "decode" /\ told["decode"].how = "none" /\ verdict = "none" /\ error = "none"
         /\ child \in [1 .. 2 -> Outcomes] /\ job' = job /\ told' = told /\ call' = call /\ verdict' = verdict
         /\ pc = "turn" => Fresh \/ Between
         /\ ~Over(job.limits.input, job.length)
         /\ DecoderAdmits
         /\ img' \in Images /\ error' \in Errors \cup {"none"} /\ child' \in [1 .. 2 -> Outcomes]
            /\ stop' \in {"quiet", "pending", "spent"} /\ owed' \in BOOLEAN => TypeOK'
<1>1. call = "decode" /\ verdict = "none" /\ error = "none" /\ told["decode"].how = "none"
  BY DEF DecodeStep, AdapterInv, Placed
<1>2. Answered'
  BY AnswersStay DEF DecodeStep, AdapterInv
<1>3. DecoderAdmits /\ ~Over(job.limits.input, job.length)
  <2>1. pc # "turn" => child[1] # "Planned"
    BY DEF DecodeStep, AdapterInv, Placed, Working, First, Second
  <2> QED
    BY <1>1, <2>1 DEF DecodeStep, AdapterInv, Checked
<1>4. img' \in Images /\ error' \in Errors \cup {"none"} /\ child' \in [1 .. 2 -> Outcomes]
        /\ stop' \in {"quiet", "pending", "spent"} /\ owed' \in BOOLEAN => TypeOK'
  BY <1>1 DEF DecodeStep, AdapterInv, TypeOK, Outcomes, Working
<1>5. pc = "turn" => Fresh \/ Between
  BY DEF DecodeStep, AdapterInv, Placed
<1> QED
  BY <1>1, <1>2, <1>3, <1>4, <1>5, Standing DEF DecodeStep

LEMMA EnterKeeps ==
  ASSUME AdapterInv, Enter
  PROVE  AdapterInv'
<1>1. DecodeStep /\ pc = "turn" /\ pc' = "opened" /\ child' = [child EXCEPT ![Phase] = "Running"]
      /\ img' = img /\ error' = error /\ stop' = stop /\ owed' = owed /\ (Phase = 2 => Bakes(job.hint))
  BY DEF Enter, DecodeStep, Working
<1>2. child \in [1 .. 2 -> Outcomes] /\ (Fresh \/ Between)
  BY <1>1, DecodeStepKeeps
<1>3. (Fresh => Phase = 1 /\ child[1] = "Planned" /\ child[2] = "Planned") /\ (Between => Phase = 2)
  BY <1>2, PhaseIs
<1>4. /\ child' \in [1 .. 2 -> Outcomes]
      /\ child'[1] = IF Phase = 1 THEN "Running" ELSE child[1]
      /\ child'[2] = IF Phase = 2 THEN "Running" ELSE child[2]
  <2>1. Phase \in 1 .. 2 /\ "Running" \in Outcomes
    BY DEF Phase, Outcomes
  <2> QED
    BY <1>1, <1>2, <2>1, ChildAt
<1>5. TypeOK'
  BY <1>1, <1>4, DecodeStepKeeps DEF AdapterInv, TypeOK
<1>6. First(FALSE)' \/ Second(FALSE)'
  <2>1. CASE Fresh
    <3>1. child'[1] = "Running" /\ child'[2] = "Planned"
      BY <1>3, <1>4, <2>1
    <3>2. img' = NoImage
      BY <1>1, <2>1 DEF Fresh
    <3> QED
      BY <3>1, <3>2 DEF First
  <2>2. CASE Between
    BY <1>1, <1>3, <1>4, <2>2, JobIsFixed DEF Second, Between, DecodeStep
  <2> QED
    BY <1>2, <2>1, <2>2
<1>7. Placed'
  BY <1>1, <1>6, DecodeStepKeeps DEF Placed, Working
<1>8. Checked'
  BY <1>1, <1>4, DecodeStepKeeps, JobIsFixed DEF AdapterInv, Checked, DecodeStep
<1>9. Heard'
  BY <1>1 DEF AdapterInv, Heard, Working, Stopping
<1> QED
  BY <1>1, <1>5, <1>7, <1>8, <1>9, DecodeStepKeeps DEF AdapterInv

LEMMA SkipKeeps ==
  ASSUME AdapterInv, Skip
  PROVE  AdapterInv'
<1>1. DecodeStep /\ pc = "turn" /\ pc' = "unwind" /\ child' = [child EXCEPT ![2] = "Skipped"]
      /\ img' = img /\ error' = error /\ stop' = stop /\ owed' = owed /\ Phase = 2 /\ ~Bakes(job.hint)
  BY DEF Skip, DecodeStep, Working
<1>2. child \in [1 .. 2 -> Outcomes] /\ Between
  BY <1>1, DecodeStepKeeps, PhaseIs
<1>3. /\ child' \in [1 .. 2 -> Outcomes]
      /\ child'[1] = child[1]
      /\ child'[2] = "Skipped"
  <2>1. 2 \in 1 .. 2 /\ "Skipped" \in Outcomes
    BY DEF Outcomes
  <2> QED
    BY <1>1, <1>2, <2>1, ChildAt
<1>4. TypeOK'
  BY <1>1, <1>3, DecodeStepKeeps DEF AdapterInv, TypeOK
<1>5. Unwound'
  BY <1>1, <1>2, <1>3, DecodeStepKeeps, JobIsFixed DEF Unwound, Between, Final
<1>6. Placed'
  BY <1>1, <1>5, DecodeStepKeeps DEF Placed, Working
<1>7. Checked'
  BY <1>1, <1>3, DecodeStepKeeps, JobIsFixed DEF AdapterInv, Checked, DecodeStep
<1>8. Heard'
  BY <1>1, <1>2 DEF AdapterInv, Heard, Working, Stopping, Between
<1> QED
  BY <1>1, <1>4, <1>6, <1>7, <1>8, DecodeStepKeeps DEF AdapterInv

LEMMA OpenKeeps ==
  ASSUME AdapterInv, Open
  PROVE  AdapterInv'
<1>1. DecodeStep /\ pc = "opened" /\ pc' = "working" /\ child' = child
      /\ img' = img /\ error' = error /\ stop' = stop /\ owed' = owed
  BY DEF Open, DecodeStep, Working, phases
<1>2. First(FALSE)' \/ Second(FALSE)'
  <2>1. First(FALSE) \/ Second(FALSE)
    BY <1>1 DEF AdapterInv, Placed
  <2> QED
    BY <1>1, <2>1, JobIsFixed DEF First, Second, DecodeStep
<1>3. TypeOK'
  BY <1>1, DecodeStepKeeps DEF AdapterInv, TypeOK
<1>4. Placed'
  BY <1>1, <1>2, DecodeStepKeeps DEF Placed, Working
<1>5. Checked'
  BY <1>1, DecodeStepKeeps, JobIsFixed DEF AdapterInv, Checked, DecodeStep
<1>6. Heard'
  BY <1>1 DEF AdapterInv, Heard, Working, Stopping
<1> QED
  BY <1>1, <1>3, <1>4, <1>5, <1>6, DecodeStepKeeps DEF AdapterInv

\* The running phase ends with an error.
LEMMA BreakKeeps ==
  ASSUME AdapterInv, pc \in {"opened", "working", "worked"}, NEW e \in Errors, Break(e),
         stop' \in {"quiet", "pending", "spent"}, job' = job
  PROVE  AdapterInv'
<1>1. DecodeStep /\ pc # "turn" /\ pc' = "unwind" /\ error' = e /\ img' = img /\ owed' = owed
      /\ child' = [child EXCEPT ![Phase] = IF e = "Stopped" THEN "Cancelled" ELSE "Failed"]
  BY DEF Break, DecodeStep, Working
<1>2. child \in [1 .. 2 -> Outcomes]
  BY Standing
<1>3. PICK made \in BOOLEAN : First(made) \/ Second(made)
  BY DEF AdapterInv, Placed
<1>4. /\ child' \in [1 .. 2 -> Outcomes]
      /\ child'[1] = IF Phase = 1 THEN Broken' ELSE child[1]
      /\ child'[2] = IF Phase = 2 THEN Broken' ELSE child[2]
  <2>1. Phase \in 1 .. 2 /\ Broken' \in Outcomes /\ Broken' = IF e = "Stopped" THEN "Cancelled" ELSE "Failed"
    BY <1>1 DEF Phase, Outcomes, Broken
  <2> QED
    BY <1>1, <1>2, <2>1, ChildAt
<1>5. e # "none"
  BY DEF Errors
<1>6. (child'[1] = Broken' /\ child'[2] = "Planned") \/ (child'[1] = "Succeeded" /\ child'[2] = Broken')
  <2>1. CASE First(made)
    BY <1>2, <1>4, <2>1, PhaseIs DEF First
  <2>2. CASE Second(made)
    BY <1>2, <1>4, <2>2, PhaseIs DEF Second
  <2> QED
    BY <1>3, <2>1, <2>2
<1>7. TypeOK'
  BY <1>1, <1>4, DecodeStepKeeps DEF AdapterInv, TypeOK
<1>8. Unwound'
  BY <1>1, <1>5, <1>6 DEF Unwound
<1>9. Placed'
  BY <1>1, <1>8, DecodeStepKeeps DEF Placed, Working
<1>10. Checked'
  <2>1. child'[1] # "Planned"
    BY <1>6 DEF Broken
  <2> QED
    BY <1>1, <2>1, DecodeStepKeeps, JobIsFixed DEF AdapterInv, Checked, DecodeStep
<1>11. Heard'
  BY <1>1, <1>5 DEF Heard, Working
<1> QED
  BY <1>1, <1>7, <1>9, <1>10, <1>11, DecodeStepKeeps DEF AdapterInv

LEMMA BreakStoppedKeeps ==
  ASSUME AdapterInv, BreakStopped
  PROVE  AdapterInv'
<1>1. "Stopped" \in Errors /\ stop' \in {"quiet", "pending", "spent"}
  BY DEF AdapterInv, TypeOK, BreakStopped, Reported, Errors
<1> QED
  BY <1>1, BreakKeeps DEF BreakStopped, Break

\* The running phase has done its work.
LEMMA MadeKeeps ==
  ASSUME DecodeStep, pc = "working", pc' = "worked",
         child' = child, error' = error, stop' = stop, owed' = owed,
         img' = IF Phase = 1 THEN NativeImage ELSE Turned, NativeLimits = "ok"
  PROVE  AdapterInv'
<1>1. child \in [1 .. 2 -> Outcomes] /\ job' = job
  BY DecodeStepKeeps
<1>2. First(FALSE) \/ Second(FALSE)
  BY DEF DecodeStep, AdapterInv, Placed
<1>3. First(TRUE)' \/ Second(TRUE)'
  <2>1. CASE First(FALSE)
    BY <1>1, <2>1, PhaseIs, JobIsFixed DEF First
  <2>2. CASE Second(FALSE)
    BY <1>1, <2>2, PhaseIs, JobIsFixed DEF Second
  <2> QED
    BY <1>2, <2>1, <2>2
<1>4. TypeOK'
  BY DecodeStepKeeps, PicturesAreImages DEF DecodeStep, AdapterInv, TypeOK
<1>5. Placed'
  BY <1>3, DecodeStepKeeps DEF Placed, Working
<1>6. Checked'
  <2>1. child[1] # "Planned"
    BY <1>2 DEF First, Second
  <2> QED
    BY <1>1, <2>1, DecodeStepKeeps, JobIsFixed DEF Checked
<1>7. Heard'
  BY DEF DecodeStep, AdapterInv, Heard, Working, Stopping
<1> QED
  BY <1>4, <1>5, <1>6, <1>7, DecodeStepKeeps DEF AdapterInv

LEMMA DecodeNativeKeeps ==
  ASSUME AdapterInv, DecodeNative
  PROVE  AdapterInv'
<1>1. CASE NativeLimits = "ok" /\ img' = NativeImage /\ pc' = "worked"
           /\ UNCHANGED <<job, call, error, phases, owed, told>>
  <2>1. DecodeStep /\ pc = "working" /\ Phase = 1 /\ child' = child /\ error' = error /\ stop' = stop /\ owed' = owed
    BY <1>1 DEF DecodeNative, DecodeStep, Working, phases
  <2> QED
    BY <1>1, <2>1, MadeKeeps, PicturesAreImages DEF AdapterInv
<1>2. CASE Break(IF NativeLimits = "ok" THEN "Failed" ELSE NativeLimits)
  <2>1. NativeLimits \in {"ok", "OutOfMemory", "LimitExceeded"}
    BY DEF NativeLimits, DecodeLimits
  <2>2. PICK e \in Errors : e = IF NativeLimits = "ok" THEN "Failed" ELSE NativeLimits
    BY <2>1 DEF Errors
  <2>3. stop' \in {"quiet", "pending", "spent"} /\ pc = "working" /\ job' = job
    BY <1>2 DEF AdapterInv, TypeOK, DecodeNative, Break
  <2> QED
    BY <1>2, <2>2, <2>3, BreakKeeps
<1> QED
  BY <1>1, <1>2 DEF DecodeNative

LEMMA BakeKeeps ==
  ASSUME AdapterInv, Bake
  PROVE  AdapterInv'
<1>1. pc = "working" /\ Phase = 2 /\ stop' = stop
  BY DEF Bake
<1>2. Second(FALSE)
  <2>1. First(FALSE) \/ Second(FALSE)
    BY <1>1 DEF AdapterInv, Placed
  <2>2. ~First(FALSE)
    BY <1>1 DEF First, Phase
  <2> QED
    BY <2>1, <2>2
<1>3. img = NativeImage /\ img.tag = job.tag /\ NativeLimits = "ok"
  <2>1. img = NativeImage /\ img.tag = job.tag
    BY <1>2 DEF Second, NativeImage
  <2>2. NativeImage # NoImage
    BY JobFacts DEF AdapterInv, NativeImage, NoImage, Sides
  <2> QED
    BY <2>1, <2>2, PictureFacts
<1>4. CASE img' = Baked(img, Resolved(job.hint, img.tag)) /\ pc' = "worked"
           /\ UNCHANGED <<job, call, error, phases, owed, told>>
  <2>1. DecodeStep /\ child' = child /\ error' = error /\ stop' = stop /\ owed' = owed
    BY <1>1, <1>4 DEF DecodeStep, Working, phases
  <2>2. img' = Turned
    BY <1>3, <1>4 DEF Turned, Resolution
  <2> QED
    BY <1>1, <1>3, <1>4, <2>1, <2>2, MadeKeeps, PicturesAreImages DEF AdapterInv
<1>5. CASE Break("OutOfMemory")
  <2>1. "OutOfMemory" \in Errors /\ stop' \in {"quiet", "pending", "spent"} /\ job' = job
    BY <1>1, <1>5 DEF AdapterInv, TypeOK, Errors, Break
  <2> QED
    BY <1>1, <1>5, <2>1, BreakKeeps
<1> QED
  BY <1>4, <1>5 DEF Bake

LEMMA LeaveKeeps ==
  ASSUME AdapterInv, Leave
  PROVE  AdapterInv'
<1>1. DecodeStep /\ pc = "worked" /\ pc' = (IF Phase = 1 THEN "turn" ELSE "unwind") /\ ~Stopping
      /\ img' = img /\ error' = error /\ stop' = stop /\ owed' = owed
      /\ child' = [child EXCEPT ![Phase] = "Succeeded"]
  BY DEF Leave, DecodeStep, Working
<1>2. child \in [1 .. 2 -> Outcomes]
  BY Standing
<1>3. First(TRUE) \/ Second(TRUE)
  BY <1>1 DEF AdapterInv, Placed
<1>4. /\ child' \in [1 .. 2 -> Outcomes]
      /\ child'[1] = IF Phase = 1 THEN "Succeeded" ELSE child[1]
      /\ child'[2] = IF Phase = 2 THEN "Succeeded" ELSE child[2]
  <2>1. Phase \in 1 .. 2 /\ "Succeeded" \in Outcomes
    BY DEF Phase, Outcomes
  <2> QED
    BY <1>1, <1>2, <2>1, ChildAt
<1>5. First(TRUE) => Phase = 1 /\ pc' = "turn" /\ Between'
  <2> SUFFICES ASSUME First(TRUE) PROVE Phase = 1 /\ pc' = "turn" /\ Between'
    OBVIOUS
  <2>1. Phase = 1 /\ child[2] = "Planned" /\ img = NativeImage
    BY DEF First, Phase
  <2> QED
    BY <1>1, <1>4, <2>1, DecodeStepKeeps, JobIsFixed DEF Between
<1>6. Second(TRUE) => Phase = 2 /\ pc' = "unwind" /\ Unwound'
  <2> SUFFICES ASSUME Second(TRUE) PROVE Phase = 2 /\ pc' = "unwind" /\ Unwound'
    OBVIOUS
  <2>1. Phase = 2 /\ child[1] = "Succeeded" /\ Bakes(job.hint) /\ img = Turned
    BY DEF Second, Phase
  <2> QED
    BY <1>1, <1>4, <2>1, DecodeStepKeeps, JobIsFixed DEF Unwound, Final
<1>7. TypeOK'
  BY <1>1, <1>4, DecodeStepKeeps DEF AdapterInv, TypeOK
<1>8. Placed'
  BY <1>1, <1>3, <1>5, <1>6, DecodeStepKeeps DEF Placed, Working
<1>9. Checked'
  <2>1. child'[1] # "Planned"
    BY <1>3, <1>5, <1>6 DEF Between, Unwound, Broken
  <2> QED
    BY <1>1, <2>1, DecodeStepKeeps, JobIsFixed DEF AdapterInv, Checked, DecodeStep
<1>10. Heard'
  <2>1. ~owed'
    BY <1>1 DEF AdapterInv, Heard, Working
  <2> QED
    BY <2>1 DEF Heard
<1> QED
  BY <1>1, <1>7, <1>8, <1>9, <1>10, DecodeStepKeeps DEF AdapterInv

LEMMA CompleteKeeps ==
  ASSUME AdapterInv, Complete
  PROVE  AdapterInv'
<1>1. /\ pc = "unwind" /\ call = "decode" /\ told["decode"].how = "none" /\ "decode" \in Calls
      /\ job' = job /\ img' = img /\ error' = error /\ stop' = stop /\ owed' = owed /\ Unwound
  BY Standing DEF Complete, AdapterInv, Placed
<1>2. \E how \in Errors \cup {"ok"}, i \in Images :
        Return(how, i) /\ (how = "ok" => error = "none" /\ i = Final)
  <2>1. CASE error = "none"
    <3>1. img = Final /\ Return("ok", img) /\ Final \in Images
      BY <1>1, <2>1, PicturesAreImages DEF Unwound, Complete, AdapterInv
    <3> QED
      BY <2>1, <3>1
  <2>2. CASE error # "none"
    <3>1. error \in Errors /\ error # "ok" /\ Return(error, NoImage) /\ NoImage \in Images
      BY <2>2, PicturesAreImages DEF Complete, AdapterInv, TypeOK, Errors
    <3> QED
      BY <2>2, <3>1
  <2> QED
    BY <2>1, <2>2
<1>3. PICK how \in Errors \cup {"ok"}, i \in Images : Return(how, i) /\ (how = "ok" => error = "none" /\ i = Final)
  BY <1>2
<1>4. told' = [told EXCEPT !["decode"] = Answer(how, i)] /\ pc' = "idle" /\ call' = "none" /\ how # "none"
  BY <1>1, <1>3 DEF Return, Errors
<1>5. Answered' /\ told'["decode"].how = how /\ \A d \in Calls \ {"decode"} : told'[d] = told[d]
  <2>1. how = "ok" => Due("decode", i)
    BY <1>3 DEF Due
  <2> QED
    BY <1>1, <1>4, <2>1, AnswersGrow DEF AdapterInv
<1>6. child' \in [1 .. 2 -> Outcomes] /\ verdict' \in {"none", "ok", "stopped", "failed"}
      /\ child'[1] # "Planned"
  <2>1. child \in [1 .. 2 -> Outcomes]
    BY Standing
  <2>2. CASE error = "none"
    BY <1>1, <2>1, <2>2 DEF Complete, Unwound
  <2>3. CASE error # "none"
    <3>1. child' = [p \in 1 .. 2 |-> IF child[p] = "Planned" THEN "NotRun" ELSE child[p]]
          /\ verdict' = IF error = "Stopped" THEN "stopped" ELSE "failed"
      BY <2>3 DEF Complete
    <3> QED
      BY <2>1, <3>1 DEF Outcomes
  <2> QED
    BY <2>2, <2>3
<1>7. TypeOK'
  BY <1>1, <1>4, <1>5, <1>6, AnswersAreTyped DEF AdapterInv, TypeOK, Answered, Outcomes
<1>8. Placed'
  BY <1>4, <1>5 DEF Placed, Working
<1>9. Checked'
  <2>1. child[1] # "Planned" => ~Over(job.limits.input, job.length) /\ DecoderAdmits
    BY DEF AdapterInv, Checked
  <2>2. child[1] # "Planned"
    BY <1>1 DEF Unwound, Broken
  <2> QED
    BY <1>1, <1>4, <1>6, <2>1, <2>2, JobIsFixed DEF AdapterInv, Checked
<1>10. Heard'
  BY <1>4 DEF Heard, Working
<1> QED
  BY <1>5, <1>7, <1>8, <1>9, <1>10 DEF AdapterInv

LEMMA RaiseKeeps ==
  ASSUME AdapterInv, Raise
  PROVE  AdapterInv'
<1>1. /\ job' = job /\ pc' = pc /\ call' = call /\ img' = img /\ error' = error
      /\ child' = child /\ verdict' = verdict /\ told' = told /\ stop' = "pending"
  BY DEF Raise, phases
<1>2. owed' \in BOOLEAN
  BY DEF Raise, AdapterInv, TypeOK
<1>3. TypeOK'
  BY <1>1, <1>2 DEF AdapterInv, TypeOK
<1>4. Placed'
  BY <1>1, JobIsFixed DEF AdapterInv, Placed, Fresh, Between, First, Second, Unwound, Broken
<1>5. Answered'
  BY <1>1, AnswersStay DEF AdapterInv
<1>6. Checked'
  BY <1>1, JobIsFixed DEF AdapterInv, Checked
<1>7. Heard'
  <2>1. Stopping'
    BY <1>1 DEF Stopping
  <2>2. pc = "turn" /\ child[1] = "Succeeded" /\ ~Bakes(job.hint) => ~owed'
    <3> SUFFICES ASSUME pc = "turn", child[1] = "Succeeded", ~Bakes(job.hint) PROVE ~owed'
      OBVIOUS
    <3>1. ~owed
      BY DEF AdapterInv, Heard
    <3>2. Phase # 1 /\ pc \notin {"entry", "probing", "probed", "opened", "working", "worked"}
      BY DEF Phase
    <3>3. owed' = (owed \/ pc \in {"entry", "probing", "probed", "opened", "working", "worked"}
                        \/ (pc = "turn" /\ (Phase = 1 \/ Bakes(job.hint))))
      BY DEF Raise
    <3> QED
      BY <3>1, <3>2, <3>3, Zenon
  <2>3. pc = "unwind" /\ error = "none" => ~owed'
    BY DEF AdapterInv, Heard, Raise
  <2> QED
    BY <1>1, <2>1, <2>2, <2>3 DEF Heard
<1> QED
  BY <1>3, <1>4, <1>5, <1>6, <1>7 DEF AdapterInv

LEMMA StutterKeeps ==
  ASSUME AdapterInv, UNCHANGED vars
  PROVE  AdapterInv'
<1>1. /\ job' = job /\ pc' = pc /\ call' = call /\ img' = img /\ error' = error
      /\ child' = child /\ verdict' = verdict /\ told' = told /\ stop' = stop /\ owed' = owed
  BY DEF vars, phases
<1>2. Placed'
  BY <1>1, JobIsFixed DEF AdapterInv, Placed, Fresh, Between, First, Second, Unwound, Broken
<1>3. Answered' /\ Checked'
  BY <1>1, AnswersStay, JobIsFixed DEF AdapterInv, Checked
<1> QED
  BY <1>1, <1>2, <1>3 DEF AdapterInv, TypeOK, Heard, Stopping

LEMMA ProbingKeeps ==
  ASSUME AdapterInv, Stopped \/ Entered \/ ProbeNative \/ Probed
  PROVE  AdapterInv'
<1>1. NoImage \in Images /\ Header \in Images /\ Probing \in Images /\ OutputInfo \in Images
  BY PicturesAreImages DEF AdapterInv
<1>2. stop' \in {"quiet", "pending", "spent"}
  BY DEF AdapterInv, TypeOK, Stopped, Reported, Entered, ProbeNative, Probed
<1>3. {"Stopped", "Malformed", "LimitExceeded", "OutOfMemory"} \subseteq Errors
  BY DEF Errors
<1>4. CASE Stopped
  <2>1. Return("Stopped", NoImage) /\ pc \in {"entry", "probing", "probed"}
        /\ job' = job /\ img' = img /\ error' = error /\ child' = child /\ verdict' = verdict /\ owed' = owed
    BY <1>4 DEF Stopped, phases
  <2>2. "Stopped" \in Errors \cup {"ok"} /\ "Stopped" # "ok"
    BY <1>3
  <2> QED
    BY <1>1, <1>2, <2>1, <2>2, ReturnKeeps
<1>5. CASE Entered
  <2>1. pc \in {"entry", "probing", "probed"} /\ pc' = "probing" /\ job' = job /\ call' = call /\ img' = img
        /\ error' = error /\ child' = child /\ verdict' = verdict /\ stop' = stop /\ owed' = owed /\ told' = told
    BY <1>5 DEF Entered, phases
  <2> QED
    BY <2>1, GoOnKeeps
<1>6. CASE ProbeNative
  <2>1. pc \in {"entry", "probing", "probed"} /\ job' = job /\ img' = img
        /\ error' = error /\ child' = child /\ verdict' = verdict /\ stop' = stop /\ owed' = owed
    BY <1>6 DEF ProbeNative, phases
  <2>2. CASE \E how \in {"Malformed", "OutOfMemory", "LimitExceeded"} : Return(how, NoImage)
    <3>1. PICK how \in {"Malformed", "OutOfMemory", "LimitExceeded"} : Return(how, NoImage)
      BY <2>2
    <3>2. how \in Errors \cup {"ok"} /\ how # "ok"
      BY <1>3
    <3> QED
      BY <1>1, <1>2, <2>1, <3>1, <3>2, ReturnKeeps
  <2>3. CASE pc' = "probed" /\ UNCHANGED <<call, told>>
    BY <2>1, <2>3, GoOnKeeps
  <2>4. HeaderLimits \in {"ok", "OutOfMemory", "LimitExceeded"}
    BY DEF HeaderLimits, ProbeLimits
  <2> QED
    BY <1>6, <2>2, <2>3, <2>4 DEF ProbeNative
<1>7. CASE Probed
  <2>1. pc \in {"entry", "probing", "probed"} /\ job' = job /\ img' = img
        /\ error' = error /\ child' = child /\ verdict' = verdict /\ stop' = stop /\ owed' = owed
        /\ call \in Calls
    BY <1>7, Standing DEF Probed, phases
  <2>2. CASE call = "probe"
    <3>1. Due(call, Probing) /\ "ok" \in Errors \cup {"ok"} /\ call # "decode"
      BY <2>2 DEF Due
    <3>2. Return("ok", Probing)
      BY <1>7, <2>2 DEF Probed, Probing
    <3> QED
      BY <1>1, <1>2, <2>1, <3>1, <3>2, ReturnKeeps
  <2>3. CASE call = "output_info"
    <3>1. Due(call, OutputInfo) /\ "ok" \in Errors \cup {"ok"} /\ call # "decode"
      BY <2>3 DEF Due
    <3>2. Return("ok", OutputInfo)
      BY <1>7, <2>3 DEF Probed
    <3> QED
      BY <1>1, <1>2, <2>1, <3>1, <3>2, ReturnKeeps
  <2>4. CASE call = "decode" /\ ~DecoderAdmits
    <3>1. Return("LimitExceeded", NoImage)
      BY <1>7, <2>4 DEF Probed
    <3>2. "LimitExceeded" \in Errors \cup {"ok"} /\ "LimitExceeded" # "ok"
      BY <1>3
    <3> QED
      BY <1>1, <1>2, <2>1, <3>1, <3>2, ReturnKeeps
  <2>5. CASE call = "decode" /\ DecoderAdmits
    <3>1. pc' = "turn" /\ UNCHANGED <<call, told>>
      BY <1>7, <2>5 DEF Probed
    <3> QED
      BY <2>1, <2>5, <3>1, GoOnKeeps
  <2> QED
    BY <2>1, <2>2, <2>3, <2>4, <2>5 DEF Calls
<1> QED
  BY <1>4, <1>5, <1>6, <1>7

LEMMA NextKeeps == AdapterInv /\ [Next]_vars => AdapterInv'
<1> SUFFICES ASSUME AdapterInv, [Next]_vars PROVE AdapterInv'
  OBVIOUS
<1>1. ASSUME NEW c \in Calls, Start(c) PROVE AdapterInv'
  BY <1>1, StartKeeps
<1>2. CASE Stopped \/ Entered \/ ProbeNative \/ Probed
  BY <1>2, ProbingKeeps
<1>3. CASE Enter
  BY <1>3, EnterKeeps
<1>4. CASE Skip
  BY <1>4, SkipKeeps
<1>5. CASE BreakStopped
  BY <1>5, BreakStoppedKeeps
<1>6. CASE Open
  BY <1>6, OpenKeeps
<1>7. CASE DecodeNative
  BY <1>7, DecodeNativeKeeps
<1>8. CASE Bake
  BY <1>8, BakeKeeps
<1>9. CASE Leave
  BY <1>9, LeaveKeeps
<1>10. CASE Complete
  BY <1>10, CompleteKeeps
<1>11. CASE Raise
  BY <1>11, RaiseKeeps
<1>12. CASE UNCHANGED vars
  BY <1>12, StutterKeeps
<1> QED
  BY <1>1, <1>2, <1>3, <1>4, <1>5, <1>6, <1>7, <1>8, <1>9, <1>10, <1>11, <1>12 DEF Next, Returned

LEMMA Invariance == Spec => []AdapterInv
  BY InitHolds, NextKeeps, PTL DEF Spec

-----------------------------------------------------------------------------
(* What follows from it.                                                   *)

\* Every answer, picture and outcome is of its type.
THEOREM TypeCorrect == Spec => []TypeOK
<1>1. AdapterInv => TypeOK
  BY DEF AdapterInv
<1> QED
  BY <1>1, Invariance, PTL

\* A side no longer and another side no longer: no more pixels.
LEMMA ProductsGrow ==
  ASSUME NEW a \in Nat, NEW b \in Nat, NEW c \in Nat, NEW d \in Nat, a <= c, b <= d
  PROVE  a * b \in Nat /\ a * b <= c * d
<1>1. PICK x \in Nat : c = a + x
  <2>1. c - a \in Nat /\ c = a + (c - a)
    OBVIOUS
  <2> QED
    BY <2>1
<1>2. PICK y \in Nat : d = b + y
  <2>1. d - b \in Nat /\ d = b + (d - b)
    OBVIOUS
  <2> QED
    BY <2>1
<1>3. c * d = a * b + a * y + x * b + x * y
  BY <1>1, <1>2
<1>4. a * b \in Nat /\ a * y \in Nat /\ x * b \in Nat /\ x * y \in Nat
  OBVIOUS
<1> QED
  BY <1>3, <1>4

\* Turning moves pixels and makes none: the sides are those stored.
LEMMA PicturesKeepTheirPixels ==
  ASSUME AdapterInv, img # NoImage
  PROVE  LET d == NativeImage.dims IN
           /\ OrientedDims(img.turned, img.dims) = d
           /\ img.dims[1] * img.dims[2] = d[1] * d[2]
<1> DEFINE d == NativeImage.dims
<1>1. d \in Nat \X Nat /\ NativeImage.turned = 1
  BY JobFacts DEF AdapterInv, NativeImage
<1>2. PICK w \in Nat, h \in Nat : d = <<w, h>>
  BY <1>1
<1>3. CASE img = NativeImage
  BY <1>1, <1>3 DEF OrientedDims, SwapsAxes
<1>4. CASE img = Turned
  <2>1. img.turned = Resolution /\ img.dims = OrientedDims(Resolution, d)
    BY <1>1, <1>4, JobFacts, ThenOfNothing DEF AdapterInv, Turned, Baked
  <2>2. w * h = h * w
    BY <1>2
  <2>3. CASE SwapsAxes(Resolution)
    <3>1. img.dims = <<h, w>> /\ OrientedDims(img.turned, img.dims) = <<w, h>>
      BY <1>2, <2>1, <2>3 DEF OrientedDims
    <3> QED
      BY <1>2, <2>2, <3>1
  <2>4. CASE ~SwapsAxes(Resolution)
    BY <2>1, <2>4 DEF OrientedDims
  <2> QED
    BY <2>3, <2>4
<1> QED
  BY <1>3, <1>4, PictureFacts

\* No picture a decode makes or turns has more pixels than the job's limit or
\* more bytes of floats than configured; with the crop applied none has stored
\* sides or an output over the job's limits either; and none is begun on an
\* input that is too long.
THEOREM StaysWithinTheLimits == Spec => []NothingBeyondLimits
<1>1. ASSUME AdapterInv, img # NoImage
      PROVE  LET pixels == img.dims[1] * img.dims[2]
                 stored == OrientedDims(img.turned, img.dims)
             IN /\ ~Over(job.limits.pixels, pixels) /\ pixels * 12 <= job.maxBytes
                /\ job.crop =>
                     /\ ~Over(job.limits.width, stored[1]) /\ ~Over(job.limits.height, stored[2])
                     /\ ~Over(job.limits.memory, pixels * BytesPerPixel(DecoderMode))
  <2> DEFINE d == NativeImage.dims
             n == d[1] * d[2]
             s == job.sensor[1] * job.sensor[2]
  <2>1. NativeLimits = "ok" /\ DecoderAdmits
    BY <1>1, PictureFacts
  <2>2. d = job.window \/ d = job.sensor
    BY DEF NativeImage
  <2>3. n \in Nat /\ s \in Nat /\ n <= s
    <3>1. /\ d[1] \in Nat /\ d[2] \in Nat /\ job.sensor[1] \in Nat /\ job.sensor[2] \in Nat
          /\ d[1] <= job.sensor[1] /\ d[2] <= job.sensor[2]
      BY <1>1, <2>2, JobFacts DEF AdapterInv
    <3> HIDE DEF d
    <3> QED
      BY <3>1, ProductsGrow
  <2>4. ~(s > DecodeCap) /\ ~(s * 12 > job.maxBytes)
    BY <2>1, SMT DEF NativeLimits, DecodeLimits
  <2>5. OrientedDims(img.turned, img.dims) = d /\ img.dims[1] * img.dims[2] = n
    BY <1>1, PicturesKeepTheirPixels
  <2>6. ~Over(job.limits.pixels, n)
    <3>1. CASE job.limits.pixels = None
      BY <3>1 DEF Over
    <3>2. CASE job.limits.pixels # None
      <4>1. DecodeCap = The(job.limits.pixels)
        BY <3>2 DEF DecodeCap
      <4>2. The(job.limits.pixels) \in Nat
        <5>1. job.limits.pixels \subseteq Nat
          BY <1>1, JobFacts DEF AdapterInv, Limit
        <5> QED
          BY <3>2, <5>1 DEF The, None
      <4> HIDE DEF n, s
      <4> QED
        BY <2>3, <2>4, <4>1, <4>2 DEF Over
    <3> QED
      BY <3>1, <3>2
  <2>7. n * 12 <= job.maxBytes
    <3>1. job.maxBytes \in Nat
      BY <1>1, JobFacts DEF AdapterInv
    <3> HIDE DEF n, s
    <3> QED
      BY <2>3, <2>4, <3>1
  <2>8. job.crop => /\ ~Over(job.limits.width, d[1]) /\ ~Over(job.limits.height, d[2])
                    /\ ~Over(job.limits.memory, n * BytesPerPixel(DecoderMode))
    BY <2>1 DEF DecoderAdmits, NativeImage
  <2> HIDE DEF d, n, s
  <2> QED
    BY <2>5, <2>6, <2>7, <2>8
<1>2. ASSUME AdapterInv PROVE NothingBeyondLimits
  <2>1. child[1] # "Planned" => ~Over(job.limits.input, job.length)
    BY <1>2 DEF AdapterInv, Checked
  <2>2. BytesPerPixel(DecoderMode) = IF job.prefersLinear \/ job.mode # "Develop" THEN 12 ELSE 6
    BY DEF BytesPerPixel, DecoderMode
  <2> QED
    BY <1>1, <1>2, <2>1, <2>2 DEF NothingBeyondLimits
<1> QED
  BY <1>2, Invariance, PTL

\* What is announced of a file is what is decoded of it.
THEOREM AnnouncesTruly == Spec => []AnnouncementsHold
<1>1. ASSUME AdapterInv, Ok("decode"), Ok("probe")
      PROVE  told["probe"].tag = told["decode"].tag /\ (job.crop => told["probe"].dims = told["decode"].dims)
  <2>1. told["probe"] = Answer("ok", Probing) /\ told["decode"] = Answer("ok", Final)
    BY <1>1 DEF AdapterInv, Answered
  <2>2. Probing.tag = Final.tag /\ (job.crop => Probing.dims = Final.dims)
    <3>1. CASE Bakes(job.hint)
      BY <3>1 DEF Probing, Final, Turned, ReportForHint, Baked, Resolution, Header, NativeImage
    <3>2. CASE ~Bakes(job.hint)
      BY <3>2 DEF Probing, Final, ReportForHint, Header, NativeImage
    <3> QED
      BY <3>1, <3>2
  <2> QED
    BY <2>1, <2>2 DEF Answer
<1>2. ASSUME AdapterInv, Ok("decode"), Ok("output_info")
      PROVE  told["output_info"].turned = told["decode"].turned
             /\ (job.crop => told["output_info"].dims = told["decode"].dims)
  <2>1. told["output_info"] = Answer("ok", OutputInfo) /\ told["decode"] = Answer("ok", Final)
    BY <1>2 DEF AdapterInv, Answered
  <2>2. OutputInfo.turned = Final.turned /\ (job.crop => OutputInfo.dims = Final.dims)
    <3>1. CASE Bakes(job.hint)
      BY <3>1 DEF OutputInfo, Final, Turned, Baked, Resolution, Header, NativeImage
    <3>2. CASE ~Bakes(job.hint)
      <4>1. Resolved(job.hint, job.tag) = 1 /\ 1 \in Orientations /\ Then(1, 1) = 1
        BY <3>2, ThenOfNothing DEF Resolved, Bakes, Orientations
      <4> QED
        BY <3>2, <4>1 DEF OutputInfo, Final, Baked, Header, NativeImage, OrientedDims, SwapsAxes
    <3> QED
      BY <3>1, <3>2
  <2> QED
    BY <2>1, <2>2 DEF Answer
<1>3. AdapterInv => AnnouncementsHold
  BY <1>1, <1>2 DEF AnnouncementsHold
<1> QED
  BY <1>3, Invariance, PTL

\* A viewer who applies the orientation left to apply sees what was asked for.
THEOREM ShowsWhatWasAsked == Spec => []ShownAsAsked
<1>1. ASSUME AdapterInv, Ok("decode"), NEW p \in Corners
      PROVE  Fetched(told["decode"].turned)[Fetched(told["decode"].tag)[p]] =
               CASE job.hint.kind \in {"Preserve", "Correct"} -> Fetched(job.tag)[p]
                 [] job.hint.kind = "ExactTransform" -> Fetched(job.hint.by)[p]
                 [] OTHER -> Fetched(job.tag)[Fetched(job.hint.by)[p]]
  <2>1. told["decode"].turned = Final.turned /\ told["decode"].tag = Final.tag
    BY <1>1 DEF AdapterInv, Answered, Answer
  <2>2. job.hint \in Hints /\ job.tag \in Orientations /\ Resolution \in Orientations
        /\ job.hint.by \in Orientations /\ 1 \in Orientations
    BY <1>1, JobFacts DEF AdapterInv, Hints, Orientations
  <2>3. ASSUME NEW q \in Corners PROVE Fetched(1)[q] = q
    BY NothingMoves
  <2>4. CASE ~Bakes(job.hint)
    <3>1. Final.turned = 1 /\ Final.tag = job.tag /\ job.hint.kind = "Preserve"
      BY <2>4 DEF Final, NativeImage, Bakes
    <3> QED
      BY <2>1, <2>2, <2>3, <3>1, FetchedIsACorner
  <2>5. CASE Bakes(job.hint)
    <3>1. Final.turned = Resolution /\ Final.tag = 1
      BY <2>2, <2>5, ThenOfNothing DEF Final, Turned, Baked, NativeImage
    <3>2. Fetched(told["decode"].turned)[Fetched(told["decode"].tag)[p]] = Fetched(Resolution)[p]
      BY <2>1, <2>3, <3>1, <1>1
    <3>3. CASE job.hint.kind = "Correct"
      BY <3>2, <3>3 DEF Resolution, Resolved
    <3>4. CASE job.hint.kind = "ExactTransform"
      BY <3>2, <3>4 DEF Resolution, Resolved
    <3>5. CASE job.hint.kind = "CorrectAndTransform"
      <4>1. Resolution = Then(job.tag, job.hint.by)
        BY <3>5 DEF Resolution, Resolved
      <4>2. Fetched(Resolution)[p] = Fetched(job.tag)[Fetched(job.hint.by)[p]]
        BY <1>1, <2>2, <4>1, ThenFetches
      <4> QED
        BY <3>2, <3>5, <4>2
    <3>6. job.hint.kind \in {"Preserve", "Correct", "ExactTransform", "CorrectAndTransform"}
      BY <2>2 DEF Hints
    <3> QED
      BY <2>5, <3>3, <3>4, <3>5, <3>6 DEF Bakes
  <2> QED
    BY <2>4, <2>5
<1>2. AdapterInv => ShownAsAsked
  BY <1>1 DEF ShownAsAsked
<1> QED
  BY <1>2, Invariance, PTL

\* A request made before the last poll of a call is always heard.
THEOREM HearsStops == Spec => StopIsHeard
<1>1. ASSUME AdapterInv, [Next]_vars, NEW c \in Calls, told[c].how = "none", told'[c].how = "ok"
      PROVE  ~owed
  <2>1. ASSUME NEW d \in Calls, Start(d) PROVE FALSE
    <3>1. told' = told \/ told' = [told EXCEPT ![d] = Answer("LimitExceeded", NoImage)]
      BY <2>1 DEF Start
    <3>2. Answer("LimitExceeded", NoImage).how = "LimitExceeded" /\ told \in [Calls -> Answers]
      BY <1>1 DEF Answer, AdapterInv, Answered
    <3> QED
      BY <1>1, <3>1, <3>2
  <2>2. ASSUME NEW how, NEW i, Return(how, i) PROVE how = "ok"
    <3>1. told' = [told EXCEPT ![call] = Answer(how, i)] /\ told \in [Calls -> Answers] /\ Answer(how, i).how = how
      BY <1>1, <2>2 DEF Return, Answer, AdapterInv, Answered
    <3> QED
      BY <1>1, <3>1
  <2>3. CASE Stopped
    BY <2>2, <2>3 DEF Stopped
  <2>4. CASE ProbeNative
    <3>1. HeaderLimits # "ok" => Return(HeaderLimits, NoImage) \/ Return("Malformed", NoImage)
      BY <2>4 DEF ProbeNative
    <3>2. ~job.parses => Return("Malformed", NoImage)
      BY <2>4 DEF ProbeNative
    <3>3. job.parses /\ HeaderLimits = "ok" => told' = told
      BY <2>4 DEF ProbeNative
    <3> QED
      BY <1>1, <2>2, <3>1, <3>2, <3>3
  <2>5. CASE Probed
    <3>1. owed => Stopping
      BY <1>1, <2>5 DEF AdapterInv, Heard, Probed
    <3> QED
      BY <2>5, <3>1 DEF Probed
  <2>6. CASE Complete
    <3>1. error = "none"
      <4>1. error # "none" => Return(error, NoImage) /\ error # "ok"
        BY <1>1, <2>6 DEF Complete, AdapterInv, TypeOK, Errors
      <4> QED
        BY <2>2, <4>1
    <3> QED
      BY <1>1, <2>6, <3>1 DEF AdapterInv, Heard, Complete
  <2>7. CASE UNCHANGED told
    BY <1>1, <2>7
  <2> QED
    BY <1>1, <2>1, <2>3, <2>4, <2>5, <2>6, <2>7
       DEF Next, Entered, Enter, Skip, BreakStopped, Break, Open, DecodeNative, Bake, Leave, Raise, Returned, vars
<1>2. AdapterInv /\ [Next]_vars => [\A c \in Calls : told[c].how = "none" /\ told'[c].how = "ok" => ~owed]_vars
  BY <1>1
<1> QED
  BY <1>2, Invariance, PTL DEF Spec, StopIsHeard

-----------------------------------------------------------------------------
(* Seen through its phases and its verdict, the decoder is a StagePlan.    *)

LEMMA PhasesAreTwo == Plan!Phases = {1, 2}
  BY DEF Plan!Phases

LEMMA InitPlans == Init => Plan!PlanInit
  BY DEF Init, Plan!PlanInit, Plan!Phases

LEMMA NextPlans ==
  ASSUME AdapterInv, [Next]_vars
  PROVE  [Plan!PlanNext]_(Plan!planVars)
<1>1. child \in [1 .. 2 -> Outcomes] /\ Phase \in Plan!Phases /\ 2 \in Plan!Phases
  BY Standing, PhasesAreTwo DEF Phase
<1>2. ASSUME pc = "turn"
      PROVE  verdict = "none" /\ Plan!IsNext(Phase)
  <2>1. Fresh \/ Between
    BY <1>2 DEF AdapterInv, Placed
  <2>2. CASE Fresh
    BY <1>1, <2>2, PhaseIs, PhasesAreTwo DEF Fresh, Plan!IsNext
  <2>3. CASE Between
    <3>1. Phase = 2 /\ child[1] = "Succeeded" /\ child[2] = "Planned"
      BY <1>1, <2>3, PhaseIs DEF Between
    <3>2. verdict = "none"
      BY <1>2 DEF AdapterInv, Placed, Working
    <3> QED
      BY <3>1, <3>2, PhasesAreTwo DEF Plan!IsNext
  <2> QED
    BY <2>1, <2>2, <2>3
<1>3. ASSUME pc \in {"opened", "working", "worked"}
      PROVE  verdict = "none" /\ child[Phase] = "Running"
  <2>1. verdict = "none"
    BY <1>3 DEF AdapterInv, Placed, Working
  <2>2. child[1] = "Running" \/ (child[1] = "Succeeded" /\ child[2] = "Running")
    BY <1>3 DEF AdapterInv, Placed, First, Second
  <2> QED
    BY <2>1, <2>2 DEF Phase
<1>4. ASSUME UNCHANGED phases PROVE UNCHANGED Plan!planVars
  BY <1>4 DEF phases, Plan!planVars
<1>5. CASE Enter
  <2>1. Plan!Begin(Phase)
    BY <1>2, <1>5 DEF Enter, Plan!Begin
  <2> QED
    BY <1>1, <2>1 DEF Plan!PlanNext
<1>6. CASE Skip
  <2>1. Plan!PassOver(2)
    BY <1>2, <1>6 DEF Skip, Plan!PassOver
  <2> QED
    BY <1>1, <2>1 DEF Plan!PlanNext
<1>7. CASE Leave
  <2>1. Plan!Finish(Phase)
    BY <1>3, <1>7 DEF Leave, Plan!Finish
  <2> QED
    BY <1>1, <2>1 DEF Plan!PlanNext
<1>8. ASSUME NEW e, Break(e), pc \in {"opened", "working", "worked"} PROVE Plan!PlanNext
  <2>1. PICK how \in {"stopped", "failed"} : how = IF e = "Stopped" THEN "stopped" ELSE "failed"
    OBVIOUS
  <2>2. Plan!Break(Phase, how)
    BY <1>3, <1>8, <2>1 DEF Break, Plan!Break
  <2> QED
    BY <1>1, <2>2 DEF Plan!PlanNext
<1>9. CASE BreakStopped
  BY <1>8, <1>9 DEF BreakStopped
<1>10. CASE DecodeNative
  <2>1. UNCHANGED phases \/ \E e : Break(e)
    BY <1>10 DEF DecodeNative
  <2> QED
    BY <1>4, <1>8, <1>10, <2>1 DEF DecodeNative
<1>11. CASE Bake
  <2>1. UNCHANGED phases \/ \E e : Break(e)
    BY <1>11 DEF Bake
  <2> QED
    BY <1>4, <1>8, <1>11, <2>1 DEF Bake
<1>12. CASE Complete
  <2>1. verdict = "none" /\ Unwound
    BY <1>12 DEF Complete, AdapterInv, Placed
  <2>2. CASE error = "none"
    <3>1. child' = child /\ verdict' = "ok"
      BY <1>12, <2>2 DEF Complete
    <3>2. \A p \in Plan!Phases : child[p] \in {"Succeeded", "Skipped"}
      BY <2>1, <2>2, PhasesAreTwo DEF Unwound
    <3>3. Plan!Succeed
      BY <2>1, <3>1, <3>2 DEF Plan!Succeed
    <3> QED
      BY <3>3 DEF Plan!PlanNext
  <2>3. CASE error # "none"
    <3>1. PICK how \in {"stopped", "failed"} : how = IF error = "Stopped" THEN "stopped" ELSE "failed"
      OBVIOUS
    <3>2. verdict' = how
      BY <1>12, <2>3, <3>1 DEF Complete
    <3>3. child' = [p \in Plan!Phases |-> IF child[p] = "Planned" THEN "NotRun" ELSE child[p]]
      BY <1>12, <2>3 DEF Complete, Plan!Phases
    <3>4. \A p \in {1, 2} : child[p] \in {"Planned", "Succeeded", Broken}
      BY <2>1, <2>3 DEF Unwound
    <3>5. \A p \in Plan!Phases : /\ child[p] # "Running"
                                 /\ child[p] = "Cancelled" => how = "stopped"
                                 /\ child[p] = "Failed" => how = "failed"
      BY <3>1, <3>4, PhasesAreTwo DEF Broken
    <3>6. Plan!EndEarly(how)
      BY <2>1, <3>2, <3>3, <3>5 DEF Plan!EndEarly
    <3> QED
      BY <3>6 DEF Plan!PlanNext
  <2> QED
    BY <2>2, <2>3
<1>13. CASE (\E c \in Calls : Start(c)) \/ Stopped \/ Entered \/ ProbeNative \/ Probed \/ Open \/ Raise
            \/ Returned \/ UNCHANGED vars
  <2>1. UNCHANGED phases
    BY <1>13 DEF Start, Stopped, Entered, ProbeNative, Probed, Open, Raise, Returned, vars
  <2> QED
    BY <1>4, <2>1
<1> QED
  BY <1>5, <1>6, <1>7, <1>9, <1>10, <1>11, <1>12, <1>13 DEF Next

\* The observer of a decode through the adapter sees what StagePlan promises:
\* its two phases in order, each settled once, before the verdict.
THEOREM RefinesPlan == Spec => ImplementsPlan
<1>1. AdapterInv /\ [Next]_vars => [Plan!PlanNext]_(Plan!planVars)
  BY NextPlans
<1> QED
  BY <1>1, InitPlans, Invariance, PTL DEF Spec, ImplementsPlan, Plan!PlanSpec
=============================================================================
