--------------------------- MODULE IncrementalProofs ---------------------------
(***************************************************************************)
(* An incremental session, for sources, limits and lengths of every size:  *)
(* what it holds, asks for and publishes keeps the budget, it never denies *)
(* an admissible source, hears stops, and keeps the Session contract.      *)
(***************************************************************************)
EXTENDS Incremental, TLAPS

-----------------------------------------------------------------------------
(* The inductive invariant, by subject.                                    *)

\* What is known of the source: the driver's prefix, and its end.
KnownInv ==
  /\ held <= source.len
  /\ win.off = 0 => win.len = held
  /\ win.total \in {None, Some(source.len)}
  /\ win.total # None => eof
  /\ pc # "idle" => win.total = KnownTotal(eof)
  /\ announced => eof
  /\ stray = 0 => win.off = 0

\* What the source is estimated to decode to was admitted; once the helper may
\* work on the header, so was the whole source beside it, if its end is known.
HeaderInv ==
  /\ estimated \in {0, source.output}
  /\ estimated <= U64Max /\ ~Over(limits.memory, estimated)
  /\ info \/ pc = "helper" =>
       /\ source.fits /\ estimated = source.output
       /\ eof => AdmitSize(source.len, source.output) = "ok"

\* A request of that length, beside the output, is within the budget.
Askable(n) ==
  /\ n <= IsizeMax /\ n + estimated <= U64Max
  /\ ~Over(limits.memory, n + estimated)
  /\ ~Over(limits.input, IF win.total = None THEN n - 1 ELSE n)

\* The window of a step that goes on, or that has answered, was admitted.
AdmittedInv ==
  /\ \/ pc \in {"probe", "helper", "leave"}
     \/ pc = "idle" /\ ~finished /\ event # "none"
     => (win.off = 0 => AdmitSize(win.len, estimated) = "ok")
  /\ pc = "idle" /\ ~finished /\ event = "Need" => Askable(need)

\* A step that asks for more has not seen the end, and means more.
AskInv ==
  pc = "leave" /\ progress = "Need" /\ win.off = 0 =>
    /\ ~ReachesEnd
    /\ ~incomplete /\ asked # None => The(asked) > win.len

\* Where a step is, and what has been published.
FlowInv ==
  /\ pc # "idle" => ~finished /\ event # "Done"
  /\ pc = "probe" => ~info /\ win.off = 0
  /\ pc \in {"probe", "helper"} => ~incomplete /\ progress = "Need"
  /\ pc = "helper" /\ ~info => win.off = 0
  /\ headerReady => info
  /\ ~finished /\ pc # "leave" => (info <=> headerReady)
  /\ pc = "leave" => (progress = "Metadata" <=> info /\ ~headerReady)

\* What the sink was given, against what was published.
SinkInv ==
  /\ sink # "untouched" => headerReady
  /\ sink # "finished" => event \notin {"Rows", "Done"}
  /\ sink = "begun" /\ ~finished => pc = "helper"
  /\ sink = "finished" /\ ~finished =>
       IF pc = "leave" THEN \/ progress = "Rows" /\ event \notin {"Rows", "Done"}
                            \/ progress = "Done" /\ event = "Rows"
       ELSE event \in {"Rows", "Done"}
  /\ sink = "untouched" /\ pc = "leave" => progress \in {"Need", "Metadata"}

IInv == TypeOK /\ KnownInv /\ HeaderInv /\ AdmittedInv /\ AskInv /\ FlowInv /\ SinkInv

-----------------------------------------------------------------------------
(* Limits and lengths.                                                     *)

LEMMA OptionHolds ==
  ASSUME NEW opt \in SUBSET Nat, opt # None
  PROVE  The(opt) \in Nat
<1>1. \E x \in opt : TRUE
  BY DEF None
<1>2. The(opt) \in opt
  BY <1>1 DEF The
<1> QED
  BY <1>2

LEMMA TheOfSome == \A x : The(Some(x)) = x /\ Some(x) # None
<1> SUFFICES ASSUME NEW x PROVE The({x}) = x /\ {x} # {}
  BY DEF Some, None
<1>1. (CHOOSE y \in {x} : TRUE) \in {x}
  OBVIOUS
<1> QED
  BY <1>1 DEF The

LEMMA OptionsAreNumbers ==
  ASSUME TypeOK
  PROVE  /\ limits.input # None => The(limits.input) \in Nat
         /\ limits.memory # None => The(limits.memory) \in Nat
         /\ win.total # None => The(win.total) \in Nat
         /\ asked # None => The(asked) \in Nat
<1>1. limits.input \in SUBSET Nat /\ limits.memory \in SUBSET Nat /\ win.total \in SUBSET Nat
      /\ asked \in SUBSET Nat
  BY DEF TypeOK, LimitSpace
<1> QED
  BY <1>1, OptionHolds

\* What AdmitSize admits.
Fits(bytes, output) ==
  /\ ~Over(limits.input, bytes) /\ ~Over(limits.memory, bytes + output)
  /\ bytes + output <= U64Max /\ bytes <= IsizeMax

LEMMA AdmitSizeIs ==
  ASSUME IncrementalAssumption, NEW b \in Nat, NEW o \in Nat
  PROVE  /\ AdmitSize(b, o) \in {"ok", "LimitExceeded", "OutOfMemory"}
         /\ AdmitSize(b, o) = "ok" <=> Fits(b, o)
  BY DEF AdmitSize, Fits, IncrementalAssumption

\* Less of the same is admitted too.
LEMMA FitsDownwards ==
  ASSUME TypeOK, NEW b \in Nat, NEW c \in Nat, NEW o \in Nat, NEW q \in Nat,
         b <= c, o <= q, Fits(c, q)
  PROVE  Fits(b, o)
  BY OptionsAreNumbers, IncrementalAssumption DEF Fits, Over, IncrementalAssumption

LEMMA CappedIs ==
  ASSUME NEW limit \in SUBSET Nat, NEW n \in Nat
  PROVE  /\ Capped(limit, n) \in 0 .. n
         /\ \A k \in Nat : k <= Capped(limit, n) <=> k <= n /\ ~Over(limit, k)
<1>1. limit # None => The(limit) \in Nat
  BY OptionHolds
<1> QED
  BY <1>1 DEF Capped, LeastOf, Over

\* What Ceiling allows is what a request may be.
LEMMA CeilingIs ==
  ASSUME TypeOK, estimated <= U64Max, ~Over(limits.memory, estimated)
  PROVE  /\ Ceiling \in 0 .. IsizeMax
         /\ \A n \in Nat : Askable(n) <=> n <= Ceiling
<1> DEFINE i == Capped(limits.input, U64Max)
           m == Capped(limits.memory, U64Max)
<1>1. /\ estimated \in Nat /\ limits.input \in SUBSET Nat /\ limits.memory \in SUBSET Nat
      /\ U64Max \in Nat /\ IsizeMax \in Nat \ {0} /\ IsizeMax < U64Max
  BY IncrementalAssumption DEF TypeOK, LimitSpace, IncrementalAssumption
<1>2. /\ i \in 0 .. U64Max /\ m \in 0 .. U64Max
      /\ \A k \in Nat : k <= i <=> k <= U64Max /\ ~Over(limits.input, k)
      /\ \A k \in Nat : k <= m <=> k <= U64Max /\ ~Over(limits.memory, k)
  BY <1>1, CappedIs
<1>3. estimated <= m /\ MemoryCeiling = m - estimated
  BY <1>1, <1>2 DEF MemoryCeiling, MostOf
<1>4. InputCeiling = IF win.total = None THEN LeastOf(i + 1, U64Max) ELSE i
  BY DEF InputCeiling
<1> HIDE DEF i, m
<1>5. InputCeiling \in Nat /\ MemoryCeiling \in Nat
  BY <1>1, <1>2, <1>3, <1>4 DEF LeastOf
<1>6. \A n \in Nat : n <= Ceiling <=> n <= InputCeiling /\ n <= MemoryCeiling /\ n <= IsizeMax
  BY <1>1, <1>5 DEF Ceiling, LeastOf
<1>7. Ceiling \in 0 .. IsizeMax
  BY <1>1, <1>5 DEF Ceiling, LeastOf
<1>8. ASSUME NEW n \in Nat
      PROVE  n <= MemoryCeiling <=> n + estimated <= U64Max /\ ~Over(limits.memory, n + estimated)
  BY <1>1, <1>2, <1>3
<1>9. ~Over(limits.input, -1)
  BY <1>1, OptionsAreNumbers DEF Over
<1>10. ASSUME NEW n \in Nat, n <= IsizeMax
       PROVE  n <= InputCeiling <=> ~Over(limits.input, IF win.total = None THEN n - 1 ELSE n)
  <2>1. CASE win.total = None /\ n = 0
    BY <1>1, <1>2, <1>4, <1>9, <2>1 DEF LeastOf
  <2>2. CASE win.total = None /\ n > 0
    BY <1>1, <1>2, <1>4, <1>10, <2>2 DEF LeastOf
  <2>3. CASE win.total # None
    BY <1>1, <1>2, <1>4, <1>10, <2>3
  <2> QED
    BY <2>1, <2>2, <2>3
<1> QED
  BY <1>6, <1>7, <1>8, <1>10 DEF Askable

\* No request is beyond the ceiling.
LEMMA WantedIs ==
  ASSUME TypeOK, Ceiling \in Nat
  PROVE  Wanted \in 0 .. Ceiling
  BY OptionsAreNumbers, IncrementalAssumption DEF TypeOK, Wanted, LeastOf, MostOf, IncrementalAssumption

-----------------------------------------------------------------------------
(* The invariant holds of every step.                                      *)

LEMMA InitInv == Init => IInv
<1> SUFFICES ASSUME Init PROVE IInv
  OBVIOUS
<1>1. source \in SourceSpace /\ limits \in LimitSpace
  BY IncrementalAssumption DEF Init, IncrementalAssumption
<1>2. TypeOK
  <2>1. win \in [off : Nat, len : Nat, total : SUBSET Nat] /\ asked \in SUBSET Nat
    BY DEF Init, None
  <2>2. 1 \in 0 .. IsizeMax /\ 0 \in 0 .. MaxStray
    BY IncrementalAssumption DEF IncrementalAssumption
  <2> QED
    BY <1>1, <2>1, <2>2 DEF Init, TypeOK, Events
<1>3. ~Over(limits.memory, 0)
  BY <1>2, OptionsAreNumbers DEF Over
<1> QED
  BY <1>1, <1>2, <1>3, IncrementalAssumption
  DEF Init, IInv, KnownInv, HeaderInv, AdmittedInv, AskInv, FlowInv, SinkInv, IncrementalAssumption, SourceSpace

\* What is admitted depends on the arguments of the session alone.
LEMMA AdmissionIsFixed ==
  ASSUME UNCHANGED session
  PROVE  \A b, o : AdmitSize(b, o)' = AdmitSize(b, o)
  BY DEF session, AdmitSize, Over

\* An error ends the session, wherever it happens, and leaves it as it was.
LEMMA RefuseKeeps ==
  ASSUME IInv, pc # "idle", NEW e \in Failures, Refuse(e),
         cached' \in BOOLEAN, stop' \in {"quiet", "pending", "spent"}, watched' \in BOOLEAN,
         progress' \in Events, asked' \in SUBSET Nat,
         UNCHANGED <<incomplete, estimated, info, sink>>
  PROVE  IInv'
<1>1. /\ UNCHANGED <<source, limits, announced, sticky, win, held, eof, stray, headerReady, need>>
      /\ pc' = "idle" /\ event' = e /\ finished' = TRUE
  BY DEF Refuse, session, driver
<1>2. \A b, o : AdmitSize(b, o)' = AdmitSize(b, o)
  BY <1>1, AdmissionIsFixed DEF session
<1>3. TypeOK'
  BY <1>1 DEF IInv, TypeOK
<1>4. KnownInv' /\ AdmittedInv' /\ AskInv'
  BY <1>1 DEF IInv, KnownInv, AdmittedInv, AskInv
<1>5. HeaderInv'
  BY <1>1, <1>2 DEF IInv, HeaderInv, Over
<1>6. FlowInv'
  BY <1>1 DEF IInv, FlowInv
<1>7. SinkInv'
  BY <1>1 DEF IInv, SinkInv, FlowInv, Failures
<1> QED
  BY <1>3, <1>4, <1>5, <1>6, <1>7 DEF IInv

LEMMA AsksKeep ==
  ASSUME IInv, Raise \/ Watch \/ Ended \/ UNCHANGED vars
  PROVE  IInv'
<1>1. /\ UNCHANGED <<session, pc, driver, cached, incomplete, estimated, helper, reply>>
      /\ stop' \in {"quiet", "pending", "spent"} /\ watched' \in BOOLEAN
  BY DEF IInv, TypeOK, Raise, Watch, Ended, vars, asks
<1>2. \A b, o : AdmitSize(b, o)' = AdmitSize(b, o)
  BY <1>1, AdmissionIsFixed
<1> USE <1>1 DEF session, driver, helper, reply
<1>3. TypeOK' /\ KnownInv'
  BY DEF IInv, TypeOK, KnownInv, KnownTotal
<1>4. HeaderInv' /\ AdmittedInv'
  BY <1>2 DEF IInv, HeaderInv, AdmittedInv, Askable, Over
<1>5. AskInv' /\ FlowInv' /\ SinkInv'
  BY DEF IInv, AskInv, ReachesEnd, FlowInv, SinkInv
<1> QED
  BY <1>3, <1>4, <1>5 DEF IInv

\* A window shows the prefix, or lies elsewhere; where it shows the end of a
\* source of unknown length, that much was asked for.
LEMMA OfferKeeps ==
  ASSUME IInv, Offer \/ OfferStray
  PROVE  IInv'
<1>1. /\ UNCHANGED <<source, limits, announced, sticky, cached, incomplete, estimated, helper, reply, asks>>
      /\ pc = "idle" /\ pc' = "entry" /\ ~finished /\ event # "Done"
  BY DEF Offer, OfferStray, Open, session
<1>2. \A b, o : AdmitSize(b, o)' = AdmitSize(b, o)
  BY <1>1, AdmissionIsFixed DEF session
<1>3. /\ source \in SourceSpace /\ source.len \in Nat /\ source.output \in Nat /\ held \in Nat /\ need \in Nat
      /\ held <= source.len /\ estimated \in Nat
      /\ U64Max \in Nat /\ U64Max > 0 /\ MaxStray \in Nat
  BY IncrementalAssumption DEF IInv, TypeOK, KnownInv, SourceSpace, IncrementalAssumption
<1>4. /\ held' \in Nat /\ held' <= source.len /\ eof' \in BOOLEAN /\ (eof => eof') /\ stray' \in 0 .. MaxStray
      /\ win'.off \in Nat /\ win'.len \in Nat /\ win'.total = KnownTotal(eof')
      /\ win' = [off |-> win'.off, len |-> win'.len, total |-> win'.total]
      /\ win'.off = 0 => win'.len = held'
      /\ stray' = 0 => win'.off = 0
      /\ eof' /\ ~eof => event = "Need" /\ need > source.len
  <2>1. CASE Offer
    <3>1. Enough \in Nat /\ (Enough <= source.len \/ (event = "Need" /\ Enough = need))
      <4>1. CASE event = "Need" /\ need > held
        BY <1>3, <4>1 DEF Enough, MostOf
      <4>2. CASE ~(event = "Need" /\ need > held)
        <5>1. Enough = held
          BY <4>2 DEF Enough, MostOf
        <5> QED
          BY <1>3, <5>1
      <4> QED
        BY <4>1, <4>2
    <3>2. PICK n \in {Enough, MostOf(Enough, source.len)} :
            /\ held' = LeastOf(n, source.len) /\ eof' = (eof \/ n > source.len)
            /\ win' = [off |-> 0, len |-> held', total |-> KnownTotal(eof')]
      BY <2>1 DEF Offer
    <3>3. n \in Nat /\ (n > source.len => event = "Need" /\ n = need)
      BY <1>3, <3>1 DEF MostOf
    <3>4. held' \in Nat /\ held' <= source.len
      BY <1>3, <3>2, <3>3 DEF LeastOf
    <3>5. stray' = stray /\ stray \in 0 .. MaxStray /\ eof \in BOOLEAN
      BY <2>1 DEF Offer, IInv, TypeOK
    <3> QED
      BY <3>2, <3>3, <3>4, <3>5
  <2>2. CASE OfferStray
    <3>1. PICK o \in {1, U64Max}, n \in {0, 1} : win' = [off |-> o, len |-> n, total |-> KnownTotal(eof)]
      BY <2>2 DEF OfferStray
    <3>2. stray' = stray + 1 /\ stray < MaxStray /\ stray \in 0 .. MaxStray /\ held' = held /\ eof' = eof /\ eof \in BOOLEAN
      BY <2>2 DEF OfferStray, IInv, TypeOK
    <3> QED
      BY <1>3, <3>1, <3>2
  <2> QED
    BY <2>1, <2>2
<1>5. TypeOK'
  BY <1>1, <1>3, <1>4 DEF IInv, TypeOK, helper, reply, asks, KnownTotal, Some, None
<1>6. KnownInv'
  BY <1>1, <1>4 DEF IInv, KnownInv, KnownTotal, Some, None
<1>7. HeaderInv'
  <2>1. info' = info /\ estimated' = estimated
    BY <1>1 DEF helper
  <2>2. ASSUME info, eof'
        PROVE  AdmitSize(source.len, source.output) = "ok"
    <3>1. CASE eof
      BY <2>2, <3>1 DEF IInv, HeaderInv
    <3>2. CASE ~eof
      <4>1. event = "Need" /\ need > source.len /\ Askable(need) /\ win.total = None /\ estimated = source.output
        BY <1>1, <1>4, <2>2, <3>2 DEF IInv, AdmittedInv, KnownInv, HeaderInv
      <4>2. ~Over(limits.input, need - 1) /\ ~Over(limits.memory, need + source.output)
            /\ need + source.output <= U64Max /\ need <= IsizeMax
        BY <4>1 DEF Askable
      <4>3. Fits(source.len, source.output)
        BY <1>3, <4>1, <4>2, OptionsAreNumbers, IncrementalAssumption DEF IInv, Fits, Over, IncrementalAssumption
      <4> QED
        BY <1>3, <4>3, AdmitSizeIs, IncrementalAssumption
    <3> QED
      BY <3>1, <3>2
  <2> QED
    BY <1>1, <1>2, <2>1, <2>2 DEF IInv, HeaderInv, Over
<1>8. AdmittedInv' /\ AskInv'
  BY <1>1 DEF AdmittedInv, AskInv
<1>9. FlowInv' /\ SinkInv'
  BY <1>1 DEF IInv, FlowInv, SinkInv, helper, reply
<1> QED
  BY <1>5, <1>6, <1>7, <1>8, <1>9 DEF IInv

LEMMA PollsKeep ==
  ASSUME IInv, \/ EntryStopped \/ ProbeStopped \/ LeaveStopped \/ HelperProbeStopped
  PROVE  IInv'
<1>1. pc # "idle" /\ \E e \in {"Cancelled", "Stopped"} : Refuse(e)
  BY DEF EntryStopped, ProbeStopped, LeaveStopped, HelperProbeStopped, Polled
<1>2. /\ UNCHANGED <<cached, incomplete, estimated, helper>>
      /\ stop' \in {"quiet", "pending", "spent"} /\ watched' \in BOOLEAN
  BY DEF EntryStopped, ProbeStopped, LeaveStopped, HelperProbeStopped, Polled, Reported, asks, IInv, TypeOK
<1>3. cached' \in BOOLEAN /\ progress' \in Events /\ asked' \in SUBSET Nat /\ UNCHANGED <<info, sink>>
  BY <1>2 DEF helper, IInv, TypeOK
<1> QED
  BY <1>1, <1>2, <1>3, RefuseKeeps DEF Failures

LEMMA AdmitKeeps ==
  ASSUME IInv, Admit
  PROVE  IInv'
<1>1. /\ pc = "entry" /\ progress' = "Need" /\ asked' = None /\ UNCHANGED <<cached, estimated, info, sink, asks>>
      /\ "Need" \in Events /\ None \in SUBSET Nat
  BY DEF Admit, Events, None
<1>2. /\ win.len \in Nat /\ win.off \in Nat /\ estimated \in Nat /\ U64Max \in Nat
      /\ win.total # None => The(win.total) \in Nat
  BY IncrementalAssumption, OptionsAreNumbers DEF IInv, TypeOK, IncrementalAssumption
<1>3. CASE Admission # "ok"
  <2>1. Admission \in {"LimitExceeded", "OutOfMemory"}
    BY <1>2, <1>3, AdmitSizeIs, IncrementalAssumption DEF Admission
  <2>2. Refuse(Admission) /\ UNCHANGED incomplete
    BY <1>3 DEF Admit
  <2>3. stop' \in {"quiet", "pending", "spent"} /\ watched' \in BOOLEAN /\ cached' \in BOOLEAN
    BY <1>1 DEF asks, IInv, TypeOK
  <2> QED
    BY <1>1, <2>1, <2>2, <2>3, RefuseKeeps DEF Failures
<1>4. CASE Admission = "ok"
  <2>1. /\ pc' = (IF ~info /\ win.off = 0 THEN "probe" ELSE IF info THEN "helper" ELSE "leave")
        /\ incomplete' = (~info /\ win.off # 0)
        /\ UNCHANGED <<session, driver, reply>>
    BY <1>4 DEF Admit
  <2>2. \A b, o : AdmitSize(b, o)' = AdmitSize(b, o)
    BY <2>1, AdmissionIsFixed
  <2>3. win.off = 0 => AdmitSize(win.len, estimated) = "ok"
    <3>1. CASE win.len = 0
      <4>1. Fits(0, estimated)
        BY <1>2, OptionsAreNumbers, IncrementalAssumption DEF Fits, Over, IInv, HeaderInv, IncrementalAssumption
      <4> QED
        BY <1>2, <3>1, <4>1, AdmitSizeIs, IncrementalAssumption
    <3>2. CASE win.len # 0
      BY <1>2, <1>4, <3>2 DEF Admission
    <3> QED
      BY <3>1, <3>2
  <2> USE <1>1, <2>1 DEF session, driver, reply, asks
  <2>4. TypeOK'
    BY DEF IInv, TypeOK
  <2>5. KnownInv' /\ HeaderInv'
    BY <2>2 DEF IInv, KnownInv, KnownTotal, HeaderInv, Over, FlowInv
  <2>6. AdmittedInv' /\ AskInv'
    BY <2>2, <2>3 DEF IInv, AdmittedInv, AskInv
  <2>7. FlowInv' /\ SinkInv'
    BY DEF IInv, FlowInv, SinkInv
  <2> QED
    BY <2>4, <2>5, <2>6, <2>7 DEF IInv
<1> QED
  BY <1>3, <1>4

\* A header is admitted alone, and beside the input known so far.
LEMMA AdmitHeaderIs ==
  ASSUME TypeOK, AdmitHeader = "ok"
  PROVE  /\ source.fits /\ source.output <= U64Max /\ ~Over(limits.memory, source.output)
         /\ AdmitSize(IF win.total # None THEN The(win.total) ELSE win.len, source.output) = "ok"
<1>1. source.fits \in BOOLEAN /\ source.output \in Nat /\ U64Max \in Nat
  BY IncrementalAssumption DEF TypeOK, SourceSpace, IncrementalAssumption
<1> QED
  BY <1>1 DEF AdmitHeader

LEMMA ProbeKeeps ==
  ASSUME IInv, Probe
  PROVE  IInv'
<1>1. /\ pc = "probe" /\ UNCHANGED <<helper, asks>>
      /\ ProbeOutcome \in {"ok", "LimitExceeded", "Malformed"}
  BY DEF Probe, ProbeOutcome
<1>2. /\ source.output \in Nat /\ source.len \in Nat /\ win.len \in Nat /\ win.off = 0
      /\ win.total # None => The(win.total) \in Nat
      /\ win.len <= source.len /\ ~info /\ progress \in Events /\ win.total = KnownTotal(eof)
  BY <1>1, OptionsAreNumbers DEF IInv, TypeOK, SourceSpace, KnownInv, FlowInv
<1>3. /\ stop' \in {"quiet", "pending", "spent"} /\ watched' \in BOOLEAN /\ progress' \in Events
      /\ asked' \in SUBSET Nat /\ UNCHANGED <<info, sink>>
  BY <1>1 DEF asks, helper, IInv, TypeOK
<1>4. CASE ProbeOutcome = "ok" /\ AdmitHeader = "ok"
  <2>1. /\ cached' = TRUE /\ estimated' = source.output /\ incomplete' = FALSE /\ pc' = "helper"
        /\ UNCHANGED <<session, driver, reply>>
    BY <1>4 DEF Probe
  <2>2. \A b, o : AdmitSize(b, o)' = AdmitSize(b, o)
    BY <2>1, AdmissionIsFixed
  <2>3. /\ source.fits /\ source.output <= U64Max /\ ~Over(limits.memory, source.output)
        /\ AdmitSize(win.len, source.output) = "ok"
        /\ eof => AdmitSize(source.len, source.output) = "ok"
    <3>1. CASE eof
      <4>1. win.total # None /\ The(win.total) = source.len
        BY <1>2, <3>1, TheOfSome DEF KnownTotal
      <4>2. AdmitSize(source.len, source.output) = "ok"
        BY <1>4, <4>1, AdmitHeaderIs DEF IInv
      <4>3. Fits(win.len, source.output)
        BY <1>2, <4>2, AdmitSizeIs, FitsDownwards, IncrementalAssumption DEF IInv
      <4> QED
        BY <1>2, <1>4, <4>2, <4>3, AdmitHeaderIs, AdmitSizeIs, IncrementalAssumption DEF IInv
    <3>2. CASE ~eof
      BY <1>2, <1>4, <3>2, AdmitHeaderIs DEF IInv, KnownTotal
    <3> QED
      BY <3>1, <3>2
  <2> USE <1>1, <1>2, <2>1 DEF session, driver, helper, reply, asks
  <2>4. TypeOK'
    BY DEF IInv, TypeOK
  <2>5. KnownInv' /\ HeaderInv'
    BY <2>2, <2>3 DEF IInv, KnownInv, KnownTotal, HeaderInv, Over
  <2>6. AdmittedInv' /\ AskInv'
    BY <2>2, <2>3 DEF IInv, AdmittedInv, AskInv
  <2>7. FlowInv' /\ SinkInv'
    BY DEF IInv, FlowInv, SinkInv
  <2> QED
    BY <2>4, <2>5, <2>6, <2>7 DEF IInv
<1>5. CASE ProbeOutcome = "ok" /\ AdmitHeader # "ok"
  <2>1. cached' = TRUE /\ Refuse(AdmitHeader) /\ UNCHANGED <<estimated, incomplete>>
    BY <1>5 DEF Probe
  <2>2. AdmitHeader \in {"LimitExceeded", "OutOfMemory"}
    BY <1>2, <1>5, AdmitSizeIs, IncrementalAssumption DEF AdmitHeader
  <2> QED
    BY <1>1, <1>3, <2>1, <2>2, RefuseKeeps DEF Failures
<1>6. CASE ProbeOutcome = "LimitExceeded" \/ (ProbeOutcome = "Malformed" /\ ReachesEnd)
  <2>1. Refuse(ProbeOutcome) /\ UNCHANGED <<cached, estimated, incomplete>>
    BY <1>6 DEF Probe
  <2>2. cached' \in BOOLEAN
    BY <2>1 DEF IInv, TypeOK
  <2> QED
    BY <1>1, <1>3, <1>6, <2>1, <2>2, RefuseKeeps DEF Failures
<1>7. CASE ProbeOutcome = "Malformed" /\ ~ReachesEnd
  <2>1. incomplete' = TRUE /\ pc' = "leave" /\ UNCHANGED <<session, driver, cached, estimated, reply>>
    BY <1>7 DEF Probe
  <2>2. \A b, o : AdmitSize(b, o)' = AdmitSize(b, o)
    BY <2>1, AdmissionIsFixed
  <2> USE <1>1, <1>2, <2>1 DEF session, driver, helper, reply, asks
  <2>4. TypeOK'
    BY DEF IInv, TypeOK
  <2>5. KnownInv' /\ HeaderInv'
    BY <2>2 DEF IInv, KnownInv, KnownTotal, HeaderInv, Over
  <2>6. AdmittedInv' /\ AskInv'
    BY <1>7, <2>2 DEF IInv, AdmittedInv, AskInv, ReachesEnd
  <2>7. FlowInv' /\ SinkInv'
    BY DEF IInv, FlowInv, SinkInv
  <2> QED
    BY <2>4, <2>5, <2>6, <2>7 DEF IInv
<1> QED
  BY <1>1, <1>4, <1>5, <1>6, <1>7

LEMMA AskForMoreIs ==
  ASSUME TypeOK, AskForMore
  PROVE  /\ asked' \in SUBSET Nat
         /\ win.off = 0 /\ ~ReachesEnd /\ asked' # None => The(asked') > win.len
<1>1. /\ win.len \in Nat /\ win.off \in Nat /\ Lengths \subseteq Nat
      /\ win.total # None => The(win.total) \in Nat
  BY OptionsAreNumbers, IncrementalAssumption DEF TypeOK, IncrementalAssumption
<1>2. CASE win.total # None /\ asked' = Some(The(win.total))
  <2>1. asked' \in SUBSET Nat /\ The(asked') = The(win.total)
    BY <1>1, <1>2, TheOfSome DEF Some
  <2> QED
    BY <1>1, <1>2, <2>1 DEF ReachesEnd
<1>3. CASE win.total = None /\ \E m \in Lengths : m > win.len /\ asked' = Some(m)
  <2>1. PICK m \in Lengths : m > win.len /\ asked' = Some(m)
    BY <1>3
  <2>2. asked' \in SUBSET Nat /\ The(asked') = m
    BY <1>1, <2>1, TheOfSome DEF Some
  <2> QED
    BY <2>1, <2>2
<1>4. CASE asked' = None
  BY <1>4 DEF None
<1> QED
  BY <1>2, <1>3, <1>4 DEF AskForMore

LEMMA HelperKeeps ==
  ASSUME IInv, HelperProbes \/ HelperWaits \/ HelperBegins \/ HelperFinishes \/ HelperIsDone
  PROVE  IInv'
<1>1. /\ pc = "helper" /\ ~finished /\ progress = "Need"
      /\ UNCHANGED <<session, driver, cached, incomplete, estimated, reply>>
  BY DEF HelperProbes, HelperWaits, HelperBegins, HelperFinishes, HelperIsDone, IInv, FlowInv
<1>2. \A b, o : AdmitSize(b, o)' = AdmitSize(b, o)
  BY <1>1, AdmissionIsFixed
<1> USE <1>1 DEF session, driver, reply
<1>3. CASE HelperProbes
  <2>1. /\ pc' = "leave" /\ ~info /\ win.off = 0 /\ sink' = sink
        /\ stop' \in {"quiet", "pending", "spent"} /\ watched' \in BOOLEAN
        /\ \/ /\ progress' = "Need" /\ info' = info /\ asked' \in SUBSET Nat /\ ~ReachesEnd
              /\ asked' # None => The(asked') > win.len
           \/ progress' = "Metadata" /\ info' = TRUE /\ asked' = asked
    BY <1>3, AskForMoreIs DEF HelperProbes, Reported, asks, IInv, TypeOK, FlowInv
  <2>2. TypeOK'
    <3>1. asked' \in SUBSET Nat /\ info' \in BOOLEAN /\ progress' \in Events
      BY <2>1 DEF IInv, TypeOK, Events
    <3> QED
      BY <2>1, <3>1 DEF IInv, TypeOK
  <2>3. KnownInv' /\ HeaderInv'
    BY <1>2, <2>1 DEF IInv, KnownInv, KnownTotal, HeaderInv, Over
  <2>4. AdmittedInv' /\ AskInv'
    BY <1>2, <2>1 DEF IInv, AdmittedInv, AskInv, ReachesEnd
  <2>5. FlowInv' /\ SinkInv'
    BY <2>1 DEF IInv, FlowInv, SinkInv
  <2> QED
    BY <2>2, <2>3, <2>4, <2>5 DEF IInv
<1>4. CASE HelperWaits
  <2>1. /\ pc' = "leave" /\ info /\ sink = "untouched" /\ progress' = "Need" /\ UNCHANGED <<info, sink, asks>>
        /\ asked' \in SUBSET Nat
        /\ win.off = 0 => ~ReachesEnd /\ (asked' # None => The(asked') > win.len)
    BY <1>4, AskForMoreIs DEF HelperWaits, IInv
  <2>2. TypeOK'
    BY <2>1 DEF IInv, TypeOK, Events, asks
  <2>3. KnownInv' /\ HeaderInv'
    BY <1>2, <2>1 DEF IInv, KnownInv, KnownTotal, HeaderInv, Over
  <2>4. AdmittedInv' /\ AskInv'
    BY <1>2, <2>1 DEF IInv, AdmittedInv, AskInv, ReachesEnd
  <2>5. FlowInv' /\ SinkInv'
    BY <2>1 DEF IInv, FlowInv, SinkInv
  <2> QED
    BY <2>2, <2>3, <2>4, <2>5 DEF IInv
<1>5. CASE HelperBegins \/ HelperFinishes \/ HelperIsDone
  <2>1. /\ UNCHANGED <<info, asked, asks>>
        /\ \/ pc' = "helper" /\ info /\ sink = "untouched" /\ sink' = "begun" /\ progress' = progress
           \/ pc' = "leave" /\ sink = "begun" /\ sink' = "finished" /\ progress' = "Rows"
           \/ pc' = "leave" /\ sink = "finished" /\ sink' = "finished" /\ progress' = "Done"
    BY <1>5 DEF HelperBegins, HelperFinishes, HelperIsDone
  <2>2. TypeOK'
    BY <2>1 DEF IInv, TypeOK, Events, asks
  <2>3. KnownInv' /\ HeaderInv'
    BY <1>2, <2>1 DEF IInv, KnownInv, KnownTotal, HeaderInv, Over
  <2>4. AdmittedInv' /\ AskInv'
    BY <1>2, <2>1 DEF IInv, AdmittedInv, AskInv
  <2>5. FlowInv' /\ SinkInv'
    BY <2>1 DEF IInv, FlowInv, SinkInv
  <2> QED
    BY <2>2, <2>3, <2>4, <2>5 DEF IInv
<1> QED
  BY <1>3, <1>4, <1>5

LEMMA HelperErrorsKeep ==
  ASSUME IInv, HelperFails \/ SinkFails
  PROVE  IInv'
<1>1. pc = "helper" /\ \E e \in {"Stopped", "LimitExceeded", "Malformed", "Io"} : Refuse(e)
  BY DEF HelperFails, SinkFails
<1>2. /\ UNCHANGED <<cached, incomplete, estimated, helper>>
      /\ stop' \in {"quiet", "pending", "spent"} /\ watched' \in BOOLEAN
  BY DEF HelperFails, SinkFails, Reported, asks, IInv, TypeOK
<1>3. cached' \in BOOLEAN /\ progress' \in Events /\ asked' \in SUBSET Nat /\ UNCHANGED <<info, sink>>
  BY <1>2 DEF helper, IInv, TypeOK
<1> QED
  BY <1>1, <1>2, <1>3, RefuseKeeps DEF Failures

LEMMA LeaveKeeps ==
  ASSUME IInv, Leave
  PROVE  IInv'
<1>1. /\ pc = "leave" /\ pc' = "idle" /\ headerReady' = info /\ ~finished
      /\ UNCHANGED <<session, driver, cached, incomplete, estimated, helper, asks>>
  BY DEF Leave, IInv, FlowInv
<1>2. \A b, o : AdmitSize(b, o)' = AdmitSize(b, o)
  BY <1>1, AdmissionIsFixed
<1>3. /\ Ceiling \in 0 .. IsizeMax /\ Wanted \in 0 .. Ceiling
      /\ \A n \in Nat : Askable(n) <=> n <= Ceiling
  BY CeilingIs, WantedIs DEF IInv, HeaderInv
<1>4. IsizeMax \in Nat
  BY IncrementalAssumption DEF IncrementalAssumption
<1> USE <1>1 DEF session, driver, helper, asks
<1>5. CASE progress = "Need" /\ Unaskable
  <2>1. event' \in {"LimitExceeded", "OutOfMemory"} /\ finished' = TRUE /\ need' = need
    BY <1>5 DEF Leave
  <2>2. TypeOK'
    BY <2>1 DEF IInv, TypeOK, Failures
  <2>3. KnownInv' /\ HeaderInv'
    BY <1>2 DEF IInv, KnownInv, HeaderInv, Over
  <2>4. AdmittedInv' /\ AskInv'
    BY <2>1 DEF AdmittedInv, AskInv
  <2>5. FlowInv' /\ SinkInv'
    BY <2>1 DEF IInv, FlowInv, SinkInv
  <2> QED
    BY <2>2, <2>3, <2>4, <2>5 DEF IInv
<1>6. CASE ~(progress = "Need" /\ Unaskable)
  <2>1. event' = progress /\ need' = (IF progress = "Need" THEN Wanted ELSE 0) /\ finished' = finished
    BY <1>6 DEF Leave
  <2>2. need' \in 0 .. IsizeMax /\ (progress = "Need" => Askable(need'))
    BY <1>3, <1>4, <2>1
  <2>3. TypeOK'
    BY <2>1, <2>2 DEF IInv, TypeOK
  <2>4. KnownInv' /\ HeaderInv'
    BY <1>2 DEF IInv, KnownInv, HeaderInv, Over
  <2>5. AdmittedInv'
    BY <1>2, <2>1, <2>2 DEF IInv, AdmittedInv, Askable, Over
  <2>6. AskInv'
    BY DEF AskInv
  <2>7. sink \in {"untouched", "begun", "finished"}
    BY DEF IInv, TypeOK
  <2>8. FlowInv' /\ SinkInv'
    BY <2>1, <2>7 DEF IInv, FlowInv, SinkInv
  <2> QED
    BY <2>3, <2>4, <2>5, <2>6, <2>8 DEF IInv
<1> QED
  BY <1>5, <1>6

LEMMA NextInv == IInv /\ [Next]_vars => IInv'
<1> SUFFICES ASSUME IInv, [Next]_vars PROVE IInv'
  OBVIOUS
<1>1. CASE Offer \/ OfferStray
  BY <1>1, OfferKeeps
<1>2. CASE EntryStopped \/ ProbeStopped \/ LeaveStopped
  BY <1>2, PollsKeep
<1>3. CASE Admit
  BY <1>3, AdmitKeeps
<1>4. CASE Probe
  BY <1>4, ProbeKeeps
<1>5. CASE Helper
  BY <1>5, HelperKeeps, HelperErrorsKeep, PollsKeep DEF Helper
<1>6. CASE Leave
  BY <1>6, LeaveKeeps
<1>7. CASE Raise \/ Watch \/ Ended \/ UNCHANGED vars
  BY <1>7, AsksKeep
<1> QED
  BY <1>1, <1>2, <1>3, <1>4, <1>5, <1>6, <1>7 DEF Next, Step

LEMMA Invariant == Spec => []IInv
  BY InitInv, NextInv, PTL DEF Spec

-----------------------------------------------------------------------------
\* Every reachable state of a session is well typed; no request is longer than
\* a slice can be.
THEOREM TypeCorrect == Spec => []TypeOK
  BY Invariant, PTL DEF IInv

\* What a driver is made to hold, the output beside it and the next request fit
\* the limits, and a published header was admitted beside its input.
THEOREM KeepsTheBudget == Spec => []BudgetKept
<1>1. IInv => BudgetKept
  <2> SUFFICES ASSUME IInv PROVE BudgetKept
    OBVIOUS
  <2>1. win.total # None => The(win.total) = source.len /\ eof
    BY TheOfSome DEF IInv, KnownInv
  <2> QED
    BY <2>1 DEF IInv, AdmittedInv, HeaderInv, FlowInv, BudgetKept, Askable
<1> QED
  BY <1>1, Invariant, PTL

-----------------------------------------------------------------------------
(* No admissible source is denied.                                         *)

\* There is room for an admissible source, and for each part of it.
LEMMA AdmissibleFits ==
  ASSUME IInv, Admissible, NEW b \in Nat, NEW o \in Nat, b <= source.len, o <= source.output
  PROVE  AdmitSize(b, o) = "ok"
<1> DEFINE room == IF announced THEN source.len ELSE source.len + 1
<1>1. /\ source.len \in Nat /\ source.output \in Nat /\ room \in Nat /\ source.len <= room
      /\ U64Max \in Nat /\ IsizeMax \in Nat
      /\ limits.input # None => The(limits.input) \in Nat
      /\ limits.memory # None => The(limits.memory) \in Nat
  BY IncrementalAssumption, OptionsAreNumbers DEF IInv, TypeOK, SourceSpace, IncrementalAssumption
<1>2. /\ ~Over(limits.input, source.len) /\ ~Over(limits.memory, room + source.output)
      /\ room <= IsizeMax /\ room + source.output <= U64Max
  BY DEF Admissible
<1> HIDE DEF room
<1>3. Fits(b, o)
  BY <1>1, <1>2 DEF Fits, Over
<1> QED
  BY <1>3, AdmitSizeIs, IncrementalAssumption

LEMMA AdmissibleIsAskable ==
  ASSUME IInv, Admissible, pc = "leave"
  PROVE  Ceiling >= IF win.total = None THEN source.len + 1 ELSE source.len
<1> DEFINE room == IF announced THEN source.len ELSE source.len + 1
           n    == IF win.total = None THEN source.len + 1 ELSE source.len
<1>1. /\ source.len \in Nat /\ source.output \in Nat /\ estimated \in Nat /\ estimated <= source.output
      /\ U64Max \in Nat /\ IsizeMax \in Nat
      /\ limits.memory # None => The(limits.memory) \in Nat
      /\ Ceiling \in Nat /\ (Askable(n) => n <= Ceiling)
  BY IncrementalAssumption, OptionsAreNumbers, CeilingIs
  DEF IInv, TypeOK, SourceSpace, HeaderInv, IncrementalAssumption
<1>2. /\ ~Over(limits.input, source.len) /\ ~Over(limits.memory, room + source.output)
      /\ room <= IsizeMax /\ room + source.output <= U64Max
  BY DEF Admissible
<1>3. win.total = None => ~announced
  BY DEF IInv, KnownInv, KnownTotal, Some, None
<1>4. n \in Nat /\ room \in Nat /\ n <= room
  BY <1>1, <1>3
<1>5. ~Over(limits.input, IF win.total = None THEN n - 1 ELSE n)
  BY <1>1, <1>2
<1> HIDE DEF room, n
<1>6. Askable(n)
  BY <1>1, <1>2, <1>4, <1>5 DEF Askable, Over
<1> QED
  BY <1>1, <1>6 DEF n

\* The request for more of an admissible source can always be made.
LEMMA MoreIsAskable ==
  ASSUME IInv, Admissible, pc = "leave", progress = "Need", win.off = 0
  PROVE  Wanted > win.len
<1>1. /\ win.len \in Nat /\ source.len \in Nat /\ win.len <= source.len /\ Ceiling \in 0 .. IsizeMax
      /\ IsizeMax < U64Max /\ IsizeMax \in Nat /\ U64Max \in Nat /\ MinPrefix \in Nat
      /\ asked # None => The(asked) \in Nat
  BY IncrementalAssumption, OptionsAreNumbers, CeilingIs
  DEF IInv, TypeOK, SourceSpace, HeaderInv, KnownInv, IncrementalAssumption
<1>2. Ceiling >= IF win.total = None THEN source.len + 1 ELSE source.len
  BY AdmissibleIsAskable
<1>3. win.total # None => The(win.total) = source.len /\ win.len < source.len
  BY <1>1, TheOfSome DEF IInv, KnownInv, AskInv, ReachesEnd
<1>4. ~incomplete /\ asked # None => The(asked) > win.len
  BY DEF IInv, AskInv
<1>5. CASE incomplete /\ win.total # None
  BY <1>1, <1>2, <1>3, <1>5 DEF Wanted, LeastOf
<1>6. CASE incomplete /\ win.total = None
  <2> DEFINE more == MostOf(MostOf(LeastOf(2 * win.len, U64Max), MinPrefix), LeastOf(win.len + 1, U64Max))
  <2>1. LeastOf(win.len + 1, U64Max) = win.len + 1
    BY <1>1, <1>2, <1>6 DEF LeastOf
  <2>2. LeastOf(2 * win.len, U64Max) \in Nat
    BY <1>1 DEF LeastOf
  <2>3. more \in Nat /\ more >= win.len + 1
    BY <1>1, <2>1, <2>2 DEF MostOf
  <2>4. Wanted = LeastOf(more, Ceiling)
    BY <1>6 DEF Wanted
  <2> HIDE DEF more
  <2> QED
    BY <1>1, <1>2, <1>6, <2>3, <2>4 DEF LeastOf
<1>7. CASE ~incomplete
  BY <1>1, <1>2, <1>3, <1>4, <1>7 DEF Wanted, LeastOf
<1> QED
  BY <1>5, <1>6, <1>7

\* Wherever a step could say that a limit is passed, an admissible source does not.
LEMMA NextDenies == IInv /\ NeverDeniedInVain /\ [Next]_vars => NeverDeniedInVain'
<1> SUFFICES ASSUME IInv, NeverDeniedInVain, [Next]_vars, Admissible', stray' = 0
             PROVE  event' \notin {"LimitExceeded", "OutOfMemory"}
  BY DEF NeverDeniedInVain
<1>1. UNCHANGED session
  BY DEF Next, Step, Helper, vars, Offer, OfferStray, EntryStopped, LeaveStopped, Polled, Admit, ProbeStopped, Probe,
         HelperProbes, HelperProbeStopped, HelperWaits, HelperFails, HelperBegins, SinkFails, HelperFinishes,
         HelperIsDone, Leave, Raise, Watch, Ended, Refuse
<1>2. Admissible
  BY <1>1 DEF Admissible, session, Over
<1>3. stray = 0
  BY DEF Next, Step, Helper, vars, Offer, OfferStray, EntryStopped, LeaveStopped, Polled, Admit, ProbeStopped, Probe,
         HelperProbes, HelperProbeStopped, HelperWaits, HelperFails, HelperBegins, SinkFails, HelperFinishes,
         HelperIsDone, Leave, Raise, Watch, Ended, Refuse, driver, IInv, TypeOK
<1>4. event \notin {"LimitExceeded", "OutOfMemory"}
  BY <1>2, <1>3 DEF NeverDeniedInVain
<1>5. /\ win.off = 0 /\ win.len \in Nat /\ win.len <= source.len /\ source.len \in Nat /\ source.output \in Nat
      /\ estimated \in Nat /\ estimated <= source.output /\ U64Max \in Nat
      /\ win.total # None => The(win.total) = source.len
      /\ source.fits /\ source.probes = "ok"
  BY <1>2, <1>3, TheOfSome, IncrementalAssumption
  DEF IInv, TypeOK, SourceSpace, KnownInv, HeaderInv, Admissible, IncrementalAssumption
<1>6. /\ AdmitSize(source.len, estimated) = "ok" /\ AdmitSize(win.len, estimated) = "ok"
      /\ AdmitSize(source.len, source.output) = "ok" /\ AdmitSize(win.len, source.output) = "ok"
  BY <1>2, <1>5, AdmissibleFits
<1>7. CASE Offer \/ OfferStray \/ Raise \/ Watch \/ Ended \/ UNCHANGED vars
  BY <1>4, <1>7 DEF Offer, OfferStray, Raise, Watch, Ended, vars, reply
<1>8. CASE EntryStopped \/ ProbeStopped \/ LeaveStopped \/ HelperProbeStopped \/ SinkFails
  BY <1>8 DEF EntryStopped, ProbeStopped, LeaveStopped, HelperProbeStopped, SinkFails, Polled, Refuse
<1>9. CASE Admit
  <2>1. Fits(win.len, estimated)
    BY <1>5, <1>6, AdmitSizeIs, IncrementalAssumption
  <2>2. win.off + win.len <= U64Max /\ win.off + win.len = win.len
    BY <1>5, <2>1, IncrementalAssumption DEF Fits, IncrementalAssumption
  <2>3. Admission = "ok"
    BY <1>5, <1>6, <2>2 DEF Admission
  <2> QED
    BY <1>4, <1>9, <2>3 DEF Admit, reply
<1>10. CASE Probe
  <2>1. ProbeOutcome \in {"ok", "Malformed"}
    BY <1>5 DEF ProbeOutcome
  <2>2. Fits(source.len, source.output)
    BY <1>5, <1>6, AdmitSizeIs, IncrementalAssumption
  <2>3. Fits(0, source.output)
    BY <1>5, <2>2, FitsDownwards DEF IInv
  <2>4. AdmitHeader = "ok"
    BY <1>5, <1>6, <2>3 DEF AdmitHeader, Fits
  <2> QED
    BY <1>4, <1>10, <2>1, <2>4 DEF Probe, Refuse, reply
<1>11. CASE HelperFails
  <2>1. Fits(source.len, source.output)
    BY <1>5, <1>6, AdmitSizeIs, IncrementalAssumption
  <2>2. Fits(0, source.output)
    BY <1>5, <2>1, FitsDownwards DEF IInv
  <2>3. DecoderAdmits
    BY <1>5, <2>1, <2>2 DEF DecoderAdmits, Fits
  <2> QED
    BY <1>11, <2>3 DEF HelperFails, Refuse
<1>12. CASE HelperProbes \/ HelperWaits \/ HelperBegins \/ HelperFinishes \/ HelperIsDone
  BY <1>4, <1>12 DEF HelperProbes, HelperWaits, HelperBegins, HelperFinishes, HelperIsDone, reply
<1>13. CASE Leave
  <2>1. progress = "Need" => ~Unaskable
    <3>1. ASSUME progress = "Need"
          PROVE  Wanted > win.len
      BY <1>2, <1>5, <1>13, <3>1, MoreIsAskable DEF Leave
    <3>2. Wanted \in 0 .. Ceiling /\ Ceiling \in 0 .. IsizeMax
      BY CeilingIs, WantedIs DEF IInv, HeaderInv
    <3> QED
      BY <1>5, <3>1, <3>2 DEF Unaskable
  <2>2. event' = progress
    BY <1>13, <2>1 DEF Leave
  <2> QED
    BY <2>2 DEF IInv, TypeOK, Events
<1> QED
  BY <1>7, <1>8, <1>9, <1>10, <1>11, <1>12, <1>13 DEF Next, Step, Helper

\* A source the limits allow, with room for the byte that tells its end, is
\* never refused for them, whatever it is offered in.
THEOREM NeverDenies == Spec => []NeverDeniedInVain
<1>1. Init => NeverDeniedInVain
  BY DEF Init, NeverDeniedInVain
<1> QED
  BY <1>1, NextDenies, Invariant, PTL DEF Spec

-----------------------------------------------------------------------------
\* A step never answers success over a stop request that is still raised.
THEOREM HearsStops == Spec => StopIsHeard
<1>1. ASSUME IInv, [Next]_vars
      PROVE  [event' # event /\ event' \in Events => stop # "pending" /\ ~watched]_vars
  <2> SUFFICES ASSUME event' # event, event' \in Events
               PROVE  stop # "pending" /\ ~watched
    OBVIOUS
  <2>1. ASSUME NEW e, Refuse(e)
        PROVE  e \notin Failures
    BY <2>1 DEF Refuse, Events, Failures
  <2>2. Offer \/ OfferStray \/ Raise \/ Watch \/ Ended \/ UNCHANGED vars => event' = event
    BY DEF Offer, OfferStray, Raise, Watch, Ended, vars, reply
  <2>3. ~(EntryStopped \/ ProbeStopped \/ LeaveStopped \/ HelperProbeStopped \/ SinkFails \/ HelperFails)
    BY <2>1 DEF EntryStopped, ProbeStopped, LeaveStopped, HelperProbeStopped, SinkFails, HelperFails, Polled, Failures
  <2>4. ~Admit
    <3>1. Admit => event' = event \/ (Refuse(Admission) /\ Admission # "ok")
      BY DEF Admit, reply
    <3>2. Admission \in {"ok", "LimitExceeded", "OutOfMemory"}
      <4>1. /\ win.len \in Nat /\ win.off \in Nat /\ estimated \in Nat
            /\ win.total # None => The(win.total) \in Nat
        BY <1>1, OptionsAreNumbers DEF IInv, TypeOK
      <4> QED
        BY <4>1, AdmitSizeIs, IncrementalAssumption DEF Admission
    <3> QED
      BY <2>1, <3>1, <3>2 DEF Failures
  <2>5. ~Probe
    <3>1. Probe => \/ event' = event
                   \/ Refuse(AdmitHeader) /\ AdmitHeader # "ok"
                   \/ \E e \in {"LimitExceeded", "Malformed"} : Refuse(e)
      BY DEF Probe, reply
    <3>2. AdmitHeader \in {"ok", "LimitExceeded", "OutOfMemory"}
      <4>1. /\ win.len \in Nat /\ source.output \in Nat
            /\ win.total # None => The(win.total) \in Nat
        BY <1>1, OptionsAreNumbers DEF IInv, TypeOK, SourceSpace
      <4> QED
        BY <4>1, AdmitSizeIs, IncrementalAssumption DEF AdmitHeader
    <3> QED
      BY <2>1, <3>1, <3>2 DEF Failures
  <2>6. HelperProbes \/ HelperWaits \/ HelperBegins \/ HelperFinishes \/ HelperIsDone => event' = event
    BY DEF HelperProbes, HelperWaits, HelperBegins, HelperFinishes, HelperIsDone, reply
  <2>7. Leave => stop # "pending" /\ ~watched
    BY DEF Leave, Stopping
  <2> QED
    BY <1>1, <2>2, <2>3, <2>4, <2>5, <2>6, <2>7 DEF Next, Step, Helper
<1> QED
  BY <1>1, Invariant, PTL DEF Spec, StopIsHeard

-----------------------------------------------------------------------------
(* The contract of a session.                                              *)

\* What the driver has been told, as the contract counts it.
LEMMA StageIs ==
  /\ Stage = "failed" <=> finished
  /\ Stage = "done" <=> ~finished /\ event = "Done"
  /\ Stage = "rows" <=> ~finished /\ event = "Rows"
  /\ Stage = "body" <=> ~finished /\ event \notin {"Done", "Rows"} /\ headerReady
  /\ Stage = "header" <=> ~finished /\ event \notin {"Done", "Rows"} /\ ~headerReady
  BY DEF Stage

\* A step that tells the driver nothing leaves the stage.
LEMMA QuietKeepsStage ==
  ASSUME UNCHANGED <<event, headerReady, finished>>
  PROVE  Stage' = Stage
  BY DEF Stage

\* Every step is a step of the contract, or none.
LEMMA NextKeepsContract ==
  ASSUME IInv, [Next]_vars
  PROVE  [Contract!SessionNext]_(Contract!sessionVars)
<1>1. CASE \/ Offer \/ OfferStray \/ Raise \/ Watch \/ Ended \/ UNCHANGED vars
           \/ HelperProbes \/ HelperWaits \/ HelperIsDone
  <2>1. UNCHANGED <<event, headerReady, finished, sink>>
    BY <1>1 DEF Offer, OfferStray, Raise, Watch, Ended, vars, HelperProbes, HelperWaits, HelperIsDone,
                reply, helper
  <2> QED
    BY <2>1, QuietKeepsStage DEF Contract!sessionVars
<1>2. ASSUME pc # "idle", finished', UNCHANGED sink
      PROVE  Contract!Fail
  <2>1. Stage \notin {"failed", "done"}
    BY <1>2, StageIs DEF IInv, FlowInv
  <2>2. Stage' = "failed"
    BY <1>2 DEF Stage
  <2> QED
    BY <1>2, <2>1, <2>2 DEF Contract!Fail
<1>3. CASE \/ EntryStopped \/ ProbeStopped \/ LeaveStopped
           \/ HelperProbeStopped \/ HelperFails \/ SinkFails
  <2>1. pc # "idle" /\ finished' /\ UNCHANGED sink
    BY <1>3 DEF EntryStopped, ProbeStopped, LeaveStopped, HelperProbeStopped, HelperFails, SinkFails,
                Polled, Refuse, helper
  <2> QED
    BY <1>2, <2>1 DEF Contract!SessionNext
<1>4. CASE Admit \/ Probe
  <2>1. pc # "idle" /\ UNCHANGED sink
    BY <1>4 DEF Admit, Probe, helper
  <2>2. finished' \/ UNCHANGED <<event, headerReady, finished>>
    BY <1>4 DEF Admit, Probe, Refuse, reply
  <2> QED
    BY <1>2, <2>1, <2>2, QuietKeepsStage DEF Contract!SessionNext, Contract!sessionVars
<1>5. CASE HelperBegins
  <2>1. Stage' = Stage
    BY <1>5, QuietKeepsStage DEF HelperBegins, reply
  <2>2. headerReady /\ ~finished /\ event \notin {"Done", "Rows"}
    BY <1>5 DEF HelperBegins, IInv, FlowInv, SinkInv
  <2>3. Stage = "body"
    BY <2>2, StageIs
  <2> QED
    BY <1>5, <2>1, <2>3 DEF HelperBegins, Contract!SessionNext, Contract!BeginRows
<1>6. CASE HelperFinishes
  <2>1. Stage' = Stage
    BY <1>6, QuietKeepsStage DEF HelperFinishes, reply
  <2>2. headerReady /\ ~finished /\ event \notin {"Done", "Rows"}
    BY <1>6 DEF HelperFinishes, IInv, FlowInv, SinkInv
  <2>3. Stage = "body"
    BY <2>2, StageIs
  <2> QED
    BY <1>6, <2>1, <2>3 DEF HelperFinishes, Contract!SessionNext, Contract!FinishRows
<1>7. CASE Leave
  <2>1. pc = "leave" /\ headerReady' = info /\ UNCHANGED sink /\ ~finished /\ event # "Done"
    BY <1>7 DEF Leave, helper, IInv, FlowInv
  <2>2. CASE finished'
    BY <1>2, <2>1, <2>2 DEF Contract!SessionNext
  <2>3. CASE ~finished'
    <3>1. event' = progress /\ finished' = finished
      BY <1>7, <2>3 DEF Leave
    <3>2. info \in BOOLEAN /\ headerReady \in BOOLEAN /\ sink \in {"untouched", "begun", "finished"}
      BY DEF IInv, TypeOK
    <3>3. CASE sink = "finished" /\ progress = "Rows"
      <4>1. headerReady /\ event # "Rows"
        BY <2>1, <3>3 DEF IInv, SinkInv
      <4>2. Stage = "body"
        BY <2>1, <4>1, StageIs
      <4>3. Stage' = "rows"
        BY <2>3, <3>1, <3>3 DEF Stage
      <4> QED
        BY <2>1, <3>3, <4>2, <4>3 DEF Contract!SessionNext, Contract!PublishRows
    <3>4. CASE sink = "finished" /\ progress = "Done"
      <4>1. Stage = "rows"
        BY <2>1, <3>4, StageIs DEF IInv, SinkInv
      <4>2. Stage' = "done"
        BY <2>3, <3>1, <3>4 DEF Stage
      <4> QED
        BY <2>1, <4>1, <4>2 DEF Contract!SessionNext, Contract!Finish
    <3>5. CASE sink = "untouched"
      <4>1. progress \in {"Need", "Metadata"} /\ event # "Rows"
        BY <2>1, <3>5 DEF IInv, SinkInv
      <4>2. progress = "Metadata" <=> info /\ ~headerReady
        BY <2>1 DEF IInv, FlowInv
      <4>3. headerReady => info
        BY DEF IInv, FlowInv
      <4>4. CASE progress = "Metadata"
        <5>1. Stage = "header"
          BY <2>1, <4>1, <4>2, <4>4, StageIs
        <5>2. Stage' = "body"
          BY <2>1, <2>3, <3>1, <4>2, <4>4 DEF Stage
        <5> QED
          BY <2>1, <3>5, <5>1, <5>2 DEF Contract!SessionNext, Contract!PublishHeader
      <4>5. CASE progress = "Need"
        <5>1. headerReady' = headerReady
          BY <2>1, <3>2, <4>2, <4>3, <4>5
        <5>2. Stage' = Stage
          BY <2>1, <3>1, <4>1, <4>5, <5>1 DEF Stage
        <5> QED
          BY <2>1, <5>2 DEF Contract!sessionVars
      <4> QED
        BY <4>1, <4>4, <4>5
    <3> QED
      BY <2>1, <3>2, <3>3, <3>4, <3>5 DEF IInv, SinkInv
  <2> QED
    BY <2>2, <2>3
<1> QED
  BY <1>1, <1>3, <1>4, <1>5, <1>6, <1>7 DEF Next, Step, Helper

\* A session keeps the Session contract: the header once and before any row,
\* the rows once and after it, an error final.
THEOREM KeepsTheContract == Spec => ImplementsSession
<1>1. Init => Contract!SessionInit
  BY DEF Init, Stage, Contract!SessionInit
<1>2. IInv /\ [Next]_vars => [Contract!SessionNext]_(Contract!sessionVars)
  BY NextKeepsContract
<1> QED
  BY <1>1, <1>2, Invariant, PTL DEF Spec, ImplementsSession, Contract!SessionSpec
=============================================================================
