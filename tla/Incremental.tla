------------------------------ MODULE Incremental ------------------------------
(***************************************************************************)
(* An incremental decode of one source (RawIncremental in                  *)
(* src/src/zencodec_impl.rs), the whole-file helper of zencodec it wraps,  *)
(* and the driver that owns the bytes.                                     *)
(*                                                                         *)
(* The driver offers a window of the source; a step admits its size, tries *)
(* the native probe on it, lets the helper work, and answers with an event *)
(* and, when it needs more, with the length it asks for.  The source may   *)
(* be corrupt, too large, or of unknown length; a stop request of the job  *)
(* or of the step's observer may arrive between any two polls.             *)
(***************************************************************************)
EXTENDS Integers

CONSTANTS
  Sources,      \* the files considered
  LimitSets,    \* the ResourceLimits considered
  Lengths,      \* the lengths the helper may ask for when it asks for more
  MinPrefix,    \* the least prefix requested while the header is incomplete (4096)
  IsizeMax,     \* the largest slice the platform addresses
  U64Max,       \* the largest value of a 64-bit offset
  MaxStray      \* bound: windows offered away from the start of the source

Some(x)  == {x}
None     == {}
The(opt) == CHOOSE x \in opt : TRUE

\* len: bytes; header: the shortest prefix the native probe accepts; probes:
\* what it makes of it; output: width * height * bytes per pixel; fits: the
\* dimensions pass check_dimensions; pixels: the native decode succeeds.
SourceSpace ==
  [len : Nat, header : Nat, probes : {"ok", "malformed", "overCap"},
   output : Nat, fits : BOOLEAN, pixels : BOOLEAN]

LimitSpace == [input : SUBSET Nat, memory : SUBSET Nat]

ASSUME IncrementalAssumption ==
  /\ Sources \subseteq SourceSpace
  /\ LimitSets \subseteq LimitSpace
  /\ Lengths \subseteq Nat
  /\ MinPrefix \in Nat \ {0} /\ IsizeMax \in Nat \ {0} /\ U64Max \in Nat /\ MaxStray \in Nat
  /\ IsizeMax < U64Max

VARIABLES
  source, limits, announced, sticky,   \* the session's arguments; fixed
  pc,          \* where step() is, "idle" between two steps
  win,         \* the window offered: offset, length, total length if known
  held,        \* the bytes of the source the driver has offered so far
  eof,         \* the driver knows where the source ends
  stray,       \* windows offered away from the start so far
  cached,      \* incremental_probe: a probe has succeeded
  info,        \* the helper has the header
  incomplete,  \* incomplete_probe: the window did not hold the header
  estimated,   \* estimated_output
  asked,       \* the helper's own request, None if it is not a length
  progress,    \* the event the helper returned in this step
  event,       \* the event or error the last step returned
  headerReady, \* header_ready: info() answers
  need,        \* the length of the pending request, 0 if there is none
  finished,    \* an error was returned: later steps answer Finished
  sink,        \* what the row sink was given
  stop,        \* the job's stop token: "quiet", "pending" or "spent"
  watched      \* the observer of the step asks to stop

session == <<source, limits, announced, sticky>>
driver  == <<win, held, eof, stray>>
helper  == <<info, progress, asked, sink>>
reply   == <<event, headerReady, need, finished>>
asks    == <<stop, watched>>
vars    == <<session, pc, driver, cached, incomplete, estimated, helper, reply, asks>>

-----------------------------------------------------------------------------
(* Limits.                                                                 *)

Over(limit, n) == limit # None /\ n > The(limit)

\* RawIncremental::admit_size.
AdmitSize(bytes, output) ==
  IF Over(limits.input, bytes) THEN "LimitExceeded"
  ELSE IF bytes + output > U64Max THEN "OutOfMemory"
  ELSE IF Over(limits.memory, bytes + output) THEN "LimitExceeded"
  ELSE IF bytes > IsizeMax THEN "OutOfMemory"
  ELSE "ok"

\* Mutant: the output is admitted alone, without the input it coexists with.
AdmitHeaderAlone ==
  IF ~source.fits THEN "LimitExceeded"
  ELSE IF source.output > U64Max THEN "OutOfMemory"
  ELSE IF Over(limits.memory, source.output) THEN "LimitExceeded"
  ELSE "ok"

\* The checks of a probed header: dimensions, output size, output memory, and
\* the input (its announced total, or what is there of it) beside the output.
AdmitHeader ==
  IF ~source.fits THEN "LimitExceeded"
  ELSE IF source.output > U64Max THEN "OutOfMemory"
  ELSE IF Over(limits.memory, source.output) THEN "LimitExceeded"
  ELSE AdmitSize(IF win.total # None THEN The(win.total) ELSE win.len, source.output)

\* RawDecodeJob::decoder, which checks the complete file once more.
DecoderAdmits ==
  /\ ~Over(limits.input, source.len)
  /\ source.probes = "ok" /\ source.fits
  /\ ~Over(limits.memory, source.output)

LeastOf(a, b) == IF a < b THEN a ELSE b
MostOf(a, b)  == IF a > b THEN a ELSE b
Capped(limit, n) == IF limit = None THEN n ELSE LeastOf(The(limit), n)

InputCeiling ==
  LET cap == Capped(limits.input, U64Max)
  IN IF win.total = None THEN LeastOf(cap + 1, U64Max) ELSE cap

MemoryCeiling == MostOf(Capped(limits.memory, U64Max) - estimated, 0)

Ceiling == LeastOf(LeastOf(InputCeiling, MemoryCeiling), IsizeMax)

\* Mutant: a prefix that did not probe is asked for again at the same length.
WantedSame ==
  IF incomplete /\ win.total = None THEN LeastOf(MostOf(win.len, MinPrefix), Ceiling)
  ELSE IF asked # None THEN LeastOf(The(asked), Ceiling) ELSE Ceiling

\* The length the next window is asked to have.
Wanted ==
  IF incomplete
  THEN LET have == IF win.off = 0 THEN win.len ELSE 0
           more == MostOf(MostOf(LeastOf(2 * have, U64Max), MinPrefix), LeastOf(have + 1, U64Max))
       IN LeastOf(IF win.total # None THEN The(win.total) ELSE more, Ceiling)
  ELSE IF asked # None THEN LeastOf(The(asked), Ceiling) ELSE Ceiling

ReachesEnd == win.total # None /\ win.off + win.len >= The(win.total)

-----------------------------------------------------------------------------
(* Polling.                                                                *)

Stopping == stop = "pending"
Reported == stop' = (IF sticky THEN stop ELSE "spent") /\ UNCHANGED watched

\* Mutant: the session stays open after an error.
RefuseOpen(e) ==
  /\ pc' = "idle" /\ event' = e /\ finished' = FALSE
  /\ UNCHANGED <<session, driver, headerReady, need>>

\* A step returns an error; the erased session answers Finished from now on.
Refuse(e) ==
  /\ pc' = "idle" /\ event' = e /\ finished' = TRUE
  /\ UNCHANGED <<session, driver, headerReady, need>>

\* Both polls of the step itself: the observer first, then the job's token.
Polled(at) ==
  \/ /\ pc = at /\ watched
     /\ Refuse("Cancelled")
     /\ UNCHANGED <<cached, incomplete, estimated, helper, asks>>
  \/ /\ pc = at /\ ~watched /\ Stopping
     /\ Refuse("Stopped") /\ Reported
     /\ UNCHANGED <<cached, incomplete, estimated, helper>>

-----------------------------------------------------------------------------
Init ==
  /\ source \in Sources /\ limits \in LimitSets
  /\ announced \in BOOLEAN /\ sticky \in BOOLEAN
  /\ pc = "idle"
  /\ win = [off |-> 0, len |-> 0, total |-> None]
  /\ held = 0 /\ eof = announced /\ stray = 0
  /\ cached = FALSE /\ info = FALSE /\ incomplete = FALSE
  /\ estimated = 0 /\ asked = None /\ progress = "none"
  /\ event = "none" /\ headerReady = FALSE /\ need = 1 /\ finished = FALSE
  /\ sink = "untouched"
  /\ stop = "quiet" /\ watched = FALSE

Open == pc = "idle" /\ ~finished /\ event # "Done"

KnownTotal(known) == IF known THEN Some(source.len) ELSE None

\* The length that answers the request.
Enough == IF event = "Need" THEN MostOf(need, held) ELSE held

\* The driver calls step with a prefix of the source: as much as was asked for,
\* or more, or the whole source, whose end it then knows.
Offer ==
  /\ Open
  /\ \E n \in {Enough, MostOf(Enough, source.len)} :
       /\ held' = LeastOf(n, source.len)
       /\ eof' = (eof \/ n > source.len)
       /\ win' = [off |-> 0, len |-> held', total |-> KnownTotal(eof')]
  /\ pc' = "entry"
  /\ UNCHANGED <<session, stray, cached, incomplete, estimated, helper, reply, asks>>

\* A window that starts elsewhere, up to the last offset there is.
OfferStray ==
  /\ Open /\ stray < MaxStray
  /\ \E o \in {1, U64Max}, n \in {0, 1} :
       win' = [off |-> o, len |-> n, total |-> KnownTotal(eof)]
  /\ stray' = stray + 1
  /\ pc' = "entry"
  /\ UNCHANGED <<session, held, eof, cached, incomplete, estimated, helper, reply, asks>>

\* step(): poll, then admit the source's length and the window's end.
EntryStopped == Polled("entry")

Admission ==
  LET whole == IF win.total = None THEN "ok" ELSE AdmitSize(The(win.total), estimated)
      end   == IF win.len = 0 THEN "ok"
               ELSE IF win.off + win.len > U64Max THEN "OutOfMemory"
               ELSE AdmitSize(win.off + win.len, estimated)
  IN IF whole # "ok" THEN whole ELSE end

Admit ==
  /\ pc = "entry" /\ ~watched /\ ~Stopping
  /\ IF Admission # "ok"
     THEN Refuse(Admission) /\ UNCHANGED incomplete
     ELSE /\ pc' = IF ~info /\ win.off = 0 THEN "probe"
                   ELSE IF info THEN "helper" ELSE "leave"
          /\ incomplete' = (~info /\ win.off # 0)
          /\ UNCHANGED <<session, driver, reply>>
  /\ progress' = "Need" /\ asked' = None
  /\ UNCHANGED <<cached, estimated, info, sink, asks>>

\* The job's probe polls, then answers from its cache or from the native parser.
ProbeStopped ==
  /\ pc = "probe" /\ Stopping
  /\ Refuse("Stopped") /\ Reported
  /\ UNCHANGED <<cached, incomplete, estimated, helper>>

ProbeOutcome ==
  IF cached \/ (source.probes = "ok" /\ win.len >= source.header) THEN "ok"
  ELSE IF source.probes = "overCap" /\ win.len >= source.header THEN "LimitExceeded"
  ELSE "Malformed"

Probe ==
  /\ pc = "probe" /\ ~Stopping
  /\ CASE ProbeOutcome = "ok" /\ AdmitHeader = "ok" ->
            /\ cached' = TRUE /\ estimated' = source.output /\ incomplete' = FALSE
            /\ pc' = "helper"
            /\ UNCHANGED <<session, driver, reply>>
       [] ProbeOutcome = "ok" /\ AdmitHeader # "ok" ->
            /\ cached' = TRUE
            /\ Refuse(AdmitHeader)
            /\ UNCHANGED <<estimated, incomplete>>
       [] ProbeOutcome = "LimitExceeded" \/ (ProbeOutcome = "Malformed" /\ ReachesEnd) ->
            /\ Refuse(ProbeOutcome)
            /\ UNCHANGED <<cached, estimated, incomplete>>
       [] OTHER ->
            /\ incomplete' = TRUE /\ pc' = "leave"
            /\ UNCHANGED <<session, driver, cached, estimated, reply>>
  /\ UNCHANGED <<helper, asks>>

-----------------------------------------------------------------------------
(* The helper, zencodec's whole-file incremental decoder (external).       *)

\* It asks for the rest of a source of known length, else for some more bytes.
AskForMore ==
  \/ win.total # None /\ asked' = Some(The(win.total))
  \/ win.total = None /\ \E m \in Lengths : m > win.len /\ asked' = Some(m)
  \/ asked' = None

\* It probes the header through the job.  Short of the end of the source it
\* takes any error of that probe for a header that is not complete yet, and the
\* one error left to a probe that has succeeded before is a stop request.
HelperProbes ==
  /\ pc = "helper" /\ ~info
  /\ Stopping => ~ReachesEnd
  /\ IF Stopping
     THEN Reported /\ progress' = "Need" /\ UNCHANGED info /\ AskForMore
     ELSE info' = TRUE /\ progress' = "Metadata" /\ UNCHANGED <<asks, asked>>
  /\ pc' = "leave"
  /\ UNCHANGED <<session, driver, cached, incomplete, estimated, sink, reply>>

HelperProbeStopped ==
  /\ pc = "helper" /\ ~info /\ Stopping /\ ReachesEnd
  /\ Refuse("Stopped") /\ Reported
  /\ UNCHANGED <<cached, incomplete, estimated, helper>>

\* It waits for a window that holds the whole source.
HelperWaits ==
  /\ pc = "helper" /\ info /\ sink = "untouched"
  /\ ~(win.off = 0 /\ ReachesEnd)
  /\ progress' = "Need" /\ AskForMore
  /\ pc' = "leave"
  /\ UNCHANGED <<session, driver, cached, incomplete, estimated, info, sink, reply, asks>>

\* Then it decodes through the job's one-shot decoder, which may be stopped.
HelperFails ==
  /\ pc = "helper" /\ info /\ sink = "untouched" /\ win.off = 0 /\ ReachesEnd
  /\ \/ Stopping /\ Refuse("Stopped") /\ Reported
     \/ ~Stopping /\ ~DecoderAdmits /\ Refuse("LimitExceeded") /\ UNCHANGED asks
     \/ ~Stopping /\ DecoderAdmits /\ ~source.pixels /\ Refuse("Malformed") /\ UNCHANGED asks
  /\ UNCHANGED <<cached, incomplete, estimated, helper>>

HelperBegins ==
  /\ pc = "helper" /\ info /\ sink = "untouched" /\ win.off = 0 /\ ReachesEnd
  /\ ~Stopping /\ DecoderAdmits /\ source.pixels
  /\ sink' = "begun"
  /\ UNCHANGED <<session, pc, driver, cached, incomplete, estimated, info, progress, asked,
                 reply, asks>>

SinkFails ==
  /\ pc = "helper" /\ sink = "begun"
  /\ Refuse("Io")
  /\ UNCHANGED <<cached, incomplete, estimated, helper, asks>>

HelperFinishes ==
  /\ pc = "helper" /\ sink = "begun"
  /\ sink' = "finished" /\ progress' = "Rows"
  /\ pc' = "leave"
  /\ UNCHANGED <<session, driver, cached, incomplete, estimated, info, asked, reply, asks>>

HelperIsDone ==
  /\ pc = "helper" /\ sink = "finished"
  /\ progress' = "Done"
  /\ pc' = "leave"
  /\ UNCHANGED <<session, driver, cached, incomplete, estimated, info, asked, sink, reply, asks>>

Helper ==
  \/ HelperProbes \/ HelperProbeStopped \/ HelperWaits \/ HelperFails
  \/ HelperBegins \/ SinkFails \/ HelperFinishes \/ HelperIsDone

-----------------------------------------------------------------------------
(* The end of step().                                                      *)

LeaveStopped == Polled("leave")

\* Mutant: a request the window already answers is made all the same.
UnaskableNever == FALSE

\* A request no longer than the window would never be answered with more.
Unaskable == win.off = 0 /\ Wanted <= win.len

\* Mutant: the polls after the helper's work are dropped.
LeaveUnpolled ==
  /\ pc = "leave"
  /\ headerReady' = info /\ event' = progress
  /\ need' = (IF progress = "Need" THEN Wanted ELSE 0)
  /\ pc' = "idle"
  /\ UNCHANGED <<session, driver, finished, cached, incomplete, estimated, helper, asks>>

Leave ==
  /\ pc = "leave" /\ ~watched /\ ~Stopping
  /\ headerReady' = info
  /\ pc' = "idle"
  /\ IF progress = "Need" /\ Unaskable
     THEN /\ event' = IF limits.memory # None /\ Ceiling = MemoryCeiling
                      THEN "LimitExceeded" ELSE "OutOfMemory"
          /\ finished' = TRUE
          /\ UNCHANGED need
     ELSE /\ event' = progress
          /\ need' = IF progress = "Need" THEN Wanted ELSE 0
          /\ UNCHANGED finished
  /\ UNCHANGED <<session, driver, cached, incomplete, estimated, helper, asks>>

-----------------------------------------------------------------------------
\* Someone raises the job's stop token, or the observer of the steps.
Raise ==
  /\ stop = "quiet" /\ (Open \/ pc # "idle")
  /\ stop' = "pending"
  /\ UNCHANGED <<session, pc, driver, cached, incomplete, estimated, helper, reply, watched>>

Watch ==
  /\ ~watched /\ (Open \/ pc # "idle")
  /\ watched' = TRUE
  /\ UNCHANGED <<session, pc, driver, cached, incomplete, estimated, helper, reply, stop>>

Ended == pc = "idle" /\ ~Open /\ UNCHANGED vars

Step == EntryStopped \/ Admit \/ ProbeStopped \/ Probe \/ Helper \/ LeaveStopped \/ Leave

Next == Offer \/ OfferStray \/ Step \/ Raise \/ Watch \/ Ended

\* A step runs to its end, and the driver answers every request; it may offer
\* windows elsewhere in between, and nobody is obliged to ask for a stop.
Spec == Init /\ [][Next]_vars /\ WF_vars(Step) /\ WF_vars(Offer)

-----------------------------------------------------------------------------
Events == {"none", "Need", "Metadata", "Rows", "Done"}
Failures == {"Cancelled", "Stopped", "LimitExceeded", "OutOfMemory", "Malformed", "Io"}

TypeOK ==
  /\ source \in SourceSpace /\ limits \in LimitSpace
  /\ announced \in BOOLEAN /\ sticky \in BOOLEAN
  /\ pc \in {"idle", "entry", "probe", "helper", "leave"}
  /\ win \in [off : Nat, len : Nat, total : SUBSET Nat]
  /\ held \in Nat /\ eof \in BOOLEAN /\ stray \in 0 .. MaxStray
  /\ cached \in BOOLEAN /\ info \in BOOLEAN /\ incomplete \in BOOLEAN
  /\ estimated \in Nat /\ asked \in SUBSET Nat
  /\ progress \in Events /\ event \in Events \cup Failures
  /\ headerReady \in BOOLEAN /\ need \in 0 .. IsizeMax /\ finished \in BOOLEAN
  /\ sink \in {"untouched", "begun", "finished"}
  /\ stop \in {"quiet", "pending", "spent"} /\ watched \in BOOLEAN

\* Seen through what is published, a session keeps the Session contract: the
\* header once and first, the rows once and after it, errors final.
Stage ==
  CASE finished -> "failed"
    [] ~finished /\ event = "Done" -> "done"
    [] ~finished /\ event = "Rows" -> "rows"
    [] ~finished /\ event \notin {"Done", "Rows"} /\ headerReady -> "body"
    [] OTHER -> "header"

Contract == INSTANCE Session WITH stage <- Stage
ImplementsSession == Contract!SessionSpec

\* Between steps, the bytes a driver was made to hold and the output they will
\* decode to fit the memory budget together, and so does the next request,
\* which a slice can hold; only the byte that tells the end of a source may
\* exceed the input cap.  A
\* published header was admitted: its dimensions, and its output beside the
\* input that carried it.
BudgetKept ==
  /\ pc = "idle" /\ ~finished /\ event # "none" =>
       /\ win.off = 0 => AdmitSize(win.len, estimated) = "ok"
       /\ event = "Need" =>
            /\ need <= IsizeMax
            /\ ~Over(limits.memory, need + estimated)
            /\ ~Over(limits.input, IF win.total = None THEN need - 1 ELSE need)
  /\ headerReady =>
       /\ source.fits
       /\ estimated = source.output
       /\ win.total # None => AdmitSize(The(win.total), source.output) = "ok"

\* A source the limits allow, with room for the byte that tells its end, is
\* never refused: only a stop, the sink or the source itself ends the session.
Admissible ==
  LET room == IF announced THEN source.len ELSE source.len + 1 IN
  /\ source.probes = "ok" /\ source.fits /\ source.header <= source.len
  /\ ~Over(limits.input, source.len)
  /\ ~Over(limits.memory, room + source.output)
  /\ room <= IsizeMax /\ room + source.output <= U64Max

NeverDeniedInVain ==
  Admissible /\ stray = 0 => event \notin {"LimitExceeded", "OutOfMemory"}

\* A step never answers success to a stop request that is still raised.
StopIsHeard == [][event' # event /\ event' \in Events => stop # "pending" /\ ~watched]_vars

\* With a driver that answers every request, every session comes to an end.
Terminates == <>(pc = "idle" /\ (finished \/ event = "Done"))

-----------------------------------------------------------------------------
\* tests/shared_contracts.rs: "transient_job_stop_after_preflight_cannot_be_
\* swallowed_by_a_second_probe": a reported one-shot request ends the session.
TransientStopIsTerminal == stop = "spent" /\ pc = "idle" => finished
=============================================================================
