---------------------------- MODULE InventoryProofs ----------------------------
(***************************************************************************)
(* For files, budgets and stop tokens of every kind: a stop that any walk  *)
(* of an inventory heard of ends the call with the token's first reason;   *)
(* and what a delivered report says of the file, that its parts nest, that *)
(* what was not listed is unknown, that the packet is there once, and that *)
(* nothing lies beyond the logical end.                                    *)
(***************************************************************************)
EXTENDS Inventory, FiniteSetTheorems, SequenceTheorems, TLAPS

\* What the walks leave behind: no walk stops early, and no cancel is noted,
\* but for a reason that is kept.
Heeded ==
  /\ reason = asked
  /\ truncated \/ cancelled \/ tiff.cancelled => reason # "none"

\* The verdict, once there is one, is the last thing the call gives.
Verdict ==
  /\ result # "none" => pc = "done"
  /\ result = "stopped" => reason # "none"
  /\ result = "inventory" => reason = "none"

\* A TIFF's walk has its mark.
Marked == "cancelled" \in DOMAIN tiff

StopInv == Heeded /\ Verdict /\ Marked

-------------------------------------------------------------------------------
(***************************************************************************)
(* The token.                                                              *)
(***************************************************************************)
\* Asking keeps the first reason and what is known of it; a reason once given
\* stays (InventoryStop::should_stop).
LEMMA AskKeeps ==
  ASSUME reason = asked, Ask
  PROVE  /\ reason' = asked'
         /\ reason # "none" => reason' # "none"
BY DEF Ask, Heard

\* The one step that leaves the token alone or asks it once, and keeps the
\* marks or sets them only when told.
LEMMA HeededKept ==
  ASSUME Heeded, Ask \/ UNCHANGED stop,
         truncated' => truncated \/ Told,
         cancelled' => cancelled \/ tiff.cancelled \/ Told,
         tiff'.cancelled => tiff.cancelled \/ Told
  PROVE  Heeded'
<1>1. reason' = asked' /\ (reason # "none" => reason' # "none")
  BY AskKeeps DEF Heeded, stop
<1> QED
  BY <1>1 DEF Heeded, Told

-------------------------------------------------------------------------------
LEMMA StopInit == Init => StopInv
BY DEF Init, StopInv, Heeded, Verdict, Marked, NewTiff

\* Only a walk that is told to stop is cut short, and a box walk notes it.
LEMMA WalkBoxMarks ==
  ASSUME WalkBox
  PROVE  /\ truncated' => truncated \/ Told
         /\ cancelled' => cancelled \/ Told
<1>1. CASE Told
  BY <1>1
<1>2. CASE ~Told /\ BadHeader
  BY <1>2 DEF BadHeader
<1>3. CASE ~Told /\ \E kind \in KindsIn[Frame.parent], size \in 0 .. Size : ReadBox(kind, size)
  BY <1>3 DEF ReadBox
<1> QED
  BY <1>1, <1>2, <1>3 DEF WalkBox

\* Reading a header, or none, or being told to stop.
LEMMA WalkBoxHeeds == StopInv /\ WalkBox => StopInv'
<1> SUFFICES ASSUME StopInv, WalkBox PROVE StopInv'
  OBVIOUS
<1>1. Ask /\ UNCHANGED <<tiff, result>> /\ pc = "boxes"
  BY DEF WalkBox, Listing
<1>2. Heeded'
  BY <1>1, WalkBoxMarks, HeededKept DEF StopInv
<1>3. Verdict' /\ Marked'
  BY <1>1 DEF StopInv, Verdict, Marked
<1> QED
  BY <1>2, <1>3 DEF StopInv

\* A walk of zenmeta's asks the rules, and the rules the token.
LEMMA TiffWalkHeeds ==
  ASSUME NEW t, StopInv, TiffWalk(t), DOMAIN t = DOMAIN tiff, pc # "done"
  PROVE  StopInv'
<1>1. Ask /\ UNCHANGED <<cancelled, result>> /\ result = "none"
  BY DEF TiffWalk, placed, StopInv, Verdict
<1>2. "cancelled" \in DOMAIN t
  BY DEF StopInv, Marked
<1>3. tiff'.cancelled = Told /\ Marked'
  BY <1>2 DEF TiffWalk, Marked
<1>4. truncated' => truncated \/ Told
  BY DEF TiffWalk
<1>5. Heeded'
  BY <1>1, <1>3, <1>4, HeededKept DEF StopInv
<1>6. Verdict'
  BY <1>1 DEF Verdict
<1> QED
  BY <1>3, <1>5, <1>6 DEF StopInv

\* Steps that do not ask the token and set no mark but a TIFF's own.
LEMMA QuietHeeds ==
  ASSUME StopInv, UNCHANGED <<stop, truncated, result>>, pc # "done" \/ pc' = pc,
         cancelled' => cancelled \/ tiff.cancelled,
         Marked', tiff'.cancelled => tiff.cancelled
  PROVE  StopInv'
<1>1. Heeded'
  BY HeededKept DEF StopInv
<1>2. Verdict'
  BY DEF StopInv, Verdict, stop
<1> QED
  BY <1>1, <1>2 DEF StopInv

\* A TIFF starts unmarked.
LEMMA NewTiffUnmarked ==
  ASSUME NEW role, NEW in, NEW at, NEW end, StartTiff(role, in, at, end)
  PROVE  Marked' /\ ~tiff'.cancelled
BY DEF StartTiff, NewTiff, Marked

\* The answer is a stop only when a reason is kept, and a report only when none.
LEMMA StartHeeds == StopInv /\ Start => StopInv'
<1> SUFFICES ASSUME StopInv, Start PROVE StopInv'
  OBVIOUS
<1>1. Ask /\ UNCHANGED <<truncated, cancelled>> /\ pc = "start" /\ result = "none"
  BY DEF Start, StopInv, Verdict
<1>2. Marked' /\ (tiff'.cancelled => tiff.cancelled)
  <2>1. CASE UNCHANGED tiff
    BY <2>1 DEF StopInv, Marked
  <2>2. CASE StartTiff("Main", File, 1, Size + 1)
    BY <2>2, NewTiffUnmarked
  <2> QED
    BY <2>1, <2>2 DEF Start, Dispatch
<1>3. Heeded'
  BY <1>1, <1>2, HeededKept DEF StopInv
<1>4. Verdict'
  BY <1>1 DEF Start, Answer, Dispatch, Verdict, Told
<1> QED
  BY <1>2, <1>3, <1>4 DEF StopInv

LEMMA FinalHeeds == StopInv /\ Final => StopInv'
<1> SUFFICES ASSUME StopInv, Final PROVE StopInv'
  OBVIOUS
<1>1. Ask /\ UNCHANGED <<truncated, cancelled, tiff>>
  BY DEF Final
<1>2. Heeded' /\ Marked'
  BY <1>1, HeededKept DEF StopInv, Marked
<1>3. Verdict'
  BY DEF Final, Answer, Verdict, Told
<1> QED
  BY <1>2, <1>3 DEF StopInv

LEMMA StopStep == StopInv /\ [Next]_vars => StopInv'
<1> SUFFICES ASSUME StopInv, [Next]_vars PROVE StopInv'
  OBVIOUS
<1>0. UNCHANGED tiff => Marked' /\ (tiff'.cancelled => tiff.cancelled)
  BY DEF StopInv, Marked
<1>1. CASE Start
  BY <1>1, StartHeeds
<1>2. CASE Final
  BY <1>2, FinalHeeds
<1>3. CASE WalkBox
  BY <1>3, WalkBoxHeeds
<1>4. CASE EndOfBox
  BY <1>0, <1>4, QuietHeeds DEF EndOfBox, Listing
<1>5. CASE StartCmt
  <2>1. Marked' /\ ~tiff'.cancelled
    BY <1>5, NewTiffUnmarked DEF StartCmt
  <2> QED
    BY <1>5, <2>1, QuietHeeds DEF StartCmt
<1>6. CASE MapSamples
  BY <1>0, <1>6, QuietHeeds DEF MapSamples
<1>7. CASE FirstWalk
  <2> PICK sony \in BOOLEAN, ok \in BOOLEAN : TiffWalk([tiff EXCEPT !.sony = sony, !.ok = ok])
    BY <1>7 DEF FirstWalk
  <2> QED
    BY <1>7, TiffWalkHeeds DEF FirstWalk
<1>8. CASE SecondWalk
  <2> PICK ok \in BOOLEAN : TiffWalk([tiff EXCEPT !.follows = tiff.sony, !.ok = ok])
    BY <1>8 DEF SecondWalk
  <2> QED
    BY <1>8, TiffWalkHeeds DEF SecondWalk
<1>9. CASE MakerNotes
  <2>1. UNCHANGED <<cancelled, tiff, result>> /\ pc = "notes"
    BY <1>9 DEF MakerNotes
  <2>a. \/ Ask /\ truncated' = (truncated \/ Told)
        \/ UNCHANGED <<stop, truncated>>
    BY <1>9 DEF MakerNotes
  <2>2. (Ask \/ UNCHANGED stop) /\ (truncated' => truncated \/ Told)
    <3>1. CASE Ask /\ truncated' = (truncated \/ Told)
      BY <3>1
    <3>2. CASE UNCHANGED <<stop, truncated>>
      BY <3>2
    <3> QED
      BY <2>a, <3>1, <3>2
  <2>4. Heeded'
    BY <1>0, <2>1, <2>2, HeededKept DEF StopInv
  <2>3. Verdict'
    BY <2>1 DEF StopInv, Verdict
  <2> QED
    BY <1>0, <2>1, <2>3, <2>4 DEF StopInv
<1>10. CASE PlaceTiff
  BY <1>0, <1>10, QuietHeeds DEF PlaceTiff
<1>11. CASE RafHeader
  BY <1>0, <1>11, QuietHeeds DEF RafHeader
<1>12. ASSUME NEW s, NEW kind, NEW disp, NEW role, NEW at, NEW next,
              PlaceSection(s, kind, disp, role, at, next), pc # "done"
       PROVE  StopInv'
  <2>1. Marked' /\ (tiff'.cancelled => tiff.cancelled)
    BY <1>0, <1>12, NewTiffUnmarked DEF PlaceSection
  <2> QED
    BY <1>12, <2>1, QuietHeeds DEF PlaceSection
<1>13. CASE JpegSection
  BY <1>12, <1>13 DEF JpegSection
<1>14. CASE CfaSection
  BY <1>12, <1>14 DEF CfaSection
<1>15. CASE RafRecords
  BY <1>0, <1>15, QuietHeeds DEF RafRecords
<1>16. CASE UNCHANGED vars
  BY <1>0, <1>16, QuietHeeds DEF vars
<1> QED
  BY <1>1, <1>2, <1>3, <1>4, <1>5, <1>6, <1>7, <1>8, <1>9, <1>10, <1>11, <1>13, <1>14,
     <1>15, <1>16 DEF Next

\* The invariant says what the property says.
LEMMA StopInvSuffices == StopInv => StopIsFinal
BY DEF StopInv, Heeded, Verdict, StopIsFinal, Delivered

\* A stop any walk heard of ends the call, with the reason the token gave first
\* (InventoryStop, and inventory_with's last check).
THEOREM StopsForGood == Spec => []StopIsFinal
<1>1. Spec => []StopInv
  BY StopInit, StopStep, PTL DEF Spec
<1> QED
  BY <1>1, StopInvSuffices, PTL

-------------------------------------------------------------------------------
(***************************************************************************)
(* What the walks have placed.                                             *)
(***************************************************************************)
Walking == {"walk", "rewalk", "notes", "place"}
Parents == {"Top", "Cmt"} \cup Containers

FrameSpace ==
  [at : 1 .. Size + 1, end : 1 .. Size + 1, depth : Nat, trak : Nat, parent : Parents, box : File .. Size]

TiffSpace ==
  [role : {"Main", "Cmt", "Jpeg", "Cfa"}, in : File .. Size, at : 1 .. Size + 1, end : 1 .. Size + 1,
   sony : BOOLEAN, follows : BOOLEAN, ok : BOOLEAN, cancelled : BOOLEAN]

\* A loop counts a track there is, and rawler lists no container it does not read.
Fits(s, tracks) ==
  \A i \in 1 .. Len(s) : s[i].trak <= tracks /\ (build = "rawler" => s[i].parent # "Other")

Typed ==
  /\ TypeOK
  /\ stack \in Seq(FrameSpace) /\ tiff \in TiffSpace
  /\ traks \in Seq(SUBSET {"stsz", "co64", "stco", "CTMD"})
  /\ Fits(stack, Len(traks))

\* Which steps belong to which container, and what the TIFF under way is in.
Course ==
  /\ pc \in {"start", "boxes", "samples", "raf", "jpeg", "cfa", "records", "final", "done"} \cup Walking
  /\ pc \in {"boxes", "samples"} => IsCr3
  /\ pc \in {"raf", "jpeg", "cfa", "records"} => file.container = "raf"
  /\ pc \notin {"boxes"} \cup Walking => stack = << >>
  /\ stack # << >> => IsCr3
  /\ pc = "boxes" => stack # << >>
  /\ pc \in Walking =>
       CASE IsCr3 -> /\ tiff.role = "Cmt" /\ Len(stack) >= 2 /\ Frame.parent = "Cmt"
                     /\ tiff.in = Frame.box /\ tiff.at = Frame.at /\ tiff.end = Frame.end
         [] file.container = "tiff" -> tiff.role = "Main" /\ tiff.in = File /\ tiff.end = Size + 1
         [] OTHER -> file.container = "raf" /\ tiff.role \in {"Jpeg", "Cfa"} /\ tiff.in # File
  /\ pc = "start" => parts = {} /\ ~packetPlaced /\ ~stopped
  /\ pc \in {"start", "raf"} => logicalEnd = 1

\* The parts a loop lists: boxes, and what is no box.
IsBox(p)    == p.kind \in Kinds
IsListed(p) == p.kind \in Kinds \cup {"rest"}

\* The loops in progress, from the file inwards: each lists a box the one
\* around it has gone past, and has itself gone past what it has listed.
LoopsOver(P, s) ==
  /\ \A i \in 1 .. Len(s) :
       LET f == s[i] IN
       /\ f.at <= f.end /\ f.box < f.at
       /\ i = 1 <=> f.box = File
       /\ i = 1 <=> f.parent = "Top"
       /\ f.parent = "Cmt" => \A p \in P : p.at = f.box => ~p.lists
       /\ \A p \in P : IsBox(p) /\ p.at = f.box => p.end = f.end
       /\ \A p \in P : IsListed(p) /\ p.in = f.box => p.end <= f.at
  /\ \A i, j \in 1 .. Len(s) : i < j => s[j].end <= s[i].at /\ s[i].box < s[j].box
  /\ s # << >> => \A p \in P : p.in < s[Len(s)].at /\ (IsListed(p) => p.at < s[Len(s)].at)

\* What is listed nests, and a place names a box.
Nests(P) ==
  /\ \A p, q \in P : IsBox(p) /\ q.in = p.at => p.at < q.at /\ q.end <= p.end
  /\ \A p, q \in P : IsListed(p) /\ IsListed(q) /\ p # q /\ p.in = q.in =>
       p.end <= q.at \/ q.end <= p.at
  /\ \A p, q \in P : IsBox(p) /\ IsBox(q) /\ p.at = q.at => p.end = q.end

\* What a loop has gone past, it has listed.
Covers(P, p, end) ==
  \A x \in p.at + 1 .. end - 1 : \E q \in P : q.in = p.at /\ IsListed(q) /\ x \in q.at .. q.end - 1

\* A box is listed to its end, or known not to be.
Settled(P, p, short) == Covers(P, p, p.end) \/ (short /\ p.gap = "Unknown")

\* Or it is being listed.
Accounts(P, s, short) ==
  \A p \in P : p.lists =>
    \/ Settled(P, p, short)
    \/ \E i \in 1 .. Len(s) : s[i].box = p.at /\ Covers(P, p, s[i].at)

Loops == LoopsOver(parts, stack)

Nested == IsCr3 => Nests(parts)

Accounted ==
  /\ \A p \in parts : p.lists => IsBox(p)
  /\ IsCr3 /\ reason = "none" => Accounts(parts, stack, stopped)

\* A report of an inventory that was cut short says so.
Reported ==
  IsCr3 /\ stopped /\ pc \in {"final", "done"} =>
    gap = "Unknown" /\ \A m \in Media : m.gap = "Unknown"

Packets == {p \in parts : p.kind = "XMP"}

\* The packet is among the parts.
Once == IF Packet = {} THEN Packets = {} ELSE \E q \in parts : Packets = {q}

\* The packet is surfaced once: the top-level loop has gone past it.
Surfacing ==
  /\ pc \in {"raf", "jpeg", "cfa", "records", "final"} \cup Walking /\ ~IsCr3 /\ file.container # "other" => Once
  /\ pc = "done" /\ result = "inventory" /\ file.container # "other" => Once
  /\ IsCr3 /\ pc = "final" => Once
  /\ IsCr3 /\ pc \in {"start", "boxes", "samples"} \cup Walking =>
       IF ~packetPlaced THEN Packets = {}
       ELSE /\ Packet # {}
            /\ \E q \in parts : /\ Packets = {q}
                                /\ \A p \in Packet : q.at = p.at /\ q.end = p.end
                                /\ stack # << >> => q.end <= stack[1].at

\* Only the packet lies beyond the end of what the container lists: it is where
\* the outermost loop stands.
Ending ==
  /\ \A p \in parts : p.in = File /\ p.kind # "XMP" => p.end <= logicalEnd
  /\ stack # << >> => logicalEnd = stack[1].at

PlaceInv == Typed /\ Course /\ Loops /\ Nested /\ Accounted /\ Reported /\ Surfacing /\ Ending

-------------------------------------------------------------------------------
(***************************************************************************)
(* Steps that place nothing.                                               *)
(***************************************************************************)
\* A reason is never taken back.
LEMMA ReasonStays ==
  ASSUME StopInv, Ask \/ UNCHANGED stop, reason' = "none"
  PROVE  reason = "none"
BY AskKeeps DEF StopInv, Heeded, stop

LEMMA SamePlaces ==
  ASSUME StopInv, PlaceInv, Ask \/ UNCHANGED stop,
         UNCHANGED <<given, parts, stack, logicalEnd, stopped>>
  PROVE  Loops' /\ Nested' /\ Accounted' /\ Ending'
<1>1. parts' = parts /\ stack' = stack /\ stopped' = stopped /\ IsCr3' = IsCr3
  BY DEF IsCr3, given
<1>2. Loops' /\ Nested' /\ Ending'
  BY <1>1 DEF PlaceInv, Loops, Nested, Ending
<1>3. Accounted'
  BY <1>1, ReasonStays DEF PlaceInv, Accounted
<1> QED
  BY <1>2, <1>3

LEMMA SamePackets ==
  ASSUME UNCHANGED <<given, parts>>
  PROVE  Packet' = Packet /\ Packets' = Packets /\ (Once' <=> Once) /\ IsCr3' = IsCr3
BY DEF Packet, Packets, Once, IsCr3, given

\* Asking gives a reason there is.
LEMMA AskTyped ==
  ASSUME TypeOK, Ask \/ UNCHANGED stop
  PROVE  reason' \in Reasons \cup {"none"} /\ asked' \in Reasons \cup {"none"}
BY DEF TypeOK, Ask, Heard, stop

\* zenmeta's walks.
LEMMA WalksPlaceNothing ==
  ASSUME StopInv, PlaceInv, FirstWalk \/ SecondWalk \/ MakerNotes
  PROVE  PlaceInv'
<1>1. /\ UNCHANGED <<given, stack, walk, cancelled, widths, placed, result>>
      /\ pc \in Walking \ {"place"} /\ pc' \in Walking
      /\ Ask \/ UNCHANGED stop
      /\ truncated' \in BOOLEAN
      /\ tiff' \in TiffSpace
      /\ tiff'.role = tiff.role /\ tiff'.in = tiff.in /\ tiff'.at = tiff.at /\ tiff'.end = tiff.end
  <2>1. CASE FirstWalk
    <3>1. PICK sony \in BOOLEAN, ok \in BOOLEAN : TiffWalk([tiff EXCEPT !.sony = sony, !.ok = ok])
      BY <2>1 DEF FirstWalk
    <3> QED
      BY <2>1, <3>1 DEF FirstWalk, TiffWalk, PlaceInv, Typed, TypeOK, TiffSpace, Told, Walking
  <2>2. CASE SecondWalk
    <3>1. PICK ok \in BOOLEAN : TiffWalk([tiff EXCEPT !.follows = tiff.sony, !.ok = ok])
      BY <2>2 DEF SecondWalk
    <3> QED
      BY <2>2, <3>1 DEF SecondWalk, TiffWalk, PlaceInv, Typed, TypeOK, TiffSpace, Told, Walking
  <2>3. CASE MakerNotes
    BY <2>3 DEF MakerNotes, PlaceInv, Typed, TypeOK, Told, Walking
  <2> QED
    BY <2>1, <2>2, <2>3
<1>2. Loops' /\ Nested' /\ Accounted' /\ Ending'
  BY <1>1, SamePlaces DEF walk, placed
<1>3. Typed'
  BY <1>1, AskTyped DEF PlaceInv, Typed, TypeOK, given, walk, placed, Fits
<1>4. Frame' = Frame
  BY <1>1 DEF Frame
<1>5. Course'
  BY <1>1, <1>4, SamePackets DEF PlaceInv, Course, Walking, given, walk, placed
<1>6. Reported'
  BY <1>1 DEF Reported, Walking
<1>7. Surfacing'
  BY <1>1, SamePackets DEF PlaceInv, Surfacing, Walking, given, walk, placed
<1> QED
  BY <1>2, <1>3, <1>5, <1>6, <1>7 DEF PlaceInv

\* The innermost loop has its type.
LEMMA FrameIs ==
  ASSUME PlaceInv, stack # << >>
  PROVE  /\ Len(stack) \in Nat \ {0} /\ Len(stack) \in 1 .. Len(stack)
         /\ Frame \in FrameSpace /\ Frame = stack[Len(stack)]
         /\ \A i \in 1 .. Len(stack) : stack[i] \in FrameSpace
BY DEF PlaceInv, Typed, Frame

LEMMA StartCmtPlaces ==
  ASSUME StopInv, PlaceInv, StartCmt
  PROVE  PlaceInv'
<1>1. /\ pc = "boxes" /\ pc' = "walk" /\ stack # << >> /\ Frame.parent = "Cmt"
      /\ tiff' = NewTiff("Cmt", Frame.box, Frame.at, Frame.end)
      /\ UNCHANGED <<given, stop, truncated, stack, walk, cancelled, widths, placed, result>>
  BY DEF StartCmt, StartTiff, PlaceInv, Course
<1>2. Len(stack) >= 2
  BY <1>1, FrameIs DEF PlaceInv, Loops, LoopsOver
<1>3. Loops' /\ Nested' /\ Accounted' /\ Ending'
  BY <1>1, SamePlaces DEF walk, placed
<1>4. tiff' \in TiffSpace
  BY <1>1, FrameIs DEF NewTiff, TiffSpace, FrameSpace
<1>5. Typed'
  BY <1>1, <1>4 DEF PlaceInv, Typed, TypeOK, given, stop, walk, placed, Fits
<1>6. Course'
  <2>1. IsCr3 /\ IsCr3' /\ Frame' = Frame
    BY <1>1 DEF PlaceInv, Course, IsCr3, Frame, given
  <2>2. tiff'.role = "Cmt" /\ tiff'.in = Frame.box /\ tiff'.at = Frame.at /\ tiff'.end = Frame.end
    BY <1>1 DEF NewTiff
  <2> QED
    BY <1>1, <1>2, <2>1, <2>2 DEF Course, Walking, IsCr3
<1>7. Reported' /\ Surfacing'
  BY <1>1, SamePackets DEF PlaceInv, Course, Reported, Surfacing, Walking, given, walk, placed
<1> QED
  BY <1>3, <1>5, <1>6, <1>7 DEF PlaceInv

-------------------------------------------------------------------------------
(***************************************************************************)
(* A TIFF is placed.                                                       *)
(***************************************************************************)
LEMMA ContentsAre ==
  ASSUME PlaceInv, NEW hit \in BOOLEAN, NEW read \in BOOLEAN
  PROVE  \A p \in Contents(hit, read) :
           /\ p \in PartSpace /\ p.kind = "tiff" /\ ~p.lists
           /\ p.in = tiff.in /\ p.at = tiff.at /\ p.end = tiff.end /\ p.at < p.end
<1>1. tiff \in TiffSpace /\ Size \in Nat \ {0}
  BY InventoryAssumption DEF PlaceInv, Typed, InventoryAssumption
<1>2. CASE tiff.at >= tiff.end
  BY <1>2 DEF Contents
<1>3. CASE tiff.at < tiff.end
  <2>1. tiff.end \in 2 .. Size + 1 /\ tiff.at \in 1 .. Size
    BY <1>1, <1>3 DEF TiffSpace
  <2> DEFINE body == Part(tiff.at, tiff.end, tiff.in, "tiff", IF read THEN "Structure" ELSE "Skipped")
  <2>2. body \in PartSpace /\ [body EXCEPT !.gap = "Unknown"] \in PartSpace
    BY <1>1, <2>1 DEF Part, PartSpace, Consumed, TiffSpace
  <2>3. Contents(hit, read) \subseteq {body, [body EXCEPT !.gap = "Unknown"]}
    BY DEF Contents
  <2>4. \A p \in {body, [body EXCEPT !.gap = "Unknown"]} :
          p.kind = "tiff" /\ ~p.lists /\ p.in = tiff.in /\ p.at = tiff.at /\ p.end = tiff.end
    BY DEF Part
  <2> QED
    BY <1>3, <2>2, <2>3, <2>4
<1> QED
  BY <1>1, <1>2, <1>3 DEF TiffSpace

-------------------------------------------------------------------------------
(***************************************************************************)
(* What becomes of parts and loops.                                        *)
(***************************************************************************)
LEMMA Positions ==
  ASSUME NEW f \in FrameSpace
  PROVE  f.at \in Int /\ f.end \in Int /\ f.box \in Int
BY DEF FrameSpace, File

\* A loop ends; the one around it goes on.
LEMMA FrontOfLoops ==
  ASSUME NEW s \in Seq(FrameSpace), s # << >>
  PROVE  LET r == SubSeq(s, 1, Len(s) - 1) IN
         /\ r \in Seq(FrameSpace) /\ Len(r) = Len(s) - 1
         /\ \A i \in 1 .. Len(r) : r[i] = s[i]
<1> DEFINE n == Len(s) - 1
           r == SubSeq(s, 1, n)
<1>1. Len(s) \in Nat \ {0} /\ n \in Nat /\ \A i \in 1 .. n : s[i] \in FrameSpace
  OBVIOUS
<1>2. /\ r \in Seq(FrameSpace) /\ Len(r) = IF 1 <= n THEN n - 1 + 1 ELSE 0
      /\ \A i \in 1 .. n - 1 + 1 : r[i] = s[1 + i - 1]
  BY <1>1, SubSeqProperties
<1>3. n - 1 + 1 = n /\ \A i \in 1 .. n : 1 + i - 1 = i
  BY <1>1
<1> QED
  BY <1>1, <1>2, <1>3

LEMMA PopKeepsLoops ==
  ASSUME NEW P, P \subseteq PartSpace, NEW s \in Seq(FrameSpace), s # << >>, LoopsOver(P, s)
  PROVE  LoopsOver(P, SubSeq(s, 1, Len(s) - 1))
<1> DEFINE r == SubSeq(s, 1, Len(s) - 1)
<1>1. /\ r \in Seq(FrameSpace) /\ Len(r) = Len(s) - 1 /\ Len(s) \in Nat \ {0}
      /\ \A i \in 1 .. Len(r) : r[i] = s[i] /\ i \in 1 .. Len(s)
  BY FrontOfLoops
<1> HIDE DEF r
<1>2. ASSUME r # << >>, NEW p \in P
      PROVE  p.in < r[Len(r)].at /\ (IsListed(p) => p.at < r[Len(r)].at)
  <2>1. Len(r) \in 1 .. Len(r) /\ Len(s) \in 1 .. Len(s) /\ Len(r) < Len(s)
    BY <1>1, <1>2
  <2>2. s[Len(s)].end <= r[Len(r)].at /\ s[Len(s)].at <= s[Len(s)].end
    BY <1>1, <2>1 DEF LoopsOver
  <2>3. s[Len(s)] \in FrameSpace /\ r[Len(r)] \in FrameSpace
    BY <1>1, <2>1
  <2>4. p.in < s[Len(s)].at /\ (IsListed(p) => p.at < s[Len(s)].at)
    BY <1>2 DEF LoopsOver
  <2>5. p.in \in Int /\ p.at \in Int
    BY <1>2 DEF PartSpace, File
  <2>6. s[Len(s)].at \in Int /\ s[Len(s)].end \in Int /\ r[Len(r)].at \in Int
    BY <2>3, Positions
  <2> QED
    BY <2>2, <2>4, <2>5, <2>6
<1>3. \A i, j \in 1 .. Len(r) : i < j => r[j].end <= r[i].at /\ r[i].box < r[j].box
  BY <1>1 DEF LoopsOver
<1>4. LoopsOver(P, r)
  BY <1>1, <1>2, <1>3 DEF LoopsOver
<1> QED
  BY <1>4 DEF r

LEMMA PopKeepsAccount ==
  ASSUME NEW P, NEW s \in Seq(FrameSpace), s # << >>, NEW short \in BOOLEAN, NEW after \in BOOLEAN,
         Accounts(P, s, short), short => after,
         \A p \in P : p.lists /\ p.at = s[Len(s)].box => Settled(P, p, after)
  PROVE  Accounts(P, SubSeq(s, 1, Len(s) - 1), after)
<1> DEFINE r == SubSeq(s, 1, Len(s) - 1)
<1>1. /\ r \in Seq(FrameSpace) /\ Len(r) = Len(s) - 1 /\ Len(s) \in Nat \ {0}
      /\ \A i \in 1 .. Len(r) : r[i] = s[i] /\ i \in 1 .. Len(s)
  BY FrontOfLoops
<1> HIDE DEF r
<1>2. ASSUME NEW p \in P, p.lists
      PROVE  \/ Settled(P, p, after)
             \/ \E i \in 1 .. Len(r) : r[i].box = p.at /\ Covers(P, p, r[i].at)
  <2>1. CASE Settled(P, p, short)
    BY <2>1 DEF Settled
  <2>2. CASE \E i \in 1 .. Len(s) : s[i].box = p.at /\ Covers(P, p, s[i].at)
    <3>1. PICK i \in 1 .. Len(s) : s[i].box = p.at /\ Covers(P, p, s[i].at)
      BY <2>2
    <3>2. CASE i = Len(s)
      BY <1>2, <3>1, <3>2
    <3>3. CASE i # Len(s)
      <4>1. i \in 1 .. Len(r)
        BY <1>1, <3>3
      <4> QED
        BY <1>1, <3>1, <4>1
    <3> QED
      BY <3>2, <3>3
  <2> QED
    BY <1>2, <2>1, <2>2 DEF Accounts
<1> QED
  BY <1>2 DEF Accounts, r

\* Parts that are no boxes are added.
LEMMA LeavesKeepLoops ==
  ASSUME NEW P, NEW N, NEW s, LoopsOver(P, s),
         \A n \in N : ~IsListed(n) /\ ~n.lists /\ (s # << >> => n.in < s[Len(s)].at)
  PROVE  LoopsOver(P \cup N, s)
<1>1. \A p \in P \cup N : (IsListed(p) \/ IsBox(p) \/ p.lists) => p \in P
  BY DEF IsListed, IsBox
<1> QED
  BY <1>1 DEF LoopsOver

LEMMA LeavesNest ==
  ASSUME NEW P, NEW N, Nests(P),
         \A n \in N : /\ ~IsListed(n)
                      /\ \A p \in P : IsBox(p) /\ n.in = p.at => p.at < n.at /\ n.end <= p.end
  PROVE  Nests(P \cup N)
<1>1. \A p \in P \cup N : (IsListed(p) \/ IsBox(p)) => p \in P
  BY DEF IsListed, IsBox
<1> QED
  BY <1>1 DEF Nests

LEMMA MoreCovers ==
  ASSUME NEW P, NEW N, NEW p, NEW e, Covers(P, p, e)
  PROVE  Covers(P \cup N, p, e)
BY DEF Covers

LEMMA LeavesKeepAccount ==
  ASSUME NEW P, NEW N, NEW s, NEW short \in BOOLEAN, Accounts(P, s, short), \A n \in N : ~n.lists
  PROVE  Accounts(P \cup N, s, short)
<1> SUFFICES ASSUME NEW p \in P, p.lists
             PROVE  \/ Settled(P \cup N, p, short)
                    \/ \E i \in 1 .. Len(s) : s[i].box = p.at /\ Covers(P \cup N, p, s[i].at)
  BY DEF Accounts
<1> QED
  BY MoreCovers DEF Accounts, Settled

LEMMA MoreKeepsAccount ==
  ASSUME NEW P, NEW Q, P \subseteq Q, NEW s, NEW short \in BOOLEAN, Accounts(P, s, short),
         \A n \in Q \ P : ~n.lists
  PROVE  Accounts(Q, s, short)
<1>1. Q = P \cup (Q \ P)
  OBVIOUS
<1>2. Accounts(P \cup (Q \ P), s, short)
  BY LeavesKeepAccount
<1> QED
  BY <1>1, <1>2

-------------------------------------------------------------------------------
\* What was found out of a part later: its disposition, or that what nothing
\* references in it is unknown.
Alike(p, x) ==
  /\ p.at = x.at /\ p.end = x.end /\ p.in = x.in /\ p.kind = x.kind /\ p.lists = x.lists
  /\ x.gap = "Unknown" => p.gap = "Unknown"

Reshapes(P, Q) ==
  /\ \A p, q \in Q : \E x, y \in P : Alike(p, x) /\ Alike(q, y) /\ (p # q => x # y)
  /\ \A x \in P : \E p \in Q : Alike(p, x)

LEMMA ReshapingKeepsLoops ==
  ASSUME NEW P, NEW Q, NEW s, Reshapes(P, Q), LoopsOver(P, s)
  PROVE  LoopsOver(Q, s)
<1>1. \A p \in Q : \E x \in P : Alike(p, x)
  BY DEF Reshapes
<1> QED
  BY <1>1 DEF LoopsOver, Alike, IsBox, IsListed

LEMMA ReshapingKeepsNesting ==
  ASSUME NEW P, NEW Q, Reshapes(P, Q), Nests(P)
  PROVE  Nests(Q)
<1> SUFFICES ASSUME NEW p \in Q, NEW q \in Q
             PROVE  /\ IsBox(p) /\ q.in = p.at => p.at < q.at /\ q.end <= p.end
                    /\ IsListed(p) /\ IsListed(q) /\ p # q /\ p.in = q.in =>
                         p.end <= q.at \/ q.end <= p.at
                    /\ IsBox(p) /\ IsBox(q) /\ p.at = q.at => p.end = q.end
  BY DEF Nests
<1>1. PICK x \in P, y \in P : Alike(p, x) /\ Alike(q, y) /\ (p # q => x # y)
  BY DEF Reshapes
<1> QED
  BY <1>1 DEF Nests, Alike, IsBox, IsListed

LEMMA ReshapingCovers ==
  ASSUME NEW P, NEW Q, Reshapes(P, Q), NEW p, NEW x, Alike(p, x), NEW e, Covers(P, x, e)
  PROVE  Covers(Q, p, e)
<1> SUFFICES ASSUME NEW n \in p.at + 1 .. e - 1
             PROVE  \E q \in Q : q.in = p.at /\ IsListed(q) /\ n \in q.at .. q.end - 1
  BY DEF Covers
<1>1. p.at = x.at
  BY DEF Alike
<1>2. PICK y \in P : y.in = x.at /\ IsListed(y) /\ n \in y.at .. y.end - 1
  BY <1>1 DEF Covers
<1>3. PICK q \in Q : Alike(q, y)
  BY DEF Reshapes
<1> QED
  BY <1>1, <1>2, <1>3 DEF Alike, IsListed

LEMMA ReshapingKeepsAccount ==
  ASSUME NEW P, NEW Q, NEW s, NEW short \in BOOLEAN, Reshapes(P, Q), Accounts(P, s, short)
  PROVE  Accounts(Q, s, short)
<1> SUFFICES ASSUME NEW p \in Q, p.lists
             PROVE  \/ Settled(Q, p, short)
                    \/ \E i \in 1 .. Len(s) : s[i].box = p.at /\ Covers(Q, p, s[i].at)
  BY DEF Accounts
<1>1. PICK x \in P : Alike(p, x)
  BY DEF Reshapes
<1>2. x.lists /\ x.at = p.at /\ x.end = p.end /\ (x.gap = "Unknown" => p.gap = "Unknown")
  BY <1>1 DEF Alike
<1>3. \A e : Covers(P, x, e) => Covers(Q, p, e)
  BY <1>1, ReshapingCovers
<1> QED
  BY <1>2, <1>3 DEF Accounts, Settled

-------------------------------------------------------------------------------
(***************************************************************************)
(* A box is read.                                                          *)
(***************************************************************************)
\* The innermost loop lists b where it stands.
Lists(s, b) ==
  LET f == s[Len(s)] IN
  /\ s \in Seq(FrameSpace) /\ s # << >>
  /\ b \in PartSpace /\ IsListed(b)
  /\ b.at = f.at /\ b.in = f.box /\ b.at < b.end /\ b.end <= f.end

\* And goes on behind it.
GoneOn(s, end) == [s EXCEPT ![Len(s)].at = end]

LEMMA GoneOnIs ==
  ASSUME NEW s \in Seq(FrameSpace), s # << >>, NEW end \in 1 .. Size + 1
  PROVE  LET r == GoneOn(s, end) IN
         /\ r \in Seq(FrameSpace) /\ Len(r) = Len(s)
         /\ Len(s) \in 1 .. Len(s)
         /\ \A i \in 1 .. Len(s) : r[i] = IF i = Len(s) THEN [s[i] EXCEPT !.at = end] ELSE s[i]
<1>1. Len(s) \in Nat \ {0} /\ Len(s) \in 1 .. Len(s) /\ s[Len(s)] \in FrameSpace
  OBVIOUS
<1>2. [s[Len(s)] EXCEPT !.at = end] \in FrameSpace
  BY <1>1 DEF FrameSpace
<1>3. GoneOn(s, end) = [s EXCEPT ![Len(s)] = [s[Len(s)] EXCEPT !.at = end]]
  BY <1>1 DEF GoneOn
<1> QED
  BY <1>1, <1>2, <1>3, ExceptSeq

\* Where the parts and the loops are when a box is listed.
LEMMA Outside ==
  ASSUME NEW P, P \subseteq PartSpace, NEW s, NEW b, LoopsOver(P, s), Lists(s, b)
  PROVE  /\ \A i \in 1 .. Len(s) : s[i] \in FrameSpace /\ s[i].box < b.at
         /\ \A i \in 1 .. Len(s) : s[i].box = b.in => i = Len(s)
         /\ \A p \in P : p.in < b.at /\ (IsListed(p) => p.at < b.at)
         /\ \A p \in P : IsListed(p) /\ p.in = b.in => p.end <= b.at
         /\ \A p \in P : IsBox(p) /\ p.at = b.in => b.end <= p.end
         /\ b.in < b.at
         /\ b.at \in Nat /\ b.end \in Nat /\ b.in \in Nat
<1> DEFINE f == s[Len(s)]
<1>1. s \in Seq(FrameSpace) /\ Len(s) \in 1 .. Len(s) /\ Len(s) \in Nat /\ f \in FrameSpace
  BY DEF Lists
<1>2. b.at = f.at /\ b.in = f.box /\ b.at < b.end /\ b.end <= f.end
  BY DEF Lists
<1>3. f.box < f.at
  BY <1>1 DEF LoopsOver
<1>4. \A i \in 1 .. Len(s) : i < Len(s) => s[i].box < f.box
  BY <1>1 DEF LoopsOver
<1>5. \A i \in 1 .. Len(s) : s[i] \in FrameSpace /\ s[i].box \in Int
  <2>1. \A i \in 1 .. Len(s) : s[i] \in FrameSpace
    BY <1>1
  <2> QED
    BY <2>1 DEF FrameSpace, File
<1>6. f.box \in Int /\ f.at \in Int /\ f.end \in Int
  BY <1>1 DEF FrameSpace, File
<1>7. ASSUME NEW i \in 1 .. Len(s)
      PROVE  s[i].box < b.at /\ (s[i].box = b.in => i = Len(s))
  <2>1. CASE i = Len(s)
    BY <1>2, <1>3, <2>1
  <2>2. CASE i # Len(s)
    <3>1. i < Len(s)
      BY <1>1, <2>2
    <3>2. s[i].box < f.box
      BY <1>4, <3>1
    <3> QED
      BY <1>2, <1>3, <1>5, <1>6, <3>2
  <2> QED
    BY <2>1, <2>2
<1>8. \A p \in P : p.in < b.at /\ (IsListed(p) => p.at < b.at)
  BY <1>1, <1>2 DEF LoopsOver
<1>9. \A p \in P : IsListed(p) /\ p.in = b.in => p.end <= b.at
  BY <1>1, <1>2 DEF LoopsOver
<1>10. \A p \in P : IsBox(p) /\ p.at = b.in => b.end <= p.end
  BY <1>1, <1>2 DEF LoopsOver
<1>11. b.at \in Nat /\ b.end \in Nat /\ b.in \in Nat
  BY DEF Lists, PartSpace, File
<1> QED
  BY <1>1, <1>2, <1>3, <1>5, <1>7, <1>8, <1>9, <1>10, <1>11

LEMMA ListedNests ==
  ASSUME NEW P, P \subseteq PartSpace, NEW s, NEW b, LoopsOver(P, s), Lists(s, b), Nests(P)
  PROVE  Nests(P \cup {b})
<1> DEFINE Q == P \cup {b}
<1>0. b.in < b.at /\ b.at \in Nat /\ b.end \in Nat /\ b.in \in Nat
  BY Outside
<1>1. ASSUME NEW p \in Q, NEW q \in Q, IsBox(p), q.in = p.at
      PROVE  p.at < q.at /\ q.end <= p.end
  <2>1. CASE p \in P /\ q \in P
    BY <1>1, <2>1 DEF Nests
  <2>2. CASE p \in P /\ q = b
    BY <1>0, <1>1, <2>2, Outside
  <2>3. p = b => FALSE
    <3>1. b.in # b.at
      BY <1>0
    <3>2. \A x \in P : x.in # b.at
      <4> SUFFICES ASSUME NEW x \in P PROVE x.in # b.at
        OBVIOUS
      <4>1. x.in < b.at
        BY Outside
      <4>2. x.in \in Int
        BY DEF PartSpace, File
      <4> QED
        BY <1>0, <4>1, <4>2
    <3> QED
      BY <1>1, <3>1, <3>2
  <2> QED
    BY <2>1, <2>2, <2>3
<1>2. ASSUME NEW p \in Q, NEW q \in Q, IsListed(p), IsListed(q), p # q, p.in = q.in
      PROVE  p.end <= q.at \/ q.end <= p.at
  <2>1. CASE p \in P /\ q \in P
    BY <1>2, <2>1 DEF Nests
  <2>2. CASE p = b \/ q = b
    BY <1>2, <2>2, Outside
  <2> QED
    BY <2>1, <2>2
<1>3. ASSUME NEW p \in Q, NEW q \in Q, IsBox(p), IsBox(q), p.at = q.at
      PROVE  p.end = q.end
  <2>1. CASE p \in P /\ q \in P
    BY <1>3, <2>1 DEF Nests
  <2>2. \A x \in P : IsBox(x) => x.at # b.at
    <3> SUFFICES ASSUME NEW x \in P, IsBox(x) PROVE x.at # b.at
      OBVIOUS
    <3>1. x.at < b.at
      BY Outside DEF IsBox, IsListed
    <3>2. x.at \in Int
      BY DEF PartSpace
    <3> QED
      BY <1>0, <3>1, <3>2
  <2> QED
    BY <1>3, <2>1, <2>2
<1> QED
  BY <1>1, <1>2, <1>3 DEF Nests

LEMMA ListedKeepsLoops ==
  ASSUME NEW P, P \subseteq PartSpace, NEW s, NEW b, LoopsOver(P, s), Lists(s, b)
  PROVE  LoopsOver(P \cup {b}, GoneOn(s, b.end))
<1> DEFINE Q == P \cup {b}
           r == GoneOn(s, b.end)
<1>1. s \in Seq(FrameSpace) /\ s # << >> /\ b.end \in 1 .. Size + 1 /\ b.at < b.end
      /\ b.at = s[Len(s)].at /\ b.in = s[Len(s)].box /\ b.end <= s[Len(s)].end
  BY InventoryAssumption DEF Lists, PartSpace, InventoryAssumption
<1>2. /\ r \in Seq(FrameSpace) /\ Len(r) = Len(s) /\ Len(s) \in 1 .. Len(s) /\ Len(s) \in Nat
      /\ \A i \in 1 .. Len(s) : r[i] = IF i = Len(s) THEN [s[i] EXCEPT !.at = b.end] ELSE s[i]
  BY <1>1, GoneOnIs
<1> HIDE DEF r
<1>3. /\ b.in < b.at /\ b.at \in Nat /\ b.end \in Nat /\ b.in \in Nat
      /\ \A i \in 1 .. Len(s) : s[i] \in FrameSpace /\ s[i].box < b.at
      /\ \A i \in 1 .. Len(s) : s[i].box = b.in => i = Len(s)
      /\ \A p \in P : p.in < b.at /\ (IsListed(p) => p.at < b.at)
      /\ \A p \in P : IsListed(p) /\ p.in = b.in => p.end <= b.at
  BY Outside
<1>4. \A i \in 1 .. Len(s) : /\ r[i].box = s[i].box /\ r[i].end = s[i].end /\ r[i].parent = s[i].parent
                             /\ r[i].at = IF i = Len(s) THEN b.end ELSE s[i].at
                             /\ s[i].at \in Int /\ s[i].end \in Int /\ s[i].box \in Int
  <2> SUFFICES ASSUME NEW i \in 1 .. Len(s)
               PROVE  /\ r[i].box = s[i].box /\ r[i].end = s[i].end /\ r[i].parent = s[i].parent
                      /\ r[i].at = IF i = Len(s) THEN b.end ELSE s[i].at
                      /\ s[i].at \in Int /\ s[i].end \in Int /\ s[i].box \in Int
    OBVIOUS
  <2> DEFINE f == s[i]
  <2>1. f \in FrameSpace /\ r[i] = IF i = Len(s) THEN [f EXCEPT !.at = b.end] ELSE f
    BY <1>2, <1>3
  <2> HIDE DEF f
  <2>2. /\ r[i].box = f.box /\ r[i].end = f.end /\ r[i].parent = f.parent
        /\ r[i].at = IF i = Len(s) THEN b.end ELSE f.at
        /\ f.at \in Int /\ f.end \in Int /\ f.box \in Int
    BY <2>1 DEF FrameSpace, File
  <2> QED
    BY <2>2 DEF f
<1>5. \A p \in P : p.in \in Int /\ p.at \in Int /\ p.end \in Int
  BY DEF PartSpace, File
<1>6. ASSUME NEW i \in 1 .. Len(s)
      PROVE  /\ r[i].at <= r[i].end /\ r[i].box < r[i].at
             /\ i = 1 <=> r[i].box = File
             /\ i = 1 <=> r[i].parent = "Top"
             /\ r[i].parent = "Cmt" => \A p \in Q : p.at = r[i].box => ~p.lists
             /\ \A p \in Q : IsBox(p) /\ p.at = r[i].box => p.end = r[i].end
             /\ \A p \in Q : IsListed(p) /\ p.in = r[i].box => p.end <= r[i].at
  <2>1. /\ s[i].at <= s[i].end /\ s[i].box < s[i].at
        /\ i = 1 <=> s[i].box = File
        /\ i = 1 <=> s[i].parent = "Top"
        /\ s[i].parent = "Cmt" => \A p \in P : p.at = s[i].box => ~p.lists
        /\ \A p \in P : IsBox(p) /\ p.at = s[i].box => p.end = s[i].end
        /\ \A p \in P : IsListed(p) /\ p.in = s[i].box => p.end <= s[i].at
    BY DEF LoopsOver
  <2>2. b.at # s[i].box
    BY <1>3, <1>4
  <2>3. r[i].at <= r[i].end /\ r[i].box < r[i].at
    BY <1>1, <1>3, <1>4, <2>1
  <2>4. ASSUME NEW p \in Q, IsListed(p), p.in = r[i].box
        PROVE  p.end <= r[i].at
    <3>1. CASE p = b
      BY <1>3, <1>4, <2>4, <3>1
    <3>2. CASE p \in P
      <4>1. p.end <= s[i].at
        BY <1>4, <2>1, <2>4, <3>2
      <4>2. CASE i = Len(s)
        BY <1>1, <1>3, <1>4, <1>5, <3>2, <4>1, <4>2
      <4>3. CASE i # Len(s)
        BY <1>4, <4>1, <4>3
      <4> QED
        BY <4>2, <4>3
    <3> QED
      BY <3>1, <3>2
  <2> QED
    BY <1>4, <2>1, <2>2, <2>3, <2>4
<1>7. ASSUME NEW i \in 1 .. Len(s), NEW j \in 1 .. Len(s), i < j
      PROVE  r[j].end <= r[i].at /\ r[i].box < r[j].box
  <2>1. i # Len(s)
    BY <1>2, <1>7
  <2> QED
    BY <1>4, <1>7, <2>1 DEF LoopsOver
<1>8. ASSUME NEW p \in Q
      PROVE  p.in < r[Len(r)].at /\ (IsListed(p) => p.at < r[Len(r)].at)
  <2>1. r[Len(r)].at = b.end
    BY <1>2, <1>4
  <2>2. CASE p \in P
    BY <1>1, <1>3, <1>5, <2>1, <2>2
  <2>3. CASE p = b
    BY <1>1, <1>3, <2>1, <2>3
  <2> QED
    BY <2>2, <2>3
<1>9. LoopsOver(Q, r)
  BY <1>2, <1>6, <1>7, <1>8 DEF LoopsOver
<1> QED
  BY <1>9 DEF r

\* What the loop has gone past now ends with b; a box whose children are to be
\* listed has a loop of its own that starts behind its header.
LEMMA ListedKeepsAccount ==
  ASSUME NEW P, P \subseteq PartSpace, NEW s, NEW b, LoopsOver(P, s), Lists(s, b),
         NEW short \in BOOLEAN, Accounts(P, s, short),
         NEW t, Len(t) \in Nat, Len(s) <= Len(t),
         \A i \in 1 .. Len(s) : /\ t[i].box = s[i].box
                                /\ t[i].at = IF i = Len(s) THEN b.end ELSE s[i].at,
         b.lists => \E i \in 1 .. Len(t) : t[i].box = b.at /\ t[i].at = b.at + 1
  PROVE  Accounts(P \cup {b}, t, short)
<1> DEFINE Q == P \cup {b}
<1>0. /\ s \in Seq(FrameSpace) /\ Len(s) \in Nat /\ b.at \in Int /\ b.end \in Int /\ IsListed(b)
      /\ b.at = s[Len(s)].at /\ b.in = s[Len(s)].box
      /\ \A i \in 1 .. Len(s) : i \in 1 .. Len(t)
  BY DEF Lists, PartSpace
<1>1. ASSUME NEW p \in Q, p.lists
      PROVE  \/ Settled(Q, p, short)
             \/ \E i \in 1 .. Len(t) : t[i].box = p.at /\ Covers(Q, p, t[i].at)
  <2>1. CASE p = b
    <3>1. PICK i \in 1 .. Len(t) : t[i].box = b.at /\ t[i].at = b.at + 1
      BY <1>1, <2>1
    <3>2. Covers(Q, b, b.at + 1)
      BY <1>0 DEF Covers
    <3> QED
      BY <2>1, <3>1, <3>2
  <2>2. CASE p \in P /\ Settled(P, p, short)
    BY <2>2, MoreCovers DEF Settled
  <2>3. CASE p \in P /\ \E i \in 1 .. Len(s) : s[i].box = p.at /\ Covers(P, p, s[i].at)
    <3>1. PICK i \in 1 .. Len(s) : s[i].box = p.at /\ Covers(P, p, s[i].at)
      BY <2>3
    <3>2. i \in 1 .. Len(t) /\ t[i].box = p.at
      BY <1>0, <3>1
    <3>3. Covers(Q, p, s[i].at)
      BY <3>1, MoreCovers
    <3>4. CASE i # Len(s)
      BY <3>2, <3>3, <3>4
    <3>5. CASE i = Len(s)
      <4>1. t[i].at = b.end /\ s[i].at = b.at /\ b.in = p.at
        BY <1>0, <3>1, <3>5
      <4>2. ASSUME NEW x \in p.at + 1 .. b.end - 1
            PROVE  \E q \in Q : q.in = p.at /\ IsListed(q) /\ x \in q.at .. q.end - 1
        <5>1. p.at \in Int
          BY <2>3 DEF PartSpace
        <5>2. CASE x < b.at
          <6>1. x \in p.at + 1 .. b.at - 1
            BY <1>0, <5>1, <5>2
          <6> QED
            BY <3>3, <4>1, <6>1 DEF Covers
        <5>3. CASE ~(x < b.at)
          <6>1. x \in b.at .. b.end - 1
            BY <1>0, <5>1, <5>3
          <6> QED
            BY <1>0, <4>1, <6>1
        <5> QED
          BY <5>2, <5>3
      <4>3. Covers(Q, p, b.end)
        BY <4>2 DEF Covers
      <4> QED
        BY <3>2, <4>1, <4>3
    <3> QED
      BY <3>4, <3>5
  <2> QED
    BY <1>1, <2>1, <2>2, <2>3 DEF Accounts
<1> QED
  BY <1>1 DEF Accounts

\* A loop over the children of a box just read.
Inner(P, s, g) ==
  /\ g \in FrameSpace /\ g.at = g.box + 1 /\ g.at <= g.end /\ g.box # File /\ g.parent # "Top"
  /\ g.end <= s[Len(s)].at
  /\ \A i \in 1 .. Len(s) : s[i].box < g.box
  /\ \A p \in P : /\ p.in < g.box
                  /\ IsListed(p) => p.at <= g.box
                  /\ p.at = g.box /\ g.parent = "Cmt" => ~p.lists
                  /\ p.at = g.box /\ IsBox(p) => p.end = g.end

LEMMA InnerKeepsLoops ==
  ASSUME NEW P, P \subseteq PartSpace, NEW s \in Seq(FrameSpace), s # << >>, LoopsOver(P, s),
         NEW g, Inner(P, s, g)
  PROVE  LoopsOver(P, Append(s, g)) /\ Append(s, g) \in Seq(FrameSpace)
<1> DEFINE r == Append(s, g)
           n == Len(s)
<1>1. g \in FrameSpace /\ n \in Nat /\ n >= 1
  BY DEF Inner
<1>2. /\ r \in Seq(FrameSpace) /\ Len(r) = n + 1 /\ r[n + 1] = g
      /\ \A i \in 1 .. n : r[i] = s[i] /\ s[i] \in FrameSpace
  BY <1>1, AppendProperties
<1> HIDE DEF r
<1>3. g.at \in Int /\ g.end \in Int /\ g.box \in Int
  BY <1>1 DEF FrameSpace, File
<1>4. \A p \in P : p.in \in Int /\ p.at \in Int /\ p.end \in Int
  BY DEF PartSpace, File
<1>5. /\ g.at <= g.end /\ g.box < g.at /\ g.box # File /\ g.parent # "Top"
      /\ g.parent = "Cmt" => \A p \in P : p.at = g.box => ~p.lists
      /\ \A p \in P : IsBox(p) /\ p.at = g.box => p.end = g.end
      /\ \A p \in P : p.in # g.box
      /\ \A p \in P : p.in < g.at /\ (IsListed(p) => p.at < g.at)
  BY <1>3, <1>4 DEF Inner
<1>6. ASSUME NEW i \in 1 .. Len(r)
      PROVE  /\ r[i].at <= r[i].end /\ r[i].box < r[i].at
             /\ i = 1 <=> r[i].box = File
             /\ i = 1 <=> r[i].parent = "Top"
             /\ r[i].parent = "Cmt" => \A p \in P : p.at = r[i].box => ~p.lists
             /\ \A p \in P : IsBox(p) /\ p.at = r[i].box => p.end = r[i].end
             /\ \A p \in P : IsListed(p) /\ p.in = r[i].box => p.end <= r[i].at
  <2>1. CASE i \in 1 .. n
    BY <1>2, <2>1 DEF LoopsOver
  <2>2. CASE i = n + 1
    <3>1. i # 1 /\ r[i] = g
      BY <1>1, <1>2, <2>2
    <3> QED
      BY <1>5, <3>1
  <2> QED
    BY <1>1, <1>2, <2>1, <2>2
<1>7. ASSUME NEW i \in 1 .. Len(r), NEW j \in 1 .. Len(r), i < j
      PROVE  r[j].end <= r[i].at /\ r[i].box < r[j].box
  <2>1. i \in 1 .. n
    BY <1>1, <1>2, <1>7
  <2>2. CASE j \in 1 .. n
    BY <1>2, <1>7, <2>1, <2>2 DEF LoopsOver
  <2>3. CASE j = n + 1
    <3>1. g.end <= s[n].at /\ s[i].box < g.box
      BY <2>1 DEF Inner
    <3>2. s[n].at <= s[i].at
      <4>1. n \in 1 .. n /\ s[n] \in FrameSpace /\ s[i] \in FrameSpace
        BY <1>1, <1>2, <2>1
      <4>2. s[n].at \in Int /\ s[n].end \in Int /\ s[i].at \in Int
        BY <4>1, Positions
      <4>3. CASE i = n
        BY <4>2, <4>3
      <4>4. CASE i # n
        <5>1. i < n
          BY <1>1, <2>1, <4>4
        <5>2. s[n].end <= s[i].at /\ s[n].at <= s[n].end
          BY <2>1, <4>1, <5>1 DEF LoopsOver
        <5> QED
          BY <4>2, <5>2
      <4> QED
        BY <4>3, <4>4
    <3>3. s[n].at \in Int /\ s[i].at \in Int
      <4>1. n \in 1 .. n /\ s[n] \in FrameSpace /\ s[i] \in FrameSpace
        BY <1>1, <1>2, <2>1
      <4> QED
        BY <4>1, Positions
    <3> QED
      BY <1>2, <1>3, <2>1, <2>3, <3>1, <3>2, <3>3
  <2> QED
    BY <1>1, <1>2, <2>2, <2>3
<1>8. ASSUME NEW p \in P
      PROVE  p.in < r[Len(r)].at /\ (IsListed(p) => p.at < r[Len(r)].at)
  BY <1>2, <1>5
<1>9. LoopsOver(P, r)
  BY <1>6, <1>7, <1>8 DEF LoopsOver
<1> QED
  BY <1>2, <1>9 DEF r

-------------------------------------------------------------------------------
(***************************************************************************)
(* The steps that place.                                                   *)
(***************************************************************************)
\* The packet stays where it is when no other is placed.
LEMMA OnceStays ==
  ASSUME UNCHANGED given, Packets' = Packets, Once
  PROVE  Once'
<1>1. Packet' = Packet
  BY DEF Packet, given
<1>2. Packets' \subseteq parts'
  BY DEF Packets
<1> QED
  BY <1>1, <1>2 DEF Once

\* What was placed before the steps that place only TIFFs.
LEMMA PlacesAre ==
  ASSUME PlaceInv
  PROVE  /\ parts \subseteq PartSpace /\ stack \in Seq(FrameSpace) /\ stopped \in BOOLEAN
         /\ tiff \in TiffSpace /\ logicalEnd \in 1 .. Size + 1 /\ Size \in Nat \ {0}
BY InventoryAssumption DEF PlaceInv, Typed, TypeOK, InventoryAssumption

\* No loop is under way outside a CR3.
LEMMA NoLoops ==
  ASSUME stack = << >>
  PROVE  Loops
BY DEF Loops, LoopsOver

LEMMA PlaceTiffPlaces ==
  ASSUME StopInv, PlaceInv, PlaceTiff
  PROVE  PlaceInv'
<1>1. PICK hit \in BOOLEAN, width \in BOOLEAN, read \in BOOLEAN :
        /\ parts' = parts \cup Contents(hit, read)
        /\ widths' = (widths \/ (width /\ tiff.role \in {"Jpeg", "Cfa"}))
        /\ gap' = IF tiff.role # "Main" THEN gap
                  ELSE IF ~tiff.ok THEN "Malformed"
                  ELSE IF hit THEN "Unknown" ELSE "Unreferenced"
  BY DEF PlaceTiff
<1> DEFINE N == Contents(hit, read)
<1>2. \A p \in N : /\ p \in PartSpace /\ p.kind = "tiff" /\ ~p.lists
                   /\ p.in = tiff.in /\ p.at = tiff.at /\ p.end = tiff.end /\ p.at < p.end
  BY ContentsAre
<1> HIDE DEF N
<1>3. /\ parts \subseteq PartSpace /\ stack \in Seq(FrameSpace) /\ stopped \in BOOLEAN
      /\ tiff \in TiffSpace /\ logicalEnd \in 1 .. Size + 1 /\ Size \in Nat \ {0}
  BY PlacesAre
<1>4. /\ pc = "place" /\ UNCHANGED <<given, stop, truncated, walk, tiff, result>>
      /\ cancelled' = (cancelled \/ tiff.cancelled)
      /\ logicalEnd' = IF tiff.role = "Main" THEN tiff.end ELSE logicalEnd
      /\ stack' = IF tiff.role = "Cmt" THEN SubSeq(stack, 1, Len(stack) - 1) ELSE stack
      /\ pc' = CASE tiff.role = "Cmt" -> "boxes"
                 [] tiff.role = "Main" -> "final"
                 [] tiff.role = "Jpeg" -> "cfa"
                 [] tiff.role = "Cfa" -> "records"
  BY DEF PlaceTiff
<1>5. parts' = parts \cup N /\ parts' \subseteq PartSpace
  BY <1>1, <1>2, <1>3 DEF N
<1>6. Packets' = Packets /\ (Once => Once')
  <2>1. Packets' = Packets
    BY <1>2, <1>5 DEF Packets
  <2> QED
    BY <1>4, <2>1, OnceStays
<1>7. IsCr3' = IsCr3 /\ file' = file /\ Packet' = Packet
  BY <1>4 DEF IsCr3, Packet, given
<1>8. \A n \in N : ~IsListed(n) /\ ~IsBox(n) /\ n.kind # "XMP"
  BY <1>2 DEF IsListed, IsBox, Kinds
<1>9. \A p \in parts' : p.lists => IsBox(p)
  BY <1>2, <1>5 DEF PlaceInv, Accounted
<1>10. ASSUME stack' \in Seq(FrameSpace), Fits(stack', Len(traks))
       PROVE  Typed'
  <2>1. logicalEnd' \in 1 .. Size + 1
    BY <1>3, <1>4 DEF TiffSpace
  <2>2. gap' \in {"Malformed", "Unknown", "Unreferenced"}
    BY <1>1 DEF PlaceInv, Typed, TypeOK
  <2>3. cancelled' \in BOOLEAN /\ widths' \in BOOLEAN
    BY <1>1, <1>4
  <2> QED
    BY <1>3, <1>4, <1>5, <1>10, <2>1, <2>2, <2>3 DEF PlaceInv, Typed, Fits, TypeOK, given, stop, walk
<1>11. CASE IsCr3
  <2>1. /\ tiff.role = "Cmt" /\ Len(stack) >= 2 /\ Frame.parent = "Cmt"
        /\ tiff.in = Frame.box /\ tiff.at = Frame.at /\ tiff.end = Frame.end
    BY <1>4, <1>11 DEF PlaceInv, Course, Walking, IsCr3
  <2>2. /\ stack # << >> /\ Len(stack) \in 1 .. Len(stack) /\ Len(stack) \in Nat
        /\ Frame = stack[Len(stack)] /\ Frame \in FrameSpace
    BY <1>3, <2>1, FrameIs
  <2>3. /\ Frame.at <= Frame.end /\ Frame.box < Frame.at /\ Frame.box # File
        /\ \A p \in parts : p.at = Frame.box => ~p.lists
        /\ \A p \in parts : IsBox(p) /\ p.at = Frame.box => p.end = Frame.end
    BY <2>1, <2>2 DEF PlaceInv, Loops, LoopsOver
  <2>4. /\ stack' = SubSeq(stack, 1, Len(stack) - 1) /\ pc' = "boxes" /\ logicalEnd' = logicalEnd
    BY <1>4, <2>1
  <2>5. /\ stack' \in Seq(FrameSpace) /\ Len(stack') = Len(stack) - 1
        /\ \A i \in 1 .. Len(stack') : stack'[i] = stack[i]
    BY <1>3, <2>2, <2>4, FrontOfLoops
  <2>6. stack' # << >> /\ 1 \in 1 .. Len(stack') /\ stack'[1] = stack[1]
    BY <2>1, <2>2, <2>5
  <2>7. Typed'
    <3>1. Fits(stack', Len(traks))
      BY <2>2, <2>5 DEF PlaceInv, Typed, Fits
    <3> QED
      BY <1>10, <2>5, <3>1
  <2>8. Course'
    BY <1>7, <1>11, <2>4, <2>6 DEF Course, Walking
  <2>9. Loops'
    <3>1. LoopsOver(parts', stack)
      BY <1>2, <1>5, <1>8, <2>1, <2>2, <2>3, LeavesKeepLoops DEF PlaceInv, Loops
    <3>2. LoopsOver(parts', stack')
      BY <1>3, <1>5, <2>2, <2>4, <3>1, PopKeepsLoops
    <3> QED
      BY <3>2 DEF Loops
  <2>10. Nested'
    <3>1. Nests(parts \cup N)
      <4>1. \A n \in N : \A p \in parts : IsBox(p) /\ n.in = p.at => p.at < n.at /\ n.end <= p.end
        <5> SUFFICES ASSUME NEW n \in N, NEW p \in parts, IsBox(p), n.in = p.at
                     PROVE  p.at < n.at /\ n.end <= p.end
          OBVIOUS
        <5>1. p.at = Frame.box /\ n.at = Frame.at /\ n.end = Frame.end
          BY <1>2, <2>1
        <5>2. p.end = Frame.end /\ Frame.end \in Int
          BY <2>2, <2>3, <5>1, Positions
        <5> QED
          BY <2>3, <5>1, <5>2
      <4> QED
        BY <1>8, <1>11, <4>1, LeavesNest DEF PlaceInv, Nested
    <3> QED
      BY <1>5, <3>1 DEF Nested
  <2>11. Accounted'
    <3>1. ASSUME reason' = "none" PROVE Accounts(parts', stack', stopped')
      <4>1. Accounts(parts, stack, stopped)
        BY <1>4, <1>11, <3>1 DEF PlaceInv, Accounted, stop
      <4>2. Accounts(parts', stack, stopped)
        BY <1>2, <1>3, <1>5, <4>1, LeavesKeepAccount
      <4>3. \A p \in parts' : p.lists /\ p.at = stack[Len(stack)].box => Settled(parts', p, stopped)
        BY <1>2, <1>5, <2>2, <2>3
      <4>4. Accounts(parts', stack', stopped)
        BY <1>3, <2>2, <2>4, <4>2, <4>3, PopKeepsAccount
      <4> QED
        BY <1>4, <4>4 DEF walk
    <3> QED
      BY <1>9, <3>1 DEF Accounted
  <2>12. Reported'
    BY <2>4 DEF Reported
  <2>13. Surfacing'
    BY <1>4, <1>5, <1>6, <1>7, <1>11, <2>4, <2>6 DEF PlaceInv, Surfacing, Walking, walk
  <2>14. Ending'
    BY <1>2, <1>5, <2>1, <2>3, <2>4 DEF PlaceInv, Ending
  <2> QED
    BY <2>7, <2>8, <2>9, <2>10, <2>11, <2>12, <2>13, <2>14 DEF PlaceInv
<1>12. CASE ~IsCr3
  <2>1. \/ /\ file.container = "tiff" /\ tiff.role = "Main" /\ tiff.in = File /\ tiff.end = Size + 1
        \/ file.container = "raf" /\ tiff.role \in {"Jpeg", "Cfa"} /\ tiff.in # File
    BY <1>4, <1>12 DEF PlaceInv, Course, Walking
  <2>2. stack = << >> /\ stack' = stack /\ tiff.role # "Cmt"
    BY <1>4, <1>12, <2>1 DEF PlaceInv, Course
  <2>3. Loops' /\ Nested' /\ Accounted' /\ Reported'
    BY <1>7, <1>9, <1>12, <2>2, NoLoops DEF Loops, LoopsOver, Nested, Accounted, Reported
  <2>4. Typed'
    BY <1>3, <1>10, <2>2 DEF Fits
  <2>5. pc' \in {"final", "cfa", "records"} /\ (pc' = "final" <=> file.container = "tiff")
    BY <1>4, <2>1
  <2>6. Course'
    BY <1>7, <1>12, <2>1, <2>2, <2>5 DEF Course, Walking
  <2>7. Surfacing'
    <3>1. Once
      BY <1>4, <1>12, <2>1 DEF PlaceInv, Surfacing, Walking
    <3> QED
      BY <1>6, <1>7, <1>12, <2>5, <3>1 DEF Surfacing, Walking
  <2>8. Ending'
    <3>1. CASE file.container = "tiff"
      <4>1. logicalEnd' = Size + 1
        BY <1>4, <2>1, <3>1
      <4> QED
        BY <1>3, <1>5, <2>2, <4>1 DEF Ending, PartSpace
    <3>2. CASE file.container # "tiff"
      <4>1. tiff.in # File /\ logicalEnd' = logicalEnd
        BY <1>4, <2>1, <3>2
      <4> QED
        BY <1>2, <1>5, <2>2, <4>1 DEF PlaceInv, Ending
    <3> QED
      BY <3>1, <3>2
  <2> QED
    BY <2>3, <2>4, <2>6, <2>7, <2>8 DEF PlaceInv
<1> QED
  BY <1>11, <1>12

\* The packet alone is placed at the top of a file.
LEMMA TopPacketIs ==
  ASSUME PlaceInv
  PROVE  /\ \A p \in TopPacket : /\ p \in PartSpace /\ p.kind = "XMP" /\ ~p.lists /\ p.in = File
         /\ IF Packet = {} THEN TopPacket = {} ELSE \E q : TopPacket = {q}
<1>1. file \in FileSpace
  BY InventoryAssumption DEF PlaceInv, Typed, TypeOK, InventoryAssumption
<1>2. file.packet = {} \/ \E r \in Ranges : file.packet = {r}
  BY <1>1 DEF FileSpace
<1>3. Packet = {} \/ \E r \in Ranges : Packet = {r}
  BY <1>2 DEF Packet
<1>4. CASE Packet = {}
  BY <1>4 DEF TopPacket
<1>5. ASSUME NEW r \in Ranges, Packet = {r}
      PROVE  /\ \A p \in TopPacket : /\ p \in PartSpace /\ p.kind = "XMP" /\ ~p.lists /\ p.in = File
             /\ \E q : TopPacket = {q}
  <2> DEFINE q == Part(r.at, r.end, File, "XMP", "Metadata")
  <2>1. Size \in Nat \ {0} /\ r.at \in 1 .. Size /\ r.end \in 2 .. Size + 1
    BY InventoryAssumption DEF InventoryAssumption, Ranges
  <2>2. q \in PartSpace /\ q.kind = "XMP" /\ ~q.lists /\ q.in = File
    BY <2>1 DEF Part, PartSpace, Consumed, File
  <2>3. TopPacket = {q}
    BY <1>5 DEF TopPacket
  <2> QED
    BY <2>2, <2>3
<1> QED
  BY <1>3, <1>4, <1>5

LEMMA StartPlaces ==
  ASSUME StopInv, PlaceInv, Start
  PROVE  PlaceInv'
<1>1. /\ pc = "start" /\ Ask /\ UNCHANGED <<given, truncated, walk, cancelled, widths, gap>>
      /\ file' = file /\ IsCr3' = IsCr3 /\ Packet' = Packet /\ TopPacket' = TopPacket
  BY DEF Start, given, IsCr3, Packet, TopPacket
<1>2. parts = {} /\ ~packetPlaced /\ ~stopped /\ stack = << >> /\ logicalEnd = 1 /\ Packets = {}
  BY <1>1 DEF PlaceInv, Course, Walking, Packets
<1>3. /\ parts \subseteq PartSpace /\ stack \in Seq(FrameSpace) /\ stopped \in BOOLEAN
      /\ tiff \in TiffSpace /\ logicalEnd \in 1 .. Size + 1 /\ Size \in Nat \ {0}
  BY PlacesAre
<1>4. reason' \in Reasons \cup {"none"} /\ asked' \in Reasons \cup {"none"}
  BY <1>1, AskTyped DEF PlaceInv, Typed
<1>5. ASSUME parts' \subseteq PartSpace, stack' \in Seq(FrameSpace), tiff' \in TiffSpace,
             Fits(stack', Len(traks)),
             logicalEnd' \in 1 .. Size + 1, result' \in {"none", "stopped", "limit"}
      PROVE  Typed'
  BY <1>1, <1>4, <1>5 DEF PlaceInv, Typed, Fits, TypeOK, given, walk
<1>6. CASE UNCHANGED <<parts, stack, tiff, logicalEnd>> /\ (Answer("stopped") \/ Answer("limit"))
  <2>1. pc' = "done" /\ result' \in {"stopped", "limit"}
    BY <1>6 DEF Answer
  <2>2. Typed'
    <3>1. Fits(stack', Len(traks))
      BY <1>2, <1>6 DEF Fits
    <3> QED
      BY <1>3, <1>5, <1>6, <2>1, <3>1
  <2>3. Course'
    BY <1>2, <1>6, <2>1 DEF Course, Walking
  <2>4. Loops' /\ Nested' /\ Accounted' /\ Ending'
    BY <1>2, <1>6 DEF Loops, LoopsOver, Nested, Nests, Accounted, Accounts, Ending
  <2>5. Reported'
    BY <1>1, <1>2 DEF Reported, walk
  <2>6. Surfacing'
    BY <2>1 DEF Surfacing, Walking
  <2> QED
    BY <2>2, <2>3, <2>4, <2>5, <2>6 DEF PlaceInv
<1>7. CASE Dispatch /\ result' = result
  <2>1. result = "none" /\ result' = "none"
    BY <1>1, <1>7 DEF StopInv, Verdict
  <2>2. file \in FileSpace
    BY InventoryAssumption DEF PlaceInv, Typed, TypeOK, InventoryAssumption
  <2>3. /\ packetPlaced' = packetPlaced /\ stopped' = stopped /\ 1 \in 1 .. Size + 1 /\ Size + 1 \in 1 .. Size + 1
        /\ File \in File .. Size
    BY <1>1, <1>3 DEF walk, File
  <2>4. NewTiff("Main", File, 1, Size + 1) \in TiffSpace
    BY <2>3 DEF NewTiff, TiffSpace
  <2>5. \A p \in TopPacket : p \in PartSpace /\ p.kind = "XMP" /\ ~p.lists /\ p.in = File
    BY TopPacketIs
  <2>6. ASSUME parts' = TopPacket PROVE Once'
    <3>1. Packets' = TopPacket
      BY <2>5, <2>6 DEF Packets
    <3>2. IF Packet = {} THEN TopPacket = {} ELSE \E q : TopPacket = {q}
      BY TopPacketIs
    <3> QED
      BY <1>1, <2>6, <3>1, <3>2 DEF Once
  <2>7. CASE file.container \in {"raf", "tiff"}
    <3>1. /\ parts' = TopPacket /\ stack' = stack /\ logicalEnd' = logicalEnd
          /\ pc' = IF file.container = "raf" THEN "raf" ELSE "walk"
          /\ tiff' \in TiffSpace
          /\ file.container = "tiff" => tiff' = NewTiff("Main", File, 1, Size + 1)
      BY <1>3, <1>7, <2>4, <2>7 DEF Dispatch, StartTiff
    <3>2. ~IsCr3 /\ stack' = << >>
      BY <1>2, <2>7, <3>1 DEF IsCr3
    <3>3. Typed'
      BY <1>3, <1>5, <2>1, <2>5, <3>1, <3>2 DEF Fits
    <3>4. Course'
      BY <1>1, <1>2, <2>7, <3>1, <3>2 DEF Course, Walking, NewTiff, IsCr3
    <3>5. Loops' /\ Nested' /\ Accounted' /\ Reported' /\ Ending'
      BY <1>1, <2>5, <3>1, <3>2 DEF Loops, LoopsOver, Nested, Accounted, Reported, Ending
    <3>6. Surfacing'
      BY <1>1, <2>6, <3>1, <3>2 DEF Surfacing, Walking
    <3> QED
      BY <3>3, <3>4, <3>5, <3>6 DEF PlaceInv
  <2>8. CASE IsCr3
    <3> DEFINE f == Call(1, Size + 1, 0, 0, "Top", File)
    <3>1. parts' = {} /\ stack' = <<f>> /\ logicalEnd' = logicalEnd /\ tiff' = tiff /\ pc' = "boxes"
      BY <1>2, <1>7, <2>8 DEF Dispatch, IsCr3
    <3>2. f \in FrameSpace
      BY <2>3 DEF Call, FrameSpace, Parents
    <3>3. /\ f.at = 1 /\ f.end = Size + 1 /\ f.box = File /\ f.parent = "Top" /\ f.trak = 0
      BY DEF Call
    <3> HIDE DEF f
    <3>4. stack' \in Seq(FrameSpace) /\ Len(stack') = 1 /\ stack'[1] = f
      BY <3>1, <3>2
    <3>5. Typed'
      <4>1. Fits(stack', Len(traks))
        BY <3>3, <3>4 DEF PlaceInv, Typed, Fits
      <4> QED
        BY <1>3, <1>5, <2>1, <3>1, <3>4, <4>1
    <3>6. Course'
      BY <1>1, <2>8, <3>1, <3>4 DEF Course, Walking, IsCr3
    <3>7. LoopsOver({}, stack')
      BY <1>3, <3>3, <3>4 DEF LoopsOver, File
    <3>8. Loops' /\ Nested' /\ Accounted' /\ Reported' /\ Ending'
      BY <1>1, <1>2, <3>1, <3>3, <3>4, <3>7
         DEF Loops, Nested, Nests, Accounted, Accounts, Reported, Ending
    <3>9. Surfacing'
      BY <1>1, <1>2, <2>3, <2>8, <3>1 DEF Surfacing, Walking, Packets
    <3> QED
      BY <3>5, <3>6, <3>8, <3>9 DEF PlaceInv
  <2>9. CASE file.container = "other"
    <3>1. UNCHANGED <<parts, stack, tiff>> /\ logicalEnd' = Size + 1 /\ pc' = "final" /\ ~IsCr3
      BY <1>7, <2>9 DEF Dispatch, IsCr3
    <3>2. Typed'
      BY <1>2, <1>3, <1>5, <2>1, <2>3, <3>1 DEF Fits
    <3>3. Course' /\ Surfacing'
      BY <1>1, <1>2, <2>9, <3>1 DEF Course, Walking, Surfacing, IsCr3
    <3>4. Loops' /\ Nested' /\ Accounted' /\ Reported' /\ Ending'
      BY <1>1, <1>2, <3>1 DEF Loops, LoopsOver, Nested, Accounted, Reported, Ending
    <3> QED
      BY <3>2, <3>3, <3>4 DEF PlaceInv
  <2> QED
    BY <2>2, <2>7, <2>8, <2>9 DEF FileSpace, IsCr3
<1> QED
  BY <1>6, <1>7 DEF Start

-------------------------------------------------------------------------------
\* A section of a RAF is placed: the logical end goes with it.
LEMMA RafStepPlaces ==
  ASSUME StopInv, PlaceInv, pc \in {"raf", "jpeg", "cfa", "records"},
         UNCHANGED <<given, stop, truncated, stack, walk, cancelled, widths, result>>,
         parts \subseteq parts',
         \A n \in parts' \ parts : /\ n \in PartSpace /\ n.kind # "XMP" /\ ~n.lists
                                   /\ n.in = File => n.end <= logicalEnd',
         logicalEnd' \in 1 .. Size + 1, logicalEnd <= logicalEnd',
         gap' \in {"Malformed", "Unknown", "Unreferenced"},
         tiff' \in TiffSpace,
         pc' \in {"jpeg", "cfa", "records", "final", "walk"},
         pc' = "walk" => tiff'.role \in {"Jpeg", "Cfa"} /\ tiff'.in # File
  PROVE  PlaceInv'
<1>1. /\ file' = file /\ IsCr3' = IsCr3 /\ Packet' = Packet /\ ~IsCr3 /\ file.container = "raf"
      /\ stack = << >> /\ stack' = stack /\ Once
  BY DEF PlaceInv, Course, Walking, IsCr3, Packet, given, Surfacing
<1>2. parts \subseteq PartSpace /\ parts' \subseteq PartSpace /\ logicalEnd \in 1 .. Size + 1 /\ Size \in Nat
  BY PlacesAre
<1>3. Packets' = Packets
  BY DEF Packets
<1>4. Once'
  BY <1>1, <1>3, OnceStays
<1>5. Typed'
  BY <1>1, <1>2 DEF PlaceInv, Typed, TypeOK, given, stop, walk, Fits
<1>6. Course'
  BY <1>1 DEF Course, Walking, IsCr3
<1>7. Loops' /\ Nested' /\ Accounted' /\ Reported'
  BY <1>1, NoLoops DEF PlaceInv, Loops, LoopsOver, Nested, Accounted, Reported
<1>8. Surfacing'
  BY <1>1, <1>4 DEF Surfacing, Walking
<1>9. Ending'
  <2> SUFFICES ASSUME NEW p \in parts', p.in = File, p.kind # "XMP" PROVE p.end <= logicalEnd'
    BY <1>1 DEF Ending
  <2>1. CASE p \in parts
    <3>1. p.end <= logicalEnd /\ p.end \in Int
      BY <1>2, <2>1 DEF PlaceInv, Ending, PartSpace
    <3> QED
      BY <1>2, <3>1
  <2>2. CASE p \notin parts
    BY <2>2
  <2> QED
    BY <2>1, <2>2
<1> QED
  BY <1>5, <1>6, <1>7, <1>8, <1>9 DEF PlaceInv

\* The sections a RAF's header gives, clipped to the file.
LEMMA SectionsAre ==
  ASSUME PlaceInv
  PROVE  /\ file.raf.jpeg \in Sections /\ file.raf.cfa \in Sections /\ file.raf.header \in Sections
         /\ Size \in Nat \ {0} /\ MaxHeader \in Nat
         /\ \A s \in Sections : Present(s) =>
              /\ s.off \in 1 .. Size /\ SectionEnd(s) \in 2 .. Size + 1
              /\ Further(SectionEnd(s)) \in 1 .. Size + 1
              /\ logicalEnd <= Further(SectionEnd(s)) /\ SectionEnd(s) <= Further(SectionEnd(s))
<1>1. Size \in Nat \ {0} /\ MaxHeader \in Nat /\ logicalEnd \in 1 .. Size + 1
  BY PlacesAre, InventoryAssumption DEF InventoryAssumption
<1>2. file \in FileSpace
  BY InventoryAssumption DEF PlaceInv, Typed, TypeOK, InventoryAssumption
<1>3. file.raf.jpeg \in Sections /\ file.raf.cfa \in Sections /\ file.raf.header \in Sections
  BY <1>2 DEF FileSpace, RafSpace
<1>4. ASSUME NEW s \in Sections, Present(s)
      PROVE  /\ s.off \in 1 .. Size /\ SectionEnd(s) \in 2 .. Size + 1
             /\ Further(SectionEnd(s)) \in 1 .. Size + 1
             /\ logicalEnd <= Further(SectionEnd(s)) /\ SectionEnd(s) <= Further(SectionEnd(s))
  <2>1. s.off \in 1 .. Size /\ s.len \in 1 .. Size
    BY <1>1, <1>4 DEF Present, Sections
  <2>2. SectionEnd(s) \in 2 .. Size + 1
    BY <1>1, <2>1 DEF SectionEnd, Past
  <2> QED
    BY <1>1, <2>1, <2>2 DEF Further
<1> QED
  BY <1>1, <1>3, <1>4

\* A part at the top of a RAF or in one of its sections.
LEMMA RafPart ==
  ASSUME NEW at \in 1 .. Size, NEW end \in 2 .. Size + 1, NEW in \in File .. Size,
         NEW kind \in {"header", "jpeg", "cfa", "cfaHeader", "ImageWidth"},
         NEW disp \in {"Structure", "ImageData", "Malformed", "Skipped", "Dropped"}
  PROVE  LET p == Part(at, end, in, kind, disp) IN
         p \in PartSpace /\ p.kind # "XMP" /\ ~p.lists /\ p.in = in /\ p.end = end
BY DEF Part, PartSpace, Consumed

LEMMA RafHeaderPlaces ==
  ASSUME StopInv, PlaceInv, RafHeader
  PROVE  PlaceInv'
<1>1. /\ pc = "raf" /\ UNCHANGED <<given, stop, truncated, stack, walk, cancelled, tiff, widths, gap, result>>
      /\ logicalEnd = 1
  BY DEF RafHeader, PlaceInv, Course, Walking
<1>2. /\ Size \in Nat \ {0} /\ tiff \in TiffSpace /\ gap' \in {"Malformed", "Unknown", "Unreferenced"}
      /\ 1 \in 1 .. Size /\ File \in File .. Size
  BY <1>1, PlacesAre DEF PlaceInv, Typed, TypeOK, File
<1>3. CASE file.raf.whole
  <2> DEFINE p == Part(1, HeaderEnd, File, "header", "Structure")
  <2>1. HeaderEnd \in 2 .. Size + 1
    BY <1>2, SectionsAre DEF HeaderEnd, Sections
  <2>2. p \in PartSpace /\ p.kind # "XMP" /\ ~p.lists /\ p.in = File /\ p.end = HeaderEnd
    BY <1>2, <2>1, RafPart
  <2>3. parts' = parts \cup {p} /\ logicalEnd' = HeaderEnd /\ pc' = "jpeg"
    BY <1>3 DEF RafHeader
  <2> HIDE DEF p
  <2>4. /\ logicalEnd' \in 1 .. Size + 1 /\ logicalEnd <= logicalEnd'
        /\ parts \subseteq parts'
        /\ \A n \in parts' \ parts : /\ n \in PartSpace /\ n.kind # "XMP" /\ ~n.lists
                                     /\ n.in = File => n.end <= logicalEnd'
    BY <1>1, <1>2, <2>1, <2>2, <2>3
  <2> QED
    BY <1>1, <1>2, <2>3, <2>4, RafStepPlaces
<1>4. CASE ~file.raf.whole
  <2> DEFINE p == Part(1, Size + 1, File, "header", "Malformed")
  <2>1. Size + 1 \in 2 .. Size + 1
    BY <1>2
  <2>2. p \in PartSpace /\ p.kind # "XMP" /\ ~p.lists /\ p.in = File /\ p.end = Size + 1
    BY <1>2, <2>1, RafPart
  <2>3. parts' = parts \cup {p} /\ logicalEnd' = Size + 1 /\ pc' = "final"
    BY <1>4 DEF RafHeader
  <2> HIDE DEF p
  <2>4. /\ logicalEnd' \in 1 .. Size + 1 /\ logicalEnd <= logicalEnd'
        /\ parts \subseteq parts'
        /\ \A n \in parts' \ parts : /\ n \in PartSpace /\ n.kind # "XMP" /\ ~n.lists
                                     /\ n.in = File => n.end <= logicalEnd'
    BY <1>1, <1>2, <2>1, <2>2, <2>3
  <2> QED
    BY <1>1, <1>2, <2>3, <2>4, RafStepPlaces
<1> QED
  BY <1>3, <1>4

\* jpeg and cfa, with the TIFF that may start in them.
LEMMA SectionPlaces ==
  ASSUME StopInv, PlaceInv, NEW s \in Sections, NEW kind \in {"jpeg", "cfa"},
         NEW disp \in {"Structure", "ImageData", "Malformed", "Skipped"},
         NEW role \in {"Jpeg", "Cfa"}, NEW at \in 1 .. Size + 2, NEW next \in {"cfa", "records"},
         pc \in {"jpeg", "cfa"}, PlaceSection(s, kind, disp, role, at, next)
  PROVE  PlaceInv'
<1>1. UNCHANGED <<given, stop, truncated, stack, walk, cancelled, widths, gap, result>>
  BY DEF PlaceSection
<1>2. /\ Size \in Nat \ {0} /\ tiff \in TiffSpace /\ logicalEnd \in 1 .. Size + 1
      /\ gap' \in {"Malformed", "Unknown", "Unreferenced"} /\ File \in File .. Size
  BY <1>1, PlacesAre DEF PlaceInv, Typed, TypeOK, File
<1>3. CASE Present(s)
  <2> DEFINE p == Part(s.off, SectionEnd(s), File, kind, disp)
  <2>1. /\ s.off \in 1 .. Size /\ SectionEnd(s) \in 2 .. Size + 1
        /\ Further(SectionEnd(s)) \in 1 .. Size + 1
        /\ logicalEnd <= Further(SectionEnd(s)) /\ SectionEnd(s) <= Further(SectionEnd(s))
    BY <1>3, SectionsAre
  <2>2. p \in PartSpace /\ p.kind # "XMP" /\ ~p.lists /\ p.in = File /\ p.end = SectionEnd(s)
    BY <1>2, <2>1 DEF Part, PartSpace, Consumed
  <2>3. parts' = parts \cup {p} /\ logicalEnd' = Further(SectionEnd(s))
    BY <1>3 DEF PlaceSection
  <2> HIDE DEF p
  <2>4. /\ logicalEnd' \in 1 .. Size + 1 /\ logicalEnd <= logicalEnd'
        /\ parts \subseteq parts'
        /\ \A n \in parts' \ parts : /\ n \in PartSpace /\ n.kind # "XMP" /\ ~n.lists
                                     /\ n.in = File => n.end <= logicalEnd'
    BY <2>1, <2>2, <2>3
  <2>5. CASE s.holds /\ at < SectionEnd(s)
    <3>1. tiff' = NewTiff(role, s.off, at, SectionEnd(s)) /\ pc' = "walk"
      BY <1>3, <2>5 DEF PlaceSection, StartTiff
    <3>2. at \in 1 .. Size + 1 /\ s.off \in File .. Size /\ SectionEnd(s) \in 1 .. Size + 1
      BY <1>2, <2>1, <2>5 DEF File
    <3>3. tiff' \in TiffSpace /\ tiff'.role \in {"Jpeg", "Cfa"} /\ tiff'.in = s.off
      BY <3>1, <3>2 DEF NewTiff, TiffSpace
    <3>4. tiff'.in # File
      BY <2>1, <3>3 DEF File
    <3> QED
      BY <1>1, <1>2, <2>3, <2>4, <3>1, <3>3, <3>4, RafStepPlaces
  <2>6. CASE ~(s.holds /\ at < SectionEnd(s))
    <3>1. tiff' = tiff /\ pc' = next
      BY <1>3, <2>6 DEF PlaceSection
    <3> QED
      BY <1>1, <1>2, <2>3, <2>4, <3>1, RafStepPlaces
  <2> QED
    BY <2>5, <2>6
<1>4. CASE ~Present(s)
  <2>1. parts' = parts /\ logicalEnd' = logicalEnd /\ tiff' = tiff /\ pc' = next
    BY <1>4 DEF PlaceSection
  <2> QED
    BY <1>1, <1>2, <2>1, RafStepPlaces
<1> QED
  BY <1>3, <1>4

LEMMA SectionsPlace ==
  ASSUME StopInv, PlaceInv, JpegSection \/ CfaSection
  PROVE  PlaceInv'
<1>1. Size \in Nat \ {0} /\ file.raf.jpeg \in Sections /\ file.raf.cfa \in Sections
  BY SectionsAre
<1>2. \A s \in Sections : s.off \in 1 .. Size + 1 /\ s.off \in 1 .. Size + 2 /\ s.off + 1 \in 1 .. Size + 2
  BY <1>1 DEF Sections
<1>3. CASE JpegSection
  <2> DEFINE s == file.raf.jpeg
             disp == IF Past(s) THEN "Malformed" ELSE "Skipped"
  <2>1. pc = "jpeg" /\ PlaceSection(s, "jpeg", disp, "Jpeg", s.off + 1, "cfa")
    BY <1>3 DEF JpegSection
  <2>2. disp \in {"Structure", "ImageData", "Malformed", "Skipped"} /\ s \in Sections
    BY <1>1
  <2> HIDE DEF disp, s
  <2> QED
    BY <1>2, <2>1, <2>2, SectionPlaces
<1>4. CASE CfaSection
  <2> DEFINE s == file.raf.cfa
             disp == IF Past(s) THEN "Malformed" ELSE IF s.holds THEN "Structure" ELSE "ImageData"
  <2>1. pc = "cfa" /\ PlaceSection(s, "cfa", disp, "Cfa", s.off, "records")
    BY <1>4 DEF CfaSection
  <2>2. disp \in {"Structure", "ImageData", "Malformed", "Skipped"} /\ s \in Sections
    BY <1>1
  <2> HIDE DEF disp, s
  <2> QED
    BY <1>2, <2>1, <2>2, SectionPlaces
<1> QED
  BY <1>3, <1>4

LEMMA RafRecordsPlaces ==
  ASSUME StopInv, PlaceInv, RafRecords
  PROVE  PlaceInv'
<1> DEFINE s == file.raf.header
           head == Part(s.off, SectionEnd(s), File, "cfaHeader", IF Past(s) THEN "Malformed" ELSE "Structure")
           record == Part(s.off, SectionEnd(s), s.off, "ImageWidth", RecordDisp)
           N == IF Present(s) THEN {head} \cup {record : x \in {y \in {s} : y.holds}} ELSE {}
           E == IF \E t \in {file.raf.jpeg, file.raf.cfa, s} : Past(t) THEN Size + 1
                ELSE IF Present(s) THEN Further(SectionEnd(s)) ELSE logicalEnd
<1>1. /\ UNCHANGED <<given, stop, truncated, stack, walk, cancelled, tiff, widths, result>>
      /\ pc = "records" /\ pc' = "final" /\ gap' = "Unreferenced"
      /\ parts' = parts \cup N /\ logicalEnd' = E
  BY DEF RafRecords
<1>2. Size \in Nat \ {0} /\ logicalEnd \in 1 .. Size + 1 /\ tiff \in TiffSpace /\ s \in Sections
  BY PlacesAre, SectionsAre
<1>3. Present(s) => /\ s.off \in 1 .. Size /\ SectionEnd(s) \in 2 .. Size + 1
                    /\ Further(SectionEnd(s)) \in 1 .. Size + 1
                    /\ logicalEnd <= Further(SectionEnd(s)) /\ SectionEnd(s) <= Further(SectionEnd(s))
  BY <1>2, SectionsAre
<1>4. E \in 1 .. Size + 1 /\ logicalEnd <= E /\ (Present(s) => SectionEnd(s) <= E)
  <2>1. CASE E = Size + 1
    BY <1>2, <1>3, <2>1
  <2>2. CASE E # Size + 1
    BY <1>2, <1>3, <2>2
  <2> QED
    BY <2>1, <2>2
<1>5. ASSUME Present(s)
      PROVE  /\ head \in PartSpace /\ head.kind # "XMP" /\ ~head.lists /\ head.end = SectionEnd(s)
             /\ record \in PartSpace /\ record.kind # "XMP" /\ ~record.lists /\ record.end = SectionEnd(s)
  <2>1. s.off \in File .. Size /\ File \in File .. Size
    BY <1>2, <1>3, <1>5 DEF File
  <2>2. RecordDisp \in {"Dropped", "Structure"}
    BY DEF RecordDisp
  <2>3. (IF Past(s) THEN "Malformed" ELSE "Structure") \in {"Malformed", "Structure"}
    OBVIOUS
  <2> QED
    BY <1>3, <1>5, <2>1, <2>2, <2>3, RafPart
<1> HIDE DEF E, head, record
<1>6. \A n \in N : /\ n \in PartSpace /\ n.kind # "XMP" /\ ~n.lists
                   /\ n.in = File => n.end <= logicalEnd'
  BY <1>1, <1>4, <1>5
<1> HIDE DEF N
<1>7. gap' \in {"Malformed", "Unknown", "Unreferenced"} /\ tiff' \in TiffSpace
  BY <1>1, <1>2
<1> QED
  BY <1>1, <1>4, <1>6, <1>7, RafStepPlaces

-------------------------------------------------------------------------------
\* A function over the parts that keeps each where it is reshapes them.
LEMMA Reshaped ==
  ASSUME NEW P, NEW F, \A x \in P : Alike(F[x], x)
  PROVE  Reshapes(P, {F[x] : x \in P})
BY DEF Reshapes

\* And keeps the packet, if it leaves what is no box alone or skips it.
LEMMA ReshapedParts ==
  ASSUME PlaceInv, NEW F, parts' = {F[x] : x \in parts}, UNCHANGED given,
         \A x \in parts : Alike(F[x], x) /\ F[x] \in PartSpace
  PROVE  /\ Reshapes(parts, parts') /\ parts' \subseteq PartSpace
         /\ (\A p \in parts : p.lists => IsBox(p)) => \A p \in parts' : p.lists => IsBox(p)
         /\ \A q : Packets = {q} => Packets' = {F[q]} /\ Alike(F[q], q)
         /\ Packets = {} => Packets' = {}
         /\ Once => Once'
<1>1. Reshapes(parts, parts')
  BY Reshaped
<1>2. parts' \subseteq PartSpace
  OBVIOUS
<1>3. (\A p \in parts : p.lists => IsBox(p)) => \A p \in parts' : p.lists => IsBox(p)
  BY DEF Alike, IsBox
<1>4. Packets' = {F[x] : x \in Packets} /\ Packets \subseteq parts
  BY DEF Packets, Alike
<1>5. \A q : Packets = {q} => Packets' = {F[q]} /\ Alike(F[q], q)
  BY <1>4
<1>6. Packets = {} => Packets' = {}
  BY <1>4
<1>7. Packet' = Packet
  BY DEF Packet, given
<1>8. Once => Once'
  BY <1>4, <1>7 DEF Once
<1> QED
  BY <1>1, <1>2, <1>3, <1>5, <1>6, <1>8

\* Loops end in order: the one that ends has listed its box to the end, or what
\* it left out is noted.
LEMMA LoopEnds ==
  ASSUME NEW P, NEW Q, P \subseteq PartSpace, Reshapes(P, Q), NEW s \in Seq(FrameSpace), s # << >>,
         LoopsOver(P, s), NEW short \in BOOLEAN, NEW after \in BOOLEAN, Accounts(P, s, short),
         short => after, \A p \in P : p.lists => IsBox(p),
         \/ s[Len(s)].at = s[Len(s)].end
         \/ after /\ \A p \in Q : p.at = s[Len(s)].box /\ p.lists => p.gap = "Unknown"
  PROVE  Accounts(Q, SubSeq(s, 1, Len(s) - 1), after)
<1> DEFINE f == s[Len(s)]
<1>1. Len(s) \in 1 .. Len(s) /\ Len(s) \in Nat /\ f \in FrameSpace
  OBVIOUS
<1>2. Accounts(Q, s, short)
  BY ReshapingKeepsAccount
<1>3. ASSUME NEW p \in Q, p.lists, p.at = f.box
      PROVE  Settled(Q, p, after)
  <2>1. CASE after /\ \A x \in Q : x.at = f.box /\ x.lists => x.gap = "Unknown"
    BY <1>3, <2>1 DEF Settled
  <2>2. CASE f.at = f.end
    <3>1. p.end = f.end
      <4>1. PICK x \in P : Alike(p, x)
        BY DEF Reshapes
      <4>2. x.at = f.box /\ x.end = p.end /\ IsBox(x)
        BY <1>3, <4>1 DEF Alike
      <4>3. x.end = f.end
        BY <1>1, <4>2 DEF LoopsOver
      <4> QED
        BY <4>2, <4>3
    <3>2. CASE Settled(Q, p, short)
      BY <3>2 DEF Settled
    <3>3. CASE \E i \in 1 .. Len(s) : s[i].box = p.at /\ Covers(Q, p, s[i].at)
      <4>1. PICK i \in 1 .. Len(s) : s[i].box = p.at /\ Covers(Q, p, s[i].at)
        BY <3>3
      <4>2. i = Len(s)
        <5>1. ASSUME i < Len(s) PROVE FALSE
          <6>1. s[i].box < f.box
            BY <1>1, <5>1 DEF LoopsOver
          <6>2. s[i].box = f.box /\ f.box \in Int
            BY <1>1, <1>3, <4>1, Positions
          <6> QED
            BY <6>1, <6>2
        <5> QED
          BY <1>1, <5>1
      <4>3. Covers(Q, p, p.end)
        BY <2>2, <3>1, <4>1, <4>2
      <4> QED
        BY <4>3 DEF Settled
    <3> QED
      BY <1>2, <1>3, <3>2, <3>3 DEF Accounts
  <2> QED
    BY <2>1, <2>2
<1> QED
  BY <1>2, <1>3, PopKeepsAccount

LEMMA EndOfBoxPlaces ==
  ASSUME StopInv, PlaceInv, EndOfBox
  PROVE  PlaceInv'
<1> DEFINE f      == Frame
           capped == f.at < f.end /\ ~cancelled
           G(p)   == IF capped /\ p.at = f.box /\ p.lists THEN [p EXCEPT !.gap = "Unknown"] ELSE p
           F      == [p \in parts |-> G(p)]
<1>1. /\ pc = "boxes" /\ ~MoreToList(f) /\ stopped' = (stopped \/ capped)
      /\ parts' = IF capped THEN WithGap(f.box) ELSE parts
      /\ stack' = SubSeq(stack, 1, Len(stack) - 1)
      /\ pc' = IF stack' = << >> THEN "samples" ELSE pc
      /\ UNCHANGED <<given, stop, truncated, budget, traks, rawTrak, packetPlaced, cancelled,
                     tiff, widths, logicalEnd, gap, result>>
  BY DEF EndOfBox, Listing
<1>2. /\ parts \subseteq PartSpace /\ stack \in Seq(FrameSpace) /\ stopped \in BOOLEAN
      /\ tiff \in TiffSpace /\ logicalEnd \in 1 .. Size + 1 /\ Size \in Nat \ {0}
  BY PlacesAre
<1>3. /\ stack # << >> /\ Len(stack) \in Nat \ {0} /\ Len(stack) \in 1 .. Len(stack)
      /\ f \in FrameSpace /\ f = stack[Len(stack)] /\ IsCr3
  BY <1>1, FrameIs DEF PlaceInv, Course
<1>4. IsCr3' = IsCr3 /\ Packet' = Packet /\ build' = build /\ file' = file
  BY <1>1 DEF IsCr3, Packet, given
<1>5. parts' = {F[p] : p \in parts}
  BY <1>1 DEF WithGap
<1>6. \A p \in parts : Alike(F[p], p) /\ F[p] \in PartSpace
  <2> SUFFICES ASSUME NEW p \in parts PROVE Alike(G(p), p) /\ G(p) \in PartSpace
    OBVIOUS
  <2>1. p \in PartSpace
    BY <1>2
  <2> QED
    BY <2>1 DEF Alike, PartSpace
<1>7. /\ Reshapes(parts, parts') /\ parts' \subseteq PartSpace
      /\ (\A p \in parts : p.lists => IsBox(p)) => \A p \in parts' : p.lists => IsBox(p)
      /\ \A q : Packets = {q} => Packets' = {F[q]} /\ Alike(F[q], q)
      /\ Packets = {} => Packets' = {}
  BY <1>1, <1>5, <1>6, ReshapedParts
<1>8. \A p \in parts' : capped /\ p.at = f.box /\ p.lists => p.gap = "Unknown"
  <2> SUFFICES ASSUME NEW x \in parts, capped, G(x).at = f.box, G(x).lists PROVE G(x).gap = "Unknown"
    BY <1>5
  <2>1. x \in PartSpace /\ x.at = f.box /\ x.lists
    BY <1>2, <1>6 DEF Alike
  <2> QED
    BY <2>1 DEF PartSpace
<1> HIDE DEF F, f, capped
<1>9. /\ stack' \in Seq(FrameSpace) /\ Len(stack') = Len(stack) - 1
      /\ \A i \in 1 .. Len(stack') : stack'[i] = stack[i] /\ i \in 1 .. Len(stack)
  BY <1>1, <1>2, <1>3, FrontOfLoops
<1>10. stack' # << >> => 1 \in 1 .. Len(stack') /\ stack'[1] = stack[1]
  BY <1>3, <1>9
<1>11. Typed'
  <2>1. Fits(stack', Len(traks))
    BY <1>9 DEF PlaceInv, Typed, Fits
  <2>2. stopped' \in BOOLEAN
    BY <1>1, <1>2 DEF capped
  <2> QED
    BY <1>1, <1>2, <1>4, <1>7, <1>9, <2>1, <2>2 DEF PlaceInv, Typed, TypeOK, Fits, given, stop
<1>12. Course'
  BY <1>1, <1>3, <1>4 DEF Course, Walking, IsCr3
<1>13. Loops'
  <2>1. LoopsOver(parts', stack)
    BY <1>7, ReshapingKeepsLoops DEF PlaceInv, Loops
  <2>2. LoopsOver(parts', stack')
    BY <1>1, <1>2, <1>3, <1>7, <2>1, PopKeepsLoops
  <2> QED
    BY <2>2 DEF Loops
<1>14. Nested'
  BY <1>3, <1>4, <1>7, ReshapingKeepsNesting DEF PlaceInv, Nested
<1>15. Accounted'
  <2>1. ASSUME reason' = "none" PROVE Accounts(parts', stack', stopped')
    <3>1. reason = "none" /\ ~cancelled
      BY <1>1, <2>1 DEF stop, StopInv, Heeded
    <3>2. Accounts(parts, stack, stopped) /\ \A p \in parts : p.lists => IsBox(p)
      BY <1>3, <3>1 DEF PlaceInv, Accounted
    <3>3. f.at = f.end \/ capped
      <4>1. f.at <= f.end
        BY <1>3 DEF PlaceInv, Loops, LoopsOver
      <4>2. f.at \in Int /\ f.end \in Int
        BY <1>3, Positions
      <4> QED
        BY <3>1, <4>1, <4>2 DEF capped
    <3>4. \/ stack[Len(stack)].at = stack[Len(stack)].end
          \/ stopped' /\ \A p \in parts' : p.at = stack[Len(stack)].box /\ p.lists => p.gap = "Unknown"
      BY <1>1, <1>3, <1>8, <3>3
    <3>5. stopped' \in BOOLEAN /\ (stopped => stopped')
      BY <1>1, <1>2 DEF capped
    <3>6. LoopsOver(parts, stack)
      BY DEF PlaceInv, Loops
    <3>7. Accounts(parts', SubSeq(stack, 1, Len(stack) - 1), stopped')
      BY <1>2, <1>3, <1>7, <3>2, <3>4, <3>5, <3>6, LoopEnds
    <3> QED
      BY <1>1, <3>7
  <2> QED
    BY <1>7, <2>1 DEF PlaceInv, Accounted
<1>16. Reported'
  BY <1>1 DEF Reported
<1>17. Surfacing'
  <2>1. pc' \in {"boxes", "samples"} /\ packetPlaced' = packetPlaced
    BY <1>1
  <2>2. CASE ~packetPlaced
    <3>1. Packets' = {}
      BY <1>1, <1>3, <1>7, <2>2 DEF PlaceInv, Surfacing
    <3> QED
      BY <1>3, <1>4, <2>1, <2>2, <3>1 DEF Surfacing, Walking
  <2>3. CASE packetPlaced
    <3>1. PICK q \in parts : /\ Packets = {q} /\ Packet # {}
                             /\ \A p \in Packet : q.at = p.at /\ q.end = p.end
                             /\ q.end <= stack[1].at
      BY <1>1, <1>3, <2>3 DEF PlaceInv, Surfacing
    <3>2. Packets' = {F[q]} /\ F[q].at = q.at /\ F[q].end = q.end
      BY <1>7, <3>1 DEF Alike
    <3>3. F[q] \in parts'
      BY <1>5, <3>1
    <3> QED
      BY <1>3, <1>4, <1>10, <2>1, <2>3, <3>1, <3>2, <3>3 DEF Surfacing, Walking
  <2> QED
    BY <2>2, <2>3
<1>18. Ending'
  <2>1. \A p \in parts' : \E x \in parts : Alike(p, x)
    BY <1>7 DEF Reshapes
  <2> QED
    BY <1>1, <1>3, <1>10, <2>1 DEF PlaceInv, Ending, Alike
<1> QED
  BY <1>11, <1>12, <1>13, <1>14, <1>15, <1>16, <1>17, <1>18 DEF PlaceInv

-------------------------------------------------------------------------------
\* The samples a track's tables locate, and the packet no box surfaced.
LEMMA ExtentsAre ==
  ASSUME PlaceInv, IsCr3, NEW located \in [1 .. Len(traks) -> Samples]
  PROVE  \A n \in Extents(located) :
           /\ n \in PartSpace /\ n.kind = "sample" /\ ~n.lists
           /\ \E m \in Media : n.in = m.at /\ m.at < n.at /\ n.end <= m.end
<1> SUFFICES ASSUME NEW m \in Media, NEW t \in 1 .. Len(traks), NEW x \in DOMAIN located[t],
                    LiesIn(located[t][x], m)
             PROVE  LET n == Sample(located, t, x, m) IN
                    /\ n \in PartSpace /\ n.kind = "sample" /\ ~n.lists
                    /\ n.in = m.at /\ m.at < n.at /\ n.end <= m.end
  BY DEF Extents
<1> DEFINE r == located[t][x]
<1>1. r \in Ranges
  <2>1. located[t] \in Samples
    OBVIOUS
  <2>2. located[t] \in Seq(Ranges)
    BY <2>1, InventoryAssumption DEF InventoryAssumption
  <2> QED
    BY <2>2
<1> HIDE DEF r
<1>2. r.at \in 1 .. Size /\ r.end \in 2 .. Size + 1 /\ Size \in Nat \ {0}
  BY <1>1, PlacesAre DEF Ranges
<1>3. m \in PartSpace /\ m.at \in File .. Size
  <2>1. m \in PartSpace
    BY PlacesAre DEF Media
  <2> QED
    BY <1>2, <2>1 DEF PartSpace, File
<1>4. SampleDisp(t, x) \in {"Skipped", "ImageData", "Structure"}
  BY DEF SampleDisp
<1>5. Sample(located, t, x, m) = Part(r.at, r.end, m.at, "sample", SampleDisp(t, x))
  BY DEF Sample, r
<1>6. r.at > m.at /\ r.end <= m.end
  BY DEF LiesIn, r
<1>7. m.at \in Int /\ r.at \in Int
  BY <1>2, <1>3 DEF File
<1> QED
  BY <1>2, <1>3, <1>4, <1>5, <1>6, <1>7 DEF Part, PartSpace, Consumed

LEMMA MapSamplesPlaces ==
  ASSUME StopInv, PlaceInv, MapSamples
  PROVE  PlaceInv'
<1>1. PICK located \in [1 .. Len(traks) -> Samples] :
        parts' = {IF Incomplete /\ p \in Media THEN [p EXCEPT !.gap = "Unknown"] ELSE p : p \in parts}
                 \cup Extents(located)
                 \cup {Part(p.at, p.end, File, "XMP", "Metadata") :
                         p \in IF packetPlaced THEN {} ELSE Packet}
  BY DEF MapSamples
<1> DEFINE G(p) == IF Incomplete /\ p \in Media THEN [p EXCEPT !.gap = "Unknown"] ELSE p
           F    == [p \in parts |-> G(p)]
           Q    == {F[p] : p \in parts}
           E    == Extents(located)
           X    == IF packetPlaced THEN {} ELSE TopPacket
<1>2. parts' = (Q \cup E) \cup X
  BY <1>1 DEF TopPacket
<1>3. /\ pc = "samples" /\ pc' = "final" /\ gap' = IF Incomplete THEN "Unknown" ELSE "Unreferenced"
      /\ UNCHANGED <<given, stop, truncated, stack, walk, cancelled, tiff, widths, logicalEnd, result>>
  BY DEF MapSamples
<1>4. /\ IsCr3 /\ stack = << >> /\ IsCr3' = IsCr3 /\ Packet' = Packet /\ build' = build /\ file' = file
  BY <1>3 DEF PlaceInv, Course, Walking, IsCr3, Packet, given
<1>5. /\ parts \subseteq PartSpace /\ stopped \in BOOLEAN /\ Size \in Nat \ {0}
  BY PlacesAre
<1>6. \A p \in parts : Alike(F[p], p) /\ F[p] \in PartSpace
  <2> SUFFICES ASSUME NEW p \in parts PROVE Alike(G(p), p) /\ G(p) \in PartSpace
    OBVIOUS
  <2>1. p \in PartSpace
    BY <1>5
  <2> QED
    BY <2>1 DEF Alike, PartSpace
<1>7. \A p \in parts : /\ p.kind = "XMP" => F[p] = p
                       /\ F[p].disp = p.disp
                       /\ Incomplete /\ p \in Media => F[p].gap = "Unknown"
  <2> SUFFICES ASSUME NEW p \in parts
               PROVE  /\ p.kind = "XMP" => G(p) = p
                      /\ G(p).disp = p.disp
                      /\ Incomplete /\ p \in Media => G(p).gap = "Unknown"
    OBVIOUS
  <2>1. p \in PartSpace
    BY <1>5
  <2> QED
    BY <2>1 DEF PartSpace, Media
<1>8. \A n \in E : /\ n \in PartSpace /\ n.kind = "sample" /\ ~n.lists
                   /\ \E m \in Media : n.in = m.at /\ m.at < n.at /\ n.end <= m.end
  BY <1>4, ExtentsAre
<1>9. \A n \in X : n \in PartSpace /\ n.kind = "XMP" /\ ~n.lists /\ n.in = File
  BY TopPacketIs
<1> HIDE DEF F, E, X
<1>10. Reshapes(parts, Q)
  BY <1>6, Reshaped
<1>11. parts' \subseteq PartSpace
  BY <1>2, <1>6, <1>8, <1>9
<1>12. Typed'
  BY <1>3, <1>4, <1>11 DEF PlaceInv, Typed, Fits, TypeOK, given, stop, walk
<1>13. Course'
  BY <1>3, <1>4 DEF Course, Walking, IsCr3
<1>14. Loops'
  BY <1>3, <1>4 DEF Loops, LoopsOver
<1>15. Nested'
  <2>1. Nests(parts) /\ Nests(Q)
    BY <1>4, <1>10, ReshapingKeepsNesting DEF PlaceInv, Nested
  <2>2. \A n \in E : /\ ~IsListed(n)
                     /\ \A p \in Q : IsBox(p) /\ n.in = p.at => p.at < n.at /\ n.end <= p.end
    <3> SUFFICES ASSUME NEW n \in E
                 PROVE  /\ ~IsListed(n)
                        /\ \A p \in Q : IsBox(p) /\ n.in = p.at => p.at < n.at /\ n.end <= p.end
      OBVIOUS
    <3>1. n.kind = "sample" /\ ~IsListed(n)
      BY <1>8 DEF IsListed, Kinds
    <3>2. PICK m \in Media : n.in = m.at /\ m.at < n.at /\ n.end <= m.end
      BY <1>8
    <3>3. m \in parts /\ IsBox(m)
      BY DEF Media, IsBox, Kinds
    <3>4. ASSUME NEW p \in Q, IsBox(p), n.in = p.at
          PROVE  p.at < n.at /\ n.end <= p.end
      <4>1. PICK y \in parts : Alike(p, y)
        BY <1>6
      <4>2. IsBox(y) /\ y.at = m.at /\ y.end = p.end
        BY <3>2, <3>4, <4>1 DEF Alike, IsBox
      <4>3. y.end = m.end
        BY <2>1, <3>3, <4>2 DEF Nests
      <4> QED
        BY <3>2, <3>4, <4>2, <4>3
    <3> QED
      BY <3>1, <3>4
  <2>3. Nests(Q \cup E)
    BY <2>1, <2>2, LeavesNest
  <2>4. \A n \in X : /\ ~IsListed(n)
                     /\ \A p \in Q \cup E : IsBox(p) /\ n.in = p.at => p.at < n.at /\ n.end <= p.end
    <3>1. \A p \in Q \cup E : p.at # File
      BY <1>6, <1>8 DEF PartSpace, File
    <3> QED
      BY <1>9, <3>1 DEF IsListed, Kinds
  <2>5. Nests((Q \cup E) \cup X)
    BY <2>3, <2>4, LeavesNest
  <2> QED
    BY <1>2, <2>5 DEF Nested
<1>16. Accounted'
  <2>1. \A p \in parts' : p.lists => IsBox(p)
    BY <1>2, <1>6, <1>8, <1>9 DEF PlaceInv, Accounted, Alike, IsBox
  <2>2. ASSUME reason' = "none" PROVE Accounts(parts', stack', stopped')
    <3>1. Accounts(parts, stack, stopped)
      BY <1>3, <1>4, <2>2 DEF PlaceInv, Accounted, stop
    <3>2. Accounts(Q, stack, stopped)
      BY <1>5, <1>10, <3>1, ReshapingKeepsAccount
    <3>3. Accounts(Q \cup E, stack, stopped)
      BY <1>5, <1>8, <3>2, LeavesKeepAccount
    <3>4. Accounts((Q \cup E) \cup X, stack, stopped)
      BY <1>5, <1>9, <3>3, LeavesKeepAccount
    <3> QED
      BY <1>2, <1>3, <3>4 DEF walk
  <2> QED
    BY <2>1, <2>2 DEF Accounted
<1>17. Reported'
  <2>1. ASSUME stopped' PROVE gap' = "Unknown" /\ \A m \in Media' : m.gap = "Unknown"
    <3>1. Incomplete
      BY <1>3, <2>1 DEF Incomplete, walk
    <3>2. ASSUME NEW m \in Media' PROVE m.gap = "Unknown"
      <4>1. m \in parts' /\ m.kind = "mdat" /\ m.in = File /\ m.disp # "Malformed"
        BY DEF Media
      <4>2. PICK y \in parts : m = F[y]
        BY <1>2, <1>8, <1>9, <4>1
      <4>3. y \in Media
        BY <1>6, <1>7, <4>1, <4>2 DEF Media, Alike
      <4> QED
        BY <1>7, <3>1, <4>2, <4>3
    <3> QED
      BY <1>3, <3>1, <3>2
  <2> QED
    BY <2>1 DEF Reported
<1>18. Surfacing'
  <2>1. Packets' = Packets \cup X
    <3>1. ASSUME NEW p PROVE p \in Packets' <=> p \in Packets \cup X
      <4>1. p \in Q /\ p.kind = "XMP" => p \in Packets
        BY <1>6, <1>7 DEF Packets, Alike
      <4>2. p \in Packets => p \in Q
        BY <1>7 DEF Packets
      <4>3. p \in E => p.kind # "XMP"
        BY <1>8
      <4>4. p \in X => p.kind = "XMP"
        BY <1>9
      <4>5. p \in Packets => p.kind = "XMP"
        BY DEF Packets
      <4>6. p \in Packets' <=> p \in parts' /\ p.kind = "XMP"
        BY DEF Packets
      <4> QED
        BY <1>2, <4>1, <4>2, <4>3, <4>4, <4>5, <4>6
    <3> QED
      BY <3>1
  <2>2. CASE packetPlaced
    <3>1. Packet # {} /\ \E q \in parts : Packets = {q}
      BY <1>3, <1>4, <2>2 DEF PlaceInv, Surfacing
    <3>2. Packets' = Packets
      BY <2>1, <2>2 DEF X
    <3> QED
      BY <1>3, <1>4, <3>1, <3>2 DEF Surfacing, Once, Packets, Walking
  <2>3. CASE ~packetPlaced
    <3>1. Packets = {}
      BY <1>3, <1>4, <2>3 DEF PlaceInv, Surfacing
    <3>2. Packets' = TopPacket
      BY <2>1, <2>3, <3>1 DEF X
    <3>3. IF Packet = {} THEN TopPacket = {} ELSE \E q : TopPacket = {q}
      BY TopPacketIs
    <3>4. Once'
      BY <1>4, <3>2, <3>3 DEF Once, Packets
    <3> QED
      BY <1>3, <1>4, <3>4 DEF Surfacing, Walking
  <2> QED
    BY <2>2, <2>3
<1>19. Ending'
  <2>1. ASSUME NEW p \in parts', p.in = File, p.kind # "XMP" PROVE p.end <= logicalEnd'
    <3>1. CASE p \in Q
      BY <1>3, <1>6, <2>1, <3>1 DEF PlaceInv, Ending, Alike
    <3>2. p \notin E
      <4>1. \A m \in Media : m.at # File
        BY <1>5 DEF Media, PartSpace, File
      <4> QED
        BY <1>8, <2>1, <4>1
    <3> QED
      BY <1>2, <1>9, <2>1, <3>1, <3>2
  <2> QED
    BY <1>3, <1>4, <2>1 DEF Ending
<1> QED
  BY <1>12, <1>13, <1>14, <1>15, <1>16, <1>17, <1>18, <1>19 DEF PlaceInv

-------------------------------------------------------------------------------
\* The verdict: what no decode gets to is skipped where it is.
LEMMA FinalPlaces ==
  ASSUME StopInv, PlaceInv, Final
  PROVE  PlaceInv'
<1>1. /\ pc = "final" /\ pc' = "done" /\ Ask
      /\ UNCHANGED <<given, truncated, stack, walk, cancelled, tiff, widths, logicalEnd, gap>>
      /\ result' \in {"stopped", "inventory", "parts"}
      /\ result' = "stopped" => parts' = parts
      /\ parts' = parts \/ parts' = NotDecoded
  BY DEF Final, Answer
<1>2. /\ stack = << >> /\ IsCr3' = IsCr3 /\ Packet' = Packet /\ build' = build /\ file' = file
  BY <1>1 DEF PlaceInv, Course, Walking, IsCr3, Packet, given
<1>3. parts \subseteq PartSpace /\ stopped \in BOOLEAN
  BY PlacesAre
<1> DEFINE G(p) == IF parts' = NotDecoded /\ p.disp \in Consumed THEN [p EXCEPT !.disp = "Skipped"] ELSE p
           F    == [p \in parts |-> G(p)]
<1>4. parts' = {F[p] : p \in parts}
  <2>1. CASE parts' = NotDecoded
    BY <2>1 DEF NotDecoded
  <2>2. CASE parts' = parts /\ parts' # NotDecoded
    BY <2>2
  <2> QED
    BY <1>1, <2>1, <2>2
<1>5. \A p \in parts : Alike(F[p], p) /\ F[p] \in PartSpace /\ F[p].gap = p.gap
                       /\ (p.disp = "Malformed" => F[p].disp = "Malformed")
  <2> SUFFICES ASSUME NEW p \in parts
               PROVE  Alike(G(p), p) /\ G(p) \in PartSpace /\ G(p).gap = p.gap
                      /\ (p.disp = "Malformed" => G(p).disp = "Malformed")
    OBVIOUS
  <2>1. p \in PartSpace
    BY <1>3
  <2> QED
    BY <2>1 DEF Alike, PartSpace, Consumed
<1> HIDE DEF F
<1>6. /\ Reshapes(parts, parts') /\ parts' \subseteq PartSpace
      /\ (\A p \in parts : p.lists => IsBox(p)) => \A p \in parts' : p.lists => IsBox(p)
      /\ Once => Once'
  BY <1>1, <1>4, <1>5, ReshapedParts
<1>7. Typed'
  BY <1>1, <1>2, <1>6, AskTyped DEF PlaceInv, Typed, Fits, TypeOK, given, walk
<1>8. Course'
  BY <1>1, <1>2 DEF Course, Walking, IsCr3
<1>9. Loops'
  BY <1>1, <1>2 DEF Loops, LoopsOver
<1>10. Nested'
  BY <1>2, <1>6, ReshapingKeepsNesting DEF PlaceInv, Nested
<1>11. Accounted'
  <2>1. ASSUME IsCr3, reason' = "none" PROVE Accounts(parts', stack', stopped')
    <3>1. Accounts(parts, stack, stopped)
      BY <1>1, <2>1, ReasonStays DEF PlaceInv, Accounted
    <3> QED
      BY <1>1, <1>3, <1>6, <3>1, ReshapingKeepsAccount DEF walk
  <2> QED
    BY <1>2, <1>6, <2>1 DEF PlaceInv, Accounted
<1>12. Reported'
  <2>1. ASSUME IsCr3, stopped' PROVE gap' = "Unknown" /\ \A m \in Media' : m.gap = "Unknown"
    <3>1. gap = "Unknown" /\ \A m \in Media : m.gap = "Unknown"
      BY <1>1, <2>1 DEF PlaceInv, Reported, walk
    <3>2. ASSUME NEW m \in Media' PROVE m.gap = "Unknown"
      <4>1. m \in parts' /\ m.kind = "mdat" /\ m.in = File /\ m.disp # "Malformed"
        BY DEF Media
      <4>2. PICK y \in parts : m = F[y]
        BY <1>4, <4>1
      <4>3. y \in Media
        BY <1>5, <4>1, <4>2 DEF Media, Alike
      <4> QED
        BY <1>5, <3>1, <4>2, <4>3
    <3> QED
      BY <1>1, <3>1, <3>2
  <2> QED
    BY <1>2, <2>1 DEF Reported
<1>13. Surfacing'
  <2>1. file.container # "other" => Once
    BY <1>1 DEF PlaceInv, Surfacing
  <2> QED
    BY <1>1, <1>2, <1>6, <2>1 DEF Surfacing, Walking
<1>14. Ending'
  <2>1. \A p \in parts' : \E x \in parts : Alike(p, x)
    BY <1>6 DEF Reshapes
  <2> QED
    BY <1>1, <1>2, <2>1 DEF PlaceInv, Ending, Alike
<1> QED
  BY <1>7, <1>8, <1>9, <1>10, <1>11, <1>12, <1>13, <1>14 DEF PlaceInv

-------------------------------------------------------------------------------
\* What a loop over boxes finds where it stands.
LEMMA ListingIs ==
  ASSUME PlaceInv, Listing
  PROVE  /\ pc = "boxes" /\ IsCr3 /\ stack # << >> /\ stack \in Seq(FrameSpace)
         /\ Len(stack) \in Nat \ {0} /\ Len(stack) \in 1 .. Len(stack) /\ 1 \in 1 .. Len(stack)
         /\ Frame \in FrameSpace /\ Frame = stack[Len(stack)]
         /\ Frame.at <= Frame.end /\ Frame.box < Frame.at
         /\ Len(stack) = 1 <=> Frame.box = File
         /\ Len(stack) = 1 <=> Frame.parent = "Top"
         /\ Frame.parent \in {"Top"} \cup Containers
         /\ build = "rawler" => Frame.parent # "Other"
         /\ Frame.trak <= Len(traks)
         /\ Nests(parts) /\ LoopsOver(parts, stack)
<1>1. pc = "boxes" /\ stack # << >> /\ IsCr3 /\ Frame.parent # "Cmt"
  BY DEF Listing, PlaceInv, Course
<1>2. /\ stack \in Seq(FrameSpace)
      /\ Len(stack) \in Nat \ {0} /\ Len(stack) \in 1 .. Len(stack) /\ 1 \in 1 .. Len(stack)
      /\ Frame \in FrameSpace /\ Frame = stack[Len(stack)]
  BY <1>1, PlacesAre, FrameIs
<1>3. /\ Frame.at <= Frame.end /\ Frame.box < Frame.at
      /\ Len(stack) = 1 <=> Frame.box = File
      /\ Len(stack) = 1 <=> Frame.parent = "Top"
  BY <1>2 DEF PlaceInv, Loops, LoopsOver
<1>4. Frame.trak <= Len(traks) /\ (build = "rawler" => Frame.parent # "Other")
  BY <1>2 DEF PlaceInv, Typed, Fits
<1>5. Frame.parent \in {"Top"} \cup Containers
  <2>1. Frame.parent \in Parents
    BY <1>2 DEF FrameSpace
  <2> QED
    BY <1>1, <2>1 DEF Parents
<1> QED
  BY <1>1, <1>2, <1>3, <1>4, <1>5 DEF PlaceInv, Loops, Nested

\* The walk is told to stop: the loop is left, the parts stay.
LEMMA AbandonPlaces ==
  ASSUME StopInv, PlaceInv, WalkBox, Told, Abandon
  PROVE  PlaceInv'
<1>1. /\ Listing /\ Ask /\ pc' = IF stack' = << >> THEN "samples" ELSE pc
      /\ UNCHANGED <<given, tiff, widths, gap, result, walk, parts, logicalEnd>>
      /\ cancelled' = TRUE /\ truncated' = TRUE
      /\ stack' = SubSeq(stack, 1, Len(stack) - 1)
  BY DEF WalkBox, Abandon
<1>2. /\ pc = "boxes" /\ IsCr3 /\ stack # << >> /\ stack \in Seq(FrameSpace) /\ parts \subseteq PartSpace
      /\ Len(stack) \in Nat \ {0} /\ LoopsOver(parts, stack)
  BY <1>1, ListingIs, PlacesAre
<1>3. /\ IsCr3' = IsCr3 /\ Packet' = Packet /\ build' = build /\ file' = file
      /\ Packets' = Packets
  BY <1>1 DEF IsCr3, Packet, given, Packets
<1>4. /\ stack' \in Seq(FrameSpace) /\ Len(stack') = Len(stack) - 1
      /\ \A i \in 1 .. Len(stack') : stack'[i] = stack[i] /\ i \in 1 .. Len(stack)
  BY <1>1, <1>2, FrontOfLoops
<1>5. stack' # << >> => 1 \in 1 .. Len(stack') /\ stack'[1] = stack[1]
  BY <1>2, <1>4
<1>6. Typed'
  <2>1. Fits(stack', Len(traks))
    BY <1>4 DEF PlaceInv, Typed, Fits
  <2> QED
    BY <1>1, <1>3, <1>4, <2>1, AskTyped DEF PlaceInv, Typed, TypeOK, Fits, given, walk
<1>7. Course'
  BY <1>1, <1>2, <1>3 DEF Course, Walking, IsCr3
<1>8. Loops'
  BY <1>1, <1>2, PopKeepsLoops DEF Loops
<1>9. Nested' /\ Ending'
  BY <1>1, <1>2, <1>3, <1>5 DEF PlaceInv, Nested, Ending
<1>10. Accounted' /\ Reported'
  BY <1>1, <1>2 DEF PlaceInv, Accounted, Reported, Told
<1>11. Surfacing'
  BY <1>1, <1>2, <1>3, <1>5 DEF PlaceInv, Surfacing, Walking, walk
<1> QED
  BY <1>6, <1>7, <1>8, <1>9, <1>10, <1>11 DEF PlaceInv

\* A box or a rest is listed: what it is, where the loops go on, and the packet
\* if it is surfaced here.
LEMMA ListingPlaces ==
  ASSUME StopInv, PlaceInv, Listing, Ask \/ UNCHANGED stop,
         UNCHANGED <<given, tiff, widths, gap, result, stopped, cancelled, truncated>>,
         NEW b, Lists(stack, b), b.lists => IsBox(b),
         NEW X, parts' = (parts \cup {b}) \cup X,
         \/ X = {} /\ packetPlaced' = packetPlaced
         \/ /\ Packets = {} /\ packetPlaced' = TRUE /\ Frame.box = File /\ ~b.lists
            /\ \E p \in Packet : \E x \in PartSpace :
                 /\ X = {x} /\ Packet = {p} /\ x.kind = "XMP" /\ ~x.lists
                 /\ x.at = p.at /\ x.end = p.end /\ x.in = b.at /\ b.at < p.at /\ p.end <= b.end
            /\ stack' = GoneOn(stack, b.end),
         \/ stack' = GoneOn(stack, b.end) /\ ~b.lists
         \/ \E g : /\ stack' = Append(GoneOn(stack, b.end), g)
                   /\ Inner(parts \cup {b}, GoneOn(stack, b.end), g)
                   /\ g.box = b.at /\ g.trak <= Len(traks') /\ (build = "rawler" => g.parent # "Other"),
         logicalEnd' = IF Frame.box = File THEN b.end ELSE logicalEnd,
         pc' = IF stack' = << >> THEN "samples" ELSE pc,
         budget' \in 0 .. MaxBoxes, rawTrak' \in 0 .. 2,
         traks' \in Seq(SUBSET {"stsz", "co64", "stco", "CTMD"}), Len(traks) <= Len(traks')
  PROVE  PlaceInv'
<1> DEFINE s == stack
           n == Len(stack)
           r == GoneOn(stack, b.end)
           Q == parts \cup {b}
<1>1. /\ pc = "boxes" /\ IsCr3 /\ stack # << >> /\ stack \in Seq(FrameSpace)
      /\ n \in Nat \ {0} /\ n \in 1 .. n /\ 1 \in 1 .. n
      /\ Frame \in FrameSpace /\ Frame = stack[n]
      /\ n = 1 <=> Frame.box = File
      /\ Nests(parts) /\ LoopsOver(parts, stack)
  BY ListingIs
<1>2. /\ parts \subseteq PartSpace /\ stopped \in BOOLEAN /\ Size \in Nat \ {0} /\ logicalEnd \in 1 .. Size + 1
  BY PlacesAre
<1>3. /\ IsCr3' = IsCr3 /\ Packet' = Packet /\ build' = build /\ file' = file
  BY DEF IsCr3, Packet, given
<1>4. /\ b \in PartSpace /\ IsListed(b) /\ b.at = Frame.at /\ b.in = Frame.box
      /\ b.at < b.end /\ b.end <= Frame.end /\ b.end \in 1 .. Size + 1 /\ b.at \in Nat /\ b.end \in Nat
  BY <1>1, <1>2 DEF Lists, PartSpace
<1>5. /\ r \in Seq(FrameSpace) /\ Len(r) = n
      /\ \A i \in 1 .. n : r[i] = IF i = n THEN [s[i] EXCEPT !.at = b.end] ELSE s[i]
  BY <1>1, <1>4, GoneOnIs
<1>6. \A i \in 1 .. n : /\ r[i].box = s[i].box /\ r[i].trak = s[i].trak /\ r[i].parent = s[i].parent
                        /\ r[i].at = IF i = n THEN b.end ELSE s[i].at
  <2> SUFFICES ASSUME NEW i \in 1 .. n
               PROVE  /\ r[i].box = s[i].box /\ r[i].trak = s[i].trak /\ r[i].parent = s[i].parent
                      /\ r[i].at = IF i = n THEN b.end ELSE s[i].at
    OBVIOUS
  <2> DEFINE f == s[i]
  <2>1. f \in FrameSpace /\ r[i] = IF i = n THEN [f EXCEPT !.at = b.end] ELSE f
    BY <1>1, <1>5
  <2> HIDE DEF f, r
  <2>2. /\ r[i].box = f.box /\ r[i].trak = f.trak /\ r[i].parent = f.parent
        /\ r[i].at = IF i = n THEN b.end ELSE f.at
    BY <2>1 DEF FrameSpace
  <2> QED
    BY <2>2 DEF f
<1>7. LoopsOver(Q, r) /\ Nests(Q) /\ Q \subseteq PartSpace
  BY <1>1, <1>2, <1>4, ListedKeepsLoops, ListedNests
<1>8. \A p \in parts : p.in < b.at /\ (IsListed(p) => p.at < b.at)
  BY <1>1, <1>2, Outside
<1> HIDE DEF r
<1>9. r # << >>
  BY <1>1, <1>5
<1>10. /\ LoopsOver(Q, stack') /\ stack' \in Seq(FrameSpace) /\ stack' # << >>
       /\ Len(stack') \in Nat /\ n <= Len(stack')
       /\ \A i \in 1 .. n : stack'[i] = r[i]
       /\ b.lists => \E i \in 1 .. Len(stack') : stack'[i].box = b.at /\ stack'[i].at = b.at + 1
       /\ Fits(stack', Len(traks'))
  <2>1. Fits(r, Len(traks'))
    <3>1. Fits(s, Len(traks))
      BY DEF PlaceInv, Typed
    <3> SUFFICES ASSUME NEW i \in 1 .. n
                 PROVE  r[i].trak <= Len(traks') /\ (build = "rawler" => r[i].parent # "Other")
      BY <1>5 DEF Fits
    <3>2. s[i].trak \in Nat /\ Len(traks) \in Nat /\ Len(traks') \in Nat
      <4>1. s[i] \in FrameSpace /\ traks \in Seq(SUBSET {"stsz", "co64", "stco", "CTMD"})
        BY <1>1 DEF PlaceInv, Typed
      <4>2. \A f \in FrameSpace : f.trak \in Nat
        BY DEF FrameSpace
      <4> QED
        BY <4>1, <4>2
    <3> QED
      BY <1>6, <3>1, <3>2 DEF Fits
  <2>2. CASE stack' = r /\ ~b.lists
    <3>1. LoopsOver(Q, stack') /\ stack' \in Seq(FrameSpace) /\ stack' # << >>
      BY <1>5, <1>7, <1>9, <2>2
    <3>2. Len(stack') \in Nat /\ n <= Len(stack')
      BY <1>1, <1>5, <2>2
    <3>3. /\ \A i \in 1 .. n : stack'[i] = r[i]
          /\ b.lists => \E i \in 1 .. Len(stack') : stack'[i].box = b.at /\ stack'[i].at = b.at + 1
          /\ Fits(stack', Len(traks'))
      BY <2>1, <2>2
    <3> QED
      BY <3>1, <3>2, <3>3
  <2>3. CASE \E g : /\ stack' = Append(r, g) /\ Inner(Q, r, g)
                    /\ g.box = b.at /\ g.trak <= Len(traks') /\ (build = "rawler" => g.parent # "Other")
    <3>1. PICK g : /\ stack' = Append(r, g) /\ Inner(Q, r, g)
                   /\ g.box = b.at /\ g.trak <= Len(traks') /\ (build = "rawler" => g.parent # "Other")
      BY <2>3
    <3>2. g \in FrameSpace /\ g.at = b.at + 1
      BY <3>1 DEF Inner
    <3>3. LoopsOver(Q, stack') /\ stack' \in Seq(FrameSpace)
      BY <1>5, <1>7, <1>9, <3>1, InnerKeepsLoops
    <3>4. /\ Len(stack') = n + 1 /\ stack'[n + 1] = g
          /\ \A i \in 1 .. n : stack'[i] = r[i]
      BY <1>5, <3>1, <3>2, AppendProperties
    <3>5. n + 1 \in 1 .. Len(stack')
      BY <1>1, <3>4
    <3>6. Fits(stack', Len(traks'))
      <4> SUFFICES ASSUME NEW i \in 1 .. n + 1
                   PROVE  stack'[i].trak <= Len(traks') /\ (build = "rawler" => stack'[i].parent # "Other")
        BY <3>4 DEF Fits
      <4>1. CASE i \in 1 .. n
        BY <1>5, <2>1, <3>4, <4>1 DEF Fits
      <4>2. CASE i = n + 1
        BY <3>1, <3>4, <4>2
      <4> QED
        BY <1>1, <4>1, <4>2
    <3> QED
      BY <1>1, <3>1, <3>2, <3>3, <3>4, <3>5, <3>6
  <2> QED
    BY <2>2, <2>3 DEF r
<1>11. stack'[1].at = (IF n = 1 THEN b.end ELSE s[1].at) /\ stack'[n].at = b.end
  BY <1>1, <1>6, <1>10
<1>12. \A x \in X : /\ x \in PartSpace /\ x.kind = "XMP" /\ ~x.lists /\ ~IsListed(x) /\ ~IsBox(x)
                    /\ x.in = b.at /\ x.in # File /\ stack' = r
                    /\ b.at < x.at /\ x.end <= b.end
  <2>1. \A x : x.kind = "XMP" => ~IsListed(x) /\ ~IsBox(x)
    BY DEF IsListed, IsBox, Kinds
  <2>2. b.at # File
    BY <1>4 DEF PartSpace, File
  <2> QED
    BY <2>1, <2>2 DEF r
<1>13. parts' = Q \cup X /\ parts' \subseteq PartSpace
  BY <1>7, <1>12
<1>14. Typed'
  <2>1. packetPlaced' \in BOOLEAN /\ logicalEnd' \in 1 .. Size + 1
    BY <1>2, <1>4 DEF PlaceInv, Typed, TypeOK
  <2>2. \A t \in 1 .. Len(traks') : traks'[t] \subseteq {"stsz", "co64", "stco", "CTMD"}
    OBVIOUS
  <2> QED
    BY <1>3, <1>10, <1>13, <2>1, <2>2, AskTyped DEF PlaceInv, Typed, TypeOK, Fits, given
<1>15. Course'
  BY <1>1, <1>3, <1>10 DEF Course, Walking, IsCr3
<1>16. Loops'
  <2>1. \A x \in X : ~IsListed(x) /\ ~x.lists /\ (stack' # << >> => x.in < stack'[Len(stack')].at)
    BY <1>4, <1>5, <1>11, <1>12
  <2>2. LoopsOver(Q \cup X, stack')
    BY <1>10, <2>1, LeavesKeepLoops
  <2> QED
    BY <1>13, <2>2 DEF Loops
<1>17. Nested'
  <2>1. \A x \in X : /\ ~IsListed(x)
                     /\ \A p \in Q : IsBox(p) /\ x.in = p.at => p.at < x.at /\ x.end <= p.end
    <3> SUFFICES ASSUME NEW x \in X, NEW p \in Q, IsBox(p), x.in = p.at
                 PROVE  p.at < x.at /\ x.end <= p.end
      BY <1>12
    <3>1. p = b
      <4>1. ASSUME p \in parts PROVE FALSE
        <5>1. p.at < b.at /\ p.at = b.at
          BY <1>8, <1>12, <4>1 DEF IsBox, IsListed
        <5> QED
          BY <1>4, <5>1
      <4> QED
        BY <4>1
    <3> QED
      BY <1>12, <3>1
  <2>2. Nests(Q \cup X)
    BY <1>7, <2>1, LeavesNest
  <2> QED
    BY <1>13, <2>2 DEF Nested
<1>18. Accounted'
  <2>1. \A p \in parts' : p.lists => IsBox(p)
    BY <1>12, <1>13 DEF PlaceInv, Accounted
  <2>2. ASSUME reason' = "none" PROVE Accounts(parts', stack', stopped')
    <3>1. Accounts(parts, s, stopped)
      BY <1>1, <2>2, ReasonStays DEF PlaceInv, Accounted
    <3>2. \A i \in 1 .. n : /\ stack'[i].box = s[i].box
                            /\ stack'[i].at = IF i = n THEN b.end ELSE s[i].at
      BY <1>6, <1>10
    <3>3. Accounts(Q, stack', stopped)
      BY <1>1, <1>2, <1>10, <3>1, <3>2, ListedKeepsAccount
    <3>4. /\ \A x \in parts' \ Q : ~x.lists
          /\ Q \subseteq parts' /\ stopped \in BOOLEAN /\ stopped' = stopped
      BY <1>2, <1>12, <1>13
    <3> HIDE DEF Q
    <3> QED
      BY <3>3, <3>4, MoreKeepsAccount
  <2> QED
    BY <2>1, <2>2 DEF Accounted
<1>19. Reported'
  BY <1>1, <1>10 DEF Reported
<1>20. Surfacing'
  <2>1. pc' = "boxes" /\ stack' # << >>
    BY <1>1, <1>10
  <2>2. b.kind # "XMP"
    BY <1>4 DEF IsListed, Kinds
  <2>3. CASE X = {} /\ packetPlaced' = packetPlaced
    <3>1. Packets' = Packets
      BY <2>2, <2>3 DEF Packets
    <3>2. CASE ~packetPlaced
      BY <1>1, <1>3, <2>1, <2>3, <3>1, <3>2 DEF PlaceInv, Surfacing, Walking
    <3>3. CASE packetPlaced
      <4>1. PICK q \in parts : /\ Packets = {q} /\ Packet # {}
                               /\ \A p \in Packet : q.at = p.at /\ q.end = p.end
                               /\ q.end <= s[1].at
        BY <1>1, <3>3 DEF PlaceInv, Surfacing
      <4>2. q.end <= stack'[1].at
        <5>1. CASE n = 1
          <6>1. q.end \in Int /\ s[1].at = b.at /\ stack'[1].at = b.end
            BY <1>1, <1>2, <1>4, <1>11, <5>1 DEF PartSpace
          <6> QED
            BY <1>4, <4>1, <6>1
        <5>2. CASE n # 1
          BY <1>11, <4>1, <5>2
        <5> QED
          BY <5>1, <5>2
      <4>3. q \in parts'
        BY <1>13
      <4> QED
        BY <1>1, <1>3, <2>1, <2>3, <3>1, <3>3, <4>1, <4>2, <4>3 DEF Surfacing, Walking
    <3> QED
      BY <3>2, <3>3
  <2>4. CASE /\ Packets = {} /\ packetPlaced' = TRUE /\ Frame.box = File
             /\ \E p \in Packet : \E x \in PartSpace :
                 /\ X = {x} /\ Packet = {p} /\ x.kind = "XMP" /\ ~x.lists
                 /\ x.at = p.at /\ x.end = p.end /\ x.in = b.at /\ b.at < p.at /\ p.end <= b.end
    <3>1. PICK p \in Packet, x \in PartSpace :
                 /\ X = {x} /\ Packet = {p} /\ x.kind = "XMP" /\ ~x.lists
                 /\ x.at = p.at /\ x.end = p.end /\ x.in = b.at /\ b.at < p.at /\ p.end <= b.end
      BY <2>4
    <3>2. Packets' = {x} /\ x \in parts'
      BY <1>13, <2>2, <2>4, <3>1 DEF Packets
    <3>3. x.end <= stack'[1].at
      BY <1>1, <1>11, <2>4, <3>1
    <3> QED
      BY <1>1, <1>3, <2>1, <2>4, <3>1, <3>2, <3>3 DEF Surfacing, Walking
  <2> QED
    BY <2>3, <2>4
<1>21. Ending'
  <2>1. logicalEnd' = stack'[1].at /\ logicalEnd <= logicalEnd'
    <3>1. logicalEnd = s[1].at
      BY <1>1 DEF PlaceInv, Ending
    <3> QED
      BY <1>1, <1>2, <1>4, <1>11, <3>1
  <2>2. ASSUME NEW p \in parts', p.in = File, p.kind # "XMP" PROVE p.end <= logicalEnd'
    <3>1. CASE p \in parts
      <4>1. p.end <= logicalEnd /\ p.end \in Int
        BY <1>2, <2>2, <3>1 DEF PlaceInv, Ending, PartSpace
      <4>2. logicalEnd' \in Int
        BY <1>2, <1>4
      <4> QED
        BY <1>2, <2>1, <4>1, <4>2
    <3>2. CASE p = b
      BY <1>4, <2>2, <3>2
    <3> QED
      BY <1>12, <1>13, <2>2, <3>1, <3>2
  <2> QED
    BY <2>1, <2>2 DEF Ending
<1> QED
  BY <1>14, <1>15, <1>16, <1>17, <1>18, <1>19, <1>20, <1>21 DEF PlaceInv

LEMMA BadHeaderPlaces ==
  ASSUME StopInv, PlaceInv, WalkBox, ~Told, BadHeader
  PROVE  PlaceInv'
<1> DEFINE f == Frame
           b == Part(f.at, f.end, f.box, "rest", "Malformed")
<1>1. /\ Listing /\ Ask /\ pc' = IF stack' = << >> THEN "samples" ELSE pc
      /\ UNCHANGED <<given, tiff, widths, gap, result, walk, cancelled, truncated>>
      /\ MoreToList(f)
      /\ parts' = parts \cup {b}
      /\ stack' = GoneOn(stack, f.end)
      /\ logicalEnd' = IF f.box = File THEN f.end ELSE logicalEnd
  BY DEF WalkBox, BadHeader, GoneOn
<1>2. /\ stack \in Seq(FrameSpace) /\ stack # << >>
      /\ f \in FrameSpace /\ f = stack[Len(stack)] /\ f.at < f.end /\ Size \in Nat \ {0}
  BY <1>1, ListingIs, PlacesAre DEF MoreToList
<1>3. /\ f.at \in 1 .. Size /\ f.end \in 2 .. Size + 1 /\ f.box \in File .. Size
  BY <1>2 DEF FrameSpace
<1> HIDE DEF f
<1>4. /\ b \in PartSpace /\ IsListed(b) /\ b.at = f.at /\ b.end = f.end /\ b.in = f.box /\ ~b.lists
  BY <1>3 DEF Part, PartSpace, IsListed
<1> HIDE DEF b
<1>5. Lists(stack, b)
  BY <1>2, <1>3, <1>4 DEF Lists
<1>6. /\ budget' \in 0 .. MaxBoxes /\ rawTrak' \in 0 .. 2 /\ stopped' = stopped
      /\ traks' \in Seq(SUBSET {"stsz", "co64", "stco", "CTMD"}) /\ Len(traks) <= Len(traks')
      /\ packetPlaced' = packetPlaced
  BY <1>1 DEF walk, PlaceInv, Typed, TypeOK
<1>7. parts' = (parts \cup {b}) \cup {} /\ stack' = GoneOn(stack, b.end) /\ ~b.lists
  BY <1>1, <1>4
<1>8. logicalEnd' = IF Frame.box = File THEN b.end ELSE logicalEnd
  BY <1>1, <1>4 DEF f
<1> QED
  BY <1>1, <1>5, <1>6, <1>7, <1>8, ListingPlaces

\* The box a header gives takes a place in its parent.
LEMMA BoxEndIs ==
  ASSUME NEW f \in FrameSpace, f.at < f.end, NEW size \in 0 .. Size, Size \in Nat
  PROVE  /\ BoxEnd(f, size) \in 2 .. Size + 1 /\ f.at < BoxEnd(f, size) /\ BoxEnd(f, size) <= f.end
         /\ f.at \in 1 .. Size
BY DEF BoxEnd, FrameSpace

\* Only rawler surfaces the packet, and only from a box of the file's own.
LEMMA ParsesAre ==
  ASSUME PlaceInv, NEW parent \in {"Top"} \cup Containers, build = "rawler" => parent # "Other",
         NEW kind
  PROVE  /\ Parse(parent, kind) = "Xmp" => parent = "Top"
         /\ build = "rawler" => Parse(parent, kind) # "Other"
<1>1. build \in {"rawler", "rawloader"}
  BY InventoryAssumption DEF PlaceInv, Typed, TypeOK, InventoryAssumption
<1>2. CASE build = "rawler"
  <2>1. parent \in {"Top", "Moov", "Trak", "Canon"}
    BY <1>2 DEF Containers
  <2>2. /\ DOMAIN RawlerTable["Top"] = {"moov", "mdat", "xmp", "ftyp"}
        /\ DOMAIN RawlerTable["Moov"] = {"trak", "canon"}
        /\ DOMAIN RawlerTable["Trak"] = {"stbl"}
        /\ DOMAIN RawlerTable["Canon"] = {"CCTP", "CMT"}
    BY DEF RawlerTable
  <2>3. CASE parent = "Top"
    BY <1>2, <2>2, <2>3 DEF Parse, RawlerParse, RawlerTable
  <2>4. CASE parent = "Moov"
    BY <1>2, <2>2, <2>4 DEF Parse, RawlerParse, RawlerTable
  <2>5. CASE parent = "Trak"
    BY <1>2, <2>2, <2>5 DEF Parse, RawlerParse, RawlerTable
  <2>6. CASE parent = "Canon"
    BY <1>2, <2>2, <2>6 DEF Parse, RawlerParse, RawlerTable
  <2> QED
    BY <2>1, <2>3, <2>4, <2>5, <2>6
<1>3. CASE build # "rawler"
  BY <1>3 DEF Parse, RawloaderParse
<1> QED
  BY <1>2, <1>3

\* The file has one packet or none.
LEMMA PacketIs ==
  ASSUME PlaceInv
  PROVE  Packet = {} \/ \E r \in Ranges : Packet = {r}
<1>1. file \in FileSpace
  BY InventoryAssumption DEF PlaceInv, Typed, TypeOK, InventoryAssumption
<1>2. file.packet = {} \/ \E r \in Ranges : file.packet = {r}
  BY <1>1 DEF FileSpace
<1> QED
  BY <1>2 DEF Packet

\* The tables a track has grow, and the tracks are counted.
LEMMA TracksGrow ==
  ASSUME PlaceInv, Listing, NEW kind,
         NoteTables(IF kind = "trak" /\ Frame.depth <= 1 THEN Len(traks) + 1 ELSE Frame.trak, kind)
  PROVE  /\ traks' \in Seq(SUBSET {"stsz", "co64", "stco", "CTMD"})
         /\ Len(traks') = Len(traks) + (IF kind = "trak" /\ Frame.depth <= 1 THEN 1 ELSE 0)
         /\ Len(traks) \in Nat
<1> DEFINE T == SUBSET {"stsz", "co64", "stco", "CTMD"}
<1>1. traks \in Seq(T) /\ Frame.trak <= Len(traks) /\ Frame.trak \in Nat /\ Len(traks) \in Nat
  <2>1. traks \in Seq(T) /\ Frame.trak <= Len(traks) /\ Frame \in FrameSpace
    BY ListingIs DEF PlaceInv, Typed
  <2> QED
    BY <2>1 DEF FrameSpace
<1>2. CASE kind = "stbl" /\ Frame.trak # 0
  <2>1. PICK t \in Tables : traks' = [traks EXCEPT ![Frame.trak] = @ \cup t]
    BY <1>2 DEF NoteTables
  <2>2. Frame.trak \in 1 .. Len(traks)
    BY <1>1, <1>2
  <2>3. t \in T
    BY InventoryAssumption DEF InventoryAssumption
  <2>4. traks[Frame.trak] \cup t \in T
    <3>1. \A x, y \in T : x \cup y \in T
      OBVIOUS
    <3> HIDE DEF T
    <3>2. traks[Frame.trak] \in T
      BY <1>1, <2>2
    <3> QED
      BY <2>3, <3>1, <3>2
  <2>5. traks' = [traks EXCEPT ![Frame.trak] = traks[Frame.trak] \cup t]
    BY <2>1
  <2> HIDE DEF T
  <2>6. traks' \in Seq(T) /\ Len(traks') = Len(traks)
    BY <1>1, <2>2, <2>4, <2>5, ExceptSeq
  <2> QED
    BY <1>1, <1>2, <2>6 DEF T
<1>3. CASE ~(kind = "stbl" /\ Frame.trak # 0) /\ kind = "trak" /\ Frame.depth <= 1
  <2>1. traks' = Append(traks, {})
    BY <1>3 DEF NoteTables
  <2>2. {} \in T
    OBVIOUS
  <2> HIDE DEF T
  <2>3. traks' \in Seq(T) /\ Len(traks') = Len(traks) + 1
    BY <1>1, <2>1, <2>2, AppendProperties
  <2> QED
    BY <1>1, <1>3, <2>3 DEF T
<1>4. CASE ~(kind = "stbl" /\ Frame.trak # 0) /\ ~(kind = "trak" /\ Frame.depth <= 1)
  BY <1>1, <1>4 DEF NoteTables
<1> QED
  BY <1>2, <1>3, <1>4

LEMMA ReadBoxPlaces ==
  ASSUME StopInv, PlaceInv, WalkBox, ~Told,
         NEW kind \in KindsIn[Frame.parent], NEW size \in 0 .. Size, ReadBox(kind, size)
  PROVE  PlaceInv'
<1> DEFINE f     == Frame
           end   == BoxEnd(f, size)
           cut   == Cut(f, size)
           parse == Parse(f.parent, kind)
           lists == ~cut /\ parse \in Containers
           plain == Part(f.at, end, f.box, kind, BoxDisp(parse, cut))
           b     == [plain EXCEPT !.lists = lists]
           xmp   == {Part(p.at, p.end, f.at, "XMP", "Metadata") : p \in Packet}
           shown == Surfaced(parse, cut, f.at, end)
           trak  == IF kind = "trak" /\ f.depth <= 1 THEN Len(traks) + 1 ELSE f.trak
           g     == Call(f.at + 1, end, f.depth + 1, trak, parse, f.at)
           X     == IF shown THEN xmp ELSE {}
           inner == lists \/ (~cut /\ parse = "Cmt")
<1>1. /\ Listing /\ Ask /\ pc' = IF stack' = << >> THEN "samples" ELSE pc
      /\ UNCHANGED <<given, tiff, widths, gap, result, stopped, cancelled, truncated>>
      /\ MoreToList(f)
      /\ budget' = IF budget = 0 THEN 0 ELSE budget - 1
      /\ parts' = (parts \cup {b}) \cup X
      /\ packetPlaced' = (packetPlaced \/ shown)
      /\ NoteTables(trak, kind) /\ ReadCctp(kind)
      /\ logicalEnd' = IF f.box = File THEN end ELSE logicalEnd
      /\ stack' = IF inner THEN Append(GoneOn(stack, end), g) ELSE GoneOn(stack, end)
  BY DEF WalkBox, ReadBox, GoneOn
<1>2. /\ IsCr3 /\ pc = "boxes"
      /\ stack \in Seq(FrameSpace) /\ stack # << >> /\ Len(stack) \in 1 .. Len(stack)
      /\ f \in FrameSpace /\ f = stack[Len(stack)] /\ f.at < f.end /\ Size \in Nat \ {0}
      /\ f.parent \in {"Top"} \cup Containers /\ (build = "rawler" => f.parent # "Other")
      /\ f.trak <= Len(traks)
      /\ Len(stack) = 1 <=> f.box = File
      /\ Len(stack) = 1 <=> f.parent = "Top"
      /\ LoopsOver(parts, stack) /\ parts \subseteq PartSpace
  BY <1>1, ListingIs, PlacesAre DEF MoreToList
<1>3. kind \in Kinds
  <2>1. f.parent \in DOMAIN KindsIn
    BY <1>2, InventoryAssumption DEF InventoryAssumption, Containers
  <2> QED
    BY <2>1, InventoryAssumption DEF InventoryAssumption
<1>4. end \in 2 .. Size + 1 /\ f.at < end /\ end <= f.end /\ f.at \in 1 .. Size
  BY <1>2, BoxEndIs
<1>5. f.box \in File .. Size /\ f.depth \in Nat /\ f.trak \in Nat
  BY <1>2 DEF FrameSpace
<1>6. (parse = "Xmp" => f.parent = "Top") /\ (build = "rawler" => parse # "Other")
  BY <1>2, ParsesAre
<1>7. /\ traks' \in Seq(SUBSET {"stsz", "co64", "stco", "CTMD"})
      /\ Len(traks') = Len(traks) + (IF kind = "trak" /\ f.depth <= 1 THEN 1 ELSE 0)
      /\ Len(traks) \in Nat
  BY <1>1, TracksGrow
<1> HIDE DEF f, end, cut, parse
<1>8. BoxDisp(parse, cut) \in {"Malformed", "Structure", "Skipped"}
  BY DEF BoxDisp
<1>9. /\ b \in PartSpace /\ IsListed(b) /\ IsBox(b)
      /\ b.at = f.at /\ b.end = end /\ b.in = f.box /\ b.lists = lists
  BY <1>3, <1>4, <1>5, <1>8 DEF Part, PartSpace, Consumed, IsListed, IsBox
<1> HIDE DEF plain
<1>10. Lists(stack, b)
  BY <1>2, <1>4, <1>9 DEF Lists
<1>11. parse = "Cmt" => ~lists
  BY DEF Containers
<1>12. trak <= Len(traks') /\ trak \in Nat /\ Len(traks) <= Len(traks')
  BY <1>2, <1>5, <1>7
<1>13. /\ Packets = {} \/ ~shown
       /\ shown => \E p \in Packet : \E x \in PartSpace :
            /\ X = {x} /\ Packet = {p} /\ x.kind = "XMP" /\ ~x.lists
            /\ x.at = p.at /\ x.end = p.end /\ x.in = f.at /\ f.at < p.at /\ p.end <= end
       /\ shown => f.box = File /\ ~inner
  <2> SUFFICES ASSUME shown
               PROVE  /\ Packets = {}
                      /\ \E p \in Packet : \E x \in PartSpace :
                           /\ X = {x} /\ Packet = {p} /\ x.kind = "XMP" /\ ~x.lists
                           /\ x.at = p.at /\ x.end = p.end /\ x.in = f.at /\ f.at < p.at /\ p.end <= end
                      /\ f.box = File /\ ~inner
    OBVIOUS
  <2>1. parse = "Xmp" /\ \E p \in Packet : f.at < p.at /\ p.end <= end
    BY DEF Surfaced, HoldsPacket
  <2>2. PICK p \in Packet : f.at < p.at /\ p.end <= end
    BY <2>1
  <2>3. Packet = {p} /\ p \in Ranges
    BY PacketIs
  <2>4. f.box = File /\ ~inner /\ Len(stack) = 1
    BY <1>2, <1>6, <2>1 DEF Containers
  <2> DEFINE x == Part(p.at, p.end, f.at, "XMP", "Metadata")
  <2>5. X = {x}
    BY <2>3
  <2>6. p.at \in 1 .. Size /\ p.end \in 2 .. Size + 1 /\ p.at < p.end
    BY <1>2, <2>3 DEF Ranges
  <2>7. /\ x \in PartSpace /\ x.kind = "XMP" /\ ~x.lists
        /\ x.at = p.at /\ x.end = p.end /\ x.in = f.at
    BY <1>2, <1>4, <2>6 DEF Part, PartSpace, Consumed, File
  <2>8. Packets = {}
    <3>1. ASSUME packetPlaced PROVE FALSE
      <4>1. PICK q \in parts : q.at = p.at /\ q.end = p.end /\ q.end <= stack[1].at
        BY <1>2, <2>3, <3>1 DEF PlaceInv, Surfacing
      <4>2. stack[1].at = f.at
        BY <1>2, <2>4
      <4> QED
        BY <1>4, <2>2, <2>6, <4>1, <4>2
    <3> QED
      BY <1>2, <3>1 DEF PlaceInv, Surfacing
  <2> HIDE DEF x, X
  <2> QED
    BY <2>2, <2>3, <2>4, <2>5, <2>7, <2>8
<1>14. ASSUME inner
       PROVE  Inner(parts \cup {b}, GoneOn(stack, b.end), g)
  <2>1. parse \in Containers \cup {"Cmt"}
    BY <1>14
  <2>2. f.at + 1 \in 1 .. Size + 1 /\ f.depth + 1 \in Nat /\ f.at \in File .. Size
    BY <1>2, <1>4, <1>5 DEF File
  <2>3. g \in FrameSpace
    <3>1. parse \in Parents /\ end \in 1 .. Size + 1
      BY <1>2, <1>4, <2>1 DEF Parents
    <3>2. trak \in Nat
      BY <1>12
    <3> HIDE DEF trak
    <3> QED
      BY <2>2, <3>1, <3>2 DEF Call, FrameSpace
  <2>4. g.at = f.at + 1 /\ g.end = end /\ g.parent = parse /\ g.box = f.at
    BY DEF Call
  <2>5. g.at = g.box + 1 /\ g.at <= g.end /\ g.box # File /\ g.parent # "Top"
    BY <1>4, <2>1, <2>4 DEF Containers, File
  <2> DEFINE r == GoneOn(stack, b.end)
  <2>6. /\ Len(r) = Len(stack)
        /\ \A i \in 1 .. Len(stack) : r[i] = IF i = Len(stack) THEN [stack[i] EXCEPT !.at = b.end] ELSE stack[i]
    <3>1. b.end \in 1 .. Size + 1
      BY <1>4, <1>9
    <3> QED
      BY <1>2, <3>1, GoneOnIs
  <2>7. \A i \in 1 .. Len(stack) : stack[i] \in FrameSpace /\ stack[i].box < b.at
    BY <1>2, <1>10, Outside
  <2>8. \A h \in FrameSpace : [h EXCEPT !.at = b.end].at = b.end /\ [h EXCEPT !.at = b.end].box = h.box
    BY DEF FrameSpace
  <2> HIDE DEF r, b
  <2>9. \A i \in 1 .. Len(r) : r[i].box < g.box
    BY <1>9, <2>4, <2>6, <2>7, <2>8
  <2>10. r[Len(r)].at = g.end
    <3>1. Len(stack) \in 1 .. Len(stack)
      BY <1>2
    <3>2. r[Len(stack)] = [stack[Len(stack)] EXCEPT !.at = b.end] /\ stack[Len(stack)] \in FrameSpace
      BY <2>6, <2>7, <3>1
    <3>3. r[Len(stack)].at = b.end
      BY <2>8, <3>2
    <3> QED
      BY <1>9, <2>4, <2>6, <3>3
  <2>11. \A p \in parts : p.in < b.at /\ (IsListed(p) => p.at < b.at) /\ (p.lists => IsBox(p))
    BY <1>2, <1>10, Outside DEF PlaceInv, Accounted
  <2>12. \A p \in parts : p.at \in Int /\ p.in \in Int
    BY <1>2 DEF PartSpace, File
  <2>13. b.at \in Int /\ b.in \in Int /\ b.in < b.at
    BY <1>2, <1>10, Outside
  <2>14. ASSUME NEW p \in parts \cup {b}
         PROVE  /\ p.in < g.box
                /\ IsListed(p) => p.at <= g.box
                /\ p.at = g.box /\ g.parent = "Cmt" => ~p.lists
                /\ p.at = g.box /\ IsBox(p) => p.end = g.end
    <3>1. CASE p \in parts
      <4>1. IsBox(p) => IsListed(p)
        BY DEF IsBox, IsListed
      <4> QED
        BY <1>9, <2>4, <2>11, <2>12, <2>13, <3>1, <4>1
    <3>2. CASE p = b
      <4>1. b.at = g.box /\ b.end = g.end
        BY <1>9, <2>4
      <4>2. g.parent = "Cmt" => ~b.lists
        BY <1>9, <1>11, <2>4
      <4> HIDE DEF g
      <4> QED
        BY <2>13, <3>2, <4>1, <4>2
    <3> QED
      BY <3>1, <3>2
  <2>15. g.end <= r[Len(r)].at
    BY <1>4, <2>4, <2>10
  <2> HIDE DEF g
  <2>16. Inner(parts \cup {b}, r, g)
    BY <2>3, <2>5, <2>9, <2>14, <2>15 DEF Inner
  <2> QED
    BY <2>16 DEF r
<1>15. /\ g.box = b.at /\ g.trak <= Len(traks')
       /\ inner => (build = "rawler" => g.parent # "Other")
  BY <1>6, <1>9, <1>12 DEF Call
<1>16. /\ budget' \in 0 .. MaxBoxes /\ rawTrak' \in 0 .. 2
  <2>1. budget \in 0 .. MaxBoxes /\ MaxBoxes \in Nat /\ rawTrak \in 0 .. 2
    BY InventoryAssumption DEF InventoryAssumption, PlaceInv, Typed, TypeOK
  <2> QED
    BY <1>1, <2>1 DEF ReadCctp
<1>17. logicalEnd' = IF Frame.box = File THEN b.end ELSE logicalEnd
  BY <1>1, <1>9 DEF f
<1> HIDE DEF b, g
<1>18. \/ stack' = GoneOn(stack, b.end) /\ ~b.lists
       \/ /\ stack' = Append(GoneOn(stack, b.end), g)
          /\ Inner(parts \cup {b}, GoneOn(stack, b.end), g)
          /\ g.box = b.at /\ g.trak <= Len(traks') /\ (build = "rawler" => g.parent # "Other")
  BY <1>1, <1>9, <1>14, <1>15
<1>19. \/ X = {} /\ packetPlaced' = packetPlaced
       \/ /\ Packets = {} /\ packetPlaced' = TRUE /\ Frame.box = File /\ ~b.lists
          /\ \E p \in Packet : \E x \in PartSpace :
               /\ X = {x} /\ Packet = {p} /\ x.kind = "XMP" /\ ~x.lists
               /\ x.at = p.at /\ x.end = p.end /\ x.in = b.at /\ b.at < p.at /\ p.end <= b.end
          /\ stack' = GoneOn(stack, b.end)
  <2>1. CASE shown
    <3>1. packetPlaced' = TRUE
      BY <1>1, <2>1
    <3>2. Frame.box = File /\ ~b.lists /\ stack' = GoneOn(stack, b.end)
      BY <1>1, <1>9, <1>13, <2>1 DEF f
    <3> HIDE DEF X, shown
    <3> QED
      BY <1>9, <1>13, <2>1, <3>1, <3>2
  <2>2. CASE ~shown
    <3>1. packetPlaced \in BOOLEAN
      BY DEF PlaceInv, Typed, TypeOK
    <3> QED
      BY <1>1, <2>2, <3>1
  <2> QED
    BY <2>1, <2>2
<1> HIDE DEF X, lists
<1> QED
  BY <1>1, <1>7, <1>9, <1>10, <1>12, <1>16, <1>17, <1>18, <1>19, ListingPlaces

LEMMA WalkBoxPlaces ==
  ASSUME StopInv, PlaceInv, WalkBox
  PROVE  PlaceInv'
<1>1. CASE Told /\ Abandon
  BY <1>1, AbandonPlaces
<1>2. CASE ~Told /\ BadHeader
  BY <1>2, BadHeaderPlaces
<1>3. CASE ~Told /\ \E kind \in KindsIn[Frame.parent], size \in 0 .. Size : ReadBox(kind, size)
  BY <1>3, ReadBoxPlaces
<1> QED
  BY <1>1, <1>2, <1>3 DEF WalkBox

-------------------------------------------------------------------------------
(***************************************************************************)
(* The invariant, and what it says of a report.                            *)
(***************************************************************************)
LEMMA PlaceInit == Init => PlaceInv
<1> SUFFICES ASSUME Init PROVE PlaceInv
  OBVIOUS
<1>1. Size \in Nat \ {0} /\ MaxBoxes \in Nat
  BY InventoryAssumption DEF InventoryAssumption
<1>2. tiff \in TiffSpace
  BY <1>1 DEF Init, NewTiff, TiffSpace, File
<1>3. Typed
  <2>1. TypeOK
    <3>1. /\ budget \in 0 .. MaxBoxes /\ rawTrak \in 0 .. 2 /\ logicalEnd \in 1 .. Size + 1
          /\ \A t \in 1 .. Len(traks) : traks[t] \subseteq {"stsz", "co64", "stco", "CTMD"}
      BY <1>1 DEF Init
    <3> QED
      BY <3>1 DEF Init, TypeOK
  <2>2. stack = << >> /\ traks = << >>
    BY DEF Init
  <2>3. Fits(stack, Len(traks))
    BY <2>2 DEF Fits
  <2> QED
    BY <1>2, <2>1, <2>2, <2>3 DEF Typed
<1>4. Course
  BY DEF Init, Course, Walking
<1>5. Loops /\ Nested /\ Accounted /\ Reported /\ Ending
  BY DEF Init, Loops, LoopsOver, Nested, Nests, Accounted, Accounts, Reported, Ending
<1>6. Surfacing
  BY DEF Init, Surfacing, Walking, Packets
<1> QED
  BY <1>3, <1>4, <1>5, <1>6 DEF PlaceInv

LEMMA PlaceStep == StopInv /\ PlaceInv /\ [Next]_vars => PlaceInv'
<1> SUFFICES ASSUME StopInv, PlaceInv, [Next]_vars PROVE PlaceInv'
  OBVIOUS
<1>1. CASE Start
  BY <1>1, StartPlaces
<1>2. CASE Final
  BY <1>2, FinalPlaces
<1>3. CASE WalkBox
  BY <1>3, WalkBoxPlaces
<1>4. CASE EndOfBox
  BY <1>4, EndOfBoxPlaces
<1>5. CASE StartCmt
  BY <1>5, StartCmtPlaces
<1>6. CASE MapSamples
  BY <1>6, MapSamplesPlaces
<1>7. CASE FirstWalk \/ SecondWalk \/ MakerNotes
  BY <1>7, WalksPlaceNothing
<1>8. CASE PlaceTiff
  BY <1>8, PlaceTiffPlaces
<1>9. CASE RafHeader
  BY <1>9, RafHeaderPlaces
<1>10. CASE JpegSection \/ CfaSection
  BY <1>10, SectionsPlace
<1>11. CASE RafRecords
  BY <1>11, RafRecordsPlaces
<1>12. CASE UNCHANGED vars
  <2>1. /\ UNCHANGED <<given, stop, truncated, pc, stack, walk, cancelled, tiff, widths, placed, result>>
        /\ parts' = parts /\ stack' = stack /\ stopped' = stopped /\ logicalEnd' = logicalEnd /\ gap' = gap
    BY <1>12 DEF vars, walk, placed
  <2>2. Loops' /\ Nested' /\ Accounted' /\ Ending'
    BY <2>1, SamePlaces
  <2>3. Typed'
    BY <2>1 DEF PlaceInv, Typed, TypeOK, Fits, given, stop, walk, placed
  <2>4. IsCr3' = IsCr3 /\ Frame' = Frame /\ Media' = Media
    BY <2>1 DEF IsCr3, Frame, Media, given
  <2>5. Course' /\ Reported'
    BY <2>1, <2>4 DEF PlaceInv, Course, Reported, Walking, given, walk
  <2>6. Surfacing'
    BY <2>1, SamePackets DEF PlaceInv, Surfacing, Walking, given, walk
  <2> QED
    BY <2>2, <2>3, <2>5, <2>6 DEF PlaceInv
<1> QED
  BY <1>1, <1>2, <1>3, <1>4, <1>5, <1>6, <1>7, <1>8, <1>9, <1>10, <1>11, <1>12 DEF Next

LEMMA Placing == Spec => [](StopInv /\ PlaceInv)
<1>1. Init => StopInv /\ PlaceInv
  BY StopInit, PlaceInit
<1>2. (StopInv /\ PlaceInv) /\ [Next]_vars => (StopInv /\ PlaceInv)'
  BY StopStep, PlaceStep
<1> QED
  BY <1>1, <1>2, PTL DEF Spec

\* Every variable has its type: whatever sizes a file gives, no part leaves it
\* (walk_box's and section's clipping).
THEOREM TypeCorrect == Spec => []TypeOK
<1>1. PlaceInv => TypeOK
  BY DEF PlaceInv, Typed
<1> QED
  BY <1>1, Placing, PTL

\* Whatever a CR3's boxes say of their sizes, the parts placed for them nest
\* (walk_box, map_samples).
THEOREM KeepsTheNesting == Spec => []PartsNest
<1>1. PlaceInv => PartsNest
  BY DEF PlaceInv, Nested, Nests, PartsNest, Boxes, IsBox, IsListed
<1> QED
  BY <1>1, Placing, PTL

LEMMA ShortIsUnknown ==
  ASSUME StopInv, PlaceInv
  PROVE  UnlistedIsUnknown
<1> SUFFICES ASSUME Delivered, IsCr3, NEW p \in parts, p.lists, ~FullyListed(p)
             PROVE  gap = "Unknown" /\ p.gap = "Unknown" /\ \A m \in Media : m.gap = "Unknown"
  BY DEF UnlistedIsUnknown
<1>1. result = "inventory" /\ reason = "none" /\ pc = "done"
  BY DEF Delivered, StopInv, Verdict
<1>2. stack = << >>
  BY <1>1 DEF PlaceInv, Course, Walking
<1>3. Settled(parts, p, stopped)
  <2>1. Accounts(parts, stack, stopped)
    BY <1>1 DEF PlaceInv, Accounted
  <2>2. ~ \E i \in 1 .. Len(stack) : stack[i].box = p.at /\ Covers(parts, p, stack[i].at)
    BY <1>2
  <2> QED
    BY <2>1, <2>2 DEF Accounts
<1>4. ~Covers(parts, p, p.end)
  <2>1. \A q \in parts : q.in = p.at /\ IsListed(q) => q \in Inside(p)
    BY DEF Inside, IsListed
  <2> QED
    BY <2>1 DEF Covers, FullyListed
<1>5. stopped /\ p.gap = "Unknown"
  BY <1>3, <1>4 DEF Settled
<1> QED
  BY <1>1, <1>5 DEF PlaceInv, Reported

\* Whatever the budget and the depth, and wherever they end a loop, no delivered
\* report calls what it did not list unreferenced (walk_box's caps, incomplete).
THEOREM TellsWhatIsUnlisted == Spec => []UnlistedIsUnknown
BY Placing, ShortIsUnknown, PTL

LEMMA OnePacket ==
  ASSUME StopInv, PlaceInv
  PROVE  PacketOnce
<1> SUFFICES ASSUME Delivered, file.container # "other"
             PROVE  Cardinality(Packets) = Cardinality(Packet)
  BY DEF PacketOnce, Packets
<1>1. Once
  BY DEF Delivered, StopInv, Verdict, PlaceInv, Surfacing
<1>2. CASE Packet = {}
  BY <1>1, <1>2 DEF Once
<1>3. CASE Packet # {}
  <2>1. PICK q \in parts : Packets = {q}
    BY <1>1, <1>3 DEF Once
  <2>2. PICK r \in Ranges : Packet = {r}
    BY <1>3, PacketIs
  <2>3. Cardinality({q}) = 1 /\ Cardinality({r}) = 1
    BY FS_Singleton
  <2> QED
    BY <2>1, <2>2, <2>3
<1> QED
  BY <1>2, <1>3

\* The packet is in every delivered report of a container that is walked, and no
\* report has it twice (packet_placed).
THEOREM SurfacesThePacketOnce == Spec => []PacketOnce
BY Placing, OnePacket, PTL

\* What a container lists ends where the report says the container does, in a
\* RAF whatever the order of its sections (logical_end).
THEOREM StaysWithinTheEnd == Spec => []NothingBeyondTheEnd
<1>1. PlaceInv => NothingBeyondTheEnd
  BY DEF PlaceInv, Ending, NothingBeyondTheEnd
<1> QED
  BY <1>1, Placing, PTL
=============================================================================
