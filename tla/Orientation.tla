----------------------------- MODULE Orientation -----------------------------
(***************************************************************************)
(* The orientation kernels (src/src/orient.rs), one call at a time.  The   *)
(* eight EXIF orientations are applied in three forms:                     *)
(*                                                                         *)
(*   native  apply_orientation_stop: flips and the half turn swap pixels   *)
(*           in place, the four that exchange the axes copy;               *)
(*   pixels  apply_orientation_pixels, the zencodec adapter's: all copy;   *)
(*   bytes   apply_orientation_bytes, unobserved: all copy.                *)
(*                                                                         *)
(* A buffer is a function from positions to the positions the pixels had   *)
(* in the source.  The channels of a pixel move together, as one.          *)
(***************************************************************************)
EXTENDS Geometry

CONSTANTS
  Sizes,      \* widths and heights considered
  BatchLen,   \* swaps between two polls of the half turn (2^18)
  Pace        \* rows between two polls of the other loops (64)

ASSUME OrientationAssumption ==
  Sizes \subseteq Nat /\ BatchLen \in Nat \ {0} /\ Pace \in Nat \ {0}

Forms  == {"native", "pixels", "bytes"}
Zero   == -1       \* what a fresh buffer holds

VARIABLES
  call,       \* the form, the orientation and the size of the source
  pc,
  row, col,   \* the counters of the two nested loops
  buf,        \* the buffer that will be returned
  total, reported, pending,   \* work announced, reported, and not yet reported
  stop,       \* whether a stop request is raised
  result

loop  == <<row, col>>
work  == <<total, reported, pending>>
vars  == <<call, pc, loop, buf, work, stop, result>>

w == call.w
h == call.h
o == call.o
N == w * h

-----------------------------------------------------------------------------
(* What a loop does.                                                       *)

Observed == call.form # "bytes"
Copies   == call.form # "native" \/ SwapsAxes(o)
Turns    == o = 3 /\ ~Copies

\* The source row and column of the pixel at row r, column c of the result.
Source(r, c) ==
  CASE o = 1 -> <<r, c>>
    [] o = 2 -> <<r, w - 1 - c>>
    [] o = 3 -> <<h - 1 - r, w - 1 - c>>
    [] o = 4 -> <<h - 1 - r, c>>
    [] o = 5 -> <<c, r>>
    [] o = 6 -> <<h - 1 - c, r>>
    [] o = 7 -> <<h - 1 - c, w - 1 - r>>
    [] o = 8 -> <<c, w - 1 - r>>

\* Width and height of the result.
OutW == OrientedDims(o, <<w, h>>)[1]
OutH == OrientedDims(o, <<w, h>>)[2]

\* The pixels at x and y exchanged.
Swapped(b, x, y) == [b EXCEPT ![x] = b[y], ![y] = b[x]]

\* The pixel of the result at row r, column c fetched from the source.
Copied(b, r, c) == [b EXCEPT ![At(r, c, OutW)] = At(Source(r, c)[1], Source(r, c)[2], w)]

LeastOf(x, y) == IF x < y THEN x ELSE y

\* Mutant: the vertical flip goes on past the middle and swaps back.
OuterPastMiddle == IF Copies THEN OutH ELSE IF Turns THEN N \div 2 ELSE h

\* Where the outer loop ends, and how far it steps.
Outer == IF Copies THEN OutH ELSE IF o = 2 THEN h ELSE IF Turns THEN N \div 2 ELSE h \div 2
Step  == IF Turns THEN BatchLen ELSE 1

\* Where the inner loop ends.
Inner == IF Copies THEN OutW
         ELSE IF Turns THEN LeastOf(BatchLen, N \div 2 - row)
         ELSE IF o = 2 THEN w \div 2 ELSE w

\* The work announced before it starts.
Announced == IF ~Observed \/ (o = 1 /\ ~Copies) THEN 0 ELSE Outer

\* Mutant: the second half of a swap reads what the first half has written.
BodyOverwriting ==
  IF Copies THEN Copied(buf, row, col)
  ELSE IF Turns THEN [buf EXCEPT ![row + col] = buf[N - 1 - (row + col)]]
  ELSE [buf EXCEPT ![At(row, col, w)] =
          IF o = 2 THEN buf[At(row, w - 1 - col, w)] ELSE buf[At(h - 1 - row, col, w)]]

\* One turn of the inner loop.
Body ==
  IF Copies THEN Copied(buf, row, col)
  ELSE IF Turns THEN Swapped(buf, row + col, N - 1 - (row + col))
  ELSE IF o = 2 THEN Swapped(buf, At(row, col, w), At(row, w - 1 - col, w))
  ELSE Swapped(buf, At(row, col, w), At(h - 1 - row, col, w))

-----------------------------------------------------------------------------
Init ==
  /\ call \in [form : Forms, o : Orientations, w : Sizes, h : Sizes]
  /\ pc = "begin"
  /\ row = 0 /\ col = 0
  /\ buf = [p \in 0 .. N - 1 |-> p]
  /\ total = 0 /\ reported = 0 /\ pending = 0
  /\ stop = FALSE
  /\ result = "none"

Return(how) == pc' = "done" /\ result' = how

\* A poll: the request is heard, or the call goes on at the place named.
Poll(next) == IF stop THEN Return("Stopped") ELSE pc' = next /\ UNCHANGED result

\* The total is announced; the native form polls, and has nothing to do for 1.
BeginInPlace ==
  /\ pc = "begin" /\ call.form = "native"
  /\ total' = Announced
  /\ buf' = IF Copies THEN [p \in 0 .. N - 1 |-> Zero] ELSE buf
  /\ IF stop THEN Return("Stopped")
     ELSE IF o = 1 THEN Return("ok")
     ELSE pc' = "turn" /\ UNCHANGED result
  /\ UNCHANGED <<call, loop, reported, pending, stop>>

\* The copying forms allocate; the adapter's allocation may fail.
BeginCopy ==
  /\ pc = "begin" /\ call.form # "native"
  /\ total' = Announced
  /\ buf' = [p \in 0 .. N - 1 |-> Zero]
  /\ \/ pc' = "turn" /\ UNCHANGED result
     \/ call.form = "pixels" /\ Return("OutOfMemory")
  /\ UNCHANGED <<call, loop, reported, pending, stop>>

\* The next turn of the outer loop; the half turn polls before each batch.
Turn ==
  /\ pc = "turn" /\ row < Outer
  /\ IF Turns THEN Poll("row") ELSE pc' = "row" /\ UNCHANGED result
  /\ UNCHANGED <<call, loop, buf, work, stop>>

Move ==
  /\ pc = "row" /\ col < Inner
  /\ buf' = Body
  /\ col' = col + 1
  /\ UNCHANGED <<call, pc, row, work, stop, result>>

BatchReport == Inner

\* The half turn reports its batch; the others every Pace rows, and then poll.
RowDone ==
  /\ pc = "row" /\ col = Inner
  /\ row' = row + Step /\ col' = 0
  /\ IF Turns
     THEN reported' = reported + BatchReport /\ pc' = "turn" /\ UNCHANGED pending
     ELSE IF ~Observed THEN pc' = "turn" /\ UNCHANGED <<reported, pending>>
     ELSE IF pending + 1 = Pace
     THEN reported' = reported + Pace /\ pending' = 0 /\ pc' = "paced"
     ELSE pending' = pending + 1 /\ pc' = "turn" /\ UNCHANGED reported
  /\ UNCHANGED <<call, buf, total, stop, result>>

Paced ==
  /\ pc = "paced"
  /\ Poll("turn")
  /\ UNCHANGED <<call, loop, buf, work, stop>>

\* The half turn just ends; the others report the rest and poll once more.
Finish ==
  /\ pc = "turn" /\ row >= Outer
  /\ reported' = reported + pending /\ pending' = 0
  /\ IF Turns THEN Return("ok") ELSE pc' = "finish" /\ UNCHANGED result
  /\ UNCHANGED <<call, loop, buf, total, stop>>

FinishPoll ==
  /\ pc = "finish"
  /\ IF stop /\ Observed THEN Return("Stopped") ELSE Return("ok")
  /\ UNCHANGED <<call, loop, buf, work, stop>>

\* Another thread, or the observer of a report, asks for a stop.
Raise ==
  /\ pc # "done" /\ ~stop
  /\ stop' = TRUE
  /\ UNCHANGED <<call, pc, loop, buf, work, result>>

Returned == pc = "done" /\ UNCHANGED vars

Next ==
  \/ BeginInPlace \/ BeginCopy \/ Turn \/ Move \/ RowDone \/ Paced \/ Finish \/ FinishPoll
  \/ Raise \/ Returned

Spec == Init /\ [][Next]_vars

-----------------------------------------------------------------------------
TypeOK ==
  /\ call \in [form : Forms, o : Orientations, w : Sizes, h : Sizes]
  /\ pc \in {"begin", "turn", "row", "paced", "finish", "done"}
  /\ row \in Nat /\ col \in Nat
  /\ buf \in [0 .. N - 1 -> {Zero} \cup 0 .. N - 1]
  /\ total \in Nat /\ reported \in Nat /\ pending \in 0 .. Pace - 1
  /\ stop \in BOOLEAN
  /\ result \in {"none", "ok", "Stopped", "OutOfMemory"}

\* EXIF: the sides of the picture on which the first row and column belong.
FirstRow(n) == CASE n \in {1, 2} -> "top" [] n \in {3, 4} -> "bottom"
                 [] n \in {5, 8} -> "left" [] n \in {6, 7} -> "right"
FirstCol(n) == CASE n \in {1, 4} -> "left" [] n \in {2, 3} -> "right"
                 [] n \in {5, 6} -> "top" [] n \in {7, 8} -> "bottom"

\* Where the source's pixel r, c is seen in the picture.
Shown(r, c) ==
  LET across == IF FirstRow(o) = "right" THEN h - 1 - r
                ELSE IF FirstRow(o) = "left" THEN r
                ELSE IF FirstCol(o) = "right" THEN w - 1 - c ELSE c
      down   == IF FirstRow(o) = "bottom" THEN h - 1 - r
                ELSE IF FirstRow(o) = "top" THEN r
                ELSE IF FirstCol(o) = "bottom" THEN w - 1 - c ELSE c
  IN <<down, across>>

\* A call that succeeds has put every pixel where its orientation shows it,
\* whichever form was used and however the loops were cut into rows and
\* batches; a buffer whose permutation was interrupted is never one of these.
IsOriented ==
  result = "ok" =>
    \A r \in 0 .. h - 1, c \in 0 .. w - 1 :
      buf[At(Shown(r, c)[1], Shown(r, c)[2], OutW)] = At(r, c, w)

\* At no moment, interrupted or not, is a pixel of the source in two places,
\* and in place none is ever missing.
NothingLost ==
  /\ \A p, q \in DOMAIN buf : p # q /\ buf[p] # Zero => buf[p] # buf[q]
  /\ ~Copies => \A p \in DOMAIN buf : buf[p] # Zero

\* What a successful call has reported is what it announced.
ReportsAll == result = "ok" => reported = total
=============================================================================
