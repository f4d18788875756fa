------------------------------ MODULE MCAdapter ------------------------------
(***************************************************************************)
(* Small instances of Adapter: a 4 x 3 sensor of which the crop keeps      *)
(* 3 x 2, under every hint and tag, and under limits at and one below what *)
(* is needed.                                                              *)
(***************************************************************************)
EXTENDS Adapter

NoLimits == [input |-> None, width |-> None, height |-> None, pixels |-> None, memory |-> None]

Plain ==
  [backend |-> "rawler", length |-> 5, parses |-> TRUE, sensor |-> <<4, 3>>, window |-> <<3, 2>>,
   tag |-> 6, mode |-> "Develop", prefersLinear |-> FALSE, crop |-> TRUE,
   hint |-> [kind |-> "Correct", by |-> 1],
   maxPixels |-> 12, maxBytes |-> 144, limits |-> NoLimits, sticky |-> TRUE]

\* Every orientation of the file under every hint, with and without the crop.
HintJobs ==
  {[Plain EXCEPT !.tag = t, !.hint = i, !.crop = c, !.sticky = s] :
     t \in Orientations, i \in Hints, c \in BOOLEAN, s \in BOOLEAN}

\* Every limit alone, at and one below the need, and the caps of the probe
\* (11: below the sensor, above the window) and of the configuration.
LimitJobs ==
  {[Plain EXCEPT !.backend = b, !.parses = p, !.maxPixels = m, !.maxBytes = y] :
     b \in Backends, p \in BOOLEAN, m \in {11, 12}, y \in {143, 144}}
  \cup
  {[Plain EXCEPT !.mode = m, !.prefersLinear = l, !.crop = c,
                 !.limits = [NoLimits EXCEPT !.memory = Some(y)]] :
     m \in Modes, l \in BOOLEAN, c \in BOOLEAN, y \in {35, 36, 71, 72}}
  \cup
  {[Plain EXCEPT !.maxPixels = m, !.crop = c,
                 !.limits = [NoLimits EXCEPT !.input = i, !.width = w, !.height = h, !.pixels = p]] :
     m \in {11, 12}, c \in BOOLEAN, i \in {None, Some(4), Some(5)}, w \in {None, Some(2), Some(3)},
     h \in {None, Some(1), Some(2)}, p \in {None, Some(5), Some(6), Some(12)}}

AdapterJobs == HintJobs \cup LimitJobs

DocJobs == {[Plain EXCEPT !.hint = i, !.crop = c] : i \in Hints, c \in BOOLEAN}
=============================================================================
