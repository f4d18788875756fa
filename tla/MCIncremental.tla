----------------------------- MODULE MCIncremental -----------------------------
(***************************************************************************)
(* Small instances of Incremental: sources of up to 7 bytes whose header   *)
(* is complete after 1 or 4 of them, decoded under limits at, just below   *)
(* and above what they need.                                               *)
(***************************************************************************)
EXTENDS Incremental

Plain == [len |-> 5, header |-> 4, probes |-> "ok", output |-> 3, fits |-> TRUE, pixels |-> TRUE]

\* Sources that fail in every way a source can fail.
MCSources ==
  {[Plain EXCEPT !.len = l, !.header = h, !.output = o] :
     l \in {0, 1, 5}, h \in {1, 4}, o \in {0, 3}}
  \cup {[Plain EXCEPT !.probes = p] : p \in {"malformed", "overCap"}}
  \cup {[Plain EXCEPT !.fits = FALSE], [Plain EXCEPT !.pixels = FALSE],
        [Plain EXCEPT !.len = 7], [Plain EXCEPT !.output = 30]}

Optional(S) == {None} \cup {Some(n) : n \in S}

MCLimitSets == [input : Optional({0, 4, 5}), memory : Optional({0, 5, 7, 8, 9})]

MCLengths == {2, 3, 5, 6, 8}

\* One source per outcome, for the liveness of a session.
FewSources == {Plain, [Plain EXCEPT !.probes = "malformed"], [Plain EXCEPT !.header = 1]}
FewLimits == [input : Optional({4, 5}), memory : Optional({5, 8, 9})]
=============================================================================
