----------------------------- MODULE MCDarktable -----------------------------
(***************************************************************************)
(* Small instances of Darktable: two threads, two or three calls, outputs  *)
(* of up to three bytes under a limit of two.                              *)
(***************************************************************************)
EXTENDS Darktable, TLC

CONSTANTS t1, t2

\* Threads are interchangeable.
Threads == Permutations(Callers)

Plain == [bytes |-> FALSE, path |-> TRUE, cli |-> TRUE, xmp |-> TRUE, maxPixels |-> 2]
Bytes == [Plain EXCEPT !.bytes = TRUE, !.xmp = FALSE]

\* Calls with every argument that makes a difference.
AllCalls == {Plain, Bytes, [Plain EXCEPT !.path = FALSE], [Bytes EXCEPT !.cli = FALSE],
             [Bytes EXCEPT !.maxPixels = 1]}
PlainCalls == {Plain, Bytes}

Good == [pixels |-> 2, size |-> 2, valid |-> TRUE]
Tiny == [pixels |-> 1, size |-> 1, valid |-> TRUE]

AllImages == {Good, [Good EXCEPT !.valid = FALSE], [Good EXCEPT !.pixels = 4, !.size = 1]}
PlainImages == {Tiny}

AllFaults == {"mkdir", "write", "spawn", "wait", "read", "remove"}
WaitFault == {"wait"}
=============================================================================
