------------------------------- MODULE Session -------------------------------
(***************************************************************************)
(* What an incremental decode session promises its driver and its sink.    *)
(*                                                                         *)
(* Every step returns one event or one error.  The header is published     *)
(* once and before any pixel; pixels reach the sink only after the header  *)
(* was published, at most once; `Done` follows the rows and lasts; after an *)
(* error the session is over, whatever was published before.               *)
(***************************************************************************)
VARIABLES
  stage,     \* what the driver has been told so far
  sink       \* what the row sink has been given

sessionVars == <<stage, sink>>

Stages == {"header", "body", "rows", "done", "failed"}
Sinks  == {"untouched", "begun", "finished"}

SessionTypeOK == stage \in Stages /\ sink \in Sinks

SessionInit == stage = "header" /\ sink = "untouched"

PublishHeader ==
  /\ stage = "header" /\ sink = "untouched"
  /\ stage' = "body"
  /\ UNCHANGED sink

\* The image is written within one step, before that step returns.
BeginRows ==
  /\ stage = "body" /\ sink = "untouched"
  /\ sink' = "begun"
  /\ UNCHANGED stage

FinishRows ==
  /\ stage = "body" /\ sink = "begun"
  /\ sink' = "finished"
  /\ UNCHANGED stage

PublishRows ==
  /\ stage = "body" /\ sink = "finished"
  /\ stage' = "rows"
  /\ UNCHANGED sink

Finish ==
  /\ stage = "rows"
  /\ stage' = "done"
  /\ UNCHANGED sink

Fail ==
  /\ stage \notin {"failed", "done"}
  /\ stage' = "failed"
  /\ UNCHANGED sink

SessionNext ==
  PublishHeader \/ BeginRows \/ FinishRows \/ PublishRows \/ Finish \/ Fail

SessionSpec == SessionInit /\ [][SessionNext]_sessionVars
=============================================================================
