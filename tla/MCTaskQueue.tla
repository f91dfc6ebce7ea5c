---------------------------- MODULE MCTaskQueue ----------------------------
(* TaskQueue with a few commands and events, so that each queue holds      *)
(* none, one and more than one when it is polled, popped and closed.       *)
EXTENDS TaskQueue
=============================================================================
