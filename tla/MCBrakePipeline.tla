--------------------------- MODULE MCBrakePipeline ---------------------------
(***************************************************************************)
(* BrakePipeline for TLC, with windows and queues of a few samples.  What  *)
(* matters of the real sizes is their order: an episode is longer than the *)
(* queue, and the queue is as long as a window.                            *)
(***************************************************************************)
EXTENDS BrakePipeline
=============================================================================
