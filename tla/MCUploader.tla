----------------------------- MODULE MCUploader -----------------------------
(* An instance of the uploader: the loop and one upload at a time that a   *)
(* full queue starts, and batches smaller than the queue, so that batches  *)
(* are split off, share an array, and results are dropped.                 *)
EXTENDS Uploader

CONSTANTS loop, w1

OneWorker == {w1}
=============================================================================
