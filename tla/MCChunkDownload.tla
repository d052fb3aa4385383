---------------------------- MODULE MCChunkDownload ----------------------------
(* Values for model checking ChunkDownload.                                  *)
EXTENDS ChunkDownload, TLC

CONSTANTS w1, w2

TwoWorkers == {w1, w2}

(* Threads differ only in their slot.  Not used where liveness is checked.   *)
WorkerSymmetry == Permutations({w1, w2})

(* Every property speaks of behaviours no earlier start's thread interfered  *)
(* with, and interference is for ever: what follows it need not be explored. *)
Undisturbed == ~interfered
================================================================================
