---------------------------- MODULE MCBatchDownload ----------------------------
(* Values for model checking BatchDownload.                                  *)
EXTENDS BatchDownload, TLC

CONSTANTS w1, w2

TwoWorkers == {w1, w2}

(* Kinds of items.  "hashed" has a hash, its size is not given and its        *)
(* server honours ranges; "chunked" has both and its server answers with the *)
(* whole file and without a length; "plain" has neither.                     *)
AllHashed == Items \ {"plain"}
AllSized == Items \ {"plain", "hashed"}
Servers == [it \in Items |-> IF it = "chunked" THEN "chunked" ELSE "range"]
HashedAndChunked == <<"hashed", "chunked">>
HashedAndPlain == <<"hashed", "plain">>

(* Nothing there, or a leftover of another version, shorter or longer.       *)
Leftovers == {Absent, <<0>>, <<0, 0, 0>>}
NothingOrOld == {Absent, <<0>>}
Nothing == {Absent}

WorkerSymmetry == Permutations({w1, w2})

(* Every property speaks of behaviours no earlier start's thread interfered  *)
(* with, and interference is for ever: what follows it need not be explored. *)
Undisturbed == ~interfered
================================================================================
