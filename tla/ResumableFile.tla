----------------------------- MODULE ResumableFile -----------------------------
(***************************************************************************)
(* What XHttpDownLoader (c#/code/XUtils/XHttpDownLoader.cs) promises about *)
(* the one file it writes, whatever its threads do and whenever the        *)
(* process dies: data comes before the progress that speaks of it, what a  *)
(* trailer keeps is never taken back, and the file gets the server's       *)
(* length only when it is the server's file.                               *)
(*                                                                         *)
(* Two steps take a complete file's record away, and the owner asked for   *)
(* both: a start on a complete file makes a trailer anew, and a thread     *)
(* that was told to stop may still have progress to write.                 *)
(***************************************************************************)
CONSTANT Bytes     \* the offsets of the server's file

VARIABLES
    data,        \* offsets at which the file holds the server's byte
    kept,        \* offsets that a start would not fetch again
    complete,    \* the file has the server's length
    starting,    \* the owner asked for a start that has not seen the file yet
    aborted,     \* the owner told threads to stop
    foreign      \* threads of an earlier start took part: nothing is promised

vars == <<data, kept, complete, starting, aborted, foreign>>

Init ==
    /\ \/ complete = FALSE /\ data = {} /\ kept = {}
       \/ complete = TRUE /\ data = Bytes /\ kept = Bytes
    /\ starting = FALSE
    /\ aborted = FALSE
    /\ foreign = FALSE

(* Data is written, and progress that speaks of data written before.         *)
Fetch ==
    /\ ~complete
    /\ data \subseteq data' /\ data' \subseteq Bytes
    /\ kept \subseteq kept' /\ kept' \subseteq data
    /\ UNCHANGED <<complete, starting, aborted>>

Publish ==
    /\ ~complete
    /\ data = Bytes
    /\ complete' = TRUE
    /\ kept' = Bytes
    /\ UNCHANGED <<data, starting, aborted>>

Forget == complete /\ complete' = FALSE /\ kept' = {} /\ UNCHANGED data

Restart == starting /\ starting' = FALSE /\ Forget /\ UNCHANGED aborted

LateWrite == aborted /\ Forget /\ UNCHANGED <<starting, aborted>>

(* A start, an abort, or the death of the process.                           *)
Ask ==
    /\ starting' \in BOOLEAN
    /\ aborted' \in BOOLEAN
    /\ UNCHANGED <<data, kept, complete>>

Disturb ==
    /\ foreign' = TRUE
    /\ data' \in SUBSET Bytes
    /\ kept' \in SUBSET Bytes
    /\ {complete', starting', aborted'} \subseteq BOOLEAN

Next ==
    \/ Disturb
    \/ UNCHANGED foreign /\ (Fetch \/ Publish \/ Restart \/ LateWrite \/ Ask)

Spec == Init /\ [][Next]_vars

================================================================================
