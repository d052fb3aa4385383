------------------------------ MODULE BoundedQueue ------------------------------
(***************************************************************************)
(* What RingBuffer (cpp-test/test-ringbuffer.cpp) promises its two         *)
(* threads: a queue with room for Capacity items.  A try may fail at any   *)
(* time, so refusals are stuttering steps here; what a try does when it    *)
(* succeeds is fixed.                                                      *)
(***************************************************************************)
EXTENDS Integers, Sequences

CONSTANTS
    Capacity,    \* items there is room for
    Values       \* what may be put

VARIABLES
    sent,        \* everything that was put, in order
    eaten        \* everything that was eaten, in order

vars == <<sent, eaten>>

Init == sent = <<>> /\ eaten = <<>>

Put(v) ==
    /\ Len(sent) - Len(eaten) < Capacity
    /\ sent' = Append(sent, v)
    /\ UNCHANGED eaten

Eat ==
    /\ Len(eaten) < Len(sent)
    /\ eaten' = Append(eaten, sent[Len(eaten) + 1])
    /\ UNCHANGED sent

Next == Eat \/ \E v \in Values : Put(v)

Spec == Init /\ [][Next]_vars

================================================================================
