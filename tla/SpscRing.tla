-------------------------------- MODULE SpscRing --------------------------------
(***************************************************************************)
(* RingBuffer (cpp-test/test-ringbuffer.cpp) with the program that drives  *)
(* it: one thread puts 1, 2, 3, ..., another one eats as many items.  The  *)
(* slots are the only thing the threads share: a null slot may be written  *)
(* by the producer, any other one be emptied by the consumer.  Both        *)
(* indexes are private to their thread.                                    *)
(*                                                                         *)
(* Slots are plain pointers, so every access races with the other thread.  *)
(* What the build makes of that is nondeterministic here: a store reaches  *)
(* the other thread at any later time, and stores to different slots in    *)
(* any order; its own thread sees it at once.  A thread whose try failed   *)
(* inside the busy loop may never read the slot again, because the         *)
(* compiler may move the read out of the loop.                             *)
(*                                                                         *)
(* Abstracted: an item is its number.  Sleeps and output are left out.     *)
(***************************************************************************)
EXTENDS Integers, Sequences

CONSTANTS
    Size,        \* slots of the buffer
    Last         \* items the program sends: 99

ASSUME RingAssumption ==
    /\ Size \in Nat \ {0}
    /\ Last \in Nat

VARIABLES
    slot,        \* _buffer, as both threads may see it
    stored,      \* stores of the producer the consumer does not see yet
    cleared,     \* slots whose null the producer does not see yet
    writeIdx,    \* _write_idx
    readIdx,     \* _read_idx
    putPC,       \* where the producer is
    eatPC,       \* where the consumer is
    idx,         \* idx in tryeat
    obj,         \* obj in tryeat
    sent,        \* history: items whose store was executed
    eaten        \* history: items that tryeat returned

putVars == <<stored, writeIdx, putPC, sent>>
eatVars == <<cleared, readIdx, eatPC, idx, obj, eaten>>
vars == <<slot, putVars, eatVars>>

Null == 0
Slots == 0 .. Size - 1
Items == 1 .. Last

(* A slot as either thread reads it.                                         *)
PutSees(k) == IF stored[k] # Null THEN stored[k] ELSE slot[k]
EatSees(k) == IF k \in cleared THEN Null ELSE slot[k]

Init ==
    /\ slot = [k \in Slots |-> Null]
    /\ stored = [k \in Slots |-> Null]
    /\ cleared = {}
    /\ writeIdx = 0
    /\ readIdx = 0
    /\ putPC = "check"
    /\ eatPC = "check"
    /\ idx = 0
    /\ obj = Null
    /\ sent = <<>>
    /\ eaten = <<>>

--------------------------------------------------------------------------------
(* The producer: while(!tryput(i)).  A try that fails changes nothing.       *)

(* Slip: the slot is not looked at.                                          *)
CanPutAlways ==
    /\ putPC = "check"
    /\ Len(sent) < Last
    /\ putPC' = "store"
    /\ UNCHANGED <<slot, stored, writeIdx, sent, eatVars>>

CanPut ==
    /\ putPC = "check"
    /\ Len(sent) < Last
    /\ PutSees(writeIdx % Size) = Null
    /\ putPC' = "store"
    /\ UNCHANGED <<slot, stored, writeIdx, sent, eatVars>>

(* The read of a full slot is not repeated.                                  *)
PutSpins ==
    /\ putPC = "check"
    /\ Len(sent) < Last
    /\ PutSees(writeIdx % Size) # Null
    /\ putPC' = "spin"
    /\ UNCHANGED <<slot, stored, writeIdx, sent, eatVars>>

PutStore ==
    /\ putPC = "store"
    /\ stored' = [stored EXCEPT ![writeIdx % Size] = Len(sent) + 1]
    /\ sent' = Append(sent, Len(sent) + 1)
    /\ putPC' = "advance"
    /\ UNCHANGED <<slot, writeIdx, eatVars>>

(* Slip: the index advances twice.                                           *)
PutAdvanceTwice ==
    /\ putPC = "advance"
    /\ writeIdx' = writeIdx + 2
    /\ putPC' = "check"
    /\ UNCHANGED <<slot, stored, sent, eatVars>>

PutAdvance ==
    /\ putPC = "advance"
    /\ writeIdx' = writeIdx + 1
    /\ putPC' = "check"
    /\ UNCHANGED <<slot, stored, sent, eatVars>>

PutArrives(k) ==
    /\ stored[k] # Null
    /\ slot' = [slot EXCEPT ![k] = stored[k]]
    /\ stored' = [stored EXCEPT ![k] = Null]
    /\ UNCHANGED <<writeIdx, putPC, sent, eatVars>>

--------------------------------------------------------------------------------
(* The consumer: while((obj = tryeat()) == nullptr).                         *)

CanEat ==
    /\ eatPC = "check"
    /\ Len(eaten) < Last
    /\ EatSees(readIdx % Size) # Null
    /\ eatPC' = "advance"
    /\ UNCHANGED <<slot, putVars, cleared, readIdx, idx, obj, eaten>>

EatSpins ==
    /\ eatPC = "check"
    /\ Len(eaten) < Last
    /\ EatSees(readIdx % Size) = Null
    /\ eatPC' = "spin"
    /\ UNCHANGED <<slot, putVars, cleared, readIdx, idx, obj, eaten>>

(* Slip: the index stays.                                                    *)
EatStays ==
    /\ eatPC = "advance"
    /\ idx' = readIdx % Size
    /\ eatPC' = "load"
    /\ UNCHANGED <<slot, putVars, cleared, readIdx, obj, eaten>>

EatAdvance ==
    /\ eatPC = "advance"
    /\ idx' = readIdx % Size
    /\ readIdx' = readIdx + 1
    /\ eatPC' = "load"
    /\ UNCHANGED <<slot, putVars, cleared, obj, eaten>>

EatLoad ==
    /\ eatPC = "load"
    /\ obj' = EatSees(idx)
    /\ eatPC' = "clear"
    /\ UNCHANGED <<slot, putVars, cleared, readIdx, idx, eaten>>

(* Slip: the slot keeps its pointer.                                         *)
EatKeeps ==
    /\ eatPC = "clear"
    /\ eaten' = Append(eaten, obj)
    /\ eatPC' = "check"
    /\ UNCHANGED <<slot, putVars, cleared, readIdx, idx, obj>>

EatClear ==
    /\ eatPC = "clear"
    /\ cleared' = cleared \cup {idx}
    /\ eaten' = Append(eaten, obj)
    /\ eatPC' = "check"
    /\ UNCHANGED <<slot, putVars, readIdx, idx, obj>>

ClearArrives(k) ==
    /\ k \in cleared
    /\ slot' = [slot EXCEPT ![k] = Null]
    /\ cleared' = cleared \ {k}
    /\ UNCHANGED <<putVars, readIdx, eatPC, idx, obj, eaten>>

PutStep == CanPut \/ PutStore \/ PutAdvance
EatStep == CanEat \/ EatAdvance \/ EatLoad \/ EatClear

Next ==
    \/ PutStep \/ PutSpins
    \/ EatStep \/ EatSpins
    \/ \E k \in Slots : PutArrives(k) \/ ClearArrives(k)

Spec == Init /\ [][Next]_vars

(* Both threads are scheduled, and a store becomes visible in the end.       *)
FairSpec ==
    /\ Spec
    /\ WF_vars(PutStep)
    /\ WF_vars(EatStep)
    /\ \A k \in Slots : WF_vars(PutArrives(k)) /\ WF_vars(ClearArrives(k))

--------------------------------------------------------------------------------
(* Every variable holds a value of its kind (one type invariant).            *)
TypeOK ==
    /\ slot \in [Slots -> Items \cup {Null}]
    /\ stored \in [Slots -> Items \cup {Null}]
    /\ cleared \subseteq Slots
    /\ writeIdx \in 0 .. Last
    /\ readIdx \in 0 .. Last
    /\ putPC \in {"check", "spin", "store", "advance"}
    /\ eatPC \in {"check", "spin", "advance", "load", "clear"}
    /\ idx \in Slots
    /\ obj \in Items \cup {Null}
    /\ sent \in Seq(Items)
    /\ eaten \in Seq(Items)

(* The ring is a bounded queue, whatever order stores become visible in:     *)
(* nothing is lost, doubled or reordered, tryeat never returns null once it  *)
(* has taken a slot, and no put overwrites what was not eaten.               *)
Queue == INSTANCE BoundedQueue WITH Capacity <- Size, Values <- Items
ImplementsQueue == Queue!Spec

(* Two items are never in one slot: a store only becomes visible where the   *)
(* consumer's null already is, although nothing orders the two but the read  *)
(* in canput.                                                                *)
NothingOverwritten ==
    [][\A k \in Slots : slot[k] # Null => slot'[k] \in {slot[k], Null}]_vars

(* The program ends with everything eaten (it joins both threads), unless a  *)
(* busy loop was compiled to read its slot only once.                        *)
AllEaten == <>(Len(eaten) = Last \/ putPC = "spin" \/ eatPC = "spin")

================================================================================
