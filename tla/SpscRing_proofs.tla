---------------------------- MODULE SpscRing_proofs ----------------------------
(***************************************************************************)
(* The ring of SpscRing is a bounded queue for every number of slots and   *)
(* of items, in whatever order stores become visible.                      *)
(***************************************************************************)
EXTENDS SpscRing, SequenceTheorems, TLAPS

USE RingAssumption

--------------------------------------------------------------------------------
(* Slots of item numbers.                                                    *)

LEMMA SmallMultiple ==
  ASSUME NEW d \in Int, -Size < Size * d, Size * d < Size
  PROVE  d = 0
  <1>1. \A e \in Int : e >= 1 => Size * e >= Size
    BY SMT
  <1>2. \A e \in Int : e <= -1 => Size * e <= -Size
    BY SMT
  <1> QED BY <1>1, <1>2

LEMMA DivMod ==
  ASSUME NEW j \in Nat
  PROVE  /\ j \div Size \in Int /\ j % Size \in Slots
         /\ j = Size * (j \div Size) + (j % Size)
  <1>1. \A a \in Nat, b \in Nat \ {0} : a \div b \in Int
    BY SMT
  <1>2. \A a \in Nat, b \in Nat \ {0} : a % b \in 0 .. b - 1
    BY SMT
  <1>3. \A a \in Nat, b \in Nat \ {0} : a = b * (a \div b) + (a % b)
    BY SMT
  <1> QED BY <1>1, <1>2, <1>3 DEF Slots

LEMMA ModSlot == \A j \in Nat : j % Size \in Slots /\ (j + Size) % Size = j % Size
  <1> SUFFICES ASSUME NEW j \in Nat
               PROVE  j % Size \in Slots /\ (j + Size) % Size = j % Size
    OBVIOUS
  <1> DEFINE p == j \div Size
             q == (j + Size) \div Size
             r == j % Size
             s == (j + Size) % Size
  <1>1. p \in Int /\ r \in Slots /\ j = Size * p + r
    BY DivMod
  <1>2. q \in Int /\ s \in Slots /\ j + Size = Size * q + s
    <2>1. j + Size \in Nat
      OBVIOUS
    <2> QED BY <2>1, DivMod
  <1> HIDE DEF p, q, r, s
  <1>3. Size * (q - p - 1) = Size * q - Size * p - Size
    BY <1>1, <1>2, SMT
  <1>4. Size * p \in Int /\ Size * q \in Int
    BY <1>1, <1>2
  <1>5. r \in Int /\ s \in Int /\ 0 <= r /\ r < Size /\ 0 <= s /\ s < Size
    BY <1>1, <1>2 DEF Slots
  <1>6. Size * (q - p - 1) = r - s
    BY <1>1, <1>2, <1>3, <1>4, <1>5
  <1>7. q - p - 1 = 0
    BY <1>1, <1>2, <1>5, <1>6, SmallMultiple
  <1>8. r = s
    BY <1>5, <1>6, <1>7
  <1> QED BY <1>1, <1>8 DEF r, s

(* Less than Size items in a row are in different slots.                     *)
LEMMA ModDistinct ==
  ASSUME NEW i \in Nat, NEW j \in Nat, i < j, j < i + Size
  PROVE  i % Size # j % Size
  <1> SUFFICES ASSUME i % Size = j % Size PROVE FALSE
    OBVIOUS
  <1> DEFINE p == i \div Size
             q == j \div Size
             r == i % Size
  <1>1. p \in Int /\ q \in Int /\ r \in Int /\ i = Size * p + r /\ j = Size * q + r
    BY DivMod DEF Slots
  <1> HIDE DEF p, q, r
  <1>2. Size * (q - p) = Size * q - Size * p /\ Size * p \in Int /\ Size * q \in Int
    BY <1>1, SMT
  <1>3. Size * (q - p) = j - i
    BY <1>1, <1>2
  <1>4. q - p = 0
    BY <1>1, <1>3, SmallMultiple
  <1> QED BY <1>3, <1>4

--------------------------------------------------------------------------------
(* The inductive invariant.  Item j + 1 belongs to slot j % Size.            *)

Sent == Len(sent)
Eaten == Len(eaten)

(* Where the threads are against what they did.                              *)
Places ==
    /\ Eaten <= Sent /\ Sent <= Last /\ Sent <= Eaten + Size
    /\ writeIdx = IF putPC = "advance" THEN Sent - 1 ELSE Sent
    /\ putPC = "advance" => Sent >= 1
    /\ readIdx = IF eatPC \in {"load", "clear"} THEN Eaten + 1 ELSE Eaten
    /\ eatPC \in {"load", "clear"} => idx = Eaten % Size
    /\ eatPC = "clear" => obj = Eaten + 1

(* Both histories are 1, 2, 3, ...                                           *)
InOrder ==
    /\ \A n \in 1 .. Sent : sent[n] = n
    /\ \A n \in 1 .. Eaten : eaten[n] = n

(* What was sent and not eaten is in its slot or on its way there, ...       *)
Holds(j) ==
    LET k == j % Size IN
    /\ k \notin cleared
    /\ \/ stored[k] = j + 1 /\ slot[k] = Null
       \/ stored[k] = Null /\ slot[k] = j + 1
Held == \A j \in Eaten .. Sent - 1 : Holds(j)

(* ... the other slots are empty, or their null is on its way; a null is on  *)
(* its way to an item and an item to a null, ...                             *)
Free(j) == stored[j % Size] = Null /\ (slot[j % Size] = Null \/ j % Size \in cleared)
Freed == \A j \in Sent .. Eaten + Size - 1 : Free(j)
Pending ==
    /\ \A k \in cleared : slot[k] # Null
    /\ \A k \in Slots : stored[k] # Null => slot[k] = Null

(* ... and what a thread has seen stays true until it acts on it.            *)
Seen ==
    /\ putPC = "store" => Sent < Eaten + Size /\ Sent < Last
                          /\ slot[Sent % Size] = Null /\ stored[Sent % Size] = Null
    /\ eatPC \in {"advance", "load", "clear"} =>
          Eaten < Sent /\ slot[Eaten % Size] = Eaten + 1 /\ stored[Eaten % Size] = Null

RingInv == TypeOK /\ Places /\ InOrder /\ Held /\ Freed /\ Pending /\ Seen

LEMMA Numbers ==
  ASSUME TypeOK
  PROVE  Sent \in Nat /\ Eaten \in Nat /\ \A n \in 1 .. Eaten : eaten[n] \in Items
  BY LenProperties, ElementOfSeq DEF TypeOK, Sent, Eaten

LEMMA InitRingInv == Init => RingInv
  <1> SUFFICES ASSUME Init PROVE RingInv
    OBVIOUS
  <1>1. Sent = 0 /\ Eaten = 0 /\ <<>> \in Seq(Items)
    BY DEF Init, Sent, Eaten
  <1>2. \A j \in Nat : j % Size \in Slots
    BY ModSlot
  <1>3. TypeOK
    BY <1>1, <1>2 DEF Init, TypeOK, Slots
  <1>4. Freed
    <2>1. \A j \in Sent .. Eaten + Size - 1 : j \in Nat
      BY <1>1
    <2> QED BY <1>2, <2>1 DEF Init, Freed, Free
  <1> QED BY <1>1, <1>3, <1>4 DEF Init, RingInv, Places, InOrder, Held, Pending, Seen

--------------------------------------------------------------------------------
(* The steps of the two threads, and of the memory between them.             *)

(* What the invariant says of the two slots the threads are at.              *)
LEMMA AtSlots ==
  ASSUME RingInv
  PROVE  /\ Sent \in Nat /\ Eaten \in Nat /\ Sent % Size \in Slots /\ Eaten % Size \in Slots
         /\ Sent = Eaten + Size => Sent % Size = Eaten % Size
         /\ Eaten < Sent => Holds(Eaten)
         /\ Sent < Eaten + Size => Free(Sent)
         /\ \A j \in Eaten .. Eaten + Size - 1 : j \in Nat /\ j % Size \in Slots
  <1>1. Sent \in Nat /\ Eaten \in Nat
    BY Numbers DEF RingInv
  <1>2. Eaten < Sent => Eaten \in Eaten .. Sent - 1
    BY <1>1
  <1>3. Sent < Eaten + Size => Sent \in Sent .. Eaten + Size - 1
    BY <1>1
  <1>4. \A j \in Eaten .. Eaten + Size - 1 : j \in Nat
    BY <1>1
  <1> QED BY <1>1, <1>2, <1>3, <1>4, ModSlot DEF RingInv, Held, Freed

LEMMA StepCanPut == RingInv /\ CanPut => RingInv'
  <1> SUFFICES ASSUME RingInv, CanPut PROVE RingInv'
    OBVIOUS
  <1>1. UNCHANGED <<slot, stored, cleared, sent, eaten, Sent, Eaten>>
    BY DEF CanPut, eatVars, Sent, Eaten
  <1>2. Sent < Eaten + Size
    <2>1. PutSees(Sent % Size) = Null /\ Sent <= Eaten + Size
      BY DEF RingInv, Places, CanPut
    <2>2. SUFFICES ASSUME Sent = Eaten + Size PROVE FALSE
      BY <2>1, AtSlots
    <2>3. Holds(Eaten) /\ Sent % Size = Eaten % Size
      BY <2>2, AtSlots
    <2> QED BY <2>1, <2>3, AtSlots DEF Holds, PutSees, Null
  <1>3. slot[Sent % Size] = Null /\ stored[Sent % Size] = Null /\ Sent < Last
    BY DEF RingInv, Places, CanPut, PutSees, Sent
  <1>4. TypeOK' /\ Places' /\ InOrder'
    BY <1>1 DEF RingInv, TypeOK, Places, InOrder, CanPut, eatVars
  <1>5. Held' /\ Freed' /\ Pending'
    BY <1>1 DEF RingInv, Held, Holds, Freed, Free, Pending
  <1>6. Seen'
    BY <1>1, <1>2, <1>3 DEF RingInv, Seen, CanPut, eatVars
  <1> QED BY <1>4, <1>5, <1>6 DEF RingInv

LEMMA StepPutStore == RingInv /\ PutStore => RingInv'
  <1> SUFFICES ASSUME RingInv, PutStore PROVE RingInv'
    OBVIOUS
  <1> DEFINE k == Sent % Size
  <1>1. /\ writeIdx = Sent /\ Sent < Eaten + Size /\ Sent < Last
        /\ slot[k] = Null /\ stored[k] = Null /\ k \notin cleared
    BY DEF RingInv, Places, Seen, PutStore, Pending
  <1>2. /\ sent' = Append(sent, Sent + 1) /\ stored' = [stored EXCEPT ![k] = Sent + 1]
        /\ UNCHANGED <<slot, cleared, eaten, Eaten>>
    BY <1>1 DEF PutStore, eatVars, Sent, Eaten
  <1>3. /\ Sent' = Sent + 1 /\ sent' \in Seq(Items)
        /\ \A n \in 1 .. Sent : sent'[n] = sent[n]
        /\ sent'[Sent + 1] = Sent + 1
    <2>1. sent \in Seq(Items) /\ Sent + 1 \in Items /\ Len(sent) = Sent
      BY <1>1, AtSlots DEF RingInv, TypeOK, Items, Sent
    <2> QED BY <1>2, <2>1, AppendProperties DEF Sent
  <1>4. TypeOK'
    BY <1>1, <1>2, <1>3, AtSlots DEF RingInv, TypeOK, PutStore, eatVars, Items
  <1>5. Places'
    BY <1>1, <1>2, <1>3, AtSlots DEF RingInv, Places, PutStore, eatVars
  <1>6. InOrder'
    <2>1. \A n \in 1 .. Sent' : n \in 1 .. Sent \/ n = Sent + 1
      BY <1>3, AtSlots
    <2> QED BY <1>2, <1>3, <2>1 DEF RingInv, InOrder
  <1>7. Held'
    <2> SUFFICES ASSUME NEW j \in Eaten .. Sent PROVE Holds(j)'
      BY <1>2, <1>3, AtSlots DEF Held
    <2>1. CASE j = Sent
      BY <1>1, <1>2, <2>1, AtSlots DEF Holds, RingInv, TypeOK
    <2>2. CASE j # Sent
      <3>1. j \in Eaten .. Sent - 1 /\ j \in Nat /\ j < Sent /\ Sent < j + Size
        BY <1>1, <2>2, AtSlots
      <3>2. j % Size # k /\ j % Size \in Slots
        BY <3>1, AtSlots, ModDistinct, ModSlot
      <3>3. Holds(j)
        BY <3>1 DEF RingInv, Held
      <3> QED BY <1>2, <3>2, <3>3 DEF Holds, RingInv, TypeOK
    <2> QED BY <2>1, <2>2
  <1>8. Freed'
    <2> SUFFICES ASSUME NEW j \in Sent + 1 .. Eaten + Size - 1 PROVE Free(j)'
      BY <1>2, <1>3 DEF Freed
    <2>1. j \in Sent .. Eaten + Size - 1 /\ j \in Nat /\ Sent < j /\ j < Sent + Size
      BY <1>1, AtSlots DEF RingInv, Places
    <2>2. j % Size # k /\ j % Size \in Slots
      BY <2>1, AtSlots, ModDistinct, ModSlot
    <2>3. Free(j)
      BY <2>1 DEF RingInv, Freed
    <2> QED BY <1>2, <2>2, <2>3 DEF Free, RingInv, TypeOK
  <1>9. Pending'
    BY <1>1, <1>2, AtSlots DEF RingInv, Pending, TypeOK
  <1>10. Seen'
    <2>1. putPC' = "advance" /\ eatPC' = eatPC
      BY DEF PutStore, eatVars
    <2>2. Eaten < Sent => Eaten % Size # k
      BY <1>1, AtSlots, ModDistinct
    <2> QED BY <1>2, <1>3, <2>1, <2>2, AtSlots DEF RingInv, Seen, TypeOK
  <1> QED BY <1>4, <1>5, <1>6, <1>7, <1>8, <1>9, <1>10 DEF RingInv

LEMMA StepPutAdvance == RingInv /\ PutAdvance => RingInv'
  <1> SUFFICES ASSUME RingInv, PutAdvance PROVE RingInv'
    OBVIOUS
  <1>1. /\ UNCHANGED <<slot, stored, cleared, sent, eaten, eatPC, Sent, Eaten, readIdx, idx, obj>>
        /\ writeIdx' = Sent /\ putPC' = "check"
    BY AtSlots DEF PutAdvance, eatVars, Sent, Eaten, RingInv, Places
  <1>2. TypeOK'
    BY <1>1, AtSlots DEF RingInv, TypeOK, Places
  <1>3. Places' /\ InOrder'
    BY <1>1 DEF RingInv, Places, InOrder
  <1>4. Held' /\ Freed' /\ Pending' /\ Seen'
    BY <1>1 DEF RingInv, Held, Holds, Freed, Free, Pending, Seen
  <1> QED BY <1>2, <1>3, <1>4 DEF RingInv

LEMMA StepPutArrives ==
  ASSUME RingInv, NEW k \in Slots, PutArrives(k)
  PROVE  RingInv'
  <1>1. /\ UNCHANGED <<cleared, sent, eaten, putPC, eatPC, Sent, Eaten, writeIdx, readIdx, idx, obj>>
        /\ stored[k] # Null
        /\ slot' = [slot EXCEPT ![k] = stored[k]]
        /\ stored' = [stored EXCEPT ![k] = Null]
    BY DEF PutArrives, eatVars, Sent, Eaten
  <1>2. TypeOK'
    BY <1>1 DEF RingInv, TypeOK
  <1>3. Places' /\ InOrder'
    BY <1>1 DEF RingInv, Places, InOrder
  <1>4. Held'
    <2> SUFFICES ASSUME NEW j \in Eaten .. Sent - 1 PROVE Holds(j)'
      BY <1>1 DEF Held
    <2>1. Holds(j) /\ j % Size \in Slots
      BY AtSlots DEF RingInv, Held, Places
    <2> QED BY <1>1, <2>1 DEF Holds, RingInv, TypeOK
  <1>5. Freed'
    <2> SUFFICES ASSUME NEW j \in Sent .. Eaten + Size - 1 PROVE Free(j)'
      BY <1>1 DEF Freed
    <2>1. Free(j) /\ j % Size \in Slots
      BY AtSlots DEF RingInv, Freed, Places
    <2> QED BY <1>1, <2>1 DEF Free, RingInv, TypeOK
  <1>6. Pending'
    BY <1>1 DEF RingInv, Pending, TypeOK
  <1>7. Seen'
    BY <1>1, AtSlots DEF RingInv, Seen, TypeOK
  <1> QED BY <1>2, <1>3, <1>4, <1>5, <1>6, <1>7 DEF RingInv

LEMMA StepCanEat == RingInv /\ CanEat => RingInv'
  <1> SUFFICES ASSUME RingInv, CanEat PROVE RingInv'
    OBVIOUS
  <1>1. /\ UNCHANGED <<slot, stored, cleared, sent, eaten, putPC, Sent, Eaten, writeIdx, readIdx, idx, obj>>
        /\ eatPC' = "advance"
        /\ EatSees(Eaten % Size) # Null
    BY DEF CanEat, putVars, Sent, Eaten, RingInv, Places
  <1>2. Eaten < Sent
    <2> SUFFICES ASSUME Eaten = Sent PROVE FALSE
      BY AtSlots DEF RingInv, Places
    <2>1. Free(Sent)
      BY AtSlots
    <2> QED BY <1>1, <2>1 DEF Free, EatSees
  <1>3. slot[Eaten % Size] = Eaten + 1 /\ stored[Eaten % Size] = Null
    BY <1>1, <1>2, AtSlots DEF Holds, EatSees
  <1>4. TypeOK' /\ Places' /\ InOrder'
    BY <1>1 DEF RingInv, TypeOK, Places, InOrder, CanEat
  <1>5. Held' /\ Freed' /\ Pending' /\ Seen'
    BY <1>1, <1>2, <1>3 DEF RingInv, Held, Holds, Freed, Free, Pending, Seen
  <1> QED BY <1>4, <1>5 DEF RingInv

LEMMA StepEatAdvance == RingInv /\ EatAdvance => RingInv'
  <1> SUFFICES ASSUME RingInv, EatAdvance PROVE RingInv'
    OBVIOUS
  <1>1. /\ UNCHANGED <<slot, stored, cleared, sent, eaten, putPC, Sent, Eaten, writeIdx, obj>>
        /\ eatPC = "advance" /\ eatPC' = "load"
        /\ readIdx' = Eaten + 1 /\ idx' = Eaten % Size
    BY DEF EatAdvance, putVars, Sent, Eaten, RingInv, Places
  <1>2. Eaten < Sent /\ Sent <= Last
    BY <1>1 DEF RingInv, Seen, Places
  <1>3. TypeOK'
    BY <1>1, <1>2, AtSlots DEF RingInv, TypeOK
  <1>4. Places' /\ InOrder'
    BY <1>1 DEF RingInv, Places, InOrder
  <1>5. Held' /\ Freed' /\ Pending' /\ Seen'
    BY <1>1 DEF RingInv, Held, Holds, Freed, Free, Pending, Seen
  <1> QED BY <1>3, <1>4, <1>5 DEF RingInv

LEMMA StepEatLoad == RingInv /\ EatLoad => RingInv'
  <1> SUFFICES ASSUME RingInv, EatLoad PROVE RingInv'
    OBVIOUS
  <1>1. /\ UNCHANGED <<slot, stored, cleared, sent, eaten, putPC, Sent, Eaten, writeIdx, readIdx, idx>>
        /\ eatPC = "load" /\ eatPC' = "clear"
        /\ obj' = EatSees(Eaten % Size)
    BY DEF EatLoad, putVars, Sent, Eaten, RingInv, Places
  <1>2. Eaten < Sent /\ Sent <= Last /\ slot[Eaten % Size] = Eaten + 1
    BY <1>1 DEF RingInv, Seen, Places
  <1>3. obj' = Eaten + 1
    BY <1>1, <1>2, AtSlots DEF EatSees, Holds
  <1>4. TypeOK'
    BY <1>1, <1>2, <1>3, AtSlots DEF RingInv, TypeOK, Items
  <1>5. Places' /\ InOrder'
    BY <1>1, <1>3 DEF RingInv, Places, InOrder
  <1>6. Held' /\ Freed' /\ Pending' /\ Seen'
    BY <1>1 DEF RingInv, Held, Holds, Freed, Free, Pending, Seen
  <1> QED BY <1>4, <1>5, <1>6 DEF RingInv

LEMMA StepEatClear == RingInv /\ EatClear => RingInv'
  <1> SUFFICES ASSUME RingInv, EatClear PROVE RingInv'
    OBVIOUS
  <1> DEFINE k == Eaten % Size
  <1>1. /\ Eaten < Sent /\ Sent <= Last /\ Sent <= Eaten + Size
        /\ slot[k] = Eaten + 1 /\ stored[k] = Null
        /\ idx = k /\ obj = Eaten + 1 /\ readIdx = Eaten + 1
    BY DEF RingInv, Places, Seen, EatClear
  <1>2. /\ eaten' = Append(eaten, Eaten + 1) /\ cleared' = cleared \cup {k} /\ eatPC' = "check"
        /\ UNCHANGED <<slot, stored, sent, putPC, writeIdx, readIdx, idx, obj, Sent>>
    BY <1>1 DEF EatClear, putVars, Sent
  <1>3. /\ Eaten' = Eaten + 1 /\ eaten' \in Seq(Items)
        /\ \A n \in 1 .. Eaten : eaten'[n] = eaten[n]
        /\ eaten'[Eaten + 1] = Eaten + 1
    <2>1. eaten \in Seq(Items) /\ Eaten + 1 \in Items /\ Len(eaten) = Eaten
      BY <1>1, AtSlots DEF RingInv, TypeOK, Items, Eaten
    <2> QED BY <1>2, <2>1, AppendProperties DEF Eaten
  <1>4. TypeOK'
    BY <1>2, <1>3, AtSlots DEF RingInv, TypeOK
  <1>5. Places'
    BY <1>1, <1>2, <1>3, AtSlots DEF RingInv, Places
  <1>6. InOrder'
    <2>1. \A n \in 1 .. Eaten' : n \in 1 .. Eaten \/ n = Eaten + 1
      BY <1>3, AtSlots
    <2> QED BY <1>2, <1>3, <2>1 DEF RingInv, InOrder
  <1>7. Held'
    <2> SUFFICES ASSUME NEW j \in Eaten + 1 .. Sent - 1 PROVE Holds(j)'
      BY <1>2, <1>3 DEF Held
    <2>1. j \in Eaten .. Sent - 1 /\ j \in Nat /\ Eaten < j /\ j < Eaten + Size
      BY <1>1, AtSlots
    <2>2. j % Size # k
      BY <2>1, AtSlots, ModDistinct
    <2> QED BY <1>2, <2>1, <2>2 DEF Holds, RingInv, Held
  <1>8. Freed'
    <2> SUFFICES ASSUME NEW j \in Sent .. Eaten + Size PROVE Free(j)'
      BY <1>2, <1>3, AtSlots DEF Freed
    <2>1. CASE j = Eaten + Size
      <3>1. j % Size = k
        BY <2>1, AtSlots, ModSlot
      <3> QED BY <1>1, <1>2, <3>1 DEF Free
    <2>2. CASE j # Eaten + Size
      <3>1. j \in Sent .. Eaten + Size - 1
        BY <2>2, AtSlots
      <3>2. Free(j)
        BY <3>1 DEF RingInv, Freed
      <3> QED BY <1>2, <3>2 DEF Free
    <2> QED BY <2>1, <2>2
  <1>9. Pending'
    BY <1>1, <1>2, AtSlots DEF RingInv, Pending, Null
  <1>10. Seen'
    <2>1. putPC' = putPC /\ Sent' = Sent /\ slot' = slot /\ stored' = stored
      BY <1>2
    <2>2. putPC = "store" => /\ Sent < Eaten + Size /\ Sent < Last
                             /\ slot[Sent % Size] = Null /\ stored[Sent % Size] = Null
      BY DEF RingInv, Seen
    <2>3. Sent < Eaten + Size => Sent < Eaten' + Size
      BY <1>3, AtSlots, RingAssumption
    <2>4. eatPC' \notin {"advance", "load", "clear"}
      BY <1>2
    <2> QED BY ONLY <2>1, <2>2, <2>3, <2>4 DEF Seen
  <1> QED BY <1>4, <1>5, <1>6, <1>7, <1>8, <1>9, <1>10 DEF RingInv

LEMMA StepClearArrives ==
  ASSUME RingInv, NEW k \in Slots, ClearArrives(k)
  PROVE  RingInv'
  <1>1. /\ UNCHANGED <<stored, sent, eaten, putPC, eatPC, Sent, Eaten, writeIdx, readIdx, idx, obj>>
        /\ k \in cleared
        /\ slot' = [slot EXCEPT ![k] = Null]
        /\ cleared' = cleared \ {k}
    BY DEF ClearArrives, putVars, Sent, Eaten
  <1>2. TypeOK'
    BY <1>1 DEF RingInv, TypeOK
  <1>3. Places' /\ InOrder'
    BY <1>1 DEF RingInv, Places, InOrder
  <1>4. Held'
    <2> SUFFICES ASSUME NEW j \in Eaten .. Sent - 1 PROVE Holds(j)'
      BY <1>1 DEF Held
    <2>1. Holds(j) /\ j % Size \in Slots
      BY AtSlots DEF RingInv, Held, Places
    <2> QED BY <1>1, <2>1 DEF Holds, RingInv, TypeOK
  <1>5. Freed'
    <2> SUFFICES ASSUME NEW j \in Sent .. Eaten + Size - 1 PROVE Free(j)'
      BY <1>1 DEF Freed
    <2>1. Free(j) /\ j % Size \in Slots
      BY AtSlots DEF RingInv, Freed, Places
    <2> QED BY <1>1, <2>1 DEF Free, RingInv, TypeOK
  <1>6. Pending'
    BY <1>1 DEF RingInv, Pending, TypeOK
  <1>7. Seen'
    <2>1. Eaten < Sent => Eaten % Size # k
      BY <1>1, AtSlots DEF Holds
    <2> QED BY <1>1, <2>1, AtSlots DEF RingInv, Seen, TypeOK
  <1> QED BY <1>2, <1>3, <1>4, <1>5, <1>6, <1>7 DEF RingInv

(* A thread that reads its slot no more changes nothing else.                *)
LEMMA StepSpins == RingInv /\ (PutSpins \/ EatSpins \/ UNCHANGED vars) => RingInv'
  <1> SUFFICES ASSUME RingInv, PutSpins \/ EatSpins \/ UNCHANGED vars PROVE RingInv'
    OBVIOUS
  <1>1. /\ UNCHANGED <<slot, stored, cleared, sent, eaten, Sent, Eaten, writeIdx, readIdx, idx, obj>>
        /\ putPC' = putPC \/ (putPC = "check" /\ putPC' = "spin")
        /\ eatPC' = eatPC \/ (eatPC = "check" /\ eatPC' = "spin")
    <2>1. CASE PutSpins
      BY <2>1 DEF PutSpins, eatVars, Sent, Eaten
    <2>2. CASE EatSpins
      BY <2>2 DEF EatSpins, putVars, Sent, Eaten
    <2>3. CASE UNCHANGED vars
      BY <2>3 DEF vars, putVars, eatVars, Sent, Eaten
    <2> QED BY <2>1, <2>2, <2>3
  <1>2. TypeOK' /\ Places' /\ InOrder'
    BY <1>1 DEF RingInv, TypeOK, Places, InOrder
  <1>3. Held' /\ Freed' /\ Pending' /\ Seen'
    BY <1>1 DEF RingInv, Held, Holds, Freed, Free, Pending, Seen
  <1> QED BY <1>2, <1>3 DEF RingInv

LEMMA NextRingInv == RingInv /\ [Next]_vars => RingInv'
  <1> SUFFICES ASSUME RingInv, [Next]_vars PROVE RingInv'
    OBVIOUS
  <1>1. CASE PutStep
    BY <1>1, StepCanPut, StepPutStore, StepPutAdvance DEF PutStep
  <1>2. CASE EatStep
    BY <1>2, StepCanEat, StepEatAdvance, StepEatLoad, StepEatClear DEF EatStep
  <1>3. CASE PutSpins \/ EatSpins \/ UNCHANGED vars
    BY <1>3, StepSpins
  <1>4. CASE \E k \in Slots : PutArrives(k) \/ ClearArrives(k)
    BY <1>4, StepPutArrives, StepClearArrives
  <1> QED BY <1>1, <1>2, <1>3, <1>4 DEF Next

LEMMA RingInvariant == Spec => []RingInv
  BY InitRingInv, NextRingInv, PTL DEF Spec

--------------------------------------------------------------------------------
(* Results.                                                                  *)

(* Indexes stay within what the program sends, slots hold items or null, and *)
(* tryeat never returns null after it has taken a slot.                      *)
THEOREM TypeCorrect == Spec => []TypeOK
  BY RingInvariant, PTL DEF RingInv

(* Every behaviour of the ring is one of a bounded queue: each store is a    *)
(* Put where there is room, each emptied slot an Eat of the oldest item, and *)
(* everything else, stores becoming visible included, changes nothing.       *)
THEOREM RingIsQueue == Spec => ImplementsQueue
  <1>1. Init => Queue!Init
    BY DEF Init, Queue!Init
  <1>2. RingInv /\ [Next]_vars => [Queue!Next]_<<sent, eaten>>
    <2> SUFFICES ASSUME RingInv, [Next]_vars PROVE [Queue!Next]_<<sent, eaten>>
      OBVIOUS
    <2>1. CASE PutStore
      <3>1. Sent < Eaten + Size /\ Sent < Last
        BY <2>1 DEF RingInv, Seen, PutStore
      <3>2. Len(sent) + 1 \in Items /\ Len(sent) - Len(eaten) < Size
        BY <3>1, AtSlots DEF Items, Sent, Eaten
      <3>3. Queue!Put(Len(sent) + 1)
        BY <2>1, <3>2 DEF Queue!Put, PutStore, eatVars
      <3> QED BY <3>2, <3>3 DEF Queue!Next
    <2>2. CASE EatClear
      <3>1. Eaten < Sent /\ obj = Eaten + 1
        BY <2>2 DEF RingInv, Seen, Places, EatClear
      <3>2. sent[Eaten + 1] = Eaten + 1
        BY <3>1, AtSlots DEF RingInv, InOrder
      <3>3. Queue!Eat
        BY <2>2, <3>1, <3>2 DEF Queue!Eat, EatClear, putVars, Sent, Eaten
      <3> QED BY <3>3 DEF Queue!Next
    <2>3. CASE ~PutStore /\ ~EatClear
      BY <2>3 DEF Next, PutStep, EatStep, CanPut, PutSpins, PutAdvance, PutArrives, CanEat,
                  EatSpins, EatAdvance, EatLoad, ClearArrives, vars, putVars, eatVars
    <2> QED BY <2>1, <2>2, <2>3
  <1> QED BY <1>1, <1>2, RingInvariant, PTL DEF Spec, ImplementsQueue, Queue!Spec, Queue!vars

(* No store becomes visible over an item that was not emptied.               *)
THEOREM NoOverwriting == Spec => NothingOverwritten
  <1>1. RingInv /\ [Next]_vars =>
            [\A k \in Slots : slot[k] # Null => slot'[k] \in {slot[k], Null}]_vars
    <2> SUFFICES ASSUME RingInv, Next, NEW k \in Slots, slot[k] # Null
                 PROVE  slot'[k] \in {slot[k], Null}
      OBVIOUS
    <2>1. CASE slot' = slot
      BY <2>1
    <2>2. ASSUME NEW i \in Slots, ClearArrives(i) PROVE slot'[k] \in {slot[k], Null}
      BY <2>2 DEF ClearArrives, RingInv, TypeOK
    <2>3. ASSUME NEW i \in Slots, PutArrives(i) PROVE slot'[k] \in {slot[k], Null}
      <3>1. slot[i] = Null
        BY <2>3 DEF PutArrives, RingInv, Pending
      <3> QED BY <2>3, <3>1 DEF PutArrives, RingInv, TypeOK
    <2> QED BY <2>1, <2>2, <2>3
          DEF Next, PutStep, EatStep, CanPut, PutSpins, PutStore, PutAdvance, CanEat,
              EatSpins, EatAdvance, EatLoad, EatClear, putVars, eatVars
  <1> QED BY <1>1, RingInvariant, PTL DEF Spec, NothingOverwritten

================================================================================
