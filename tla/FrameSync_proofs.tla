---------------------------- MODULE FrameSync_proofs ----------------------------
(***************************************************************************)
(* The safety of FrameSync for every number of players and battles and all *)
(* sizes: types, final frames, and every input once, in order and in time. *)
(***************************************************************************)
EXTENDS FrameSync, FiniteSetTheorems, TLAPS

USE FrameSyncAssumption

--------------------------------------------------------------------------------
(* The steps of a datagram.                                                  *)

LEMMA DueIsInt ==
  ASSUME NEW b \in Battles, NEW t \in Nat
  PROVE  Due(b, t) \in Int
  <1>1. t - b.start \in Int
    BY DEF Battles
  <1>2. \A q \in Int, d \in Nat \ {0} : q \div d \in Int
    BY SMT
  <1> QED BY <1>1, <1>2 DEF Due

LEMMA MaxOfTwo ==
  ASSUME NEW x \in Int, NEW y \in Int
  PROVE  Max({x, y}) = IF x >= y THEN x ELSE y
  BY DEF Max

(* The frame a word that comes now may go into at the earliest.              *)
Open(b) == Max({Due(b, now), Len(b.frames) + 1})

LEMMA OpenIs ==
  ASSUME now \in Nat, NEW b \in Battles
  PROVE  /\ Open(b) \in Nat \ {0}
         /\ Open(b) = IF Due(b, now) > Len(b.frames) THEN Due(b, now)
                      ELSE Len(b.frames) + 1
  <1>1. Due(b, now) \in Int /\ Len(b.frames) + 1 \in Nat \ {0}
    BY DueIsInt DEF Battles
  <1>2. Open(b) = IF Due(b, now) >= Len(b.frames) + 1 THEN Due(b, now)
                  ELSE Len(b.frames) + 1
    BY <1>1, MaxOfTwo DEF Open
  <1> QED BY <1>1, <1>2

LEMMA MergeIs ==
  ASSUME now \in Nat, NEW b \in Battles, NEW p \in Players, NEW n \in Nat
  PROVE  LET c == MergeInput(b, p, n) IN
         /\ c \in Battles
         /\ c.gen = b.gen /\ c.start = b.start /\ c.frames = b.frames
         /\ c.uins = b.uins \cup {p}
         /\ \A q \in Players \ {p} : c.inputs[q] = b.inputs[q]
         /\ c.inputs[p].heard = b.inputs[p].heard + n
         /\ c.inputs[p].data = b.inputs[p].data \o
               [i \in 1 .. n |-> [pos |-> b.inputs[p].heard + i, first |-> Open(b)]]
  <1> DEFINE heard == b.inputs[p].heard
             words == [i \in 1 .. n |-> [pos |-> heard + i, first |-> Open(b)]]
             in == [data |-> b.inputs[p].data \o words, heard |-> heard + n]
             c == [b EXCEPT !.uins = @ \cup {p}, !.inputs[p] = in]
  <1>1. b.inputs[p] \in Inputs /\ heard \in Nat
    BY DEF Battles, Inputs
  <1>2. MergeInput(b, p, n) = c
    BY <1>1 DEF MergeInput, Open, Inputs
  <1>3. words \in Seq(WordRecords)
    <2>1. Open(b) \in Nat \ {0}
      BY OpenIs
    <2>2. \A i \in 1 .. n : [pos |-> heard + i, first |-> Open(b)] \in WordRecords
      <3>1. \A i \in 1 .. n : heard + i \in Nat \ {0}
        BY ONLY <1>1, n \in Nat
      <3> HIDE DEF heard
      <3> QED BY ONLY <2>1, <3>1 DEF WordRecords
    <2> QED BY ONLY <2>2, n \in Nat
  <1>4. in \in Inputs
    BY <1>1, <1>3 DEF Inputs
  <1> HIDE DEF in, words, heard
  <1>5. c \in Battles
    BY <1>4 DEF Battles
  <1>6. /\ c.gen = b.gen /\ c.start = b.start /\ c.frames = b.frames
        /\ c.uins = b.uins \cup {p}
        /\ \A q \in Players \ {p} : c.inputs[q] = b.inputs[q]
        /\ c.inputs[p] = in
    BY DEF Battles
  <1>7. in.heard = heard + n /\ in.data = b.inputs[p].data \o words
    BY DEF in
  <1> HIDE DEF c
  <1> QED BY <1>2, <1>5, <1>6, <1>7 DEF words, heard

LEMMA PartType ==
  ASSUME NEW d \in Seq(WordRecords)
  PROVE  /\ Part(d) \in Parts
         /\ Len(Part(d)) <= Len(d)
         /\ \A i \in 1 .. Len(Part(d)) : Part(d)[i] = d[i]
  <1>1. CASE Len(d) > InputLimit
    <2>1. SubSeq(d, 1, InputLimit) \in Seq(WordRecords) /\ Len(SubSeq(d, 1, InputLimit)) = InputLimit
      BY <1>1
    <2> QED BY <1>1, <2>1 DEF Part, Parts
  <1>2. CASE ~(Len(d) > InputLimit)
    BY <1>2 DEF Part, Parts
  <1> QED BY <1>1, <1>2

LEMMA ConcatIs ==
  ASSUME NEW S, NEW q \in Seq(S), NEW t \in Seq(S)
  PROVE  /\ q \o t \in Seq(S)
         /\ Len(q \o t) = Len(q) + Len(t)
         /\ \A i \in 1 .. Len(q) : (q \o t)[i] = q[i]
         /\ \A i \in 1 .. Len(t) : (q \o t)[Len(q) + i] = t[i]
  OBVIOUS

(* Sealing changes no frame that is there; what it appends is empty but for  *)
(* the last one, whose number is the one that is due.                        *)
LEMMA SealIs ==
  ASSUME now \in Nat, NEW b \in Battles
  PROVE  LET c == SealFrames(b) IN
         /\ c \in Battles
         /\ c.gen = b.gen /\ c.start = b.start /\ c.uins = b.uins
         /\ Len(b.frames) >= Due(b, now) => c = b
         /\ Len(b.frames) < Due(b, now) =>
               /\ Len(c.frames) = Due(b, now)
               /\ \A i \in 1 .. Len(b.frames) : c.frames[i] = b.frames[i]
               /\ \A i \in Len(b.frames) + 1 .. Due(b, now) - 1 :
                     c.frames[i] = EmptyFrame(b, i)
               /\ c.frames[Due(b, now)] = MergedFrame(b, Due(b, now))
               /\ \A p \in Players : c.inputs[p] = Cleared(b.inputs[p])
  <1> DEFINE len == Len(b.frames)
             total == Due(b, now)
             empty == [i \in 1 .. total - 1 - len |-> EmptyFrame(b, len + i)]
             last == <<MergedFrame(b, total)>>
             fs == b.frames \o empty \o last
             c == [b EXCEPT !.frames = fs, !.inputs = AllCleared(b)]
  <1>1. len \in Nat /\ total \in Int /\ b.frames \in Seq(Frames) /\ b.gen \in Nat \ {0}
    BY DueIsInt DEF Battles
  <1>2. CASE len >= total
    BY <1>1, <1>2 DEF SealFrames
  <1>3. CASE len < total
    <2>1. SealFrames(b) = c
      BY <1>1, <1>3 DEF SealFrames
    <2>2. \A k \in Nat \ {0} : EmptyFrame(b, k) \in Frames
      BY <1>1 DEF EmptyFrame, Frames
    <2>3. \A p \in Players : Part(b.inputs[p].data) \in Parts
      BY PartType DEF Battles, Inputs
    <2>4. MergedFrame(b, total) \in Frames
      <3>1. {[uin |-> p, data |-> Part(b.inputs[p].data)] : p \in b.uins}
               \in SUBSET [uin : Players, data : Parts]
        BY <2>3 DEF Battles
      <3> QED BY <1>1, <1>3, <3>1 DEF MergedFrame, Frames
    <2>5. total - 1 - len \in Nat
      BY <1>1, <1>3
    <2>6. empty \in Seq(Frames) /\ Len(empty) = total - 1 - len
      <3>1. \A i \in 1 .. total - 1 - len : len + i \in Nat \ {0}
        BY <1>1, <2>5
      <3>2. empty \in [1 .. total - 1 - len -> Frames]
        BY <2>2, <3>1
      <3> HIDE DEF empty, len, total
      <3> QED BY <2>5, <3>2
    <2>7. \A i \in 1 .. total - 1 - len : empty[i] = EmptyFrame(b, len + i)
      OBVIOUS
    <2>8. last \in Seq(Frames) /\ Len(last) = 1 /\ last[1] = MergedFrame(b, total)
      BY <2>4
    <2>9. AllCleared(b) \in [Players -> Inputs]
      <3>1. \A in \in Inputs : Cleared(in) \in Inputs
        <4>1. <<>> \in Seq(WordRecords)
          OBVIOUS
        <4> QED BY <4>1 DEF Cleared, Inputs
      <3>2. \A p \in Players : b.inputs[p] \in Inputs
        BY DEF Battles
      <3> QED BY <3>1, <3>2 DEF AllCleared
    <2> HIDE DEF len, total, empty, last
    <2> DEFINE front == b.frames \o empty
    <2>10. /\ front \in Seq(Frames) /\ Len(front) = total - 1
           /\ \A i \in 1 .. len : front[i] = b.frames[i]
           /\ \A i \in len + 1 .. total - 1 : front[i] = empty[i - len]
      BY <1>1, <2>5, <2>6 DEF len
    <2> HIDE DEF front
    <2>11. /\ fs \in Seq(Frames) /\ Len(fs) = total
           /\ \A i \in 1 .. len : fs[i] = b.frames[i]
           /\ \A i \in len + 1 .. total - 1 : fs[i] = empty[i - len]
           /\ fs[total] = last[1]
      <3>1. fs = front \o last
        BY DEF front
      <3>2. len \in Nat /\ total \in Nat /\ len < total
        BY <1>1, <1>3
      <3> HIDE DEF fs
      <3>3. front \in Seq(Frames) /\ last \in Seq(Frames) /\ 1 \in 1 .. Len(last)
        BY <2>8, <2>10
      <3>4. /\ fs \in Seq(Frames) /\ Len(fs) = Len(front) + Len(last)
            /\ \A i \in 1 .. Len(front) : fs[i] = front[i]
            /\ \A i \in 1 .. Len(last) : fs[Len(front) + i] = last[i]
        <4>1. /\ front \o last \in Seq(Frames)
              /\ Len(front \o last) = Len(front) + Len(last)
              /\ \A i \in 1 .. Len(front) : (front \o last)[i] = front[i]
              /\ \A i \in 1 .. Len(last) : (front \o last)[Len(front) + i] = last[i]
          BY ONLY <3>3, ConcatIs
        <4> QED BY <3>1, <4>1
      <3>5. fs[Len(front) + 1] = last[1]
        <4>1. 1 \in 1 .. Len(last)
          BY ONLY <3>3
        <4> QED BY ONLY <3>4, <4>1
      <3>6. Len(front) = total - 1 /\ Len(last) = 1
        BY <2>8, <2>10
      <3>7. Len(fs) = total /\ fs[total] = last[1]
        BY ONLY <3>2, <3>4, <3>5, <3>6
      <3>8. \A i \in 1 .. total - 1 : fs[i] = front[i]
        BY ONLY <3>4, <3>6
      <3>9. /\ \A i \in 1 .. len : i \in 1 .. total - 1
            /\ \A i \in len + 1 .. total - 1 : i \in 1 .. total - 1
        BY ONLY <3>2
      <3> QED BY <2>10, <3>4, <3>7, <3>8, <3>9
    <2>12. \A i \in len + 1 .. total - 1 : fs[i] = EmptyFrame(b, i)
      <3>1. \A i \in len + 1 .. total - 1 :
               i - len \in 1 .. total - 1 - len /\ len + (i - len) = i
        BY <1>1, <2>5
      <3> HIDE DEF fs, c
      <3> SUFFICES ASSUME NEW i \in len + 1 .. total - 1 PROVE fs[i] = EmptyFrame(b, i)
        OBVIOUS
      <3>2. fs[len + (i - len)] = EmptyFrame(b, len + (i - len))
        BY <2>7, <2>11, <3>1
      <3> QED BY ONLY <3>1, <3>2, i \in len + 1 .. total - 1
    <2> HIDE DEF fs
    <2>13. c \in Battles
      BY <2>9, <2>11 DEF Battles
    <2>14. /\ c.gen = b.gen /\ c.start = b.start /\ c.uins = b.uins
           /\ c.frames = fs /\ c.inputs = AllCleared(b)
      BY DEF Battles
    <2>15. \A p \in Players : c.inputs[p] = Cleared(b.inputs[p])
      BY <2>14 DEF AllCleared
    <2> HIDE DEF c
    <2> QED BY <1>3, <2>1, <2>8, <2>11, <2>12, <2>13, <2>14, <2>15 DEF len, total
  <1> QED BY <1>1, <1>2, <1>3

LEMMA IntervalSize ==
  ASSUME NEW x \in Int, NEW y \in Int
  PROVE  /\ IsFiniteSet(x .. y)
         /\ Cardinality(x .. y) = IF x > y THEN 0 ELSE y - x + 1
  BY FS_Interval

LEMMA SubSeqIs ==
  ASSUME NEW S, NEW q \in Seq(S), NEW k \in Nat \ {0}, NEW m \in Nat,
         m = 0 \/ k - 1 + m <= Len(q)
  PROVE  /\ SubSeq(q, k, k - 1 + m) \in Seq(S)
         /\ Len(SubSeq(q, k, k - 1 + m)) = m
         /\ \A i \in 1 .. m : SubSeq(q, k, k - 1 + m)[i] = q[k - 1 + i]
  <1>1. CASE m = 0
    BY <1>1
  <1>2. CASE m # 0
    <2>1. k - 1 + m \in Nat /\ k <= k - 1 + m /\ k - 1 + m <= Len(q)
      BY <1>2
    <2>2. PICK l \in Nat : l = k - 1 + m
      BY <2>1
    <2>3. \A i \in k .. l : q[i] \in S
      BY <2>1, <2>2
    <2>4. SubSeq(q, k, l) = [i \in 1 .. m |-> q[k - 1 + i]]
      BY <2>2
    <2>5. \A i \in 1 .. m : k - 1 + i \in k .. l
      BY <2>2
    <2>6. [i \in 1 .. m |-> q[k - 1 + i]] \in Seq(S)
      BY <2>3, <2>5
    <2> QED BY <2>2, <2>4, <2>6
  <1> QED BY <1>1, <1>2

(* An answer is a slice of the history.                                      *)
LEMMA SliceIs ==
  ASSUME NEW b \in Battles, NEW k \in Int
  PROVE  /\ GetData(b, k) \in Seq(Frames)
         /\ \A i \in 1 .. Len(GetData(b, k)) :
               /\ k - 1 + i \in 1 .. Len(b.frames)
               /\ GetData(b, k)[i] = b.frames[k - 1 + i]
  <1>1. b.frames \in Seq(Frames) /\ Len(b.frames) \in Nat
    BY DEF Battles
  <1>2. CASE k < 1
    BY <1>2 DEF GetData
  <1>3. CASE k >= 1
    <2>1. Sent(b, k) \in SUBSET (k .. Len(b.frames))
      BY DEF Sent
    <2>2. /\ IsFiniteSet(k .. Len(b.frames))
          /\ Cardinality(k .. Len(b.frames)) =
                IF k > Len(b.frames) THEN 0 ELSE Len(b.frames) - k + 1
      <3>1. Len(b.frames) \in Int
        BY <1>1
      <3> HIDE DEF Battles
      <3> QED BY ONLY <3>1, k \in Int, IntervalSize
    <2>3. /\ IsFiniteSet(Sent(b, k))
          /\ Cardinality(Sent(b, k)) <= Cardinality(k .. Len(b.frames))
      BY <2>1, <2>2, FS_Subset
    <2>4. Cardinality(Sent(b, k)) \in Nat
      BY <2>3, FS_CardinalityType
    <2>5. PICK m \in Nat : /\ m = Cardinality(Sent(b, k))
                           /\ m <= IF k > Len(b.frames) THEN 0 ELSE Len(b.frames) - k + 1
      BY <2>2, <2>3, <2>4
    <2>6. GetData(b, k) = SubSeq(b.frames, k, k - 1 + m)
      BY <1>3, <2>5 DEF GetData
    <2>7. m = 0 \/ k - 1 + m <= Len(b.frames)
      BY <2>5, <1>1, <1>3
    <2>8. k \in Nat \ {0}
      BY <1>3
    <2>9. /\ GetData(b, k) \in Seq(Frames)
          /\ Len(GetData(b, k)) = m
          /\ \A i \in 1 .. m : GetData(b, k)[i] = b.frames[k - 1 + i]
      <3>1. PICK q \in Seq(Frames) : q = b.frames
        BY <1>1
      <3>2. m = 0 \/ k - 1 + m <= Len(q)
        BY ONLY <2>7, <3>1
      <3>3. /\ SubSeq(q, k, k - 1 + m) \in Seq(Frames)
            /\ Len(SubSeq(q, k, k - 1 + m)) = m
            /\ \A i \in 1 .. m : SubSeq(q, k, k - 1 + m)[i] = q[k - 1 + i]
        BY ONLY <2>8, <3>2, m \in Nat, SubSeqIs
      <3> QED BY ONLY <2>6, <3>1, <3>3
    <2>10. ASSUME NEW i \in 1 .. m PROVE k - 1 + i \in 1 .. Len(b.frames)
      <3>1. PICK l \in Nat : l = Len(b.frames)
        BY <1>1
      <3>2. k - 1 + m <= l
        BY ONLY <2>7, <3>1, m \in Nat, i \in 1 .. m
      <3>3. k - 1 + i \in 1 .. l
        BY ONLY <2>8, <3>2, l \in Nat, m \in Nat, i \in 1 .. m
      <3> QED BY ONLY <3>1, <3>3
    <2> QED BY ONLY <2>9, <2>10
  <1> QED BY <1>2, <1>3

(* What the handler of a datagram takes and leaves, by its named parts.      *)
FreshAt(s) == s \notin DOMAIN battles \/ now - battles[s].start > LONG_LIMIT
OldAt(s) == IF FreshAt(s) THEN NewBattle ELSE battles[s]
NewAt(p, n) == SealFrames(MergeInput(OldAt(SidOf[p]), p, n))

LEMMA HandleIs ==
  ASSUME TypeOK, NEW p \in Players, NEW k \in Int, NEW n \in Nat, Handle(p, k, n)
  PROVE  LET s == SidOf[p] IN
         /\ now \in Nat /\ born \in Nat
         /\ FreshAt(s) => born < MaxBorn
         /\ born' = IF FreshAt(s) THEN born + 1 ELSE born
         /\ s \in Sids
         /\ OldAt(s) \in Battles
         /\ battles' = [t \in DOMAIN battles \cup {s} |->
                          IF t = s THEN NewAt(p, n) ELSE battles[t]]
         /\ \A r \in replies' :
               r \in replies \/ r = [to |-> p, frames |-> GetData(NewAt(p, n), k)]
         /\ UNCHANGED <<now, have>>
  <1> DEFINE s == SidOf[p]
  <1>1. /\ now \in Nat /\ born \in Nat
        /\ \A t \in DOMAIN battles : battles[t] \in Battles
    BY DEF TypeOK
  <1>2. NewBattle \in Battles
    <2>1. NoInput \in Inputs
      BY DEF NoInput, Inputs
    <2>2. [q \in Players |-> NoInput] \in [Players -> Inputs]
      BY <2>1
    <2>3. born + 1 \in Nat \ {0} /\ <<>> \in Seq(Frames)
      BY <1>1
    <2> QED BY <1>1, <2>2, <2>3 DEF NewBattle, Battles
  <1>3. OldAt(s) \in Battles
    BY <1>1, <1>2 DEF OldAt, FreshAt
  <1>4. s \in Sids
    OBVIOUS
  <1>5. /\ FreshAt(s) => born < MaxBorn
        /\ born' = IF FreshAt(s) THEN born + 1 ELSE born
        /\ battles' = [t \in DOMAIN battles \cup {s} |->
                          IF t = s THEN NewAt(p, n) ELSE battles[t]]
        /\ UNCHANGED <<now, have>>
    BY Zenon DEF Handle, FreshAt, OldAt, NewAt
  <1>6. replies' \subseteq replies \cup {[to |-> p, frames |-> GetData(NewAt(p, n), k)]}
    BY Zenon DEF Handle, FreshAt, OldAt, NewAt
  <1> QED BY <1>1, <1>3, <1>4, <1>5, <1>6

(* How the handled battle grew.                                              *)
LEMMA NewIs ==
  ASSUME TypeOK, NEW p \in Players, NEW n \in Nat, OldAt(SidOf[p]) \in Battles
  PROVE  LET old == OldAt(SidOf[p])
             new == NewAt(p, n)
         IN
         /\ new \in Battles
         /\ new.gen = old.gen
         /\ Len(old.frames) <= Len(new.frames)
         /\ \A i \in 1 .. Len(old.frames) : new.frames[i] = old.frames[i]
         /\ \A i \in Len(old.frames) + 1 .. Len(new.frames) :
               new.frames[i].no = i /\ new.frames[i].gen = old.gen
  <1> DEFINE old == OldAt(SidOf[p])
             c == MergeInput(old, p, n)
             new == SealFrames(c)
  <1>0. now \in Nat
    BY DEF TypeOK
  <1>1. c \in Battles /\ c.gen = old.gen /\ c.frames = old.frames
    <2>1. old \in Battles
      OBVIOUS
    <2> HIDE DEF old
    <2> QED BY ONLY <1>0, <2>1, p \in Players, n \in Nat, MergeIs, Zenon
  <1> HIDE DEF old, c
  <1>2. /\ new \in Battles
        /\ new.gen = c.gen
        /\ Len(c.frames) >= Due(c, now) => new = c
        /\ Len(c.frames) < Due(c, now) =>
              /\ Len(new.frames) = Due(c, now)
              /\ \A i \in 1 .. Len(c.frames) : new.frames[i] = c.frames[i]
              /\ \A i \in Len(c.frames) + 1 .. Due(c, now) - 1 :
                    new.frames[i] = EmptyFrame(c, i)
              /\ new.frames[Due(c, now)] = MergedFrame(c, Due(c, now))
    BY <1>0, <1>1, SealIs
  <1> HIDE DEF new
  <1>3. Due(c, now) \in Int /\ Len(c.frames) \in Nat
    <2>1. Due(c, now) \in Int
      BY <1>0, <1>1, DueIsInt
    <2>2. Len(c.frames) \in Nat
      BY <1>1 DEF Battles
    <2> QED BY <2>1, <2>2
  <1>4. /\ Len(old.frames) <= Len(new.frames)
        /\ \A i \in 1 .. Len(old.frames) : new.frames[i] = old.frames[i]
        /\ \A i \in Len(old.frames) + 1 .. Len(new.frames) :
               new.frames[i].no = i /\ new.frames[i].gen = old.gen
    <2>1. CASE Len(c.frames) >= Due(c, now)
      <3>1. new.frames = old.frames /\ Len(old.frames) \in Nat
        BY <1>1, <1>2, <1>3, <2>1
      <3> QED BY ONLY <3>1
    <2>2. CASE Len(c.frames) < Due(c, now)
      <3>1. \A i : /\ EmptyFrame(c, i).no = i /\ EmptyFrame(c, i).gen = c.gen
                   /\ MergedFrame(c, i).no = i /\ MergedFrame(c, i).gen = c.gen
        BY DEF EmptyFrame, MergedFrame
      <3>2. /\ Len(new.frames) = Due(c, now)
            /\ \A i \in 1 .. Len(c.frames) : new.frames[i] = c.frames[i]
            /\ \A i \in Len(c.frames) + 1 .. Due(c, now) - 1 :
                  new.frames[i] = EmptyFrame(c, i)
            /\ new.frames[Due(c, now)] = MergedFrame(c, Due(c, now))
        BY <1>2, <2>2
      <3>3. ASSUME NEW i \in Len(c.frames) + 1 .. Len(new.frames)
            PROVE  new.frames[i].no = i /\ new.frames[i].gen = c.gen
        <4>1. CASE i = Due(c, now)
          BY ONLY <3>1, <3>2, <4>1
        <4>2. CASE i \in Len(c.frames) + 1 .. Due(c, now) - 1
          BY ONLY <3>1, <3>2, <4>2
        <4>3. i = Due(c, now) \/ i \in Len(c.frames) + 1 .. Due(c, now) - 1
          BY ONLY <1>3, <3>2, i \in Len(c.frames) + 1 .. Len(new.frames)
        <4> QED BY ONLY <4>1, <4>2, <4>3
      <3>4. Len(c.frames) <= Len(new.frames)
        BY ONLY <1>3, <2>2, <3>2
      <3> QED BY <1>1, <3>2, <3>3, <3>4, Zenon
    <2> QED BY <1>3, <2>1, <2>2
  <1> QED BY <1>1, <1>2, <1>4 DEF new, c, old, NewAt

--------------------------------------------------------------------------------
(* Types.                                                                    *)

LEMMA TypeStep == TypeOK /\ [Next]_vars => TypeOK'
  <1> SUFFICES ASSUME TypeOK, [Next]_vars PROVE TypeOK'
    OBVIOUS
  <1>1. ASSUME NEW p \in Players, Arrive(p) PROVE TypeOK'
    <2>1. PICK k \in 0 .. Len(have[p]) + 1, n \in Sizes : Handle(p, k, n)
      BY <1>1 DEF Arrive
    <2>2. k \in Int /\ n \in Nat
      BY <2>1
    <2> DEFINE s == SidOf[p]
               new == NewAt(p, n)
    <2>3. /\ now \in Nat /\ born \in Nat
          /\ FreshAt(s) => born < MaxBorn
          /\ born' = IF FreshAt(s) THEN born + 1 ELSE born
          /\ s \in Sids
          /\ OldAt(s) \in Battles
          /\ battles' = [t \in DOMAIN battles \cup {s} |->
                          IF t = s THEN new ELSE battles[t]]
          /\ \A r \in replies' :
                r \in replies \/ r = [to |-> p, frames |-> GetData(new, k)]
          /\ UNCHANGED <<now, have>>
      BY <2>1, <2>2, HandleIs
    <2>4. new \in Battles
      BY <2>2, <2>3, NewIs
    <2>5. GetData(new, k) \in Seq(Frames)
      BY <2>2, <2>4, SliceIs
    <2> HIDE DEF new
    <2>6. now' \in 0 .. MaxNow /\ born' \in 0 .. MaxBorn /\ have' \in [Players -> Seq(Frames)]
      BY <2>3 DEF TypeOK
    <2>7. DOMAIN battles' \subseteq Sids /\ \A t \in DOMAIN battles' : battles'[t] \in Battles
      BY <2>3, <2>4 DEF TypeOK
    <2>8. replies' \subseteq [to : Players, frames : Seq(Frames)]
      BY <2>3, <2>5 DEF TypeOK
    <2> QED BY <2>6, <2>7, <2>8 DEF TypeOK
  <1>2. ASSUME NEW p \in Players, NEW r \in replies, Take(p, r) PROVE TypeOK'
    <2>1. PICK i \in 1 .. Len(r.frames) :
             have' = [have EXCEPT ![p] = @ \o SubSeq(r.frames, i, Len(r.frames))]
      BY <1>2 DEF Take
    <2>2. r.frames \in Seq(Frames) /\ have[p] \in Seq(Frames)
      BY DEF TypeOK
    <2>3. have[p] \o SubSeq(r.frames, i, Len(r.frames)) \in Seq(Frames)
      BY <2>2
    <2>4. have' \in [Players -> Seq(Frames)]
      BY <2>1, <2>3 DEF TypeOK
    <2>5. replies' \subseteq replies /\ UNCHANGED <<now, battles, born>>
      BY <1>2 DEF Take
    <2> QED BY <2>4, <2>5 DEF TypeOK
  <1>3. CASE Restart
    BY <1>3 DEF Restart, TypeOK
  <1>4. CASE Clock
    BY <1>4 DEF Clock, TypeOK
  <1>5. CASE UNCHANGED vars
    BY <1>5 DEF vars, TypeOK
  <1> QED BY <1>1, <1>2, <1>3, <1>4, <1>5 DEF Next

(* Every variable keeps its type: no part of a frame is longer than the      *)
(* limit, however the datagrams come.                                        *)
THEOREM TypeCorrect == Spec => []TypeOK
  <1>1. Init => TypeOK
    BY DEF Init, TypeOK
  <1> QED BY <1>1, TypeStep, PTL DEF Spec

--------------------------------------------------------------------------------
(* Inputs go into the first frame with inputs that is sealed after them.     *)

InTime(b) ==
    /\ \A k \in 1 .. Len(b.frames) : \A x \in b.frames[k].parts :
          \A i \in 1 .. Len(x.data) : InFirstMerged(b, x.data[i], k)
    /\ \A p \in Players : \A i \in 1 .. Len(b.inputs[p].data) :
          InFirstMerged(b, b.inputs[p].data[i], Len(b.frames) + 1)

(* What waits after a merge may go into the next frame that is sealed.       *)
MayGoNext(b, w) ==
    /\ \/ w.first <= Len(b.frames) + 1
       \/ w.first <= Due(b, now)
    /\ \A j \in w.first .. Len(b.frames) : b.frames[j].parts = {}

LEMMA MergeInTime ==
  ASSUME now \in Nat, NEW b \in Battles, InTime(b), NEW p \in Players, NEW n \in Nat
  PROVE  LET c == MergeInput(b, p, n) IN
         /\ \A k \in 1 .. Len(c.frames) : \A x \in c.frames[k].parts :
               \A i \in 1 .. Len(x.data) : InFirstMerged(c, x.data[i], k)
         /\ \A q \in Players : \A i \in 1 .. Len(c.inputs[q].data) :
               MayGoNext(c, c.inputs[q].data[i])
         /\ Due(b, now) <= Len(b.frames) =>
               \A q \in Players : \A i \in 1 .. Len(c.inputs[q].data) :
                  InFirstMerged(c, c.inputs[q].data[i], Len(c.frames) + 1)
  <1> DEFINE c == MergeInput(b, p, n)
             words == [i \in 1 .. n |->
                         [pos |-> b.inputs[p].heard + i, first |-> Open(b)]]
             len == Len(b.frames)
  <1>1. /\ c \in Battles /\ c.start = b.start /\ c.frames = b.frames
        /\ \A q \in Players \ {p} : c.inputs[q] = b.inputs[q]
        /\ c.inputs[p].data = b.inputs[p].data \o words
    BY ONLY now \in Nat, b \in Battles, p \in Players, n \in Nat, MergeIs
  <1>2. /\ Open(b) \in Nat \ {0}
        /\ Open(b) = IF Due(b, now) > len THEN Due(b, now) ELSE len + 1
        /\ Due(b, now) \in Int /\ len \in Nat
    <2>1. Due(b, now) \in Int
      BY DueIsInt
    <2>2. len \in Nat
      BY DEF Battles
    <2>3. /\ Open(b) \in Nat \ {0}
          /\ Open(b) = IF Due(b, now) > len THEN Due(b, now) ELSE len + 1
      BY OpenIs
    <2> QED BY <2>1, <2>2, <2>3
  <1>3. Due(c, now) = Due(b, now)
    BY <1>1 DEF Due
  <1>4. /\ words \in Seq(WordRecords) /\ Len(words) = n
        /\ \A i \in 1 .. n : words[i].first = Open(b)
    <2>1. b.inputs[p].heard \in Nat
      BY DEF Battles, Inputs
    <2>2. \A i \in 1 .. n : b.inputs[p].heard + i \in Nat \ {0}
      BY <2>1
    <2>3. words \in [1 .. n -> WordRecords]
      BY <1>2, <2>2 DEF WordRecords
    <2>4. \A i \in 1 .. n : words[i].first = Open(b)
      OBVIOUS
    <2> HIDE DEF words
    <2> QED BY ONLY <2>3, <2>4, n \in Nat
  <1>5. \A q \in Players : b.inputs[q].data \in Seq(WordRecords)
    BY DEF Battles, Inputs
  <1> HIDE DEF c, words
  <1>6. \A k \in 1 .. Len(c.frames) : \A x \in c.frames[k].parts :
           \A i \in 1 .. Len(x.data) : InFirstMerged(c, x.data[i], k)
    BY <1>1 DEF InTime, InFirstMerged
  <1>7. ASSUME NEW q \in Players, NEW i \in 1 .. Len(c.inputs[q].data)
        PROVE  \/ InFirstMerged(b, c.inputs[q].data[i], len + 1)
               \/ c.inputs[q].data[i].first = Open(b)
    <2>1. CASE q # p
      BY <1>1, <2>1 DEF InTime
    <2>2. CASE q = p
      <3> DEFINE d == b.inputs[p].data
      <3>1. d \in Seq(WordRecords) /\ Len(d) \in Nat
        BY <1>5
      <3>2. \A j \in 1 .. Len(d) : InFirstMerged(b, d[j], len + 1)
        BY DEF InTime
      <3> HIDE DEF d
      <3>3. Len(d \o words) = Len(d) + n
        BY <1>4, <3>1, ConcatIs
      <3>4. /\ \A j \in 1 .. Len(d) : (d \o words)[j] = d[j]
            /\ \A j \in 1 .. n : (d \o words)[Len(d) + j] = words[j]
        BY <1>4, <3>1, ConcatIs
      <3>5. c.inputs[q].data = d \o words
        BY <1>1, <2>2 DEF d
      <3>6. CASE i \in 1 .. Len(d)
        BY <3>2, <3>4, <3>5, <3>6
      <3>7. CASE i \notin 1 .. Len(d)
        <4>1. i - Len(d) \in 1 .. n /\ i = Len(d) + (i - Len(d))
          BY <3>1, <3>3, <3>5, <3>7
        <4> QED BY <1>4, <3>4, <3>5, <4>1
      <3> QED BY <3>6, <3>7
    <2> QED BY <2>1, <2>2
  <1>8. ASSUME NEW q \in Players, NEW i \in 1 .. Len(c.inputs[q].data)
        PROVE  MayGoNext(c, c.inputs[q].data[i])
    <2>1. CASE InFirstMerged(b, c.inputs[q].data[i], len + 1)
      BY <1>1, <1>2, <2>1 DEF MayGoNext, InFirstMerged
    <2>2. CASE c.inputs[q].data[i].first = Open(b)
      BY <1>1, <1>2, <1>3, <2>2 DEF MayGoNext
    <2> QED BY <1>7, <2>1, <2>2
  <1>9. ASSUME Due(b, now) <= len,
               NEW q \in Players, NEW i \in 1 .. Len(c.inputs[q].data)
        PROVE  InFirstMerged(c, c.inputs[q].data[i], Len(c.frames) + 1)
    <2>1. CASE InFirstMerged(b, c.inputs[q].data[i], len + 1)
      BY <1>1, <2>1 DEF InFirstMerged
    <2>2. CASE c.inputs[q].data[i].first = Open(b)
      BY <1>1, <1>2, <1>9, <2>2 DEF InFirstMerged
    <2> QED BY <1>7, <2>1, <2>2
  <1> QED BY <1>6, <1>8, <1>9 DEF c

LEMMA SealInTime ==
  ASSUME now \in Nat, NEW c \in Battles,
         Due(c, now) > Len(c.frames),
         \A k \in 1 .. Len(c.frames) : \A x \in c.frames[k].parts :
            \A i \in 1 .. Len(x.data) : InFirstMerged(c, x.data[i], k),
         \A q \in Players : \A i \in 1 .. Len(c.inputs[q].data) :
            MayGoNext(c, c.inputs[q].data[i])
  PROVE  InTime(SealFrames(c))
  <1> DEFINE b == SealFrames(c)
             len == Len(c.frames)
             total == Due(c, now)
  <1>1. /\ Len(b.frames) = total
        /\ \A i \in 1 .. len : b.frames[i] = c.frames[i]
        /\ \A i \in len + 1 .. total - 1 : b.frames[i] = EmptyFrame(c, i)
        /\ b.frames[total] = MergedFrame(c, total)
        /\ \A q \in Players : b.inputs[q] = Cleared(c.inputs[q])
    BY SealIs
  <1>2. len \in Nat /\ total \in Int /\ c.uins \subseteq Players
    <2>1. total \in Int
      BY DueIsInt
    <2> QED BY <2>1 DEF Battles
  <1>3. \A q \in Players : c.inputs[q].data \in Seq(WordRecords)
    BY DEF Battles, Inputs
  <1> HIDE DEF b, len, total
  <1>4. \A i \in len + 1 .. total - 1 : b.frames[i].parts = {}
    <2>1. \A i \in Int : EmptyFrame(c, i).parts = {}
      BY DEF EmptyFrame
    <2> QED BY <1>1, <1>2, <2>1
  <1>5. ASSUME NEW k \in 1 .. len, NEW x \in c.frames[k].parts, NEW i \in 1 .. Len(x.data)
        PROVE  InFirstMerged(b, x.data[i], k)
    <2>1. /\ x.data[i].first <= k
          /\ \A j \in x.data[i].first .. k - 1 : c.frames[j].parts = {}
      BY DEF InFirstMerged, len
    <2>2. x.data[i] \in WordRecords
      <3>1. c.frames[k] \in Frames
        BY DEF Battles, len
      <3>2. x.data \in Seq(WordRecords)
        BY <3>1 DEF Frames, Parts
      <3> QED BY <3>2
    <2>3. x.data[i].first \in Nat \ {0}
      BY <2>2 DEF WordRecords
    <2>4. \A j \in x.data[i].first .. k - 1 : j \in 1 .. len
      BY <1>2, <2>3
    <2> QED BY <1>1, <2>1, <2>4 DEF InFirstMerged
  <1>6. ASSUME NEW x \in MergedFrame(c, total).parts, NEW i \in 1 .. Len(x.data)
        PROVE  InFirstMerged(b, x.data[i], total)
    <2>1. PICK q \in c.uins : x = [uin |-> q, data |-> Part(c.inputs[q].data)]
      BY DEF MergedFrame
    <2> DEFINE d == c.inputs[q].data
    <2>2. q \in Players /\ d \in Seq(WordRecords)
      BY <1>2, <1>3
    <2>3. x.data[i] = d[i] /\ i \in 1 .. Len(d)
      <3>1. x.data = Part(d)
        BY <2>1
      <3> HIDE DEF d
      <3>2. Len(Part(d)) <= Len(d) /\ \A j \in 1 .. Len(Part(d)) : Part(d)[j] = d[j]
        BY <2>2, PartType
      <3>3. Len(Part(d)) \in Nat /\ Len(d) \in Nat
        BY <2>2, PartType DEF Parts
      <3> QED BY <3>1, <3>2, <3>3
    <2>4. MayGoNext(c, d[i])
      BY <2>2, <2>3
    <2>5. d[i].first \in Nat \ {0}
      <3>1. d[i] \in WordRecords
        BY <2>2, <2>3
      <3> QED BY <3>1 DEF WordRecords
    <2> HIDE DEF d
    <2>6. d[i].first <= total
      BY <1>2, <2>4, <2>5 DEF MayGoNext, len, total
    <2>7. \A j \in d[i].first .. total - 1 : b.frames[j].parts = {}
      <3>1. \A j \in d[i].first .. len : j \in 1 .. len /\ c.frames[j].parts = {}
        BY <1>2, <2>4, <2>5 DEF MayGoNext, len
      <3>2. \A j \in d[i].first .. len : b.frames[j].parts = {}
        BY <1>1, <3>1
      <3> QED BY <1>2, <1>4, <2>5, <3>2
    <2> QED BY <2>3, <2>6, <2>7 DEF InFirstMerged
  <1>7. \A k \in 1 .. Len(b.frames) : \A x \in b.frames[k].parts :
           \A i \in 1 .. Len(x.data) : InFirstMerged(b, x.data[i], k)
    <2> SUFFICES ASSUME NEW k \in 1 .. total, NEW x \in b.frames[k].parts,
                        NEW i \in 1 .. Len(x.data)
                 PROVE  InFirstMerged(b, x.data[i], k)
      BY <1>1
    <2>1. CASE k \in 1 .. len
      BY <1>1, <1>5, <2>1
    <2>2. CASE k = total
      BY <1>1, <1>6, <2>2
    <2>3. CASE k \in len + 1 .. total - 1
      BY <1>4, <2>3
    <2> QED BY <1>2, <2>1, <2>2, <2>3
  <1>8. \A q \in Players : b.inputs[q].data = <<>>
    <2>1. \A in \in Inputs : Cleared(in).data = <<>>
      BY DEF Cleared, Inputs
    <2>2. \A q \in Players : c.inputs[q] \in Inputs
      BY DEF Battles
    <2> QED BY <1>1, <2>1, <2>2
  <1>9. \A q \in Players : \A i \in 1 .. Len(b.inputs[q].data) :
           InFirstMerged(b, b.inputs[q].data[i], Len(b.frames) + 1)
    BY <1>8
  <1> QED BY <1>7, <1>9 DEF InTime, b

LEMMA NewInTime ==
  ASSUME TypeOK, InputsInTime, NEW p \in Players, NEW n \in Nat,
         OldAt(SidOf[p]) \in Battles
  PROVE  InTime(NewAt(p, n))
  <1> DEFINE old == OldAt(SidOf[p])
             c == MergeInput(old, p, n)
  <1>0. now \in Nat
    BY DEF TypeOK
  <1>1. InTime(old)
    <2>1. CASE FreshAt(SidOf[p])
      BY <2>1 DEF OldAt, NewBattle, NoInput, InTime
    <2>2. CASE ~FreshAt(SidOf[p])
      BY <2>2 DEF OldAt, FreshAt, InputsInTime, InTime
    <2> QED BY <2>1, <2>2
  <1>2. old \in Battles
    OBVIOUS
  <1> HIDE DEF old
  <1>3. /\ \A k \in 1 .. Len(c.frames) : \A x \in c.frames[k].parts :
               \A i \in 1 .. Len(x.data) : InFirstMerged(c, x.data[i], k)
        /\ \A q \in Players : \A i \in 1 .. Len(c.inputs[q].data) :
               MayGoNext(c, c.inputs[q].data[i])
        /\ Due(old, now) <= Len(old.frames) =>
               \A q \in Players : \A i \in 1 .. Len(c.inputs[q].data) :
                  InFirstMerged(c, c.inputs[q].data[i], Len(c.frames) + 1)
    BY ONLY <1>0, <1>1, <1>2, p \in Players, n \in Nat, MergeInTime
  <1>4. c \in Battles /\ c.start = old.start /\ c.frames = old.frames
    BY ONLY <1>0, <1>2, p \in Players, n \in Nat, MergeIs
  <1> HIDE DEF c
  <1>5. Due(c, now) = Due(old, now) /\ Due(c, now) \in Int /\ Len(c.frames) \in Nat
    <2>1. Due(c, now) = Due(old, now)
      BY <1>4 DEF Due
    <2>2. Due(c, now) \in Int
      BY <1>0, <1>4, DueIsInt
    <2> QED BY <1>4, <2>1, <2>2 DEF Battles
  <1>6. InTime(SealFrames(c))
    <2>1. CASE Due(c, now) > Len(c.frames)
      BY <1>0, <1>3, <1>4, <2>1, SealInTime
    <2>2. CASE Due(c, now) <= Len(c.frames)
      <3>1. SealFrames(c) = c
        BY <1>5, <2>2 DEF SealFrames
      <3> QED BY <1>3, <1>4, <1>5, <2>2, <3>1 DEF InTime
    <2> QED BY <1>5, <2>1, <2>2
  <1> QED BY <1>6 DEF NewAt, old, c

LEMMA InTimeStep == TypeOK /\ InputsInTime /\ [Next]_vars => InputsInTime'
  <1>0. InputsInTime = \A s \in DOMAIN battles : InTime(battles[s])
    BY DEF InputsInTime, InTime
  <1> SUFFICES ASSUME TypeOK, InputsInTime, [Next]_vars
               PROVE  \A s \in DOMAIN battles' : InTime(battles'[s])
    BY DEF InputsInTime, InTime, InFirstMerged
  <1>1. ASSUME NEW p \in Players, Arrive(p)
        PROVE  \A s \in DOMAIN battles' : InTime(battles'[s])
    <2>1. PICK k \in 0 .. Len(have[p]) + 1, n \in Sizes : Handle(p, k, n)
      BY <1>1 DEF Arrive
    <2>2. k \in Int /\ n \in Nat
      BY <2>1
    <2>3. /\ OldAt(SidOf[p]) \in Battles
          /\ battles' = [t \in DOMAIN battles \cup {SidOf[p]} |->
                          IF t = SidOf[p] THEN NewAt(p, n) ELSE battles[t]]
      BY ONLY TypeOK, p \in Players, <2>1, <2>2, HandleIs
    <2>4. InTime(NewAt(p, n))
      BY <2>2, <2>3, NewInTime
    <2> QED BY <1>0, <2>3, <2>4
  <1>2. ASSUME NEW p \in Players, NEW r \in replies, Take(p, r)
        PROVE  \A s \in DOMAIN battles' : InTime(battles'[s])
    BY <1>0, <1>2 DEF Take
  <1>3. CASE Restart
    BY <1>3 DEF Restart
  <1>4. CASE Clock
    BY <1>0, <1>4 DEF Clock
  <1>5. CASE UNCHANGED vars
    BY <1>0, <1>5 DEF vars
  <1> QED BY <1>1, <1>2, <1>3, <1>4, <1>5 DEF Next

(* Nobody's input is sealed into a frame whose time was over when it was     *)
(* heard, and it is in the first frame with inputs that was sealed since.    *)
THEOREM InputsAreInTime == Spec => []InputsInTime
  <1>1. Init => InputsInTime
    BY DEF Init, InputsInTime
  <1>2. Spec => []TypeOK
    BY TypeCorrect
  <1> QED BY <1>1, <1>2, InTimeStep, PTL DEF Spec

--------------------------------------------------------------------------------
(* Frames are final.                                                         *)

(* Every frame of a battle, wherever it is, is the one in its history; the   *)
(* frames of a battle and of an answer are numbered one by one.              *)
Numbered(b) == \A i \in 1 .. Len(b.frames) : b.frames[i].no = i /\ b.frames[i].gen = b.gen
InHistory(b, f) == f.no \in 1 .. Len(b.frames) /\ f = b.frames[f.no]

Finality ==
    /\ \A s \in DOMAIN battles : battles[s].gen <= born /\ Numbered(battles[s])
    /\ \A s, t \in DOMAIN battles : battles[s].gen = battles[t].gen => s = t
    /\ \A f \in AllFrames : f.gen <= born
    /\ \A s \in DOMAIN battles, f \in AllFrames :
          f.gen = battles[s].gen => InHistory(battles[s], f)
    /\ \A r \in replies : \A i, j \in 1 .. Len(r.frames) :
          r.frames[i].no - i = r.frames[j].no - j
    /\ HistoryAgrees

LEMMA RangedIs == \A q, f : f \in Ranged(q) <=> \E i \in 1 .. Len(q) : f = q[i]
  BY DEF Ranged

LEMMA UnionOfThree ==
  ASSUME NEW A, NEW B, NEW C, NEW f
  PROVE  f \in UNION (A \cup B \cup C) <=>
            \/ \E X \in A : f \in X
            \/ \E X \in B : f \in X
            \/ \E X \in C : f \in X
  OBVIOUS

FramesAre ==
  \A f : f \in AllFrames <=>
     \/ \E s \in DOMAIN battles : \E i \in 1 .. Len(battles[s].frames) :
           f = battles[s].frames[i]
     \/ \E r \in replies : \E i \in 1 .. Len(r.frames) : f = r.frames[i]
     \/ \E p \in Players : \E i \in 1 .. Len(have[p]) : f = have[p][i]

LEMMA FrameIs == FramesAre
  <1> SUFFICES ASSUME NEW f
               PROVE  f \in AllFrames <=>
                  \/ \E s \in DOMAIN battles : \E i \in 1 .. Len(battles[s].frames) :
                        f = battles[s].frames[i]
                  \/ \E r \in replies : \E i \in 1 .. Len(r.frames) : f = r.frames[i]
                  \/ \E p \in Players : \E i \in 1 .. Len(have[p]) : f = have[p][i]
    BY DEF FramesAre
  <1> DEFINE A == {Ranged(battles[s].frames) : s \in DOMAIN battles}
             B == {Ranged(r.frames) : r \in replies}
             C == {Ranged(have[p]) : p \in Players}
  <1>1. (\E X \in A : f \in X) <=>
           \E s \in DOMAIN battles : \E i \in 1 .. Len(battles[s].frames) :
              f = battles[s].frames[i]
    <2>1. (\E X \in A : f \in X) <=> \E s \in DOMAIN battles : f \in Ranged(battles[s].frames)
      OBVIOUS
    <2>2. \A s \in DOMAIN battles : (f \in Ranged(battles[s].frames)) <=> \E i \in 1 .. Len(battles[s].frames) : f = battles[s].frames[i]
      BY RangedIs
    <2> QED BY ONLY <2>1, <2>2
  <1>2. (\E X \in B : f \in X) <=>
           \E r \in replies : \E i \in 1 .. Len(r.frames) : f = r.frames[i]
    <2>1. (\E X \in B : f \in X) <=> \E r \in replies : f \in Ranged(r.frames)
      OBVIOUS
    <2>2. \A r \in replies : (f \in Ranged(r.frames)) <=> \E i \in 1 .. Len(r.frames) : f = r.frames[i]
      BY RangedIs
    <2> QED BY ONLY <2>1, <2>2
  <1>3. (\E X \in C : f \in X) <=>
           \E p \in Players : \E i \in 1 .. Len(have[p]) : f = have[p][i]
    <2>1. (\E X \in C : f \in X) <=> \E p \in Players : f \in Ranged(have[p])
      OBVIOUS
    <2>2. \A p \in Players : (f \in Ranged(have[p])) <=> \E i \in 1 .. Len(have[p]) : f = have[p][i]
      BY RangedIs
    <2> QED BY ONLY <2>1, <2>2
  <1>4. AllFrames = UNION (A \cup B \cup C)
    BY Zenon DEF AllFrames
  <1>5. f \in UNION (A \cup B \cup C) <=>
            \/ \E X \in A : f \in X
            \/ \E X \in B : f \in X
            \/ \E X \in C : f \in X
    BY UnionOfThree
  <1> HIDE DEF A, B, C
  <1> QED BY ONLY <1>1, <1>2, <1>3, <1>4, <1>5

LEMMA FrameIsNext == FramesAre'
  BY FrameIs, PTL

LEMMA AllFramesType == TypeOK => AllFrames \subseteq Frames
  <1> SUFFICES ASSUME TypeOK, NEW f \in AllFrames PROVE f \in Frames
    OBVIOUS
  <1>1. /\ \A s \in DOMAIN battles : battles[s].frames \in Seq(Frames)
        /\ \A r \in replies : r.frames \in Seq(Frames)
        /\ \A p \in Players : have[p] \in Seq(Frames)
    BY DEF TypeOK, Battles
  <1> QED BY <1>1, FrameIs DEF FramesAre

(* Without a datagram there are no new frames.                               *)
LEMMA FewerFrames ==
  ASSUME Finality, AllFrames' \subseteq AllFrames, born' = born,
         DOMAIN battles' \subseteq DOMAIN battles,
         \A s \in DOMAIN battles' : battles'[s] = battles[s],
         replies' \subseteq replies,
         \A p \in Players : \A i \in 1 .. Len(have'[p]) : have'[p][i].no = i
  PROVE  Finality'
  <1>1. /\ \A s \in DOMAIN battles' : battles'[s].gen <= born' /\ Numbered(battles'[s])
        /\ \A s, t \in DOMAIN battles' : battles'[s].gen = battles'[t].gen => s = t
    BY DEF Finality
  <1>2. /\ \A f \in AllFrames' : f.gen <= born'
        /\ \A s \in DOMAIN battles', f \in AllFrames' :
              f.gen = battles'[s].gen => InHistory(battles'[s], f)
    BY DEF Finality
  <1>3. \A r \in replies' : \A i, j \in 1 .. Len(r.frames) :
           r.frames[i].no - i = r.frames[j].no - j
    BY DEF Finality
  <1>4. HistoryAgrees'
    BY DEF Finality, HistoryAgrees
  <1> QED BY <1>1, <1>2, <1>3, <1>4 DEF Finality, Numbered, InHistory

LEMMA HandleFinality ==
  ASSUME TypeOK, Finality, NEW p \in Players, NEW k \in Int, NEW n \in Nat,
         Handle(p, k, n)
  PROVE  Finality'
  <1> DEFINE s == SidOf[p]
             old == OldAt(s)
             new == NewAt(p, n)
  <1>1. /\ now \in Nat /\ born \in Nat
        /\ born' = IF FreshAt(s) THEN born + 1 ELSE born
        /\ old \in Battles
        /\ battles' = [t \in DOMAIN battles \cup {s} |->
                         IF t = s THEN new ELSE battles[t]]
        /\ \A r \in replies' :
              r \in replies \/ r = [to |-> p, frames |-> GetData(new, k)]
        /\ have' = have
    <2> HIDE DEF s, old, new
    <2>1. s = SidOf[p] /\ old = OldAt(SidOf[p]) /\ new = NewAt(p, n)
      BY DEF s, old, new
    <2>2. /\ now \in Nat /\ born \in Nat
          /\ born' = IF FreshAt(SidOf[p]) THEN born + 1 ELSE born
          /\ OldAt(SidOf[p]) \in Battles
      BY ONLY TypeOK, p \in Players, k \in Int, n \in Nat, Handle(p, k, n), HandleIs
    <2>3. battles' = [t \in DOMAIN battles \cup {SidOf[p]} |->
                        IF t = SidOf[p] THEN NewAt(p, n) ELSE battles[t]]
      BY ONLY TypeOK, p \in Players, k \in Int, n \in Nat, Handle(p, k, n), HandleIs
    <2>4. \A r \in replies' :
             r \in replies \/ r = [to |-> p, frames |-> GetData(NewAt(p, n), k)]
      BY ONLY TypeOK, p \in Players, k \in Int, n \in Nat, Handle(p, k, n), HandleIs
    <2>5. have' = have
      BY ONLY TypeOK, p \in Players, k \in Int, n \in Nat, Handle(p, k, n), HandleIs
    <2> QED BY ONLY <2>1, <2>2, <2>3, <2>4, <2>5
  <1>2. /\ new \in Battles
        /\ new.gen = old.gen
        /\ Len(old.frames) <= Len(new.frames)
        /\ \A i \in 1 .. Len(old.frames) : new.frames[i] = old.frames[i]
        /\ \A i \in Len(old.frames) + 1 .. Len(new.frames) :
               new.frames[i].no = i /\ new.frames[i].gen = old.gen
    BY <1>1, NewIs
  <1>3. /\ old.gen <= born' /\ Numbered(old)
        /\ \A t \in DOMAIN battles \ {s} : battles[t].gen # old.gen
        /\ \A f \in AllFrames : f.gen = old.gen => InHistory(old, f)
    <2>1. CASE FreshAt(s)
      <3>1. old.gen = born + 1 /\ old.frames = <<>>
        BY <2>1 DEF OldAt, NewBattle
      <3>2. \A t \in DOMAIN battles : battles[t].gen # born + 1
        BY <1>1 DEF Finality, TypeOK, Battles
      <3>3. \A f \in AllFrames : f.gen # born + 1
        <4>1. \A f \in AllFrames : f.gen \in Nat
          <5>1. \A f \in AllFrames : f \in Frames
            BY AllFramesType
          <5> QED BY <5>1 DEF Frames
        <4> QED BY <1>1, <4>1 DEF Finality
      <3> HIDE DEF old
      <3> QED BY <1>1, <2>1, <3>1, <3>2, <3>3 DEF Numbered
    <2>2. CASE ~FreshAt(s)
      BY <1>1, <2>2 DEF OldAt, FreshAt, Finality
    <2> QED BY <2>1, <2>2
  <1>4. Len(old.frames) \in Nat /\ Len(new.frames) \in Nat
    BY <1>1, <1>2 DEF Battles
  <1> HIDE DEF s, old, new
  <1>14. \A i \in 1 .. Len(GetData(new, k)) :
            /\ k - 1 + i \in 1 .. Len(new.frames)
            /\ GetData(new, k)[i] = new.frames[k - 1 + i]
    BY ONLY <1>2, k \in Int, SliceIs
  <1>5. Numbered(new)
    <2>1. \A i \in 1 .. Len(new.frames) :
             i \in 1 .. Len(old.frames) \/ i \in Len(old.frames) + 1 .. Len(new.frames)
      BY <1>4
    <2> QED BY <1>2, <1>3, <2>1 DEF Numbered
  <1>6. \A f \in AllFrames' :
           f \in AllFrames \/ \E i \in 1 .. Len(new.frames) : f = new.frames[i]
    <2> SUFFICES ASSUME NEW f \in AllFrames', f \notin AllFrames
                 PROVE  \E i \in 1 .. Len(new.frames) : f = new.frames[i]
      OBVIOUS
    <2>1. CASE \E t \in DOMAIN battles' : \E i \in 1 .. Len(battles'[t].frames) :
                  f = battles'[t].frames[i]
      BY <1>1, <2>1, FrameIs DEF FramesAre
    <2>2. CASE \E r \in replies' : \E i \in 1 .. Len(r.frames) : f = r.frames[i]
      <3>1. PICK r \in replies' : \E i \in 1 .. Len(r.frames) : f = r.frames[i]
        BY <2>2
      <3>2. r \notin replies
        BY <3>1, FrameIs DEF FramesAre
      <3>3. r.frames = GetData(new, k)
        BY <1>1, <3>2
      <3> QED BY <1>14, <3>1, <3>3
    <2>3. CASE \E q \in Players : \E i \in 1 .. Len(have'[q]) : f = have'[q][i]
      BY <1>1, <2>3, FrameIs DEF FramesAre
    <2> QED BY <2>1, <2>2, <2>3, FrameIsNext DEF FramesAre
  <1>7. \A f \in AllFrames' : f.gen = new.gen => InHistory(new, f)
    <2> SUFFICES ASSUME NEW f \in AllFrames', f.gen = new.gen PROVE InHistory(new, f)
      OBVIOUS
    <2>1. CASE f \in AllFrames
      BY <1>2, <1>3, <1>4, <2>1 DEF InHistory
    <2>2. CASE \E i \in 1 .. Len(new.frames) : f = new.frames[i]
      BY <1>5, <2>2 DEF InHistory, Numbered
    <2> QED BY <1>6, <2>1, <2>2
  <1>8. \A t \in DOMAIN battles' : battles'[t].gen <= born' /\ Numbered(battles'[t])
    <2>1. \A t \in DOMAIN battles : battles[t].gen <= born' /\ Numbered(battles[t])
      <3>1. \A t \in DOMAIN battles : battles[t].gen \in Nat
        BY DEF TypeOK, Battles
      <3> QED BY <1>1, <3>1 DEF Finality
    <2> QED BY <1>1, <1>2, <1>3, <1>5, <2>1
  <1>9. \A t, u \in DOMAIN battles' : battles'[t].gen = battles'[u].gen => t = u
    BY <1>1, <1>2, <1>3 DEF Finality
  <1>10. \A f \in AllFrames' : f.gen <= born'
    <2> SUFFICES ASSUME NEW f \in AllFrames' PROVE f.gen <= born'
      OBVIOUS
    <2>1. CASE f \in AllFrames
      <3>1. f \in Frames
        BY <2>1, AllFramesType
      <3> QED BY <1>1, <2>1, <3>1 DEF Finality, Frames
    <2>2. CASE \E i \in 1 .. Len(new.frames) : f = new.frames[i]
      BY <1>2, <1>3, <1>5, <2>2 DEF Numbered
    <2> QED BY <1>6, <2>1, <2>2
  <1>11. \A t \in DOMAIN battles', f \in AllFrames' :
            f.gen = battles'[t].gen => InHistory(battles'[t], f)
    <2> SUFFICES ASSUME NEW t \in DOMAIN battles', NEW f \in AllFrames',
                        f.gen = battles'[t].gen
                 PROVE  InHistory(battles'[t], f)
      OBVIOUS
    <2>1. CASE t = s
      BY <1>1, <1>7, <2>1
    <2>2. CASE t # s
      <3>1. t \in DOMAIN battles \ {s} /\ battles'[t] = battles[t]
        BY <1>1, <2>2
      <3>2. f.gen # new.gen
        BY <1>2, <1>3, <3>1
      <3>3. f \in AllFrames
        <4>1. \A i \in 1 .. Len(new.frames) : new.frames[i].gen = new.gen
          BY ONLY <1>5 DEF Numbered
        <4> QED BY ONLY <1>6, <3>2, <4>1, f \in AllFrames'
      <3> QED BY <3>1, <3>3 DEF Finality
    <2> QED BY <2>1, <2>2
  <1>12. \A r \in replies' : \A i, j \in 1 .. Len(r.frames) :
            r.frames[i].no - i = r.frames[j].no - j
    <2> SUFFICES ASSUME NEW r \in replies', r \notin replies,
                        NEW i \in 1 .. Len(r.frames), NEW j \in 1 .. Len(r.frames)
                 PROVE  r.frames[i].no - i = r.frames[j].no - j
      BY DEF Finality
    <2>1. r.frames = GetData(new, k)
      BY <1>1
    <2>2. \A l \in 1 .. Len(r.frames) : r.frames[l].no = k - 1 + l
      BY <1>5, <1>14, <2>1 DEF Numbered
    <2>3. r.frames[i].no = k - 1 + i /\ r.frames[j].no = k - 1 + j
      BY <2>2
    <2>4. i \in Int /\ j \in Int
      OBVIOUS
    <2> QED BY ONLY <2>3, <2>4, k \in Int
  <1>13. HistoryAgrees'
    <2>1. ASSUME NEW f \in AllFrames', NEW g \in AllFrames',
                 f.gen = g.gen, f.no = g.no
          PROVE  f = g
      <3>1. CASE f.gen = new.gen
        <4>1. InHistory(new, f) /\ InHistory(new, g)
          BY <1>7, <2>1, <3>1
        <4> QED BY ONLY <2>1, <4>1 DEF InHistory
      <3>2. CASE f.gen # new.gen
        <4>1. f \in AllFrames /\ g \in AllFrames
          <5>1. \A i \in 1 .. Len(new.frames) : new.frames[i].gen = new.gen
            BY ONLY <1>5 DEF Numbered
          <5> QED BY ONLY <1>6, <2>1, <3>2, <5>1
        <4>2. HistoryAgrees
          BY DEF Finality
        <4> QED BY ONLY <2>1, <4>1, <4>2 DEF HistoryAgrees
      <3> QED BY <3>1, <3>2
    <2>2. \A q \in Players : \A i \in 1 .. Len(have'[q]) : have'[q][i].no = i
      BY <1>1 DEF Finality, HistoryAgrees
    <2> QED BY <2>1, <2>2 DEF HistoryAgrees
  <1> QED BY <1>8, <1>9, <1>10, <1>11, <1>12, <1>13 DEF Finality, Numbered, InHistory

LEMMA TakeFinality ==
  ASSUME TypeOK, Finality, NEW p \in Players, NEW r \in replies, Take(p, r)
  PROVE  Finality'
  <1>1. PICK i \in 1 .. Len(r.frames) :
           /\ r.frames[i].no = Len(have[p]) + 1
           /\ have' = [have EXCEPT ![p] = @ \o SubSeq(r.frames, i, Len(r.frames))]
    BY DEF Take
  <1>2. replies' \subseteq replies /\ UNCHANGED <<now, battles, born>>
    BY DEF Take
  <1> DEFINE q == have[p]
             m == Len(r.frames) - i + 1
             t == SubSeq(r.frames, i, i - 1 + m)
  <1>3. /\ q \in Seq(Frames) /\ r.frames \in Seq(Frames)
        /\ have \in [Players -> Seq(Frames)]
    BY DEF TypeOK
  <1>4. /\ m \in Nat /\ i \in Nat \ {0} /\ i - 1 + m = Len(r.frames)
        /\ Len(q) \in Nat
    BY <1>3
  <1>5. have' = [have EXCEPT ![p] = q \o t]
    BY <1>1, <1>4
  <1> HIDE DEF m, q
  <1>6. /\ t \in Seq(Frames) /\ Len(t) = m
        /\ \A j \in 1 .. m : t[j] = r.frames[i - 1 + j]
    BY <1>3, <1>4, SubSeqIs
  <1>7. \A j \in 1 .. m : i - 1 + j \in 1 .. Len(r.frames)
    BY <1>4
  <1>8. \A j \in 1 .. m : t[j].no = Len(q) + j
    <2> SUFFICES ASSUME NEW j \in 1 .. m PROVE t[j].no = Len(q) + j
      OBVIOUS
    <2> DEFINE l == i - 1 + j
    <2>1. l \in 1 .. Len(r.frames) /\ t[j] = r.frames[l]
      BY <1>6, <1>7
    <2>2. r.frames[l].no \in Int /\ r.frames[i].no \in Int
      <3>1. r.frames[l] \in Frames /\ r.frames[i] \in Frames
        BY <1>3, <2>1
      <3>2. \A x \in Frames : x.no \in Int
        BY DEF Frames
      <3> HIDE DEF l
      <3> QED BY ONLY <3>1, <3>2
    <2>3. r.frames[l].no - l = r.frames[i].no - i
      BY <2>1 DEF Finality
    <2>4. r.frames[i].no = Len(q) + 1
      BY <1>1 DEF q
    <2>5. l = i - 1 + j
      OBVIOUS
    <2>6. i \in Int /\ j \in Int /\ l \in Int /\ Len(q) \in Int
      BY <1>4, <2>5
    <2> HIDE DEF l
    <2>7. r.frames[l].no = Len(q) + j
      BY ONLY <2>2, <2>3, <2>4, <2>5, <2>6
    <2> QED BY <2>1, <2>7
  <1> HIDE DEF t
  <1>9. /\ Len(q \o t) = Len(q) + m
        /\ \A j \in 1 .. Len(q) : (q \o t)[j] = q[j]
        /\ \A j \in 1 .. m : (q \o t)[Len(q) + j] = t[j]
    <2>1. /\ Len(q \o t) = Len(q) + Len(t)
          /\ \A j \in 1 .. Len(q) : (q \o t)[j] = q[j]
          /\ \A j \in 1 .. Len(t) : (q \o t)[Len(q) + j] = t[j]
      <3>1. q \in Seq(Frames) /\ t \in Seq(Frames)
        BY <1>3, <1>6
      <3> QED BY ONLY <3>1, ConcatIs
    <2> QED BY ONLY <1>6, <2>1
  <1>10. \A j \in 1 .. Len(q) + m :
            j \in 1 .. Len(q) \/ (j - Len(q) \in 1 .. m /\ j = Len(q) + (j - Len(q)))
    BY <1>4
  <1>11. \A j \in 1 .. Len(q) : q[j].no = j
    BY DEF q, Finality, HistoryAgrees
  <1>12. \A j \in 1 .. Len(q \o t) : (q \o t)[j].no = j
    BY <1>8, <1>9, <1>10, <1>11
  <1>13. \A u \in Players : \A j \in 1 .. Len(have'[u]) : have'[u][j].no = j
    BY <1>3, <1>5, <1>12 DEF Finality, HistoryAgrees
  <1>14. AllFrames' \subseteq AllFrames
    <2> SUFFICES ASSUME NEW f \in AllFrames' PROVE f \in AllFrames
      OBVIOUS
    <2>1. CASE \E s \in DOMAIN battles' : \E j \in 1 .. Len(battles'[s].frames) :
                  f = battles'[s].frames[j]
      BY <1>2, <2>1, FrameIs DEF FramesAre
    <2>2. CASE \E a \in replies' : \E j \in 1 .. Len(a.frames) : f = a.frames[j]
      BY <1>2, <2>2, FrameIs DEF FramesAre
    <2>3. CASE \E u \in Players : \E j \in 1 .. Len(have'[u]) : f = have'[u][j]
      <3>0. PICK u \in Players : \E j \in 1 .. Len(have'[u]) : f = have'[u][j]
        BY <2>3
      <3>1. PICK j \in 1 .. Len(have'[u]) : f = have'[u][j]
        BY <3>0
      <3>2. CASE u # p
        <4>1. have'[u] = have[u]
          BY <1>3, <1>5, <3>2
        <4> QED BY <3>1, <4>1, FrameIs DEF FramesAre
      <3>3. CASE u = p
        <4>1. have'[u] = q \o t
          BY <1>3, <1>5, <3>3
        <4>2. j \in 1 .. Len(q) + m /\ f = (q \o t)[j]
          BY <1>9, <3>1, <4>1
        <4>3. CASE j \in 1 .. Len(q)
          <5>1. f = have[p][j] /\ j \in 1 .. Len(have[p])
            BY <1>9, <4>2, <4>3 DEF q
          <5> QED BY <5>1, FrameIs DEF FramesAre
        <4>4. CASE j \notin 1 .. Len(q)
          <5>1. PICK l \in 1 .. m : j = Len(q) + l
            BY <1>10, <4>2, <4>4
          <5>2. f = r.frames[i - 1 + l] /\ i - 1 + l \in 1 .. Len(r.frames)
            BY <1>6, <1>7, <1>9, <4>2, <5>1
          <5> QED BY <5>2, FrameIs DEF FramesAre
        <4> QED BY <4>3, <4>4
      <3> QED BY <3>2, <3>3
    <2> QED BY <2>1, <2>2, <2>3, FrameIsNext DEF FramesAre
  <1> QED BY <1>2, <1>13, <1>14, FewerFrames

LEMMA FinalityStep == TypeOK /\ Finality /\ [Next]_vars => Finality'
  <1> SUFFICES ASSUME TypeOK, Finality, [Next]_vars PROVE Finality'
    OBVIOUS
  <1>1. ASSUME NEW p \in Players, Arrive(p) PROVE Finality'
    <2>1. PICK k \in 0 .. Len(have[p]) + 1, n \in Sizes : Handle(p, k, n)
      BY <1>1 DEF Arrive
    <2>2. k \in Int /\ n \in Nat
      BY <2>1
    <2> QED BY <2>1, <2>2, HandleFinality
  <1>2. ASSUME NEW p \in Players, NEW r \in replies, Take(p, r) PROVE Finality'
    BY <1>2, TakeFinality
  <1>3. ASSUME UNCHANGED <<born, replies, have>>,
               battles' = battles \/ battles' = <<>>
        PROVE  Finality'
    <2>1. /\ DOMAIN battles' \subseteq DOMAIN battles
          /\ \A s \in DOMAIN battles' : battles'[s] = battles[s]
      BY <1>3
    <2>2. AllFrames' \subseteq AllFrames
      BY <1>3, <2>1, FrameIs, FrameIsNext DEF FramesAre
    <2>3. \A p \in Players : \A i \in 1 .. Len(have'[p]) : have'[p][i].no = i
      BY <1>3 DEF Finality, HistoryAgrees
    <2> QED BY <1>3, <2>1, <2>2, <2>3, FewerFrames
  <1> QED BY <1>1, <1>2, <1>3 DEF Next, Restart, Clock, vars

(* A frame that was answered once is final: whoever has frame k of a battle, *)
(* from whichever answer, has the same, and a player's k-th is the k-th.     *)
THEOREM FramesAreFinal == Spec => []HistoryAgrees
  <1>1. Init => Finality
    BY FrameIs DEF Init, Finality, HistoryAgrees, FramesAre
  <1>2. Finality => HistoryAgrees
    BY DEF Finality
  <1>3. Spec => []TypeOK
    BY TypeCorrect
  <1> QED BY <1>1, <1>2, <1>3, FinalityStep, PTL DEF Spec

--------------------------------------------------------------------------------
(* No input is lost, repeated or out of order.                               *)

(* D[k] is what frame k has of a player, D[len + 1] what waits; heard words  *)
(* came.                                                                     *)
Ordered(D, len) ==
    \A k, l \in 1 .. len + 1 : \A i \in 1 .. Len(D[k]), j \in 1 .. Len(D[l]) :
        k < l \/ (k = l /\ i < j) => D[k][i].pos < D[l][j].pos
Heard(D, len, heard) ==
    \A k \in 1 .. len + 1 : \A i \in 1 .. Len(D[k]) : D[k][i].pos <= heard
CutAfter(D, len, n, k) ==
    /\ Len(D[k]) = InputLimit
    /\ \A l \in 1 .. len + 1 : \A i \in 1 .. Len(D[l]) :
          IF l <= k THEN D[l][i].pos < n ELSE D[l][i].pos > n
Complete(D, len, heard) ==
    \A n \in 1 .. heard :
        \/ \E k \in 1 .. len + 1 : \E i \in 1 .. Len(D[k]) : D[k][i].pos = n
        \/ \E k \in 1 .. len : CutAfter(D, len, n, k)
Accounted(D, len, heard) ==
    Ordered(D, len) /\ Heard(D, len, heard) /\ Complete(D, len, heard)

(* New words come after everything that was heard.                           *)
LEMMA MergeAccounted ==
  ASSUME NEW len \in Nat, NEW heard \in Nat, NEW n \in Nat,
         NEW D \in [1 .. len + 1 -> Seq(WordRecords)],
         NEW E \in [1 .. len + 1 -> Seq(WordRecords)],
         NEW words \in Seq(WordRecords), Len(words) = n,
         \A i \in 1 .. n : words[i].pos = heard + i,
         \A k \in 1 .. len : E[k] = D[k],
         E[len + 1] = D[len + 1] \o words,
         Accounted(D, len, heard)
  PROVE  Accounted(E, len, heard + n)
  <1> DEFINE d == D[len + 1]
  <1>1. d \in Seq(WordRecords) /\ Len(d) \in Nat
    OBVIOUS
  <1>2. /\ Len(E[len + 1]) = Len(d) + n
        /\ \A i \in 1 .. Len(d) : E[len + 1][i] = d[i]
        /\ \A i \in 1 .. n : E[len + 1][Len(d) + i] = words[i]
    <2> HIDE DEF d
    <2>1. /\ Len(d \o words) = Len(d) + Len(words)
          /\ \A i \in 1 .. Len(d) : (d \o words)[i] = d[i]
          /\ \A i \in 1 .. Len(words) : (d \o words)[Len(d) + i] = words[i]
      BY ONLY <1>1, words \in Seq(WordRecords), ConcatIs
    <2>2. E[len + 1] = d \o words
      BY DEF d
    <2> QED BY <2>1, <2>2
  (* A word of E is a word of D at the same place, or new.                   *)
  <1>3. ASSUME NEW k \in 1 .. len + 1, NEW i \in 1 .. Len(E[k])
        PROVE  \/ /\ i \in 1 .. Len(D[k])
                  /\ E[k][i] = D[k][i]
                  /\ D[k][i].pos <= heard
               \/ /\ k = len + 1 /\ i > Len(d)
                  /\ E[k][i].pos = heard + (i - Len(d))
                  /\ i - Len(d) \in 1 .. n
    <2>1. CASE k \in 1 .. len
      BY <2>1 DEF Accounted, Heard
    <2>2. CASE k = len + 1 /\ i \in 1 .. Len(d)
      BY <1>2, <2>2 DEF Accounted, Heard
    <2>3. CASE k = len + 1 /\ i \notin 1 .. Len(d)
      <3>1. i - Len(d) \in 1 .. n /\ i > Len(d) /\ i = Len(d) + (i - Len(d))
        BY <1>1, <1>2, <2>3
      <3> QED BY <1>2, <2>3, <3>1
    <2>4. k \in 1 .. len \/ k = len + 1
      OBVIOUS
    <2> QED BY <2>1, <2>2, <2>3, <2>4, Zenon
  <1>4. \A k \in 1 .. len + 1 : \A i \in 1 .. Len(D[k]) :
           i \in 1 .. Len(E[k]) /\ E[k][i] = D[k][i]
    <2> SUFFICES ASSUME NEW k \in 1 .. len + 1, NEW i \in 1 .. Len(D[k])
                 PROVE  i \in 1 .. Len(E[k]) /\ E[k][i] = D[k][i]
      OBVIOUS
    <2>1. CASE k \in 1 .. len
      BY <2>1
    <2>2. CASE k = len + 1
      BY <1>1, <1>2, <2>2
    <2> QED BY <2>1, <2>2
  <1>5. \A k \in 1 .. len + 1 : \A i \in 1 .. Len(E[k]) : E[k][i].pos \in Nat
    <2> SUFFICES ASSUME NEW k \in 1 .. len + 1, NEW i \in 1 .. Len(E[k])
                 PROVE  E[k][i].pos \in Nat
      OBVIOUS
    <2>1. E[k] \in Seq(WordRecords)
      OBVIOUS
    <2>2. E[k][i] \in WordRecords
      BY <2>1
    <2> QED BY <2>2 DEF WordRecords
  <1>6. Ordered(E, len)
    <2> SUFFICES ASSUME NEW k \in 1 .. len + 1, NEW l \in 1 .. len + 1,
                        NEW i \in 1 .. Len(E[k]), NEW j \in 1 .. Len(E[l]),
                        k < l \/ (k = l /\ i < j)
                 PROVE  E[k][i].pos < E[l][j].pos
      BY DEF Ordered
    <2>1. E[k][i].pos \in Nat /\ E[l][j].pos \in Nat
      BY <1>5
    <2>2. CASE j \in 1 .. Len(D[l]) /\ E[l][j] = D[l][j]
      <3>1. i \in 1 .. Len(D[k]) /\ E[k][i] = D[k][i]
        <4> SUFFICES ASSUME k = len + 1, i > Len(d) PROVE FALSE
          BY <1>3, Zenon
        <4>1. l = len + 1 /\ i < j
          OBVIOUS
        <4>2. j <= Len(d)
          BY <1>1, <2>2, <4>1
        <4> QED BY <1>1, <4>1, <4>2
      <3> QED BY <2>2, <3>1 DEF Accounted, Ordered
    <2>3. CASE /\ l = len + 1 /\ j > Len(d)
               /\ E[l][j].pos = heard + (j - Len(d))
               /\ j - Len(d) \in 1 .. n
      <3>1. CASE E[k][i].pos <= heard
        <4>1. j - Len(d) \in Nat \ {0}
          BY ONLY <2>3, n \in Nat
        <4>3. PICK a \in Nat \ {0} : a = j - Len(d)
          BY ONLY <4>1
        <4>4. E[l][j].pos = heard + a
          BY ONLY <2>3, <4>3
        <4>5. \A x, y, h \in Nat : x <= h /\ y = h + a => x < y
          BY ONLY a \in Nat \ {0}
        <4> QED BY ONLY <2>1, <3>1, <4>4, <4>5, heard \in Nat
      <3>2. CASE k = len + 1 /\ E[k][i].pos = heard + (i - Len(d))
        <4>1. i < j /\ i \in Int /\ j \in Int
          BY <2>3, <3>2
        <4> QED BY ONLY <1>1, <2>1, <2>3, <3>2, <4>1, heard \in Nat
      <3> QED BY <1>3, <3>1, <3>2, Zenon
    <2> QED BY <1>3, <2>2, <2>3
  <1>7. Heard(E, len, heard + n)
    <2> SUFFICES ASSUME NEW k \in 1 .. len + 1, NEW i \in 1 .. Len(E[k])
                 PROVE  E[k][i].pos <= heard + n
      BY DEF Heard
    <2>1. E[k][i].pos \in Nat
      BY <1>5
    <2>2. CASE E[k][i].pos <= heard
      BY ONLY <2>1, <2>2, heard \in Nat, n \in Nat
    <2>3. CASE E[k][i].pos = heard + (i - Len(d)) /\ i - Len(d) \in 1 .. n
      <3>1. i \in Int
        OBVIOUS
      <3> QED BY ONLY <1>1, <2>1, <2>3, <3>1, heard \in Nat, n \in Nat
    <2>4. i \in 1 .. Len(D[k]) /\ E[k][i] = D[k][i] /\ D[k][i].pos <= heard
          => E[k][i].pos <= heard
      OBVIOUS
    <2> QED BY <1>3, <2>2, <2>3, <2>4, Zenon
  <1>8. Complete(E, len, heard + n)
    <2> SUFFICES ASSUME NEW m \in 1 .. heard + n,
                        ~ \E k \in 1 .. len + 1 : \E i \in 1 .. Len(E[k]) : E[k][i].pos = m
                 PROVE  \E k \in 1 .. len : CutAfter(E, len, m, k)
      BY DEF Complete
    <2>1. m \in 1 .. heard
      <3> SUFFICES ASSUME m > heard PROVE FALSE
        OBVIOUS
      <3>1. m - heard \in 1 .. n
        OBVIOUS
      <3>2. Len(d) + (m - heard) \in 1 .. Len(E[len + 1])
        BY <1>1, <1>2, <3>1
      <3>3. words[m - heard].pos = heard + (m - heard)
        BY <3>1
      <3>4. E[len + 1][Len(d) + (m - heard)] = words[m - heard]
        BY <1>2, <3>1
      <3>5. heard + (m - heard) = m
        BY ONLY heard \in Nat, n \in Nat, m \in 1 .. heard + n
      <3>6. len + 1 \in 1 .. len + 1
        OBVIOUS
      <3>7. E[len + 1][Len(d) + (m - heard)].pos = m
        BY ONLY <3>3, <3>4, <3>5
      <3> QED BY <3>2, <3>6, <3>7, Zenon
    <2>2. ~ \E k \in 1 .. len + 1 : \E i \in 1 .. Len(D[k]) : D[k][i].pos = m
      <3> SUFFICES ASSUME NEW k \in 1 .. len + 1, NEW i \in 1 .. Len(D[k]), D[k][i].pos = m
                   PROVE  FALSE
        OBVIOUS
      <3>1. i \in 1 .. Len(E[k]) /\ E[k][i] = D[k][i]
        BY <1>4
      <3> QED BY <3>1
    <2>3. PICK k \in 1 .. len : CutAfter(D, len, m, k)
      BY <2>1, <2>2 DEF Accounted, Complete
    <2>4. Len(E[k]) = InputLimit
      BY <2>3 DEF CutAfter
    <2>5. ASSUME NEW l \in 1 .. len + 1, NEW i \in 1 .. Len(E[l])
          PROVE  IF l <= k THEN E[l][i].pos < m ELSE E[l][i].pos > m
      <3>1. CASE i \in 1 .. Len(D[l]) /\ E[l][i] = D[l][i]
        BY <2>3, <3>1 DEF CutAfter
      <3>2. CASE /\ l = len + 1
                 /\ E[l][i].pos = heard + (i - Len(d))
                 /\ i - Len(d) \in 1 .. n
        <4>1. PICK a \in 1 .. n : a = i - Len(d)
          BY ONLY <3>2
        <4>2. E[l][i].pos = heard + a
          BY ONLY <3>2, <4>1
        <4>3. heard \in Nat /\ a \in Nat \ {0} /\ n \in Nat /\ k \in Int /\ len \in Nat
          OBVIOUS
        <4>4. E[l][i].pos > m
          BY ONLY <2>1, <4>2, <4>3
        <4>5. ~(l <= k)
          BY ONLY <3>2, <4>3, k \in 1 .. len
        <4> QED BY ONLY <4>4, <4>5
      <3> QED BY ONLY <1>3, <3>1, <3>2
    <2> QED BY <2>4, <2>5 DEF CutAfter
  <1> QED BY <1>6, <1>7, <1>8 DEF Accounted

(* What waits becomes the part of the frame that is due, cut off at the      *)
(* limit.                                                                    *)
LEMMA SealAccounted ==
  ASSUME NEW len \in Nat, NEW total \in Nat, len < total, NEW heard \in Nat,
         NEW D \in [1 .. len + 1 -> Seq(WordRecords)],
         NEW E \in [1 .. total + 1 -> Seq(WordRecords)],
         \A k \in 1 .. len : E[k] = D[k],
         \A k \in len + 1 .. total - 1 : E[k] = <<>>,
         E[total] = Part(D[len + 1]),
         E[total + 1] = <<>>,
         Accounted(D, len, heard)
  PROVE  Accounted(E, total, heard)
  <1> DEFINE d == D[len + 1]
  <1>1. d \in Seq(WordRecords) /\ Len(d) \in Nat
    OBVIOUS
  <1>2. /\ Len(E[total]) <= Len(d)
        /\ \A i \in 1 .. Len(E[total]) : E[total][i] = d[i]
    <2> HIDE DEF d
    <2>1. /\ Len(Part(d)) <= Len(d)
          /\ \A i \in 1 .. Len(Part(d)) : Part(d)[i] = d[i]
      BY <1>1, PartType
    <2>2. E[total] = Part(d)
      BY DEF d
    <2> QED BY <2>1, <2>2
  <1>3. ASSUME NEW k \in 1 .. total + 1, NEW i \in 1 .. Len(E[k])
        PROVE  \E g \in 1 .. len + 1 :
                  /\ (k <= len /\ g = k) \/ (k = total /\ g = len + 1)
                  /\ i \in 1 .. Len(D[g])
                  /\ E[k][i] = D[g][i]
    <2>1. CASE k \in 1 .. len
      <3>1. E[k] = D[k] /\ k <= len /\ k \in 1 .. len + 1
        BY <2>1
      <3> QED BY <3>1
    <2>2. CASE k = total
      <3>1. len + 1 \in 1 .. len + 1
        OBVIOUS
      <3>2. Len(E[total]) \in Nat
        OBVIOUS
      <3>3. i \in 1 .. Len(d) /\ E[k][i] = d[i]
        BY <1>1, <1>2, <2>2, <3>2
      <3> QED BY <2>2, <3>1, <3>3
    <2>3. CASE k \in len + 1 .. total - 1 \/ k = total + 1
      <3>1. E[k] = <<>>
        BY <2>3
      <3>2. Len(E[k]) = 0
        BY <3>1
      <3> QED BY <3>2
    <2>4. k \in 1 .. len \/ k = total \/ k \in len + 1 .. total - 1 \/ k = total + 1
      BY ONLY len \in Nat, total \in Nat, k \in 1 .. total + 1
    <2> QED BY <2>1, <2>2, <2>3, <2>4, Zenon
  <1>4. Ordered(E, total)
    <2> SUFFICES ASSUME NEW k \in 1 .. total + 1, NEW l \in 1 .. total + 1,
                        NEW i \in 1 .. Len(E[k]), NEW j \in 1 .. Len(E[l]),
                        k < l \/ (k = l /\ i < j)
                 PROVE  E[k][i].pos < E[l][j].pos
      BY DEF Ordered
    <2>1. PICK g \in 1 .. len + 1 : /\ (k <= len /\ g = k) \/ (k = total /\ g = len + 1)
                                   /\ i \in 1 .. Len(D[g])
                                   /\ E[k][i] = D[g][i]
      BY <1>3
    <2>2. PICK h \in 1 .. len + 1 : /\ (l <= len /\ h = l) \/ (l = total /\ h = len + 1)
                                   /\ j \in 1 .. Len(D[h])
                                   /\ E[l][j] = D[h][j]
      BY <1>3
    <2>3. g < h \/ (g = h /\ i < j)
      BY ONLY <2>1, <2>2, len \in Nat, total \in Nat, len < total,
              k < l \/ (k = l /\ i < j), k \in 1 .. total + 1, l \in 1 .. total + 1
    <2> QED BY <2>1, <2>2, <2>3 DEF Accounted, Ordered
  <1>5. Heard(E, total, heard)
    <2> SUFFICES ASSUME NEW k \in 1 .. total + 1, NEW i \in 1 .. Len(E[k])
                 PROVE  E[k][i].pos <= heard
      BY DEF Heard
    <2>1. PICK g \in 1 .. len + 1 : i \in 1 .. Len(D[g]) /\ E[k][i] = D[g][i]
      BY <1>3
    <2> QED BY <2>1 DEF Accounted, Heard
  <1>6. Complete(E, total, heard)
    <2> SUFFICES ASSUME NEW n \in 1 .. heard,
                        ~ \E k \in 1 .. total + 1 : \E i \in 1 .. Len(E[k]) : E[k][i].pos = n
                 PROVE  \E k \in 1 .. total : CutAfter(E, total, n, k)
      BY DEF Complete
    <2>1. CASE \E k \in 1 .. len : CutAfter(D, len, n, k)
      <3>1. PICK k \in 1 .. len : CutAfter(D, len, n, k)
        BY <2>1
      <3>2. Len(E[k]) = InputLimit
        BY <3>1 DEF CutAfter
      <3>3. ASSUME NEW l \in 1 .. total + 1, NEW i \in 1 .. Len(E[l])
            PROVE  IF l <= k THEN E[l][i].pos < n ELSE E[l][i].pos > n
        <4>1. PICK g \in 1 .. len + 1 :
                 /\ (l <= len /\ g = l) \/ (l = total /\ g = len + 1)
                 /\ i \in 1 .. Len(D[g])
                 /\ E[l][i] = D[g][i]
          BY <1>3
        <4>2. IF g <= k THEN D[g][i].pos < n ELSE D[g][i].pos > n
          BY <3>1, <4>1 DEF CutAfter
        <4>3. (g <= k) <=> (l <= k)
          BY ONLY <4>1, len \in Nat, total \in Nat, len < total, k \in 1 .. len
        <4> QED BY <4>1, <4>2, <4>3
      <3>4. k \in 1 .. total
        OBVIOUS
      <3> QED BY <3>2, <3>3, <3>4 DEF CutAfter
    <2>2. CASE \E k \in 1 .. len + 1 : \E i \in 1 .. Len(D[k]) : D[k][i].pos = n
      <3>1. PICK k \in 1 .. len + 1 : \E i \in 1 .. Len(D[k]) : D[k][i].pos = n
        BY <2>2
      <3>2. PICK c \in 1 .. Len(D[k]) : D[k][c].pos = n
        BY <3>1
      <3>3. k = len + 1
        <4> SUFFICES ASSUME k \in 1 .. len PROVE FALSE
          OBVIOUS
        <4>1. E[k] = D[k] /\ k \in 1 .. total + 1
          OBVIOUS
        <4> QED BY <3>2, <4>1
      <3>4. c \in 1 .. Len(d) /\ d[c].pos = n
        BY <3>2, <3>3
      <3>5. c \notin 1 .. Len(E[total])
        <4>1. total \in 1 .. total + 1
          OBVIOUS
        <4> QED BY <1>2, <3>4, <4>1
      (* The c-th word that waits was cut off.                               *)
      <3>6. Len(E[total]) = InputLimit /\ InputLimit < c
        <4> HIDE DEF d
        <4>1. E[total] = Part(d)
          BY DEF d
        <4>2. CASE Len(d) > InputLimit
          <5>1. InputLimit \in Nat \ {0}
            OBVIOUS
          <5>2. Len(SubSeq(d, 1, InputLimit)) = InputLimit
            BY ONLY <1>1, <4>2, <5>1
          <5>3. Len(E[total]) = InputLimit
            BY <4>1, <4>2, <5>2 DEF Part
          <5> QED BY ONLY <1>1, <3>4, <3>5, <5>1, <5>3
        <4>3. CASE ~(Len(d) > InputLimit)
          BY <3>4, <3>5, <4>1, <4>3 DEF Part
        <4> QED BY <4>2, <4>3
      <3>7. ASSUME NEW l \in 1 .. total + 1, NEW i \in 1 .. Len(E[l])
            PROVE  l <= total /\ E[l][i].pos < n
        <4>1. PICK g \in 1 .. len + 1 :
                 /\ (l <= len /\ g = l) \/ (l = total /\ g = len + 1)
                 /\ i \in 1 .. Len(D[g])
                 /\ E[l][i] = D[g][i]
          BY <1>3
        <4>2. g < len + 1 \/ (g = len + 1 /\ i < c)
          <5>1. l = total => i <= Len(E[total]) /\ Len(E[total]) = InputLimit
            BY <3>6
          <5>2. InputLimit \in Nat /\ i \in Int /\ c \in Int
            BY <3>2
          <5> QED BY ONLY <3>6, <4>1, <5>1, <5>2, len \in Nat, total \in Nat, len < total
        <4>3. len + 1 \in 1 .. len + 1
          OBVIOUS
        <4>4. D[g][i].pos < D[len + 1][c].pos
          BY <3>2, <3>3, <4>1, <4>2, <4>3 DEF Accounted, Ordered
        <4>5. l <= total
          BY ONLY <4>1, len \in Nat, total \in Nat, len < total, l \in 1 .. total + 1
        <4> QED BY <3>4, <4>1, <4>4, <4>5
      <3>8. CutAfter(E, total, n, total)
        BY <3>6, <3>7 DEF CutAfter
      <3> QED BY <3>8
    <2> QED BY <2>1, <2>2 DEF Accounted, Complete
  <1> QED BY <1>4, <1>5, <1>6 DEF Accounted

DataOf(b, p) == [k \in 1 .. Len(b.frames) + 1 |-> PartOf(b, p, k)]
PlayerAccounted(b, p) ==
    /\ Accounted(DataOf(b, p), Len(b.frames), b.inputs[p].heard)
    /\ p \notin b.uins => b.inputs[p].data = <<>>
AllAccounted(b) == \A p \in Players : PlayerAccounted(b, p)

LEMMA DataOfType ==
  ASSUME NEW b \in Battles, NEW p \in Players
  PROVE  /\ DataOf(b, p) \in [1 .. Len(b.frames) + 1 -> Seq(WordRecords)]
         /\ DataOf(b, p)[Len(b.frames) + 1] = b.inputs[p].data
  <1>1. Len(b.frames) \in Nat /\ b.frames \in Seq(Frames)
    BY DEF Battles
  <1>2. b.inputs[p].data \in Seq(WordRecords)
    BY DEF Battles, Inputs
  <1>3. ASSUME NEW k \in 1 .. Len(b.frames) + 1 PROVE PartOf(b, p, k) \in Seq(WordRecords)
    <2>1. CASE k > Len(b.frames)
      BY <1>2, <2>1 DEF PartOf
    <2>2. CASE ~(k > Len(b.frames))
      <3> DEFINE x == {y \in b.frames[k].parts : y.uin = p}
      <3>1. b.frames[k] \in Frames
        BY <1>1, <2>2
      <3>2. \A y \in x : y.data \in Seq(WordRecords)
        BY <3>1 DEF Frames, Parts
      <3>3. x # {} => (CHOOSE y \in x : TRUE) \in x
        BY Zenon
      <3>4. <<>> \in Seq(WordRecords)
        OBVIOUS
      <3>5. PartOf(b, p, k) = IF x = {} THEN <<>> ELSE (CHOOSE y \in x : TRUE).data
        BY <2>2 DEF PartOf
      <3> HIDE DEF x
      <3> QED BY <3>2, <3>3, <3>4, <3>5
    <2> QED BY <2>1, <2>2
  <1>4. PartOf(b, p, Len(b.frames) + 1) = b.inputs[p].data
    BY <1>1 DEF PartOf
  <1> QED BY <1>1, <1>3, <1>4 DEF DataOf

LEMMA SameFunction ==
  ASSUME NEW S, NEW T, NEW f \in [S -> T], NEW g \in [S -> T],
         \A x \in S : f[x] = g[x]
  PROVE  f = g
  OBVIOUS

LEMMA MergePlayer ==
  ASSUME now \in Nat, NEW b \in Battles, NEW p \in Players, NEW n \in Nat,
         NEW q \in Players, PlayerAccounted(b, q)
  PROVE  PlayerAccounted(MergeInput(b, p, n), q)
  <1> DEFINE c == MergeInput(b, p, n)
             words == [i \in 1 .. n |-> [pos |-> b.inputs[p].heard + i, first |-> Open(b)]]
             len == Len(b.frames)
  <1>1. /\ c \in Battles /\ c.frames = b.frames /\ c.uins = b.uins \cup {p}
        /\ \A u \in Players \ {p} : c.inputs[u] = b.inputs[u]
        /\ c.inputs[p].heard = b.inputs[p].heard + n
        /\ c.inputs[p].data = b.inputs[p].data \o words
    <2>1. /\ c \in Battles /\ c.frames = b.frames /\ c.uins = b.uins \cup {p}
      BY ONLY now \in Nat, b \in Battles, p \in Players, n \in Nat, MergeIs
    <2>3. /\ \A u \in Players \ {p} : c.inputs[u] = b.inputs[u]
          /\ c.inputs[p].heard = b.inputs[p].heard + n
      BY ONLY now \in Nat, b \in Battles, p \in Players, n \in Nat, MergeIs
    <2>2. c.inputs[p].data = b.inputs[p].data \o words
      BY ONLY now \in Nat, b \in Battles, p \in Players, n \in Nat, MergeIs
    <2> QED BY ONLY <2>1, <2>2, <2>3
  <1>2. len \in Nat /\ \A u \in Players : b.inputs[u].heard \in Nat
    BY DEF Battles, Inputs
  <1>3. /\ words \in Seq(WordRecords) /\ Len(words) = n
        /\ \A i \in 1 .. n : words[i].pos = b.inputs[p].heard + i
    <2>1. \A i \in 1 .. n : b.inputs[p].heard + i \in Nat \ {0}
      BY <1>2
    <2>2. words \in [1 .. n -> WordRecords]
      BY <2>1, OpenIs DEF WordRecords
    <2> QED BY <2>2
  <1> HIDE DEF c, words
  <1>4. /\ DataOf(b, q) \in [1 .. len + 1 -> Seq(WordRecords)]
        /\ DataOf(b, q)[len + 1] = b.inputs[q].data
        /\ DataOf(c, q) \in [1 .. len + 1 -> Seq(WordRecords)]
        /\ DataOf(c, q)[len + 1] = c.inputs[q].data
    <2>1. /\ DataOf(c, q) \in [1 .. Len(c.frames) + 1 -> Seq(WordRecords)]
          /\ DataOf(c, q)[Len(c.frames) + 1] = c.inputs[q].data
      BY <1>1, DataOfType
    <2> QED BY <1>1, <2>1, DataOfType
  <1>5. \A k \in 1 .. len : DataOf(c, q)[k] = DataOf(b, q)[k]
    <2> SUFFICES ASSUME NEW k \in 1 .. len PROVE DataOf(c, q)[k] = DataOf(b, q)[k]
      OBVIOUS
    <2>1. k \in 1 .. len + 1 /\ ~(k > len)
      BY <1>2
    <2>2. PartOf(c, q, k) = PartOf(b, q, k)
      BY <1>1, <2>1 DEF PartOf
    <2> QED BY <1>1, <2>1, <2>2 DEF DataOf
  <1>6. CASE q = p
    <2>1. Accounted(DataOf(c, p), len, b.inputs[p].heard + n)
      <3>1. Accounted(DataOf(b, p), len, b.inputs[p].heard)
        BY <1>6 DEF PlayerAccounted
      <3> DEFINE D == DataOf(b, p)
                 E == DataOf(c, p)
                 heard == b.inputs[p].heard
      <3>2. /\ D \in [1 .. len + 1 -> Seq(WordRecords)]
            /\ E \in [1 .. len + 1 -> Seq(WordRecords)]
            /\ \A k \in 1 .. len : E[k] = D[k]
            /\ E[len + 1] = D[len + 1] \o words
        BY <1>1, <1>4, <1>5, <1>6
      <3>3. len \in Nat /\ heard \in Nat
        BY <1>2
      <3>4. \A i \in 1 .. n : words[i].pos = heard + i
        BY <1>3
      <3>5. Accounted(D, len, heard)
        BY <3>1
      <3> HIDE DEF len, D, E, heard
      <3>6. Accounted(E, len, heard + n)
        BY ONLY <1>3, <3>2, <3>3, <3>4, <3>5, n \in Nat, MergeAccounted
      <3> QED BY <3>6 DEF E, heard
    <2> QED BY <1>1, <1>6, <2>1 DEF PlayerAccounted, c
  <1>7. CASE q # p
    <2>1. DataOf(c, q)[len + 1] = DataOf(b, q)[len + 1]
      BY <1>1, <1>4, <1>7
    <2>2. \A k \in 1 .. len + 1 : k \in 1 .. len \/ k = len + 1
      BY <1>2
    <2>3. DataOf(c, q) = DataOf(b, q)
      <3> DEFINE S == 1 .. len + 1
                 D == DataOf(b, q)
                 E == DataOf(c, q)
      <3>1. \A k \in S : E[k] = D[k]
        BY <1>5, <2>1, <2>2
      <3>2. D \in [S -> Seq(WordRecords)] /\ E \in [S -> Seq(WordRecords)]
        BY <1>4
      <3> HIDE DEF S, D, E
      <3>3. E = D
        BY ONLY <3>1, <3>2, SameFunction
      <3> QED BY <3>3 DEF D, E
    <2> QED BY <1>1, <1>7, <2>3 DEF PlayerAccounted, c
  <1> QED BY <1>6, <1>7

LEMMA SealPlayer ==
  ASSUME now \in Nat, NEW c \in Battles, NEW p \in Players, PlayerAccounted(c, p)
  PROVE  PlayerAccounted(SealFrames(c), p)
  <1> DEFINE b == SealFrames(c)
             len == Len(c.frames)
             total == Due(c, now)
  <1>1. /\ b \in Battles /\ b.uins = c.uins
        /\ len >= total => b = c
        /\ len < total =>
              /\ Len(b.frames) = total
              /\ \A i \in 1 .. len : b.frames[i] = c.frames[i]
              /\ \A i \in len + 1 .. total - 1 : b.frames[i] = EmptyFrame(c, i)
              /\ b.frames[total] = MergedFrame(c, total)
              /\ \A q \in Players : b.inputs[q] = Cleared(c.inputs[q])
    BY SealIs
  <1>2. total \in Int
    BY DueIsInt
  <1>3. len \in Nat /\ c.inputs[p].data \in Seq(WordRecords) /\ c.inputs[p].heard \in Nat
        /\ c.inputs[p] \in Inputs
    BY DEF Battles, Inputs
  <1> HIDE DEF b
  <1>4. CASE len >= total
    BY <1>1, <1>4 DEF b
  <1>5. CASE len < total
    <2>1. /\ DataOf(c, p) \in [1 .. len + 1 -> Seq(WordRecords)]
          /\ DataOf(c, p)[len + 1] = c.inputs[p].data
      BY DataOfType
    <2>2. Len(b.frames) = total /\ total \in Nat
      BY <1>1, <1>2, <1>3, <1>5
    <2>3. /\ DataOf(b, p) \in [1 .. total + 1 -> Seq(WordRecords)]
          /\ DataOf(b, p)[total + 1] = b.inputs[p].data
      <3>1. /\ DataOf(b, p) \in [1 .. Len(b.frames) + 1 -> Seq(WordRecords)]
            /\ DataOf(b, p)[Len(b.frames) + 1] = b.inputs[p].data
        BY <1>1, DataOfType
      <3> QED BY <2>2, <3>1
    <2>4. b.inputs[p].data = <<>> /\ b.inputs[p].heard = c.inputs[p].heard
      <3>1. \A in \in Inputs : Cleared(in).data = <<>> /\ Cleared(in).heard = in.heard
        BY DEF Cleared, Inputs
      <3> QED BY <1>1, <1>3, <1>5, <3>1
    <2> HIDE DEF len, total
    <2>5. ASSUME NEW k \in 1 .. len PROVE DataOf(b, p)[k] = DataOf(c, p)[k]
      <3>1. k \in 1 .. len + 1 /\ ~(k > len) /\ k \in 1 .. total + 1 /\ ~(k > total)
        BY <1>2, <1>3, <1>5
      <3>2. PartOf(b, p, k) = PartOf(c, p, k)
        <4>1. b.frames[k] = c.frames[k]
          BY <1>1, <1>5
        <4>2. ~(k > Len(b.frames)) /\ ~(k > Len(c.frames))
          BY <2>2, <3>1 DEF len
        <4> QED BY ONLY <4>1, <4>2 DEF PartOf
      <3> QED BY <2>2, <3>1, <3>2 DEF DataOf, len
    <2>6. ASSUME NEW k \in len + 1 .. total - 1 PROVE DataOf(b, p)[k] = <<>>
      <3>1. k \in 1 .. total + 1 /\ ~(k > total)
        BY <1>2, <1>3, <1>5
      <3>2. b.frames[k].parts = {}
        <4>1. \A i : EmptyFrame(c, i).parts = {}
          BY DEF EmptyFrame
        <4> QED BY <1>1, <1>5, <4>1
      <3>3. PartOf(b, p, k) = <<>>
        BY <2>2, <3>1, <3>2 DEF PartOf
      <3> QED BY <2>2, <3>1, <3>3 DEF DataOf
    <2>7. DataOf(b, p)[total] = Part(c.inputs[p].data)
      <3> DEFINE x == {y \in b.frames[total].parts : y.uin = p}
                 mine == [uin |-> p, data |-> Part(c.inputs[p].data)]
      <3>1. total \in 1 .. total + 1 /\ ~(total > total)
        BY <1>2, <1>3, <1>5
      <3>2. DataOf(b, p)[total] = IF x = {} THEN <<>> ELSE (CHOOSE y \in x : TRUE).data
        BY <2>2, <3>1 DEF DataOf, PartOf
      <3>3. b.frames[total].parts =
               {[uin |-> u, data |-> Part(c.inputs[u].data)] : u \in c.uins}
        BY <1>1, <1>5 DEF MergedFrame
      <3>4. CASE p \in c.uins
        <4>1. x = {mine}
          BY <3>3, <3>4
        <4>2. (CHOOSE y \in {mine} : TRUE) = mine
          OBVIOUS
        <4>3. mine.data = Part(c.inputs[p].data)
          OBVIOUS
        <4> HIDE DEF x, mine
        <4> QED BY <3>2, <4>1, <4>2, <4>3
      <3>5. CASE p \notin c.uins
        <4>1. x = {}
          BY <3>3, <3>5
        <4>2. c.inputs[p].data = <<>>
          BY <3>5 DEF PlayerAccounted
        <4>3. Part(<<>>) = <<>>
          BY DEF Part
        <4> HIDE DEF x
        <4> QED BY <3>2, <4>1, <4>2, <4>3
      <3> QED BY <3>4, <3>5
    <2>8. Accounted(DataOf(c, p), len, c.inputs[p].heard)
      BY DEF PlayerAccounted, len
    <2>9. Accounted(DataOf(b, p), total, c.inputs[p].heard)
      <3> DEFINE D == DataOf(c, p)
                 E == DataOf(b, p)
                 heard == c.inputs[p].heard
      <3>1. len \in Nat /\ total \in Nat /\ len < total /\ heard \in Nat
        BY <1>3, <1>5, <2>2 DEF len
      <3>2. /\ D \in [1 .. len + 1 -> Seq(WordRecords)]
            /\ E \in [1 .. total + 1 -> Seq(WordRecords)]
        BY <2>1, <2>3
      <3>3. /\ \A k \in 1 .. len : E[k] = D[k]
            /\ \A k \in len + 1 .. total - 1 : E[k] = <<>>
        BY <2>5, <2>6
      <3>4. E[total] = Part(D[len + 1]) /\ E[total + 1] = <<>>
        BY <2>1, <2>3, <2>4, <2>7
      <3>5. Accounted(D, len, heard)
        BY <2>8
      <3> HIDE DEF D, E, heard
      <3>6. Accounted(E, total, heard)
        BY ONLY <3>1, <3>2, <3>3, <3>4, <3>5, SealAccounted
      <3> QED BY <3>6 DEF E, heard
    <2> QED BY <2>2, <2>4, <2>9 DEF PlayerAccounted, b
  <1> QED BY <1>2, <1>3, <1>4, <1>5

LEMMA NewAccounted ==
  ASSUME TypeOK, NEW p \in Players, NEW n \in Nat,
         \A s \in DOMAIN battles : AllAccounted(battles[s]),
         OldAt(SidOf[p]) \in Battles
  PROVE  AllAccounted(NewAt(p, n))
  <1> DEFINE old == OldAt(SidOf[p])
             c == MergeInput(old, p, n)
  <1>1. now \in Nat /\ old \in Battles
    BY DEF TypeOK
  <1>2. AllAccounted(old)
    <2>1. CASE FreshAt(SidOf[p])
      <3>1. old = NewBattle
        BY <2>1 DEF OldAt
      <3>2. /\ old.frames = <<>>
            /\ \A q \in Players : old.inputs[q] = NoInput
        BY <3>1 DEF NewBattle
      <3>3. \A q \in Players : old.inputs[q].data = <<>> /\ old.inputs[q].heard = 0
        BY <3>2 DEF NoInput
      <3>4. Len(old.frames) = 0
        BY <3>2
      <3> HIDE DEF old
      <3>5. ASSUME NEW q \in Players PROVE PlayerAccounted(old, q)
        <4>1. /\ DataOf(old, q) \in [1 .. Len(old.frames) + 1 -> Seq(WordRecords)]
              /\ DataOf(old, q)[Len(old.frames) + 1] = old.inputs[q].data
          BY <1>1, DataOfType
        <4>2. DataOf(old, q)[1] = <<>>
          BY <3>3, <3>4, <4>1
        <4>3. \A k \in 1 .. 0 + 1 : Len(DataOf(old, q)[k]) = 0
          BY <4>2
        <4>4. Accounted(DataOf(old, q), 0, 0)
          BY <4>3 DEF Accounted, Ordered, Heard, Complete
        <4> QED BY <3>3, <3>4, <4>4 DEF PlayerAccounted
      <3> QED BY <3>5 DEF AllAccounted
    <2>2. CASE ~FreshAt(SidOf[p])
      BY <2>2 DEF OldAt, FreshAt
    <2> QED BY <2>1, <2>2
  <1> HIDE DEF old
  <1>3. c \in Battles /\ \A q \in Players : PlayerAccounted(c, q)
    <2>1. c \in Battles
      BY ONLY <1>1, p \in Players, n \in Nat, MergeIs
    <2> QED BY <1>1, <1>2, <2>1, MergePlayer DEF AllAccounted
  <1> HIDE DEF c
  <1>4. \A q \in Players : PlayerAccounted(SealFrames(c), q)
    BY <1>1, <1>3, SealPlayer
  <1> QED BY <1>4 DEF AllAccounted, NewAt, c, old

LEMMA AccountedImplies ==
  ASSUME NEW b \in Battles, NEW p \in Players, PlayerAccounted(b, p)
  PROVE  LET places == Places(b, p) IN
         /\ \A x, y \in places :
               Before(x, y) => WordAt(b, p, x).pos < WordAt(b, p, y).pos
         /\ \A n \in 1 .. b.inputs[p].heard :
               \/ \E x \in places : WordAt(b, p, x).pos = n
               \/ \E k \in 1 .. Len(b.frames) :
                     /\ Len(PartOf(b, p, k)) = InputLimit
                     /\ \A x \in places :
                           IF x[1] <= k THEN WordAt(b, p, x).pos < n
                           ELSE WordAt(b, p, x).pos > n
  <1> DEFINE D == DataOf(b, p)
             len == Len(b.frames)
             places == Places(b, p)
  <1>1. \A k \in 1 .. len + 1 : D[k] = PartOf(b, p, k)
    BY DEF DataOf
  <1>2. \A x \in places : /\ x[1] \in 1 .. len + 1
                          /\ x[2] \in 1 .. Len(D[x[1]])
                          /\ WordAt(b, p, x) = D[x[1]][x[2]]
    BY <1>1 DEF Places, WordAt
  <1>3. \A k \in 1 .. len + 1 : \A i \in 1 .. Len(D[k]) :
           <<k, i>> \in places /\ WordAt(b, p, <<k, i>>) = D[k][i]
    BY <1>1 DEF Places, WordAt
  <1>4. len \in Nat
    BY DEF Battles
  <1>5. Accounted(D, len, b.inputs[p].heard)
    BY DEF PlayerAccounted
  <1> HIDE DEF D, len, places
  <1>6. \A x, y \in places : Before(x, y) => WordAt(b, p, x).pos < WordAt(b, p, y).pos
    <2>1. Ordered(D, len)
      BY <1>5 DEF Accounted
    <2> SUFFICES ASSUME NEW x \in places, NEW y \in places, Before(x, y)
                 PROVE  WordAt(b, p, x).pos < WordAt(b, p, y).pos
      OBVIOUS
    <2>2. D[x[1]][x[2]].pos < D[y[1]][y[2]].pos
      BY ONLY <1>2, <2>1, x \in places, y \in places, Before(x, y) DEF Before, Ordered
    <2> QED BY <1>2, <2>2
  <1>7. ASSUME NEW n \in 1 .. b.inputs[p].heard,
               ~ \E x \in places : WordAt(b, p, x).pos = n
        PROVE  \E k \in 1 .. len :
                  /\ Len(PartOf(b, p, k)) = InputLimit
                  /\ \A x \in places :
                        IF x[1] <= k THEN WordAt(b, p, x).pos < n
                        ELSE WordAt(b, p, x).pos > n
    <2>1. ~ \E k \in 1 .. len + 1 : \E i \in 1 .. Len(D[k]) : D[k][i].pos = n
      BY <1>3, <1>7
    <2>2. PICK k \in 1 .. len : CutAfter(D, len, n, k)
      BY <1>5, <2>1 DEF Accounted, Complete
    <2>3. k \in 1 .. len + 1
      BY <1>4
    <2>4. Len(PartOf(b, p, k)) = InputLimit
      BY <1>1, <2>2, <2>3 DEF CutAfter
    <2>5. \A x \in places : IF x[1] <= k THEN WordAt(b, p, x).pos < n
                            ELSE WordAt(b, p, x).pos > n
      BY <1>2, <2>2 DEF CutAfter
    <2> QED BY <2>4, <2>5
  <1> QED BY <1>6, <1>7 DEF len, places

AccountedInv == \A s \in DOMAIN battles : AllAccounted(battles[s])

LEMMA AccountedStep == TypeOK /\ AccountedInv /\ [Next]_vars => AccountedInv'
  <1> SUFFICES ASSUME TypeOK, AccountedInv, [Next]_vars
               PROVE  \A s \in DOMAIN battles' : AllAccounted(battles'[s])
    BY DEF AccountedInv, AllAccounted, PlayerAccounted, DataOf, PartOf,
           Accounted, Ordered, Heard, Complete, CutAfter
  <1>1. ASSUME NEW p \in Players, Arrive(p)
        PROVE  \A s \in DOMAIN battles' : AllAccounted(battles'[s])
    <2>1. PICK k \in 0 .. Len(have[p]) + 1, n \in Sizes : Handle(p, k, n)
      BY <1>1 DEF Arrive
    <2>2. k \in Int /\ n \in Nat
      BY <2>1
    <2>3. /\ OldAt(SidOf[p]) \in Battles
          /\ battles' = [t \in DOMAIN battles \cup {SidOf[p]} |->
                          IF t = SidOf[p] THEN NewAt(p, n) ELSE battles[t]]
      BY ONLY TypeOK, p \in Players, <2>1, <2>2, HandleIs
    <2>4. AllAccounted(NewAt(p, n))
      BY <2>2, <2>3, NewAccounted DEF AccountedInv
    <2> QED BY <2>3, <2>4 DEF AccountedInv
  <1>2. ASSUME NEW p \in Players, NEW r \in replies, Take(p, r)
        PROVE  \A s \in DOMAIN battles' : AllAccounted(battles'[s])
    BY <1>2 DEF Take, AccountedInv
  <1>3. CASE Restart
    BY <1>3 DEF Restart
  <1>4. CASE Clock
    BY <1>4 DEF Clock, AccountedInv
  <1>5. CASE UNCHANGED vars
    BY <1>5 DEF vars, AccountedInv
  <1> QED BY <1>1, <1>2, <1>3, <1>4, <1>5 DEF Next

(* What the server heard is in a frame or waits, in order and once; a word   *)
(* is missing only behind a part that was cut off at the limit.              *)
THEOREM NoInputIsLost == Spec => []InputsAccounted
  <1>1. Init => AccountedInv
    BY DEF Init, AccountedInv
  <1>2. TypeOK /\ AccountedInv => InputsAccounted
    <2> SUFFICES ASSUME TypeOK, AccountedInv, NEW s \in DOMAIN battles, NEW p \in Players
                 PROVE  LET b == battles[s]
                            places == Places(b, p)
                        IN
                        /\ \A x, y \in places :
                              Before(x, y) => WordAt(b, p, x).pos < WordAt(b, p, y).pos
                        /\ \A n \in 1 .. b.inputs[p].heard :
                              \/ \E x \in places : WordAt(b, p, x).pos = n
                              \/ \E k \in 1 .. Len(b.frames) :
                                    /\ Len(PartOf(b, p, k)) = InputLimit
                                    /\ \A x \in places :
                                          IF x[1] <= k THEN WordAt(b, p, x).pos < n
                                          ELSE WordAt(b, p, x).pos > n
      BY Zenon DEF InputsAccounted
    <2>1. battles[s] \in Battles /\ PlayerAccounted(battles[s], p)
      BY DEF TypeOK, AccountedInv, AllAccounted
    <2> QED BY <2>1, AccountedImplies, Zenon
  <1>3. Spec => []TypeOK
    BY TypeCorrect
  <1> QED BY <1>1, <1>2, <1>3, AccountedStep, PTL DEF Spec
================================================================================
