----------------------------- MODULE Minimap_proofs -----------------------------
(***************************************************************************)
(* The tables of Minimap agree, for any number of components, maps and     *)
(* boxes, and as many indexes as a leaf of the octree has places.          *)
(***************************************************************************)
EXTENDS Minimap, FiniteSetTheorems, WellFoundedInduction, TLAPS

USE MinimapAssumption DEF Indexes, NoIndex

--------------------------------------------------------------------------------
(* Tables and arrays.                                                        *)

LEMMA WithIs ==
  ASSUME NEW t, NEW i, NEW v
  PROVE  /\ DOMAIN With(t, i, v) = DOMAIN t \cup {i}
         /\ With(t, i, v)[i] = v
         /\ \A j \in DOMAIN t : j # i => With(t, i, v)[j] = t[j]
  BY DEF With

LEMMA WithoutIs ==
  ASSUME NEW t, NEW i
  PROVE  /\ DOMAIN Without(t, i) = DOMAIN t \ {i}
         /\ \A j \in DOMAIN t : j # i => Without(t, i)[j] = t[j]
  BY DEF Without

LEMMA IsSeq ==
  ASSUME NEW S, NEW n \in Nat, NEW f \in [1 .. n -> S]
  PROVE  f \in Seq(S) /\ Len(f) = n
  <1>1. f \in Seq(S) /\ DOMAIN f = 1 .. n
    OBVIOUS
  <1> QED BY <1>1

(* The id of index i leads to an element of that index; an element of index  *)
(* i has box s.                                                              *)
Home(t, ids, i) == i \in DOMAIN ids /\ ids[i] \in 1 .. Len(t) /\ t[ids[i]].owner = i
Kept(t, i, s) == \E p \in 1 .. Len(t) : t[p].owner = i /\ t[p].box = s

LEMMA AddIs ==
  ASSUME NEW t \in Seq(Elements), NEW ids, NEW e \in Elements
  PROVE  LET new == AddElement(t, ids, e) IN
         /\ new.tree \in Seq(Elements) /\ Len(new.tree) = Len(t) + 1
         /\ \A q \in 1 .. Len(t) : new.tree[q] = t[q]
         /\ new.tree[Len(t) + 1] = e
         /\ DOMAIN new.ids = DOMAIN ids \cup {e.owner}
         /\ new.ids[e.owner] = Len(t) + 1
         /\ \A j \in DOMAIN ids : j # e.owner => new.ids[j] = ids[j]
  <1> DEFINE new == AddElement(t, ids, e)
  <1>1. new.tree = Append(t, e) /\ new.ids = With(ids, e.owner, Len(t) + 1)
    BY DEF AddElement
  <1>2. /\ Append(t, e) \in Seq(Elements) /\ Len(Append(t, e)) = Len(t) + 1
        /\ \A q \in 1 .. Len(t) : Append(t, e)[q] = t[q]
        /\ Append(t, e)[Len(t) + 1] = e
    OBVIOUS
  <1>3. /\ DOMAIN With(ids, e.owner, Len(t) + 1) = DOMAIN ids \cup {e.owner}
        /\ With(ids, e.owner, Len(t) + 1)[e.owner] = Len(t) + 1
        /\ \A j \in DOMAIN ids :
              j # e.owner => With(ids, e.owner, Len(t) + 1)[j] = ids[j]
    BY DEF With
  <1> HIDE DEF new
  <1>4. /\ new.tree \in Seq(Elements) /\ Len(new.tree) = Len(t) + 1
        /\ \A q \in 1 .. Len(t) : new.tree[q] = t[q]
        /\ new.tree[Len(t) + 1] = e
    BY ONLY <1>1, <1>2
  <1>5. /\ DOMAIN new.ids = DOMAIN ids \cup {e.owner}
        /\ new.ids[e.owner] = Len(t) + 1
        /\ \A j \in DOMAIN ids : j # e.owner => new.ids[j] = ids[j]
    BY ONLY <1>1, <1>3
  <1> QED BY ONLY <1>4, <1>5 DEF new

(* The last element takes the place of a removed one.                        *)
LEMMA RemoveIs ==
  ASSUME NEW t \in Seq(Elements), NEW ids, NEW p \in 1 .. Len(t)
  PROVE  LET new == RemoveElement(t, ids, p)
             len == Len(t)
         IN
         /\ new.tree \in Seq(Elements) /\ Len(new.tree) = len - 1
         /\ \A q \in 1 .. len - 1 : new.tree[q] = IF q = p THEN t[len] ELSE t[q]
         /\ p = len => new.ids = ids
         /\ p # len => /\ DOMAIN new.ids = DOMAIN ids \cup {t[len].owner}
                       /\ new.ids[t[len].owner] = p
                       /\ \A j \in DOMAIN ids : j # t[len].owner => new.ids[j] = ids[j]
  <1> DEFINE len == Len(t)
             rest == SubSeq(t, 1, len - 1)
             new == RemoveElement(t, ids, p)
  <1>1. len \in Nat \ {0} /\ p \in 1 .. len /\ t[len] \in Elements
    OBVIOUS
  <1>2. /\ rest \in Seq(Elements) /\ Len(rest) = len - 1
        /\ \A q \in 1 .. len - 1 : rest[q] = t[q]
    <2>1. len - 1 \in Nat /\ len - 1 <= len
      BY <1>1
    <2>2. rest = [q \in 1 .. len - 1 |-> t[q]]
      BY <1>1, <2>1
    <2>3. \A q \in 1 .. len - 1 : t[q] \in Elements
      BY <1>1, <2>1
    <2> HIDE DEF rest
    <2> QED BY <2>1, <2>2, <2>3
  <1>3. CASE p = len
    <2>1. new.tree = rest /\ new.ids = ids
      BY <1>3 DEF RemoveElement
    <2> HIDE DEF new, rest
    <2> QED BY <1>1, <1>2, <1>3, <2>1 DEF new
  <1>4. CASE p # len
    <2>1. new.tree = [rest EXCEPT ![p] = t[len]] /\ new.ids = With(ids, t[len].owner, p)
      BY <1>4 DEF RemoveElement
    <2> HIDE DEF new, rest, len
    <2>2. /\ [rest EXCEPT ![p] = t[len]] \in Seq(Elements)
          /\ Len([rest EXCEPT ![p] = t[len]]) = len - 1
          /\ \A q \in 1 .. len - 1 :
                [rest EXCEPT ![p] = t[len]][q] = IF q = p THEN t[len] ELSE t[q]
      <3>1. rest \in [1 .. len - 1 -> Elements]
        BY <1>2
      <3>2. len - 1 \in Nat
        BY <1>1
      <3>3. [rest EXCEPT ![p] = t[len]] \in [1 .. len - 1 -> Elements]
        BY <1>1, <3>1
      <3>4. /\ [rest EXCEPT ![p] = t[len]] \in Seq(Elements)
            /\ Len([rest EXCEPT ![p] = t[len]]) = len - 1
        <4>1. PICK n \in Nat : n = len - 1
          BY ONLY <3>2
        <4>2. PICK r \in [1 .. n -> Elements] : r = [rest EXCEPT ![p] = t[len]]
          BY ONLY <3>3, <4>1
        <4>3. r \in Seq(Elements) /\ Len(r) = n
          BY ONLY IsSeq, r \in [1 .. n -> Elements], n \in Nat
        <4> QED BY ONLY <4>1, <4>2, <4>3
      <3>5. \A q \in 1 .. len - 1 :
                [rest EXCEPT ![p] = t[len]][q] = IF q = p THEN t[len] ELSE t[q]
        <4>1. \A q \in DOMAIN rest :
                 [rest EXCEPT ![p] = t[len]][q] = IF q = p THEN t[len] ELSE rest[q]
          BY ONLY TRUE
        <4>2. DOMAIN rest = 1 .. len - 1
          BY ONLY <3>1
        <4> QED BY ONLY <1>2, <4>1, <4>2
      <3> QED BY <3>4, <3>5
    <2>3. /\ DOMAIN new.ids = DOMAIN ids \cup {t[len].owner}
          /\ new.ids[t[len].owner] = p
          /\ \A j \in DOMAIN ids : j # t[len].owner => new.ids[j] = ids[j]
      BY <2>1 DEF With
    <2> QED BY <1>4, <2>1, <2>2, <2>3 DEF new, len
  <1> QED BY <1>3, <1>4

LEMMA UpdateIs ==
  ASSUME NEW t \in Seq(Elements), NEW ids, NEW p \in 1 .. Len(t),
         Copied(t[p]) \in Elements
  PROVE  LET new == UpdateElement(t, ids, p)
             len == Len(t)
             i == t[p].owner
         IN
         /\ new.tree \in Seq(Elements) /\ Len(new.tree) = len
         /\ \A q \in 1 .. len - 1 : new.tree[q] = IF q = p THEN t[len] ELSE t[q]
         /\ new.tree[len] = Copied(t[p])
         /\ DOMAIN new.ids \subseteq DOMAIN ids \cup {i, t[len].owner}
         /\ DOMAIN ids \subseteq DOMAIN new.ids
         /\ i \in DOMAIN new.ids /\ new.ids[i] = len
         /\ \A j \in DOMAIN new.ids : j # i =>
               new.ids[j] = IF p # len /\ j = t[len].owner THEN p ELSE ids[j]
  <1> DEFINE len == Len(t)
             i == t[p].owner
             e == Copied(t[p])
             removed == RemoveElement(t, ids, p)
             without == Without(removed.ids, i)
             new == UpdateElement(t, ids, p)
  <1>1. len \in Nat \ {0} /\ e \in Elements /\ e.owner = i
    BY DEF Copied, Elements
  <1>2. new = AddElement(removed.tree, without, e)
    BY DEF UpdateElement
  <1>3. /\ removed.tree \in Seq(Elements) /\ Len(removed.tree) = len - 1
        /\ \A q \in 1 .. len - 1 : removed.tree[q] = IF q = p THEN t[len] ELSE t[q]
        /\ p = len => removed.ids = ids
        /\ p # len => /\ DOMAIN removed.ids = DOMAIN ids \cup {t[len].owner}
                      /\ removed.ids[t[len].owner] = p
                      /\ \A j \in DOMAIN ids : j # t[len].owner => removed.ids[j] = ids[j]
    BY RemoveIs
  <1>4. /\ DOMAIN without = DOMAIN removed.ids \ {i}
        /\ \A j \in DOMAIN removed.ids : j # i => without[j] = removed.ids[j]
    BY WithoutIs
  <1> HIDE DEF removed, without, e, new
  <1>5. /\ new.tree \in Seq(Elements) /\ Len(new.tree) = Len(removed.tree) + 1
        /\ \A q \in 1 .. Len(removed.tree) : new.tree[q] = removed.tree[q]
        /\ new.tree[Len(removed.tree) + 1] = e
        /\ DOMAIN new.ids = DOMAIN without \cup {e.owner}
        /\ new.ids[e.owner] = Len(removed.tree) + 1
        /\ \A j \in DOMAIN without : j # e.owner => new.ids[j] = without[j]
    <2> DEFINE rest == removed.tree
    <2>1. rest \in Seq(Elements) /\ e \in Elements /\ new = AddElement(rest, without, e)
      BY <1>1, <1>2, <1>3
    <2> HIDE DEF rest, len, i
    <2>2. /\ new.tree \in Seq(Elements) /\ Len(new.tree) = Len(rest) + 1
          /\ \A q \in 1 .. Len(rest) : new.tree[q] = rest[q]
          /\ new.tree[Len(rest) + 1] = e
          /\ DOMAIN new.ids = DOMAIN without \cup {e.owner}
          /\ new.ids[e.owner] = Len(rest) + 1
          /\ \A j \in DOMAIN without : j # e.owner => new.ids[j] = without[j]
      BY ONLY <2>1, AddIs
    <2> QED BY <2>2 DEF rest
  <1> HIDE DEF len
  <1>6. Len(removed.tree) + 1 = len
    BY <1>1, <1>3
  <1>7. /\ new.tree \in Seq(Elements) /\ Len(new.tree) = len
        /\ \A q \in 1 .. len - 1 : new.tree[q] = IF q = p THEN t[len] ELSE t[q]
        /\ new.tree[len] = e
    BY <1>1, <1>3, <1>5, <1>6
  <1> HIDE DEF i
  <1>8. i \in DOMAIN new.ids /\ new.ids[i] = len
    BY <1>1, <1>5, <1>6
  <1>9. /\ DOMAIN ids \subseteq DOMAIN new.ids
        /\ DOMAIN new.ids \subseteq DOMAIN ids \cup {i, t[len].owner}
    BY <1>1, <1>3, <1>4, <1>5
  <1>10. \A j \in DOMAIN new.ids : j # i =>
            new.ids[j] = IF p # len /\ j = t[len].owner THEN p ELSE ids[j]
    <2> SUFFICES ASSUME NEW j \in DOMAIN new.ids, j # i
                 PROVE  new.ids[j] = IF p # len /\ j = t[len].owner THEN p ELSE ids[j]
      OBVIOUS
    <2>1. j \in DOMAIN removed.ids /\ new.ids[j] = removed.ids[j]
      BY <1>1, <1>4, <1>5
    <2> QED BY <1>3, <2>1
  <1> QED BY <1>7, <1>8, <1>9, <1>10 DEF len, i, e, new

(* What an addition and an update leave as it was.                           *)
LEMMA AddKeeps ==
  ASSUME NEW t \in Seq(Elements), NEW ids, NEW e \in Elements
  PROVE  LET new == AddElement(t, ids, e) IN
         /\ Home(new.tree, new.ids, e.owner) /\ Kept(new.tree, e.owner, e.box)
         /\ \A j : j # e.owner /\ Home(t, ids, j) => Home(new.tree, new.ids, j)
         /\ \A j, s : Kept(t, j, s) => Kept(new.tree, j, s)
         /\ \A q \in 1 .. Len(new.tree) :
               new.tree[q] = e \/ \E r \in 1 .. Len(t) : new.tree[q] = t[r]
  <1> DEFINE new == AddElement(t, ids, e)
             len == Len(t)
  <1>1. /\ new.tree \in Seq(Elements) /\ Len(new.tree) = len + 1
        /\ \A q \in 1 .. len : new.tree[q] = t[q]
        /\ new.tree[len + 1] = e
        /\ DOMAIN new.ids = DOMAIN ids \cup {e.owner}
        /\ new.ids[e.owner] = len + 1
        /\ \A j \in DOMAIN ids : j # e.owner => new.ids[j] = ids[j]
    BY AddIs
  <1>2. len \in Nat
    OBVIOUS
  <1> HIDE DEF new
  <1>3. /\ \A q \in 1 .. len : q \in 1 .. Len(new.tree)
        /\ len + 1 \in 1 .. Len(new.tree)
        /\ \A q \in 1 .. Len(new.tree) : q \in 1 .. len \/ q = len + 1
    BY <1>1, <1>2
  <1>4. Home(new.tree, new.ids, e.owner) /\ Kept(new.tree, e.owner, e.box)
    BY <1>1, <1>3 DEF Home, Kept
  <1>5. ASSUME NEW j, j # e.owner, Home(t, ids, j) PROVE Home(new.tree, new.ids, j)
    BY <1>1, <1>3, <1>5 DEF Home
  <1>6. ASSUME NEW j, NEW s, Kept(t, j, s) PROVE Kept(new.tree, j, s)
    BY <1>1, <1>3, <1>6 DEF Kept
  <1>7. \A q \in 1 .. Len(new.tree) :
           new.tree[q] = e \/ \E r \in 1 .. len : new.tree[q] = t[r]
    BY <1>1, <1>3
  <1> QED BY <1>4, <1>5, <1>6, <1>7 DEF new

LEMMA UpdateKeeps ==
  ASSUME NEW t \in Seq(Elements), NEW ids, NEW p \in 1 .. Len(t), NEW i,
         Home(t, ids, i), p = ids[i], Copied(t[p]) \in Elements
  PROVE  LET new == UpdateElement(t, ids, p) IN
         /\ Home(new.tree, new.ids, i) /\ Kept(new.tree, i, Copied(t[p]).box)
         /\ \A j : Home(t, ids, j) => Home(new.tree, new.ids, j)
         /\ \A j, s : j # i /\ Kept(t, j, s) => Kept(new.tree, j, s)
         /\ \A q \in 1 .. Len(new.tree) :
               new.tree[q] = Copied(t[p]) \/ \E r \in 1 .. Len(t) : new.tree[q] = t[r]
  <1> DEFINE new == UpdateElement(t, ids, p)
             len == Len(t)
             e == Copied(t[p])
  <1>1. t[p].owner = i
    BY DEF Home
  <1>2. /\ new.tree \in Seq(Elements) /\ Len(new.tree) = len
        /\ \A q \in 1 .. len - 1 : new.tree[q] = IF q = p THEN t[len] ELSE t[q]
        /\ new.tree[len] = e
        /\ DOMAIN ids \subseteq DOMAIN new.ids
        /\ i \in DOMAIN new.ids /\ new.ids[i] = len
        /\ \A j \in DOMAIN new.ids : j # i =>
              new.ids[j] = IF p # len /\ j = t[len].owner THEN p ELSE ids[j]
    BY <1>1, UpdateIs
  <1>3. len \in Nat \ {0} /\ len \in 1 .. len /\ e.owner = i
    BY <1>1 DEF Copied, Elements
  <1> HIDE DEF new, e, len
  <1>4. \A q \in 1 .. len : q \in 1 .. len - 1 \/ q = len
    BY <1>3
  <1>5. Home(new.tree, new.ids, i) /\ Kept(new.tree, i, e.box)
    BY <1>2, <1>3 DEF Home, Kept
  <1>6. ASSUME NEW j, Home(t, ids, j) PROVE Home(new.tree, new.ids, j)
    <2>1. CASE j = i
      BY <1>5, <2>1
    <2>2. CASE j # i /\ p # len /\ j = t[len].owner
      <3>1. new.ids[j] = p /\ j \in DOMAIN new.ids
        BY <1>2, <1>6, <2>2 DEF Home
      <3>2. p \in 1 .. len - 1 /\ p \in 1 .. len
        BY <1>4, <2>2 DEF len
      <3> QED BY <1>2, <2>2, <3>1, <3>2 DEF Home
    <2>3. CASE j # i /\ ~(p # len /\ j = t[len].owner)
      <3>1. new.ids[j] = ids[j] /\ j \in DOMAIN new.ids
        BY <1>2, <1>6, <2>3 DEF Home
      <3>2. ids[j] \in 1 .. len /\ t[ids[j]].owner = j
        BY <1>6 DEF Home, len
      <3>3. ids[j] # p
        BY <1>1, <2>3, <3>2
      <3>4. ids[j] # len
        BY <2>3, <3>2, <3>3
      <3> QED BY <1>2, <1>4, <3>1, <3>2, <3>3, <3>4 DEF Home
    <2> QED BY <2>1, <2>2, <2>3
  <1>7. ASSUME NEW j, NEW s, j # i, Kept(t, j, s) PROVE Kept(new.tree, j, s)
    <2>1. PICK q \in 1 .. len : t[q].owner = j /\ t[q].box = s
      BY <1>7 DEF Kept, len
    <2>2. q # p
      BY <1>1, <1>7, <2>1
    <2>3. CASE q \in 1 .. len - 1
      BY <1>2, <2>1, <2>2, <2>3 DEF Kept
    <2>4. CASE q = len
      <3>1. p \in 1 .. len - 1 /\ p \in 1 .. len
        BY <1>4, <2>2, <2>4 DEF len
      <3> QED BY <1>2, <2>1, <2>4, <3>1 DEF Kept
    <2> QED BY <1>4, <2>3, <2>4
  <1>8. ASSUME NEW q \in 1 .. Len(new.tree)
        PROVE  new.tree[q] = e \/ \E r \in 1 .. len : new.tree[q] = t[r]
    BY <1>2, <1>3, <1>4
  <1> QED BY <1>5, <1>6, <1>7, <1>8 DEF new, e, len

(* What Rebuild makes: an order of all elements of S, the owners of the      *)
(* elements made in that order, and their ids.                               *)
IsOrder(o, k, S) == o \in [1 .. k -> S] /\ \A x \in S : \E j \in 1 .. k : o[j] = x

Owners(made) == {made[p].owner : p \in 1 .. Len(made)}

LEMMA OrderIs ==
  ASSUME NEW n \in Nat, NEW S \in SUBSET (1 .. n), NEW o \in Orders(S)
  PROVE  \E k \in Nat : k <= n /\ IsOrder(o, k, S)
  <1>1. IsFiniteSet(1 .. n) /\ Cardinality(1 .. n) = n
    BY FS_Interval
  <1>2. Cardinality(S) \in Nat /\ Cardinality(S) <= n
    BY <1>1, FS_Subset, FS_CardinalityType
  <1>3. o \in [1 .. Cardinality(S) -> S]
    BY DEF Orders
  <1>4. \A x \in S : \E j \in 1 .. Cardinality(S) : o[j] = x
    BY <1>3 DEF Orders
  <1> QED BY <1>2, <1>3, <1>4 DEF IsOrder

LEMMA LastIs ==
  ASSUME NEW n \in Nat, NEW S \in SUBSET (1 .. n), S # {}
  PROVE  \E p \in S : \A q \in S : q <= p
  <1> DEFINE K == {k \in Nat : n - k \in S}
  <1>1. K # {}
    <2>1. PICK p \in S : TRUE
      OBVIOUS
    <2>2. n - p \in Nat /\ n - (n - p) = p
      BY <2>1
    <2> QED BY <2>1, <2>2
  <1> DEFINE R == {ss \in Nat \X Nat : ss[1] < ss[2]}
  <1>0. IsWellFoundedOn(R, Nat)
    BY ONLY NatLessThanWellFounded DEF OpToRel
  <1>2. PICK k \in K : \A j \in K : k <= j
    <2>1. K \subseteq Nat
      OBVIOUS
    <2> HIDE DEF K, R
    <2>2. PICK k \in K : \A j \in K : ~ (<<j, k>> \in R)
      BY ONLY <1>1, <1>0, <2>1, WFMin, Zenon
    <2>3. \A j \in K : ~ (j < k)
      BY <2>1, <2>2 DEF R
    <2> QED BY <2>1, <2>3
  <1>3. \A q \in S : q <= n - k
    <2> SUFFICES ASSUME NEW q \in S PROVE q <= n - k
      OBVIOUS
    <2>1. n - q \in Nat /\ n - (n - q) = q
      OBVIOUS
    <2>2. k <= n - q
      BY <1>2, <2>1
    <2> QED BY <1>2, <2>2
  <1> QED BY <1>2, <1>3

AreIdsAfter(new, ids, made) ==
  /\ DOMAIN new = DOMAIN ids \cup Owners(made)
  /\ \A i \in Owners(made) : new[i] \in 1 .. Len(made) /\ made[new[i]].owner = i
  /\ \A i \in DOMAIN ids \ Owners(made) : new[i] = ids[i]

LEMMA IdsAfterIs ==
  ASSUME NEW made \in Seq(Elements), NEW ids
  PROVE  AreIdsAfter(IdsAfter(ids, made), ids, made)
  <1> DEFINE n == Len(made)
             owners == Owners(made)
             new == IdsAfter(ids, made)
             Last(i, p) == /\ made[p].owner = i
                           /\ \A q \in 1 .. n : made[q].owner = i => q <= p
  <1>0. n \in Nat /\ DOMAIN made = 1 .. n
    OBVIOUS
  <1>1. new = [i \in DOMAIN ids \cup owners |->
                 IF i \in owners THEN CHOOSE p \in 1 .. n : Last(i, p) ELSE ids[i]]
    BY <1>0 DEF IdsAfter, Owners
  <1>2. ASSUME NEW i \in owners PROVE \E p \in 1 .. n : Last(i, p)
    <2> DEFINE S == {p \in 1 .. n : made[p].owner = i}
    <2>1. S \in SUBSET (1 .. n) /\ S # {}
      BY DEF Owners
    <2>2. PICK p \in S : \A q \in S : q <= p
      BY <1>0, <2>1, LastIs
    <2> QED BY <2>2
  <1> HIDE DEF new
  <1>3. \A i \in owners : new[i] \in 1 .. n /\ Last(i, new[i])
    <2> HIDE DEF owners, Last
    <2> QED BY <1>1, <1>2
  <1> QED BY <1>1, <1>3 DEF new, AreIdsAfter

--------------------------------------------------------------------------------
(* What is true in every state.                                              *)

(* The component of an element was given an index; when the element's own    *)
(* index is in use, it is the component's.                                   *)
ElementOK(m, e) ==
  /\ MapOf[e.cmp] = m /\ uniqueIndex[e.cmp] # NoIndex /\ e.owner <= allocated[m]
  /\ e.owner \in DOMAIN collect[m] => collect[m][e.owner] = e.cmp

(* A registered static component is at home in the octree, with the box that *)
(* was reported last; of a dynamic one none was.                             *)
StaticOK(m, i) ==
  IF static[collect[m][i]]
  THEN /\ Home(tree[m], treeIds[m], i)
       /\ i \in DOMAIN told[m] /\ Kept(tree[m], i, told[m][i])
  ELSE i \notin DOMAIN told[m]

TreeInv ==
  \A m \in Maps :
    /\ \A p \in 1 .. Len(tree[m]) : ElementOK(m, tree[m][p])
    /\ \A i \in DOMAIN collect[m] : StaticOK(m, i)

(* Indexes are given once, and a cached sort key was its component's index,  *)
(* if it had one.                                                            *)
IndexInv ==
  \A c \in Cmps :
    /\ uniqueIndex[c] # NoIndex => uniqueIndex[c] <= allocated[MapOf[c]]
    /\ sortIndex[c] <= allocated[MapOf[c]]
    /\ \A d \in Cmps : c # d /\ MapOf[c] = MapOf[d] =>
          /\ uniqueIndex[c] # NoIndex => uniqueIndex[c] # uniqueIndex[d]
          /\ sortIndex[c] \in Indexes =>
                sortIndex[c] # sortIndex[d] /\ sortIndex[c] # uniqueIndex[d]

MapsInv == /\ DOMAIN collect = Maps /\ DOMAIN dynamic = Maps
           /\ DOMAIN treeIds = Maps /\ DOMAIN told = Maps

SafeInv == TypeOK /\ MapsInv /\ TablesAreAlive /\ IndexInv /\ TreeInv

(* TypeOK, in a part for all variables and one for each map.                 *)
VarsTypeOK ==
  /\ alive \in [Cmps -> BOOLEAN] /\ static \in [Cmps -> BOOLEAN]
  /\ box \in [Cmps -> Spots] /\ uniqueIndex \in [Cmps -> Indexes \cup {NoIndex}]
  /\ needRecollect \in [Cmps -> BOOLEAN] /\ sortIndex \in [Cmps -> Indexes \cup {0, NoIndex}]
  /\ allocated \in [Maps -> 0 .. MaxIndex] /\ tree \in [Maps -> Seq(Elements)]

MapTypeOK(m) ==
  /\ Len(tree[m]) <= allocated[m]
  /\ DOMAIN collect[m] \subseteq 1 .. allocated[m]
  /\ DOMAIN dynamic[m] \subseteq DOMAIN collect[m]
  /\ DOMAIN treeIds[m] \subseteq 1 .. allocated[m]
  /\ DOMAIN told[m] \subseteq DOMAIN collect[m]
  /\ \A i \in DOMAIN collect[m] : collect[m][i] \in Cmps
  /\ \A i \in DOMAIN treeIds[m] : treeIds[m][i] \in Nat
  /\ \A i \in DOMAIN told[m] : told[m][i] \in Spots

LEMMA TypeIs ==
  /\ TypeOK <=> VarsTypeOK /\ \A m \in Maps : MapTypeOK(m)
  /\ TypeOK' <=> VarsTypeOK' /\ \A m \in Maps : MapTypeOK(m)'
  <1>1. TypeOK <=> VarsTypeOK /\ \A m \in Maps : MapTypeOK(m)
    BY DEF TypeOK, VarsTypeOK, MapTypeOK
  <1>2. TypeOK' <=> VarsTypeOK' /\ \A m \in Maps : MapTypeOK(m)'
    BY DEF TypeOK, VarsTypeOK, MapTypeOK
  <1> QED BY <1>1, <1>2

LEMMA ElementIs ==
  ASSUME VarsTypeOK, NEW m \in Maps, NEW p \in 1 .. Len(tree[m])
  PROVE  /\ tree[m][p] \in Elements /\ tree[m][p].cmp \in Cmps
         /\ tree[m][p].owner \in Nat /\ tree[m][p].owner \in Indexes
  <1>1. tree[m] \in Seq(Elements)
    BY DEF VarsTypeOK
  <1>2. tree[m][p] \in Elements
    BY <1>1
  <1>3. \A e \in Elements : e.cmp \in Cmps /\ e.owner \in Nat /\ e.owner \in Indexes
    BY DEF Elements
  <1> QED BY <1>2, <1>3

LEMMA InitSafe == Init => SafeInv
  <1> SUFFICES ASSUME Init PROVE SafeInv
    OBVIOUS
  <1>1. \A m \in Maps : /\ DOMAIN collect[m] = {} /\ DOMAIN dynamic[m] = {}
                        /\ DOMAIN treeIds[m] = {} /\ DOMAIN told[m] = {}
                        /\ tree[m] = <<>> /\ Len(tree[m]) = 0 /\ allocated[m] = 0
    BY DEF Init
  <1>2. TypeOK
    <2>1. /\ tree \in [Maps -> Seq(Elements)] /\ 0 \in 0 .. MaxIndex
      BY DEF Init
    <2> QED BY <1>1, <2>1 DEF Init, TypeOK
  <1>3. MapsInv
    BY DEF Init, MapsInv
  <1>4. TablesAreAlive
    BY <1>1 DEF TablesAreAlive
  <1>5. IndexInv
    BY <1>1 DEF Init, IndexInv
  <1>6. TreeInv
    BY <1>1 DEF TreeInv
  <1> QED BY <1>2, <1>3, <1>4, <1>5, <1>6 DEF SafeInv

LEMMA StutterSafe == SafeInv /\ UNCHANGED vars => SafeInv'
  <1> SUFFICES ASSUME SafeInv, UNCHANGED vars PROVE SafeInv'
    OBVIOUS
  <1> USE DEF vars, cmpVars, drawVars, treeVars
  <1>1. TypeOK'
    BY DEF SafeInv, TypeOK
  <1>2. MapsInv' /\ IndexInv'
    BY DEF SafeInv, MapsInv, IndexInv
  <1>3. TablesAreAlive'
    BY DEF SafeInv, TablesAreAlive
  <1>4. TreeInv'
    BY DEF SafeInv, TreeInv, ElementOK, StaticOK
  <1> QED BY <1>1, <1>2, <1>3, <1>4 DEF SafeInv

LEMMA MoveSafe ==
  ASSUME SafeInv, NEW c \in Cmps, Move(c)
  PROVE  SafeInv'
  <1> USE DEF cmpVars, drawVars, treeVars
  <1>1. box' \in [Cmps -> Spots]
    BY DEF Move, SafeInv, TypeOK
  <1>2. UNCHANGED <<alive, static, uniqueIndex, needRecollect, sortIndex, allocated,
                    collect, dynamic, tree, treeIds, told>>
    BY DEF Move
  <1>3. TypeOK'
    BY <1>1, <1>2 DEF SafeInv, TypeOK
  <1>4. MapsInv' /\ IndexInv'
    BY <1>2 DEF SafeInv, MapsInv, IndexInv
  <1>5. TablesAreAlive'
    BY <1>2 DEF SafeInv, TablesAreAlive
  <1>6. TreeInv'
    BY <1>2 DEF SafeInv, TreeInv, ElementOK, StaticOK
  <1> QED BY <1>3, <1>4, <1>5, <1>6 DEF SafeInv

LEMMA SetStaticSafe ==
  ASSUME SafeInv, NEW c \in Cmps, SetStatic(c)
  PROVE  SafeInv'
  <1> USE DEF cmpVars, drawVars, treeVars
  <1>1. static' \in [Cmps -> BOOLEAN] /\ \A d \in Cmps : d # c => static'[d] = static[d]
    BY DEF SetStatic, SafeInv, TypeOK
  <1>2. UNCHANGED <<alive, box, uniqueIndex, needRecollect, sortIndex, allocated,
                    collect, dynamic, tree, treeIds, told>>
    BY DEF SetStatic
  <1>3. \A m \in Maps : \A i \in DOMAIN collect[m] :
           static'[collect[m][i]] = static[collect[m][i]]
    BY <1>1 DEF SetStatic, IsRegistered, SafeInv, TypeOK, TablesAreAlive
  <1>4. TypeOK'
    BY <1>1, <1>2 DEF SafeInv, TypeOK
  <1>5. MapsInv' /\ IndexInv'
    BY <1>2 DEF SafeInv, MapsInv, IndexInv
  <1>6. TablesAreAlive'
    BY <1>2, <1>3 DEF SafeInv, TablesAreAlive
  <1>7. TreeInv'
    BY <1>2, <1>3 DEF SafeInv, TreeInv, ElementOK, StaticOK
  <1> QED BY <1>4, <1>5, <1>6, <1>7 DEF SafeInv

LEMMA AskRecollectSafe ==
  ASSUME SafeInv, NEW c \in Cmps, AskRecollect(c)
  PROVE  SafeInv'
  <1> USE DEF cmpVars, drawVars, treeVars
  <1>1. needRecollect' \in [Cmps -> BOOLEAN]
    BY DEF AskRecollect, SafeInv, TypeOK
  <1>2. UNCHANGED <<alive, static, box, uniqueIndex, sortIndex, allocated,
                    collect, dynamic, tree, treeIds, told>>
    BY DEF AskRecollect
  <1>3. TypeOK'
    BY <1>1, <1>2 DEF SafeInv, TypeOK
  <1>4. MapsInv' /\ IndexInv'
    BY <1>2 DEF SafeInv, MapsInv, IndexInv
  <1>5. TablesAreAlive'
    BY <1>2 DEF SafeInv, TablesAreAlive
  <1>6. TreeInv'
    BY <1>2 DEF SafeInv, TreeInv, ElementOK, StaticOK
  <1> QED BY <1>3, <1>4, <1>5, <1>6 DEF SafeInv

(* Collecting, for the panel or for a script.                                *)
LEMMA CollectSafe ==
  ASSUME SafeInv, NEW cs \in SUBSET Cmps, Collect(cs)
  PROVE  SafeInv'
  <1> USE DEF cmpVars, drawVars, treeVars
  <1> DEFINE made == {c \in cs : needRecollect[c] \/ ~static[c]}
  <1>1. \A c \in Cmps :
          /\ uniqueIndex[c] \in Indexes \cup {NoIndex}
          /\ allocated[MapOf[c]] \in Nat
          /\ uniqueIndex[c] # NoIndex => uniqueIndex[c] <= allocated[MapOf[c]]
    BY DEF SafeInv, TypeOK, IndexInv
  <1>2. UNCHANGED <<alive, static, box, uniqueIndex, allocated,
                    collect, dynamic, tree, treeIds, told>>
    BY DEF Collect
  <1>3. sortIndex' = [c \in Cmps |-> IF c \in made THEN uniqueIndex[c] ELSE sortIndex[c]]
    BY DEF Collect
  <1>4. needRecollect' \in [Cmps -> BOOLEAN]
    BY DEF Collect, SafeInv, TypeOK
  <1> HIDE DEF made
  <1>5. sortIndex' \in [Cmps -> Indexes \cup {0, NoIndex}]
    BY <1>1, <1>3 DEF SafeInv, TypeOK
  <1>6. TypeOK'
    BY <1>2, <1>4, <1>5 DEF SafeInv, TypeOK
  <1>7. MapsInv'
    BY <1>2 DEF SafeInv, MapsInv
  <1>8. TablesAreAlive'
    BY <1>2 DEF SafeInv, TablesAreAlive
  <1>9. TreeInv'
    BY <1>2 DEF SafeInv, TreeInv, ElementOK, StaticOK
  <1>10. IndexInv'
    <2> SUFFICES ASSUME NEW c \in Cmps
                 PROVE  /\ sortIndex'[c] <= allocated[MapOf[c]]
                        /\ \A d \in Cmps : /\ c # d /\ MapOf[c] = MapOf[d]
                                            /\ sortIndex'[c] \in Indexes
                                 => /\ sortIndex'[c] # sortIndex'[d]
                                    /\ sortIndex'[c] # uniqueIndex[d]
      BY <1>2 DEF SafeInv, IndexInv
    <2>1. sortIndex'[c] <= allocated[MapOf[c]]
      <3>1. sortIndex[c] <= allocated[MapOf[c]]
        BY DEF SafeInv, IndexInv
      <3>2. uniqueIndex[c] <= allocated[MapOf[c]]
        BY <1>1
      <3> QED BY <1>3, <3>1, <3>2
    <2>2. ASSUME NEW d \in Cmps, c # d, MapOf[c] = MapOf[d], sortIndex'[c] \in Indexes
          PROVE  sortIndex'[c] # sortIndex'[d] /\ sortIndex'[c] # uniqueIndex[d]
      <3>1. /\ uniqueIndex[c] # NoIndex => uniqueIndex[c] # uniqueIndex[d]
            /\ sortIndex[c] \in Indexes =>
                  sortIndex[c] # sortIndex[d] /\ sortIndex[c] # uniqueIndex[d]
            /\ sortIndex[d] \in Indexes => sortIndex[d] # uniqueIndex[c]
        BY <2>2 DEF SafeInv, IndexInv
      <3>2. sortIndex'[c] # NoIndex
        BY <2>2
      <3> QED BY <1>3, <2>2, <3>1, <3>2
    <2> QED BY <2>1, <2>2
  <1> QED BY <1>6, <1>7, <1>8, <1>9, <1>10 DEF SafeInv

LEMMA ClearSafe ==
  ASSUME SafeInv, NEW m \in Maps, Clear(m)
  PROVE  SafeInv'
  <1> USE DEF cmpVars, drawVars, treeVars
  <1>1. UNCHANGED <<alive, static, box, uniqueIndex, needRecollect, sortIndex,
                    allocated, treeIds>>
    BY DEF Clear
  <1>2. \A n \in Maps \ {m} : /\ tree'[n] = tree[n] /\ collect'[n] = collect[n]
                             /\ dynamic'[n] = dynamic[n] /\ told'[n] = told[n]
    BY DEF Clear, SafeInv, MapsInv, TypeOK
  <1>3. /\ tree'[m] = <<>> /\ Len(tree'[m]) = 0 /\ DOMAIN collect'[m] = {}
        /\ DOMAIN dynamic'[m] = {} /\ DOMAIN told'[m] = {}
    BY DEF Clear, SafeInv, MapsInv, TypeOK
  <1>4. tree' \in [Maps -> Seq(Elements)]
    BY DEF Clear, SafeInv, TypeOK
  <1>5. MapsInv'
    BY DEF Clear, SafeInv, MapsInv
  <1>6. TypeOK'
    <2>1. VarsTypeOK /\ \A n \in Maps : MapTypeOK(n)
      BY TypeIs DEF SafeInv
    <2>2. VarsTypeOK'
      BY <1>1, <1>4, <2>1 DEF VarsTypeOK
    <2>3. \A n \in Maps \ {m} : MapTypeOK(n)'
      BY <1>1, <1>2, <2>1 DEF MapTypeOK
    <2>4. MapTypeOK(m)'
      <3>1. allocated[m] \in Nat /\ MapTypeOK(m)
        BY <2>1 DEF VarsTypeOK
      <3> QED BY <1>1, <1>3, <3>1 DEF MapTypeOK
    <2> QED BY <2>2, <2>3, <2>4, TypeIs
  <1>7. TablesAreAlive'
    BY <1>1, <1>2, <1>3 DEF SafeInv, TablesAreAlive
  <1>8. IndexInv'
    BY <1>1 DEF SafeInv, IndexInv
  <1>9. TreeInv'
    BY <1>1, <1>2, <1>3 DEF SafeInv, TreeInv, ElementOK, StaticOK
  <1> QED BY <1>5, <1>6, <1>7, <1>8, <1>9 DEF SafeInv

LEMMA RegisterSafe ==
  ASSUME SafeInv, NEW c \in Cmps, RegisterSelf(c)
  PROVE  SafeInv'
  <1> USE DEF cmpVars, drawVars, treeVars
  <1> DEFINE m == MapOf[c]
             i == allocated[m] + 1
             e == [cmp |-> c, owner |-> i, box |-> box[c]]
             new == AddElement(tree[m], treeIds[m], e)
  <1>1. /\ VarsTypeOK /\ (\A n \in Maps : MapTypeOK(n)) /\ MapsInv
        /\ TablesAreAlive /\ IndexInv /\ TreeInv
    BY TypeIs DEF SafeInv
  <1>0. /\ m \in Maps /\ allocated[m] \in Nat /\ i = allocated[m] + 1 /\ i \in 1 .. MaxIndex
        /\ alive[c] /\ tree[m] \in Seq(Elements) /\ box[c] \in Spots
    BY <1>1 DEF RegisterSelf, VarsTypeOK
  <1>2. /\ m \in Maps /\ allocated[m] \in Nat /\ i = allocated[m] + 1 /\ i \in 1 .. MaxIndex
        /\ alive[c] /\ e \in Elements /\ tree[m] \in Seq(Elements) /\ box[c] \in Spots
        /\ Len(tree[m]) \in Nat
    <2>1. e \in Elements
      BY <1>0 DEF Elements
    <2>2. Len(tree[m]) \in Nat
      BY <1>0
    <2> QED BY <1>0, <2>1, <2>2
  <1>3. UNCHANGED <<alive, static, box, needRecollect, sortIndex>>
    BY DEF RegisterSelf
  <1>4. /\ allocated' \in [Maps -> 0 .. MaxIndex] /\ allocated'[m] = i
        /\ \A n \in Maps \ {m} : allocated'[n] = allocated[n]
    BY <1>1, <1>2 DEF RegisterSelf, VarsTypeOK
  <1>5. /\ uniqueIndex' \in [Cmps -> Indexes \cup {NoIndex}] /\ uniqueIndex'[c] = i
        /\ \A d \in Cmps \ {c} : uniqueIndex'[d] = uniqueIndex[d]
    BY <1>1, <1>2 DEF RegisterSelf, VarsTypeOK
  <1>6. DOMAIN collect' = Maps /\ \A n \in Maps \ {m} : collect'[n] = collect[n]
    BY <1>1 DEF RegisterSelf, MapsInv
  <1>7. /\ DOMAIN collect'[m] = DOMAIN collect[m] \cup {i} /\ collect'[m][i] = c
        /\ \A j \in DOMAIN collect[m] : j # i => collect'[m][j] = collect[m][j]
    <2>1. collect'[m] = With(collect[m], i, c)
      BY <1>1, <1>2 DEF RegisterSelf, MapsInv
    <2> HIDE DEF m, i
    <2> QED BY <2>1 DEF With
  <1>8. \A n \in Maps : \A j \in DOMAIN collect[n] : collect[n][j] # c
    BY <1>1 DEF RegisterSelf, IsRegistered, TablesAreAlive
  <1>9. i \notin DOMAIN collect[m] /\ i \notin DOMAIN dynamic[m]
    BY <1>1, <1>2 DEF MapTypeOK
  <1>10. CASE static[c]
    <2>1. /\ tree' = [tree EXCEPT ![m] = new.tree]
          /\ treeIds' = [treeIds EXCEPT ![m] = new.ids]
          /\ told' = [told EXCEPT ![m] = With(@, i, box[c])]
          /\ dynamic' = dynamic
      BY <1>10 DEF RegisterSelf, SetTree
    <2>2. /\ new.tree \in Seq(Elements) /\ Len(new.tree) = Len(tree[m]) + 1
          /\ DOMAIN new.ids = DOMAIN treeIds[m] \cup {i}
          /\ new.ids[i] = Len(tree[m]) + 1
          /\ \A j \in DOMAIN treeIds[m] : j # i => new.ids[j] = treeIds[m][j]
      <3>1. e.owner = i
        OBVIOUS
      <3> HIDE DEF e, i
      <3> QED BY <1>2, <3>1, AddIs
    <2>3. /\ Home(new.tree, new.ids, i) /\ Kept(new.tree, i, box[c])
          /\ \A j : j # i /\ Home(tree[m], treeIds[m], j) => Home(new.tree, new.ids, j)
          /\ \A j, s : Kept(tree[m], j, s) => Kept(new.tree, j, s)
          /\ \A q \in 1 .. Len(new.tree) :
                new.tree[q] = e \/ \E r \in 1 .. Len(tree[m]) : new.tree[q] = tree[m][r]
      <3>1. e.owner = i /\ e.box = box[c]
        OBVIOUS
      <3> HIDE DEF e, i
      <3> QED BY <1>2, <3>1, AddKeeps
    <2>4. e.cmp = c /\ e.owner = i
      OBVIOUS
    <2> HIDE DEF new, e, m, i
    <2>5. /\ tree' \in [Maps -> Seq(Elements)] /\ DOMAIN treeIds' = Maps /\ DOMAIN told' = Maps
          /\ tree'[m] = new.tree /\ treeIds'[m] = new.ids /\ told'[m] = With(told[m], i, box[c])
          /\ \A n \in Maps \ {m} :
                tree'[n] = tree[n] /\ treeIds'[n] = treeIds[n] /\ told'[n] = told[n]
      BY <1>1, <1>2, <2>1, <2>2 DEF VarsTypeOK, MapsInv
    <2>6. /\ DOMAIN told'[m] = DOMAIN told[m] \cup {i} /\ told'[m][i] = box[c]
          /\ \A j \in DOMAIN told[m] : j # i => told'[m][j] = told[m][j]
      BY <2>5 DEF With
    <2>7. TypeOK'
      <3>1. VarsTypeOK'
        BY <1>1, <1>3, <1>4, <1>5, <2>5 DEF VarsTypeOK
      <3>2. \A n \in Maps \ {m} : MapTypeOK(n)'
        BY <1>1, <1>4, <1>6, <2>1, <2>5 DEF MapTypeOK
      <3>3. MapTypeOK(m)'
        <4>1. MapTypeOK(m)
          BY <1>1, <1>2
        <4>2. 1 .. i = (1 .. allocated[m]) \cup {i}
          BY <1>2
        <4>3. Len(tree'[m]) <= allocated'[m]
          BY <1>2, <1>4, <2>2, <2>5, <4>1 DEF MapTypeOK
        <4>4. /\ DOMAIN collect'[m] \subseteq 1 .. allocated'[m]
              /\ DOMAIN dynamic'[m] \subseteq DOMAIN collect'[m]
              /\ DOMAIN treeIds'[m] \subseteq 1 .. allocated'[m]
              /\ DOMAIN told'[m] \subseteq DOMAIN collect'[m]
          BY <1>4, <1>7, <2>1, <2>2, <2>5, <2>6, <4>1, <4>2 DEF MapTypeOK
        <4>5. /\ \A j \in DOMAIN collect'[m] : collect'[m][j] \in Cmps
              /\ \A j \in DOMAIN treeIds'[m] : treeIds'[m][j] \in Nat
              /\ \A j \in DOMAIN told'[m] : told'[m][j] \in Spots
          <5>1. \A j \in DOMAIN collect'[m] : collect'[m][j] \in Cmps
            BY <1>7, <4>1 DEF MapTypeOK
          <5>2. \A j \in DOMAIN treeIds'[m] : treeIds'[m][j] \in Nat
            <6>1. \A j \in DOMAIN treeIds[m] : treeIds[m][j] \in Nat
              BY <4>1 DEF MapTypeOK
            <6>2. Len(tree[m]) + 1 \in Nat
              BY <1>2
            <6> QED BY <2>2, <2>5, <6>1, <6>2
          <5>3. \A j \in DOMAIN told'[m] : told'[m][j] \in Spots
            BY <1>2, <2>6, <4>1 DEF MapTypeOK
          <5> QED BY <5>1, <5>2, <5>3
        <4> QED BY <4>3, <4>4, <4>5 DEF MapTypeOK
      <3> QED BY <3>1, <3>2, <3>3, TypeIs
    <2>8. MapsInv'
      BY <1>1, <1>6, <2>1, <2>5 DEF MapsInv
    <2>9. TablesAreAlive'
      <3>1. TablesAreAlive /\ MapTypeOK(m)
        BY <1>1, <1>2
      <3>2. /\ dynamic' = dynamic
            /\ \A n \in Maps \ {m} : collect'[n] = collect[n]
        BY <1>6, <2>1
      <3>3. /\ alive'[c] /\ ~(~static'[c]) /\ MapOf[c] = m
            /\ alive' = alive /\ static' = static
        BY <1>1, <1>3, <1>10 DEF RegisterSelf, m
      <3>4. ASSUME NEW n \in Maps, NEW j \in DOMAIN collect'[n]
            PROVE  /\ alive'[collect'[n][j]] /\ MapOf[collect'[n][j]] = n
                   /\ uniqueIndex'[collect'[n][j]] = j
        <4>1. CASE n = m /\ j = i
          BY <1>5, <1>7, <3>3, <4>1
        <4>2. CASE ~(n = m /\ j = i)
          <5>1. j \in DOMAIN collect[n] /\ collect'[n][j] = collect[n][j]
            BY <1>7, <3>2, <4>2
          <5>2. collect[n][j] \in Cmps \ {c}
            BY <1>1, <1>8, <5>1 DEF MapTypeOK
          <5> QED BY <1>5, <3>1, <3>3, <5>1, <5>2 DEF TablesAreAlive
        <4> QED BY <4>1, <4>2
      <3>5. ASSUME NEW n \in Maps
            PROVE  /\ \A j \in DOMAIN collect'[n] \cup DOMAIN dynamic'[n] :
                         j \in DOMAIN dynamic'[n] <=>
                             j \in DOMAIN collect'[n] /\ ~static'[collect'[n][j]]
                   /\ \A j \in DOMAIN dynamic'[n] : dynamic'[n][j] = collect'[n][j]
        <4>1. CASE n = m
          BY <1>7, <1>9, <3>1, <3>2, <3>3, <4>1 DEF TablesAreAlive
        <4>2. CASE n # m
          BY <3>1, <3>2, <3>3, <4>2 DEF TablesAreAlive
        <4> QED BY <4>1, <4>2
      <3> QED BY <3>4, <3>5 DEF TablesAreAlive
    <2>10. TreeInv'
      <3>1. ASSUME NEW n \in Maps \ {m}
            PROVE  /\ \A p \in 1 .. Len(tree'[n]) : ElementOK(n, tree[n][p])'
                   /\ \A j \in DOMAIN collect'[n] : StaticOK(n, j)'
        <4>1. ASSUME NEW p \in 1 .. Len(tree'[n]) PROVE ElementOK(n, tree[n][p])'
          <5>1. ElementOK(n, tree[n][p]) /\ tree[n][p].cmp \in Cmps
            BY <1>1, <2>5, ElementIs DEF TreeInv
          <5>2. /\ tree'[n] = tree[n] /\ collect'[n] = collect[n]
                /\ allocated'[n] = allocated[n] /\ treeIds'[n] = treeIds[n]
            BY <1>4, <1>6, <2>5
          <5> QED BY <1>2, <1>4, <1>5, <5>1, <5>2 DEF ElementOK
        <4>2. ASSUME NEW j \in DOMAIN collect'[n] PROVE StaticOK(n, j)'
          <5>1. StaticOK(n, j)
            BY <1>1, <1>6 DEF TreeInv
          <5> QED BY <1>3, <1>6, <2>5, <5>1 DEF StaticOK
        <4> QED BY <4>1, <4>2
      <3>2. ASSUME NEW p \in 1 .. Len(tree'[m]) PROVE ElementOK(m, tree[m][p])'
        <4>1. CASE tree'[m][p] = e
          BY <1>2, <1>4, <1>5, <1>7, <2>4, <4>1 DEF ElementOK, m
        <4>2. CASE \E r \in 1 .. Len(tree[m]) : tree'[m][p] = tree[m][r]
          <5>1. PICK r \in 1 .. Len(tree[m]) : tree'[m][p] = tree[m][r]
            BY <4>2
          <5>2. /\ ElementOK(m, tree[m][r])
                /\ tree[m][r].owner \in Nat /\ tree[m][r].cmp \in Cmps
            BY <1>1, <1>2, ElementIs DEF TreeInv
          <5>3. /\ tree[m][r].owner <= i /\ tree[m][r].owner # i
                /\ i # NoIndex
            BY <1>2, <5>2 DEF ElementOK
          <5>4. /\ MapOf[tree[m][r].cmp] = m /\ uniqueIndex[tree[m][r].cmp] # NoIndex
                /\ tree[m][r].owner \in DOMAIN collect[m] =>
                      collect[m][tree[m][r].owner] = tree[m][r].cmp
            BY <5>2 DEF ElementOK
          <5>5. uniqueIndex'[tree[m][r].cmp] # NoIndex
            BY <1>5, <5>2, <5>3, <5>4
          <5> QED BY ONLY <1>4, <1>7, <5>1, <5>3, <5>4, <5>5 DEF ElementOK
        <4> QED BY <2>3, <2>5, <4>1, <4>2
      <3>3. ASSUME NEW j \in DOMAIN collect'[m] PROVE StaticOK(m, j)'
        <4>1. CASE j = i
          BY <1>3, <1>7, <1>10, <2>3, <2>5, <2>6, <4>1 DEF StaticOK
        <4>2. CASE j # i
          <5>1. j \in DOMAIN collect[m] /\ collect'[m][j] = collect[m][j] /\ StaticOK(m, j)
            BY <1>1, <1>2, <1>7, <4>2 DEF TreeInv
          <5> QED BY <1>3, <2>3, <2>5, <2>6, <4>2, <5>1 DEF StaticOK
        <4> QED BY <4>1, <4>2
      <3> QED BY <3>1, <3>2, <3>3 DEF TreeInv
    <2>11. IndexInv'
      BY <1>1, <1>2, <1>3, <1>4, <1>5 DEF IndexInv, VarsTypeOK, m
    <2> QED BY <2>7, <2>8, <2>9, <2>10, <2>11 DEF SafeInv
  <1>11. CASE ~static[c]
    <2>1. dynamic' = [dynamic EXCEPT ![m] = With(@, i, c)] /\ UNCHANGED treeVars
      BY <1>11 DEF RegisterSelf
    <2> HIDE DEF new, e, m, i
    <2>2. /\ DOMAIN dynamic' = Maps /\ \A n \in Maps \ {m} : dynamic'[n] = dynamic[n]
          /\ DOMAIN dynamic'[m] = DOMAIN dynamic[m] \cup {i} /\ dynamic'[m][i] = c
          /\ \A j \in DOMAIN dynamic[m] : j # i => dynamic'[m][j] = dynamic[m][j]
      <3>1. /\ DOMAIN dynamic' = Maps /\ \A n \in Maps \ {m} : dynamic'[n] = dynamic[n]
            /\ dynamic'[m] = With(dynamic[m], i, c)
        BY <1>1, <1>2, <2>1 DEF MapsInv
      <3>2. /\ DOMAIN dynamic'[m] = DOMAIN dynamic[m] \cup {i} /\ dynamic'[m][i] = c
            /\ \A j \in DOMAIN dynamic[m] : j # i => dynamic'[m][j] = dynamic[m][j]
        BY <3>1 DEF With
      <3> QED BY <3>1, <3>2
    <2>3. TypeOK'
      <3>1. VarsTypeOK'
        BY <1>1, <1>3, <1>4, <1>5, <2>1 DEF VarsTypeOK
      <3>2. \A n \in Maps \ {m} : MapTypeOK(n)'
        BY <1>1, <1>4, <1>6, <2>1, <2>2 DEF MapTypeOK
      <3>3. MapTypeOK(m)'
        <4>1. MapTypeOK(m)
          BY <1>1, <1>2
        <4>2. 1 .. i = (1 .. allocated[m]) \cup {i}
          BY <1>2
        <4>3. Len(tree'[m]) <= allocated'[m]
          BY <1>2, <1>4, <2>1, <4>1 DEF MapTypeOK
        <4> QED BY <1>4, <1>7, <2>1, <2>2, <4>1, <4>2, <4>3 DEF MapTypeOK
      <3> QED BY <3>1, <3>2, <3>3, TypeIs
    <2>4. MapsInv'
      BY <1>1, <1>6, <2>1, <2>2 DEF MapsInv
    <2>5. TablesAreAlive'
      BY <1>1, <1>2, <1>3, <1>5, <1>6, <1>7, <1>8, <1>9, <1>11, <2>2
         DEF TablesAreAlive, MapTypeOK, m
    <2>6. TreeInv'
      <3>1. ASSUME NEW n \in Maps \ {m}
            PROVE  /\ \A p \in 1 .. Len(tree'[n]) : ElementOK(n, tree[n][p])'
                   /\ \A j \in DOMAIN collect'[n] : StaticOK(n, j)'
        <4>1. ASSUME NEW p \in 1 .. Len(tree'[n]) PROVE ElementOK(n, tree[n][p])'
          <5>1. ElementOK(n, tree[n][p]) /\ tree[n][p].cmp \in Cmps
            BY <1>1, <2>1, ElementIs DEF TreeInv
          <5> QED BY <1>2, <1>4, <1>5, <1>6, <2>1, <5>1 DEF ElementOK
        <4>2. ASSUME NEW j \in DOMAIN collect'[n] PROVE StaticOK(n, j)'
          <5>1. StaticOK(n, j)
            BY <1>1, <1>6 DEF TreeInv
          <5> QED BY <1>3, <1>6, <2>1, <5>1 DEF StaticOK
        <4> QED BY <4>1, <4>2
      <3>2. ASSUME NEW p \in 1 .. Len(tree'[m]) PROVE ElementOK(m, tree[m][p])'
        <4>1. /\ ElementOK(m, tree[m][p])
              /\ tree[m][p].owner \in Nat /\ tree[m][p].cmp \in Cmps
          BY <1>1, <1>2, <2>1, ElementIs DEF TreeInv
        <4> QED BY <1>2, <1>4, <1>5, <1>7, <2>1, <4>1 DEF ElementOK
      <3>3. ASSUME NEW j \in DOMAIN collect'[m] PROVE StaticOK(m, j)'
        <4>1. CASE j = i
          <5>1. i \notin DOMAIN told[m]
            BY <1>1, <1>2, <1>9 DEF MapTypeOK
          <5> QED BY <1>3, <1>7, <1>11, <2>1, <4>1, <5>1 DEF StaticOK
        <4>2. CASE j # i
          <5>1. j \in DOMAIN collect[m] /\ collect'[m][j] = collect[m][j] /\ StaticOK(m, j)
            BY <1>1, <1>2, <1>7, <4>2 DEF TreeInv
          <5> QED BY <1>3, <2>1, <5>1 DEF StaticOK
        <4> QED BY <4>1, <4>2
      <3> QED BY <3>1, <3>2, <3>3 DEF TreeInv
    <2>7. IndexInv'
      BY <1>1, <1>2, <1>3, <1>4, <1>5 DEF IndexInv, VarsTypeOK, m
    <2> QED BY <2>3, <2>4, <2>5, <2>6, <2>7 DEF SafeInv
  <1> QED BY <1>10, <1>11

LEMMA RegisteredIs ==
  ASSUME SafeInv, NEW c \in Cmps, IsRegistered(c)
  PROVE  /\ MapOf[c] \in Maps /\ uniqueIndex[c] \in DOMAIN collect[MapOf[c]]
         /\ collect[MapOf[c]][uniqueIndex[c]] = c /\ alive[c]
         /\ uniqueIndex[c] \in 1 .. allocated[MapOf[c]]
         /\ allocated[MapOf[c]] \in Nat /\ uniqueIndex[c] # NoIndex
  <1> DEFINE m == MapOf[c]
             i == uniqueIndex[c]
  <1>1. m \in Maps /\ i \in DOMAIN collect[m]
    BY DEF IsRegistered
  <1>2. i \in 1 .. allocated[m] /\ allocated[m] \in Nat /\ i # NoIndex
    BY <1>1 DEF SafeInv, TypeOK
  <1>3. /\ collect[m][i] \in Cmps /\ alive[collect[m][i]] /\ MapOf[collect[m][i]] = m
        /\ uniqueIndex[collect[m][i]] = i
    BY <1>1 DEF SafeInv, TypeOK, TablesAreAlive
  <1>4. collect[m][i] = c
    BY <1>2, <1>3 DEF SafeInv, IndexInv
  <1> QED BY <1>1, <1>2, <1>3, <1>4

LEMMA ReupdateSafe ==
  ASSUME SafeInv, NEW c \in Cmps, ReupdateSelfBound(c)
  PROVE  SafeInv'
  <1> USE DEF cmpVars, drawVars, treeVars
  <1> DEFINE m == MapOf[c]
             i == uniqueIndex[c]
             t == tree[m]
             ids == treeIds[m]
             p == ids[i]
             e == Copied(t[p])
             new == UpdateElement(t, ids, p)
  <1>1. /\ VarsTypeOK /\ (\A n \in Maps : MapTypeOK(n)) /\ MapsInv
        /\ TablesAreAlive /\ IndexInv /\ TreeInv
    BY TypeIs DEF SafeInv
  <1>2. /\ m \in Maps /\ i \in DOMAIN collect[m] /\ collect[m][i] = c /\ alive[c]
        /\ i \in 1 .. allocated[m] /\ allocated[m] \in Nat /\ i # NoIndex
    BY RegisteredIs DEF ReupdateSelfBound
  <1>3. static[c] /\ i \in DOMAIN ids
    BY <1>2 DEF ReupdateSelfBound
  <1>4. Home(t, ids, i) /\ t \in Seq(Elements) /\ box[c] \in Spots
    BY <1>1, <1>2, <1>3 DEF TreeInv, StaticOK, VarsTypeOK
  <1>5. p \in 1 .. Len(t) /\ t[p].owner = i /\ t[p] \in Elements
    BY <1>4 DEF Home
  <1>6. t[p].cmp = c
    BY <1>1, <1>2, <1>5 DEF TreeInv, ElementOK
  <1>7. e \in Elements /\ e.cmp = c /\ e.owner = i /\ e.box = box[c]
    BY <1>2, <1>4, <1>5, <1>6 DEF Copied, Elements
  <1>8. /\ UNCHANGED <<alive, static, box, uniqueIndex, needRecollect, sortIndex>>
        /\ UNCHANGED <<allocated, collect, dynamic>>
        /\ tree' = [tree EXCEPT ![m] = new.tree]
        /\ treeIds' = [treeIds EXCEPT ![m] = new.ids]
        /\ told' = [told EXCEPT ![m] = With(@, i, box[c])]
    BY DEF ReupdateSelfBound, SetTree
  <1> HIDE DEF m, i, t, ids, p, e, new
  <1>9. /\ new.tree \in Seq(Elements) /\ Len(new.tree) = Len(t)
        /\ DOMAIN new.ids \subseteq DOMAIN ids \cup {i, t[Len(t)].owner}
        /\ new.ids[i] = Len(t)
        /\ \A j \in DOMAIN new.ids : j # i =>
              new.ids[j] = IF p # Len(t) /\ j = t[Len(t)].owner THEN p ELSE ids[j]
    BY <1>4, <1>5, <1>7, UpdateIs DEF e, new
  <1>10. p = ids[i]
    BY DEF p
  <1>11. /\ Home(new.tree, new.ids, i) /\ Kept(new.tree, i, box[c])
         /\ \A j : Home(t, ids, j) => Home(new.tree, new.ids, j)
         /\ \A j, s : j # i /\ Kept(t, j, s) => Kept(new.tree, j, s)
         /\ \A q \in 1 .. Len(new.tree) :
               new.tree[q] = e \/ \E r \in 1 .. Len(t) : new.tree[q] = t[r]
    BY <1>4, <1>5, <1>7, <1>10, UpdateKeeps DEF e, new
  <1>12. /\ tree' \in [Maps -> Seq(Elements)] /\ DOMAIN treeIds' = Maps /\ DOMAIN told' = Maps
         /\ tree'[m] = new.tree /\ treeIds'[m] = new.ids /\ told'[m] = With(told[m], i, box[c])
         /\ \A n \in Maps \ {m} :
               tree'[n] = tree[n] /\ treeIds'[n] = treeIds[n] /\ told'[n] = told[n]
    BY <1>1, <1>2, <1>8, <1>9 DEF VarsTypeOK, MapsInv
  <1>13. /\ DOMAIN told'[m] = DOMAIN told[m] \cup {i} /\ told'[m][i] = box[c]
         /\ \A j \in DOMAIN told[m] : j # i => told'[m][j] = told[m][j]
    BY <1>12 DEF With
  <1>14. TypeOK'
    <2>1. VarsTypeOK'
      BY <1>1, <1>8, <1>12 DEF VarsTypeOK
    <2>2. \A n \in Maps \ {m} : MapTypeOK(n)'
      BY <1>1, <1>8, <1>12 DEF MapTypeOK
    <2>3. MapTypeOK(m)'
      <3>1. MapTypeOK(m)
        BY <1>1, <1>2
      <3>2. Len(t) \in Nat /\ Len(t) \in 1 .. Len(t) /\ p \in Nat
        BY <1>4, <1>5
      <3>3. Len(t) <= allocated[m] /\ t[Len(t)].owner \in 1 .. allocated[m]
        <4>1. Len(t) <= allocated[m]
          BY <3>1 DEF MapTypeOK, t
        <4>2. /\ ElementOK(m, tree[m][Len(t)])
              /\ tree[m][Len(t)].owner \in Indexes
          BY <1>1, <1>2, <3>2, ElementIs DEF TreeInv, t
        <4> QED BY <1>2, <4>1, <4>2 DEF ElementOK, t
      <3>4. DOMAIN new.ids \subseteq 1 .. allocated[m]
        BY <1>2, <1>9, <3>1, <3>3 DEF MapTypeOK, ids
      <3>5. \A j \in DOMAIN new.ids : new.ids[j] \in Nat
        <4> SUFFICES ASSUME NEW j \in DOMAIN new.ids PROVE new.ids[j] \in Nat
          OBVIOUS
        <4>1. CASE j \in DOMAIN ids /\ j # i
          <5>1. ids[j] \in Nat
            BY <3>1, <4>1 DEF MapTypeOK, ids
          <5> QED BY <1>9, <3>2, <4>1, <5>1
        <4>2. CASE j = i
          BY <1>9, <3>2, <4>2
        <4>3. CASE j \notin DOMAIN ids /\ j # i
          <5>1. j = t[Len(t)].owner
            BY <1>9, <4>3
          <5>2. p # Len(t)
            BY <1>5, <4>3, <5>1
          <5> QED BY <1>9, <3>2, <4>3, <5>1, <5>2
        <4> QED BY <4>1, <4>2, <4>3
      <3>6. DOMAIN told'[m] \subseteq DOMAIN collect[m]
        BY <1>2, <1>13, <3>1 DEF MapTypeOK
      <3>7. \A j \in DOMAIN told'[m] : told'[m][j] \in Spots
        BY <1>4, <1>13, <3>1 DEF MapTypeOK
      <3>8. Len(tree'[m]) <= allocated[m]
        BY <1>9, <1>12, <3>3
      <3> QED BY <1>8, <1>12, <3>1, <3>4, <3>5, <3>6, <3>7, <3>8 DEF MapTypeOK
    <2> QED BY <2>1, <2>2, <2>3, TypeIs
  <1>15. MapsInv' /\ IndexInv'
    BY <1>1, <1>8, <1>12 DEF MapsInv, IndexInv
  <1>16. TablesAreAlive'
    BY <1>1, <1>8 DEF TablesAreAlive
  <1>17. TreeInv'
    <2>1. ASSUME NEW n \in Maps \ {m}
          PROVE  /\ \A q \in 1 .. Len(tree'[n]) : ElementOK(n, tree[n][q])'
                 /\ \A j \in DOMAIN collect'[n] : StaticOK(n, j)'
      BY <1>1, <1>8, <1>12 DEF TreeInv, ElementOK, StaticOK
    <2>2. ASSUME NEW q \in 1 .. Len(tree'[m]) PROVE ElementOK(m, tree[m][q])'
      <3>1. CASE tree'[m][q] = e
        BY <1>2, <1>7, <1>8, <3>1 DEF ElementOK, m, i
      <3>2. CASE \E r \in 1 .. Len(t) : tree'[m][q] = t[r]
        BY <1>1, <1>2, <1>8, <3>2 DEF TreeInv, ElementOK, t
      <3> QED BY <1>11, <1>12, <3>1, <3>2
    <2>3. ASSUME NEW j \in DOMAIN collect'[m] PROVE StaticOK(m, j)'
      <3>1. CASE j = i
        BY <1>2, <1>3, <1>8, <1>11, <1>12, <1>13, <3>1 DEF StaticOK
      <3>2. CASE j # i
        <4>1. StaticOK(m, j)
          BY <1>1, <1>2, <1>8 DEF TreeInv
        <4> QED BY <1>8, <1>11, <1>12, <1>13, <3>2, <4>1 DEF StaticOK, t, ids
      <3> QED BY <3>1, <3>2
    <2> QED BY <2>1, <2>2, <2>3 DEF TreeInv
  <1> QED BY <1>14, <1>15, <1>16, <1>17 DEF SafeInv

(* A removed component is in no table, and what the others have is as it     *)
(* was, whether it is destroyed too or not.                                  *)
LEMMA RemoveSafe ==
  ASSUME SafeInv, NEW c \in Cmps, IsRegistered(c), Remove(c),
         alive' = alive \/ alive' = [alive EXCEPT ![c] = FALSE],
         UNCHANGED <<static, box, uniqueIndex, needRecollect, sortIndex, allocated, tree>>
  PROVE  SafeInv'
  <1> DEFINE m == MapOf[c]
             i == uniqueIndex[c]
  <1>1. /\ VarsTypeOK /\ (\A n \in Maps : MapTypeOK(n)) /\ MapsInv
        /\ TablesAreAlive /\ IndexInv /\ TreeInv
    BY TypeIs DEF SafeInv
  <1>2. m \in Maps /\ i \in DOMAIN collect[m] /\ collect[m][i] = c
    BY RegisteredIs
  <1>3. collect' = [collect EXCEPT ![m] = Without(@, i)]
    BY DEF Remove
  <1>4. \/ /\ static[c]
           /\ treeIds' = [treeIds EXCEPT ![m] = Without(@, i)]
           /\ told' = [told EXCEPT ![m] = Without(@, i)]
           /\ dynamic' = dynamic
        \/ /\ ~static[c]
           /\ dynamic' = [dynamic EXCEPT ![m] = Without(@, i)]
           /\ treeIds' = treeIds /\ told' = told
    BY <1>2 DEF Remove
  <1>5. \A d \in Cmps : d # c => alive'[d] = alive[d]
    BY <1>1 DEF VarsTypeOK
  <1>6. \A n \in Maps : \A j \in DOMAIN collect[n] : collect[n][j] = c => n = m /\ j = i
    BY <1>1 DEF TablesAreAlive
  <1> HIDE DEF m, i
  <1>7. /\ DOMAIN collect' = Maps /\ DOMAIN collect'[m] = DOMAIN collect[m] \ {i}
        /\ \A j \in DOMAIN collect'[m] : collect'[m][j] = collect[m][j]
        /\ \A n \in Maps \ {m} : collect'[n] = collect[n]
    BY <1>1, <1>2, <1>3 DEF MapsInv, Without
  <1>8. /\ DOMAIN dynamic' = Maps /\ DOMAIN dynamic'[m] = DOMAIN dynamic[m] \ {i}
        /\ \A j \in DOMAIN dynamic'[m] : dynamic'[m][j] = dynamic[m][j]
        /\ \A n \in Maps \ {m} : dynamic'[n] = dynamic[n]
    <2>1. static[c] => i \notin DOMAIN dynamic[m]
      BY <1>1, <1>2 DEF TablesAreAlive
    <2> QED BY <1>1, <1>2, <1>4, <2>1 DEF MapsInv, Without
  <1>9. /\ DOMAIN treeIds' = Maps /\ DOMAIN treeIds'[m] \subseteq DOMAIN treeIds[m]
        /\ DOMAIN treeIds[m] \ {i} \subseteq DOMAIN treeIds'[m]
        /\ \A j \in DOMAIN treeIds'[m] : treeIds'[m][j] = treeIds[m][j]
        /\ \A n \in Maps \ {m} : treeIds'[n] = treeIds[n]
    BY <1>1, <1>2, <1>4 DEF MapsInv, Without
  <1>10. /\ DOMAIN told' = Maps /\ DOMAIN told'[m] \subseteq DOMAIN told[m]
         /\ DOMAIN told[m] \ {i} \subseteq DOMAIN told'[m]
         /\ \A j \in DOMAIN told'[m] : told'[m][j] = told[m][j]
         /\ \A n \in Maps \ {m} : told'[n] = told[n]
    BY <1>1, <1>2, <1>4 DEF MapsInv, Without
  <1>11. TypeOK'
    <2>1. VarsTypeOK'
      BY <1>1 DEF VarsTypeOK
    <2>2. \A n \in Maps \ {m} : MapTypeOK(n)'
      BY <1>1, <1>7, <1>8, <1>9, <1>10 DEF MapTypeOK
    <2>3. MapTypeOK(m)'
      <3>1. i \notin DOMAIN told'[m]
        <4>1. static[c] => i \notin DOMAIN told'[m]
          BY <1>1, <1>2, <1>4 DEF MapsInv, Without
        <4>2. ~static[c] => i \notin DOMAIN told[m]
          BY <1>1, <1>2 DEF TreeInv, StaticOK
        <4> QED BY <1>10, <4>1, <4>2
      <3>2. MapTypeOK(m)
        BY <1>1, <1>2
      <3> QED BY <1>7, <1>8, <1>9, <1>10, <3>1, <3>2 DEF MapTypeOK
    <2> QED BY <2>1, <2>2, <2>3, TypeIs
  <1>12. MapsInv'
    BY <1>7, <1>8, <1>9, <1>10 DEF MapsInv
  <1>13. IndexInv'
    BY <1>1 DEF IndexInv
  <1>14. TablesAreAlive'
    <2>1. \A n \in Maps \ {m} : \A j \in DOMAIN collect[n] : collect[n][j] # c
      BY <1>6
    <2>2. \A j \in DOMAIN collect'[m] : collect'[m][j] # c
      BY <1>2, <1>6, <1>7
    <2>3. \A n \in Maps : \A j \in DOMAIN collect'[n] : collect'[n][j] \in Cmps
      BY <1>11 DEF TypeOK
    <2>4. ASSUME NEW n \in Maps, NEW j \in DOMAIN collect'[n]
          PROVE  /\ alive'[collect'[n][j]] /\ MapOf[collect'[n][j]] = n
                 /\ uniqueIndex[collect'[n][j]] = j
      BY <1>1, <1>2, <1>5, <1>7, <2>1, <2>2, <2>3 DEF TablesAreAlive
    <2>5. ASSUME NEW n \in Maps, NEW j \in DOMAIN collect'[n] \cup DOMAIN dynamic'[n]
          PROVE  j \in DOMAIN dynamic'[n] <=>
                     j \in DOMAIN collect'[n] /\ ~static[collect'[n][j]]
      BY <1>1, <1>2, <1>7, <1>8 DEF TablesAreAlive
    <2>6. ASSUME NEW n \in Maps, NEW j \in DOMAIN dynamic'[n]
          PROVE  dynamic'[n][j] = collect'[n][j]
      BY <1>1, <1>2, <1>7, <1>8, <2>5 DEF TablesAreAlive
    <2> QED BY <2>4, <2>5, <2>6 DEF TablesAreAlive
  <1>15. TreeInv'
    <2>1. ASSUME NEW n \in Maps, NEW q \in 1 .. Len(tree[n])
          PROVE  ElementOK(n, tree[n][q])'
      BY <1>1, <1>7 DEF TreeInv, ElementOK
    <2>2. ASSUME NEW n \in Maps \ {m}, NEW j \in DOMAIN collect'[n]
          PROVE  StaticOK(n, j)'
      BY <1>1, <1>7, <1>9, <1>10 DEF TreeInv, StaticOK
    <2>3. ASSUME NEW j \in DOMAIN collect'[m] PROVE StaticOK(m, j)'
      <3>1. StaticOK(m, j) /\ j # i /\ collect'[m][j] = collect[m][j]
        BY <1>1, <1>2, <1>7 DEF TreeInv
      <3>2. Home(tree[m], treeIds[m], j) => Home(tree[m], treeIds'[m], j)
        BY <1>9, <3>1 DEF Home
      <3> QED BY <1>10, <3>1, <3>2 DEF StaticOK
    <2> QED BY <2>1, <2>2, <2>3 DEF TreeInv
  <1> QED BY <1>11, <1>12, <1>13, <1>14, <1>15 DEF SafeInv

LEMMA UnregisterSafe ==
  ASSUME SafeInv, NEW c \in Cmps, UnregisterSelf(c)
  PROVE  SafeInv'
  BY RemoveSafe DEF UnregisterSelf, cmpVars, drawVars

LEMMA DestroySafe ==
  ASSUME SafeInv, NEW c \in Cmps, Destroy(c)
  PROVE  SafeInv'
  <1>1. CASE IsRegistered(c)
    BY <1>1, RemoveSafe DEF Destroy, drawVars
  <1>2. CASE ~IsRegistered(c)
    <2>1. UNCHANGED <<static, box, uniqueIndex, needRecollect, sortIndex, allocated,
                      collect, dynamic, tree, treeIds, told>>
      BY <1>2 DEF Destroy, drawVars
    <2>2. /\ alive' \in [Cmps -> BOOLEAN]
          /\ \A d \in Cmps : d # c => alive'[d] = alive[d]
      BY DEF Destroy, SafeInv, TypeOK
    <2>3. \A m \in Maps : \A j \in DOMAIN collect[m] :
             collect[m][j] \in Cmps /\ collect[m][j] # c
      BY <1>2 DEF IsRegistered, SafeInv, TypeOK, TablesAreAlive
    <2>4. TypeOK'
      BY <2>1, <2>2 DEF SafeInv, TypeOK
    <2>5. MapsInv' /\ IndexInv'
      BY <2>1 DEF SafeInv, MapsInv, IndexInv
    <2>6. TablesAreAlive'
      BY <2>1, <2>2, <2>3 DEF SafeInv, TablesAreAlive
    <2>7. TreeInv'
      BY <2>1 DEF SafeInv, TreeInv, ElementOK, StaticOK
    <2> QED BY <2>4, <2>5, <2>6, <2>7 DEF SafeInv
  <1> QED BY <1>1, <1>2

(* An element is made anew under the index its component has now: an index   *)
(* in use is that of its own element again, and others' ids are not touched. *)
LEMMA RebuildSafe ==
  ASSUME SafeInv, NEW m \in Maps, Rebuild(m)
  PROVE  SafeInv'
  <1> DEFINE t == tree[m]
             ids == treeIds[m]
             Cmp(o, k) == t[o[k]].cmp
             Made(o) == [k \in DOMAIN o |->
                           [cmp |-> Cmp(o, k), owner |-> uniqueIndex[Cmp(o, k)],
                            box |-> box[Cmp(o, k)]]]
  <1>1. /\ VarsTypeOK /\ (\A n \in Maps : MapTypeOK(n)) /\ MapsInv
        /\ TablesAreAlive /\ IndexInv /\ TreeInv
    BY TypeIs DEF SafeInv
  <1>2. t \in Seq(Elements) /\ Len(t) \in Nat /\ allocated[m] \in Nat /\ MapTypeOK(m)
    BY <1>1 DEF VarsTypeOK
  <1>3. /\ UNCHANGED <<alive, static, box, uniqueIndex, sortIndex>>
        /\ UNCHANGED <<allocated, collect, dynamic>>
        /\ needRecollect' \in [Cmps -> BOOLEAN]
        /\ told' = [told EXCEPT ![m] = [i \in DOMAIN @ |-> box[collect[m][i]]]]
    BY <1>1 DEF Rebuild, cmpVars, VarsTypeOK
  <1>4. PICK o \in Orders(Receivers(m)) :
           /\ tree' = [tree EXCEPT ![m] = Made(o)]
           /\ treeIds' = [treeIds EXCEPT ![m] = IdsAfter(@, Made(o))]
    BY DEF Rebuild
  <1>5. Receivers(m) \in SUBSET (1 .. Len(t))
    BY DEF Receivers
  <1>6. PICK len \in Nat : len <= Len(t) /\ IsOrder(o, len, Receivers(m))
    <2>1. o \in Orders(Receivers(m)) /\ Len(t) \in Nat
      BY <1>2, <1>4
    <2> QED BY <1>5, <2>1, OrderIs
  <1> DEFINE made == Made(o)
             owners == Owners(made)
             new == IdsAfter(ids, made)
  <1>7. ASSUME NEW k \in 1 .. len
        PROVE  /\ Cmp(o, k) \in Cmps /\ MapOf[Cmp(o, k)] = m
               /\ uniqueIndex[Cmp(o, k)] \in Indexes
               /\ uniqueIndex[Cmp(o, k)] <= allocated[m]
               /\ made[k].cmp = Cmp(o, k)
               /\ made[k].owner = uniqueIndex[Cmp(o, k)]
               /\ made[k].box = box[Cmp(o, k)]
               /\ made[k] \in Elements
    <2>1. o[k] \in 1 .. Len(t) /\ DOMAIN o = 1 .. len
      BY <1>5, <1>6 DEF IsOrder
    <2>2. Cmp(o, k) \in Cmps /\ ElementOK(m, t[o[k]])
      BY <1>1, <2>1, ElementIs DEF TreeInv
    <2>3. /\ made[k].cmp = Cmp(o, k)
          /\ made[k].owner = uniqueIndex[Cmp(o, k)]
          /\ made[k].box = box[Cmp(o, k)]
      BY <2>1
    <2>4. /\ MapOf[Cmp(o, k)] = m /\ uniqueIndex[Cmp(o, k)] # NoIndex
      BY <2>2 DEF ElementOK
    <2>5. /\ uniqueIndex[Cmp(o, k)] \in Indexes /\ box[Cmp(o, k)] \in Spots
          /\ uniqueIndex[Cmp(o, k)] <= allocated[m]
      BY <1>1, <2>2, <2>4 DEF VarsTypeOK, IndexInv
    <2>6. made[k] \in Elements
      <3>1. made[k] = [cmp |-> Cmp(o, k), owner |-> uniqueIndex[Cmp(o, k)],
                       box |-> box[Cmp(o, k)]]
        BY <2>1
      <3> HIDE DEF made, Cmp
      <3> QED BY <2>2, <2>5, <3>1 DEF Elements
    <2> QED BY <2>2, <2>3, <2>4, <2>5, <2>6
  <1>8. made \in Seq(Elements) /\ Len(made) = len
    <2>1. DOMAIN made = 1 .. len /\ made = [k \in 1 .. len |-> made[k]]
      BY <1>6 DEF IsOrder
    <2>2. \A k \in 1 .. len : made[k] \in Elements
      BY <1>7
    <2> HIDE DEF made
    <2>3. made \in [1 .. len -> Elements]
      BY <2>1, <2>2
    <2> QED BY <2>3, IsSeq
  <1>9. /\ DOMAIN new = DOMAIN ids \cup owners
        /\ \A i \in owners : new[i] \in 1 .. len /\ made[new[i]].owner = i
        /\ \A i \in DOMAIN ids \ owners : new[i] = ids[i]
    <2> HIDE DEF made, ids
    <2>1. AreIdsAfter(IdsAfter(ids, made), ids, made)
      BY <1>8, IdsAfterIs
    <2> QED BY <1>8, <2>1 DEF AreIdsAfter
  <1>10. /\ tree' \in [Maps -> Seq(Elements)] /\ DOMAIN treeIds' = Maps /\ DOMAIN told' = Maps
         /\ tree'[m] = made /\ treeIds'[m] = new
         /\ told'[m] = [i \in DOMAIN told[m] |-> box[collect[m][i]]]
         /\ \A n \in Maps \ {m} :
               tree'[n] = tree[n] /\ treeIds'[n] = treeIds[n] /\ told'[n] = told[n]
    <2> HIDE DEF Made
    <2> QED BY <1>1, <1>3, <1>4, <1>8 DEF VarsTypeOK, MapsInv
  <1> HIDE DEF made, new, ids, t, Cmp, Made
  <1>11. TypeOK'
    <2>1. VarsTypeOK'
      BY <1>1, <1>3, <1>10 DEF VarsTypeOK
    <2>2. \A n \in Maps \ {m} : MapTypeOK(n)'
      BY <1>1, <1>3, <1>10 DEF MapTypeOK
    <2>3. MapTypeOK(m)'
      <3>1. Len(t) <= allocated[m] /\ Len(t) \in Nat
        BY <1>2 DEF MapTypeOK, t
      <3>2. Len(tree'[m]) <= allocated[m]
        BY <1>2, <1>6, <1>8, <1>10, <3>1 DEF IsOrder
      <3>3. \A i \in owners : i \in 1 .. allocated[m]
        BY <1>2, <1>7, <1>8 DEF Owners
      <3>4. DOMAIN new \subseteq 1 .. allocated[m]
        BY <1>2, <1>9, <3>3 DEF MapTypeOK, ids
      <3>5. \A i \in DOMAIN new : new[i] \in Nat
        <4>1. \A i \in owners : new[i] \in Nat
          BY <1>9
        <4>2. \A i \in DOMAIN ids : ids[i] \in Nat
          BY <1>2 DEF MapTypeOK, ids
        <4> HIDE DEF owners
        <4> QED BY <1>9, <4>1, <4>2
      <3>6. \A i \in DOMAIN told'[m] : told'[m][i] \in Spots
        BY <1>1, <1>2, <1>10 DEF MapTypeOK, VarsTypeOK
      <3>7. DOMAIN told'[m] = DOMAIN told[m]
        BY <1>10
      <3> QED BY <1>2, <1>3, <1>10, <3>2, <3>4, <3>5, <3>6, <3>7 DEF MapTypeOK
    <2> QED BY <2>1, <2>2, <2>3, TypeIs
  <1>12. MapsInv' /\ IndexInv'
    BY <1>1, <1>3, <1>10 DEF MapsInv, IndexInv
  <1>13. TablesAreAlive'
    BY <1>1, <1>3 DEF TablesAreAlive
  <1>14. TreeInv'
    <2>1. ASSUME NEW n \in Maps \ {m}
          PROVE  /\ \A q \in 1 .. Len(tree'[n]) : ElementOK(n, tree[n][q])'
                 /\ \A j \in DOMAIN collect'[n] : StaticOK(n, j)'
      <3>1. tree'[n] = tree[n] /\ treeIds'[n] = treeIds[n] /\ told'[n] = told[n]
        BY <1>10
      <3> QED BY <1>1, <1>3, <3>1 DEF TreeInv, ElementOK, StaticOK
    <2>2. ASSUME NEW k \in 1 .. Len(tree'[m]) PROVE ElementOK(m, tree[m][k])'
      <3>1. k \in 1 .. len
        BY <1>8, <1>10
      <3> DEFINE c == Cmp(o, k)
      <3>2. /\ c \in Cmps /\ MapOf[c] = m /\ uniqueIndex[c] # NoIndex
            /\ uniqueIndex[c] <= allocated[m]
            /\ made[k].cmp = c /\ made[k].owner = uniqueIndex[c]
        BY <1>7, <3>1
      <3> HIDE DEF c
      <3>3. uniqueIndex[c] \in DOMAIN collect[m] => collect[m][uniqueIndex[c]] = c
        BY <3>2, RegisteredIs DEF IsRegistered
      <3> QED BY <1>3, <1>10, <3>2, <3>3 DEF ElementOK
    <2>3. ASSUME NEW i \in DOMAIN collect[m] PROVE StaticOK(m, i)'
      <3> DEFINE c == collect[m][i]
      <3>1. StaticOK(m, i) /\ alive[c] /\ uniqueIndex[c] = i
        BY <1>1 DEF TreeInv, TablesAreAlive
      <3>2. CASE ~static[c]
        BY <1>3, <1>10, <3>1, <3>2 DEF StaticOK
      <3>3. CASE static[c]
        <4>1. ids[i] \in 1 .. Len(t) /\ t[ids[i]].owner = i
          BY <3>1, <3>3 DEF StaticOK, Home, ids, t
        <4>2. t[ids[i]].cmp = c
          BY <1>1, <4>1 DEF TreeInv, ElementOK, t
        <4>3. ids[i] \in Receivers(m)
          BY <3>1, <4>1, <4>2 DEF Receivers, t
        <4>4. PICK k \in 1 .. len : o[k] = ids[i]
          BY <1>6, <4>3 DEF IsOrder
        <4>5. Cmp(o, k) = c
          BY <4>2, <4>4 DEF Cmp
        <4>6. made[k].owner = i /\ made[k].box = box[c]
          BY <1>7, <3>1, <4>5
        <4>7. Home(made, new, i)
          BY <1>8, <1>9, <4>6 DEF Home, Owners
        <4>8. Kept(made, i, box[c])
          BY <1>8, <4>6 DEF Kept
        <4>9. i \in DOMAIN told[m] /\ told'[m][i] = box[c] /\ i \in DOMAIN told'[m]
          BY <1>10, <3>1, <3>3 DEF StaticOK
        <4> QED BY <1>3, <1>10, <3>3, <4>7, <4>8, <4>9 DEF StaticOK
      <3> QED BY <3>2, <3>3
    <2> QED BY <1>3, <2>1, <2>2, <2>3 DEF TreeInv
  <1> QED BY <1>11, <1>12, <1>13, <1>14 DEF SafeInv

LEMMA StepSafe == SafeInv /\ [Next]_vars => SafeInv'
  <1> SUFFICES ASSUME SafeInv, [Next]_vars PROVE SafeInv'
    OBVIOUS
  <1>1. ASSUME NEW c \in Cmps, RegisterSelf(c) PROVE SafeInv'
    BY <1>1, RegisterSafe
  <1>2. ASSUME NEW c \in Cmps, ReupdateSelfBound(c) PROVE SafeInv'
    BY <1>2, ReupdateSafe
  <1>3. ASSUME NEW c \in Cmps, UnregisterSelf(c) PROVE SafeInv'
    BY <1>3, UnregisterSafe
  <1>4. ASSUME NEW c \in Cmps, Destroy(c) PROVE SafeInv'
    BY <1>4, DestroySafe
  <1>5. ASSUME NEW c \in Cmps, Move(c) \/ SetStatic(c) \/ AskRecollect(c) PROVE SafeInv'
    BY <1>5, MoveSafe, SetStaticSafe, AskRecollectSafe
  <1>6. ASSUME NEW m \in Maps, Clear(m) \/ Rebuild(m) PROVE SafeInv'
    BY <1>6, ClearSafe, RebuildSafe
  <1>7. ASSUME NEW drawn \in SUBSET Cmps, NativeTick(drawn) PROVE SafeInv'
    BY <1>7, CollectSafe DEF NativeTick
  <1>8. CASE UNCHANGED vars
    BY <1>8, StutterSafe
  <1>9. ASSUME NEW c \in Cmps, CollectMinimapDrawElement(c) PROVE SafeInv'
    BY <1>9, CollectSafe DEF CollectMinimapDrawElement
  <1> QED BY <1>1, <1>2, <1>3, <1>4, <1>5, <1>6, <1>7, <1>8, <1>9 DEF Next

(* Everything below is read off this invariant.                              *)
THEOREM Safe == Spec => []SafeInv
  BY InitSafe, StepSafe, PTL DEF Spec

(* The value of every variable, and no octree with more elements than        *)
(* indexes were given (RegisterSelf ... RebuildAllElenments).                *)
THEOREM TypeCorrect == Spec => []TypeOK
  <1>1. SafeInv => TypeOK
    BY DEF SafeInv
  <1> QED BY <1>1, Safe, PTL

(* No entry of a destroyed component is left in CollectComponents or         *)
(* DynamicCollectComponents, and the two tables agree.                       *)
THEOREM TablesAlive == Spec => []TablesAreAlive
  <1>1. SafeInv => TablesAreAlive
    BY DEF SafeInv
  <1> QED BY <1>1, Safe, PTL

(* AllocatedIndex is never reset: a SubSortIndex that was cached under an    *)
(* index is neither key nor index of another component of the map, whatever  *)
(* was removed, cleared or registered since.                                 *)
THEOREM KeysNotReused == Spec => []KeysAreNotReused
  <1>1. SafeInv => KeysAreNotReused
    BY DEF SafeInv, IndexInv, KeysAreNotReused
  <1> QED BY <1>1, Safe, PTL

(* UpdateElement is given the place of the component's own element.          *)
THEOREM IdsLeadHome == Spec => []IdsPointHome
  <1>1. SafeInv => IdsPointHome
    <2> SUFFICES ASSUME SafeInv, NEW c \in Cmps, IsRegistered(c), static[c]
                 PROVE  LET ids == treeIds[MapOf[c]]
                            i == uniqueIndex[c]
                        IN  /\ i \in DOMAIN ids
                            /\ ids[i] \in 1 .. Len(tree[MapOf[c]])
                            /\ LET e == tree[MapOf[c]][ids[i]] IN e.cmp = c /\ e.owner = i
      BY DEF IdsPointHome
    <2> DEFINE m == MapOf[c]
               i == uniqueIndex[c]
    <2>1. m \in Maps /\ i \in DOMAIN collect[m] /\ collect[m][i] = c
      BY RegisteredIs
    <2>2. Home(tree[m], treeIds[m], i)
      BY <2>1 DEF SafeInv, TreeInv, StaticOK
    <2>3. tree[m][treeIds[m][i]].cmp = c
      BY <2>1, <2>2 DEF Home, SafeInv, TreeInv, ElementOK
    <2> QED BY <2>2, <2>3 DEF Home
  <1> QED BY <1>1, Safe, PTL

(* GetCollectCmpOverlapBox finds every registered component, wherever the    *)
(* octree has put its element.                                               *)
THEOREM AllFound == Spec => []RegisteredIsFound
  <1>1. SafeInv => RegisteredIsFound
    <2> SUFFICES ASSUME SafeInv, NEW c \in Cmps, NEW view \in SUBSET Spots, IsRegistered(c),
                        (IF static[c] THEN told[MapOf[c]][uniqueIndex[c]] ELSE box[c]) \in view
                 PROVE  c \in Found(MapOf[c], view)
      BY DEF RegisteredIsFound
    <2> DEFINE m == MapOf[c]
               i == uniqueIndex[c]
    <2>1. m \in Maps /\ i \in DOMAIN collect[m] /\ collect[m][i] = c /\ alive[c]
      BY RegisteredIs
    <2>2. CASE static[c]
      <3>1. Kept(tree[m], i, told[m][i])
        BY <2>1, <2>2 DEF SafeInv, TreeInv, StaticOK
      <3>2. PICK p \in 1 .. Len(tree[m]) : tree[m][p].owner = i /\ tree[m][p].box = told[m][i]
        BY <3>1 DEF Kept
      <3>3. tree[m][p].cmp = c
        BY <2>1, <3>2 DEF SafeInv, TreeInv, ElementOK
      <3> QED BY <2>1, <2>2, <3>2, <3>3 DEF Found
    <2>3. CASE ~static[c]
      <3>1. i \in DOMAIN dynamic[m] /\ dynamic[m][i] = c
        BY <2>1, <2>3 DEF SafeInv, TablesAreAlive
      <3> QED BY <2>3, <3>1 DEF Found
    <2> QED BY <2>2, <2>3
  <1> QED BY <1>1, Safe, PTL
================================================================================
