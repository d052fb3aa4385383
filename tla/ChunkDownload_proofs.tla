-------------------------- MODULE ChunkDownload_proofs --------------------------
(***************************************************************************)
(* What ChunkDownload promises for every size, every number of threads and *)
(* every number of starts: its variables keep their types; and as long as  *)
(* no block begins beyond the largest int and no thread of an earlier      *)
(* start interferes, the progress on disk is never ahead of the data and   *)
(* never lost, a file of the server's length is the server's file, the     *)
(* counter is exact, and all of it together is a ResumableFile.            *)
(***************************************************************************)
EXTENDS ChunkDownload, FiniteSetTheorems, TLAPS

USE SizesAssumption

--------------------------------------------------------------------------------
(* Numbers.                                                                  *)

LEMMA CntNat == Cnt \in Nat
  <1>1. FileSize + BlockSize - 1 \in Nat
    OBVIOUS
  <1>2. \A a \in Nat, b \in Nat \ {0} : a \div b \in Nat
    BY SMT
  <1> QED BY <1>1, <1>2 DEF Cnt

LEMMA FromToInt ==
    \A i \in Chunks : From(i) \in Int /\ To(i) \in Int /\ To(i) + 1 <= FileSize
  <1> SUFFICES ASSUME NEW i \in Chunks
               PROVE  From(i) \in Int /\ To(i) \in Int /\ To(i) + 1 <= FileSize
    OBVIOUS
  <1>1. i \in Nat
    BY CntNat DEF Chunks
  <1>2. BlockSize * i \in Int
    BY <1>1
  <1>3. \A x \in Int : Int32(x) \in Int
    BY SMT DEF Int32
  <1>4. From(i) \in Int
    BY <1>2, <1>3 DEF From
  <1> QED BY <1>4 DEF To, Min2

(* Without overflow a block begins where it should, and blocks are disjoint. *)
NoOverflow == \A i \in Chunks : BlockSize * i < IntMod \div 2

LEMMA FromExact ==
  ASSUME NoOverflow, NEW i \in Chunks
  PROVE  From(i) = BlockSize * i /\ From(i) >= 0
  <1>1. i \in Nat
    BY CntNat DEF Chunks
  <1>2. BlockSize * i \in Nat
    BY <1>1, SMT
  <1>3. \A m \in Nat \ {0}, x \in Nat : (m % 2 = 0 /\ x < m \div 2) =>
            ((x + m \div 2) % m) - m \div 2 = x
    BY SMT
  <1> QED BY <1>2, <1>3 DEF NoOverflow, From, Int32

(* A block lies inside the file.                                             *)
LEMMA BlockInside ==
  ASSUME NoOverflow, NEW i \in Chunks
  PROVE  From(i) \in Nat /\ To(i) \in Int /\ From(i) <= To(i) /\ To(i) + 1 <= FileSize
  <1>1. i \in Nat /\ i < Cnt /\ Cnt \in Nat
    BY CntNat DEF Chunks
  <1>2. \A a \in Nat, b \in Nat \ {0} : b * (a \div b) <= a
    BY SMT
  <1>3. BlockSize * Cnt <= FileSize + BlockSize - 1
    BY <1>2 DEF Cnt
  <1>4. BlockSize * i + BlockSize <= BlockSize * Cnt
    <2>1. \A a, x, y \in Nat : x + 1 <= y => a * x + a <= a * y
      <3> SUFFICES ASSUME NEW a \in Nat, NEW x \in Nat, NEW y \in Nat, x + 1 <= y
                   PROVE  a * x + a <= a * y
        OBVIOUS
      <3>1. a * (x + 1) <= a * y
        BY SMT
      <3> QED BY <3>1, SMT
    <2> QED BY <1>1, <2>1
  <1>5. From(i) = BlockSize * i /\ From(i) >= 0 /\ From(i) \in Int /\ To(i) + 1 <= FileSize /\ To(i) \in Int
    BY FromExact, FromToInt
  <1>6. \A m \in Int : From(i) = m /\ m + BlockSize <= FileSize + BlockSize - 1 => From(i) <= To(i)
    BY <1>5 DEF To, Min2
  <1>7. BlockSize * i \in Int /\ BlockSize * Cnt \in Int
    BY <1>1
  <1> QED BY <1>3, <1>4, <1>5, <1>6, <1>7

LEMMA BlocksDisjoint ==
  ASSUME NoOverflow, NEW i \in Chunks, NEW j \in Chunks, NEW b \in Int,
         From(i) <= b, b <= To(i), From(j) <= b, b <= To(j)
  PROVE  i = j
  <1>1. i \in Nat /\ j \in Nat
    BY CntNat DEF Chunks
  <1>2. \A x, y \in Nat : x < y => BlockSize * x + BlockSize <= BlockSize * y
    <2> SUFFICES ASSUME NEW x \in Nat, NEW y \in Nat, x < y
                 PROVE  BlockSize * x + BlockSize <= BlockSize * y
      OBVIOUS
    <2>1. BlockSize * (x + 1) <= BlockSize * y
      BY SMT
    <2> QED BY <2>1, SMT
  <1>3. b <= BlockSize * i + BlockSize - 1 /\ b <= BlockSize * j + BlockSize - 1
    BY <1>1, FromExact DEF To, Min2
  <1>4. BlockSize * i <= b /\ BlockSize * j <= b
    BY FromExact
  <1>5. BlockSize * i \in Int /\ BlockSize * j \in Int
    BY <1>1
  <1> QED BY <1>1, <1>2, <1>3, <1>4, <1>5

--------------------------------------------------------------------------------
(* What is recorded, as a finite set of pairs.                               *)

LEMMA RecordedPairs ==
  ASSUME NEW p
  PROVE  /\ \A i, b : <<i, b>> \in Recorded(p) <=> i \in Chunks /\ b \in From(i) .. p[i] - 1
         /\ \A x \in Recorded(p) : x = <<x[1], x[2]>>
  BY DEF Recorded

Within(p) == \A i \in Chunks : p[i] <= To(i) + 1 \/ p[i] <= From(i)

LEMMA RecordedFinite ==
  ASSUME NEW p \in [Chunks -> Int], Within(p)
  PROVE  IsFiniteSet(Recorded(p)) /\ Cardinality(Recorded(p)) \in Nat
  <1> DEFINE Low == -(IntMod \div 2)
  <1>1. Low \in Int /\ \A x \in Int : Low <= Int32(x)
    BY SMT DEF Int32
  <1>2. \A i \in Chunks : From(i) \in Int /\ To(i) \in Int /\ To(i) + 1 <= FileSize
    BY FromToInt
  <1>3. \A i \in Chunks : Low <= From(i)
    BY <1>1, CntNat DEF From, Chunks
  <1>4. Recorded(p) \subseteq Chunks \X (Low .. FileSize)
    <2> SUFFICES ASSUME NEW x \in Recorded(p) PROVE x \in Chunks \X (Low .. FileSize)
      OBVIOUS
    <2>1. PICK i \in Chunks : x \in {i} \X (From(i) .. p[i] - 1)
      BY DEF Recorded
    <2>2. x[1] = i /\ x[2] \in From(i) .. p[i] - 1 /\ x = <<x[1], x[2]>>
      BY <2>1
    <2>3. x[2] \in Low .. FileSize
      BY <1>1, <1>2, <1>3, <2>2 DEF Within
    <2> QED BY <2>2, <2>3
  <1>5. IsFiniteSet(Chunks) /\ IsFiniteSet(Low .. FileSize)
    BY <1>1, CntNat, FS_Interval DEF Chunks
  <1>6. IsFiniteSet(Chunks \X (Low .. FileSize))
    BY <1>5, FS_Product
  <1> QED BY <1>4, <1>6, FS_Subset, FS_CardinalityType

(* A column of n pairs has n elements, and adds them where it is new.        *)
Column(x, a, n) == {x} \X (a .. a + n - 1)

LEMMA ColumnCard ==
  ASSUME NEW x, NEW a \in Int, NEW n \in Nat
  PROVE  IsFiniteSet(Column(x, a, n)) /\ Cardinality(Column(x, a, n)) = n
  <1>1. IsFiniteSet({x}) /\ Cardinality({x}) = 1
    BY FS_Singleton
  <1>2. IsFiniteSet(a .. a + n - 1) /\ Cardinality(a .. a + n - 1) = n
    BY FS_Interval
  <1>3. \A A, B : IsFiniteSet(A) /\ IsFiniteSet(B) =>
            IsFiniteSet(A \X B) /\ Cardinality(A \X B) = Cardinality(A) * Cardinality(B)
    BY FS_Product
  <1>4. /\ IsFiniteSet(Column(x, a, n))
        /\ Cardinality(Column(x, a, n)) = Cardinality({x}) * Cardinality(a .. a + n - 1)
    BY ONLY <1>1, <1>2, <1>3 DEF Column
  <1>5. 1 * n = n
    OBVIOUS
  <1> QED BY ONLY <1>1, <1>2, <1>4, <1>5

LEMMA AddColumn ==
  ASSUME NEW S, IsFiniteSet(S), NEW x, NEW a \in Int, NEW n \in Nat, S \cap Column(x, a, n) = {}
  PROVE  /\ IsFiniteSet(S \cup Column(x, a, n))
         /\ Cardinality(S \cup Column(x, a, n)) = Cardinality(S) + n
  <1>1. IsFiniteSet(Column(x, a, n)) /\ Cardinality(Column(x, a, n)) = n
    BY ColumnCard
  <1>2. Cardinality(S \cap Column(x, a, n)) = 0
    BY FS_EmptySet
  <1>3. /\ IsFiniteSet(S \cup Column(x, a, n))
        /\ Cardinality(S \cup Column(x, a, n))
              = Cardinality(S) + Cardinality(Column(x, a, n)) - Cardinality(S \cap Column(x, a, n))
    BY <1>1, FS_Union
  <1>4. Cardinality(S) \in Nat
    BY FS_CardinalityType
  <1> QED BY <1>1, <1>2, <1>3, <1>4

(* n more bytes of one block are n more pairs.                               *)
LEMMA RecordedGrows ==
  ASSUME NEW p \in [Chunks -> Int], Within(p), NEW i \in Chunks, NEW n \in Nat, From(i) <= p[i],
         NEW q, q = [p EXCEPT ![i] = @ + n]
  PROVE  Cardinality(Recorded(q)) = Cardinality(Recorded(p)) + n
  <1> DEFINE C == Column(i, p[i], n)
  <1>1. p[i] \in Int /\ \A j \in Chunks : From(j) \in Int
    BY FromToInt
  <1>2. q[i] = p[i] + n /\ \A j \in Chunks : j # i => q[j] = p[j]
    OBVIOUS
  <1>3. Recorded(q) = Recorded(p) \cup C
    <2>1. ASSUME NEW x \in Recorded(q) PROVE x \in Recorded(p) \cup C
      <3>1. PICK j \in Chunks : x \in {j} \X (From(j) .. q[j] - 1)
        BY DEF Recorded
      <3>2. CASE j = i
        BY <1>1, <1>2, <3>1, <3>2 DEF Recorded, Column
      <3>3. CASE j # i
        BY <1>1, <1>2, <3>1, <3>3 DEF Recorded
      <3> QED BY <3>2, <3>3
    <2>2. ASSUME NEW x \in Recorded(p) PROVE x \in Recorded(q)
      <3>1. PICK j \in Chunks : x \in {j} \X (From(j) .. p[j] - 1)
        BY DEF Recorded
      <3>2. From(j) .. p[j] - 1 \subseteq From(j) .. q[j] - 1
        BY <1>1, <1>2
      <3> QED BY <3>1, <3>2 DEF Recorded
    <2>3. ASSUME NEW x \in C PROVE x \in Recorded(q)
      <3>1. x \in {i} \X (From(i) .. q[i] - 1)
        BY <1>1, <1>2, <2>3 DEF Column
      <3> QED BY <3>1 DEF Recorded
    <2> QED BY <2>1, <2>2, <2>3
  <1>4. Recorded(p) \cap C = {}
    <2> SUFFICES ASSUME NEW x \in Recorded(p), x \in C PROVE FALSE
      OBVIOUS
    <2>1. PICK j \in Chunks : x \in {j} \X (From(j) .. p[j] - 1)
      BY DEF Recorded
    <2>2. x[1] = j /\ x[2] \in From(j) .. p[j] - 1 /\ x[1] = i /\ x[2] \in p[i] .. p[i] + n - 1
      BY <2>1 DEF Column
    <2> QED BY <1>1, <2>2
  <1>5. IsFiniteSet(Recorded(p))
    BY RecordedFinite
  <1>6. Cardinality(Recorded(p) \cup C) = Cardinality(Recorded(p)) + n
    BY <1>1, <1>4, <1>5, AddColumn
  <1> QED BY <1>3, <1>6

(* Bytes of disjoint blocks: what is recorded are different offsets of the   *)
(* file.                                                                     *)
LEMMA RecordedOffsets ==
  ASSUME NoOverflow, NEW p \in [Chunks -> Int], Within(p)
  PROVE  /\ [x \in Recorded(p) |-> x[2]] \in Injection(Recorded(p), Bytes)
         /\ \A x \in Recorded(p) : x[1] \in Chunks /\ From(x[1]) <= x[2] /\ x[2] < p[x[1]]
  <1> DEFINE R == Recorded(p)
             f == [x \in R |-> x[2]]
  <1>1. \A i \in Chunks : /\ From(i) \in Int /\ From(i) >= 0
                          /\ To(i) \in Int /\ To(i) + 1 <= FileSize
                          /\ p[i] \in Int
    BY FromToInt, FromExact
  <1>2. ASSUME NEW x \in R
        PROVE  /\ x = <<x[1], x[2]>> /\ x[1] \in Chunks /\ x[2] \in Bytes
               /\ From(x[1]) <= x[2] /\ x[2] <= To(x[1]) /\ x[2] < p[x[1]]
    <2>1. x = <<x[1], x[2]>>
      BY RecordedPairs
    <2>2. x[1] \in Chunks /\ x[2] \in From(x[1]) .. p[x[1]] - 1
      BY <2>1, RecordedPairs
    <2> QED BY <1>1, <2>1, <2>2 DEF Within, Bytes
  <1>3. f \in [R -> Bytes]
    BY <1>2
  <1>4. ASSUME NEW x \in R, NEW y \in R, f[x] = f[y] PROVE x = y
    <2>1. x[2] = y[2] /\ x[2] \in Int
      BY <1>2, <1>4 DEF Bytes
    <2>2. x[1] = y[1]
      BY <1>2, <2>1, BlocksDisjoint
    <2> QED BY <1>2, <2>1, <2>2
  <1>5. f \in Injection(R, Bytes)
    BY <1>3, <1>4 DEF Injection, IsInjective
  <1> QED BY <1>2, <1>5

(* The file has FileSize bytes.                                              *)
LEMMA BytesFinite == IsFiniteSet(Bytes) /\ Cardinality(Bytes) = FileSize
  BY FS_Interval DEF Bytes

(* No list records more than the file has, ...                               *)
LEMMA RecordedAtMost ==
  ASSUME NoOverflow, NEW p \in [Chunks -> Int], Within(p)
  PROVE  Cardinality(Recorded(p)) \in Nat /\ Cardinality(Recorded(p)) <= FileSize
  <1>1. Cardinality(Recorded(p)) \in Nat
    BY RecordedFinite
  <1>2. Cardinality(Recorded(p)) <= Cardinality(Bytes)
    BY RecordedOffsets, BytesFinite, FS_Injection
  <1> QED BY <1>1, <1>2, BytesFinite

(* ... and when as many bytes are recorded as the file has, all of them are. *)
LEMMA AllRecorded ==
  ASSUME NoOverflow, NEW p \in [Chunks -> Int], Within(p), Cardinality(Recorded(p)) >= FileSize,
         NEW b \in Bytes
  PROVE  \E i \in Chunks : From(i) <= b /\ b < p[i]
  <1> DEFINE R == Recorded(p)
             f == [x \in R |-> x[2]]
  <1>1. f \in Injection(R, Bytes) /\ \A x \in R : x[1] \in Chunks /\ From(x[1]) <= x[2] /\ x[2] < p[x[1]]
    BY RecordedOffsets
  <1>2. Cardinality(R) = Cardinality(Bytes)
    BY RecordedAtMost, BytesFinite
  <1>3. f \in Surjection(R, Bytes)
    BY <1>1, <1>2, BytesFinite, FS_Injection
  <1>4. PICK x \in R : f[x] = b
    BY <1>3 DEF Surjection
  <1> QED BY <1>1, <1>4

(* A list at its beginnings records nothing, ...                            *)
LEMMA StartsRecorded == Cardinality(Recorded([i \in Chunks |-> From(i)])) = 0
  <1>1. Recorded([i \in Chunks |-> From(i)]) = {}
    <2>1. \A i \in Chunks : From(i) .. From(i) - 1 = {}
      BY FromToInt
    <2> QED BY <2>1 DEF Recorded
  <1> QED BY <1>1, FS_EmptySet

(* ... and one at its ends the whole file.                                  *)
LEMMA EndsRecorded ==
  ASSUME NoOverflow
  PROVE  Cardinality(Recorded([i \in Chunks |-> To(i) + 1])) = FileSize
  <1> DEFINE p == [i \in Chunks |-> To(i) + 1]
             R == Recorded(p)
             g == [b \in Bytes |-> <<b \div BlockSize, b>>]
  <1>1. p \in [Chunks -> Int] /\ Within(p)
    BY FromToInt DEF Within
  <1>2. ASSUME NEW b \in Bytes PROVE <<b \div BlockSize, b>> \in R
    <2>1. PICK i : i = b \div BlockSize
      OBVIOUS
    <2>2. \A x \in Nat, y \in Nat \ {0} : /\ x \div y \in Nat
                                         /\ y * (x \div y) <= x
                                         /\ x < y * (x \div y) + y
      BY SMT
    <2>3. b \in Nat /\ b < FileSize
      BY DEF Bytes
    <2>4. i \in Nat /\ BlockSize * i <= b /\ b < BlockSize * i + BlockSize
      BY <2>1, <2>2, <2>3
    <2>5. i \in Chunks
      <3>1. Cnt \in Nat /\ FileSize + BlockSize - 1 < BlockSize * Cnt + BlockSize
        BY <2>2, CntNat DEF Cnt
      <3>2. ~(Cnt <= i)
        <4> SUFFICES ASSUME Cnt <= i PROVE FALSE
          OBVIOUS
        <4>1. \A a, x, y \in Nat : x <= y => a * x <= a * y
          BY SMT
        <4>2. BlockSize * Cnt <= BlockSize * i
          BY <2>4, <3>1, <4>1
        <4>3. BlockSize * Cnt \in Int /\ BlockSize * i \in Int
          BY <2>4, <3>1
        <4> QED BY <2>3, <2>4, <3>1, <4>2, <4>3
      <3> QED BY <2>4, <3>1, <3>2 DEF Chunks
    <2>6. From(i) = BlockSize * i /\ From(i) \in Int
      BY <2>5, FromExact, FromToInt
    <2>7. b <= To(i) /\ To(i) \in Int
      <3>1. \A m \in Int : m = From(i) /\ b < m + BlockSize => b <= To(i)
        BY <2>3 DEF To, Min2
      <3> QED BY <2>4, <2>5, <2>6, <3>1, FromToInt
    <2>8. b \in From(i) .. p[i] - 1
      BY <2>3, <2>4, <2>5, <2>6, <2>7
    <2> HIDE DEF p
    <2>9. <<i, b>> \in R
      BY <2>5, <2>8, RecordedPairs
    <2> QED BY <2>1, <2>9
  <1>3. g \in [Bytes -> R]
    BY <1>2
  <1>4. ASSUME NEW a \in Bytes, NEW b \in Bytes, g[a] = g[b] PROVE a = b
    BY <1>4
  <1>5. g \in Injection(Bytes, R)
    BY <1>3, <1>4 DEF Injection, IsInjective
  <1>6. IsFiniteSet(Bytes) /\ Cardinality(Bytes) = FileSize
    BY BytesFinite
  <1>7. IsFiniteSet(R)
    BY <1>1, RecordedFinite
  <1> HIDE DEF p, g
  <1>8. Cardinality(R) <= FileSize /\ Cardinality(R) \in Nat
    BY <1>1, RecordedAtMost
  <1>9. FileSize <= Cardinality(R)
    BY <1>5, <1>6, <1>7, FS_Injection
  <1>10. Cardinality(R) = FileSize
    BY <1>8, <1>9
  <1> QED BY <1>10 DEF p

--------------------------------------------------------------------------------
(* Types.  The conjuncts after the first are what makes TypeOK inductive:    *)
(* who has a block has a real one, and who reads a response writes at a      *)
(* nonnegative offset (AddRange refuses any other).                          *)
HasChunk == {"chunk", "open", "stream", "count"}

TypeInv ==
    /\ TypeOK
    /\ host # "idle" => starts >= 1
    /\ host = "meta" => listOf = starts
    /\ \A t \in Thread : pc[t] # "none" => listOf >= 1
    /\ \A t \in Thread : pc[t] \in HasChunk => chunk[t] \in (1 .. MaxStarts) \X Chunks
    /\ \A t \in Thread : pc[t] \in {"stream", "count"} => Curr(t) >= 0

LEMMA InitTypeInv == Init => TypeInv
  <1> SUFFICES ASSUME Init PROVE TypeInv
    OBVIOUS
  <1> USE CntNat DEF Init
  <1>1. good \subseteq Bytes
    OBVIOUS
  <1>2. nextIdx \in 0 .. Cnt
    OBVIOUS
  <1>3. TypeOK
    <2>1. meta \in [Chunks -> Int] /\ curr \in [1 .. MaxStarts -> [Chunks -> Int]]
      OBVIOUS
    <2>2. mark \in BOOLEAN /\ interfered \in BOOLEAN
      OBVIOUS
    <2>3. pc \in [Thread -> ThreadPC] /\ chunk \in [Thread -> {NoChunk} \cup ((1 .. MaxStarts) \X Chunks)]
      BY DEF ThreadPC
    <2>4. pend \in [Thread -> Int] /\ inc \in [Thread -> Nat]
      BY DEF NoMeta
    <2>5. len \in {"absent", "data", "full", "other"} /\ host \in HostPC
      BY DEF HostPC
    <2>6. starts \in 0 .. MaxStarts /\ listOf \in 0 .. starts /\ total \in {0, FileSize} /\ current \in Int
      OBVIOUS
    <2>7. doomed \subseteq Thread
      OBVIOUS
    <2> QED BY <1>1, <1>2, <2>1, <2>2, <2>3, <2>4, <2>5, <2>6, <2>7 DEF TypeOK
  <1>4. host = "idle" /\ \A t \in Thread : pc[t] = "none"
    OBVIOUS
  <1> QED BY ONLY <1>3, <1>4 DEF TypeInv, HasChunk

(* A write of n >= 1 bytes stays inside the file.                            *)
LEMMA WriteInside ==
  ASSUME TypeInv, NEW t \in Thread, NEW n \in 1 .. MaxRead, Write(t, n)
  PROVE  /\ chunk[t][1] \in 1 .. MaxStarts
         /\ chunk[t][2] \in Chunks
         /\ Curr(t) \in Nat
         /\ Curr(t) + n <= FileSize
         /\ (Curr(t) .. Curr(t) + n - 1) \subseteq Bytes
  <1>1. chunk[t] \in (1 .. MaxStarts) \X Chunks
    BY DEF TypeInv, HasChunk, Write
  <1>2. chunk[t][1] \in 1 .. MaxStarts /\ chunk[t][2] \in Chunks
    BY <1>1
  <1>3. Curr(t) \in Int
    BY <1>2 DEF TypeInv, TypeOK, Curr
  <1>4. Curr(t) >= 0
    BY DEF TypeInv, Write
  <1>5. Curr(t) + n <= To(chunk[t][2]) + 1
    BY DEF Write
  <1>6. To(chunk[t][2]) + 1 <= FileSize /\ To(chunk[t][2]) \in Int
    BY <1>2, FromToInt
  <1> QED BY <1>2, <1>3, <1>4, <1>5, <1>6 DEF Bytes

(* Adding to one block's progress.                                           *)
LEMMA AddToBlock ==
  ASSUME NEW S, NEW T, NEW f \in [S -> [T -> Int]], NEW s \in S, NEW i \in T, NEW n \in Int,
         NEW g, g = [f EXCEPT ![s][i] = @ + n]
  PROVE  /\ g \in [S -> [T -> Int]]
         /\ g[s][i] = f[s][i] + n
         /\ \A r \in S : r # s => g[r] = f[r]
         /\ \A r \in S, j \in T : (r # s \/ j # i) => g[r][j] = f[r][j]
  <1>1. f[s][i] + n \in Int
    OBVIOUS
  <1>2. g = [f EXCEPT ![s] = [f[s] EXCEPT ![i] = f[s][i] + n]]
    OBVIOUS
  <1>3. [f[s] EXCEPT ![i] = f[s][i] + n] \in [T -> Int]
    BY <1>1
  <1> QED BY <1>1, <1>2, <1>3

LEMMA NextTypeInv == TypeInv /\ [Next]_vars => TypeInv'
  <1> SUFFICES ASSUME TypeInv, [Next]_vars PROVE TypeInv'
    OBVIOUS
  <1> USE CntNat
  <1> USE DEF TypeInv, HasChunk
  <1>t. TypeOK
    OBVIOUS
  <1>1. CASE Start
    <2>1. TypeOK'
      BY <1>1, <1>t DEF TypeOK, Start, AbortAll, HostPC, fileVars, ListThreads
    <2> QED BY <2>1, <1>1, <1>t DEF TypeOK, Start, AbortAll, fileVars, Curr
  <1>2. CASE HeadFails
    <2>1. TypeOK'
      BY <1>2, <1>t DEF TypeOK, HeadFails, HostPC, fileVars, threadVars
    <2> QED BY <2>1, <1>2 DEF HeadFails, fileVars, threadVars, Curr
  <1>3. CASE InitSharingViolation
    <2>1. TypeOK'
      BY <1>3, <1>t DEF TypeOK, InitSharingViolation, NewList, HostPC, fileVars, threadVars
    <2> QED BY <2>1, <1>3, <1>t DEF TypeOK, InitSharingViolation, NewList, fileVars, threadVars, Curr
  <1>4. CASE InitResume
    <2>1. current' \in Int
      <3>1. Cardinality(Recorded(meta)) \in Int
        <4>1. Within(meta) /\ meta \in [Chunks -> Int]
          BY <1>4, <1>t DEF InitResume, ValidMeta, TypeOK, Within
        <4> QED BY <4>1, RecordedFinite
      <3> QED BY <3>1, <1>4, <1>t DEF InitResume, TypeOK
    <2>2. starts \in 1 .. MaxStarts
      BY <1>4, <1>t DEF InitResume, NewList, TypeOK
    <2>3. pc' \in [Thread -> ThreadPC]
      BY <1>4, <1>t DEF InitResume, Spawn, TypeOK, ThreadPC
    <2>4. TypeOK'
      BY <1>4, <1>t, <2>1, <2>2, <2>3
      DEF TypeOK, InitResume, NewList, HostPC, fileVars
    <2>5. \A t \in Thread : pc'[t] \notin {"stream", "count"} /\ (pc'[t] \in HasChunk => pc[t] \in HasChunk)
      BY <1>4, <1>t DEF InitResume, Spawn, HasFileOpen, TypeOK
    <2> QED BY <2>2, <2>4, <2>5, <1>4 DEF InitResume, NewList
  <1>5. CASE InitSetLength
    <2>1. starts \in 1 .. MaxStarts
      BY <1>5, <1>t DEF InitSetLength, NewList, TypeOK
    <2>2. curr' \in [1 .. MaxStarts -> [Chunks -> Int]]
      <3>1. [i \in Chunks |-> To(i) + 1] \in [Chunks -> Int] /\ [i \in Chunks |-> From(i)] \in [Chunks -> Int]
        BY FromToInt
      <3>2. curr \in [1 .. MaxStarts -> [Chunks -> Int]]
        BY <1>t DEF TypeOK
      <3> QED BY ONLY <1>5, <2>1, <3>1, <3>2 DEF InitSetLength
    <2>3. meta' \in [Chunks -> Int] /\ mark' \in BOOLEAN
      <3>1. CASE len = "full"
        BY <1>5, <1>t, <3>1 DEF InitSetLength, TypeOK
      <3>2. CASE len # "full"
        <4>1. meta' = [i \in Chunks |-> 0] /\ mark' = FALSE
          BY <1>5, <3>2 DEF InitSetLength
        <4>2. [i \in Chunks |-> 0] \in [Chunks -> Int]
          OBVIOUS
        <4>3. meta' \in [Chunks -> Int]
          BY <4>1, <4>2
        <4> QED BY <4>1, <4>3
      <3> QED BY <3>1, <3>2
    <2>4. TypeOK'
      BY <1>5, <1>t, <2>1, <2>2, <2>3 DEF TypeOK, InitSetLength, NewList, HostPC, threadVars
    <2>5. \A t \in Thread : pc'[t] \notin {"stream", "count"}
      BY <1>5 DEF InitSetLength, HasFileOpen, threadVars
    <2> QED BY <2>1, <2>4, <2>5, <1>5 DEF InitSetLength, NewList, threadVars
  <1>6. CASE InitWriteMeta
    <2>1. starts \in 1 .. MaxStarts
      BY <1>6, <1>t DEF InitWriteMeta, TypeOK
    <2>2. pc' \in [Thread -> ThreadPC]
      BY <1>6, <1>t DEF InitWriteMeta, Spawn, TypeOK, ThreadPC
    <2>3. TypeOK'
      BY <1>6, <1>t, <2>1, <2>2 DEF TypeOK, InitWriteMeta, HostPC
    <2>4. \A t \in Thread : pc'[t] \in HasChunk => pc'[t] = pc[t]
      BY <1>6, <1>t DEF InitWriteMeta, Spawn, TypeOK
    <2> QED BY <2>1, <2>3, <2>4, <1>6, <1>t DEF InitWriteMeta, Curr, TypeOK
  <1>7. CASE AbortDownloadBigFile
    <2>1. TypeOK'
      BY <1>7, <1>t DEF TypeOK, AbortDownloadBigFile, AbortAll, HostPC, fileVars, ListThreads
    <2> QED BY <2>1, <1>7 DEF AbortDownloadBigFile, AbortAll, Curr
  <1>8. CASE PollFinished
    <2>1. TypeOK'
      BY <1>8, <1>t DEF TypeOK, PollFinished, HostPC, fileVars, threadVars
    <2> QED BY <2>1, <1>8 DEF PollFinished, threadVars, Curr
  <1>9. CASE PollCut
    <2>1. TypeOK'
      BY <1>9, <1>t DEF TypeOK, PollCut, HostPC, threadVars
    <2> QED BY <2>1, <1>9 DEF PollCut, threadVars, Curr
  <1>10. ASSUME NEW t \in Thread, ThreadNext(t) PROVE TypeInv'
    <2>f. ASSUME Flush(t) PROVE meta' \in [Chunks -> Int] /\ len' \in {"absent", "data", "full", "other"}
      BY <2>f, <1>t DEF Flush, TypeOK
    <2>1. CASE Take(t)
      <3>1. nextIdx \in Chunks /\ nextIdx' \in 0 .. Cnt
        BY <2>1, <1>t DEF Take, TypeOK, Chunks
      <3>2. listOf \in 1 .. MaxStarts
        BY <2>1, <1>t DEF Take, TypeOK
      <3>3. TypeOK'
        BY <2>1, <1>t, <3>1, <3>2 DEF TypeOK, Take, ThreadPC, fileVars, Interferes, Straggler
      <3> QED BY <2>1, <1>t, <3>1, <3>2, <3>3 DEF Take, TypeOK, Curr
    <2>2. CASE Exit(t)
      <3>1. TypeOK'
        BY <2>2, <1>t DEF TypeOK, Exit, ThreadPC, fileVars, hostVars
      <3> QED BY <2>2, <1>t, <3>1 DEF Exit, TypeOK, Curr, hostVars
    <2>3. CASE ChunkFinished(t)
      <3>1. TypeOK'
        BY <2>3, <1>t DEF TypeOK, ChunkFinished, ThreadPC, fileVars, hostVars
      <3> QED BY <2>3, <1>t, <3>1 DEF ChunkFinished, TypeOK, Curr, hostVars
    <2>4. CASE Open(t)
      <3>1. TypeOK'
        BY <2>4, <1>t DEF TypeOK, Open, ThreadPC, fileVars, hostVars, Interferes, Straggler
      <3> QED BY <2>4, <1>t, <3>1 DEF Open, TypeOK, Curr, hostVars
    <2>5. CASE RequestOk(t)
      <3>1. TypeOK'
        BY <2>5, <1>t DEF TypeOK, RequestOk, ThreadPC, fileVars, hostVars
      <3> QED BY <2>5, <1>t, <3>1 DEF RequestOk, TypeOK, Curr, hostVars
    <2>6. CASE RequestMismatch(t)
      <3>1. TypeOK'
        BY <2>6, <1>t DEF TypeOK, RequestMismatch, ThreadPC, fileVars, hostVars
      <3> QED BY <2>6, <1>t, <3>1 DEF RequestMismatch, TypeOK, Curr, hostVars
    <2>7. CASE RequestFails(t)
      <3>1. TypeOK'
        BY <2>7, <1>t DEF TypeOK, RequestFails, ThreadPC, fileVars, hostVars
      <3> QED BY <2>7, <1>t, <3>1 DEF RequestFails, TypeOK, Curr, hostVars
    <2>8. CASE ReadSome(t)
      <3> PICK n \in 1 .. MaxRead : Write(t, n)
        BY <2>8 DEF ReadSome
      <3>1. /\ chunk[t][1] \in 1 .. MaxStarts /\ chunk[t][2] \in Chunks
            /\ Curr(t) \in Nat
            /\ (Curr(t) .. Curr(t) + n - 1) \subseteq Bytes
        BY WriteInside
      <3>2. meta' \in [Chunks -> Int] /\ len' \in {"absent", "data", "full", "other"}
        BY <2>f DEF Write
      <3>3. curr' = [curr EXCEPT ![chunk[t][1]][chunk[t][2]] = @ + n]
        BY DEF Write
      <3>4. curr' \in [1 .. MaxStarts -> [Chunks -> Int]]
        <4>1. curr \in [1 .. MaxStarts -> [Chunks -> Int]] /\ n \in Int
          BY <1>t DEF TypeOK
        <4> HIDE DEF TypeInv
        <4> QED BY ONLY <4>1, <3>1, <3>3, AddToBlock
      <3>5. TypeOK'
        <4>1. good' \subseteq Bytes
          BY <1>t, <3>1 DEF TypeOK, Write
        <4>2. pend' \in [Thread -> Int] /\ inc' \in [Thread -> Nat]
          BY <1>t, <3>1 DEF TypeOK, Write
        <4> QED BY <1>t, <3>2, <3>4, <4>1, <4>2 DEF TypeOK, Write, ThreadPC, hostVars
      <3>6. \A s \in 1 .. MaxStarts, i \in Chunks : curr'[s][i] >= curr[s][i]
        <4> SUFFICES ASSUME NEW s \in 1 .. MaxStarts, NEW i \in Chunks PROVE curr'[s][i] >= curr[s][i]
          OBVIOUS
        <4>1. curr \in [1 .. MaxStarts -> [Chunks -> Int]] /\ curr[s][i] \in Int
          BY <1>t DEF TypeOK
        <4>2. CASE s = chunk[t][1] /\ i = chunk[t][2]
          BY <4>1, <4>2, <3>1, <3>3, AddToBlock
        <4>3. CASE s # chunk[t][1] \/ i # chunk[t][2]
          <5>1. curr'[s][i] = curr[s][i]
            BY <4>1, <4>3, <3>1, <3>3, AddToBlock
          <5> QED BY <4>1, <5>1
        <4> QED BY <4>2, <4>3
      <3>7. ASSUME NEW u \in Thread, pc'[u] \in {"stream", "count"} PROVE Curr(u)' >= 0
        <4>1. pc[u] \in {"stream", "count"} /\ chunk'[u] = chunk[u]
          BY <3>7, <1>t DEF Write, TypeOK
        <4>2. chunk[u][1] \in 1 .. MaxStarts /\ chunk[u][2] \in Chunks /\ Curr(u) >= 0
          BY <4>1
        <4>3. curr[chunk[u][1]][chunk[u][2]] \in Int /\ curr'[chunk[u][1]][chunk[u][2]] \in Int
          <5>1. curr \in [1 .. MaxStarts -> [Chunks -> Int]]
            BY <1>t DEF TypeOK
          <5> QED BY ONLY <4>2, <3>4, <5>1
        <4> QED BY <4>1, <4>2, <4>3, <3>6 DEF Curr
      <3> QED BY <1>t, <3>5, <3>7 DEF Write, TypeOK, hostVars
    <2>9. CASE Count(t)
      <3>1. TypeOK'
        <4>1. interfered' \in BOOLEAN
          BY <2>9 DEF Count, Interferes, Straggler
        <4>2. current' \in Int /\ inc' \in [Thread -> Nat] /\ pc' \in [Thread -> ThreadPC]
          BY <2>9, <1>t DEF TypeOK, Count, ThreadPC
        <4>3. UNCHANGED <<fileVars, hostVars, curr, chunk, pend, doomed>>
          BY <2>9 DEF Count
        <4> QED BY ONLY <1>t, <4>1, <4>2, <4>3 DEF TypeOK, fileVars, hostVars
      <3> QED BY <2>9, <1>t, <3>1 DEF Count, TypeOK, Curr, hostVars
    <2>10. CASE CloseFile(t)
      <3>1. TypeOK'
        BY <2>10, <1>t, <2>f DEF TypeOK, CloseFile, ThreadPC, hostVars, NoMeta
      <3> QED BY <2>10, <1>t, <3>1 DEF CloseFile, TypeOK, Curr, hostVars
    <2>11. CASE Die(t)
      <3>1. TypeOK'
        BY <2>11, <1>t, <2>f DEF TypeOK, Die, ThreadPC, hostVars, NoMeta
      <3> QED BY <2>11, <1>t, <3>1 DEF Die, Live, TypeOK, Curr, hostVars
    <2> QED BY <1>10, <2>1, <2>2, <2>3, <2>4, <2>5, <2>6, <2>7, <2>8, <2>9, <2>10, <2>11
        DEF ThreadNext
  <1>11. CASE Crash
    <2>1. TypeOK'
      BY <1>11, <1>t DEF TypeOK, Crash, HostPC, ThreadPC, fileVars, NoMeta
    <2> QED BY <2>1, <1>11 DEF Crash, Curr
  <1>12. CASE UNCHANGED vars
    <2>1. TypeOK'
      BY <1>12, <1>t DEF TypeOK, vars, fileVars, hostVars, threadVars
    <2> QED BY <2>1, <1>12 DEF vars, fileVars, hostVars, threadVars, Curr
  <1> QED BY <1>1, <1>2, <1>3, <1>4, <1>5, <1>6, <1>7, <1>8, <1>9, <1>10, <1>11, <1>12
      DEF Next, HostNext

THEOREM TypeCorrect == Spec => []TypeOK
  <1>1. TypeInv => TypeOK
    BY DEF TypeInv
  <1> QED BY InitTypeInv, NextTypeInv, <1>1, PTL DEF Spec

--------------------------------------------------------------------------------
(* Safety.  The inductive invariant, in named parts.                         *)

(* Threads: those of a start that has not come do not exist, those of the    *)
(* last one exist once its trailer is written; progress is buffered only     *)
(* while the file is open, and bytes wait to be counted only behind a write. *)
ThreadsInv ==
    /\ \A t \in Thread : t[1] > starts => pc[t] = "none"
    /\ \A t \in Thread : (t[1] = starts /\ pc[t] # "none") => listOf = starts /\ host \notin {"head", "meta"}
    /\ \A t \in Thread : pc[t] \notin {"stream", "count"} => pend[t] = NoMeta
    /\ \A t \in Thread : inc[t] <= MaxRead /\ (pc[t] # "count" => inc[t] = 0)

(* No block is recorded beyond its end.                                      *)
BlockBounds == \A s \in 1 .. MaxStarts : Within(curr[s])

(* A thread works on a block of its own start's list.                        *)
OwnBlocks == \A t \in Thread : pc[t] \in HasChunk => chunk[t][1] = t[1]

(* What a block counts as done is on disk, and what a thread has buffered    *)
(* for the trailer is too.                                                   *)
HasData(i, c) == \A b \in Bytes : From(i) <= b /\ b < c => b \in good
ListGood == \A s \in 1 .. MaxStarts, i \in Chunks : HasData(i, curr[s][i])
PendGood == \A t \in Thread : pend[t] # NoMeta => HasData(chunk[t][2], pend[t])

(* Blocks have begun at their beginning, and the counter does not count more *)
(* than the blocks record; for a file taken as complete there is no need.    *)
Begun ==
    (host = "meta" \/ \E t \in Thread : t[1] = starts /\ pc[t] # "none") =>
        good = Bytes \/ \A i \in Chunks : From(i) <= curr[starts][i]
CounterBelow ==
    /\ host = "head" => current = 0
    /\ starts >= 1 =>
          \/ good = Bytes
          \/ current + Cardinality(Uncounted) <= Cardinality(Recorded(curr[starts]))

SafeInv ==
    /\ TypeInv
    /\ ThreadsInv
    /\ BlockBounds
    /\ MetaNeverAheadOfData
    /\ PlainLengthMeansComplete
    /\ ~interfered => OwnBlocks /\ ListGood /\ PendGood /\ Begun /\ CounterBelow

LEMMA InitSafeInv == Init /\ NoOverflow => SafeInv
  <1> SUFFICES ASSUME Init, NoOverflow PROVE SafeInv
    OBVIOUS
  <1>1. TypeInv
    BY InitTypeInv
  <1>2. \A t \in Thread : pc[t] = "none" /\ pend[t] = NoMeta /\ inc[t] = 0
    BY DEF Init
  <1>3. \A s \in 1 .. MaxStarts, i \in Chunks : curr[s][i] = 0
    BY DEF Init
  <1>4. \A i \in Chunks : From(i) \in Int /\ From(i) >= 0
    BY FromToInt, FromExact
  <1>5. ThreadsInv
    BY <1>2 DEF ThreadsInv
  <1>6. BlockBounds
    BY <1>3, <1>4 DEF BlockBounds, Within
  <1>7. ListGood
    BY <1>3, <1>4 DEF ListGood, HasData, Bytes
  <1>8. MetaNeverAheadOfData /\ PlainLengthMeansComplete
    BY DEF Init, MetaNeverAheadOfData, PlainLengthMeansComplete
  <1>9. OwnBlocks /\ PendGood /\ Begun /\ CounterBelow
    BY <1>2 DEF Init, OwnBlocks, PendGood, Begun, CounterBelow, HasChunk
  <1> QED BY <1>1, <1>5, <1>6, <1>7, <1>8, <1>9 DEF SafeInv

(* Who changes what.                                                         *)
LEMMA CurrSteps ==
  ASSUME [Next]_vars
  PROVE  \/ InitResume \/ InitSetLength \/ Crash
         \/ \E t \in Thread, n \in 1 .. MaxRead : Write(t, n)
         \/ UNCHANGED curr
  BY DEF Next, HostNext, ThreadNext, ReadSome, Start, HeadFails, InitSharingViolation, InitWriteMeta,
         AbortDownloadBigFile, PollFinished, PollCut, Take, Exit, ChunkFinished, Open, RequestOk,
         RequestMismatch, RequestFails, Count, CloseFile, Die, vars

LEMMA GoodGrows ==
  ASSUME TypeInv, [Next]_vars
  PROVE  good \subseteq good' /\ (interfered => interfered')
  <1>1. ASSUME NEW t \in Thread, NEW n \in 1 .. MaxRead, Write(t, n)
        PROVE  good \subseteq good' /\ interfered' = interfered
    <2>1. good' = good \cup (Curr(t) .. Curr(t) + n - 1) /\ interfered' = interfered
      BY <1>1 DEF Write
    <2> QED BY <2>1
  <1>2. ASSUME NEW t \in Thread, ThreadNext(t)
        PROVE  good \subseteq good' /\ (interfered => interfered')
    <2>1. ReadSome(t) => good \subseteq good' /\ interfered' = interfered
      BY <1>1 DEF ReadSome
    <2>2. Take(t) \/ Open(t) \/ Count(t) => good' = good /\ Interferes(t)
      BY DEF Take, Open, Count, fileVars
    <2>3. Interferes(t) => (interfered => interfered')
      BY Zenon DEF Interferes
    <2>4. Exit(t) \/ ChunkFinished(t) \/ RequestOk(t) \/ RequestMismatch(t) \/ RequestFails(t)
             => good' = good /\ interfered' = interfered
      BY DEF Exit, ChunkFinished, RequestOk, RequestMismatch, RequestFails, fileVars
    <2>5. CloseFile(t) \/ Die(t) => good' = good /\ interfered' = interfered
      BY DEF CloseFile, Die
    <2> QED BY ONLY <1>2, <2>1, <2>2, <2>3, <2>4, <2>5 DEF ThreadNext
  <1>3. (HostNext \/ Crash \/ UNCHANGED vars) => good' = good /\ interfered' = interfered
    BY DEF HostNext, Start, HeadFails, InitSharingViolation, InitResume, InitSetLength,
           InitWriteMeta, AbortDownloadBigFile, PollFinished, PollCut, Crash, vars, fileVars
  <1> QED BY <1>2, <1>3 DEF Next

LEMMA WriteBlock ==
  ASSUME TypeInv, NEW t \in Thread, NEW n \in 1 .. MaxRead, Write(t, n)
  PROVE  LET s == chunk[t][1]
             i == chunk[t][2]
         IN  /\ s \in 1 .. MaxStarts /\ i \in Chunks
             /\ curr'[s] = [curr[s] EXCEPT ![i] = @ + n]
             /\ curr'[s][i] = curr[s][i] + n
             /\ curr'[s][i] <= To(i) + 1
             /\ \A r \in 1 .. MaxStarts : r # s => curr'[r] = curr[r]
             /\ \A j \in Chunks : j # i => curr'[s][j] = curr[s][j]
  <1>1. chunk[t][1] \in 1 .. MaxStarts /\ chunk[t][2] \in Chunks
    BY WriteInside
  <1>2. curr \in [1 .. MaxStarts -> [Chunks -> Int]] /\ n \in Int
    BY DEF TypeInv, TypeOK
  <1>3. curr' = [curr EXCEPT ![chunk[t][1]][chunk[t][2]] = @ + n]
    BY DEF Write
  <1>4. curr[chunk[t][1]][chunk[t][2]] + n <= To(chunk[t][2]) + 1
    BY DEF Write, Curr
  <1>5. curr'[chunk[t][1]] = [curr[chunk[t][1]] EXCEPT ![chunk[t][2]] = @ + n]
    BY ONLY <1>1, <1>2, <1>3
  <1> QED BY ONLY <1>1, <1>2, <1>3, <1>4, <1>5, AddToBlock

LEMMA NextBlockBounds ==
  ASSUME TypeInv, BlockBounds, [Next]_vars, NoOverflow
  PROVE  BlockBounds'
  <1> SUFFICES ASSUME NEW s \in 1 .. MaxStarts, NEW i \in Chunks
               PROVE  curr'[s][i] <= To(i) + 1 \/ curr'[s][i] <= From(i)
    BY DEF BlockBounds, Within
  <1>t. curr \in [1 .. MaxStarts -> [Chunks -> Int]] /\ meta \in [Chunks -> Int]
    BY DEF TypeInv, TypeOK
  <1>f. From(i) \in Int /\ To(i) \in Int /\ From(i) >= 0
    BY FromToInt, FromExact
  <1>o. curr[s][i] <= To(i) + 1 \/ curr[s][i] <= From(i)
    BY DEF BlockBounds, Within
  <1>1. CASE InitResume
    <2>1. curr'[s] = curr[s] \/ curr'[s] = meta
      BY <1>1, <1>t DEF InitResume
    <2>2. meta[i] <= To(i) + 1
      BY <1>1 DEF InitResume, ValidMeta
    <2> QED BY <1>o, <2>1, <2>2
  <1>2. CASE InitSetLength
    <2>1. curr'[s] = curr[s] \/ curr'[s] = [j \in Chunks |-> To(j) + 1] \/ curr'[s] = [j \in Chunks |-> From(j)]
      BY <1>2, <1>t DEF InitSetLength
    <2> QED BY <1>o, <1>f, <2>1
  <1>3. CASE Crash
    <2>1. curr'[s][i] = 0
      BY <1>3 DEF Crash
    <2> QED BY <1>f, <2>1
  <1>4. ASSUME NEW t \in Thread, NEW n \in 1 .. MaxRead, Write(t, n)
        PROVE  curr'[s][i] <= To(i) + 1 \/ curr'[s][i] <= From(i)
    <2>1. CASE s = chunk[t][1] /\ i = chunk[t][2]
      BY <1>4, <2>1, WriteBlock
    <2>2. CASE s # chunk[t][1] \/ i # chunk[t][2]
      <3>1. CASE s # chunk[t][1]
        <4>1. curr'[s] = curr[s]
          BY <1>4, <3>1, WriteBlock
        <4> QED BY <1>o, <4>1
      <3>2. CASE s = chunk[t][1] /\ i # chunk[t][2]
        <4>1. curr'[s][i] = curr[s][i]
          BY <1>4, <3>2, WriteBlock
        <4> QED BY <1>o, <4>1
      <3> QED BY <2>2, <3>1, <3>2
    <2> QED BY <2>1, <2>2
  <1>5. CASE UNCHANGED curr
    BY <1>o, <1>5
  <1> QED BY <1>1, <1>2, <1>3, <1>4, <1>5, CurrSteps

LEMMA NextThreadsInv ==
  ASSUME TypeInv, ThreadsInv, [Next]_vars
  PROVE  ThreadsInv'
  <1> USE DEF ThreadsInv
  <1>t. /\ pc \in [Thread -> ThreadPC] /\ pend \in [Thread -> Int] /\ inc \in [Thread -> Nat]
        /\ starts \in Nat /\ host \in HostPC /\ (host # "idle" => starts >= 1)
        /\ (host = "meta" => listOf = starts)
        /\ \A t \in Thread : t[1] \in Nat \ {0}
    BY DEF TypeInv, TypeOK, Thread
  <1>1. CASE Start
    BY <1>1, <1>t DEF Start
  <1>2. CASE HeadFails
    BY <1>2, <1>t DEF HeadFails, threadVars
  <1>3. CASE InitSharingViolation
    BY <1>3, <1>t DEF InitSharingViolation, NewList, threadVars
  <1>4. CASE InitResume
    BY <1>4, <1>t DEF InitResume, NewList, Spawn
  <1>5. CASE InitSetLength
    BY <1>5, <1>t DEF InitSetLength, NewList, threadVars
  <1>6. CASE InitWriteMeta
    BY <1>6, <1>t DEF InitWriteMeta, Spawn
  <1>7. CASE AbortDownloadBigFile
    BY <1>7, <1>t DEF AbortDownloadBigFile
  <1>8. CASE PollFinished
    BY <1>8, <1>t DEF PollFinished, threadVars
  <1>9. CASE PollCut
    BY <1>9, <1>t DEF PollCut, threadVars
  <1>10. ASSUME NEW t \in Thread, ThreadNext(t) PROVE ThreadsInv'
    <2>1. CASE Take(t)
      BY <2>1, <1>t DEF Take
    <2>2. CASE Exit(t)
      BY <2>2, <1>t DEF Exit, hostVars
    <2>3. CASE ChunkFinished(t)
      BY <2>3, <1>t DEF ChunkFinished, hostVars
    <2>4. CASE Open(t)
      BY <2>4, <1>t DEF Open, hostVars
    <2>5. CASE RequestOk(t)
      BY <2>5, <1>t DEF RequestOk, hostVars
    <2>6. CASE RequestMismatch(t)
      BY <2>6, <1>t DEF RequestMismatch, hostVars
    <2>7. CASE RequestFails(t)
      BY <2>7, <1>t DEF RequestFails, hostVars
    <2>8. ASSUME NEW n \in 1 .. MaxRead, Write(t, n) PROVE ThreadsInv'
      BY <2>8, <1>t DEF Write, hostVars
    <2>9. CASE Count(t)
      BY <2>9, <1>t DEF Count, hostVars
    <2>10. CASE CloseFile(t)
      BY <2>10, <1>t DEF CloseFile, hostVars
    <2>11. CASE Die(t)
      BY <2>11, <1>t DEF Die, Live, hostVars
    <2> QED BY <1>10, <2>1, <2>2, <2>3, <2>4, <2>5, <2>6, <2>7, <2>8, <2>9, <2>10, <2>11
        DEF ThreadNext, ReadSome
  <1>11. CASE Crash
    BY <1>11, <1>t DEF Crash
  <1>12. CASE UNCHANGED vars
    BY <1>12, <1>t DEF vars, fileVars, hostVars, threadVars
  <1> QED BY <1>1, <1>2, <1>3, <1>4, <1>5, <1>6, <1>7, <1>8, <1>9, <1>10, <1>11, <1>12
      DEF Next, HostNext

(* The progress on disk: written whole by a start, or entry by entry when a  *)
(* thread's buffer is flushed.                                               *)
LEMMA MetaSteps ==
  ASSUME [Next]_vars
  PROVE  \/ InitWriteMeta \/ InitSetLength \/ PollCut
         \/ \E t \in Thread : Flush(t) /\ mark' = mark
         \/ UNCHANGED <<len, meta, mark>>
  <1>1. ASSUME NEW t \in Thread, ReadSome(t) \/ CloseFile(t) \/ Die(t)
        PROVE  Flush(t) /\ mark' = mark
    <2>1. ASSUME NEW n \in 1 .. MaxRead, Write(t, n) PROVE Flush(t) /\ mark' = mark
      BY <2>1 DEF Write
    <2>2. CASE CloseFile(t)
      BY <2>2 DEF CloseFile
    <2>3. CASE Die(t)
      BY <2>3 DEF Die
    <2> QED BY <1>1, <2>1, <2>2, <2>3 DEF ReadSome
  <1> QED BY <1>1
    DEF Next, HostNext, ThreadNext, Start, HeadFails, InitSharingViolation, InitResume,
        AbortDownloadBigFile, PollFinished, Take, Exit, ChunkFinished, Open, RequestOk,
        RequestMismatch, RequestFails, Count, Crash, vars, fileVars

LEMMA NextMeta ==
  ASSUME SafeInv, [Next]_vars, NoOverflow
  PROVE  MetaNeverAheadOfData'
  <1> SUFFICES ASSUME len' = "full", mark', ~interfered', NEW i \in Chunks, NEW b \in Bytes,
                      From(i) <= b, b < meta'[i]
               PROVE  b \in good'
    BY DEF MetaNeverAheadOfData
  <1>1. good \subseteq good' /\ ~interfered
    BY GoodGrows DEF SafeInv
  <1>t. meta \in [Chunks -> Int] /\ mark \in BOOLEAN
    BY DEF SafeInv, TypeInv, TypeOK
  <1>2. (len = "full" /\ mark /\ b < meta[i]) => b \in good
    BY <1>1 DEF SafeInv, MetaNeverAheadOfData
  <1>3. CASE InitWriteMeta
    <2>1. meta'[i] = curr[starts][i] /\ starts \in 1 .. MaxStarts
      BY <1>3 DEF InitWriteMeta, SafeInv, TypeInv, TypeOK
    <2> QED BY <1>1, <2>1 DEF SafeInv, ListGood, HasData
  <1>4. CASE InitSetLength
    <2>1. len = "full" /\ meta' = meta /\ mark' = mark
      BY <1>4 DEF InitSetLength
    <2> QED BY <1>1, <1>2, <2>1
  <1>5. CASE PollCut
    BY <1>5 DEF PollCut
  <1>6. ASSUME NEW t \in Thread, Flush(t), mark' = mark PROVE b \in good'
    <2>1. CASE pend[t] = NoMeta
      BY <1>1, <1>2, <1>6, <2>1 DEF Flush
    <2>2. CASE pend[t] # NoMeta
      <3>1. len = "full" /\ meta' = [meta EXCEPT ![chunk[t][2]] = pend[t]]
        BY <1>6, <2>2 DEF Flush
      <3>2. CASE i = chunk[t][2]
        <4>1. b < pend[t]
          BY <1>t, <3>1, <3>2
        <4> QED BY <1>1, <2>2, <3>2, <4>1 DEF SafeInv, PendGood, HasData
      <3>3. CASE i # chunk[t][2]
        BY <1>1, <1>2, <1>6, <1>t, <3>1, <3>3
      <3> QED BY <3>2, <3>3
    <2> QED BY <2>1, <2>2
  <1>7. CASE UNCHANGED <<len, meta, mark>>
    BY <1>1, <1>2, <1>7
  <1> QED BY <1>3, <1>4, <1>5, <1>6, <1>7, MetaSteps

(* Bytes that wait to be counted are finitely many.                          *)
LEMMA UncountedFinite == IsFiniteSet(Uncounted) /\ Cardinality(Uncounted) \in Nat
  <1>1. IsFiniteSet(1 .. MaxStarts) /\ IsFiniteSet(1 .. MaxRead)
    BY FS_Interval
  <1>2. IsFiniteSet(Thread)
    BY <1>1, FS_Product DEF Thread
  <1>3. IsFiniteSet(Thread \X (1 .. MaxRead))
    BY <1>1, <1>2, FS_Product
  <1>4. Uncounted \subseteq Thread \X (1 .. MaxRead)
    BY DEF Uncounted, ListThreads
  <1> QED BY <1>3, <1>4, FS_Subset, FS_CardinalityType

LEMMA NextPlain ==
  ASSUME SafeInv, [Next]_vars, NoOverflow
  PROVE  PlainLengthMeansComplete'
  <1> SUFFICES ASSUME len' = "data", ~interfered'
               PROVE  good' = Bytes
    BY DEF PlainLengthMeansComplete
  <1>1. good \subseteq good' /\ ~interfered
    BY GoodGrows DEF SafeInv
  <1>2. TypeInv'
    BY NextTypeInv DEF SafeInv
  <1>3. good' \subseteq Bytes
    BY <1>2 DEF TypeInv, TypeOK
  <1>4. CASE len = "data"
    BY <1>1, <1>3, <1>4 DEF SafeInv, PlainLengthMeansComplete
  <1>5. CASE PollCut /\ len # "data"
    <2>1. host = "join" /\ current = FileSize /\ starts \in 1 .. MaxStarts
      BY <1>5 DEF PollCut, SafeInv, TypeInv, TypeOK
    <2>2. CASE good = Bytes
      BY <1>1, <1>3, <2>2
    <2>3. CASE good # Bytes
      <3>1. current + Cardinality(Uncounted) <= Cardinality(Recorded(curr[starts]))
        BY <1>1, <2>1, <2>3 DEF SafeInv, CounterBelow
      <3>2. curr[starts] \in [Chunks -> Int] /\ Within(curr[starts])
        BY <2>1 DEF SafeInv, BlockBounds, TypeInv, TypeOK
      <3>3. Cardinality(Recorded(curr[starts])) \in Nat
        BY <3>2, RecordedFinite
      <3>4. Cardinality(Recorded(curr[starts])) >= FileSize
        BY <2>1, <3>1, <3>3, UncountedFinite
      <3>5. ASSUME NEW b \in Bytes PROVE b \in good
        <4>1. PICK i \in Chunks : From(i) <= b /\ b < curr[starts][i]
          BY <3>2, <3>4, AllRecorded
        <4> QED BY <1>1, <2>1, <4>1 DEF SafeInv, ListGood, HasData
      <3> QED BY <1>1, <1>3, <3>5
    <2> QED BY <2>2, <2>3
  <1>6. CASE ~PollCut
    <2>1. len = "data"
      BY <1>6, MetaSteps DEF InitWriteMeta, InitSetLength, Flush
    <2> QED BY <1>4, <2>1
  <1> QED BY <1>4, <1>5, <1>6

(* Nobody interfered: only threads of the last start took, opened, counted.  *)
LEMMA ActorIsCurrent ==
  ASSUME TypeInv, NEW t \in Thread, Take(t) \/ Open(t) \/ Count(t), ~interfered'
  PROVE  t[1] = starts
  <1>1. Interferes(t)
    BY DEF Take, Open, Count
  <1> QED BY <1>1, Zenon DEF Interferes, Straggler

LEMMA NextOwnBlocks ==
  ASSUME SafeInv, [Next]_vars, ~interfered'
  PROVE  OwnBlocks'
  <1> USE DEF OwnBlocks, HasChunk
  <1>o. OwnBlocks
    BY GoodGrows DEF SafeInv
  <1>t. pc \in [Thread -> ThreadPC] /\ chunk \in [Thread -> {NoChunk} \cup ((1 .. MaxStarts) \X Chunks)]
    BY DEF SafeInv, TypeInv, TypeOK
  <1>1. HostNext => chunk' = chunk /\ \A t \in Thread : pc'[t] \in {pc[t], "idle"}
    BY <1>t DEF HostNext, Start, HeadFails, InitSharingViolation, InitResume, InitSetLength,
           InitWriteMeta, AbortDownloadBigFile, PollFinished, PollCut, threadVars, Spawn
  <1>2. ASSUME NEW t \in Thread, ThreadNext(t) PROVE OwnBlocks'
    <2>1. CASE Take(t)
      <3>1. t[1] = starts /\ pc[t] = "idle"
        BY <2>1, ActorIsCurrent DEF Take, SafeInv
      <3>2. listOf = t[1]
        BY <3>1 DEF SafeInv, ThreadsInv
      <3>3. chunk'[t][1] = t[1]
        BY <1>t, <2>1, <3>2 DEF Take
      <3> QED BY <1>o, <1>t, <2>1, <3>3 DEF Take
    <2>2. CASE ~Take(t)
      <3>1. ASSUME NEW n \in 1 .. MaxRead, Write(t, n)
            PROVE  chunk' = chunk /\ \A u \in Thread : pc'[u] \in HasChunk => pc[u] \in HasChunk
        BY <1>t, <3>1 DEF Write
      <3>2. chunk' = chunk /\ \A u \in Thread : pc'[u] \in HasChunk => pc[u] \in HasChunk
        BY <1>2, <1>t, <2>2, <3>1
        DEF ThreadNext, ReadSome, Exit, ChunkFinished, Open, RequestOk, RequestMismatch, RequestFails,
            Count, CloseFile, Die
      <3> QED BY <1>o, <3>2
    <2> QED BY <2>1, <2>2
  <1>3. CASE Crash
    BY <1>3 DEF Crash
  <1>4. CASE UNCHANGED vars
    BY <1>o, <1>4 DEF vars, threadVars
  <1> QED BY <1>o, <1>1, <1>2, <1>3, <1>4 DEF Next

LEMMA NextListGood ==
  ASSUME SafeInv, [Next]_vars, NoOverflow, ~interfered'
  PROVE  ListGood'
  <1> SUFFICES ASSUME NEW s \in 1 .. MaxStarts, NEW i \in Chunks, NEW b \in Bytes,
                      From(i) <= b, b < curr'[s][i]
               PROVE  b \in good'
    BY DEF ListGood, HasData
  <1>1. good \subseteq good' /\ ~interfered
    BY GoodGrows DEF SafeInv
  <1>t. curr \in [1 .. MaxStarts -> [Chunks -> Int]] /\ meta \in [Chunks -> Int] /\ starts \in Nat
    BY DEF SafeInv, TypeInv, TypeOK
  <1>f. From(i) \in Int /\ From(i) >= 0 /\ b \in Int
    BY FromToInt, FromExact DEF Bytes
  <1>2. b < curr[s][i] => b \in good'
    BY <1>1 DEF SafeInv, ListGood, HasData
  <1>3. CASE InitResume
    <2>1. curr'[s] = curr[s] \/ curr'[s] = meta
      BY <1>3, <1>t DEF InitResume
    <2>2. b < meta[i] => b \in good'
      BY <1>1, <1>3 DEF InitResume, SafeInv, MetaNeverAheadOfData
    <2> QED BY <1>2, <2>1, <2>2
  <1>4. CASE InitSetLength
    <2>1. CASE len = "data"
      BY <1>1, <2>1 DEF SafeInv, PlainLengthMeansComplete
    <2>2. CASE len # "data"
      <3>1. curr'[s] = curr[s] \/ curr'[s] = [j \in Chunks |-> From(j)]
        BY <1>4, <1>t, <2>2 DEF InitSetLength
      <3> QED BY <1>2, <1>f, <3>1
    <2> QED BY <2>1, <2>2
  <1>5. CASE Crash
    <2>1. curr'[s][i] = 0
      BY <1>5 DEF Crash
    <2> QED BY <1>f, <2>1
  <1>6. ASSUME NEW t \in Thread, NEW n \in 1 .. MaxRead, Write(t, n) PROVE b \in good'
    <2>t. TypeInv
      BY DEF SafeInv
    <2>1. CASE s # chunk[t][1]
      <3>1. curr'[s] = curr[s]
        BY <1>6, <2>1, <2>t, WriteBlock
      <3> QED BY <1>2, <3>1
    <2>2. CASE s = chunk[t][1] /\ i # chunk[t][2]
      <3>1. curr'[s][i] = curr[s][i]
        BY <1>6, <2>2, <2>t, WriteBlock
      <3> QED BY <1>2, <3>1
    <2>3. CASE s = chunk[t][1] /\ i = chunk[t][2]
      <3>1. curr'[s][i] = curr[s][i] + n
        BY <1>6, <2>3, <2>t, WriteBlock
      <3>t. curr[s][i] \in Int
        BY <1>t
      <3>2. (curr[s][i] .. curr[s][i] + n - 1) \subseteq good'
        BY <1>6, <2>3 DEF Write, Curr
      <3> QED BY <1>2, <1>f, <3>1, <3>2, <3>t
    <2> QED BY <2>1, <2>2, <2>3
  <1>7. CASE UNCHANGED curr
    BY <1>2, <1>7
  <1> QED BY <1>3, <1>4, <1>5, <1>6, <1>7, CurrSteps

LEMMA NextPendGood ==
  ASSUME SafeInv, [Next]_vars, NoOverflow, ~interfered'
  PROVE  PendGood'
  <1> SUFFICES ASSUME NEW u \in Thread, pend'[u] # NoMeta, NEW b \in Bytes,
                      From(chunk'[u][2]) <= b, b < pend'[u]
               PROVE  b \in good'
    BY DEF PendGood, HasData
  <1>1. good \subseteq good' /\ ~interfered
    BY GoodGrows DEF SafeInv
  <1>t. /\ pend \in [Thread -> Int] /\ pc \in [Thread -> ThreadPC]
        /\ chunk \in [Thread -> {NoChunk} \cup ((1 .. MaxStarts) \X Chunks)]
        /\ curr \in [1 .. MaxStarts -> [Chunks -> Int]]
    BY DEF SafeInv, TypeInv, TypeOK
  <1>2. (pend'[u] = pend[u] /\ chunk'[u] = chunk[u]) => b \in good'
    BY <1>1 DEF SafeInv, PendGood, HasData
  <1>3. CASE HostNext
    <2>1. pend' = pend /\ chunk' = chunk
      BY <1>3 DEF HostNext, Start, HeadFails, InitSharingViolation, InitResume, InitSetLength,
           InitWriteMeta, AbortDownloadBigFile, PollFinished, PollCut, threadVars
    <2> QED BY <1>2, <2>1
  <1>4. ASSUME NEW t \in Thread, ThreadNext(t) PROVE b \in good'
    <2>1. CASE Take(t)
      <3>1. pend' = pend /\ (u # t => chunk'[u] = chunk[u]) /\ pc[t] = "idle"
        BY <2>1, <1>t DEF Take
      <3>2. u # t
        BY <3>1 DEF SafeInv, ThreadsInv
      <3> QED BY <1>2, <3>1, <3>2
    <2>2. ASSUME NEW n \in 1 .. MaxRead, Write(t, n) PROVE b \in good'
      <3>1. chunk' = chunk /\ pend' = [pend EXCEPT ![t] = Curr(t) + n] /\ good' = good \cup (Curr(t) .. Curr(t) + n - 1)
        BY <2>2 DEF Write
      <3>2. CASE u = t
        <4>1. TypeInv
          BY DEF SafeInv
        <4>2. chunk[t][1] \in 1 .. MaxStarts /\ chunk[t][2] \in Chunks /\ Curr(t) \in Nat
          BY <2>2, <4>1, WriteInside
        <4>3. b < Curr(t) + n
          BY <1>t, <3>1, <3>2
        <4>4. b < Curr(t) => b \in good
          BY <1>1, <3>1, <3>2, <4>2 DEF SafeInv, ListGood, HasData, Curr
        <4> QED BY <3>1, <4>2, <4>3, <4>4 DEF Bytes
      <3> QED BY <1>2, <3>1, <3>2, <1>t
    <2>3. CASE CloseFile(t) \/ Die(t)
      <3>1. chunk' = chunk /\ pend' = [pend EXCEPT ![t] = NoMeta]
        BY <2>3 DEF CloseFile, Die
      <3> QED BY <1>2, <1>t, <3>1
    <2>4. CASE Exit(t) \/ ChunkFinished(t) \/ Open(t) \/ RequestOk(t) \/ RequestMismatch(t) \/ RequestFails(t) \/ Count(t)
      <3>1. pend' = pend /\ chunk' = chunk
        BY <2>4 DEF Exit, ChunkFinished, Open, RequestOk, RequestMismatch, RequestFails, Count
      <3> QED BY <1>2, <3>1
    <2> QED BY <1>4, <2>1, <2>2, <2>3, <2>4 DEF ThreadNext, ReadSome
  <1>5. CASE Crash
    BY <1>5 DEF Crash
  <1>6. CASE UNCHANGED vars
    BY <1>2, <1>6 DEF vars, threadVars
  <1> QED BY <1>3, <1>4, <1>5, <1>6 DEF Next

(* The steps that matter to the counter.                                     *)
LEMMA CountSteps ==
  ASSUME TypeInv, [Next]_vars
  PROVE  \/ Start \/ InitResume \/ InitSetLength \/ InitWriteMeta \/ Crash
         \/ \E t \in Thread, n \in 1 .. MaxRead : Write(t, n)
         \/ \E t \in Thread : Count(t) \/ Die(t)
         \/ /\ UNCHANGED <<good, starts, curr, current, inc>>
            /\ host' \in {"head", "meta"} => host' = host
            /\ \A t \in Thread : pc'[t] # "none" => pc[t] # "none"
  <1> DEFINE Still == /\ UNCHANGED <<good, starts, curr, current, inc>>
                      /\ host' \in {"head", "meta"} => host' = host
                      /\ \A t \in Thread : pc'[t] # "none" => pc[t] # "none"
  <1>t. pc \in [Thread -> ThreadPC]
    BY DEF TypeInv, TypeOK
  <1>1. HeadFails \/ InitSharingViolation \/ AbortDownloadBigFile \/ PollFinished \/ PollCut => Still
    BY DEF HeadFails, InitSharingViolation, NewList, AbortDownloadBigFile, PollFinished, PollCut,
           fileVars, threadVars
  <1>2. ASSUME NEW t \in Thread,
               \/ Take(t) \/ Exit(t) \/ ChunkFinished(t) \/ Open(t) \/ RequestOk(t)
               \/ RequestMismatch(t) \/ RequestFails(t) \/ CloseFile(t)
        PROVE  Still
    BY <1>2, <1>t DEF Take, Exit, ChunkFinished, Open, RequestOk, RequestMismatch, RequestFails,
           CloseFile, fileVars, hostVars
  <1>3. UNCHANGED vars => Still
    BY DEF vars, fileVars, hostVars, threadVars
  <1> HIDE DEF Still
  <1>4. \/ Start \/ InitResume \/ InitSetLength \/ InitWriteMeta \/ Crash
        \/ \E t \in Thread, n \in 1 .. MaxRead : Write(t, n)
        \/ \E t \in Thread : Count(t) \/ Die(t)
        \/ Still
    BY <1>1, <1>2, <1>3 DEF Next, HostNext, ThreadNext, ReadSome
  <1> QED BY <1>4 DEF Still

LEMMA NextBegun ==
  ASSUME SafeInv, [Next]_vars, NoOverflow, ~interfered'
  PROVE  Begun'
  <1> DEFINE Running == host = "meta" \/ \E t \in Thread : t[1] = starts /\ pc[t] # "none"
  <1> SUFFICES ASSUME Running', good' # Bytes, NEW i \in Chunks
               PROVE  From(i) <= curr'[starts'][i]
    BY DEF Begun
  <1>t. /\ curr \in [1 .. MaxStarts -> [Chunks -> Int]] /\ meta \in [Chunks -> Int] /\ starts \in Nat
        /\ pc \in [Thread -> ThreadPC] /\ good \subseteq Bytes
        /\ TypeInv
        /\ \A t \in Thread : t[1] \in Nat
    BY DEF SafeInv, TypeInv, TypeOK, Thread
  <1>f. From(i) \in Int
    BY FromToInt
  <1>1. ~interfered /\ good # Bytes
    <2>1. good \subseteq good' /\ ~interfered
      BY GoodGrows DEF SafeInv
    <2>2. good' \subseteq Bytes
      BY NextTypeInv DEF SafeInv, TypeInv, TypeOK
    <2> QED BY <2>1, <2>2
  <1>2. Running => From(i) <= curr[starts][i]
    BY <1>1 DEF SafeInv, Begun
  <1>3. CASE Start
    <2>1. \A t \in Thread : t[1] = starts' => pc'[t] = "none"
      BY <1>3, <1>t DEF Start, SafeInv, ThreadsInv
    <2>2. host' = "head"
      BY <1>3 DEF Start
    <2> QED BY <2>1, <2>2
  <1>4. CASE InitResume
    <2>1. starts \in 1 .. MaxStarts
      BY <1>4 DEF InitResume, NewList, SafeInv, TypeInv, TypeOK
    <2>2. curr'[starts'] = meta
      BY <1>4, <1>t, <2>1 DEF InitResume
    <2> QED BY <1>4, <2>2 DEF InitResume, ValidMeta
  <1>5. CASE InitSetLength
    <2>1. len # "data"
      BY <1>1 DEF SafeInv, PlainLengthMeansComplete
    <2>2. starts \in 1 .. MaxStarts
      BY <1>5 DEF InitSetLength, NewList, SafeInv, TypeInv, TypeOK
    <2>3. curr'[starts'] = [j \in Chunks |-> From(j)]
      BY <1>5, <1>t, <2>1, <2>2 DEF InitSetLength
    <2> QED BY <1>f, <2>3
  <1>6. CASE InitWriteMeta
    BY <1>2, <1>6 DEF InitWriteMeta
  <1>7. CASE Crash
    BY <1>7 DEF Crash
  <1>8. ASSUME NEW t \in Thread, NEW n \in 1 .. MaxRead, Write(t, n) PROVE From(i) <= curr'[starts'][i]
    <2>1. host' = host /\ starts' = starts /\ \A u \in Thread : pc'[u] # "none" => pc[u] # "none"
      BY <1>8, <1>t DEF Write, hostVars
    <2>2. From(i) <= curr[starts][i]
      BY <1>2, <2>1
    <2>4. starts \in 1 .. MaxStarts
      BY <2>1 DEF SafeInv, TypeInv, TypeOK, Thread
    <2>5. CASE starts # chunk[t][1]
      <3>1. curr'[starts] = curr[starts]
        BY <1>8, <1>t, <2>4, <2>5, WriteBlock
      <3> QED BY <2>1, <2>2, <3>1
    <2>6. CASE starts = chunk[t][1] /\ i # chunk[t][2]
      <3>1. curr'[starts][i] = curr[starts][i]
        BY <1>8, <1>t, <2>6, WriteBlock
      <3> QED BY <2>1, <2>2, <3>1
    <2>7. CASE starts = chunk[t][1] /\ i = chunk[t][2]
      <3>1. curr'[starts][i] = curr[starts][i] + n
        BY <1>8, <1>t, <2>7, WriteBlock
      <3>2. curr[starts][i] \in Int
        BY <1>t, <2>4
      <3> QED BY <1>f, <2>1, <2>2, <3>1, <3>2
    <2> QED BY <2>5, <2>6, <2>7
  <1>9. ASSUME NEW t \in Thread, Count(t) \/ Die(t) PROVE From(i) <= curr'[starts'][i]
    <2>1. /\ host' = host /\ starts' = starts /\ curr' = curr
          /\ \A u \in Thread : pc'[u] # "none" => pc[u] # "none"
      BY <1>9, <1>t DEF Count, Die, Live, hostVars
    <2> QED BY <1>2, <2>1
  <1>10. CASE /\ UNCHANGED <<good, starts, curr, current, inc>>
              /\ host' \in {"head", "meta"} => host' = host
              /\ \A t \in Thread : pc'[t] # "none" => pc[t] # "none"
    BY <1>2, <1>10
  <1> QED BY <1>t, <1>3, <1>4, <1>5, <1>6, <1>7, <1>8, <1>9, <1>10, CountSteps

(* No thread of a start that has not spawned its threads has bytes to count. *)
LEMMA NoneUncounted ==
  ASSUME \A t \in Thread : t[1] = starts' => inc'[t] = 0
  PROVE  Uncounted' = {}
  <1> SUFFICES ASSUME NEW p \in Uncounted' PROVE FALSE
    OBVIOUS
  <1>1. p[1] \in Thread /\ p[1][1] = starts' /\ p[2] \in 1 .. MaxRead /\ p[2] <= inc'[p[1]]
    BY DEF Uncounted, ListThreads
  <1> QED BY <1>1

(* The bytes one thread has to count are a column of Uncounted.              *)
LEMMA UncountedGrows ==
  ASSUME NEW t \in Thread, t[1] = starts, starts' = starts, NEW n \in 0 .. MaxRead,
         inc \in [Thread -> Nat], inc[t] = 0, inc' = [inc EXCEPT ![t] = n]
  PROVE  Cardinality(Uncounted') = Cardinality(Uncounted) + n
  <1> DEFINE C == Column(t, 1, n)
  <1>1. inc'[t] = n /\ \A u \in Thread : u # t => inc'[u] = inc[u]
    OBVIOUS
  <1>2. ListThreads' = ListThreads /\ t \in ListThreads /\ ListThreads \subseteq Thread
    BY DEF ListThreads
  <1>3. C = {t} \X (1 .. n)
    BY DEF Column
  <1>4. Uncounted' = Uncounted \cup C
    <2>1. ASSUME NEW p \in Uncounted' PROVE p \in Uncounted \cup C
      <3>1. p \in ListThreads \X (1 .. MaxRead) /\ p[2] <= inc'[p[1]]
        BY <1>2, <2>1 DEF Uncounted
      <3>2. CASE p[1] = t
        BY <1>1, <1>3, <3>1, <3>2
      <3>3. CASE p[1] # t
        BY <1>1, <1>2, <3>1, <3>3 DEF Uncounted
      <3> QED BY <3>2, <3>3
    <2>2. ASSUME NEW p \in Uncounted PROVE p \in Uncounted'
      <3>1. p \in ListThreads \X (1 .. MaxRead) /\ p[2] <= inc[p[1]]
        BY <2>2 DEF Uncounted
      <3>2. p[1] # t
        BY <3>1
      <3> QED BY <1>1, <1>2, <3>1, <3>2 DEF Uncounted
    <2>3. ASSUME NEW p \in C PROVE p \in Uncounted'
      <3>1. p \in ListThreads \X (1 .. MaxRead) /\ p[1] = t /\ p[2] <= n
        BY <1>2, <1>3, <2>3
      <3> QED BY <1>1, <1>2, <3>1 DEF Uncounted
    <2> QED BY <2>1, <2>2, <2>3
  <1>5. Uncounted \cap C = {}
    <2> SUFFICES ASSUME NEW p \in Uncounted, p \in C PROVE FALSE
      OBVIOUS
    <2>1. p[1] = t /\ p[2] \in 1 .. n /\ p[2] <= inc[p[1]]
      BY <1>3 DEF Uncounted
    <2> QED BY <2>1
  <1> QED BY <1>4, <1>5, UncountedFinite, AddColumn

(* The same step backwards: the thread has counted its bytes.                *)
LEMMA UncountedShrinks ==
  ASSUME NEW t \in Thread, t[1] = starts, starts' = starts, NEW n \in 0 .. MaxRead,
         inc \in [Thread -> Nat], inc[t] = n, inc' = [inc EXCEPT ![t] = 0]
  PROVE  Cardinality(Uncounted) = Cardinality(Uncounted') + n
  <1> DEFINE C == Column(t, 1, n)
  <1>1. inc'[t] = 0 /\ \A u \in Thread : u # t => inc'[u] = inc[u]
    OBVIOUS
  <1>2. ListThreads' = ListThreads /\ t \in ListThreads /\ ListThreads \subseteq Thread
    BY DEF ListThreads
  <1>3. C = {t} \X (1 .. n)
    BY DEF Column
  <1>4. Uncounted = Uncounted' \cup C
    <2>1. ASSUME NEW p \in Uncounted PROVE p \in Uncounted' \cup C
      <3>1. p \in ListThreads \X (1 .. MaxRead) /\ p[2] <= inc[p[1]]
        BY <2>1 DEF Uncounted
      <3>2. CASE p[1] = t
        BY <1>3, <3>1, <3>2
      <3>3. CASE p[1] # t
        BY <1>1, <1>2, <3>1, <3>3 DEF Uncounted
      <3> QED BY <3>2, <3>3
    <2>2. ASSUME NEW p \in Uncounted' PROVE p \in Uncounted
      <3>1. p \in ListThreads \X (1 .. MaxRead) /\ p[2] <= inc'[p[1]]
        BY <1>2, <2>2 DEF Uncounted
      <3>2. p[1] # t
        BY <1>1, <3>1
      <3> QED BY <1>1, <1>2, <3>1, <3>2 DEF Uncounted
    <2>3. ASSUME NEW p \in C PROVE p \in Uncounted
      <3>1. p \in ListThreads \X (1 .. MaxRead) /\ p[1] = t /\ p[2] <= n
        BY <1>2, <1>3, <2>3
      <3> QED BY <3>1 DEF Uncounted
    <2> QED BY <2>1, <2>2, <2>3
  <1>5. Uncounted' \cap C = {}
    <2> SUFFICES ASSUME NEW p \in Uncounted', p \in C PROVE FALSE
      OBVIOUS
    <2>1. p[1] = t /\ p[2] \in 1 .. n /\ p[2] <= inc'[p[1]]
      BY <1>3 DEF Uncounted
    <2> QED BY <1>1, <2>1
  <1>6. IsFiniteSet(Uncounted')
    BY <1>4, UncountedFinite, FS_Subset
  <1> QED BY <1>4, <1>5, <1>6, AddColumn

LEMMA NextCounterBelow ==
  ASSUME SafeInv, [Next]_vars, NoOverflow, ~interfered'
  PROVE  CounterBelow'
  <1>t. /\ TypeInv /\ ThreadsInv
        /\ curr \in [1 .. MaxStarts -> [Chunks -> Int]] /\ meta \in [Chunks -> Int]
        /\ pc \in [Thread -> ThreadPC] /\ inc \in [Thread -> Nat] /\ current \in Int
        /\ starts \in Nat /\ starts <= MaxStarts /\ (host # "idle" => starts >= 1)
        /\ \A t \in Thread : t[1] \in Nat
    BY DEF SafeInv, TypeInv, TypeOK, Thread
  <1>1. good \subseteq good' /\ ~interfered
    BY GoodGrows DEF SafeInv
  <1>2. good' \subseteq Bytes /\ curr' \in [1 .. MaxStarts -> [Chunks -> Int]] /\ starts' \in 0 .. MaxStarts
    BY NextTypeInv DEF SafeInv, TypeInv, TypeOK
  <1>g. good = Bytes => good' = Bytes
    BY <1>1, <1>2
  <1>3. /\ host = "head" => current = 0
        /\ starts >= 1 => \/ good = Bytes
                          \/ current + Cardinality(Uncounted) <= Cardinality(Recorded(curr[starts]))
    BY <1>1 DEF SafeInv, CounterBelow
  <1>4. BlockBounds'
    BY NextBlockBounds DEF SafeInv
  <1>r. starts' >= 1 => Cardinality(Recorded(curr'[starts'])) \in Nat
    <2> SUFFICES ASSUME starts' >= 1 PROVE Cardinality(Recorded(curr'[starts'])) \in Nat
      OBVIOUS
    <2>1. starts' \in 1 .. MaxStarts
      BY <1>2
    <2>2. curr'[starts'] \in [Chunks -> Int] /\ Within(curr'[starts'])
      BY <1>2, <1>4, <2>1 DEF BlockBounds
    <2> QED BY <2>2, RecordedFinite
  <1>u. Uncounted' = {} => Cardinality(Uncounted') = 0
    BY FS_EmptySet
  <1>5. CASE Start
    <2>1. current' = 0 /\ host' = "head" /\ inc' = inc
      BY <1>5 DEF Start
    <2>2. \A t \in Thread : t[1] = starts' => inc'[t] = 0
      BY <1>5, <1>t DEF Start, ThreadsInv
    <2>3. Uncounted' = {}
      BY <2>2, NoneUncounted
    <2> QED BY <1>r, <1>u, <2>1, <2>3 DEF CounterBelow
  <1>6. CASE InitResume
    <2>1. starts \in 1 .. MaxStarts /\ starts' = starts /\ inc' = inc /\ host = "head" /\ host' = "run"
      BY <1>6, <1>t DEF InitResume, NewList
    <2>2. curr'[starts] = meta
      BY <1>6, <1>t, <2>1 DEF InitResume
    <2>3. \A t \in Thread : t[1] = starts' => inc'[t] = 0
      BY <1>t, <2>1 DEF ThreadsInv
    <2>4. Uncounted' = {}
      BY <2>3, NoneUncounted
    <2>5. current' = Cardinality(Recorded(curr'[starts']))
      BY <1>3, <1>6, <1>r, <2>1, <2>2 DEF InitResume
    <2> QED BY <1>r, <1>u, <2>1, <2>4, <2>5 DEF CounterBelow
  <1>7. CASE InitSetLength
    <2>1. starts \in 1 .. MaxStarts /\ starts' = starts /\ inc' = inc /\ host = "head" /\ host' = "meta"
      BY <1>7, <1>t DEF InitSetLength, NewList, threadVars
    <2>2. CASE len = "data"
      <3>1. good' = Bytes
        BY <1>1, <1>g, <2>2 DEF SafeInv, PlainLengthMeansComplete
      <3> QED BY <2>1, <3>1 DEF CounterBelow
    <2>3. CASE len # "data"
      <3>1. current' = 0
        BY <1>7, <2>3 DEF InitSetLength
      <3>2. \A t \in Thread : t[1] = starts' => inc'[t] = 0
        BY <1>t, <2>1 DEF ThreadsInv
      <3>3. Uncounted' = {}
        BY <3>2, NoneUncounted
      <3> QED BY <1>r, <1>u, <2>1, <3>1, <3>3 DEF CounterBelow
    <2> QED BY <2>2, <2>3
  <1>8. CASE InitWriteMeta
    <2>1. host' = "run" /\ UNCHANGED <<starts, inc, curr, current, good>>
      BY <1>8 DEF InitWriteMeta
    <2>2. Uncounted' = Uncounted
      BY <2>1 DEF Uncounted, ListThreads
    <2> QED BY <1>3, <2>1, <2>2 DEF CounterBelow
  <1>9. CASE Crash
    BY <1>9 DEF Crash, CounterBelow
  <1>10. ASSUME NEW t \in Thread, NEW n \in 1 .. MaxRead, Write(t, n) PROVE CounterBelow'
    <2>1. /\ host' = host /\ starts' = starts /\ current' = current /\ pc[t] = "stream"
          /\ inc' = [inc EXCEPT ![t] = n]
      BY <1>10 DEF Write, hostVars
    <2>2. inc[t] = 0
      BY <1>t, <2>1 DEF ThreadsInv
    <2>3. chunk[t][1] = t[1]
      BY <1>1, <2>1 DEF SafeInv, OwnBlocks, HasChunk
    <2>4. SUFFICES ASSUME starts >= 1, good # Bytes
                   PROVE  current + Cardinality(Uncounted') <= Cardinality(Recorded(curr'[starts]))
      BY <1>3, <1>g, <2>1 DEF CounterBelow
    <2>5. starts \in 1 .. MaxStarts
      BY <1>t, <2>4
    <2>6. current + Cardinality(Uncounted) <= Cardinality(Recorded(curr[starts]))
      BY <1>3, <2>4
    <2>7. curr[starts] \in [Chunks -> Int] /\ Within(curr[starts])
      BY <1>t, <2>5 DEF SafeInv, BlockBounds
    <2>8. CASE t[1] = starts
      <3>1. \A i \in Chunks : From(i) <= curr[starts][i]
        <4>1. pc[t] # "none"
          BY <2>1
        <4> QED BY <1>1, <2>4, <2>8, <4>1 DEF SafeInv, Begun
      <3>2. chunk[t][2] \in Chunks /\ curr'[starts] = [curr[starts] EXCEPT ![chunk[t][2]] = @ + n]
        <4>1. chunk[t][1] = starts
          BY <2>3, <2>8
        <4>2. /\ chunk[t][2] \in Chunks
              /\ curr'[chunk[t][1]] = [curr[chunk[t][1]] EXCEPT ![chunk[t][2]] = @ + n]
          BY <1>10, <1>t, WriteBlock
        <4> QED BY ONLY <4>1, <4>2
      <3>3. Cardinality(Recorded(curr'[starts])) = Cardinality(Recorded(curr[starts])) + n
        <4>1. From(chunk[t][2]) <= curr[starts][chunk[t][2]] /\ n \in Nat
          BY <3>1, <3>2
        <4> HIDE <1>t
        <4> QED BY ONLY SizesAssumption, <2>7, <3>2, <4>1, RecordedGrows
      <3>4. Cardinality(Uncounted') = Cardinality(Uncounted) + n
        <4>1. n \in 0 .. MaxRead
          OBVIOUS
        <4> QED BY <1>t, <2>1, <2>2, <2>8, <4>1, UncountedGrows
      <3>5. Cardinality(Recorded(curr[starts])) \in Nat
        BY <2>7, RecordedFinite
      <3> QED BY <1>t, <2>6, <3>3, <3>4, <3>5, UncountedFinite
    <2>9. CASE t[1] # starts
      <3>1. curr'[starts] = curr[starts]
        BY <1>10, <1>t, <2>3, <2>5, <2>9, WriteBlock
      <3>2. ListThreads' = ListThreads /\ \A u \in ListThreads : inc'[u] = inc[u]
        BY <1>t, <2>1, <2>9 DEF ListThreads
      <3>3. Uncounted' = Uncounted
        BY <3>2 DEF Uncounted
      <3> QED BY <2>6, <3>1, <3>3
    <2> QED BY <2>8, <2>9
  <1>11. ASSUME NEW t \in Thread, Count(t) PROVE CounterBelow'
    <2>1. t[1] = starts
      BY <1>11, <1>t, ActorIsCurrent
    <2>2. /\ UNCHANGED <<host, starts, curr, good>> /\ current' = current + inc[t] /\ pc[t] = "count"
          /\ inc' = [inc EXCEPT ![t] = 0]
      BY <1>11 DEF Count, hostVars, fileVars
    <2>3. host # "head"
      BY <1>t, <2>1, <2>2 DEF ThreadsInv
    <2>4. inc[t] \in 0 .. MaxRead
      BY <1>t DEF ThreadsInv
    <2>5. Cardinality(Uncounted) = Cardinality(Uncounted') + inc[t]
      BY <1>t, <2>1, <2>2, <2>4, UncountedShrinks
    <2>6. Cardinality(Uncounted') \in Nat
      <3>1. Uncounted' \subseteq Uncounted
        <4>1. \A u \in Thread : inc'[u] <= inc[u] /\ inc'[u] \in Nat /\ inc[u] \in Nat
          BY <1>t, <2>2
        <4>2. ListThreads' = ListThreads /\ ListThreads \subseteq Thread
          BY <2>2 DEF ListThreads
        <4> QED BY <4>1, <4>2 DEF Uncounted
      <3> QED BY <3>1, UncountedFinite, FS_Subset, FS_CardinalityType
    <2>7. starts' >= 1 => \/ good' = Bytes
                          \/ current' + Cardinality(Uncounted') <= Cardinality(Recorded(curr'[starts']))
      <3> SUFFICES ASSUME starts >= 1, good # Bytes
                   PROVE current + inc[t] + Cardinality(Uncounted') <= Cardinality(Recorded(curr[starts]))
        BY <2>2
      <3> QED BY <1>3, <1>r, <1>t, <2>2, <2>4, <2>5, <2>6
    <2> QED BY <2>2, <2>3, <2>7 DEF CounterBelow
  <1>12. ASSUME NEW t \in Thread, Die(t) PROVE CounterBelow'
    <2>1. UNCHANGED <<host, starts, curr, current, good>> /\ inc' = [inc EXCEPT ![t] = 0]
      BY <1>12 DEF Die, hostVars
    <2>2. Uncounted' \subseteq Uncounted
      <3>1. \A u \in Thread : inc'[u] <= inc[u] /\ inc'[u] \in Nat /\ inc[u] \in Nat
        BY <1>t, <2>1
      <3>2. ListThreads' = ListThreads /\ ListThreads \subseteq Thread
        BY <2>1 DEF ListThreads
      <3> QED BY <3>1, <3>2 DEF Uncounted
    <2>3. Cardinality(Uncounted') <= Cardinality(Uncounted) /\ Cardinality(Uncounted') \in Nat
      BY <2>2, UncountedFinite, FS_Subset, FS_CardinalityType
    <2>4. starts' >= 1 => \/ good' = Bytes
                          \/ current' + Cardinality(Uncounted') <= Cardinality(Recorded(curr'[starts']))
      BY <1>3, <1>r, <1>t, <2>1, <2>3, UncountedFinite
    <2> QED BY <1>3, <2>1, <2>4 DEF CounterBelow
  <1>13. CASE /\ UNCHANGED <<good, starts, curr, current, inc>>
              /\ host' \in {"head", "meta"} => host' = host
              /\ \A t \in Thread : pc'[t] # "none" => pc[t] # "none"
    <2>1. Uncounted' = Uncounted
      BY <1>13 DEF Uncounted, ListThreads
    <2> QED BY <1>3, <1>13, <2>1 DEF CounterBelow
  <1> QED BY <1>t, <1>5, <1>6, <1>7, <1>8, <1>9, <1>10, <1>11, <1>12, <1>13, CountSteps

LEMMA NextSafeInv == NoOverflow /\ SafeInv /\ [Next]_vars => SafeInv'
  <1> SUFFICES ASSUME NoOverflow, SafeInv, [Next]_vars PROVE SafeInv'
    OBVIOUS
  <1>1. TypeInv' /\ ThreadsInv' /\ BlockBounds'
    BY NextTypeInv, NextThreadsInv, NextBlockBounds DEF SafeInv
  <1>2. MetaNeverAheadOfData' /\ PlainLengthMeansComplete'
    BY NextMeta, NextPlain
  <1>3. ASSUME ~interfered'
        PROVE  OwnBlocks' /\ ListGood' /\ PendGood' /\ Begun' /\ CounterBelow'
    BY <1>3, NextOwnBlocks, NextListGood, NextPendGood, NextBegun, NextCounterBelow
  <1> QED BY <1>1, <1>2, <1>3 DEF SafeInv

(* While no block begins beyond the largest int and no thread of an earlier  *)
(* start interferes, the progress that a restart finds on disk never speaks  *)
(* of data that is not there (ChunkInfo.Write against InitChunkList).        *)
THEOREM MetaBehindData ==
  ASSUME NoOverflow PROVE Spec => []MetaNeverAheadOfData
  <1>1. Init => SafeInv
    BY InitSafeInv
  <1>2. SafeInv /\ [Next]_vars => SafeInv'
    BY NextSafeInv
  <1>3. SafeInv => MetaNeverAheadOfData
    BY DEF SafeInv
  <1> QED BY <1>1, <1>2, <1>3, PTL DEF Spec

(* Under the same conditions a file of the server's length, which the next   *)
(* start and CheckIsFinished's caller take for complete, is complete.        *)
THEOREM PlainIsComplete ==
  ASSUME NoOverflow PROVE Spec => []PlainLengthMeansComplete
  <1>1. Init => SafeInv
    BY InitSafeInv
  <1>2. SafeInv /\ [Next]_vars => SafeInv'
    BY NextSafeInv
  <1>3. SafeInv => PlainLengthMeansComplete
    BY DEF SafeInv
  <1> QED BY <1>1, <1>2, <1>3, PTL DEF Spec

--------------------------------------------------------------------------------
(* The counter, and progress on disk.  What the proofs above do not need:    *)
(* whom an abort can still reach, ...                                        *)
DoomedInv ==
  /\ \A t \in doomed : t[1] < starts \/ (t[1] = starts /\ host \in {"aborted", "join", "done"})
  /\ host \in {"meta", "run", "join", "done", "aborted"} => total = FileSize

Spawned == \E t \in Thread : t[1] = starts /\ pc[t] # "none"

(* ... that every block of the running list begins at its beginning, and so  *)
(* does a block that a thread holds, ...                                     *)
BlocksBegun ==
  /\ host = "meta" \/ Spawned => \A i \in Chunks : From(i) <= curr[starts][i]
  /\ \A t \in Thread : pc[t] \in HasChunk => From(chunk[t][2]) <= Curr(t)

(* ... that a block is handed out once, ...                                  *)
Handed ==
  /\ \A t, u \in Thread : pc[t] \in HasChunk /\ pc[u] \in HasChunk /\ chunk[t] = chunk[u] => t = u
  /\ \A t \in Thread : pc[t] \in HasChunk /\ chunk[t][1] = listOf => chunk[t][2] < nextIdx

(* ... that the file belongs to the threads of one start, ...                *)
OneUser ==
  /\ \A t, u \in Thread : HasFileOpen(t) /\ HasFileOpen(u) => t[1] = u[1]
  /\ Spawned => \A u \in Thread : HasFileOpen(u) => u[1] = starts
  /\ host = "meta" => ~mark /\ \A u \in Thread : ~HasFileOpen(u)

(* ... and that the trailer never runs ahead of what a thread will write to  *)
(* it.                                                                       *)
TrailerBehind ==
  /\ len = "full" /\ mark => ValidMeta
  /\ Spawned => \A i \in Chunks : meta[i] <= curr[starts][i]
  /\ \A t \in Thread : HasFileOpen(t) => meta[chunk[t][2]] <= Curr(t)
  /\ \A t \in Thread : pend[t] # NoMeta => pend[t] = Curr(t)

FlowInv == ~interfered => BlocksBegun /\ Handed /\ OneUser /\ TrailerBehind

(* The counter is exact while its start goes on, and complete at its end; an *)
(* abort loses what a thread had written and not counted.                    *)
CounterExact ==
  /\ host = "head" => current = 0
  /\ host \in {"meta", "run", "join", "done"} =>
       current + Cardinality(Uncounted) = Cardinality(Recorded(curr[starts]))
  /\ host = "aborted" =>
       current + Cardinality(Uncounted) <= Cardinality(Recorded(curr[starts]))
  /\ host \in {"join", "done"} => current = FileSize

StrictInv == SafeInv /\ DoomedInv /\ FlowInv /\ (~interfered => CounterExact)

(* The invariant that carries both holds at first, ...                       *)
LEMMA InitStrictInv == Init /\ NoOverflow => StrictInv
  <1> SUFFICES ASSUME Init, NoOverflow PROVE StrictInv
    OBVIOUS
  <1>1. SafeInv
    BY InitSafeInv
  <1>2. \A t \in Thread : pc[t] = "none" /\ pend[t] = NoMeta
    BY DEF Init
  <1>3. host = "idle" /\ len # "full" /\ doomed = {}
    BY DEF Init
  <1>4. ~Spawned
    BY <1>2 DEF Spawned
  <1>5. BlocksBegun /\ Handed /\ OneUser /\ TrailerBehind
    BY <1>2, <1>3, <1>4 DEF BlocksBegun, Handed, OneUser, TrailerBehind, HasChunk, HasFileOpen
  <1> QED BY <1>1, <1>3, <1>5 DEF StrictInv, DoomedInv, FlowInv, CounterExact

(* An abort marks the threads of the last start; a new start makes them old. *)
LEMMA NextDoomedInv ==
  ASSUME TypeInv, DoomedInv, [Next]_vars
  PROVE  DoomedInv'
  <1> USE DEF DoomedInv
  <1>t. /\ starts \in Nat /\ doomed \subseteq Thread /\ \A t \in Thread : t[1] \in Nat
        /\ \A t \in ListThreads : t[1] = starts
    BY DEF TypeInv, TypeOK, Thread, ListThreads
  <1>1. CASE Start
    BY <1>1, <1>t DEF Start, AbortAll
  <1>2. CASE AbortDownloadBigFile
    BY <1>2, <1>t DEF AbortDownloadBigFile, AbortAll
  <1>3. CASE HeadFails \/ InitSharingViolation \/ InitResume \/ InitSetLength \/ InitWriteMeta
             \/ PollFinished \/ PollCut
    BY <1>3, <1>t DEF HeadFails, InitSharingViolation, InitResume, InitSetLength, InitWriteMeta,
       PollFinished, PollCut, NewList, threadVars
  <1>4. CASE Crash
    BY <1>4 DEF Crash
  <1>5. ASSUME NEW t \in Thread, ThreadNext(t) PROVE UNCHANGED <<doomed, host, starts, total>>
    <2>1. ASSUME NEW n \in 1 .. MaxRead, Write(t, n) PROVE UNCHANGED <<doomed, host, starts, total>>
      BY <2>1 DEF Write, hostVars
    <2> QED BY <1>5, <2>1 DEF ThreadNext, ReadSome, Take, Exit, ChunkFinished, Open, RequestOk,
          RequestMismatch, RequestFails, Count, CloseFile, Die, hostVars
  <1>6. CASE UNCHANGED <<doomed, host, starts, total>>
    BY <1>6
  <1>7. UNCHANGED vars => UNCHANGED <<doomed, host, starts, total>>
    BY DEF vars, hostVars, threadVars
  <1> QED BY <1>1, <1>2, <1>3, <1>4, <1>5, <1>6, <1>7 DEF Next, HostNext

(* The steps that matter to blocks and trailer, and what the others leave.   *)
Keeps ==
  /\ UNCHANGED <<meta, mark, starts, listOf, nextIdx, curr, chunk, pend>>
  /\ len' = "full" => len = "full"
  /\ host' = "meta" => host = "meta"
  /\ \A t \in Thread : /\ pc'[t] \in HasChunk => pc[t] \in HasChunk
                       /\ HasFileOpen(t)' => HasFileOpen(t)
                       /\ pc'[t] # "none" => pc[t] # "none"

Closes(t) ==
  /\ Flush(t)
  /\ pend' = [pend EXCEPT ![t] = NoMeta]
  /\ UNCHANGED <<mark, starts, listOf, nextIdx, curr, chunk, host>>
  /\ pc[t] # "none"
  /\ \E p \in {"chunk", "dead"} : pc' = [pc EXCEPT ![t] = p]
  /\ pc'[t] \in HasChunk => pc[t] \in HasChunk

(* Every step is one of these.                                               *)
LEMMA FlowSteps ==
  ASSUME TypeInv, [Next]_vars
  PROVE  \/ Start \/ InitSharingViolation \/ InitResume \/ InitSetLength \/ InitWriteMeta \/ Crash
         \/ \E t \in Thread, n \in 1 .. MaxRead : Write(t, n)
         \/ \E t \in Thread : Take(t) \/ Open(t) \/ Closes(t)
         \/ Keeps
  <1>t. pc \in [Thread -> ThreadPC]
    BY DEF TypeInv, TypeOK
  <1>1. HeadFails \/ AbortDownloadBigFile \/ PollFinished \/ PollCut => Keeps
    BY DEF HeadFails, AbortDownloadBigFile, PollFinished, PollCut, fileVars, threadVars, Keeps, HasFileOpen
  <1>2. ASSUME NEW t \in Thread,
               Exit(t) \/ ChunkFinished(t) \/ RequestOk(t) \/ RequestMismatch(t) \/ RequestFails(t) \/ Count(t)
        PROVE  Keeps
    <2>1. /\ UNCHANGED <<fileVars, hostVars, curr, chunk, pend>>
          /\ pc[t] \notin {"none", "dead"} /\ (pc[t] \in HasChunk \/ pc[t] = "idle")
          /\ \E p \in ThreadPC : /\ pc' = [pc EXCEPT ![t] = p]
                                 /\ p \in HasChunk => pc[t] \in HasChunk
                                 /\ p \in {"open", "stream", "count"} => HasFileOpen(t)
      BY <1>2 DEF Exit, ChunkFinished, RequestOk, RequestMismatch, RequestFails, Count, ThreadPC, HasChunk,
                  HasFileOpen, fileVars, hostVars
    <2>2. /\ \A u \in Thread \ {t} : pc'[u] = pc[u]
          /\ pc'[t] \in HasChunk => pc[t] \in HasChunk
          /\ pc'[t] \in {"open", "stream", "count"} => HasFileOpen(t)
      BY ONLY <1>t, <2>1, t \in Thread
    <2> QED BY <2>1, <2>2 DEF Keeps, HasFileOpen, fileVars, hostVars
  <1>3. ASSUME NEW t \in Thread, CloseFile(t) \/ Die(t) PROVE Closes(t)
    BY <1>3, <1>t DEF CloseFile, Die, Closes, Live, HasChunk, hostVars
  <1>4. UNCHANGED vars => Keeps
    BY DEF vars, fileVars, hostVars, threadVars, Keeps, HasFileOpen
  <1> HIDE DEF Keeps, Closes
  <1> QED BY <1>1, <1>2, <1>3, <1>4 DEF Next, HostNext, ThreadNext, ReadSome

(* What the proofs of FlowInv's parts start from.                            *)
FlowTypes ==
  /\ curr \in [1 .. MaxStarts -> [Chunks -> Int]] /\ meta \in [Chunks -> Int]
  /\ pc \in [Thread -> ThreadPC] /\ pend \in [Thread -> Int]
  /\ chunk \in [Thread -> {NoChunk} \cup ((1 .. MaxStarts) \X Chunks)]
  /\ starts \in 0 .. MaxStarts /\ listOf \in 0 .. starts /\ nextIdx \in Nat
  /\ host # "idle" => starts \in 1 .. MaxStarts
  /\ \A t \in Thread : t[1] \in 1 .. MaxStarts
  /\ \A t \in Thread : pc[t] \in HasChunk =>
        /\ chunk[t][1] \in 1 .. MaxStarts /\ chunk[t][2] \in Chunks /\ chunk[t] = <<chunk[t][1], chunk[t][2]>>
        /\ Curr(t) \in Int
        /\ chunk[t][1] = t[1]
  /\ \A t \in Thread : HasFileOpen(t) => pc[t] \in HasChunk
  /\ \A t \in Thread : pend[t] # NoMeta => HasFileOpen(t)
  /\ \A t \in Thread : t[1] > starts => pc[t] = "none"
  /\ \A t \in Thread : t[1] = starts /\ pc[t] # "none" => listOf = starts /\ host \notin {"head", "meta"}
  /\ Spawned => starts \in 1 .. MaxStarts

(* They follow from SafeInv as long as nobody interfered.                    *)
LEMMA FlowTyped == SafeInv /\ ~interfered => FlowTypes
  <1> SUFFICES ASSUME SafeInv, ~interfered PROVE FlowTypes
    OBVIOUS
  <1>1. TypeOK /\ TypeInv /\ ThreadsInv /\ OwnBlocks
    BY DEF SafeInv, TypeInv
  <1>2. /\ curr \in [1 .. MaxStarts -> [Chunks -> Int]] /\ meta \in [Chunks -> Int]
        /\ pc \in [Thread -> ThreadPC] /\ pend \in [Thread -> Int]
        /\ chunk \in [Thread -> {NoChunk} \cup ((1 .. MaxStarts) \X Chunks)]
        /\ starts \in 0 .. MaxStarts /\ listOf \in 0 .. starts /\ nextIdx \in Nat
        /\ host # "idle" => starts \in 1 .. MaxStarts
    BY <1>1, CntNat DEF TypeInv, TypeOK
  <1>3. \A t \in Thread : t[1] \in 1 .. MaxStarts
    BY DEF Thread
  <1>4. ASSUME NEW t \in Thread, pc[t] \in HasChunk
        PROVE  /\ chunk[t][1] \in 1 .. MaxStarts /\ chunk[t][2] \in Chunks
               /\ chunk[t] = <<chunk[t][1], chunk[t][2]>>
               /\ Curr(t) \in Int
               /\ chunk[t][1] = t[1]
    <2>1. chunk[t] \in (1 .. MaxStarts) \X Chunks
      BY <1>1, <1>4 DEF TypeInv
    <2>2. chunk[t][1] \in 1 .. MaxStarts /\ chunk[t][2] \in Chunks /\ chunk[t] = <<chunk[t][1], chunk[t][2]>>
      BY <2>1
    <2>3. Curr(t) \in Int
      BY <1>2, <2>2 DEF Curr
    <2> QED BY <1>1, <1>4, <2>2, <2>3 DEF OwnBlocks
  <1>5. /\ \A t \in Thread : HasFileOpen(t) => pc[t] \in HasChunk
        /\ \A t \in Thread : pend[t] # NoMeta => HasFileOpen(t)
    BY <1>1 DEF HasFileOpen, HasChunk, ThreadsInv
  <1>6. /\ \A t \in Thread : t[1] > starts => pc[t] = "none"
        /\ \A t \in Thread : t[1] = starts /\ pc[t] # "none" => listOf = starts /\ host \notin {"head", "meta"}
    BY <1>1 DEF ThreadsInv
  <1>7. Spawned => starts \in 1 .. MaxStarts
    BY <1>3 DEF Spawned
  <1> QED BY <1>2, <1>3, <1>4, <1>5, <1>6, <1>7 DEF FlowTypes

(* Nobody who has a block is of a start that still prepares its list.        *)
LEMMA HeadIsAlone ==
  ASSUME FlowTypes, host \in {"head", "meta"}
  PROVE  /\ \A t \in Thread : pc[t] \in HasChunk => t[1] # starts /\ chunk[t][1] # starts
         /\ ~Spawned
  BY DEF FlowTypes, HasChunk, Spawned

(* A write moves one block on, and nobody else holds that block.             *)
LEMMA WriteMoves ==
  ASSUME TypeInv, FlowTypes, Handed, OneUser, NEW t \in Thread, NEW n \in 1 .. MaxRead, Write(t, n)
  PROVE  /\ HasFileOpen(t) /\ pc[t] \in HasChunk
         /\ Curr(t)' = Curr(t) + n /\ Curr(t) + n <= To(chunk[t][2]) + 1
         /\ \A s \in 1 .. MaxStarts, i \in Chunks : curr'[s][i] >= curr[s][i] /\ curr'[s][i] \in Int
         /\ \A u \in Thread : pc[u] \in HasChunk => Curr(u)' >= Curr(u) /\ Curr(u)' \in Int
         /\ \A u \in Thread \ {t} : HasFileOpen(u) => Curr(u)' = Curr(u) /\ chunk[u][2] # chunk[t][2]
  <1>1. HasFileOpen(t) /\ pc[t] \in HasChunk /\ chunk' = chunk /\ Curr(t) + n <= To(chunk[t][2]) + 1
    BY DEF Write, HasFileOpen, HasChunk
  <1>2. /\ chunk[t][1] \in 1 .. MaxStarts /\ chunk[t][2] \in Chunks
        /\ curr'[chunk[t][1]][chunk[t][2]] = curr[chunk[t][1]][chunk[t][2]] + n
        /\ \A r \in 1 .. MaxStarts : r # chunk[t][1] => curr'[r] = curr[r]
        /\ \A j \in Chunks : j # chunk[t][2] => curr'[chunk[t][1]][j] = curr[chunk[t][1]][j]
    BY WriteBlock
  <1>3. Curr(t)' = Curr(t) + n
    BY <1>1, <1>2 DEF Curr
  <1>4. ASSUME NEW s \in 1 .. MaxStarts, NEW i \in Chunks
        PROVE  curr'[s][i] >= curr[s][i] /\ curr'[s][i] \in Int
    <2>1. curr[s][i] \in Int /\ n \in Nat
      BY DEF FlowTypes
    <2>2. curr'[s][i] = curr[s][i] \/ curr'[s][i] = curr[s][i] + n
      BY <1>2
    <2> QED BY <2>1, <2>2
  <1>5. ASSUME NEW u \in Thread, pc[u] \in HasChunk PROVE Curr(u)' >= Curr(u) /\ Curr(u)' \in Int
    <2>1. chunk[u][1] \in 1 .. MaxStarts /\ chunk[u][2] \in Chunks
      BY <1>5 DEF FlowTypes
    <2> QED BY <1>1, <1>4, <2>1 DEF Curr
  <1>6. ASSUME NEW u \in Thread \ {t}, HasFileOpen(u) PROVE Curr(u)' = Curr(u) /\ chunk[u][2] # chunk[t][2]
    <2>1. pc[u] \in HasChunk /\ u[1] = t[1]
      BY <1>1, <1>6 DEF FlowTypes, OneUser
    <2>2. chunk[u] # chunk[t] /\ chunk[u][1] = chunk[t][1] /\ chunk[u][2] \in Chunks
      BY <1>1, <2>1 DEF Handed, FlowTypes
    <2>3. chunk[u][2] # chunk[t][2]
      BY <1>1, <2>1, <2>2 DEF FlowTypes
    <2> QED BY <1>1, <1>2, <2>2, <2>3 DEF Curr
  <1> QED BY <1>1, <1>3, <1>4, <1>5, <1>6

(* A thread's buffered progress goes to the trailer as it is in the list.    *)
LEMMA FlushIs ==
  ASSUME FlowTypes, TrailerBehind, NEW t \in Thread, Flush(t)
  PROVE  /\ len' = "full" => len = "full"
         /\ \A i \in Chunks : meta'[i] \in Int /\ meta'[i] >= meta[i]
         /\ \A i \in Chunks : meta'[i] # meta[i] =>
              HasFileOpen(t) /\ i = chunk[t][2] /\ meta'[i] = Curr(t)
  <1>1. meta \in [Chunks -> Int] /\ pend \in [Thread -> Int]
    BY DEF FlowTypes
  <1>2. CASE pend[t] = NoMeta
    BY <1>1, <1>2 DEF Flush
  <1>3. CASE pend[t] # NoMeta
    <2>1. /\ HasFileOpen(t) /\ pend[t] = Curr(t) /\ chunk[t][2] \in Chunks
          /\ meta[chunk[t][2]] <= Curr(t) /\ Curr(t) \in Int
      BY <1>3 DEF FlowTypes, TrailerBehind
    <2>2. meta' = [meta EXCEPT ![chunk[t][2]] = pend[t]] /\ (len' = "full" => len = "full")
      BY <1>3 DEF Flush
    <2> QED BY <1>1, <2>1, <2>2
  <1> QED BY <1>2, <1>3

(* Parts of FlowInv, step by step: blocks begin at their beginning, ...      *)
LEMMA NextBlocksBegun ==
  ASSUME NoOverflow, SafeInv, FlowInv, [Next]_vars, ~interfered'
  PROVE  BlocksBegun'
  <1>1. ~interfered /\ TypeInv
    BY GoodGrows DEF SafeInv
  <1>2. BlocksBegun /\ Handed /\ OneUser
    BY <1>1 DEF FlowInv
  <1>t. FlowTypes
    BY <1>1, FlowTyped
  <1>i. \A i \in Chunks : From(i) \in Int /\ To(i) \in Int /\ From(i) <= To(i) + 1
    BY BlockInside
  <1>3. CASE Start
    <2>1. ~Spawned' /\ host' = "head"
      BY <1>3, <1>t DEF Start, Spawned, FlowTypes
    <2> QED BY <1>2, <1>3, <2>1 DEF Start, BlocksBegun, Curr
  <1>4. CASE InitSharingViolation
    <2>1. ~Spawned /\ host' = "failed"
      BY <1>4, <1>t, HeadIsAlone DEF InitSharingViolation, NewList
    <2>2. ~Spawned'
      BY <1>4, <2>1 DEF InitSharingViolation, Spawned, threadVars
    <2> QED BY <1>2, <1>4, <2>1, <2>2 DEF InitSharingViolation, BlocksBegun, Curr, threadVars
  <1>5. CASE InitResume \/ InitSetLength
    <2>1. host = "head" /\ starts' = starts /\ starts \in 1 .. MaxStarts /\ chunk' = chunk
      BY <1>5, <1>t DEF InitResume, InitSetLength, NewList, threadVars, FlowTypes
    <2>2. ASSUME NEW i \in Chunks PROVE From(i) <= curr'[starts][i]
      <3>1. CASE InitResume
        <4>1. curr'[starts] = meta
          BY <1>t, <2>1, <3>1 DEF InitResume, FlowTypes
        <4> QED BY <3>1, <4>1 DEF InitResume, ValidMeta
      <3>2. CASE InitSetLength
        <4>1. curr'[starts] = [j \in Chunks |-> To(j) + 1] \/ curr'[starts] = [j \in Chunks |-> From(j)]
          BY <1>t, <2>1, <3>2 DEF InitSetLength, FlowTypes
        <4> QED BY <1>i, <4>1
      <3> QED BY <1>5, <3>1, <3>2
    <2>3. ASSUME NEW t \in Thread, pc'[t] \in HasChunk PROVE From(chunk'[t][2]) <= Curr(t)'
      <3>1. pc[t] \in HasChunk
        BY <1>5, <1>t, <2>3 DEF InitResume, InitSetLength, Spawn, HasChunk, threadVars, FlowTypes
      <3>2. chunk[t][1] # starts /\ chunk[t][1] \in 1 .. MaxStarts
        BY <1>t, <2>1, <3>1, HeadIsAlone DEF FlowTypes
      <3>3. curr'[chunk[t][1]] = curr[chunk[t][1]]
        BY <1>5, <1>t, <3>2 DEF InitResume, InitSetLength, FlowTypes
      <3> QED BY <1>2, <2>1, <3>1, <3>3 DEF BlocksBegun, Curr
    <2> QED BY <2>1, <2>2, <2>3 DEF BlocksBegun
  <1>6. CASE InitWriteMeta
    <2>1. UNCHANGED <<starts, curr, chunk>> /\ host = "meta" /\ \A t \in Thread : pc'[t] \in HasChunk => pc[t] \in HasChunk
      BY <1>6, <1>t DEF InitWriteMeta, Spawn, HasChunk, FlowTypes
    <2> QED BY <1>2, <2>1 DEF BlocksBegun, Curr
  <1>7. CASE Crash
    <2>1. host' = "idle" /\ \A t \in Thread : pc'[t] = "none"
      BY <1>7 DEF Crash
    <2> QED BY <2>1 DEF BlocksBegun, HasChunk, Spawned
  <1>8. ASSUME NEW t \in Thread, NEW n \in 1 .. MaxRead, Write(t, n) PROVE BlocksBegun'
    <2>1. /\ UNCHANGED <<host, starts, chunk>>
          /\ \A u \in Thread : pc'[u] \in HasChunk => pc[u] \in HasChunk
          /\ Spawned' => Spawned
      BY <1>8, <1>t DEF Write, hostVars, HasChunk, Spawned, FlowTypes
    <2>2. /\ \A s \in 1 .. MaxStarts, i \in Chunks : curr'[s][i] >= curr[s][i] /\ curr'[s][i] \in Int
          /\ \A u \in Thread : pc[u] \in HasChunk => Curr(u)' >= Curr(u) /\ Curr(u)' \in Int
      BY <1>1, <1>2, <1>8, <1>t, WriteMoves
    <2>3. ASSUME host' = "meta" \/ Spawned', NEW i \in Chunks PROVE From(i) <= curr'[starts][i]
      <3>1. From(i) <= curr[starts][i] /\ starts \in 1 .. MaxStarts
        BY <1>2, <1>t, <2>1, <2>3 DEF BlocksBegun, FlowTypes
      <3>2. curr[starts][i] \in Int
        BY <1>t, <3>1 DEF FlowTypes
      <3> QED BY <1>i, <2>2, <3>1, <3>2
    <2>4. ASSUME NEW u \in Thread, pc'[u] \in HasChunk PROVE From(chunk[u][2]) <= Curr(u)'
      <3>1. pc[u] \in HasChunk
        BY <2>1, <2>4
      <3>2. From(chunk[u][2]) <= Curr(u) /\ Curr(u) \in Int /\ chunk[u][2] \in Chunks
        BY <1>2, <1>t, <3>1 DEF BlocksBegun, FlowTypes
      <3> QED BY <1>i, <2>2, <3>1, <3>2
    <2> QED BY <2>1, <2>3, <2>4 DEF BlocksBegun
  <1>9. ASSUME NEW t \in Thread, Take(t) PROVE BlocksBegun'
    <2>1. t[1] = starts /\ pc[t] = "idle" /\ nextIdx \in Chunks
      <3>1. t[1] = starts
        BY <1>1, <1>9, ActorIsCurrent
      <3>2. pc[t] = "idle" /\ nextIdx < Cnt /\ nextIdx \in Nat
        BY <1>9, <1>t DEF Take, FlowTypes
      <3> QED BY <3>1, <3>2, CntNat DEF Chunks
    <2>2. Spawned /\ listOf = starts /\ starts \in 1 .. MaxStarts
      BY <1>t, <2>1 DEF Spawned, FlowTypes
    <2>3. UNCHANGED <<host, starts, curr>> /\ chunk' = [chunk EXCEPT ![t] = <<starts, nextIdx>>]
      BY <1>9, <2>2 DEF Take
    <2>4. From(nextIdx) <= curr[starts][nextIdx] /\ \A i \in Chunks : From(i) <= curr[starts][i]
      BY <1>2, <2>1, <2>2 DEF BlocksBegun
    <2>5. ASSUME NEW u \in Thread, pc'[u] \in HasChunk PROVE From(chunk'[u][2]) <= Curr(u)'
      <3>1. CASE u = t
        <4>1. chunk'[u] = <<starts, nextIdx>>
          BY <1>t, <2>3, <3>1 DEF FlowTypes
        <4> QED BY <2>3, <2>4, <4>1 DEF Curr
      <3>2. CASE u # t
        <4>1. chunk'[u] = chunk[u] /\ pc[u] \in HasChunk
          BY <1>9, <1>t, <2>3, <2>5, <3>2 DEF Take, FlowTypes
        <4> QED BY <1>2, <2>3, <4>1 DEF BlocksBegun, Curr
      <3> QED BY <3>1, <3>2
    <2> QED BY <2>3, <2>4, <2>5 DEF BlocksBegun
  <1>10. ASSUME NEW t \in Thread, Open(t) \/ Closes(t) PROVE BlocksBegun'
    <2>1. UNCHANGED <<host, starts, curr, chunk>>
      BY <1>10 DEF Open, Closes, hostVars
    <2>2. pc[t] # "none" /\ \A u \in Thread : pc'[u] \in HasChunk => pc[u] \in HasChunk
      BY <1>10, <1>t DEF Open, Closes, HasChunk, FlowTypes
    <2>3. \A u \in Thread : pc'[u] # "none" => pc[u] # "none"
      BY <1>10, <1>t, <2>2 DEF Open, Closes, FlowTypes
    <2>4. Spawned' => Spawned
      BY <2>1, <2>3 DEF Spawned
    <2> QED BY <1>2, <2>1, <2>2, <2>4 DEF BlocksBegun, Curr
  <1>11. CASE Keeps
    <2>1. Spawned' => Spawned
      BY <1>11 DEF Keeps, Spawned
    <2> QED BY <1>2, <1>11, <2>1 DEF Keeps, BlocksBegun, Curr
  <1> QED BY <1>1, <1>3, <1>4, <1>5, <1>6, <1>7, <1>8, <1>9, <1>10, <1>11, FlowSteps

(* ... each is in one hand, ...                                              *)
LEMMA NextHanded ==
  ASSUME SafeInv, FlowInv, [Next]_vars, ~interfered'
  PROVE  Handed'
  <1>1. ~interfered /\ TypeInv
    BY GoodGrows DEF SafeInv
  <1>2. Handed
    BY <1>1 DEF FlowInv
  <1>t. FlowTypes
    BY <1>1, FlowTyped
  <1>3. CASE /\ UNCHANGED <<listOf, nextIdx, chunk>>
             /\ \A t \in Thread : pc'[t] \in HasChunk => pc[t] \in HasChunk
    BY <1>2, <1>3 DEF Handed
  <1>4. CASE InitSharingViolation \/ InitResume \/ InitSetLength
    <2>1. host = "head" /\ listOf' = starts /\ chunk' = chunk
      BY <1>4 DEF InitSharingViolation, InitResume, InitSetLength, NewList, threadVars
    <2>2. \A t \in Thread : pc'[t] \in HasChunk => pc[t] \in HasChunk
      BY <1>4, <1>t DEF InitSharingViolation, InitResume, InitSetLength, Spawn, HasChunk, threadVars, FlowTypes
    <2>3. \A t \in Thread : pc'[t] \in HasChunk => chunk[t][1] # starts
      BY <1>t, <2>1, <2>2, HeadIsAlone
    <2> QED BY <1>2, <2>1, <2>2, <2>3 DEF Handed
  <1>5. ASSUME NEW t \in Thread, Take(t) PROVE Handed'
    <2>1. /\ chunk' = [chunk EXCEPT ![t] = <<listOf, nextIdx>>] /\ nextIdx' = nextIdx + 1 /\ listOf' = listOf
          /\ \A u \in Thread \ {t} : pc'[u] = pc[u]
      BY <1>5, <1>t DEF Take, FlowTypes
    <2>2. chunk'[t] = <<listOf, nextIdx>> /\ \A u \in Thread \ {t} : chunk'[u] = chunk[u]
      BY <1>t, <2>1 DEF FlowTypes
    <2>3. ASSUME NEW u \in Thread \ {t}, pc'[u] \in HasChunk PROVE chunk[u] # <<listOf, nextIdx>>
      <3> SUFFICES ASSUME chunk[u] = <<listOf, nextIdx>> PROVE FALSE
        OBVIOUS
      <3>1. chunk[u][1] = listOf /\ chunk[u][2] = nextIdx
        OBVIOUS
      <3>2. nextIdx < nextIdx
        BY <1>2, <2>1, <2>3, <3>1 DEF Handed
      <3> QED BY <1>t, <3>2 DEF FlowTypes
    <2>4. ASSUME NEW u \in Thread, pc'[u] \in HasChunk, chunk'[u][1] = listOf PROVE chunk'[u][2] < nextIdx + 1
      <3>1. CASE u = t
        BY <1>t, <2>2, <3>1 DEF FlowTypes
      <3>2. CASE u # t
        <4>1. chunk[u][2] < nextIdx /\ chunk[u][2] \in Chunks
          BY <1>2, <1>t, <2>1, <2>2, <2>4, <3>2 DEF Handed, FlowTypes
        <4>2. nextIdx \in Nat /\ chunk[u][2] \in Int
          BY <1>t, <4>1, CntNat DEF FlowTypes, Chunks
        <4>3. chunk'[u] = chunk[u]
          BY <2>2, <3>2
        <4>4. chunk[u][2] < nextIdx + 1
          BY ONLY <4>1, <4>2
        <4> QED BY ONLY <4>3, <4>4
      <3> QED BY <3>1, <3>2
    <2>5. ASSUME NEW u \in Thread, NEW v \in Thread, pc'[u] \in HasChunk, pc'[v] \in HasChunk, chunk'[u] = chunk'[v]
          PROVE  u = v
      <3>1. CASE u # t /\ v # t
        BY <1>2, <2>1, <2>2, <2>5, <3>1 DEF Handed
      <3>2. CASE u = t \/ v = t
        BY <2>2, <2>3, <2>5, <3>2
      <3> QED BY <3>1, <3>2
    <2> QED BY <2>1, <2>4, <2>5 DEF Handed
  <1>6. CASE Start \/ InitWriteMeta
    <2>1. /\ UNCHANGED <<listOf, nextIdx, chunk>>
          /\ \A t \in Thread : pc'[t] \in HasChunk => pc[t] \in HasChunk
      BY <1>6, <1>t DEF Start, InitWriteMeta, Spawn, HasChunk, FlowTypes
    <2> QED BY <1>3, <2>1
  <1>7. CASE Crash
    BY <1>7 DEF Crash, Handed, HasChunk
  <1>8. ASSUME NEW t \in Thread, NEW n \in 1 .. MaxRead, Write(t, n) PROVE Handed'
    <2>1. /\ UNCHANGED <<listOf, nextIdx, chunk>>
          /\ \A u \in Thread : pc'[u] \in HasChunk => pc[u] \in HasChunk
      BY <1>8, <1>t DEF Write, hostVars, HasChunk, FlowTypes
    <2> QED BY <1>3, <2>1
  <1>9. ASSUME NEW t \in Thread, Open(t) \/ Closes(t) PROVE Handed'
    <2>1. /\ UNCHANGED <<listOf, nextIdx, chunk>>
          /\ \A u \in Thread : pc'[u] \in HasChunk => pc[u] \in HasChunk
      BY <1>9, <1>t DEF Open, Closes, hostVars, HasChunk, FlowTypes
    <2> QED BY <1>3, <2>1
  <1>10. CASE Keeps
    BY <1>3, <1>10 DEF Keeps
  <1> QED BY <1>1, <1>4, <1>5, <1>6, <1>7, <1>8, <1>9, <1>10, FlowSteps

(* ... the file belongs to one start, ...                                    *)
LEMMA NextOneUser ==
  ASSUME SafeInv, FlowInv, [Next]_vars, ~interfered'
  PROVE  OneUser'
  <1>1. ~interfered /\ TypeInv
    BY GoodGrows DEF SafeInv
  <1>2. OneUser /\ TrailerBehind
    BY <1>1 DEF FlowInv
  <1>t. FlowTypes
    BY <1>1, FlowTyped
  <1>3. CASE /\ starts' = starts /\ mark' = mark
             /\ host' = "meta" => host = "meta"
             /\ \A t \in Thread : HasFileOpen(t)' => HasFileOpen(t)
             /\ \A t \in Thread : pc'[t] # "none" => pc[t] # "none"
    <2>1. Spawned' => Spawned
      BY <1>3 DEF Spawned
    <2> QED BY <1>2, <1>3, <2>1 DEF OneUser
  <1>4. CASE Start
    <2>1. ~Spawned' /\ host' = "head" /\ \A t \in Thread : HasFileOpen(t)' <=> HasFileOpen(t)
      BY <1>4, <1>t DEF Start, Spawned, HasFileOpen, FlowTypes
    <2> QED BY <1>2, <2>1 DEF OneUser
  <1>5. CASE InitSharingViolation
    BY <1>3, <1>5 DEF InitSharingViolation, HasFileOpen, threadVars, fileVars
  <1>6. CASE InitResume \/ InitSetLength
    <2>1. \A t \in Thread : ~HasFileOpen(t)'
      BY <1>6, <1>t DEF InitResume, InitSetLength, Spawn, HasFileOpen, threadVars, FlowTypes
    <2>2. host' = "meta" => ~mark'
      BY <1>2, <1>6 DEF InitResume, InitSetLength, TrailerBehind
    <2> QED BY <2>1, <2>2 DEF OneUser
  <1>7. CASE InitWriteMeta
    <2>1. host' = "run" /\ \A t \in Thread : ~HasFileOpen(t)'
      BY <1>2, <1>7, <1>t DEF InitWriteMeta, Spawn, HasFileOpen, FlowTypes, OneUser
    <2> QED BY <2>1 DEF OneUser
  <1>8. CASE Crash
    <2>1. host' = "idle" /\ \A t \in Thread : ~HasFileOpen(t)'
      BY <1>8 DEF Crash, HasFileOpen
    <2> QED BY <2>1 DEF OneUser
  <1>9. ASSUME NEW t \in Thread, NEW n \in 1 .. MaxRead, Write(t, n) PROVE OneUser'
    BY <1>3, <1>9, <1>t DEF Write, hostVars, HasFileOpen, FlowTypes
  <1>10. ASSUME NEW t \in Thread, Take(t) \/ Closes(t) PROVE OneUser'
    BY <1>3, <1>10, <1>t DEF Take, Closes, hostVars, fileVars, HasFileOpen, FlowTypes
  <1>11. ASSUME NEW t \in Thread, Open(t) PROVE OneUser'
    <2>1. t[1] = starts
      BY <1>1, <1>11, ActorIsCurrent
    <2>2. /\ pc[t] = "chunk" /\ host' = host /\ host # "meta" /\ starts' = starts
          /\ \A u \in Thread \ {t} : HasFileOpen(u)' => HasFileOpen(u)
      BY <1>11, <1>t DEF Open, hostVars, HasFileOpen, FlowTypes
    <2>3. Spawned
      BY <2>1, <2>2 DEF Spawned
    <2>4. \A u \in Thread : HasFileOpen(u)' => u[1] = starts
      BY <1>2, <2>1, <2>2, <2>3 DEF OneUser
    <2> QED BY <2>2, <2>4 DEF OneUser
  <1>12. CASE Keeps
    BY <1>3, <1>12 DEF Keeps
  <1> QED BY <1>1, <1>4, <1>5, <1>6, <1>7, <1>8, <1>9, <1>10, <1>11, <1>12, FlowSteps

(* A step that closes or keeps a thread's file, and leaves the list alone.   *)
LEMMA TrailerKept ==
  ASSUME FlowTypes, TrailerBehind, UNCHANGED <<mark, starts, curr, chunk>>,
         len' = "full" => len = "full",
         meta' = meta,
         \A t \in Thread : HasFileOpen(t)' => HasFileOpen(t),
         \A t \in Thread : pc'[t] # "none" => pc[t] # "none",
         \A t \in Thread : pend'[t] # NoMeta => pend'[t] = pend[t]
  PROVE  TrailerBehind'
  <1>1. Spawned' => Spawned
    BY DEF Spawned
  <1>2. \A t \in Thread : Curr(t)' = Curr(t)
    BY DEF Curr
  <1>3. ValidMeta => ValidMeta'
    BY DEF ValidMeta
  <1>4. Spawned' => \A i \in Chunks : meta'[i] <= curr'[starts'][i]
    BY <1>1 DEF TrailerBehind
  <1>5. \A t \in Thread : HasFileOpen(t)' => meta'[chunk'[t][2]] <= Curr(t)'
    BY <1>2 DEF TrailerBehind
  <1>6. \A t \in Thread : pend'[t] # NoMeta => pend'[t] = Curr(t)'
    BY <1>2 DEF TrailerBehind
  <1> QED BY <1>1, <1>3, <1>4, <1>5, <1>6 DEF TrailerBehind

(* ... and the trailer stays behind.                                         *)
LEMMA NextTrailerBehind ==
  ASSUME NoOverflow, SafeInv, FlowInv, [Next]_vars, ~interfered'
  PROVE  TrailerBehind'
  <1>1. ~interfered /\ TypeInv
    BY GoodGrows DEF SafeInv
  <1>2. BlocksBegun /\ Handed /\ OneUser /\ TrailerBehind
    BY <1>1 DEF FlowInv
  <1>t. FlowTypes
    BY <1>1, FlowTyped
  <1>i. \A i \in Chunks : From(i) \in Int /\ To(i) \in Int /\ From(i) <= To(i) + 1
    BY BlockInside
  <1>3. CASE Start
    <2>1. ~Spawned' /\ UNCHANGED <<fileVars, curr, pc, chunk, pend>>
      BY <1>3, <1>t DEF Start, Spawned, FlowTypes
    <2> QED BY <1>2, <2>1 DEF TrailerBehind, ValidMeta, Curr, HasFileOpen, fileVars
  <1>4. CASE InitSharingViolation
    <2>1. UNCHANGED <<fileVars, starts, threadVars, curr>>
      BY <1>4 DEF InitSharingViolation
    <2> QED BY <1>2, <1>t, <2>1, TrailerKept DEF fileVars, threadVars, HasFileOpen
  <1>5. CASE InitResume
    <2>1. \A t \in Thread : ~HasFileOpen(t)' /\ pend'[t] = NoMeta
      BY <1>5, <1>t DEF InitResume, Spawn, HasFileOpen, FlowTypes
    <2>2. starts' = starts /\ starts \in 1 .. MaxStarts /\ UNCHANGED <<len, meta, mark>> /\ ValidMeta
      BY <1>5, <1>t DEF InitResume, NewList, FlowTypes, fileVars
    <2>3. curr'[starts'] = meta'
      BY <1>5, <1>t, <2>2 DEF InitResume, FlowTypes
    <2>4. \A i \in Chunks : meta'[i] <= curr'[starts'][i]
      BY <1>t, <2>2, <2>3 DEF FlowTypes
    <2>5. ValidMeta'
      BY <2>2 DEF ValidMeta
    <2> QED BY <2>1, <2>4, <2>5 DEF TrailerBehind
  <1>6. CASE InitSetLength
    <2>1. host = "head" /\ \A t \in Thread : ~HasFileOpen(t)' /\ pend'[t] = NoMeta
      BY <1>6, <1>t DEF InitSetLength, NewList, HasFileOpen, FlowTypes, threadVars
    <2>2. ~Spawned
      BY <1>t, <2>1, HeadIsAlone
    <2>3. ~Spawned'
      BY <1>6, <2>2 DEF InitSetLength, Spawned, threadVars
    <2>4. ~mark'
      BY <1>2, <1>6 DEF InitSetLength, TrailerBehind
    <2> QED BY <2>1, <2>3, <2>4 DEF TrailerBehind
  <1>7. CASE InitWriteMeta
    <2>1. host = "meta" /\ starts' = starts /\ starts \in 1 .. MaxStarts /\ curr' = curr /\ meta' = curr[starts]
      BY <1>7, <1>t DEF InitWriteMeta, FlowTypes
    <2>2. \A t \in Thread : ~HasFileOpen(t)' /\ pend'[t] = NoMeta
      BY <1>2, <1>7, <1>t, <2>1 DEF InitWriteMeta, Spawn, HasFileOpen, FlowTypes, OneUser
    <2>3. ASSUME NEW i \in Chunks
          PROVE  curr[starts][i] \in Int /\ From(i) <= curr[starts][i] /\ curr[starts][i] <= To(i) + 1
      <3>1. curr[starts][i] \in Int
        BY <1>t, <2>1 DEF FlowTypes
      <3>2. From(i) <= curr[starts][i]
        BY <1>2, <2>1 DEF BlocksBegun
      <3>3. curr[starts][i] <= To(i) + 1 \/ curr[starts][i] <= From(i)
        BY <2>1 DEF SafeInv, BlockBounds, Within
      <3> QED BY <1>i, <3>1, <3>2, <3>3
    <2>4. ValidMeta'
      BY <2>1, <2>3 DEF ValidMeta
    <2>5. \A i \in Chunks : meta'[i] <= curr'[starts'][i]
      BY <2>1, <2>3
    <2> QED BY <2>2, <2>4, <2>5 DEF TrailerBehind
  <1>8. CASE Crash
    <2>1. /\ UNCHANGED fileVars
          /\ \A t \in Thread : pc'[t] = "none" /\ pend'[t] = NoMeta
      BY <1>8 DEF Crash
    <2>2. ~Spawned' /\ \A t \in Thread : ~HasFileOpen(t)'
      BY <2>1 DEF Spawned, HasFileOpen
    <2>3. (len' = "full" /\ mark') => ValidMeta'
      BY <1>2, <2>1 DEF TrailerBehind, ValidMeta, fileVars
    <2> QED BY <2>1, <2>2, <2>3 DEF TrailerBehind
  <1>9. ASSUME NEW t \in Thread, NEW n \in 1 .. MaxRead, Write(t, n) PROVE TrailerBehind'
    <2>1. /\ HasFileOpen(t) /\ pc[t] \in HasChunk
          /\ Curr(t)' = Curr(t) + n /\ Curr(t) + n <= To(chunk[t][2]) + 1
          /\ \A s \in 1 .. MaxStarts, i \in Chunks : curr'[s][i] >= curr[s][i] /\ curr'[s][i] \in Int
          /\ \A u \in Thread \ {t} : HasFileOpen(u) => Curr(u)' = Curr(u) /\ chunk[u][2] # chunk[t][2]
      BY <1>1, <1>2, <1>9, <1>t, WriteMoves
    <2>2. /\ UNCHANGED <<mark, starts, chunk>> /\ Flush(t) /\ pend' = [pend EXCEPT ![t] = Curr(t) + n]
          /\ \A u \in Thread : HasFileOpen(u)' => HasFileOpen(u)
          /\ Spawned' => Spawned
      BY <1>9, <1>t DEF Write, hostVars, HasFileOpen, Spawned, FlowTypes
    <2>3. /\ len' = "full" => len = "full"
          /\ \A i \in Chunks : meta'[i] \in Int /\ meta'[i] >= meta[i]
          /\ \A i \in Chunks : meta'[i] # meta[i] => i = chunk[t][2] /\ meta'[i] = Curr(t)
      BY <1>2, <1>t, <2>2, FlushIs
    <2>4. /\ chunk[t][2] \in Chunks /\ Curr(t) \in Int /\ chunk[t][1] = t[1] /\ t[1] \in 1 .. MaxStarts
          /\ From(chunk[t][2]) <= Curr(t)
          /\ \A i \in Chunks : meta[i] \in Int
      BY <1>2, <1>t, <2>1 DEF FlowTypes, BlocksBegun
    <2>5. ASSUME len' = "full", mark' PROVE ValidMeta'
      <3>1. ASSUME NEW i \in Chunks PROVE From(i) <= meta'[i] /\ meta'[i] <= To(i) + 1
        <4>1. From(i) <= meta[i] /\ meta[i] <= To(i) + 1
          BY <1>2, <2>2, <2>3, <2>5 DEF TrailerBehind, ValidMeta
        <4>2. CASE meta'[i] = meta[i]
          BY <4>1, <4>2
        <4>3. CASE meta'[i] # meta[i]
          <5>1. i = chunk[t][2] /\ meta'[i] = Curr(t)
            BY <2>3, <4>3
          <5> QED BY <1>i, <2>1, <2>4, <5>1
        <4> QED BY <4>2, <4>3
      <3> QED BY <3>1 DEF ValidMeta
    <2>6. ASSUME Spawned', NEW i \in Chunks PROVE meta'[i] <= curr'[starts][i]
      <3>1. Spawned /\ starts \in 1 .. MaxStarts /\ meta[i] <= curr[starts][i] /\ t[1] = starts
        BY <1>2, <1>t, <2>1, <2>2, <2>6 DEF TrailerBehind, OneUser, FlowTypes
      <3>2. curr[starts][i] \in Int /\ curr'[starts][i] \in Int /\ curr'[starts][i] >= curr[starts][i]
        BY <1>t, <2>1, <3>1 DEF FlowTypes
      <3>3. CASE meta'[i] = meta[i]
        BY <2>4, <3>1, <3>2, <3>3
      <3>4. CASE meta'[i] # meta[i]
        <4>1. i = chunk[t][2] /\ meta'[i] = Curr(t)
          BY <2>3, <3>4
        <4>2. Curr(t) = curr[starts][i]
          BY <2>4, <3>1, <4>1 DEF Curr
        <4> QED BY <3>2, <4>1, <4>2
      <3> QED BY <3>3, <3>4
    <2>7. ASSUME NEW u \in Thread, HasFileOpen(u)' PROVE meta'[chunk[u][2]] <= Curr(u)'
      <3>1. HasFileOpen(u) /\ chunk[u][2] \in Chunks /\ meta[chunk[u][2]] <= Curr(u) /\ Curr(u) \in Int
        BY <1>2, <1>t, <2>2, <2>7 DEF TrailerBehind, FlowTypes
      <3>2. CASE u = t
        <4>1. meta'[chunk[t][2]] = meta[chunk[t][2]] \/ meta'[chunk[t][2]] = Curr(t)
          BY <2>3, <2>4
        <4> QED BY <2>1, <2>4, <3>1, <3>2, <4>1
      <3>3. CASE u # t
        <4>1. Curr(u)' = Curr(u) /\ chunk[u][2] # chunk[t][2]
          BY <2>1, <3>1, <3>3
        <4>2. meta'[chunk[u][2]] = meta[chunk[u][2]]
          BY <2>3, <3>1, <4>1
        <4> QED BY <3>1, <4>1, <4>2
      <3> QED BY <3>2, <3>3
    <2>8. ASSUME NEW u \in Thread, pend'[u] # NoMeta PROVE pend'[u] = Curr(u)'
      <3>1. CASE u = t
        BY <1>t, <2>1, <2>2, <3>1 DEF FlowTypes
      <3>2. CASE u # t
        <4>1. pend'[u] = pend[u]
          BY <1>t, <2>2, <3>2 DEF FlowTypes
        <4>2. pend[u] = Curr(u) /\ HasFileOpen(u)
          BY <1>2, <1>t, <2>8, <4>1 DEF TrailerBehind, FlowTypes
        <4> QED BY <2>1, <3>2, <4>1, <4>2
      <3> QED BY <3>1, <3>2
    <2> QED BY <2>2, <2>5, <2>6, <2>7, <2>8 DEF TrailerBehind
  <1>10. ASSUME NEW t \in Thread, Take(t) PROVE TrailerBehind'
    <2>1. /\ UNCHANGED <<len, meta, mark, starts, curr, pend>> /\ pc[t] = "idle" /\ pc'[t] = "chunk"
          /\ \A u \in Thread \ {t} : pc'[u] = pc[u] /\ chunk'[u] = chunk[u]
      BY <1>10, <1>t DEF Take, fileVars, FlowTypes
    <2>2. ~HasFileOpen(t) /\ ~HasFileOpen(t)'
      BY <2>1 DEF HasFileOpen
    <2>3. pend'[t] = NoMeta
      BY <1>t, <2>1, <2>2 DEF FlowTypes
    <2>4. \A u \in Thread \ {t} : Curr(u)' = Curr(u) /\ (HasFileOpen(u)' <=> HasFileOpen(u))
      BY <2>1 DEF Curr, HasFileOpen
    <2>5. Spawned' => Spawned
      BY <2>1 DEF Spawned
    <2>6. ValidMeta => ValidMeta'
      BY <2>1 DEF ValidMeta
    <2>7. \A u \in Thread : HasFileOpen(u)' => meta'[chunk'[u][2]] <= Curr(u)'
      BY <1>2, <2>1, <2>2, <2>4 DEF TrailerBehind
    <2>8. \A u \in Thread : pend'[u] # NoMeta => pend'[u] = Curr(u)'
      BY <1>2, <2>1, <2>3, <2>4 DEF TrailerBehind
    <2> QED BY <1>2, <2>1, <2>5, <2>6, <2>7, <2>8 DEF TrailerBehind
  <1>11. ASSUME NEW t \in Thread, Open(t) PROVE TrailerBehind'
    <2>1. /\ UNCHANGED <<len, meta, mark, starts, curr, chunk, pend>> /\ pc[t] = "chunk" /\ pc'[t] = "open"
          /\ \A u \in Thread \ {t} : pc'[u] = pc[u]
      BY <1>11, <1>t DEF Open, fileVars, hostVars, FlowTypes
    <2>2. t[1] = starts
      BY <1>1, <1>11, ActorIsCurrent
    <2>3. Spawned
      BY <2>1, <2>2 DEF Spawned
    <2>4. chunk[t][1] = starts /\ chunk[t][2] \in Chunks
      BY <1>t, <2>1, <2>2 DEF FlowTypes, HasChunk
    <2>5. meta[chunk[t][2]] <= Curr(t)
      BY <1>2, <2>3, <2>4 DEF TrailerBehind, Curr
    <2>6. \A u \in Thread : Curr(u)' = Curr(u)
      BY <2>1 DEF Curr
    <2>7. \A u \in Thread \ {t} : HasFileOpen(u)' <=> HasFileOpen(u)
      BY <2>1 DEF HasFileOpen
    <2>8. \A u \in Thread : HasFileOpen(u)' => meta'[chunk'[u][2]] <= Curr(u)'
      BY <1>2, <2>1, <2>5, <2>6, <2>7 DEF TrailerBehind
    <2>9. ValidMeta => ValidMeta'
      BY <2>1 DEF ValidMeta
    <2>10. \A u \in Thread : pend'[u] # NoMeta => pend'[u] = Curr(u)'
      BY <1>2, <2>1, <2>6 DEF TrailerBehind
    <2> QED BY <1>2, <2>1, <2>3, <2>8, <2>9, <2>10 DEF TrailerBehind
  <1>12. ASSUME NEW t \in Thread, Closes(t) PROVE TrailerBehind'
    <2>1. /\ UNCHANGED <<mark, starts, curr, chunk>> /\ pc[t] # "none" /\ Flush(t)
          /\ pend' = [pend EXCEPT ![t] = NoMeta] /\ pc'[t] \in {"chunk", "dead"}
          /\ \A u \in Thread \ {t} : pc'[u] = pc[u]
      BY <1>12, <1>t DEF Closes, FlowTypes
    <2>2. /\ len' = "full" => len = "full"
          /\ \A i \in Chunks : meta'[i] \in Int /\ meta'[i] >= meta[i]
          /\ \A i \in Chunks : meta'[i] # meta[i] =>
               HasFileOpen(t) /\ i = chunk[t][2] /\ meta'[i] = Curr(t)
      BY <1>2, <1>t, <2>1, FlushIs
    <2>3. ~HasFileOpen(t)' /\ \A u \in Thread \ {t} : HasFileOpen(u)' <=> HasFileOpen(u)
      BY <2>1 DEF HasFileOpen
    <2>4. \A u \in Thread : Curr(u)' = Curr(u)
      BY <2>1 DEF Curr
    <2>5. Spawned' => Spawned
      BY <2>1 DEF Spawned
    <2>6. HasFileOpen(t) => /\ chunk[t][2] \in Chunks /\ Curr(t) \in Int /\ chunk[t][1] = t[1]
                            /\ From(chunk[t][2]) <= Curr(t) /\ Curr(t) <= To(chunk[t][2]) + 1
      <3> SUFFICES ASSUME HasFileOpen(t)
                   PROVE  /\ chunk[t][2] \in Chunks /\ Curr(t) \in Int /\ chunk[t][1] = t[1]
                          /\ From(chunk[t][2]) <= Curr(t) /\ Curr(t) <= To(chunk[t][2]) + 1
        OBVIOUS
      <3>1. /\ chunk[t][1] \in 1 .. MaxStarts /\ chunk[t][2] \in Chunks /\ Curr(t) \in Int /\ chunk[t][1] = t[1]
            /\ From(chunk[t][2]) <= Curr(t)
        BY <1>2, <1>t DEF FlowTypes, BlocksBegun
      <3>2. Curr(t) <= To(chunk[t][2]) + 1 \/ Curr(t) <= From(chunk[t][2])
        BY <3>1 DEF SafeInv, BlockBounds, Within, Curr
      <3>3. Curr(t) <= To(chunk[t][2]) + 1
        <4>1. From(chunk[t][2]) \in Int /\ To(chunk[t][2]) \in Int /\ From(chunk[t][2]) <= To(chunk[t][2]) + 1
          BY <1>i, <3>1
        <4> QED BY ONLY <3>1, <3>2, <4>1
      <3> QED BY <3>1, <3>3
    <2>7. ASSUME len' = "full", mark' PROVE ValidMeta'
      <3>1. ASSUME NEW i \in Chunks PROVE From(i) <= meta'[i] /\ meta'[i] <= To(i) + 1
        <4>1. From(i) <= meta[i] /\ meta[i] <= To(i) + 1
          BY <1>2, <2>1, <2>2, <2>7 DEF TrailerBehind, ValidMeta
        <4>2. CASE meta'[i] = meta[i]
          BY <4>1, <4>2
        <4>3. CASE meta'[i] # meta[i]
          BY <2>2, <2>6, <4>3
        <4> QED BY <4>2, <4>3
      <3> QED BY <3>1 DEF ValidMeta
    <2>8. ASSUME Spawned', NEW i \in Chunks PROVE meta'[i] <= curr[starts][i]
      <3>1. Spawned /\ starts \in 1 .. MaxStarts /\ meta[i] <= curr[starts][i]
        BY <1>2, <1>t, <2>5, <2>8 DEF TrailerBehind, FlowTypes
      <3>2. CASE meta'[i] = meta[i]
        BY <3>1, <3>2
      <3>3. CASE meta'[i] # meta[i]
        <4>1. HasFileOpen(t) /\ i = chunk[t][2] /\ meta'[i] = Curr(t)
          BY <2>2, <3>3
        <4>2. t[1] = starts /\ chunk[t][1] = t[1]
          BY <1>2, <2>6, <3>1, <4>1 DEF OneUser
        <4>3. Curr(t) = curr[starts][i] /\ Curr(t) \in Int
          BY <2>6, <4>1, <4>2 DEF Curr
        <4> QED BY <4>1, <4>3
      <3> QED BY <3>2, <3>3
    <2>9. ASSUME NEW u \in Thread, HasFileOpen(u)' PROVE meta'[chunk[u][2]] <= Curr(u)
      <3>1. u # t
        BY <2>3, <2>9
      <3>2. HasFileOpen(u) /\ chunk[u][2] \in Chunks /\ meta[chunk[u][2]] <= Curr(u)
        BY <1>2, <1>t, <2>3, <2>9, <3>1 DEF TrailerBehind, FlowTypes
      <3>3. CASE meta'[chunk[u][2]] = meta[chunk[u][2]]
        BY <3>2, <3>3
      <3>4. CASE meta'[chunk[u][2]] # meta[chunk[u][2]]
        <4>1. HasFileOpen(t) /\ chunk[u][2] = chunk[t][2]
          BY <2>2, <3>2, <3>4
        <4>2. u[1] = t[1] /\ pc[u] \in HasChunk /\ pc[t] \in HasChunk
          BY <1>2, <1>t, <3>2, <4>1 DEF OneUser, FlowTypes
        <4>3. chunk[u] = chunk[t]
          <5>1. \A v \in {t, u} : chunk[v] = <<chunk[v][1], chunk[v][2]>> /\ chunk[v][1] = v[1]
            BY <1>t, <4>2 DEF FlowTypes
          <5> QED BY ONLY <4>1, <4>2, <5>1
        <4>4. Handed
          BY <1>2
        <4> QED BY ONLY <3>1, <4>2, <4>3, <4>4, t \in Thread, u \in Thread DEF Handed
      <3> QED BY <3>3, <3>4
    <2>10. ASSUME NEW u \in Thread, pend'[u] # NoMeta PROVE pend'[u] = Curr(u)
      <3>1. u # t /\ pend'[u] = pend[u]
        BY <1>t, <2>1, <2>10 DEF FlowTypes
      <3> QED BY <1>2, <2>10, <3>1 DEF TrailerBehind
    <2> QED BY <2>1, <2>4, <2>7, <2>8, <2>9, <2>10 DEF TrailerBehind
  <1>13. CASE Keeps
    BY <1>2, <1>t, <1>13, TrailerKept DEF Keeps
  <1> QED BY <1>1, <1>3, <1>4, <1>5, <1>6, <1>7, <1>8, <1>9, <1>10, <1>11, <1>12, <1>13, FlowSteps

(* Together.                                                                 *)
LEMMA NextFlowInv == NoOverflow /\ SafeInv /\ FlowInv /\ [Next]_vars => FlowInv'
  <1> SUFFICES ASSUME NoOverflow, SafeInv, FlowInv, [Next]_vars, ~interfered'
               PROVE  BlocksBegun' /\ Handed' /\ OneUser' /\ TrailerBehind'
    BY DEF FlowInv
  <1> QED BY NextBlocksBegun, NextHanded, NextOneUser, NextTrailerBehind

(* The steps that do not touch the counter's bytes move the host on.         *)
LEMMA HostSteps ==
  ASSUME UNCHANGED <<starts, curr, current, inc>>, CounterExact,
         host' \in {"head", "meta", "run", "join", "aborted"} => host' = host \/ (host = "meta" /\ host' = "run"),
         host' = "done" => host \in {"join", "done"}
  PROVE  CounterExact'
  <1>1. Uncounted' = Uncounted
    BY DEF Uncounted, ListThreads
  <1> QED BY <1>1 DEF CounterExact

(* The counter, step by step.                                                *)
LEMMA NextCounterExact ==
  ASSUME NoOverflow, SafeInv, DoomedInv, FlowInv, ~interfered => CounterExact, [Next]_vars, ~interfered'
  PROVE  CounterExact'
  <1>1. ~interfered /\ TypeInv /\ ThreadsInv
    BY GoodGrows DEF SafeInv
  <1>2. BlocksBegun /\ CounterExact
    BY <1>1 DEF FlowInv
  <1>t. /\ curr \in [1 .. MaxStarts -> [Chunks -> Int]] /\ meta \in [Chunks -> Int]
        /\ pc \in [Thread -> ThreadPC] /\ inc \in [Thread -> Nat] /\ current \in Int
        /\ host # "idle" => starts \in 1 .. MaxStarts
        /\ \A t \in Thread : t[1] \in 1 .. MaxStarts
        /\ Cardinality(Uncounted) \in Nat
    BY <1>1, UncountedFinite DEF TypeInv, TypeOK, Thread
  <1>r. host # "idle" =>
          /\ curr[starts] \in [Chunks -> Int] /\ Within(curr[starts])
          /\ Cardinality(Recorded(curr[starts])) \in Nat /\ Cardinality(Recorded(curr[starts])) <= FileSize
    <2> SUFFICES ASSUME host # "idle"
                 PROVE  /\ curr[starts] \in [Chunks -> Int] /\ Within(curr[starts])
                        /\ Cardinality(Recorded(curr[starts])) \in Nat
                        /\ Cardinality(Recorded(curr[starts])) <= FileSize
      OBVIOUS
    <2>1. curr[starts] \in [Chunks -> Int] /\ Within(curr[starts])
      BY <1>t DEF SafeInv, BlockBounds
    <2> QED BY <2>1, RecordedAtMost
  <1>n. host = "head" => \A t \in Thread : t[1] = starts => inc[t] = 0
    BY <1>1 DEF ThreadsInv
  <1>u. Uncounted' = {} => Cardinality(Uncounted') = 0
    BY FS_EmptySet
  <1>3. CASE Start
    <2>1. host' = "head" /\ current' = 0
      BY <1>3 DEF Start
    <2> QED BY <2>1 DEF CounterExact
  <1>4. CASE InitResume
    <2>1. host = "head" /\ host' = "run" /\ starts' = starts /\ inc' = inc /\ starts \in 1 .. MaxStarts
      BY <1>4, <1>t DEF InitResume, NewList
    <2>2. curr'[starts] = meta /\ current = 0
      BY <1>2, <1>4, <1>t, <2>1 DEF InitResume, CounterExact
    <2>3. Uncounted' = {}
      BY <1>n, <2>1, NoneUncounted
    <2>4. Within(meta)
      BY <1>4 DEF InitResume, ValidMeta, Within
    <2>5. current' = Cardinality(Recorded(meta)) /\ Cardinality(Recorded(meta)) \in Nat
      <3>1. current' = current + Cardinality(Recorded(meta))
        BY <1>4 DEF InitResume
      <3>2. Cardinality(Recorded(meta)) \in Nat
        BY <1>t, <2>4, RecordedFinite
      <3> QED BY <2>2, <3>1, <3>2
    <2> QED BY <1>u, <2>1, <2>2, <2>3, <2>5 DEF CounterExact
  <1>5. CASE InitSetLength
    <2>1. host = "head" /\ host' = "meta" /\ starts' = starts /\ inc' = inc /\ starts \in 1 .. MaxStarts
      BY <1>5, <1>t DEF InitSetLength, NewList, threadVars
    <2>2. Uncounted' = {}
      BY <1>n, <2>1, NoneUncounted
    <2>3. current' = Cardinality(Recorded(curr'[starts])) /\ current' \in Nat
      <3>1. CASE len = "data"
        <4>1. current' = FileSize /\ curr'[starts] = [i \in Chunks |-> To(i) + 1]
          BY <1>5, <1>t, <2>1, <3>1 DEF InitSetLength
        <4> QED BY <4>1, EndsRecorded
      <3>2. CASE len # "data"
        <4>1. current' = 0 /\ curr'[starts] = [i \in Chunks |-> From(i)]
          BY <1>5, <1>t, <2>1, <3>2 DEF InitSetLength
        <4> QED BY <4>1, StartsRecorded
      <3> QED BY <3>1, <3>2
    <2> QED BY <1>u, <2>1, <2>2, <2>3 DEF CounterExact
  <1>6. CASE InitWriteMeta
    BY <1>2, <1>6, HostSteps DEF InitWriteMeta
  <1>7. CASE Crash
    BY <1>7 DEF Crash, CounterExact
  <1>8. CASE InitSharingViolation \/ HeadFails
    <2>1. host' = "failed"
      BY <1>8 DEF InitSharingViolation, HeadFails
    <2> QED BY <2>1 DEF CounterExact
  <1>9. CASE AbortDownloadBigFile
    <2>1. host \in {"run", "done"} /\ host' = "aborted" /\ UNCHANGED <<starts, curr, current, inc>>
      BY <1>9 DEF AbortDownloadBigFile
    <2>2. Uncounted' = Uncounted
      BY <2>1 DEF Uncounted, ListThreads
    <2>3. current + Cardinality(Uncounted) = Cardinality(Recorded(curr[starts]))
      BY <1>2, <2>1 DEF CounterExact
    <2> QED BY <1>r, <2>1, <2>2, <2>3 DEF CounterExact
  <1>10. CASE PollFinished
    <2>1. host \in {"run", "aborted"} /\ host' = "join" /\ UNCHANGED <<starts, curr, current, inc>>
      BY <1>10 DEF PollFinished, threadVars
    <2>2. Uncounted' = Uncounted
      BY <2>1 DEF Uncounted, ListThreads
    <2>3. current = FileSize
      BY <1>10, <2>1 DEF PollFinished, DoomedInv
    <2>4. current + Cardinality(Uncounted) <= Cardinality(Recorded(curr[starts]))
      BY <1>2, <1>r, <2>1 DEF CounterExact
    <2>5. current + Cardinality(Uncounted) = Cardinality(Recorded(curr[starts]))
      BY <1>r, <1>t, <2>1, <2>3, <2>4
    <2> QED BY <2>1, <2>2, <2>3, <2>5 DEF CounterExact
  <1>11. CASE PollCut
    BY <1>2, <1>11, HostSteps DEF PollCut, threadVars
  <1>12. ASSUME NEW t \in Thread, NEW n \in 1 .. MaxRead, Write(t, n) PROVE CounterExact'
    <2>1. /\ host' = host /\ starts' = starts /\ current' = current /\ pc[t] = "stream"
          /\ inc' = [inc EXCEPT ![t] = n]
      BY <1>12 DEF Write, hostVars
    <2>2. inc[t] = 0 /\ chunk[t][1] = t[1]
      BY <1>1, <2>1 DEF ThreadsInv, SafeInv, OwnBlocks, HasChunk
    <2>3. /\ chunk[t][2] \in Chunks
          /\ curr'[chunk[t][1]] = [curr[chunk[t][1]] EXCEPT ![chunk[t][2]] = @ + n]
          /\ \A r \in 1 .. MaxStarts : r # chunk[t][1] => curr'[r] = curr[r]
      BY <1>1, <1>12, WriteBlock
    <2>4. CASE t[1] = starts /\ host # "idle"
      <3>1. Spawned /\ starts \in 1 .. MaxStarts
        BY <1>t, <2>1, <2>4 DEF Spawned
      <3>2. host # "head" /\ host # "idle"
        BY <1>1, <2>1, <2>4 DEF ThreadsInv
      <3>3. From(chunk[t][2]) <= curr[starts][chunk[t][2]] /\ n \in Nat
        BY <1>2, <2>3, <3>1 DEF BlocksBegun
      <3>4. curr'[starts] = [curr[starts] EXCEPT ![chunk[t][2]] = @ + n]
        BY <2>2, <2>3, <2>4
      <3>5. curr[starts] \in [Chunks -> Int] /\ Within(curr[starts])
        BY <1>r, <3>2
      <3>6. Cardinality(Recorded(curr'[starts])) = Cardinality(Recorded(curr[starts])) + n
        BY ONLY SizesAssumption, <2>3, <3>3, <3>4, <3>5, RecordedGrows
      <3>7. Cardinality(Uncounted') = Cardinality(Uncounted) + n
        <4>1. n \in 0 .. MaxRead
          OBVIOUS
        <4> QED BY <1>t, <2>1, <2>2, <2>4, <4>1, UncountedGrows
      <3>8. Cardinality(Recorded(curr[starts])) \in Nat
        BY <1>r, <3>2
      <3>9. Cardinality(Uncounted) \in Nat /\ current \in Int
        BY <1>t
      <3>10. /\ current + Cardinality(Uncounted') = Cardinality(Recorded(curr'[starts]))
                 <=> current + Cardinality(Uncounted) = Cardinality(Recorded(curr[starts]))
             /\ current + Cardinality(Uncounted') <= Cardinality(Recorded(curr'[starts]))
                 <=> current + Cardinality(Uncounted) <= Cardinality(Recorded(curr[starts]))
        BY ONLY <3>3, <3>6, <3>7, <3>8, <3>9
      <3>11. host' = host /\ starts' = starts /\ current' = current
        BY <2>1
      <3> QED BY ONLY <1>2, <3>2, <3>10, <3>11 DEF CounterExact
    <2>5. CASE t[1] # starts
      <3>1. host # "idle" => curr'[starts] = curr[starts]
        BY <1>t, <2>2, <2>3, <2>5
      <3>2. ListThreads' = ListThreads /\ \A u \in ListThreads : inc'[u] = inc[u]
        BY <1>t, <2>1, <2>5 DEF ListThreads
      <3>3. Uncounted' = Uncounted
        BY <3>2 DEF Uncounted
      <3> QED BY <1>2, <2>1, <3>1, <3>3 DEF CounterExact
    <2>6. CASE host = "idle"
      BY <2>1, <2>6 DEF CounterExact
    <2> QED BY <2>4, <2>5, <2>6
  <1>13. ASSUME NEW t \in Thread, Count(t) PROVE CounterExact'
    <2>1. t[1] = starts
      BY <1>1, <1>13, ActorIsCurrent
    <2>2. /\ UNCHANGED <<host, starts, curr>> /\ current' = current + inc[t] /\ pc[t] = "count"
          /\ inc' = [inc EXCEPT ![t] = 0]
      BY <1>13 DEF Count, hostVars
    <2>3. host # "head"
      BY <1>1, <2>1, <2>2 DEF ThreadsInv
    <2>4. inc[t] \in 0 .. MaxRead
      BY <1>1, <1>t DEF ThreadsInv
    <2>5. Cardinality(Uncounted) = Cardinality(Uncounted') + inc[t]
      BY <1>t, <2>1, <2>2, <2>4, UncountedShrinks
    <2>6. Cardinality(Uncounted') \in Nat
      <3>1. Uncounted' \subseteq Uncounted
        <4>1. \A u \in Thread : inc'[u] <= inc[u] /\ inc'[u] \in Nat /\ inc[u] \in Nat
          BY <1>t, <2>2
        <4>2. ListThreads' = ListThreads /\ ListThreads \subseteq Thread
          BY <2>2 DEF ListThreads
        <4> QED BY <4>1, <4>2 DEF Uncounted
      <3> QED BY <3>1, UncountedFinite, FS_Subset, FS_CardinalityType
    <2>7. current' + Cardinality(Uncounted') = current + Cardinality(Uncounted)
      BY <1>t, <2>2, <2>4, <2>5, <2>6
    <2>8. host \in {"join", "done"} => current' = FileSize
      <3> SUFFICES ASSUME host \in {"join", "done"} PROVE current' = FileSize
        OBVIOUS
      <3>1. current = FileSize /\ current + Cardinality(Uncounted) = Cardinality(Recorded(curr[starts]))
        BY <1>2 DEF CounterExact
      <3>2. inc[t] = 0
        BY <1>r, <1>t, <2>4, <2>5, <2>6, <3>1
      <3> QED BY <2>2, <3>1, <3>2
    <2> QED BY <1>2, <2>2, <2>3, <2>7, <2>8 DEF CounterExact
  <1>14. ASSUME NEW t \in Thread, Die(t) PROVE CounterExact'
    <2>1. /\ UNCHANGED <<host, starts, curr, current>> /\ inc' = [inc EXCEPT ![t] = 0]
          /\ t \in doomed
      BY <1>14 DEF Die, hostVars
    <2>2. CASE t[1] = starts
      <3>1. host \in {"aborted", "join", "done"}
        BY <1>t, <2>1, <2>2 DEF DoomedInv
      <3>2. Uncounted' \subseteq Uncounted
        <4>1. \A u \in Thread : inc'[u] <= inc[u] /\ inc'[u] \in Nat /\ inc[u] \in Nat
          BY <1>t, <2>1
        <4>2. ListThreads' = ListThreads /\ ListThreads \subseteq Thread
          BY <2>1 DEF ListThreads
        <4> QED BY <4>1, <4>2 DEF Uncounted
      <3>3. Cardinality(Uncounted') <= Cardinality(Uncounted) /\ Cardinality(Uncounted') \in Nat
        BY <3>2, UncountedFinite, FS_Subset, FS_CardinalityType
      <3>4. CASE host = "aborted"
        <4>1. current + Cardinality(Uncounted) <= Cardinality(Recorded(curr[starts]))
          BY <1>2, <3>4 DEF CounterExact
        <4>2. current + Cardinality(Uncounted') <= Cardinality(Recorded(curr[starts]))
          BY <1>r, <1>t, <3>3, <3>4, <4>1
        <4> QED BY <2>1, <3>4, <4>2 DEF CounterExact
      <3>5. CASE host \in {"join", "done"}
        <4>1. current = FileSize /\ current + Cardinality(Uncounted) = Cardinality(Recorded(curr[starts]))
          BY <1>2, <3>5 DEF CounterExact
        <4>2. Cardinality(Uncounted) = 0 /\ Cardinality(Uncounted') = 0
          BY <1>r, <1>t, <3>3, <3>5, <4>1
        <4>3. current' + Cardinality(Uncounted') = current + Cardinality(Uncounted)
          BY <2>1, <4>2
        <4> QED BY <2>1, <3>5, <4>1, <4>3 DEF CounterExact
      <3> QED BY <3>1, <3>4, <3>5
    <2>3. CASE t[1] # starts
      <3>1. ListThreads' = ListThreads /\ \A u \in ListThreads : inc'[u] = inc[u]
        BY <1>t, <2>1, <2>3 DEF ListThreads
      <3>2. Uncounted' = Uncounted
        BY <3>1 DEF Uncounted
      <3> QED BY <1>2, <2>1, <3>2 DEF CounterExact
    <2> QED BY <2>2, <2>3
  <1>15. ASSUME NEW t \in Thread,
                \/ Take(t) \/ Exit(t) \/ ChunkFinished(t) \/ Open(t) \/ RequestOk(t)
                \/ RequestMismatch(t) \/ RequestFails(t) \/ CloseFile(t)
         PROVE  CounterExact'
    <2>1. UNCHANGED <<starts, curr, current, inc, host>>
      BY <1>15 DEF Take, Exit, ChunkFinished, Open, RequestOk, RequestMismatch, RequestFails, CloseFile, hostVars
    <2> QED BY <1>2, <2>1, HostSteps
  <1>16. CASE UNCHANGED vars
    <2>1. UNCHANGED <<starts, curr, current, inc, host>>
      BY <1>16 DEF vars, hostVars, threadVars
    <2> QED BY <1>2, <2>1, HostSteps
  <1> QED BY <1>3, <1>4, <1>5, <1>6, <1>7, <1>8, <1>9, <1>10, <1>11, <1>12, <1>13, <1>14, <1>15, <1>16
      DEF Next, HostNext, ThreadNext, ReadSome

(* ... every step keeps it, so it always holds.                              *)
LEMMA StrictAlways ==
  ASSUME NoOverflow PROVE Spec => []StrictInv
  <1>1. Init => StrictInv
    BY InitStrictInv
  <1>2. StrictInv /\ [Next]_vars => StrictInv'
    <2> SUFFICES ASSUME StrictInv, [Next]_vars PROVE StrictInv'
      OBVIOUS
    <2>1. SafeInv /\ DoomedInv /\ FlowInv /\ (~interfered => CounterExact) /\ TypeInv
      BY DEF StrictInv, SafeInv
    <2>2. SafeInv' /\ DoomedInv' /\ FlowInv'
      BY <2>1, NextSafeInv, NextDoomedInv, NextFlowInv
    <2>3. ~interfered' => CounterExact'
      BY <2>1, NextCounterExact
    <2> QED BY <2>2, <2>3 DEF StrictInv
  <1> QED BY <1>1, <1>2, PTL DEF Spec

(* Under the same conditions the counter that the poll trusts is exact in    *)
(* every running or finished start: it counts each byte that the blocks      *)
(* record, apart from those a thread has written and is about to count.      *)
THEOREM CounterIsExact ==
  ASSUME NoOverflow PROVE Spec => []CounterMatchesBlocks
  <1>1. StrictInv => CounterMatchesBlocks
    <2> SUFFICES ASSUME StrictInv, host \in {"run", "join", "done"}, ~interfered
                 PROVE  current = Cardinality(Recorded(curr[starts])) - Cardinality(Uncounted)
      BY DEF CounterMatchesBlocks
    <2>1. current + Cardinality(Uncounted) = Cardinality(Recorded(curr[starts]))
      BY DEF StrictInv, CounterExact
    <2>2. current \in Int /\ Cardinality(Uncounted) \in Nat
      BY UncountedFinite DEF StrictInv, SafeInv, TypeInv, TypeOK
    <2> QED BY <2>1, <2>2
  <1> QED BY <1>1, StrictAlways, PTL

(* ... and no step of any thread, start or abort sets a block's progress on  *)
(* disk back: a thread's buffered progress is that of the list, of which the *)
(* trailer is never ahead, and a valid trailer is never made anew.           *)
THEOREM ProgressIsKept ==
  ASSUME NoOverflow PROVE Spec => ProgressNeverLost
  <1>1. ASSUME StrictInv, [Next]_vars
        PROVE  [(len = "full" /\ mark /\ len' = "full" /\ mark' /\ ~interfered') =>
                  \A i \in Chunks : meta'[i] >= meta[i]]_vars
    <2> SUFFICES ASSUME len = "full", mark, len' = "full", mark', ~interfered', NEW i \in Chunks
                 PROVE  meta'[i] >= meta[i]
      OBVIOUS
    <2>1. SafeInv /\ ~interfered
      BY <1>1, GoodGrows DEF StrictInv, SafeInv
    <2>2. FlowTypes /\ OneUser /\ TrailerBehind
      BY <1>1, <2>1, FlowTyped DEF StrictInv, FlowInv
    <2>3. meta[i] \in Int
      BY <2>2 DEF FlowTypes
    <2>4. CASE InitWriteMeta
      BY <2>2, <2>4 DEF InitWriteMeta, OneUser
    <2>5. CASE InitSetLength
      BY <2>3, <2>5 DEF InitSetLength
    <2>6. CASE PollCut
      BY <2>3, <2>6 DEF PollCut
    <2>7. ASSUME NEW t \in Thread, Flush(t) PROVE meta'[i] >= meta[i]
      BY <2>2, <2>7, FlushIs
    <2>8. CASE UNCHANGED <<len, meta, mark>>
      BY <2>3, <2>8
    <2> QED BY <1>1, <2>4, <2>5, <2>6, <2>7, <2>8, MetaSteps
  <1> QED BY <1>1, StrictAlways, PTL DEF Spec, ProgressNeverLost

--------------------------------------------------------------------------------
(* The file that the threads share is a resumable one.  What is needed above *)
(* StrictInv: who may still write to a file that has its final length.       *)
LateInv ==
  /\ \A t \in Thread : Live(t) /\ t[1] # starts => t \in doomed
  /\ len = "data" => \A t \in Thread : Live(t) => t \in doomed
  /\ host = "meta" => len # "data"

LEMMA InitLateInv == Init => LateInv
  BY DEF Init, LateInv, Live

(* A thread's step makes no thread live and no file complete.                *)
LEMMA ThreadsOnlyEnd ==
  ASSUME TypeInv, NEW t \in Thread, ThreadNext(t)
  PROVE  /\ UNCHANGED <<starts, doomed, host>>
         /\ len' = "data" => len = "data"
         /\ \A u \in Thread : Live(u)' => Live(u)
  <1>t. pc \in [Thread -> ThreadPC]
    BY DEF TypeInv, TypeOK
  <1>1. /\ UNCHANGED <<starts, doomed, host>>
        /\ len' = len \/ Flush(t)
        /\ Live(t) /\ \E p \in ThreadPC : pc' = [pc EXCEPT ![t] = p]
    <2>1. ASSUME NEW n \in 1 .. MaxRead, Write(t, n)
          PROVE  /\ UNCHANGED <<starts, doomed, host>> /\ Flush(t)
                 /\ Live(t) /\ pc' = [pc EXCEPT ![t] = "count"]
      BY <2>1 DEF Write, hostVars, Live
    <2>2. CASE ReadSome(t)
      BY <2>1, <2>2 DEF ReadSome, ThreadPC
    <2>3. CASE CloseFile(t) \/ Die(t)
      BY <2>3 DEF CloseFile, Die, hostVars, Live, ThreadPC
    <2>4. CASE Take(t) \/ Exit(t) \/ ChunkFinished(t) \/ Open(t) \/ Count(t)
      BY <2>4 DEF Take, Exit, ChunkFinished, Open, Count, fileVars, hostVars, Live, ThreadPC
    <2>5. CASE RequestOk(t) \/ RequestMismatch(t) \/ RequestFails(t)
      BY <2>5 DEF RequestOk, RequestMismatch, RequestFails, fileVars, hostVars, Live, ThreadPC
    <2> QED BY <2>2, <2>3, <2>4, <2>5 DEF ThreadNext
  <1>2. \A u \in Thread : u # t => pc'[u] = pc[u]
    BY ONLY <1>t, <1>1
  <1>3. len' = "data" => len = "data"
    BY <1>1 DEF Flush
  <1> QED BY <1>1, <1>2, <1>3 DEF Live

LEMMA NextLateInv ==
  ASSUME TypeInv, LateInv, [Next]_vars
  PROVE  LateInv'
  <1> USE DEF LateInv
  <1>1. CASE Start
    <2>1. /\ UNCHANGED <<len, pc>> /\ host' = "head"
          /\ doomed' = doomed \cup {t \in ListThreads : Live(t)}
      BY <1>1 DEF Start, AbortAll, fileVars
    <2>2. \A t \in Thread : Live(t)' => Live(t)
      BY <2>1 DEF Live
    <2>3. \A t \in Thread : Live(t) => t \in doomed'
      BY <2>1 DEF ListThreads
    <2> QED BY <2>1, <2>2, <2>3
  <1>2. CASE InitResume \/ InitWriteMeta
    <2>1. /\ len # "data" /\ len' # "data" /\ UNCHANGED <<starts, doomed>> /\ host' = "run"
          /\ pc' = [t \in Thread |-> IF t[1] = starts THEN "idle" ELSE pc[t]]
      BY <1>2 DEF InitResume, InitWriteMeta, Spawn, fileVars
    <2>2. \A t \in Thread : t[1] # starts /\ Live(t)' => Live(t)
      BY <2>1 DEF Live
    <2> QED BY <2>1, <2>2
  <1>3. CASE InitSetLength
    <2>1. len' = "full" /\ UNCHANGED <<starts, doomed, pc>>
      BY <1>3 DEF InitSetLength, threadVars
    <2> QED BY <2>1 DEF Live
  <1>4. CASE AbortDownloadBigFile
    <2>1. /\ UNCHANGED <<len, starts, pc>> /\ host' = "aborted"
          /\ doomed \subseteq doomed'
      BY <1>4 DEF AbortDownloadBigFile, AbortAll, fileVars
    <2> QED BY <2>1 DEF Live
  <1>5. CASE PollCut
    <2>1. /\ UNCHANGED <<starts, doomed, pc>> /\ host' = "done"
          /\ \A t \in ListThreads : t \in doomed \/ ~Live(t)
      BY <1>5 DEF PollCut, Joined, threadVars
    <2>2. \A t \in Thread : Live(t) => t \in doomed
      BY <2>1 DEF ListThreads
    <2> QED BY <2>1, <2>2 DEF Live
  <1>6. CASE HeadFails \/ InitSharingViolation \/ PollFinished \/ UNCHANGED vars
    <2>1. UNCHANGED <<len, starts, doomed, pc>> /\ (host' = "meta" => host = "meta")
      BY <1>6 DEF HeadFails, InitSharingViolation, PollFinished, vars, fileVars, threadVars, hostVars
    <2> QED BY <2>1 DEF Live
  <1>7. CASE Crash
    BY <1>7 DEF Crash, Live
  <1>8. ASSUME NEW t \in Thread, ThreadNext(t) PROVE LateInv'
    BY <1>8, ThreadsOnlyEnd
  <1> QED BY <1>1, <1>2, <1>3, <1>4, <1>5, <1>6, <1>7, <1>8 DEF Next, HostNext

(* What touches the file: a start, the poll, a thread with its file open.    *)
LEMMA FileSteps ==
  ASSUME [Next]_vars
  PROVE  \/ InitWriteMeta \/ InitSetLength \/ PollCut
         \/ \E t \in Thread : Flush(t) /\ UNCHANGED <<mark, host, doomed>>
         \/ UNCHANGED <<len, good, meta, mark>>
  <1>1. ASSUME NEW t \in Thread, ReadSome(t) \/ CloseFile(t) \/ Die(t)
        PROVE  Flush(t) /\ UNCHANGED <<mark, host, doomed>>
    <2>1. ASSUME NEW n \in 1 .. MaxRead, Write(t, n)
          PROVE  Flush(t) /\ UNCHANGED <<mark, host, doomed>>
      BY <2>1 DEF Write, hostVars
    <2>2. CASE CloseFile(t)
      BY <2>2 DEF CloseFile, hostVars
    <2>3. CASE Die(t)
      BY <2>3 DEF Die, hostVars
    <2> QED BY <1>1, <2>1, <2>2, <2>3 DEF ReadSome
  <1> QED BY <1>1
    DEF Next, HostNext, ThreadNext, Start, HeadFails, InitSharingViolation, InitResume,
        AbortDownloadBigFile, PollFinished, Take, Exit, ChunkFinished, Open, RequestOk,
        RequestMismatch, RequestFails, Count, Crash, vars, fileVars

(* What the trailer keeps is on disk.                                        *)
LEMMA KeptIsGood ==
  ASSUME SafeInv, ~interfered
  PROVE  Kept \subseteq good /\ (len = "data" => good = Bytes)
  <1>1. len = "data" => good = Bytes
    BY DEF SafeInv, PlainLengthMeansComplete
  <1>2. len # "data" => Kept \subseteq good
    BY DEF Kept, SafeInv, MetaNeverAheadOfData
  <1> QED BY <1>1, <1>2 DEF Kept

(* A flush keeps what was kept, adds what was written before, or reopens a   *)
(* complete file, which only a thread that was told to stop still does.      *)
LEMMA FlushImplements ==
  ASSUME NoOverflow, StrictInv, LateInv, ~interfered, NEW t \in Thread, Flush(t),
         UNCHANGED <<mark, host, doomed>>, good \subseteq good', good' \subseteq Bytes
  PROVE  File!Fetch \/ File!LateWrite \/ File!Ask
  <1>1. SafeInv /\ FlowTypes /\ TrailerBehind
    BY FlowTyped DEF StrictInv, FlowInv
  <1>2. Kept \subseteq good /\ (len = "data" => good = Bytes)
    BY <1>1, KeptIsGood
  <1>3. CASE pend[t] = NoMeta
    <2>1. len' = len /\ meta' = meta
      BY <1>3 DEF Flush
    <2>2. Kept' = Kept
      BY <2>1 DEF Kept
    <2>3. CASE len = "data"
      <3>1. good' = good
        BY <1>2, <2>3
      <3> QED BY <2>1, <2>2, <3>1 DEF File!Ask
    <2>4. CASE len # "data"
      BY <1>2, <2>1, <2>2, <2>4 DEF File!Fetch
    <2> QED BY <2>3, <2>4
  <1>4. CASE pend[t] # NoMeta /\ len = "data"
    <2>1. len' = "other" /\ good' = good
      BY <1>2, <1>4 DEF Flush
    <2>2. Kept' = {}
      BY <2>1 DEF Kept
    <2>3. Live(t)
      BY <1>1, <1>4 DEF FlowTypes, HasFileOpen, Live
    <2>4. doomed # {}
      BY <1>4, <2>3 DEF LateInv
    <2> QED BY <1>4, <2>1, <2>2, <2>4 DEF File!LateWrite, File!Forget
  <1>5. CASE pend[t] # NoMeta /\ len # "data"
    <2>1. len' = len /\ meta' = [meta EXCEPT ![chunk[t][2]] = pend[t]]
      BY <1>5 DEF Flush
    <2>2. meta \in [Chunks -> Int] /\ meta' \in [Chunks -> Int]
          /\ \A i \in Chunks : meta'[i] >= meta[i]
      <3>1. \A i \in Chunks : meta'[i] \in Int /\ meta'[i] >= meta[i]
        BY <1>1, FlushIs
      <3>2. meta \in [Chunks -> Int]
        BY <1>1 DEF FlowTypes
      <3> QED BY ONLY <2>1, <3>1, <3>2
    <2>3. \A i \in Chunks : From(i) \in Int
      BY FromToInt
    <2>4. Kept \subseteq Kept'
      <3> SUFFICES ASSUME NEW b \in Kept PROVE b \in Kept'
        OBVIOUS
      <3>1. b \in Bytes /\ len = "full" /\ mark
        BY <1>5 DEF Kept
      <3>2. PICK i \in Chunks : From(i) <= b /\ b < meta[i]
        BY <1>5 DEF Kept
      <3>3. b < meta'[i]
        <4>1. b \in Int
          BY <3>1 DEF Bytes
        <4> QED BY ONLY <2>2, <3>2, <4>1, i \in Chunks
      <3> QED BY <1>5, <2>1, <3>1, <3>2, <3>3 DEF Kept
    <2>5. Kept' \subseteq good
      <3> SUFFICES ASSUME NEW b \in Kept' PROVE b \in good
        OBVIOUS
      <3>1. b \in Bytes /\ len = "full" /\ mark
        BY <1>5, <2>1 DEF Kept
      <3>2. PICK i \in Chunks : From(i) <= b /\ b < meta'[i]
        BY <1>5, <2>1 DEF Kept
      <3>3. CASE meta'[i] = meta[i]
        BY <1>1, <3>1, <3>2, <3>3 DEF SafeInv, MetaNeverAheadOfData
      <3>4. CASE meta'[i] # meta[i]
        <4>1. i = chunk[t][2] /\ meta'[i] = pend[t]
          BY ONLY <2>1, <2>2, <3>4, i \in Chunks
        <4>2. HasData(i, pend[t])
          BY <1>1, <1>5, <4>1 DEF SafeInv, PendGood
        <4> QED BY <3>1, <3>2, <4>1, <4>2 DEF HasData
      <3> QED BY <3>3, <3>4
    <2> QED BY <1>5, <2>1, <2>4, <2>5 DEF File!Fetch
  <1> QED BY <1>3, <1>4, <1>5

(* While no thread of an earlier start interferes, a step is one of the      *)
(* resumable file's.                                                         *)
LEMMA StepImplements ==
  ASSUME NoOverflow, StrictInv, StrictInv', LateInv, [Next]_vars, ~interfered'
  PROVE  File!Fetch \/ File!Publish \/ File!Restart \/ File!LateWrite \/ File!Ask
  <1>1. SafeInv /\ SafeInv' /\ TypeInv /\ TypeInv' /\ ~interfered /\ good \subseteq good'
    BY GoodGrows DEF StrictInv, SafeInv
  <1>2. good' \subseteq Bytes /\ meta \in [Chunks -> Int] /\ mark \in BOOLEAN
    BY <1>1 DEF TypeInv, TypeOK
  <1>3. Kept \subseteq good /\ (len = "data" => good = Bytes)
    BY <1>1, KeptIsGood
  <1>4. CASE InitWriteMeta
    <2>1. /\ host = "meta" /\ host' = "run" /\ UNCHANGED <<len, good, doomed>>
          /\ meta' = curr[starts] /\ starts \in 1 .. MaxStarts
      BY <1>1, <1>4 DEF InitWriteMeta, TypeInv, TypeOK
    <2>2. ~mark /\ len # "data"
      BY <1>1, <2>1 DEF StrictInv, FlowInv, OneUser, LateInv
    <2>3. Kept = {}
      BY <2>2 DEF Kept
    <2>4. Kept' \subseteq good
      <3>1. len' # "data"
        BY <2>1, <2>2
      <3> SUFFICES ASSUME NEW b \in Kept' PROVE b \in good
        OBVIOUS
      <3>2. b \in Bytes /\ \E i \in Chunks : From(i) <= b /\ b < curr[starts][i]
        BY <2>1, <3>1 DEF Kept
      <3> QED BY <1>1, <2>1, <3>2 DEF SafeInv, ListGood, HasData
    <2> QED BY <1>2, <2>1, <2>2, <2>3, <2>4 DEF File!Fetch
  <1>5. CASE InitSetLength
    <2>1. /\ host = "head" /\ host' = "meta" /\ len' = "full" /\ UNCHANGED <<good, doomed>>
          /\ len # "full" => mark' = FALSE
          /\ len = "full" => meta' = meta /\ mark' = mark
      BY <1>5 DEF InitSetLength, NewList, threadVars
    <2>2. CASE len = "data"
      <3>1. Kept' = {}
        BY <2>1, <2>2 DEF Kept
      <3> QED BY <2>1, <2>2, <3>1 DEF File!Restart, File!Forget
    <2>3. CASE len # "data"
      <3>1. Kept' = Kept
        BY <2>1, <2>3 DEF Kept
      <3> QED BY <2>1, <2>3, <3>1 DEF File!Ask
    <2> QED BY <2>2, <2>3
  <1>6. CASE PollCut
    <2>1. host = "join" /\ host' = "done" /\ current = FileSize /\ UNCHANGED <<good, doomed>>
      BY <1>1, <1>6 DEF PollCut, StrictInv, CounterExact, threadVars
    <2>2. len' = "data"
      BY <1>6, <2>1 DEF PollCut
    <2>3. Kept' = Bytes
      BY <2>2 DEF Kept
    <2>4. good = Bytes
      BY <1>1, <2>1, <2>2 DEF SafeInv, PlainLengthMeansComplete
    <2>5. CASE len = "data"
      <3>1. Kept = Bytes
        BY <2>5 DEF Kept
      <3> QED BY <2>1, <2>2, <2>3, <2>5, <3>1 DEF File!Ask
    <2>6. CASE len # "data"
      BY <2>1, <2>2, <2>3, <2>4, <2>6 DEF File!Publish
    <2> QED BY <2>5, <2>6
  <1>7. ASSUME NEW t \in Thread, Flush(t), UNCHANGED <<mark, host, doomed>>
        PROVE  File!Fetch \/ File!LateWrite \/ File!Ask
    BY <1>1, <1>2, <1>7, FlushImplements
  <1>8. CASE UNCHANGED <<len, good, meta, mark>>
    <2>1. Kept' = Kept
      BY <1>8 DEF Kept
    <2> QED BY <1>8, <2>1 DEF File!Ask
  <1> QED BY <1>4, <1>5, <1>6, <1>7, <1>8, FileSteps

(* As long as no block begins beyond the largest int, the downloader is a    *)
(* resumable file until a thread of an earlier start interferes: progress    *)
(* follows data, nothing kept is lost, only a complete file gets its final   *)
(* length, and after that nobody writes who was not told to stop.            *)
THEOREM IsResumableFile ==
  ASSUME NoOverflow PROVE Spec => ImplementsResumableFile
  <1>1. Init => File!Init
    <2> SUFFICES ASSUME Init PROVE File!Init
      OBVIOUS
    <2>1. /\ host # "head" /\ doomed = {} /\ interfered = FALSE
          /\ (len \in {"absent", "other"} /\ good = {}) \/ (len = "data" /\ good = Bytes)
      BY DEF Init
    <2>2. len # "data" => Kept = {}
      BY <2>1 DEF Kept
    <2>3. len = "data" => Kept = Bytes
      BY DEF Kept
    <2> QED BY <2>1, <2>2, <2>3 DEF File!Init
  <1>2. Init => LateInv
    BY InitLateInv
  <1>3. StrictInv /\ LateInv /\ [Next]_vars => LateInv'
    BY NextLateInv DEF StrictInv, SafeInv
  <1>4. StrictInv /\ StrictInv' /\ LateInv /\ [Next]_vars => [File!Next]_File!vars
    <2> SUFFICES ASSUME StrictInv, StrictInv', LateInv, [Next]_vars PROVE File!Next
      OBVIOUS
    <2>1. CASE ~interfered'
      <3>1. interfered' = interfered
        BY <2>1, GoodGrows DEF StrictInv, SafeInv, TypeInv, TypeOK
      <3>2. File!Fetch \/ File!Publish \/ File!Restart \/ File!LateWrite \/ File!Ask
        BY <2>1, StepImplements
      <3> QED BY ONLY <3>1, <3>2 DEF File!Next
    <2>2. CASE interfered'
      <3>1. interfered' = TRUE /\ good' \subseteq Bytes
        BY <2>2 DEF StrictInv, SafeInv, TypeInv, TypeOK
      <3>2. Kept' \subseteq Bytes
        BY DEF Kept
      <3>3. File!Disturb
        BY <3>1, <3>2 DEF File!Disturb
      <3> QED BY ONLY <3>3 DEF File!Next
    <2> QED BY <2>1, <2>2
  <1> QED BY <1>1, <1>2, <1>3, <1>4, StrictAlways, PTL
        DEF Spec, ImplementsResumableFile, File!Spec

================================================================================
