------------------------- MODULE BatchDownload_proofs -------------------------
(***************************************************************************)
(* What BatchDownload promises for every list of items, every number of    *)
(* threads and starts, every server and every leftover on disk: its        *)
(* variables keep their types; and as long as no thread of an earlier      *)
(* start acts on the present one, an item reported Finished has the        *)
(* server's file, a verified copy is never lost again, the byte counter is *)
(* exact but for the bytes of an item whose check threw, which it keeps,   *)
(* and a start that is done has settled every item.                        *)
(***************************************************************************)
EXTENDS BatchDownload, SequenceTheorems, TLAPS

USE ItemsAssumption

--------------------------------------------------------------------------------
(* The invariant.                                                            *)

Cur(t) == t[1] = starts
OpenPC == {"request", "stream", "verify"}
IdlePC == {"none", "loop", "dead"}

TypeInv == TypeOK /\ body \in [Thread -> Seq(1 .. Size)]

(* Whatever interferes: threads of later starts do not exist, a thread with  *)
(* an item is at work on it, its open file exists and is its own.            *)
ThreadOK(t) ==
  /\ t[1] > starts => pc[t] = "none"
  /\ item[t] = NoItem <=> pc[t] \in IdlePC
  /\ pc[t] \in {"verify", "delete", "move"} => item[t] \in Hashed
  /\ t \in doomed => t[1] < starts
  /\ pc[t] \in OpenPC => FileOf(item[t]) # Absent
  /\ \A u \in Thread \ {t} : pc[t] \in OpenPC /\ pc[u] \in OpenPC => item[t] # item[u]

ThreadsInv == \A t \in Thread : ThreadOK(t)

(* Every item is in one place: in the queue, with one thread of this start,  *)
(* or through; one whose check threw is through.                             *)
QueueOK ==
  /\ \A i, j \in 1 .. Len(queue) : queue[i] = queue[j] => i = j
  /\ \A it \in Items :
        status[it] = "NotStart" <=> (starts = 0 \/ \E i \in 1 .. Len(queue) : queue[i] = it)
  /\ \A it \in Hashed :
        status[it] = "Started" => \E t \in Thread : Cur(t) /\ item[t] = it
  /\ \A it \in unchecked : status[it] = "Error"

Holds(t) ==
  /\ pc[t] # "none"
  /\ pc[t] = "dead" => queue = <<>>
  /\ item[t] # NoItem => status[item[t]] = "Started"
  /\ \A u \in Thread : u # t /\ Cur(u) /\ item[u] = item[t] => item[t] = NoItem

(* What a response still has to give is what the server's file has behind    *)
(* the thread's position, or it is the whole file, put behind a leftover.    *)
Aligned(t) ==
  /\ got[t] <= Size /\ Len(body[t]) = Size - got[t]
  /\ \A k \in 1 .. Len(body[t]) : body[t][k] = got[t] + k

Appending(t) ==
  LET it == item[t] IN
  /\ Server[it] # "range" /\ 0 < from[t] /\ from[t] <= got[t]
  /\ it \in Sized => from[t] < Size
  /\ IF got[t] = from[t] THEN body[t] # <<>> => body[t][1] = 1
     ELSE temp[it][from[t] + 1] = 1

RequestOK(t) ==
  IF second[t] THEN got[t] = 0 /\ 0 < from[t]
  ELSE /\ got[t] = from[t] /\ Len(temp[item[t]]) = got[t]
       /\ item[t] \in Sized => got[t] < Size

StreamOK(t) ==
  IF second[t] THEN Aligned(t) /\ got[t] <= Len(temp[item[t]])
  ELSE Len(temp[item[t]]) = got[t] /\ (Aligned(t) \/ Appending(t))

VerifyOK(t) ==
  IF second[t]
  THEN Server[item[t]] = "range" /\ item[t] \notin cut =>
          got[t] = Size /\ Len(temp[item[t]]) = Size
  ELSE Len(temp[item[t]]) = got[t]

(* A thread that is past the check has a verified .temp file, ...            *)
PublishOK(t) ==
  /\ temp[item[t]] = Want
  /\ Server[item[t]] = "range" /\ item[t] \notin cut => got[t] = Size

(* ... and with ranges no file grows beyond the server's.                    *)
ShortOK(t) ==
  Server[item[t]] = "range" /\ (pc[t] \in {"stream", "verify"} \/ second[t]) =>
    Len(temp[item[t]]) <= Size

FileOK(t) ==
  item[t] \in Hashed =>
    /\ pc[t] = "request" => RequestOK(t)
    /\ pc[t] = "stream" => StreamOK(t)
    /\ pc[t] = "verify" => VerifyOK(t)
    /\ pc[t] \in {"delete", "move"} => PublishOK(t)
    /\ pc[t] \in OpenPC => ShortOK(t)

(* The counter, by the item it counts for.                                   *)
Owners(it) == {t \in Thread : Cur(t) /\ item[t] = it}

CreditOK(it) ==
  Server[it] = "range" /\ it \notin cut =>
    IF \E t \in Owners(it) : pc[t] # "check"
    THEN \A t \in Owners(it) : credit[it] = got[t]
    ELSE credit[it] = IF status[it] = "Finished" THEN Len(path[it])
                      ELSE IF it \in unchecked THEN Len(temp[it]) ELSE 0

FinishedOK(it) == status[it] = "Finished" => path[it] = Want

CurrentInv ==
  ~interfered =>
    /\ QueueOK
    /\ \A t \in Thread : Cur(t) => Holds(t) /\ FileOK(t)
    /\ \A it \in Hashed : CreditOK(it) /\ FinishedOK(it)

SafeInv == TypeInv /\ ThreadsInv /\ CurrentInv

--------------------------------------------------------------------------------
(* Files.                                                                    *)

(* Want is the file whose unit k is k.                                       *)
LEMMA WantIs ==
  /\ Want \in Seq(1 .. Size) /\ Want \in Seq(0 .. Size)
  /\ Len(Want) = Size
  /\ \A k \in 1 .. Size : Want[k] = k
  <1>1. Want \in [1 .. Size -> 1 .. Size] /\ Want \in [1 .. Size -> 0 .. Size]
    BY DEF Want
  <1>2. \A S, n, f : n \in Nat /\ f \in [1 .. n -> S] => f \in Seq(S) /\ Len(f) = n
    OBVIOUS
  <1>3. \A k \in 1 .. Size : Want[k] = k
    BY DEF Want
  <1> QED BY ONLY <1>1, <1>2, <1>3, ItemsAssumption

(* A file is absent or a sequence of at most MaxLen units.                   *)
LEMMA FileIs ==
  ASSUME NEW f
  PROVE  f \in Files <=> (f = Absent \/ (f \in Seq(0 .. Size) /\ Len(f) <= MaxLen))
  <1>4. \A n \in 0 .. MaxLen : [1 .. n -> 0 .. Size] \subseteq Files
    <2> SUFFICES ASSUME NEW n \in 0 .. MaxLen, NEW g \in [1 .. n -> 0 .. Size] PROVE g \in Files
      OBVIOUS
    <2> DEFINE All == {[1 .. m -> 0 .. Size] : m \in 0 .. MaxLen}
    <2>1. [1 .. n -> 0 .. Size] \in All
      OBVIOUS
    <2>2. g \in UNION All
      BY <2>1, Zenon
    <2> QED BY ONLY <2>2 DEF Files
  <1>1. ASSUME f \in Files, f # Absent PROVE f \in Seq(0 .. Size) /\ Len(f) <= MaxLen
    <2>1. PICK n \in 0 .. MaxLen : f \in [1 .. n -> 0 .. Size]
      BY <1>1 DEF Files
    <2>2. f \in Seq(0 .. Size) /\ Len(f) = n
      BY <2>1
    <2> QED BY <2>2
  <1>2. ASSUME f \in Seq(0 .. Size), Len(f) <= MaxLen PROVE f \in Files
    <2>1. Len(f) \in 0 .. MaxLen /\ f \in [1 .. Len(f) -> 0 .. Size]
      BY <1>2
    <2> QED BY <2>1, <1>4
  <1>3. Absent \in Files
    <2>1. \A x, T : x \in {x} \cup T
      OBVIOUS
    <2> QED BY ONLY <2>1 DEF Files
  <1> QED BY ONLY <1>1, <1>2, <1>3, Zenon

(* No file's content is the mark of an absent one.                           *)
LEMMA AbsentIs == Absent \notin Seq(0 .. Size) /\ Want # Absent /\ <<>> # Absent
  <1>1. Absent \notin Seq(0 .. Size)
    <2> SUFFICES ASSUME Absent \in Seq(0 .. Size) PROVE FALSE
      OBVIOUS
    <2>1. Len(Absent) = 1
      BY DEF Absent
    <2>2. Absent[1] = -1
      BY DEF Absent
    <2>3. \A s \in Seq(0 .. Size), k \in 1 .. 1 : Len(s) = 1 => s[k] \in 0 .. Size
      BY ONLY ItemsAssumption, ElementOfSeq
    <2>4. Absent[1] \in 0 .. Size
      BY ONLY <2>1, <2>3, Absent \in Seq(0 .. Size), 1 \in 1 .. 1
    <2>5. -1 \notin 0 .. Size
      OBVIOUS
    <2> QED BY ONLY <2>2, <2>4, <2>5
  <1>2. <<>> \in Seq(0 .. Size)
    OBVIOUS
  <1> QED BY ONLY <1>1, <1>2, WantIs

(* What the write of one unit leaves behind.                                 *)
LEMMA PutIs ==
  ASSUME NEW f \in Seq(0 .. Size), NEW p \in Nat \ {0}, NEW v \in 0 .. Size
  PROVE  /\ Put(f, p, v) \in Seq(0 .. Size)
         /\ Len(Put(f, p, v)) = IF p <= Len(f) THEN Len(f) ELSE Len(f) + 1
         /\ \A k \in 1 .. Len(f) : k # p => Put(f, p, v)[k] = f[k]
         /\ p <= Len(f) + 1 => Put(f, p, v)[p] = v
  <1>1. CASE p <= Len(f)
    <2>1. p \in 1 .. Len(f)
      BY <1>1
    <2>2. [f EXCEPT ![p] = v] \in Seq(0 .. Size) /\ Len([f EXCEPT ![p] = v]) = Len(f)
      BY <2>1, ExceptSeq
    <2>3. [f EXCEPT ![p] = v][p] = v /\ \A k \in 1 .. Len(f) : k # p => [f EXCEPT ![p] = v][k] = f[k]
      BY <2>1, ExceptSeq
    <2> QED BY <1>1, <2>2, <2>3 DEF Put
  <1>2. CASE ~(p <= Len(f))
    BY <1>2 DEF Put
  <1> QED BY <1>1, <1>2

(* Behind a position, the server's file has the units that follow it.        *)
LEMMA RestIs ==
  ASSUME NEW n \in 0 .. Size
  PROVE  /\ SubSeq(Want, n + 1, Size) \in Seq(1 .. Size)
         /\ Len(SubSeq(Want, n + 1, Size)) = Size - n
         /\ \A k \in 1 .. (Size - n) : SubSeq(Want, n + 1, Size)[k] = n + k
  <1>1. Want \in Seq(1 .. Size) /\ Len(Want) = Size /\ \A k \in 1 .. Size : Want[k] = k
    BY WantIs
  <1>2. Len(SubSeq(Want, n + 1, Size)) = Size - n
    BY <1>1
  <1>3. \A k \in 1 .. (Size - n) : SubSeq(Want, n + 1, Size)[k] = Want[n + k] /\ n + k \in 1 .. Size
    BY <1>1
  <1>4. SubSeq(Want, n + 1, Size) \in Seq(1 .. Size)
    BY <1>1
  <1> QED BY <1>1, <1>2, <1>3, <1>4

(* ... and what every file that is there has.                                *)
LEMMA FileFacts ==
  /\ \A f \in Files : f # Absent => f \in Seq(0 .. Size) /\ Len(f) \in 0 .. MaxLen
  /\ \A f \in Seq(0 .. Size) : Len(f) <= MaxLen => f \in Files
  /\ Absent \in Files
  /\ <<>> \in Files /\ <<>> \in Seq(0 .. Size) /\ Len(<<>>) = 0
  <1>1. \A f \in Seq(0 .. Size) : Len(f) \in Nat
    OBVIOUS
  <1>2. <<>> \in Seq(0 .. Size) /\ Len(<<>>) = 0
    OBVIOUS
  <1>3. \A n \in Nat : n <= MaxLen => n \in 0 .. MaxLen
    OBVIOUS
  <1>4. <<>> \in Files
    <2>1. Len(<<>>) <= MaxLen
      BY <1>2
    <2> QED BY ONLY <1>2, <2>1, FileIs
  <1> QED BY ONLY <1>1, <1>2, <1>3, <1>4, FileIs

--------------------------------------------------------------------------------
(* The types.                                                                *)

(* The file that an item is downloaded to, and what its writes make of it.   *)
LEMMA FileOfType ==
  ASSUME TypeInv, NEW it \in Items
  PROVE  FileOf(it) \in Files
  BY DEF TypeInv, TypeOK, FileOf

(* Writing an item's file keeps both tables of files typed.                  *)
LEMMA SetFileType ==
  ASSUME TypeInv, NEW it \in Items, NEW f \in Files, SetFile(it, f)
  PROVE  path' \in [Items -> Files] /\ temp' \in [Items -> Files]
  <1>1. path \in [Items -> Files] /\ temp \in [Items -> Files]
    BY DEF TypeInv, TypeOK
  <1>2. CASE it \in Hashed
    BY ONLY <1>1, <1>2, f \in Files, SetFile(it, f) DEF SetFile
  <1>3. CASE it \notin Hashed
    BY ONLY <1>1, <1>3, f \in Files, SetFile(it, f) DEF SetFile
  <1> QED BY <1>2, <1>3

(* A thread with an item works on one that was submitted.                    *)
LEMMA ItemIs ==
  ASSUME TypeInv, ThreadsInv, NEW t \in Thread
  PROVE  /\ pc[t] \notin IdlePC => item[t] \in Items /\ item[t] # NoItem
         /\ pc[t] \in IdlePC => item[t] = NoItem
         /\ pc[t] \in OpenPC =>
              FileOf(item[t]) \in Seq(0 .. Size) /\ Len(FileOf(item[t])) \in 0 .. MaxLen
         /\ pc[t] \in {"verify", "delete", "move"} => item[t] \in Hashed
  <1>1. /\ pc[t] \notin IdlePC => item[t] \in Items /\ item[t] # NoItem
        /\ pc[t] \in IdlePC => item[t] = NoItem
        /\ pc[t] \in OpenPC => FileOf(item[t]) # Absent
        /\ pc[t] \in {"verify", "delete", "move"} => item[t] \in Hashed
    BY DEF TypeInv, TypeOK, ThreadsInv, ThreadOK
  <1>2. pc[t] \in OpenPC => pc[t] \notin IdlePC
    BY DEF OpenPC, IdlePC
  <1> QED BY <1>1, <1>2, FileOfType, FileFacts

(* A thread that lets go of its item keeps its variables' types.             *)
LEMMA DropType ==
  ASSUME TypeInv, NEW t \in Thread, Drop(t)
  PROVE  /\ item' \in [Thread -> Items \cup {NoItem}]
         /\ from' \in [Thread -> 0 .. MaxLen]
         /\ got' \in [Thread -> 0 .. MaxLen]
         /\ second' \in [Thread -> BOOLEAN]
         /\ body' \in [Thread -> Seq(1 .. Size)]
  BY DEF TypeInv, TypeOK, Drop

(* So does one that takes back what it counted and gives its item up.        *)
LEMMA FailType ==
  ASSUME TypeInv, NEW t \in Thread, item[t] \in Items, NEW back \in Int, Fail(t, back)
  PROVE  /\ credit' \in [Items -> Int]
         /\ status' \in [Items -> {"NotStart", "Started", "Finished", "Error"}]
         /\ pc' \in [Thread -> ThreadPC]
         /\ item' \in [Thread -> Items \cup {NoItem}]
         /\ from' \in [Thread -> 0 .. MaxLen]
         /\ got' \in [Thread -> 0 .. MaxLen]
         /\ second' \in [Thread -> BOOLEAN]
         /\ body' \in [Thread -> Seq(1 .. Size)]
  <1>1. Drop(t)
    BY DEF Fail
  <1>2. credit' \in [Items -> Int]
    BY DEF Fail, TypeInv, TypeOK
  <1>3. status' \in [Items -> {"NotStart", "Started", "Finished", "Error"}]
    BY DEF Fail, TypeInv, TypeOK
  <1>4. pc' \in [Thread -> ThreadPC]
    BY DEF Fail, TypeInv, TypeOK, ThreadPC
  <1> QED BY ONLY TypeInv, t \in Thread, <1>1, <1>2, <1>3, <1>4, DropType

(* An answer that is not a refusal is a sequence of the server's units.      *)
LEMMA AnswerType ==
  ASSUME TypeInv, ThreadsInv, NEW t \in Thread, ~Refused(t)
  PROVE  Answer(t) \in Seq(1 .. Size)
  <1>1. CASE Ranged(t)
    <2>1. StartPos(t) \in 0 .. Size
      BY <1>1 DEF Refused, Ranged, StartPos, TypeInv, TypeOK
    <2> QED BY <1>1, <2>1, RestIs DEF Answer
  <1>2. CASE ~Ranged(t)
    BY <1>2, WantIs DEF Answer
  <1> QED BY <1>1, <1>2

(* Types.                                                                    *)
LEMMA TypeInit == Init => TypeInv
  <1> SUFFICES ASSUME Init PROVE TypeInv
    OBVIOUS
  <1>1. path \in [Items -> Files] /\ temp \in [Items -> Files]
    BY FilesAssumption DEF Init
  <1>2. <<>> \in Seq(Items) /\ <<>> \in Seq(1 .. Size)
    OBVIOUS
  <1>3. body \in [Thread -> Seq(1 .. Size)] /\ queue \in Seq(Items)
    BY <1>2 DEF Init
  <1>4. MaxLen \in Nat /\ MaxStarts \in Nat /\ MaxFaults \in Nat
    OBVIOUS
  <1> HIDE ItemsAssumption
  <1>5. starts \in 0 .. MaxStarts /\ faults \in 0 .. MaxFaults
    BY <1>4 DEF Init
  <1>6. /\ status \in [Items -> {"NotStart", "Started", "Finished", "Error"}]
        /\ credit \in [Items -> Int]
        /\ pc \in [Thread -> ThreadPC]
    BY DEF Init, ThreadPC
  <1>7. /\ item \in [Thread -> Items \cup {NoItem}]
        /\ from \in [Thread -> 0 .. MaxLen]
        /\ got \in [Thread -> 0 .. MaxLen]
        /\ second \in [Thread -> BOOLEAN]
    BY <1>4 DEF Init
  <1>8. /\ doomed \subseteq Thread /\ cut \subseteq Items /\ unchecked \subseteq Items
        /\ interfered \in BOOLEAN
    BY DEF Init
  <1> QED BY ONLY <1>1, <1>3, <1>5, <1>6, <1>7, <1>8 DEF TypeInv, TypeOK

(* Every step keeps them; the longest file is bounded by MaxLen.             *)
LEMMA TypeNext ==
  ASSUME TypeInv, ThreadsInv, [Next]_vars
  PROVE  TypeInv'
  <1> USE DEF Interferes, Straggler, ThreadPC, itemVars, fileVars
  <1>c. credit \in [Items -> Int]
    BY DEF TypeInv, TypeOK
  <1>p. pc \in [Thread -> ThreadPC]
    BY DEF TypeInv, TypeOK
  <1>g. got \in [Thread -> 0 .. MaxLen] /\ body \in [Thread -> Seq(1 .. Size)]
    BY DEF TypeInv, TypeOK
  <1>i. \A i \in 0 .. MaxLen : i \in Int
    OBVIOUS
  <1>1. CASE StartDownLoad
    BY <1>1 DEF StartDownLoad, TypeInv, TypeOK
  <1>2. ASSUME NEW t \in Thread, TryGetTask(t) PROVE TypeInv'
    <2>1. Head(queue) \in Items /\ Tail(queue) \in Seq(Items)
      BY <1>2 DEF TryGetTask, TypeInv, TypeOK
    <2> QED BY <1>2, <2>1 DEF TryGetTask, TypeInv, TypeOK
  <1>3. ASSUME NEW t \in Thread, Exit(t) PROVE TypeInv'
    BY <1>3 DEF Exit, TypeInv, TypeOK
  <1>4. ASSUME NEW t \in Thread, AlreadyThere(t) PROVE TypeInv'
    <2>1. item[t] \in Items /\ path[item[t]] \in Files /\ path[item[t]] # Absent
      BY <1>4, ItemIs DEF AlreadyThere, There, IdlePC, TypeInv, TypeOK
    <2>2. Len(path[item[t]]) \in Int
      BY <2>1, FileFacts
    <2>3. credit' \in [Items -> Int]
      BY <1>4, <2>1, <2>2 DEF AlreadyThere, TypeInv, TypeOK
    <2>4. status' \in [Items -> {"NotStart", "Started", "Finished", "Error"}]
      BY <1>4, <2>1 DEF AlreadyThere, TypeInv, TypeOK
    <2>5. pc' \in [Thread -> ThreadPC]
      BY <1>4 DEF AlreadyThere, TypeInv, TypeOK
    <2> QED BY <1>4, <2>3, <2>4, <2>5, DropType DEF AlreadyThere, TypeInv, TypeOK
  <1>5. ASSUME NEW t \in Thread, Begin(t) PROVE TypeInv'
    <2>1. item[t] \in Items
      BY <1>5, ItemIs DEF Begin, IdlePC
    <2> DEFINE f == IF Keep(item[t]) THEN temp[item[t]] ELSE <<>>
    <2>2. f \in Files /\ f # Absent
      BY <2>1, FileFacts, AbsentIs DEF Keep, TypeInv, TypeOK
    <2>3. Len(f) \in 0 .. MaxLen
      BY <2>2, FileFacts
    <2>4. SetFile(item[t], f)
      BY <1>5 DEF Begin
    <2>5. path' \in [Items -> Files] /\ temp' \in [Items -> Files]
      BY <2>1, <2>2, <2>4, SetFileType
    <2>6. /\ from' = [from EXCEPT ![t] = Len(f)]
          /\ got' = [got EXCEPT ![t] = Len(f)]
          /\ credit' = [credit EXCEPT ![item[t]] = @ + Len(f)]
          /\ pc' = [pc EXCEPT ![t] = IF item[t] \in Sized /\ Len(f) = Size THEN "verify" ELSE "request"]
      BY <1>5 DEF Begin
    <2> HIDE DEF f
    <2>7. credit' \in [Items -> Int]
      BY <2>1, <2>3, <2>6 DEF TypeInv, TypeOK
    <2>8. from' \in [Thread -> 0 .. MaxLen] /\ got' \in [Thread -> 0 .. MaxLen]
      BY <2>3, <2>6 DEF TypeInv, TypeOK
    <2>9. pc' \in [Thread -> ThreadPC]
      BY <2>6 DEF TypeInv, TypeOK
    <2>10. second' \in [Thread -> BOOLEAN] /\ interfered' \in BOOLEAN
      BY <1>5 DEF Begin, TypeInv, TypeOK
    <2>11. UNCHANGED <<queue, status, starts, item, body, doomed, faults, cut, unchecked>>
      BY <1>5 DEF Begin
    <2> QED BY <2>5, <2>7, <2>8, <2>9, <2>10, <2>11 DEF TypeInv, TypeOK
  <1>6. ASSUME NEW t \in Thread, OpenFails(t) PROVE TypeInv'
    <2>1. item[t] \in Items /\ 0 \in Int
      BY <1>6, ItemIs DEF OpenFails, IdlePC
    <2>2. Fail(t, 0) /\ faults' \in 0 .. MaxFaults
      BY <1>6 DEF OpenFails, TypeInv, TypeOK
    <2>3. /\ UNCHANGED <<fileVars, queue, starts, doomed, cut, unchecked>>
          /\ interfered' \in BOOLEAN
      BY <1>6 DEF OpenFails, TypeInv, TypeOK
    <2> QED BY <2>1, <2>2, <2>3, FailType DEF TypeInv, TypeOK
  <1>7. ASSUME NEW t \in Thread, RequestOk(t) PROVE TypeInv'
    <2>1. Answer(t) \in Seq(1 .. Size)
      BY <1>7, AnswerType DEF RequestOk
    <2>2. body' \in [Thread -> Seq(1 .. Size)]
      BY <1>7, <2>1 DEF RequestOk, TypeInv
    <2>3. pc' \in [Thread -> ThreadPC]
      BY <1>7 DEF RequestOk, TypeInv, TypeOK
    <2> QED BY <1>7, <2>2, <2>3 DEF RequestOk, TypeInv, TypeOK
  <1>8. ASSUME NEW t \in Thread, RequestRefused(t) PROVE TypeInv'
    <2>1. item[t] \in Items
      BY <1>8, ItemIs DEF RequestRefused, IdlePC
    <2>2. got[t] \in Int
      BY ONLY <1>g, <1>i, t \in Thread
    <2> QED BY <1>8, <2>1, <2>2, FailType DEF RequestRefused, TypeInv, TypeOK
  <1>9. ASSUME NEW t \in Thread, WebFails(t) PROVE TypeInv'
    <2>1. item[t] \in Items
      BY <1>9, ItemIs DEF WebFails, IdlePC
    <2>2. got[t] \in Int
      BY ONLY <1>g, <1>i, t \in Thread
    <2>3. Fail(t, got[t]) /\ faults' \in 0 .. MaxFaults
      BY <1>9 DEF WebFails, TypeInv, TypeOK
    <2>4. /\ UNCHANGED <<fileVars, queue, starts, doomed, cut, unchecked>>
          /\ interfered' \in BOOLEAN
      BY <1>9 DEF WebFails, TypeInv, TypeOK
    <2> QED BY <2>1, <2>2, <2>3, <2>4, FailType DEF TypeInv, TypeOK
  <1>10. ASSUME NEW t \in Thread, Read(t) PROVE TypeInv'
    <2>1. item[t] \in Items
      BY <1>10, ItemIs DEF Read, IdlePC
    <2>2. FileOf(item[t]) \in Seq(0 .. Size) /\ Len(FileOf(item[t])) \in 0 .. MaxLen
      BY <1>10, ItemIs DEF Read, OpenPC
    <2>3. Head(body[t]) \in 1 .. Size /\ Tail(body[t]) \in Seq(1 .. Size)
      BY <1>10 DEF Read, TypeInv
    <2>4. got[t] + 1 \in Nat \ {0} /\ got[t] + 1 \in 0 .. MaxLen /\ Head(body[t]) \in 0 .. Size
      <3>1. got[t] \in 0 .. MaxLen /\ got[t] < MaxLen
        BY <1>10 DEF Read, TypeInv, TypeOK
      <3> QED BY <2>3, <3>1
    <2> DEFINE f == Put(FileOf(item[t]), got[t] + 1, Head(body[t]))
    <2>5. f \in Seq(0 .. Size) /\ Len(f) <= MaxLen
      <3>1. PICK g \in Seq(0 .. Size) : g = FileOf(item[t]) /\ Len(g) \in 0 .. MaxLen
        BY ONLY <2>2
      <3>2. PICK p \in Nat \ {0} : p = got[t] + 1 /\ p \in 0 .. MaxLen
        BY ONLY <2>4
      <3>3. PICK v \in 0 .. Size : v = Head(body[t])
        BY ONLY <2>4
      <3>4. f = Put(g, p, v)
        BY <3>1, <3>2, <3>3
      <3> HIDE DEF f
      <3>5. /\ Put(g, p, v) \in Seq(0 .. Size)
            /\ Len(Put(g, p, v)) = IF p <= Len(g) THEN Len(g) ELSE Len(g) + 1
        BY ONLY PutIs
      <3>6. Len(Put(g, p, v)) <= MaxLen
        <4>1. Len(g) \in Nat /\ MaxLen \in Nat /\ Len(g) <= MaxLen /\ p <= MaxLen
          BY <3>1, <3>2, ItemsAssumption
        <4>2. CASE p <= Len(g)
          BY ONLY <3>5, <4>1, <4>2
        <4>3. CASE Len(g) < p
          <5>1. Len(g) + 1 <= MaxLen
            BY ONLY <4>1, <4>3, p \in Nat \ {0}
          <5> QED BY ONLY <3>5, <4>1, <4>3, <5>1, p \in Nat \ {0}
        <4> QED BY ONLY <4>1, <4>2, <4>3, p \in Nat \ {0}
      <3> QED BY ONLY <3>4, <3>5, <3>6
    <2>6. SetFile(item[t], f)
      BY <1>10 DEF Read
    <2> HIDE DEF f
    <2>7. path' \in [Items -> Files] /\ temp' \in [Items -> Files]
      BY <2>1, <2>5, <2>6, FileFacts, SetFileType
    <2>8. credit' \in [Items -> Int]
      <3>1. credit' = [credit EXCEPT ![item[t]] = @ + 1]
        BY <1>10 DEF Read
      <3> QED BY ONLY <1>c, <2>1, <3>1
    <2>9. got' \in [Thread -> 0 .. MaxLen] /\ body' \in [Thread -> Seq(1 .. Size)]
      BY <1>10, <2>3, <2>4 DEF Read, TypeInv, TypeOK
    <2>10. /\ UNCHANGED <<queue, status, starts, pc, item, from, second, doomed, faults, cut,
                          unchecked>>
           /\ interfered' \in BOOLEAN
      BY <1>10 DEF Read, TypeInv, TypeOK
    <2> QED BY <2>7, <2>8, <2>9, <2>10 DEF TypeInv, TypeOK
  <1>11. ASSUME NEW t \in Thread, ReadEnd(t) PROVE TypeInv'
    <2>1. item[t] \in Items
      BY <1>11, ItemIs DEF ReadEnd, IdlePC
    <2>2. <<>> \in Seq(1 .. Size)
      OBVIOUS
    <2>3. pc' \in [Thread -> ThreadPC]
      <3>1. pc' = [pc EXCEPT ![t] = "verify"] \/ pc' = [pc EXCEPT ![t] = "loop"]
        BY <1>11 DEF ReadEnd
      <3> QED BY ONLY <1>p, <3>1 DEF ThreadPC
    <2>6. body' \in [Thread -> Seq(1 .. Size)]
      <3>1. CASE item[t] \in Hashed
        <4>1. body' = [body EXCEPT ![t] = <<>>]
          BY <1>11, <3>1 DEF ReadEnd
        <4>2. body \in [Thread -> Seq(1 .. Size)]
          BY DEF TypeInv
        <4> QED BY ONLY <2>2, <4>1, <4>2
      <3>2. CASE item[t] \notin Hashed
        BY <1>11, <3>2, DropType DEF ReadEnd
      <3> QED BY <3>1, <3>2
    <2>4. /\ item' \in [Thread -> Items \cup {NoItem}]
          /\ from' \in [Thread -> 0 .. MaxLen]
          /\ got' \in [Thread -> 0 .. MaxLen]
          /\ second' \in [Thread -> BOOLEAN]
      BY <1>11, DropType DEF ReadEnd, TypeInv, TypeOK
    <2>5. faults' \in 0 .. MaxFaults /\ cut' \subseteq Items
      BY <1>11, <2>1 DEF ReadEnd, TypeInv, TypeOK
    <2> QED BY <1>11, <2>3, <2>4, <2>5, <2>6 DEF ReadEnd, TypeInv, TypeOK
  <1>12. ASSUME NEW t \in Thread, Verified(t) PROVE TypeInv'
    BY <1>12 DEF Verified, TypeInv, TypeOK
  <1>13. ASSUME NEW t \in Thread, SecondChance(t) PROVE TypeInv'
    <2>1. item[t] \in Items /\ Len(temp[item[t]]) \in Int
      BY <1>13, ItemIs DEF SecondChance, IdlePC, OpenPC, FileOf
    <2>2. credit' \in [Items -> Int]
      BY <1>13, <2>1 DEF SecondChance, TypeInv, TypeOK
    <2>3. pc' \in [Thread -> ThreadPC]
      BY <1>13 DEF SecondChance, TypeInv, TypeOK
    <2>4. got' \in [Thread -> 0 .. MaxLen] /\ second' \in [Thread -> BOOLEAN]
      BY <1>13 DEF SecondChance, TypeInv, TypeOK
    <2>5. /\ UNCHANGED <<fileVars, queue, status, starts, item, from, body, doomed, faults,
                         cut, unchecked>>
          /\ interfered' \in BOOLEAN
      BY <1>13 DEF SecondChance, TypeInv, TypeOK
    <2> QED BY <2>2, <2>3, <2>4, <2>5 DEF TypeInv, TypeOK
  <1>14. ASSUME NEW t \in Thread, Fatal(t) PROVE TypeInv'
    <2>1. item[t] \in Items /\ Len(temp[item[t]]) \in Int
      BY <1>14, ItemIs DEF Fatal, IdlePC, OpenPC, FileOf
    <2> QED BY <1>14, <2>1, FailType DEF Fatal, TypeInv, TypeOK
  <1>21. ASSUME NEW t \in Thread, VerifyFails(t) PROVE TypeInv'
    <2>1. item[t] \in Items /\ 0 \in Int
      BY <1>21, ItemIs DEF VerifyFails, IdlePC
    <2>2. Fail(t, 0) /\ faults' \in 0 .. MaxFaults /\ unchecked' \subseteq Items
      BY <1>21, <2>1 DEF VerifyFails, TypeInv, TypeOK
    <2>3. UNCHANGED <<fileVars, queue, starts, doomed, cut>> /\ interfered' \in BOOLEAN
      BY <1>21 DEF VerifyFails, TypeInv, TypeOK
    <2> QED BY <2>1, <2>2, <2>3, FailType DEF TypeInv, TypeOK
  <1>15. ASSUME NEW t \in Thread, Delete(t) PROVE TypeInv'
    BY <1>15, FileFacts DEF Delete, TypeInv, TypeOK
  <1>16. ASSUME NEW t \in Thread, Move(t) PROVE TypeInv'
    <2>1. item[t] \in Items
      BY <1>16, ItemIs DEF Move, IdlePC
    <2> QED BY <1>16, <2>1, DropType, FileFacts DEF Move, TypeInv, TypeOK
  <1>17. ASSUME NEW t \in Thread, PublishFails(t) PROVE TypeInv'
    <2>1. item[t] \in Items
      BY <1>17, ItemIs DEF PublishFails, IdlePC
    <2>2. Len(Want) \in Int
      BY WantIs
    <2>3. faults' \in 0 .. MaxFaults
      BY <1>17 DEF PublishFails, TypeInv, TypeOK
    <2> QED BY <1>17, <2>1, <2>2, <2>3, FailType DEF PublishFails, TypeInv, TypeOK
  <1>18. ASSUME NEW t \in Thread, Die(t) PROVE TypeInv'
    <2>1. CASE pc[t] \in {"loop", "check"}
      BY <1>18, <2>1, DropType DEF Die, TypeInv, TypeOK
    <2>2. CASE pc[t] \notin {"loop", "check"}
      <3>1. item[t] \in Items
        BY <1>18, <2>2, ItemIs DEF Die, Live, IdlePC
      <3>2. Len(Want) \in Int
        BY WantIs
      <3>3. pc[t] \in {"request", "stream", "verify", "delete", "move"}
        BY <1>18, <2>2 DEF Die, Live, TypeInv, TypeOK
      <3> DEFINE back == CASE pc[t] \in {"request", "stream"} -> got[t]
                           [] pc[t] = "verify" -> 0
                           [] pc[t] \in {"delete", "move"} -> Len(Want)
      <3>7. back \in Int
        BY <3>2, <3>3 DEF TypeInv, TypeOK
      <3>8. credit' = [credit EXCEPT ![item[t]] = @ - back]
        BY <1>18, <2>2 DEF Die
      <3> HIDE DEF back
      <3>4. credit' \in [Items -> Int]
        BY ONLY <1>c, <3>1, <3>7, <3>8
      <3>5. status' \in [Items -> {"NotStart", "Started", "Finished", "Error"}]
        <4>1. status' = [status EXCEPT ![item[t]] = "Error"]
          BY <1>18, <2>2 DEF Die
        <4>2. status \in [Items -> {"NotStart", "Started", "Finished", "Error"}]
          BY DEF TypeInv, TypeOK
        <4> QED BY ONLY <3>1, <4>1, <4>2
      <3>6. interfered' \in BOOLEAN
        BY <1>18, <2>2 DEF Die, TypeInv, TypeOK
      <3> QED BY <1>18, <3>4, <3>5, <3>6, DropType DEF Die, TypeInv, TypeOK
    <2> QED BY <2>1, <2>2
  <1>19. CASE Crash
    BY <1>19 DEF Crash, TypeInv, TypeOK
  <1>20. CASE UNCHANGED vars
    BY <1>20 DEF vars, threadVars, TypeInv, TypeOK
  <1> QED BY <1>1, <1>2, <1>3, <1>4, <1>5, <1>6, <1>7, <1>8, <1>9, <1>10, <1>11, <1>12, <1>13,
             <1>14, <1>15, <1>16, <1>17, <1>18, <1>19, <1>20, <1>21 DEF Next, ThreadNext

--------------------------------------------------------------------------------
(* Steps of one thread.                                                      *)

Same(u) ==
  /\ pc'[u] = pc[u] /\ item'[u] = item[u] /\ from'[u] = from[u]
  /\ got'[u] = got[u] /\ second'[u] = second[u] /\ body'[u] = body[u]

SameItem(j) ==
  /\ path'[j] = path[j] /\ temp'[j] = temp[j]
  /\ status'[j] = status[j] /\ credit'[j] = credit[j]
  /\ j \in cut' <=> j \in cut
  /\ j \in unchecked' <=> j \in unchecked

(* Only t moves, and only its item is touched.                               *)
Touches(t, it) ==
  /\ starts' = starts
  /\ doomed' \subseteq doomed
  /\ \A u \in Thread \ {t} : Same(u)
  /\ \A j \in Items \ {it} : SameItem(j)
  /\ item'[t] \in {it, NoItem}

(* What the step owes to the threads, ...                                    *)
Behaves(t, it) ==
  /\ pc'[t] # "none"
  /\ item'[t] = NoItem <=> pc'[t] \in IdlePC
  /\ pc'[t] \in {"verify", "delete", "move"} => it \in Hashed
  /\ pc'[t] \in OpenPC =>
       /\ FileOf(it)' # Absent
       /\ \A u \in Thread \ {t} : pc[u] \in OpenPC => item[u] # it
  /\ \A u \in Thread \ {t} : pc[u] \in OpenPC /\ item[u] = it => FileOf(it)' # Absent

(* A thread's step on its own item keeps ThreadsInv.                         *)
LEMMA ThreadsStep ==
  ASSUME TypeInv, TypeInv', ThreadsInv, NEW t \in Thread, NEW it \in Items,
         pc[t] # "none", Touches(t, it), Behaves(t, it)
  PROVE  ThreadsInv'
  <1>1. starts' = starts /\ doomed' \subseteq doomed
    BY DEF Touches
  <1>2. \A u \in Thread \ {t} : pc'[u] = pc[u] /\ item'[u] = item[u]
    BY DEF Touches, Same
  <1>3. \A j \in Items \ {it} : FileOf(j)' = FileOf(j)
    BY DEF Touches, SameItem, FileOf
  <1>4. \A u \in Thread : ThreadOK(u)
    BY DEF ThreadsInv
  <1>5. \A u \in Thread : pc[u] \in OpenPC => item[u] \in Items
    BY ItemIs DEF OpenPC, IdlePC
  <1>6. ASSUME NEW u \in Thread, u # t PROVE ThreadOK(u)'
    <2>1. pc'[u] = pc[u] /\ item'[u] = item[u]
      BY <1>2, <1>6
    <2>2. ASSUME pc[u] \in OpenPC, NEW j \in Items, j = item[u] PROVE FileOf(j)' # Absent
      <3>1. FileOf(j) # Absent
        BY <1>4, <2>2 DEF ThreadOK
      <3> QED BY <1>3, <1>6, <2>2, <3>1 DEF Behaves
    <2>3. ASSUME NEW v \in Thread \ {u}, pc'[u] \in OpenPC, pc'[v] \in OpenPC PROVE item'[u] # item'[v]
      <3>1. CASE v = t
        <4>1. item'[v] = it
          BY <2>3, <3>1 DEF Behaves, Touches, OpenPC, IdlePC
        <4> QED BY <1>6, <2>1, <2>3, <3>1, <4>1 DEF Behaves
      <3>2. CASE v # t
        BY <1>2, <1>4, <2>1, <2>3, <3>2 DEF ThreadOK
      <3> QED BY <3>1, <3>2
    <2>4. /\ u[1] > starts' => pc'[u] = "none"
          /\ item'[u] = NoItem <=> pc'[u] \in IdlePC
          /\ pc'[u] \in {"verify", "delete", "move"} => item'[u] \in Hashed
          /\ u \in doomed' => u[1] < starts'
      BY <1>1, <1>4, <2>1 DEF ThreadOK
    <2>5. pc'[u] \in OpenPC => (FileOf(item[u]) # Absent)'
      BY <1>5, <2>1, <2>2 DEF FileOf
    <2> QED BY <2>3, <2>4, <2>5 DEF ThreadOK
  <1>7. ThreadOK(t)'
    <2>1. pc'[t] \in OpenPC => item'[t] = it
      BY DEF Behaves, Touches, OpenPC, IdlePC
    <2>2. pc'[t] \in {"verify", "delete", "move"} => item'[t] = it
      BY DEF Behaves, Touches, IdlePC
    <2>3. /\ t[1] > starts' => pc'[t] = "none"
          /\ t \in doomed' => t[1] < starts'
      BY <1>1, <1>4 DEF ThreadOK
    <2>4. \A u \in Thread \ {t} : pc'[t] \in OpenPC /\ pc'[u] \in OpenPC => item'[t] # item'[u]
      BY <1>2, <2>1 DEF Behaves
    <2> QED BY <2>1, <2>2, <2>3, <2>4 DEF ThreadOK, Behaves, FileOf
  <1> QED BY <1>6, <1>7 DEF ThreadsInv

(* ... and, while nothing interferes, to its item.                           *)
Settles(t, it) ==
  /\ queue' = queue
  /\ pc'[t] \notin {"none", "dead", "check"}
  /\ status'[it] # "NotStart"
  /\ item'[t] = it => status'[it] = "Started"
  /\ item'[t] = NoItem /\ it \in Hashed => status'[it] # "Started"
  /\ FileOK(t)'
  /\ it \in Hashed /\ Server[it] = "range" /\ it \notin cut' =>
       credit'[it] = IF item'[t] = it THEN got'[t]
                     ELSE IF status'[it] = "Finished" THEN Len(path'[it])
                     ELSE IF it \in unchecked' THEN Len(temp'[it]) ELSE 0
  /\ it \in unchecked' => status'[it] = "Error"
  /\ it \in Hashed /\ status'[it] = "Finished" => path'[it] = Want

(* The step leaves the other threads as well off as they were.               *)
LEMMA OthersStep ==
  ASSUME TypeInv, ThreadsInv, NEW t \in Thread, NEW it \in Items, Touches(t, it),
         NEW u \in Thread, u # t, Cur(u), FileOK(u), item[u] # it
  PROVE  FileOK(u)'
  <1>1. Same(u)
    BY DEF Touches
  <1>2. item[u] \in Hashed => SameItem(item[u])
    BY DEF Touches
  <1>3. ASSUME item[u] \in Hashed
        PROVE  /\ RequestOK(u)' <=> RequestOK(u)
               /\ StreamOK(u)' <=> StreamOK(u)
               /\ VerifyOK(u)' <=> VerifyOK(u)
               /\ PublishOK(u)' <=> PublishOK(u)
               /\ ShortOK(u)' <=> ShortOK(u)
    <2>1. Aligned(u)' <=> Aligned(u)
      BY <1>1 DEF Same, Aligned
    <2>2. Appending(u)' <=> Appending(u)
      BY <1>1, <1>2, <1>3 DEF Same, SameItem, Appending
    <2>3. RequestOK(u)' <=> RequestOK(u)
      BY <1>1, <1>2, <1>3 DEF Same, SameItem, RequestOK
    <2>4. StreamOK(u)' <=> StreamOK(u)
      BY <1>1, <1>2, <1>3, <2>1, <2>2 DEF Same, SameItem, StreamOK
    <2>5. VerifyOK(u)' <=> VerifyOK(u)
      BY <1>1, <1>2, <1>3 DEF Same, SameItem, VerifyOK
    <2>6. PublishOK(u)' <=> PublishOK(u)
      BY <1>1, <1>2, <1>3 DEF Same, SameItem, PublishOK
    <2>7. ShortOK(u)' <=> ShortOK(u)
      BY <1>1, <1>2, <1>3 DEF Same, SameItem, ShortOK
    <2> QED BY <2>3, <2>4, <2>5, <2>6, <2>7
  <1>4. item[u]' = item[u] /\ pc[u]' = pc[u]
    BY <1>1 DEF Same
  <1> QED BY <1>3, <1>4 DEF FileOK

(* A step of a thread of this start that settles its item keeps CurrentInv.  *)
LEMMA CurrentStep ==
  ASSUME TypeInv, TypeInv', ThreadsInv, CurrentInv, ~interfered,
         NEW t \in Thread, Cur(t), NEW it \in Items, item[t] = it,
         Touches(t, it), Settles(t, it)
  PROVE  CurrentInv'
  <1>1. /\ QueueOK
        /\ \A u \in Thread : Cur(u) => Holds(u) /\ FileOK(u)
        /\ \A j \in Hashed : CreditOK(j) /\ FinishedOK(j)
    BY DEF CurrentInv
  <1>2. starts' = starts /\ queue' = queue
    BY DEF Touches, Settles
  <1>3. \A u \in Thread \ {t} : pc'[u] = pc[u] /\ item'[u] = item[u] /\ got'[u] = got[u]
    BY DEF Touches, Same
  <1>4. \A j \in Items \ {it} : SameItem(j)
    BY DEF Touches
  <1>5. \A u \in Thread \ {t} : Cur(u) => item[u] # it
    BY <1>1, NoItem \notin Items DEF Holds, NoItem
  <1>6. status[it] = "Started" /\ starts # 0
    BY <1>1, NoItem \notin Items DEF Holds, NoItem, Cur, Thread
  <1>7. QueueOK'
    <2>1. \A i, j \in 1 .. Len(queue') : queue'[i] = queue'[j] => i = j
      BY <1>1, <1>2 DEF QueueOK
    <2>2. ASSUME NEW j \in Items
          PROVE  status'[j] = "NotStart" <=> (starts' = 0 \/ \E i \in 1 .. Len(queue') : queue'[i] = j)
      <3>1. CASE j = it
        BY <1>1, <1>2, <1>6, <3>1 DEF QueueOK, Settles
      <3>2. CASE j # it
        BY <1>1, <1>2, <1>4, <3>2 DEF QueueOK, SameItem
      <3> QED BY <3>1, <3>2
    <2>3. ASSUME NEW j \in Hashed, status'[j] = "Started"
          PROVE  \E u \in Thread : u[1] = starts' /\ item'[u] = j
      <3>1. CASE j = it
        BY <1>2, <2>3, <3>1 DEF Settles, Touches, Cur
      <3>2. CASE j # it
        <4>1. PICK u \in Thread : Cur(u) /\ item[u] = j
          BY <1>1, <1>4, <2>3, <3>2 DEF QueueOK, SameItem
        <4> QED BY <1>2, <1>3, <3>2, <4>1 DEF Cur
      <3> QED BY <3>1, <3>2
    <2>4. ASSUME NEW j \in unchecked' PROVE status'[j] = "Error"
      <3>1. j \in Items
        BY DEF TypeInv, TypeOK
      <3>2. CASE j = it
        BY <3>2 DEF Settles
      <3>3. CASE j # it
        BY <1>1, <1>4, <3>1, <3>3 DEF QueueOK, SameItem
      <3> QED BY <3>2, <3>3
    <2> QED BY <2>1, <2>2, <2>3, <2>4 DEF QueueOK, Cur
  <1>8. ASSUME NEW u \in Thread, u[1] = starts' PROVE Holds(u)' /\ FileOK(u)'
    <2>1. Cur(u)
      BY <1>2, <1>8 DEF Cur
    <2>2. FileOK(u)'
      <3>1. CASE u = t
        BY <3>1 DEF Settles
      <3>2. CASE u # t
        BY <1>1, <1>5, <2>1, <3>2, OthersStep
      <3> QED BY <3>1, <3>2
    <2>3. pc'[u] # "none" /\ (pc'[u] = "dead" => queue' = <<>>)
      BY <1>1, <1>2, <1>3, <2>1 DEF Holds, Settles
    <2>4. item'[u] # NoItem => status'[item'[u]] = "Started"
      <3>1. CASE u = t
        BY <3>1 DEF Settles, Touches
      <3>2. CASE u # t
        <4>1. item[u] # NoItem => item[u] \in Items
          BY DEF TypeInv, TypeOK
        <4> QED BY <1>1, <1>3, <1>4, <1>5, <2>1, <3>2, <4>1 DEF Holds, SameItem
      <3> QED BY <3>1, <3>2
    <2>5. ASSUME NEW v \in Thread, v # u, v[1] = starts', item'[v] = item'[u] PROVE item'[u] = NoItem
      <3>1. Cur(v)
        BY <1>2, <2>5 DEF Cur
      <3>2. CASE u # t /\ v # t
        BY <1>1, <1>3, <2>1, <2>5, <3>1, <3>2 DEF Holds
      <3>3. CASE u = t \/ v = t
        BY <1>3, <1>5, <2>1, <2>5, <3>1, <3>3 DEF Touches
      <3> QED BY <3>2, <3>3
    <2> QED BY <2>2, <2>3, <2>4, <2>5 DEF Holds, Cur
  <1>9. ASSUME NEW j \in Hashed PROVE CreditOK(j)' /\ FinishedOK(j)'
    <2>1. CASE j = it
      <3>1. FinishedOK(j)'
        BY <2>1 DEF Settles, FinishedOK
      <3>2. \A u \in Thread : u[1] = starts' /\ item'[u] = it => u = t
        BY <1>2, <1>3, <1>5 DEF Cur
      <3>3. t[1] = starts' /\ pc'[t] # "check"
        BY <1>2 DEF Cur, Settles
      <3>4. CreditOK(j)'
        BY <2>1, <3>2, <3>3 DEF CreditOK, Owners, Cur, Settles
      <3> QED BY <3>1, <3>4
    <2>2. CASE j # it
      <3>1. SameItem(j) /\ CreditOK(j) /\ FinishedOK(j)
        BY <1>1, <1>4, <2>2
      <3>2. item[t] # j /\ item'[t] # j
        BY <2>2, NoItem \notin Items DEF Touches, NoItem
      <3>3. \A u \in Thread :
               /\ item'[u] = j <=> item[u] = j
               /\ item[u] = j => pc'[u] = pc[u] /\ got'[u] = got[u]
        BY <1>3, <3>2
      <3>4. Owners(j)' = Owners(j)
        BY <1>2, <3>3 DEF Owners, Cur
      <3>5. \A u \in Owners(j) : pc'[u] = pc[u] /\ got'[u] = got[u]
        BY <3>3 DEF Owners
      <3>6. CreditOK(j)'
        BY <3>1, <3>4, <3>5 DEF CreditOK, SameItem
      <3> QED BY <3>1, <3>6 DEF FinishedOK, SameItem
    <2> QED BY <2>1, <2>2
  <1> QED BY <1>7, <1>8, <1>9 DEF CurrentInv, Cur

(* Both at once: what each thread action below has to show.                  *)
LEMMA Step ==
  ASSUME TypeInv, TypeInv', ThreadsInv, CurrentInv, NEW t \in Thread, NEW it \in Items,
         item[t] = it, Interferes(t), Touches(t, it), Behaves(t, it),
         ~interfered /\ Cur(t) => Settles(t, it)
  PROVE  ThreadsInv' /\ CurrentInv'
  <1>1. pc[t] # "none"
    BY NoItem \notin Items DEF ThreadsInv, ThreadOK, IdlePC, NoItem
  <1>2. ThreadsInv'
    BY <1>1, ThreadsStep
  <1>3. CASE interfered'
    BY <1>2, <1>3 DEF CurrentInv
  <1>4. CASE ~interfered'
    <2>1. ~interfered /\ Cur(t)
      BY <1>4 DEF Interferes, Straggler, Cur
    <2> QED BY <1>2, <2>1, CurrentStep
  <1> QED BY <1>3, <1>4

(* What is known of a thread of this start and of its item.                  *)
LEMMA Here ==
  ASSUME ThreadsInv, CurrentInv, ~interfered, NEW t \in Thread, Cur(t), NEW it \in Items, item[t] = it
  PROVE  /\ status[it] = "Started" /\ it \notin unchecked
         /\ FileOK(t)
         /\ it \in Hashed /\ Server[it] = "range" /\ it \notin cut =>
              credit[it] = IF pc[t] = "check" THEN 0 ELSE got[t]
  <1>1. Holds(t) /\ FileOK(t) /\ \A j \in Hashed : CreditOK(j)
    BY DEF CurrentInv
  <1>2. status[it] = "Started" /\ it \notin unchecked
    BY <1>1, NoItem \notin Items DEF CurrentInv, QueueOK, Holds, NoItem
  <1>3. Owners(it) = {t}
    BY <1>1, NoItem \notin Items DEF CurrentInv, Owners, Holds, NoItem
  <1> QED BY <1>1, <1>2, <1>3 DEF CreditOK

(* The end of an item in a catch block: what it touches.                     *)
LEMMA FailTouches ==
  ASSUME TypeInv, ThreadsInv, NEW t \in Thread, NEW it \in Items,
         item[t] = it, NEW back \in Int, Fail(t, back),
         UNCHANGED <<fileVars, queue, starts, doomed, cut>>,
         \A j \in Items \ {it} : j \in unchecked' <=> j \in unchecked
  PROVE  /\ Touches(t, it) /\ Behaves(t, it) /\ FileOK(t)'
         /\ pc'[t] = "loop" /\ item'[t] = NoItem
         /\ status'[it] = "Error" /\ credit'[it] = credit[it] - back
         /\ credit[it] \in Int
  <1>1. /\ credit' = [credit EXCEPT ![it] = @ - back]
        /\ status' = [status EXCEPT ![it] = "Error"]
        /\ pc' = [pc EXCEPT ![t] = "loop"]
        /\ item' = [item EXCEPT ![t] = NoItem]
        /\ Drop(t)
    BY DEF Fail, Drop
  <1>2. /\ credit \in [Items -> Int]
        /\ status \in [Items -> {"NotStart", "Started", "Finished", "Error"}]
        /\ pc \in [Thread -> ThreadPC]
        /\ item \in [Thread -> Items \cup {NoItem}]
    BY DEF TypeInv, TypeOK
  <1>3. \A u \in Thread \ {t} : Same(u)
    BY <1>1, <1>2 DEF Drop, Same, TypeInv, TypeOK
  <1>4. \A j \in Items \ {it} : SameItem(j)
    BY <1>1, <1>2 DEF SameItem, fileVars
  <1>5. /\ pc'[t] = "loop" /\ item'[t] = NoItem
        /\ status'[it] = "Error" /\ credit'[it] = credit[it] - back
    BY <1>1, <1>2
  <1>6. Touches(t, it)
    BY <1>3, <1>4, <1>5 DEF Touches
  <1>7. \A u \in Thread \ {t} : pc[u] \in OpenPC /\ item[u] = it => FileOf(it)' # Absent
    BY DEF ThreadsInv, ThreadOK, FileOf, fileVars
  <1>8. Behaves(t, it)
    BY <1>5, <1>7 DEF Behaves, IdlePC, OpenPC
  <1>9. FileOK(t)'
    BY <1>5, NoItem \notin Items DEF FileOK, NoItem
  <1> QED BY <1>2, <1>5, <1>6, <1>8, <1>9

(* Where all that was counted is taken back, the item counts for nothing.    *)
LEMMA FailStep ==
  ASSUME TypeInv, TypeInv', ThreadsInv, CurrentInv, NEW t \in Thread, NEW it \in Items,
         item[t] = it, Interferes(t), NEW back \in Int, Fail(t, back),
         UNCHANGED <<fileVars, queue, starts, doomed, cut, unchecked>>,
         ~interfered /\ Cur(t) /\ it \in Hashed /\ Server[it] = "range" /\ it \notin cut =>
           credit[it] = back
  PROVE  ThreadsInv' /\ CurrentInv'
  <1>1. /\ Touches(t, it) /\ Behaves(t, it) /\ FileOK(t)'
        /\ pc'[t] = "loop" /\ item'[t] = NoItem
        /\ status'[it] = "Error" /\ credit'[it] = credit[it] - back
        /\ credit[it] \in Int
    BY FailTouches
  <1>2. ASSUME ~interfered, Cur(t) PROVE Settles(t, it)
    <2>1. it \in Hashed /\ Server[it] = "range" /\ it \notin cut' => credit'[it] = 0
      BY <1>1, <1>2
    <2>2. it \notin unchecked'
      BY <1>2, Here
    <2> QED BY <1>1, <2>1, <2>2, NoItem \notin Items DEF Settles, NoItem
  <1> QED BY <1>1, <1>2, Step

(* Where the check throws, nothing is taken back: the whole .temp counts.    *)
LEMMA VerifyFailsStep ==
  ASSUME TypeInv, TypeInv', ThreadsInv, CurrentInv, NEW t \in Thread, VerifyFails(t)
  PROVE  ThreadsInv' /\ CurrentInv'
  <1>1. PICK it \in Items : it = item[t]
    BY ItemIs DEF VerifyFails, IdlePC
  <1>2. /\ pc[t] = "verify" /\ Fail(t, 0) /\ Interferes(t)
        /\ UNCHANGED <<fileVars, queue, starts, doomed, cut>>
        /\ unchecked' = unchecked \cup {it}
    BY <1>1 DEF VerifyFails
  <1>3. /\ Touches(t, it) /\ Behaves(t, it) /\ FileOK(t)'
        /\ pc'[t] = "loop" /\ item'[t] = NoItem
        /\ status'[it] = "Error" /\ credit'[it] = credit[it] - 0
        /\ credit[it] \in Int
    <2>1. \A j \in Items \ {it} : j \in unchecked' <=> j \in unchecked
      BY <1>2
    <2> QED BY <1>1, <1>2, <2>1, 0 \in Int, FailTouches
  <1>4. ASSUME ~interfered, Cur(t) PROVE Settles(t, it)
    <2>1. /\ FileOK(t)
          /\ it \in Hashed /\ Server[it] = "range" /\ it \notin cut => credit[it] = got[t]
      BY <1>1, <1>2, <1>4, Here
    <2>2. it \in Hashed => VerifyOK(t)
      BY <1>1, <1>2, <2>1 DEF FileOK
    <2>3. it \in Hashed /\ Server[it] = "range" /\ it \notin cut => got[t] = Len(temp[it])
      BY <1>1, <2>2 DEF VerifyOK
    <2>4. it \in Hashed /\ Server[it] = "range" /\ it \notin cut' => credit'[it] = Len(temp'[it])
      <3>1. temp' = temp /\ cut' = cut
        BY <1>2 DEF fileVars
      <3>2. credit'[it] = credit[it]
        BY ONLY <1>3
      <3> QED BY ONLY <2>1, <2>3, <3>1, <3>2
    <2> QED BY <1>2, <1>3, <2>4, NoItem \notin Items DEF Settles, NoItem
  <1> QED BY <1>1, <1>2, <1>3, <1>4, Step

(* A file that cannot be opened: nothing was counted yet.                    *)
LEMMA OpenFailsStep ==
  ASSUME TypeInv, TypeInv', ThreadsInv, CurrentInv, NEW t \in Thread, OpenFails(t)
  PROVE  ThreadsInv' /\ CurrentInv'
  <1>1. PICK it \in Items : it = item[t]
    BY ItemIs DEF OpenFails, IdlePC
  <1>2. ~interfered /\ Cur(t) /\ it \in Hashed /\ Server[it] = "range" /\ it \notin cut => credit[it] = 0
    BY <1>1, Here DEF OpenFails
  <1> QED BY <1>1, <1>2, FailStep, 0 \in Int DEF OpenFails

(* A refusal takes back what the resume counted.                             *)
LEMMA RequestRefusedStep ==
  ASSUME TypeInv, TypeInv', ThreadsInv, CurrentInv, NEW t \in Thread, RequestRefused(t)
  PROVE  ThreadsInv' /\ CurrentInv'
  <1>1. PICK it \in Items : it = item[t]
    BY ItemIs DEF RequestRefused, IdlePC
  <1>2. PICK back \in Int : back = got[t]
    BY DEF TypeInv, TypeOK
  <1>3. ~interfered /\ Cur(t) /\ it \in Hashed /\ Server[it] = "range" /\ it \notin cut => credit[it] = back
    BY <1>1, <1>2, Here DEF RequestRefused
  <1> QED BY <1>1, <1>2, <1>3, FailStep DEF RequestRefused

(* So does a failure of the connection, ...                                  *)
LEMMA WebFailsStep ==
  ASSUME TypeInv, TypeInv', ThreadsInv, CurrentInv, NEW t \in Thread, WebFails(t)
  PROVE  ThreadsInv' /\ CurrentInv'
  <1>1. PICK it \in Items : it = item[t]
    BY ItemIs DEF WebFails, IdlePC
  <1>2. PICK back \in Int : back = got[t]
    BY DEF TypeInv, TypeOK
  <1>3. ~interfered /\ Cur(t) /\ it \in Hashed /\ Server[it] = "range" /\ it \notin cut => credit[it] = back
    BY <1>1, <1>2, Here DEF WebFails
  <1> QED BY <1>1, <1>2, <1>3, FailStep DEF WebFails

(* ... and the second failure of the hash, ...                               *)
LEMMA FatalStep ==
  ASSUME TypeInv, TypeInv', ThreadsInv, CurrentInv, NEW t \in Thread, Fatal(t)
  PROVE  ThreadsInv' /\ CurrentInv'
  <1>1. PICK it \in Items : it = item[t]
    BY ItemIs DEF Fatal, IdlePC
  <1>2. it \in Hashed /\ Len(temp[it]) \in Int
    BY <1>1, ItemIs DEF Fatal, OpenPC, FileOf
  <1>3. PICK back \in Int : back = Len(temp[it])
    BY <1>2
  <1>4. ASSUME ~interfered, Cur(t), it \in Hashed, Server[it] = "range", it \notin cut
        PROVE  credit[it] = back
    <2>1. credit[it] = got[t] /\ FileOK(t)
      BY <1>1, <1>4, Here DEF Fatal
    <2>2. VerifyOK(t)
      BY <1>1, <1>2, <2>1 DEF FileOK, Fatal
    <2> QED BY <1>1, <1>3, <1>4, <2>1, <2>2 DEF VerifyOK
  <1> QED BY <1>1, <1>3, <1>4, FailStep DEF Fatal

(* ... and a failure between the check and the move.                         *)
LEMMA PublishFailsStep ==
  ASSUME TypeInv, TypeInv', ThreadsInv, CurrentInv, NEW t \in Thread, PublishFails(t)
  PROVE  ThreadsInv' /\ CurrentInv'
  <1>1. PICK it \in Items : it = item[t]
    BY ItemIs DEF PublishFails, IdlePC
  <1>2. it \in Hashed
    BY <1>1, ItemIs DEF PublishFails
  <1>3. Len(Want) \in Int /\ Len(Want) = Size
    BY WantIs
  <1>4. ASSUME ~interfered, Cur(t), it \in Hashed, Server[it] = "range", it \notin cut
        PROVE  credit[it] = Len(Want)
    <2>1. credit[it] = got[t] /\ FileOK(t)
      BY <1>1, <1>4, Here DEF PublishFails
    <2>2. PublishOK(t)
      BY <1>1, <1>2, <2>1 DEF FileOK, PublishFails
    <2> QED BY <1>1, <1>3, <1>4, <2>1, <2>2 DEF PublishOK
  <1> QED BY <1>1, <1>3, <1>4, FailStep DEF PublishFails

(* A file that is there and right is counted as it is.                       *)
LEMMA AlreadyThereStep ==
  ASSUME TypeInv, TypeInv', ThreadsInv, CurrentInv, NEW t \in Thread, AlreadyThere(t)
  PROVE  ThreadsInv' /\ CurrentInv'
  <1>1. PICK it \in Items : it = item[t]
    BY ItemIs DEF AlreadyThere, IdlePC
  <1>2. it \in Hashed /\ path[it] = Want /\ Len(path[it]) = Size
    BY <1>1, WantIs DEF AlreadyThere, There, CheckFileOk
  <1>3. /\ pc'[t] = "loop" /\ item'[t] = NoItem
        /\ status'[it] = "Finished" /\ credit'[it] = credit[it] + Size
    BY <1>1, <1>2 DEF AlreadyThere, Drop, TypeInv, TypeOK
  <1>4. \A u \in Thread \ {t} : Same(u)
    BY DEF AlreadyThere, Drop, Same, TypeInv, TypeOK
  <1>5. \A j \in Items \ {it} : SameItem(j)
    BY <1>1 DEF AlreadyThere, SameItem, fileVars, TypeInv, TypeOK
  <1>6. Touches(t, it)
    BY <1>3, <1>4, <1>5 DEF Touches, AlreadyThere
  <1>7. \A u \in Thread \ {t} : pc[u] \in OpenPC /\ item[u] = it => FileOf(it)' # Absent
    BY DEF ThreadsInv, ThreadOK, FileOf, fileVars, AlreadyThere
  <1>8. Behaves(t, it)
    BY <1>3, <1>7 DEF Behaves, IdlePC, OpenPC
  <1>9. ASSUME ~interfered, Cur(t) PROVE Settles(t, it)
    <2>1. /\ Server[it] = "range" /\ it \notin cut => credit[it] = 0
          /\ it \notin unchecked
      BY <1>1, <1>2, <1>9, Here DEF AlreadyThere
    <2>2. FileOK(t)'
      BY <1>3, NoItem \notin Items DEF FileOK, NoItem
    <2>3. Server[it] = "range" /\ it \notin cut' => credit'[it] = Size
      BY <1>3, <2>1 DEF AlreadyThere
    <2> QED BY <1>2, <1>3, <2>1, <2>2, <2>3, NoItem \notin Items
            DEF Settles, NoItem, AlreadyThere, fileVars
  <1> QED BY <1>1, <1>6, <1>8, <1>9, Step DEF AlreadyThere

(* SetFile changes one file of one item.                                     *)
LEMMA SetFileIs ==
  ASSUME TypeInv, NEW it \in Items, NEW f, SetFile(it, f)
  PROVE  /\ FileOf(it)' = f
         /\ it \in Hashed => temp'[it] = f /\ path'[it] = path[it]
         /\ \A j \in Items \ {it} : path'[j] = path[j] /\ temp'[j] = temp[j]
  <1>1. path \in [Items -> Files] /\ temp \in [Items -> Files]
    BY DEF TypeInv, TypeOK
  <1> QED BY ONLY <1>1, it \in Items, SetFile(it, f) DEF SetFile, FileOf

(* Opening the .temp: what is kept of it is what is counted.                 *)
LEMMA BeginStep ==
  ASSUME TypeInv, TypeInv', ThreadsInv, CurrentInv, NEW t \in Thread, Begin(t)
  PROVE  ThreadsInv' /\ CurrentInv'
  <1>1. PICK it \in Items : it = item[t]
    BY ItemIs DEF Begin, IdlePC
  <1>2. PICK f : f = IF Keep(it) THEN temp[it] ELSE <<>>
    OBVIOUS
  <1>3. f \in Seq(0 .. Size) /\ Len(f) \in 0 .. MaxLen /\ f # Absent
    BY <1>2, FileFacts, AbsentIs DEF Keep, TypeInv, TypeOK
  <1>4. /\ SetFile(it, f)
        /\ from' = [from EXCEPT ![t] = Len(f)]
        /\ got' = [got EXCEPT ![t] = Len(f)]
        /\ credit' = [credit EXCEPT ![it] = @ + Len(f)]
        /\ pc' = [pc EXCEPT ![t] = IF it \in Sized /\ Len(f) = Size THEN "verify" ELSE "request"]
        /\ second' = [second EXCEPT ![t] = FALSE]
        /\ UNCHANGED <<queue, status, starts, item, body, doomed, faults, cut, unchecked>>
    BY <1>1, <1>2 DEF Begin
  <1>5. /\ FileOf(it)' = f
        /\ it \in Hashed => temp'[it] = f /\ path'[it] = path[it]
        /\ \A j \in Items \ {it} : path'[j] = path[j] /\ temp'[j] = temp[j]
    BY <1>4, SetFileIs
  <1>6. /\ pc'[t] = IF it \in Sized /\ Len(f) = Size THEN "verify" ELSE "request"
        /\ from'[t] = Len(f) /\ got'[t] = Len(f) /\ second'[t] = FALSE
        /\ item'[t] = it
        /\ credit'[it] = credit[it] + Len(f)
    BY <1>1, <1>4 DEF TypeInv, TypeOK
  <1>7. \A u \in Thread \ {t} : Same(u)
    BY <1>4 DEF Same, TypeInv, TypeOK
  <1>8. \A j \in Items \ {it} : SameItem(j)
    BY <1>4, <1>5 DEF SameItem, TypeInv, TypeOK
  <1>9. Touches(t, it)
    BY <1>4, <1>6, <1>7, <1>8 DEF Touches
  <1>10. \A u \in Thread \ {t} : ~(pc[u] \in OpenPC /\ item[u] = it)
    BY <1>1 DEF Begin, OthersHave, HasOpen, OpenPC
  <1>11. it \in Sized /\ Len(f) = Size => it \in Hashed
    BY <1>2, <1>3 DEF Keep
  <1>12. Behaves(t, it)
    BY <1>3, <1>5, <1>6, <1>10, <1>11, NoItem \notin Items DEF Behaves, IdlePC, OpenPC, NoItem
  <1>13. ASSUME ~interfered, Cur(t) PROVE Settles(t, it)
    <2>1. /\ it \in Hashed /\ Server[it] = "range" /\ it \notin cut => credit[it] = 0
          /\ status[it] = "Started" /\ it \notin unchecked
      BY <1>1, <1>13, Here DEF Begin
    <2>2. it \in Hashed /\ Server[it] = "range" /\ it \notin cut' => credit'[it] = got'[t]
      BY <1>3, <1>4, <1>6, <2>1
    <2>3. it \in Sized => Len(f) <= Size
      BY <1>2, <1>3 DEF Keep
    <2>4. FileOK(t)'
      BY <1>3, <1>5, <1>6, <2>3 DEF FileOK, RequestOK, VerifyOK, ShortOK
    <2> QED BY <1>4, <1>6, <2>1, <2>2, <2>4, NoItem \notin Items DEF Settles, NoItem
  <1> QED BY <1>1, <1>9, <1>12, <1>13, Step DEF Begin

(* The answer is lined up with the thread's position, or is appended.        *)
LEMMA RequestOkStep ==
  ASSUME TypeInv, TypeInv', ThreadsInv, CurrentInv, NEW t \in Thread, RequestOk(t)
  PROVE  ThreadsInv' /\ CurrentInv'
  <1>1. PICK it \in Items : it = item[t]
    BY ItemIs DEF RequestOk, IdlePC
  <1>2. /\ pc[t] = "request" /\ pc'[t] = "stream" /\ item'[t] = it /\ body'[t] = Answer(t)
        /\ from'[t] = from[t] /\ got'[t] = got[t] /\ second'[t] = second[t]
        /\ path' = path /\ temp' = temp /\ queue' = queue /\ status' = status /\ credit' = credit
        /\ cut' = cut /\ unchecked' = unchecked /\ starts' = starts
    BY <1>1 DEF RequestOk, fileVars, itemVars, TypeInv, TypeOK
  <1>3. \A u \in Thread \ {t} : Same(u)
    BY DEF RequestOk, Same, TypeInv, TypeOK
  <1>4. \A j \in Items \ {it} : SameItem(j)
    BY <1>2 DEF SameItem
  <1>5. Touches(t, it)
    BY <1>2, <1>3, <1>4 DEF Touches, RequestOk
  <1>6. FileOf(it)' = FileOf(it)
    BY <1>2 DEF FileOf
  <1>7. Behaves(t, it)
    BY <1>1, <1>2, <1>6, NoItem \notin Items
    DEF Behaves, ThreadsInv, ThreadOK, IdlePC, OpenPC, NoItem
  <1>8. ASSUME ~interfered, Cur(t) PROVE Settles(t, it)
    <2>1. /\ status[it] = "Started" /\ it \notin unchecked /\ FileOK(t)
          /\ it \in Hashed /\ Server[it] = "range" /\ it \notin cut => credit[it] = got[t]
      BY <1>1, <1>2, <1>8, Here
    <2>2. ASSUME it \in Hashed PROVE StreamOK(t)' /\ ShortOK(t)'
      <3>1. RequestOK(t) /\ ShortOK(t)
        BY <1>1, <1>2, <2>1, <2>2 DEF FileOK, OpenPC
      <3>2. Len(temp[it]) \in 0 .. MaxLen
        BY <1>1, <1>2, <2>2, ItemIs DEF OpenPC, FileOf
      <3>3. from[t] \in Nat /\ got[t] \in Nat /\ ~Refused(t)
        BY DEF TypeInv, TypeOK, RequestOk
      <3>4. CASE second[t]
        <4>1. Answer(t) = Want /\ got[t] = 0
          BY <3>1, <3>4 DEF Answer, Ranged, StartPos, RequestOK
        <4>2. Aligned(t)'
          BY <1>2, <4>1, WantIs DEF Aligned
        <4>3. StreamOK(t)'
          BY <1>2, <3>2, <3>4, <4>1, <4>2 DEF StreamOK
        <4> QED BY <1>1, <1>2, <3>1, <3>4, <4>3 DEF ShortOK
      <3>5. CASE ~second[t] /\ Ranged(t)
        <4>1. got[t] = from[t] /\ got[t] < Size /\ Answer(t) = SubSeq(Want, got[t] + 1, Size)
          <5>1. StartPos(t) = from[t] /\ got[t] = from[t]
            BY <3>1, <3>5 DEF StartPos, RequestOK
          <5>2. ~(StartPos(t) >= Size)
            BY <3>3, <3>5 DEF Refused
          <5>3. Answer(t) = SubSeq(Want, StartPos(t) + 1, Size)
            BY <3>5 DEF Answer
          <5> QED BY <3>3, <5>1, <5>2, <5>3
        <4>2. got[t] \in 0 .. Size
          BY <3>3, <4>1
        <4>3. Aligned(t)'
          <5>1. PICK n \in 0 .. Size : n = got[t]
            BY <4>2
          <5>2. body'[t] = SubSeq(Want, n + 1, Size) /\ got'[t] = n
            BY <1>2, <4>1, <5>1
          <5> DEFINE rest == SubSeq(Want, n + 1, Size)
          <5>3. Len(rest) = Size - n /\ \A k \in 1 .. (Size - n) : rest[k] = n + k
            BY RestIs
          <5>5. body'[t] = rest
            BY <5>2
          <5> HIDE DEF rest
          <5>4. n <= Size /\ Len(rest) = Size - n /\ \A k \in 1 .. Len(rest) : rest[k] = n + k
            BY <5>3
          <5> QED BY <5>2, <5>4, <5>5 DEF Aligned
        <4> QED BY <1>1, <1>2, <3>1, <3>5, <4>1, <4>3 DEF ShortOK, StreamOK, RequestOK
      <3>6. CASE ~second[t] /\ ~Ranged(t) /\ from[t] = 0
        <4>1. Answer(t) = Want /\ got[t] = 0
          BY <3>1, <3>6 DEF Answer, RequestOK
        <4>2. Aligned(t)'
          BY <1>2, <4>1, WantIs DEF Aligned
        <4> QED BY <1>1, <1>2, <3>1, <3>6, <4>1, <4>2 DEF ShortOK, StreamOK, RequestOK
      <3>7. CASE ~second[t] /\ ~Ranged(t) /\ from[t] # 0
        <4>1. Answer(t) = Want /\ got[t] = from[t] /\ Server[it] # "range"
          BY <1>1, <3>1, <3>3, <3>7 DEF Answer, RequestOK, Ranged, StartPos
        <4>2. Want # <<>> => Want[1] = 1
          BY WantIs
        <4>3. Appending(t)'
          BY <1>1, <1>2, <3>1, <3>3, <3>7, <4>1, <4>2 DEF Appending, RequestOK
        <4> QED BY <1>1, <1>2, <3>1, <3>7, <4>1, <4>3 DEF ShortOK, StreamOK, RequestOK
      <3> QED BY <3>4, <3>5, <3>6, <3>7
    <2>3. FileOK(t)'
      BY <1>2, <2>2 DEF FileOK, OpenPC
    <2> QED BY <1>2, <2>1, <2>3, NoItem \notin Items DEF Settles, NoItem
  <1> QED BY <1>1, <1>5, <1>7, <1>8, Step DEF RequestOk

(* One unit arrives.                                                         *)
LEMMA ReadStep ==
  ASSUME TypeInv, TypeInv', ThreadsInv, CurrentInv, NEW t \in Thread, Read(t)
  PROVE  ThreadsInv' /\ CurrentInv'
  <1>1. PICK it \in Items : it = item[t]
    BY ItemIs DEF Read, IdlePC
  <1>2. PICK f \in Seq(0 .. Size) : f = FileOf(it) /\ Len(f) \in 0 .. MaxLen
    BY <1>1, ItemIs DEF Read, OpenPC
  <1>3. PICK p \in Nat : p = got[t]
    BY DEF TypeInv, TypeOK
  <1>4. PICK v \in 1 .. Size : v = Head(body[t])
    BY DEF Read, TypeInv
  <1>5. PICK g : g = Put(f, p + 1, v)
    OBVIOUS
  <1>6. /\ g \in Seq(0 .. Size)
        /\ Len(g) = IF p + 1 <= Len(f) THEN Len(f) ELSE Len(f) + 1
        /\ \A k \in 1 .. Len(f) : k # p + 1 => g[k] = f[k]
        /\ p + 1 <= Len(f) + 1 => g[p + 1] = v
    <2>1. p + 1 \in Nat \ {0} /\ v \in 0 .. Size
      OBVIOUS
    <2> QED BY ONLY <1>5, <2>1, PutIs, f \in Seq(0 .. Size)
  <1>7. /\ SetFile(it, g)
        /\ body' = [body EXCEPT ![t] = Tail(@)]
        /\ got' = [got EXCEPT ![t] = @ + 1]
        /\ credit' = [credit EXCEPT ![it] = @ + 1]
        /\ UNCHANGED <<queue, status, starts, pc, item, from, second, doomed, faults, cut,
                       unchecked>>
    BY <1>1, <1>2, <1>3, <1>4, <1>5 DEF Read
  <1>8. /\ FileOf(it)' = g
        /\ it \in Hashed => temp'[it] = g /\ path'[it] = path[it]
        /\ \A j \in Items \ {it} : path'[j] = path[j] /\ temp'[j] = temp[j]
    BY <1>7, SetFileIs
  <1>9. /\ pc[t] = "stream" /\ pc'[t] = "stream" /\ item'[t] = it
        /\ from'[t] = from[t] /\ got'[t] = p + 1 /\ second'[t] = second[t]
        /\ body'[t] = Tail(body[t]) /\ credit'[it] = credit[it] + 1
    BY <1>1, <1>3, <1>7 DEF Read, TypeInv, TypeOK
  <1>10. \A u \in Thread \ {t} : Same(u)
    BY <1>7 DEF Same, TypeInv, TypeOK
  <1>11. \A j \in Items \ {it} : SameItem(j)
    BY <1>7, <1>8 DEF SameItem, TypeInv, TypeOK
  <1>12. Touches(t, it)
    BY <1>7, <1>9, <1>10, <1>11 DEF Touches
  <1>13. g # Absent
    BY <1>6, AbsentIs
  <1>14. Behaves(t, it)
    BY <1>1, <1>8, <1>9, <1>13, NoItem \notin Items
    DEF Behaves, ThreadsInv, ThreadOK, IdlePC, OpenPC, NoItem
  <1>15. ASSUME ~interfered, Cur(t) PROVE Settles(t, it)
    <2>1. /\ status[it] = "Started" /\ it \notin unchecked /\ FileOK(t)
          /\ it \in Hashed /\ Server[it] = "range" /\ it \notin cut => credit[it] = p
      BY <1>1, <1>3, <1>9, <1>15, Here
    <2>2. it \in Hashed /\ Server[it] = "range" /\ it \notin cut' => credit'[it] = got'[t]
      BY <1>7, <1>9, <2>1
    <2>3. ASSUME it \in Hashed PROVE StreamOK(t)' /\ ShortOK(t)'
      <3>1. StreamOK(t) /\ ShortOK(t)
        BY <1>1, <1>9, <2>1, <2>3 DEF FileOK, OpenPC
      <3>2. f = temp[it] /\ g = temp'[it]
        BY <1>2, <1>8, <2>3 DEF FileOf
      <3>3. /\ body[t] \in Seq(1 .. Size) /\ body[t] # <<>> /\ body[t][1] = v
            /\ Len(Tail(body[t])) = Len(body[t]) - 1
            /\ \A k \in 1 .. Len(Tail(body[t])) : Tail(body[t])[k] = body[t][k + 1]
        BY <1>4 DEF Read, TypeInv
      <3>4. ASSUME Aligned(t) PROVE v = p + 1 /\ p + 1 <= Size /\ Aligned(t)'
        <4>1. p <= Size /\ Len(body[t]) = Size - p /\ \A k \in 1 .. Len(body[t]) : body[t][k] = p + k
          BY <1>3, <3>4 DEF Aligned
        <4>2. Len(body[t]) \in Nat \ {0}
          BY <3>3
        <4>7. PICK n \in Nat \ {0} : n = Len(body[t])
          BY ONLY <4>2
        <4>8. Size \in Nat /\ p \in Nat /\ n = Size - p
          BY ONLY <4>1, <4>7, ItemsAssumption, p \in Nat
        <4>9. 1 \in 1 .. n /\ n - 1 \in Nat /\ \A k \in 1 .. n - 1 : k + 1 \in 1 .. n
          BY ONLY n \in Nat \ {0}
        <4>3. v = p + 1 /\ p + 1 <= Size
          <5>1. body[t][1] = p + 1
            BY ONLY <4>1, <4>7, <4>9
          <5>2. p + 1 <= Size
            BY ONLY <4>8, n \in Nat \ {0}
          <5> QED BY ONLY <3>3, <5>1, <5>2
        <4> DEFINE rest == Tail(body[t])
        <4>4. Len(rest) = Size - (p + 1) /\ \A k \in 1 .. Len(rest) : rest[k] = p + 1 + k
          <5>1. Len(rest) = n - 1
            BY ONLY <3>3, <4>7
          <5>2. n - 1 = Size - (p + 1)
            BY ONLY <4>8, n \in Nat \ {0}
          <5>3. ASSUME NEW k \in 1 .. n - 1 PROVE rest[k] = p + 1 + k
            <6>1. rest[k] = body[t][k + 1] /\ k + 1 \in 1 .. n
              BY ONLY <3>3, <4>9, <5>1, k \in 1 .. n - 1
            <6>2. body[t][k + 1] = p + (k + 1)
              BY ONLY <4>1, <4>7, <6>1
            <6>3. p + (k + 1) = p + 1 + k
              BY ONLY <4>8, <4>9, k \in 1 .. n - 1
            <6> QED BY ONLY <6>1, <6>2, <6>3
          <5> QED BY ONLY <5>1, <5>2, <5>3
        <4> HIDE DEF rest
        <4>5. body'[t] = rest /\ got'[t] = p + 1
          BY <1>9 DEF rest
        <4>6. Aligned(t)'
          BY ONLY <4>3, <4>4, <4>5 DEF Aligned
        <4> QED BY <4>3, <4>6
      <3>5. CASE second[t]
        <4>1. Aligned(t) /\ p <= Len(f)
          BY <1>1, <1>3, <3>1, <3>2, <3>5 DEF StreamOK
        <4>2. p + 1 <= Len(g) /\ (Len(f) <= Size => Len(g) <= Size)
          BY <1>2, <1>6, <3>4, <4>1
        <4>3. StreamOK(t)'
          BY <1>9, <3>2, <3>4, <3>5, <4>1, <4>2 DEF StreamOK
        <4> QED BY <1>1, <1>9, <3>1, <3>2, <3>5, <4>2, <4>3 DEF ShortOK
      <3>6. CASE ~second[t]
        <4>1. Len(f) = p /\ (Aligned(t) \/ Appending(t))
          BY <1>1, <1>3, <3>1, <3>2, <3>6 DEF StreamOK
        <4>2. Len(g) = p + 1
          BY <1>6, <4>1
        <4>3. CASE Aligned(t)
          BY <1>9, <3>2, <3>4, <3>6, <4>2, <4>3 DEF StreamOK, ShortOK
        <4>4. CASE Appending(t)
          <5>1. Server[it] # "range" /\ 0 < from[t] /\ from[t] <= p
            BY <1>1, <1>3, <4>4 DEF Appending
          <5>2. from[t] \in Nat
            BY DEF TypeInv, TypeOK
          <5>3. g[from[t] + 1] = 1
            <6>1. CASE p = from[t]
              BY <1>1, <1>3, <1>6, <3>3, <4>1, <4>4, <6>1 DEF Appending
            <6>2. CASE p # from[t]
              <7>1. f[from[t] + 1] = 1
                BY <1>1, <1>3, <3>2, <4>4, <6>2 DEF Appending
              <7>2. from[t] + 1 \in 1 .. Len(f) /\ from[t] + 1 # p + 1
                BY <4>1, <5>1, <5>2, <6>2
              <7> QED BY <1>6, <7>1, <7>2
            <6> QED BY <6>1, <6>2
          <5>4. Appending(t)'
            BY <1>1, <1>9, <3>2, <4>4, <5>1, <5>2, <5>3 DEF Appending
          <5> QED BY <1>1, <1>9, <3>2, <3>6, <4>2, <5>1, <5>4 DEF StreamOK, ShortOK
        <4> QED BY <4>1, <4>3, <4>4
      <3> QED BY <3>5, <3>6
    <2>4. FileOK(t)'
      BY <1>9, <2>3 DEF FileOK, OpenPC
    <2> QED BY <1>7, <1>9, <2>1, <2>2, <2>4, NoItem \notin Items DEF Settles, NoItem
  <1> QED BY <1>1, <1>12, <1>14, <1>15, Step DEF Read

(* At the end of an answer that was not cut, all of the file was counted.    *)
LEMMA ReadEndStep ==
  ASSUME TypeInv, TypeInv', ThreadsInv, CurrentInv, NEW t \in Thread, ReadEnd(t)
  PROVE  ThreadsInv' /\ CurrentInv'
  <1>1. PICK it \in Items : it = item[t]
    BY ItemIs DEF ReadEnd, IdlePC
  <1>2. /\ pc[t] = "stream"
        /\ path' = path /\ temp' = temp /\ queue' = queue /\ status' = status /\ credit' = credit
        /\ starts' = starts /\ doomed' = doomed /\ unchecked' = unchecked
        /\ cut' = IF body[t] # <<>> /\ second[t] THEN cut \cup {it} ELSE cut
    BY <1>1 DEF ReadEnd, fileVars, itemVars
  <1>3. \A u \in Thread \ {t} : Same(u)
    <2>1. CASE item[t] \in Hashed
      BY <2>1 DEF ReadEnd, Same, TypeInv, TypeOK
    <2>2. CASE item[t] \notin Hashed
      BY <2>2 DEF ReadEnd, Drop, Same, TypeInv, TypeOK
    <2> QED BY <2>1, <2>2
  <1>4. \A j \in Items \ {it} : SameItem(j)
    BY <1>2 DEF SameItem
  <1>5. FileOf(it)' = FileOf(it)
    BY <1>2 DEF FileOf
  <1>6. CASE it \in Hashed
    <2>1. /\ pc'[t] = "verify" /\ item'[t] = it /\ body'[t] = <<>>
          /\ from'[t] = from[t] /\ got'[t] = got[t] /\ second'[t] = second[t]
      BY <1>1, <1>6 DEF ReadEnd, TypeInv, TypeOK
    <2>2. Touches(t, it)
      BY <1>2, <1>3, <1>4, <2>1 DEF Touches
    <2>3. Behaves(t, it)
      BY <1>1, <1>2, <1>5, <1>6, <2>1, NoItem \notin Items
      DEF Behaves, ThreadsInv, ThreadOK, IdlePC, OpenPC, NoItem
    <2>4. ASSUME ~interfered, Cur(t) PROVE Settles(t, it)
      <3>1. /\ status[it] = "Started" /\ it \notin unchecked /\ FileOK(t)
            /\ it \in Hashed /\ Server[it] = "range" /\ it \notin cut => credit[it] = got[t]
        BY <1>1, <1>2, <2>4, Here
      <3>2. StreamOK(t) /\ ShortOK(t)
        BY <1>1, <1>2, <1>6, <3>1 DEF FileOK, OpenPC
      <3>3. Len(temp[it]) \in Nat /\ got[t] \in Nat /\ it \notin cut' => it \notin cut
        BY <1>1, <1>2, <1>6, ItemIs DEF OpenPC, FileOf, TypeInv, TypeOK
      <3>4. VerifyOK(t)'
        <4>1. CASE second[t]
          <5>1. ASSUME Server[it] = "range", it \notin cut' PROVE got[t] = Size /\ Len(temp[it]) = Size
            <6>1. body[t] = <<>>
              BY <1>2, <4>1, <5>1
            <6>2. Len(body[t]) = 0
              BY <6>1
            <6>3. got[t] = Size /\ got[t] <= Len(temp[it]) /\ Len(temp[it]) <= Size
              BY <1>1, <1>2, <3>2, <4>1, <5>1, <6>2 DEF StreamOK, ShortOK, Aligned, TypeInv, TypeOK
            <6>4. Len(temp[it]) \in Nat
              BY <1>1, <1>2, <1>6, ItemIs DEF OpenPC, FileOf
            <6> QED BY <6>3, <6>4
          <5> QED BY <1>2, <2>1, <4>1, <5>1 DEF VerifyOK
        <4>2. CASE ~second[t]
          BY <1>1, <1>2, <2>1, <3>2, <4>2 DEF VerifyOK, StreamOK
        <4> QED BY <4>1, <4>2
      <3>5. ShortOK(t)'
        BY <1>1, <1>2, <2>1, <3>2 DEF ShortOK
      <3>6. FileOK(t)'
        BY <2>1, <3>4, <3>5 DEF FileOK, OpenPC
      <3> QED BY <1>2, <2>1, <3>1, <3>6, NoItem \notin Items DEF Settles, NoItem
    <2> QED BY <1>1, <2>2, <2>3, <2>4, Step DEF ReadEnd
  <1>7. CASE it \notin Hashed
    <2>1. pc'[t] = "loop" /\ item'[t] = NoItem
      BY <1>1, <1>7 DEF ReadEnd, Drop, TypeInv, TypeOK
    <2>2. Touches(t, it)
      BY <1>2, <1>3, <1>4, <2>1 DEF Touches
    <2>3. \A u \in Thread \ {t} : pc[u] \in OpenPC /\ item[u] = it => FileOf(it)' # Absent
      BY <1>5 DEF ThreadsInv, ThreadOK
    <2>4. Behaves(t, it)
      BY <2>1, <2>3 DEF Behaves, IdlePC, OpenPC
    <2>5. ASSUME ~interfered, Cur(t) PROVE Settles(t, it)
      <3>1. status[it] = "Started" /\ it \notin unchecked
        BY <1>1, <2>5, Here
      <3>2. FileOK(t)'
        BY <2>1, NoItem \notin Items DEF FileOK, NoItem
      <3> QED BY <1>2, <1>7, <2>1, <3>1, <3>2, NoItem \notin Items DEF Settles, NoItem
    <2> QED BY <1>1, <2>2, <2>4, <2>5, Step DEF ReadEnd
  <1> QED BY <1>6, <1>7

(* The hash matched: from here the thread owns a verified .temp.             *)
LEMMA VerifiedStep ==
  ASSUME TypeInv, TypeInv', ThreadsInv, CurrentInv, NEW t \in Thread, Verified(t)
  PROVE  ThreadsInv' /\ CurrentInv'
  <1>1. PICK it \in Items : it = item[t]
    BY ItemIs DEF Verified, IdlePC
  <1>2. it \in Hashed /\ temp[it] = Want /\ Len(temp[it]) = Size
    BY <1>1, ItemIs, WantIs DEF Verified, CheckFileOk
  <1>3. /\ pc[t] = "verify" /\ pc'[t] = "delete" /\ item'[t] = it
        /\ got'[t] = got[t] /\ second'[t] = second[t]
        /\ path' = path /\ temp' = temp /\ queue' = queue /\ status' = status /\ credit' = credit
        /\ cut' = cut /\ unchecked' = unchecked /\ starts' = starts
    BY <1>1 DEF Verified, fileVars, itemVars, TypeInv, TypeOK
  <1>4. \A u \in Thread \ {t} : Same(u)
    BY DEF Verified, Same, TypeInv, TypeOK
  <1>5. \A j \in Items \ {it} : SameItem(j)
    BY <1>3 DEF SameItem
  <1>6. Touches(t, it)
    BY <1>3, <1>4, <1>5 DEF Touches, Verified
  <1>7. FileOf(it)' = FileOf(it)
    BY <1>3 DEF FileOf
  <1>8. Behaves(t, it)
    BY <1>1, <1>2, <1>3, <1>7, NoItem \notin Items
    DEF Behaves, ThreadsInv, ThreadOK, IdlePC, OpenPC, NoItem
  <1>9. ASSUME ~interfered, Cur(t) PROVE Settles(t, it)
    <2>1. /\ status[it] = "Started" /\ it \notin unchecked /\ FileOK(t)
          /\ it \in Hashed /\ Server[it] = "range" /\ it \notin cut => credit[it] = got[t]
      BY <1>1, <1>3, <1>9, Here
    <2>2. VerifyOK(t)
      BY <1>1, <1>2, <1>3, <2>1 DEF FileOK
    <2>3. PublishOK(t)'
      BY <1>1, <1>2, <1>3, <2>2 DEF PublishOK, VerifyOK
    <2>4. FileOK(t)'
      BY <1>3, <2>3 DEF FileOK, OpenPC
    <2> QED BY <1>3, <2>1, <2>4, NoItem \notin Items DEF Settles, NoItem
  <1> QED BY <1>1, <1>6, <1>8, <1>9, Step DEF Verified

(* It did not match: the counter goes back and the download starts over.     *)
LEMMA SecondChanceStep ==
  ASSUME TypeInv, TypeInv', ThreadsInv, CurrentInv, NEW t \in Thread, SecondChance(t)
  PROVE  ThreadsInv' /\ CurrentInv'
  <1>1. PICK it \in Items : it = item[t]
    BY ItemIs DEF SecondChance, IdlePC
  <1>2. it \in Hashed /\ Len(temp[it]) \in Nat
    BY <1>1, ItemIs DEF SecondChance, OpenPC, FileOf
  <1>3. PICK n \in Nat : n = Len(temp[it])
    BY <1>2
  <1>4. /\ credit' = [credit EXCEPT ![it] = @ - n]
        /\ pc[t] = "verify" /\ from[t] > 0 /\ ~second[t]
        /\ path' = path /\ temp' = temp /\ queue' = queue /\ status' = status
        /\ cut' = cut /\ unchecked' = unchecked /\ starts' = starts
    BY <1>1, <1>3 DEF SecondChance, fileVars
  <1>5. /\ pc'[t] = "request" /\ item'[t] = it
        /\ from'[t] = from[t] /\ got'[t] = 0 /\ second'[t] = TRUE
    BY <1>1 DEF SecondChance, TypeInv, TypeOK
  <1>6. credit'[it] = credit[it] - n /\ \A j \in Items \ {it} : credit'[j] = credit[j]
    BY <1>4 DEF TypeInv, TypeOK
  <1>7. \A u \in Thread \ {t} : Same(u)
    BY DEF SecondChance, Same, TypeInv, TypeOK
  <1>8. \A j \in Items \ {it} : SameItem(j)
    BY <1>4, <1>6 DEF SameItem
  <1>9. Touches(t, it)
    BY <1>4, <1>5, <1>7, <1>8 DEF Touches, SecondChance
  <1>10. FileOf(it)' = FileOf(it)
    BY <1>4 DEF FileOf
  <1>11. Behaves(t, it)
    BY <1>1, <1>2, <1>4, <1>5, <1>10, NoItem \notin Items
    DEF Behaves, ThreadsInv, ThreadOK, IdlePC, OpenPC, NoItem
  <1>12. ASSUME ~interfered, Cur(t) PROVE Settles(t, it)
    <2>1. /\ status[it] = "Started" /\ it \notin unchecked /\ FileOK(t)
          /\ it \in Hashed /\ Server[it] = "range" /\ it \notin cut => credit[it] = got[t]
      BY <1>1, <1>4, <1>12, Here
    <2>2. VerifyOK(t) /\ ShortOK(t)
      BY <1>1, <1>2, <1>4, <2>1 DEF FileOK, OpenPC
    <2>3. n = got[t]
      BY <1>1, <1>3, <1>4, <2>2 DEF VerifyOK
    <2>4. Server[it] = "range" /\ it \notin cut' => credit'[it] = 0
      BY <1>2, <1>4, <1>6, <2>1, <2>3
    <2>5. RequestOK(t)' /\ ShortOK(t)'
      BY <1>1, <1>4, <1>5, <2>2 DEF RequestOK, ShortOK
    <2>6. FileOK(t)'
      BY <1>5, <2>5 DEF FileOK, OpenPC
    <2> QED BY <1>4, <1>5, <2>1, <2>4, <2>6, NoItem \notin Items DEF Settles, NoItem
  <1> QED BY <1>1, <1>9, <1>11, <1>12, Step DEF SecondChance

(* Deleting the old file leaves the verified .temp, ...                      *)
LEMMA DeleteStep ==
  ASSUME TypeInv, TypeInv', ThreadsInv, CurrentInv, NEW t \in Thread, Delete(t)
  PROVE  ThreadsInv' /\ CurrentInv'
  <1>1. PICK it \in Items : it = item[t]
    BY ItemIs DEF Delete, IdlePC
  <1>2. it \in Hashed
    BY <1>1, ItemIs DEF Delete
  <1>3. /\ path' = [path EXCEPT ![it] = Absent]
        /\ pc[t] = "delete" /\ temp' = temp /\ queue' = queue /\ status' = status /\ credit' = credit
        /\ cut' = cut /\ unchecked' = unchecked /\ starts' = starts
    BY <1>1 DEF Delete, itemVars
  <1>4. pc'[t] = "move" /\ item'[t] = it /\ got'[t] = got[t]
    BY <1>1 DEF Delete, TypeInv, TypeOK
  <1>5. \A u \in Thread \ {t} : Same(u)
    BY DEF Delete, Same, TypeInv, TypeOK
  <1>6. \A j \in Items \ {it} : SameItem(j)
    BY <1>3 DEF SameItem, TypeInv, TypeOK
  <1>7. Touches(t, it)
    BY <1>3, <1>4, <1>5, <1>6 DEF Touches, Delete
  <1>8. FileOf(it)' = FileOf(it)
    BY <1>2, <1>3 DEF FileOf
  <1>9. Behaves(t, it)
    BY <1>2, <1>4, <1>8, NoItem \notin Items
    DEF Behaves, ThreadsInv, ThreadOK, IdlePC, OpenPC, NoItem
  <1>10. ASSUME ~interfered, Cur(t) PROVE Settles(t, it)
    <2>1. /\ status[it] = "Started" /\ it \notin unchecked /\ FileOK(t)
          /\ it \in Hashed /\ Server[it] = "range" /\ it \notin cut => credit[it] = got[t]
      BY <1>1, <1>3, <1>10, Here
    <2>2. PublishOK(t)
      BY <1>1, <1>2, <1>3, <2>1 DEF FileOK
    <2>3. PublishOK(t)'
      BY <1>1, <1>3, <1>4, <2>2 DEF PublishOK
    <2>4. FileOK(t)'
      BY <1>4, <2>3 DEF FileOK, OpenPC
    <2> QED BY <1>3, <1>4, <2>1, <2>4, NoItem \notin Items DEF Settles, NoItem
  <1> QED BY <1>1, <1>7, <1>9, <1>10, Step DEF Delete

(* ... and moving it publishes the item.                                     *)
LEMMA MoveStep ==
  ASSUME TypeInv, TypeInv', ThreadsInv, CurrentInv, NEW t \in Thread, Move(t)
  PROVE  ThreadsInv' /\ CurrentInv'
  <1>1. PICK it \in Items : it = item[t]
    BY ItemIs DEF Move, IdlePC
  <1>2. it \in Hashed
    BY <1>1, ItemIs DEF Move
  <1>3. /\ path' = [path EXCEPT ![it] = temp[it]]
        /\ temp' = [temp EXCEPT ![it] = Absent]
        /\ status' = [status EXCEPT ![it] = "Finished"]
        /\ pc[t] = "move" /\ queue' = queue /\ credit' = credit /\ cut' = cut /\ unchecked' = unchecked /\ starts' = starts
    BY <1>1 DEF Move
  <1>4. /\ pc'[t] = "loop" /\ item'[t] = NoItem
        /\ status'[it] = "Finished" /\ path'[it] = temp[it]
    BY <1>3 DEF Move, Drop, TypeInv, TypeOK
  <1>5. \A u \in Thread \ {t} : Same(u)
    BY DEF Move, Drop, Same, TypeInv, TypeOK
  <1>6. \A j \in Items \ {it} : SameItem(j)
    BY <1>3 DEF SameItem, TypeInv, TypeOK
  <1>7. Touches(t, it)
    BY <1>3, <1>4, <1>5, <1>6 DEF Touches, Move
  <1>8. \A u \in Thread \ {t} : ~(pc[u] \in OpenPC /\ item[u] = it)
    BY <1>1 DEF Move, CanMove, OthersHave, HasOpen, OpenPC
  <1>9. Behaves(t, it)
    BY <1>4, <1>8 DEF Behaves, IdlePC, OpenPC
  <1>10. ASSUME ~interfered, Cur(t) PROVE Settles(t, it)
    <2>1. /\ status[it] = "Started" /\ it \notin unchecked /\ FileOK(t)
          /\ it \in Hashed /\ Server[it] = "range" /\ it \notin cut => credit[it] = got[t]
      BY <1>1, <1>3, <1>10, Here
    <2>2. PublishOK(t)
      BY <1>1, <1>2, <1>3, <2>1 DEF FileOK
    <2>3. path'[it] = Want /\ Len(path'[it]) = Size
      BY <1>1, <1>4, <2>2, WantIs DEF PublishOK
    <2>4. FileOK(t)'
      BY <1>4, NoItem \notin Items DEF FileOK, NoItem
    <2>5. Server[it] = "range" /\ it \notin cut' => credit'[it] = Size
      BY <1>1, <1>2, <1>3, <2>1, <2>2 DEF PublishOK
    <2> QED BY <1>3, <1>4, <2>1, <2>3, <2>4, <2>5, NoItem \notin Items DEF Settles, NoItem
  <1> QED BY <1>1, <1>7, <1>9, <1>10, Step DEF Move

(* Taking an item moves it from the queue into one thread's hands.           *)
LEMMA TryGetTaskStep ==
  ASSUME TypeInv, TypeInv', ThreadsInv, CurrentInv, NEW t \in Thread, TryGetTask(t)
  PROVE  ThreadsInv' /\ CurrentInv'
  <1>1. /\ queue \in Seq(Items) /\ queue # <<>> /\ queue' = Tail(queue)
        /\ pc[t] = "loop" /\ item[t] = NoItem
    BY ItemIs DEF TryGetTask, TypeInv, TypeOK, IdlePC
  <1>2. PICK it \in Items : it = Head(queue)
    <2>1. Head(queue) \in Items
      BY ONLY <1>1
    <2> QED BY ONLY <2>1
  <1>3. /\ pc'[t] = "check" /\ item'[t] = it /\ status'[it] = "Started"
        /\ \A j \in Items \ {it} : status'[j] = status[j]
    <2>1. DOMAIN pc = Thread /\ DOMAIN item = Thread /\ DOMAIN status = Items
      BY DEF TypeInv, TypeOK
    <2>2. /\ pc' = [pc EXCEPT ![t] = "check"]
          /\ item' = [item EXCEPT ![t] = Head(queue)]
          /\ status' = [status EXCEPT ![Head(queue)] = "Started"]
      BY DEF TryGetTask
    <2> QED BY ONLY <1>2, <2>1, <2>2, t \in Thread
  <1>4. \A u \in Thread \ {t} : Same(u)
    BY DEF TryGetTask, Same, TypeInv, TypeOK
  <1>5. \A j \in Items \ {it} : SameItem(j)
    BY <1>3 DEF TryGetTask, SameItem, fileVars
  <1>6. Touches(t, it)
    BY <1>3, <1>4, <1>5 DEF Touches, TryGetTask
  <1>7. FileOf(it)' = FileOf(it)
    BY DEF FileOf, TryGetTask, fileVars
  <1>8. Behaves(t, it)
    BY <1>3, <1>7, NoItem \notin Items DEF Behaves, ThreadsInv, ThreadOK, IdlePC, OpenPC, NoItem
  <1>9. ThreadsInv'
    BY <1>1, <1>6, <1>8, ThreadsStep
  <1>10. ASSUME ~interfered, Cur(t) PROVE CurrentInv'
    <2>1. /\ QueueOK
          /\ \A u \in Thread : Cur(u) => Holds(u) /\ FileOK(u)
          /\ \A j \in Hashed : CreditOK(j) /\ FinishedOK(j)
      BY <1>10 DEF CurrentInv
    <2>2. /\ starts' = starts /\ credit' = credit /\ path' = path /\ cut' = cut
          /\ unchecked' = unchecked
      BY DEF TryGetTask, fileVars
    <2>3. \A u \in Thread \ {t} : pc'[u] = pc[u] /\ item'[u] = item[u] /\ got'[u] = got[u]
      BY <1>4 DEF Same
    <2>4. /\ Len(queue) \in Nat \ {0} /\ queue[1] = it
          /\ Len(queue') = Len(queue) - 1
          /\ \A i \in 1 .. Len(queue') : queue'[i] = queue[i + 1]
      BY <1>1, <1>2
    <2>5. status[it] = "NotStart" /\ starts # 0
      <3>1. starts # 0
        BY <1>10 DEF Cur, Thread
      <3>2. \E i \in 1 .. Len(queue) : queue[i] = it
        BY <2>4
      <3> QED BY <2>1, <3>1, <3>2 DEF QueueOK
    <2>10. it \notin unchecked
      BY <2>1, <2>5 DEF QueueOK
    <2>6. \A u \in Thread : Cur(u) => item[u] # it
      BY <2>1, <2>5, NoItem \notin Items DEF Holds, NoItem
    <2>7. QueueOK'
      <3>1. \A i, j \in 1 .. Len(queue') : queue'[i] = queue'[j] => i = j
        <4> SUFFICES ASSUME NEW i \in 1 .. Len(queue'), NEW j \in 1 .. Len(queue'), queue'[i] = queue'[j]
                     PROVE  i = j
          OBVIOUS
        <4>1. /\ i + 1 \in 1 .. Len(queue) /\ j + 1 \in 1 .. Len(queue)
              /\ queue[i + 1] = queue[j + 1]
          BY <2>4
        <4>2. i + 1 = j + 1
          BY <2>1, <4>1 DEF QueueOK
        <4> QED BY <4>2
      <3>2. ASSUME NEW j \in Items
            PROVE  status'[j] = "NotStart" <=> (starts' = 0 \/ \E i \in 1 .. Len(queue') : queue'[i] = j)
        <4>1. CASE j = it
          <5>1. ASSUME NEW i \in 1 .. Len(queue'), queue'[i] = it PROVE FALSE
            <6>1. i + 1 \in 1 .. Len(queue) /\ 1 \in 1 .. Len(queue) /\ queue[i + 1] = queue[1]
              BY <2>4, <5>1
            <6>2. i + 1 = 1
              BY <2>1, <6>1 DEF QueueOK
            <6> QED BY <2>4, <6>2
          <5> QED BY <1>3, <2>2, <2>5, <4>1, <5>1
        <4>2. CASE j # it
          <5>1. ASSUME NEW i \in 1 .. Len(queue), queue[i] = j
                PROVE  \E k \in 1 .. Len(queue') : queue'[k] = j
            <6>1. i # 1
              BY <2>4, <4>2, <5>1
            <6>2. i - 1 \in 1 .. Len(queue') /\ queue'[i - 1] = queue[(i - 1) + 1]
              BY <2>4, <6>1
            <6>3. (i - 1) + 1 = i
              OBVIOUS
            <6> QED BY <5>1, <6>2, <6>3
          <5>2. ASSUME NEW k \in 1 .. Len(queue'), queue'[k] = j
                PROVE  \E i \in 1 .. Len(queue) : queue[i] = j
            <6>1. k + 1 \in 1 .. Len(queue) /\ queue[k + 1] = j
              BY <2>4, <5>2
            <6> QED BY <6>1
          <5>3. status[j] = "NotStart" <=> \E i \in 1 .. Len(queue) : queue[i] = j
            BY <2>1, <2>5 DEF QueueOK
          <5> QED BY <1>3, <2>2, <2>5, <4>2, <5>1, <5>2, <5>3
        <4> QED BY <4>1, <4>2
      <3>3. ASSUME NEW j \in Hashed, status'[j] = "Started"
            PROVE  \E u \in Thread : u[1] = starts' /\ item'[u] = j
        <4>1. CASE j = it
          BY <1>3, <1>10, <2>2, <4>1 DEF Cur
        <4>2. CASE j # it
          <5>1. PICK u \in Thread : Cur(u) /\ item[u] = j
            BY <1>3, <2>1, <3>3, <4>2 DEF QueueOK
          <5>2. u # t
            BY <1>1, <5>1, NoItem \notin Items DEF NoItem
          <5> QED BY <2>2, <2>3, <5>1, <5>2 DEF Cur
        <4> QED BY <4>1, <4>2
      <3>4. \A j \in unchecked' : status'[j] = "Error"
        BY <1>3, <2>1, <2>2, <2>10 DEF QueueOK, TypeInv, TypeOK
      <3> QED BY <3>1, <3>2, <3>3, <3>4 DEF QueueOK, Cur
    <2>8. ASSUME NEW u \in Thread, u[1] = starts' PROVE Holds(u)' /\ FileOK(u)'
      <3>1. Cur(u)
        BY <2>2, <2>8 DEF Cur
      <3>2. FileOK(u)'
        <4>1. CASE u = t
          BY <1>3, <4>1 DEF FileOK, OpenPC
        <4>2. CASE u # t
          BY <1>6, <2>1, <2>6, <3>1, <4>2, OthersStep
        <4> QED BY <4>1, <4>2
      <3>3. pc'[u] # "none" /\ (pc'[u] = "dead" => queue' = <<>>)
        <4>1. pc[u] # "none" /\ pc[u] # "dead"
          BY <1>1, <2>1, <3>1 DEF Holds
        <4>2. pc'[u] # "none" /\ pc'[u] # "dead"
          BY <1>3, <2>3, <4>1
        <4> QED BY <4>2
      <3>4. item'[u] # NoItem => status'[item'[u]] = "Started"
        <4>1. item[u] # NoItem => item[u] \in Items
          BY DEF TypeInv, TypeOK
        <4> QED BY <1>3, <2>1, <2>3, <2>6, <3>1, <4>1 DEF Holds
      <3>5. ASSUME NEW v \in Thread, v # u, v[1] = starts', item'[v] = item'[u] PROVE item'[u] = NoItem
        <4>1. Cur(v)
          BY <2>2, <3>5 DEF Cur
        <4>2. CASE u # t /\ v # t
          BY <2>1, <2>3, <3>1, <3>5, <4>1, <4>2 DEF Holds
        <4>3. CASE u = t \/ v = t
          BY <1>3, <2>3, <2>6, <3>1, <3>5, <4>1, <4>3
        <4> QED BY <4>2, <4>3
      <3> QED BY <3>2, <3>3, <3>4, <3>5 DEF Holds, Cur
    <2>9. ASSUME NEW j \in Hashed PROVE CreditOK(j)' /\ FinishedOK(j)'
      <3>1. CASE j = it
        <4>1. \A u \in Thread : u[1] = starts' /\ item'[u] = it => u = t
          BY <2>2, <2>3, <2>6 DEF Cur
        <4>2. \A u \in Owners(j)' : pc'[u] = "check"
          BY <1>3, <3>1, <4>1 DEF Owners, Cur
        <4>3. \A u \in Owners(j) : FALSE
          BY <2>6, <3>1 DEF Owners
        <4>4. Server[j] = "range" /\ j \notin cut => credit[j] = 0
          BY <2>1, <2>5, <2>10, <3>1, <4>3 DEF CreditOK
        <4> QED BY <1>3, <2>2, <2>10, <3>1, <4>2, <4>4 DEF CreditOK, FinishedOK
      <3>2. CASE j # it
        <4>1. SameItem(j) /\ CreditOK(j) /\ FinishedOK(j)
          BY <1>5, <2>1, <3>2
        <4>2. \A u \in Thread :
                 /\ item'[u] = j <=> item[u] = j
                 /\ item[u] = j => pc'[u] = pc[u] /\ got'[u] = got[u]
          BY <1>1, <1>3, <2>3, <3>2, NoItem \notin Items DEF NoItem
        <4>3. Owners(j)' = Owners(j)
          BY <2>2, <4>2 DEF Owners, Cur
        <4>4. \A u \in Owners(j) : pc'[u] = pc[u] /\ got'[u] = got[u]
          BY <4>2 DEF Owners
        <4>5. CreditOK(j)'
          BY <4>1, <4>3, <4>4 DEF CreditOK, SameItem
        <4> QED BY <4>1, <4>5 DEF FinishedOK, SameItem
      <3> QED BY <3>1, <3>2
    <2> QED BY <2>7, <2>8, <2>9 DEF CurrentInv, Cur
  <1>11. CASE interfered'
    BY <1>9, <1>11 DEF CurrentInv
  <1>12. CASE ~interfered'
    <2>1. ~interfered /\ Cur(t)
      BY <1>12 DEF TryGetTask, Interferes, Straggler, Cur
    <2> QED BY <1>9, <1>10, <2>1
  <1> QED BY <1>11, <1>12

(* A step that ends a thread which is between two items, or one of an        *)
(* earlier start: nothing that this start relies on changes.                 *)
LEMMA LeaveStep ==
  ASSUME TypeInv, TypeInv', ThreadsInv, CurrentInv, NEW t \in Thread,
         pc' = [pc EXCEPT ![t] = "dead"], item' = [item EXCEPT ![t] = NoItem],
         \A u \in Thread \ {t} : Same(u),
         UNCHANGED <<fileVars, itemVars, starts, cut, unchecked, interfered>>,
         Cur(t) => item[t] = NoItem /\ queue = <<>>
  PROVE  CurrentInv'
  <1>1. pc'[t] = "dead" /\ item'[t] = NoItem
    BY DEF TypeInv, TypeOK
  <1>2. \A u \in Thread \ {t} : pc'[u] = pc[u] /\ item'[u] = item[u] /\ got'[u] = got[u]
    BY DEF Same
  <1>3. /\ path' = path /\ temp' = temp /\ queue' = queue /\ status' = status /\ credit' = credit
        /\ starts' = starts /\ cut' = cut /\ unchecked' = unchecked
    BY DEF fileVars, itemVars
  <1> SUFFICES ASSUME ~interfered PROVE CurrentInv'
    BY DEF CurrentInv
  <1>4. /\ QueueOK
        /\ \A u \in Thread : Cur(u) => Holds(u) /\ FileOK(u)
        /\ \A j \in Hashed : CreditOK(j) /\ FinishedOK(j)
    BY DEF CurrentInv
  <1>5. \A u \in Thread : Cur(u) => item'[u] = item[u]
    BY <1>1, <1>2
  <1>6. QueueOK'
    <2>1. ASSUME NEW j \in Hashed, status[j] = "Started"
          PROVE  \E u \in Thread : u[1] = starts' /\ item'[u] = j
      BY <1>3, <1>4, <1>5, <2>1 DEF QueueOK, Cur
    <2>2. \A i, j \in 1 .. Len(queue') : queue'[i] = queue'[j] => i = j
      BY <1>3, <1>4 DEF QueueOK
    <2>3. \A j \in Items :
            status'[j] = "NotStart" <=> (starts' = 0 \/ \E i \in 1 .. Len(queue') : queue'[i] = j)
      BY <1>3, <1>4 DEF QueueOK
    <2>4. \A j \in unchecked' : status'[j] = "Error"
      BY <1>3, <1>4 DEF QueueOK
    <2>5. \A j \in Hashed : status'[j] = "Started" => \E u \in Thread : Cur(u)' /\ item'[u] = j
      BY <1>3, <2>1 DEF Cur
    <2> QED BY ONLY <2>2, <2>3, <2>4, <2>5 DEF QueueOK, Cur
  <1>7. ASSUME NEW u \in Thread, u[1] = starts' PROVE Holds(u)' /\ FileOK(u)'
    <2>1. Cur(u)
      BY <1>3, <1>7 DEF Cur
    <2>2. FileOK(u)'
      <3>1. CASE u = t
        BY <1>1, <3>1, NoItem \notin Items DEF FileOK, NoItem
      <3>2. CASE u # t
        <4>1. /\ FileOK(u) /\ temp' = temp /\ cut' = cut
              /\ pc'[u] = pc[u] /\ item'[u] = item[u] /\ from'[u] = from[u]
              /\ got'[u] = got[u] /\ second'[u] = second[u] /\ body'[u] = body[u]
          BY <1>3, <1>4, <2>1, <3>2 DEF Same
        <4> QED BY ONLY <4>1
                DEF FileOK, RequestOK, StreamOK, VerifyOK, PublishOK, ShortOK, Aligned, Appending
      <3> QED BY <3>1, <3>2
    <2>3. \A v \in Thread : v # u /\ v[1] = starts' /\ item'[v] = item'[u] => item'[u] = NoItem
      BY <1>3, <1>4, <1>5, <2>1 DEF Holds, Cur
    <2>4. pc'[u] # "none" /\ (pc'[u] = "dead" => queue' = <<>>)
      BY <1>1, <1>2, <1>3, <1>4, <2>1 DEF Holds
    <2>5. item'[u] # NoItem => status'[item'[u]] = "Started"
      BY <1>3, <1>4, <1>5, <2>1 DEF Holds
    <2> QED BY <2>2, <2>3, <2>4, <2>5 DEF Holds, Cur
  <1>8. ASSUME NEW j \in Hashed PROVE CreditOK(j)' /\ FinishedOK(j)'
    <2>1. Owners(j)' = Owners(j)
      BY <1>3, <1>5 DEF Owners, Cur
    <2>2. \A u \in Owners(j) : pc'[u] = pc[u] /\ got'[u] = got[u]
      BY <1>2, NoItem \notin Items DEF Owners, NoItem
    <2>3. CreditOK(j)'
      BY <1>3, <1>4, <2>1, <2>2 DEF CreditOK
    <2> QED BY <1>3, <1>4, <2>3 DEF FinishedOK
  <1> QED BY <1>6, <1>7, <1>8 DEF CurrentInv, Cur

(* A thread leaves only when the queue is empty.                             *)
LEMMA ExitStep ==
  ASSUME TypeInv, TypeInv', ThreadsInv, CurrentInv, NEW t \in Thread, Exit(t)
  PROVE  ThreadsInv' /\ CurrentInv'
  <1>1. item[t] = NoItem /\ queue = <<>>
    BY ItemIs DEF Exit, IdlePC
  <1>2. item' = [item EXCEPT ![t] = NoItem]
    BY <1>1 DEF Exit, TypeInv, TypeOK
  <1>3. \A u \in Thread \ {t} : Same(u)
    BY DEF Exit, Same, TypeInv, TypeOK
  <1>4. CurrentInv'
    BY <1>1, <1>2, <1>3, LeaveStep DEF Exit
  <1>5. /\ pc'[t] = "dead" /\ item'[t] = NoItem /\ starts' = starts /\ doomed' \subseteq doomed
        /\ path' = path /\ temp' = temp
    BY <1>1 DEF Exit, fileVars, TypeInv, TypeOK
  <1>6. ThreadsInv'
    BY <1>3, <1>5 DEF Exit, Same, ThreadsInv, ThreadOK, FileOf, IdlePC, OpenPC
  <1> QED BY <1>4, <1>6

(* An aborted thread runs its catch block; it is of an earlier start.        *)
LEMMA DieStep ==
  ASSUME TypeInv, TypeInv', ThreadsInv, CurrentInv, NEW t \in Thread, Die(t)
  PROVE  ThreadsInv' /\ CurrentInv'
  <1>1. ~Cur(t) /\ pc[t] # "none"
    BY DEF Die, Live, Cur, ThreadsInv, ThreadOK
  <1>2. /\ pc' = [pc EXCEPT ![t] = "dead"] /\ item' = [item EXCEPT ![t] = NoItem]
        /\ starts' = starts /\ doomed' \subseteq doomed /\ path' = path /\ temp' = temp
        /\ queue' = queue /\ cut' = cut
    BY DEF Die, Drop, fileVars
  <1>3. \A u \in Thread \ {t} : Same(u)
    BY DEF Die, Drop, Same, TypeInv, TypeOK
  <1>4. pc'[t] = "dead" /\ item'[t] = NoItem
    BY <1>2 DEF TypeInv, TypeOK
  <1>5. ThreadsInv'
    <2> SUFFICES ASSUME NEW u \in Thread PROVE ThreadOK(u)'
      BY DEF ThreadsInv
    <2>1. ThreadOK(u) /\ \A v \in Thread \ {t} : pc'[v] = pc[v] /\ item'[v] = item[v]
      BY <1>3 DEF ThreadsInv, Same
    <2>2. CASE u = t
      BY <1>1, <1>2, <1>4, <2>1, <2>2 DEF ThreadOK, IdlePC, OpenPC
    <2>3. CASE u # t
      <3>1. pc'[u] \in OpenPC => (FileOf(item[u]) # Absent)'
        BY <1>2, <2>1, <2>3 DEF ThreadOK, FileOf
      <3>2. \A v \in Thread \ {u} : pc'[u] \in OpenPC /\ pc'[v] \in OpenPC => item'[u] # item'[v]
        BY <1>4, <2>1, <2>3 DEF ThreadOK, OpenPC
      <3> QED BY <1>2, <2>1, <2>3, <3>1, <3>2 DEF ThreadOK
    <2> QED BY <2>2, <2>3
  <1>6. CASE pc[t] \in {"loop", "check"}
    <2>1. UNCHANGED <<fileVars, itemVars, starts, cut, unchecked, interfered>>
      BY <1>2, <1>6 DEF Die, fileVars, itemVars
    <2> QED BY <1>1, <1>2, <1>3, <1>5, <2>1, LeaveStep
  <1>7. CASE pc[t] \notin {"loop", "check"}
    <2>1. interfered'
      BY <1>1, <1>7 DEF Die, Interferes, Straggler, Cur
    <2> QED BY <1>5, <2>1 DEF CurrentInv
  <1> QED BY <1>6, <1>7

(* The queue of a new start has every item once.                             *)
LEMMA OrderIs ==
  /\ \A i, j \in 1 .. Len(Order) : Order[i] = Order[j] => i = j
  /\ \A it \in Items : \E i \in 1 .. Len(Order) : Order[i] = it
  <1>1. DOMAIN Order = 1 .. Len(Order)
    OBVIOUS
  <1> QED BY <1>1

(* A start: nothing is done yet, and old threads are doomed.                 *)
LEMMA StartStep ==
  ASSUME TypeInv, TypeInv', ThreadsInv, CurrentInv, StartDownLoad
  PROVE  ThreadsInv' /\ CurrentInv'
  <1>1. starts \in Nat /\ starts' = starts + 1
    BY DEF StartDownLoad, TypeInv, TypeOK
  <1>2. \A u \in Thread : u[1] \in Nat
    BY DEF Thread
  <1>3. \A u \in Thread : u[1] = starts' => pc[u] = "none" /\ item[u] = NoItem
    BY <1>1, <1>2 DEF ThreadsInv, ThreadOK, IdlePC
  <1>4. /\ item' = item /\ path' = path /\ temp' = temp
        /\ \A u \in Thread : pc'[u] = IF u[1] = starts' THEN "loop" ELSE pc[u]
        /\ \A u \in doomed' : u \in doomed \/ u[1] = starts
    BY <1>1 DEF StartDownLoad, fileVars
  <1>5. ThreadsInv'
    <2> SUFFICES ASSUME NEW u \in Thread PROVE ThreadOK(u)'
      BY DEF ThreadsInv
    <2>1. ThreadOK(u) /\ \A v \in Thread : ThreadOK(v)
      BY DEF ThreadsInv
    <2>2. pc'[u] \in OpenPC => pc'[u] = pc[u]
      BY <1>4 DEF OpenPC
    <2>3. \A v \in Thread : pc'[v] \in OpenPC => pc[v] \in OpenPC
      BY <1>4 DEF OpenPC
    <2>4. u[1] > starts' => pc'[u] = "none"
      BY <1>1, <1>2, <1>4, <2>1 DEF ThreadOK
    <2>5. item'[u] = NoItem <=> pc'[u] \in IdlePC
      BY <1>3, <1>4, <2>1 DEF ThreadOK, IdlePC
    <2>6. pc'[u] \in {"verify", "delete", "move"} => item'[u] \in Hashed
      BY <1>4, <2>1 DEF ThreadOK
    <2>7. u \in doomed' => u[1] < starts'
      BY <1>1, <1>2, <1>4, <2>1 DEF ThreadOK
    <2>8. pc'[u] \in OpenPC => (FileOf(item[u]) # Absent)'
      BY <1>4, <2>1, <2>2 DEF ThreadOK, FileOf
    <2>9. \A v \in Thread \ {u} : pc'[u] \in OpenPC /\ pc'[v] \in OpenPC => item'[u] # item'[v]
      BY <1>4, <2>1, <2>3 DEF ThreadOK
    <2> QED BY <2>4, <2>5, <2>6, <2>7, <2>8, <2>9 DEF ThreadOK
  <1>6. CurrentInv'
    <2>1. \A u \in Thread : u[1] = starts' => item'[u] = NoItem /\ pc'[u] = "loop"
      BY <1>3, <1>4
    <2>2. /\ queue' = Order /\ starts' # 0 /\ unchecked' = {}
          /\ \A j \in Items : status'[j] = "NotStart" /\ credit'[j] = 0
      BY <1>1 DEF StartDownLoad
    <2>3. QueueOK'
      BY <2>2, OrderIs DEF QueueOK
    <2>4. \A u \in Thread : u[1] = starts' => Holds(u)' /\ FileOK(u)'
      BY <2>1, NoItem \notin Items DEF Holds, FileOK, NoItem, Cur
    <2>5. \A j \in Hashed : CreditOK(j)' /\ FinishedOK(j)'
      <3> SUFFICES ASSUME NEW j \in Hashed PROVE CreditOK(j)' /\ FinishedOK(j)'
        OBVIOUS
      <3>1. \A u \in Owners(j)' : FALSE
        BY <2>1, NoItem \notin Items DEF Owners, Cur, NoItem
      <3> QED BY <2>2, <3>1 DEF CreditOK, FinishedOK
    <2> QED BY <2>3, <2>4, <2>5 DEF CurrentInv, Cur
  <1> QED BY <1>5, <1>6

(* Where no start runs, all is as it should be.                              *)
LEMMA NothingRuns ==
  ASSUME TypeInv, starts = 0, queue = <<>>, doomed = {}, unchecked = {},
         \A t \in Thread : pc[t] = "none" /\ item[t] = NoItem,
         \A it \in Items : status[it] = "NotStart" /\ credit[it] = 0
  PROVE  ThreadsInv /\ CurrentInv
  <1>1. \A t \in Thread : t[1] # 0
    BY DEF Thread
  <1>2. ThreadsInv
    BY DEF ThreadsInv, ThreadOK, IdlePC, OpenPC
  <1>3. QueueOK
    BY DEF QueueOK
  <1>4. \A t \in Thread : ~Cur(t)
    BY <1>1 DEF Cur
  <1>5. \A j \in Hashed : CreditOK(j) /\ FinishedOK(j)
    BY <1>4 DEF CreditOK, FinishedOK, Owners
  <1> QED BY <1>2, <1>3, <1>4, <1>5 DEF CurrentInv

(* After a death only the files are left.                                    *)
LEMMA CrashStep ==
  ASSUME TypeInv', Crash
  PROVE  ThreadsInv' /\ CurrentInv'
  <1>1. /\ starts' = 0 /\ queue' = <<>> /\ doomed' = {} /\ unchecked' = {}
        /\ \A t \in Thread : pc'[t] = "none" /\ item'[t] = NoItem
        /\ \A it \in Items : status'[it] = "NotStart" /\ credit'[it] = 0
    BY DEF Crash
  <1>2. \A t \in Thread : t[1] # 0
    BY DEF Thread
  <1>3. ThreadsInv'
    BY <1>1 DEF ThreadsInv, ThreadOK, IdlePC, OpenPC
  <1>4. QueueOK'
    BY <1>1 DEF QueueOK
  <1>5. \A t \in Thread : ~Cur(t)'
    BY <1>1, <1>2 DEF Cur
  <1>6. \A j \in Hashed : CreditOK(j)' /\ FinishedOK(j)'
    BY <1>1, <1>5 DEF CreditOK, FinishedOK, Owners
  <1> QED BY <1>3, <1>4, <1>5, <1>6 DEF CurrentInv

(* Stuttering.                                                               *)
LEMMA StutterStep ==
  ASSUME ThreadsInv, CurrentInv, UNCHANGED vars
  PROVE  ThreadsInv' /\ CurrentInv'
  <1> USE DEF vars, fileVars, itemVars, threadVars
  <1>1. ThreadsInv'
    BY DEF ThreadsInv, ThreadOK, FileOf
  <1>2. CurrentInv'
    BY DEF CurrentInv, QueueOK, Cur, Holds, FileOK, RequestOK, StreamOK, VerifyOK, PublishOK, ShortOK,
           Aligned, Appending, CreditOK, Owners, FinishedOK
  <1> QED BY <1>1, <1>2

--------------------------------------------------------------------------------
(* The invariant holds at first, every step keeps it, so it always holds.    *)
LEMMA SafeInit == Init => SafeInv
  <1> SUFFICES ASSUME Init PROVE SafeInv
    OBVIOUS
  <1>1. TypeInv
    BY TypeInit
  <1>2. ThreadsInv /\ CurrentInv
    BY <1>1, NothingRuns DEF Init
  <1> QED BY <1>1, <1>2 DEF SafeInv

LEMMA SafeNext == SafeInv /\ [Next]_vars => SafeInv'
  <1> SUFFICES ASSUME SafeInv, [Next]_vars PROVE SafeInv'
    OBVIOUS
  <1>1. TypeInv /\ ThreadsInv /\ CurrentInv
    BY DEF SafeInv
  <1>2. TypeInv'
    BY <1>1, TypeNext
  <1>3. CASE StartDownLoad
    BY <1>1, <1>2, <1>3, StartStep DEF SafeInv
  <1>4. ASSUME NEW t \in Thread, ThreadNext(t) PROVE SafeInv'
    <2>1. CASE TryGetTask(t)
      BY <1>1, <1>2, <2>1, TryGetTaskStep DEF SafeInv
    <2>2. CASE Exit(t)
      BY <1>1, <1>2, <2>2, ExitStep DEF SafeInv
    <2>3. CASE AlreadyThere(t)
      BY <1>1, <1>2, <2>3, AlreadyThereStep DEF SafeInv
    <2>4. CASE Begin(t)
      BY <1>1, <1>2, <2>4, BeginStep DEF SafeInv
    <2>5. CASE OpenFails(t)
      BY <1>1, <1>2, <2>5, OpenFailsStep DEF SafeInv
    <2>6. CASE RequestOk(t)
      BY <1>1, <1>2, <2>6, RequestOkStep DEF SafeInv
    <2>7. CASE RequestRefused(t)
      BY <1>1, <1>2, <2>7, RequestRefusedStep DEF SafeInv
    <2>8. CASE WebFails(t)
      BY <1>1, <1>2, <2>8, WebFailsStep DEF SafeInv
    <2>9. CASE Read(t)
      BY <1>1, <1>2, <2>9, ReadStep DEF SafeInv
    <2>10. CASE ReadEnd(t)
      BY <1>1, <1>2, <2>10, ReadEndStep DEF SafeInv
    <2>11. CASE Verified(t)
      BY <1>1, <1>2, <2>11, VerifiedStep DEF SafeInv
    <2>12. CASE SecondChance(t)
      BY <1>1, <1>2, <2>12, SecondChanceStep DEF SafeInv
    <2>13. CASE Fatal(t)
      BY <1>1, <1>2, <2>13, FatalStep DEF SafeInv
    <2>14. CASE Delete(t)
      BY <1>1, <1>2, <2>14, DeleteStep DEF SafeInv
    <2>15. CASE Move(t)
      BY <1>1, <1>2, <2>15, MoveStep DEF SafeInv
    <2>16. CASE PublishFails(t)
      BY <1>1, <1>2, <2>16, PublishFailsStep DEF SafeInv
    <2>17. CASE Die(t)
      BY <1>1, <1>2, <2>17, DieStep DEF SafeInv
    <2>18. CASE VerifyFails(t)
      BY <1>1, <1>2, <2>18, VerifyFailsStep DEF SafeInv
    <2> QED BY <1>4, <2>1, <2>2, <2>3, <2>4, <2>5, <2>6, <2>7, <2>8, <2>9, <2>10, <2>11, <2>12,
               <2>13, <2>14, <2>15, <2>16, <2>17, <2>18 DEF ThreadNext
  <1>5. CASE Crash
    BY <1>2, <1>5, CrashStep DEF SafeInv
  <1>6. CASE UNCHANGED vars
    BY <1>1, <1>2, <1>6, StutterStep DEF SafeInv
  <1> QED BY <1>3, <1>4, <1>5, <1>6 DEF Next

LEMMA SafeAlways == Spec => []SafeInv
  BY SafeInit, SafeNext, PTL DEF Spec

--------------------------------------------------------------------------------
(* Every variable holds a value of its kind: no file grows beyond what one   *)
(* may hold, the counter never leaves the numbers, a thread has an item of   *)
(* the list or none.                                                         *)
THEOREM TypesHold == Spec => []TypeOK
  <1>1. SafeInv => TypeOK
    BY DEF SafeInv, TypeInv
  <1> QED BY <1>1, SafeAlways, PTL

(* An item with a hash that is reported Finished has exactly the server's    *)
(* file at its path, whatever the server does and whatever was on disk.      *)
THEOREM FinishedFilesAreVerified == Spec => []FinishedIsVerified
  <1>1. SafeInv => FinishedIsVerified
    BY DEF SafeInv, CurrentInv, FinishedOK, FinishedIsVerified
  <1> QED BY <1>1, SafeAlways, PTL

LEMMA SafeCredit == SafeInv => CreditExact
  <1> SUFFICES ASSUME SafeInv, ~interfered, NEW it \in Hashed \ cut, Server[it] = "range"
               PROVE  credit[it] = CountsFor(it)
    BY DEF CreditExact
  <1>1. \A t \in Thread : WorksOn(t, it) <=> t \in Owners(it)
    BY DEF WorksOn, Owners, Straggler, Cur
  <1>2. CreditOK(it)
    BY DEF SafeInv, CurrentInv
  <1>3. CASE \E t \in Thread : WorksOn(t, it) /\ pc[t] # "check"
    <2> DEFINE t == CHOOSE u \in Thread : WorksOn(u, it) /\ pc[u] # "check"
    <2>1. t \in Thread /\ WorksOn(t, it) /\ pc[t] # "check"
      BY <1>3
    <2>2. t \in Owners(it) /\ pc[t] # "check"
      BY <1>1, <2>1
    <2>3. CountsFor(it) = got[t]
      BY <1>3 DEF CountsFor
    <2> HIDE DEF t
    <2> QED BY <1>2, <2>2, <2>3 DEF CreditOK
  <1>4. CASE ~(\E t \in Thread : WorksOn(t, it) /\ pc[t] # "check")
    <2>1. \A t \in Owners(it) : pc[t] = "check"
      BY <1>1, <1>4 DEF Owners
    <2>2. CountsFor(it) = IF status[it] = "Finished" THEN Len(path[it])
                          ELSE IF it \in unchecked THEN Len(temp[it]) ELSE 0
      BY <1>4 DEF CountsFor
    <2> QED BY <1>2, <2>1, <2>2 DEF CreditOK
  <1> QED BY <1>3, <1>4

(* The byte counter is exact through every rollback, for servers that honour *)
(* ranges: an item that failed counts for nothing, unless its check threw;   *)
(* that one keeps the whole of its .temp file in the counter.                *)
THEOREM CounterIsExact == Spec => []CreditExact
  BY SafeCredit, SafeAlways, PTL

LEMMA SafeDone == SafeInv => DoneMeansSettled
  <1> SUFFICES ASSUME SafeInv, starts > 0, IsDone, ~interfered
               PROVE  queue = <<>> /\ \A it \in Hashed : status[it] \in {"Finished", "Error"}
    BY DEF DoneMeansSettled
  <1>1. /\ QueueOK
        /\ \A t \in Thread : Cur(t) => Holds(t)
        /\ \A t \in Thread : ThreadOK(t)
        /\ starts \in 1 .. MaxStarts
        /\ status \in [Items -> {"NotStart", "Started", "Finished", "Error"}]
    BY DEF SafeInv, CurrentInv, ThreadsInv, TypeInv, TypeOK
  <1>2. \A t \in Thread : Cur(t) => pc[t] = "dead" /\ item[t] = NoItem
    BY <1>1 DEF IsDone, Live, Cur, Holds, ThreadOK, IdlePC
  <1>3. PICK w \in Workers : TRUE
    OBVIOUS
  <1>4. <<starts, w>> \in Thread /\ Cur(<<starts, w>>)
    BY <1>1 DEF Thread, Cur
  <1>5. queue = <<>>
    BY <1>1, <1>2, <1>4 DEF Holds
  <1>6. ASSUME NEW it \in Hashed PROVE status[it] \in {"Finished", "Error"}
    <2>1. status[it] # "NotStart"
      BY <1>1, <1>5 DEF QueueOK
    <2>2. status[it] # "Started"
      BY <1>1, <1>2, NoItem \notin Items DEF QueueOK, NoItem
    <2> QED BY <1>1, <2>1, <2>2
  <1> QED BY <1>5, <1>6

(* When the host sees IsDone, the queue is empty and every item with a hash  *)
(* has its verdict.                                                          *)
THEOREM DoneIsSettled == Spec => []DoneMeansSettled
  BY SafeDone, SafeAlways, PTL

--------------------------------------------------------------------------------
(* The verified copy.                                                        *)

(* A verified copy is only moved, never written over.                        *)
LEMMA CopyKept ==
  ASSUME SafeInv, [Next]_vars, NEW it \in Sized \cap Hashed, HasCopy(it), ~interfered'
  PROVE  HasCopy(it)'
  <1>1. /\ TypeInv /\ ThreadsInv /\ CurrentInv
        /\ path \in [Items -> Files] /\ temp \in [Items -> Files]
    BY DEF SafeInv, TypeInv, TypeOK
  <1>2. CASE UNCHANGED fileVars
    BY <1>2 DEF fileVars, HasCopy
  <1>3. ASSUME NEW t \in Thread, Interferes(t), pc[t] \notin IdlePC, item[t] = it
        PROVE  FileOK(t)
    <2>1. ~interfered /\ Cur(t)
      BY <1>3 DEF Interferes, Straggler, Cur
    <2> QED BY <1>1, <2>1 DEF CurrentInv
  <1>4. ASSUME NEW t \in Thread, Begin(t) PROVE HasCopy(it)'
    <2>1. PICK j \in Items : j = item[t]
      BY <1>1, <1>4, ItemIs DEF Begin, IdlePC
    <2>2. PICK f : f = IF Keep(j) THEN temp[j] ELSE <<>>
      OBVIOUS
    <2>3. SetFile(j, f)
      BY <1>4, <2>1, <2>2 DEF Begin
    <2>4. /\ j \in Hashed => temp'[j] = f /\ path'[j] = path[j]
          /\ \A k \in Items \ {j} : path'[k] = path[k] /\ temp'[k] = temp[k]
      BY <1>1, <2>3, SetFileIs
    <2>5. CASE j = it
      <3>1. temp[it] = Want => Keep(it)
        BY WantIs, AbsentIs DEF Keep
      <3> QED BY <2>2, <2>4, <2>5, <3>1 DEF HasCopy
    <2>6. CASE j # it
      BY <2>4, <2>6 DEF HasCopy
    <2> QED BY <2>5, <2>6
  <1>5. ASSUME NEW t \in Thread, Read(t) PROVE HasCopy(it)'
    <2>1. PICK j \in Items : j = item[t]
      BY <1>1, <1>5, ItemIs DEF Read, IdlePC
    <2>2. SetFile(j, Put(FileOf(j), got[t] + 1, Head(body[t])))
      BY <1>5, <2>1 DEF Read
    <2>3. /\ FileOf(j)' = Put(FileOf(j), got[t] + 1, Head(body[t]))
          /\ j \in Hashed => path'[j] = path[j]
          /\ \A k \in Items \ {j} : path'[k] = path[k] /\ temp'[k] = temp[k]
      BY <1>1, <2>2, SetFileIs
    <2>4. CASE j # it
      BY <2>3, <2>4 DEF HasCopy
    <2>5. CASE j = it /\ path[it] = Want
      BY <2>3, <2>5 DEF HasCopy
    <2>6. CASE j = it /\ temp[it] = Want
      <3>1. StreamOK(t)
        <4>1. pc[t] = "stream" /\ Interferes(t) /\ item[t] = it
          BY <1>5, <2>1, <2>6 DEF Read
        <4>2. FileOK(t)
          BY <1>3, <4>1 DEF IdlePC
        <4> QED BY <4>1, <4>2 DEF FileOK
      <3>2. got[t] \in Nat /\ from[t] \in Nat /\ body[t] \in Seq(1 .. Size) /\ body[t] # <<>>
        BY <1>1, <1>5 DEF Read, TypeInv, TypeOK
      <3>3. Len(body[t]) \in Nat \ {0} /\ Head(body[t]) = body[t][1]
        BY <3>2
      <3>4. ASSUME Appending(t), Len(temp[it]) = got[t] PROVE FALSE
        <4>1. /\ 0 < from[t] /\ from[t] <= got[t] /\ from[t] < Size
              /\ got[t] # from[t] => temp[it][from[t] + 1] = 1
          BY <2>1, <2>6, <3>4 DEF Appending
        <4>2. got[t] = Size
          BY <2>6, <3>4, WantIs
        <4>3. Want[from[t] + 1] = from[t] + 1
          BY <3>2, <4>1, WantIs
        <4>4. from[t] = Size \/ temp[it][from[t] + 1] = from[t] + 1
          BY <2>6, <4>3
        <4> QED BY <3>2, <4>1, <4>2, <4>4
      <3>5. Aligned(t) /\ (~second[t] => Len(temp[it]) = got[t])
        BY <2>1, <2>6, <3>1, <3>4 DEF StreamOK
      <3>6. got[t] + 1 \in 1 .. Size /\ Head(body[t]) = got[t] + 1
        <4>1. /\ Len(body[t]) = Size - got[t]
              /\ \A k \in 1 .. Len(body[t]) : body[t][k] = got[t] + k
          BY <3>5 DEF Aligned
        <4>2. 1 \in 1 .. Len(body[t]) /\ Len(body[t]) >= 1
          BY ONLY <3>3
        <4>3. body[t][1] = got[t] + 1
          BY ONLY <4>1, <4>2
        <4>4. got[t] + 1 \in 1 .. Size
          <5>1. PICK g \in Nat : g = got[t]
            BY ONLY <3>2
          <5>2. PICK n \in Nat \ {0} : n = Len(body[t])
            BY ONLY <3>3
          <5>3. n = Size - g /\ Size \in Nat
            BY <4>1, <5>1, <5>2, ItemsAssumption
          <5>4. g + 1 \in 1 .. Size
            BY ONLY <5>3, g \in Nat, n \in Nat \ {0}
          <5> QED BY ONLY <5>1, <5>4
        <4> QED BY ONLY <3>3, <4>3, <4>4
      <3>7. Want[got[t] + 1] = got[t] + 1
        BY <3>6, WantIs
      <3>8. PICK p \in 1 .. Size : p = got[t] + 1 /\ Want[p] = p
        BY <3>6, <3>7
      <3>9. Put(Want, p, p) = Want
        <4>1. [Want EXCEPT ![p] = p] = Want
          BY <3>8, WantIs
        <4> QED BY <4>1, WantIs DEF Put
      <3>10. temp'[it] = Want
        BY <2>3, <2>6, <3>6, <3>8, <3>9 DEF FileOf
      <3> QED BY <3>10 DEF HasCopy
    <2> QED BY <2>4, <2>5, <2>6 DEF HasCopy
  <1>6. ASSUME NEW t \in Thread, Delete(t) PROVE HasCopy(it)'
    <2>1. CASE item[t] = it
      <3>1. PublishOK(t)
        BY <1>3, <1>6, <2>1 DEF Delete, IdlePC, FileOK
      <3> QED BY <1>6, <2>1, <3>1 DEF Delete, PublishOK, HasCopy
    <2>2. CASE item[t] # it
      BY <1>1, <1>6, <2>2 DEF Delete, HasCopy
    <2> QED BY <2>1, <2>2
  <1>7. ASSUME NEW t \in Thread, Move(t) PROVE HasCopy(it)'
    <2>1. CASE item[t] = it
      <3>1. PublishOK(t)
        BY <1>3, <1>7, <2>1 DEF Move, IdlePC, FileOK
      <3> QED BY <1>1, <1>7, <2>1, <3>1 DEF Move, PublishOK, HasCopy
    <2>2. CASE item[t] # it
      BY <1>1, <1>7, <2>2 DEF Move, HasCopy
    <2> QED BY <2>1, <2>2
  <1>8. CASE StartDownLoad \/ Crash \/ UNCHANGED vars
    BY <1>2, <1>8 DEF StartDownLoad, Crash, vars
  <1>9. ASSUME NEW t \in Thread, ThreadNext(t), ~Begin(t), ~Read(t), ~Delete(t), ~Move(t)
        PROVE  UNCHANGED fileVars
    BY <1>9 DEF ThreadNext, TryGetTask, Exit, AlreadyThere, OpenFails, RequestOk, RequestRefused,
                WebFails, ReadEnd, Verified, SecondChance, Fatal, VerifyFails, PublishFails, Die
  <1> QED BY <1>2, <1>4, <1>5, <1>6, <1>7, <1>8, <1>9 DEF Next

(* Once a verified copy of a sized item is on disk there is one for ever:    *)
(* neither a resume, nor a second chance, nor a death between Delete and     *)
(* Move loses it.                                                            *)
THEOREM CopySurvives == Spec => VerifiedCopySurvives
  <1>1. SafeInv /\ [Next]_vars =>
          [\A it \in Sized \cap Hashed : HasCopy(it) /\ ~interfered' => HasCopy(it)']_vars
    BY CopyKept
  <1> QED BY <1>1, SafeAlways, PTL DEF Spec, VerifiedCopySurvives

================================================================================
