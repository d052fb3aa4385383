----------------------------- MODULE Crawler_proofs -----------------------------
(***************************************************************************)
(* What Crawler promises for every site, every limit and every number of   *)
(* threads, starts, cancels and exceptions: its variables keep their types *)
(* and no more threads live than the limit allows; and as long as no       *)
(* thread acts after its abort, no two threads work on one address, no     *)
(* queued address is left alone, and "finish: Success" is true.            *)
(***************************************************************************)
EXTENDS Crawler, FiniteSetTheorems, WellFoundedInduction, TLAPS

USE SiteAssumption

--------------------------------------------------------------------------------
(* The invariant.                                                            *)

TypeInv == TypeOK /\ IsFiniteSet(list)

(* Whoever lives and is not doomed is in the list, and nobody else matters.  *)
ListOK ==
  /\ list \cap doomed = {}
  /\ \A t \in Threads : Alive(t) /\ t \notin doomed => t \in list

HasPage == {"fetch", "links", "linked", "save", "written", "log", "add", "linkcatch"}
ThreadOK(t) ==
  /\ pc[t] \in HasPage => url[t] \in Urls
  /\ pc[t] = "linkcatch" => todo[t] # <<>>
  /\ pc[t] = "added" => url[t] = NoUrl

(* The UI's own steps: a crawl goes on while it is idle; before the first    *)
(* thread of the first start nothing has happened.                           *)
UiOK ==
  /\ crawl = "on" => ui = "idle" /\ ~stoped
  /\ ui \in {"clear", "seed", "spawn"} => job = "start"
  /\ starts = 0 => ui = "idle" \/ job = "cancel"
  /\ starts = 0 \/ (starts = 1 /\ ui # "idle" /\ job = "start") =>
       /\ \A t \in Threads : pc[t] = "none"
       /\ \A f \in Files : file[f] = "none"

(* Undisturbed, a start begins from nothing.                                 *)
FreshOK ==
  /\ crawl # "on" /\ ui # "abort" => list = {}
  /\ ui \in {"clear", "seed", "spawn"} => cnt = 0
  /\ ui \in {"seed", "spawn"} => said = 0
  /\ ui = "seed" => queue = <<>> /\ seen = {}
  /\ ui = "spawn" => queue = <<Root>> /\ seen = {Root}

(* Every address is in one place: found, then queued once or handled once.   *)
Queued(u) == \E i \in 1 .. Len(queue) : queue[i] = u
Works(t) == t \notin doomed /\ Handling(t)
PlacesOK ==
  /\ \A i, j \in 1 .. Len(queue) : queue[i] = queue[j] => i = j
  /\ \A u \in Urls : Queued(u) => u \in seen
  /\ \A t \in Threads, u \in Urls : Works(t) /\ url[t] = u => u \in seen /\ ~Queued(u)
  /\ \A t, s \in Threads : Works(t) /\ Works(s) /\ url[t] = url[s] => t = s

(* An address whose file is there, and a file whose writing failed.          *)
Done(u) == file[FileOf[u]] # "none"
Spoilt(f) == \E v \in failed : FileOf[v] = f

PageOK(t) ==
  t \notin doomed =>
    /\ pc[t] \in {"links", "linked", "linkcatch"} /\ ~web[t] => Done(url[t])
    /\ pc[t] \in {"log", "add"} => url[t] \in failed \/ Done(url[t])
    /\ pc[t] = "catch" => url[t] \in failed

CountedPC == ThreadPC \ {"none", "dead", "start", "last", "say", "bye"}
Counted == {t \in list : pc[t] \in CountedPC}
Said == said > 0 \/ \E t \in Threads \ doomed : pc[t] = "say"

(* Whoever keeps the queue company has been counted, or nobody has begun.    *)
WatchOK ==
  queue # <<>> =>
    \/ \E t \in list : ComesToLook(t) /\ pc[t] # "start"
    \/ \A t \in list : pc[t] = "start"

AccountOK ==
  \A u \in seen \ failed : Queued(u) \/ Done(u) \/ \E t \in list : Works(t) /\ url[t] = u

(* In the first start a file that is not whole is being written, or spoilt.  *)
WriterOK ==
  starts <= 1 => \A f \in Files :
    file[f] = "part" => Spoilt(f) \/ \E t \in list : pc[t] = "written" /\ FileOf[url[t]] = f

CrawlOK ==
  /\ cnt = Cardinality(Counted)
  /\ WatchOK
  /\ AccountOK
  /\ WriterOK
  /\ \A t \in Threads : PageOK(t)
  /\ Said => queue = <<>> /\ \A t \in Threads : ~Works(t)

QuietInv == ~interfered => FreshOK /\ PlacesOK /\ (crawl = "on" => CrawlOK)
ThreadsInv == \A t \in Threads : ThreadOK(t)

SafeInv == TypeInv /\ ListOK /\ ThreadsInv /\ UiOK /\ QuietInv

--------------------------------------------------------------------------------
(* The types, one thread's steps apart from what the limit is about.         *)

VarsOK ==
  /\ queue \in Seq(Urls)
  /\ seen \subseteq Urls
  /\ cnt \in Int
  /\ list \subseteq Threads
  /\ stoped \in BOOLEAN
  /\ file \in [Files -> {"none", "part", "full"}]
  /\ pc \in [Threads -> ThreadPC]
  /\ url \in [Threads -> Urls \cup {NoUrl}]
  /\ todo \in [Threads -> Seq(Urls)]
  /\ web \in [Threads -> BOOLEAN]
  /\ ui \in {"idle", "abort", "clear", "seed", "spawn"}
  /\ job \in {"start", "cancel"}
  /\ doomed \subseteq Threads
  /\ starts \in 0 .. MaxStarts /\ cancels \in 0 .. MaxCancels /\ faults \in 0 .. MaxFaults
  /\ crawl \in {"none", "on", "off"}
  /\ failed \subseteq Urls
  /\ said \in 0 .. 2
  /\ interfered \in BOOLEAN

LimitOK == IsFiniteSet(list) /\ Cardinality(Pruned) <= Limit

(* TypeInv without the limit, and the limit.                                 *)
LEMMA TypeIs ==
  /\ TypeInv <=> VarsOK /\ LimitOK
  /\ TypeInv' <=> VarsOK' /\ LimitOK'
  <1>1. TypeInv <=> VarsOK /\ LimitOK
    BY Zenon DEF TypeInv, TypeOK, VarsOK, LimitOK, Pruned
  <1>2. TypeInv' <=> VarsOK' /\ LimitOK'
    BY Zenon DEF TypeInv, TypeOK, VarsOK, LimitOK, Pruned
  <1> QED BY <1>1, <1>2

(* A set of numbers that is not empty has a least one.                       *)
LEMMA LeastIs ==
  ASSUME NEW S \in SUBSET Nat, S # {}
  PROVE  \E k \in S : \A j \in S : k <= j
  <1> DEFINE R == {ss \in Nat \X Nat : ss[1] < ss[2]}
  <1>1. IsWellFoundedOn(R, Nat)
    BY ONLY NatLessThanWellFounded DEF OpToRel
  <1>2. S \subseteq Nat /\ S # {}
    OBVIOUS
  <1> HIDE DEF R
  <1>3. PICK k \in S : \A j \in S : ~ (<<j, k>> \in R)
    BY ONLY <1>1, <1>2, WFMin, Zenon
  <1>4. \A j \in S : ~ (j < k)
    BY <1>2, <1>3 DEF R
  <1> QED BY <1>2, <1>4

(* NewThread is a number nobody uses.                                        *)
LEMMA NewThreadIs ==
  ASSUME Spare # {}
  PROVE  NewThread \in Spare
  <1>1. Spare \in SUBSET Nat
    BY DEF Spare
  <1>2. \E k \in Spare : \A j \in Spare : k <= j
    BY <1>1, LeastIs
  <1> QED BY <1>2 DEF NewThread

(* A spare number is one nobody uses.                                        *)
LEMMA Spared == \A t \in Spare : t \in Threads /\ pc[t] \in {"none", "dead"}
  BY DEF Spare, Alive

(* A list that only loses living threads stays within the limit.             *)
LEMMA LimitKept ==
  ASSUME LimitOK, list' \subseteq list, \A t \in list' : Alive(t)' => Alive(t)
  PROVE  LimitOK'
  <1>1. IsFiniteSet(list') /\ IsFiniteSet(Pruned) /\ Pruned \subseteq list
    BY FS_Subset DEF LimitOK, Pruned
  <1>2. Pruned' \subseteq Pruned
    BY DEF Pruned
  <1>3. IsFiniteSet(Pruned') /\ Cardinality(Pruned') <= Cardinality(Pruned)
    BY <1>1, <1>2, FS_Subset
  <1>4. Cardinality(Pruned) \in Nat /\ Cardinality(Pruned') \in Nat
    BY <1>1, <1>3, FS_CardinalityType
  <1> QED BY <1>1, <1>3, <1>4 DEF LimitOK

(* TryAddThead, whose caller has moved one thread within its life.           *)
LEMMA Grown ==
  ASSUME TypeInv, NEW after \in [Threads -> ThreadPC], TryAddThead(after),
         \A t \in Threads : after[t] \in {"none", "dead"} <=> ~Alive(t)
  PROVE  /\ LimitOK'
         /\ list' \subseteq Threads /\ doomed' \subseteq Threads
         /\ pc' \in [Threads -> ThreadPC]
         /\ \A t \in Threads : pc'[t] = IF Grows /\ t = NewThread THEN "start" ELSE after[t]
         /\ Grows => NewThread \in Threads /\ ~Alive(NewThread)
         /\ \A t \in list : Alive(t) => t \in list'
         /\ \A t \in list' : t \in list \/ (Grows /\ t = NewThread)
         /\ Grows => NewThread \in list'
         /\ doomed' = IF Grows THEN doomed \ {NewThread} ELSE doomed
  <1>1. VarsOK /\ LimitOK
    BY TypeIs
  <1>2. pc \in [Threads -> ThreadPC] /\ list \subseteq Threads /\ doomed \subseteq Threads
    BY <1>1 DEF VarsOK
  <1>3. IsFiniteSet(list) /\ IsFiniteSet(Pruned) /\ Pruned \subseteq list /\ Cardinality(Pruned) \in Nat
    BY <1>1, FS_Subset, FS_CardinalityType DEF LimitOK, Pruned
  <1>4. CASE Grows
    <2>1. NewThread \in Threads /\ ~Alive(NewThread) /\ ~stoped
      BY <1>4, NewThreadIs DEF Grows, Spare
    <2>2. Cardinality(Pruned) < Limit
      BY <1>4 DEF Grows, Pruned
    <2>3. /\ list' = Pruned \cup {NewThread}
          /\ pc' = [after EXCEPT ![NewThread] = "start"]
          /\ doomed' = doomed \ {NewThread}
      BY <1>4, <2>1 DEF TryAddThead
    <2>4. \A t \in Threads : pc'[t] = IF t = NewThread THEN "start" ELSE after[t]
      BY <2>1, <2>3
    <2>5. pc' \in [Threads -> ThreadPC]
      BY <2>1, <2>3 DEF ThreadPC
    <2>6. IsFiniteSet(list') /\ Cardinality(list') <= Limit
      <3>1. NewThread \notin Pruned
        BY <2>1 DEF Pruned
      <3>2. IsFiniteSet(list') /\ Cardinality(list') = Cardinality(Pruned) + 1
        BY <1>3, <2>3, <3>1, FS_AddElement
      <3> QED BY <1>3, <2>2, <3>2
    <2>7. Pruned' \subseteq list'
      BY DEF Pruned
    <2>8. LimitOK'
      <3>1. IsFiniteSet(Pruned') /\ Cardinality(Pruned') <= Cardinality(list')
        BY <2>6, <2>7, FS_Subset
      <3>2. Cardinality(Pruned') \in Nat /\ Cardinality(list') \in Nat
        BY <2>6, <3>1, FS_CardinalityType
      <3> QED BY <2>6, <3>1, <3>2 DEF LimitOK
    <2> QED BY <1>2, <1>3, <1>4, <2>1, <2>3, <2>4, <2>5, <2>8 DEF Pruned
  <1>5. CASE ~Grows
    <2>1. pc' = after /\ doomed' = doomed /\ list' = IF stoped THEN list ELSE Pruned
      BY <1>5 DEF TryAddThead
    <2>2. list' \subseteq list
      BY <1>3, <2>1
    <2>3. \A t \in list' : Alive(t)' => Alive(t)
      BY <1>2, <2>1, <2>2 DEF Alive
    <2>4. LimitOK'
      BY <1>1, <2>2, <2>3, LimitKept
    <2> QED BY <1>2, <1>5, <2>1, <2>2, <2>4 DEF Pruned
  <1> QED BY <1>4, <1>5

(* AddUrl puts an address into the queue and the found ones, once.           *)
LEMMA AddUrlIs ==
  ASSUME TypeInv, NEW u \in Urls, AddUrl(u)
  PROVE  queue' \in Seq(Urls) /\ seen' \subseteq Urls
  <1>1. queue \in Seq(Urls) /\ seen \subseteq Urls
    BY DEF TypeInv, TypeOK
  <1>2. Append(queue, u) \in Seq(Urls)
    BY <1>1
  <1> QED BY <1>1, <1>2 DEF AddUrl

(* Types.                                                                    *)
LEMMA TypeInit == Init => TypeInv
  <1> SUFFICES ASSUME Init PROVE TypeInv
    OBVIOUS
  <1>1. <<>> \in Seq(Urls)
    OBVIOUS
  <1>2. queue \in Seq(Urls) /\ todo \in [Threads -> Seq(Urls)]
    BY <1>1 DEF Init
  <1>3. LimitOK
    <2>1. Pruned = {} /\ list = {}
      BY DEF Init, Pruned
    <2>2. IsFiniteSet(list) /\ Cardinality(Pruned) = 0
      BY <2>1, FS_EmptySet
    <2> QED BY <2>2 DEF LimitOK
  <1>4. VarsOK
    <2>1. starts \in 0 .. MaxStarts /\ cancels \in 0 .. MaxCancels /\ faults \in 0 .. MaxFaults
      BY DEF Init
    <2>2. /\ file \in [Files -> {"none", "part", "full"}]
          /\ pc \in [Threads -> ThreadPC]
          /\ url \in [Threads -> Urls \cup {NoUrl}]
          /\ web \in [Threads -> BOOLEAN]
      BY DEF Init, ThreadPC
    <2>3. seen \subseteq Urls /\ list \subseteq Threads /\ doomed \subseteq Threads /\ failed \subseteq Urls
      BY DEF Init
    <2>4. /\ ui \in {"idle", "abort", "clear", "seed", "spawn"} /\ job \in {"start", "cancel"}
          /\ crawl \in {"none", "on", "off"}
      BY DEF Init
    <2>5. cnt = 0 /\ said = 0 /\ stoped = TRUE /\ interfered = FALSE
      BY DEF Init
    <2>6. cnt \in Int /\ said \in 0 .. 2
      BY ONLY <2>5
    <2>7. stoped \in BOOLEAN /\ interfered \in BOOLEAN
      BY ONLY <2>5
    <2> QED BY ONLY <1>2, <2>1, <2>2, <2>3, <2>4, <2>6, <2>7 DEF VarsOK
  <1> QED BY <1>3, <1>4, TypeIs

(* Every step keeps the types.                                               *)
LEMMA VarsNext ==
  ASSUME TypeInv, ThreadsInv, [Next]_vars
  PROVE  VarsOK'
  <1>0. VarsOK /\ \A t \in Threads : ThreadOK(t)
    BY TypeIs DEF ThreadsInv
  <1> USE DEF Interferes, Goto, shared, threadVars, uiVars
  <1>1. CASE StartClick
    BY <1>0, <1>1 DEF StartClick, VarsOK
  <1>27. CASE CancelClick
    BY <1>0, <1>27 DEF CancelClick, VarsOK
  <1>2. ASSUME NEW t \in Threads, AbortThread(t) PROVE VarsOK'
    BY <1>0, <1>2 DEF AbortThread, VarsOK
  <1>3. CASE AbortDone
    BY <1>0, <1>3 DEF AbortDone, VarsOK
  <1>4. CASE Clear
    BY <1>0, <1>4 DEF Clear, VarsOK
  <1>5. CASE Refuse
    BY <1>0, <1>5 DEF Refuse, VarsOK
  <1>6. CASE Seed
    BY <1>0, <1>6, AddUrlIs DEF Seed, VarsOK
  <1>7. CASE Unstop
    BY <1>0, <1>7 DEF Unstop, VarsOK
  <1>8. CASE FirstThread
    <2>1. pc \in [Threads -> ThreadPC] /\ \A t \in Threads : pc[t] \in {"none", "dead"} <=> ~Alive(t)
      BY <1>0 DEF VarsOK, Alive
    <2>2. list' \subseteq Threads /\ doomed' \subseteq Threads /\ pc' \in [Threads -> ThreadPC]
      BY <1>8, <2>1, Grown DEF FirstThread
    <2> QED BY <1>0, <1>8, <2>2 DEF FirstThread, VarsOK
  <1>9. ASSUME NEW t \in Threads, Enter(t) PROVE VarsOK'
    BY <1>0, <1>9 DEF Enter, VarsOK, ThreadPC
  <1>10. ASSUME NEW t \in Threads, GetUrl(t) PROVE VarsOK'
    <2>1. queue' \in Seq(Urls) /\ url' \in [Threads -> Urls \cup {NoUrl}]
      <3>1. queue \in Seq(Urls) /\ url \in [Threads -> Urls \cup {NoUrl}]
        BY <1>0 DEF VarsOK
      <3>2. CASE ~stoped /\ queue # <<>>
        <4>1. Tail(queue) \in Seq(Urls) /\ Head(queue) \in Urls
          BY <3>1, <3>2
        <4>2. queue' = Tail(queue) /\ url' = [url EXCEPT ![t] = Head(queue)]
          BY <1>10, <3>2 DEF GetUrl
        <4> QED BY ONLY <3>1, <4>1, <4>2
      <3>3. CASE ~(~stoped /\ queue # <<>>)
        <4>1. queue' = queue /\ url' = [url EXCEPT ![t] = NoUrl]
          BY <1>10, <3>3 DEF GetUrl
        <4> QED BY ONLY <3>1, <4>1
      <3> QED BY <3>2, <3>3
    <2>2. pc' \in [Threads -> ThreadPC] /\ interfered' \in BOOLEAN
      BY <1>0, <1>10 DEF GetUrl, VarsOK, ThreadPC
    <2> QED BY <1>0, <1>10, <2>1, <2>2 DEF GetUrl, VarsOK
  <1>11. ASSUME NEW t \in Threads, NEW from, NEW to \in ThreadPC, Invoke(t, from, to) PROVE VarsOK'
    <2>1. <<>> \in Seq(Urls)
      OBVIOUS
    <2>2. /\ url' \in [Threads -> Urls \cup {NoUrl}]
          /\ todo' \in [Threads -> Seq(Urls)]
          /\ web' \in [Threads -> BOOLEAN]
      <3>1. /\ url \in [Threads -> Urls \cup {NoUrl}]
            /\ todo \in [Threads -> Seq(Urls)]
            /\ web \in [Threads -> BOOLEAN]
        BY <1>0 DEF VarsOK
      <3>2. \/ /\ url' = [url EXCEPT ![t] = NoUrl]
               /\ todo' = [todo EXCEPT ![t] = <<>>]
               /\ web' = [web EXCEPT ![t] = FALSE]
            \/ url' = url /\ todo' = todo /\ web' = web
        BY <1>11 DEF Invoke, Drop
      <3> QED BY ONLY <2>1, <3>1, <3>2
    <2>3. pc' \in [Threads -> ThreadPC]
      BY <1>0, <1>11 DEF Invoke, VarsOK
    <2>4. UNCHANGED <<shared, doomed, uiVars, faults, failed, said, interfered>>
      BY <1>11 DEF Invoke
    <2> QED BY ONLY <1>0, <2>2, <2>3, <2>4 DEF VarsOK
  <1>12. ASSUME NEW t \in Threads, Fetch(t) PROVE VarsOK'
    <2>1. url[t] \in Urls
      BY <1>0, <1>12 DEF Fetch, ThreadOK, HasPage
    <2>2. <<>> \in Seq(Urls) /\ Links[url[t]] \in Seq(Urls)
      BY <2>1
    <2>3. todo' \in [Threads -> Seq(Urls)]
      BY <1>0, <1>12, <2>2 DEF Fetch, VarsOK
    <2>4. web' \in [Threads -> BOOLEAN]
      BY <1>0, <1>12 DEF Fetch, VarsOK
    <2>5. pc' \in [Threads -> ThreadPC]
      BY <1>0, <1>12 DEF Fetch, VarsOK, ThreadPC
    <2> QED BY <1>0, <1>12, <2>3, <2>4, <2>5 DEF Fetch, VarsOK
  <1>28. ASSUME NEW t \in Threads, FetchCached(t) PROVE VarsOK'
    <2>1. PICK u \in Urls : \E n \in 0 .. Len(Links[u]) :
            todo' = [todo EXCEPT ![t] = IF Reads(t) THEN SubSeq(Links[u], 1, n) ELSE <<>>]
      BY <1>28 DEF FetchCached
    <2>2. PICK n \in 0 .. Len(Links[u]) :
            todo' = [todo EXCEPT ![t] = IF Reads(t) THEN SubSeq(Links[u], 1, n) ELSE <<>>]
      BY <2>1
    <2>6. <<>> \in Seq(Urls) /\ SubSeq(Links[u], 1, n) \in Seq(Urls)
      <3>1. Links[u] \in Seq(Urls)
        OBVIOUS
      <3> QED BY <3>1
    <2>3. todo' \in [Threads -> Seq(Urls)]
      BY <1>0, <2>2, <2>6 DEF VarsOK
    <2>4. web' \in [Threads -> BOOLEAN]
      BY <1>0, <1>28 DEF FetchCached, VarsOK
    <2>5. pc' \in [Threads -> ThreadPC]
      BY <1>0, <1>28 DEF FetchCached, VarsOK, ThreadPC
    <2> QED BY <1>0, <1>28, <2>3, <2>4, <2>5 DEF FetchCached, VarsOK
  <1>13. ASSUME NEW t \in Threads, WebError(t) \/ Throws(t) \/ SharingViolation(t) PROVE VarsOK'
    <2>1. url[t] \in Urls
      BY <1>0, <1>13 DEF WebError, Throws, SharingViolation, ThreadOK, HasPage
    <2>2. failed' \subseteq Urls
      BY <1>0, <1>13, <2>1 DEF WebError, Throws, SharingViolation, Fails, VarsOK
    <2>3. pc' \in [Threads -> ThreadPC]
      <3>1. \E p \in {"log", "catch", "linkcatch"} : pc' = [pc EXCEPT ![t] = p]
        BY <1>13 DEF WebError, Throws, SharingViolation
      <3>2. {"log", "catch", "linkcatch"} \subseteq ThreadPC /\ pc \in [Threads -> ThreadPC]
        BY <1>0 DEF VarsOK, ThreadPC
      <3> QED BY ONLY <3>1, <3>2
    <2>4. faults' \in 0 .. MaxFaults
      BY <1>0, <1>13 DEF WebError, Throws, SharingViolation, VarsOK
    <2>5. UNCHANGED <<shared, url, todo, web, doomed, uiVars, said, interfered>>
      BY <1>13 DEF WebError, Throws, SharingViolation
    <2> QED BY ONLY <1>0, <2>2, <2>3, <2>4, <2>5 DEF VarsOK
  <1>15. ASSUME NEW t \in Threads, Link(t) PROVE VarsOK'
    <2>1. todo[t] \in Seq(Urls) /\ todo[t] # <<>>
      BY <1>0, <1>15 DEF Link, VarsOK
    <2>2. Head(todo[t]) \in Urls /\ Tail(todo[t]) \in Seq(Urls)
      BY <2>1
    <2>3. queue' \in Seq(Urls) /\ seen' \subseteq Urls
      BY <1>15, <2>2, AddUrlIs DEF Link
    <2>4. pc' \in [Threads -> ThreadPC]
      BY <1>0, <1>15 DEF Link, VarsOK, ThreadPC
    <2>5. todo' \in [Threads -> Seq(Urls)]
      BY <1>0, <1>15, <2>2 DEF Link, VarsOK
    <2> QED BY <1>0, <1>15, <2>3, <2>4, <2>5 DEF Link, VarsOK
  <1>16. ASSUME NEW t \in Threads, LinkCatch(t) PROVE VarsOK'
    <2>1. todo[t] \in Seq(Urls) /\ todo[t] # <<>>
      BY <1>0, <1>16 DEF LinkCatch, ThreadOK, VarsOK
    <2>2. Tail(todo[t]) \in Seq(Urls)
      BY <2>1
    <2>3. todo' \in [Threads -> Seq(Urls)]
      BY <1>0, <1>16, <2>2 DEF LinkCatch, VarsOK
    <2>4. pc' \in [Threads -> ThreadPC]
      BY <1>0, <1>16 DEF LinkCatch, VarsOK, ThreadPC
    <2> QED BY <1>0, <1>16, <2>3, <2>4 DEF LinkCatch, VarsOK
  <1>17. ASSUME NEW t \in Threads, LinksDone(t) PROVE VarsOK'
    BY <1>0, <1>17 DEF LinksDone, VarsOK, ThreadPC
  <1>18. ASSUME NEW t \in Threads, Save(t) PROVE VarsOK'
    BY <1>0, <1>18 DEF Save, VarsOK, ThreadPC
  <1>19. ASSUME NEW t \in Threads, Saved(t) PROVE VarsOK'
    BY <1>0, <1>19 DEF Saved, VarsOK, ThreadPC
  <1>20. ASSUME NEW t \in Threads, AddThread(t) PROVE VarsOK'
    <2> DEFINE after == [pc EXCEPT ![t] = IF Grows THEN "added" ELSE "get"]
    <2>1. after \in [Threads -> ThreadPC] /\ \A s \in Threads : after[s] \in {"none", "dead"} <=> ~Alive(s)
      BY <1>0, <1>20 DEF AddThread, VarsOK, Alive, ThreadPC
    <2>2. list' \subseteq Threads /\ doomed' \subseteq Threads /\ pc' \in [Threads -> ThreadPC]
      BY <1>20, <2>1, Grown DEF AddThread
    <2>3. <<>> \in Seq(Urls)
      OBVIOUS
    <2>4. /\ url' \in [Threads -> Urls \cup {NoUrl}]
          /\ todo' \in [Threads -> Seq(Urls)]
          /\ web' \in [Threads -> BOOLEAN]
      BY <1>0, <1>20, <2>3 DEF AddThread, Drop, VarsOK
    <2> HIDE DEF after
    <2> QED BY <1>0, <1>20, <2>2, <2>4 DEF AddThread, VarsOK
  <1>21. ASSUME NEW t \in Threads, Leave(t) PROVE VarsOK'
    BY <1>0, <1>21 DEF Leave, VarsOK, ThreadPC
  <1>22. ASSUME NEW t \in Threads, Last(t) PROVE VarsOK'
    BY <1>0, <1>22 DEF Last, VarsOK, ThreadPC
  <1>23. ASSUME NEW t \in Threads, Say(t) PROVE VarsOK'
    BY <1>0, <1>23 DEF Say, VarsOK, ThreadPC
  <1>24. ASSUME NEW t \in Threads, Die(t) PROVE VarsOK'
    <2>1. <<>> \in Seq(Urls)
      OBVIOUS
    <2>2. /\ url' \in [Threads -> Urls \cup {NoUrl}]
          /\ todo' \in [Threads -> Seq(Urls)]
          /\ web' \in [Threads -> BOOLEAN]
      <3>1. CASE pc[t] \in InTry
        BY <1>0, <1>24, <3>1 DEF Die, VarsOK
      <3>2. CASE pc[t] \notin InTry
        <4>1. /\ url' = [url EXCEPT ![t] = NoUrl]
              /\ todo' = [todo EXCEPT ![t] = <<>>]
              /\ web' = [web EXCEPT ![t] = FALSE]
          BY <1>24, <3>2 DEF Die, Drop
        <4>2. /\ url \in [Threads -> Urls \cup {NoUrl}]
              /\ todo \in [Threads -> Seq(Urls)]
              /\ web \in [Threads -> BOOLEAN]
          BY <1>0 DEF VarsOK
        <4> QED BY ONLY <2>1, <4>1, <4>2
      <3> QED BY <3>1, <3>2
    <2>3. pc' \in [Threads -> ThreadPC]
      BY <1>0, <1>24 DEF Die, VarsOK, ThreadPC
    <2> QED BY <1>0, <1>24, <2>2, <2>3 DEF Die, VarsOK
  <1>25. ASSUME NEW t \in Threads,
                Refresh(t) \/ Linked(t) \/ LogDown(t) \/ Added(t) \/ Catch(t) \/ Bye(t)
         PROVE  VarsOK'
    BY <1>11, <1>25 DEF Refresh, Linked, LogDown, Added, Catch, Bye, ThreadPC
  <1>26. CASE UNCHANGED vars
    BY <1>0, <1>26 DEF vars, VarsOK
  <1> QED BY <1>1, <1>2, <1>3, <1>4, <1>5, <1>6, <1>7, <1>8, <1>9, <1>10, <1>12, <1>13, <1>15,
             <1>16, <1>17, <1>18, <1>19, <1>20, <1>21, <1>22, <1>23, <1>24, <1>25, <1>26,
             <1>27, <1>28
          DEF Next, UiSteps, ThreadNext

--------------------------------------------------------------------------------
(* Steps of one thread that leave the queue alone.                           *)

Same(s) == pc'[s] = pc[s] /\ url'[s] = url[s] /\ todo'[s] = todo[s] /\ web'[s] = web[s]

Still(t) ==
  /\ \A s \in Threads \ {t} : Same(s)
  /\ list' = list /\ stoped' = stoped /\ doomed' = doomed
  /\ ui' = ui /\ job' = job /\ starts' = starts /\ crawl' = crawl
  /\ failed \subseteq failed'

Calm(t) == Still(t) /\ queue' = queue /\ seen' = seen

(* Whoever handles a page works on it.                                       *)
LEMMA HandlingIs ==
  ASSUME NEW t \in Threads
  PROVE  /\ Handling(t) => Alive(t) /\ pc[t] \in CountedPC /\ url[t] # NoUrl
         /\ pc[t] \in HasPage => pc[t] \in CountedPC /\ pc[t] \in InTry \cup InCatch
         /\ VarsOK /\ ComesToLook(t) /\ pc[t] # "start" => pc[t] \in CountedPC
         /\ pc[t] \in CountedPC => Alive(t) /\ pc[t] # "start"
  <1>1. Handling(t) => Alive(t) /\ pc[t] \in CountedPC /\ url[t] # NoUrl
    BY DEF Handling, InTry, InCatch, CountedPC, ThreadPC, Alive
  <1>2. pc[t] \in HasPage => pc[t] \in CountedPC /\ pc[t] \in InTry \cup InCatch
    BY DEF HasPage, InTry, InCatch, CountedPC, ThreadPC
  <1>3. VarsOK /\ ComesToLook(t) /\ pc[t] # "start" => pc[t] \in CountedPC
    BY DEF VarsOK, ComesToLook, Alive, CountedPC
  <1>4. pc[t] \in CountedPC => Alive(t) /\ pc[t] # "start"
    BY DEF CountedPC, Alive
  <1> QED BY <1>1, <1>2, <1>3, <1>4

(* A thread with a page at hand handles it.                                  *)
LEMMA PageIs ==
  ASSUME NEW t \in Threads, ThreadOK(t), pc[t] \in HasPage
  PROVE  Handling(t) /\ url[t] \in Urls
  <1>1. url[t] \in Urls /\ url[t] # NoUrl
    BY DEF ThreadOK, NoUrl
  <1> QED BY <1>1, HandlingIs DEF Handling

(* A step that moves one living thread only keeps what the list is about.    *)
LEMMA StillStep ==
  ASSUME VarsOK, LimitOK, ListOK, UiOK, NEW t \in Threads, Alive(t), Still(t)
  PROVE  LimitOK' /\ ListOK' /\ UiOK'
  <1>1. \A s \in Threads : Alive(s)' => Alive(s)
    BY DEF Still, Same, Alive
  <1>2. ListOK'
    BY <1>1 DEF ListOK, Still
  <1>3. LimitOK'
    <2>1. list' \subseteq list /\ list \subseteq Threads
      BY DEF Still, VarsOK
    <2>2. \A s \in list' : Alive(s)' => Alive(s)
      BY <1>1, <2>1
    <2> QED BY <2>1, <2>2, LimitKept
  <1>4. UiOK'
    BY DEF UiOK, Still, Alive
  <1> QED BY <1>2, <1>3, <1>4

(* A step of a thread that was told to stop: what is promised is not about   *)
(* it any more.                                                              *)
LEMMA DoomedStep ==
  ASSUME VarsOK, ListOK, QuietInv, NEW t \in Threads, t \in doomed, Calm(t),
         file' = file, cnt' = cnt, said' = said, interfered' = interfered
  PROVE  QuietInv'
  <1> SUFFICES ASSUME ~interfered PROVE QuietInv'
    BY DEF QuietInv
  <1>1. FreshOK /\ PlacesOK /\ (crawl = "on" => CrawlOK)
    BY DEF QuietInv
  <1>2. \A s \in Threads \ {t} : Same(s)
    BY DEF Calm, Still
  <1>3. /\ queue' = queue /\ seen' = seen /\ list' = list /\ doomed' = doomed
        /\ ui' = ui /\ starts' = starts /\ crawl' = crawl /\ failed \subseteq failed'
    BY DEF Calm, Still
  <1>4. FreshOK'
    BY <1>1, <1>3 DEF FreshOK
  <1>5. \A s \in Threads : s \notin doomed => Same(s)
    BY <1>2
  <1>6. \A s \in list : s \in Threads /\ s \notin doomed /\ Same(s)
    BY <1>5 DEF ListOK, VarsOK
  <1>7. \A s \in Threads : (Works(s)' <=> Works(s)) /\ (Works(s) => url'[s] = url[s])
    BY <1>3, <1>5 DEF Works, Handling, Same
  <1>8. \A u : Queued(u)' <=> Queued(u)
    BY <1>3 DEF Queued
  <1>9. PlacesOK'
    BY <1>1, <1>3, <1>7, <1>8 DEF PlacesOK
  <1>10. ASSUME crawl = "on" PROVE CrawlOK'
    <2>1. CrawlOK
      BY <1>1, <1>10
    <2>2. \A s \in list : pc'[s] = pc[s] /\ (ComesToLook(s) => ComesToLook(s)')
      BY <1>6 DEF Same, ComesToLook, Alive
    <2>3. \A u : Done(u) => Done(u)'
      BY <1>3 DEF Done
    <2>4. Counted' = Counted
      BY <1>3, <2>2 DEF Counted
    <2>5. WatchOK'
      BY <1>3, <2>1, <2>2 DEF CrawlOK, WatchOK
    <2>6. AccountOK'
      BY <1>3, <1>6, <1>7, <1>8, <2>1, <2>3 DEF CrawlOK, AccountOK
    <2>7. WriterOK'
      <3>1. file' = file /\ list' = list /\ starts' = starts /\ failed \subseteq failed'
        BY <1>3
      <3>2. \A s \in list : pc'[s] = pc[s] /\ url'[s] = url[s]
        BY <1>6 DEF Same
      <3> QED BY ONLY <2>1, <3>1, <3>2 DEF CrawlOK, WriterOK, Spoilt
    <2>8. \A s \in Threads : PageOK(s)'
      BY <1>3, <1>5, <2>1, <2>3 DEF CrawlOK, PageOK, Same
    <2>9. Said' => Said
      BY <1>3, <1>5 DEF Said, Same
    <2>10. Said' => queue' = <<>> /\ \A s \in Threads : ~Works(s)'
      BY <1>3, <1>7, <2>1, <2>9 DEF CrawlOK
    <2> QED BY <2>1, <2>4, <2>5, <2>6, <2>7, <2>8, <2>10 DEF CrawlOK
  <1> QED BY <1>3, <1>4, <1>9, <1>10 DEF QuietInv

--------------------------------------------------------------------------------
(* A step of a living thread of the crawl that leaves the queue alone.       *)

DoneUrls == {u \in Urls : Done(u)}

(* It keeps its address or has settled it, ...                               *)
Keeps(t) ==
  /\ Handling(t)' => Handling(t) /\ url'[t] = url[t]
  /\ crawl = "on" /\ Handling(t) /\ ~Handling(t)' => url[t] \in failed' \cup DoneUrls'

(* ... counts itself as it enters and leaves the loop, ...                   *)
Counts(t) ==
  /\ pc[t] \in CountedPC => cnt' = IF pc'[t] \in CountedPC THEN cnt ELSE cnt - 1
  /\ pc[t] \notin CountedPC => cnt' = IF pc'[t] \in CountedPC THEN cnt + 1 ELSE cnt

(* ... goes on watching the queue, ...                                       *)
Watches(t) == queue # <<>> /\ ComesToLook(t) => ComesToLook(t)' /\ pc'[t] # "start"

(* ... writes to no file but that of its page, and fails if it gives up, ... *)
Writes(t) ==
  \/ file' = file /\ (pc[t] = "written" => url[t] \in failed')
  \/ file' = [file EXCEPT ![FileOf[url[t]]] = "full"]
  \/ /\ file' = [file EXCEPT ![FileOf[url[t]]] = "part"]
     /\ pc'[t] = "written" /\ url'[t] = url[t]

(* ... and reports the end after it saw the counter at zero.                 *)
Reports(t) ==
  /\ said' # said => pc[t] = "say"
  /\ pc'[t] = "say" => pc[t] = "last" /\ cnt = 0

(* The counter changes as the set of counted threads does.                   *)
LEMMA CountedStep ==
  ASSUME VarsOK, LimitOK, NEW t \in list, Still(t), Counts(t), cnt = Cardinality(Counted)
  PROVE  cnt' = Cardinality(Counted')
  <1>1. /\ IsFiniteSet(Counted)
        /\ cnt \in Nat
    BY FS_Subset, FS_CardinalityType DEF Counted, LimitOK
  <1>2. list' = list /\ t \in Threads /\ \A s \in list \ {t} : pc'[s] = pc[s]
    BY DEF VarsOK, Still, Same
  <1>3. CASE pc[t] \in CountedPC /\ pc'[t] \in CountedPC
    BY <1>2, <1>3 DEF Counts, Counted
  <1>4. CASE pc[t] \in CountedPC /\ pc'[t] \notin CountedPC
    <2>1. Counted' = Counted \ {t} /\ t \in Counted
      BY <1>2, <1>4 DEF Counted
    <2>2. Cardinality(Counted \ {t}) = Cardinality(Counted) - 1
      BY <1>1, <2>1, FS_RemoveElement
    <2> QED BY <1>4, <2>1, <2>2 DEF Counts
  <1>5. CASE pc[t] \notin CountedPC /\ pc'[t] \in CountedPC
    <2>1. Counted' = Counted \cup {t} /\ t \notin Counted
      BY <1>2, <1>5 DEF Counted
    <2>2. Cardinality(Counted \cup {t}) = Cardinality(Counted) + 1
      BY <1>1, <2>1, FS_AddElement
    <2> QED BY <1>5, <2>1, <2>2 DEF Counts
  <1>6. CASE pc[t] \notin CountedPC /\ pc'[t] \notin CountedPC
    <2>1. Counted' = Counted
      BY <1>2, <1>6 DEF Counted
    <2> QED BY <1>6, <2>1 DEF Counts
  <1> QED BY <1>3, <1>4, <1>5, <1>6

(* A counter at zero means an empty queue and nobody at work.                *)
LEMMA ZeroIsTheEnd ==
  ASSUME VarsOK, LimitOK, ListOK, cnt = 0, cnt = Cardinality(Counted), WatchOK,
         NEW t \in list, pc[t] = "last"
  PROVE  queue = <<>> /\ \A s \in Threads : ~Works(s)
  <1>1. Counted = {}
    <2>1. IsFiniteSet(Counted)
      BY FS_Subset DEF Counted, LimitOK
    <2> QED BY <2>1, FS_EmptySet
  <1>2. \A s \in Threads : ~Works(s)
    BY <1>1, HandlingIs DEF Works, ListOK, Counted
  <1>3. \A s \in list : ~(ComesToLook(s) /\ pc[s] # "start")
    BY <1>1, HandlingIs DEF Counted, VarsOK
  <1>4. queue = <<>>
    BY <1>3 DEF WatchOK
  <1> QED BY <1>2, <1>4

(* What a thread's step has to show for QuietInv.                            *)
LEMMA QuietStep ==
  ASSUME VarsOK, LimitOK, ListOK, ThreadsInv, UiOK, QuietInv, ~interfered, interfered' = interfered,
         NEW t \in Threads, t \notin doomed, Alive(t), Calm(t),
         Keeps(t),
         crawl = "on" => Counts(t) /\ Watches(t) /\ Writes(t) /\ Reports(t) /\ PageOK(t)'
  PROVE  QuietInv'
  <1>1. FreshOK /\ PlacesOK /\ (crawl = "on" => CrawlOK)
    BY DEF QuietInv
  <1>2. \A s \in Threads \ {t} : Same(s)
    BY DEF Calm, Still
  <1>3. /\ queue' = queue /\ seen' = seen /\ list' = list /\ doomed' = doomed
        /\ ui' = ui /\ starts' = starts /\ crawl' = crawl /\ failed \subseteq failed'
    BY DEF Calm, Still
  <1>4. t \in list /\ list \subseteq Threads
    BY DEF ListOK, VarsOK
  <1>5. FreshOK'
    <2>1. crawl = "on" \/ ui = "abort"
      BY <1>1, <1>4 DEF FreshOK
    <2>2. ui \notin {"clear", "seed", "spawn"}
      BY <2>1 DEF UiOK
    <2> QED BY <1>3, <2>1, <2>2 DEF FreshOK
  <1>6. \A s \in Threads : Works(s)' => Works(s) /\ url'[s] = url[s]
    BY <1>2, <1>3 DEF Works, Handling, Same, Keeps
  <1>7. \A u : Queued(u)' <=> Queued(u)
    BY <1>3 DEF Queued
  <1>8. PlacesOK'
    BY <1>1, <1>3, <1>6, <1>7 DEF PlacesOK
  <1>9. ASSUME crawl = "on" PROVE CrawlOK'
    <2>1. CrawlOK /\ Counts(t) /\ Watches(t) /\ Writes(t) /\ Reports(t) /\ PageOK(t)'
      BY <1>1, <1>9
    <2>2. cnt' = Cardinality(Counted')
      BY <1>4, <2>1, CountedStep DEF Calm, CrawlOK
    <2>3. WatchOK'
      <3> SUFFICES ASSUME queue # <<>>
                   PROVE  \E s \in list : ComesToLook(s)' /\ pc'[s] # "start"
        BY <1>3 DEF WatchOK
      <3>1. \A s \in list \ {t} : pc'[s] = pc[s] /\ (ComesToLook(s) => ComesToLook(s)')
        BY <1>2, <1>4 DEF Same, ComesToLook, Alive
      <3>2. CASE ComesToLook(t)
        BY <1>4, <2>1, <3>2 DEF Watches
      <3>3. CASE ~ComesToLook(t)
        <4>1. pc[t] # "start"
          BY <3>3 DEF ComesToLook, Alive
        <4>2. PICK s \in list : ComesToLook(s) /\ pc[s] # "start"
          BY <1>4, <2>1, <4>1 DEF CrawlOK, WatchOK
        <4> QED BY <3>1, <3>3, <4>2
      <3> QED BY <3>2, <3>3
    <2>4. \A s \in Threads : Works(s) /\ s # t => Works(s)' /\ url'[s] = url[s]
      BY <1>2, <1>3 DEF Works, Handling, Same
    <2>5. Works(t) <=> Handling(t)
      BY DEF Works
    <2>6. \A u \in Urls : Done(u) => Done(u)'
      <3> SUFFICES ASSUME NEW f \in Files, file[f] # "none" PROVE file'[f] # "none"
        BY DEF Done
      <3>1. file \in [Files -> {"none", "part", "full"}]
        BY DEF VarsOK
      <3>2. \/ file' = file
            \/ file' = [file EXCEPT ![FileOf[url[t]]] = "full"]
            \/ file' = [file EXCEPT ![FileOf[url[t]]] = "part"]
        BY <2>1 DEF Writes
      <3> QED BY <3>1, <3>2
    <2>7. AccountOK'
      <3> SUFFICES ASSUME NEW u \in seen, u \notin failed'
                   PROVE  Queued(u)' \/ Done(u)' \/ \E s \in list : Works(s)' /\ url'[s] = u
        BY <1>3 DEF AccountOK
      <3>1. u \in Urls /\ (Queued(u) \/ Done(u) \/ \E s \in list : Works(s) /\ url[s] = u)
        BY <1>3, <2>1 DEF CrawlOK, AccountOK, VarsOK
      <3>2. CASE Queued(u)
        BY <1>7, <3>2
      <3>3. CASE Done(u)
        BY <2>6, <3>1, <3>3
      <3>4. CASE Works(t) /\ url[t] = u
        <4>1. CASE Handling(t)'
          BY <1>3, <1>4, <3>4, <4>1 DEF Works, Keeps
        <4>2. CASE ~Handling(t)'
          BY <1>9, <2>5, <3>4, <4>2 DEF Keeps, DoneUrls
        <4> QED BY <4>1, <4>2
      <3>5. ASSUME NEW s \in list, Works(s), url[s] = u, s # t
            PROVE  \E r \in list : Works(r)' /\ url'[r] = u
        BY <1>4, <2>4, <3>5
      <3> QED BY <3>1, <3>2, <3>3, <3>4, <3>5
    <2>8. WriterOK'
      <3> SUFFICES ASSUME starts <= 1, NEW f \in Files, file'[f] = "part", ~Spoilt(f)'
                   PROVE  \E s \in list : pc'[s] = "written" /\ FileOf[url'[s]] = f
        BY <1>3 DEF WriterOK
      <3>1. \A s \in list \ {t} : pc[s] = "written" => pc'[s] = "written" /\ url'[s] = url[s]
        BY <1>2, <1>4 DEF Same
      <3>2. file[f] = "part" => \E s \in list : pc[s] = "written" /\ FileOf[url[s]] = f
        BY <1>3, <2>1 DEF CrawlOK, WriterOK, Spoilt
      <3>3. CASE file' = file /\ (pc[t] = "written" => url[t] \in failed')
        <4>1. PICK s \in list : pc[s] = "written" /\ FileOf[url[s]] = f
          BY <3>2, <3>3
        <4>2. s # t
          BY <3>3, <4>1 DEF Spoilt
        <4> QED BY <3>1, <4>1, <4>2
      <3>4. CASE file' = [file EXCEPT ![FileOf[url[t]]] = "full"]
        <4>1. f # FileOf[url[t]] /\ file[f] = "part"
          BY <3>4 DEF VarsOK
        <4> QED BY <3>1, <3>2, <4>1
      <3>5. CASE /\ file' = [file EXCEPT ![FileOf[url[t]]] = "part"]
                 /\ pc'[t] = "written" /\ url'[t] = url[t]
        <4>1. CASE f = FileOf[url[t]]
          BY <1>4, <3>5, <4>1
        <4>2. CASE f # FileOf[url[t]]
          <5>1. file[f] = "part"
            BY <3>5, <4>2 DEF VarsOK
          <5>2. PICK s \in list : pc[s] = "written" /\ FileOf[url[s]] = f
            BY <3>2, <5>1
          <5>3. s # t
            BY <4>2, <5>2
          <5> QED BY <3>1, <5>2, <5>3
        <4> QED BY <4>1, <4>2
      <3> QED BY <2>1, <3>3, <3>4, <3>5 DEF Writes
    <2>9. ASSUME NEW s \in Threads, s # t PROVE PageOK(s)'
      <3> SUFFICES ASSUME s \notin doomed PROVE PageOK(s)'
        BY <1>3 DEF PageOK
      <3>1. Same(s) /\ PageOK(s) /\ ThreadOK(s)
        BY <1>2, <2>1, <2>9 DEF CrawlOK, ThreadsInv
      <3>2. CASE pc[s] \notin {"links", "linked", "linkcatch", "log", "add"}
        BY <1>3, <3>1, <3>2 DEF PageOK, Same
      <3>3. CASE pc[s] \in {"links", "linked", "linkcatch", "log", "add"}
        <4>1. url[s] \in Urls
          BY <3>1, <3>3 DEF ThreadOK, HasPage
        <4>2. url'[s] = url[s] /\ pc'[s] = pc[s] /\ web'[s] = web[s]
          BY <3>1 DEF Same
        <4>3. Done(url[s]) => file'[FileOf[url[s]]] # "none"
          BY <2>6, <4>1 DEF Done
        <4> QED BY <1>3, <3>1, <4>2, <4>3 DEF PageOK, Done
      <3> QED BY <3>2, <3>3
    <2>10. \A s \in Threads : PageOK(s)'
      BY <2>1, <2>9
    <2>11. ASSUME Said' PROVE queue' = <<>> /\ \A s \in Threads : ~Works(s)'
      <3>1. CASE Said
        BY <1>3, <1>6, <2>1, <3>1 DEF CrawlOK
      <3>2. CASE ~Said
        <4>1. pc[t] # "say" /\ said' = said
          BY <2>1, <3>2 DEF Said, Reports
        <4>2. pc'[t] = "say"
          BY <1>2, <1>3, <2>11, <3>2, <4>1 DEF Said, Same
        <4>3. pc[t] = "last" /\ cnt = 0
          BY <2>1, <4>2 DEF Reports
        <4>4. queue = <<>> /\ \A s \in Threads : ~Works(s)
          BY <1>4, <2>1, <4>3, ZeroIsTheEnd DEF CrawlOK
        <4> QED BY <1>3, <1>6, <4>4
      <3> QED BY <3>1, <3>2
    <2> QED BY <2>2, <2>3, <2>7, <2>8, <2>10, <2>11 DEF CrawlOK
  <1> QED BY <1>3, <1>5, <1>8, <1>9 DEF QuietInv

(* What a thread may do without touching the queue or the list.              *)
Waits(t) ==
  Refresh(t) \/ Linked(t) \/ LogDown(t) \/ Added(t) \/ Catch(t) \/ Bye(t) \/ LinkCatch(t) \/ LinksDone(t)
    \/ FetchCached(t) \/ Fetch(t) \/ WebError(t) \/ Throws(t) \/ SharingViolation(t) \/ Last(t)
FindsNothing(t) == GetUrl(t) /\ (stoped \/ queue = <<>>)
KnowsLink(t) == Link(t) /\ Head(todo[t]) \in seen
Lone(t) ==
  \/ Waits(t) \/ FindsNothing(t) \/ KnowsLink(t)
  \/ Enter(t) \/ Save(t) \/ Saved(t) \/ Leave(t) \/ Say(t)

(* Steps of one thread that start no other leave queue and list alone, ...   *)
LEMMA LoneIsCalm ==
  ASSUME VarsOK, NEW t \in Threads, Lone(t) \/ Die(t)
  PROVE  Calm(t) /\ Alive(t)
  <1> USE DEF Calm, Still, Same, Alive, Goto, shared, threadVars, uiVars, VarsOK
  <1>1. ASSUME NEW from \in ThreadPC \ {"none", "dead"}, NEW to, Invoke(t, from, to)
        PROVE  Calm(t) /\ Alive(t)
    BY <1>1 DEF Invoke, Drop
  <1>2. ASSUME Refresh(t) \/ Linked(t) \/ LogDown(t) \/ Added(t) \/ Catch(t) \/ Bye(t)
        PROVE  Calm(t) /\ Alive(t)
    <2>1. {"refresh", "linked", "log", "added", "catch", "bye"} \subseteq ThreadPC \ {"none", "dead"}
      BY DEF ThreadPC
    <2> QED BY ONLY <1>1, <1>2, <2>1 DEF Refresh, Linked, LogDown, Added, Catch, Bye
  <1>3. ASSUME LinkCatch(t) \/ LinksDone(t) \/ Fetch(t) \/ Last(t)
        PROVE  Calm(t) /\ Alive(t)
    BY <1>3 DEF LinkCatch, LinksDone, Fetch, Last
  <1>3a. ASSUME FetchCached(t) PROVE Calm(t) /\ Alive(t)
    <2>1. \A s \in Threads \ {t} : todo'[s] = todo[s]
      BY <1>3a DEF FetchCached
    <2> QED BY <1>3a, <2>1 DEF FetchCached
  <1>4. ASSUME WebError(t) \/ Throws(t) \/ SharingViolation(t) PROVE Calm(t) /\ Alive(t)
    BY <1>4 DEF WebError, Throws, SharingViolation, Fails
  <1>5. CASE FindsNothing(t)
    BY <1>5 DEF FindsNothing, GetUrl
  <1>6. CASE KnowsLink(t)
    BY <1>6 DEF KnowsLink, Link, AddUrl
  <1>7. ASSUME Enter(t) \/ Leave(t) \/ Say(t) PROVE Calm(t) /\ Alive(t)
    BY <1>7 DEF Enter, Leave, Say
  <1>8. ASSUME Save(t) \/ Saved(t) PROVE Calm(t) /\ Alive(t)
    BY <1>8 DEF Save, Saved
  <1>9. CASE Die(t)
    BY <1>9 DEF Die, Drop
  <1> QED BY <1>2, <1>3, <1>3a, <1>4, <1>5, <1>6, <1>7, <1>8, <1>9 DEF Lone, Waits

(* ... change nothing that counts if the thread was aborted, ...             *)
LEMMA LoneIsDoomed ==
  ASSUME VarsOK, ListOK, QuietInv, NEW t \in Threads, t \in doomed, Lone(t) \/ Die(t)
  PROVE  QuietInv'
  <1>1. CASE Enter(t) \/ KnowsLink(t) \/ Save(t) \/ Saved(t) \/ Leave(t) \/ Say(t)
    BY <1>1 DEF Enter, KnowsLink, Link, Save, Saved, Leave, Say, Interferes, QuietInv
  <1>2. CASE Waits(t) \/ FindsNothing(t) \/ Die(t)
    <2>1. Calm(t)
      BY LoneIsCalm
    <2>2. file' = file /\ cnt' = cnt /\ said' = said /\ interfered' = interfered
      BY <1>2 DEF Waits, Refresh, Linked, LogDown, Added, Catch, Bye, Invoke, LinkCatch, LinksDone, Fetch,
                  FetchCached, WebError, Throws, SharingViolation, Last, FindsNothing, GetUrl, Die, shared
    <2> QED BY <2>1, <2>2, DoomedStep
  <1> QED BY <1>1, <1>2 DEF Lone

Good(t) == Keeps(t) /\ (crawl = "on" => Counts(t) /\ Watches(t) /\ Writes(t) /\ Reports(t) /\ PageOK(t)')

(* Where the page of a thread that waits for the UI goes.                    *)
LEMMA InvokeIsGood ==
  ASSUME VarsOK, NEW t \in Threads, t \notin doomed, ThreadOK(t), crawl = "on" => PageOK(t),
         Refresh(t) \/ Linked(t) \/ LogDown(t) \/ Added(t) \/ Catch(t) \/ Bye(t)
  PROVE  Good(t)
  <1> USE DEF Goto, shared, threadVars, uiVars, VarsOK, Good, Keeps, Counts, Watches, Writes, Reports,
              Handling, ComesToLook, Alive, InTry, InCatch, CountedPC, ThreadPC
  <1>1. CASE Refresh(t)
    BY <1>1 DEF Refresh, Invoke, PageOK
  <1>2. CASE Linked(t)
    BY <1>2 DEF Linked, Invoke, PageOK, Done
  <1>3. CASE LogDown(t)
    BY <1>3 DEF LogDown, Invoke, PageOK, Done
  <1>4. CASE Added(t)
    BY <1>4 DEF Added, Invoke, PageOK, Drop, ThreadOK
  <1>5. CASE Catch(t)
    BY <1>5 DEF Catch, Invoke, PageOK, Drop
  <1>6. CASE Bye(t)
    BY <1>6 DEF Bye, Invoke, PageOK, Drop
  <1> QED BY <1>1, <1>2, <1>3, <1>4, <1>5, <1>6

(* ... and otherwise do what QuietStep asks for.                             *)
LEMMA LoneIsGood ==
  ASSUME VarsOK, ListOK, QuietInv, ~interfered, UiOK, NEW t \in Threads, t \notin doomed,
         ThreadOK(t), Lone(t)
  PROVE  Good(t)
  <1>1. PlacesOK /\ (crawl = "on" => WriterOK /\ PageOK(t))
    BY DEF QuietInv, CrawlOK
  <1> USE DEF Goto, shared, threadVars, uiVars, VarsOK, Good, Keeps, Counts, Watches, Writes, Reports,
              Handling, ComesToLook, Alive, InTry, InCatch, CountedPC, ThreadPC
  <1>2. CASE Refresh(t) \/ Linked(t) \/ LogDown(t) \/ Added(t) \/ Catch(t) \/ Bye(t)
    BY ONLY <1>1, <1>2, InvokeIsGood, VarsOK, t \in Threads, t \notin doomed, ThreadOK(t)
  <1>3. CASE FetchCached(t) \/ Fetch(t)
    <2>1. pc[t] = "fetch" /\ url[t] \in Urls
      BY <1>3 DEF FetchCached, Fetch, ThreadOK, HasPage
    <2>2. /\ pc'[t] = "links" /\ url' = url /\ file' = file /\ cnt' = cnt /\ said' = said
          /\ web'[t] \/ file[FileOf[url[t]]] # "none"
      BY <1>3 DEF FetchCached, Fetch, Cached
    <2>3. PageOK(t)'
      BY ONLY <2>2 DEF PageOK, Done
    <2> QED BY <2>1, <2>2, <2>3
  <1>4. CASE WebError(t)
    BY <1>4 DEF WebError, Fails, PageOK
  <1>5. CASE Throws(t) \/ SharingViolation(t)
    <2>1. pc'[t] \in {"linkcatch", "catch"} /\ (pc'[t] = "linkcatch" => pc[t] = "links")
      BY <1>5 DEF Throws, SharingViolation
    <2>2. /\ pc[t] \in {"fetch", "links", "save", "written"} /\ url[t] \in failed' /\ url' = url
          /\ web' = web /\ file' = file /\ cnt' = cnt /\ said' = said
      BY <1>5 DEF Throws, SharingViolation, Fails
    <2>3. crawl = "on" => PageOK(t)'
      BY ONLY <1>1, <2>1, <2>2, t \notin doomed DEF PageOK, Done
    <2> QED BY <2>1, <2>2, <2>3
  <1>5a. CASE Last(t)
    BY <1>5a DEF Last, PageOK
  <1>6. CASE LinkCatch(t)
    BY <1>1, <1>6 DEF LinkCatch, PageOK, Done
  <1>7. CASE LinksDone(t)
    BY <1>1, <1>7 DEF LinksDone, PageOK, Done
  <1>8. CASE FindsNothing(t)
    BY <1>8 DEF FindsNothing, GetUrl, PageOK, UiOK
  <1>9. CASE KnowsLink(t)
    BY <1>1, <1>9 DEF KnowsLink, Link, PageOK, Done
  <1>10. CASE Enter(t)
    BY <1>10 DEF Enter, PageOK
  <1>11. CASE Save(t)
    BY <1>11 DEF Save, PageOK, ThreadOK, HasPage, NoUrl
  <1>12. CASE Saved(t)
    BY <1>12 DEF Saved, PageOK, Done, ThreadOK, HasPage, NoUrl
  <1>13. CASE Leave(t)
    BY <1>13 DEF Leave, PageOK
  <1>14. CASE Say(t)
    BY <1>14 DEF Say, PageOK
  <1> QED BY ONLY <1>2, <1>3, <1>4, <1>5, <1>5a, <1>6, <1>7, <1>8, <1>9, <1>10, <1>11, <1>12, <1>13, <1>14,
             Lone(t) DEF Lone, Waits

(* Together.                                                                 *)
LEMMA LoneStep ==
  ASSUME SafeInv, NEW t \in Threads, Lone(t) \/ Die(t)
  PROVE  LimitOK' /\ ListOK' /\ UiOK' /\ QuietInv'
  <1>1. VarsOK /\ LimitOK /\ ListOK /\ ThreadsInv /\ UiOK /\ QuietInv /\ ThreadOK(t)
    BY TypeIs DEF SafeInv, ThreadsInv
  <1>2. Calm(t) /\ Alive(t)
    BY <1>1, LoneIsCalm
  <1>3. LimitOK' /\ ListOK' /\ UiOK'
    BY <1>1, <1>2, StillStep DEF Calm
  <1>4. CASE t \in doomed
    BY <1>1, <1>3, <1>4, LoneIsDoomed
  <1>5. CASE t \notin doomed
    <2>1. Lone(t)
      BY <1>5 DEF Die
    <2>2. interfered' = interfered
      BY <1>1, <1>5, <2>1 DEF Lone, Waits, Refresh, Linked, LogDown, Added, Catch, Bye, Invoke, LinkCatch,
           LinksDone, FetchCached, Fetch, WebError, Throws, SharingViolation, Last, FindsNothing, GetUrl,
           KnowsLink, Link, Enter, Save, Saved, Leave, Say, Interferes, VarsOK
    <2>3. CASE interfered
      BY <2>2, <2>3, <1>3 DEF QuietInv
    <2>4. CASE ~interfered
      <3>1. Good(t)
        BY <1>1, <1>5, <2>1, <2>4, LoneIsGood
      <3>2. /\ Keeps(t)
            /\ crawl = "on" => Counts(t) /\ Watches(t) /\ Writes(t) /\ Reports(t) /\ PageOK(t)'
        BY <3>1 DEF Good
      <3> QED BY <1>1, <1>2, <1>3, <1>5, <2>2, <2>4, <3>2, QuietStep
    <2> QED BY <2>3, <2>4
  <1> QED BY <1>4, <1>5

--------------------------------------------------------------------------------
(* Addresses leave the queue and enter it.                                   *)

LEMMA TailIs ==
  ASSUME NEW S, NEW q \in Seq(S), q # <<>>, \A i, j \in 1 .. Len(q) : q[i] = q[j] => i = j
  PROVE  /\ Tail(q) \in Seq(S) /\ Head(q) \in S /\ Len(q) \in Nat /\ Len(q) >= 1 /\ Head(q) = q[1]
         /\ \A i, j \in 1 .. Len(Tail(q)) : Tail(q)[i] = Tail(q)[j] => i = j
         /\ \A i \in 1 .. Len(Tail(q)) : \E j \in 1 .. Len(q) : Tail(q)[i] = q[j]
         /\ \A i \in 1 .. Len(Tail(q)) : Tail(q)[i] # Head(q)
         /\ \A i \in 1 .. Len(q) : q[i] = Head(q) \/ \E j \in 1 .. Len(Tail(q)) : Tail(q)[j] = q[i]
  <1>1. /\ Tail(q) \in Seq(S) /\ Head(q) \in S /\ Len(q) \in Nat /\ Len(q) >= 1 /\ Head(q) = q[1]
        /\ Len(Tail(q)) = Len(q) - 1 /\ \A i \in 1 .. Len(q) - 1 : Tail(q)[i] = q[i + 1]
    OBVIOUS
  <1>2. \A i \in 1 .. Len(Tail(q)) : i + 1 \in 1 .. Len(q) /\ i + 1 # 1 /\ Tail(q)[i] = q[i + 1]
    BY <1>1
  <1>3. 1 \in 1 .. Len(q)
    BY <1>1
  <1>4. \A i, j \in 1 .. Len(Tail(q)) : Tail(q)[i] = Tail(q)[j] => i = j
    <2> SUFFICES ASSUME NEW i \in 1 .. Len(Tail(q)), NEW j \in 1 .. Len(Tail(q)), Tail(q)[i] = Tail(q)[j]
                 PROVE  i = j
      OBVIOUS
    <2>1. i + 1 = j + 1
      BY <1>2
    <2> QED BY <2>1
  <1>5. \A i \in 1 .. Len(q) : q[i] = Head(q) \/ \E j \in 1 .. Len(Tail(q)) : Tail(q)[j] = q[i]
    <2> SUFFICES ASSUME NEW i \in 1 .. Len(q), i # 1
                 PROVE  \E j \in 1 .. Len(Tail(q)) : Tail(q)[j] = q[i]
      BY <1>1
    <2>1. i - 1 \in 1 .. Len(Tail(q)) /\ (i - 1) + 1 = i
      BY <1>1
    <2> QED BY <1>2, <2>1
  <1> QED BY <1>1, <1>2, <1>3, <1>4, <1>5

LEMMA AppendIs ==
  ASSUME NEW S, NEW q \in Seq(S), NEW u \in S, \A i \in 1 .. Len(q) : q[i] # u,
         \A i, j \in 1 .. Len(q) : q[i] = q[j] => i = j
  PROVE  /\ Append(q, u) # <<>>
         /\ \A i, j \in 1 .. Len(Append(q, u)) : Append(q, u)[i] = Append(q, u)[j] => i = j
         /\ \A i \in 1 .. Len(Append(q, u)) :
              Append(q, u)[i] = u \/ \E j \in 1 .. Len(q) : q[j] = Append(q, u)[i]
         /\ \A i \in 1 .. Len(q) : \E j \in 1 .. Len(Append(q, u)) : Append(q, u)[j] = q[i]
         /\ \E j \in 1 .. Len(Append(q, u)) : Append(q, u)[j] = u
  <1> DEFINE r == Append(q, u)
  <1>1. /\ Len(q) \in Nat /\ Len(r) = Len(q) + 1 /\ r[Len(q) + 1] = u
        /\ \A i \in 1 .. Len(q) : r[i] = q[i]
    OBVIOUS
  <1>2. \A i \in 1 .. Len(r) : i \in 1 .. Len(q) \/ i = Len(q) + 1
    BY <1>1
  <1>3. Len(q) + 1 \in 1 .. Len(r) /\ \A i \in 1 .. Len(q) : i \in 1 .. Len(r)
    BY <1>1
  <1>4. r # <<>>
    <2>1. Len(r) # 0 /\ Len(<<>>) = 0
      BY <1>1
    <2> QED BY <2>1
  <1> HIDE DEF r
  <1>5. \A i, j \in 1 .. Len(r) : r[i] = r[j] => i = j
    BY <1>1, <1>2
  <1>6. \A i \in 1 .. Len(r) : r[i] = u \/ \E j \in 1 .. Len(q) : q[j] = r[i]
    BY <1>1, <1>2
  <1>7. \A i \in 1 .. Len(q) : \E j \in 1 .. Len(r) : r[j] = q[i]
    BY <1>1, <1>3
  <1>8. \E j \in 1 .. Len(r) : r[j] = u
    BY <1>1, <1>3
  <1> QED BY <1>4, <1>5, <1>6, <1>7, <1>8 DEF r

(* GetUrl with an address to take.                                           *)
Takes(t) == GetUrl(t) /\ ~stoped /\ queue # <<>>

LEMMA TakesIsStill ==
  ASSUME VarsOK, NEW t \in Threads, Takes(t)
  PROVE  Still(t) /\ Alive(t)
  BY DEF Takes, GetUrl, Still, Same, Alive, Goto, uiVars, VarsOK

LEMMA TakesIsQuiet ==
  ASSUME VarsOK, LimitOK, ListOK, UiOK, QuietInv, ~interfered, NEW t \in Threads, t \notin doomed, Takes(t)
  PROVE  QuietInv'
  <1>1. FreshOK /\ PlacesOK /\ (crawl = "on" => CrawlOK)
    BY DEF QuietInv
  <1>2. Still(t) /\ Alive(t)
    BY TakesIsStill
  <1>3. /\ \A s \in Threads \ {t} : Same(s)
        /\ list' = list /\ doomed' = doomed /\ ui' = ui /\ starts' = starts /\ crawl' = crawl
    BY <1>2 DEF Still
  <1>4. /\ pc[t] = "get" /\ pc'[t] = "refresh" /\ queue' = Tail(queue) /\ url'[t] = Head(queue)
        /\ seen' = seen /\ file' = file /\ cnt' = cnt /\ said' = said /\ failed' = failed
        /\ queue # <<>>
    BY DEF Takes, GetUrl, Goto, shared, VarsOK
  <1>5. t \in list /\ list \subseteq Threads
    BY <1>2 DEF ListOK, VarsOK
  <1>6. PICK h \in Urls : h = Head(queue)
    BY <1>4 DEF VarsOK
  <1>7. /\ \A i, j \in 1 .. Len(queue') : queue'[i] = queue'[j] => i = j
        /\ Queued(h) /\ ~Queued(h)'
        /\ \A u : Queued(u)' => Queued(u)
        /\ \A u : Queued(u) => u = h \/ Queued(u)'
    <2>1. queue \in Seq(Urls) /\ \A i, j \in 1 .. Len(queue) : queue[i] = queue[j] => i = j
      BY <1>1 DEF PlacesOK, VarsOK
    <2>2. PICK r : r = Tail(queue)
      OBVIOUS
    <2>3. queue # <<>>
      BY <1>4
    <2>4. /\ Len(queue) \in Nat /\ Len(queue) >= 1 /\ Head(queue) = queue[1]
          /\ \A i, j \in 1 .. Len(r) : r[i] = r[j] => i = j
          /\ \A i \in 1 .. Len(r) : \E j \in 1 .. Len(queue) : r[i] = queue[j]
          /\ \A i \in 1 .. Len(r) : r[i] # Head(queue)
          /\ \A i \in 1 .. Len(queue) : queue[i] = Head(queue) \/ \E j \in 1 .. Len(r) : r[j] = queue[i]
      BY ONLY <2>1, <2>2, <2>3, TailIs
    <2>5. queue' = r
      BY <1>4, <2>2
    <2>6. 1 \in 1 .. Len(queue)
      BY ONLY <2>4
    <2>7. \A u : Queued(u)' <=> \E i \in 1 .. Len(r) : r[i] = u
      BY ONLY <2>5 DEF Queued
    <2>8. Queued(h)
      BY ONLY <1>6, <2>4, <2>6 DEF Queued
    <2>9. ~Queued(h)'
      BY ONLY <1>6, <2>4, <2>7
    <2>10. ASSUME NEW u, Queued(u)' PROVE Queued(u)
      <3>1. PICK i \in 1 .. Len(r) : r[i] = u
        BY ONLY <2>7, <2>10
      <3> QED BY ONLY <2>4, <3>1 DEF Queued
    <2>11. ASSUME NEW u, Queued(u) PROVE u = h \/ Queued(u)'
      <3>1. PICK i \in 1 .. Len(queue) : queue[i] = u
        BY ONLY <2>11 DEF Queued
      <3> QED BY ONLY <1>6, <2>4, <2>7, <3>1
    <2> QED BY ONLY <2>4, <2>5, <2>8, <2>9, <2>10, <2>11
  <1>8. \A s \in Threads : s # t => (Works(s)' <=> Works(s)) /\ url'[s] = url[s]
    BY <1>3 DEF Works, Handling, Same
  <1>9. ~Works(t) /\ Works(t)' /\ url'[t] = h
    <2>1. h # NoUrl
      BY DEF NoUrl
    <2> QED BY <1>3, <1>4, <1>6, <2>1 DEF Works, Handling, InTry, InCatch
  <1>10. FreshOK'
    <2>1. crawl = "on" \/ ui = "abort"
      BY <1>1, <1>5 DEF FreshOK
    <2> QED BY <1>3, <2>1 DEF FreshOK, UiOK
  <1>11. PlacesOK'
    <2>1. \A s \in Threads, u \in Urls : Works(s)' /\ url'[s] = u => u \in seen' /\ ~Queued(u)'
      <3>1. h \in seen'
        BY <1>1, <1>4, <1>7 DEF PlacesOK
      <3>2. \A s \in Threads, u \in Urls : Works(s) /\ url[s] = u => u \in seen' /\ ~Queued(u)'
        BY <1>1, <1>4, <1>7 DEF PlacesOK
      <3>3. ASSUME NEW s \in Threads, NEW u \in Urls, s # t, Works(s)', url'[s] = u
            PROVE  u \in seen' /\ ~Queued(u)'
        BY <1>8, <3>2, <3>3
      <3>4. ASSUME NEW u \in Urls, url'[t] = u
            PROVE  u \in seen' /\ ~Queued(u)'
        BY <1>7, <1>9, <3>1, <3>4
      <3> QED BY ONLY <3>3, <3>4
    <2>2. \A s \in Threads : Works(s) => url[s] # h
      BY <1>1, <1>7 DEF PlacesOK
    <2>3. \A r, s \in Threads : Works(r)' /\ Works(s)' /\ url'[r] = url'[s] => r = s
      BY <1>1, <1>8, <1>9, <2>2 DEF PlacesOK
    <2>4. \A u \in Urls : Queued(u)' => u \in seen'
      BY <1>1, <1>4, <1>7 DEF PlacesOK
    <2> QED BY <1>7, <2>1, <2>3, <2>4 DEF PlacesOK
  <1>12. ASSUME crawl = "on" PROVE CrawlOK'
    <2>1. CrawlOK
      BY <1>1, <1>12
    <2>2. cnt' = Cardinality(Counted')
      <3>1. Counts(t)
        BY <1>4 DEF Counts, CountedPC, ThreadPC
      <3> QED BY <1>2, <1>5, <2>1, <3>1, CountedStep DEF CrawlOK
    <2>3. WatchOK'
      <3>1. ComesToLook(t)' /\ pc'[t] # "start"
        BY <1>4, <1>6, <1>9 DEF ComesToLook, Alive, NoUrl
      <3> QED BY <1>3, <1>5, <3>1 DEF WatchOK
    <2>4. AccountOK'
      <3> SUFFICES ASSUME NEW u \in seen, u \notin failed
                   PROVE  Queued(u)' \/ Done(u)' \/ \E s \in list : Works(s)' /\ url'[s] = u
        BY <1>3, <1>4 DEF AccountOK
      <3>1. Queued(u) \/ Done(u) \/ \E s \in list : Works(s) /\ url[s] = u
        BY <2>1 DEF CrawlOK, AccountOK
      <3>2. Done(u) => Done(u)'
        BY <1>3, <1>4 DEF Done
      <3>3. \A s \in list : Works(s) => Works(s)' /\ url'[s] = url[s]
        BY <1>5, <1>8, <1>9
      <3> QED BY <1>5, <1>7, <1>9, <3>1, <3>2, <3>3
    <2>5. WriterOK'
      <3>1. \A s \in list : pc[s] = "written" => pc'[s] = "written" /\ url'[s] = url[s]
        BY <1>3, <1>4, <1>5 DEF Same
      <3>2. file' = file /\ list' = list /\ starts' = starts /\ failed' = failed
        BY <1>3, <1>4
      <3> QED BY ONLY <2>1, <3>1, <3>2 DEF CrawlOK, WriterOK, Spoilt
    <2>6. \A s \in Threads : PageOK(s)'
      <3>1. \A s \in Threads \ {t} : PageOK(s)'
        BY <1>3, <1>4, <2>1 DEF CrawlOK, PageOK, Same, Done
      <3>2. PageOK(t)'
        BY <1>4 DEF PageOK
      <3> QED BY <3>1, <3>2
    <2>7. ~Said'
      <3>1. ~Said
        BY <1>4, <2>1 DEF CrawlOK
      <3> QED BY <1>3, <1>4, <3>1 DEF Said, Same
    <2> QED BY <2>2, <2>3, <2>4, <2>5, <2>6, <2>7 DEF CrawlOK
  <1> QED BY <1>3, <1>10, <1>11, <1>12 DEF QuietInv

(* A link to an address that is not known yet.                               *)
FindsLink(t) == Link(t) /\ Head(todo[t]) \notin seen

LEMMA FindsLinkIsStill ==
  ASSUME VarsOK, NEW t \in Threads, FindsLink(t)
  PROVE  Still(t) /\ Alive(t)
  BY DEF FindsLink, Link, Still, Same, Alive, Goto, uiVars, VarsOK

LEMMA FindsLinkIsQuiet ==
  ASSUME VarsOK, LimitOK, ListOK, ThreadsInv, UiOK, QuietInv, ~interfered,
         NEW t \in Threads, t \notin doomed, FindsLink(t)
  PROVE  QuietInv'
  <1>1. FreshOK /\ PlacesOK /\ (crawl = "on" => CrawlOK)
    BY DEF QuietInv
  <1>2. Still(t) /\ Alive(t)
    BY FindsLinkIsStill
  <1>3. /\ \A s \in Threads \ {t} : Same(s)
        /\ list' = list /\ doomed' = doomed /\ ui' = ui /\ starts' = starts /\ crawl' = crawl
    BY <1>2 DEF Still
  <1>4. PICK h \in Urls : h = Head(todo[t])
    BY DEF FindsLink, Link, VarsOK
  <1>5. /\ pc[t] = "links" /\ pc'[t] = "linked" /\ queue' = Append(queue, h) /\ url' = url /\ web' = web
        /\ h \notin seen /\ seen' = seen \cup {h}
    BY <1>4 DEF FindsLink, Link, AddUrl, Goto, VarsOK
  <1>6. file' = file /\ cnt' = cnt /\ said' = said /\ failed' = failed
    BY DEF FindsLink, Link
  <1>7. t \in list /\ list \subseteq Threads
    BY <1>2 DEF ListOK, VarsOK
  <1>8. /\ \A i, j \in 1 .. Len(queue') : queue'[i] = queue'[j] => i = j
        /\ queue' # <<>>
        /\ Queued(h)'
        /\ \A u : Queued(u)' <=> u = h \/ Queued(u)
    <2>1. queue \in Seq(Urls) /\ \A i, j \in 1 .. Len(queue) : queue[i] = queue[j] => i = j
      BY <1>1 DEF PlacesOK, VarsOK
    <2>2. \A i \in 1 .. Len(queue) : queue[i] # h
      BY <1>1, <1>5 DEF PlacesOK, Queued
    <2>3. PICK r : r = Append(queue, h)
      OBVIOUS
    <2>4. /\ r # <<>>
          /\ \A i, j \in 1 .. Len(r) : r[i] = r[j] => i = j
          /\ \A i \in 1 .. Len(r) : r[i] = h \/ \E j \in 1 .. Len(queue) : queue[j] = r[i]
          /\ \A i \in 1 .. Len(queue) : \E j \in 1 .. Len(r) : r[j] = queue[i]
          /\ \E j \in 1 .. Len(r) : r[j] = h
      BY ONLY <1>4, <2>1, <2>2, <2>3, AppendIs
    <2>5. queue' = r
      BY <1>5, <2>3
    <2>6. \A u : Queued(u)' <=> \E i \in 1 .. Len(r) : r[i] = u
      BY ONLY <2>5 DEF Queued
    <2>7. ASSUME NEW u, Queued(u)' PROVE u = h \/ Queued(u)
      <3>1. PICK i \in 1 .. Len(r) : r[i] = u
        BY ONLY <2>6, <2>7
      <3> QED BY ONLY <2>4, <3>1 DEF Queued
    <2>8. ASSUME NEW u, Queued(u) PROVE Queued(u)'
      <3>1. PICK i \in 1 .. Len(queue) : queue[i] = u
        BY ONLY <2>8 DEF Queued
      <3> QED BY ONLY <2>4, <2>6, <3>1
    <2>9. Queued(h)'
      BY ONLY <2>4, <2>6
    <2>10. \A u : Queued(u)' <=> u = h \/ Queued(u)
      BY ONLY <2>7, <2>8, <2>9
    <2> QED BY ONLY <2>4, <2>5, <2>9, <2>10
  <1>9. \A s \in Threads : (Works(s)' <=> Works(s)) /\ url'[s] = url[s]
    BY <1>3, <1>5 DEF Works, Handling, Same, InTry
  <1>10. Works(t)
    BY <1>5, PageIs DEF ThreadsInv, HasPage, Works
  <1>11. FreshOK'
    <2>1. crawl = "on" \/ ui = "abort"
      BY <1>1, <1>7 DEF FreshOK
    <2> QED BY <1>3, <2>1 DEF FreshOK, UiOK
  <1>12. PlacesOK'
    <2>1. \A u \in Urls : Queued(u)' => u \in seen'
      BY <1>1, <1>5, <1>8 DEF PlacesOK
    <2>2. \A s \in Threads, u \in Urls : Works(s) /\ url[s] = u => u \in seen /\ u # h /\ ~Queued(u)
      BY <1>1, <1>5 DEF PlacesOK
    <2>3. \A s \in Threads, u \in Urls : Works(s)' /\ url'[s] = u => u \in seen' /\ ~Queued(u)'
      BY <1>5, <1>8, <1>9, <2>2
    <2>4. \A r, s \in Threads : Works(r)' /\ Works(s)' /\ url'[r] = url'[s] => r = s
      BY <1>1, <1>9 DEF PlacesOK
    <2> QED BY <1>8, <2>1, <2>3, <2>4 DEF PlacesOK
  <1>13. ASSUME crawl = "on" PROVE CrawlOK'
    <2>1. CrawlOK
      BY <1>1, <1>13
    <2>2. cnt' = Cardinality(Counted')
      <3>1. Counts(t)
        BY <1>5, <1>6 DEF Counts, CountedPC, ThreadPC
      <3> QED BY <1>2, <1>7, <2>1, <3>1, CountedStep DEF CrawlOK
    <2>3. WatchOK'
      <3>1. ComesToLook(t)' /\ pc'[t] # "start"
        BY <1>5 DEF ComesToLook, Alive
      <3> QED BY <1>3, <1>7, <3>1 DEF WatchOK
    <2>4. AccountOK'
      <3> SUFFICES ASSUME NEW u \in seen, u \notin failed
                   PROVE  Queued(u)' \/ Done(u)' \/ \E s \in list : Works(s)' /\ url'[s] = u
        BY <1>3, <1>5, <1>6, <1>8 DEF AccountOK
      <3>1. Queued(u) \/ Done(u) \/ \E s \in list : Works(s) /\ url[s] = u
        BY <2>1 DEF CrawlOK, AccountOK
      <3>2. Done(u) => Done(u)'
        BY <1>3, <1>6 DEF Done
      <3> QED BY <1>7, <1>8, <1>9, <3>1, <3>2
    <2>5. WriterOK'
      <3>1. \A s \in list : pc[s] = "written" => pc'[s] = "written" /\ url'[s] = url[s]
        BY <1>3, <1>5, <1>7 DEF Same
      <3>2. file' = file /\ list' = list /\ starts' = starts /\ failed' = failed
        BY <1>3, <1>6
      <3> QED BY ONLY <2>1, <3>1, <3>2 DEF CrawlOK, WriterOK, Spoilt
    <2>6. \A s \in Threads : PageOK(s)'
      <3>1. \A s \in Threads \ {t} : PageOK(s)'
        BY <1>3, <1>6, <2>1 DEF CrawlOK, PageOK, Same, Done
      <3>2. PageOK(t)'
        BY <1>3, <1>5, <1>6, <2>1 DEF CrawlOK, PageOK, Done
      <3> QED BY <3>1, <3>2
    <2>7. ~Said'
      <3>1. ~Said
        BY <1>10, <2>1 DEF CrawlOK
      <3> QED BY <1>3, <1>5, <1>6, <3>1 DEF Said, Same
    <2> QED BY <2>2, <2>3, <2>4, <2>5, <2>6, <2>7 DEF CrawlOK
  <1> QED BY <1>3, <1>11, <1>12, <1>13 DEF QuietInv

(* Both, whoever does it.                                                    *)
LEMMA QueueStep ==
  ASSUME SafeInv, NEW t \in Threads, Takes(t) \/ FindsLink(t)
  PROVE  LimitOK' /\ ListOK' /\ UiOK' /\ QuietInv'
  <1>1. VarsOK /\ LimitOK /\ ListOK /\ ThreadsInv /\ UiOK /\ QuietInv
    BY TypeIs DEF SafeInv
  <1>2. LimitOK' /\ ListOK' /\ UiOK'
    BY <1>1, TakesIsStill, FindsLinkIsStill, StillStep
  <1>3. interfered' = (interfered \/ t \in doomed)
    BY DEF Takes, GetUrl, FindsLink, Link, Interferes
  <1>4. CASE interfered \/ t \in doomed
    BY <1>2, <1>3, <1>4 DEF QuietInv
  <1>5. CASE ~interfered /\ t \notin doomed
    BY <1>1, <1>2, <1>5, TakesIsQuiet, FindsLinkIsQuiet
  <1> QED BY <1>4, <1>5

--------------------------------------------------------------------------------
(* Threads are added to the list.                                            *)

LEMMA GrownList ==
  ASSUME TypeInv, ListOK, NEW after \in [Threads -> ThreadPC], TryAddThead(after),
         \A t \in Threads : after[t] \in {"none", "dead"} <=> ~Alive(t)
  PROVE  ListOK'
  <1>1. /\ list' \subseteq Threads
        /\ \A t \in Threads : pc'[t] = IF Grows /\ t = NewThread THEN "start" ELSE after[t]
        /\ \A t \in list : Alive(t) => t \in list'
        /\ \A t \in list' : t \in list \/ (Grows /\ t = NewThread)
        /\ Grows => NewThread \in list'
        /\ doomed' = IF Grows THEN doomed \ {NewThread} ELSE doomed
    BY Grown
  <1>2. list' \cap doomed' = {}
    BY <1>1 DEF ListOK
  <1>3. ASSUME NEW s \in Threads, Alive(s)', s \notin doomed' PROVE s \in list'
    <2>1. CASE Grows /\ s = NewThread
      BY <1>1, <2>1
    <2>2. CASE ~(Grows /\ s = NewThread)
      <3>1. Alive(s) /\ s \notin doomed
        BY <1>1, <1>3, <2>2 DEF Alive
      <3> QED BY <1>1, <3>1 DEF ListOK
    <2> QED BY <2>1, <2>2
  <1> QED BY <1>2, <1>3 DEF ListOK

LEMMA AddThreadIs ==
  ASSUME TypeInv, ListOK, NEW t \in Threads, AddThread(t)
  PROVE  /\ LimitOK' /\ ListOK' /\ list' \subseteq Threads
         /\ pc'[t] \in {"added", "get"} /\ Alive(t)
         /\ \A s \in Threads \ {t} : pc'[s] = pc[s] \/ (pc'[s] = "start" /\ ~Alive(s))
         /\ \A s \in Threads \ {t} : url'[s] = url[s] /\ web'[s] = web[s]
         /\ url'[t] = NoUrl
         /\ \A s \in list : Alive(s) => s \in list'
         /\ \A s \in list' : s \in list \/ (pc'[s] = "start" /\ ~Alive(s))
         /\ \A s \in Threads : s \notin doomed' => s \notin doomed \/ (pc'[s] = "start" /\ ~Alive(s))
         /\ doomed' \subseteq doomed
  <1> DEFINE after == [pc EXCEPT ![t] = IF Grows THEN "added" ELSE "get"]
  <1>1. VarsOK
    BY TypeIs
  <1>2. pc[t] = "add" /\ TryAddThead(after) /\ Drop(t)
    BY DEF AddThread
  <1>3. after \in [Threads -> ThreadPC] /\ \A s \in Threads : after[s] \in {"none", "dead"} <=> ~Alive(s)
    BY <1>1, <1>2 DEF VarsOK, Alive, ThreadPC
  <1>4. after[t] \in {"added", "get"} /\ \A s \in Threads \ {t} : after[s] = pc[s]
    BY <1>1 DEF VarsOK
  <1>5. Alive(t)
    BY <1>2 DEF Alive
  <1> HIDE DEF after
  <1>6. ListOK'
    BY <1>2, <1>3, GrownList
  <1>7. /\ LimitOK'
        /\ list' \subseteq Threads
        /\ \A s \in Threads : pc'[s] = IF Grows /\ s = NewThread THEN "start" ELSE after[s]
        /\ Grows => NewThread \in Threads /\ ~Alive(NewThread)
        /\ \A s \in list : Alive(s) => s \in list'
        /\ \A s \in list' : s \in list \/ (Grows /\ s = NewThread)
        /\ Grows => NewThread \in list'
        /\ doomed' = IF Grows THEN doomed \ {NewThread} ELSE doomed
    BY <1>2, <1>3, Grown
  <1>8. pc'[t] \in {"added", "get"}
    BY <1>4, <1>5, <1>7
  <1>9. \A s \in Threads \ {t} : pc'[s] = pc[s] \/ (pc'[s] = "start" /\ ~Alive(s))
    BY <1>4, <1>7
  <1>10. (\A s \in Threads \ {t} : url'[s] = url[s] /\ web'[s] = web[s]) /\ url'[t] = NoUrl
    BY <1>1, <1>2 DEF Drop, VarsOK
  <1>11. \A s \in list' : s \in list \/ (pc'[s] = "start" /\ ~Alive(s))
    BY <1>7
  <1>12. \A s \in Threads : s \notin doomed' => s \notin doomed \/ (pc'[s] = "start" /\ ~Alive(s))
    BY <1>7
  <1>13. doomed' \subseteq doomed
    BY <1>7
  <1> QED BY <1>5, <1>6, <1>7, <1>8, <1>9, <1>10, <1>11, <1>12, <1>13

LEMMA AddThreadIsQuiet ==
  ASSUME SafeInv, ~interfered, NEW t \in Threads, t \notin doomed, AddThread(t)
  PROVE  QuietInv'
  <1>1. TypeInv /\ VarsOK /\ LimitOK /\ ListOK /\ ThreadsInv /\ UiOK
        /\ FreshOK /\ PlacesOK /\ (crawl = "on" => CrawlOK)
    BY TypeIs DEF SafeInv, QuietInv
  <1>2. /\ list' \subseteq Threads
        /\ pc'[t] \in {"added", "get"} /\ Alive(t)
        /\ \A s \in Threads \ {t} : pc'[s] = pc[s] \/ (pc'[s] = "start" /\ ~Alive(s))
        /\ \A s \in Threads \ {t} : url'[s] = url[s] /\ web'[s] = web[s]
        /\ url'[t] = NoUrl
        /\ \A s \in list : Alive(s) => s \in list'
        /\ \A s \in list' : s \in list \/ (pc'[s] = "start" /\ ~Alive(s))
        /\ \A s \in Threads : s \notin doomed' => s \notin doomed \/ (pc'[s] = "start" /\ ~Alive(s))
        /\ doomed' \subseteq doomed
    BY <1>1, AddThreadIs
  <1>3. /\ pc[t] = "add" /\ queue' = queue /\ seen' = seen /\ cnt' = cnt /\ file' = file
        /\ ui' = ui /\ starts' = starts /\ crawl' = crawl /\ failed' = failed /\ said' = said
    BY DEF AddThread, uiVars
  <1>4. t \in list /\ list \subseteq Threads
    BY <1>1, <1>2 DEF ListOK, VarsOK
  <1>5. \A u : Queued(u)' <=> Queued(u)
    BY <1>3 DEF Queued
  <1>6. \A u : Done(u)' <=> Done(u)
    BY <1>3 DEF Done
  <1>7. \A s \in Threads : Works(s)' => s # t /\ Works(s) /\ url'[s] = url[s]
    BY <1>2 DEF Works, Handling, InTry, InCatch
  <1>8. \A s \in Threads : Works(s) /\ s # t => Works(s)' /\ url'[s] = url[s]
    BY <1>2, HandlingIs DEF Works, Handling
  <1>9. Works(t)
    BY <1>1, <1>3, PageIs DEF ThreadsInv, HasPage, Works
  <1>10. FreshOK'
    <2>1. crawl = "on" \/ ui = "abort"
      BY <1>1, <1>4 DEF FreshOK
    <2> QED BY <1>1, <1>3, <2>1 DEF FreshOK, UiOK
  <1>11. PlacesOK'
    BY <1>1, <1>3, <1>5, <1>7 DEF PlacesOK
  <1>12. ASSUME crawl = "on" PROVE CrawlOK'
    <2>1. CrawlOK
      BY <1>1, <1>12
    <2>2. cnt' = Cardinality(Counted')
      <3>1. \A s \in Threads : pc'[s] \in CountedPC <=> pc[s] \in CountedPC
        BY <1>2, <1>3 DEF CountedPC, ThreadPC, Alive
      <3>2. Counted' = Counted
        <4>1. \A s \in Counted : s \in list'
          BY <1>2, <1>4, HandlingIs DEF Counted
        <4>2. \A s \in Counted' : s \in list
          BY <1>2 DEF Counted, CountedPC
        <4> QED BY <1>2, <1>4, <3>1, <4>1, <4>2 DEF Counted
      <3> QED BY <1>3, <2>1, <3>2 DEF CrawlOK
    <2>3. WatchOK'
      <3>1. ComesToLook(t)' /\ pc'[t] # "start" /\ t \in list'
        BY <1>2, <1>4 DEF ComesToLook, Alive
      <3> QED BY <3>1 DEF WatchOK
    <2>4. AccountOK'
      <3> SUFFICES ASSUME NEW u \in seen, u \notin failed
                   PROVE  Queued(u) \/ Done(u) \/ \E s \in list' : Works(s)' /\ url'[s] = u
        BY <1>3, <1>5, <1>6 DEF AccountOK
      <3>1. Queued(u) \/ Done(u) \/ \E s \in list : Works(s) /\ url[s] = u
        BY <2>1 DEF CrawlOK, AccountOK
      <3>2. url[t] \in failed \/ Done(url[t])
        BY <1>3, <2>1 DEF CrawlOK, PageOK
      <3>3. \A s \in list : Works(s) => s \in list'
        BY <1>2, <1>4, HandlingIs DEF Works
      <3> QED BY <1>4, <1>8, <3>1, <3>2, <3>3
    <2>5. WriterOK'
      <3>1. \A s \in list : pc[s] = "written" => s \in list' /\ pc'[s] = "written" /\ url'[s] = url[s]
        BY <1>2, <1>3, <1>4 DEF Alive
      <3>2. file' = file /\ starts' = starts /\ failed' = failed
        BY <1>3
      <3> QED BY ONLY <2>1, <3>1, <3>2 DEF CrawlOK, WriterOK, Spoilt
    <2>6. \A s \in Threads : PageOK(s)'
      <3>1. ASSUME NEW s \in Threads, s # t PROVE PageOK(s)'
        <4>1. CASE pc'[s] = "start"
          BY <4>1 DEF PageOK
        <4>2. CASE pc'[s] # "start" /\ s \notin doomed'
          <5>1. s \notin doomed /\ pc'[s] = pc[s] /\ url'[s] = url[s] /\ web'[s] = web[s] /\ PageOK(s)
            BY <1>2, <2>1, <3>1, <4>2 DEF CrawlOK
          <5>2. file' = file /\ starts' = starts /\ failed' = failed
            BY <1>3
          <5> QED BY ONLY <5>1, <5>2 DEF PageOK, Done
        <4>3. CASE s \in doomed'
          BY <4>3 DEF PageOK
        <4> QED BY <4>1, <4>2, <4>3
      <3>2. PageOK(t)'
        BY <1>2 DEF PageOK
      <3> QED BY <3>1, <3>2
    <2>7. ~Said'
      <3>1. ~Said
        BY <1>9, <2>1 DEF CrawlOK
      <3> QED BY <1>2, <1>3, <3>1 DEF Said
    <2> QED BY <2>2, <2>3, <2>4, <2>5, <2>6, <2>7 DEF CrawlOK
  <1> QED BY <1>3, <1>10, <1>11, <1>12 DEF QuietInv

LEMMA AddThreadStep ==
  ASSUME SafeInv, NEW t \in Threads, AddThread(t)
  PROVE  LimitOK' /\ ListOK' /\ UiOK' /\ QuietInv'
  <1>1. TypeInv /\ ListOK /\ UiOK
    BY DEF SafeInv
  <1>2. LimitOK' /\ ListOK' /\ pc[t] = "add"
    BY <1>1, AddThreadIs DEF AddThread
  <1>3. UiOK'
    BY <1>1, <1>2 DEF UiOK, AddThread, uiVars
  <1>4. interfered' = (interfered \/ t \in doomed)
    BY DEF AddThread, Interferes
  <1>5. CASE interfered \/ t \in doomed
    BY <1>2, <1>3, <1>4, <1>5 DEF QuietInv
  <1>6. CASE ~interfered /\ t \notin doomed
    BY <1>2, <1>3, <1>6, AddThreadIsQuiet
  <1> QED BY <1>5, <1>6

--------------------------------------------------------------------------------
(* The UI thread's steps.                                                    *)

LEMMA NobodyLeft ==
  ASSUME ListOK, list = {}
  PROVE  \A s \in Threads : s \notin doomed => ~Alive(s) /\ ~Works(s)
  BY HandlingIs DEF ListOK, Works

LEMMA ClickStep ==
  ASSUME VarsOK, LimitOK, ListOK, UiOK, QuietInv, StartClick \/ CancelClick
  PROVE  LimitOK' /\ ListOK' /\ UiOK' /\ QuietInv'
  <1>1. /\ UNCHANGED <<shared, threadVars, faults, failed, said, interfered>>
        /\ ui = "idle" /\ ui' = "abort" /\ crawl' = "off"
        /\ (starts' = starts + 1 /\ job' = "start") \/ (starts' = starts /\ job' = "cancel")
    BY DEF StartClick, CancelClick
  <1>2. LimitOK' /\ ListOK'
    BY <1>1 DEF LimitOK, Pruned, ListOK, Alive, shared, threadVars
  <1>3. UiOK'
    <2>1. starts \in Nat
      BY DEF VarsOK
    <2> QED BY <1>1, <2>1 DEF UiOK, shared, threadVars
  <1>4. QuietInv'
    <2>1. FreshOK'
      BY <1>1 DEF FreshOK
    <2>2. PlacesOK => PlacesOK'
      BY <1>1 DEF PlacesOK, Queued, Works, Handling, shared, threadVars
    <2> QED BY <1>1, <2>1, <2>2 DEF QuietInv
  <1> QED BY <1>2, <1>3, <1>4

LEMMA AbortStep ==
  ASSUME VarsOK, LimitOK, ListOK, UiOK, QuietInv, NEW t \in Threads, AbortThread(t)
  PROVE  LimitOK' /\ ListOK' /\ UiOK' /\ QuietInv'
  <1>1. /\ ui = "abort" /\ t \in list /\ list' = list \ {t}
        /\ doomed' = IF Alive(t) THEN doomed \cup {t} ELSE doomed
        /\ UNCHANGED <<queue, seen, cnt, stoped, file, pc, url, todo, web, uiVars, said, interfered>>
    BY DEF AbortThread
  <1>2. LimitOK'
    <2>1. list' \subseteq list /\ \A s \in list' : Alive(s)' => Alive(s)
      BY <1>1 DEF Alive
    <2> QED BY <2>1, LimitKept
  <1>3. ListOK'
    BY <1>1 DEF ListOK, Alive
  <1>4. UiOK'
    BY <1>1 DEF UiOK, uiVars
  <1>5. QuietInv'
    <2>1. FreshOK'
      BY <1>1 DEF FreshOK, uiVars
    <2>2. PlacesOK => PlacesOK'
      BY <1>1 DEF PlacesOK, Queued, Works, Handling
    <2>3. crawl' # "on"
      BY <1>1 DEF UiOK, uiVars
    <2> QED BY <1>1, <2>1, <2>2, <2>3 DEF QuietInv
  <1> QED BY <1>2, <1>3, <1>4, <1>5

LEMMA PrepareStep ==
  ASSUME VarsOK, LimitOK, ListOK, UiOK, QuietInv, AbortDone \/ Clear \/ Refuse \/ Seed \/ Unstop
  PROVE  LimitOK' /\ ListOK' /\ UiOK' /\ QuietInv'
  <1>1. /\ UNCHANGED <<list, file, threadVars, job, starts, crawl, interfered>>
        /\ ui # "idle"
    BY DEF AbortDone, Clear, Refuse, Seed, Unstop, shared, uiVars
  <1>2. LimitOK' /\ ListOK'
    BY <1>1 DEF LimitOK, Pruned, ListOK, Alive, threadVars
  <1>3. crawl # "on" /\ crawl' # "on"
    BY <1>1 DEF UiOK
  <1>4. UiOK'
    <2>1. \/ ui = "abort" /\ ui' = IF job = "start" THEN "clear" ELSE "idle"
          \/ ui \in {"clear", "seed", "spawn"} /\ ui' \in {"idle", "seed", "spawn"}
      BY DEF AbortDone, Clear, Refuse, Seed, Unstop, uiVars
    <2> QED BY <1>1, <1>3, <2>1 DEF UiOK, threadVars
  <1>5. ASSUME ~interfered PROVE QuietInv'
    <2>1. FreshOK /\ PlacesOK
      BY <1>5 DEF QuietInv
    <2>2. list = {}
      BY <1>3, <2>1 DEF FreshOK, AbortDone, Clear, Refuse, Seed, Unstop
    <2>3. \A s \in Threads : ~Works(s)'
      BY <1>1, <2>2, NobodyLeft DEF threadVars, Works, Handling
    <2>4. CASE AbortDone
      <3>1. FreshOK'
        BY <1>1, <2>2, <2>4 DEF FreshOK, AbortDone
      <3>2. PlacesOK'
        BY <2>1, <2>3, <2>4 DEF PlacesOK, AbortDone, Queued
      <3> QED BY <1>3, <3>1, <3>2 DEF QuietInv
    <2>5. CASE Clear
      <3>1. FreshOK'
        BY <1>1, <2>2, <2>5 DEF FreshOK, Clear
      <3>2. queue' = <<>>
        BY <2>5 DEF Clear
      <3>3. PlacesOK'
        BY <2>3, <3>2 DEF PlacesOK, Queued
      <3> QED BY <1>3, <3>1, <3>3 DEF QuietInv
    <2>6. CASE Refuse
      <3>1. FreshOK'
        BY <1>1, <2>2, <2>6 DEF FreshOK, Refuse
      <3>2. PlacesOK'
        BY <2>1, <2>3, <2>6 DEF PlacesOK, Refuse, Queued, shared
      <3> QED BY <1>3, <3>1, <3>2 DEF QuietInv
    <2>7. CASE Seed
      <3>1. queue = <<>> /\ seen = {} /\ cnt = 0 /\ said = 0
        BY <2>1, <2>7 DEF FreshOK, Seed
      <3>2. queue' = <<Root>> /\ seen' = {Root}
        BY <2>7, <3>1 DEF Seed, AddUrl
      <3>3. FreshOK'
        BY <1>1, <2>2, <2>7, <3>1, <3>2 DEF FreshOK, Seed
      <3>4. PlacesOK'
        BY <2>3, <3>2 DEF PlacesOK, Queued
      <3> QED BY <1>3, <3>3, <3>4 DEF QuietInv
    <2>8. CASE Unstop
      <3>1. FreshOK'
        BY <2>1, <2>8 DEF FreshOK, Unstop, uiVars
      <3>2. PlacesOK'
        BY <2>1, <2>3, <2>8 DEF PlacesOK, Unstop, Queued
      <3> QED BY <1>3, <3>1, <3>2 DEF QuietInv
    <2> QED BY <2>4, <2>5, <2>6, <2>7, <2>8
  <1>6. ASSUME interfered PROVE QuietInv'
    <2>1. interfered' = interfered
      BY <1>1
    <2> QED BY <1>6, <2>1, Zenon DEF QuietInv
  <1> QED BY <1>2, <1>4, <1>5, <1>6

LEMMA FirstThreadStep ==
  ASSUME SafeInv, FirstThread
  PROVE  LimitOK' /\ ListOK' /\ UiOK' /\ QuietInv'
  <1>1. TypeInv /\ VarsOK /\ LimitOK /\ ListOK /\ UiOK /\ QuietInv
    BY TypeIs DEF SafeInv
  <1>2. /\ ui = "spawn" /\ ~stoped /\ TryAddThead(pc) /\ ui' = "idle" /\ crawl' = "on"
        /\ UNCHANGED <<queue, seen, cnt, stoped, file, url, todo, web, job, starts, failed, said, interfered>>
    BY DEF FirstThread
  <1>3. pc \in [Threads -> ThreadPC] /\ \A s \in Threads : pc[s] \in {"none", "dead"} <=> ~Alive(s)
    BY <1>1 DEF VarsOK, Alive
  <1>4. ListOK'
    BY <1>1, <1>2, <1>3, GrownList
  <1>5. /\ LimitOK'
        /\ list' \subseteq Threads
        /\ \A s \in Threads : pc'[s] = IF Grows /\ s = NewThread THEN "start" ELSE pc[s]
        /\ Grows => NewThread \in Threads /\ ~Alive(NewThread)
        /\ \A s \in list' : s \in list \/ (Grows /\ s = NewThread)
        /\ Grows => NewThread \in list'
        /\ doomed' = IF Grows THEN doomed \ {NewThread} ELSE doomed
    BY <1>1, <1>2, <1>3, Grown
  <1>6. UiOK'
    BY <1>1, <1>2 DEF UiOK
  <1>7. ASSUME ~interfered PROVE QuietInv'
    <2>1. FreshOK /\ PlacesOK
      BY <1>1, <1>7 DEF QuietInv
    <2>2. list = {} /\ cnt = 0 /\ said = 0 /\ queue = <<Root>> /\ seen = {Root}
      BY <1>1, <1>2, <2>1 DEF FreshOK, UiOK
    <2>3. \A s \in Threads : s \notin doomed' => pc'[s] \in {"none", "dead", "start"}
      BY <1>1, <1>5, <2>2, NobodyLeft DEF Alive
    <2>4. \A s \in Threads : ~Works(s)'
      BY <2>3 DEF Works, Handling, InTry, InCatch
    <2>5. \A s \in list' : pc'[s] = "start"
      BY <1>5, <2>2
    <2>6. FreshOK'
      BY <1>2 DEF FreshOK
    <2>7. PlacesOK'
      BY <1>2, <2>1, <2>4 DEF PlacesOK, Queued
    <2>8. CrawlOK'
      <3>1. cnt' = Cardinality(Counted')
        <4>1. Counted' = {}
          BY <2>5 DEF Counted, CountedPC
        <4> QED BY <1>2, <2>2, <4>1, FS_EmptySet
      <3>2. WatchOK'
        BY <2>5 DEF WatchOK
      <3>3. AccountOK'
        <4>1. queue' = <<Root>> /\ seen' = {Root}
          BY <1>2, <2>2
        <4>2. Queued(Root)'
          BY <4>1 DEF Queued
        <4> QED BY <4>1, <4>2 DEF AccountOK
      <3>4. WriterOK'
        <4>1. starts <= 1 => \A f \in Files : file[f] = "none"
          BY <1>1, <1>2 DEF UiOK, VarsOK
        <4>2. starts' = starts /\ file' = file
          BY <1>2
        <4>3. starts' <= 1 => \A f \in Files : file'[f] # "part"
          BY ONLY <4>1, <4>2
        <4> QED BY ONLY <4>3, Zenon DEF WriterOK
      <3>5. \A s \in Threads : PageOK(s)'
        BY <2>3 DEF PageOK
      <3>6. ~Said'
        <4>1. said' = 0 /\ \A s \in Threads \ doomed' : pc'[s] # "say"
          BY <1>2, <2>2, <2>3
        <4> QED BY ONLY <4>1 DEF Said
      <3> QED BY <3>1, <3>2, <3>3, <3>4, <3>5, <3>6 DEF CrawlOK
    <2> QED BY <2>6, <2>7, <2>8 DEF QuietInv
  <1>8. ASSUME interfered PROVE QuietInv'
    <2>1. interfered' = interfered
      BY <1>2
    <2> QED BY <1>8, <2>1, Zenon DEF QuietInv
  <1> QED BY <1>4, <1>5, <1>6, <1>7, <1>8

--------------------------------------------------------------------------------
(* The locals of a thread.                                                   *)

LEMMA ThreadsNext ==
  ASSUME TypeInv, ListOK, ThreadsInv, [Next]_vars
  PROVE  ThreadsInv'
  <1>1. VarsOK /\ \A s \in Threads : ThreadOK(s)
    BY TypeIs DEF ThreadsInv
  <1>2. ASSUME UNCHANGED <<pc, url, todo>> PROVE ThreadsInv'
    BY <1>1, <1>2 DEF ThreadsInv, ThreadOK
  <1>3. ASSUME NEW t \in Threads, \A s \in Threads \ {t} : Same(s), ThreadOK(t)'
        PROVE  ThreadsInv'
    BY <1>1, <1>3 DEF ThreadsInv, ThreadOK, Same
  <1>4. ASSUME NEW t \in Threads, Lone(t) \/ Die(t) PROVE ThreadsInv'
    <2>1. \A s \in Threads \ {t} : Same(s)
      BY <1>1, <1>4, LoneIsCalm DEF Calm, Still
    <2>2. ThreadOK(t)'
      <3> USE DEF Goto, VarsOK, ThreadOK, HasPage
      <3>1. CASE Refresh(t) \/ Linked(t) \/ LogDown(t)
        BY <1>1, <3>1 DEF Refresh, Linked, LogDown, Invoke
      <3>2. CASE Added(t) \/ Catch(t) \/ Bye(t)
        BY <1>1, <3>2 DEF Added, Catch, Bye, Invoke
      <3>3. CASE LinkCatch(t) \/ LinksDone(t)
        BY <1>1, <3>3 DEF LinkCatch, LinksDone
      <3>4. CASE FetchCached(t) \/ Fetch(t)
        <4>1. pc[t] = "fetch" /\ pc'[t] = "links" /\ url' = url
          BY <1>1, <3>4 DEF FetchCached, Fetch
        <4> QED BY <1>1, <4>1
      <3>5. CASE WebError(t)
        BY <1>1, <3>5 DEF WebError
      <3>6. CASE Throws(t) \/ SharingViolation(t)
        <4>1. /\ pc[t] \in {"fetch", "links", "save", "written"} /\ url' = url /\ todo' = todo
              /\ pc'[t] \in {"linkcatch", "catch"}
              /\ pc'[t] = "linkcatch" => todo[t] # <<>>
          BY <1>1, <3>6 DEF Throws, SharingViolation
        <4>2. url[t] \in Urls
          BY <1>1, <4>1
        <4> QED BY ONLY <4>1, <4>2 DEF ThreadOK, HasPage
      <3>7. CASE Last(t) \/ FindsNothing(t) \/ Enter(t)
        BY <1>1, <3>7 DEF Last, FindsNothing, GetUrl, Enter
      <3>8. CASE KnowsLink(t)
        BY <1>1, <3>8 DEF KnowsLink, Link
      <3>9. CASE Save(t) \/ Saved(t)
        BY <1>1, <3>9 DEF Save, Saved
      <3>10. CASE Leave(t) \/ Say(t)
        BY <1>1, <3>10 DEF Leave, Say
      <3>11. CASE Die(t)
        BY <1>1, <3>11 DEF Die
      <3> QED BY ONLY <1>4, <3>1, <3>2, <3>3, <3>4, <3>5, <3>6, <3>7, <3>8, <3>9, <3>10, <3>11
              DEF Lone, Waits
    <2> QED BY <1>3, <2>1, <2>2
  <1>5. ASSUME NEW t \in Threads, Takes(t) \/ FindsLink(t) PROVE ThreadsInv'
    <2>1. \A s \in Threads \ {t} : Same(s)
      BY <1>1, <1>5, TakesIsStill, FindsLinkIsStill DEF Still
    <2>2. CASE Takes(t)
      <3>1. pc'[t] = "refresh"
        BY <1>1, <2>2 DEF Takes, GetUrl, Goto, VarsOK
      <3>2. ThreadOK(t)'
        BY <3>1 DEF ThreadOK, HasPage
      <3> QED BY <1>3, <2>1, <3>2
    <2>3. CASE FindsLink(t)
      <3>1. pc[t] = "links" /\ pc'[t] = "linked" /\ url' = url
        BY <1>1, <2>3 DEF FindsLink, Link, Goto, VarsOK
      <3>2. ThreadOK(t)'
        BY <1>1, <3>1 DEF ThreadOK, HasPage
      <3> QED BY <1>3, <2>1, <3>2
    <2> QED BY <1>5, <2>2, <2>3
  <1>6. ASSUME NEW t \in Threads, AddThread(t) PROVE ThreadsInv'
    <2>1. /\ pc'[t] \in {"added", "get"} /\ url'[t] = NoUrl
          /\ \A s \in Threads \ {t} : pc'[s] = pc[s] \/ pc'[s] = "start"
          /\ \A s \in Threads \ {t} : url'[s] = url[s]
      BY <1>6, AddThreadIs
    <2>2. \A s \in Threads \ {t} : todo'[s] = todo[s]
      BY <1>1, <1>6 DEF AddThread, Drop, VarsOK
    <2> QED BY <1>1, <2>1, <2>2 DEF ThreadsInv, ThreadOK, HasPage
  <1>7. CASE FirstThread
    <2>1. pc \in [Threads -> ThreadPC] /\ \A s \in Threads : pc[s] \in {"none", "dead"} <=> ~Alive(s)
      BY <1>1 DEF VarsOK, Alive
    <2>2. \A s \in Threads : pc'[s] = pc[s] \/ pc'[s] = "start"
      BY <1>7, <2>1, Grown DEF FirstThread
    <2>3. url' = url /\ todo' = todo
      BY <1>7 DEF FirstThread
    <2> QED BY <1>1, <2>2, <2>3 DEF ThreadsInv, ThreadOK, HasPage
  <1>8. ASSUME StartClick \/ CancelClick \/ AbortDone \/ Clear \/ Refuse \/ Seed \/ Unstop
        PROVE  ThreadsInv'
    BY <1>2, <1>8 DEF StartClick, CancelClick, AbortDone, Clear, Refuse, Seed, Unstop, threadVars
  <1>9. ASSUME NEW t \in Threads, AbortThread(t) PROVE ThreadsInv'
    BY <1>2, <1>9 DEF AbortThread
  <1>10. CASE UNCHANGED vars
    BY <1>2, <1>10 DEF vars, threadVars
  <1>11. ASSUME NEW t \in Threads, GetUrl(t) PROVE Takes(t) \/ FindsNothing(t)
    BY <1>1, <1>11 DEF Takes, FindsNothing, VarsOK
  <1>12. ASSUME NEW t \in Threads, Link(t) PROVE KnowsLink(t) \/ FindsLink(t)
    BY <1>12 DEF KnowsLink, FindsLink
  <1> QED BY <1>4, <1>5, <1>6, <1>7, <1>8, <1>9, <1>10, <1>11, <1>12
          DEF Next, UiSteps, ThreadNext, Lone, Waits

--------------------------------------------------------------------------------
(* The invariant holds.                                                      *)

LEMMA SafeInit == Init => SafeInv
  <1> SUFFICES ASSUME Init PROVE SafeInv
    OBVIOUS
  <1>1. TypeInv
    BY TypeInit
  <1>2. \A t \in Threads : pc[t] = "none" /\ url[t] = NoUrl
    BY DEF Init
  <1>3. /\ queue = <<>> /\ list = {} /\ ui = "idle" /\ crawl = "none" /\ cnt = 0 /\ seen = {} /\ said = 0
        /\ \A f \in Files : file[f] = "none"
    BY DEF Init
  <1>4. ListOK
    BY <1>2, <1>3 DEF ListOK, Alive
  <1>5. ThreadsInv
    BY <1>2 DEF ThreadsInv, ThreadOK, HasPage
  <1>6. UiOK
    BY <1>2, <1>3 DEF UiOK
  <1>7. FreshOK
    BY <1>3 DEF FreshOK
  <1>8. PlacesOK
    BY <1>2, <1>3 DEF PlacesOK, Queued, Works, Handling
  <1> QED BY <1>1, <1>3, <1>4, <1>5, <1>6, <1>7, <1>8 DEF SafeInv, QuietInv

LEMMA SafeNext == SafeInv /\ [Next]_vars => SafeInv'
  <1> SUFFICES ASSUME SafeInv, [Next]_vars PROVE SafeInv'
    OBVIOUS
  <1>1. TypeInv /\ VarsOK /\ LimitOK /\ ListOK /\ ThreadsInv /\ UiOK /\ QuietInv
    BY TypeIs DEF SafeInv
  <1>2. VarsOK' /\ ThreadsInv'
    BY <1>1, VarsNext, ThreadsNext
  <1>3. ASSUME NEW t \in Threads, ThreadNext(t)
        PROVE  LimitOK' /\ ListOK' /\ UiOK' /\ QuietInv'
    <2>1. CASE GetUrl(t)
      BY <1>1, <2>1, LoneStep, QueueStep DEF Lone, FindsNothing, Takes, VarsOK
    <2>2. CASE Link(t)
      BY <2>2, LoneStep, QueueStep DEF Lone, KnowsLink, FindsLink
    <2>3. CASE AddThread(t)
      BY <2>3, AddThreadStep
    <2>4. CASE Lone(t) \/ Die(t)
      BY <2>4, LoneStep
    <2> QED BY ONLY <1>3, <2>1, <2>2, <2>3, <2>4 DEF ThreadNext, Lone, Waits
  <1>4. ASSUME UiSteps PROVE LimitOK' /\ ListOK' /\ UiOK' /\ QuietInv'
    BY <1>1, <1>4, AbortStep, PrepareStep, FirstThreadStep DEF UiSteps
  <1>5. ASSUME UNCHANGED vars PROVE LimitOK' /\ ListOK' /\ UiOK' /\ QuietInv'
    <2>1. LimitOK' /\ ListOK' /\ UiOK'
      BY <1>1, <1>5 DEF LimitOK, Pruned, ListOK, UiOK, Alive, vars, shared, threadVars, uiVars
    <2>2. FreshOK' <=> FreshOK
      BY <1>5 DEF FreshOK, vars, shared, uiVars
    <2>3. PlacesOK' <=> PlacesOK
      BY <1>5 DEF PlacesOK, Queued, Works, Handling, vars, shared, threadVars
    <2>4. CrawlOK' <=> CrawlOK
      BY <1>5 DEF CrawlOK, Counted, WatchOK, ComesToLook, Alive, AccountOK, Done, Queued, Works, Handling,
                  WriterOK, Spoilt, PageOK, Said, vars, shared, threadVars, uiVars
    <2>5. interfered' = interfered /\ crawl' = crawl
      BY <1>5 DEF vars, uiVars
    <2>6. QuietInv'
      BY <1>1, <2>2, <2>3, <2>4, <2>5, Zenon DEF QuietInv
    <2> QED BY <2>1, <2>6
  <1>6. LimitOK' /\ ListOK' /\ UiOK' /\ QuietInv'
    <2>1. CASE StartClick \/ CancelClick
      BY <1>1, <2>1, ClickStep
    <2>2. CASE UNCHANGED vars
      BY <1>5, <2>2
    <2>3. CASE Next
      BY <1>3, <1>4, <2>1, <2>3, Zenon DEF Next
    <2> QED BY <2>2, <2>3
  <1>7. TypeInv'
    BY <1>2, <1>6, TypeIs
  <1> QED BY <1>2, <1>6, <1>7 DEF SafeInv

LEMMA Safe == Spec => []SafeInv
  BY SafeInit, SafeNext, PTL DEF Spec

--------------------------------------------------------------------------------
(* Every variable holds a value of its kind, and no more threads of the list *)
(* live than m_thread_limit: TryAddTheadToDownLoad starts one only below it. *)
THEOREM TypesHold == Spec => []TypeOK
  <1>1. SafeInv => TypeOK
    BY DEF SafeInv, TypeInv
  <1> QED BY <1>1, Safe, PTL

(* As long as no thread acts after its abort, no two threads of a crawl      *)
(* handle one address: AddUrl lets every address into the queue once, and    *)
(* GetUrl hands it to one thread.  Of files it says nothing: two addresses   *)
(* may have one.                                                             *)
THEOREM AddressHasOneThread == Spec => []OneThreadPerAddress
  <1>1. SafeInv => OneThreadPerAddress
    BY DEF SafeInv, QuietInv, PlacesOK, OneThreadPerAddress, Works
  <1> QED BY <1>1, Safe, PTL

(* "finish: Success" is true: the thread that says it has seen the counter   *)
(* at zero, and then the queue is empty, nobody handles a page, and all that *)
(* was found was reported as failed or has its file, whole unless it is from *)
(* an earlier start or the writing for an address with that file failed.     *)
THEOREM SuccessHolds == Spec => []SuccessIsTrue
  <1>1. ASSUME SafeInv, crawl = "on", ~interfered, said > 0 \/ \E t \in Threads \ doomed : pc[t] = "say"
        PROVE  /\ queue = <<>>
               /\ \A t \in Threads \ doomed : ~Handling(t)
               /\ \A u \in seen \ failed :
                     \/ file[FileOf[u]] = "full"
                     \/ file[FileOf[u]] = "part" /\ (starts > 1 \/ Spoilt(FileOf[u]))
    <2>1. VarsOK /\ CrawlOK /\ Said
      BY <1>1, TypeIs DEF SafeInv, QuietInv, Said
    <2>2. queue = <<>> /\ \A t \in Threads : ~Works(t)
      BY <2>1 DEF CrawlOK
    <2>3. \A u : ~Queued(u)
      BY <2>2 DEF Queued
    <2>4. list \subseteq Threads
      BY <2>1 DEF VarsOK
    <2>5. \A u \in seen \ failed : file[FileOf[u]] # "none"
      BY <2>1, <2>2, <2>3, <2>4 DEF CrawlOK, AccountOK, Done
    <2>6. ASSUME NEW f \in Files, file[f] = "part", starts <= 1 PROVE Spoilt(f)
      <3>1. ASSUME NEW t \in list, pc[t] = "written" PROVE FALSE
        <4>1. t \in Threads /\ t \notin doomed /\ ThreadOK(t)
          BY <1>1, <2>4 DEF SafeInv, ListOK, ThreadsInv
        <4>2. Works(t)
          BY <3>1, <4>1, PageIs DEF HasPage, Works
        <4> QED BY <2>2, <4>1, <4>2
      <3> QED BY <2>1, <2>6, <3>1 DEF CrawlOK, WriterOK
    <2>7. ASSUME NEW u \in seen \ failed
          PROVE  \/ file[FileOf[u]] = "full"
                 \/ file[FileOf[u]] = "part" /\ (starts > 1 \/ Spoilt(FileOf[u]))
      <3>1. FileOf[u] \in Files /\ file[FileOf[u]] \in {"none", "part", "full"} /\ starts \in Nat
        BY <2>1 DEF VarsOK
      <3> QED BY <2>5, <2>6, <3>1
    <2>8. \A t \in Threads \ doomed : ~Handling(t)
      BY <2>2 DEF Works
    <2> QED BY <2>2, <2>7, <2>8
  <1>2. SafeInv => SuccessIsTrue
    BY <1>1 DEF SuccessIsTrue, Spoilt
  <1> QED BY <1>2, Safe, PTL

--------------------------------------------------------------------------------
(* An address in the queue has a thread that comes to look, provided there   *)
(* was a thread to begin the crawl with: Threads bounds the model and not    *)
(* the program.                                                              *)

Live == {t \in Threads : Alive(t)}
Listed == crawl = "on" /\ ~interfered => list # {}

LEMMA StepIs ==
  ASSUME SafeInv, [Next]_vars
  PROVE  \/ \E t \in Threads : Still(t) /\ Alive(t)
         \/ \E t \in Threads : AddThread(t)
         \/ FirstThread
         \/ pc' = pc /\ (crawl' = "on" => list' = list /\ crawl = "on" /\ interfered' = interfered)
  <1>1. VarsOK /\ UiOK
    BY TypeIs DEF SafeInv
  <1>2. ASSUME NEW t \in Threads, ThreadNext(t)
        PROVE  AddThread(t) \/ (Still(t) /\ Alive(t))
    <2>1. CASE GetUrl(t)
      BY <1>1, <2>1, LoneIsCalm, TakesIsStill DEF Lone, FindsNothing, Takes, Calm, VarsOK
    <2>2. CASE Link(t)
      BY <1>1, <2>2, LoneIsCalm, FindsLinkIsStill DEF Lone, KnowsLink, FindsLink, Calm
    <2>3. CASE Lone(t) \/ Die(t)
      BY <1>1, <2>3, LoneIsCalm DEF Calm
    <2> QED BY ONLY <1>2, <2>1, <2>2, <2>3 DEF ThreadNext, Lone, Waits
  <1>3. ASSUME StartClick \/ CancelClick \/ AbortDone \/ Clear \/ Refuse \/ Seed \/ Unstop
        PROVE  pc' = pc /\ crawl' # "on"
    <2>1. pc' = pc /\ (crawl' = "off" \/ (crawl' = crawl /\ ui # "idle"))
      BY <1>3 DEF StartClick, CancelClick, AbortDone, Clear, Refuse, Seed, Unstop, shared, threadVars, uiVars
    <2> QED BY <1>1, <2>1 DEF UiOK
  <1>4. ASSUME NEW t \in Threads, AbortThread(t) PROVE pc' = pc /\ crawl' # "on"
    BY <1>1, <1>4 DEF AbortThread, uiVars, UiOK
  <1>5. ASSUME UNCHANGED vars
        PROVE  pc' = pc /\ list' = list /\ crawl' = crawl /\ interfered' = interfered
    BY <1>5 DEF vars, shared, threadVars, uiVars
  <1>6. CASE Next
    BY <1>2, <1>3, <1>4, <1>6 DEF Next, UiSteps
  <1> QED BY <1>5, <1>6

LEMMA InterferedStays ==
  ASSUME VarsOK, [Next]_vars, interfered
  PROVE  interfered'
  <1>1. ASSUME NEW t \in Threads, ThreadNext(t) PROVE interfered'
    <2>1. interfered' = interfered \/ Interferes(t)
      BY <1>1 DEF ThreadNext, Refresh, Linked, LogDown, Added, Catch, Bye, Invoke, LinkCatch, LinksDone, Fetch,
                  FetchCached, WebError, Throws, SharingViolation, Last, GetUrl, Link, Enter, Save, Saved, AddThread, Leave, Say, Die
    <2> QED BY <2>1 DEF Interferes, VarsOK
  <1>2. ASSUME StartClick \/ CancelClick \/ UiSteps \/ UNCHANGED vars PROVE interfered'
    <2>1. interfered' = interfered
      BY <1>2 DEF StartClick, CancelClick, UiSteps, AbortThread, AbortDone, Clear, Refuse, Seed, Unstop,
                  FirstThread, vars
    <2> QED BY <2>1, Zenon
  <1> QED BY <1>1, <1>2 DEF Next

LEMMA ListedNext ==
  ASSUME SafeInv, Listed, Spare # {}, [Next]_vars
  PROVE  Listed'
  <1>1. TypeInv /\ VarsOK /\ ListOK /\ UiOK /\ QuietInv
    BY TypeIs DEF SafeInv
  <1> SUFFICES ASSUME crawl' = "on", ~interfered' PROVE list' # {}
    BY DEF Listed
  <1>2. ~interfered
    BY <1>1, InterferedStays
  <1>3. ASSUME NEW t \in Threads, Still(t) PROVE list' # {}
    BY <1>2, <1>3 DEF Still, Listed
  <1>4. ASSUME NEW t \in Threads, AddThread(t) PROVE list' # {}
    <2>1. t \notin doomed
      BY <1>4 DEF AddThread, Interferes
    <2>2. Alive(t) /\ \A s \in list : Alive(s) => s \in list'
      BY <1>1, <1>4, AddThreadIs
    <2>3. t \in list
      BY <1>1, <2>1, <2>2 DEF ListOK
    <2> QED BY <2>2, <2>3
  <1>5. CASE FirstThread
    <2>1. list = {} /\ queue = <<Root>> /\ ~stoped
      BY <1>1, <1>2, <1>5 DEF FirstThread, QuietInv, FreshOK, UiOK
    <2>2. Cardinality({s \in list : Alive(s)}) = 0
      <3>1. {s \in list : Alive(s)} = {}
        BY <2>1
      <3> QED BY <3>1, FS_EmptySet
    <2>3. Grows
      BY <2>1, <2>2 DEF Grows
    <2> QED BY <1>5, <2>1, <2>3 DEF FirstThread, TryAddThead
  <1>6. CASE crawl' = "on" => list' = list /\ crawl = "on" /\ interfered' = interfered
    BY <1>2, <1>6 DEF Listed
  <1> QED BY <1>3, <1>4, <1>5, <1>6, StepIs

LEMMA ListedInit == Init => Listed
  BY DEF Init, Listed

LEMMA Watched == SafeInv /\ Listed => QueueIsWatched
  <1> SUFFICES ASSUME SafeInv, Listed, crawl = "on", ~interfered, queue # <<>>
               PROVE  \E t \in list \ doomed : ComesToLook(t)
    BY DEF QueueIsWatched
  <1>1. WatchOK /\ ListOK /\ list # {}
    BY DEF SafeInv, QuietInv, CrawlOK, Listed
  <1>2. list \ doomed = list
    BY <1>1 DEF ListOK
  <1>3. ASSUME \A t \in list : pc[t] = "start" PROVE \E t \in list : ComesToLook(t)
    BY <1>1, <1>3 DEF ComesToLook, Alive
  <1> QED BY <1>1, <1>2, <1>3 DEF WatchOK

(* No queued address is left alone while a thread can be had: whichever      *)
(* thread fails or leaves, another of the crawl is on its way to GetUrl.     *)
THEOREM QueueIsNotLeft == Spec /\ [](Spare # {}) => []QueueIsWatched
  <1>1. Init => SafeInv /\ Listed
    BY SafeInit, ListedInit
  <1>2. (SafeInv /\ Listed) /\ Spare # {} /\ [Next]_vars => (SafeInv /\ Listed)'
    BY SafeNext, ListedNext
  <1>3. SafeInv /\ Listed => QueueIsWatched
    BY Watched
  <1> QED BY <1>1, <1>2, <1>3, PTL DEF Spec

(* Only finitely many threads live at any time, ...                          *)
LEMMA LiveNext ==
  ASSUME SafeInv, IsFiniteSet(Live), [Next]_vars
  PROVE  IsFiniteSet(Live')
  <1>1. TypeInv /\ VarsOK /\ ListOK
    BY TypeIs DEF SafeInv
  <1>2. PICK n : Live' \subseteq Live \cup {n}
    <2>1. ASSUME NEW t \in Threads, Still(t), Alive(t) PROVE Live' \subseteq Live
      BY <2>1 DEF Still, Same, Live, Alive
    <2>2. ASSUME NEW t \in Threads, AddThread(t) PROVE Live' \subseteq Live \cup {NewThread}
      <3> DEFINE after == [pc EXCEPT ![t] = IF Grows THEN "added" ELSE "get"]
      <3>1. TryAddThead(after) /\ pc[t] = "add"
        BY <2>2 DEF AddThread
      <3>2. after \in [Threads -> ThreadPC] /\ \A s \in Threads : after[s] \in {"none", "dead"} <=> ~Alive(s)
        BY <1>1, <3>1 DEF VarsOK, Alive, ThreadPC
      <3> HIDE DEF after
      <3>3. \A s \in Threads : pc'[s] = IF Grows /\ s = NewThread THEN "start" ELSE after[s]
        BY <1>1, <3>1, <3>2, Grown
      <3> QED BY <3>2, <3>3 DEF Live, Alive
    <2>3. ASSUME FirstThread PROVE Live' \subseteq Live \cup {NewThread}
      <3>1. pc \in [Threads -> ThreadPC] /\ \A s \in Threads : pc[s] \in {"none", "dead"} <=> ~Alive(s)
        BY <1>1 DEF VarsOK, Alive
      <3>2. \A s \in Threads : pc'[s] = IF Grows /\ s = NewThread THEN "start" ELSE pc[s]
        BY <1>1, <2>3, <3>1, Grown DEF FirstThread
      <3> QED BY <3>1, <3>2 DEF Live, Alive
    <2>4. ASSUME pc' = pc PROVE Live' \subseteq Live
      BY <2>4 DEF Live, Alive
    <2>5. \E S \in {Live, Live \cup {NewThread}} : Live' \subseteq S
      BY <2>1, <2>2, <2>3, <2>4, StepIs
    <2> QED BY <2>5
  <1>3. IsFiniteSet(Live \cup {n})
    BY FS_AddElement
  <1> QED BY <1>2, <1>3, FS_Subset

(* ... so the program, which numbers no threads, always gets a new one.      *)
THEOREM QueueIsNeverLeft ==
  ASSUME ~IsFiniteSet(Threads)
  PROVE  Spec => []QueueIsWatched
  <1>1. Init => IsFiniteSet(Live)
    <2>1. Init => Live = {}
      BY DEF Init, Live, Alive
    <2> QED BY <2>1, FS_EmptySet
  <1>2. SafeInv /\ IsFiniteSet(Live) /\ [Next]_vars => IsFiniteSet(Live)'
    BY LiveNext
  <1>3. IsFiniteSet(Live) => Spare # {}
    <2> SUFFICES ASSUME IsFiniteSet(Live), Spare = {} PROVE FALSE
      OBVIOUS
    <2>1. Live = Threads
      BY DEF Live, Spare
    <2> QED BY <2>1
  <1>4. Spec => [](Spare # {})
    BY <1>1, <1>2, <1>3, Safe, PTL DEF Spec
  <1> QED BY <1>4, QueueIsNotLeft, PTL

================================================================================
