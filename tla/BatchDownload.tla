----------------------------- MODULE BatchDownload -----------------------------
(***************************************************************************)
(* XHttpBatchDownLoader (c#/code/XUtils/XHttpBatchDownloader.cs): a queue  *)
(* of files is fetched by a few threads.  A file with a known hash is      *)
(* written to <path>.temp, resumed from there by the next start, checked,  *)
(* given a second chance from its first byte when leftovers spoil it, and  *)
(* moved to its path.  A file without a hash is written in place.          *)
(*                                                                         *)
(* Modelled: StartDownLoad with its Reset (Thread.Abort is only a request, *)
(* so threads of an earlier start may go on for a while), the thread loop, *)
(* the three ways a server answers a range request, failures of requests,  *)
(* of reads, of opening, checking and moving files, the byte counter with  *)
(* its rollbacks, the death of the process at any moment.                  *)
(*                                                                         *)
(* Abstracted: a file is the sequence of its units; unit k of the server's *)
(* file is the number k and 0 is a unit of something else, so a hash       *)
(* matches exactly when the file is Want.  Hashes have the length that     *)
(* StartDownLoad asks for.  Paths of items differ.                         *)
(***************************************************************************)
EXTENDS Integers, Sequences, FiniteSets

CONSTANTS
    Items,       \* the items the host submits
    Order,       \* the list it submits them in
    Workers,     \* thread slots of one start (AsyncThreadLimit of them)
    Size,        \* units of every item's file
    Sized,       \* items whose size the host gives
    Hashed,      \* items whose hash the host gives
    Server,      \* how the server answers for an item: "range", "whole" or "chunked"
    InitPaths,   \* files that may be at an item's path at first
    InitTemps,   \* files that may be at its .temp path at first
    MaxStarts,   \* bound: starts of one process
    MaxFaults,   \* bound: failures of the network and of the file system
    MaxLen       \* bound: units of a file (a server without ranges makes it grow)

ASSUME ItemsAssumption ==
    /\ "none" \notin Items
    /\ Order \in Seq(Items)
    /\ \A it \in Items : \E i \in DOMAIN Order : Order[i] = it
    /\ \A i, j \in DOMAIN Order : Order[i] = Order[j] => i = j
    /\ Workers # {}
    /\ Sized \subseteq Items
    /\ Hashed \subseteq Items
    /\ Size \in Nat \ {0}
    /\ Server \in [Items -> {"range", "whole", "chunked"}]
    /\ MaxStarts \in Nat
    /\ MaxFaults \in Nat
    /\ MaxLen \in Nat /\ Size <= MaxLen

VARIABLES
    path,        \* the item's file
    temp,        \* the item's .temp file
    queue,       \* m_task_list
    status,      \* Item.status
    credit,      \* m_current_download_size, by the item the bytes were added for
    starts,      \* starts of this process
    pc,          \* where each thread is
    item,        \* the item a thread works on
    from,        \* start_pos of the item's first _WebDownload
    got,         \* download_size inside _WebDownload
    second,      \* the second chance is under way
    body,        \* what the response still has to give
    doomed,      \* threads on which Abort was called
    faults,      \* failures so far
    cut,         \* history: items whose answer ended too early in the second chance
    unchecked,   \* history: items whose check threw
    interfered   \* history: a thread of an earlier start acted on this one

fileVars == <<path, temp>>
itemVars == <<queue, status, credit>>
threadVars == <<pc, item, from, got, second, body, doomed>>
vars == <<fileVars, itemVars, threadVars, starts, faults, cut, unchecked, interfered>>

Absent == <<-1>>
NoItem == "none"
Want == [k \in 1 .. Size |-> k]
Files == {Absent} \cup UNION {[1 .. n -> 0 .. Size] : n \in 0 .. MaxLen}

ASSUME FilesAssumption == InitPaths \subseteq Files /\ InitTemps \subseteq Files

Thread == (1 .. MaxStarts) \X Workers
ThreadPC == {"none", "loop", "check", "request", "stream", "verify", "delete", "move", "dead"}
Live(t) == pc[t] \notin {"none", "dead"}
Straggler(t) == t[1] # starts
Interferes(t) == interfered' = (interfered \/ Straggler(t))

(* The file that a thread has open for an item, if it has one.               *)
HasOpen(t, it) == item[t] = it /\ pc[t] \in {"request", "stream", "verify"}
FileOf(it) == IF it \in Hashed THEN temp[it] ELSE path[it]
SetFile(it, f) ==
    IF it \in Hashed
    THEN temp' = [temp EXCEPT ![it] = f] /\ UNCHANGED path
    ELSE path' = [path EXCEPT ![it] = f] /\ UNCHANGED temp

(* Slip: the stream always appends.                                          *)
PutAtEnd(f, p, v) == Append(f, v)

(* The write at position p of the open stream; what is behind it stays.      *)
Put(f, p, v) == IF p <= Len(f) THEN [f EXCEPT ![p] = v] ELSE Append(f, v)

(* Slip: the hash is not compared.                                           *)
CheckSizeOnly(f, it) == it \in Sized => Len(f) = Size

(* CheckFileOk.                                                              *)
CheckFileOk(f, it) ==
    /\ it \in Sized => Len(f) = Size
    /\ it \in Hashed => f = Want

--------------------------------------------------------------------------------
Init ==
    /\ path \in [Items -> InitPaths]
    /\ temp \in [Items -> InitTemps]
    /\ \A it \in Items \ Hashed : temp[it] = Absent   \* never looked at
    /\ queue = <<>>
    /\ status = [it \in Items |-> "NotStart"]
    /\ credit = [it \in Items |-> 0]
    /\ starts = 0
    /\ pc = [t \in Thread |-> "none"]
    /\ item = [t \in Thread |-> NoItem]
    /\ from = [t \in Thread |-> 0]
    /\ got = [t \in Thread |-> 0]
    /\ second = [t \in Thread |-> FALSE]
    /\ body = [t \in Thread |-> <<>>]
    /\ doomed = {}
    /\ faults = 0
    /\ cut = {}
    /\ unchecked = {}
    /\ interfered = FALSE

(* Reset and the new start: Abort on the live threads, whose list is then    *)
(* cleared; the counter, the statuses and the queue set; the threads started. *)
StartDownLoad ==
    /\ starts < MaxStarts
    /\ doomed' = doomed \cup {t \in Thread : t[1] = starts /\ Live(t)}
    /\ starts' = starts + 1
    /\ queue' = Order
    /\ status' = [it \in Items |-> "NotStart"]
    /\ cut' = {}
    /\ unchecked' = {}
    /\ credit' = [it \in Items |-> 0]
    /\ pc' = [t \in Thread |-> IF t[1] = starts + 1 THEN "loop" ELSE pc[t]]
    /\ UNCHANGED <<fileVars, item, from, got, second, body, faults, interfered>>

--------------------------------------------------------------------------------
(* A thread's locals end with its item.                                      *)
Drop(t) ==
    /\ item' = [item EXCEPT ![t] = NoItem]
    /\ from' = [from EXCEPT ![t] = 0]
    /\ got' = [got EXCEPT ![t] = 0]
    /\ second' = [second EXCEPT ![t] = FALSE]
    /\ body' = [body EXCEPT ![t] = <<>>]

(* The thread loop: TryGetTask, ...                                          *)
TryGetTask(t) ==
    /\ pc[t] = "loop"
    /\ queue # <<>>
    /\ item' = [item EXCEPT ![t] = Head(queue)]
    /\ queue' = Tail(queue)
    /\ status' = [status EXCEPT ![Head(queue)] = "Started"]
    /\ pc' = [pc EXCEPT ![t] = "check"]
    /\ Interferes(t)
    /\ UNCHANGED <<fileVars, credit, starts, from, got, second, body, doomed, faults, cut,
                   unchecked>>

Exit(t) ==
    /\ pc[t] = "loop"
    /\ queue = <<>>
    /\ pc' = [pc EXCEPT ![t] = "dead"]
    /\ doomed' = doomed \ {t}
    /\ UNCHANGED <<fileVars, itemVars, starts, item, from, got, second, body, faults, cut,
                   unchecked, interfered>>

(* ... a file that is there already, ...                                     *)
There(it) == it \in Hashed /\ path[it] # Absent /\ CheckFileOk(path[it], it)

AlreadyThere(t) ==
    /\ pc[t] = "check"
    /\ There(item[t])
    /\ credit' = [credit EXCEPT ![item[t]] = @ + Len(path[item[t]])]
    /\ status' = [status EXCEPT ![item[t]] = "Finished"]
    /\ pc' = [pc EXCEPT ![t] = "loop"]
    /\ Drop(t)
    /\ Interferes(t)
    /\ UNCHANGED <<fileVars, queue, starts, doomed, faults, cut, unchecked>>

(* Slip: a complete .temp file is thrown away like one that is too long.     *)
KeepShorter(it) ==
    /\ it \in Hashed
    /\ temp[it] # Absent
    /\ ~(it \in Sized /\ Size <= Len(temp[it]))

(* ... or its download.  The .temp file is kept unless it is longer than the *)
(* size the host gave.                                                       *)
Keep(it) ==
    /\ it \in Hashed
    /\ temp[it] # Absent
    /\ ~(it \in Sized /\ Size < Len(temp[it]))

OthersHave(t, it) == \E u \in Thread \ {t} : HasOpen(u, it)

(* The end of the item in the catch block: what is still counted as          *)
(* download_size is taken back, the file is closed.                          *)
Fail(t, back) ==
    /\ credit' = [credit EXCEPT ![item[t]] = @ - back]
    /\ status' = [status EXCEPT ![item[t]] = "Error"]
    /\ pc' = [pc EXCEPT ![t] = "loop"]
    /\ Drop(t)

(* The file is open; _WebDownload counts start_pos, and has nothing to do    *)
(* when that is the whole size.                                              *)
Begin(t) ==
    /\ pc[t] = "check"
    /\ ~There(item[t])
    /\ ~OthersHave(t, item[t])
    /\ LET it == item[t]
           f == IF Keep(it) THEN temp[it] ELSE <<>>
       IN  /\ SetFile(it, f)
           /\ from' = [from EXCEPT ![t] = Len(f)]
           /\ got' = [got EXCEPT ![t] = Len(f)]
           /\ credit' = [credit EXCEPT ![it] = @ + Len(f)]
           /\ pc' = [pc EXCEPT ![t] = IF it \in Sized /\ Len(f) = Size THEN "verify" ELSE "request"]
    /\ second' = [second EXCEPT ![t] = FALSE]
    /\ Interferes(t)
    /\ UNCHANGED <<queue, status, starts, item, body, doomed, faults, cut, unchecked>>

(* The file cannot be opened: another thread has it open for itself alone,   *)
(* or its directory or itself cannot be made.                                *)
OpenFails(t) ==
    /\ pc[t] = "check"
    /\ ~There(item[t])
    /\ \/ OthersHave(t, item[t]) /\ UNCHANGED faults
       \/ faults < MaxFaults /\ faults' = faults + 1
    /\ Fail(t, 0)
    /\ Interferes(t)
    /\ UNCHANGED <<fileVars, queue, starts, doomed, cut, unchecked>>

--------------------------------------------------------------------------------
(* _WebDownload: the request and its answer.                                 *)
StartPos(t) == IF second[t] THEN 0 ELSE from[t]
Ranged(t) == Server[item[t]] = "range" /\ StartPos(t) > 0

(* A range that begins behind the file's last unit is refused (416); an      *)
(* answer with a length that does not add up to the size throws.             *)
Answer(t) == IF Ranged(t) THEN SubSeq(Want, StartPos(t) + 1, Size) ELSE Want
Refused(t) ==
    \/ Ranged(t) /\ StartPos(t) >= Size
    \/ /\ Server[item[t]] # "chunked"
       /\ item[t] \in Sized
       /\ StartPos(t) + Len(Answer(t)) # Size

RequestOk(t) ==
    /\ pc[t] = "request"
    /\ ~Refused(t)
    /\ body' = [body EXCEPT ![t] = Answer(t)]
    /\ pc' = [pc EXCEPT ![t] = "stream"]
    /\ Interferes(t)
    /\ UNCHANGED <<fileVars, itemVars, starts, item, from, got, second, doomed, faults, cut,
                   unchecked>>

RequestRefused(t) ==
    /\ pc[t] = "request"
    /\ Refused(t)
    /\ Fail(t, got[t])
    /\ Interferes(t)
    /\ UNCHANGED <<fileVars, queue, starts, doomed, faults, cut, unchecked>>

(* The request or a read throws: _WebDownload takes its bytes back.          *)
WebFails(t) ==
    /\ pc[t] \in {"request", "stream"}
    /\ faults < MaxFaults
    /\ faults' = faults + 1
    /\ Fail(t, got[t])
    /\ Interferes(t)
    /\ UNCHANGED <<fileVars, queue, starts, doomed, cut, unchecked>>

Read(t) ==
    /\ pc[t] = "stream"
    /\ body[t] # <<>>
    /\ got[t] < MaxLen
    /\ SetFile(item[t], Put(FileOf(item[t]), got[t] + 1, Head(body[t])))
    /\ body' = [body EXCEPT ![t] = Tail(@)]
    /\ got' = [got EXCEPT ![t] = @ + 1]
    /\ credit' = [credit EXCEPT ![item[t]] = @ + 1]
    /\ Interferes(t)
    /\ UNCHANGED <<queue, status, starts, pc, item, from, second, doomed, faults, cut,
                   unchecked>>

(* The response ends, perhaps too early.  An item without a hash is done     *)
(* with: the method returns at once.                                         *)
ReadEnd(t) ==
    /\ pc[t] = "stream"
    /\ body[t] # <<>> => faults < MaxFaults
    /\ faults' = IF body[t] = <<>> THEN faults ELSE faults + 1
    /\ cut' = IF body[t] # <<>> /\ second[t] THEN cut \cup {item[t]} ELSE cut
    /\ IF item[t] \in Hashed
       THEN /\ pc' = [pc EXCEPT ![t] = "verify"]
            /\ body' = [body EXCEPT ![t] = <<>>]
            /\ UNCHANGED <<item, from, got, second>>
       ELSE pc' = [pc EXCEPT ![t] = "loop"] /\ Drop(t)
    /\ Interferes(t)
    /\ UNCHANGED <<fileVars, itemVars, starts, doomed, unchecked>>

--------------------------------------------------------------------------------
(* The .temp file is complete and right, ...                                 *)
Verified(t) ==
    /\ pc[t] = "verify"
    /\ CheckFileOk(temp[item[t]], item[t])
    /\ pc' = [pc EXCEPT ![t] = "delete"]
    /\ Interferes(t)
    /\ UNCHANGED <<fileVars, itemVars, starts, item, from, got, second, body, doomed, faults,
                   cut, unchecked>>

(* Slip: what the first try added stays in the counter.                      *)
SecondChanceKeepsCredit(t) ==
    /\ pc[t] = "verify"
    /\ ~CheckFileOk(temp[item[t]], item[t])
    /\ from[t] > 0 /\ ~second[t]
    /\ got' = [got EXCEPT ![t] = 0]
    /\ second' = [second EXCEPT ![t] = TRUE]
    /\ pc' = [pc EXCEPT ![t] = "request"]
    /\ UNCHANGED <<fileVars, queue, credit, status, starts, item, from, body, doomed, faults,
                   cut, unchecked, interfered>>

(* ... or spoilt by what was there before: once more from the first unit,    *)
(* over what the file holds, ...                                             *)
SecondChance(t) ==
    /\ pc[t] = "verify"
    /\ ~CheckFileOk(temp[item[t]], item[t])
    /\ from[t] > 0 /\ ~second[t]
    /\ credit' = [credit EXCEPT ![item[t]] = @ - Len(temp[item[t]])]
    /\ got' = [got EXCEPT ![t] = 0]
    /\ second' = [second EXCEPT ![t] = TRUE]
    /\ pc' = [pc EXCEPT ![t] = "request"]
    /\ Interferes(t)
    /\ UNCHANGED <<fileVars, queue, status, starts, item, from, body, doomed, faults, cut,
                   unchecked>>

(* ... or wrong: the length of the file is taken back.                       *)
Fatal(t) ==
    /\ pc[t] = "verify"
    /\ ~CheckFileOk(temp[item[t]], item[t])
    /\ from[t] = 0 \/ second[t]
    /\ Fail(t, Len(temp[item[t]]))
    /\ Interferes(t)
    /\ UNCHANGED <<fileVars, queue, starts, doomed, faults, cut, unchecked>>

(* The check itself throws: its seek, its flush or its reads fail.           *)
(* _ThreadDownload has set its download_size not yet, so the catch block     *)
(* takes nothing back and what _WebDownload counted stays in the counter.    *)
VerifyFails(t) ==
    /\ pc[t] = "verify"
    /\ faults < MaxFaults
    /\ faults' = faults + 1
    /\ unchecked' = unchecked \cup {item[t]}
    /\ Fail(t, 0)
    /\ Interferes(t)
    /\ UNCHANGED <<fileVars, queue, starts, doomed, cut>>

(* The file is closed and put into its place in two steps: Delete, Move.     *)
Delete(t) ==
    /\ pc[t] = "delete"
    /\ path' = [path EXCEPT ![item[t]] = Absent]
    /\ pc' = [pc EXCEPT ![t] = "move"]
    /\ Interferes(t)
    /\ UNCHANGED <<temp, itemVars, starts, item, from, got, second, body, doomed, faults, cut,
                   unchecked>>

CanMove(t) ==
    /\ temp[item[t]] # Absent
    /\ path[item[t]] = Absent
    /\ ~OthersHave(t, item[t])

Move(t) ==
    /\ pc[t] = "move"
    /\ CanMove(t)
    /\ path' = [path EXCEPT ![item[t]] = temp[item[t]]]
    /\ temp' = [temp EXCEPT ![item[t]] = Absent]
    /\ status' = [status EXCEPT ![item[t]] = "Finished"]
    /\ pc' = [pc EXCEPT ![t] = "loop"]
    /\ Drop(t)
    /\ Interferes(t)
    /\ UNCHANGED <<queue, credit, starts, doomed, faults, cut, unchecked>>

(* Slip: an exception of Delete or Move leaves the item's status alone.      *)
PublishFailsSilently(t) ==
    /\ pc[t] \in {"delete", "move"}
    /\ \/ faults < MaxFaults /\ faults' = faults + 1
       \/ pc[t] = "move" /\ ~CanMove(t) /\ UNCHANGED faults
    /\ credit' = [credit EXCEPT ![item[t]] = @ - Len(Want)]
    /\ pc' = [pc EXCEPT ![t] = "loop"]
    /\ Drop(t)
    /\ Interferes(t)
    /\ UNCHANGED <<fileVars, queue, status, starts, doomed, cut, unchecked>>

(* Delete or Move throws, because another process has the file open or       *)
(* because of a thread of an earlier start.                                  *)
PublishFails(t) ==
    /\ pc[t] \in {"delete", "move"}
    /\ \/ faults < MaxFaults /\ faults' = faults + 1 /\ (pc[t] = "delete" => path[item[t]] # Absent)
       \/ pc[t] = "move" /\ ~CanMove(t) /\ UNCHANGED faults
    /\ Fail(t, Len(Want))
    /\ Interferes(t)
    /\ UNCHANGED <<fileVars, queue, starts, doomed, cut, unchecked>>

(* The abort reaches a thread at any later point: the catch blocks run like  *)
(* for any exception.  Outside of them the thread just ends.                 *)
Die(t) ==
    /\ t \in doomed
    /\ Live(t)
    /\ IF pc[t] \in {"loop", "check"}
       THEN UNCHANGED <<credit, status, interfered>>
       ELSE /\ status' = [status EXCEPT ![item[t]] = "Error"]
            /\ credit' = [credit EXCEPT ![item[t]] = @ -
                 CASE pc[t] \in {"request", "stream"} -> got[t]
                   [] pc[t] = "verify" -> 0
                   [] pc[t] \in {"delete", "move"} -> Len(Want)]
            /\ Interferes(t)
    /\ doomed' = doomed \ {t}
    /\ pc' = [pc EXCEPT ![t] = "dead"]
    /\ Drop(t)
    /\ UNCHANGED <<fileVars, queue, starts, faults, cut, unchecked>>

(* The process ends, by itself or by an exception outside of the try blocks  *)
(* (opening or hashing the file at the item's path); the files stay.         *)
Crash ==
    /\ starts # 0
    /\ queue' = <<>>
    /\ status' = [it \in Items |-> "NotStart"]
    /\ cut' = {}
    /\ unchecked' = {}
    /\ credit' = [it \in Items |-> 0]
    /\ starts' = 0
    /\ pc' = [t \in Thread |-> "none"]
    /\ item' = [t \in Thread |-> NoItem]
    /\ from' = [t \in Thread |-> 0]
    /\ got' = [t \in Thread |-> 0]
    /\ second' = [t \in Thread |-> FALSE]
    /\ body' = [t \in Thread |-> <<>>]
    /\ doomed' = {}
    /\ UNCHANGED <<fileVars, faults, interfered>>

ThreadNext(t) ==
    \/ TryGetTask(t) \/ Exit(t) \/ AlreadyThere(t) \/ Begin(t) \/ OpenFails(t)
    \/ RequestOk(t) \/ RequestRefused(t) \/ WebFails(t) \/ Read(t) \/ ReadEnd(t)
    \/ Verified(t) \/ SecondChance(t) \/ Fatal(t) \/ VerifyFails(t)
    \/ Delete(t) \/ Move(t) \/ PublishFails(t) \/ Die(t)

Next ==
    \/ StartDownLoad
    \/ \E t \in Thread : ThreadNext(t)
    \/ Crash

Spec == Init /\ [][Next]_vars

--------------------------------------------------------------------------------
(* Every variable holds a value of its kind (one type invariant).            *)
TypeOK ==
    /\ path \in [Items -> Files]
    /\ temp \in [Items -> Files]
    /\ queue \in Seq(Items)
    /\ status \in [Items -> {"NotStart", "Started", "Finished", "Error"}]
    /\ credit \in [Items -> Int]
    /\ starts \in 0 .. MaxStarts
    /\ pc \in [Thread -> ThreadPC]
    /\ item \in [Thread -> Items \cup {NoItem}]
    /\ from \in [Thread -> 0 .. MaxLen]
    /\ got \in [Thread -> 0 .. MaxLen]
    /\ second \in [Thread -> BOOLEAN]
    /\ doomed \subseteq Thread
    /\ faults \in 0 .. MaxFaults
    /\ cut \subseteq Items
    /\ unchecked \subseteq Items
    /\ interfered \in BOOLEAN

(* An item with a hash that is reported Finished has exactly the server's    *)
(* file at its path, whatever was lying there or in .temp before.            *)
FinishedIsVerified ==
    \A it \in Hashed : (status[it] = "Finished" /\ ~interfered) => path[it] = Want

(* Once a verified copy of a sized item is on disk, at its path or in .temp, *)
(* there is one for ever: not even a death between Delete and Move loses it. *)
HasCopy(it) == path[it] = Want \/ temp[it] = Want
VerifiedCopySurvives ==
    [][\A it \in Sized \cap Hashed : HasCopy(it) /\ ~interfered' => HasCopy(it)']_vars

(* CurrentDownloadSize counts a finished item once, a running item by what   *)
(* it has so far, and a failed item not at all, through every rollback of    *)
(* _WebDownload and of its caller.  One failure is never rolled back: when   *)
(* the check of the .temp file throws, all of that file stays counted until  *)
(* the next start.  For servers that honour ranges, and as long as no answer *)
(* ended early in a second chance: the caller takes the file's length for    *)
(* what that chance has read.                                                *)
WorksOn(t, it) == item[t] = it /\ ~Straggler(t)
CountsFor(it) ==
    IF \E t \in Thread : WorksOn(t, it) /\ pc[t] # "check"
    THEN got[CHOOSE t \in Thread : WorksOn(t, it) /\ pc[t] # "check"]
    ELSE IF status[it] = "Finished" THEN Len(path[it])
    ELSE IF it \in unchecked THEN Len(temp[it])
    ELSE 0
CreditExact ==
    ~interfered => \A it \in Hashed \ cut : Server[it] = "range" => credit[it] = CountsFor(it)

(* When the host sees IsDone, no item was forgotten: the queue is empty and  *)
(* every item with a hash was finished or given an error, whatever failed.   *)
IsDone == \A t \in Thread : t[1] = starts => ~Live(t)
DoneMeansSettled ==
    (starts > 0 /\ IsDone /\ ~interfered) =>
        queue = <<>> /\ \A it \in Hashed : status[it] \in {"Finished", "Error"}

(* An item whose server answers as it should and whose disk and network      *)
(* never fail is not lost: whatever the last run left in .temp is resumed    *)
(* ("resuming is supported when the hash is set", XHttpBatchDownloader.cs:17). *)
NoErrorWithoutFault ==
    faults = 0 /\ ~interfered =>
        \A it \in Hashed : Server[it] = "range" => status[it] # "Error"

================================================================================
