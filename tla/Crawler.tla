-------------------------------- MODULE Crawler --------------------------------
(***************************************************************************)
(* Worker (c#/other/DownloadWebsite/DownloadWebsite/Worker.cs) with the    *)
(* form that drives it: threads take addresses from one queue, save what   *)
(* they get and enqueue the links they find; each of them tries to start   *)
(* one more thread after every page; the last one to leave reports the     *)
(* end.  lock(this) guards the queue, the set of known addresses, the      *)
(* thread list and the thread counter.  Logs and status go through         *)
(* Control.Invoke, which waits until the UI thread is idle.                *)
(*                                                                         *)
(* Modelled: StartDownload and AbortDownload on the UI thread, Abort on    *)
(* one thread after the other under the lock, the whole loop of a thread   *)
(* with the order of its lock sections and of its calls to the UI, its     *)
(* catch blocks, failing pages and links, files from an earlier start.     *)
(* Thread.Abort waits while its target is in a catch block, and a thread   *)
(* it was called on may still take steps before it dies.                   *)
(*                                                                         *)
(* An address and the file it is saved to are two things: addresses are    *)
(* told apart as they are written (m_url_path), files by the unescaped and *)
(* sanitised path (m_file_path) and by a disk that may not tell capitals   *)
(* from small letters.  Several addresses may have one file.               *)
(*                                                                         *)
(* Abstracted: a page is its address, its kind and its links, a file what  *)
(* is in it; the address filters, the conversion of links to relative ones *)
(* and texts are left out, and so are the careful mode's HEAD requests.  A *)
(* lock section is one step.                                               *)
(***************************************************************************)
EXTENDS Integers, Sequences, FiniteSets

CONSTANTS
    Urls,        \* the site's addresses
    Root,        \* where the user starts
    Kind,        \* content type of every address: "html", "css" or "other"
    Links,       \* the links of every page, in the order they are handled
    Files,       \* the files that pages are saved to
    FileOf,      \* the file of every address: GetSaveFileNameFromUrl
    Limit,       \* m_thread_limit
    Threads,     \* bound: numbers of the threads that may exist
    ForceDownload, \* m_force_download
    MaxStarts,   \* bound: StartDownload calls
    MaxCancels,  \* bound: clicks on the cancel button
    MaxFaults    \* bound: exceptions thrown while pages are handled

ASSUME SiteAssumption ==
    /\ "none" \notin Urls
    /\ Root \in Urls
    /\ Kind \in [Urls -> {"html", "css", "other"}]
    /\ Links \in [Urls -> Seq(Urls)]
    /\ FileOf \in [Urls -> Files]
    /\ Kind[Root] = "html"
    /\ Limit \in Nat \ {0}
    /\ Threads \subseteq Nat
    /\ ForceDownload \in BOOLEAN
    /\ MaxStarts \in Nat /\ MaxCancels \in Nat /\ MaxFaults \in Nat

VARIABLES
    queue,       \* m_xurl_list
    seen,        \* m_urls_set
    cnt,         \* m_thread_cnt
    list,        \* m_thread_list
    stoped,      \* m_stoped
    file,        \* what is in every file: none, part or full
    pc,          \* where each thread is
    url,         \* the address a thread works on
    todo,        \* links of its page still to handle
    web,         \* the page comes from the web (and will be saved)
    ui,          \* where the UI thread is; anything but idle blocks Control.Invoke
    job,         \* what the UI thread aborts for: start or cancel
    doomed,      \* threads on which Abort was called
    starts, cancels, faults,  \* counted for the bounds
    crawl,       \* history: none, on (between StartDownload and AbortDownload) or off
    failed,      \* history: addresses whose handling failed or was refused
    said,        \* history: "finish" logged in this start (up to 2 are counted)
    interfered   \* history: a thread took a step after Abort was called on it

shared == <<queue, seen, cnt, list, stoped, file>>
threadVars == <<pc, url, todo, web, doomed>>
uiVars == <<ui, job, starts, cancels, crawl>>
vars == <<shared, threadVars, uiVars, faults, failed, said, interfered>>

NoUrl == "none"
ThreadPC == {"none", "start", "get", "refresh", "fetch", "links", "linked", "linkcatch", "save",
             "written", "log", "add", "added", "catch", "leave", "last", "say", "bye", "dead"}
InTry == {"fetch", "links", "linked", "save", "written", "log", "add", "added"}
InCatch == {"linkcatch", "catch"}
Alive(t) == pc[t] \notin {"none", "dead"}
LockFree == ui # "abort"   \* AbortDownload is the one long lock section
UiFree == ui = "idle"      \* Control.Invoke gets through
Interferes(t) == interfered' = (interfered \/ t \in doomed)
Goto(t, p) == pc' = [pc EXCEPT ![t] = p]

(* A thread's locals end with its page.                                      *)
Drop(t) ==
    /\ url' = [url EXCEPT ![t] = NoUrl]
    /\ todo' = [todo EXCEPT ![t] = <<>>]
    /\ web' = [web EXCEPT ![t] = FALSE]

Init ==
    /\ queue = <<>>
    /\ seen = {}
    /\ cnt = 0
    /\ list = {}
    /\ stoped = TRUE
    /\ file = [f \in Files |-> "none"]
    /\ pc = [t \in Threads |-> "none"]
    /\ url = [t \in Threads |-> NoUrl]
    /\ todo = [t \in Threads |-> <<>>]
    /\ web = [t \in Threads |-> FALSE]
    /\ ui = "idle" /\ job = "cancel"
    /\ doomed = {}
    /\ starts = 0 /\ cancels = 0 /\ faults = 0
    /\ crawl = "none"
    /\ failed = {}
    /\ said = 0
    /\ interfered = FALSE

--------------------------------------------------------------------------------
(* Slip: the address is enqueued and not remembered.                         *)
AddUrlForgets(u) ==
    IF u \in seen
    THEN UNCHANGED <<queue, seen>>
    ELSE queue' = Append(queue, u) /\ UNCHANGED seen

(* AddUrl's lock section: an address is enqueued when it is seen first.      *)
AddUrl(u) ==
    IF u \in seen
    THEN UNCHANGED <<queue, seen>>
    ELSE queue' = Append(queue, u) /\ seen' = seen \cup {u}

(* TryAddTheadToDownLoad's lock section: dead threads leave the list, and    *)
(* one is started when there is work and the limit is not reached.           *)
Spare == {t \in Threads : ~Alive(t)}

(* Slip: <= for <, one thread too many.                                      *)
Slack == ~stoped /\ queue # <<>> /\ Cardinality({t \in list : Alive(t)}) <= Limit /\ Spare # {}

Grows == ~stoped /\ queue # <<>> /\ Cardinality({t \in list : Alive(t)}) < Limit /\ Spare # {}
NewThread == CHOOSE t \in Spare : \A s \in Spare : t <= s
Pruned == {t \in list : Alive(t)}

TryAddThead(after) ==
    /\ list' = IF stoped THEN list ELSE IF Grows THEN Pruned \cup {NewThread} ELSE Pruned
    /\ pc' = IF Grows THEN [after EXCEPT ![NewThread] = "start"] ELSE after
    /\ doomed' = IF Grows THEN doomed \ {NewThread} ELSE doomed

--------------------------------------------------------------------------------
(* The UI thread.  Both handlers begin with AbortDownload: ...               *)
StartClick ==
    /\ ui = "idle"
    /\ starts < MaxStarts
    /\ starts' = starts + 1
    /\ ui' = "abort" /\ job' = "start" /\ crawl' = "off"
    /\ UNCHANGED <<shared, threadVars, cancels, faults, failed, said, interfered>>

CancelClick ==
    /\ ui = "idle"
    /\ cancels < MaxCancels
    /\ cancels' = cancels + 1
    /\ ui' = "abort" /\ job' = "cancel" /\ crawl' = "off"
    /\ UNCHANGED <<shared, threadVars, starts, faults, failed, said, interfered>>

(* ... Abort on every thread that lives, one after the other, each call      *)
(* waiting for its target to leave a catch block; the list is used up on the *)
(* way, for nobody sees it before the lock is released.                      *)
AbortThread(t) ==
    /\ ui = "abort"
    /\ t \in list
    /\ pc[t] \notin InCatch
    /\ list' = list \ {t}
    /\ doomed' = IF Alive(t) THEN doomed \cup {t} ELSE doomed
    /\ UNCHANGED <<queue, seen, cnt, stoped, file, pc, url, todo, web, uiVars, faults, failed, said,
                   interfered>>

(* The lock is released and the counter reset.                               *)
AbortDone ==
    /\ ui = "abort"
    /\ list = {}
    /\ cnt' = 0
    /\ ui' = IF job = "start" THEN "clear" ELSE "idle"
    /\ UNCHANGED <<queue, seen, list, stoped, file, threadVars, job, starts, cancels, crawl, faults,
                   failed, said, interfered>>

(* StartDownload goes on; the UI stays busy until the first thread runs.     *)
Clear ==
    /\ ui = "clear"
    /\ queue' = <<>> /\ seen' = {} /\ cnt' = 0
    /\ failed' = {} /\ said' = 0
    /\ ui' = "seed"
    /\ UNCHANGED <<list, stoped, file, threadVars, job, starts, cancels, crawl, faults, interfered>>

(* An address that is no page is refused, ...                                *)
Refuse ==
    /\ ui = "seed"
    /\ ui' = "idle"
    /\ UNCHANGED <<shared, threadVars, job, starts, cancels, crawl, faults, failed, said, interfered>>

(* ... any other is enqueued, and the first thread started.                  *)
Seed ==
    /\ ui = "seed"
    /\ AddUrl(Root)
    /\ ui' = "spawn"
    /\ UNCHANGED <<cnt, list, stoped, file, threadVars, job, starts, cancels, crawl, faults, failed,
                   said, interfered>>

Unstop ==
    /\ ui = "spawn" /\ stoped
    /\ stoped' = FALSE
    /\ UNCHANGED <<queue, seen, cnt, list, file, threadVars, uiVars, faults, failed, said, interfered>>

FirstThread ==
    /\ ui = "spawn" /\ ~stoped
    /\ TryAddThead(pc)
    /\ ui' = "idle" /\ crawl' = "on"
    /\ UNCHANGED <<queue, seen, cnt, stoped, file, url, todo, web, job, starts, cancels, faults,
                   failed, said, interfered>>

--------------------------------------------------------------------------------
(* A thread: ThreadDownload.                                                 *)
Enter(t) ==
    /\ pc[t] = "start" /\ LockFree
    /\ cnt' = cnt + 1
    /\ Goto(t, "get")
    /\ Interferes(t)
    /\ UNCHANGED <<queue, seen, list, stoped, file, url, todo, web, doomed, uiVars, faults, failed, said>>

GetUrl(t) ==
    /\ pc[t] = "get" /\ LockFree
    /\ IF ~stoped /\ queue # <<>>
       THEN queue' = Tail(queue) /\ url' = [url EXCEPT ![t] = Head(queue)] /\ Interferes(t)
       ELSE url' = [url EXCEPT ![t] = NoUrl] /\ UNCHANGED <<queue, interfered>>
    /\ Goto(t, "refresh")
    /\ UNCHANGED <<seen, cnt, list, stoped, file, todo, web, doomed, uiVars, faults, failed, said>>

(* A step of thread t that only waits for the UI.                            *)
Invoke(t, from, to) ==
    /\ pc[t] = from /\ UiFree
    /\ Goto(t, to)
    /\ IF to \in {"get", "dead"} THEN Drop(t) ELSE UNCHANGED <<url, todo, web>>
    /\ UNCHANGED <<shared, doomed, uiVars, faults, failed, said, interfered>>

Refresh(t) == Invoke(t, "refresh", IF url[t] = NoUrl THEN "leave" ELSE "fetch")

(* A file that is being written cannot be opened, neither to read it nor to  *)
(* write it: FileShare.Read.                                                 *)
OthersWrite(t) == \E s \in Threads \ {t} : pc[s] = "written" /\ FileOf[url[s]] = FileOf[url[t]]
Reads(t) == Kind[url[t]] # "other"
Cached(u) == ~ForceDownload /\ file[FileOf[u]] # "none"

(* The page's file is there: a thread reads the links of whichever page was  *)
(* saved to it, as far as the file goes, ...                                 *)
FetchCached(t) ==
    /\ pc[t] = "fetch"
    /\ Cached(url[t])
    /\ Reads(t) => ~OthersWrite(t)
    /\ web' = [web EXCEPT ![t] = FALSE]
    /\ \E u \in Urls : \E n \in 0 .. Len(Links[u]) :
          /\ FileOf[u] = FileOf[url[t]]
          /\ file[FileOf[u]] = "full" => n = Len(Links[u])
          /\ todo' = [todo EXCEPT ![t] = IF Reads(t) THEN SubSeq(Links[u], 1, n) ELSE <<>>]
    /\ Goto(t, "links")
    /\ UNCHANGED <<shared, url, doomed, uiVars, faults, failed, said, interfered>>

(* ... or the web has the page, ...                                          *)
Fetch(t) ==
    /\ pc[t] = "fetch"
    /\ ~Cached(url[t])
    /\ web' = [web EXCEPT ![t] = TRUE]
    /\ todo' = [todo EXCEPT ![t] = IF Reads(t) THEN Links[url[t]] ELSE <<>>]
    /\ Goto(t, "links")
    /\ UNCHANGED <<shared, url, doomed, uiVars, faults, failed, said, interfered>>

(* What is known of an address whose handling failed in this crawl.          *)
Fails(t) == failed' = IF t \in doomed THEN failed ELSE failed \cup {url[t]}

(* ... or the request fails, which GetData reports, ...                      *)
WebError(t) ==
    /\ pc[t] = "fetch"
    /\ ~Cached(url[t])
    /\ faults < MaxFaults /\ faults' = faults + 1
    /\ Fails(t)
    /\ Goto(t, "log")
    /\ UNCHANGED <<shared, url, todo, web, doomed, uiVars, said, interfered>>

(* ... or handling it throws: a link of a html page is given up alone.  A    *)
(* file whose writing throws stays as far as it got.                         *)
Throws(t) ==
    /\ pc[t] \in {"fetch", "links", "save", "written"}
    /\ faults < MaxFaults /\ faults' = faults + 1
    /\ Fails(t)
    /\ Goto(t, IF pc[t] = "links" /\ todo[t] # <<>> /\ Kind[url[t]] = "html" THEN "linkcatch" ELSE "catch")
    /\ UNCHANGED <<shared, url, todo, web, doomed, uiVars, said, interfered>>

(* Another thread writes the file, for an address with the same one.         *)
SharingViolation(t) ==
    /\ pc[t] = "save" \/ (pc[t] = "fetch" /\ Cached(url[t]) /\ Reads(t))
    /\ OthersWrite(t)
    /\ Fails(t)
    /\ Goto(t, "catch")
    /\ UNCHANGED <<shared, url, todo, web, doomed, uiVars, faults, said, interfered>>

(* The page's links, one lock section each.                                  *)
Link(t) ==
    /\ pc[t] = "links" /\ LockFree
    /\ todo[t] # <<>>
    /\ AddUrl(Head(todo[t]))
    /\ todo' = [todo EXCEPT ![t] = Tail(@)]
    /\ Goto(t, IF Head(todo[t]) \in seen THEN "links" ELSE "linked")
    /\ Interferes(t)
    /\ UNCHANGED <<cnt, list, stoped, file, url, web, doomed, uiVars, faults, failed, said>>

Linked(t) == Invoke(t, "linked", "links")

LinkCatch(t) ==
    /\ pc[t] = "linkcatch" /\ UiFree
    /\ todo' = [todo EXCEPT ![t] = Tail(@)]
    /\ Goto(t, IF t \in doomed THEN "catch" ELSE "links")
    /\ UNCHANGED <<shared, url, web, doomed, uiVars, faults, failed, said, interfered>>

LinksDone(t) ==
    /\ pc[t] = "links"
    /\ todo[t] = <<>>
    /\ Goto(t, IF web[t] THEN "save" ELSE "log")
    /\ UNCHANGED <<shared, url, todo, web, doomed, uiVars, faults, failed, said, interfered>>

(* The file is created, or emptied, and then filled.                         *)
Save(t) ==
    /\ pc[t] = "save" /\ ~stoped
    /\ ~OthersWrite(t)
    /\ file' = [file EXCEPT ![FileOf[url[t]]] = "part"]
    /\ Goto(t, "written")
    /\ Interferes(t)
    /\ UNCHANGED <<queue, seen, cnt, list, stoped, url, todo, web, doomed, uiVars, faults, failed, said>>

Saved(t) ==
    /\ pc[t] = "written"
    /\ file' = [file EXCEPT ![FileOf[url[t]]] = "full"]
    /\ Goto(t, "log")
    /\ Interferes(t)
    /\ UNCHANGED <<queue, seen, cnt, list, stoped, url, todo, web, doomed, uiVars, faults, failed, said>>

LogDown(t) == Invoke(t, "log", "add")

AddThread(t) ==
    /\ pc[t] = "add" /\ LockFree
    /\ TryAddThead([pc EXCEPT ![t] = IF Grows THEN "added" ELSE "get"])
    /\ Drop(t)
    /\ Interferes(t)
    /\ UNCHANGED <<queue, seen, cnt, stoped, file, uiVars, faults, failed, said>>

Added(t) == Invoke(t, "added", "get")

(* Slip: an exception ends the thread and not only its page.                 *)
CatchLeaves(t) == Invoke(t, "catch", IF t \in doomed THEN "dead" ELSE "leave")

(* The catch block logs; behind it an aborted thread goes on dying.          *)
Catch(t) == Invoke(t, "catch", IF t \in doomed THEN "dead" ELSE "get")

(* Slip: a thread leaves without being counted off.                          *)
LeaveUncounted(t) ==
    /\ pc[t] = "leave" /\ LockFree
    /\ Goto(t, "last")
    /\ UNCHANGED <<shared, url, todo, web, doomed, uiVars, faults, failed, said, interfered>>

Leave(t) ==
    /\ pc[t] = "leave" /\ LockFree
    /\ cnt' = cnt - 1
    /\ Goto(t, "last")
    /\ Interferes(t)
    /\ UNCHANGED <<queue, seen, list, stoped, file, url, todo, web, doomed, uiVars, faults, failed, said>>

(* Slip: every thread that leaves takes itself for the last one.             *)
LastAlways(t) ==
    /\ pc[t] = "last" /\ LockFree
    /\ Goto(t, "say")
    /\ UNCHANGED <<shared, url, todo, web, doomed, uiVars, faults, failed, said, interfered>>

(* RefreshStatus(true) looks at the counter once more under the lock, ...    *)
Last(t) ==
    /\ pc[t] = "last" /\ LockFree
    /\ Goto(t, IF cnt = 0 THEN "say" ELSE "bye")
    /\ UNCHANGED <<shared, url, todo, web, doomed, uiVars, faults, failed, said, interfered>>

(* ... calls the UI, and then logs the end.                                  *)
Say(t) ==
    /\ pc[t] = "say" /\ UiFree
    /\ said' = IF said = 2 THEN 2 ELSE said + 1
    /\ Goto(t, "dead")
    /\ Interferes(t)
    /\ UNCHANGED <<shared, url, todo, web, doomed, uiVars, faults, failed>>

Bye(t) == Invoke(t, "bye", "dead")

(* The abort reaches the thread: inside the loop's try through its catch.    *)
Die(t) ==
    /\ t \in doomed
    /\ Alive(t) /\ pc[t] \notin InCatch
    /\ Goto(t, IF pc[t] \in InTry THEN "catch" ELSE "dead")
    /\ IF pc[t] \in InTry THEN UNCHANGED <<url, todo, web>> ELSE Drop(t)
    /\ UNCHANGED <<shared, doomed, uiVars, faults, failed, said, interfered>>

--------------------------------------------------------------------------------
UiSteps == (\E t \in Threads : AbortThread(t)) \/ AbortDone \/ Clear \/ Refuse \/ Seed \/ Unstop \/ FirstThread

ThreadNext(t) ==
    \/ Enter(t) \/ GetUrl(t) \/ Refresh(t) \/ FetchCached(t) \/ Fetch(t) \/ WebError(t)
    \/ Throws(t) \/ SharingViolation(t)
    \/ Link(t) \/ Linked(t) \/ LinkCatch(t) \/ LinksDone(t) \/ Save(t) \/ Saved(t)
    \/ LogDown(t) \/ AddThread(t) \/ Added(t) \/ Catch(t) \/ Leave(t) \/ Last(t)
    \/ Say(t) \/ Bye(t) \/ Die(t)

Next ==
    \/ StartClick \/ CancelClick
    \/ UiSteps
    \/ \E t \in Threads : ThreadNext(t)

Spec == Init /\ [][Next]_vars

(* Every thread and every handler goes on; nobody has to click.              *)
FairSpec == Spec /\ WF_vars(UiSteps) /\ \A t \in Threads : WF_vars(ThreadNext(t))

--------------------------------------------------------------------------------
(* Every variable holds a value of its kind (one type invariant).            *)
TypeOK ==
    /\ queue \in Seq(Urls)
    /\ seen \subseteq Urls
    /\ cnt \in Int
    /\ list \subseteq Threads /\ Cardinality({t \in list : Alive(t)}) <= Limit
    /\ stoped \in BOOLEAN
    /\ file \in [Files -> {"none", "part", "full"}]
    /\ pc \in [Threads -> ThreadPC]
    /\ url \in [Threads -> Urls \cup {NoUrl}]
    /\ todo \in [Threads -> Seq(Urls)]
    /\ web \in [Threads -> BOOLEAN]
    /\ ui \in {"idle", "abort", "clear", "seed", "spawn"}
    /\ job \in {"start", "cancel"}
    /\ doomed \subseteq Threads
    /\ starts \in 0 .. MaxStarts /\ cancels \in 0 .. MaxCancels /\ faults \in 0 .. MaxFaults
    /\ crawl \in {"none", "on", "off"}
    /\ failed \subseteq Urls
    /\ said \in 0 .. 2
    /\ interfered \in BOOLEAN

(* "finish: Success" is true: when a thread has decided to say so, nothing   *)
(* is queued, no thread handles a page, and every address that was found was *)
(* reported as failed or has its file, whole unless the writing for another  *)
(* address with that file failed.  (The page in it may be that other one's.) *)
(* From the second start on a file may also be the half that an aborted      *)
(* thread left: it counts as cached.                                         *)
Handling(t) == url[t] # NoUrl /\ pc[t] \in InTry \cup InCatch \cup {"refresh"}
SuccessIsTrue ==
    (crawl = "on" /\ ~interfered /\ (said > 0 \/ \E t \in Threads \ doomed : pc[t] = "say")) =>
        /\ queue = <<>>
        /\ \A t \in Threads \ doomed : ~Handling(t)
        /\ \A u \in seen \ failed :
              \/ file[FileOf[u]] = "full"
              \/ file[FileOf[u]] = "part" /\ (starts > 1 \/ \E v \in failed : FileOf[v] = FileOf[u])

(* No address waits for nobody: while something is queued, a thread of this  *)
(* crawl is on its way to look, whichever of them failed or left before.     *)
ComesToLook(t) == Alive(t) /\ pc[t] \notin {"leave", "last", "say", "bye"}
    /\ ~(pc[t] = "refresh" /\ url[t] = NoUrl)
QueueIsWatched ==
    (crawl = "on" /\ ~interfered /\ queue # <<>>) => \E t \in list \ doomed : ComesToLook(t)

(* No two threads of a crawl handle one address, however often it is linked  *)
(* while it is queued or handled.  (Nothing like it holds of files: threads  *)
(* that handle two addresses with one file get into each other's way.)       *)
OneThreadPerAddress ==
    ~interfered => \A t, s \in Threads \ doomed :
        (t # s /\ Handling(t) /\ Handling(s)) => url[t] # url[s]

(* A crawl that nobody stops reports its end.                                *)
Ends == (crawl = "on") ~> (crawl # "on" \/ said > 0 \/ interfered)

(* "The last thread to exit refreshes the status" (comment at Worker.cs:69): *)
(* the end is logged once.                                                   *)
SaidOnce == said <= 1

(* A click is handled to its end: two locks are never waited for in a circle *)
(* (Readme.md of DownloadWebsite).                                           *)
UiReturns == (ui # "idle") ~> (ui = "idle")

================================================================================
