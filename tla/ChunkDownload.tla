----------------------------- MODULE ChunkDownload -----------------------------
(***************************************************************************)
(* XHttpDownLoader (c#/code/XUtils/XHttpDownLoader.cs): one large file is  *)
(* fetched in blocks by several threads.  The progress of every block is   *)
(* kept in a trailer behind the file's data (one long per block and a      *)
(* marker byte 233), so that a later start, in this process or in the      *)
(* next one, resumes where the file says.  The trailer is cut off when the *)
(* host's poll sees that every byte was counted.                           *)
(*                                                                         *)
(* Modelled: StartDownLoadBigFile with its reset, HEAD request, the        *)
(* trailer's three cases and the spawning of the threads; the block loop   *)
(* with its retries, short answers and refused answers; the order in which *)
(* data and progress reach the disk; AbortDownloadBigFile, whose           *)
(* Thread.Abort is only a request, so that threads of an earlier start run *)
(* on for a while; CheckIsFinished; the death of the process at any        *)
(* moment, as often as it likes.                                           *)
(*                                                                         *)
(* Abstracted: bytes are offsets, and an offset is good when the file      *)
(* holds the server's byte there.  The file's length is one of four        *)
(* classes.  A file of another length holds no valid trailer at the place  *)
(* where this download puts its own.                                       *)
(***************************************************************************)
EXTENDS Integers, FiniteSets

CONSTANTS
    FileSize,    \* length of the file on the server
    BlockSize,   \* bytes of a block
    Workers,     \* thread slots of one start (DownloadThreadCount of them)
    MaxStarts,   \* bound: starts of one process
    MaxRead,     \* most bytes one read of the response returns
    IntMod       \* number of values of a C# int: 2^32 in the program

ASSUME SizesAssumption ==
    /\ FileSize \in Nat \ {0}
    /\ BlockSize \in Nat \ {0}
    /\ MaxRead \in Nat \ {0}
    /\ MaxStarts \in Nat
    /\ IsFiniteSet(Workers)
    /\ IntMod \in Nat \ {0} /\ IntMod % 2 = 0

VARIABLES
    len,         \* length of the file: absent, data (= size), full (with trailer), other
    good,        \* offsets below FileSize at which the file holds the server's byte
    meta,        \* the trailer: progress of every block as the file has it
    mark,        \* the trailer's last byte is 233
    host,        \* where the thread that owns the downloader is
    starts,      \* starts of this process
    listOf,      \* the start whose blocks m_chunk_info_list holds
    curr,        \* ChunkInfo.curr of every start's blocks
    nextIdx,     \* m_next_chunk_info_idx
    total,       \* m_total_size
    current,     \* m_current_size
    pc,          \* where each thread is
    chunk,       \* the block a thread works on: <<start, index>>
    pend,        \* progress in the thread's file buffer that is not on disk yet
    inc,         \* bytes written and not yet counted
    doomed,      \* threads on which Abort was called
    interfered   \* history: a thread of an earlier start acted on this one

fileVars == <<len, good, meta, mark>>
hostVars == <<host, starts, listOf, nextIdx, total>>
threadVars == <<pc, chunk, pend, inc, doomed>>
vars == <<fileVars, hostVars, threadVars, curr, current, interfered>>

Bytes == 0 .. FileSize - 1
Thread == (1 .. MaxStarts) \X Workers
Min2(a, b) == IF a < b THEN a ELSE b

(* InitChunkList: the number of blocks, and what a block covers.  The        *)
(* product BlockSize * i is one of two ints and wraps around before it is    *)
(* widened to a long.                                                        *)
Cnt == (FileSize + BlockSize - 1) \div BlockSize
Chunks == 0 .. Cnt - 1
Int32(x) == ((x + IntMod \div 2) % IntMod) - IntMod \div 2
From(i) == Int32(BlockSize * i)
To(i) == Min2(FileSize - 1, From(i) + BlockSize - 1)

NoMeta == -1
NoChunk == <<0, 0>>
HostPC == {"idle", "head", "meta", "run", "join", "done", "aborted", "failed"}
ThreadPC == {"none", "idle", "chunk", "open", "stream", "count", "dead"}
Live(t) == pc[t] \notin {"none", "dead"}
HasFileOpen(t) == pc[t] \in {"open", "stream", "count"}
ListThreads == {t \in Thread : t[1] = starts}  \* m_thread_list until it is cleared
Straggler(t) == t[1] # starts

Curr(t) == curr[chunk[t][1]][chunk[t][2]]
Finished(t) == Curr(t) = To(chunk[t][2]) + 1

--------------------------------------------------------------------------------
(* The file's first state: none, one of some other length, or the outcome of *)
(* a finished download.                                                      *)
Init ==
    /\ \/ len \in {"absent", "other"} /\ good = {}
       \/ len = "data" /\ good = Bytes
    /\ meta = [i \in Chunks |-> 0]
    /\ mark = FALSE
    /\ host = "idle"
    /\ starts = 0
    /\ listOf = 0
    /\ curr = [s \in 1 .. MaxStarts |-> [i \in Chunks |-> 0]]
    /\ nextIdx = 0
    /\ total = 0
    /\ current = 0
    /\ pc = [t \in Thread |-> "none"]
    /\ chunk = [t \in Thread |-> NoChunk]
    /\ pend = [t \in Thread |-> NoMeta]
    /\ inc = [t \in Thread |-> 0]
    /\ doomed = {}
    /\ interfered = FALSE

--------------------------------------------------------------------------------
(* The host: start, abort, poll.                                             *)

AbortAll == doomed' = doomed \cup {t \in ListThreads : Live(t)}

(* Slip: the reset forgets m_current_size.                                   *)
StartKeepsCounter ==
    /\ host \in {"idle", "run", "done", "aborted", "failed"}
    /\ starts < MaxStarts
    /\ AbortAll
    /\ starts' = starts + 1
    /\ total' = 0
    /\ host' = "head"
    /\ UNCHANGED <<fileVars, listOf, nextIdx, curr, current, pc, chunk, pend, inc, interfered>>

(* Reset: Abort on every live thread, the list and the counters cleared.     *)
Start ==
    /\ host \in {"idle", "run", "done", "aborted", "failed"}
    /\ starts < MaxStarts
    /\ AbortAll
    /\ starts' = starts + 1
    /\ total' = 0
    /\ current' = 0
    /\ host' = "head"
    /\ UNCHANGED <<fileVars, listOf, nextIdx, curr, pc, chunk, pend, inc, interfered>>

(* GetWebFileSize answers or throws.                                         *)
HeadFails ==
    /\ host = "head"
    /\ host' = "failed"
    /\ UNCHANGED <<fileVars, starts, listOf, nextIdx, total, threadVars, curr, current, interfered>>

(* Slip: a finished block's progress is taken for out of range.              *)
ValidMetaStrict == \A i \in Chunks : From(i) <= meta[i] /\ meta[i] < To(i) + 1

ValidMeta == \A i \in Chunks : From(i) <= meta[i] /\ meta[i] <= To(i) + 1

(* What progress p says is there, block by block: summing curr - from over   *)
(* the blocks counts these pairs.                                            *)
Recorded(p) == UNION {{i} \X (From(i) .. p[i] - 1) : i \in Chunks}

NewList ==
    /\ host = "head"
    /\ total' = FileSize
    /\ nextIdx' = 0
    /\ listOf' = starts

Spawn == pc' = [t \in Thread |-> IF t[1] = starts THEN "idle" ELSE pc[t]]

(* InitChunkList opens the file for itself alone: a thread that still has it *)
(* open makes the start throw, after the list was rebuilt.                   *)
InitSharingViolation ==
    /\ NewList
    /\ \E t \in Thread : HasFileOpen(t)
    /\ host' = "failed"
    /\ UNCHANGED <<fileVars, starts, threadVars, curr, current, interfered>>

(* A file with a trailer that the marker and the ranges confirm.             *)
InitResume ==
    /\ NewList
    /\ \A t \in Thread : ~HasFileOpen(t)
    /\ len = "full" /\ mark /\ ValidMeta
    /\ curr' = [curr EXCEPT ![starts] = meta]
    /\ current' = current + Cardinality(Recorded(meta))
    /\ Spawn
    /\ host' = "run"
    /\ UNCHANGED <<fileVars, starts, chunk, pend, inc, doomed, interfered>>

(* Any other file gets a trailer: it is stretched or cut to its new length,  *)
(* and until the trailer is written its last byte is not 233.                *)
InitSetLength ==
    /\ NewList
    /\ \A t \in Thread : ~HasFileOpen(t)
    /\ ~(len = "full" /\ mark /\ ValidMeta)
    /\ IF len = "data"
       THEN curr' = [curr EXCEPT ![starts] = [i \in Chunks |-> To(i) + 1]]
       ELSE curr' = [curr EXCEPT ![starts] = [i \in Chunks |-> From(i)]]
    /\ len' = "full"
    /\ IF len = "full"
       THEN UNCHANGED <<meta, mark>>
       ELSE meta' = [i \in Chunks |-> 0] /\ mark' = FALSE
    /\ current' = IF len = "data" THEN FileSize ELSE 0
    /\ host' = "meta"
    /\ UNCHANGED <<good, starts, threadVars, interfered>>

(* The trailer reaches the disk when the file is closed; the threads start.  *)
InitWriteMeta ==
    /\ host = "meta"
    /\ meta' = curr[starts]
    /\ mark' = TRUE
    /\ Spawn
    /\ host' = "run"
    /\ UNCHANGED <<len, good, starts, listOf, nextIdx, total, chunk, pend, inc, doomed,
                   curr, current, interfered>>

AbortDownloadBigFile ==
    /\ host \in {"run", "done"}
    /\ AbortAll
    /\ host' = "aborted"
    /\ UNCHANGED <<fileVars, starts, listOf, nextIdx, total, pc, chunk, pend, inc, curr,
                   current, interfered>>

(* CheckIsFinished: the counter says that all is there, ...                  *)
PollFinished ==
    /\ host \in {"run", "aborted"}
    /\ current = total
    /\ host' = "join"
    /\ UNCHANGED <<fileVars, starts, listOf, nextIdx, total, threadVars, curr, current, interfered>>

(* ... the threads of the list are joined (after an abort it is empty), and  *)
(* the file is cut to what the counter says by then.                         *)
Joined == \A t \in ListThreads : t \in doomed \/ ~Live(t)

(* Slip: the threads are not joined.                                         *)
PollCutAtOnce ==
    /\ host = "join"
    /\ len' = IF current = FileSize THEN "data" ELSE "other"
    /\ host' = "done"
    /\ UNCHANGED <<good, meta, mark, starts, listOf, nextIdx, total, threadVars, curr,
                   current, interfered>>

PollCut ==
    /\ host = "join"
    /\ Joined
    /\ len' = IF current = FileSize THEN "data" ELSE "other"
    /\ host' = "done"
    /\ UNCHANGED <<good, meta, mark, starts, listOf, nextIdx, total, threadVars, curr,
                   current, interfered>>

--------------------------------------------------------------------------------
(* A thread: DownloadChunkStart.                                             *)

(* The buffered progress goes to its place in the trailer; a file that was   *)
(* cut before grows again.                                                   *)
Flush(t) ==
    IF pend[t] = NoMeta
    THEN UNCHANGED <<len, meta>>
    ELSE /\ meta' = [meta EXCEPT ![chunk[t][2]] = pend[t]]
         /\ len' = IF len = "data" THEN "other" ELSE len

Interferes(t) == interfered' = (interfered \/ Straggler(t))

(* Slip: the index is compared with <= instead of <.                         *)
TakeOneTooMany(t) ==
    /\ pc[t] = "idle"
    /\ nextIdx <= Cnt
    /\ chunk' = [chunk EXCEPT ![t] = <<listOf, nextIdx>>]
    /\ nextIdx' = nextIdx + 1
    /\ pc' = [pc EXCEPT ![t] = "chunk"]
    /\ Interferes(t)
    /\ UNCHANGED <<fileVars, host, starts, listOf, total, curr, current, pend, inc, doomed>>

(* LockGetNextChunkInfo; without a block the thread ends.                    *)
Take(t) ==
    /\ pc[t] = "idle"
    /\ nextIdx < Cnt
    /\ chunk' = [chunk EXCEPT ![t] = <<listOf, nextIdx>>]
    /\ nextIdx' = nextIdx + 1
    /\ pc' = [pc EXCEPT ![t] = "chunk"]
    /\ Interferes(t)
    /\ UNCHANGED <<fileVars, host, starts, listOf, total, curr, current, pend, inc, doomed>>

(* Slip: a thread without a block asks again.                                *)
ExitNever(t) == pc[t] = "idle" /\ nextIdx >= Cnt /\ UNCHANGED vars

Exit(t) ==
    /\ pc[t] = "idle"
    /\ nextIdx >= Cnt
    /\ pc' = [pc EXCEPT ![t] = "dead"]
    /\ UNCHANGED <<fileVars, hostVars, curr, current, chunk, pend, inc, doomed, interfered>>

ChunkFinished(t) ==
    /\ pc[t] = "chunk"
    /\ Finished(t)
    /\ pc' = [pc EXCEPT ![t] = "idle"]
    /\ UNCHANGED <<fileVars, hostVars, curr, current, chunk, pend, inc, doomed, interfered>>

(* While the host holds the file alone, opening it throws outside the try    *)
(* and takes the process down: that is Crash.                                *)
Open(t) ==
    /\ pc[t] = "chunk"
    /\ ~Finished(t)
    /\ host # "meta"
    /\ pc' = [pc EXCEPT ![t] = "open"]
    /\ Interferes(t)
    /\ UNCHANGED <<fileVars, hostVars, curr, current, chunk, pend, inc, doomed>>

(* AddRange refuses a negative offset; otherwise the server may answer with  *)
(* the range, ...                                                            *)
RequestOk(t) ==
    /\ pc[t] = "open"
    /\ Curr(t) >= 0
    /\ pc' = [pc EXCEPT ![t] = "stream"]
    /\ UNCHANGED <<fileVars, hostVars, curr, current, chunk, pend, inc, doomed, interfered>>

(* ... with another length, which leaves the block's loop for good, ...      *)
RequestMismatch(t) ==
    /\ pc[t] = "open"
    /\ Curr(t) >= 0
    /\ pc' = [pc EXCEPT ![t] = "idle"]
    /\ UNCHANGED <<fileVars, hostVars, curr, current, chunk, pend, inc, doomed, interfered>>

(* ... or not at all: MaxTryTime is -1, so every exception is retried.       *)
RequestFails(t) ==
    /\ pc[t] = "open"
    /\ pc' = [pc EXCEPT ![t] = "chunk"]
    /\ UNCHANGED <<fileVars, hostVars, curr, current, chunk, pend, inc, doomed, interfered>>

(* Slip: the progress reaches the disk before the data it speaks of, which   *)
(* is still in the stream's buffer.                                          *)
WriteMetaFirst(t, n) ==
    /\ pc[t] = "stream"
    /\ Curr(t) + n <= To(chunk[t][2]) + 1
    /\ meta' = [meta EXCEPT ![chunk[t][2]] = Curr(t) + n]
    /\ curr' = [curr EXCEPT ![chunk[t][1]][chunk[t][2]] = @ + n]
    /\ inc' = [inc EXCEPT ![t] = n]
    /\ pc' = [pc EXCEPT ![t] = "count"]
    /\ UNCHANGED <<len, good, mark, hostVars, current, chunk, pend, doomed, interfered>>

(* ChunkInfo.Write of n bytes.  The first Seek flushes the progress of the   *)
(* write before, the second one the data; the new progress stays buffered.   *)
(* The response has no more bytes than were asked for.                       *)
Write(t, n) ==
    /\ pc[t] = "stream"
    /\ Curr(t) + n <= To(chunk[t][2]) + 1
    /\ Flush(t)
    /\ good' = good \cup (Curr(t) .. Curr(t) + n - 1)
    /\ curr' = [curr EXCEPT ![chunk[t][1]][chunk[t][2]] = @ + n]
    /\ pend' = [pend EXCEPT ![t] = Curr(t) + n]
    /\ inc' = [inc EXCEPT ![t] = n]
    /\ pc' = [pc EXCEPT ![t] = "count"]
    /\ UNCHANGED <<mark, hostVars, current, chunk, doomed, interfered>>

(* WriteToChunk, under the lock.                                             *)
Count(t) ==
    /\ pc[t] = "count"
    /\ current' = current + inc[t]
    /\ inc' = [inc EXCEPT ![t] = 0]
    /\ pc' = [pc EXCEPT ![t] = "stream"]
    /\ Interferes(t)
    /\ UNCHANGED <<fileVars, hostVars, curr, chunk, pend, doomed>>

(* Slip: a retry starts the block again and leaves the counter alone.        *)
CloseFileRestarts(t) ==
    /\ pc[t] = "stream"
    /\ Flush(t)
    /\ pend' = [pend EXCEPT ![t] = NoMeta]
    /\ curr' = [curr EXCEPT ![chunk[t][1]][chunk[t][2]] = From(chunk[t][2])]
    /\ pc' = [pc EXCEPT ![t] = "chunk"]
    /\ UNCHANGED <<good, mark, hostVars, current, chunk, inc, doomed, interfered>>

(* The response is at its end, or a read throws: the file is closed and the  *)
(* block looked at again.                                                    *)
CloseFile(t) ==
    /\ pc[t] = "stream"
    /\ Flush(t)
    /\ pend' = [pend EXCEPT ![t] = NoMeta]
    /\ pc' = [pc EXCEPT ![t] = "chunk"]
    /\ UNCHANGED <<good, mark, hostVars, curr, current, chunk, inc, doomed, interfered>>

(* The abort reaches the thread at any later point; its file is disposed.    *)
Die(t) ==
    /\ t \in doomed
    /\ Live(t)
    /\ Flush(t)
    /\ pend' = [pend EXCEPT ![t] = NoMeta]
    /\ inc' = [inc EXCEPT ![t] = 0]
    /\ pc' = [pc EXCEPT ![t] = "dead"]
    /\ UNCHANGED <<good, mark, hostVars, curr, current, chunk, doomed, interfered>>

(* The process ends: the buffers are gone, the file stays as it is.          *)
Crash ==
    /\ host' = "idle"
    /\ starts' = 0
    /\ listOf' = 0
    /\ curr' = [s \in 1 .. MaxStarts |-> [i \in Chunks |-> 0]]
    /\ nextIdx' = 0
    /\ total' = 0
    /\ current' = 0
    /\ pc' = [t \in Thread |-> "none"]
    /\ chunk' = [t \in Thread |-> NoChunk]
    /\ pend' = [t \in Thread |-> NoMeta]
    /\ inc' = [t \in Thread |-> 0]
    /\ doomed' = {}
    /\ UNCHANGED <<fileVars, interfered>>

ReadSome(t) == \E n \in 1 .. MaxRead : Write(t, n)

HostNext ==
    \/ Start \/ HeadFails \/ InitSharingViolation \/ InitResume \/ InitSetLength
    \/ InitWriteMeta \/ AbortDownloadBigFile \/ PollFinished \/ PollCut

ThreadNext(t) ==
    \/ Take(t) \/ Exit(t) \/ ChunkFinished(t) \/ Open(t)
    \/ RequestOk(t) \/ RequestMismatch(t) \/ RequestFails(t)
    \/ ReadSome(t) \/ Count(t) \/ CloseFile(t) \/ Die(t)

Next == HostNext \/ (\E t \in Thread : ThreadNext(t)) \/ Crash

Spec == Init /\ [][Next]_vars

(* The host polls until it is told that the file is there, and threads keep  *)
(* running; a request times out.  What fails is retried for ever, so         *)
(* progress needs a network that answers again and again.                    *)
Runs(t) ==
    \/ Take(t) \/ Exit(t) \/ ChunkFinished(t) \/ Open(t) \/ Count(t) \/ CloseFile(t)
    \/ RequestOk(t) \/ RequestMismatch(t) \/ RequestFails(t)

Fairness ==
    /\ WF_vars(PollFinished \/ PollCut)
    /\ \A t \in Thread : WF_vars(Runs(t)) /\ SF_vars(RequestOk(t)) /\ SF_vars(ReadSome(t))

FairSpec == Spec /\ Fairness

--------------------------------------------------------------------------------
(* Every variable holds a value of its kind (one type invariant).            *)
TypeOK ==
    /\ len \in {"absent", "data", "full", "other"}
    /\ good \subseteq Bytes
    /\ meta \in [Chunks -> Int]
    /\ mark \in BOOLEAN
    /\ host \in HostPC
    /\ starts \in 0 .. MaxStarts
    /\ listOf \in 0 .. starts
    /\ curr \in [1 .. MaxStarts -> [Chunks -> Int]]
    /\ nextIdx \in 0 .. Cnt
    /\ total \in {0, FileSize}
    /\ current \in Int
    /\ pc \in [Thread -> ThreadPC]
    /\ chunk \in [Thread -> {NoChunk} \cup ((1 .. MaxStarts) \X Chunks)]
    /\ pend \in [Thread -> Int]
    /\ inc \in [Thread -> Nat]
    /\ doomed \subseteq Thread
    /\ interfered \in BOOLEAN

(* The progress on disk is never ahead of the data on disk: whatever a       *)
(* resumed start skips was really written, wherever the process or a thread  *)
(* was stopped before (ChunkInfo.Write against InitChunkList).               *)
MetaNeverAheadOfData ==
    (len = "full" /\ mark /\ ~interfered) =>
        \A i \in Chunks : \A b \in Bytes : (From(i) <= b /\ b < meta[i]) => b \in good

(* A file of the server's length is the server's file: it is what the next   *)
(* start believes (comment in InitChunkList, case 3) and what CheckIsFinished *)
(* returned true for, unless a thread of an earlier start interfered.        *)
PlainLengthMeansComplete == (len = "data" /\ ~interfered) => good = Bytes

(* The counter that the poll trusts counts every byte that the blocks have   *)
(* and that no thread is about to count.                                     *)
Uncounted == {p \in ListThreads \X (1 .. MaxRead) : p[2] <= inc[p[1]]}

CounterMatchesBlocks ==
    (host \in {"run", "join", "done"} /\ ~interfered) =>
        current = Cardinality(Recorded(curr[starts])) - Cardinality(Uncounted)

(* Progress on disk only grows: no thread writes an older value over a newer *)
(* one, and no restart throws a valid trailer away.                          *)
ProgressNeverLost ==
    [][(len = "full" /\ mark /\ len' = "full" /\ mark' /\ ~interfered') =>
          \A i \in Chunks : meta'[i] >= meta[i]]_vars

(* A block that was handed out and is not finished is in some thread's hands. *)
HandedOut(i) ==
    \E t \in Thread : pc[t] \in {"chunk", "open", "stream", "count"} /\ chunk[t] = <<listOf, i>>
NoBlockAbandoned ==
    host = "run" => \A i \in Chunks :
        i < nextIdx => curr[starts][i] = To(i) + 1 \/ HandedOut(i)

(* A running download ends: the poll answers true, unless the host stops it, *)
(* the process dies, a refused answer made a thread drop its block, or a     *)
(* thread of an earlier start interfered.                                    *)
Completes ==
    (host \in {"run", "join"}) ~>
        (host \notin {"run", "join"} \/ ~NoBlockAbandoned \/ interfered)

--------------------------------------------------------------------------------
(* What a start finds on disk and does not fetch again.                      *)
Kept ==
    IF len = "data" THEN Bytes
    ELSE {b \in Bytes : len = "full" /\ mark
                        /\ \E i \in Chunks : From(i) <= b /\ b < meta[i]}

File == INSTANCE ResumableFile WITH
    data <- good, kept <- Kept, complete <- (len = "data"),
    starting <- (host = "head"), aborted <- (doomed # {}), foreign <- interfered

(* The downloader implements the resumable file: no step of a thread, start, *)
(* abort, poll or crash writes progress ahead of its data, takes back what a *)
(* trailer kept (the poll's SetLength above all), gives an incomplete file   *)
(* its final length, or writes to a finished file without having been told   *)
(* to stop before.                                                           *)
ImplementsResumableFile == File!Spec

================================================================================
