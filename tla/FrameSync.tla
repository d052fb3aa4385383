------------------------------- MODULE FrameSync -------------------------------
(***************************************************************************)
(* The frame-sync server (go/misc/reflect/server): one thread that answers *)
(* datagrams.  A datagram brings a player's input and asks for a frame;    *)
(* the server merges the input, seals the frames that are due by the clock *)
(* and answers with a slice of the battle's history.                       *)
(*                                                                         *)
(* The repository has no player for it.  Here a player asks for the frame  *)
(* after those it has and takes frames in the order of their numbers.      *)
(* Datagrams are lost, repeated and overtaken: any one a player ever sent  *)
(* may arrive at any time, and an answer may arrive never or often.  What  *)
(* the server drops as malformed is a lost datagram.                       *)
(*                                                                         *)
(* An input is a number of words of four bytes; a word is known by its     *)
(* place among those the server heard from its player.  Sizes are counted  *)
(* in words.  The order in which the players' parts stand in a frame (the  *)
(* one of Go's map) and opt are left out.                                  *)
(***************************************************************************)
EXTENDS Integers, Sequences, FiniteSets, FiniteSetsExt

CONSTANTS
    Players,
    Listeners,    \* bound: players whose answers may get through
    Sids,
    SidOf,        \* the battle of a player
    FAME_PER_MS,
    SkippedFrames,\* 60 * 3
    LONG_LIMIT,
    MTU,
    InputLimit,   \* 80 bytes
    Sizes,        \* bound: sizes of an input
    MaxHeard,     \* bound: words heard from a player in the n-th battle
    MaxNow,       \* bound: the clock
    MaxBorn,      \* bound: battles ever begun
    MaxFlight     \* bound: answers under way

ASSUME FrameSyncAssumption ==
    /\ SidOf \in [Players -> Sids]
    /\ Listeners \subseteq Players
    /\ FAME_PER_MS \in Nat \ {0}
    /\ SkippedFrames \in Nat
    /\ LONG_LIMIT \in Nat
    /\ InputLimit \in Nat \ {0}
    /\ Sizes \subseteq Nat /\ 0 \in Sizes
    /\ MaxHeard \in [1 .. MaxBorn -> [Players -> Nat]]
    /\ {MaxNow, MaxBorn, MTU} \subseteq Nat

VARIABLES
    now,       \* _cur_timestamp
    battles,   \* battle_map
    born,      \* history: battles begun so far
    replies,   \* answers under way
    have       \* the frames each player has

vars == <<now, battles, born, replies, have>>

Init ==
    /\ now = 0
    /\ battles = <<>>
    /\ born = 0
    /\ replies = {}
    /\ have = [p \in Players |-> <<>>]

-----------------------------------------------------------------------------
(* A battle is a record: start (start_time), frames, uins and inputs (the    *)
(* keys and values of input_map), and gen, which tells battles with the same *)
(* sid apart.  An input is the data that waits and, as history, how much was *)
(* heard.                                                                    *)

NoInput == [data |-> <<>>, heard |-> 0]

NewBattle ==
    [gen |-> born + 1, start |-> now, frames |-> <<>>,
     uins |-> {}, inputs |-> [p \in Players |-> NoInput]]

(* total_frame: frames that ought to be sealed at time t.                    *)
Due(b, t) == (t - b.start) \div FAME_PER_MS - SkippedFrames

(* The most a battle can have before it is too old.                          *)
MaxFrames == LONG_LIMIT \div FAME_PER_MS - SkippedFrames

(* The first half of handle_one_input.  A word is its place among those      *)
(* heard from its player; first is history: the first frame that was not     *)
(* sealed and not over when it came.                                         *)
MergeInput(b, p, n) ==
    LET open == Max({Due(b, now), Len(b.frames) + 1})
        heard == b.inputs[p].heard
        words == [i \in 1 .. n |-> [pos |-> heard + i, first |-> open]]
    IN  [b EXCEPT !.uins = @ \cup {p},
                  !.inputs[p] = [data |-> @.data \o words, heard |-> heard + n]]

(* Slip: everything that waits, however much.                                *)
SlipPart(data) == data

(* one_input_get_and_clear: what goes into a frame.                          *)
Part(data) ==
    IF Len(data) > InputLimit THEN SubSeq(data, 1, InputLimit) ELSE data

(* Slip: data is not reset.                                                  *)
SlipCleared(in) == in

Cleared(in) == [in EXCEPT !.data = <<>>]

EmptyFrame(b, k) == [no |-> k, gen |-> b.gen, parts |-> {}]
MergedFrame(b, k) ==
    [no |-> k, gen |-> b.gen,
     parts |-> {[uin |-> p, data |-> Part(b.inputs[p].data)] : p \in b.uins}]

AllCleared(b) == [p \in Players |-> Cleared(b.inputs[p])]

(* Slip: what comes late is put into the newest frame.                       *)
SlipSealFrames(b) ==
    LET len == Len(b.frames)
        total == Due(b, now)
        empty == [i \in 1 .. total - 1 - len |-> EmptyFrame(b, len + i)]
    IN  IF len > total \/ total < 1 THEN b
        ELSE [b EXCEPT !.frames = SubSeq(@, 1, IF len = total THEN len - 1 ELSE len)
                                    \o empty \o <<MergedFrame(b, total)>>,
                       !.inputs = AllCleared(b)]

(* Slip: of several frames that are due the first one is merged.             *)
SlipSealEarly(b) ==
    LET len == Len(b.frames)
        total == Due(b, now)
        empty == [i \in 1 .. total - 1 - len |-> EmptyFrame(b, len + 1 + i)]
    IN  IF len >= total THEN b
        ELSE [b EXCEPT !.frames = @ \o <<MergedFrame(b, len + 1)>> \o empty,
                       !.inputs = AllCleared(b)]

(* The second half of handle_one_input: the frames due before the last one   *)
(* are sealed empty, the last one with everything that waits.                *)
SealFrames(b) ==
    LET len == Len(b.frames)
        total == Due(b, now)
        empty == [i \in 1 .. total - 1 - len |-> EmptyFrame(b, len + i)]
    IN  IF len >= total THEN b
        ELSE [b EXCEPT !.frames = @ \o empty \o <<MergedFrame(b, total)>>,
                       !.inputs = AllCleared(b)]

(* Words of a frame: length and number, and of a part length and uin.        *)
Words(f) == 2 + MapThenSumSet(LAMBDA x : 2 + Len(x.data), f.parts)
WordsOf(b, K) == 3 + MapThenSumSet(LAMBDA i : Words(b.frames[i]), K)

(* Slip: a frame that does not fit waits for the next answer.                *)
SlipSent(b, k) == {n \in k .. Len(b.frames) : WordsOf(b, k .. n) <= MTU}

(* Frames from the k-th on, up to the one that crosses the MTU.              *)
Sent(b, k) == {n \in k .. Len(b.frames) : WordsOf(b, k .. n - 1) <= MTU}

(* get_data.                                                                 *)
GetData(b, k) ==
    IF k < 1 THEN <<>> ELSE SubSeq(b.frames, k, k - 1 + Cardinality(Sent(b, k)))

-----------------------------------------------------------------------------

(* handle_udp_pack: the battle, the input, the frames that are due, the      *)
(* answer.  What is under way afterwards is any part of what was.            *)
Handle(p, k, n) ==
    LET s == SidOf[p]
        fresh == s \notin DOMAIN battles \/ now - battles[s].start > LONG_LIMIT
        old == IF fresh THEN NewBattle ELSE battles[s]
        b == SealFrames(MergeInput(old, p, n))
        reply == [to |-> p, frames |-> GetData(b, k)]
        underWay == replies \cup (IF p \in Listeners THEN {reply} ELSE {})
    IN
    /\ fresh => born < MaxBorn
    /\ old.inputs[p].heard + n <= MaxHeard[old.gen][p]
    /\ born' = IF fresh THEN born + 1 ELSE born
    /\ battles' = [t \in DOMAIN battles \cup {s} |-> IF t = s THEN b ELSE battles[t]]
    /\ replies' \in {kept \in SUBSET underWay : Cardinality(kept) <= MaxFlight}
    /\ UNCHANGED <<now, have>>

(* The process ends (a send that fails ends it) and is started again.        *)
Restart ==
    /\ battles # <<>>
    /\ battles' = <<>>
    /\ UNCHANGED <<now, born, replies, have>>

(* time.Now() is the wall clock: it goes on, and it may be set.              *)
Clock ==
    /\ \E t \in 0 .. MaxNow : t # now /\ now' = t
    /\ UNCHANGED <<battles, born, replies, have>>

(* A player gets an answer: frames after those it has, if none is missing.   *)
Take(p, r) ==
    /\ r.to = p
    /\ \E i \in 1 .. Len(r.frames) :
          /\ r.frames[i].no = Len(have[p]) + 1
          /\ have' = [have EXCEPT ![p] = @ \o SubSeq(r.frames, i, Len(r.frames))]
    /\ replies' \in {replies, replies \ {r}}
    /\ UNCHANGED <<now, battles, born>>

(* A datagram arrives, today's or one that was sent long ago.                *)
Arrive(p) == \E k \in 0 .. Len(have[p]) + 1, n \in Sizes : Handle(p, k, n)

Next ==
    \/ \E p \in Players : Arrive(p)
    \/ \E p \in Players, r \in replies : Take(p, r)
    \/ Restart
    \/ Clock

Spec == Init /\ [][Next]_vars

(* A player asks again and again, with or without input, and the network     *)
(* brings a question and its answer through again and again.                 *)
Answered(p) ==
    /\ Handle(p, Len(have[p]) + 1, 0)
    /\ \E r \in replies' : r.to = p /\ r.frames # <<>> /\ r.frames[1].no = Len(have[p]) + 1

FairSpec ==
    /\ Spec
    /\ \A p \in Listeners : /\ SF_vars(Answered(p))
                            /\ SF_vars(\E r \in replies : Take(p, r))

-----------------------------------------------------------------------------

WordRecords == [pos : Nat \ {0}, first : Nat \ {0}]
Parts == {d \in Seq(WordRecords) : Len(d) <= InputLimit}
Inputs == [data : Seq(WordRecords), heard : Nat]
Frames == [no : Nat \ {0}, gen : Nat \ {0},
           parts : SUBSET [uin : Players, data : Parts]]
Battles == [gen : Nat \ {0}, start : Nat, frames : Seq(Frames),
            uins : SUBSET Players, inputs : [Players -> Inputs]]

(* The value of every variable; no part of a frame is longer than 80 bytes.  *)
TypeOK ==
    /\ now \in 0 .. MaxNow
    /\ born \in 0 .. MaxBorn
    /\ DOMAIN battles \subseteq Sids
    /\ \A s \in DOMAIN battles : battles[s] \in Battles
    /\ replies \subseteq [to : Players, frames : Seq(Frames)]
    /\ have \in [Players -> Seq(Frames)]

(* All the frames there are, wherever they are.                              *)
Ranged(fs) == {fs[i] : i \in 1 .. Len(fs)}
AllFrames ==
    UNION ({Ranged(battles[s].frames) : s \in DOMAIN battles}
             \cup {Ranged(r.frames) : r \in replies}
             \cup {Ranged(have[p]) : p \in Players})

(* A frame that was answered once is final: whoever has frame k of a battle, *)
(* now or later, from whichever answer, has the same; and a player's k-th    *)
(* frame is the k-th.                                                        *)
HistoryAgrees ==
    /\ \A f, g \in AllFrames : f.gen = g.gen /\ f.no = g.no => f = g
    /\ \A p \in Players : \A i \in 1 .. Len(have[p]) : have[p][i].no = i

(* Places of a player's words in a battle: <<k, i>> is the i-th word of the  *)
(* k-th frame's part, and after the newest frame the i-th one that waits.    *)
PartOf(b, p, k) ==
    IF k > Len(b.frames) THEN b.inputs[p].data
    ELSE LET x == {y \in b.frames[k].parts : y.uin = p} IN
         IF x = {} THEN <<>> ELSE (CHOOSE y \in x : TRUE).data
Places(b, p) ==
    UNION {{k} \X (1 .. Len(PartOf(b, p, k))) : k \in 1 .. Len(b.frames) + 1}
WordAt(b, p, x) == PartOf(b, p, x[1])[x[2]]
Before(x, y) == x[1] < y[1] \/ (x[1] = y[1] /\ x[2] < y[2])

(* What the server heard from a player is in the frames of the battle or     *)
(* waits, in the order it was heard and no word twice; and a word is missing *)
(* only where a part of full length was cut off before it.                   *)
InputsAccounted ==
    \A s \in DOMAIN battles, p \in Players :
        LET b == battles[s]
            places == Places(b, p)
        IN
        /\ \A x, y \in places :
              Before(x, y) => WordAt(b, p, x).pos < WordAt(b, p, y).pos
        /\ \A n \in 1 .. b.inputs[p].heard :
              \/ \E x \in places : WordAt(b, p, x).pos = n
              \/ \E k \in 1 .. Len(b.frames) :
                    /\ Len(PartOf(b, p, k)) = InputLimit
                    /\ \A x \in places :
                          IF x[1] <= k THEN WordAt(b, p, x).pos < n
                          ELSE WordAt(b, p, x).pos > n

(* No frame with inputs was sealed between a word's coming and the k-th one. *)
InFirstMerged(b, w, k) ==
    /\ w.first <= k
    /\ \A j \in w.first .. k - 1 : b.frames[j].parts = {}

(* Nobody's input is sealed into a frame whose time was over when it was     *)
(* heard, however the clock is set; and it is in the first frame with inputs *)
(* that was sealed since, so nobody's waits longer than another's.           *)
InputsInTime ==
    \A s \in DOMAIN battles :
        LET b == battles[s] IN
        /\ \A k \in 1 .. Len(b.frames) : \A x \in b.frames[k].parts :
              \A i \in 1 .. Len(x.data) : InFirstMerged(b, x.data[i], k)
        /\ \A p \in Players : \A i \in 1 .. Len(b.inputs[p].data) :
              InFirstMerged(b, b.inputs[p].data[i], Len(b.frames) + 1)

(* A player that goes on asking gets every frame the server has sealed,      *)
(* also one that is larger than the MTU, unless the battle is over.          *)
Has(p, k) ==
    LET s == SidOf[p] IN
    /\ s \in DOMAIN battles
    /\ now - battles[s].start <= LONG_LIMIT
    /\ Len(battles[s].frames) >= k
CatchesUp ==
    \A p \in Listeners, k \in 1 .. MaxFrames :
        Has(p, k) ~> Len(have[p]) >= k \/ ~Has(p, k)
==============================================================================
