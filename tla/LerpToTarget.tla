------------------------------ MODULE LerpToTarget ------------------------------
(***************************************************************************)
(* UMoeLerpToTargetComponent (Some-UE): a server moves a scene component   *)
(* to a target within a given time and replicates one property that says   *)
(* so; every client moves its own copy.                                    *)
(*                                                                         *)
(* Replication is the engine's: the server's values form a log, a client   *)
(* is told of a later entry at some later time, entries in between may     *)
(* never reach it, and it may be told before its component began to play.  *)
(* Clients come, leave in the middle of a move and come again; their clock *)
(* may differ from the server's by a skew.                                 *)
(*                                                                         *)
(* A component runs in one thread.  OnStartMove and OnStopMove are first   *)
(* events for a script and then broadcasts: on the server the script may   *)
(* start another move before the broadcast is made.  The broadcasts still  *)
(* to be made are the frames of the call stack "owed".                     *)
(*                                                                         *)
(* Abstracted: a transform is a number per axis (place, rotation, scale);  *)
(* time is counted in steps, so "less than 0.00001" is "at most 0".  The   *)
(* tick flag and bIsMoving always change together: moving stands for both. *)
(* A curve, if one is set, begins at 0 and ends at 1; the parent that is   *)
(* moved outlives the component; sounds are left out.                      *)
(***************************************************************************)
EXTENDS Integers, Sequences

CONSTANTS
    Server,          \* the end with authority
    Clients,
    Axes,            \* what StartMoveTo, StartRotateTo, StartScaleTo set
    Values,          \* values of an axis that a caller may ask for
    Home,            \* the transform the level was saved with
    Costs,           \* values of CostTime
    Skews,           \* a client's clock minus the server's
    DelayTimeLimit,
    MaxStarts,       \* bound: moves
    LastStart,       \* bound: time of the last move
    MaxJoins,        \* bound: times a client comes
    MaxNow           \* bound: time

Ends == Clients \cup {Server}
Transforms == [Axes -> Int]
Infos == [start : Int, cost : Int, from : Transforms, to : Transforms]
Frames == {"begin", "start", "stop"}

ASSUME LerpAssumption ==
    /\ Server \notin Clients
    /\ Values \subseteq Int
    /\ Home \in [Axes -> Int]
    /\ Costs \subseteq Int
    /\ Skews \subseteq Int
    /\ DelayTimeLimit \in Nat
    /\ {MaxStarts, LastStart, MaxJoins, MaxNow} \subseteq Nat

VARIABLES
    now,             \* the server's clock
    forceSync,       \* bForceTargetTimestampSync, chosen with the asset
    log,             \* values LerpToTargetSyncInfo had on the server
    known,           \* LerpToTargetSyncInfo of an end: its place in log, or 0
    skew,
    life,            \* "away", "spawned" or "playing"
    joins,
    forTick,         \* MoveInfo_ForTick
    root,            \* relative transform of ControlMoveRoot
    moving,          \* bIsMoving
    owed,            \* call stack, innermost first
    balance          \* history: OnStartMove minus OnStopMove broadcasts

engineVars == <<now, forceSync, skew, joins>>
moveVars == <<forTick, root, moving, owed>>
vars == <<engineVars, log, known, life, moveVars, balance>>

Clock(e) == now + skew[e]
Info(e) == log[known[e]]
Target(info) == info.start + info.cost

Nothing == [start |-> -1, cost |-> 0, from |-> Home, to |-> Home]

Lerp(a, b, pass, cost) ==
    IF cost <= 0 \/ pass >= cost THEN b
    ELSE IF pass <= 0 THEN a
    ELSE a + (((b - a) * pass) \div cost)

TransformByTime(info, t) ==
    [x \in Axes |-> Lerp(info.from[x], info.to[x], t - info.start, info.cost)]

Init ==
    /\ now = 0
    /\ forceSync \in BOOLEAN
    /\ log = <<>>
    /\ known = [e \in Ends |-> 0]
    /\ skew = [e \in Ends |-> 0]
    /\ life = [e \in Ends |-> IF e = Server THEN "spawned" ELSE "away"]
    /\ joins = [c \in Clients |-> 0]
    /\ forTick = [e \in Ends |-> Nothing]
    /\ root = [e \in Ends |-> Home]
    /\ moving = [e \in Ends |-> FALSE]
    /\ owed = [e \in Ends |-> <<>>]
    /\ balance = [e \in Ends |-> 0]

-----------------------------------------------------------------------------

EnterMovingState(e, stack) ==
    /\ moving' = [moving EXCEPT ![e] = TRUE]
    /\ owed' = [owed EXCEPT ![e] =
                    IF moving[e] THEN stack ELSE <<"start">> \o stack]

(* Slip: "if (!bIsMoving) return" is missing.                                *)
SlipExit(e, stack) ==
    /\ moving' = [moving EXCEPT ![e] = FALSE]
    /\ owed' = [owed EXCEPT ![e] = <<"stop">> \o stack]

ExitMovingState(e, stack) ==
    /\ moving' = [moving EXCEPT ![e] = FALSE]
    /\ owed' = [owed EXCEPT ![e] =
                    IF moving[e] THEN <<"stop">> \o stack ELSE stack]

(* Slip: only the moving state ends.                                         *)
SlipSnap(e, info, stack) ==
    /\ forTick' = [forTick EXCEPT ![e] = info]
    /\ UNCHANGED root
    /\ ExitMovingState(e, stack)

(* Stops at once where the move ends.                                        *)
Snap(e, info, stack) ==
    /\ forTick' = [forTick EXCEPT ![e] = info]
    /\ root' = [root EXCEPT ![e] = info.to]
    /\ ExitMovingState(e, stack)

(* Moves as the server says; a client that is too late for more jumps to     *)
(* where the server is.                                                      *)
Follow(e, info, stack) ==
    /\ forTick' = [forTick EXCEPT ![e] = info]
    /\ root' = IF e = Server THEN root
               ELSE [root EXCEPT ![e] = TransformByTime(info, Clock(e))]
    /\ EnterMovingState(e, stack)

(* Slip: the duration is kept although the start was moved.                  *)
SlipChase(c, info, stack) ==
    /\ forTick' = [forTick EXCEPT ![c] =
                       [start |-> Clock(c), cost |-> info.cost,
                        from |-> root[c], to |-> info.to]]
    /\ UNCHANGED root
    /\ EnterMovingState(c, stack)

(* A client moves from where it is, from now on.                             *)
Chase(c, info, stack) ==
    /\ forTick' = [forTick EXCEPT ![c] =
                       [start |-> Clock(c),
                        cost  |-> IF forceSync THEN Target(info) - Clock(c)
                                  ELSE info.cost,
                        from  |-> root[c],
                        to    |-> info.to]]
    /\ UNCHANGED root
    /\ EnterMovingState(c, stack)

IsOver(e, info) == e # Server /\ Target(info) - Clock(e) <= 0
IsDelayed(e, info) ==
    Clock(e) - info.start \notin -DelayTimeLimit .. DelayTimeLimit

OnRep(e, info, stack) ==
    \/ /\ info.cost <= 0 \/ IsOver(e, info)
       /\ Snap(e, info, stack)
    \/ /\ ~(info.cost <= 0 \/ IsOver(e, info))
       /\ e = Server \/ IsDelayed(e, info)
       /\ Follow(e, info, stack)
    \/ /\ ~(info.cost <= 0 \/ IsOver(e, info))
       /\ e # Server /\ ~IsDelayed(e, info)
       /\ Chase(e, info, stack)

-----------------------------------------------------------------------------
(* The server.                                                               *)

(* Called by the game, or by a script inside a notification.                 *)
StartLerpToTrans(cost, target) ==
    /\ life[Server] = "playing"
    /\ Len(log) < MaxStarts /\ now <= LastStart
    /\ LET info == [start |-> now, cost |-> cost,
                    from |-> root[Server], to |-> target]
       IN  /\ log' = Append(log, info)
           /\ known' = [known EXCEPT ![Server] = Len(log) + 1]
           /\ OnRep(Server, info, owed[Server])
    /\ UNCHANGED <<engineVars, life, balance>>

(* StartMoveTo, StartRotateTo, StartScaleTo: the other axes stop where they  *)
(* are at the moment.                                                        *)
StartAxisTo(cost, x, v) ==
    StartLerpToTrans(cost, [root[Server] EXCEPT ![x] = v])

-----------------------------------------------------------------------------
(* Both ends.                                                                *)

(* BeginPlay as far as its script; the rest is the frame "begin".            *)
BeginPlay(e) ==
    /\ life[e] = "spawned"
    /\ life' = [life EXCEPT ![e] = "playing"]
    /\ owed' = [owed EXCEPT ![e] = <<"begin">>]
    /\ UNCHANGED <<engineVars, log, known, forTick, root, moving, balance>>

(* Slip: BeginPlay does not ask what came before it.                         *)
SlipReturn(e) ==
    /\ owed[e] # <<>> /\ Head(owed[e]) = "begin"
    /\ owed' = [owed EXCEPT ![e] = Tail(@)]
    /\ UNCHANGED <<engineVars, log, known, life, forTick, root, moving, balance>>

(* The rest of BeginPlay: the value may have come before.                    *)
ReturnToBeginPlay(e) ==
    /\ owed[e] # <<>> /\ Head(owed[e]) = "begin"
    /\ IF known[e] = 0
       THEN /\ owed' = [owed EXCEPT ![e] = Tail(@)]
            /\ UNCHANGED <<forTick, root, moving>>
       ELSE OnRep(e, Info(e), Tail(owed[e]))
    /\ UNCHANGED <<engineVars, log, known, life, balance>>

(* The script's event is over: OnStartMove or OnStopMove is broadcast.       *)
Broadcast(e) ==
    /\ owed[e] # <<>> /\ Head(owed[e]) # "begin"
    /\ owed' = [owed EXCEPT ![e] = Tail(@)]
    /\ balance' = [balance EXCEPT ![e] =
                       @ + (IF Head(owed[e]) = "start" THEN 1 ELSE -1)]
    /\ UNCHANGED <<engineVars, log, known, life, forTick, root, moving>>

TickComponent(e) ==
    /\ moving[e] /\ owed[e] = <<>>
    /\ root' = [root EXCEPT ![e] = TransformByTime(forTick[e], Clock(e))]
    /\ IF Clock(e) >= Target(forTick[e])
       THEN ExitMovingState(e, <<>>)
       ELSE UNCHANGED <<moving, owed>>
    /\ UNCHANGED <<engineVars, log, known, life, forTick, balance>>

-----------------------------------------------------------------------------
(* The engine: clients, replication and time.                                *)

Join(c) ==
    /\ life[c] = "away" /\ joins[c] < MaxJoins
    /\ life' = [life EXCEPT ![c] = "spawned"]
    /\ joins' = [joins EXCEPT ![c] = @ + 1]
    /\ skew' \in {[skew EXCEPT ![c] = s] : s \in Skews}
    /\ UNCHANGED <<now, forceSync, log, known, moveVars, balance>>

(* The component goes with its actor; EndPlay notifies nobody.               *)
Leave(c) ==
    /\ life[c] # "away" /\ owed[c] = <<>>
    /\ life' = [life EXCEPT ![c] = "away"]
    /\ known' = [known EXCEPT ![c] = 0]
    /\ forTick' = [forTick EXCEPT ![c] = Nothing]
    /\ root' = [root EXCEPT ![c] = Home]
    /\ moving' = [moving EXCEPT ![c] = FALSE]
    /\ balance' = [balance EXCEPT ![c] = 0]
    /\ UNCHANGED <<engineVars, log, owed>>

(* Slip: OnRep does not wait for BeginPlay.                                  *)
SlipReplicate(c) ==
    /\ life[c] # "away" /\ owed[c] = <<>>
    /\ \E k \in known[c] + 1 .. Len(log) :
          /\ known' = [known EXCEPT ![c] = k]
          /\ OnRep(c, log[k], <<>>)
    /\ UNCHANGED <<engineVars, log, life, balance>>

(* A newer value arrives.  OnRep is called when it differs, and returns at   *)
(* once before BeginPlay.                                                    *)
Replicate(c) ==
    /\ life[c] # "away" /\ owed[c] = <<>>
    /\ \E k \in known[c] + 1 .. Len(log) :
          /\ known' = [known EXCEPT ![c] = k]
          /\ IF life[c] = "spawned" \/ (known[c] # 0 /\ log[k] = Info(c))
             THEN UNCHANGED moveVars
             ELSE OnRep(c, log[k], <<>>)
    /\ UNCHANGED <<engineVars, log, life, balance>>

Advance ==
    /\ now < MaxNow
    /\ \A e \in Ends : owed[e] = <<>>
    /\ now' = now + 1
    /\ UNCHANGED <<forceSync, skew, joins, log, known, life, moveVars, balance>>

Next ==
    \/ \E cost \in Costs :
          \/ \E target \in [Axes -> Values] : StartLerpToTrans(cost, target)
          \/ \E x \in Axes, v \in Values : StartAxisTo(cost, x, v)
    \/ \E e \in Ends : \/ BeginPlay(e) \/ ReturnToBeginPlay(e)
                       \/ Broadcast(e) \/ TickComponent(e)
    \/ \E c \in Clients : Join(c) \/ Leave(c) \/ Replicate(c)
    \/ Advance

Spec == Init /\ [][Next]_vars

(* The engine begins play of what it spawned, ticks what asked for it and    *)
(* brings the last value of a property to every client that stays; functions *)
(* return and time goes on.  Nobody has to start a move, to come or to leave. *)
FairSpec ==
    /\ Spec
    /\ WF_vars(Advance)
    /\ \A e \in Ends : /\ WF_vars(BeginPlay(e)) /\ WF_vars(ReturnToBeginPlay(e))
                       /\ WF_vars(Broadcast(e)) /\ WF_vars(TickComponent(e))
    /\ \A c \in Clients : WF_vars(Replicate(c))

-----------------------------------------------------------------------------

(* The value of every variable; a component that did not begin to play is    *)
(* at rest and owes nothing, whatever it was told (OnRep's first check).     *)
TypeOK ==
    /\ now \in Nat /\ forceSync \in BOOLEAN
    /\ log \in Seq(Infos)
    /\ known \in [Ends -> 0 .. Len(log)] /\ known[Server] = Len(log)
    /\ skew \in [Ends -> Int] /\ skew[Server] = 0
    /\ life \in [Ends -> {"away", "spawned", "playing"}]
    /\ joins \in [Clients -> Nat]
    /\ forTick \in [Ends -> Infos]
    /\ root \in [Ends -> Transforms]
    /\ moving \in [Ends -> BOOLEAN]
    /\ owed \in [Ends -> Seq(Frames)]
    /\ balance \in [Ends -> Int]
    /\ \A e \in Ends : life[e] # "playing" => ~moving[e] /\ owed[e] = <<>>

(* An end is between BeginPlay's script and the rest of BeginPlay.           *)
Beginning(e) == \E i \in DOMAIN owed[e] : owed[e][i] = "begin"

(* Whatever is cut short, comes late, comes before BeginPlay or is started   *)
(* by a script inside a notification: an end that plays and does not move    *)
(* stands exactly at the target of the last move it knows of ("确保DS位置同步"). *)
RestsAtTarget ==
    \A e \in Ends :
        /\ life[e] = "playing" /\ known[e] # 0 /\ ~moving[e] /\ ~Beginning(e)
        => root[e] = Info(e).to

(* A client that was told of a move a moment late and runs it from its own   *)
(* place still ends it when the server does if bForceTargetTimestampSync is  *)
(* set, and no more than DelayTimeLimit off otherwise; and it is the last    *)
(* move it knows of that it runs, to that move's target.                     *)
ArrivalWithinLimit ==
    \A e \in Ends : moving[e] =>
        LET off == Target(forTick[e]) - Target(Info(e)) IN
        /\ forTick[e].to = Info(e).to
        /\ IF e = Server \/ forceSync THEN off = 0
           ELSE off \in -DelayTimeLimit .. DelayTimeLimit

(* Who counts broadcasts knows whether the component moves: between two      *)
(* calls, starts and stops balance, also after a script started the next     *)
(* move before listeners heard that the last one stopped.                    *)
BroadcastsBalance ==
    \A e \in Ends :
        owed[e] = <<>> => balance[e] = IF moving[e] THEN 1 ELSE 0

(* When nobody starts a move any more, everyone who plays comes to rest at   *)
(* the last target: the server, who was there, who came late or came back.   *)
Settles ==
    <>[]\A e \in Ends :
        /\ life[e] # "spawned"
        /\ life[e] = "playing" =>
              /\ ~moving[e]
              /\ log # <<>> => root[e] = log[Len(log)].to
================================================================================
