-------------------------- MODULE LerpToTarget_proofs --------------------------
(***************************************************************************)
(* The safety of LerpToTarget for every number of clients and moves, every *)
(* skew of a client's clock and every limit: the type invariant, where an  *)
(* end rests, when it arrives, and what listeners can count.               *)
(***************************************************************************)
EXTENDS LerpToTarget, TLAPS

USE LerpAssumption

--------------------------------------------------------------------------------
(* Interpolation yields transforms, and the target from its time on.         *)

LEMMA LerpIsInt ==
  ASSUME NEW a \in Int, NEW b \in Int, NEW pass \in Int, NEW cost \in Int
  PROVE  Lerp(a, b, pass, cost) \in Int
  <1>1. CASE cost <= 0 \/ pass >= cost \/ pass <= 0
    BY <1>1 DEF Lerp
  <1>2. CASE cost > 0 /\ 0 < pass /\ pass < cost
    <2>1. (b - a) * pass \in Int
      BY SMT
    <2>2. \A q \in Int, d \in Nat \ {0} : q \div d \in Int
      BY SMT
    <2>3. ((b - a) * pass) \div cost \in Int
      BY <1>2, <2>1, <2>2
    <2> QED BY <1>2, <2>3 DEF Lerp
  <1> QED BY <1>1, <1>2

LEMMA TransformByTimeType ==
  ASSUME NEW info \in Infos, NEW t \in Int
  PROVE  TransformByTime(info, t) \in Transforms
  <1>1. ASSUME NEW x \in Axes
        PROVE  Lerp(info.from[x], info.to[x], t - info.start, info.cost) \in Int
    <2>1. /\ info.from[x] \in Int /\ info.to[x] \in Int
          /\ t - info.start \in Int /\ info.cost \in Int
      BY DEF Infos, Transforms
    <2> QED BY <2>1, LerpIsInt
  <1> QED BY <1>1 DEF TransformByTime, Transforms

LEMMA TransformAtEnd ==
  ASSUME NEW info \in Infos, NEW t \in Int, t >= Target(info)
  PROVE  TransformByTime(info, t) = info.to
  <1>1. t - info.start >= info.cost
    BY DEF Target, Infos
  <1>2. \A x \in Axes :
           Lerp(info.from[x], info.to[x], t - info.start, info.cost) = info.to[x]
    BY <1>1 DEF Lerp
  <1> QED BY <1>2 DEF TransformByTime, Infos, Transforms

--------------------------------------------------------------------------------
(* What OnRep does to the end it runs at.                                    *)

(* The part of TypeOK that OnRep works on.                                   *)
EndsOK ==
    /\ now \in Nat /\ forceSync \in BOOLEAN
    /\ skew \in [Ends -> Int] /\ skew[Server] = 0
    /\ forTick \in [Ends -> Infos]
    /\ root \in [Ends -> Transforms]
    /\ moving \in [Ends -> BOOLEAN]
    /\ owed \in [Ends -> Seq(Frames)]

LEMMA PushType ==
  ASSUME NEW stack \in Seq(Frames), NEW f \in Frames
  PROVE  <<f>> \o stack \in Seq(Frames)
  OBVIOUS

LEMMA OnRepType ==
  ASSUME EndsOK, NEW e \in Ends, NEW info \in Infos, NEW stack \in Seq(Frames),
         OnRep(e, info, stack)
  PROVE  /\ forTick' \in [Ends -> Infos]
         /\ root' \in [Ends -> Transforms]
         /\ moving' \in [Ends -> BOOLEAN]
         /\ owed' \in [Ends -> Seq(Frames)]
         /\ \A d \in Ends \ {e} : /\ forTick'[d] = forTick[d]
                                  /\ root'[d] = root[d]
                                  /\ moving'[d] = moving[d]
                                  /\ owed'[d] = owed[d]
  <1> USE DEF EndsOK
  <1>1. Clock(e) \in Int
    BY DEF Clock
  <1>2. <<"start">> \o stack \in Seq(Frames) /\ <<"stop">> \o stack \in Seq(Frames)
    BY PushType DEF Frames
  <1>3. CASE Snap(e, info, stack)
    BY <1>2, <1>3 DEF Snap, ExitMovingState, Infos
  <1>4. CASE Follow(e, info, stack)
    <2>1. TransformByTime(info, Clock(e)) \in Transforms
      BY <1>1, TransformByTimeType
    <2> QED BY <1>2, <1>4, <2>1 DEF Follow, EnterMovingState
  <1>5. CASE Chase(e, info, stack)
    <2> DEFINE new == [start |-> Clock(e),
                       cost  |-> IF forceSync THEN Target(info) - Clock(e)
                                 ELSE info.cost,
                       from  |-> root[e], to |-> info.to]
    <2>1. new \in Infos
      BY <1>1 DEF Infos, Target
    <2>2. forTick' = [forTick EXCEPT ![e] = new]
      BY <1>5 DEF Chase
    <2> HIDE DEF new
    <2> QED BY <1>2, <1>5, <2>1, <2>2 DEF Chase, EnterMovingState
  <1> QED BY <1>3, <1>4, <1>5 DEF OnRep

(* Either the end stands at the target, or it moves there and arrives within *)
(* the limit.                                                                *)
LEMMA OnRepGoal ==
  ASSUME EndsOK, NEW e \in Ends, NEW info \in Infos, NEW stack \in Seq(Frames),
         OnRep(e, info, stack)
  PROVE  /\ ~moving'[e] => root'[e] = info.to
         /\ moving'[e] =>
               /\ forTick'[e].to = info.to
               /\ IF e = Server \/ forceSync
                  THEN Target(forTick'[e]) - Target(info) = 0
                  ELSE Target(forTick'[e]) - Target(info)
                           \in -DelayTimeLimit .. DelayTimeLimit
  <1> USE DEF EndsOK
  <1>1. Clock(e) \in Int /\ Target(info) \in Int
    BY DEF Clock, Target, Infos
  <1>2. CASE Snap(e, info, stack)
    BY <1>2 DEF Snap, ExitMovingState
  <1>3. CASE Follow(e, info, stack)
    BY <1>1, <1>3 DEF Follow, EnterMovingState
  <1>4. CASE /\ Chase(e, info, stack)
             /\ e # Server /\ ~IsDelayed(e, info)
    <2>1. /\ forTick'[e].start = Clock(e)
          /\ forTick'[e].cost = IF forceSync THEN Target(info) - Clock(e)
                                ELSE info.cost
          /\ forTick'[e].to = info.to
          /\ moving'[e]
      BY <1>4 DEF Chase, EnterMovingState
    <2>2. Clock(e) - info.start \in -DelayTimeLimit .. DelayTimeLimit
      BY <1>1, <1>4 DEF IsDelayed
    <2>3. CASE forceSync
      BY <1>1, <2>1, <2>3 DEF Target
    <2>4. CASE ~forceSync
      <3>1. info.start \in Int /\ info.cost \in Int
        BY DEF Infos
      <3>2. Target(forTick'[e]) - Target(info) = Clock(e) - info.start
        BY <1>1, <2>1, <2>4, <3>1 DEF Target
      <3> QED BY <1>4, <2>1, <2>2, <2>4, <3>2
    <2> QED BY <2>1, <2>3, <2>4
  <1> QED BY <1>2, <1>3, <1>4 DEF OnRep

--------------------------------------------------------------------------------
(* Types.                                                                    *)

LEMMA EndsAreTyped == TypeOK => EndsOK
  BY DEF TypeOK, EndsOK

LEMMA InfoType ==
  ASSUME TypeOK, NEW e \in Ends, known[e] # 0
  PROVE  Info(e) \in Infos
  <1>1. known[e] \in 1 .. Len(log)
    BY DEF TypeOK
  <1> QED BY <1>1 DEF TypeOK, Info

LEMMA InitType == Init => TypeOK
  <1> SUFFICES ASSUME Init
               PROVE  TypeOK
    OBVIOUS
  <1>1. Nothing \in Infos /\ Home \in Transforms
    BY DEF Nothing, Infos, Transforms
  <1>2. Server \in Ends
    BY DEF Ends
  <1> QED BY <1>1, <1>2 DEF Init, TypeOK

LEMMA StartType ==
  ASSUME TypeOK, NEW cost \in Int, NEW target \in Transforms,
         StartLerpToTrans(cost, target)
  PROVE  TypeOK'
  <1> DEFINE info == [start |-> now, cost |-> cost,
                      from |-> root[Server], to |-> target]
  <1>1. Server \in Ends
    BY DEF Ends
  <1>2. info \in Infos
    BY <1>1 DEF TypeOK, Infos
  <1>3. /\ log' = Append(log, info)
        /\ known' = [known EXCEPT ![Server] = Len(log) + 1]
        /\ OnRep(Server, info, owed[Server])
        /\ life[Server] = "playing"
        /\ UNCHANGED <<engineVars, life, balance>>
    BY DEF StartLerpToTrans
  <1> HIDE DEF info
  <1>4. log' \in Seq(Infos) /\ Len(log') = Len(log) + 1
    BY <1>2, <1>3 DEF TypeOK
  <1>5. known' \in [Ends -> 0 .. Len(log')] /\ known'[Server] = Len(log')
    <2>1. Len(log) \in Nat
      BY DEF TypeOK
    <2> QED BY <1>1, <1>3, <1>4, <2>1 DEF TypeOK
  <1>6. owed[Server] \in Seq(Frames)
    BY <1>1 DEF TypeOK
  <1>7. /\ forTick' \in [Ends -> Infos] /\ root' \in [Ends -> Transforms]
        /\ moving' \in [Ends -> BOOLEAN] /\ owed' \in [Ends -> Seq(Frames)]
        /\ \A d \in Ends \ {Server} : moving'[d] = moving[d] /\ owed'[d] = owed[d]
    BY <1>1, <1>2, <1>3, <1>6, OnRepType, EndsAreTyped
  <1>8. \A e \in Ends : life'[e] # "playing" => ~moving'[e] /\ owed'[e] = <<>>
    BY <1>3, <1>7 DEF TypeOK
  <1> QED BY <1>3, <1>4, <1>5, <1>7, <1>8 DEF TypeOK, engineVars

LEMMA StartAxisTarget ==
  ASSUME TypeOK, NEW x \in Axes, NEW v \in Values
  PROVE  [root[Server] EXCEPT ![x] = v] \in Transforms
  BY DEF TypeOK, Ends, Transforms

LEMMA EndActionsType ==
  ASSUME TypeOK, NEW e \in Ends,
         \/ BeginPlay(e) \/ ReturnToBeginPlay(e)
         \/ Broadcast(e) \/ TickComponent(e)
  PROVE  TypeOK'
  <1> USE DEF TypeOK, engineVars
  <1>1. CASE BeginPlay(e)
    <2>1. <<"begin">> \in Seq(Frames)
      BY DEF Frames
    <2>2. moving' = moving
      BY <1>1 DEF BeginPlay
    <2>3. owed' \in [Ends -> Seq(Frames)]
      BY <1>1, <2>1 DEF BeginPlay
    <2>4. \A d \in Ends : life'[d] # "playing" => ~moving'[d] /\ owed'[d] = <<>>
      BY <1>1, <2>2 DEF BeginPlay
    <2> QED BY <1>1, <2>3, <2>4 DEF BeginPlay
  <1>2. CASE ReturnToBeginPlay(e)
    <2>1. owed[e] # <<>> /\ owed[e] \in Seq(Frames) /\ life[e] = "playing"
      BY <1>2 DEF ReturnToBeginPlay
    <2>2. Tail(owed[e]) \in Seq(Frames)
      BY <2>1
    <2>3. CASE known[e] = 0
      <3>1. /\ owed' = [owed EXCEPT ![e] = Tail(owed[e])]
            /\ UNCHANGED <<engineVars, log, known, life, balance,
                           forTick, root, moving>>
        BY <1>2, <2>3 DEF ReturnToBeginPlay
      <3>2. owed' \in [Ends -> Seq(Frames)]
        BY <2>2, <3>1
      <3> QED BY <2>1, <3>1, <3>2
    <2>4. CASE known[e] # 0
      <3>1. /\ OnRep(e, Info(e), Tail(owed[e]))
            /\ UNCHANGED <<engineVars, log, known, life, balance>>
        BY <1>2, <2>4 DEF ReturnToBeginPlay
      <3>2. Info(e) \in Infos
        BY <2>4, InfoType
      <3>3. /\ forTick' \in [Ends -> Infos] /\ root' \in [Ends -> Transforms]
            /\ moving' \in [Ends -> BOOLEAN] /\ owed' \in [Ends -> Seq(Frames)]
            /\ \A d \in Ends \ {e} : moving'[d] = moving[d] /\ owed'[d] = owed[d]
        BY <2>2, <3>1, <3>2, OnRepType, EndsAreTyped
      <3> QED BY <2>1, <3>1, <3>3
    <2> QED BY <2>3, <2>4
  <1>3. CASE Broadcast(e)
    <2>1. owed[e] # <<>> /\ owed[e] \in Seq(Frames) /\ life[e] = "playing"
      BY <1>3 DEF Broadcast
    <2>2. owed' \in [Ends -> Seq(Frames)]
      <3>1. Tail(owed[e]) \in Seq(Frames)
        BY <2>1
      <3> QED BY <1>3, <3>1 DEF Broadcast
    <2>3. balance' \in [Ends -> Int]
      BY <1>3 DEF Broadcast
    <2>4. \A d \in Ends : life'[d] # "playing" => ~moving'[d] /\ owed'[d] = <<>>
      BY <1>3, <2>1 DEF Broadcast
    <2> QED BY <1>3, <2>2, <2>3, <2>4 DEF Broadcast
  <1>4. CASE TickComponent(e)
    <2>1. forTick[e] \in Infos /\ Clock(e) \in Int /\ life[e] = "playing"
      BY <1>4 DEF TickComponent, Clock
    <2>2. root' \in [Ends -> Transforms]
      BY <1>4, <2>1, TransformByTimeType DEF TickComponent
    <2>3. /\ moving' \in [Ends -> BOOLEAN] /\ owed' \in [Ends -> Seq(Frames)]
          /\ \A d \in Ends \ {e} : moving'[d] = moving[d] /\ owed'[d] = owed[d]
      <3>1. <<"stop">> \o <<>> \in Seq(Frames) /\ <<>> \in Seq(Frames)
        BY DEF Frames
      <3>2. CASE ExitMovingState(e, <<>>)
        <4>1. PICK s \in Seq(Frames) : owed' = [owed EXCEPT ![e] = s]
          BY <3>1, <3>2 DEF ExitMovingState
        <4>2. moving' = [moving EXCEPT ![e] = FALSE]
          BY <3>2 DEF ExitMovingState
        <4> QED BY <4>1, <4>2
      <3>3. CASE UNCHANGED <<moving, owed>>
        BY <3>3
      <3> QED BY <1>4, <3>2, <3>3 DEF TickComponent
    <2>4. UNCHANGED <<engineVars, log, known, life, forTick, balance>>
      BY <1>4 DEF TickComponent
    <2> QED BY <2>1, <2>2, <2>3, <2>4
  <1> QED BY <1>1, <1>2, <1>3, <1>4

LEMMA ClientActionsType ==
  ASSUME TypeOK, NEW c \in Clients, Join(c) \/ Leave(c) \/ Replicate(c)
  PROVE  TypeOK'
  <1> USE DEF TypeOK, engineVars
  <1>0. c \in Ends /\ c # Server
    BY DEF Ends
  <1>1. CASE Join(c)
    <2>1. skew' \in [Ends -> Int] /\ skew'[Server] = 0
      <3>1. PICK t \in Skews : skew' = [skew EXCEPT ![c] = t]
        BY <1>1 DEF Join
      <3> QED BY <1>0, <3>1
    <2>2. /\ life' \in [Ends -> {"away", "spawned", "playing"}]
          /\ joins' \in [Clients -> Nat]
      BY <1>0, <1>1 DEF Join
    <2>3. UNCHANGED <<now, forceSync, log, known, moveVars, balance>>
      BY <1>1 DEF Join
    <2>4. \A d \in Ends : life'[d] # "playing" => ~moving[d] /\ owed[d] = <<>>
      BY <1>0, <1>1 DEF Join
    <2> QED BY <2>1, <2>2, <2>3, <2>4 DEF moveVars
  <1>2. CASE Leave(c)
    <2>1. Nothing \in Infos /\ Home \in Transforms
      BY DEF Nothing, Infos, Transforms
    <2>2. known' \in [Ends -> 0 .. Len(log')] /\ known'[Server] = Len(log')
      BY <1>0, <1>2 DEF Leave
    <2>3. \A d \in Ends : life'[d] # "playing" => ~moving'[d] /\ owed'[d] = <<>>
      BY <1>0, <1>2 DEF Leave
    <2> QED BY <1>0, <1>2, <2>1, <2>2, <2>3 DEF Leave
  <1>3. CASE Replicate(c)
    <2>1. PICK k \in known[c] + 1 .. Len(log) :
             /\ known' = [known EXCEPT ![c] = k]
             /\ IF life[c] = "spawned" \/ (known[c] # 0 /\ log[k] = Info(c))
                THEN UNCHANGED moveVars
                ELSE OnRep(c, log[k], <<>>)
      BY <1>3 DEF Replicate
    <2>2. UNCHANGED <<engineVars, log, life, balance>> /\ life[c] # "away"
      BY <1>3 DEF Replicate
    <2>3. k \in 1 .. Len(log) /\ log[k] \in Infos
      <3>1. k \in 1 .. Len(log)
        BY <1>0
      <3> QED BY <3>1
    <2>4. known' \in [Ends -> 0 .. Len(log')] /\ known'[Server] = Len(log')
      BY <1>0, <2>1, <2>2, <2>3
    <2>5. CASE UNCHANGED moveVars
      BY <2>2, <2>4, <2>5 DEF moveVars
    <2>6. CASE life[c] # "spawned" /\ OnRep(c, log[k], <<>>)
      <3>1. /\ forTick' \in [Ends -> Infos] /\ root' \in [Ends -> Transforms]
            /\ moving' \in [Ends -> BOOLEAN] /\ owed' \in [Ends -> Seq(Frames)]
            /\ \A d \in Ends \ {c} : moving'[d] = moving[d] /\ owed'[d] = owed[d]
        <4>1. <<>> \in Seq(Frames)
          OBVIOUS
        <4> QED BY <1>0, <2>3, <2>6, <4>1, OnRepType, EndsAreTyped
      <3>2. life[c] = "playing"
        BY <1>0, <2>2, <2>6
      <3> QED BY <2>2, <2>4, <3>1, <3>2
    <2> QED BY <2>1, <2>5, <2>6
  <1> QED BY <1>1, <1>2, <1>3

LEMMA NextType == TypeOK /\ [Next]_vars => TypeOK'
  <1> SUFFICES ASSUME TypeOK, [Next]_vars
               PROVE  TypeOK'
    OBVIOUS
  <1>1. ASSUME NEW cost \in Costs, NEW target \in [Axes -> Values],
               StartLerpToTrans(cost, target)
        PROVE  TypeOK'
    <2>1. target \in Transforms /\ cost \in Int
      BY DEF Transforms
    <2> QED BY <1>1, <2>1, StartType
  <1>2. ASSUME NEW cost \in Costs, NEW x \in Axes, NEW v \in Values,
               StartAxisTo(cost, x, v)
        PROVE  TypeOK'
    BY <1>2, StartAxisTarget, StartType DEF StartAxisTo
  <1>3. ASSUME NEW e \in Ends,
               \/ BeginPlay(e) \/ ReturnToBeginPlay(e)
               \/ Broadcast(e) \/ TickComponent(e)
        PROVE  TypeOK'
    BY <1>3, EndActionsType
  <1>4. ASSUME NEW c \in Clients, Join(c) \/ Leave(c) \/ Replicate(c)
        PROVE  TypeOK'
    BY <1>4, ClientActionsType
  <1>5. CASE Advance
    BY <1>5 DEF Advance, TypeOK, moveVars
  <1>6. CASE UNCHANGED vars
    BY <1>6 DEF vars, engineVars, moveVars, TypeOK
  <1> QED BY <1>1, <1>2, <1>3, <1>4, <1>5, <1>6 DEF Next

(* Every variable keeps its type; nothing happens at an end before BeginPlay. *)
THEOREM TypeCorrect == Spec => []TypeOK
  <1>1. Init => TypeOK
    BY InitType
  <1>2. TypeOK /\ [Next]_vars => TypeOK'
    BY NextType
  <1> QED BY <1>1, <1>2, PTL DEF Spec

--------------------------------------------------------------------------------
(* Safety.  Of an end that moves, the move it runs is the last it knows of:  *)
(* without that the end of a move says nothing about the target.             *)

ArrivesOnTime(e) ==
    LET off == Target(forTick[e]) - Target(Info(e)) IN
    /\ forTick[e].to = Info(e).to
    /\ IF e = Server \/ forceSync THEN off = 0
       ELSE off \in -DelayTimeLimit .. DelayTimeLimit

EndSafe(e) ==
    /\ moving[e] => known[e] # 0 /\ ArrivesOnTime(e)
    /\ life[e] = "playing" /\ known[e] # 0 /\ ~moving[e] /\ ~Beginning(e)
       => root[e] = Info(e).to

SafeInv == TypeOK /\ \A e \in Ends : EndSafe(e)

LEMMA SafeInvImplies == SafeInv => RestsAtTarget /\ ArrivalWithinLimit
  BY DEF SafeInv, EndSafe, ArrivesOnTime, RestsAtTarget, ArrivalWithinLimit

(* An end of which nothing changed.                                          *)
LEMMA SameEnd ==
  ASSUME NEW e \in Ends, EndSafe(e),
         known'[e] = known[e], known[e] # 0 => log'[known[e]] = log[known[e]],
         life'[e] = life[e], forTick'[e] = forTick[e], root'[e] = root[e],
         moving'[e] = moving[e], owed'[e] = owed[e], forceSync' = forceSync
  PROVE  EndSafe(e)'
  BY DEF EndSafe, ArrivesOnTime, Info, Beginning, Target

(* The end at which OnRep ran.                                               *)
LEMMA OnRepSafe ==
  ASSUME TypeOK, NEW e \in Ends, NEW info \in Infos, NEW stack \in Seq(Frames),
         OnRep(e, info, stack), forceSync' = forceSync,
         known'[e] # 0, log'[known'[e]] = info
  PROVE  EndSafe(e)'
  <1>1. /\ ~moving'[e] => root'[e] = info.to
        /\ moving'[e] =>
              /\ forTick'[e].to = info.to
              /\ IF e = Server \/ forceSync
                 THEN Target(forTick'[e]) - Target(info) = 0
                 ELSE Target(forTick'[e]) - Target(info)
                          \in -DelayTimeLimit .. DelayTimeLimit
    BY OnRepGoal, EndsAreTyped
  <1>2. Info(e)' = info
    BY DEF Info
  <1>3. moving'[e] => ArrivesOnTime(e)'
    BY <1>1, <1>2 DEF ArrivesOnTime, Target
  <1> QED BY <1>1, <1>2, <1>3 DEF EndSafe

LEMMA StartSafe ==
  ASSUME SafeInv, NEW cost \in Int, NEW target \in Transforms,
         StartLerpToTrans(cost, target), NEW e \in Ends
  PROVE  EndSafe(e)'
  <1> DEFINE info == [start |-> now, cost |-> cost,
                      from |-> root[Server], to |-> target]
  <1> USE DEF SafeInv
  <1>1. Server \in Ends
    BY DEF Ends
  <1>2. info \in Infos
    BY <1>1 DEF TypeOK, Infos
  <1>3. /\ log' = Append(log, info)
        /\ known' = [known EXCEPT ![Server] = Len(log) + 1]
        /\ OnRep(Server, info, owed[Server])
        /\ UNCHANGED <<engineVars, life, balance>>
    BY DEF StartLerpToTrans
  <1> HIDE DEF info
  <1>4. forceSync' = forceSync
    BY <1>3 DEF engineVars
  <1>5. owed[Server] \in Seq(Frames)
    BY <1>1 DEF TypeOK
  <1>6. CASE e = Server
    <2>1. known'[Server] = Len(log) + 1 /\ log'[Len(log) + 1] = info
      BY <1>1, <1>2, <1>3 DEF TypeOK
    <2>2. Len(log) + 1 # 0
      BY DEF TypeOK
    <2> QED BY <1>1, <1>2, <1>3, <1>4, <1>5, <1>6, <2>1, <2>2, OnRepSafe
  <1>7. CASE e # Server
    <2>1. /\ forTick'[e] = forTick[e] /\ root'[e] = root[e]
          /\ moving'[e] = moving[e] /\ owed'[e] = owed[e]
      BY <1>1, <1>2, <1>3, <1>5, <1>7, OnRepType, EndsAreTyped
    <2>2. known'[e] = known[e] /\ life'[e] = life[e]
      BY <1>3, <1>7 DEF TypeOK
    <2>3. known[e] # 0 => log'[known[e]] = log[known[e]]
      <3>1. known[e] \in 0 .. Len(log)
        BY DEF TypeOK
      <3> QED BY <1>2, <1>3, <3>1 DEF TypeOK
    <2> QED BY <1>4, <2>1, <2>2, <2>3, SameEnd
  <1> QED BY <1>6, <1>7

(* Popping a notification does not pop the rest of BeginPlay.                *)
LEMMA PopKeepsBeginning ==
  ASSUME NEW s \in Seq(Frames), s # <<>>, Head(s) # "begin",
         NEW i \in DOMAIN s, s[i] = "begin"
  PROVE  \E j \in DOMAIN Tail(s) : Tail(s)[j] = "begin"
  <1>1. i # 1 /\ i \in 1 .. Len(s)
    OBVIOUS
  <1>2. i - 1 \in DOMAIN Tail(s) /\ Tail(s)[i - 1] = s[i]
    BY <1>1
  <1> QED BY <1>2

LEMMA EndActionsSafe ==
  ASSUME SafeInv, NEW e \in Ends, NEW d \in Ends,
         \/ BeginPlay(e) \/ ReturnToBeginPlay(e)
         \/ Broadcast(e) \/ TickComponent(e)
  PROVE  EndSafe(d)'
  <1> USE DEF SafeInv, engineVars
  <1>1. CASE BeginPlay(e)
    <2>1. CASE d = e
      <3>1. ~moving'[e]
        BY <1>1 DEF BeginPlay, TypeOK
      <3>2. Beginning(e)'
        <4>1. owed'[e] = <<"begin">>
          BY <1>1 DEF BeginPlay, TypeOK
        <4>2. 1 \in DOMAIN <<"begin">> /\ <<"begin">>[1] = "begin"
          OBVIOUS
        <4> QED BY <4>1, <4>2 DEF Beginning
      <3> QED BY <2>1, <3>1, <3>2 DEF EndSafe
    <2>2. CASE d # e
      BY <1>1, <2>2, SameEnd DEF BeginPlay, TypeOK
    <2> QED BY <2>1, <2>2
  <1>2. CASE ReturnToBeginPlay(e)
    <2>1. owed[e] # <<>> /\ owed[e] \in Seq(Frames)
      BY <1>2 DEF ReturnToBeginPlay, TypeOK
    <2>2. Tail(owed[e]) \in Seq(Frames)
      BY <2>1
    <2>3. CASE known[e] = 0
      <3>1. /\ owed' = [owed EXCEPT ![e] = Tail(owed[e])]
            /\ UNCHANGED <<engineVars, log, known, life, balance,
                           forTick, root, moving>>
        BY <1>2, <2>3 DEF ReturnToBeginPlay
      <3>2. CASE d = e
        BY <2>3, <3>1, <3>2 DEF EndSafe
      <3>3. CASE d # e
        BY <3>1, <3>3, SameEnd DEF TypeOK
      <3> QED BY <3>2, <3>3
    <2>4. CASE known[e] # 0
      <3>1. /\ OnRep(e, Info(e), Tail(owed[e]))
            /\ UNCHANGED <<engineVars, log, known, life, balance>>
        BY <1>2, <2>4 DEF ReturnToBeginPlay
      <3>2. Info(e) \in Infos
        BY <2>4, InfoType
      <3>3. CASE d = e
        BY <2>2, <2>4, <3>1, <3>2, <3>3, OnRepSafe DEF Info
      <3>4. CASE d # e
        <4>1. /\ forTick'[d] = forTick[d] /\ root'[d] = root[d]
              /\ moving'[d] = moving[d] /\ owed'[d] = owed[d]
          BY <2>2, <3>1, <3>2, <3>4, OnRepType, EndsAreTyped
        <4> QED BY <3>1, <4>1, SameEnd
      <3> QED BY <3>3, <3>4
    <2> QED BY <2>3, <2>4
  <1>3. CASE Broadcast(e)
    <2>1. CASE d = e
      <3>1. Beginning(e) => Beginning(e)'
        <4>1. /\ owed[e] \in Seq(Frames) /\ owed[e] # <<>>
              /\ Head(owed[e]) # "begin"
              /\ owed'[e] = Tail(owed[e])
          BY <1>3 DEF Broadcast, TypeOK
        <4> QED BY <4>1, PopKeepsBeginning DEF Beginning
      <3>2. /\ forTick' = forTick /\ root' = root /\ moving' = moving
            /\ known' = known /\ log' = log /\ life' = life
            /\ forceSync' = forceSync
        BY <1>3 DEF Broadcast
      <3>3. Info(e)' = Info(e)
        BY <3>2 DEF Info
      <3>4. ArrivesOnTime(e) => ArrivesOnTime(e)'
        BY <3>2, <3>3 DEF ArrivesOnTime, Target
      <3> QED BY <2>1, <3>1, <3>2, <3>3, <3>4 DEF EndSafe
    <2>2. CASE d # e
      BY <1>3, <2>2, SameEnd DEF Broadcast, TypeOK
    <2> QED BY <2>1, <2>2
  <1>4. CASE TickComponent(e)
    <2>1. CASE d = e
      <3>1. /\ moving[e] /\ forTick' = forTick /\ known' = known /\ log' = log
            /\ forceSync' = forceSync
            /\ root'[e] = TransformByTime(forTick[e], Clock(e))
        BY <1>4 DEF TickComponent, TypeOK
      <3>2. known[e] # 0 /\ ArrivesOnTime(e)
        BY <3>1 DEF EndSafe
      <3>3. Info(e)' = Info(e)
        BY <3>1 DEF Info
      <3>4. moving'[e] => ArrivesOnTime(e)'
        BY <3>1, <3>2, <3>3 DEF ArrivesOnTime, Target
      <3>5. ~moving'[e] => root'[e] = Info(e).to
        <4>1. CASE Clock(e) >= Target(forTick[e])
          <5>1. forTick[e] \in Infos /\ Clock(e) \in Int
            BY DEF TypeOK, Clock
          <5>2. TransformByTime(forTick[e], Clock(e)) = forTick[e].to
            BY ONLY <4>1, <5>1, TransformAtEnd
          <5> QED BY <3>1, <3>2, <5>2 DEF ArrivesOnTime
        <4>2. CASE ~(Clock(e) >= Target(forTick[e]))
          BY <1>4, <3>1, <4>2 DEF TickComponent
        <4> QED BY <4>1, <4>2
      <3> QED BY <2>1, <3>1, <3>2, <3>3, <3>4, <3>5 DEF EndSafe
    <2>2. CASE d # e
      <3>1. moving'[d] = moving[d] /\ owed'[d] = owed[d]
        BY <1>4, <2>2 DEF TickComponent, ExitMovingState, TypeOK
      <3> QED BY <1>4, <2>2, <3>1, SameEnd DEF TickComponent, TypeOK
    <2> QED BY <2>1, <2>2
  <1> QED BY <1>1, <1>2, <1>3, <1>4

LEMMA ClientActionsSafe ==
  ASSUME SafeInv, NEW c \in Clients, Join(c) \/ Leave(c) \/ Replicate(c),
         NEW d \in Ends
  PROVE  EndSafe(d)'
  <1> USE DEF SafeInv, engineVars
  <1>0. c \in Ends
    BY DEF Ends
  <1>1. CASE Join(c)
    <2>1. CASE d = c
      BY <1>0, <1>1, <2>1 DEF Join, moveVars, TypeOK, EndSafe
    <2>2. CASE d # c
      BY <1>1, <2>2, SameEnd DEF Join, moveVars, TypeOK
    <2> QED BY <2>1, <2>2
  <1>2. CASE Leave(c)
    <2>1. CASE d = c
      BY <1>0, <1>2, <2>1 DEF Leave, TypeOK, EndSafe
    <2>2. CASE d # c
      BY <1>2, <2>2, SameEnd DEF Leave, TypeOK
    <2> QED BY <2>1, <2>2
  <1>3. CASE Replicate(c)
    <2>1. PICK k \in known[c] + 1 .. Len(log) :
             /\ known' = [known EXCEPT ![c] = k]
             /\ IF life[c] = "spawned" \/ (known[c] # 0 /\ log[k] = Info(c))
                THEN UNCHANGED moveVars
                ELSE OnRep(c, log[k], <<>>)
      BY <1>3 DEF Replicate
    <2>2. UNCHANGED <<engineVars, log, life, balance>> /\ owed[c] = <<>>
      BY <1>3 DEF Replicate
    <2>3. k \in 1 .. Len(log) /\ log[k] \in Infos
      <3>1. k \in 1 .. Len(log)
        BY <1>0 DEF TypeOK
      <3> QED BY <3>1 DEF TypeOK
    <2>4. known'[c] = k /\ k # 0
      BY <1>0, <2>1, <2>3 DEF TypeOK
    <2>5. CASE d = c /\ UNCHANGED moveVars /\ life[c] = "spawned"
      BY <1>0, <2>2, <2>5 DEF moveVars, TypeOK, EndSafe
    <2>6. CASE d = c /\ UNCHANGED moveVars /\ known[c] # 0 /\ log[k] = Info(c)
      <3>1. Info(c)' = Info(c)
        BY <2>2, <2>4, <2>6 DEF Info
      <3>2. Beginning(c)' <=> Beginning(c)
        BY <2>6 DEF Beginning, moveVars
      <3>3. ArrivesOnTime(c) => ArrivesOnTime(c)'
        BY <2>2, <2>6, <3>1 DEF ArrivesOnTime, Target, moveVars
      <3> QED BY <1>0, <2>2, <2>4, <2>6, <3>1, <3>2, <3>3 DEF EndSafe, moveVars
    <2>7. CASE d = c /\ OnRep(c, log[k], <<>>)
      <3>1. <<>> \in Seq(Frames)
        OBVIOUS
      <3> QED BY <1>0, <2>2, <2>3, <2>4, <2>7, <3>1, OnRepSafe
    <2>8. CASE d # c
      <3>1. /\ forTick'[d] = forTick[d] /\ root'[d] = root[d]
            /\ moving'[d] = moving[d] /\ owed'[d] = owed[d]
        <4>1. CASE UNCHANGED moveVars
          BY <4>1 DEF moveVars
        <4>2. CASE OnRep(c, log[k], <<>>)
          <5>1. <<>> \in Seq(Frames)
            OBVIOUS
          <5> QED BY <1>0, <2>3, <2>8, <4>2, <5>1, OnRepType, EndsAreTyped
        <4> QED BY <2>1, <4>1, <4>2
      <3> QED BY <2>1, <2>2, <2>8, <3>1, SameEnd DEF TypeOK
    <2> QED BY <2>1, <2>5, <2>6, <2>7, <2>8
  <1> QED BY <1>1, <1>2, <1>3

LEMMA InitSafe == Init => SafeInv
  BY InitType DEF Init, SafeInv, EndSafe

LEMMA NextSafe == SafeInv /\ [Next]_vars => SafeInv'
  <1> SUFFICES ASSUME SafeInv, [Next]_vars, NEW d \in Ends
               PROVE  EndSafe(d)'
    BY NextType DEF SafeInv
  <1>1. ASSUME NEW cost \in Costs, NEW target \in [Axes -> Values],
               StartLerpToTrans(cost, target)
        PROVE  EndSafe(d)'
    <2>1. target \in Transforms /\ cost \in Int
      BY DEF Transforms
    <2> QED BY <1>1, <2>1, StartSafe
  <1>2. ASSUME NEW cost \in Costs, NEW x \in Axes, NEW v \in Values,
               StartAxisTo(cost, x, v)
        PROVE  EndSafe(d)'
    BY <1>2, StartAxisTarget, StartSafe DEF StartAxisTo, SafeInv
  <1>3. ASSUME NEW e \in Ends,
               \/ BeginPlay(e) \/ ReturnToBeginPlay(e)
               \/ Broadcast(e) \/ TickComponent(e)
        PROVE  EndSafe(d)'
    BY <1>3, EndActionsSafe
  <1>4. ASSUME NEW c \in Clients, Join(c) \/ Leave(c) \/ Replicate(c)
        PROVE  EndSafe(d)'
    BY <1>4, ClientActionsSafe
  <1>5. CASE Advance
    BY <1>5, SameEnd DEF Advance, moveVars, SafeInv
  <1>6. CASE UNCHANGED vars
    BY <1>6, SameEnd DEF vars, engineVars, moveVars, SafeInv
  <1> QED BY <1>1, <1>2, <1>3, <1>4, <1>5, <1>6 DEF Next

LEMMA AlwaysSafe == Spec => []SafeInv
  <1> QED BY InitSafe, NextSafe, PTL DEF Spec

(* Who does not move stands at the target of the last move it knows of.      *)
THEOREM AtRestAtTarget == Spec => []RestsAtTarget
  <1> QED BY AlwaysSafe, SafeInvImplies, PTL

(* Who moves arrives within the limit of the server, or exactly with it.     *)
THEOREM ArrivesWithinLimit == Spec => []ArrivalWithinLimit
  <1> QED BY AlwaysSafe, SafeInvImplies, PTL

--------------------------------------------------------------------------------
(* Listeners can count.  A script may start a move inside the notification   *)
(* that the last one stopped, so notifications pile up on the call stack and *)
(* their order says little; what lasts is their sum: the broadcasts made and *)
(* those still on the stack come to 1 if the end moves and to 0 if not.  The *)
(* sum is a function f on the places of the stack, f[i] the balance when the *)
(* frames above place i have returned.                                       *)

Weight(frame) == IF frame = "start" THEN 1 ELSE IF frame = "stop" THEN -1 ELSE 0

Reaches(a, stack, b) ==
    \E f \in [1 .. Len(stack) + 1 -> Int] :
        /\ f[1] = a
        /\ f[Len(stack) + 1] = b
        /\ \A i \in 1 .. Len(stack) : f[i + 1] = f[i] + Weight(stack[i])

Due(e) == IF moving[e] THEN 1 ELSE 0

CountInv == TypeOK /\ \A e \in Ends : Reaches(balance[e], owed[e], Due(e))

LEMMA WeightType == \A frame : Weight(frame) \in Int
  BY DEF Weight

LEMMA EmptyReaches ==
  ASSUME NEW a \in Int, NEW b \in Int
  PROVE  Reaches(a, <<>>, b) <=> a = b
  <1>1. Len(<<>>) = 0
    OBVIOUS
  <1>2. ASSUME Reaches(a, <<>>, b)
        PROVE  a = b
    BY <1>1, <1>2 DEF Reaches
  <1>3. ASSUME a = b
        PROVE  Reaches(a, <<>>, b)
    <2> DEFINE f == [i \in 1 .. 1 |-> a]
    <2>1. f \in [1 .. Len(<<>>) + 1 -> Int] /\ f[1] = a
      BY <1>1
    <2>2. \A i \in 1 .. Len(<<>>) : f[i + 1] = f[i] + Weight(<<>>[i])
      BY <1>1
    <2>3. f[Len(<<>>) + 1] = b
      BY <1>1, <1>3, <2>1
    <2> HIDE DEF f
    <2> QED BY <2>1, <2>2, <2>3 DEF Reaches
  <1> QED BY <1>2, <1>3

(* A frame returns.                                                          *)
LEMMA PopReaches ==
  ASSUME NEW s \in Seq(Frames), s # <<>>, NEW a \in Int, NEW b \in Int,
         Reaches(a, s, b)
  PROVE  Reaches(a + Weight(Head(s)), Tail(s), b)
  <1>1. PICK f \in [1 .. Len(s) + 1 -> Int] :
           /\ f[1] = a
           /\ f[Len(s) + 1] = b
           /\ \A i \in 1 .. Len(s) : f[i + 1] = f[i] + Weight(s[i])
    BY DEF Reaches
  <1> DEFINE n == Len(s) - 1
             g == [i \in 1 .. n + 1 |-> f[i + 1]]
  <1>2. /\ n \in Nat
        /\ Len(s) = n + 1
        /\ Len(Tail(s)) = n
        /\ Head(s) = s[1]
        /\ \A i \in 1 .. n : Tail(s)[i] = s[i + 1]
    OBVIOUS
  <1> HIDE DEF n
  <1>3. g \in [1 .. n + 1 -> Int]
    BY <1>2
  <1>4. g[1] = a + Weight(s[1])
    <2>1. f[1 + 1] = f[1] + Weight(s[1])
      BY <1>1, <1>2
    <2> QED BY <1>1, <1>2, <2>1
  <1>5. g[n + 1] = b
    BY <1>1, <1>2
  <1>6. ASSUME NEW i \in 1 .. n
        PROVE  g[i + 1] = g[i] + Weight(Tail(s)[i])
    <2>1. i + 1 \in 1 .. Len(s)
      BY <1>2
    <2>2. f[(i + 1) + 1] = f[i + 1] + Weight(s[i + 1])
      BY <1>1, <2>1
    <2>3. g[i + 1] = f[(i + 1) + 1] /\ g[i] = f[i + 1]
      BY <1>2
    <2> QED BY <1>2, <2>2, <2>3
  <1> HIDE DEF g
  <1> QED BY <1>2, <1>3, <1>4, <1>5, <1>6 DEF Reaches

(* A frame is called on top of the others.                                   *)
LEMMA PushReaches ==
  ASSUME NEW s \in Seq(Frames), NEW frame \in Frames,
         NEW a \in Int, NEW b \in Int, NEW c \in Int,
         Reaches(a, s, b), c = b + Weight(frame)
  PROVE  Reaches(a, <<frame>> \o s, c)
  <1>1. PICK f \in [1 .. Len(s) + 1 -> Int] :
           /\ f[1] = a
           /\ f[Len(s) + 1] = b
           /\ \A i \in 1 .. Len(s) : f[i + 1] = f[i] + Weight(s[i])
    BY DEF Reaches
  <1> DEFINE n == Len(s)
             w == Weight(frame)
             t == <<frame>> \o s
             g == [i \in 1 .. n + 2 |-> IF i = 1 THEN a ELSE f[i - 1] + w]
  <1>2. n \in Nat /\ w \in Int
    BY WeightType
  <1>3. /\ Len(t) = n + 1
        /\ t[1] = frame
        /\ \A i \in 2 .. n + 1 : t[i] = s[i - 1]
    OBVIOUS
  <1>4. f \in [1 .. n + 1 -> Int]
    BY <1>1
  <1>5. \A i \in 1 .. n : f[i + 1] = f[i] + Weight(s[i])
    BY <1>1
  <1>6. f[1] = a /\ f[n + 1] = b /\ c = b + w
    BY <1>1
  <1> HIDE DEF n, w, t
  <1>7. g \in [1 .. n + 2 -> Int]
    <2>1. ASSUME NEW i \in 1 .. n + 2, i # 1
          PROVE  f[i - 1] + w \in Int
      <3>1. i - 1 \in 1 .. n + 1
        BY <1>2, <2>1
      <3>2. f[i - 1] \in Int
        BY ONLY <1>4, <3>1
      <3> QED BY ONLY <1>2, <3>2
    <2> QED BY <2>1
  <1>8. g[1] = a
    BY <1>2
  <1>9. g[n + 2] = c
    BY <1>2, <1>6
  <1>10. ASSUME NEW i \in 1 .. n + 1
         PROVE  g[i + 1] = g[i] + Weight(t[i])
    <2>1. g[i + 1] = f[i] + w
      <3>1. i \in Int /\ i # 0 /\ i + 1 \in 1 .. n + 2
        BY ONLY <1>2, i \in 1 .. n + 1
      <3>2. (i + 1) - 1 = i /\ i + 1 # 1
        BY ONLY <3>1
      <3> QED BY <3>1, <3>2
    <2>2. CASE i = 1
      BY <1>2, <1>3, <1>6, <2>1, <2>2 DEF w
    <2>3. CASE i # 1
      <3>1. PICK j \in 1 .. n : i = j + 1
        BY <1>2, <2>3
      <3>2. t[i] = s[j]
        <4>1. i \in 2 .. n + 1 /\ i - 1 = j
          BY <1>2, <3>1
        <4>2. t[i] = s[i - 1]
          BY <1>3, <4>1
        <4> QED BY <4>1, <4>2
      <3>3. f[i] = f[j] + Weight(s[j])
        BY <1>5, <3>1
      <3>4. g[i] = f[j] + w
        BY <1>2, <2>3, <3>1
      <3>5. f[j] \in Int /\ Weight(s[j]) \in Int
        BY <1>2, <1>4, WeightType
      <3> QED BY ONLY <1>2, <2>1, <3>2, <3>3, <3>4, <3>5
    <2> QED BY <2>2, <2>3
  <1>11. (n + 1) + 1 = n + 2
    BY <1>2
  <1> HIDE DEF g
  <1>12. Reaches(a, t, c)
    <2>1. g \in [1 .. Len(t) + 1 -> Int] /\ g[Len(t) + 1] = c
      BY ONLY <1>3, <1>7, <1>9, <1>11
    <2>2. \A i \in 1 .. Len(t) : g[i + 1] = g[i] + Weight(t[i])
      BY ONLY <1>3, <1>10
    <2> QED BY ONLY <1>8, <2>1, <2>2 DEF Reaches
  <1> QED BY <1>12 DEF t

LEMMA DueType == \A e \in Ends : Due(e) \in Int
  BY DEF Due

(* OnRep and a move's end call the notification that is due.                 *)
LEMMA EnterReaches ==
  ASSUME TypeOK, NEW e \in Ends, NEW stack \in Seq(Frames), NEW a \in Int,
         Reaches(a, stack, Due(e)),
         EnterMovingState(e, stack) \/ ExitMovingState(e, stack)
  PROVE  Reaches(a, owed'[e], Due(e)')
  <1>1. "start" \in Frames /\ "stop" \in Frames
    BY DEF Frames
  <1>2. CASE EnterMovingState(e, stack)
    <2>1. moving'[e] = TRUE /\ Due(e)' = 1
      BY <1>2 DEF EnterMovingState, TypeOK, Due
    <2>2. CASE moving[e]
      BY <1>2, <2>1, <2>2 DEF EnterMovingState, TypeOK, Due
    <2>3. CASE ~moving[e]
      <3>1. owed'[e] = <<"start">> \o stack /\ Due(e) = 0
        BY <1>2, <2>3 DEF EnterMovingState, TypeOK, Due
      <3>2. 1 = 0 + Weight("start")
        BY DEF Weight
      <3>3. Reaches(a, <<"start">> \o stack, 1)
        BY <1>1, <3>1, <3>2, PushReaches
      <3> QED BY <2>1, <3>1, <3>3
    <2> QED BY <2>2, <2>3
  <1>3. CASE ExitMovingState(e, stack)
    <2>1. moving'[e] = FALSE /\ Due(e)' = 0
      BY <1>3 DEF ExitMovingState, TypeOK, Due
    <2>2. CASE ~moving[e]
      BY <1>3, <2>1, <2>2 DEF ExitMovingState, TypeOK, Due
    <2>3. CASE moving[e]
      <3>1. owed'[e] = <<"stop">> \o stack /\ Due(e) = 1
        BY <1>3, <2>3 DEF ExitMovingState, TypeOK, Due
      <3>2. 0 = 1 + Weight("stop")
        BY DEF Weight
      <3>3. Reaches(a, <<"stop">> \o stack, 0)
        BY <1>1, <3>1, <3>2, PushReaches
      <3> QED BY <2>1, <3>1, <3>3
    <2> QED BY <2>2, <2>3
  <1> QED BY <1>2, <1>3

LEMMA OnRepReaches ==
  ASSUME TypeOK, NEW e \in Ends, NEW info, NEW stack \in Seq(Frames),
         NEW a \in Int, Reaches(a, stack, Due(e)), OnRep(e, info, stack)
  PROVE  Reaches(a, owed'[e], Due(e)')
  <1>1. EnterMovingState(e, stack) \/ ExitMovingState(e, stack)
    BY DEF OnRep, Snap, Follow, Chase
  <1> QED BY <1>1, EnterReaches

(* An end that neither moves otherwise, nor calls, nor broadcasts.           *)
LEMMA SameReaches ==
  ASSUME NEW d \in Ends, Reaches(balance[d], owed[d], Due(d)),
         balance'[d] = balance[d], owed'[d] = owed[d], moving'[d] = moving[d]
  PROVE  Reaches(balance[d], owed[d], Due(d))'
  <1>1. Due(d)' = Due(d)
    BY DEF Due
  <1>2. Reaches(balance[d], owed[d], Due(d))' =
            Reaches(balance'[d], owed'[d], Due(d)')
    BY DEF Reaches
  <1> QED BY <1>1, <1>2

LEMMA StartReaches ==
  ASSUME CountInv, NEW cost \in Int, NEW target \in Transforms,
         StartLerpToTrans(cost, target), NEW d \in Ends
  PROVE  Reaches(balance[d], owed[d], Due(d))'
  <1> DEFINE info == [start |-> now, cost |-> cost,
                      from |-> root[Server], to |-> target]
  <1> USE DEF CountInv
  <1>1. Server \in Ends
    BY DEF Ends
  <1>2. info \in Infos
    BY <1>1 DEF TypeOK, Infos
  <1>3. OnRep(Server, info, owed[Server]) /\ balance' = balance
    BY DEF StartLerpToTrans
  <1> HIDE DEF info
  <1>4. owed[Server] \in Seq(Frames) /\ balance[Server] \in Int
    BY <1>1 DEF TypeOK
  <1>5. CASE d = Server
    <2>1. Reaches(balance[Server], owed'[Server], Due(Server)')
      BY <1>1, <1>3, <1>4, OnRepReaches
    <2> QED BY <1>3, <1>5, <2>1 DEF Reaches
  <1>6. CASE d # Server
    <2>1. moving'[d] = moving[d] /\ owed'[d] = owed[d]
      BY <1>1, <1>2, <1>3, <1>4, <1>6, OnRepType, EndsAreTyped
    <2> QED BY <1>3, <2>1, SameReaches
  <1> QED BY <1>5, <1>6

LEMMA EndActionsReach ==
  ASSUME CountInv, NEW e \in Ends, NEW d \in Ends,
         \/ BeginPlay(e) \/ ReturnToBeginPlay(e)
         \/ Broadcast(e) \/ TickComponent(e)
  PROVE  Reaches(balance[d], owed[d], Due(d))'
  <1> USE DEF CountInv
  <1>1. /\ owed[e] \in Seq(Frames) /\ balance[e] \in Int /\ Due(e) \in Int
        /\ Reaches(balance[e], owed[e], Due(e))
    BY DueType DEF TypeOK
  <1>2. ASSUME d # e
        PROVE  moving'[d] = moving[d] /\ owed'[d] = owed[d] /\ balance'[d] = balance[d]
    <2>1. CASE BeginPlay(e)
      BY <1>2, <2>1 DEF BeginPlay, TypeOK
    <2>2. CASE ReturnToBeginPlay(e)
      <3>1. balance' = balance /\ Tail(owed[e]) \in Seq(Frames)
        BY <1>1, <2>2 DEF ReturnToBeginPlay
      <3>2. CASE known[e] = 0
        BY <1>2, <2>2, <3>1, <3>2 DEF ReturnToBeginPlay, TypeOK
      <3>3. CASE known[e] # 0
        <4>1. OnRep(e, Info(e), Tail(owed[e])) /\ Info(e) \in Infos
          BY <2>2, <3>3, InfoType DEF ReturnToBeginPlay
        <4> QED BY <1>2, <3>1, <4>1, OnRepType, EndsAreTyped
      <3> QED BY <3>2, <3>3
    <2>3. CASE Broadcast(e)
      BY <1>2, <2>3 DEF Broadcast, TypeOK
    <2>4. CASE TickComponent(e)
      BY <1>2, <2>4 DEF TickComponent, ExitMovingState, TypeOK
    <2> QED BY <2>1, <2>2, <2>3, <2>4
  <1>3. Reaches(balance'[e], owed'[e], Due(e)')
    <2>1. CASE BeginPlay(e)
      <3>1. owed[e] = <<>> /\ owed'[e] = <<"begin">> /\ balance' = balance
        BY <2>1 DEF BeginPlay, TypeOK
      <3>2. Due(e)' = Due(e)
        BY <2>1 DEF BeginPlay, Due
      <3>3. "begin" \in Frames /\ Due(e) = Due(e) + Weight("begin")
        BY <1>1 DEF Frames, Weight
      <3>4. Reaches(balance[e], <<"begin">> \o owed[e], Due(e))
        BY <1>1, <3>3, PushReaches
      <3>5. <<"begin">> \o owed[e] = <<"begin">>
        BY <3>1
      <3> QED BY <3>1, <3>2, <3>4, <3>5
    <2>2. CASE ReturnToBeginPlay(e)
      <3>1. /\ balance' = balance /\ Head(owed[e]) = "begin" /\ owed[e] # <<>>
            /\ Tail(owed[e]) \in Seq(Frames)
        BY <1>1, <2>2 DEF ReturnToBeginPlay
      <3>2. Reaches(balance[e], Tail(owed[e]), Due(e))
        <4>1. balance[e] + Weight(Head(owed[e])) = balance[e]
          BY <1>1, <3>1 DEF Weight
        <4> QED BY <1>1, <3>1, <4>1, PopReaches
      <3>3. CASE known[e] = 0
        <4>1. owed'[e] = Tail(owed[e]) /\ moving' = moving
          BY <2>2, <3>3 DEF ReturnToBeginPlay, TypeOK
        <4> QED BY <3>1, <3>2, <4>1 DEF Due
      <3>4. CASE known[e] # 0
        <4>1. OnRep(e, Info(e), Tail(owed[e]))
          BY <2>2, <3>4 DEF ReturnToBeginPlay
        <4> QED BY <1>1, <3>1, <3>2, <4>1, OnRepReaches
      <3> QED BY <3>3, <3>4
    <2>3. CASE Broadcast(e)
      <3>1. /\ owed[e] # <<>> /\ Head(owed[e]) # "begin" /\ moving' = moving
            /\ owed'[e] = Tail(owed[e])
            /\ balance'[e] = balance[e] + (IF Head(owed[e]) = "start" THEN 1 ELSE -1)
        BY <2>3 DEF Broadcast, TypeOK
      <3>2. Head(owed[e]) \in Frames
        BY <1>1, <3>1
      <3>3. balance'[e] = balance[e] + Weight(Head(owed[e]))
        BY <3>1, <3>2 DEF Frames, Weight
      <3>4. Reaches(balance[e] + Weight(Head(owed[e])), Tail(owed[e]), Due(e))
        BY <1>1, <3>1, PopReaches
      <3> QED BY <3>1, <3>3, <3>4 DEF Due
    <2>4. CASE TickComponent(e)
      <3>1. owed[e] = <<>> /\ balance' = balance
        BY <2>4 DEF TickComponent
      <3>2. CASE ExitMovingState(e, <<>>)
        <4>1. <<>> \in Seq(Frames)
          OBVIOUS
        <4>2. Reaches(balance[e], owed'[e], Due(e)')
          BY <1>1, <3>1, <3>2, <4>1, EnterReaches
        <4> QED BY <3>1, <4>2
      <3>3. CASE UNCHANGED <<moving, owed>>
        BY <1>1, <3>1, <3>3 DEF Due
      <3> QED BY <2>4, <3>2, <3>3 DEF TickComponent
    <2> QED BY <2>1, <2>2, <2>3, <2>4
  <1>4. CASE d = e
    BY <1>3, <1>4 DEF Reaches
  <1>5. CASE d # e
    BY <1>2, <1>5, SameReaches
  <1> QED BY <1>4, <1>5

LEMMA ClientActionsReach ==
  ASSUME CountInv, NEW c \in Clients, Join(c) \/ Leave(c) \/ Replicate(c),
         NEW d \in Ends
  PROVE  Reaches(balance[d], owed[d], Due(d))'
  <1> USE DEF CountInv
  <1>0. c \in Ends
    BY DEF Ends
  <1>1. CASE Join(c)
    BY <1>1, SameReaches DEF Join, moveVars
  <1>2. CASE Leave(c)
    <2>1. CASE d = c
      <3>1. owed'[c] = <<>> /\ balance'[c] = 0 /\ Due(c)' = 0
        BY <1>0, <1>2 DEF Leave, TypeOK, Due
      <3>2. Reaches(0, <<>>, 0)
        BY EmptyReaches
      <3> QED BY <2>1, <3>1, <3>2 DEF Reaches
    <2>2. CASE d # c
      BY <1>2, <2>2, SameReaches DEF Leave, TypeOK
    <2> QED BY <2>1, <2>2
  <1>3. CASE Replicate(c)
    <2>1. PICK k \in known[c] + 1 .. Len(log) :
             \/ UNCHANGED moveVars
             \/ OnRep(c, log[k], <<>>)
      BY <1>3 DEF Replicate
    <2>2. balance' = balance /\ owed[c] = <<>>
      BY <1>3 DEF Replicate
    <2>3. log[k] \in Infos /\ <<>> \in Seq(Frames) /\ balance[c] \in Int
      <3>1. k \in 1 .. Len(log)
        BY <1>0 DEF TypeOK
      <3> QED BY <1>0, <3>1 DEF TypeOK
    <2>4. CASE UNCHANGED moveVars
      BY <2>2, <2>4, SameReaches DEF moveVars
    <2>5. CASE d = c /\ OnRep(c, log[k], <<>>)
      <3>1. Reaches(balance[c], <<>>, Due(c))
        BY <1>0, <2>2
      <3>2. Reaches(balance[c], owed'[c], Due(c)')
        BY <1>0, <2>3, <2>5, <3>1, OnRepReaches
      <3> QED BY <2>2, <2>5, <3>2 DEF Reaches
    <2>6. CASE d # c /\ OnRep(c, log[k], <<>>)
      <3>1. moving'[d] = moving[d] /\ owed'[d] = owed[d]
        BY <1>0, <2>3, <2>6, OnRepType, EndsAreTyped
      <3> QED BY <2>2, <3>1, SameReaches
    <2> QED BY <2>1, <2>4, <2>5, <2>6
  <1> QED BY <1>1, <1>2, <1>3

LEMMA InitCount == Init => CountInv
  <1> SUFFICES ASSUME Init
               PROVE  CountInv
    OBVIOUS
  <1>1. \A e \in Ends : owed[e] = <<>> /\ balance[e] = 0 /\ Due(e) = 0
    BY DEF Init, Due
  <1>2. Reaches(0, <<>>, 0)
    BY EmptyReaches
  <1> QED BY <1>1, <1>2, InitType DEF CountInv

LEMMA NextCount == CountInv /\ [Next]_vars => CountInv'
  <1> SUFFICES ASSUME CountInv, [Next]_vars, NEW d \in Ends
               PROVE  Reaches(balance[d], owed[d], Due(d))'
    BY NextType DEF CountInv
  <1>1. ASSUME NEW cost \in Costs, NEW target \in [Axes -> Values],
               StartLerpToTrans(cost, target)
        PROVE  Reaches(balance[d], owed[d], Due(d))'
    <2>1. target \in Transforms /\ cost \in Int
      BY DEF Transforms
    <2> QED BY <1>1, <2>1, StartReaches
  <1>2. ASSUME NEW cost \in Costs, NEW x \in Axes, NEW v \in Values,
               StartAxisTo(cost, x, v)
        PROVE  Reaches(balance[d], owed[d], Due(d))'
    BY <1>2, StartAxisTarget, StartReaches DEF StartAxisTo, CountInv
  <1>3. ASSUME NEW e \in Ends,
               \/ BeginPlay(e) \/ ReturnToBeginPlay(e)
               \/ Broadcast(e) \/ TickComponent(e)
        PROVE  Reaches(balance[d], owed[d], Due(d))'
    BY <1>3, EndActionsReach
  <1>4. ASSUME NEW c \in Clients, Join(c) \/ Leave(c) \/ Replicate(c)
        PROVE  Reaches(balance[d], owed[d], Due(d))'
    BY <1>4, ClientActionsReach
  <1>5. CASE Advance
    BY <1>5, SameReaches DEF Advance, moveVars, CountInv
  <1>6. CASE UNCHANGED vars
    BY <1>6, SameReaches DEF vars, moveVars, CountInv
  <1> QED BY <1>1, <1>2, <1>3, <1>4, <1>5, <1>6 DEF Next

LEMMA CountImplies == CountInv => BroadcastsBalance
  <1> SUFFICES ASSUME CountInv, NEW e \in Ends, owed[e] = <<>>
               PROVE  balance[e] = Due(e)
    BY DEF BroadcastsBalance, Due
  <1>1. Reaches(balance[e], <<>>, Due(e)) /\ balance[e] \in Int
    BY DEF CountInv, TypeOK
  <1> QED BY <1>1, DueType, EmptyReaches

(* Who counts OnStartMove and OnStopMove knows whether the component moves,  *)
(* however deep scripts start moves inside the notifications.                *)
THEOREM ListenersCanCount == Spec => []BroadcastsBalance
  <1> QED BY InitCount, NextCount, CountImplies, PTL DEF Spec
================================================================================
