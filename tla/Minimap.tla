-------------------------------- MODULE Minimap --------------------------------
(***************************************************************************)
(* The registry of minimap components (Some-UE/MiniMap): one manager per   *)
(* map keeps its components under indexes it gives out, the dynamic ones   *)
(* in a second table and the static ones in an octree, with a third table  *)
(* that says where in the octree an index is.  The panel asks the managers *)
(* for the components in a box and draws what they give.                   *)
(*                                                                         *)
(* The octree is the engine's (TOctree2).  Up to 16 elements it is a       *)
(* single leaf: an array from which an element is removed by putting the   *)
(* last one in its place, and whoever is put anywhere is told so           *)
(* (SetElementId).  Removal from the registry leaves the element in it.    *)
(*                                                                         *)
(* A component's map, and while it is registered its static flag, do not   *)
(* change.  Managers are there from the beginning, where the code creates  *)
(* an empty one at the first use.  A box is one of Spots and a query a set *)
(* of them.  Left out: what an element looks like, the panel's own         *)
(* elements and its transform, log messages.                               *)
(***************************************************************************)
EXTENDS Integers, Sequences, FiniteSets

CONSTANTS
    Cmps,        \* components
    Maps,
    MapOf,       \* GetMinimapName
    Spots,       \* boxes
    MaxIndex     \* bound: indexes of one manager, so elements of its octree

ASSUME MinimapAssumption ==
    /\ MapOf \in [Cmps -> Maps]
    /\ MaxIndex \in 1 .. 16

VARIABLES
    \* of a component
    alive, static, box,
    uniqueIndex,     \* UniqueIndex
    needRecollect,   \* bNeedRecollect
    sortIndex,       \* SubSortIndex of all its cached elements, 0 before any
    \* of a manager
    allocated,       \* AllocatedIndex
    collect,         \* CollectComponents
    dynamic,         \* DynamicCollectComponents
    tree,            \* StaticOCTree
    treeIds,         \* ObjectToOctreeIds
    told             \* history: box reported last, per index in the octree

cmpVars == <<alive, static, box, uniqueIndex>>
drawVars == <<needRecollect, sortIndex>>
treeVars == <<tree, treeIds, told>>
vars == <<cmpVars, drawVars, allocated, collect, dynamic, treeVars>>

NoIndex == -1
Indexes == 1 .. MaxIndex
Elements == [cmp : Cmps, owner : Indexes, box : Spots]

(* A table with an entry more, or without one.                               *)
With(t, i, v) == [j \in DOMAIN t \cup {i} |-> IF j = i THEN v ELSE t[j]]
Without(t, i) == [j \in DOMAIN t \ {i} |-> t[j]]

IsRegistered(c) == uniqueIndex[c] \in DOMAIN collect[MapOf[c]]

Init ==
    /\ alive = [c \in Cmps |-> TRUE]
    /\ static \in [Cmps -> BOOLEAN]
    /\ box \in [Cmps -> Spots]
    /\ uniqueIndex = [c \in Cmps |-> NoIndex]
    /\ needRecollect = [c \in Cmps |-> TRUE]
    /\ sortIndex = [c \in Cmps |-> 0]
    /\ allocated = [m \in Maps |-> 0]
    /\ collect = [m \in Maps |-> <<>>]
    /\ dynamic = [m \in Maps |-> <<>>]
    /\ tree = [m \in Maps |-> <<>>]
    /\ treeIds = [m \in Maps |-> <<>>]
    /\ told = [m \in Maps |-> <<>>]

-----------------------------------------------------------------------------
(* The octree.  Each yields the array and the table of ids after it.         *)

AddElement(t, ids, e) ==
    [tree |-> Append(t, e), ids |-> With(ids, e.owner, Len(t) + 1)]

(* Slip: the element that takes the place is not told so.                    *)
SlipRemoveElement(t, ids, p) ==
    LET rest == SubSeq(t, 1, Len(t) - 1) IN
    [tree |-> IF p = Len(t) THEN rest ELSE [rest EXCEPT ![p] = t[Len(t)]],
     ids  |-> ids]

RemoveElement(t, ids, p) ==
    LET last == t[Len(t)]
        rest == SubSeq(t, 1, Len(t) - 1)
    IN  IF p = Len(t) THEN [tree |-> rest, ids |-> ids]
        ELSE [tree |-> [rest EXCEPT ![p] = last],
              ids  |-> With(ids, last.owner, p)]

(* Slip: the compiler's own copy constructor.                                *)
SlipCopied(e) == e

(* An element takes its box anew from its component when it is copied.       *)
Copied(e) == IF alive[e.cmp] THEN [e EXCEPT !.box = box[e.cmp]] ELSE e

(* Slip: the element is added anew and the old one left.                     *)
SlipUpdateElement(t, ids, p) ==
    AddElement(t, Without(ids, t[p].owner), Copied(t[p]))

UpdateElement(t, ids, p) ==
    LET e == t[p]
        removed == RemoveElement(t, ids, p)
    IN  AddElement(removed.tree, Without(removed.ids, e.owner), Copied(e))

SetTree(m, new) ==
    /\ tree' = [tree EXCEPT ![m] = new.tree]
    /\ treeIds' = [treeIds EXCEPT ![m] = new.ids]

-----------------------------------------------------------------------------
(* A manager, called by a component of its map.                              *)

(* RegisterSelf: AddMinimapElementCollector.                                 *)
RegisterSelf(c) ==
    LET m == MapOf[c]
        i == allocated[m] + 1
    IN
    /\ alive[c] /\ ~IsRegistered(c)
    /\ i <= MaxIndex
    /\ allocated' = [allocated EXCEPT ![m] = i]
    /\ collect' = [collect EXCEPT ![m] = With(@, i, c)]
    /\ uniqueIndex' = [uniqueIndex EXCEPT ![c] = i]
    /\ IF static[c]
       THEN /\ SetTree(m, AddElement(tree[m], treeIds[m],
                              [cmp |-> c, owner |-> i, box |-> box[c]]))
            /\ told' = [told EXCEPT ![m] = With(@, i, box[c])]
            /\ UNCHANGED dynamic
       ELSE /\ dynamic' = [dynamic EXCEPT ![m] = With(@, i, c)]
            /\ UNCHANGED treeVars
    /\ UNCHANGED <<alive, static, box, drawVars>>

(* ReupdateSelfBound: UpdateMinimapElementCollector.                         *)
ReupdateSelfBound(c) ==
    LET m == MapOf[c]
        i == uniqueIndex[c]
    IN
    /\ alive[c] /\ IsRegistered(c) /\ static[collect[m][i]]
    /\ i \in DOMAIN treeIds[m]
    /\ SetTree(m, UpdateElement(tree[m], treeIds[m], treeIds[m][i]))
    /\ told' = [told EXCEPT ![m] = With(@, i, box[c])]
    /\ UNCHANGED <<cmpVars, drawVars, allocated, collect, dynamic>>

(* Slip: a removed component is looked for in the octree only.               *)
SlipRemove(c) ==
    LET m == MapOf[c]
        i == uniqueIndex[c]
    IN
    /\ collect' = [collect EXCEPT ![m] = Without(@, i)]
    /\ treeIds' = [treeIds EXCEPT ![m] = Without(@, i)]
    /\ told' = [told EXCEPT ![m] = Without(@, i)]
    /\ UNCHANGED dynamic

(* RemoveMinimapElementCollector: the element stays in the octree.           *)
Remove(c) ==
    LET m == MapOf[c]
        i == uniqueIndex[c]
    IN
    /\ collect' = [collect EXCEPT ![m] = Without(@, i)]
    /\ IF static[collect[m][i]]
       THEN /\ treeIds' = [treeIds EXCEPT
                              ![m] = Without(@, uniqueIndex[collect[m][i]])]
            /\ told' = [told EXCEPT ![m] = Without(@, i)]
            /\ UNCHANGED dynamic
       ELSE /\ dynamic' = [dynamic EXCEPT ![m] = Without(@, i)]
            /\ UNCHANGED <<treeIds, told>>

UnregisterSelf(c) ==
    /\ alive[c] /\ IsRegistered(c)
    /\ Remove(c)
    /\ UNCHANGED <<cmpVars, drawVars, allocated, tree>>

(* OnComponentDestroyed.                                                     *)
Destroy(c) ==
    /\ alive[c]
    /\ alive' = [alive EXCEPT ![c] = FALSE]
    /\ IF IsRegistered(c) THEN Remove(c)
       ELSE UNCHANGED <<collect, dynamic, treeIds, told>>
    /\ UNCHANGED <<static, box, uniqueIndex, drawVars, allocated, tree>>

-----------------------------------------------------------------------------
(* A manager, called from elsewhere.                                         *)

(* Slip: the indexes begin anew.                                             *)
SlipClear(m) ==
    /\ tree' = [tree EXCEPT ![m] = <<>>]
    /\ collect' = [collect EXCEPT ![m] = <<>>]
    /\ dynamic' = [dynamic EXCEPT ![m] = <<>>]
    /\ treeIds' = [treeIds EXCEPT ![m] = <<>>]
    /\ told' = [told EXCEPT ![m] = <<>>]
    /\ allocated' = [allocated EXCEPT ![m] = 0]
    /\ UNCHANGED <<cmpVars, drawVars>>

(* Neither the ids nor the components' indexes are reset.                    *)
Clear(m) ==
    /\ tree' = [tree EXCEPT ![m] = <<>>]
    /\ collect' = [collect EXCEPT ![m] = <<>>]
    /\ dynamic' = [dynamic EXCEPT ![m] = <<>>]
    /\ told' = [told EXCEPT ![m] = <<>>]
    /\ UNCHANGED <<cmpVars, drawVars, allocated, treeIds>>

(* Elements the octree has for components that are still there.              *)
Receivers(m) == {p \in 1 .. Len(tree[m]) : alive[tree[m][p].cmp]}

Orders(S) ==
    {o \in [1 .. Cardinality(S) -> S] : \A x \in S : \E k \in DOMAIN o : o[k] = x}

(* The ids when a sequence of elements was added one by one.                 *)
IdsAfter(ids, made) ==
    LET owners == {made[p].owner : p \in DOMAIN made} IN
    [i \in DOMAIN ids \cup owners |->
        IF i \in owners
        THEN CHOOSE p \in DOMAIN made :
                /\ made[p].owner = i
                /\ \A q \in DOMAIN made : made[q].owner = i => q <= p
        ELSE ids[i]]

(* RebuildAllElenments: every element is made anew, under the index its      *)
(* component has now, in the order in which the octree gives them.           *)
Rebuild(m) ==
    LET touched == {tree[m][p].cmp : p \in Receivers(m)}
                       \cup {dynamic[m][i] : i \in DOMAIN dynamic[m]}
    IN
    /\ \E o \in Orders(Receivers(m)) :
          LET made == [k \in DOMAIN o |->
                          LET c == tree[m][o[k]].cmp IN
                          [cmp |-> c, owner |-> uniqueIndex[c], box |-> box[c]]]
          IN  /\ tree' = [tree EXCEPT ![m] = made]
              /\ treeIds' = [treeIds EXCEPT ![m] = IdsAfter(@, made)]
    /\ needRecollect' = [c \in Cmps |-> c \in touched \/ needRecollect[c]]
    /\ told' = [told EXCEPT ![m] = [i \in DOMAIN @ |-> box[collect[m][i]]]]
    /\ UNCHANGED <<cmpVars, sortIndex, allocated, collect, dynamic>>

-----------------------------------------------------------------------------
(* The panel and the scene.                                                  *)

(* GetCollectCmpOverlapBox; GetCollectCmpAll is Found(m, Spots).             *)
Found(m, view) ==
    {c \in Cmps :
        \/ \E i \in DOMAIN dynamic[m] : dynamic[m][i] = c /\ box[c] \in view
        \/ \E p \in 1 .. Len(tree[m]) :
              tree[m][p].cmp = c /\ alive[c] /\ tree[m][p].box \in view}

(* CollectMinimapDrawElement of several components: a static one makes its   *)
(* elements anew only when asked to.  They all get the component's index,    *)
(* also when it has none yet.                                                *)
Collect(cs) ==
    LET made == {c \in cs : needRecollect[c] \/ ~static[c]} IN
    /\ made # {}
    /\ needRecollect' = [c \in Cmps |-> needRecollect[c] /\ c \notin made]
    /\ sortIndex' = [c \in Cmps |->
                        IF c \in made THEN uniqueIndex[c] ELSE sortIndex[c]]
    /\ UNCHANGED <<cmpVars, allocated, collect, dynamic, treeVars>>

(* A script calls it, registered or not.                                     *)
CollectMinimapDrawElement(c) ==
    /\ alive[c]
    /\ Collect({c})

(* NativeTick: what was found and is enabled is collected (drawn: which ones *)
(* are enabled and in the query box is the scene's).                         *)
NativeTick(drawn) ==
    /\ \A c \in drawn : alive[c] /\ \E m \in Maps : c \in Found(m, Spots)
    /\ Collect(drawn)

(* The component is moved.                                                   *)
Move(c) ==
    /\ alive[c]
    /\ \E s \in Spots \ {box[c]} : box' = [box EXCEPT ![c] = s]
    /\ UNCHANGED <<alive, static, uniqueIndex, drawVars,
                   allocated, collect, dynamic, treeVars>>

(* bStaticElement and bNeedRecollect are for the editor and for scripts.     *)
SetStatic(c) ==
    /\ alive[c] /\ ~IsRegistered(c)
    /\ static' = [static EXCEPT ![c] = ~@]
    /\ UNCHANGED <<alive, box, uniqueIndex, drawVars,
                   allocated, collect, dynamic, treeVars>>

AskRecollect(c) ==
    /\ alive[c] /\ ~needRecollect[c]
    /\ needRecollect' = [needRecollect EXCEPT ![c] = TRUE]
    /\ UNCHANGED <<cmpVars, sortIndex, allocated, collect, dynamic, treeVars>>

Next ==
    \/ \E c \in Cmps :
          \/ RegisterSelf(c) \/ ReupdateSelfBound(c) \/ UnregisterSelf(c)
          \/ Destroy(c) \/ Move(c) \/ SetStatic(c) \/ AskRecollect(c)
          \/ CollectMinimapDrawElement(c)
    \/ \E m \in Maps : Clear(m) \/ Rebuild(m)
    \/ \E drawn \in SUBSET Cmps : NativeTick(drawn)

Spec == Init /\ [][Next]_vars

-----------------------------------------------------------------------------

(* The value of every variable.                                              *)
TypeOK ==
    /\ alive \in [Cmps -> BOOLEAN]
    /\ static \in [Cmps -> BOOLEAN]
    /\ box \in [Cmps -> Spots]
    /\ uniqueIndex \in [Cmps -> Indexes \cup {NoIndex}]
    /\ needRecollect \in [Cmps -> BOOLEAN]
    /\ sortIndex \in [Cmps -> Indexes \cup {0, NoIndex}]
    /\ allocated \in [Maps -> 0 .. MaxIndex]
    /\ tree \in [Maps -> Seq(Elements)]
    /\ \A m \in Maps : Len(tree[m]) <= allocated[m]
    /\ \A m \in Maps : /\ DOMAIN collect[m] \subseteq 1 .. allocated[m]
                       /\ DOMAIN dynamic[m] \subseteq DOMAIN collect[m]
                       /\ DOMAIN treeIds[m] \subseteq 1 .. allocated[m]
                       /\ DOMAIN told[m] \subseteq DOMAIN collect[m]
    /\ \A m \in Maps : \A i \in DOMAIN collect[m] : collect[m][i] \in Cmps
    /\ \A m \in Maps : \A i \in DOMAIN treeIds[m] : treeIds[m][i] \in Nat
    /\ \A m \in Maps : \A i \in DOMAIN told[m] : told[m][i] \in Spots

(* Whatever was registered, moved, removed, rebuilt or cleared before: a     *)
(* registered component is found by every query that covers its box, the     *)
(* current one of a dynamic component, the last reported of a static one.    *)
RegisteredIsFound ==
    \A c \in Cmps, view \in SUBSET Spots :
        /\ IsRegistered(c)
        /\ (IF static[c] THEN told[MapOf[c]][uniqueIndex[c]] ELSE box[c]) \in view
        => c \in Found(MapOf[c], view)

(* The id of a registered static component leads to its own element: an      *)
(* update moves nobody else's box.                                           *)
IdsPointHome ==
    \A c \in Cmps :
        LET ids == treeIds[MapOf[c]]
            i == uniqueIndex[c]
        IN  IsRegistered(c) /\ static[c] =>
                /\ i \in DOMAIN ids
                /\ ids[i] \in 1 .. Len(tree[MapOf[c]])
                /\ LET e == tree[MapOf[c]][ids[i]] IN e.cmp = c /\ e.owner = i

(* The tables keep no entry of a destroyed component (the engine would null  *)
(* it, and the queries call what they find unasked); each component is filed *)
(* under the index it has, and every one that is registered and not static   *)
(* is in the second table too.                                               *)
TablesAreAlive ==
    \A m \in Maps :
        /\ \A i \in DOMAIN collect[m] :
              LET c == collect[m][i] IN
              alive[c] /\ MapOf[c] = m /\ uniqueIndex[c] = i
        /\ \A i \in DOMAIN collect[m] \cup DOMAIN dynamic[m] :
              i \in DOMAIN dynamic[m] <=>
                  i \in DOMAIN collect[m] /\ ~static[collect[m][i]]
        /\ \A i \in DOMAIN dynamic[m] : dynamic[m][i] = collect[m][i]

(* An index is given out once: whatever was removed, cleared, registered     *)
(* again and cached meanwhile, the key that a component's elements got from  *)
(* its index is neither the key nor the index of another one of its map.     *)
(* The panel's order is not strict for that: all elements of a component     *)
(* share its key, components collected before they were registered share -1, *)
(* and every map counts for itself.                                          *)
KeysAreNotReused ==
    \A c, d \in Cmps :
        c # d /\ MapOf[c] = MapOf[d] /\ sortIndex[c] \in Indexes
            => sortIndex[c] \notin {sortIndex[d], uniqueIndex[d]}
================================================================================
