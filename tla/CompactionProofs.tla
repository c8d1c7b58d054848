-------------------------- MODULE CompactionProofs --------------------------
(***************************************************************************)
(* Proofs about Compaction for every number of writers, compactions and    *)
(* edges, whatever the policy.                                             *)
(***************************************************************************)
EXTENDS Compaction, FiniteSetTheorems, TLAPS

(***************************************************************************)
(* The inductive invariant.                                                *)
(***************************************************************************)
\* The phases of a compaction whose new graph exists.
Replaying == {"replay_ins", "replay_ins_remove", "replay_dels", "replay_dels_remove", "swap"}

\* The phases in which a compaction has begun to drain.
Draining == {"drain_dels_remove", "drain_ins", "drain_ins_remove", "build"}

\* The calls for whose graph there must be room.
Reserving == {c \in Compactors : comp[c].at # "off" /\ comp[c].new = NoGraph}

RoomInv == created + Cardinality(Reserving) <= MaxGraphs

(* What the locals of a compaction stand for: its graphs exist, the new    *)
(* one is known to it alone, and it has collected nothing it has not met.  *)
CallInv(r) ==
    /\ r.at # "off" => r.old # NoGraph
    /\ r.at \in Replaying <=> r.new # NoGraph
    /\ r.at \in {"off", "count", "decide", "drain_dels"} => r.dels = {}
    /\ r.at \in {"off", "count", "decide", "drain_dels", "drain_dels_remove", "drain_ins"}
          => r.ins = {}

LocalsInv == \A c \in Compactors : CallInv(comp[c])

PrivateInv ==
    /\ \A g \in Graphs : g > created => ins[g] = {} /\ dels[g] = {}
    /\ \A c \in Compactors : comp[c].at \in Replaying =>
          /\ comp[c].new # current
          /\ \A w \in Writers : comp[c].new # handle[w]
          /\ \A d \in Compactors : comp[c].new # comp[d].old
          /\ \A d \in Compactors \ {c} : comp[c].new # comp[d].new
          /\ comp[c].at \in {"replay_ins", "replay_ins_remove"} => ins[comp[c].new] = {}
          /\ comp[c].at # "swap" => dels[comp[c].new] = {}

(* The maps of a graph are disjoint, and a half-done mutation has taken    *)
(* its edge out of the map it does not go to.                              *)
DisjointInv ==
    /\ \A g \in Graphs : ins[g] \cap dels[g] = {}
    /\ \A w \in Writers : op[w] # Idle =>
          /\ handle[w] # NoGraph
          /\ op[w][2] \in Writes[w]
          /\ op[w][1] = "insert" => op[w][2] \notin dels[handle[w]]
          /\ op[w][1] = "delete" => op[w][2] \notin ins[handle[w]]

(***************************************************************************)
(* The argument for UnexcusedWritesSurvive.  An edge is held by a          *)
(* compaction whose end, unless it replaces the registered graph, excuses  *)
(* the edge: it has drained the edge (and may fail) or will surely swap.   *)
(***************************************************************************)
Holds(c, e) ==
    \/ comp[c].at \in Replaying
    \/ comp[c].at \in Draining /\ e \in comp[c].dels \cup comp[c].ins

\* What the merge of compaction c makes of edge e.
MergedHas(c, e) ==
    e \in Merged(base[comp[c].old], comp[c].dels, comp[c].ins)

\* What the new graph would show of edge e if compaction c ran to its end now.
Delivers(c, e) ==
    LET old == comp[c].old
        new == comp[c].new
        at == comp[c].at
        withIns == e \in Merged(base[old], comp[c].dels, ins[old])
    IN  \/ at = "drain_dels" /\ HasEdge(old, e)
        \/ at = "drain_dels_remove" /\ withIns /\ e \notin dels[old] \ comp[c].dels
        \/ at = "drain_ins" /\ withIns /\ e \notin dels[old]
        \/ /\ at = "drain_ins_remove"
           /\ MergedHas(c, e) \/ e \in ins[old] \ comp[c].ins
           /\ e \notin dels[old]
        \/ at = "build" /\ (MergedHas(c, e) \/ e \in ins[old]) /\ e \notin dels[old]
        \/ at = "replay_ins" /\ e \in base[new] \cup ins[old] /\ e \notin dels[old]
        \/ at = "replay_ins_remove" /\ e \in base[new] \cup comp[c].ins /\ e \notin dels[old]
        \/ at = "replay_dels" /\ e \in base[new] \cup ins[new] /\ e \notin dels[old]
        \/ at = "replay_dels_remove" /\ e \in base[new] \cup ins[new] /\ e \notin comp[c].dels
        \/ at = "swap" /\ HasEdge(new, e)

\* The merge is going to meet the edge as a tombstone and as an insertion.
WillCollide(c, e) ==
    LET old == comp[c].old
        taken == IF comp[c].at \in {"drain_dels_remove", "drain_ins"} THEN ins[old]
                 ELSE comp[c].ins
    IN  comp[c].at \in Draining /\ e \in Collided(base[old], comp[c].dels, taken)

AtWork == Replaying \cup Draining \cup {"drain_dels"}

Unwritten(e) == \A w \in Writers : op[w] \notin {<<"insert", e>>, <<"delete", e>>}

(* An edge without excuse is as the last mutation left it, in the          *)
(* registered graph and in what every compaction of that graph makes of    *)
(* it, or else another compaction holds it.                                *)
KeptBy(c, e) ==
    \/ Delivers(c, e) <=> e \in truth
    \/ WillCollide(c, e)
    \/ \E d \in Compactors \ {c} : Holds(d, e)

SurvivesIn(e) ==
    /\ ShownAsWritten(e) \/ \E c \in Compactors : Holds(c, e)
    /\ \A c \in Compactors :
          (comp[c].old = current /\ comp[c].at \in AtWork) => KeptBy(c, e)

SurvivalInv ==
    \A e \in Edges : (excuse[e] = {} /\ current # NoGraph /\ Unwritten(e)) => SurvivesIn(e)

-----------------------------------------------------------------------------
(***************************************************************************)
(* Types, and the room for new graphs.                                     *)
(***************************************************************************)
\* The locals of a call.
Locals == [at : Phases, old : 0..created, new : 0..created,
           dels : SUBSET Edges, ins : SUBSET Edges, len : 0..Cardinality(Edges)]

(* A step of one compaction leaves the locals of the others alone.         *)
LEMMA GotoSets ==
    ASSUME TypeOK, NEW c \in Compactors, NEW next, Goto(c, next)
    PROVE  /\ comp' = [comp EXCEPT ![c] = next]
           /\ comp'[c] = next
           /\ \A d \in Compactors \ {c} : comp'[d] = comp[d]
BY DEF Goto, TypeOK

(* A map of a graph has no more entries than there are edges.              *)
LEMMA LenIsBounded ==
    ASSUME NEW S \in SUBSET Edges
    PROVE  Cardinality(S) \in 0..Cardinality(Edges)
<1>1. IsFiniteSet(Edges) /\ IsFiniteSet(S)
  BY ConstantsAssumption, FS_Subset
<1>2. Cardinality(S) \in Nat /\ Cardinality(Edges) \in Nat /\ Cardinality(S) <= Cardinality(Edges)
  BY <1>1, FS_CardinalityType, FS_Subset
<1>3. QED
  BY <1>2

(* The calls that reserve room for a graph are finitely many.              *)
LEMMA ReservingIsFinite ==
    /\ IsFiniteSet(Reserving)
    /\ Cardinality(Reserving) \in Nat
BY ConstantsAssumption, FS_Subset, FS_CardinalityType DEF Reserving

(* A call that ends, or goes on without a new graph, reserves no more room *)
(* than before.                                                            *)
LEMMA RoomStays ==
    ASSUME TypeOK, RoomInv, created' = created,
           \A d \in Compactors : (comp'[d].at # "off" /\ comp'[d].new = NoGraph)
                                    => d \in Reserving
    PROVE  RoomInv'
<1>1. Reserving' \subseteq Reserving
  BY DEF Reserving
<1>2. Cardinality(Reserving') \in Nat /\ Cardinality(Reserving') <= Cardinality(Reserving)
  BY <1>1, ReservingIsFinite, FS_Subset, FS_CardinalityType
<1>3. QED
  BY <1>2, ReservingIsFinite, ConstantsAssumption DEF RoomInv, TypeOK, Graphs

Basics == TypeOK /\ RoomInv /\ LocalsInv

(* The first graph is registered, and no call is at work.                  *)
LEMMA BasicsInit == Init => Basics
<1> SUFFICES ASSUME Init PROVE Basics
  OBVIOUS
<1> USE ConstantsAssumption
<1>1. Reserving = {}
  BY DEF Init, Reserving, Off
<1>2. RoomInv
  BY <1>1, FS_EmptySet DEF RoomInv, Init
<1>3. LocalsInv
  BY DEF Init, LocalsInv, CallInv, Off, Replaying, NoGraph
<1>4. 0 \in 0..Cardinality(Edges)
  BY LenIsBounded, FS_EmptySet
<1>5. Off \in Locals
  BY <1>4 DEF Off, Locals, Phases, Init, NoGraph
<1>6. comp \in [Compactors -> Locals]
  BY <1>5 DEF Init
<1>7. TypeOK
  BY <1>6 DEF TypeOK, Init, Locals, Graphs, NoGraph
<1>8. QED
  BY <1>2, <1>3, <1>7 DEF Basics

(* The locals of the calls stay well-formed when one of them moves on.     *)
LEMMA LocalsStayTyped ==
    ASSUME TypeOK, created' \in Graphs, created <= created',
           NEW c \in Compactors, NEW next \in Locals', Goto(c, next)
    PROVE  comp' \in [Compactors -> Locals']
<1>1. 0..created \subseteq 0..created'
  BY ConstantsAssumption DEF TypeOK, Graphs
<1>2. \A d \in Compactors : comp[d] \in Locals'
  BY <1>1 DEF TypeOK, Locals
<1>3. QED
  BY <1>2 DEF Goto, TypeOK

(* A writer's step leaves the compactions alone.                           *)
LEMMA WriterKeepsBasics ==
    ASSUME Basics, NEW w \in Writers, WriterStep(w)
    PROVE  Basics'
<1> USE ConstantsAssumption
<1>0. TypeOK /\ RoomInv /\ LocalsInv /\ Writes[w] \in SUBSET Edges
  BY DEF Basics
<1>1. UNCHANGED <<base, created, current, comp, regs>>
  BY DEF WriterStep, Get, InsertRemoveTombstone, DeleteRemoveInsertion, InsertStore,
         DeleteAddTombstone, Started, Finished, graphVars, ghosts
<1>2. RoomInv' /\ LocalsInv'
  BY <1>0, <1>1 DEF RoomInv, Reserving, LocalsInv
<1>3. ASSUME Get(w), UNCHANGED mutations
      PROVE  TypeOK'
  BY <1>0, <1>3 DEF TypeOK, Get, graphVars, ghosts
<1>4. ASSUME NEW e \in Edges, InsertRemoveTombstone(w, e) \/ DeleteRemoveInsertion(w, e)
      PROVE  TypeOK'
  <2>1. /\ UNCHANGED <<base, created, current, handle, comp, truth, excuse, regs>>
        /\ mutations < MaxMutations /\ mutations' = mutations + 1
        /\ op' = [op EXCEPT ![w] = <<"insert", e>>] \/ op' = [op EXCEPT ![w] = <<"delete", e>>]
    BY <1>4 DEF InsertRemoveTombstone, DeleteRemoveInsertion, Started, ghosts
  <2>2. op' \in [Writers -> {Idle} \cup ({"insert", "delete"} \X Edges)]
    BY <1>0, <2>1 DEF TypeOK
  <2>3. ins' \in [Graphs -> SUBSET Edges] /\ dels' \in [Graphs -> SUBSET Edges]
    BY <1>0, <1>4 DEF InsertRemoveTombstone, DeleteRemoveInsertion, TypeOK
  <2>4. mutations' \in 0..MaxMutations
    BY <1>0, <2>1 DEF TypeOK
  <2>5. QED
    BY <1>0, <2>1, <2>2, <2>3, <2>4 DEF TypeOK
<1>5. ASSUME NEW e \in Edges, InsertStore(w, e) \/ DeleteAddTombstone(w, e), UNCHANGED mutations
      PROVE  TypeOK'
  <2>1. PICK map : Finished(w, e, map)
    BY <1>5 DEF InsertStore, DeleteAddTombstone
  <2>2. op' \in [Writers -> {Idle} \cup ({"insert", "delete"} \X Edges)]
    BY <1>0, <2>1 DEF Finished, TypeOK
  <2>3. excuse' \in [Edges -> SUBSET Excuses] /\ truth' \in SUBSET Edges
    BY <1>0, <2>1 DEF Finished, TypeOK, Excuses
  <2>4. ins' \in [Graphs -> SUBSET Edges] /\ dels' \in [Graphs -> SUBSET Edges]
    BY <1>0, <1>5 DEF InsertStore, DeleteAddTombstone, TypeOK
  <2>5. UNCHANGED <<handle, mutations>>
    BY <1>5, <2>1 DEF Finished
  <2>6. QED
    BY <1>0, <1>1, <2>2, <2>3, <2>4, <2>5 DEF TypeOK
<1>6. TypeOK'
  BY <1>3, <1>4, <1>5 DEF WriterStep
<1>7. QED
  BY <1>2, <1>6 DEF Basics

(* A call that moves on with well-formed locals keeps what holds of the    *)
(* calls, if it does not begin and does not build a graph.                 *)
LEMMA CallMovesOn ==
    ASSUME Basics, NEW c \in Compactors, NEW next \in Locals, CallInv(next), Goto(c, next),
           created' = created, next.at # "off" => comp[c].at # "off" /\ next.new = comp[c].new
    PROVE  comp' \in [Compactors -> Locals'] /\ RoomInv' /\ LocalsInv'
<1>1. /\ comp'[c] = next
      /\ \A d \in Compactors \ {c} : comp'[d] = comp[d]
  BY GotoSets DEF Basics
<1>2. comp' \in [Compactors -> Locals']
  <2>1. Locals' = Locals
    BY DEF Locals
  <2>2. created \in Graphs /\ created <= created
    BY ConstantsAssumption DEF Basics, TypeOK, Graphs
  <2>3. QED
    BY <2>1, <2>2, LocalsStayTyped DEF Basics
<1>3. RoomInv'
  <2>1. \A d \in Compactors : (comp'[d].at # "off" /\ comp'[d].new = NoGraph) => d \in Reserving
    BY <1>1 DEF Reserving
  <2>2. QED
    BY <2>1, RoomStays DEF Basics
<1>4. LocalsInv'
  BY <1>1 DEF Basics, LocalsInv
<1>5. QED
  BY <1>2, <1>3, <1>4

(* The steps of a call that change nothing but its locals.                 *)
LEMMA QuietStep ==
    ASSUME Basics, NEW c \in Compactors, UNCHANGED <<graphVars, current, handle, op, ghosts, mutations>>,
           comp' \in [Compactors -> Locals'], RoomInv', LocalsInv'
    PROVE  Basics'
BY DEF Basics, TypeOK, Locals, graphVars, ghosts

(* A drain collects edges and nothing else.                                *)
LEMMA CollectKeepsBasics ==
    ASSUME Basics, NEW c \in Compactors, UNCHANGED mutations,
           \/ DrainDeletions(c) \/ DrainInsertions(c)
           \/ ReplayInsertions(c) \/ ReplayDeletions(c)
    PROVE  Basics'
<1>0. comp[c] \in Locals /\ comp[c].old \in Graphs /\ CallInv(comp[c])
  <2>1. comp[c] \in Locals /\ CallInv(comp[c]) /\ comp[c].at # "off"
    BY DEF Basics, TypeOK, Locals, LocalsInv, DrainDeletions, DrainInsertions, ReplayInsertions,
           ReplayDeletions, Collect, At
  <2>2. QED
    BY <2>1, ConstantsAssumption DEF Locals, CallInv, NoGraph, Basics, TypeOK, Graphs
<1>1. ins[comp[c].old] \in SUBSET Edges /\ dels[comp[c].old] \in SUBSET Edges
  BY <1>0 DEF Basics, TypeOK
<1>2. PICK next \in Locals : /\ CallInv(next) /\ Goto(c, next)
                             /\ comp[c].at # "off" /\ next.new = comp[c].new
  <2>1. CASE DrainDeletions(c)
    <3>1. [comp[c] EXCEPT !.at = "drain_dels_remove", !.dels = dels[comp[c].old]] \in Locals
      BY <1>0, <1>1 DEF Locals, Phases
    <3>2. QED
      BY <1>0, <2>1, <3>1 DEF DrainDeletions, Collect, At, CallInv, Replaying, Locals
  <2>2. CASE DrainInsertions(c)
    <3>1. [comp[c] EXCEPT !.at = "drain_ins_remove", !.ins = ins[comp[c].old]] \in Locals
      BY <1>0, <1>1 DEF Locals, Phases
    <3>2. QED
      BY <1>0, <2>2, <3>1 DEF DrainInsertions, Collect, At, CallInv, Replaying, Locals
  <2>3. CASE ReplayInsertions(c)
    <3>1. [comp[c] EXCEPT !.at = "replay_ins_remove", !.ins = ins[comp[c].old]] \in Locals
      BY <1>0, <1>1 DEF Locals, Phases
    <3>2. QED
      BY <1>0, <2>3, <3>1 DEF ReplayInsertions, Collect, At, CallInv, Replaying, Locals
  <2>4. CASE ReplayDeletions(c)
    <3>1. [comp[c] EXCEPT !.at = "replay_dels_remove", !.dels = dels[comp[c].old]] \in Locals
      BY <1>0, <1>1 DEF Locals, Phases
    <3>2. QED
      BY <1>0, <2>4, <3>1 DEF ReplayDeletions, Collect, At, CallInv, Replaying, Locals
  <2>5. QED
    BY <2>1, <2>2, <2>3, <2>4
<1>3. UNCHANGED <<graphVars, current, handle, op, ghosts>>
  BY DEF DrainDeletions, DrainInsertions, ReplayInsertions, ReplayDeletions, Collect
<1>4. comp' \in [Compactors -> Locals'] /\ RoomInv' /\ LocalsInv'
  BY <1>2, <1>3, CallMovesOn DEF graphVars
<1>5. QED
  BY <1>3, <1>4, QuietStep

(* A call reserves room for its graph when it begins.                      *)
LEMMA DecisionKeepsBasics ==
    ASSUME Basics, NEW c \in Compactors, UNCHANGED mutations,
           Lookup(c) \/ CountInsertions(c) \/ Decide(c)
    PROVE  Basics'
<1> USE ConstantsAssumption
<1>0. comp[c] \in Locals /\ CallInv(comp[c]) /\ TypeOK
  BY DEF Basics, TypeOK, Locals, LocalsInv
<1>1. UNCHANGED <<graphVars, current, handle, op, ghosts>>
  BY DEF Lookup, CountInsertions, Decide
<1>2. Off \in Locals /\ CallInv(Off) /\ Off.at = "off" /\ 0 \in 0..Cardinality(Edges)
  <2>1. 0 \in 0..Cardinality(Edges) /\ created \in Graphs
    BY LenIsBounded, FS_EmptySet, <1>0 DEF TypeOK
  <2>2. QED
    BY <2>1 DEF Off, Locals, Phases, CallInv, Replaying, NoGraph, Graphs
<1>3. CASE Lookup(c)
  <2> DEFINE next == [Off EXCEPT !.at = "count", !.old = current]
  <2>1. next \in Locals /\ CallInv(next)
    BY <1>0, <1>2, <1>3 DEF Lookup, Locals, Off, Phases, CallInv, Replaying, NoGraph, TypeOK
  <2>2. /\ comp'[c] = next /\ comp[c].at = "off" /\ Goto(c, next)
        /\ \A d \in Compactors \ {c} : comp'[d] = comp[d]
    BY <1>0, <1>3, GotoSets DEF Lookup, At
  <2>3. LocalsInv'
    BY <2>1, <2>2 DEF LocalsInv, Basics
  <2>4. Reserving' = Reserving \cup {c} /\ c \notin Reserving
    <3>1. next.at # "off" /\ next.new = NoGraph
      BY DEF Off
    <3>2. c \in Reserving' /\ c \notin Reserving
      BY <2>2, <3>1 DEF Reserving
    <3>3. \A d \in Compactors \ {c} : d \in Reserving' <=> d \in Reserving
      BY <2>2 DEF Reserving
    <3>4. Reserving \subseteq Compactors /\ Reserving' \subseteq Compactors
      BY DEF Reserving
    <3>5. QED
      BY <3>2, <3>3, <3>4
  <2>5. Cardinality(Reserving') = Cardinality(Reserving) + 1
    BY <2>4, ReservingIsFinite, FS_AddElement
  <2>6. created + Cardinality(Reserving) < MaxGraphs
    BY <1>3 DEF Lookup, Room, Reserving
  <2>7. RoomInv'
    BY <1>0, <1>1, <2>5, <2>6, ReservingIsFinite DEF RoomInv, graphVars, TypeOK, Graphs
  <2>8. comp' \in [Compactors -> Locals']
    <3>1. Locals' = Locals /\ created' = created /\ created \in Graphs /\ created <= created
      BY <1>0, <1>1 DEF Locals, graphVars, TypeOK, Graphs
    <3>2. QED
      BY <1>0, <2>1, <2>2, <3>1, LocalsStayTyped
  <2>9. QED
    BY <1>1, <2>3, <2>7, <2>8, QuietStep
<1>4. ASSUME CountInsertions(c) \/ Decide(c) PROVE Basics'
  <2>1. comp[c].at # "off" /\ comp[c].old \in Graphs
    BY <1>0, <1>4 DEF CountInsertions, Decide, At, Locals, CallInv, NoGraph, Graphs, TypeOK
  <2>2. PICK next \in Locals : /\ CallInv(next) /\ Goto(c, next)
                               /\ next.at # "off" => next.new = comp[c].new
    <3>1. CASE CountInsertions(c)
      <4>1. Cardinality(ins[comp[c].old]) \in 0..Cardinality(Edges)
        BY <1>0, <2>1, LenIsBounded DEF TypeOK
      <4>2. [comp[c] EXCEPT !.at = "decide", !.len = Cardinality(ins[comp[c].old])] \in Locals
        BY <1>0, <4>1 DEF Locals, Phases
      <4>3. QED
        BY <1>0, <3>1, <4>2 DEF CountInsertions, At, CallInv, Replaying, Locals
    <3>2. CASE Decide(c)
      <4>1. [comp[c] EXCEPT !.at = "drain_dels", !.len = 0] \in Locals
        BY <1>0, <1>2 DEF Locals, Phases
      <4>2. CallInv([comp[c] EXCEPT !.at = "drain_dels", !.len = 0])
        BY <1>0, <3>2 DEF Decide, At, CallInv, Replaying, Locals
      <4>3. \/ Goto(c, [comp[c] EXCEPT !.at = "drain_dels", !.len = 0])
            \/ Goto(c, Off)
        BY <3>2 DEF Decide
      <4>4. [comp[c] EXCEPT !.at = "drain_dels", !.len = 0].new = comp[c].new
        BY <1>0 DEF Locals
      <4>5. QED
        BY <1>2, <4>1, <4>2, <4>3, <4>4
    <3>3. QED
      BY <1>4, <3>1, <3>2
  <2>3. comp' \in [Compactors -> Locals'] /\ RoomInv' /\ LocalsInv'
    BY <1>1, <2>1, <2>2, CallMovesOn DEF graphVars
  <2>4. QED
    BY <1>1, <2>3, QuietStep
<1>5. QED
  BY <1>3, <1>4

(* The removals of the drains and of the replay.                           *)
LEMMA RemovalKeepsBasics ==
    ASSUME Basics, NEW c \in Compactors, UNCHANGED mutations,
           \/ DrainDeletionsRemove(c) \/ DrainInsertionsRemove(c)
           \/ ReplayInsertionsRemove(c) \/ ReplayDeletionsRemove(c)
    PROVE  Basics'
<1> USE ConstantsAssumption
<1>0. comp[c] \in Locals /\ CallInv(comp[c]) /\ TypeOK
  BY DEF Basics, TypeOK, Locals, LocalsInv
<1>1. UNCHANGED <<base, created, current, handle, op, ghosts>>
  BY DEF DrainDeletionsRemove, DrainInsertionsRemove, ReplayInsertionsRemove, ReplayDeletionsRemove
<1>2. ins' \in [Graphs -> SUBSET Edges] /\ dels' \in [Graphs -> SUBSET Edges]
  <2>1. comp[c].ins \in SUBSET Edges /\ comp[c].dels \in SUBSET Edges
    BY <1>0 DEF Locals
  <2>2. CASE DrainDeletionsRemove(c)
    BY <1>0, <2>1, <2>2 DEF DrainDeletionsRemove, TypeOK
  <2>3. CASE DrainInsertionsRemove(c)
    BY <1>0, <2>1, <2>3 DEF DrainInsertionsRemove, TypeOK
  <2>4. CASE ReplayInsertionsRemove(c)
    BY <1>0, <2>1, <2>4 DEF ReplayInsertionsRemove, TypeOK
  <2>5. CASE ReplayDeletionsRemove(c)
    BY <1>0, <2>1, <2>5 DEF ReplayDeletionsRemove, TypeOK
  <2>6. QED
    BY <2>2, <2>3, <2>4, <2>5
<1>3. PICK next \in Locals : /\ CallInv(next) /\ Goto(c, next)
                             /\ comp[c].at # "off" /\ next.new = comp[c].new
  <2>1. CASE DrainDeletionsRemove(c)
    <3>1. [comp[c] EXCEPT !.at = "drain_ins"] \in Locals
      BY <1>0 DEF Locals, Phases
    <3>2. QED
      BY <1>0, <2>1, <3>1 DEF DrainDeletionsRemove, At, CallInv, Replaying, Locals
  <2>2. CASE DrainInsertionsRemove(c)
    <3>1. [comp[c] EXCEPT !.at = "build"] \in Locals
      BY <1>0 DEF Locals, Phases
    <3>2. QED
      BY <1>0, <2>2, <3>1 DEF DrainInsertionsRemove, At, CallInv, Replaying, Locals
  <2>3. CASE ReplayInsertionsRemove(c)
    <3>1. [comp[c] EXCEPT !.at = "replay_dels"] \in Locals
      BY <1>0 DEF Locals, Phases
    <3>2. QED
      BY <1>0, <2>3, <3>1 DEF ReplayInsertionsRemove, At, CallInv, Replaying, Locals
  <2>4. CASE ReplayDeletionsRemove(c)
    <3>1. [comp[c] EXCEPT !.at = "swap", !.dels = {}, !.ins = {}] \in Locals
      BY <1>0 DEF Locals, Phases
    <3>2. QED
      BY <1>0, <2>4, <3>1 DEF ReplayDeletionsRemove, At, CallInv, Replaying, Locals
  <2>5. QED
    BY <2>1, <2>2, <2>3, <2>4
<1>4. comp' \in [Compactors -> Locals'] /\ RoomInv' /\ LocalsInv'
  BY <1>1, <1>3, CallMovesOn
<1>5. QED
  BY <1>0, <1>1, <1>2, <1>4 DEF Basics, TypeOK, Locals, ghosts

(* A built graph takes the room that was reserved for it.                  *)
LEMMA BuildKeepsBasics ==
    ASSUME Basics, NEW c \in Compactors, UNCHANGED mutations, Build(c)
    PROVE  Basics'
<1> USE ConstantsAssumption
<1> DEFINE new == created + 1
           next == [comp[c] EXCEPT !.at = "replay_ins", !.new = new, !.dels = {}, !.ins = {}]
<1>0. /\ comp[c] \in Locals /\ CallInv(comp[c]) /\ TypeOK
      /\ comp[c].at = "build" /\ comp[c].new = NoGraph /\ created \in Graphs
  BY DEF Basics, TypeOK, Locals, LocalsInv, CallInv, Build, At, Replaying
<1>1. /\ comp'[c] = next /\ Goto(c, next)
      /\ \A d \in Compactors \ {c} : comp'[d] = comp[d]
  BY <1>0, GotoSets DEF Build
<1>2. /\ Reserving' = Reserving \ {c} /\ c \in Reserving
  <2>1. next.new = new /\ new # NoGraph
    BY <1>0 DEF Locals, NoGraph, Graphs
  <2>2. c \notin Reserving' /\ c \in Reserving
    BY <1>0, <1>1, <2>1 DEF Reserving
  <2>3. \A d \in Compactors \ {c} : d \in Reserving' <=> d \in Reserving
    BY <1>1 DEF Reserving
  <2>4. Reserving \subseteq Compactors /\ Reserving' \subseteq Compactors
    BY DEF Reserving
  <2>5. QED
    BY <2>2, <2>3, <2>4
<1>3. /\ Cardinality(Reserving') = Cardinality(Reserving) - 1
      /\ Cardinality(Reserving') \in Nat
  BY <1>2, ReservingIsFinite, FS_RemoveElement, FS_CardinalityType
<1>4. created' = new /\ new \in Graphs /\ RoomInv'
  <2>1. created' = new /\ created + Cardinality(Reserving) <= MaxGraphs
    BY DEF Build, Basics, RoomInv
  <2>2. QED
    BY <1>0, <1>3, <2>1, ReservingIsFinite DEF RoomInv, Graphs
<1>5. next \in Locals' /\ CallInv(next)
  <2>1. new \in 0..created' /\ comp[c].old \in 0..created'
    BY <1>0, <1>4 DEF Graphs, Locals
  <2>2. next \in Locals'
    BY <1>0, <2>1 DEF Locals, Phases
  <2>3. CallInv(next)
    BY <1>0 DEF CallInv, Replaying, Locals, NoGraph, Graphs
  <2>4. QED
    BY <2>2, <2>3
<1>6. comp' \in [Compactors -> Locals'] /\ LocalsInv'
  <2>1. created <= created' /\ created' \in Graphs
    BY <1>0, <1>4 DEF Graphs
  <2>2. comp' \in [Compactors -> Locals']
    BY <1>0, <1>1, <1>5, <2>1, LocalsStayTyped
  <2>3. QED
    BY <1>1, <1>5, <2>2 DEF LocalsInv, Basics
<1>7. base' \in [Graphs -> SUBSET (Edges \ Oversized)]
  <2>1. comp[c].old \in Graphs /\ comp[c].ins \in SUBSET Edges
    BY <1>0 DEF Locals, CallInv, NoGraph, Graphs
  <2>2. Merged(base[comp[c].old], comp[c].dels, comp[c].ins) \in SUBSET (Edges \ Oversized)
    BY <1>0, <2>1 DEF Build, Merged, TypeOK
  <2>3. QED
    BY <1>0, <2>2 DEF Build, TypeOK
<1>8. excuse' \in [Edges -> SUBSET Excuses]
  BY <1>0 DEF Build, TypeOK, Excuses
<1>9. UNCHANGED <<ins, dels, current, handle, op, truth, regs>>
  BY DEF Build
<1>10. 0..created \subseteq 0..created'
  BY <1>0, <1>4 DEF Graphs
<1> HIDE DEF new, next
<1>11. TypeOK'
  BY <1>0, <1>4, <1>6, <1>7, <1>8, <1>9, <1>10 DEF TypeOK, Locals
<1>12. QED
  BY <1>4, <1>6, <1>11 DEF Basics

(* A call that fails or swaps is over and reserves nothing.                *)
LEMMA EndKeepsBasics ==
    ASSUME Basics, NEW c \in Compactors, UNCHANGED mutations, BuildFails(c) \/ Swap(c)
    PROVE  Basics'
<1> USE ConstantsAssumption
<1>0. comp[c] \in Locals /\ CallInv(comp[c]) /\ TypeOK
  BY DEF Basics, TypeOK, Locals, LocalsInv
<1>1. Off \in Locals /\ CallInv(Off) /\ Off.at = "off"
  <2>1. 0 \in 0..Cardinality(Edges) /\ created \in Graphs
    BY LenIsBounded, FS_EmptySet, <1>0 DEF TypeOK
  <2>2. QED
    BY <2>1 DEF Off, Locals, Phases, CallInv, Replaying, NoGraph, Graphs
<1>2. UNCHANGED <<graphVars, handle, op, truth, regs>> /\ Goto(c, Off)
  BY DEF BuildFails, Swap
<1>3. comp' \in [Compactors -> Locals'] /\ RoomInv' /\ LocalsInv'
  BY <1>1, <1>2, CallMovesOn DEF graphVars
<1>4. excuse' \in [Edges -> SUBSET Excuses] /\ current' \in 0..created
  BY <1>0 DEF BuildFails, Swap, TypeOK, Excuses, Locals
<1>5. QED
  BY <1>0, <1>2, <1>3, <1>4 DEF Basics, TypeOK, Locals, graphVars

(* register leaves room for the graphs of the calls at work.               *)
LEMMA RegistryKeepsBasics ==
    ASSUME Basics, UNCHANGED mutations,
           Deregister \/ \E edges \in SUBSET (Edges \ Oversized) : Register(edges)
    PROVE  Basics'
<1> USE ConstantsAssumption
<1>0. TypeOK /\ RoomInv /\ LocalsInv /\ created \in Graphs
  BY DEF Basics, TypeOK
<1>1. UNCHANGED <<ins, dels, handle, op, comp>>
  BY DEF Deregister, Register, graphVars
<1>2. LocalsInv' /\ Reserving' = Reserving
  BY <1>0, <1>1 DEF LocalsInv, Reserving
<1>3. CASE Deregister
  <2>1. UNCHANGED <<base, created, truth, excuse>> /\ current' = 0
    BY <1>3 DEF Deregister, graphVars, NoGraph
  <2>2. regs' \in 0..MaxRegistrations
    BY <1>0, <1>3 DEF Deregister, TypeOK
  <2>3. current' \in 0..created
    BY <1>0, <2>1 DEF Graphs
  <2>4. TypeOK'
    BY <1>0, <1>1, <2>1, <2>2, <2>3 DEF TypeOK
  <2>5. QED
    BY <1>0, <1>2, <2>1, <2>4 DEF Basics, RoomInv
<1>4. ASSUME NEW edges \in SUBSET (Edges \ Oversized), Register(edges) PROVE Basics'
  <2>1. created' = created + 1 /\ created + Cardinality(Reserving) < MaxGraphs
    BY <1>4 DEF Register, Room, Reserving
  <2>2. created' \in Graphs /\ 0..created \subseteq 0..created' /\ created' \in 0..created' /\ RoomInv'
    BY <1>0, <1>2, <2>1, ReservingIsFinite DEF Graphs, RoomInv
  <2>3. comp' \in [Compactors -> Locals']
    BY <1>0, <1>1, <2>2 DEF TypeOK, Locals
  <2>4. /\ base' \in [Graphs -> SUBSET (Edges \ Oversized)] /\ truth' \in SUBSET Edges
        /\ excuse' \in [Edges -> SUBSET Excuses] /\ regs' \in 0..MaxRegistrations
        /\ current' = created'
    <3>1. base' = [base EXCEPT ![created + 1] = edges] /\ truth' = edges /\ current' = created'
      BY <1>4 DEF Register
    <3>2. base' \in [Graphs -> SUBSET (Edges \ Oversized)] /\ truth' \in SUBSET Edges
      BY <1>0, <3>1 DEF TypeOK
    <3>3. excuse' \in [Edges -> SUBSET Excuses]
      BY <1>4 DEF Register
    <3>4. regs' \in 0..MaxRegistrations
      BY <1>0, <1>4 DEF Register, TypeOK
    <3>5. QED
      BY <3>1, <3>2, <3>3, <3>4
  <2>5. TypeOK'
    BY <1>0, <1>1, <2>2, <2>3, <2>4 DEF TypeOK, Locals
  <2>6. QED
    BY <1>2, <2>2, <2>5 DEF Basics
<1>5. QED
  BY <1>3, <1>4

(* Types, room and locals together are inductive.                          *)
LEMMA BasicsHold == Spec => []Basics
<1>1. Init => Basics
  BY BasicsInit
<1>2. Basics /\ [Next]_vars => Basics'
  <2> SUFFICES ASSUME Basics, [Next]_vars PROVE Basics'
    OBVIOUS
  <2>1. CASE UNCHANGED vars
    BY <2>1 DEF Basics, TypeOK, RoomInv, Reserving, LocalsInv, vars, graphVars, ghosts
  <2>2. CASE Next
    BY <2>2, WriterKeepsBasics, DecisionKeepsBasics, CollectKeepsBasics, RemovalKeepsBasics,
       BuildKeepsBasics, EndKeepsBasics, RegistryKeepsBasics DEF Next, CompactorStep
  <2>3. QED
    BY <2>1, <2>2
<1>3. QED
  BY <1>1, <1>2, PTL DEF Spec

(* Every variable keeps its type, the new base of a compaction never holds *)
(* an edge that the CSR cannot store, and there is room for every graph    *)
(* that a compaction builds.                                               *)
THEOREM TypeCorrect == Spec => []TypeOK
<1>1. Basics => TypeOK
  BY DEF Basics
<1>2. QED
  BY <1>1, BasicsHold, PTL

-----------------------------------------------------------------------------
(***************************************************************************)
(* The two maps of every graph stay disjoint.                              *)
(***************************************************************************)
Shape == PrivateInv /\ DisjointInv

(* A call at work has a graph to compact, and its own graph if it replays. *)
LEMMA CallGraphs ==
    ASSUME Basics, NEW c \in Compactors
    PROVE  /\ comp[c] \in Locals /\ CallInv(comp[c])
           /\ comp[c].at # "off" => comp[c].old \in Graphs /\ comp[c].old \in 1..created
           /\ comp[c].at \in Replaying => comp[c].new \in Graphs /\ comp[c].new \in 1..created
BY ConstantsAssumption DEF Basics, TypeOK, Locals, LocalsInv, CallInv, NoGraph, Graphs

(* The locals of call c after a step of it; those of the others stay.      *)
Becomes(c, at, old, new, drainedDels, drainedIns) ==
    /\ comp'[c].at = at /\ comp'[c].old = old /\ comp'[c].new = new
    /\ comp'[c].dels = drainedDels /\ comp'[c].ins = drainedIns
    /\ \A d \in Compactors \ {c} : comp'[d] = comp[d]

(* What the steps of a call do to its locals.                              *)
LEMMA CallSteps ==
    ASSUME Basics, NEW c \in Compactors,
           NEW old, old = comp[c].old, NEW new, new = comp[c].new,
           NEW cdels, cdels = comp[c].dels, NEW cins, cins = comp[c].ins
    PROVE  /\ Lookup(c) =>
                 comp[c].at = "off" /\ Becomes(c, "count", current, NoGraph, {}, {})
           /\ CountInsertions(c) =>
                 comp[c].at = "count" /\ Becomes(c, "decide", old, new, cdels, cins)
           /\ Decide(c) => /\ comp[c].at = "decide"
                           /\ \/ Becomes(c, "drain_dels", old, new, cdels, cins)
                              \/ Becomes(c, "off", NoGraph, NoGraph, {}, {})
           /\ DrainDeletions(c) =>
                 /\ comp[c].at = "drain_dels"
                 /\ Becomes(c, "drain_dels_remove", old, new, dels[old], cins)
           /\ DrainDeletionsRemove(c) =>
                 comp[c].at = "drain_dels_remove" /\ Becomes(c, "drain_ins", old, new, cdels, cins)
           /\ DrainInsertions(c) =>
                 /\ comp[c].at = "drain_ins"
                 /\ Becomes(c, "drain_ins_remove", old, new, cdels, ins[old])
           /\ DrainInsertionsRemove(c) =>
                 comp[c].at = "drain_ins_remove" /\ Becomes(c, "build", old, new, cdels, cins)
           /\ Build(c) =>
                 comp[c].at = "build" /\ Becomes(c, "replay_ins", old, created + 1, {}, {})
           /\ BuildFails(c) =>
                 comp[c].at = "build" /\ Becomes(c, "off", NoGraph, NoGraph, {}, {})
           /\ ReplayInsertions(c) =>
                 /\ comp[c].at = "replay_ins"
                 /\ Becomes(c, "replay_ins_remove", old, new, cdels, ins[old])
           /\ ReplayInsertionsRemove(c) =>
                 /\ comp[c].at = "replay_ins_remove"
                 /\ Becomes(c, "replay_dels", old, new, cdels, cins)
           /\ ReplayDeletions(c) =>
                 /\ comp[c].at = "replay_dels"
                 /\ Becomes(c, "replay_dels_remove", old, new, dels[old], cins)
           /\ ReplayDeletionsRemove(c) =>
                 comp[c].at = "replay_dels_remove" /\ Becomes(c, "swap", old, new, {}, {})
           /\ Swap(c) =>
                 comp[c].at = "swap" /\ Becomes(c, "off", NoGraph, NoGraph, {}, {})
<1>1. comp[c] \in Locals /\ TypeOK
  BY CallGraphs DEF Basics
<1>2. ASSUME Lookup(c)
      PROVE  comp[c].at = "off" /\ Becomes(c, "count", current, NoGraph, {}, {})
  BY <1>1, <1>2 DEF Lookup, At, Off, Goto, Becomes, Locals, TypeOK
<1>3. ASSUME CountInsertions(c)
      PROVE  comp[c].at = "count" /\ Becomes(c, "decide", old, new, cdels, cins)
  BY <1>1, <1>3 DEF CountInsertions, At, Goto, Becomes, Locals, TypeOK
<1>4. ASSUME Decide(c)
      PROVE  /\ comp[c].at = "decide"
             /\ \/ Becomes(c, "drain_dels", old, new, cdels, cins)
                \/ Becomes(c, "off", NoGraph, NoGraph, {}, {})
  BY <1>1, <1>4 DEF Decide, At, Off, Goto, Becomes, Locals, TypeOK
<1>5. ASSUME DrainDeletions(c)
      PROVE  /\ comp[c].at = "drain_dels"
             /\ Becomes(c, "drain_dels_remove", old, new, dels[old], cins)
  BY <1>1, <1>5 DEF DrainDeletions, Collect, At, Goto, Becomes, Locals, TypeOK
<1>6. ASSUME DrainDeletionsRemove(c)
      PROVE  comp[c].at = "drain_dels_remove" /\ Becomes(c, "drain_ins", old, new, cdels, cins)
  BY <1>1, <1>6 DEF DrainDeletionsRemove, At, Goto, Becomes, Locals, TypeOK
<1>7. ASSUME DrainInsertions(c)
      PROVE  /\ comp[c].at = "drain_ins"
             /\ Becomes(c, "drain_ins_remove", old, new, cdels, ins[old])
  BY <1>1, <1>7 DEF DrainInsertions, Collect, At, Goto, Becomes, Locals, TypeOK
<1>8. ASSUME DrainInsertionsRemove(c)
      PROVE  comp[c].at = "drain_ins_remove" /\ Becomes(c, "build", old, new, cdels, cins)
  BY <1>1, <1>8 DEF DrainInsertionsRemove, At, Goto, Becomes, Locals, TypeOK
<1>9. ASSUME Build(c)
      PROVE  comp[c].at = "build" /\ Becomes(c, "replay_ins", old, created + 1, {}, {})
  BY <1>1, <1>9 DEF Build, At, Goto, Becomes, Locals, TypeOK
<1>10. ASSUME BuildFails(c)
      PROVE  comp[c].at = "build" /\ Becomes(c, "off", NoGraph, NoGraph, {}, {})
  BY <1>1, <1>10 DEF BuildFails, At, Off, Goto, Becomes, Locals, TypeOK
<1>11. ASSUME ReplayInsertions(c)
      PROVE  /\ comp[c].at = "replay_ins"
             /\ Becomes(c, "replay_ins_remove", old, new, cdels, ins[old])
  BY <1>1, <1>11 DEF ReplayInsertions, Collect, At, Goto, Becomes, Locals, TypeOK
<1>12. ASSUME ReplayInsertionsRemove(c)
      PROVE  /\ comp[c].at = "replay_ins_remove"
             /\ Becomes(c, "replay_dels", old, new, cdels, cins)
  BY <1>1, <1>12 DEF ReplayInsertionsRemove, At, Goto, Becomes, Locals, TypeOK
<1>13. ASSUME ReplayDeletions(c)
      PROVE  /\ comp[c].at = "replay_dels"
             /\ Becomes(c, "replay_dels_remove", old, new, dels[old], cins)
  BY <1>1, <1>13 DEF ReplayDeletions, Collect, At, Goto, Becomes, Locals, TypeOK
<1>14. ASSUME ReplayDeletionsRemove(c)
      PROVE  comp[c].at = "replay_dels_remove" /\ Becomes(c, "swap", old, new, {}, {})
  BY <1>1, <1>14 DEF ReplayDeletionsRemove, At, Goto, Becomes, Locals, TypeOK
<1>15. ASSUME Swap(c)
      PROVE  comp[c].at = "swap" /\ Becomes(c, "off", NoGraph, NoGraph, {}, {})
  BY <1>1, <1>15 DEF Swap, At, Off, Goto, Becomes, Locals, TypeOK
<1>16. QED
  BY <1>2, <1>3, <1>4, <1>5, <1>6, <1>7, <1>8, <1>9, <1>10, <1>11, <1>12, <1>13, <1>14, <1>15

(* Steps in which maps only shrink and no call learns of a new graph.      *)
LEMMA CalmStep ==
    ASSUME Basics, Basics', Shape, NEW a \in Compactors,
           UNCHANGED <<created, current, handle, op>>,
           \A g \in Graphs : ins'[g] \subseteq ins[g] /\ dels'[g] \subseteq dels[g],
           \A d \in Compactors \ {a} : comp'[d] = comp[d],
           comp'[a].old \in {NoGraph, comp[a].old, current},
           comp'[a].at \in Replaying =>
              /\ comp[a].at \in Replaying /\ comp'[a].new = comp[a].new
              /\ comp'[a].at \in {"replay_ins", "replay_ins_remove"}
                    => comp[a].at \in {"replay_ins", "replay_ins_remove"}
              /\ comp[a].at # "swap"
    PROVE  Shape'
<1>1. DisjointInv'
  <2>1. \A w \in Writers : op[w] # Idle => handle[w] \in Graphs
    BY ConstantsAssumption DEF Shape, DisjointInv, Basics, TypeOK, Graphs, NoGraph
  <2>2. QED
    BY <2>1 DEF Shape, DisjointInv
<1>2. PrivateInv'
  <2>1. \A g \in Graphs : g > created' => ins'[g] = {} /\ dels'[g] = {}
    BY DEF Shape, PrivateInv
  <2>2. ASSUME NEW c \in Compactors, comp'[c].at \in Replaying
        PROVE  /\ comp[c].at \in Replaying /\ comp'[c].new = comp[c].new
               /\ comp[c].new \in Graphs /\ comp[c].new # NoGraph
               /\ comp'[c].at \in {"replay_ins", "replay_ins_remove"}
                     => comp[c].at \in {"replay_ins", "replay_ins_remove"}
               /\ comp'[c].at # "swap" => comp[c].at # "swap"
    <3>1. comp[c].at \in Replaying /\ comp'[c].new = comp[c].new
      BY <2>2
    <3>2. QED
      BY <2>2, <3>1, CallGraphs DEF Graphs, NoGraph, CallInv
  <2>3. ASSUME NEW c \in Compactors, comp'[c].at \in Replaying, NEW d \in Compactors
        PROVE  /\ comp'[c].new # comp'[d].old
               /\ d # c => comp'[c].new # comp'[d].new
    <3>1. comp'[c].new # comp'[d].old
      BY <2>2, <2>3 DEF Shape, PrivateInv
    <3>2. CASE d # c /\ comp'[d].at \in Replaying
      BY <2>2, <2>3, <3>1, <3>2 DEF Shape, PrivateInv
    <3>3. CASE d # c /\ comp'[d].at \notin Replaying
      BY <2>2, <2>3, <3>1, <3>3 DEF Basics, LocalsInv, CallInv
    <3>4. QED
      BY <3>1, <3>2, <3>3
  <2>4. QED
    BY <2>1, <2>2, <2>3 DEF Shape, PrivateInv
<1>3. QED
  BY <1>1, <1>2 DEF Shape

(* The steps of a compaction before its graph exists, and its collections. *)
LEMMA CompactorKeepsShapeCalmly ==
    ASSUME Basics, Basics', Shape, NEW c \in Compactors,
           \/ Lookup(c) \/ CountInsertions(c) \/ Decide(c)
           \/ DrainDeletions(c) \/ DrainDeletionsRemove(c)
           \/ DrainInsertions(c) \/ DrainInsertionsRemove(c)
           \/ BuildFails(c) \/ ReplayInsertions(c) \/ ReplayDeletions(c)
    PROVE  Shape'
<1>1. UNCHANGED <<created, current, handle, op>>
  BY DEF Lookup, CountInsertions, Decide, DrainDeletions, DrainDeletionsRemove, DrainInsertions,
         DrainInsertionsRemove, BuildFails, ReplayInsertions, ReplayDeletions, Collect, graphVars
<1>2. \A g \in Graphs : ins'[g] \subseteq ins[g] /\ dels'[g] \subseteq dels[g]
  <2>1. CASE DrainDeletionsRemove(c)
    BY <2>1 DEF DrainDeletionsRemove, Basics, TypeOK
  <2>2. CASE DrainInsertionsRemove(c)
    BY <2>2 DEF DrainInsertionsRemove, Basics, TypeOK
  <2>3. CASE UNCHANGED <<ins, dels>>
    BY <2>3
  <2>4. QED
    BY <2>1, <2>2, <2>3
       DEF Lookup, CountInsertions, Decide, DrainDeletions, DrainInsertions, BuildFails,
           ReplayInsertions, ReplayDeletions, Collect, graphVars
<1>3. /\ \A d \in Compactors \ {c} : comp'[d] = comp[d]
      /\ comp'[c].old \in {NoGraph, comp[c].old, current}
      /\ comp'[c].at \in Replaying =>
            /\ comp[c].at \in {"replay_ins", "replay_dels"} /\ comp'[c].new = comp[c].new
            /\ comp'[c].at = "replay_ins_remove" <=> comp[c].at = "replay_ins"
            /\ comp'[c].at = "replay_dels_remove" <=> comp[c].at = "replay_dels"
  BY CallSteps DEF Becomes, Replaying
<1>4. QED
  BY <1>1, <1>2, <1>3, CalmStep DEF Replaying

(* A new graph is one that no writer and no other call knows.              *)
LEMMA BuildKeepsShape ==
    ASSUME Basics, Basics', Shape, NEW c \in Compactors, Build(c)
    PROVE  Shape'
<1>1. /\ UNCHANGED <<ins, dels, current, handle, op>> /\ created' = created + 1
      /\ comp'[c].at = "replay_ins" /\ comp'[c].new = created + 1 /\ comp'[c].old = comp[c].old
      /\ \A d \in Compactors \ {c} : comp'[d] = comp[d]
  BY CallSteps DEF Build, Becomes
<1>2. DisjointInv'
  BY <1>1 DEF Shape, DisjointInv
<1>3. created \in Graphs /\ created + 1 \in Graphs /\ current \in 0..created
  BY <1>1 DEF Basics, TypeOK
<1>4. \A d \in Compactors : comp[d].old \in 0..created /\ comp[d].new \in 0..created
  BY DEF Basics, TypeOK
<1>5. \A g \in Graphs : g > created' => ins'[g] = {} /\ dels'[g] = {}
  BY <1>1, <1>3 DEF Shape, PrivateInv, Graphs
<1>6. ASSUME NEW d \in Compactors \ {c}, comp'[d].at \in Replaying
      PROVE  /\ comp'[d].new # current' /\ \A w \in Writers : comp'[d].new # handle'[w]
             /\ \A f \in Compactors : comp'[d].new # comp'[f].old
             /\ \A f \in Compactors \ {d} : comp'[d].new # comp'[f].new
             /\ comp'[d].at \in {"replay_ins", "replay_ins_remove"} => ins'[comp'[d].new] = {}
             /\ comp'[d].at # "swap" => dels'[comp'[d].new] = {}
  BY <1>1, <1>3, <1>4, <1>6 DEF Shape, PrivateInv, Graphs
<1>7. /\ comp'[c].new # current' /\ \A w \in Writers : comp'[c].new # handle'[w]
      /\ \A f \in Compactors : comp'[c].new # comp'[f].old
      /\ \A f \in Compactors \ {c} : comp'[c].new # comp'[f].new
      /\ ins'[comp'[c].new] = {} /\ dels'[comp'[c].new] = {}
  <2>1. \A w \in Writers : handle[w] \in 0..created
    BY DEF Basics, TypeOK
  <2>2. QED
    BY <1>1, <1>3, <1>4, <2>1 DEF Shape, PrivateInv, Graphs
<1>8. PrivateInv'
  BY <1>5, <1>6, <1>7 DEF PrivateInv
<1>9. QED
  BY <1>2, <1>8 DEF Shape

(* What reaches the new graph in the replay is disjoint again: insertions  *)
(* into empty maps first, and each tombstone in place of an insertion.     *)
LEMMA ReplayKeepsShape ==
    ASSUME Basics, Basics', Shape, NEW c \in Compactors,
           ReplayInsertionsRemove(c) \/ ReplayDeletionsRemove(c)
    PROVE  Shape'
<1> DEFINE old == comp[c].old
           new == comp[c].new
<1>1. /\ UNCHANGED <<created, current, handle, op>>
      /\ \A d \in Compactors \ {c} : comp'[d] = comp[d]
      /\ comp'[c].old = old /\ comp'[c].new = new /\ comp'[c].at \in Replaying
      /\ comp[c].at \in Replaying \ {"swap"}
      /\ comp'[c].at \in {"replay_dels", "swap"}
      /\ ReplayInsertionsRemove(c) => comp'[c].at = "replay_dels"
      /\ ReplayDeletionsRemove(c) => comp'[c].at = "swap"
  <2>1. UNCHANGED <<created, current, handle, op>>
    BY DEF ReplayInsertionsRemove, ReplayDeletionsRemove
  <2>2. QED
    BY <2>1, CallSteps DEF Becomes, Replaying
<1>2. old \in Graphs /\ new \in Graphs /\ new \in 1..created /\ old # new /\ dels[new] = {}
  BY <1>1, CallGraphs DEF Shape, PrivateInv, Replaying
<1>3. \A g \in Graphs \ {new} : ins'[g] \subseteq ins[g] /\ dels'[g] \subseteq dels[g]
  <2>1. CASE ReplayInsertionsRemove(c)
    BY <1>2, <2>1 DEF ReplayInsertionsRemove, Basics, TypeOK
  <2>2. CASE ReplayDeletionsRemove(c)
    BY <1>2, <2>2 DEF ReplayDeletionsRemove, Basics, TypeOK
  <2>3. QED
    BY <2>1, <2>2
<1>4. /\ ins'[new] \cap dels'[new] = {}
      /\ ReplayInsertionsRemove(c) => dels'[new] = {}
  <2>1. CASE ReplayInsertionsRemove(c)
    BY <1>2, <2>1 DEF ReplayInsertionsRemove
  <2>2. CASE ReplayDeletionsRemove(c)
    <3>1. comp[c].at = "replay_dels_remove"
      BY <2>2 DEF ReplayDeletionsRemove, At
    <3>2. dels'[new] = comp[c].dels /\ ins'[new] = ins[new] \ comp[c].dels
      BY <1>2, <2>2 DEF ReplayDeletionsRemove, Basics, TypeOK
    <3>3. ~ReplayInsertionsRemove(c)
      BY <3>1 DEF ReplayInsertionsRemove, At
    <3>4. QED
      BY <3>2, <3>3
  <2>3. QED
    BY <2>1, <2>2
<1>5. \A w \in Writers : handle[w] # new /\ (op[w] # Idle => handle[w] \in Graphs)
  BY <1>1, ConstantsAssumption
     DEF Shape, DisjointInv, PrivateInv, Basics, TypeOK, Graphs, NoGraph
<1>6. DisjointInv'
  <2>1. \A g \in Graphs : ins'[g] \cap dels'[g] = {}
    BY <1>3, <1>4 DEF Shape, DisjointInv
  <2>2. QED
    BY <1>1, <1>3, <1>5, <2>1 DEF Shape, DisjointInv
<1>7. PrivateInv'
  <2>1. \A g \in Graphs : g > created' => ins'[g] = {} /\ dels'[g] = {}
    <3>1. \A g \in Graphs : g > created => g # new
      BY <1>2 DEF Basics, TypeOK, Graphs
    <3>2. QED
      BY <1>1, <1>3, <3>1 DEF Shape, PrivateInv
  <2>2. ASSUME NEW d \in Compactors, comp'[d].at \in Replaying
        PROVE  /\ comp[d].at \in Replaying /\ comp'[d].new = comp[d].new
               /\ comp'[d].new # current' /\ \A w \in Writers : comp'[d].new # handle'[w]
               /\ \A f \in Compactors : comp'[d].new # comp'[f].old
               /\ \A f \in Compactors \ {d} : comp'[d].new # comp'[f].new
    BY <1>1, <2>2 DEF Shape, PrivateInv
  <2>3. ASSUME NEW d \in Compactors \ {c}, comp'[d].at \in Replaying
        PROVE  /\ comp'[d].at \in {"replay_ins", "replay_ins_remove"} => ins'[comp'[d].new] = {}
               /\ comp'[d].at # "swap" => dels'[comp'[d].new] = {}
    <3>1. comp[d].new \in Graphs /\ comp[d].new # new
      BY <1>1, <2>2, <2>3, CallGraphs
    <3>2. QED
      BY <1>1, <1>3, <2>3, <3>1 DEF Shape, PrivateInv
  <2>4. comp'[c].at # "swap" => dels'[comp'[c].new] = {}
    BY <1>1, <1>4
  <2>5. comp'[c].at \notin {"replay_ins", "replay_ins_remove"}
    BY <1>1
  <2>6. QED
    BY <2>1, <2>2, <2>3, <2>4, <2>5 DEF PrivateInv
<1>8. QED
  BY <1>6, <1>7 DEF Shape

(* A swap makes a graph known that one call had for itself.                *)
LEMMA SwapKeepsShape ==
    ASSUME Basics, Basics', Shape, NEW c \in Compactors, Swap(c)
    PROVE  Shape'
<1>1. /\ UNCHANGED <<ins, dels, created, handle, op>> /\ current' = comp[c].new
      /\ comp[c].at = "swap" /\ comp'[c].at = "off" /\ comp'[c].old = NoGraph
      /\ comp'[c].new = NoGraph
      /\ \A d \in Compactors \ {c} : comp'[d] = comp[d]
  BY CallSteps DEF Swap, Becomes, graphVars
<1>2. DisjointInv'
  BY <1>1 DEF Shape, DisjointInv
<1>3. \A d \in Compactors : comp[d].at \in Replaying => comp[d].new # NoGraph
  BY DEF Basics, LocalsInv, CallInv
<1>4. PrivateInv'
  BY <1>1, <1>3 DEF Shape, PrivateInv, Replaying
<1>5. QED
  BY <1>2, <1>4 DEF Shape

(* register publishes a graph that no call has, deregister none.           *)
LEMMA RegistryKeepsShape ==
    ASSUME Basics, Basics', Shape,
           Deregister \/ \E edges \in SUBSET (Edges \ Oversized) : Register(edges)
    PROVE  Shape'
<1>1. /\ UNCHANGED <<ins, dels, handle, op, comp>> /\ created' >= created
      /\ current' = NoGraph \/ current' = created + 1
  BY ConstantsAssumption DEF Deregister, Register, graphVars, Basics, TypeOK, Graphs
<1>2. DisjointInv'
  BY <1>1 DEF Shape, DisjointInv
<1>3. \A d \in Compactors : comp[d].at \in Replaying => comp[d].new \in 1..created
  BY CallGraphs
<1>4. created \in Nat /\ created' \in Nat
  BY DEF Basics, TypeOK, Graphs
<1>5. PrivateInv'
  BY <1>1, <1>3, <1>4 DEF Shape, PrivateInv, NoGraph, Graphs
<1>6. QED
  BY <1>2, <1>5 DEF Shape

(* Writers touch only graphs that they hold, and only edges of their own.  *)
LEMMA WriterKeepsShape ==
    ASSUME Basics, Basics', Shape, NEW w \in Writers, WriterStep(w)
    PROVE  Shape'
<1> USE ConstantsAssumption
<1>1. UNCHANGED <<created, current, comp>>
  BY DEF WriterStep, Get, InsertRemoveTombstone, DeleteRemoveInsertion, InsertStore,
         DeleteAddTombstone, Started, Finished, graphVars, ghosts
<1>2. CASE Get(w)
  <2>1. UNCHANGED <<ins, dels, op>> /\ handle' = [handle EXCEPT ![w] = current] /\ op[w] = Idle
    BY <1>2 DEF Get, graphVars
  <2>2. \A v \in Writers : handle'[v] \in {handle[v], current} /\ (op[v] # Idle => handle'[v] = handle[v])
    BY <2>1 DEF Basics, TypeOK
  <2>3. DisjointInv'
    BY <2>1, <2>2 DEF Shape, DisjointInv
  <2>4. PrivateInv'
    BY <1>1, <2>1, <2>2 DEF Shape, PrivateInv
  <2>5. QED
    BY <2>3, <2>4 DEF Shape
<1>3. ASSUME UNCHANGED handle, handle[w] \in Graphs, handle[w] # NoGraph,
             \A g \in Graphs \ {handle[w]} : ins'[g] = ins[g] /\ dels'[g] = dels[g]
      PROVE  PrivateInv'
  <2>1. handle[w] \in 1..created
    BY <1>3 DEF Basics, TypeOK, Graphs, NoGraph
  <2>2. \A c \in Compactors : comp[c].at \in Replaying => comp[c].new \in Graphs \ {handle[w]}
    BY CallGraphs DEF Shape, PrivateInv
  <2>3. \A g \in Graphs : g > created => g # handle[w]
    BY <2>1 DEF Graphs, Basics, TypeOK
  <2>4. QED
    BY <1>1, <1>3, <2>2, <2>3 DEF Shape, PrivateInv
<1>4. ASSUME NEW e \in Edges, InsertRemoveTombstone(w, e) \/ DeleteRemoveInsertion(w, e)
      PROVE  Shape'
  <2>1. /\ UNCHANGED handle /\ handle[w] # NoGraph /\ handle[w] \in Graphs /\ e \in Writes[w]
        /\ \A v \in Writers \ {w} : op'[v] = op[v]
    BY <1>4 DEF InsertRemoveTombstone, DeleteRemoveInsertion, Started, Basics, TypeOK, Graphs, NoGraph
  <2>2. \A g \in Graphs : ins'[g] \subseteq ins[g] /\ dels'[g] \subseteq dels[g]
    <3>1. CASE InsertRemoveTombstone(w, e)
      BY <3>1 DEF InsertRemoveTombstone, Basics, TypeOK
    <3>2. CASE DeleteRemoveInsertion(w, e)
      BY <3>2 DEF DeleteRemoveInsertion, Basics, TypeOK
    <3>3. QED
      BY <1>4, <3>1, <3>2
  <2>3. \A g \in Graphs \ {handle[w]} : ins'[g] = ins[g] /\ dels'[g] = dels[g]
    <3>1. CASE InsertRemoveTombstone(w, e)
      BY <3>1 DEF InsertRemoveTombstone, Basics, TypeOK
    <3>2. CASE DeleteRemoveInsertion(w, e)
      BY <3>2 DEF DeleteRemoveInsertion, Basics, TypeOK
    <3>3. QED
      BY <1>4, <3>1, <3>2
  <2>4. \/ op'[w] = <<"insert", e>> /\ e \notin dels'[handle[w]]
        \/ op'[w] = <<"delete", e>> /\ e \notin ins'[handle[w]]
    BY <1>4, <2>1 DEF InsertRemoveTombstone, DeleteRemoveInsertion, Started, Basics, TypeOK
  <2>5. \A v \in Writers : op[v] # Idle => handle[v] \in Graphs
    BY DEF Shape, DisjointInv, Basics, TypeOK, Graphs, NoGraph
  <2>6. DisjointInv'
    <3>1. \A g \in Graphs : ins'[g] \cap dels'[g] = {}
      BY <2>2 DEF Shape, DisjointInv
    <3>2. ASSUME NEW v \in Writers \ {w}, op'[v] # Idle
          PROVE  /\ handle'[v] # NoGraph /\ op'[v][2] \in Writes[v]
                 /\ op'[v][1] = "insert" => op'[v][2] \notin dels'[handle'[v]]
                 /\ op'[v][1] = "delete" => op'[v][2] \notin ins'[handle'[v]]
      BY <2>1, <2>2, <2>5, <3>2 DEF Shape, DisjointInv
    <3>3. /\ op'[w][2] \in Writes[w]
          /\ op'[w][1] = "insert" => op'[w][2] \notin dels'[handle'[w]]
          /\ op'[w][1] = "delete" => op'[w][2] \notin ins'[handle'[w]]
      BY <2>1, <2>4
    <3>4. QED
      BY <2>1, <3>1, <3>2, <3>3 DEF DisjointInv
  <2>7. QED
    BY <1>3, <2>1, <2>3, <2>6 DEF Shape
<1>5. ASSUME NEW e \in Edges, InsertStore(w, e) \/ DeleteAddTombstone(w, e)
      PROVE  Shape'
  <2>1. /\ UNCHANGED handle /\ op'[w] = Idle /\ \A v \in Writers \ {w} : op'[v] = op[v]
        /\ op[w] = <<"insert", e>> \/ op[w] = <<"delete", e>>
    BY <1>5 DEF InsertStore, DeleteAddTombstone, Finished, Basics, TypeOK
  <2>2. /\ op[w] # Idle /\ op[w][2] = e
    BY <2>1 DEF Idle
  <2>3. handle[w] # NoGraph /\ handle[w] \in Graphs /\ e \in Writes[w]
    BY <2>2 DEF Shape, DisjointInv, Basics, TypeOK, Graphs, NoGraph
  <2>4. \A g \in Graphs \ {handle[w]} : ins'[g] = ins[g] /\ dels'[g] = dels[g]
    BY <1>5 DEF InsertStore, DeleteAddTombstone, Basics, TypeOK
  <2>5. /\ ins'[handle[w]] \subseteq ins[handle[w]] \cup {e}
        /\ dels'[handle[w]] \subseteq dels[handle[w]] \cup {e}
        /\ ~(e \in ins'[handle[w]] /\ e \in dels'[handle[w]])
    <3>1. CASE InsertStore(w, e)
      <4>0. op[w] = <<"insert", e>> /\ op[w][1] = "insert"
        BY <3>1 DEF InsertStore
      <4>1. e \notin dels[handle[w]]
        BY <2>2, <4>0 DEF Shape, DisjointInv
      <4>2. QED
        BY <2>3, <3>1, <4>1 DEF InsertStore, Basics, TypeOK
    <3>2. CASE DeleteAddTombstone(w, e)
      <4>0. op[w] = <<"delete", e>> /\ op[w][1] = "delete"
        BY <3>2 DEF DeleteAddTombstone
      <4>1. e \notin ins[handle[w]]
        BY <2>2, <4>0 DEF Shape, DisjointInv
      <4>2. QED
        BY <2>3, <3>2, <4>1 DEF DeleteAddTombstone, Basics, TypeOK
    <3>3. QED
      BY <1>5, <3>1, <3>2
  <2>6. \A g \in Graphs : ins'[g] \cap dels'[g] = {}
    BY <2>4, <2>5 DEF Shape, DisjointInv
  <2>7. ASSUME NEW v \in Writers \ {w}, op'[v] # Idle
        PROVE  /\ handle'[v] # NoGraph /\ op'[v][2] \in Writes[v]
               /\ op'[v][1] = "insert" => op'[v][2] \notin dels'[handle'[v]]
               /\ op'[v][1] = "delete" => op'[v][2] \notin ins'[handle'[v]]
    <3>1. op'[v] = op[v] /\ handle'[v] = handle[v] /\ handle[v] # NoGraph /\ op[v][2] \in Writes[v]
      BY <2>1, <2>7 DEF Shape, DisjointInv
    <3>2. op[v][2] # e /\ handle[v] \in Graphs
      BY <2>3, <3>1 DEF Basics, TypeOK, Graphs, NoGraph
    <3>3. QED
      BY <2>4, <2>5, <2>7, <3>1, <3>2 DEF Shape, DisjointInv
  <2>8. DisjointInv'
    BY <2>1, <2>6, <2>7 DEF DisjointInv
  <2>9. QED
    BY <1>3, <2>1, <2>3, <2>4, <2>8 DEF Shape
<1>6. QED
  BY <1>2, <1>4, <1>5 DEF WriterStep

(* The private graphs and the disjoint maps are invariant.                 *)
LEMMA ShapeHolds == Spec => []Shape
<1>1. Init => Shape
  <2> SUFFICES ASSUME Init PROVE Shape
    OBVIOUS
  <2>1. PrivateInv
    BY DEF Init, PrivateInv, Off, Replaying
  <2>2. DisjointInv
    BY DEF Init, DisjointInv
  <2>3. QED
    BY <2>1, <2>2 DEF Shape
<1>2. Basics /\ Basics' /\ Shape /\ [Next]_vars => Shape'
  <2> SUFFICES ASSUME Basics, Basics', Shape, [Next]_vars PROVE Shape'
    OBVIOUS
  <2>1. CASE UNCHANGED vars
    <3>1. UNCHANGED <<ins, dels, created, current, handle, op, comp>>
      BY <2>1 DEF vars, graphVars
    <3>2. QED
      BY <3>1 DEF Shape, PrivateInv, DisjointInv
  <2>2. CASE Next
    BY <2>2, WriterKeepsShape, CompactorKeepsShapeCalmly, BuildKeepsShape, ReplayKeepsShape,
       SwapKeepsShape, RegistryKeepsShape DEF Next, CompactorStep
  <2>3. QED
    BY <2>1, <2>2
<1>3. QED
  BY <1>1, <1>2, BasicsHold, PTL DEF Spec

(* has_edge and neighbors agree on every graph that is or was registered,  *)
(* or that a compaction is about to register (csr.rs:307, udtf.rs:229).    *)
THEOREM LookupsAlwaysAgree == Spec => []LookupsAgree
<1>1. Basics /\ Shape => LookupsAgree
  <2> SUFFICES ASSUME Basics, Shape, NEW g \in 1..created, NEW e \in Edges
               PROVE  HasEdge(g, e) <=> e \in Neighbors(g)
    BY DEF LookupsAgree
  <2>1. created \in Nat /\ created <= MaxGraphs
    BY ConstantsAssumption DEF Basics, TypeOK, Graphs
  <2>2. g \in Graphs
    BY <2>1, ConstantsAssumption DEF Graphs
  <2>3. QED
    BY <2>2 DEF Shape, DisjointInv, HasEdge, Neighbors
<1>2. QED
  BY <1>1, BasicsHold, ShapeHolds, PTL

-----------------------------------------------------------------------------
(***************************************************************************)
(* Unexcused writes survive.                                               *)
(***************************************************************************)
\* A step leaves what graph g knows of edge e as it is.
Untouched(g, e) ==
    /\ e \in base'[g] <=> e \in base[g]
    /\ e \in ins'[g] <=> e \in ins[g]
    /\ e \in dels'[g] <=> e \in dels[g]

(* A compaction that does not move makes of an edge what it made of it, if *)
(* its two graphs know of the edge what they knew.                         *)
LEMMA SameOutcome ==
    ASSUME Basics, NEW d \in Compactors, NEW e \in Edges, comp'[d] = comp[d],
           comp[d].at \in AtWork, Untouched(comp[d].old, e),
           comp[d].at \in Replaying => Untouched(comp[d].new, e)
    PROVE  /\ Delivers(d, e)' <=> Delivers(d, e)
           /\ WillCollide(d, e)' <=> WillCollide(d, e)
<1>1. WillCollide(d, e)' <=> WillCollide(d, e)
  BY DEF WillCollide, Collided, Untouched
<1>2. MergedHas(d, e)' <=> MergedHas(d, e)
  BY DEF MergedHas, Merged, Untouched
<1>3. (e \in Merged(base[comp[d].old], comp[d].dels, ins[comp[d].old]))'
         <=> e \in Merged(base[comp[d].old], comp[d].dels, ins[comp[d].old])
  BY DEF Merged, Untouched
<1>4. Delivers(d, e)' <=> Delivers(d, e)
  <2>1. HasEdge(comp[d].old, e)' <=> HasEdge(comp[d].old, e)
    BY DEF HasEdge, Untouched
  <2>2. comp[d].at \in Replaying => (HasEdge(comp[d].new, e)' <=> HasEdge(comp[d].new, e))
    BY DEF HasEdge, Untouched
  <2>3. QED
    BY <1>2, <1>3, <2>1, <2>2 DEF Delivers, Untouched, Replaying
<1>5. QED
  BY <1>1, <1>4

(* A step of a compaction that does not let go of the edge, touches it     *)
(* only if it holds it, and answers for its own outcome.                   *)
LEMMA HolderAnswers ==
    ASSUME Basics, Shape, NEW c \in Compactors, NEW e \in Edges, SurvivesIn(e),
           current # NoGraph, UNCHANGED <<current, truth>>,
           \A d \in Compactors \ {c} : comp'[d] = comp[d],
           Holds(c, e) => Holds(c, e)',
           Holds(c, e)' \/ \A g \in 1..created : Untouched(g, e),
           (comp'[c].old = current /\ comp'[c].at \in AtWork) => KeptBy(c, e)'
    PROVE  SurvivesIn(e)'
<1>1. \A d \in Compactors \ {c} : Holds(d, e)' <=> Holds(d, e)
  BY DEF Holds
<1>2. current \in 1..created
  BY ConstantsAssumption DEF Basics, TypeOK, NoGraph, Graphs
<1>3. (ShownAsWritten(e) \/ \E d \in Compactors : Holds(d, e))'
  <2>1. CASE Holds(c, e)'
    BY <2>1
  <2>2. CASE Untouched(current, e)
    <3>1. ShownAsWritten(e)' <=> ShownAsWritten(e)
      BY <2>2 DEF ShownAsWritten, HasEdge, Untouched
    <3>2. QED
      BY <1>1, <3>1 DEF SurvivesIn
  <2>3. QED
    BY <1>2, <2>1, <2>2
<1>4. ASSUME NEW d \in Compactors, comp'[d].old = current, comp'[d].at \in AtWork
      PROVE  KeptBy(d, e)'
  <2>1. CASE d = c
    BY <1>4, <2>1
  <2>2. CASE d # c /\ Holds(c, e)'
    BY <2>2 DEF KeptBy
  <2>3. CASE d # c /\ ~Holds(c, e)'
    <3>1. comp'[d] = comp[d] /\ KeptBy(d, e)
      BY <1>4, <2>3 DEF SurvivesIn
    <3>2. comp[d].at \in Replaying => comp[d].new \in 1..created
      BY CallGraphs
    <3>3. (Delivers(d, e)' <=> Delivers(d, e)) /\ (WillCollide(d, e)' <=> WillCollide(d, e))
      BY <1>2, <1>4, <2>3, <3>1, <3>2, SameOutcome
    <3>4. CASE \E f \in Compactors \ {d} : Holds(f, e)
      BY <1>1, <2>3, <3>4 DEF KeptBy
    <3>5. QED
      BY <3>1, <3>3, <3>4 DEF KeptBy
  <2>4. QED
    BY <2>1, <2>2, <2>3
<1>5. QED
  BY <1>3, <1>4 DEF SurvivesIn

(* A step that touches neither the edge nor a compaction.                  *)
LEMMA BystanderSurvives ==
    ASSUME Basics, NEW e \in Edges, SurvivesIn(e), current # NoGraph, UNCHANGED <<current, comp>>,
           e \in truth' <=> e \in truth, \A g \in 1..created : Untouched(g, e)
    PROVE  SurvivesIn(e)'
<1>1. \A d \in Compactors : Holds(d, e)' <=> Holds(d, e)
  BY DEF Holds
<1>2. current \in 1..created
  BY ConstantsAssumption DEF Basics, TypeOK, NoGraph, Graphs
<1>3. ShownAsWritten(e)' <=> ShownAsWritten(e)
  BY <1>2 DEF ShownAsWritten, HasEdge, Untouched
<1>4. ASSUME NEW d \in Compactors, comp'[d].old = current, comp'[d].at \in AtWork
      PROVE  KeptBy(d, e)'
  <2>1. KeptBy(d, e)
    BY <1>4 DEF SurvivesIn
  <2>2. comp[d].at \in Replaying => comp[d].new \in 1..created
    BY CallGraphs
  <2>3. (Delivers(d, e)' <=> Delivers(d, e)) /\ (WillCollide(d, e)' <=> WillCollide(d, e))
    BY <1>2, <1>4, <2>2, SameOutcome
  <2>4. QED
    BY <1>1, <2>1, <2>3 DEF KeptBy
<1>5. QED
  BY <1>1, <1>3, <1>4 DEF SurvivesIn

(* The steps of a call that touch no graph and drain nothing.              *)
LEMMA DecisionSurvives ==
    ASSUME Basics, Shape, NEW c \in Compactors, NEW e \in Edges, SurvivesIn(e), current # NoGraph,
           Lookup(c) \/ CountInsertions(c) \/ Decide(c)
    PROVE  SurvivesIn(e)'
<1>1. UNCHANGED <<base, ins, dels, current, truth>>
  BY DEF Lookup, CountInsertions, Decide, graphVars, ghosts
<1>2. /\ comp[c].at \in {"off", "count", "decide"}
      /\ comp'[c].at \in {"off", "count", "decide", "drain_dels"}
      /\ comp'[c].at = "drain_dels" => comp'[c].old = comp[c].old
      /\ \A d \in Compactors \ {c} : comp'[d] = comp[d]
  BY CallSteps DEF Becomes
<1>3. ~Holds(c, e) /\ ~Holds(c, e)'
  BY <1>2 DEF Holds, Replaying, Draining
<1>4. \A g \in 1..created : Untouched(g, e)
  BY <1>1 DEF Untouched
<1>5. ASSUME comp'[c].old = current, comp'[c].at \in AtWork
      PROVE  KeptBy(c, e)'
  <2>1. comp'[c].at = "drain_dels"
    BY <1>2, <1>5 DEF AtWork, Replaying, Draining
  <2>2. Delivers(c, e)' <=> HasEdge(current, e)
    BY <1>1, <1>5, <2>1 DEF Delivers, HasEdge
  <2>3. CASE ShownAsWritten(e)
    BY <1>1, <2>2, <2>3 DEF ShownAsWritten, KeptBy
  <2>4. CASE \E d \in Compactors : Holds(d, e)
    BY <1>2, <1>3, <2>4 DEF Holds, KeptBy
  <2>5. QED
    BY <2>3, <2>4 DEF SurvivesIn
<1>6. QED
  BY <1>1, <1>2, <1>3, <1>4, <1>5, HolderAnswers

(* What a compaction makes of an edge is its own affair while it does not  *)
(* change: its outcome before and after a step of its own.                 *)
LEMMA OwnOutcome ==
    ASSUME NEW c \in Compactors, NEW e \in Edges, SurvivesIn(e), UNCHANGED truth,
           \A d \in Compactors \ {c} : comp'[d] = comp[d],
           comp[c].old = current, comp[c].at \in AtWork,
           WillCollide(c, e) => WillCollide(c, e)',
           WillCollide(c, e)' \/ (Delivers(c, e)' <=> Delivers(c, e))
    PROVE  KeptBy(c, e)'
<1>1. KeptBy(c, e)
  BY DEF SurvivesIn
<1>2. CASE \E d \in Compactors \ {c} : Holds(d, e)
  BY <1>2 DEF KeptBy, Holds
<1>3. QED
  BY <1>1, <1>2 DEF KeptBy

(* The collection of a map changes no outcome.                             *)
LEMMA CollectSurvives ==
    ASSUME Basics, Shape, NEW c \in Compactors, NEW e \in Edges, SurvivesIn(e), current # NoGraph,
           \/ DrainDeletions(c) \/ DrainInsertions(c)
           \/ ReplayInsertions(c) \/ ReplayDeletions(c)
    PROVE  SurvivesIn(e)'
<1> DEFINE old == comp[c].old
<1>1. UNCHANGED <<base, ins, dels, current, truth>>
  BY DEF DrainDeletions, DrainInsertions, ReplayInsertions, ReplayDeletions, Collect,
         graphVars, ghosts
<1>2. \/ comp[c].at = "drain_dels" /\ Becomes(c, "drain_dels_remove", old, comp[c].new, dels[old], comp[c].ins)
      \/ comp[c].at = "drain_ins" /\ Becomes(c, "drain_ins_remove", old, comp[c].new, comp[c].dels, ins[old])
      \/ comp[c].at = "replay_ins" /\ Becomes(c, "replay_ins_remove", old, comp[c].new, comp[c].dels, ins[old])
      \/ comp[c].at = "replay_dels" /\ Becomes(c, "replay_dels_remove", old, comp[c].new, dels[old], comp[c].ins)
  BY CallSteps
<1>3. /\ CallInv(comp[c]) /\ old \in Graphs /\ ins[old] \cap dels[old] = {}
  BY <1>2, CallGraphs DEF Shape, DisjointInv
<1>4. Holds(c, e) => Holds(c, e)'
  BY <1>2, <1>3 DEF Becomes, Holds, Replaying, Draining, CallInv
<1>5. \A g \in 1..created : Untouched(g, e)
  BY <1>1 DEF Untouched
<1>6. ASSUME comp'[c].old = current, comp'[c].at \in AtWork
      PROVE  KeptBy(c, e)'
  <2>1. comp[c].old = current /\ comp[c].at \in AtWork
    BY <1>2, <1>6 DEF Becomes, AtWork, Replaying, Draining
  <2>2. WillCollide(c, e) => WillCollide(c, e)'
    BY <1>1, <1>2 DEF Becomes, WillCollide, Draining
  <2>3. Delivers(c, e)' <=> Delivers(c, e)
    <3>1. CASE comp[c].at = "drain_dels"
      BY <1>1, <1>2, <1>3, <3>1 DEF Becomes, Delivers, HasEdge, Merged
    <3>2. CASE comp[c].at = "drain_ins"
      BY <1>1, <1>2, <3>2 DEF Becomes, Delivers, MergedHas, Merged
    <3>3. CASE comp[c].at \in {"replay_ins", "replay_dels"}
      BY <1>1, <1>2, <3>3 DEF Becomes, Delivers
    <3>4. QED
      BY <1>2, <3>1, <3>2, <3>3
  <2>4. QED
    BY <1>1, <1>2, <2>1, <2>2, <2>3, OwnOutcome DEF Becomes
<1>7. QED
  BY <1>1, <1>2, <1>4, <1>5, <1>6, HolderAnswers DEF Becomes

(* Whoever removes a drained edge from the old graph holds it from then on. *)
LEMMA DrainSurvives ==
    ASSUME Basics, Shape, NEW c \in Compactors, NEW e \in Edges, SurvivesIn(e), current # NoGraph,
           DrainDeletionsRemove(c) \/ DrainInsertionsRemove(c)
    PROVE  SurvivesIn(e)'
<1> DEFINE old == comp[c].old
<1>1. UNCHANGED <<base, current, truth>>
  BY DEF DrainDeletionsRemove, DrainInsertionsRemove, ghosts
<1>2. /\ comp'[c].old = old /\ comp'[c].dels = comp[c].dels /\ comp'[c].ins = comp[c].ins
      /\ \A d \in Compactors \ {c} : comp'[d] = comp[d]
      /\ DrainDeletionsRemove(c) => comp[c].at = "drain_dels_remove" /\ comp'[c].at = "drain_ins"
      /\ DrainInsertionsRemove(c) => comp[c].at = "drain_ins_remove" /\ comp'[c].at = "build"
  BY CallSteps DEF Becomes
<1>3. old \in Graphs
  BY <1>2, CallGraphs
<1>4. DrainDeletionsRemove(c) =>
         /\ UNCHANGED ins /\ dels'[old] = dels[old] \ comp[c].dels
         /\ \A g \in Graphs \ {old} : dels'[g] = dels[g]
  BY <1>3 DEF DrainDeletionsRemove, Basics, TypeOK
<1>5. DrainInsertionsRemove(c) =>
         /\ UNCHANGED dels /\ ins'[old] = ins[old] \ comp[c].ins
         /\ \A g \in Graphs \ {old} : ins'[g] = ins[g]
  BY <1>3 DEF DrainInsertionsRemove, Basics, TypeOK
<1>6. Holds(c, e) => Holds(c, e)'
  BY <1>2 DEF Holds, Replaying, Draining
<1>7. ASSUME ~Holds(c, e)', NEW g \in 1..created
      PROVE  Untouched(g, e)
  <2>1. e \notin comp[c].dels /\ e \notin comp[c].ins
    BY <1>2, <1>7 DEF Holds, Draining
  <2>2. g \in Graphs
    <3>1. created \in Nat /\ created <= MaxGraphs
      BY ConstantsAssumption DEF Basics, TypeOK, Graphs
    <3>2. QED
      BY <3>1, ConstantsAssumption DEF Graphs
  <2>3. QED
    BY <1>1, <1>4, <1>5, <2>1, <2>2 DEF Untouched
<1>8. ASSUME comp'[c].old = current, comp'[c].at \in AtWork
      PROVE  KeptBy(c, e)'
  <2>1. comp[c].old = current /\ comp[c].at \in AtWork
    BY <1>2, <1>8 DEF AtWork, Draining
  <2>2. WillCollide(c, e) => WillCollide(c, e)'
    BY <1>1, <1>2, <1>4 DEF WillCollide, Draining
  <2>3. Delivers(c, e)' <=> Delivers(c, e)
    <3>1. CASE DrainDeletionsRemove(c)
      BY <1>1, <1>2, <1>4, <3>1 DEF Delivers, Merged
    <3>2. CASE DrainInsertionsRemove(c)
      BY <1>1, <1>2, <1>5, <3>2 DEF Delivers, MergedHas, Merged
    <3>3. QED
      BY <3>1, <3>2
  <2>4. QED
    BY <1>1, <1>2, <2>1, <2>2, <2>3, OwnOutcome
<1>9. QED
  BY <1>1, <1>2, <1>6, <1>7, <1>8, HolderAnswers

(* The merge keeps what it promised, unless an excuse says otherwise, and  *)
(* a failed merge excuses all that it had drained.                         *)
LEMMA BuildSurvives ==
    ASSUME Basics, Basics', Shape, NEW c \in Compactors, NEW e \in Edges, SurvivesIn(e),
           current # NoGraph, excuse'[e] = {}, Build(c) \/ BuildFails(c)
    PROVE  SurvivesIn(e)'
<1> DEFINE old == comp[c].old
<1>1. UNCHANGED <<ins, dels, current, truth>>
  BY DEF Build, BuildFails, graphVars
<1>2. /\ comp[c].at = "build" /\ \A d \in Compactors \ {c} : comp'[d] = comp[d]
      /\ Build(c) => /\ comp'[c].at = "replay_ins" /\ comp'[c].old = old
                     /\ comp'[c].new = created + 1
      /\ BuildFails(c) => comp'[c].at = "off"
  BY CallSteps DEF Becomes
<1>3. old \in Graphs /\ old \in 1..created
  BY <1>2, CallGraphs
<1>4. CASE Build(c)
  <2>1. /\ created + 1 \in Graphs
        /\ base'[created + 1] = Merged(base[old], comp[c].dels, comp[c].ins)
    <3>1. created + 1 \in Graphs
      BY <1>4 DEF Build, Basics, TypeOK
    <3>2. QED
      BY <1>4, <3>1 DEF Build, Basics, TypeOK
  <2>2. ~WillCollide(c, e)
    BY <1>2, <1>4 DEF Build, WillCollide, Draining
  <2>3. Holds(c, e)'
    BY <1>2, <1>4 DEF Holds, Replaying
  <2>4. Delivers(c, e)' <=> Delivers(c, e)
    BY <1>1, <1>2, <1>4, <2>1 DEF Delivers, MergedHas
  <2>5. comp[c].at \in AtWork
    BY <1>2 DEF AtWork, Draining
  <2>6. comp'[c].old = current => KeptBy(c, e)'
    BY <1>1, <1>2, <1>4, <2>2, <2>4, <2>5, OwnOutcome
  <2>7. QED
    BY <1>1, <1>2, <2>3, <2>6, HolderAnswers
<1>5. CASE BuildFails(c)
  <2>1. ~Holds(c, e) /\ UNCHANGED base
    BY <1>2, <1>5 DEF BuildFails, Holds, Replaying, graphVars
  <2>2. comp'[c].at \notin AtWork
    BY <1>2, <1>5 DEF AtWork, Replaying, Draining
  <2>3. \A g \in 1..created : Untouched(g, e)
    BY <1>1, <2>1 DEF Untouched
  <2>4. QED
    BY <1>1, <1>2, <2>1, <2>2, <2>3, HolderAnswers
<1>6. QED
  BY <1>4, <1>5

(* The replay moves the edge from the old graph to the new one.            *)
LEMMA ReplaySurvives ==
    ASSUME Basics, Shape, NEW c \in Compactors, NEW e \in Edges, SurvivesIn(e), current # NoGraph,
           ReplayInsertionsRemove(c) \/ ReplayDeletionsRemove(c)
    PROVE  SurvivesIn(e)'
<1> DEFINE old == comp[c].old
           new == comp[c].new
<1>1. UNCHANGED <<base, current, truth>>
  BY DEF ReplayInsertionsRemove, ReplayDeletionsRemove, ghosts
<1>2. /\ comp'[c].old = old /\ comp'[c].new = new
      /\ \A d \in Compactors \ {c} : comp'[d] = comp[d]
      /\ ReplayInsertionsRemove(c) => comp[c].at = "replay_ins_remove" /\ comp'[c].at = "replay_dels"
      /\ ReplayDeletionsRemove(c) => comp[c].at = "replay_dels_remove" /\ comp'[c].at = "swap"
  BY CallSteps DEF Becomes
<1>3. comp[c].at \in Replaying /\ comp'[c].at \in Replaying
  BY <1>2 DEF Replaying
<1>4. old \in Graphs /\ new \in Graphs /\ old # new
  BY <1>3, CallGraphs DEF Shape, PrivateInv, Replaying
<1>5. Holds(c, e)'
  BY <1>3 DEF Holds
<1>6. ~WillCollide(c, e)
  BY <1>3 DEF WillCollide, Replaying, Draining
<1>7. Delivers(c, e)' <=> Delivers(c, e)
  <2>1. CASE ReplayInsertionsRemove(c)
    <3>1. UNCHANGED dels /\ ins'[new] = comp[c].ins
      BY <1>4, <2>1 DEF ReplayInsertionsRemove, Basics, TypeOK
    <3>2. QED
      BY <1>1, <1>2, <2>1, <3>1 DEF Delivers
  <2>2. CASE ReplayDeletionsRemove(c)
    <3>1. dels'[new] = comp[c].dels /\ ins'[new] = ins[new] \ comp[c].dels
      BY <1>4, <2>2 DEF ReplayDeletionsRemove, Basics, TypeOK
    <3>2. QED
      BY <1>1, <1>2, <2>2, <3>1 DEF Delivers, HasEdge
  <2>3. QED
    BY <2>1, <2>2
<1>8. comp[c].at \in AtWork
  BY <1>3 DEF AtWork
<1>9. comp'[c].old = current => KeptBy(c, e)'
  BY <1>1, <1>2, <1>6, <1>7, <1>8, OwnOutcome
<1>10. QED
  BY <1>1, <1>2, <1>5, <1>9, HolderAnswers

(* A swap of the graph that was compacted shows what it promised; any      *)
(* other swap excuses every edge.                                          *)
LEMMA SwapSurvives ==
    ASSUME Basics, Shape, NEW c \in Compactors, NEW e \in Edges, SurvivesIn(e),
           excuse'[e] = {}, Swap(c)
    PROVE  SurvivesIn(e)'
<1>1. /\ UNCHANGED <<base, ins, dels, truth>> /\ current' = comp[c].new
      /\ excuse'[e] = excuse[e] \cup {x \in {"overtaken"} : current # comp[c].old}
  BY DEF Swap, graphVars
<1>2. /\ comp[c].at = "swap" /\ comp'[c].at = "off"
      /\ \A d \in Compactors \ {c} : comp'[d] = comp[d]
  BY CallSteps DEF Becomes
<1>3. comp[c].old = current
  BY <1>1
<1>4. KeptBy(c, e)
  BY <1>2, <1>3 DEF SurvivesIn, AtWork, Replaying
<1>5. ~WillCollide(c, e)
  BY <1>2 DEF WillCollide, Draining
<1>6. Delivers(c, e) <=> HasEdge(comp[c].new, e)
  BY <1>2 DEF Delivers
<1>7. (ShownAsWritten(e) \/ \E d \in Compactors : Holds(d, e))'
  <2>1. CASE Delivers(c, e) <=> e \in truth
    BY <1>1, <1>6, <2>1 DEF ShownAsWritten, HasEdge
  <2>2. CASE \E d \in Compactors \ {c} : Holds(d, e)
    BY <1>2, <2>2 DEF Holds
  <2>3. QED
    BY <1>4, <1>5, <2>1, <2>2 DEF KeptBy
<1>8. \A d \in Compactors : ~(comp'[d].old = current' /\ comp'[d].at \in AtWork)
  <2>1. comp'[c].at \notin AtWork
    BY <1>2 DEF AtWork, Replaying, Draining
  <2>2. \A d \in Compactors \ {c} : comp'[d].old # current'
    BY <1>1, <1>2 DEF Shape, PrivateInv, Replaying
  <2>3. QED
    BY <2>1, <2>2
<1>9. QED
  BY <1>7, <1>8 DEF SurvivesIn

(* A newly registered graph shows the edges it was built from, and no      *)
(* compaction knows of it.                                                 *)
LEMMA RegisterSurvives ==
    ASSUME Basics, Basics', Shape, NEW e \in Edges,
           NEW edges \in SUBSET (Edges \ Oversized), Register(edges)
    PROVE  SurvivesIn(e)'
<1>1. /\ UNCHANGED <<ins, dels, comp>> /\ current' = created + 1 /\ truth' = edges
      /\ created' = created + 1
  BY DEF Register
<1>2. created \in Nat /\ created + 1 \in Graphs
  BY <1>1 DEF Basics, TypeOK, Graphs
<1>3. base'[created + 1] = edges
  BY <1>2 DEF Register, Basics, TypeOK
<1>4. ins[created + 1] = {} /\ dels[created + 1] = {}
  BY <1>2 DEF Shape, PrivateInv
<1>5. ShownAsWritten(e)'
  BY <1>1, <1>3, <1>4 DEF ShownAsWritten, HasEdge
<1>6. \A d \in Compactors : comp'[d].old # current'
  BY <1>1, <1>2 DEF Basics, TypeOK
<1>7. QED
  BY <1>5, <1>6 DEF SurvivesIn

(* A mutation that is finished on the registered graph, before the replay  *)
(* drained its map, is shown and will be delivered.                        *)
LEMMA FinishedSurvives ==
    ASSUME Basics, Shape, NEW w \in Writers, NEW e \in Edges, excuse'[e] = {},
           current # NoGraph, InsertStore(w, e) \/ DeleteAddTombstone(w, e)
    PROVE  SurvivesIn(e)'
<1>1. current \in Graphs
  BY ConstantsAssumption DEF Basics, TypeOK, NoGraph, Graphs
<1>2. UNCHANGED <<base, current, comp>>
  BY DEF InsertStore, DeleteAddTombstone, Finished
<1>3. CASE InsertStore(w, e)
  <2>1. handle[w] = current /\ ~Late(current, "ins") /\ e \in truth'
    BY <1>3 DEF InsertStore, Finished, Basics, TypeOK
  <2>2. op[w] = <<"insert", e>> /\ op[w] # Idle /\ op[w][1] = "insert" /\ op[w][2] = e
    BY <1>3 DEF InsertStore, Idle
  <2>3. e \in ins'[current] /\ e \notin dels'[current] /\ UNCHANGED dels
        /\ ins'[current] = ins[current] \cup {e}
    BY <1>1, <1>3, <2>1, <2>2 DEF InsertStore, Shape, DisjointInv, Basics, TypeOK
  <2>4. ShownAsWritten(e)'
    BY <1>2, <2>1, <2>3 DEF ShownAsWritten, HasEdge
  <2>5. ASSUME NEW d \in Compactors, comp'[d].old = current', comp'[d].at \in AtWork
        PROVE  KeptBy(d, e)'
    <3>1. comp[d].old = current /\ comp'[d] = comp[d]
      BY <1>2, <2>5
    <3>2. comp[d].at \in {"drain_dels", "drain_dels_remove", "drain_ins", "drain_ins_remove",
                          "build", "replay_ins"}
      BY <2>1, <2>5, <3>1 DEF Late, Sealing, AtWork, Replaying, Draining
    <3>3. Delivers(d, e)' \/ WillCollide(d, e)'
      <4>1. CASE comp[d].at \in {"drain_dels_remove", "drain_ins"}
        BY <1>2, <2>3, <3>1, <4>1 DEF Delivers, WillCollide, Collided, Merged, Draining
      <4>2. CASE comp[d].at = "drain_ins_remove"
        BY <1>2, <2>3, <3>1, <4>2 DEF Delivers, WillCollide, Collided, MergedHas, Merged, Draining
      <4>3. CASE comp[d].at \in {"drain_dels", "build", "replay_ins"}
        BY <1>2, <2>3, <3>1, <4>3 DEF Delivers, HasEdge
      <4>4. QED
        BY <3>2, <4>1, <4>2, <4>3
    <3>4. QED
      BY <2>1, <3>3 DEF KeptBy
  <2>6. QED
    BY <2>4, <2>5 DEF SurvivesIn
<1>4. CASE DeleteAddTombstone(w, e)
  <2>1. handle[w] = current /\ ~Late(current, "dels") /\ e \notin truth'
    BY <1>4 DEF DeleteAddTombstone, Finished, Basics, TypeOK
  <2>2. op[w] = <<"delete", e>> /\ op[w] # Idle /\ op[w][1] = "delete" /\ op[w][2] = e
    BY <1>4 DEF DeleteAddTombstone, Idle
  <2>3. e \in dels'[current] /\ e \notin ins'[current]
    BY <1>1, <1>4, <2>1, <2>2 DEF DeleteAddTombstone, Shape, DisjointInv, Basics, TypeOK
  <2>4. ShownAsWritten(e)'
    BY <1>2, <2>1, <2>3 DEF ShownAsWritten, HasEdge
  <2>5. ASSUME NEW d \in Compactors, comp'[d].old = current', comp'[d].at \in AtWork
        PROVE  KeptBy(d, e)'
    <3>1. comp[d].old = current /\ comp'[d] = comp[d]
      BY <1>2, <2>5
    <3>2. comp[d].at \notin {"replay_dels_remove", "swap"}
      BY <2>1, <3>1 DEF Late, Sealing
    <3>3. ~Delivers(d, e)'
      <4>1. CASE comp[d].at = "drain_dels_remove"
        BY <1>2, <2>3, <3>1, <4>1 DEF Delivers, Merged
      <4>2. CASE comp[d].at # "drain_dels_remove"
        BY <1>2, <2>3, <3>1, <3>2, <4>2 DEF Delivers, HasEdge
      <4>3. QED
        BY <4>1, <4>2
    <3>4. QED
      BY <2>1, <3>3 DEF KeptBy
  <2>6. QED
    BY <2>4, <2>5 DEF SurvivesIn
<1>5. QED
  BY <1>3, <1>4

(* A writer disturbs no edge but the one it mutates.                       *)
LEMMA WriterSurvives ==
    ASSUME Basics, Shape, SurvivalInv, NEW w \in Writers, WriterStep(w), NEW e \in Edges,
           excuse'[e] = {}, current' # NoGraph, Unwritten(e)'
    PROVE  SurvivesIn(e)'
<1>1. UNCHANGED <<base, current, comp>>
  BY DEF WriterStep, Get, InsertRemoveTombstone, DeleteRemoveInsertion, InsertStore,
         DeleteAddTombstone, Started, Finished, graphVars, ghosts
<1>2. ASSUME Unwritten(e), excuse[e] = {}, e \in truth' <=> e \in truth,
             \A g \in 1..created : Untouched(g, e)
      PROVE  SurvivesIn(e)'
  BY <1>1, <1>2, BystanderSurvives DEF SurvivalInv
<1>3. \A g \in 1..created : g \in Graphs
  <2>1. created \in Nat /\ created <= MaxGraphs
    BY ConstantsAssumption DEF Basics, TypeOK, Graphs
  <2>2. QED
    BY <2>1, ConstantsAssumption DEF Graphs
<1>4. CASE Get(w)
  <2>1. UNCHANGED <<ins, dels, op, truth, excuse>>
    BY <1>4 DEF Get, graphVars, ghosts
  <2>2. QED
    BY <1>1, <1>2, <2>1 DEF Untouched, Unwritten
<1>5. ASSUME NEW f \in Edges, InsertRemoveTombstone(w, f) \/ DeleteRemoveInsertion(w, f)
      PROVE  SurvivesIn(e)'
  <2>1. /\ UNCHANGED <<truth, excuse>> /\ op[w] = Idle
        /\ op'[w] \in {<<"insert", f>>, <<"delete", f>>}
        /\ \A v \in Writers \ {w} : op'[v] = op[v]
    BY <1>5 DEF InsertRemoveTombstone, DeleteRemoveInsertion, Started, ghosts, Basics, TypeOK
  <2>2. f # e
    BY <2>1 DEF Unwritten
  <2>3. Unwritten(e)
    BY <2>1 DEF Unwritten, Idle
  <2>4. \A g \in 1..created : Untouched(g, e)
    <3>1. CASE InsertRemoveTombstone(w, f)
      BY <1>1, <1>3, <2>2, <3>1 DEF InsertRemoveTombstone, Untouched, Basics, TypeOK
    <3>2. CASE DeleteRemoveInsertion(w, f)
      BY <1>1, <1>3, <2>2, <3>2 DEF DeleteRemoveInsertion, Untouched, Basics, TypeOK
    <3>3. QED
      BY <1>5, <3>1, <3>2
  <2>5. QED
    BY <1>2, <2>1, <2>3, <2>4
<1>6. ASSUME NEW f \in Edges, InsertStore(w, f) \/ DeleteAddTombstone(w, f)
      PROVE  SurvivesIn(e)'
  <2>1. CASE f = e
    BY <1>1, <1>6, <2>1, FinishedSurvives
  <2>2. CASE f # e
    <3>1. PICK map : Finished(w, f, map)
      BY <1>6 DEF InsertStore, DeleteAddTombstone
    <3>2. /\ excuse'[e] = excuse[e]
          /\ e \in truth' <=> e \in truth
          /\ \A v \in Writers \ {w} : op'[v] = op[v]
      BY <2>2, <3>1 DEF Finished, Basics, TypeOK
    <3>3. op[w] \in {<<"insert", f>>, <<"delete", f>>}
      BY <1>6 DEF InsertStore, DeleteAddTombstone
    <3>4. Unwritten(e)
      BY <2>2, <3>2, <3>3 DEF Unwritten
    <3>5. \A g \in 1..created : Untouched(g, e)
      <4>1. CASE InsertStore(w, f)
        BY <1>1, <1>3, <2>2, <4>1 DEF InsertStore, Untouched, Basics, TypeOK
      <4>2. CASE DeleteAddTombstone(w, f)
        BY <1>1, <1>3, <2>2, <4>2 DEF DeleteAddTombstone, Untouched, Basics, TypeOK
      <4>3. QED
        BY <1>6, <4>1, <4>2
    <3>6. QED
      BY <1>2, <3>2, <3>4, <3>5
  <2>3. QED
    BY <2>1, <2>2
<1>7. QED
  BY <1>4, <1>5, <1>6 DEF WriterStep

(* A compaction that swaps nothing keeps what held of an edge that has no  *)
(* excuse afterwards.                                                      *)
LEMMA CompactorSurvives ==
    ASSUME Basics, Basics', Shape, SurvivalInv, NEW c \in Compactors, CompactorStep(c),
           NEW e \in Edges, excuse'[e] = {}, current' # NoGraph, Unwritten(e)'
    PROVE  SurvivesIn(e)'
<1>1. UNCHANGED op
  BY DEF CompactorStep, Lookup, CountInsertions, Decide, DrainDeletions, DrainDeletionsRemove,
         DrainInsertions, DrainInsertionsRemove, Build, BuildFails, ReplayInsertions,
         ReplayInsertionsRemove, ReplayDeletions, ReplayDeletionsRemove, Collect, Swap
<1>2. excuse[e] = {} /\ (current # NoGraph => SurvivesIn(e))
  <2>1. excuse[e] \subseteq excuse'[e]
    <3>1. CASE UNCHANGED excuse
      BY <3>1
    <3>2. CASE Build(c) \/ BuildFails(c) \/ Swap(c)
      BY <3>2 DEF Build, BuildFails, Swap
    <3>3. QED
      BY <3>1, <3>2 DEF CompactorStep, Lookup, CountInsertions, Decide, DrainDeletions,
           DrainDeletionsRemove, DrainInsertions, DrainInsertionsRemove, ReplayInsertions,
           ReplayInsertionsRemove, ReplayDeletions, ReplayDeletionsRemove, Collect, ghosts
  <2>2. Unwritten(e)
    BY <1>1 DEF Unwritten
  <2>3. QED
    BY <2>1, <2>2 DEF SurvivalInv
<1>3. CASE Swap(c)
  <2>1. current = comp[c].old
    BY <1>3 DEF Swap
  <2>2. comp[c].old # NoGraph
    BY <1>3, CallGraphs DEF Swap, At, CallInv
  <2>3. QED
    BY <1>2, <1>3, <2>1, <2>2, SwapSurvives
<1>4. CASE ~Swap(c)
  <2>1. current # NoGraph
    <3>1. CASE UNCHANGED current
      BY <3>1
    <3>2. QED
      BY <1>4, <3>1 DEF CompactorStep, Lookup, CountInsertions, Decide, DrainDeletions,
           DrainDeletionsRemove, DrainInsertions, DrainInsertionsRemove, Build, BuildFails,
           ReplayInsertions, ReplayInsertionsRemove, ReplayDeletions, ReplayDeletionsRemove, Collect
  <2>2. QED
    BY <1>2, <1>4, <2>1, DecisionSurvives, CollectSurvives, DrainSurvives, BuildSurvives,
       ReplaySurvives DEF CompactorStep
<1>5. QED
  BY <1>3, <1>4

(* The exact reach of "writers racing a compaction lose no data"           *)
(* (udtf.rs:206), for every number of writers, compactions, edges and      *)
(* graphs: an edge without one of the five excuses is shown as the last    *)
(* finished mutation left it, whenever no compaction is at work.           *)
THEOREM UnexcusedWritesAlwaysSurvive == Spec => []UnexcusedWritesSurvive
<1>1. Init => SurvivalInv
  <2> SUFFICES ASSUME Init, NEW e \in Edges PROVE SurvivesIn(e)
    BY DEF SurvivalInv
  <2>1. ShownAsWritten(e)
    BY ConstantsAssumption DEF Init, ShownAsWritten, HasEdge, Graphs
  <2>2. \A c \in Compactors : comp[c].at \notin AtWork
    BY DEF Init, Off, AtWork, Replaying, Draining
  <2>3. QED
    BY <2>1, <2>2 DEF SurvivesIn
<1>2. Basics /\ Basics' /\ Shape /\ SurvivalInv /\ [Next]_vars => SurvivalInv'
  <2> SUFFICES ASSUME Basics, Basics', Shape, SurvivalInv, [Next]_vars, NEW e \in Edges,
                      excuse'[e] = {}, current' # NoGraph, Unwritten(e)'
               PROVE  SurvivesIn(e)'
    BY DEF SurvivalInv
  <2>1. CASE UNCHANGED vars
    <3>1. UNCHANGED <<base, ins, dels, current, op, comp, truth, excuse>>
      BY <2>1 DEF vars, graphVars, ghosts
    <3>2. \A g \in 1..created : Untouched(g, e)
      BY <3>1 DEF Untouched
    <3>3. SurvivesIn(e)
      BY <3>1 DEF SurvivalInv, Unwritten
    <3>4. QED
      BY <3>1, <3>2, <3>3, BystanderSurvives
  <2>2. CASE Next
    <3>1. ~Deregister
      BY DEF Deregister
    <3>2. QED
      BY <2>2, <3>1, WriterSurvives, CompactorSurvives, RegisterSurvives DEF Next
  <2>3. QED
    BY <2>1, <2>2
<1>3. SurvivalInv => UnexcusedWritesSurvive
  <2> SUFFICES ASSUME SurvivalInv, NEW e \in Edges, Settled(e), excuse[e] = {}
               PROVE  ShownAsWritten(e)
    BY DEF UnexcusedWritesSurvive
  <2>1. SurvivesIn(e)
    BY DEF SurvivalInv, Settled, Unwritten
  <2>2. \A c \in Compactors : ~Holds(c, e)
    BY DEF Settled, Holds, Replaying, Draining
  <2>3. QED
    BY <2>1, <2>2 DEF SurvivesIn
<1>4. QED
  BY <1>1, <1>2, <1>3, BasicsHold, ShapeHolds, PTL DEF Spec
=============================================================================
