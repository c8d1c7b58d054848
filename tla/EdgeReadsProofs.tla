-------------------------- MODULE EdgeReadsProofs ---------------------------
(***************************************************************************)
(* Proofs about DeltaLayer and about EdgeReads, for every number of        *)
(* readers, writers, sweepers, edges and payloads, and for every base      *)
(* layer.                                                                  *)
(***************************************************************************)
EXTENDS EdgeReads, TLAPS

(***************************************************************************)
(* The delta layer by itself.                                              *)
(***************************************************************************)

(* The state predicate that the proofs below carry along: a half-done      *)
(* mutation is one of its writer's edges and, if nobody else mutates that  *)
(* edge, has already taken it out of the opposite map.                     *)
PendingInv ==
    \A w \in Writers : op[w] # Idle =>
        /\ op[w].edge \in Writes[w]
        /\ op[w].kind = "insert" /\ Exclusive(op[w].edge)
              => op[w].edge \notin deletions
        /\ op[w].kind = "delete" /\ Exclusive(op[w].edge)
              => op[w].edge \notin Inserted

(* The fields that a half-done mutation has.                               *)
LEMMA MutationShape ==
    ASSUME NEW m \in Mutation
    PROVE  /\ m.kind \in {"idle", "insert", "delete"}
           /\ m # Idle <=> m.kind # "idle"
           /\ m # Idle => m.edge \in Edges
           /\ m.kind = "insert" => m.data \in Data
BY DEF Mutation, Idle

(* The fields that a drain or a clear has at each of its stages.           *)
LEMMA SweepShape ==
    ASSUME NEW m \in Sweep
    PROVE  /\ m.kind \in {"collect_ins", "remove_ins"} =>
                 /\ m \in [kind : {"collect_ins", "remove_ins"},
                           todo : SUBSET Edges,
                           got : [Edges -> Data \cup {NoData}]]
           /\ m.kind \in {"collect_dels", "remove_dels"} =>
                 /\ m \in [kind : {"collect_dels", "remove_dels"},
                           todo : SUBSET Edges, got : SUBSET Edges]
           /\ m.kind \in {"clear_ins", "clear_dels"} =>
                 /\ m \in [kind : {"clear_ins", "clear_dels"},
                           todo : SUBSET Edges]
BY DEF Sweep, Rest

(* The keys that a drain still has to remove are keys that it collected.   *)
CollectedInv ==
    \A s \in Sweepers : sweep[s].kind = "remove_ins" =>
        \A e \in sweep[s].todo : e \in Edges /\ sweep[s].got[e] \in Data

(* A drain removes only insertions whose data it has copied.               *)
LEMMA RemovesOnlyCollected ==
    ASSUME TypeOK, CollectedInv, [Next]_deltaVars
    PROVE  CollectedInv'
<1>1. CASE sweep' = sweep
  BY <1>1 DEF CollectedInv
<1>2. ASSUME NEW s \in Sweepers, SweeperStep(s) PROVE CollectedInv'
  <2>1. ASSUME NEW new, sweep' = [sweep EXCEPT ![s] = new],
               new.kind = "remove_ins" =>
                  \A e \in new.todo : e \in Edges /\ new.got[e] \in Data
        PROVE  CollectedInv'
    BY <2>1 DEF CollectedInv, TypeOK
  <2>2. ASSUME CollectedInsertions(s) PROVE CollectedInv'
    <3> DEFINE new == [sweep[s] EXCEPT !.kind = "remove_ins",
                         !.todo = {e \in Edges : sweep[s].got[e] # NoData}]
    <3>1. sweep[s] \in [kind : {"collect_ins", "remove_ins"},
                        todo : SUBSET Edges,
                        got : [Edges -> Data \cup {NoData}]]
      BY <2>2, SweepShape DEF TypeOK, CollectedInsertions
    <3>2. \A e \in new.todo : e \in Edges /\ new.got[e] \in Data
      BY <3>1
    <3>3. sweep' = [sweep EXCEPT ![s] = new]
      BY <2>2 DEF CollectedInsertions, TypeOK
    <3>4. QED
      BY <2>1, <3>2, <3>3
  <2>3. ASSUME NEW e \in Edges, RemoveInsertion(s, e) PROVE CollectedInv'
    <3>1. sweep[s] \in [kind : {"collect_ins", "remove_ins"},
                        todo : SUBSET Edges,
                        got : [Edges -> Data \cup {NoData}]]
      BY <2>3, SweepShape DEF TypeOK, RemoveInsertion
    <3>2. QED
      BY <2>3, <3>1 DEF CollectedInv, TypeOK, RemoveInsertion
  <2>4. ASSUME NEW e \in Edges,
               \/ CollectInsertion(s, e)
               \/ CollectDeletion(s, e)
               \/ RemoveDeletion(s, e)
               \/ ClearInsertion(s, e)
               \/ ClearDeletion(s, e)
        PROVE  CollectedInv'
    <3>1. sweep[s] \in Sweep /\ sweep'[s].kind = sweep[s].kind
             /\ sweep[s].kind # "remove_ins"
      BY <2>4, SweepShape
         DEF TypeOK, CollectInsertion, CollectDeletion, RemoveDeletion,
             ClearInsertion, ClearDeletion
    <3>2. \A t \in Sweepers : t # s => sweep'[t] = sweep[t]
      BY <2>4 DEF TypeOK, CollectInsertion, CollectDeletion, RemoveDeletion,
                  ClearInsertion, ClearDeletion
    <3>3. QED
      BY <3>1, <3>2 DEF CollectedInv
  <2>5. ASSUME \/ DrainInsertions(s) \/ DrainDeletions(s) \/ Clear(s)
               \/ CollectedDeletions(s) \/ ClearedInsertions(s)
               \/ FinishSweep(s)
        PROVE  CollectedInv'
    <3>1. sweep'[s].kind # "remove_ins"
      BY <2>5, SweepShape
         DEF TypeOK, DrainInsertions, DrainDeletions, Clear, BeginSweep,
             CollectedDeletions, ClearedInsertions, FinishSweep, Rest
    <3>2. \A t \in Sweepers : t # s => sweep'[t] = sweep[t]
      BY <2>5
         DEF TypeOK, DrainInsertions, DrainDeletions, Clear, BeginSweep,
             CollectedDeletions, ClearedInsertions, FinishSweep
    <3>3. QED
      BY <3>1, <3>2 DEF CollectedInv
  <2>6. QED
    BY <1>2, <2>2, <2>3, <2>4, <2>5 DEF SweeperStep
<1>3. ASSUME NEW w \in Writers, WriterStep(w) PROVE sweep' = sweep
  BY <1>3 DEF WriterStep, InsertRemoveTombstone, InsertStore,
              DeleteRemoveInsertion, DeleteAddTombstone
<1>4. QED
  BY <1>1, <1>2, <1>3 DEF Next, deltaVars

(* Every variable keeps its type, and a drain removes what it collected.   *)
LEMMA TypesAndDrains == Spec => [](TypeOK /\ CollectedInv)
<1> USE ConstantsAssumption
<1>1. Init => TypeOK /\ CollectedInv
  BY DEF Init, TypeOK, CollectedInv, Mutation, Sweep, Rest, Idle
<1>2. TypeOK /\ CollectedInv /\ [Next]_deltaVars => TypeOK'
  <2> SUFFICES ASSUME TypeOK, CollectedInv, [Next]_deltaVars PROVE TypeOK'
    OBVIOUS
  <2>1. ASSUME NEW w \in Writers, WriterStep(w) PROVE TypeOK'
    <3>1. ASSUME NEW e \in Edges, NEW d \in Data, InsertRemoveTombstone(w, e, d)
          PROVE TypeOK'
      BY <3>1 DEF TypeOK, InsertRemoveTombstone, Mutation, history
    <3>2. ASSUME InsertStore(w) PROVE TypeOK'
      <4>1. op[w].edge \in Edges /\ op[w].data \in Data
        BY <3>2, MutationShape DEF TypeOK, InsertStore, Idle
      <4>2. QED
        BY <3>2, <4>1 DEF TypeOK, InsertStore, Mutation
    <3>3. ASSUME NEW e \in Edges, DeleteRemoveInsertion(w, e) PROVE TypeOK'
      BY <3>3 DEF TypeOK, DeleteRemoveInsertion, Mutation, history
    <3>4. ASSUME DeleteAddTombstone(w) PROVE TypeOK'
      <4>1. op[w].edge \in Edges
        BY <3>4, MutationShape DEF TypeOK, DeleteAddTombstone, Idle
      <4>2. QED
        BY <3>4, <4>1 DEF TypeOK, DeleteAddTombstone, Mutation
    <3>5. QED
      BY <2>1, <3>1, <3>2, <3>3, <3>4 DEF WriterStep
  <2>2. ASSUME NEW s \in Sweepers, SweeperStep(s) PROVE TypeOK'
    <3>1. ASSUME NEW call \in Sweep, BeginSweep(s, call) PROVE TypeOK'
      BY <3>1 DEF TypeOK, BeginSweep, history
    <3>2. ASSUME DrainInsertions(s) \/ DrainDeletions(s) \/ Clear(s)
          PROVE TypeOK'
      <4>1. /\ [kind |-> "collect_ins", todo |-> Edges,
                got |-> [e \in Edges |-> NoData]] \in Sweep
            /\ [kind |-> "collect_dels", todo |-> Edges, got |-> {}] \in Sweep
            /\ [kind |-> "clear_ins", todo |-> Edges] \in Sweep
        BY DEF Sweep
      <4>2. QED
        BY <3>1, <3>2, <4>1 DEF DrainInsertions, DrainDeletions, Clear
    <3>3. ASSUME NEW e \in Edges, CollectInsertion(s, e) PROVE TypeOK'
      <4>1. sweep[s] \in [kind : {"collect_ins", "remove_ins"},
                          todo : SUBSET Edges,
                          got : [Edges -> Data \cup {NoData}]]
        BY <3>3, SweepShape DEF TypeOK, CollectInsertion
      <4>2. [sweep[s] EXCEPT !.todo = @ \ {e}, !.got[e] = insertions[e]]
               \in Sweep
        BY <4>1 DEF TypeOK, Sweep
      <4>3. sweep' \in [Sweepers -> Sweep]
        BY <3>3, <4>2 DEF TypeOK, CollectInsertion
      <4>4. QED
        BY <3>3, <4>3 DEF TypeOK, CollectInsertion, history
    <3>4. ASSUME CollectedInsertions(s) PROVE TypeOK'
      <4>1. sweep[s] \in [kind : {"collect_ins", "remove_ins"},
                          todo : SUBSET Edges,
                          got : [Edges -> Data \cup {NoData}]]
        BY <3>4, SweepShape DEF TypeOK, CollectedInsertions
      <4>2. [sweep[s] EXCEPT !.kind = "remove_ins",
                  !.todo = {e \in Edges : sweep[s].got[e] # NoData}] \in Sweep
        BY <4>1 DEF Sweep
      <4>3. sweep' \in [Sweepers -> Sweep]
        BY <3>4, <4>2 DEF TypeOK, CollectedInsertions
      <4>4. QED
        BY <3>4, <4>3 DEF TypeOK, CollectedInsertions, history
    <3>5. ASSUME NEW e \in Edges, RemoveInsertion(s, e) PROVE TypeOK'
      <4>1. sweep[s] \in [kind : {"collect_ins", "remove_ins"},
                          todo : SUBSET Edges,
                          got : [Edges -> Data \cup {NoData}]]
        BY <3>5, SweepShape DEF TypeOK, RemoveInsertion
      <4>2. [sweep[s] EXCEPT !.todo = @ \ {e}] \in Sweep
        BY <4>1 DEF Sweep
      <4>3. sweep' \in [Sweepers -> Sweep]
        BY <3>5, <4>2 DEF TypeOK, RemoveInsertion
      <4>4. outIns' \in [Edges -> SUBSET Data]
        BY <3>5, <4>1 DEF TypeOK, CollectedInv, RemoveInsertion
      <4>5. QED
        BY <3>5, <4>3, <4>4 DEF TypeOK, RemoveInsertion
    <3>6. ASSUME NEW e \in Edges, CollectDeletion(s, e) PROVE TypeOK'
      <4>1. sweep[s] \in [kind : {"collect_dels", "remove_dels"},
                          todo : SUBSET Edges, got : SUBSET Edges]
        BY <3>6, SweepShape DEF TypeOK, CollectDeletion
      <4>2. [sweep[s] EXCEPT !.todo = @ \ {e},
                             !.got = @ \cup ({e} \cap deletions)] \in Sweep
        BY <4>1 DEF TypeOK, Sweep
      <4>3. sweep' \in [Sweepers -> Sweep]
        BY <3>6, <4>2 DEF TypeOK, CollectDeletion
      <4>4. QED
        BY <3>6, <4>3 DEF TypeOK, CollectDeletion, history
    <3>7. ASSUME CollectedDeletions(s) PROVE TypeOK'
      <4>1. sweep[s] \in [kind : {"collect_dels", "remove_dels"},
                          todo : SUBSET Edges, got : SUBSET Edges]
        BY <3>7, SweepShape DEF TypeOK, CollectedDeletions
      <4>2. [sweep[s] EXCEPT !.kind = "remove_dels",
                             !.todo = sweep[s].got] \in Sweep
        BY <4>1 DEF Sweep
      <4>3. sweep' \in [Sweepers -> Sweep]
        BY <3>7, <4>2 DEF TypeOK, CollectedDeletions
      <4>4. QED
        BY <3>7, <4>3 DEF TypeOK, CollectedDeletions, history
    <3>8. ASSUME NEW e \in Edges, RemoveDeletion(s, e) PROVE TypeOK'
      <4>1. sweep[s] \in [kind : {"collect_dels", "remove_dels"},
                          todo : SUBSET Edges, got : SUBSET Edges]
        BY <3>8, SweepShape DEF TypeOK, RemoveDeletion
      <4>2. [sweep[s] EXCEPT !.todo = @ \ {e}] \in Sweep
        BY <4>1 DEF Sweep
      <4>3. sweep' \in [Sweepers -> Sweep]
        BY <3>8, <4>2 DEF TypeOK, RemoveDeletion
      <4>4. QED
        BY <3>8, <4>3 DEF TypeOK, RemoveDeletion
    <3>9. ASSUME NEW e \in Edges, ClearInsertion(s, e) \/ ClearDeletion(s, e)
          PROVE TypeOK'
      <4>1. sweep[s] \in [kind : {"clear_ins", "clear_dels"},
                          todo : SUBSET Edges]
        BY <3>9, SweepShape DEF TypeOK, ClearInsertion, ClearDeletion
      <4>2. [sweep[s] EXCEPT !.todo = @ \ {e}] \in Sweep
        BY <4>1 DEF Sweep
      <4>3. sweep' \in [Sweepers -> Sweep]
        BY <3>9, <4>2 DEF TypeOK, ClearInsertion, ClearDeletion
      <4>4. QED
        BY <3>9, <4>3 DEF TypeOK, ClearInsertion, ClearDeletion
    <3>10. ASSUME ClearedInsertions(s) PROVE TypeOK'
      <4>1. [kind |-> "clear_dels", todo |-> Edges] \in Sweep
        BY DEF Sweep
      <4>2. QED
        BY <3>10, <4>1 DEF TypeOK, ClearedInsertions, history
    <3>11. ASSUME FinishSweep(s) PROVE TypeOK'
      <4>1. Rest \in Sweep
        BY DEF Sweep
      <4>2. QED
        BY <3>11, <4>1 DEF TypeOK, FinishSweep, history
    <3>12. QED
      BY <2>2, <3>2, <3>3, <3>4, <3>5, <3>6, <3>7, <3>8, <3>9, <3>10, <3>11
         DEF SweeperStep
  <2>3. CASE UNCHANGED deltaVars
    BY <2>3 DEF TypeOK, deltaVars
  <2>4. QED
    BY <2>1, <2>2, <2>3 DEF Next
<1>3. TypeOK /\ CollectedInv /\ [Next]_deltaVars => CollectedInv'
  BY RemovesOnlyCollected
<1>4. QED
  BY <1>1, <1>2, <1>3, PTL DEF Spec

(* Every variable keeps its type: the two maps hold edges and payloads, a  *)
(* writer or sweeper is always in one of the phases of its calls, and what *)
(* a drain returns has a payload, because it removes collected keys only.  *)
THEOREM TypeCorrect == Spec => []TypeOK
BY TypesAndDrains, PTL

-----------------------------------------------------------------------------
(* What each step may do to the two maps.                                  *)
LEMMA SweepOnlyRemoves ==
    ASSUME TypeOK, NEW s \in Sweepers, SweeperStep(s)
    PROVE  /\ deletions' \subseteq deletions
           /\ Inserted' \subseteq Inserted
           /\ op' = op
<1>1. insertions' = insertions \/ \E e \in Edges :
          insertions' = [insertions EXCEPT ![e] = NoData]
  BY DEF SweeperStep, DrainInsertions, DrainDeletions, Clear, BeginSweep,
         CollectedInsertions, CollectedDeletions, ClearedInsertions,
         FinishSweep, CollectInsertion, RemoveInsertion, CollectDeletion,
         RemoveDeletion, ClearInsertion, ClearDeletion
<1>2. deletions' \subseteq deletions /\ op' = op
  BY DEF SweeperStep, DrainInsertions, DrainDeletions, Clear, BeginSweep,
         CollectedInsertions, CollectedDeletions, ClearedInsertions,
         FinishSweep, CollectInsertion, RemoveInsertion, CollectDeletion,
         RemoveDeletion, ClearInsertion, ClearDeletion
<1>3. QED
  BY <1>1, <1>2 DEF Inserted, TypeOK

(* An edge with one writer is never inserted and tombstoned at once,       *)
(* whatever other writers, drains and clears do meanwhile: the             *)
(* disjointness that compaction takes for granted (csr.rs:307).            *)
THEOREM DisjointMaps == Spec => []Disjoint
<1>1. Init => PendingInv /\ Disjoint
  BY DEF Init, PendingInv, Disjoint, Inserted, Idle
<1>2. TypeOK /\ PendingInv /\ Disjoint /\ [Next]_deltaVars
         => PendingInv' /\ Disjoint'
  <2> SUFFICES ASSUME TypeOK, PendingInv, Disjoint, [Next]_deltaVars
               PROVE  PendingInv' /\ Disjoint'
    OBVIOUS
  <2>1. ASSUME NEW w \in Writers, NEW e \in Edges, NEW d \in Data,
               InsertRemoveTombstone(w, e, d)
        PROVE  PendingInv' /\ Disjoint'
    <3>1. /\ op' = [op EXCEPT ![w] = [kind |-> "insert", edge |-> e,
                                       data |-> d]]
          /\ deletions' = deletions \ {e}
          /\ Inserted' = Inserted
          /\ e \in Writes[w]
      BY <2>1 DEF InsertRemoveTombstone, Inserted
    <3>2. PendingInv'
      BY <3>1 DEF PendingInv, TypeOK, Idle
    <3>3. QED
      BY <3>1, <3>2 DEF Disjoint
  <2>2. ASSUME NEW w \in Writers, NEW e \in Edges, DeleteRemoveInsertion(w, e)
        PROVE  PendingInv' /\ Disjoint'
    <3>1. /\ op' = [op EXCEPT ![w] = [kind |-> "delete", edge |-> e]]
          /\ deletions' = deletions
          /\ Inserted' = Inserted \ {e}
          /\ e \in Writes[w]
      BY <2>2 DEF DeleteRemoveInsertion, Inserted, TypeOK
    <3>2. PendingInv'
      BY <3>1 DEF PendingInv, TypeOK, Idle
    <3>3. QED
      BY <3>1, <3>2 DEF Disjoint
  <2>3. ASSUME NEW w \in Writers, InsertStore(w)
        PROVE  PendingInv' /\ Disjoint'
    <3>1. /\ op[w].kind = "insert" /\ op[w] # Idle
          /\ op[w].edge \in Edges /\ op[w].data \in Data
      BY <2>3, MutationShape DEF InsertStore, TypeOK, Idle
    <3>2. /\ op' = [op EXCEPT ![w] = Idle]
          /\ deletions' = deletions
          /\ Inserted' = Inserted \cup {op[w].edge}
      BY <2>3, <3>1, ConstantsAssumption DEF InsertStore, Inserted, TypeOK
    <3>3. /\ op[w].edge \in Writes[w]
          /\ Exclusive(op[w].edge) => op[w].edge \notin deletions
      BY <3>1 DEF PendingInv
    <3>4. ASSUME NEW v \in Writers, v # w, op[v] # Idle, Exclusive(op[w].edge)
          PROVE  op[v].edge # op[w].edge
      BY <3>3, <3>4 DEF PendingInv, Exclusive
    <3>5. PendingInv'
      BY <3>2, <3>4, MutationShape DEF PendingInv, TypeOK, Idle
    <3>6. QED
      BY <3>2, <3>3, <3>5 DEF Disjoint
  <2>4. ASSUME NEW w \in Writers, DeleteAddTombstone(w)
        PROVE  PendingInv' /\ Disjoint'
    <3>1. /\ op[w].kind = "delete" /\ op[w] # Idle
          /\ op[w].edge \in Edges
      BY <2>4, MutationShape DEF DeleteAddTombstone, TypeOK, Idle
    <3>2. /\ op' = [op EXCEPT ![w] = Idle]
          /\ deletions' = deletions \cup {op[w].edge}
          /\ Inserted' = Inserted
      BY <2>4 DEF DeleteAddTombstone, Inserted
    <3>3. /\ op[w].edge \in Writes[w]
          /\ Exclusive(op[w].edge) => op[w].edge \notin Inserted
      BY <3>1 DEF PendingInv
    <3>4. ASSUME NEW v \in Writers, v # w, op[v] # Idle, Exclusive(op[w].edge)
          PROVE  op[v].edge # op[w].edge
      BY <3>3, <3>4 DEF PendingInv, Exclusive
    <3>5. PendingInv'
      BY <3>2, <3>4, MutationShape DEF PendingInv, TypeOK, Idle
    <3>6. QED
      BY <3>2, <3>3, <3>5 DEF Disjoint
  <2>5. ASSUME NEW s \in Sweepers, SweeperStep(s)
        PROVE  PendingInv' /\ Disjoint'
    BY <2>5, SweepOnlyRemoves DEF PendingInv, Disjoint
  <2>6. CASE UNCHANGED deltaVars
    BY <2>6 DEF PendingInv, Disjoint, Inserted, deltaVars
  <2>7. QED
    BY <2>1, <2>2, <2>3, <2>4, <2>5, <2>6 DEF Next, WriterStep
<1>3. QED
  BY <1>1, <1>2, TypeCorrect, PTL DEF Spec

-----------------------------------------------------------------------------
(* A finished mutation never vanishes while writers and drains interleave, *)
(* with any number of writers per edge: it is still recorded, or a drain   *)
(* gave it to its caller.                                                  *)
THEOREM MutationsSurvive == Spec => []NoMutationVanishes
<1>1. Init => NoMutationVanishes
  BY DEF Init, NoMutationVanishes
<1>2. TypeOK /\ CollectedInv /\ NoMutationVanishes /\ [Next]_deltaVars
         => NoMutationVanishes'
  <2> SUFFICES ASSUME TypeOK, CollectedInv, NoMutationVanishes, [Next]_deltaVars,
                      NEW e \in Edges,
                      latest'[e] # NoData,
                      \A w \in Writers : ~Pending(w, e)'
               PROVE  (\/ e \in Inserted \cup deletions
                       \/ outIns[e] \cap Data # {}
                       \/ e \in outDels)'
    BY DEF NoMutationVanishes
  <2>1. ASSUME NEW w \in Writers, NEW f \in Edges, NEW d \in Data,
               InsertRemoveTombstone(w, f, d)
        PROVE  (\/ e \in Inserted \cup deletions
                \/ outIns[e] \cap Data # {}
                \/ e \in outDels)'
    <3>1. e # f
      BY <2>1 DEF InsertRemoveTombstone, Pending, TypeOK, Idle
    <3>2. \A v \in Writers : ~Pending(v, e)
      BY <2>1 DEF InsertRemoveTombstone, Pending, TypeOK
    <3>3. QED
      BY <2>1, <3>1, <3>2
         DEF InsertRemoveTombstone, NoMutationVanishes, Inserted, history
  <2>2. ASSUME NEW w \in Writers, NEW f \in Edges, DeleteRemoveInsertion(w, f)
        PROVE  (\/ e \in Inserted \cup deletions
                \/ outIns[e] \cap Data # {}
                \/ e \in outDels)'
    <3>1. e # f
      BY <2>2 DEF DeleteRemoveInsertion, Pending, TypeOK, Idle
    <3>2. \A v \in Writers : ~Pending(v, e)
      BY <2>2 DEF DeleteRemoveInsertion, Pending, TypeOK
    <3>3. QED
      BY <2>2, <3>1, <3>2
         DEF DeleteRemoveInsertion, NoMutationVanishes, Inserted, history,
             TypeOK
  <2>3. ASSUME NEW w \in Writers, InsertStore(w)
        PROVE  (\/ e \in Inserted \cup deletions
                \/ outIns[e] \cap Data # {}
                \/ e \in outDels)'
    <3>1. /\ op[w].edge \in Edges /\ op[w].data \in Data
          /\ op[w].data # NoData
      BY <2>3, MutationShape, ConstantsAssumption DEF InsertStore, TypeOK, Idle
    <3>2. CASE e = op[w].edge
      BY <2>3, <3>1, <3>2 DEF InsertStore, Inserted, TypeOK
    <3>3. CASE e # op[w].edge
      <4>1. \A v \in Writers : ~Pending(v, e)
        BY <2>3, <3>3 DEF InsertStore, Pending, TypeOK
      <4>2. QED
        BY <2>3, <3>1, <3>3, <4>1
           DEF InsertStore, NoMutationVanishes, Inserted, TypeOK
    <3>4. QED
      BY <3>2, <3>3
  <2>4. ASSUME NEW w \in Writers, DeleteAddTombstone(w)
        PROVE  (\/ e \in Inserted \cup deletions
                \/ outIns[e] \cap Data # {}
                \/ e \in outDels)'
    <3>1. op[w].edge \in Edges
      BY <2>4, MutationShape DEF DeleteAddTombstone, TypeOK, Idle
    <3>2. CASE e = op[w].edge
      BY <2>4, <3>2 DEF DeleteAddTombstone
    <3>3. CASE e # op[w].edge
      <4>1. \A v \in Writers : ~Pending(v, e)
        BY <2>4, <3>3 DEF DeleteAddTombstone, Pending, TypeOK
      <4>2. QED
        BY <2>4, <3>1, <3>3, <4>1
           DEF DeleteAddTombstone, NoMutationVanishes, Inserted, TypeOK
    <3>4. QED
      BY <3>2, <3>3
  <2>5. ASSUME NEW s \in Sweepers, SweeperStep(s)
        PROVE  (\/ e \in Inserted \cup deletions
                \/ outIns[e] \cap Data # {}
                \/ e \in outDels)'
    <3>1. op' = op
      BY <2>5, SweepOnlyRemoves
    <3>2. \A v \in Writers : ~Pending(v, e)
      BY <3>1 DEF Pending
    <3>3. CASE UNCHANGED <<insertions, deletions, op, history>>
      BY <3>2, <3>3 DEF NoMutationVanishes, Inserted, history
    <3>4. ASSUME NEW f \in Edges, RemoveInsertion(s, f)
          PROVE  (\/ e \in Inserted \cup deletions
                  \/ outIns[e] \cap Data # {}
                  \/ e \in outDels)'
      <4>1. sweep[s].got[f] \in Data
        BY <3>4 DEF RemoveInsertion, CollectedInv
      <4>2. QED
        BY <3>2, <3>4, <4>1
           DEF RemoveInsertion, NoMutationVanishes, Inserted, TypeOK
    <3>5. ASSUME NEW f \in Edges, RemoveDeletion(s, f)
          PROVE  (\/ e \in Inserted \cup deletions
                  \/ outIns[e] \cap Data # {}
                  \/ e \in outDels)'
      BY <3>2, <3>5 DEF RemoveDeletion, NoMutationVanishes, Inserted
    <3>6. ASSUME NEW f \in Edges, ClearInsertion(s, f)
          PROVE  (\/ e \in Inserted \cup deletions
                  \/ outIns[e] \cap Data # {}
                  \/ e \in outDels)'
      BY <3>2, <3>6 DEF ClearInsertion, NoMutationVanishes, Inserted, TypeOK
    <3>7. ASSUME NEW f \in Edges, ClearDeletion(s, f)
          PROVE  (\/ e \in Inserted \cup deletions
                  \/ outIns[e] \cap Data # {}
                  \/ e \in outDels)'
      BY <3>2, <3>7 DEF ClearDeletion, NoMutationVanishes, Inserted, TypeOK
    <3>8. QED
      BY <2>5, <3>3, <3>4, <3>5, <3>6, <3>7
         DEF SweeperStep, DrainInsertions, DrainDeletions, Clear, BeginSweep,
             CollectedInsertions, CollectedDeletions, ClearedInsertions,
             FinishSweep, CollectInsertion, CollectDeletion
  <2>6. CASE UNCHANGED deltaVars
    BY <2>6 DEF deltaVars, NoMutationVanishes, Pending, Inserted
  <2>7. QED
    BY <2>1, <2>2, <2>3, <2>4, <2>5, <2>6 DEF Next, WriterStep
<1>3. QED
  BY <1>1, <1>2, TypesAndDrains, PTL DEF Spec

(***************************************************************************)
(* The reads.                                                              *)
(***************************************************************************)
Queries ==
    [at : {"waiting"}]
    \cup [at : {"is_deleted", "has_insertion", "delta_neighbors", "ins_empty", "dels_empty"},
          edge : Edges]
    \cup [at : {"base_neighbors"}, edge : Edges, inDelta : BOOLEAN]
    \cup [at : {"done"}, edge : Edges, result : BOOLEAN]

ReadTypeOK ==
    /\ query \in [Readers -> Queries]
    /\ answers \in [Readers -> SUBSET BOOLEAN]

(* What a query in progress knows: the present look of its edge is among   *)
(* the answers, and so is what the reads before have found out.            *)
Knows(r) ==
    LET e == query[r].edge
    IN  /\ query[r].at \notin {"waiting", "done"} => Visible(e) \in answers[r]
        /\ query[r].at = "dels_empty" /\ e \notin Base => FALSE \in answers[r]
        /\ query[r].at = "base_neighbors" =>
              /\ query[r].inDelta /\ Exclusive(e) => TRUE \in answers[r]
              /\ ~query[r].inDelta /\ e \notin Base => FALSE \in answers[r]
        /\ query[r].at = "done" /\ Exclusive(e) => query[r].result \in answers[r]

KnowledgeInv == \A r \in Readers : Knows(r)

(* The fields that a query has at each of its reads.                       *)
LEMMA QueryShape ==
    ASSUME NEW q \in Queries
    PROVE  /\ q.at \in {"waiting", "is_deleted", "has_insertion", "delta_neighbors",
                        "ins_empty", "dels_empty", "base_neighbors", "done"}
           /\ q.at # "waiting" => q.edge \in Edges
           /\ q.at = "base_neighbors" => q.inDelta \in BOOLEAN
           /\ q.at = "done" => q.result \in BOOLEAN
BY DEF Queries

(* Readers change nothing: the delta layer of a graph that is read behaves *)
(* like a delta layer, so its theorems are true here.                      *)
LEMMA ReadersOnlyRead == ReadSpec => Spec
<1>1. ReadInit => Init
  BY DEF ReadInit
<1>2. [ReadNext]_vars => [Next]_deltaVars
  BY DEF ReadNext, vars, DeltaStep, ReaderStep, Begin, Goto, Return, IsDeleted, HasInsertion,
         DeltaNeighbors, BaseNeighbors, InsertionsEmpty, DeletionsEmpty, Finish
<1>3. QED
  BY <1>1, <1>2, PTL DEF ReadSpec, Spec

(* An edge is visible or it is not.                                        *)
LEMMA VisibleIsBoolean == \A e : Visible(e) \in BOOLEAN
BY DEF Visible

(* The delta layer moves on while a query waits for its next read.         *)
LEMMA DeltaStepKeepsKnowledge ==
    ASSUME ReadTypeOK, KnowledgeInv, DeltaStep
    PROVE  ReadTypeOK' /\ KnowledgeInv'
<1>1. query' = query
  BY DEF DeltaStep
<1>2. ASSUME NEW r \in Readers
      PROVE  /\ query[r].at \in {"waiting", "done"} => answers'[r] = answers[r]
             /\ query[r].at \notin {"waiting", "done"} =>
                   answers'[r] = answers[r] \cup {Visible(query[r].edge)'}
  BY <1>2, <1>1 DEF DeltaStep
<1>3. ReadTypeOK'
  <2>1. \A r \in Readers : Visible(query[r].edge)' \in BOOLEAN
    BY <1>1 DEF Visible
  <2>2. answers' \in [Readers -> SUBSET BOOLEAN]
    BY <2>1 DEF DeltaStep, ReadTypeOK
  <2>3. QED
    BY <1>1, <2>2 DEF ReadTypeOK
<1>4. KnowledgeInv'
  <2> SUFFICES ASSUME NEW r \in Readers PROVE Knows(r)'
    BY DEF KnowledgeInv
  <2>1. Knows(r)
    BY DEF KnowledgeInv
  <2>2. answers[r] \subseteq answers'[r]
    BY <1>2
  <2>3. Exclusive(query[r].edge)' = Exclusive(query[r].edge)
    BY <1>1 DEF Exclusive
  <2>4. query[r].at \notin {"waiting", "done"} => Visible(query[r].edge)' \in answers'[r]
    BY <1>2
  <2>5. QED
    BY <1>1, <2>1, <2>2, <2>3, <2>4 DEF Knows
<1>5. QED
  BY <1>3, <1>4

(* A read of the query's edge.  Only the reader that makes it changes.     *)
LEMMA ReaderStepKeepsKnowledge ==
    ASSUME ReadTypeOK, KnowledgeInv, TypeOK, Disjoint,
           NEW r \in Readers, ReaderStep(r)
    PROVE  ReadTypeOK' /\ KnowledgeInv'
<1> DEFINE e == query[r].edge
<1>0. /\ query[r] \in Queries
      /\ answers[r] \in SUBSET BOOLEAN
      /\ Knows(r)
  BY DEF ReadTypeOK, KnowledgeInv
<1>1. /\ UNCHANGED deltaVars
      /\ query' = [query EXCEPT ![r] = query'[r]]
      /\ answers' = [answers EXCEPT ![r] = answers'[r]]
  BY DEF ReaderStep, Begin, Goto, Return, IsDeleted, HasInsertion, DeltaNeighbors,
         BaseNeighbors, InsertionsEmpty, DeletionsEmpty, Finish, ReadTypeOK
<1>2. \A f : Visible(f)' = Visible(f)
  BY <1>1 DEF Visible, deltaVars, Inserted
<1> DEFINE Kept == /\ query'[r] \in Queries
                   /\ answers'[r] \in SUBSET BOOLEAN
                   /\ Knows(r)'
<1>3. ASSUME NEW f \in Edges, Begin(r, f) PROVE Kept
  <2>1. /\ query'[r].at \in {"is_deleted", "delta_neighbors", "ins_empty"}
        /\ query'[r].edge = f
        /\ query'[r] \in Queries
        /\ answers'[r] = {Visible(f)}
    BY <1>3 DEF Begin, ReadTypeOK, Queries
  <2>2. QED
    BY <2>1, <1>2, VisibleIsBoolean DEF Knows
<1>4. ASSUME IsDeleted(r) PROVE Kept
  <2>1. answers' = answers /\ e \in Edges /\ Visible(e) \in answers[r]
    BY <1>4, <1>0, QueryShape DEF IsDeleted, Goto, Return, Knows
  <2>2. CASE e \in deletions
    <3>1. query'[r] = [at |-> "done", edge |-> e, result |-> FALSE]
      BY <1>4, <2>2 DEF IsDeleted, Goto, Return, ReadTypeOK
    <3>2. FALSE \in answers[r]
      BY <2>1, <2>2 DEF Visible
    <3>3. /\ query'[r].at = "done" /\ query'[r].result = FALSE
          /\ query'[r] \in Queries
      BY <3>1, <2>1 DEF Queries
    <3>4. QED
      BY <3>2, <3>3, <2>1, <1>0 DEF Knows
  <2>3. CASE e \notin deletions
    <3>1. query'[r] = [at |-> "has_insertion", edge |-> e]
      BY <1>4, <2>3 DEF IsDeleted, Goto, Return, ReadTypeOK
    <3>2. QED
      BY <3>1, <2>1, <1>0, <1>2 DEF Knows, Queries
  <2>4. QED
    BY <2>2, <2>3
<1>5. ASSUME HasInsertion(r) PROVE Kept
  <2>1. answers' = answers /\ e \in Edges /\ Visible(e) \in answers[r]
    BY <1>5, <1>0, QueryShape DEF HasInsertion, Goto, Return, Knows
  <2>2. CASE e \in Inserted
    <3>1. query'[r] = [at |-> "done", edge |-> e, result |-> TRUE]
      BY <1>5, <2>2 DEF HasInsertion, Goto, Return, ReadTypeOK
    <3>2. Exclusive(e) => TRUE \in answers[r]
      BY <2>1, <2>2 DEF Visible, Disjoint
    <3>3. Exclusive(query[r].edge)' = Exclusive(e)
      BY <3>1 DEF Exclusive
    <3>4. /\ query'[r].at = "done" /\ query'[r].result = TRUE
          /\ query'[r] \in Queries
      BY <3>1, <2>1 DEF Queries
    <3>5. QED
      BY <3>2, <3>3, <3>4, <2>1, <1>0 DEF Knows
  <2>3. CASE e \notin Inserted
    <3>1. query'[r] = [at |-> "delta_neighbors", edge |-> e]
      BY <1>5, <2>3 DEF HasInsertion, Goto, Return, ReadTypeOK
    <3>2. QED
      BY <3>1, <2>1, <1>0, <1>2 DEF Knows, Queries
  <2>4. QED
    BY <2>2, <2>3
<1>6. ASSUME DeltaNeighbors(r) PROVE Kept
  <2>1. answers' = answers /\ e \in Edges /\ Visible(e) \in answers[r]
    BY <1>6, <1>0, QueryShape DEF DeltaNeighbors, Goto, Knows
  <2>2. query'[r] = [at |-> "base_neighbors", edge |-> e, inDelta |-> e \in Inserted]
    BY <1>6 DEF DeltaNeighbors, Goto, ReadTypeOK
  <2>3. Exclusive(query[r].edge)' = Exclusive(e)
    BY <2>2 DEF Exclusive
  <2>4. e \in Inserted /\ Exclusive(e) => TRUE \in answers[r]
    BY <2>1 DEF Visible, Disjoint
  <2>5. e \notin Inserted /\ e \notin Base => FALSE \in answers[r]
    BY <2>1 DEF Visible
  <2>6. /\ query'[r].at = "base_neighbors" /\ query'[r].edge = e
        /\ query'[r].inDelta = (e \in Inserted)
        /\ query'[r] \in Queries
    BY <2>1, <2>2 DEF Queries
  <2>7. QED
    BY <2>1, <2>3, <2>4, <2>5, <2>6, <1>0, <1>2 DEF Knows
<1>7. ASSUME BaseNeighbors(r) PROVE Kept
  <2> DEFINE found == e \in Base \ deletions \/ query[r].inDelta
  <2>1. /\ answers' = answers /\ e \in Edges /\ Visible(e) \in answers[r]
        /\ query[r].inDelta \in BOOLEAN
        /\ query[r].at = "base_neighbors"
    BY <1>7, <1>0, QueryShape DEF BaseNeighbors, Goto, Return, Knows
  <2>2. query'[r] = [at |-> "done", edge |-> e, result |-> found]
    BY <1>7 DEF BaseNeighbors, Goto, Return, ReadTypeOK
  <2>3. Exclusive(query[r].edge)' = Exclusive(e)
    BY <2>2 DEF Exclusive
  <2>4. Exclusive(e) => found \in answers[r]
    <3>1. CASE e \in Base \ deletions
      BY <3>1, <2>1 DEF Visible
    <3>2. CASE e \notin Base \ deletions /\ query[r].inDelta
      BY <3>2, <2>1, <1>0 DEF Knows
    <3>3. CASE e \in deletions /\ ~query[r].inDelta
      BY <3>3, <2>1 DEF Visible
    <3>4. CASE e \notin Base /\ ~query[r].inDelta
      BY <3>4, <2>1, <1>0 DEF Knows
    <3>5. QED
      BY <3>1, <3>2, <3>3, <3>4, <2>1
  <2>5. query'[r] \in Queries
    BY <2>1, <2>2 DEF Queries
  <2>6. QED
    BY <2>1, <2>2, <2>3, <2>4, <2>5, <1>0 DEF Knows
<1>8. ASSUME InsertionsEmpty(r) PROVE Kept
  <2>1. answers' = answers /\ e \in Edges /\ Visible(e) \in answers[r]
    BY <1>8, <1>0, QueryShape DEF InsertionsEmpty, Goto, Knows
  <2>2. CASE Inserted = {}
    <3>1. query'[r] = [at |-> "dels_empty", edge |-> e]
      BY <1>8, <2>2 DEF InsertionsEmpty, Goto, ReadTypeOK
    <3>2. e \notin Base => FALSE \in answers[r]
      BY <2>1, <2>2 DEF Visible
    <3>3. /\ query'[r].at = "dels_empty" /\ query'[r].edge = e
          /\ query'[r] \in Queries
      BY <3>1, <2>1 DEF Queries
    <3>4. QED
      BY <3>2, <3>3, <2>1, <1>0, <1>2 DEF Knows
  <2>3. CASE Inserted # {}
    <3>1. query'[r] = [at |-> "delta_neighbors", edge |-> e]
      BY <1>8, <2>3 DEF InsertionsEmpty, Goto, ReadTypeOK
    <3>2. QED
      BY <3>1, <2>1, <1>0, <1>2 DEF Knows, Queries
  <2>4. QED
    BY <2>2, <2>3
<1>9. ASSUME DeletionsEmpty(r) PROVE Kept
  <2>1. /\ answers' = answers /\ e \in Edges /\ Visible(e) \in answers[r]
        /\ query[r].at = "dels_empty"
    BY <1>9, <1>0, QueryShape DEF DeletionsEmpty, Goto, Return, Knows
  <2>2. CASE deletions = {}
    <3>1. query'[r] = [at |-> "done", edge |-> e, result |-> e \in Base]
      BY <1>9, <2>2 DEF DeletionsEmpty, Goto, Return, ReadTypeOK
    <3>2. (e \in Base) \in answers[r]
      <4>1. CASE e \in Base
        BY <4>1, <2>1, <2>2 DEF Visible
      <4>2. CASE e \notin Base
        <5>1. FALSE \in answers[r]
          BY <4>2, <2>1, <1>0 DEF Knows
        <5>2. (e \in Base) = FALSE
          BY <4>2
        <5>3. QED
          BY <5>1, <5>2
      <4>3. QED
        BY <4>1, <4>2
    <3>3. query'[r] \in Queries
      BY <3>1, <2>1 DEF Queries
    <3>4. QED
      BY <3>1, <3>2, <3>3, <2>1, <1>0 DEF Knows
  <2>3. CASE deletions # {}
    <3>1. query'[r] = [at |-> "delta_neighbors", edge |-> e]
      BY <1>9, <2>3 DEF DeletionsEmpty, Goto, Return, ReadTypeOK
    <3>2. QED
      BY <3>1, <2>1, <1>0, <1>2 DEF Knows, Queries
  <2>4. QED
    BY <2>2, <2>3
<1>10. ASSUME Finish(r) PROVE Kept
  <2>1. query'[r] = Waiting /\ answers'[r] = {}
    BY <1>10 DEF Finish, ReadTypeOK
  <2>2. QED
    BY <2>1 DEF Knows, Queries, Waiting
<1> HIDE DEF Kept
<1>11. Kept
  BY <1>3, <1>4, <1>5, <1>6, <1>7, <1>8, <1>9, <1>10 DEF ReaderStep
<1>12. ReadTypeOK'
  BY <1>1, <1>11 DEF ReadTypeOK, Kept
<1>13. ASSUME NEW s \in Readers, s # r PROVE Knows(s)'
  <2>1. query'[s] = query[s] /\ answers'[s] = answers[s]
    BY <1>1, <1>13 DEF ReadTypeOK
  <2>2. Knows(s)
    BY <1>13 DEF KnowledgeInv
  <2>3. Exclusive(query[s].edge)' = Exclusive(query[s].edge)
    BY <2>1 DEF Exclusive
  <2>4. QED
    BY <2>1, <2>2, <2>3, <1>2 DEF Knows
<1>14. QED
  BY <1>11, <1>12, <1>13 DEF KnowledgeInv, Kept

(* has_edge, neighbors and the fast path of a traversal answer what was    *)
(* true at some moment of the query, with any number of readers, writers,  *)
(* drains and clears and whatever the base layer holds.                    *)
THEOREM AnswersJustified == ReadSpec => []AnswersAreJustified
<1>1. ReadInit => ReadTypeOK /\ KnowledgeInv
  BY DEF ReadInit, ReadTypeOK, KnowledgeInv, Knows, Waiting, Queries
<1>2. /\ ReadTypeOK /\ KnowledgeInv /\ TypeOK /\ Disjoint
      /\ [ReadNext]_vars
      => (ReadTypeOK /\ KnowledgeInv)'
  <2> SUFFICES ASSUME ReadTypeOK, KnowledgeInv, TypeOK, Disjoint, [ReadNext]_vars
               PROVE  ReadTypeOK' /\ KnowledgeInv'
    OBVIOUS
  <2>1. CASE UNCHANGED vars
    BY <2>1 DEF vars, deltaVars, ReadTypeOK, KnowledgeInv, Knows, Visible, Inserted, Exclusive
  <2>2. QED
    BY <2>1, DeltaStepKeepsKnowledge, ReaderStepKeepsKnowledge DEF ReadNext
<1>3. ReadTypeOK /\ KnowledgeInv => AnswersAreJustified
  BY DEF KnowledgeInv, Knows, AnswersAreJustified
<1>4. ReadSpec => []TypeOK /\ []Disjoint
  BY ReadersOnlyRead, TypeCorrect, DisjointMaps, PTL
<1>5. QED
  BY <1>1, <1>2, <1>3, <1>4, PTL DEF ReadSpec
=============================================================================
