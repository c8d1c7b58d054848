------------------------------ MODULE EdgeReads ------------------------------
(***************************************************************************)
(* Queries of a live graph (csr.rs, bfs.rs) against its delta layer while  *)
(* writers and drains run.  A query of one edge is two to four separate    *)
(* map operations over an immutable base layer; nothing locks the delta    *)
(* for the duration of the query.                                          *)
(***************************************************************************)
EXTENDS DeltaLayer

CONSTANTS
    Readers,    \* threads that query the graph
    Base        \* the edges of the immutable base layer

ASSUME BaseAssumption == Base \subseteq Edges

VARIABLES
    query,      \* query[r]: where reader r is, and what it has seen so far
    answers     \* answers[r]: what the edge looked like during the query

vars == <<deltaVars, query, answers>>

\* The topology that the base and the two delta maps stand for.
Visible(e) == /\ e \notin deletions
              /\ e \in Inserted \cup Base

Waiting == [at |-> "waiting"]

\* A query of edge e starts at the first read of its function: has_edge asks
\* for a tombstone, neighbors builds the delta iterator, and a traversal asks
\* whether the delta is empty.
Begin(r, e) ==
    /\ query[r] = Waiting
    /\ \E first \in {"is_deleted", "delta_neighbors", "ins_empty"} :
          query' = [query EXCEPT ![r] = [at |-> first, edge |-> e]]
    /\ answers' = [answers EXCEPT ![r] = {Visible(e)}]
    /\ UNCHANGED deltaVars

Goto(r, next) ==
    /\ query' = [query EXCEPT ![r] = next]
    /\ UNCHANGED <<deltaVars, answers>>

Return(r, value) ==
    Goto(r, [at |-> "done", edge |-> query[r].edge, result |-> value])

\* has_edge: a tombstone answers no.
IsDeleted(r) ==
    LET e == query[r].edge IN
    /\ query[r].at = "is_deleted"
    /\ \/ e \in deletions /\ Return(r, FALSE)
       \/ e \notin deletions /\ Goto(r, [at |-> "has_insertion", edge |-> e])

\* has_edge: an insertion answers yes, otherwise the neighbors are searched.
HasInsertion(r) ==
    LET e == query[r].edge IN
    /\ query[r].at = "has_insertion"
    /\ \/ e \in Inserted /\ Return(r, TRUE)
       \/ e \notin Inserted /\ Goto(r, [at |-> "delta_neighbors", edge |-> e])

\* neighbors: the delta insertions are copied when the iterator is built.
DeltaNeighbors(r) ==
    LET e == query[r].edge IN
    /\ query[r].at = "delta_neighbors"
    /\ Goto(r, [at |-> "base_neighbors", edge |-> e, inDelta |-> e \in Inserted])

\* Mutant: the iterator forgets to skip tombstoned base edges.
BaseIgnoringTombstones(r) ==
    LET e == query[r].edge IN
    /\ query[r].at = "base_neighbors"
    /\ Return(r, e \in Base \/ query[r].inDelta)

\* neighbors: a base edge is yielded unless it is tombstoned by now; then the
\* copied insertions are yielded, minus the base edges yielded already.
BaseNeighbors(r) ==
    LET e == query[r].edge IN
    /\ query[r].at = "base_neighbors"
    /\ Return(r, e \in Base \ deletions \/ query[r].inDelta)

\* The traversal's fast path: is_empty reads the two maps one after the other,
\* and the base slices are the answer when both were empty.  A read that finds
\* the map not empty sends the traversal to the merged iterator.  Another edge
\* may be the one that makes the map not empty.
InsertionsEmpty(r) ==
    LET e == query[r].edge IN
    /\ query[r].at = "ins_empty"
    /\ \/ Inserted = {} /\ Goto(r, [at |-> "dels_empty", edge |-> e])
       \/ Inserted # {} /\ Goto(r, [at |-> "delta_neighbors", edge |-> e])

DeletionsEmpty(r) ==
    LET e == query[r].edge IN
    /\ query[r].at = "dels_empty"
    /\ \/ deletions = {} /\ Return(r, e \in Base)
       \/ deletions # {} /\ Goto(r, [at |-> "delta_neighbors", edge |-> e])

Finish(r) ==
    /\ query[r].at = "done"
    /\ query' = [query EXCEPT ![r] = Waiting]
    /\ answers' = [answers EXCEPT ![r] = {}]
    /\ UNCHANGED deltaVars

ReaderStep(r) ==
    \/ \E e \in Edges : Begin(r, e)
    \/ IsDeleted(r) \/ HasInsertion(r) \/ DeltaNeighbors(r) \/ BaseNeighbors(r)
    \/ InsertionsEmpty(r) \/ DeletionsEmpty(r) \/ Finish(r)

\* A step of the delta layer, watched by the queries in progress.
DeltaStep ==
    /\ Next
    /\ UNCHANGED query
    /\ answers' = [r \in Readers |->
          IF query[r].at \in {"waiting", "done"} THEN answers[r]
          ELSE answers[r] \cup {Visible(query[r].edge)'}]

ReadInit ==
    /\ Init
    /\ query = [r \in Readers |-> Waiting]
    /\ answers = [r \in Readers |-> {}]

ReadNext ==
    \/ DeltaStep
    \/ \E r \in Readers : ReaderStep(r)

ReadSpec == ReadInit /\ [][ReadNext]_vars

-----------------------------------------------------------------------------
(* An answer is true of some moment of the query: has_edge, neighbors and  *)
(* the fast path of a traversal never report an edge that was absent all   *)
(* along, nor miss one that was present all along, although no lock is     *)
(* held across their reads and writers and drains run in between.  (When   *)
(* two writers share the edge, has_edge and neighbors may disagree: see    *)
(* Disjoint.)                                                              *)
AnswersAreJustified ==
    \A r \in Readers : query[r].at = "done" /\ Exclusive(query[r].edge)
                          => query[r].result \in answers[r]
=============================================================================
