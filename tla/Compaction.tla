----------------------------- MODULE Compaction -----------------------------
(***************************************************************************)
(* One name of the graph catalog: the registry entry, the graph objects    *)
(* that writers hold by Arc, and compact_if_needed (udtf.rs), which drains *)
(* the delta of the registered graph, builds a new base (csr.rs), replays  *)
(* what reached the old delta meanwhile, and swaps the entry.  No lock is  *)
(* held from the lookup to the swap.  DeltaLayer has the map operations at *)
(* their finest grain; here a drain is two steps, collect and remove,      *)
(* which is every interleaving as far as one edge can tell.                *)
(***************************************************************************)
EXTENDS Naturals, FiniteSets

CONSTANTS
    Writers,         \* threads that mutate a graph they hold
    Compactors,      \* threads that call compact_if_needed
    Edges,           \* the edges that may be inserted and deleted
    Oversized,       \* edges with a node id that the CSR cannot store
    Writes,          \* Writes[w]: the edges of writer w
    MaxDeltaEntries, \* CompactionPolicy::max_delta_entries
    RatioPercent,    \* CompactionPolicy::max_delta_ratio, in percent
    MaxGraphs,       \* bound on the graph objects ever created
    MaxRegistrations, \* bound on the calls of register and deregister
    MaxMutations     \* bound on the calls of insert and delete

ASSUME ConstantsAssumption ==
    /\ IsFiniteSet(Edges) /\ IsFiniteSet(Compactors)
    /\ Oversized \subseteq Edges
    /\ Writes \in [Writers -> SUBSET Edges]
    /\ \A v, w \in Writers : v # w => Writes[v] \cap Writes[w] = {}
    /\ MaxDeltaEntries \in Nat \ {0}
    /\ RatioPercent \in Nat
    /\ MaxGraphs \in Nat \ {0}
    /\ MaxRegistrations \in Nat
    /\ MaxMutations \in Nat

Graphs == 1..MaxGraphs
NoGraph == 0

VARIABLES
    base,     \* base[g]: the edges of the CSR arrays of graph g
    ins,      \* ins[g]: the keys of its delta insertions
    dels,     \* dels[g]: its tombstones
    created,  \* graphs 1..created exist
    current,  \* the graph registered under the name, or NoGraph
    handle,   \* handle[w]: the graph whose Arc writer w holds
    op,       \* op[w]: the half-done mutation of writer w
    comp,     \* comp[c]: the locals of a call of compact_if_needed
    truth,    \* history: the edges as the finished mutations left them
    excuse,   \* history: why truth may not hold of an edge (see Excuses)
    regs,     \* the calls of register and deregister so far
    mutations \* the calls of insert and delete so far

graphVars == <<base, ins, dels, created>>
ghosts    == <<truth, excuse, regs>>
vars      == <<graphVars, current, handle, op, comp, ghosts, mutations>>

(***************************************************************************)
(* What a graph shows.  has_edge asks the tombstones first; neighbors      *)
(* yields the base edges without a tombstone, then the insertions that the *)
(* base did not yield.                                                     *)
(***************************************************************************)
HasEdge(g, e) == e \notin dels[g] /\ e \in ins[g] \cup base[g]
Neighbors(g)  == (base[g] \ dels[g]) \cup ins[g]

(***************************************************************************)
(* Writers: get, then the two halves of insert and delete on the graph     *)
(* held.  A mutation is late when it reaches the old delta after the       *)
(* replay drained that map, and stale when its graph is not registered.    *)
(***************************************************************************)
Idle == <<"idle">>
Excuses == {"stale", "late", "collided", "failed", "overtaken"}

Get(w) ==
    /\ current # NoGraph
    /\ op[w] = Idle
    /\ handle' = [handle EXCEPT ![w] = current]
    /\ UNCHANGED <<graphVars, current, op, comp, ghosts>>

Sealing(map) == IF map = "ins"
    THEN {"replay_ins_remove", "replay_dels", "replay_dels_remove", "swap"}
    ELSE {"replay_dels_remove", "swap"}

Late(g, map) == \E c \in Compactors :
    comp[c].old = g /\ comp[c].at \in Sealing(map)

Finished(w, e, map) ==
    /\ op' = [op EXCEPT ![w] = Idle]
    /\ truth' = IF map = "ins" THEN truth \cup {e} ELSE truth \ {e}
    /\ excuse' = [excuse EXCEPT ![e] =
          {x \in {"stale"} : handle[w] # current}
          \cup {x \in {"late"} : Late(handle[w], map)}]
    /\ UNCHANGED <<base, created, current, handle, comp, regs>>

Started(w, call) ==
    /\ mutations < MaxMutations
    /\ mutations' = mutations + 1
    /\ op[w] = Idle
    /\ handle[w] # NoGraph
    /\ op' = [op EXCEPT ![w] = call]
    /\ UNCHANGED <<base, created, current, handle, comp, ghosts>>

InsertRemoveTombstone(w, e) ==
    /\ e \in Writes[w]
    /\ Started(w, <<"insert", e>>)
    /\ dels' = [dels EXCEPT ![handle[w]] = @ \ {e}]
    /\ UNCHANGED ins

InsertStore(w, e) ==
    /\ op[w] = <<"insert", e>>
    /\ ins' = [ins EXCEPT ![handle[w]] = @ \cup {e}]
    /\ UNCHANGED dels
    /\ Finished(w, e, "ins")

DeleteRemoveInsertion(w, e) ==
    /\ e \in Writes[w]
    /\ Started(w, <<"delete", e>>)
    /\ ins' = [ins EXCEPT ![handle[w]] = @ \ {e}]
    /\ UNCHANGED dels

DeleteAddTombstone(w, e) ==
    /\ op[w] = <<"delete", e>>
    /\ dels' = [dels EXCEPT ![handle[w]] = @ \cup {e}]
    /\ UNCHANGED ins
    /\ Finished(w, e, "dels")

(***************************************************************************)
(* compact_if_needed.                                                      *)
(***************************************************************************)
Off == [at |-> "off", old |-> NoGraph, new |-> NoGraph,
        dels |-> {}, ins |-> {}, len |-> 0]

At(c, phase) == comp[c].at = phase

Goto(c, next) == comp' = [comp EXCEPT ![c] = next]

\* The bound on graphs: a call begins only if there is room for its graph.
Room == created + Cardinality({c \in Compactors :
            comp[c].at # "off" /\ comp[c].new = NoGraph}) < MaxGraphs

Lookup(c) ==
    /\ Room
    /\ current # NoGraph
    /\ At(c, "off")
    /\ Goto(c, [Off EXCEPT !.at = "count", !.old = current])
    /\ UNCHANGED <<graphVars, current, handle, op, ghosts>>

\* DeltaLayer::len reads the two maps one after the other.
CountInsertions(c) ==
    /\ At(c, "count")
    /\ Goto(c, [comp[c] EXCEPT !.at = "decide",
                            !.len = Cardinality(ins[comp[c].old])])
    /\ UNCHANGED <<graphVars, current, handle, op, ghosts>>

ShouldCompact(len, edgeCount) ==
    /\ len > 0
    /\ \/ len >= MaxDeltaEntries
       \/ edgeCount > 0 /\ len * 100 >= edgeCount * RatioPercent

Decide(c) ==
    LET len == comp[c].len + Cardinality(dels[comp[c].old])
    IN  /\ At(c, "decide")
        /\ Goto(c, IF ShouldCompact(len, Cardinality(base[comp[c].old]))
                THEN [comp[c] EXCEPT !.at = "drain_dels", !.len = 0] ELSE Off)
        /\ UNCHANGED <<graphVars, current, handle, op, ghosts>>

\* A drain collects the keys of one map of the old graph ...
Collect(c, from, to, map) ==
    LET old == comp[c].old
    IN  /\ At(c, from)
        /\ Goto(c, IF map = "ins"
                   THEN [comp[c] EXCEPT !.at = to, !.ins = ins[old]]
                   ELSE [comp[c] EXCEPT !.at = to, !.dels = dels[old]])
        /\ UNCHANGED <<graphVars, current, handle, op, ghosts>>

\* ... and then removes the keys that it collected.
DrainDeletions(c) == Collect(c, "drain_dels", "drain_dels_remove", "dels")

DrainDeletionsRemove(c) ==
    /\ At(c, "drain_dels_remove")
    /\ Goto(c, [comp[c] EXCEPT !.at = "drain_ins"])
    /\ dels' = [dels EXCEPT ![comp[c].old] = @ \ comp[c].dels]
    /\ UNCHANGED <<base, ins, created, current, handle, op, ghosts>>

DrainInsertions(c) == Collect(c, "drain_ins", "drain_ins_remove", "ins")

DrainInsertionsRemove(c) ==
    /\ At(c, "drain_ins_remove")
    /\ Goto(c, [comp[c] EXCEPT !.at = "build"])
    /\ ins' = [ins EXCEPT ![comp[c].old] = @ \ comp[c].ins]
    /\ UNCHANGED <<base, dels, created, current, handle, op, ghosts>>

\* The merged edges: the base without the drained tombstones, and the drained
\* insertions that the OLD base does not hold.
Merged(oldBase, drainedDels, drainedIns) ==
    (oldBase \ drainedDels) \cup (drainedIns \ oldBase)

\* The merge drops an edge that was drained both as a tombstone and as an
\* insertion of a base edge: the first removes it, the second is skipped.
Collided(oldBase, drainedDels, drainedIns) == oldBase \cap drainedDels \cap drainedIns

\* Mutant: the ids of the merged edges are not validated.
BuildUnchecked(c) ==
    LET old == comp[c].old
        new == created + 1
        merged == Merged(base[old], comp[c].dels, comp[c].ins)
    IN  /\ At(c, "build")
        /\ Goto(c, [comp[c] EXCEPT !.at = "replay_ins", !.new = new,
                                            !.dels = {}, !.ins = {}])
        /\ created' = new
        /\ base' = [base EXCEPT ![new] = merged]
        /\ UNCHANGED <<ins, dels, current, handle, op, truth, excuse, regs>>

Build(c) ==
    LET old == comp[c].old
        new == created + 1
        merged == Merged(base[old], comp[c].dels, comp[c].ins)
    IN  /\ At(c, "build")
        /\ merged \cap Oversized = {}
        /\ Goto(c, [comp[c] EXCEPT !.at = "replay_ins", !.new = new,
                                            !.dels = {}, !.ins = {}])
        /\ created' = new
        /\ base' = [base EXCEPT ![new] = merged]
        /\ excuse' = [e \in Edges |->
              IF e \in Collided(base[old], comp[c].dels, comp[c].ins)
              THEN excuse[e] \cup {"collided"} ELSE excuse[e]]
        /\ UNCHANGED <<ins, dels, current, handle, op, truth, regs>>

\* CsrBuilder::build refuses an oversized node id: compact returns the error,
\* and what it drained is gone.
BuildFails(c) ==
    LET old == comp[c].old
    IN  /\ At(c, "build")
        /\ Merged(base[old], comp[c].dels, comp[c].ins) \cap Oversized # {}
        /\ Goto(c, Off)
        /\ excuse' = [e \in Edges |-> IF e \in comp[c].dels \cup comp[c].ins
                                      THEN excuse[e] \cup {"failed"}
                                      ELSE excuse[e]]
        /\ UNCHANGED <<graphVars, current, handle, op, truth, regs>>

ReplayInsertions(c) == Collect(c, "replay_ins", "replay_ins_remove", "ins")

\* Mutant: what raced the compaction is drained and dropped.
ReplayInsertionsDropped(c) ==
    /\ At(c, "replay_ins_remove")
    /\ Goto(c, [comp[c] EXCEPT !.at = "replay_dels"])
    /\ ins' = [ins EXCEPT ![comp[c].old] = @ \ comp[c].ins]
    /\ UNCHANGED <<base, dels, created, current, handle, op, ghosts>>

\* The drained insertions go to the new delta, which no one else can see yet.
ReplayInsertionsRemove(c) ==
    LET old == comp[c].old
        new == comp[c].new
    IN  /\ At(c, "replay_ins_remove")
        /\ Goto(c, [comp[c] EXCEPT !.at = "replay_dels"])
        /\ ins' = [ins EXCEPT ![old] = @ \ comp[c].ins, ![new] = comp[c].ins]
        /\ UNCHANGED <<base, dels, created, current, handle, op, ghosts>>

ReplayDeletions(c) == Collect(c, "replay_dels", "replay_dels_remove", "dels")

\* Mutant: the tombstones are replayed past DeltaLayer::delete.
ReplayTombstonesOnly(c) ==
    LET old == comp[c].old
        new == comp[c].new
    IN  /\ At(c, "replay_dels_remove")
        /\ Goto(c, [comp[c] EXCEPT !.at = "swap", !.dels = {}, !.ins = {}])
        /\ dels' = [dels EXCEPT ![old] = @ \ comp[c].dels, ![new] = comp[c].dels]
        /\ UNCHANGED <<base, ins, created, current, handle, op, ghosts>>

\* delete on the new delta takes the edge out of its insertions as well.
ReplayDeletionsRemove(c) ==
    LET old == comp[c].old
        new == comp[c].new
    IN  /\ At(c, "replay_dels_remove")
        /\ Goto(c, [comp[c] EXCEPT !.at = "swap", !.dels = {}, !.ins = {}])
        /\ dels' = [dels EXCEPT ![old] = @ \ comp[c].dels, ![new] = comp[c].dels]
        /\ ins' = [ins EXCEPT ![new] = @ \ comp[c].dels]
        /\ UNCHANGED <<base, created, current, handle, op, ghosts>>

\* The write lock is taken for this insertion only, whatever the entry is by
\* now.  Another compaction may have replaced it, whose merge is undone then,
\* or a caller may have registered the name anew or dropped it.
Swap(c) ==
    /\ At(c, "swap")
    /\ Goto(c, Off)
    /\ current' = comp[c].new
    /\ excuse' = [e \in Edges |-> excuse[e] \cup
                      {x \in {"overtaken"} : current # comp[c].old}]
    /\ UNCHANGED <<graphVars, handle, op, truth, regs>>

(***************************************************************************)
(* register and deregister, by a caller that rebuilt or dropped the graph. *)
(***************************************************************************)
Register(edges) ==
    LET new == created + 1
    IN  /\ regs < MaxRegistrations
        /\ Room
        /\ created' = new
        /\ base' = [base EXCEPT ![new] = edges]
        /\ current' = new
        /\ truth' = edges
        /\ excuse' = [e \in Edges |-> {}]
        /\ regs' = regs + 1
        /\ UNCHANGED <<ins, dels, handle, op, comp>>

Deregister ==
    /\ regs < MaxRegistrations
    /\ current # NoGraph
    /\ current' = NoGraph
    /\ regs' = regs + 1
    /\ UNCHANGED <<graphVars, handle, op, comp, truth, excuse>>

-----------------------------------------------------------------------------
Init ==
    /\ \E edges \in SUBSET (Edges \ Oversized) :
          /\ base = [g \in Graphs |-> IF g = 1 THEN edges ELSE {}]
          /\ truth = edges
    /\ ins = [g \in Graphs |-> {}]
    /\ dels = [g \in Graphs |-> {}]
    /\ created = 1
    /\ current = 1
    /\ handle = [w \in Writers |-> NoGraph]
    /\ op = [w \in Writers |-> Idle]
    /\ comp = [c \in Compactors |-> Off]
    /\ excuse = [e \in Edges |-> {}]
    /\ regs = 0
    /\ mutations = 0

WriterStep(w) ==
    \/ Get(w) /\ UNCHANGED mutations
    \/ \E e \in Edges : \/ InsertRemoveTombstone(w, e)
                        \/ DeleteRemoveInsertion(w, e)
                        \/ /\ InsertStore(w, e) \/ DeleteAddTombstone(w, e)
                           /\ UNCHANGED mutations

CompactorStep(c) ==
    \/ Lookup(c) \/ CountInsertions(c) \/ Decide(c)
    \/ DrainDeletions(c) \/ DrainDeletionsRemove(c)
    \/ DrainInsertions(c) \/ DrainInsertionsRemove(c)
    \/ Build(c) \/ BuildFails(c)
    \/ ReplayInsertions(c) \/ ReplayInsertionsRemove(c)
    \/ ReplayDeletions(c) \/ ReplayDeletionsRemove(c)
    \/ Swap(c)

Next ==
    \/ \E w \in Writers : WriterStep(w)
    \/ /\ \/ \E c \in Compactors : CompactorStep(c)
          \/ \E edges \in SUBSET (Edges \ Oversized) : Register(edges)
          \/ Deregister
       /\ UNCHANGED mutations

Spec == Init /\ [][Next]_vars

-----------------------------------------------------------------------------
Phases == {"off", "count", "decide", "drain_dels", "drain_dels_remove",
           "drain_ins", "drain_ins_remove", "build", "replay_ins",
           "replay_ins_remove", "replay_dels", "replay_dels_remove", "swap"}

TypeOK ==
    /\ base \in [Graphs -> SUBSET (Edges \ Oversized)]
    /\ ins \in [Graphs -> SUBSET Edges]
    /\ dels \in [Graphs -> SUBSET Edges]
    /\ created \in Graphs
    /\ current \in 0..created
    /\ handle \in [Writers -> 0..created]
    /\ op \in [Writers -> {Idle} \cup ({"insert", "delete"} \X Edges)]
    /\ comp \in [Compactors -> [at : Phases, old : 0..created, new : 0..created,
                                dels : SUBSET Edges, ins : SUBSET Edges,
                                len : 0..Cardinality(Edges)]]
    /\ truth \in SUBSET Edges
    /\ excuse \in [Edges -> SUBSET Excuses]
    /\ regs \in 0..MaxRegistrations
    /\ mutations \in 0..MaxMutations

Settled(e) ==
    /\ \A w \in Writers : op[w] \notin {<<"insert", e>>, <<"delete", e>>}
    /\ \A c \in Compactors : comp[c].at \in {"off", "count", "decide"}
    /\ current # NoGraph

ShownAsWritten(e) == HasEdge(current, e) <=> e \in truth

(* The exact reach of "writers racing a compaction lose no data"           *)
(* (udtf.rs:206).  When no compaction is at work, the registered graph     *)
(* shows every edge as the last finished mutation left it, except edges    *)
(* mutated through a graph that was replaced already (stale), edges        *)
(* mutated after the replay drained their map (late), base edges           *)
(* re-inserted between the two drains of compact (collided), what a failed *)
(* compaction had drained (failed), and whatever was written before a swap *)
(* that replaced another graph than the one it compacted (overtaken).      *)
UnexcusedWritesSurvive ==
    \A e \in Edges : Settled(e) /\ excuse[e] = {} => ShownAsWritten(e)

(* has_edge and neighbors agree on every graph that is or was registered,  *)
(* which compaction and its replay must preserve (csr.rs:307, udtf.rs:229).*)
LookupsAgree ==
    \A g \in 1..created : \A e \in Edges : HasEdge(g, e) <=> e \in Neighbors(g)

(* udtf.rs:204: mutations that land in the old delta during compaction are *)
(* replayed, so racing writers lose no data.  False: one that lands after  *)
(* the replay drained its map and before the swap is dropped.              *)
WritesDuringCompactionSurvive ==
    \A e \in Edges : Settled(e) /\ excuse[e] \subseteq {"late"}
                        => ShownAsWritten(e)
=============================================================================
