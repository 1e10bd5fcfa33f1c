--------------------------- MODULE RelationIndex ---------------------------
(* The committed relation index and everything that moves it: transactional   *)
(* commits, Unsafe sessions and their Flush, and the Tower replica that Flush *)
(* compares the live rows with.                                               *)
(*                                                                            *)
(* committedOwnership holds the index of the last committed graph and,        *)
(* sometimes, the relation model it was built from.  A commit or a Flush      *)
(* first tries to derive a delta of the index from the rows it touches; when  *)
(* that refuses, the model is derived again and the index is built anew.  All *)
(* of this runs under graphMu.Lock, so an operation is one step; what         *)
(* interleaves is staging, other goroutines' commits, and Unsafe edits that   *)
(* nothing records.                                                           *)
EXTENDS RelationGraph, Bags

CONSTANTS
    Projects,   \* sequence of projects: initial rows, operations and fields in use, edits per batch
    None

ASSUME ProjectsAssumption ==
    \A p \in DOMAIN Projects :
        /\ IsGraph(Projects[p].rows) /\ Projects[p].room \subseteq Node
        /\ Projects[p].fields \subseteq Field /\ Projects[p].edits \in Nat

VARIABLES
    project,    \* the project being run
    live,       \* the rows in memory, pointers included
    index,      \* committedOwnership.index and .outgoing
    graph,      \* committedOwnership.graph, or None
    replica,    \* the Tower shadow: rows, and whether it was taken from this index
    pending,    \* rows queued by Unsafe.Create
    deletes,    \* rows queued by Unsafe.Delete
    edits,      \* Unsafe edits since the last Flush, capped by the project
    tx          \* the open transaction

vars == <<project, live, index, graph, replica, pending, deletes, edits, tx>>

Uses(op) == op \in Projects[project].ops
MaxEdits == Projects[project].edits
Room == Projects[project].room
Edited == Projects[project].fields

NoTx == [work |-> <<>>, orig |-> <<>>, fresh |-> {}, del |-> {}, scalar |-> {}, edits |-> 0]

\* No Unsafe edit is outstanding.
Settled == edits = 0 /\ pending = <<>> /\ deletes = {}

----------------------------------------------------------------------------
\* The index built from a model, without the rows a delete takes away.

BuildIndex(m, dead) ==
    LET ns == m.nodes \ dead
        refs == [n \in ns |-> [f \in Forward[n] |-> Without(m.refs[n][f], dead)]]
        owners == [c \in {x \in DOMAIN m.owners : x \notin dead /\ m.owners[x] \notin dead} |-> m.owners[c]]
    IN  [nodes |-> ns, tf |-> m.tf, entries |-> {e \in m.entries : e[3] \notin dead},
         backs |-> {f \in Field : OwnMany(f) /\ \E n \in ns : TypeOf[n] = Spec[f].owner},
         refs |-> refs, inc |-> Incoming(refs), owners |-> owners,
         out |-> [o \in Node |-> ChildrenOf(owners, o)]]

\* Mutant: the model is kept with the rows that were deleted.
StoreCommittedWhole(m, dead) == index' = BuildIndex(m, dead) /\ graph' = m

StoreCommitted(m, dead) ==
    /\ index' = BuildIndex(m, dead)
    /\ graph' = IF dead = {} THEN m ELSE None

----------------------------------------------------------------------------
\* Deltas of the index.

\* A lookup or back field that the committed index was built from differs.
\* Back pointers are compared by address, and a copy of a branch has its own.
KeyChanged(over, n, aliased) ==
    \/ <<TypeOf[n], "Key">> \in index.tf /\ over[n].key # live[n].key
    \/ \E f \in index.backs :
          /\ Spec[f].target = TypeOf[n]
          /\ IF ScalarBack(f) THEN over[n].fk[f] # live[n].fk[f]
             ELSE aliased \/ over[n].rel[Spec[f].match] # live[n].rel[Spec[f].match]

Unsupported(over, fresh, aliased) ==
    \/ \E n \in DOMAIN over \ fresh : n \notin index.nodes \/ KeyChanged(over, n, aliased)
    \/ fresh \cap index.nodes # {}
    \/ \E n \in fresh : \E f \in Forward[n] : <<Spec[f].target, LookupField(f)>> \notin index.tf

Overlap(entries, created) ==
    \E e \in created : \E d \in entries \cup created :
        d[1] = e[1] /\ d[2] = e[2] /\ d[3] # e[3] /\ TypeOf[d[3]] = TypeOf[e[3]]

\* A holder listed twice has every field scanned into the first of two equal
\* entries, and the second, empty one is published after it.
Doubled(refs, twice) ==
    [n \in DOMAIN refs |-> IF n \in twice THEN [f \in Forward[n] |-> refs[n][f] \o refs[n][f]] ELSE refs[n]]
Emptied(refs, twice) ==
    [n \in DOMAIN refs |-> IF n \in twice THEN [f \in Forward[n] |-> <<>>] ELSE refs[n]]

CommittedTargets(n, f) == IF n \in index.nodes THEN ToSet(index.refs[n][f]) ELSE {}

\* Incoming edges with the scanned rows in place of the committed ones, and the
\* rows whose owner that can change.
EffectiveIncoming(scanned) ==
    [e \in {x \in DOMAIN index.inc : x[2] \notin DOMAIN scanned} |-> index.inc[e]] (+) Incoming(scanned)
Affected(scanned) ==
    {n \in DOMAIN scanned : \E f \in Forward[n] : Spec[f].kind = "ownedby"}
    \cup (UNION {UNION {ToSet(scanned[n][f]) \cup CommittedTargets(n, f) : f \in {x \in Forward[n] : Spec[x].kind = "own"}}
                 : n \in DOMAIN scanned})

\* Mutant: the views of rows that are no longer pointed at are not refreshed.
InverseTargetsNew(published) ==
    UNION {UNION {ToSet(published[n][f]) : f \in {x \in Forward[n] : Spec[x].kind \in {"borrow", "option"}}}
           : n \in DOMAIN published}

InverseTargets(published) ==
    {n \in DOMAIN published : InverseFields[n] # {}}
    \cup (UNION {UNION {ToSet(published[n][f]) \cup CommittedTargets(n, f)
                           : f \in {x \in Forward[n] : Spec[x].kind \in {"borrow", "option"}}} : n \in DOMAIN published})

\* A child that loses its owner is left to the full path.
PublishDelta(fresh, created, scanned, published, affected, owners) ==
    IF Cyclic(owners) THEN [verdict |-> "error"]
    ELSE IF \E c \in DOMAIN index.owners : c \notin DOMAIN owners THEN [verdict |-> "refuse"]
    ELSE [verdict |-> "accept", scanned |-> scanned, published |-> published,
          mirrors |-> InverseTargets(published),
          index |-> [index EXCEPT
            !.nodes = @ \cup fresh, !.entries = @ \cup created, !.refs = published ++ @, !.owners = owners,
            !.inc = (@ (-) Incoming(Restrict(index.refs, DOMAIN published \cap index.nodes))) (+) Incoming(published),
            !.out = [o \in Node |-> {c \in @[o] : c \in DOMAIN owners => owners[c] = o}
                                    \cup {c \in affected : c \in DOMAIN owners /\ owners[c] = o}]]]

OwnersAfter(inc, refs, affected) ==
    OwnersOf(inc, refs, affected) ++ [c \in DOMAIN index.owners \ affected |-> index.owners[c]]

\* Mutant: required relations are looked at in new rows alone.
DeltaInvalidFresh(fresh, scanned, inc, refs, affected) ==
    MissingIn(scanned, fresh) # {} \/ \E c \in affected : OwnerConflict(inc, refs, c)

DeltaInvalid(fresh, scanned, inc, refs, affected) ==
    MissingIn(scanned, DOMAIN scanned) # {} \/ \E c \in affected : OwnerConflict(inc, refs, c)

ValidateDelta(fresh, created, scanned, published, inc, refs, affected) ==
    IF DeltaInvalid(fresh, scanned, inc, refs, affected) THEN [verdict |-> "error"]
    ELSE PublishDelta(fresh, created, scanned, published, affected, OwnersAfter(inc, refs, affected))

DeltaFrom(fresh, created, scanned, published) ==
    ValidateDelta(fresh, created, scanned, published, EffectiveIncoming(scanned), scanned ++ index.refs, Affected(scanned))

\* The delta of the index from the rows in `over', of which `fresh' are new.
Delta(over, fresh, twice, mem, aliased) ==
    LET created == Entries(over, fresh, index.tf)
        entries == index.entries \cup created
        refs == ScanAll(over, entries, mem, DOMAIN over)
    IN  IF Unsupported(over, fresh, aliased) THEN [verdict |-> "refuse"]
        ELSE IF Overlap(index.entries, created) \/ ScanError(over, entries, mem, DOMAIN over) THEN [verdict |-> "error"]
        ELSE DeltaFrom(fresh, created, Doubled(refs, twice), Emptied(refs, twice))

InverseHolders(ix, n, f) == Ascending({h \in ix.nodes : <<n, h, Spec[f].match>> \in DOMAIN ix.inc})

RefreshMirrors(g, ix, ns) ==
    [n \in DOMAIN g |->
        IF n \notin ns THEN g[n]
        ELSE [g[n] EXCEPT !.rel = [f \in DOMAIN @ |-> IF f \in InverseFields[n] THEN InverseHolders(ix, n, f) ELSE @[f]]]]

\* The rows after a delta: back fields of the own slices it lists, the fields
\* it replaced, and the inverse views it can have changed.
DeltaRows(g, d) ==
    LET synced == SyncBacks(g, d.scanned, DOMAIN g)
        wired == [n \in DOMAIN g |->
                    IF n \notin DOMAIN d.published THEN synced[n]
                    ELSE [synced[n] EXCEPT !.rel = d.published[n] ++ @]]
    IN  RefreshMirrors(wired, d.index, d.mirrors)

----------------------------------------------------------------------------
\* The full path: a model of the proposed state, the cascade, the new rows.

Accepted(m, explicit, dead) ==
    /\ m.ok
    /\ explicit \subseteq m.nodes
    /\ ~Restricted(m, dead)
    /\ \A x \in m.missing : x[1] \in dead

SettledRows(g, m, dead) == Rewire(Restrict(Reconcile(g, m, dead), m.nodes \ dead))

\* The model a commit validates, derived from the committed one where it can be.
TransactionModel(over, fresh, mem) ==
    LET g == over ++ live
        none == graph = None
        ns == (IF none THEN DOMAIN live ELSE graph.nodes) \cup DOMAIN over
        retyped == none \/ \E n \in fresh : \A m \in graph.nodes : TypeOf[m] # TypeOf[n]
        tf == IF retyped THEN TargetFields(ns) ELSE graph.tf
        rekeyed == \E n \in DOMAIN over \cap graph.nodes :
                        <<TypeOf[n], "Key">> \in graph.tf /\ over[n].key # live[n].key
        created == Entries(over, fresh, tf)
        entries == IF retyped \/ rekeyed THEN Entries(g, ns, tf) ELSE graph.entries \cup created
    IN  IF retyped \/ rekeyed \/ Overlap(graph.entries, created)
        THEN BuildModel(g, ns, entries, tf, mem)
        ELSE ModelDelta(graph, g, ns, entries, DOMAIN over, mem)

----------------------------------------------------------------------------
\* Edits, as a caller makes them on the rows it has: functions from the rows
\* that change to their new contents.

RefEdits(view) ==
    UNION {UNION {
        LET ts == {t \in DOMAIN view : TypeOf[t] = Spec[f].target}
            choices == {<<>>} \cup {<<t>> : t \in ts} \cup (IF Spec[f].many THEN ts \X ts ELSE {})
        IN  {Single(n, [view[n] EXCEPT !.rel[f] = s]) : s \in choices \ {view[n].rel[f]}}
        : f \in {x \in Forward[n] \cap Edited : ~OwnMany(x) /\ Spec[x].kind # "ownedby"}} : n \in DOMAIN view}

\* Child c leaves the slices it is in and enters that of o, or none (o = 0).  The
\* caller keeps an ownedby pointer in step, clears the scalar of an orphan, and
\* restores it when it puts the child back; otherwise the commit fills it in.
Move(view, f, c, o) ==
    LET losers == {p \in DOMAIN view : f \in FieldsOf[p] /\ c \in ToSet(view[p].rel[f])}
        back == o = 0 \/ (c \in DOMAIN index.owners /\ index.owners[c] = o)
        child == IF ScalarBack(f) /\ ~back THEN {} ELSE {c}
        slice(n) == IF n = o THEN Append(Without(view[n].rel[f], {c}), c) ELSE Without(view[n].rel[f], {c})
    IN  [n \in losers \cup child \cup ({o} \ {0}) |->
            [view[n] EXCEPT
                !.rel = [g \in DOMAIN @ |->
                    IF g = f THEN slice(n)
                    ELSE IF n = c /\ g = Spec[f].match THEN (IF o = 0 THEN <<>> ELSE <<o>>) ELSE @[g]],
                !.fk = [g \in DOMAIN @ |-> IF n = c /\ g = f /\ back THEN o ELSE @[g]]]]

MoveEdits(view) ==
    UNION {{Move(view, f, c, o) :
                c \in {n \in DOMAIN view : TypeOf[n] = Spec[f].target},
                o \in {0} \cup {n \in DOMAIN view : TypeOf[n] = Spec[f].owner}} : f \in {x \in Edited : OwnMany(x)}}

\* An own slice alone: another order, or a child listed twice.
SliceEdits(view) ==
    UNION {UNION {{Single(n, [view[n] EXCEPT !.rel[f] = s]) :
                      s \in {Reverse(view[n].rel[f]), view[n].rel[f] \o view[n].rel[f]} \ {view[n].rel[f]}}
                  : f \in {x \in FieldsOf[n] \cap Edited : OwnMany(x)}} : n \in DOMAIN view}

KeyEdits(view) ==
    IF ~Uses("rekey") THEN {}
    ELSE UNION {{Single(n, [view[n] EXCEPT !.key = k]) : k \in Key \ {view[n].key}} : n \in {m \in DOMAIN view : view[m].key # NoKey}}

Edits(view) == RefEdits(view) \cup MoveEdits(view) \cup SliceEdits(view) \cup KeyEdits(view)

\* A new row points at something wherever it must; its owner comes with a move.
NewRows(view, n) ==
    LET needs == {f \in Forward[n] : ~MayBeMissing(f) /\ Spec[f].kind # "ownedby"}
        keyed == \E f \in Field : Spec[f].target = TypeOf[n] /\ Spec[f].match = "Key"
        fits == {to \in [needs -> DOMAIN view] : \A f \in needs : TypeOf[to[f]] = Spec[f].target}
    IN  {[NewRow(n, k) EXCEPT !.rel = [f \in needs |-> <<to[f]>>] ++ @] :
            to \in fits, k \in IF keyed THEN Key ELSE {NoKey}}

----------------------------------------------------------------------------
\* Transactions.  The working copies of a transaction are `work', the snapshots
\* they were taken from `orig'.

Load(ch) ==
    [tx EXCEPT !.work = ch ++ @, !.edits = @ + 1,
               !.orig = @ ++ Restrict(live, DOMAIN ch \cap DOMAIN live)]

TxEdit ==
    /\ Uses("tx") /\ Settled /\ tx.edits < MaxEdits
    /\ \E ch \in Edits(tx.work ++ live) : tx' = Load(ch)
    /\ UNCHANGED <<project, live, index, graph, replica, pending, deletes, edits>>

\* A change of scalar fields that no relation reads.
TxTouch ==
    /\ Uses("touch") /\ Settled /\ tx.edits < MaxEdits
    /\ \E n \in DOMAIN (tx.work ++ live) \ tx.scalar :
          tx' = [Load(Single(n, (tx.work ++ live)[n])) EXCEPT !.scalar = @ \cup {n}]
    /\ UNCHANGED <<project, live, index, graph, replica, pending, deletes, edits>>

TxCreate ==
    /\ Uses("txcreate") /\ Settled /\ tx.edits < MaxEdits
    /\ \E n \in Room \ DOMAIN (tx.work ++ live) : \E row \in NewRows(tx.work ++ live, n) :
          tx' = [Load(Single(n, row)) EXCEPT !.fresh = @ \cup {n}]
    /\ UNCHANGED <<project, live, index, graph, replica, pending, deletes, edits>>

TxDelete ==
    /\ Uses("tx") /\ Settled /\ tx.edits < MaxEdits
    /\ \E n \in DOMAIN (tx.work ++ live) \ tx.del :
          tx' = [tx EXCEPT !.del = @ \cup {n}, !.edits = @ + 1]
    /\ UNCHANGED <<project, live, index, graph, replica, pending, deletes, edits>>

Touched == {n \in DOMAIN tx.work \ tx.fresh : tx.work[n] # tx.orig[n] \/ n \in tx.scalar}
Over == Restrict(tx.work, Touched \cup tx.fresh)
RelationChanged == \E n \in Touched : tx.work[n] # tx.orig[n]
GraphChanged == RelationChanged \/ tx.fresh # {} \/ tx.del # {}

\* What pointers of the working copies lead to: rows loaded together point at
\* each other's copies, a row loaded alone at the live ones.
Memory(aliased) == (IF aliased THEN tx.work ELSE Restrict(tx.work, tx.fresh)) ++ live

\* A row this transaction writes or deletes is gone: its version is not found.
Conflict == ~((Touched \cup tx.del) \ tx.fresh \subseteq DOMAIN live)

TxDelta(aliased) == Delta(Over, tx.fresh, {}, Memory(aliased), aliased)
TxModel(aliased) == TransactionModel(Over, tx.fresh, Memory(aliased))

\* Whether copies point at copies shows only in pointers back and lookup keys.
Aliasing ==
    IF \E n \in DOMAIN tx.work : \E f \in Field :
           /\ Spec[f].target = TypeOf[n]
           /\ (OwnMany(f) /\ ~ScalarBack(f)) \/ Spec[f].match = "Key"
    THEN BOOLEAN ELSE {FALSE}

\* The replica no longer belongs to the published index: of its rows only which
\* ones it has is ever read again.
Outdated ==
    IF replica = None THEN None
    ELSE [rows |-> [n \in DOMAIN replica.rows |-> NewRow(n, NoKey)], current |-> FALSE]

\* What becomes of a commit: rows of scalars alone are written back whole under
\* the read side of graphMu, everything else is settled by a delta or a model.
Outcome(d, m, dead) ==
    IF Conflict THEN "rejected"
    ELSE IF ~GraphChanged THEN "scalars"
    ELSE IF tx.del = {} /\ d.verdict # "refuse" THEN (IF d.verdict = "accept" THEN "delta" ELSE "rejected")
    ELSE IF Accepted(m, tx.del, dead) THEN "model" ELSE "rejected"

\* A rejected commit changes nothing; the caller gives up or starts over.  A
\* delta goes into the same index object, so the replica still looks current.
CommitAs(outcome, d, m, dead) ==
    \/ /\ outcome = "rejected"
       /\ UNCHANGED <<live, index, graph, replica>>
    \/ /\ outcome = "scalars"
       /\ live' = Over ++ live
       /\ UNCHANGED <<index, graph, replica>>
    \/ /\ outcome = "delta"
       /\ live' = DeltaRows(Over ++ live, d)
       /\ index' = d.index
       /\ graph' = None
       /\ UNCHANGED replica
    \/ /\ outcome = "model"
       /\ live' = SettledRows(Over ++ live, m, dead)
       /\ StoreCommitted(m, dead)
       /\ replica' = Outdated

CommitWith(d, m, dead) == CommitAs(Outcome(d, m, dead), d, m, dead)
CommitFrom(d, m) == CommitWith(d, m, Doomed(m, index.out, tx.del))

Commit ==
    /\ Settled /\ tx # NoTx
    /\ \E aliased \in Aliasing : CommitFrom(TxDelta(aliased), TxModel(aliased))
    /\ tx' = NoTx
    /\ UNCHANGED <<project, pending, deletes, edits>>

SettleDelete(explicit, m, dead) ==
    /\ Accepted(m, explicit, dead)
    /\ live' = SettledRows(live, m, dead)
    /\ StoreCommitted(m, dead)

DeleteRow(n, m) == SettleDelete({n}, m, Doomed(m, index.out, {n}))

\* Another goroutine deletes a row while the transaction is open.  Only rows
\* that are written get a new version: an option that is cleared and a slice
\* that is rewired do not.
ConcurrentDelete ==
    /\ Uses("concurrent") /\ Settled /\ tx # NoTx
    /\ \E n \in DOMAIN live : DeleteRow(n, TransactionModel(<<>>, {}, live))
    /\ replica' = Outdated
    /\ UNCHANGED <<project, pending, deletes, edits, tx>>

----------------------------------------------------------------------------
\* Unsafe sessions.  The contract gives them exclusive access until Flush.

UnsafeIdle == tx = NoTx /\ edits < MaxEdits

Overwrite(g, ch) == [n \in DOMAIN g |-> IF n \in DOMAIN ch THEN ch[n] ELSE g[n]]

UnsafeEdit ==
    /\ Uses("unsafe") /\ UnsafeIdle
    /\ \E ch \in Edits(pending ++ live) :
          live' = Overwrite(live, ch) /\ pending' = Overwrite(pending, ch)
    /\ edits' = edits + 1
    /\ UNCHANGED <<project, index, graph, replica, deletes, tx>>

UnsafeCreate ==
    /\ Uses("create") /\ UnsafeIdle
    /\ \E n \in Room \ DOMAIN (pending ++ live) : \E row \in NewRows(pending ++ live, n) :
          pending' = Single(n, row) ++ pending
    /\ edits' = edits + 1
    /\ UNCHANGED <<project, live, index, graph, replica, deletes, tx>>

UnsafeDelete ==
    /\ Uses("unsafe") /\ UnsafeIdle
    /\ \E n \in DOMAIN live \ deletes : deletes' = deletes \cup {n}
    /\ edits' = edits + 1
    /\ UNCHANGED <<project, live, index, graph, replica, pending, tx>>

\* What graphMovedNodes reports: rows of the replica that differ from it.
KeyMoved == \E n \in DOMAIN replica.rows : <<TypeOf[n], "Key">> \in index.tf /\ live[n].key # replica.rows[n].key
Moved == {n \in DOMAIN replica.rows : live[n].rel # replica.rows[n].rel}

\* The route flushIncremental takes.
Route ==
    IF replica = None \/ ~replica.current \/ KeyMoved THEN "full"
    ELSE IF deletes # {} THEN (IF Moved # {} \/ pending # <<>> THEN "full" ELSE "deletes")
    ELSE IF Moved = {} /\ pending = <<>> THEN "persist"
    ELSE "delta"

\* The cascade over the committed forest, when nothing but deletes is queued.
DeleteClosure(route) == IF route = "deletes" THEN Closure(index.nodes, deletes, LAMBDA o : index.out[o]) ELSE {}

\* Edges from rows that survive into the closure.
Survivors(closure) == {e \in DOMAIN index.inc : e[1] \in closure /\ e[2] \notin closure}

DeleteVetoed(closure) ==
    \/ ~(deletes \subseteq index.nodes)
    \/ \E e \in Survivors(closure) : ~(OwnMany(e[3]) \/ Spec[e[3]].kind = "option")
    \/ Overlap(index.entries, {e \in index.entries : e[3] \in closure})

\* The rows once the given fields have lost their pointers into the closure.
Dropped(losing, closure) ==
    [n \in DOMAIN live |->
        [live[n] EXCEPT !.rel = [f \in DOMAIN @ |->
            IF <<n, f>> \in losing THEN Without(@[f], closure) ELSE @[f]]]]

\* Mutant: edges held by the dead stay.
LiveEdgesIn(inc, dead) == {e \in DOMAIN inc : e[1] \notin dead}

LiveEdges(inc, dead) == {e \in DOMAIN inc : e[1] \notin dead /\ e[2] \notin dead}

WithoutDead(ix, dead) ==
    [ix EXCEPT
        !.nodes = @ \ dead,
        !.entries = {e \in @ : e[3] \notin dead},
        !.refs = Restrict(@, ix.nodes \ dead),
        !.inc = Restrict(@, LiveEdges(@, dead)),
        !.owners = Restrict(@, DOMAIN @ \ dead),
        !.out = [o \in Node |-> IF o \in dead THEN {}
                                ELSE {c \in @[o] : ~(c \in dead /\ c \in DOMAIN ix.owners /\ ix.owners[c] = o)}]]

\* Mirrors of the borrows and options that die with the closure.
LostMirrors(closure) ==
    {t \in index.nodes : \E n \in closure : \E f \in Forward[n] :
        Spec[f].kind \in {"borrow", "option"} /\ t \in ToSet(index.refs[n][f])}

Flushed == pending' = <<>> /\ deletes' = {} /\ edits' = 0

\* What the delta accepted is published, and the closure taken out of the index.
FlushIncremental(closure, g, d, ix) ==
    /\ live' = RefreshMirrors(Restrict(DeltaRows(g, d), DOMAIN g \ closure), ix, LostMirrors(closure))
    /\ index' = ix
    /\ graph' = None
    /\ replica' = [rows |-> live', current |-> TRUE]
    /\ Flushed

\* Otherwise a model of the whole project decides; the replica follows when it
\* has no row that is gone.
FlushModel(g, m, dead) ==
    \/ /\ Accepted(m, deletes, dead)
       /\ live' = SettledRows(g, m, dead)
       /\ StoreCommitted(m, dead)
       /\ replica' = IF replica # None /\ DOMAIN replica.rows \subseteq DOMAIN live'
                     THEN [rows |-> live', current |-> TRUE] ELSE Outdated
       /\ Flushed
    \/ /\ ~Accepted(m, deletes, dead)
       /\ live' = Restrict(g, DOMAIN live)
       /\ UNCHANGED <<index, graph, replica, pending, deletes, edits>>

FlushRebuild(g, m) == FlushModel(g, m, Doomed(m, index.out, deletes))

FlushVia(closure, g, d) ==
    \/ d.verdict = "accept" /\ FlushIncremental(closure, g, d, WithoutDead(d.index, closure))
    \/ d.verdict # "accept" /\ FlushRebuild(g, Rebuild(g))

\* The delete route lists a holder once for every field of it that loses a
\* pointer, and has edited the survivors when it falls back.
FlushDelta(route, closure, losing, base) ==
    LET holders == {h[1] : h \in losing}
        twice == {n \in holders : Cardinality({h \in losing : h[1] = n}) > 1}
        over == pending ++ Restrict(base, IF route = "delta" THEN Moved ELSE holders)
    IN  FlushVia(closure, pending ++ base,
                 IF route = "full" \/ DeleteVetoed(closure) THEN [verdict |-> "refuse"]
                 ELSE Delta(over, DOMAIN pending, twice, pending ++ base, FALSE))

FlushDeletes(route, closure) ==
    LET losing == IF DeleteVetoed(closure) THEN {} ELSE {<<e[2], e[3]>> : e \in Survivors(closure)}
    IN  FlushDelta(route, closure, losing, Dropped(losing, closure))

\* flushRelations.  An error leaves the caller's edits in rows and queues.
Flush ==
    /\ tx = NoTx /\ ~Settled
    /\ \/ Route = "persist" /\ Flushed /\ UNCHANGED <<live, index, graph, replica>>
       \/ Route # "persist" /\ FlushDeletes(Route, DeleteClosure(Route))
    /\ UNCHANGED <<project, tx>>

----------------------------------------------------------------------------
\* The Tower takes its shadow of the rows, and the project is opened again.

TowerRebuild ==
    /\ Uses("tower") /\ Settled /\ tx = NoTx
    /\ replica' = [rows |-> live, current |-> TRUE]
    /\ UNCHANGED <<project, live, index, graph, pending, deletes, edits, tx>>

Reopen ==
    /\ Settled /\ tx = NoTx
    /\ live' = Rehydrated(live)
    /\ LET m == Rebuild(Rehydrated(live)) IN m.ok /\ m.missing = {} /\ StoreCommitted(m, {})
    /\ replica' = None
    /\ UNCHANGED <<project, pending, deletes, edits, tx>>

Init ==
    /\ project \in DOMAIN Projects
    /\ live = Rehydrated(Projects[project].rows)
    /\ LET m == Rebuild(live) IN m.ok /\ m.missing = {} /\ index = BuildIndex(m, {}) /\ graph = m
    /\ replica = None
    /\ pending = <<>> /\ deletes = {} /\ edits = 0
    /\ tx = NoTx

Next ==
    \/ TxEdit \/ TxTouch \/ TxCreate \/ TxDelete \/ Commit \/ ConcurrentDelete
    \/ UnsafeEdit \/ UnsafeCreate \/ UnsafeDelete \/ Flush
    \/ TowerRebuild \/ Reopen

RelationSpec == Init /\ [][Next]_vars

----------------------------------------------------------------------------
\* Properties.

\* Every variable holds what committedOwnership, the Tower replica and the
\* queues of unsafe.go and engine.go can hold.
TypeOK ==
    /\ project \in DOMAIN Projects
    /\ \A g \in {live, pending, tx.work, tx.orig} : IsGraph(g)
    /\ DOMAIN index.refs = index.nodes /\ index.nodes \subseteq Node
    /\ index.owners \in [DOMAIN index.owners -> index.nodes] /\ DOMAIN index.owners \subseteq index.nodes
    /\ \A e \in DOMAIN index.inc : e[1] \in index.nodes /\ e[2] \in index.nodes /\ index.inc[e] > 0
    /\ graph # None => graph.ok /\ graph.nodes = index.nodes
    /\ replica # None => DOMAIN replica.rows \subseteq Node /\ replica.current \in BOOLEAN
    /\ deletes \subseteq DOMAIN live /\ edits \in 0..MaxEdits /\ tx.edits \in 0..MaxEdits

\* What an index says of the graph, the lookup fields it serves apart.
Facts(ix) == <<ix.nodes, ix.entries, ix.refs, ix.inc, ix.owners, ix.out>>

\* However the index got here, by deltas, by Flush or by rebuilds, it is the
\* index that would be built from the live rows now, and it serves every lookup
\* a row of the project needs.
IndexMatchesGraph ==
    Settled =>
        /\ Facts(index) = Facts(BuildIndex(Built(live, index.tf, live), {}))
        /\ TargetFields(DOMAIN live) \subseteq index.tf

\* Rows up to the order of inverse views, which nothing promises.
Content(g) ==
    [n \in DOMAIN g |-> <<g[n].key, g[n].fk, [f \in FieldsOf[n] |->
        IF Spec[f].kind = "inverse" THEN ToSet(g[n].rel[f]) ELSE g[n].rel[f]]>>]

SameCommit(g, d, m) ==
    d.verdict = "accept" =>
        /\ Accepted(m, {}, {})
        /\ Content(DeltaRows(g, d)) = Content(SettledRows(g, m, {}))
        /\ Facts(d.index) = Facts(BuildIndex(m, {}))

\* A commit that the delta of relation_index.go accepts is one that the model of
\* the whole project accepts as well, with the same rows and the same index.
DeltaOnlyRefuses ==
    Settled /\ GraphChanged /\ tx.del = {} /\ ~Conflict =>
        \A aliased \in Aliasing :
            SameCommit(Over ++ live, TxDelta(aliased), Built(Over ++ live, index.tf, Memory(aliased)))

SameModel(m, whole) ==
    /\ m.ok = whole.ok
    /\ m.ok => /\ <<m.nodes, m.entries, m.refs, m.owners>> = <<whole.nodes, whole.entries, whole.refs, whole.owners>>
               /\ m.missing = whole.missing

\* buildRelationModelDelta, which rescans only what a transaction overrides and
\* what it may resolve, arrives at the model of the whole proposed state.
ModelDeltaIsRebuild ==
    Settled /\ graph # None /\ GraphChanged /\ ~Conflict =>
        \A aliased \in Aliasing :
            SameModel(TxModel(aliased), Built(Over ++ live, graph.tf \cup TargetFields(DOMAIN (Over ++ live)), Memory(aliased)))

\* No pointer leads to a row that is gone, and a required pointer is never nil.
NothingDangles ==
    Settled => \A n \in DOMAIN live : \A f \in FieldsOf[n] :
        /\ ToSet(live[n].rel[f]) \subseteq DOMAIN live
        /\ Spec[f].many \/ Spec[f].kind = "option" \/ Len(live[n].rel[f]) = 1

\* The lifetimes of docs/relations.md, on the rows: nothing dangles, a row has at
\* most one owner, both sides of an ownership agree, and nothing owns itself.
LifetimesHold ==
    /\ NothingDangles
    /\ Settled =>
        /\ \A n \in DOMAIN live : \A f \in {x \in FieldsOf[n] : OwnMany(x)} : \A c \in ToSet(live[n].rel[f]) :
              IF ScalarBack(f) THEN live[c].fk[f] = n ELSE live[c].rel[Spec[f].match] = <<n>>
        /\ \A c \in DOMAIN live :
              LET listing(n, f) == {<<n, f, i>> : i \in {j \in DOMAIN live[n].rel[f] : live[n].rel[f][j] = c}}
              IN  Cardinality(UNION {UNION {listing(n, f) : f \in {x \in FieldsOf[n] : Spec[x].kind = "own"}} : n \in DOMAIN live}) <= 1
        /\ \A s \in (SUBSET DOMAIN live) \ {{}} :
              \E c \in s : ~\E o \in s : \E f \in FieldsOf[o] : Spec[f].kind = "own" /\ c \in ToSet(live[o].rel[f])

\* A child outlives its owner only under another one.
LeavesNoOrphan(gone) ==
    \A c \in DOMAIN index.owners :
        index.owners[c] \in gone /\ c \notin gone =>
            c \in DOMAIN index'.owners /\ index'.owners[c] # index.owners[c]

GoesWithOwner(gone, named, owners) ==
    (tx' = NoTx) => \A n \in gone \ named :
        IF n \in DOMAIN owners THEN owners[n] \in gone \cup named
        ELSE n \in DOMAIN index.owners /\ index.owners[n] \in gone

\* Deletes follow ownership: a child outlives its owner only under another one,
\* and a row goes only when it was named, or with the owner that the edits of the
\* same batch gave it, or else with the one it had.
CascadeFollowsOwnership ==
    [][LET gone == DOMAIN live \ DOMAIN live'
       IN  /\ LeavesNoOrphan(gone)
           /\ GoesWithOwner(gone, tx.del \cup deletes, Rebuild(tx.work ++ pending ++ live).owners)]_vars

\* Whichever path settled the graph, an inverse view lists exactly the rows
\* whose borrow or option points at its row.
InversesAreExact ==
    Settled => \A n \in DOMAIN live : \A f \in InverseFields[n] :
        ToSet(live[n].rel[f]) = {h \in DOMAIN live : Spec[f].match \in FieldsOf[h] /\ n \in ToSet(live[h].rel[Spec[f].match])}

SameWhenReopened(again, m) ==
    /\ m.ok /\ m.missing = {}
    /\ m.owners = index.owners
    /\ \A n \in DOMAIN live : \A f \in FieldsOf[n] : ToSet(again[n].rel[f]) = ToSet(live[n].rel[f])

\* Slices are not stored: what a reopened project derives from the back fields
\* is the ownership that was committed, and every other pointer is the same.
ReopenKeepsGraph == Settled => SameWhenReopened(Rehydrated(live), Rebuild(Rehydrated(live)))
=============================================================================
