--------------------------- MODULE SecondaryIndex ---------------------------
(* The secondary indexes of one type (secondary_index.go): an ordered index    *)
(* over two fields and a unique one, how a commit takes rows out of them,      *)
(* writes the rows and puts them back, range views, and the rebuild of Flush   *)
(* and Open.                                                                   *)
(*                                                                             *)
(* Index entries are pointers to live rows, here ids: comparing two entries    *)
(* reads the rows as they are now.  One commit publishes at a time, because    *)
(* every commit to an indexed type holds structureMu from validation to the    *)
(* end.  Log, versions and row mutexes are in TransactionEngine.               *)
EXTENDS Integers, SequencesExt

CONSTANTS
    MaxId,      \* ids are 1..MaxId
    RowSet,     \* contents a row may have: <<first field, second field, unique key>>
    Gone,       \* the write of a delete
    Batch,      \* secondaryIndexBatchThreshold
    MaxItems,   \* bound on the rows of a commit
    MaxEdits,   \* bound on the unsafe edits between two successful flushes
    None

VARIABLES
    mem,        \* [Id -> RowSet]: the memory pointers lead to
    alive,      \* resById: the rows that exist
    entries,    \* the ordered index: ids in order
    keys,       \* the unique index: from key to id
    commit,     \* the running commit: its writes, those not yet applied, its stage
    view,       \* the open range view
    edits       \* unsafe edits since the last successful Flush, made behind the indexes

vars == <<mem, alive, entries, keys, commit, view, edits>>

Id == 1 .. MaxId
KeyOf(row) == row[3]
Keys == {KeyOf(row) : row \in RowSet}

ASSUME IndexAssumption ==
    /\ MaxId \in Nat /\ MaxItems \in Nat /\ Batch \in Nat /\ MaxEdits \in Nat
    /\ Gone \notin RowSet /\ None \notin RowSet /\ RowSet # {}
    /\ \A row \in RowSet : row \in Seq(Int) /\ Len(row) = 3

----------------------------------------------------------------------------
\* Order and search.

\* compare: the fields in order, then the id.
Rank(rows, i) == <<rows[i][1], rows[i][2], i>>
Less(x, y) == \E k \in 1 .. Len(x) : x[k] < y[k] /\ \A j \in 1 .. (k - 1) : x[j] = y[j]
Precedes(rows, i, j) == Less(Rank(rows, i), Rank(rows, j))

\* sort.Search: bisection for the least of 0..n-1 at which a predicate holds, given
\* the set of them, whatever it is.  bounds[k] is <<i, j>> after k rounds of the loop,
\* of which n are enough.
Search(n, hits) ==
    LET bounds[k \in 0 .. n] ==
            IF k = 0 THEN <<0, n>>
            ELSE LET i == bounds[k - 1][1]
                     j == bounds[k - 1][2]
                     h == (i + j) \div 2
                 IN  IF i >= j THEN <<i, j>> ELSE IF h \in hits THEN <<i, h>> ELSE <<h + 1, j>>
    IN  bounds[n][1]

Position(es, rows, i) ==
    Search(Len(es), {p \in 0 .. Len(es) - 1 : ~Precedes(rows, es[p + 1], i)})

\* Mutant: the entry is looked for one place too far.
RemoveEntryBehind(es, rows, i) ==
    LET p == Position(es, rows, i) + 2
    IN  IF p <= Len(es) /\ es[p] = i THEN RemoveAt(es, p) ELSE es

\* removeSecondaryIndices: equal in every field and in id is the row itself.
RemoveEntry(es, rows, i) ==
    LET p == Position(es, rows, i) + 1
    IN  IF p <= Len(es) /\ es[p] = i THEN RemoveAt(es, p) ELSE es

\* addSecondaryIndices
AddEntry(es, rows, i) == InsertAt(es, Position(es, rows, i) + 1, i)

\* slices.SortFunc: as many entries before each as precede it.
Sorted(ids, rows) ==
    [p \in 1 .. Cardinality(ids) |->
        CHOOSE i \in ids : Cardinality({j \in ids : Precedes(rows, j, i)}) = p - 1]

\* The entries that are not of these rows, in their order.
Without(es, ids) ==
    LET kept[k \in 0 .. Len(es)] ==
            IF k = 0 THEN <<>>
            ELSE IF es[k] \in ids THEN kept[k - 1] ELSE Append(kept[k - 1], es[k])
    IN  kept[Len(es)]

\* mergeSecondaryIndexEntries: the heads compared, then what is left of either.
\* merged[k] is the first k entries, and how many of them are old ones.
Merge(es, more, rows) ==
    LET merged[k \in 0 .. Len(es) + Len(more)] ==
            IF k = 0 THEN [old |-> 0, out |-> <<>>]
            ELSE LET last == merged[k - 1]
                     e == last.old + 1
                     a == k - last.old
                 IN  IF a > Len(more) \/ (e <= Len(es) /\ ~Precedes(rows, more[a], es[e]))
                     THEN [old |-> e, out |-> Append(last.out, es[e])]
                     ELSE [old |-> last.old, out |-> Append(last.out, more[a])]
    IN  merged[Len(es) + Len(more)].out

\* Rows taken out, or put in, one after the other.
RemoveEntries(es, rows, ids) ==
    LET order == SetToSeq(ids)
        left[k \in 0 .. Len(order)] == IF k = 0 THEN es ELSE RemoveEntry(left[k - 1], rows, order[k])
    IN  left[Len(order)]

AddEntries(es, rows, ids) ==
    LET order == SetToSeq(ids)
        grown[k \in 0 .. Len(order)] == IF k = 0 THEN es ELSE AddEntry(grown[k - 1], rows, order[k])
    IN  grown[Len(order)]

----------------------------------------------------------------------------
\* Range reads.

\* The order of an entry's leading fields against a prefix.
Leading(rows, i, n) == SubSeq(rows[i], 1, n)
Below(rows, i, prefix) == Less(Leading(rows, i, Len(prefix)), prefix)
Above(rows, i, prefix) == Less(prefix, Leading(rows, i, Len(prefix)))

PrefixStart(prefix) ==
    Search(Len(entries), {p \in 0 .. Len(entries) - 1 : ~Below(mem, entries[p + 1], prefix)})
PrefixEnd(prefix) ==
    Search(Len(entries), {p \in 0 .. Len(entries) - 1 : Above(mem, entries[p + 1], prefix)})

\* Mutant: the cursor itself belongs to the rest.
CursorInclusive(row, field, after) == row[field] >= after

\* rangeAfter: the first entry whose next field is beyond the cursor.
CursorPassed(row, field, after) == row[field] > after

\* rangePrefix, and rangeAfter for a cursor.
RangeOf(prefix, after) ==
    LET start == PrefixStart(prefix)
        end == PrefixEnd(prefix)
        offset == IF after = None THEN 0
                  ELSE Search(end - start, {p \in 0 .. end - start - 1 :
                                    CursorPassed(mem[entries[start + p + 1]], Len(prefix) + 1, after)})
    IN  SubSeq(entries, start + offset + 1, end)

Values(field) == {row[field] : row \in RowSet}
Queries ==
    {<<p, None>> : p \in {<<>>} \cup {<<a>> : a \in Values(1)} \cup (Values(1) \X Values(2))}
    \cup ({<<>>} \X Values(1)) \cup ({<<a>> : a \in Values(1)} \X Values(2))

----------------------------------------------------------------------------
\* Commits.

NoItems == [i \in {} |-> Gone]
Idle == [items |-> NoItems, left |-> {}, stage |-> "idle"]
Items == DOMAIN commit.items
Deleted == {i \in Items : commit.items[i] = Gone}
InBatch == Cardinality(Items) >= Batch

\* Mutant: only creates and deletes lock the structure.
LocksStructureForShape(items) == \E i \in DOMAIN items : i \notin alive \/ items[i] = Gone

\* transactionStructuralDBNames: also a type that has an index.
LocksStructure(items) == DOMAIN items # {}

\* A key of a row that stays; alone, a mutant that does not compare the rows of one
\* commit with each other.
CollidesWithRows(items) ==
    \E i \in DOMAIN items : items[i] # Gone /\
        KeyOf(items[i]) \in DOMAIN keys /\ keys[KeyOf(items[i])] \notin DOMAIN items

\* validateIndexes: or a key of another row of the commit.
Collides(items) ==
    \/ CollidesWithRows(items)
    \/ \E i, j \in DOMAIN items :
          i # j /\ items[i] # Gone /\ items[j] # Gone /\ KeyOf(items[i]) = KeyOf(items[j])

\* The commit has the structure and its rows, has validated and logged.  A commit
\* that collides changes nothing.
Begin(items) ==
    /\ edits = 0 /\ commit = Idle
    /\ LocksStructure(items) => view = None
    /\ view # None => view.stage = "copied" \/ ToSet(view.got) \cap DOMAIN items = {}
    /\ ~Collides(items)
    /\ commit' = [items |-> items, left |-> DOMAIN items, stage |-> "prepare"]
    /\ UNCHANGED <<mem, alive, entries, keys, view, edits>>

\* The memory once only these rows have pointers to them: the rest is blank.
Kept(ids) == [i \in Id |-> IF i \in ids THEN mem[i] ELSE CHOOSE row \in RowSet : TRUE]

\* Keys are removed by value, whoever they lead to.
WithoutKeys(ids) == [k \in DOMAIN keys \ {KeyOf(mem[i]) : i \in ids} |-> keys[k]]

\* prepareIndexes, one row after the other; prepareIndexBatch, all by id.
Prepare ==
    /\ commit.stage = "prepare"
    /\ keys' = WithoutKeys(Items \cap alive)
    /\ entries' = IF InBatch THEN Without(entries, Items \cap alive)
                  ELSE RemoveEntries(entries, mem, Items \cap alive)
    /\ commit' = [commit EXCEPT !.stage = "apply", !.left = Items \ Deleted]
    /\ UNCHANGED <<mem, alive, view, edits>>

\* applyWrite or add of one row.
Apply(i) ==
    /\ commit.stage = "apply" /\ i \in commit.left
    /\ mem' = [mem EXCEPT ![i] = commit.items[i]]
    /\ alive' = alive \cup {i}
    /\ commit' = [commit EXCEPT !.left = @ \ {i}]
    /\ UNCHANGED <<entries, keys, view, edits>>

\* relationDelete takes the rows out of the indexes once more.
Delete ==
    /\ commit.stage = "apply" /\ commit.left = {}
    /\ alive' = alive \ Deleted
    /\ keys' = WithoutKeys(Deleted)
    /\ entries' = RemoveEntries(entries, mem, Deleted)
    /\ mem' = Kept(alive')
    /\ commit' = [commit EXCEPT !.stage = "finish"]
    /\ UNCHANGED <<view, edits>>

Added == {i \in Items \ Deleted : i \in alive}

\* finishIndexes inserts one row after the other, finishIndexBatch merges.
Finish ==
    /\ commit.stage = "finish"
    /\ keys' = [k \in DOMAIN keys \cup {KeyOf(mem[i]) : i \in Added} |->
                  IF \E i \in Added : KeyOf(mem[i]) = k THEN CHOOSE i \in Added : KeyOf(mem[i]) = k ELSE keys[k]]
    /\ entries' = IF InBatch THEN Merge(entries, Sorted(Added, mem), mem)
                  ELSE AddEntries(entries, mem, Added)
    /\ commit' = Idle
    /\ UNCHANGED <<mem, alive, view, edits>>

----------------------------------------------------------------------------
\* ViewRange and ViewRangeAfter: under structureMu the entries are copied, then
\* the rows are locked and the callback runs.

ViewRange(q) ==
    /\ edits = 0 /\ view = None
    /\ commit # Idle => ~LocksStructure(commit.items)
    /\ view' = [query |-> q, got |-> RangeOf(q[1], q[2]), stage |-> "copied"]
    /\ UNCHANGED <<mem, alive, entries, keys, commit, edits>>

StartCallback ==
    /\ view # None /\ view.stage = "copied"
    /\ ToSet(view.got) \cap Items = {}
    /\ view' = [view EXCEPT !.stage = "callback"]
    /\ UNCHANGED <<mem, alive, entries, keys, commit, edits>>

EndView ==
    /\ view # None /\ view.stage = "callback"
    /\ view' = None
    /\ UNCHANGED <<mem, alive, entries, keys, commit, edits>>

----------------------------------------------------------------------------
\* The unsafe API writes rows in place and has the database to itself.

UnsafeEdit(i, row) ==
    /\ commit = Idle /\ view = None /\ i \in alive /\ edits < MaxEdits
    /\ mem' = [mem EXCEPT ![i] = row]
    /\ edits' = edits + 1
    /\ UNCHANGED <<alive, entries, keys, commit, view>>

KeysUnique(ids) == \A i, j \in ids : KeyOf(mem[i]) = KeyOf(mem[j]) => i = j
Lookups(ids) == [k \in {KeyOf(mem[i]) : i \in ids} |-> CHOOSE i \in ids : KeyOf(mem[i]) = k]

\* Flush deletes what is queued and rebuilds the indexes; when two rows have one
\* key it returns an error and the old indexes stay.
Flush(dead) ==
    /\ edits > 0 /\ dead \subseteq alive
    /\ alive' = alive \ dead
    /\ \/ /\ KeysUnique(alive \ dead)
          /\ entries' = Sorted(alive \ dead, mem)
          /\ keys' = Lookups(alive \ dead)
          /\ mem' = Kept(alive')
          /\ edits' = 0
       \/ /\ ~KeysUnique(alive \ dead)
          /\ entries' = RemoveEntries(entries, mem, dead)
          /\ keys' = WithoutKeys(dead)
          /\ UNCHANGED <<mem, edits>>
    /\ UNCHANGED <<commit, view>>

----------------------------------------------------------------------------
Init ==
    /\ mem = [i \in Id |-> CHOOSE row \in RowSet : TRUE]
    /\ alive = {} /\ entries = <<>> /\ keys = [k \in {} |-> 0]
    /\ commit = Idle /\ view = None /\ edits = 0

Writes ==
    UNION {{items \in [s -> RowSet \cup {Gone}] : \A i \in s : i \in alive \/ items[i] # Gone}
           : s \in {x \in SUBSET Id : x # {} /\ Cardinality(x) <= MaxItems}}

Next ==
    \/ \E items \in Writes : Begin(items)
    \/ Prepare \/ (\E i \in Id : Apply(i)) \/ Delete \/ Finish
    \/ (\E q \in Queries : ViewRange(q)) \/ StartCallback \/ EndView
    \/ \E i \in Id, row \in RowSet : UnsafeEdit(i, row)
    \/ \E dead \in SUBSET Id : Flush(dead)

Spec == Init /\ [][Next]_vars

----------------------------------------------------------------------------
\* Properties.

\* Every variable holds what it may, and no row is in the ordered index twice.
TypeOK ==
    /\ mem \in [Id -> RowSet] /\ alive \subseteq Id
    /\ ToSet(entries) \subseteq Id /\ IsInjective(entries)
    /\ DOMAIN keys \subseteq Keys /\ \A k \in DOMAIN keys : keys[k] \in Id
    /\ commit.stage \in {"idle", "prepare", "apply", "finish"} /\ commit.left \subseteq Items
    /\ view # None => view.query \in Queries /\ view.stage \in {"copied", "callback"}
    /\ edits \in 0 .. MaxEdits

\* At every moment of a commit, however many rows it swaps, moves, creates and
\* deletes, a lookup that finds a row finds one that has the key, rows that the
\* commit does not write are found and in order, and when no commit runs the
\* indexes are those a rebuild would give.
IndexesAreExact ==
    edits = 0 =>
        /\ \A k \in DOMAIN keys : keys[k] \in alive /\ KeyOf(mem[keys[k]]) = k
        /\ \A i \in alive \ Items : KeyOf(mem[i]) \in DOMAIN keys
        /\ Without(entries, Items) = Sorted(alive \ Items, mem)

Matching(q) ==
    {i \in alive : /\ Leading(mem, i, Len(q[1])) = q[1]
                   /\ q[2] # None => mem[i][Len(q[1]) + 1] > q[2]}

\* ViewRange and ViewRangeAfter return the rows with the prefix, those beyond the
\* cursor only, in the order of the index.
RangesAreExact ==
    edits = 0 /\ commit = Idle => \A q \in Queries : RangeOf(q[1], q[2]) = Sorted(Matching(q), mem)

\* While the callback of a range view runs, its rows are those of the range: none
\* is half published, moved out of it, deleted or missing.
RangeViewsAreStable ==
    view # None /\ view.stage = "callback" => view.got = Sorted(Matching(view.query), mem)
=============================================================================
