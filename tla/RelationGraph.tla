--------------------------- MODULE RelationGraph ---------------------------
(* The relation graph of a project as relations.go and relation_runtime.go    *)
(* compute it: resolving pointers through lookup keys, deriving the ownership *)
(* forest, validating a proposed state, the cascade of a delete, and rewiring *)
(* the live pointers.  The module has no variables.                           *)
(*                                                                            *)
(* A graph is a function from the rows that exist to their contents:          *)
(*   key   the scalar that "Key" relations look targets up by                 *)
(*   fk    for every own slice that may list the row, its scalar back field   *)
(*   rel   for every relation field the rows pointed at, in order (a to-one   *)
(*         field is a sequence of at most one)                                *)
(* A pointer is the row it leads to.  Rows are numbered over all types, and   *)
(* the number stands for Id; within a type it is also the order of the store. *)
EXTENDS Integers, SequencesExt

CONSTANTS
    Node,       \* rows that may exist, positive integers
    TypeOf,     \* the entity type of a row
    Field,      \* relation fields, over all types
    Spec,       \* the parsed tag of a field: owner, kind, many, target, match
    Key,        \* values of the lookup key
    NoKey       \* its zero value

ASSUME NodesAssumption == IsFiniteSet(Node) /\ Node \subseteq Nat \ {0}

Kinds == {"own", "ownedby", "borrow", "option", "inverse"}
Type == {TypeOf[n] : n \in Node}

(* The schema rules that Register checks.  `match' of an own slice is "FK"    *)
(* for a scalar back field or the ownedby field that points back, of an       *)
(* inverse the borrow or option field it mirrors, otherwise the field of the  *)
(* target that identifies it.                                                 *)
ValidSpec(f) ==
    LET s == Spec[f]
        back == Spec[s.match]
    IN  /\ s.kind \in Kinds
        /\ s.kind = "ownedby" => ~s.many
        /\ s.kind = "inverse" => s.many
        /\ CASE s.kind = "own" /\ s.many ->
                    \/ s.match = "FK"
                    \/ s.match \in Field /\ back.kind = "ownedby" /\ back.owner = s.target
                                         /\ back.target = s.owner
             [] s.kind = "inverse" ->
                    s.match \in Field /\ back.kind \in {"borrow", "option"}
                                      /\ back.owner = s.target /\ back.target = s.owner
             [] OTHER -> s.match \in {"Id", "Key"}

\* The types a type cannot do without, through fields of one kind.
Demands(kind, t) == {Spec[f].target : f \in {g \in Field : /\ Spec[g].owner = t
                                                           /\ Spec[g].kind = kind
                                                           /\ kind = "own" => ~Spec[g].many}}

RequiredCycle(kind) ==
    \E ts \in (SUBSET Type) \ {{}} : \A t \in ts : Demands(kind, t) \cap ts # {}

ASSUME SchemaIsValid ==
    /\ "FK" \notin Field /\ \A f \in Field : ValidSpec(f)
    /\ \A f, g \in Field :
          Spec[f].kind = "ownedby" /\ Spec[g].kind = "ownedby" /\ Spec[f].owner = Spec[g].owner => f = g
    /\ ~RequiredCycle("ownedby") /\ ~RequiredCycle("own")

----------------------------------------------------------------------------
\* Functions and sequences.

\* The function f, and g wherever f is not defined.
f ++ g == [x \in DOMAIN f \cup DOMAIN g |-> IF x \in DOMAIN f THEN f[x] ELSE g[x]]

Single(x, value) == [y \in {x} |-> value]

\* A set of numbers in ascending order.
Ascending(S) == [k \in 1..Cardinality(S) |-> CHOOSE n \in S : Cardinality({m \in S : m < n}) = k - 1]

\* The elements of s at the given places, in order.
At(s, places) == [k \in 1..Cardinality(places) |-> s[Ascending(places)[k]]]

Without(s, out) == At(s, {i \in DOMAIN s : s[i] \notin out})

----------------------------------------------------------------------------
\* Fields of a row.

OwnMany(f) == Spec[f].kind = "own" /\ Spec[f].many
ScalarBack(f) == OwnMany(f) /\ Spec[f].match = "FK"
MayBeMissing(f) == Spec[f].kind = "option" \/ (Spec[f].many /\ Spec[f].kind \in {"borrow", "own"})

FieldsOf == [n \in Node |-> {f \in Field : Spec[f].owner = TypeOf[n]}]
Forward == [n \in Node |-> {f \in FieldsOf[n] : Spec[f].kind # "inverse"}]
InverseFields == [n \in Node |-> FieldsOf[n] \ Forward[n]]
BackFields == [n \in Node |-> {f \in Field : ScalarBack(f) /\ Spec[f].target = TypeOf[n]}]

NewRow(n, k) == [key |-> k, fk |-> [f \in BackFields[n] |-> 0], rel |-> [f \in FieldsOf[n] |-> <<>>]]

\* A pointer has the type of its field, and a field that is no slice has one.
Fits(f, s) == (Spec[f].many \/ Len(s) <= 1) /\ \A t \in ToSet(s) : TypeOf[t] = Spec[f].target

Row(n) ==
    {row \in [key : Key \cup {NoKey}, fk : [BackFields[n] -> Node \cup {0}], rel : [FieldsOf[n] -> Seq(Node)]] :
        \A f \in FieldsOf[n] : Fits(f, row.rel[f])}

IsGraph(g) == DOMAIN g \subseteq Node /\ \A n \in DOMAIN g : g[n] \in Row(n)

----------------------------------------------------------------------------
\* Lookup targets: entries <<field, value, row>> for the fields `tf' asks for.

LookupField(f) == IF OwnMany(f) THEN "Id" ELSE Spec[f].match

TargetFields(ns) == {<<Spec[f].target, LookupField(f)>> : f \in UNION {Forward[n] : n \in ns}}

Entries(g, ns, tf) ==
    {<<"Id", n, n>> : n \in {m \in ns : <<TypeOf[m], "Id">> \in tf}}
    \cup {<<"Key", g[n].key, n>> : n \in {m \in ns : <<TypeOf[m], "Key">> \in tf /\ g[m].key # NoKey}}

\* The value a pointer is looked up by, read from the memory it leads to.
PointerValue(mem, f, t) ==
    IF LookupField(f) = "Id" THEN t ELSE IF t \in DOMAIN mem THEN mem[t].key ELSE NoKey

Candidates(entries, f, value) ==
    {e[3] : e \in {x \in entries : /\ x[1] = LookupField(f) /\ x[2] = value
                                   /\ TypeOf[x[3]] = Spec[f].target}}

Targets(entries, mem, f, t) == Candidates(entries, f, PointerValue(mem, f, t))

\* A pointer that leads nowhere is left out.
Found(entries, mem, f, s) == At(s, {i \in DOMAIN s : Targets(entries, mem, f, s[i]) # {}})
Resolved(entries, mem, f, s) ==
    [k \in DOMAIN Found(entries, mem, f, s) |-> CHOOSE x \in Targets(entries, mem, f, Found(entries, mem, f, s)[k]) : TRUE]

ScanNode(g, entries, mem, n) == [f \in Forward[n] |-> Resolved(entries, mem, f, g[n].rel[f])]

\* A lookup value shared by two rows, or a child twice in one own slice.
ScanFails(g, entries, mem, n) ==
    \E f \in Forward[n] :
        \/ \E t \in ToSet(g[n].rel[f]) : Cardinality(Targets(entries, mem, f, t)) > 1
        \/ OwnMany(f) /\ ~IsInjective(Resolved(entries, mem, f, g[n].rel[f]))

MissingIn(refs, ns) ==
    UNION {{<<n, f>> : f \in {x \in Forward[n] : ~MayBeMissing(x) /\ refs[n][x] = <<>>}} : n \in ns}

UnresolvedIn(g, entries, mem, ns) ==
    UNION {UNION {{<<n, f, PointerValue(mem, f, t)>> : t \in
                       {p \in ToSet(g[n].rel[f]) : /\ PointerValue(mem, f, p) # NoKey
                                                   /\ Targets(entries, mem, f, p) = {}}}
                  : f \in Forward[n]} : n \in ns}

----------------------------------------------------------------------------
\* Ownership.

\* How often each field points at each row: <<target, holder, field>>.
Incoming(refs) ==
    LET edges == UNION {UNION {{<<t, n, f>> : t \in ToSet(refs[n][f])} : f \in DOMAIN refs[n]} : n \in DOMAIN refs}
    IN  [e \in edges |-> Cardinality({i \in DOMAIN refs[e[2]][e[3]] : refs[e[2]][e[3]][i] = e[1]})]

OwnEdges(inc, c) == {e \in DOMAIN inc : e[1] = c /\ Spec[e[3]].kind = "own"}

OwnedBy(refs, c) == {refs[c][f][1] : f \in {x \in DOMAIN refs[c] : /\ Spec[x].kind = "ownedby"
                                                                   /\ Len(refs[c][x]) = 1}}

OwnerConflict(inc, refs, c) ==
    \/ \E e, d \in OwnEdges(inc, c) : e # d \/ inc[e] > 1
    \/ \E e \in OwnEdges(inc, c), o \in OwnedBy(refs, c) : e[2] # o

OwnerSet(inc, refs, c) ==
    IF OwnEdges(inc, c) # {} THEN {e[2] : e \in OwnEdges(inc, c)} ELSE OwnedBy(refs, c)

OwnersOf(inc, refs, ns) ==
    [c \in {n \in ns : OwnerSet(inc, refs, n) # {}} |-> CHOOSE o \in OwnerSet(inc, refs, c) : TRUE]

ChildrenOf(owners, o) == {c \in DOMAIN owners : owners[c] = o}

Cyclic(owners) == \E s \in (SUBSET DOMAIN owners) \ {{}} : \A c \in s : owners[c] \in s

----------------------------------------------------------------------------
\* The relation model of a graph, from all rows and from a committed model.

ScanAll(g, entries, mem, ns) == [n \in ns |-> ScanNode(g, entries, mem, n)]
ScanError(g, entries, mem, ns) == \E n \in ns : ScanFails(g, entries, mem, n)

\* The model with the given edges, `affected' being the rows whose owner is
\* derived from them; `scanned' is what reading the rows reported.
ModelFrom(ns, entries, tf, refs, inc, affected, kept, scanned) ==
    LET owners == OwnersOf(inc, refs, affected) ++ kept
    IN  [nodes |-> ns, entries |-> entries, tf |-> tf, refs |-> refs, owners |-> owners,
         missing |-> MissingIn(refs, scanned.rows), unresolved |-> scanned.unresolved,
         ok |-> ~scanned.fails /\ ~(\E c \in affected : OwnerConflict(inc, refs, c)) /\ ~Cyclic(owners)]

Linked(ns, entries, tf, refs, affected, kept, scanned) ==
    ModelFrom(ns, entries, tf, refs, Incoming(refs), affected, kept, scanned)

BuildModel(g, ns, entries, tf, mem) ==
    Linked(ns, entries, tf, ScanAll(g, entries, mem, ns), ns, <<>>,
           [rows |-> ns, unresolved |-> UnresolvedIn(g, entries, mem, ns), fails |-> ScanError(g, entries, mem, ns)])

Built(g, tf, mem) == BuildModel(g, DOMAIN g, Entries(g, DOMAIN g, tf), tf, mem)
Rebuild(g) == Built(g, TargetFields(DOMAIN g), g)

\* Rows whose owner may differ once the holder's edges do.
OwnershipTargets(refs, n) ==
    UNION {IF Spec[f].kind = "own" THEN ToSet(refs[n][f])
           ELSE IF Spec[f].kind = "ownedby" /\ refs[n][f] # <<>> THEN {n} ELSE {} : f \in Forward[n]}

\* Mutant: only the new edges of a rescanned row count.
RescannedTargetsNew(committed, refs, rescan) == UNION {OwnershipTargets(refs, n) : n \in rescan}

RescannedTargets(committed, refs, rescan) ==
    (UNION {OwnershipTargets(committed.refs, n) : n \in rescan \cap committed.nodes})
    \cup (UNION {OwnershipTargets(refs, n) : n \in rescan})

DeltaLinked(committed, ns, entries, refs, affected, scanned) ==
    Linked(ns, entries, committed.tf, refs, affected, [c \in DOMAIN committed.owners \ affected |-> committed.owners[c]], scanned)

Rescanned(committed, ns, entries, refs, scanned) ==
    DeltaLinked(committed, ns, entries, refs, RescannedTargets(committed, refs, scanned.rows), scanned)

Rescan(committed, g, ns, entries, mem, rows) ==
    Rescanned(committed, ns, entries,
              ScanAll(g, entries, mem, rows) ++ Restrict(committed.refs, committed.nodes \ rows),
              [rows |-> rows, fails |-> ScanError(g, entries, mem, rows),
               unresolved |-> {u \in committed.unresolved : u[1] \notin rows} \cup UnresolvedIn(g, entries, mem, rows)])

\* Only the rows in `over' are read again, and those with a pointer that led
\* nowhere and may lead somewhere now.
ModelDelta(committed, g, ns, entries, over, mem) ==
    Rescan(committed, g, ns, entries, mem,
           over \cup {u[1] : u \in {x \in committed.unresolved : Candidates(entries, x[2], x[3]) # {}}})

----------------------------------------------------------------------------
\* Deletes.

\* The smallest superset of `explicit' that holds with a row all of Kids(row).
Closure(ns, explicit, Kids(_)) ==
    {n \in ns : \A s \in SUBSET ns : (explicit \subseteq s /\ \A o \in s : Kids(o) \subseteq s) => n \in s}

\* Mutant: a child that the same batch leaves without an owner is not followed.
DeletionChildrenProposed(m, committed, o) == ChildrenOf(m.owners, o)

\* Children in the proposed model, and the committed ones it does not reparent.
DeletionChildren(m, committed, o) ==
    ChildrenOf(m.owners, o)
    \cup {c \in m.nodes \cap committed[o] : c \in DOMAIN m.owners => m.owners[c] = o}

Doomed(m, committed, explicit) == Closure(m.nodes, explicit, LAMBDA o : DeletionChildren(m, committed, o))

\* Mutant: a delete is restricted by single own fields and not by borrows.
RestrictedByOwn(m, dead) ==
    \E n \in m.nodes \ dead : \E f \in Forward[n] :
        Spec[f].kind = "own" /\ ~Spec[f].many /\ ToSet(m.refs[n][f]) \cap dead # {}

Restricted(m, dead) ==
    \E n \in m.nodes \ dead : \E f \in Forward[n] :
        /\ Spec[f].kind = "borrow" \/ (Spec[f].kind = "own" /\ ~Spec[f].many)
        /\ ToSet(m.refs[n][f]) \cap dead # {}

----------------------------------------------------------------------------
\* Writing the outcome back into the rows.

\* Own slices that list row c, by the field that points back at their holder.
Listing(refs, c, f) == {n \in DOMAIN refs : f \in DOMAIN refs[n] /\ c \in ToSet(refs[n][f])}

\* Mutant: a scalar that is set already is left alone.
BackScalarOnce(row, lists, f) ==
    IF lists = {} \/ row.fk[f] # 0 THEN row.fk[f] ELSE CHOOSE n \in lists : TRUE

BackScalar(row, lists, f) == IF lists = {} THEN row.fk[f] ELSE CHOOSE n \in lists : TRUE

SyncBacks(g, refs, ns) ==
    [c \in DOMAIN g |->
        IF c \notin ns THEN g[c]
        ELSE [g[c] EXCEPT
                !.fk = [f \in DOMAIN @ |-> BackScalar(g[c], Listing(refs, c, f), f)],
                !.rel = [f \in DOMAIN @ |->
                            LET lists == UNION {Listing(refs, c, own) : own \in {x \in Field : OwnMany(x) /\ Spec[x].match = f}}
                            IN  IF lists = {} THEN @[f] ELSE <<CHOOSE n \in lists : TRUE>>]]]

\* To-one pointers become the row they resolve to; an option to a doomed row
\* becomes nil.
Canonicalize(g, m, dead) ==
    [n \in DOMAIN g |->
        IF n \in dead THEN g[n]
        ELSE [g[n] EXCEPT !.rel = [f \in DOMAIN @ |->
                IF f \notin Forward[n] \/ Spec[f].many \/ m.refs[n][f] = <<>> THEN @[f]
                ELSE IF m.refs[n][f][1] \notin dead THEN m.refs[n][f]
                ELSE IF Spec[f].kind = "option" THEN <<>> ELSE @[f]]]]

Reconcile(g, m, dead) == SyncBacks(Canonicalize(g, m, dead), m.refs, m.nodes \ dead)

\* Members of a slice in the order the field has them, new ones by Id.
InOrder(s, members) ==
    At(s, {i \in DOMAIN s : s[i] \in members /\ \A j \in 1..(i - 1) : s[j] # s[i]}) \o Ascending(members \ ToSet(s))

\* Children of an own slice by their back field; holders of an inverse by the
\* forward field, whose lookup value is compared with the Id of the mirror's row.
SliceMembers(g, n, f) ==
    {c \in DOMAIN g : TypeOf[c] = Spec[f].target /\
        CASE Spec[f].kind = "own" -> IF ScalarBack(f) THEN g[c].fk[f] = n ELSE g[c].rel[Spec[f].match] = <<n>>
          [] OTHER -> Spec[Spec[f].match].match = "Id" /\ n \in ToSet(g[c].rel[Spec[f].match])}

Rewire(g) ==
    LET tf == {<<Spec[f].target, Spec[f].match>> : f \in {x \in Field : ~OwnMany(x) /\ Spec[x].kind # "inverse"}}
        entries == Entries(g, DOMAIN g, tf)
    IN  [n \in DOMAIN g |->
            [g[n] EXCEPT !.rel = [f \in DOMAIN @ |->
                IF OwnMany(f) \/ Spec[f].kind = "inverse" THEN InOrder(@[f], SliceMembers(g, n, f))
                ELSE Resolved(entries, g, f, @[f])]]]

\* What a reopened project has: slices that are not stored start empty.
Rehydrated(g) ==
    Rewire([n \in DOMAIN g |->
        [g[n] EXCEPT !.rel = [f \in DOMAIN @ |-> IF OwnMany(f) \/ Spec[f].kind = "inverse" THEN <<>> ELSE @[f]]]])
=============================================================================
