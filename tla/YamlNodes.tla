------------------------------ MODULE YamlNodes ------------------------------
(***************************************************************************)
(* Where a value of a document stands in its text: the lookup of JSON      *)
(* pointers in the syntax tree (internal/yamlast/locate.go), and the       *)
(* values that are validated, from which patch directives have been taken  *)
(* out (internal/diagnostics/validate.go).                                 *)
(*                                                                         *)
(* A document is a tree of nodes.  A node is known by its address, the     *)
(* places of its ancestors and itself among their siblings, so that what   *)
(* is written within a node has an address that starts with the node's.    *)
(***************************************************************************)
EXTENDS Naturals, SequencesExt

CONSTANT MaxAliasDepth  \* 32, a natural number above 0

Node(is, keys, kids, name) == [is |-> is, keys |-> keys, kids |-> kids, name |-> name]

Scalar == Node("scalar", <<>>, <<>>, "")
Mapping(keys, kids) == Node("mapping", keys, kids, "")
Sequence(kids) == Node("sequence", <<>>, kids, "")
Anchor(name, kid) == Node("anchor", <<>>, <<kid>>, name)
Alias(name) == Node("alias", <<>>, <<>>, name)

MergeKey == "<<"

\* No node; the document has the address <<>>.
Nil == <<0>>

At(doc, addr) ==
    LET node[k \in 0..Len(addr)] == IF k = 0 THEN doc ELSE node[k - 1].kids[addr[k]]
    IN  node[Len(addr)]

\* Where in a node the anchors of a name are.
RECURSIVE Anchors(_, _)
Anchors(node, name) ==
    {addr \in {<<>>} : node.is = "anchor" /\ node.name = name}
        \cup UNION {{<<i>> \o addr : addr \in Anchors(node.kids[i], name)} : i \in 1..Len(node.kids)}

Kids(doc, addr) == [i \in 1..Len(At(doc, addr).kids) |-> Append(addr, i)]

-----------------------------------------------------------------------------
(* The resolver                                                             *)

\* resolver.anchor: the value of an anchor, whose names are unique here.
AnchorValue(doc, name) ==
    LET anchors == Anchors(doc, name)
    IN  IF anchors = {} THEN Nil ELSE Append(CHOOSE addr \in anchors : TRUE, 1)

Is(doc, addr, kinds) == addr # Nil /\ At(doc, addr).is \in kinds

\* deref: the node behind anchors and aliases, and the first alias on the way.
Deref(doc, addr) ==
    LET Unwrap(d) ==
            CASE Is(doc, d.node, {"anchor"}) -> [d EXCEPT !.node = Append(@, 1)]
              [] Is(doc, d.node, {"alias"}) ->
                    [node |-> AnchorValue(doc, At(doc, d.node).name),
                     via |-> IF d.via = Nil THEN d.node ELSE d.via]
              [] OTHER -> d
        crossed[k \in 0..(MaxAliasDepth - 1)] ==
            IF k = 0 THEN [node |-> addr, via |-> Nil] ELSE Unwrap(crossed[k - 1])
        GiveUp(d) == IF Is(doc, d.node, {"anchor", "alias"}) THEN [d EXCEPT !.node = Nil] ELSE d
    IN  GiveUp(crossed[MaxAliasDepth - 1])

\* What a mapping merges: the value of each merge key, or its elements.
MergeSources(doc, addr) ==
    LET Sources(key, kid) == CASE key # MergeKey -> <<>>
                               [] key = MergeKey /\ Is(doc, kid, {"sequence"}) -> Kids(doc, kid)
                               [] OTHER -> <<kid>>
        keys == At(doc, addr).keys
    IN  FlattenSeq([i \in 1..Len(keys) |-> Sources(keys[i], Append(addr, i))])

NotFound(seen) == [ok |-> FALSE, node |-> Nil, via |-> Nil, seen |-> seen]

\* field: the value of a key, explicit or merged, and the alias that supplied it.
RECURSIVE Field(_, _, _, _)
Field(doc, addr, key, seen) ==
    LET Explicit(keys) == {i \in 1..Len(keys) : keys[i] = key}
        Supplied(found, via) == IF found.ok /\ via # Nil THEN [found EXCEPT !.via = via] ELSE found
        In(target, searched) == Supplied(Field(doc, target.node, key, searched), target.via)
        Try(result, source) == IF result.ok THEN result ELSE In(Deref(doc, source), result.seen)
        Found(explicit) ==
            IF explicit # {}
            THEN [ok |-> TRUE, node |-> Append(addr, Min(explicit)), via |-> Nil, seen |-> seen]
            ELSE FoldLeft(Try, NotFound(seen \cup {addr}), MergeSources(doc, addr))
    IN  IF addr \notin seen /\ Is(doc, addr, {"mapping"}) THEN Found(Explicit(At(doc, addr).keys))
        ELSE NotFound(seen)

\* The elements of a sequence by the segments that name them.
Indices == <<"0", "1", "2">>

First(via, next) == IF via = Nil THEN next ELSE via

\* descend
Descend(doc, addr, seg) ==
    LET Entry(field, via) == [ok |-> field.ok, node |-> field.node, via |-> First(via, field.via)]
        Element(elements, target) ==
            IF elements = {} THEN [ok |-> FALSE, node |-> Nil, via |-> Nil]
            ELSE [ok |-> TRUE, node |-> Append(target.node, Min(elements)), via |-> target.via]
        Into(target) ==
            IF Is(doc, target.node, {"mapping"})
            THEN Entry(Field(doc, target.node, seg, {}), target.via)
            ELSE Element({i \in 1..Len(Indices) :
                            /\ Indices[i] = seg /\ Is(doc, target.node, {"sequence"})
                            /\ i <= Len(At(doc, target.node).kids)}, target)
    IN  Into(Deref(doc, addr))

\* lookup: the node at a pointer, or the deepest ancestor that resolves.
Lookup(doc, ptr) ==
    LET Go(at, next) ==
            IF next.ok THEN [ok |-> TRUE, node |-> next.node, via |-> First(at.via, next.via)]
            ELSE [at EXCEPT !.ok = FALSE]
        Walk(at, seg) == IF at.ok THEN Go(at, Descend(doc, at.node, seg)) ELSE at
    IN  FoldLeft(Walk, [ok |-> TRUE, node |-> <<>>, via |-> Nil], ptr)

\* LocateRange: the node whose extent is the range.
LocateRange(doc, ptr) ==
    LET Of(found) == First(found.via, found.node) IN Of(Lookup(doc, ptr))

\* LocateKey: the entry of a key of the mapping at a pointer, or the alias it or the
\* mapping is behind.
LocateKey(doc, parent, key) ==
    LET Of(field, via) == IF field.ok THEN First(First(via, field.via), field.node) ELSE Nil
        In(target, via) == Of(Field(doc, target.node, key, {}), First(via, target.via))
        Below(at) == IF at.ok THEN In(Deref(doc, at.node), at.via) ELSE Nil
    IN  Below(Lookup(doc, parent))

-----------------------------------------------------------------------------
(* Patch directives                                                         *)

Directives == {"$patch", "$retainKeys", "$setElementOrder/x", "$deleteFromPrimitiveList/x"}

\* mergeDirectiveOnly
MergeDirectiveOnly(value) ==
    value.is = "mapping" /\ DOMAIN value.kids # {} /\ DOMAIN value.kids \subseteq Directives

\* Mutant of Kept: directives beside data stay.
KeptBesides(value) == {k \in DOMAIN value.kids : ~MergeDirectiveOnly(value.kids[k])}

\* What stays of a mapping or a sequence.
Kept(value) ==
    {k \in DOMAIN value.kids :
        /\ ~MergeDirectiveOnly(value.kids[k])
        /\ value.is = "mapping" => k \notin Directives}

\* normalizeMergeDirectives: entries and elements that only direct are dropped, so are
\* directives beside data; later elements move up.
RECURSIVE NormalizeMergeDirectives(_)
NormalizeMergeDirectives(value) ==
    LET MovedUp(elements) ==
            [k \in {Indices[i] : i \in 1..Len(elements)} |->
                elements[CHOOSE i \in 1..Len(elements) : Indices[i] = k]]
        Of(old) == [k \in DOMAIN old |-> NormalizeMergeDirectives(value.kids[old[k]])]
    IN  [value EXCEPT !.kids =
            IF value.is = "sequence"
            THEN Of(MovedUp(SelectSeq(Indices, LAMBDA k : k \in Kept(value))))
            ELSE Of([k \in Kept(value) |-> k])]

-----------------------------------------------------------------------------
(* The value of a document, as YAML has it                                  *)

\* Decode: aliases are replaced, merged keys added where there is none.  A value
\* knows the node it is from.
RECURSIVE Value(_, _)
Value(doc, addr) ==
    LET Kid(target, i) == Value(doc, Append(target, i))
        Merge(all, source) == all @@ Value(doc, source).kids
        Entries(keys, target) ==
            FoldLeft(LAMBDA all, i : IF keys[i] = MergeKey THEN all ELSE all @@ (keys[i] :> Kid(target, i)),
                     <<>>, [i \in 1..Len(keys) |-> i])
        Elements(n, target) ==
            [k \in {Indices[i] : i \in 1..n} |-> Kid(target, CHOOSE i \in 1..n : Indices[i] = k)]
        Of(node, target) ==
            [node |-> addr, is |-> node.is, kids |->
                CASE node.is = "mapping" ->
                        FoldLeft(Merge, Entries(node.keys, target), MergeSources(doc, target))
                  [] node.is = "sequence" -> Elements(Len(node.kids), target)
                  [] OTHER -> <<>>]
        Behind(target) == Of(At(doc, target), target)
    IN  Behind(Deref(doc, addr).node)

\* All the values in a value, by their pointers.
RECURSIVE Within(_)
Within(value) ==
    {[ptr |-> <<>>, value |-> value]}
        \cup UNION {{[ptr |-> <<k>> \o sub.ptr, value |-> sub.value] : sub \in Within(value.kids[k])} :
                       k \in DOMAIN value.kids}

\* No element has been dropped from a sequence a pointer goes through.
RECURSIVE Unshifted(_, _)
Unshifted(value, ptr) ==
    \/ ptr = <<>>
    \/ /\ value.is = "sequence" => Kept(value) = DOMAIN value.kids
       /\ Unshifted(value.kids[Head(ptr)], Tail(ptr))

\* A pointer does not go through anything that only directs, nor ends there.
RECURSIVE Undirected(_, _)
Undirected(value, ptr) ==
    \/ ptr = <<>>
    \/ LET kid == value.kids[Head(ptr)]
       IN  Head(ptr) \notin Directives /\ ~MergeDirectiveOnly(kid) /\ Undirected(kid, Tail(ptr))

\* validate.go:261-265, what is validated is the document without its directives and
\* with all the rest of it, and what is wrong with a value of it is looked up at that
\* value in the text, unless elements have moved up.
LocatesValidated(doc) ==
    LET Nodes(subs) == {sub.value.node : sub \in subs}
        Leads(found, node) == found.ok /\ found.node = node
        Locates(value, validated) ==
            /\ Nodes(validated) = Nodes({sub \in Within(value) : Undirected(value, sub.ptr)})
            /\ \A sub \in validated :
                  Unshifted(value, sub.ptr) => Leads(Lookup(doc, sub.ptr), sub.value.node)
        Of(value) == Locates(value, Within(NormalizeMergeDirectives(value)))
    IN  Of(Value(doc, <<>>))

\* locate.go:68-71, whatever aliases and merges a value comes through, its place in the
\* text is within that of what it is a part of, and so is the place of its key.
PlacesNest(doc) ==
    LET Nests(ptr, place) ==
            /\ IsPrefix(LocateRange(doc, Front(ptr)), place)
            /\ Last(ptr) \notin ToSet(Indices) => LocateKey(doc, Front(ptr), Last(ptr)) = place
    IN  \A sub \in Within(Value(doc, <<>>)) :
            sub.ptr # <<>> => Nests(sub.ptr, LocateRange(doc, sub.ptr))
=============================================================================
