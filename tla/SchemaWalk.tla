----------------------------- MODULE SchemaWalk ------------------------------
(***************************************************************************)
(* Walking a compiled schema for completion and hover                      *)
(* (internal/schema/walk.go).  A schema is a graph: its nodes are numbers, *)
(* and a node refers to others by $ref and by its composition branches,    *)
(* possibly back to itself.  The walk never remembers where it has been;   *)
(* only its depth bounds it.                                               *)
(***************************************************************************)
EXTENDS Naturals, SequencesExt

CONSTANTS       \* natural numbers
    Depth,      \* how deep Properties, Enums and Required look: 16
    StepDepth,  \* how deep step looks: 32
    Hops        \* how far follow goes: 32

Nil == 0

NoChildren == [k \in {} |-> Nil]

\* A node without keywords; patterns are given by the keys they match.
EmptyNode ==
    [ref |-> Nil, branches |-> <<>>, properties |-> NoChildren, patterns |-> NoChildren,
     additional |-> Nil, prefixItems |-> <<>>, items |-> Nil, required |-> <<>>, enum |-> <<>>]

\* carriesOwnKeywords
CarriesOwnKeywords(node) == [node EXCEPT !.ref = Nil] # EmptyNode

\* follow, along references that have nothing beside them.
Follow(g, n) ==
    FoldLeft(LAMBDA m, hop : IF g[m].ref = Nil \/ CarriesOwnKeywords(g[m]) THEN m ELSE g[m].ref,
             n, [hop \in 1..Hops |-> hop])

\* mergeSources
MergeSources(g, n) == (IF g[n].ref = Nil THEN <<>> ELSE <<g[n].ref>>) \o g[n].branches

-----------------------------------------------------------------------------
(* collectProperties, collectEnums, collectRequired                         *)

\* Mutant of Visited: one merge source too few is entered.
VisitedLess(g, n) ==
    LET visit[m \in DOMAIN g, d \in 0..(Depth + 1)] ==
            IF d >= Depth THEN <<>>
            ELSE LET sources == MergeSources(g, m)
                 IN  <<m>> \o FlattenSeq([i \in 1..Len(sources) |-> visit[sources[i], d + 1]])
    IN  visit[Follow(g, n), 0]

\* The nodes in the order they are visited in, some more than once.
Visited(g, n) ==
    LET visit[m \in DOMAIN g, d \in 0..(Depth + 1)] ==
            IF d > Depth THEN <<>>
            ELSE LET sources == MergeSources(g, m)
                 IN  <<m>> \o FlattenSeq([i \in 1..Len(sources) |-> visit[sources[i], d + 1]])
    IN  visit[Follow(g, n), 0]

\* What a node adds is what is not there yet.
AddNew(out, values) == FoldLeft(LAMBDA o, v : IF Contains(o, v) THEN o ELSE Append(o, v), out, values)

Collected(lists) == FoldLeft(AddNew, <<>>, lists)

Enums(g, n) ==
    LET visited == Visited(g, n) IN Collected([i \in 1..Len(visited) |-> g[visited[i]].enum])

Required(g, n) ==
    LET visited == Visited(g, n) IN Collected([i \in 1..Len(visited) |-> g[visited[i]].required])

Properties(g, n) ==
    LET visited == Visited(g, n)
    IN  FoldLeft(LAMBDA out, i : out @@ g[visited[i]].properties, NoChildren,
                 [i \in 1..Len(visited) |-> i])

-----------------------------------------------------------------------------
(* Resolve                                                                  *)

\* A segment of a pointer: a name, and the number it is or -1.
Segment(name, index) == [name |-> name, index |-> index]

\* The place of an item in an array.
ItemAt(node, index) ==
    IF index < Len(node.prefixItems) THEN node.prefixItems[index + 1] ELSE node.items

\* stepDepth: an item, a property, what a merge source has for it, what a pattern
\* does, the schema of all other properties.
Step(g, n, seg) ==
    LET step[m \in DOMAIN g, d \in 0..(StepDepth + 1)] ==
            LET node == g[m]
                sources == MergeSources(g, m)
                Item == IF seg.index = -1 THEN Nil ELSE ItemAt(node, seg.index)
                found == {i \in 1..Len(sources) : step[sources[i], d + 1] # Nil}
            IN  CASE d > StepDepth -> Nil
                  [] d <= StepDepth /\ Item # Nil -> Item
                  [] d <= StepDepth /\ Item = Nil /\ seg.name \in DOMAIN node.properties ->
                        node.properties[seg.name]
                  [] OTHER ->
                        CASE found # {} -> step[sources[Min(found)], d + 1]
                          [] found = {} /\ seg.name \in DOMAIN node.patterns ->
                                node.patterns[seg.name]
                          [] OTHER -> node.additional
    IN  step[n, 0]

\* Resolve
Resolve(g, root, ptr) ==
    FoldLeft(LAMBDA n, seg : IF n = Nil THEN Nil
                             ELSE LET next == Step(g, n, seg)
                                  IN  IF next = Nil THEN Nil ELSE Follow(g, next),
             Follow(g, root), ptr)

-----------------------------------------------------------------------------
(* Merging, by the paths from a node through merge sources                  *)

\* A path is the choices made on it; it is taken as far as there are sources.
Paths(g) == UNION {[1..l -> 1..Max({Len(MergeSources(g, m)) : m \in DOMAIN g} \cup {0})] :
                      l \in 0..Cardinality(DOMAIN g)}

End(g, n, path) ==
    FoldLeft(LAMBDA m, i : IF m # Nil /\ i <= Len(MergeSources(g, m)) THEN MergeSources(g, m)[i]
                           ELSE Nil,
             n, path)

\* The order the walk is meant to have: a node before its sources, they in turn.
Earlier(p, q) ==
    \/ IsStrictPrefix(p, q)
    \/ \E i \in 1..Len(p) : /\ i <= Len(q) /\ p[i] < q[i]
                            /\ SubSeq(p, 1, i - 1) = SubSeq(q, 1, i - 1)

\* No schema merges itself.
Acyclic(g) ==
    \A n \in DOMAIN g : \A path \in Paths(g) : End(g, n, path) = n => path = <<>>

\* walk.go:86, the keywords of every schema that is merged are found, cycles or not,
\* as long as there are no chains longer than the bound; if there are no cycles, a
\* property is that of the first schema that has it, and, but for schemas that speak of
\* all properties, stepping into it leads where its completion said.
MergesAll(g, n) ==
    LET reaching == {path \in Paths(g) : End(g, n, path) # Nil}
        merged == {End(g, n, path) : path \in reaching}
        First(k) == CHOOSE path \in reaching :
                        /\ k \in DOMAIN g[End(g, n, path)].properties
                        /\ \A other \in reaching :
                              k \in DOMAIN g[End(g, n, other)].properties => ~Earlier(other, path)
        properties == Properties(g, n)
    IN  /\ DOMAIN properties = UNION {DOMAIN g[m].properties : m \in merged}
        /\ ToSet(Enums(g, n)) = UNION {ToSet(g[m].enum) : m \in merged}
        /\ ToSet(Required(g, n)) = UNION {ToSet(g[m].required) : m \in merged}
        /\ Acyclic(g) => \A k \in DOMAIN properties :
              /\ properties[k] = g[End(g, n, First(k))].properties[k]
              /\ (\A m \in merged : g[m].additional = Nil /\ g[m].patterns = NoChildren)
                    => Resolve(g, n, <<Segment(k, -1)>>) = Follow(g, properties[k])
=============================================================================
