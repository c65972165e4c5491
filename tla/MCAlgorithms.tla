----------------------------- MODULE MCAlgorithms ----------------------------
(* The validation of files, a document and its edits, and beside them the   *)
(* pure algorithms they and the editor's requests rest on.  An initial      *)
(* state is a run of `validate`, a document that is not yet open, or a      *)
(* question: the arguments of an algorithm.                                 *)
EXTENDS MCLint, MCDocumentStore, Questions

CONSTANTS Depth, StepDepth, Hops, MaxAliasDepth

K == INSTANCE K8sTemplate
W == INSTANCE SchemaWalk
Y == INSTANCE YamlNodes
I == INSTANCE Indentation

Shorter(S, n) == UNION {[1..k -> S] : k \in 0..n}
NotEmpty(S, n) == Shorter(S, n) \ {<<>>}

MCPathChar == {"a", "b", "*", ".", "/", "\\", "~", "0", "1", "[", "'"}

-----------------------------------------------------------------------------
(* Globs: patterns with stars and paths with separators.                    *)

GlobQuestions ==
    [about : {"glob"}, pattern : Shorter({"a", "*", "/"}, 5), path : Shorter({"a", "b", "/"}, 3)]
    \cup [about : {"glob"}, pattern : Shorter({"a", "*", "/", ".", "\\"}, 3),
          path : Shorter({"a", "/", ".", "\\"}, 3)]
    \cup [about : {"glob"}, pattern : {<<"*", "*", "/", ".", ".", "/", "a">>}, path : Shorter({"a", "b", "/"}, 3)]

-----------------------------------------------------------------------------
(* Templates: any tokens, and expressions nested in expressions.            *)

TokenQuestions ==
    [about : {"tokens"}, template : Shorter({"{", "}", "\\", ":-", "@", "kind"}, 5)
                                       \cup Shorter({"{", "}", ":-", "kind"}, 6)]

Expressions(operands, words) ==
    {K!Plain(o) : o \in operands}
    \cup {K!Binary(op, o, w) : op \in {":-", ":+"}, o \in operands, w \in words}
    \cup {K!Cased(op, o) : op \in {"U", "L"}, o \in operands}

Names == {K!Variable("group"), K!Variable("kind")}
Words == {K!Literal(w) : w \in {<<>>, <<"{", ":-">>, <<"\\", "}">>}}
Flat == Expressions(Names, Words)

WrittenQuestions ==
    [about : {"written"}, before : {<<"Pod", "\\", "{">>}, after : {<<"}", "@">>},
     expression : Expressions(Names \cup Flat, Words \cup Flat)]

-----------------------------------------------------------------------------
(* Schemas: three nodes that refer to each other in any way.                *)

Nodes == 1..3

\* What node n has of its own, and whom it merges.
Own(n) ==
    {W!EmptyNode,
     [W!EmptyNode EXCEPT !.properties = [k \in {"a"} |-> (n % 3) + 1],
                         !.enum = <<n>>, !.required = <<n>>],
     [W!EmptyNode EXCEPT !.additional = IF n = 3 THEN n ELSE W!Nil]}
SchemaNodes(n) ==
    Own(n) \cup {[own EXCEPT !.ref = m] : own \in Own(n), m \in Nodes}
           \cup {[own EXCEPT !.branches = pair] : own \in Own(n), pair \in {<<2, 3>>, <<3, 1>>}}

SchemaQuestions ==
    [about : {"schema"},
     graph : {g \in [Nodes -> UNION {SchemaNodes(n) : n \in Nodes}] : \A n \in Nodes : g[n] \in SchemaNodes(n)}]

-----------------------------------------------------------------------------
(* Documents: a value with an anchor, one that uses it and has an anchor of *)
(* its own, and one that uses that one; patch directives in all of them.    *)

Marker == Y!Mapping(<<"$patch">>, <<Y!Scalar>>)
Both == Y!Mapping(<<"$patch", "a">>, <<Y!Scalar, Y!Scalar>>)

Values ==
    LET leaves == {Y!Scalar, Marker, Both}
    IN  leaves \cup {Y!Mapping(<<"a">>, <<v>>) : v \in leaves}
               \cup {Y!Mapping(<<"b", "$patch">>, <<Y!Anchor("y", v), Marker>>) : v \in leaves}
               \cup {Y!Sequence(<<v, w>>) : v \in {Y!Scalar, Both}, w \in {Y!Scalar, Marker}}
               \cup {Y!Sequence(<<Marker, Y!Scalar>>)}

\* Values that use an anchor, whose value is v.
Uses(name, v) ==
    LET own == Y!Mapping(<<"a">>, <<Marker>>)
        sources == {Y!Alias(name), Y!Sequence(<<Y!Alias(name), own>>), Y!Sequence(<<own, Y!Alias(name)>>)}
    IN  {Y!Scalar, Y!Alias(name), Y!Sequence(<<Marker, Y!Alias(name)>>),
         Y!Mapping(<<"b", "$patch">>, <<Y!Alias(name), Y!Scalar>>)}
        \cup IF v.is # "mapping" THEN {} \* nothing else can be merged
             ELSE {Y!Mapping(<<Y!MergeKey>>, <<s>>) : s \in sources}
                  \cup {Y!Mapping(<<"a", Y!MergeKey>>, <<Y!Scalar, s>>) : s \in sources}
                  \cup {Y!Mapping(<<Y!MergeKey, Y!MergeKey>>, <<own, s>>) : s \in sources}

DocQuestions ==
    {[about |-> "document", doc |-> doc] : doc \in
        UNION {UNION {{Y!Mapping(<<"a", "b", "c">>, <<Y!Anchor("x", v), Y!Anchor("z", w), u>>) :
                           u \in Uses("z", w)} : w \in Uses("x", v)} : v \in Values}
        \cup {Y!Mapping(<<"b", Y!MergeKey>>, <<Y!Anchor("x", v), Y!Alias("x")>>) :
                  v \in {m \in Values : m.is = "mapping"}}}

-----------------------------------------------------------------------------
(* Pointers: segments of one or two characters that mean something; values  *)
(* nested three deep.                                                       *)

PointerSegments ==
    [text : Shorter({"a", ".", "~", "/", "1", "0", "[", "'"}, 2), index : {FALSE}]
    \cup {[text |-> <<"1">>, index |-> TRUE], [text |-> <<"~", "0", "1">>, index |-> FALSE]}

PointerQuestions == [about : {"pointer"}, segs : Shorter(PointerSegments, 2)]

\* A sequence that is the value of a key may be flush with it.
Placed(v) == IF v.is = "seq" THEN {v, [v EXCEPT !.flush = TRUE]} ELSE {v}

Nested1 == {I!Leaf, I!Map(<<I!Leaf>>), I!Map(<<I!Leaf, I!Leaf>>), I!Seqnc(<<I!Leaf>>, FALSE)}
Nested2 ==
    {I!Map(kids) : kids \in NotEmpty(UNION {Placed(v) : v \in Nested1}, 2)}
    \cup {I!Seqnc(kids, FALSE) : kids \in NotEmpty(Nested1, 2)}
Nested3 ==
    {I!Map(<<v>>) : v \in UNION {Placed(w) : w \in Nested2}}
    \cup {I!Map(<<v, w>>) : v \in UNION {Placed(u) : u \in Nested2}, w \in Nested1}
    \cup {I!Seqnc(<<I!Leaf, v>>, FALSE) : v \in Nested2}

IndentQuestions == [about : {"indent"}, value : Nested2 \cup Nested3]

-----------------------------------------------------------------------------
Validating == [about |-> "validate"]
Editing == [about |-> "edits"]
NoFiles == [files |-> <<>>, broken |-> {}, kubernetes |-> FALSE]

MCInputs == Inputs \cup {NoFiles}

MCInit ==
    /\ Init /\ SyncInit
    /\ \/ files # <<>> /\ question = Validating
       \/ files = <<>> /\ question = Editing
       \/ files = <<>> /\ question \in GlobQuestions
       \/ files = <<>> /\ question \in TokenQuestions
       \/ files = <<>> /\ question \in WrittenQuestions
       \/ files = <<>> /\ question \in SchemaQuestions
       \/ files = <<>> /\ question \in DocQuestions
       \/ files = <<>> /\ question \in PointerQuestions
       \/ files = <<>> /\ question \in IndentQuestions

MCNext ==
    \/ question = Validating /\ Next /\ UNCHANGED <<syncVars, question>>
    \/ question = Editing /\ SyncNext /\ UNCHANGED <<vars, question>>
    \/ question \notin {Validating, Editing} /\ UNCHANGED <<vars, syncVars, question>>

MCSpec == MCInit /\ [][MCNext]_<<vars, syncVars, question>>

-----------------------------------------------------------------------------
\* k8s.go:19-40: exactly the templates of the language are accepted, and an expression
\* renders to what it stands for, with a group and without one.
TemplatesMeanWhatTheySay ==
    /\ About("tokens") => K!AcceptsLanguage(question.template)
    /\ About("written") => \A apiVersion \in {<<"v1">>, <<"Apps", "/", "v1">>} :
          K!RendersMeaning(question.before, question.expression, question.after,
                           apiVersion, <<"Pod">>)

\* walk.go:86: however schemas refer to each other, completion and hover find the
\* keywords of all that are merged, and without cycles those of the first.
SchemasAreMerged == About("schema") => W!MergesAll(question.graph, 1)

\* validate.go:261-265: what is validated is the document without its directives, and
\* what is wrong with a value is looked up at that value's node, the places of values
\* nesting as the values do.
ErrorsAreLocated ==
    About("document") => Y!LocatesValidated(question.doc) /\ Y!PlacesNest(question.doc)

\* fallback.go:8-11: where the text does not parse, a key is completed for the mapping
\* its indentation puts it in.
InfersOpenMapping == About("indent") => I!InfersOpenMapping(question.value)
=============================================================================
