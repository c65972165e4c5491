----------------------------- MODULE K8sTemplate -----------------------------
(***************************************************************************)
(* The template of the schema URL of a Kubernetes kind                     *)
(* (internal/schema/k8s.go, detect.go).  A template is a sequence of       *)
(* tokens: "{", "}", "\", the separators ":-", ":+" and "@", and words,    *)
(* which are names of variables, the operators U and L, and any other      *)
(* text.  What parsing makes of a piece of a template is a function of its *)
(* tokens, so the tokens stand for the nodes they are parsed to.           *)
(***************************************************************************)
EXTENDS Naturals, SequencesExt

Separators == {":-", ":+", "@"}

\* strings.ToUpper and ToLower, of the words that have a case.
Cases == [U |-> [Apps |-> "APPS", Pod |-> "POD"], L |-> [Apps |-> "apps", Pod |-> "pod"]]

InCase(op, text) ==
    [k \in 1..Len(text) |-> IF text[k] \in DOMAIN Cases[op] THEN Cases[op][text[k]] ELSE text[k]]

\* k8sVars; the first label of the group and the version are like these.
K8sVars(group, kind) ==
    [group     |-> group,
     groupSeg  |-> IF group = <<>> THEN <<>> ELSE Append(group, "/"),
     kind      |-> kind,
     kindLower |-> InCase("L", kind)]

KnownVars == DOMAIN K8sVars(<<>>, <<>>)

-----------------------------------------------------------------------------
(* Scanning                                                                 *)

\* The tokens a backslash escapes, which may be backslashes.
Escaped(s) ==
    LET escaped[i \in 1..Len(s)] == i > 1 /\ s[i - 1] = "\\" /\ ~escaped[i - 1]
    IN  {i \in 1..Len(s) : escaped[i]}

\* The tokens that are text without the backslashes that escape: unescapeWord.
Unescaped(s) ==
    LET escaped == Escaped(s)
    IN  FlattenSeq([i \in 1..Len(s) |->
            IF i \in escaped \/ s[i] # "\\" THEN <<s[i]>> ELSE <<>>])

\* Where tokens of a kind stand that mean something.
Where(s, tokens) == {i \in 1..Len(s) \ Escaped(s) : s[i] \in tokens}

\* matchBraces: where the expression that starts at `start` ends, or 0.
MatchBraces(s, start) ==
    LET opening == Where(s, {"{"})
        closing == Where(s, {"}"})
        ends == {j \in closing : /\ j > start
                                 /\ Cardinality(opening \cap (start..j))
                                       = Cardinality(closing \cap (start..j))}
    IN  IF ends = {} THEN 0 ELSE Min(ends)

\* Token i is in an expression, as its last token or before that, or after a brace
\* that nothing closes.
Nested(s, i) ==
    \E j \in Where(s, {"{"}) :
        j < i /\ LET end == MatchBraces(s, j) IN end = 0 \/ end >= i

\* findExpression: the first separator outside of nested expressions, or 0.
FindExpression(s) ==
    LET separators == {i \in Where(s, Separators) : ~Nested(s, i)}
    IN  IF separators = {} THEN 0 ELSE Min(separators)

IsNested(s) == s # <<>> /\ Head(s) = "{"
Inner(s, first, last) == SubSeq(s, first + 1, last - 1)
Operand(s) == IF FindExpression(s) = 0 THEN s ELSE SubSeq(s, 1, FindExpression(s) - 1)
Word(s) == SubSeq(s, FindExpression(s) + 1, Len(s))

-----------------------------------------------------------------------------
(* Parsing: what parseBody and resolveBody accept                           *)

RECURSIVE ParseBody(_)

\* Mutant of ParseTerm: text may follow a nested expression.
ParseTermPrefix(s, isWord) ==
    IF IsNested(s)
    THEN MatchBraces(s, 1) # 0 /\ ParseBody(Inner(s, 1, MatchBraces(s, 1)))
    ELSE isWord \/ (Len(s) = 1 /\ Head(s) \in KnownVars)

\* parseTerm and resolveTerm: a nested expression, all of it, or a word or the name
\* of a variable.
ParseTerm(s, isWord) ==
    IF IsNested(s)
    THEN MatchBraces(s, 1) = Len(s) /\ ParseBody(Inner(s, 1, Len(s)))
    ELSE isWord \/ (Len(s) = 1 /\ Head(s) \in KnownVars)

ParseBody(s) ==
    LET at == FindExpression(s)
    IN  /\ ParseTerm(Operand(s), FALSE)
        /\ at # 0 => IF s[at] = "@" THEN Word(s) \in {<<"U">>, <<"L">>}
                                    ELSE ParseTerm(Word(s), TRUE)

\* Where the expressions of a template start.
Expressions(s) == {i \in Where(s, {"{"}) : ~Nested(s, i)}

\* parseK8sTemplate
ParseTemplate(s) ==
    /\ \A i \in Expressions(s) :
          MatchBraces(s, i) # 0 /\ ParseBody(Inner(s, i, MatchBraces(s, i)))
    /\ \A i \in Where(s, {"}"}) : Nested(s, i)

-----------------------------------------------------------------------------
(* Rendering                                                                *)

RECURSIVE RenderBody(_, _)

RenderTerm(s, isWord, vars) ==
    CASE IsNested(s) -> RenderBody(Inner(s, 1, Len(s)), vars)
      [] ~IsNested(s) /\ isWord -> Unescaped(s)
      [] OTHER -> vars[Head(s)]

RenderBody(s, vars) ==
    LET at == FindExpression(s)
        val == RenderTerm(Operand(s), FALSE, vars)
        word == RenderTerm(Word(s), TRUE, vars)
    IN  CASE at = 0 -> val
          [] at # 0 /\ s[at] = ":-" -> IF val # <<>> THEN val ELSE word
          [] at # 0 /\ s[at] = ":+" -> IF val # <<>> THEN word ELSE <<>>
          [] OTHER -> InCase(Head(Word(s)), val)

\* renderNodes
RenderTemplate(s, vars) ==
    LET exprs == Expressions(s)
        texts == 1..Len(s) \ UNION {i..MatchBraces(s, i) : i \in exprs}
        escapes == Where(s, {"\\"})
    IN  FlattenSeq([i \in 1..Len(s) |->
            CASE i \in exprs -> RenderBody(Inner(s, i, MatchBraces(s, i)), vars)
              [] i \in texts \ escapes -> <<s[i]>>
              [] OTHER -> <<>>])

\* DetectGVK: an apiVersion without a group, or without anything after its group, is
\* a version.
SplitAPIVersion(apiVersion) ==
    LET slashes == {i \in 1..Len(apiVersion) : apiVersion[i] = "/"}
        cut == Min(slashes)
        version == SubSeq(apiVersion, cut + 1, Len(apiVersion))
    IN  CASE slashes = {} -> [group |-> <<>>, version |-> apiVersion]
          [] slashes # {} /\ version = <<>> ->
                [group |-> <<>>, version |-> SubSeq(apiVersion, 1, cut - 1)]
          [] OTHER -> [group |-> SubSeq(apiVersion, 1, cut - 1), version |-> version]

\* isIdent: nothing that means something in a template or separates segments of a URL.
IsIdent(text) == ToSet(text) \cap ({"{", "}", "\\", "/"} \cup Separators) = {}

\* K8sURL and Render: the URL for a manifest, none if it is not one of Kubernetes.
K8sURLFor(template, apiVersion, kind) ==
    LET gvk == SplitAPIVersion(apiVersion)
    IN  IF /\ kind # <<>> /\ gvk.version # <<>>
           /\ IsIdent(gvk.group) /\ IsIdent(gvk.version) /\ IsIdent(kind)
        THEN RenderTemplate(template, K8sVars(gvk.group, kind)) ELSE <<>>

-----------------------------------------------------------------------------
(* The language of the comment at k8s.go:19-40                              *)

\* An expression or a part of one: a variable, a word, or an operand, an operator
\* and, but for U and L, a word.
Variable(name) == [is |-> "variable", name |-> name]
Literal(text) == [is |-> "literal", text |-> text]
Plain(operand) == [is |-> "plain", operand |-> operand]
Binary(op, operand, word) == [is |-> op, operand |-> operand, word |-> word]
Cased(op, operand) == [is |-> op, operand |-> operand]

\* Text with a backslash before each of the given tokens.
Quoted(text, special) ==
    FlattenSeq([k \in 1..Len(text) |-> IF text[k] \in special THEN <<"\\", text[k]>>
                                                             ELSE <<text[k]>>])
Braces == {"{", "}", "\\"}

\* How an expression is written.
RECURSIVE Written(_)
Written(e) ==
    CASE e.is = "variable" -> <<e.name>>
      [] e.is = "literal" -> Quoted(e.text, Braces)
      [] e.is = "plain" -> <<"{">> \o Written(e.operand) \o <<"}">>
      [] e.is \in {":-", ":+"} ->
            <<"{">> \o Written(e.operand) \o <<e.is>> \o Written(e.word) \o <<"}">>
      [] e.is \in {"U", "L"} -> <<"{">> \o Written(e.operand) \o <<"@", e.is, "}">>

\* What an expression stands for.
RECURSIVE Meaning(_, _)
Meaning(e, vars) ==
    CASE e.is = "variable" -> vars[e.name]
      [] e.is = "literal" -> e.text
      [] e.is = "plain" -> Meaning(e.operand, vars)
      [] e.is = ":-" -> IF Meaning(e.operand, vars) = <<>> THEN Meaning(e.word, vars)
                                                           ELSE Meaning(e.operand, vars)
      [] e.is = ":+" -> IF Meaning(e.operand, vars) = <<>> THEN <<>> ELSE Meaning(e.word, vars)
      [] e.is \in {"U", "L"} -> InCase(e.is, Meaning(e.operand, vars))

\* The grammar of templates, by how a sequence of tokens can be cut.
RECURSIVE IsExpression(_)
IsExpression(s) ==
    /\ Len(s) > 2 /\ Head(s) = "{" /\ Last(s) = "}"
    /\ LET body == Inner(s, 1, Len(s))
           IsOperand(t) == IsExpression(t) \/ \E name \in KnownVars : t = <<name>>
           IsText(t) == \* its braces are in pairs
               /\ t = <<>> \/ Head(t) # "{"
               /\ t # <<>> => Last(t) # "\\" \/ Len(t) \in Escaped(t)
               /\ \A k \in 1..Len(t) : Cardinality(Where(SubSeq(t, 1, k), {"}"}))
                                        <= Cardinality(Where(SubSeq(t, 1, k), {"{"}))
               /\ Cardinality(Where(t, {"}"})) = Cardinality(Where(t, {"{"}))
       IN  \/ IsOperand(body)
           \/ \E i \in 1..Len(body) :
                 LET word == SubSeq(body, i + 1, Len(body))
                 IN  /\ IsOperand(SubSeq(body, 1, i - 1))
                     /\ \/ body[i] \in {":-", ":+"} /\ (IsExpression(word) \/ IsText(word))
                        \/ body[i] = "@" /\ word \in {<<"U">>, <<"L">>}

RECURSIVE IsTemplate(_)
IsTemplate(s) ==
    \/ s \in {<<>>, <<"\\">>}
    \/ s # <<>> /\ Head(s) \notin Braces /\ IsTemplate(Tail(s))
    \/ Len(s) > 1 /\ Head(s) = "\\" /\ IsTemplate(Tail(Tail(s)))
    \/ \E i \in 1..Len(s) : IsExpression(SubSeq(s, 1, i)) /\ IsTemplate(SubSeq(s, i + 1, Len(s)))

\* k8s.go:19-40, a template is accepted exactly if it is of this language: the settings
\* are refused for any other, however its braces, backslashes and operators lie.
AcceptsLanguage(template) == ParseTemplate(template) <=> IsTemplate(template)

\* k8s.go:19-40, an expression that is written down in a template between any texts
\* renders to what it stands for between these texts, nested expressions, escapes and
\* empty groups included.
RendersMeaning(before, expression, after, apiVersion, kind) ==
    LET template == Quoted(before, Braces) \o Written(expression) \o Quoted(after, Braces)
        gvk == SplitAPIVersion(apiVersion)
    IN  /\ ParseTemplate(template)
        /\ K8sURLFor(template, apiVersion, kind)
              = before \o Meaning(expression, K8sVars(gvk.group, kind)) \o after
=============================================================================
