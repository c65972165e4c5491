-------------------------------- MODULE Globs --------------------------------
(***************************************************************************)
(* Matching of file paths against globs (internal/schema/glob.go), which   *)
(* catalog entries and the schemas of the settings are chosen by.  A       *)
(* pattern and a path are sequences of characters, of which those that     *)
(* matter are "/", "\", "*" and ".".                                       *)
(***************************************************************************)
EXTENDS Naturals, SequencesExt

-----------------------------------------------------------------------------
(* Paths                                                                    *)

\* The pieces between the slashes, empty ones included.
Segments(path) ==
    FoldLeft(LAMBDA segs, c : IF c = "/" THEN Append(segs, <<>>)
                              ELSE Append(Front(segs), Append(Last(segs), c)),
             <<<<>>>>, path)

Joined(segs) ==
    FoldLeft(LAMBDA path, k : IF k = 1 THEN segs[k] ELSE path \o <<"/">> \o segs[k],
             <<>>, [k \in 1..Len(segs) |-> k])

Up == <<".", ".">>

\* What is left of a path with another segment: `..` takes the last one back, but there
\* is nothing above the root.
Walked(rooted, done, seg) ==
    IF seg \in {<<>>, <<".">>} \/ (seg = Up /\ done = <<>> /\ rooted) THEN done
    ELSE IF seg = Up /\ done # <<>> /\ Last(done) # Up THEN Front(done)
    ELSE Append(done, seg)

Rooted(path) == path # <<>> /\ Head(path) = "/"

KeptSegments(path) ==
    FoldLeft(LAMBDA done, seg : Walked(Rooted(path), done, seg), <<>>, Segments(path))

\* path.Clean: the shortest path to the same file.
Clean(path) ==
    IF Rooted(path) THEN <<"/">> \o Joined(KeptSegments(path))
    ELSE IF KeptSegments(path) = <<>> THEN <<".">> ELSE Joined(KeptSegments(path))

\* normalizeForMatch; a path of Windows has backslashes.
Normalize(path) == Clean([k \in 1..Len(path) |-> IF path[k] = "\\" THEN "/" ELSE path[k]])

-----------------------------------------------------------------------------
(* globMatch                                                                *)

StarAt(pat, i) == i <= Len(pat) /\ pat[i] = "*"
TwoStarsAt(pat, i) == StarAt(pat, i) /\ StarAt(pat, i + 1)

\* Mutant of AfterTwoStars: the slash after `**` has to be there.
AfterTwoStarsOnly(pat, i) == i + 2

\* Where the pattern goes on after `**`, which takes a slash with it.
AfterTwoStars(pat, i) == IF i + 2 <= Len(pat) /\ pat[i + 2] = "/" THEN i + 3 ELSE i + 2

\* starts[i]: the places from which on the path is matched by the pattern from i on.
GlobMatch(pat, path) ==
    LET n == Len(path)
        starts[i \in 1..(Len(pat) + 1)] ==
            LET next == starts[i + 1]
                rest == AfterTwoStars(pat, i)
                ends == IF rest > Len(pat) THEN 1..(n + 1) ELSE starts[rest]
            IN  {j \in 1..(n + 1) :
                    \/ i > Len(pat) /\ j > n
                    \/ TwoStarsAt(pat, i) /\ \E k \in ends : j <= k
                    \/ /\ StarAt(pat, i) /\ ~StarAt(pat, i + 1)
                       /\ \E k \in next : j <= k /\ \A m \in j..(k - 1) : path[m] # "/"
                    \/ /\ i <= Len(pat) /\ ~StarAt(pat, i)
                       /\ j <= n /\ pat[i] = path[j] /\ j + 1 \in next}
    IN  1 \in starts[1]

MatchGlob(pattern, path) == GlobMatch(Normalize(pattern), Normalize(path))

AnyDepth == <<"*", "*", "/">>

\* Catalog.Match: a pattern of the catalog is meant for files at any depth.
MatchesEntry(pattern, path) ==
    \/ MatchGlob(pattern, path)
    \/ ~StarAt(pattern, 1) /\ MatchGlob(AnyDepth \o pattern, path)

\* matchSettings: so is a glob of the settings that is neither rooted nor starts
\* with `**`.
MatchesSetting(glob, path) ==
    \/ MatchGlob(glob, path)
    \/ /\ ~TwoStarsAt(glob, 1) /\ (glob = <<>> \/ Head(glob) # "/")
       /\ MatchGlob(AnyDepth \o glob, path)

-----------------------------------------------------------------------------
(* What a glob is meant to match, segment by segment                        *)

\* The segment has no `**` in it, but for one that is the whole of it.
WholeStars(seg) == seg = <<"*", "*">> \/ \A i \in 1..Len(seg) : ~TwoStarsAt(seg, i)

\* A name matches a segment of a pattern if it is cut into pieces, one for each of
\* its characters: any for a star, the character itself otherwise.
NameMatches(seg, name) ==
    \E cut \in [0..Len(seg) -> 0..Len(name)] :
        /\ cut[0] = 0 /\ cut[Len(seg)] = Len(name)
        /\ \A i \in 1..Len(seg) :
              /\ cut[i - 1] <= cut[i]
              /\ seg[i] # "*" => SubSeq(name, cut[i - 1] + 1, cut[i]) = <<seg[i]>>

\* A path matches a pattern if it is cut into runs of segments, one for each segment
\* of the pattern: any run for `**`, but one that is not empty if that is the last,
\* and a matching name otherwise.
PathMatches(pattern, path) ==
    \E cut \in [0..Len(pattern) -> 0..Len(path)] :
        /\ cut[0] = 0 /\ cut[Len(pattern)] = Len(path)
        /\ \A i \in 1..Len(pattern) :
              IF pattern[i] = <<"*", "*">>
              THEN cut[i - 1] <= cut[i] /\ (i = Len(pattern) => cut[i - 1] < cut[i])
              ELSE cut[i] = cut[i - 1] + 1 /\ NameMatches(pattern[i], path[cut[i]])

\* `**/` stands for any characters, so what follows it, unless it starts with a star,
\* may also match the end of a name: **/a matches ba.
Anchored(pattern) ==
    \A i \in 1..Len(pattern) :
        pattern[i] = <<"*", "*">> => i = Len(pattern) \/ StarAt(pattern[i + 1], 1)

\* glob.go:8, a glob made of whole segments matches every path its segments match,
\* however `**` and backtracking cut it, and if what follows each `**/` starts with a
\* star, no other path.
MatchesBySegments(pattern, path) ==
    LET segs == Segments(Normalize(pattern))
        names == Segments(Normalize(path))
    IN  (\A i \in 1..Len(segs) : WholeStars(segs[i])) =>
            /\ PathMatches(segs, names) => MatchGlob(pattern, path)
            /\ Anchored(segs) => (MatchGlob(pattern, path) => PathMatches(segs, names))

\* catalog.go:132 and resolver.go:150, a glob that names no directory to start from
\* matches at any depth: whatever the path of a file starts with, it is matched if
\* what its last segments are is.  It still has the `**` it may be written with: of
\* `**/../a` there is left `a`, which then matches in the root only.
MatchesAtAnyDepth(pattern, path) ==
    LET segs == Segments(Normalize(pattern))
        names == Segments(Normalize(path))
        relative == /\ pattern # <<>> /\ Head(segs) \notin {<<>>, <<".">>, Up}
                    /\ TwoStarsAt(pattern, 1) => Head(segs) = <<"*", "*">>
                    /\ \A i \in 1..Len(segs) : WholeStars(segs[i])
    IN  relative /\ (\E k \in 1..Len(names) : PathMatches(segs, SubSeq(names, k, Len(names)))) =>
            /\ MatchesSetting(pattern, path)
            /\ ~StarAt(pattern, 1) => MatchesEntry(pattern, path)
=============================================================================
