# yayamlls in TLA+

TLA+ models of [yayamlls](../src), a YAML language server and command-line
validator written in Go, the TLC runs that check them on small instances, and
theorems that TLAPS checks for every instance.

    tlc -workers 2 -config RenderPipeline.cfg MCRenderPipeline.tla
    tlapm RenderPipelineProofs.tla

## The system

| Component | State it keeps | Operations | Module |
| --- | --- | --- | --- |
| Render pipeline, `internal/render/pipeline.go` | `pending` and `cache` by URI, `epoch` | `Schedule`, the render goroutine it arms, `InvalidateAll`, `Cancel` | `RenderPipeline`, abstractly `RenderRequests` |
| Renderer registry, `internal/render/renderer.go` | the renderers in force | `For`, `Configure`, `SetWorkspaceRoot`, `SetFileWatchActive`, `AnalyzeDocument` | `Registry`, within `WorkspaceConfig`; also part of `RenderPipeline`, `LanguageServer` |
| Language server, `internal/lsp` | open documents, publish sequences, debounce timers, rendered diagnostics, output and baseline, deferred show commands | the handlers of the document life cycle, `Notify`, `schedulePublish`, `debouncePublish`, `showInEditor` | `LanguageServer` |
| Schema store, `internal/schema/store.go`, `secure.go` | compiled schemas, remembered failures, compiles in flight, the trust set and its generation | `Get`, `Cached`, `SetTrustRoot` | `SchemaStore` |
| Catalog and resolver, `catalog.go`, `resolver.go` | the catalog, its fetch, the reload hook | `Load`, `start`, `Match`, `Wait`, `SetSettings`, `Resolve` | `SchemaCatalog`; `Resolve` also in `Lint` |
| Disk cache, `diskloader.go` | a body and a meta file per URL | `loadBytes` | `DiskCache` |
| Flux renderer, `internal/render/flate` | the shared tree, its key, the invalidation counter, the build root | `Render`, `InvalidateTree`, `SetFileWatchActive`, `targetRoot` | `FlateTree` |
| Settings, `internal/config`, `applyLayers` | the workspace layer, the client's layer, what was applied of them | `applyLayers` and the handlers that call it | `WorkspaceConfig` |
| Subprocess renderer, `internal/render/subprocess` | one run: processes, pipes, capped buffers, context | `Render` | `Subprocess` |
| Validation, `internal/lint`, `diagnostics` | results by document and by file | `Run`, `Document`, `RenderedDiagnostics`, `WalkLeaves` | `Lint` |
| Suppression directives, `suppress.go` | none | `ParseSuppressions`, `Filter` | `Suppressions` |
| Document store, `internal/document/store.go` | the text of each open document | `Open`, `Change` with `Apply`, `Close` | `DocumentStore`; also part of `LanguageServer` |
| Kubernetes template, `schema/k8s.go`, `detect.go` | none | parse, resolve, render | `K8sTemplate` |
| Globs, `schema/glob.go` and its callers | none | `matchGlob`, `Catalog.Match`, `matchSettings` | `Globs` |
| Schema walk, `schema/walk.go` | none | `Resolve`, `Properties`, `Enums`, `Required` | `SchemaWalk` |
| Syntax trees and positions, `internal/yamlast`; merge directives, `diagnostics/validate.go` | none | `LocateKey`, `LocateRange`, `normalizeMergeDirectives`, `OffsetAt`, `UTF16Position`, `pathToPointer`, `inferPathByIndent` | `YamlNodes`, `TextPositions`, `Pointers`, `Indentation` |
| URIs, editor features, editor extensions | none that two requests share | pure functions | not modelled |

How they interact. glsp hands the server one message at a time; the handler runs
on the message loop. Everything slow leaves it: `didOpen` and the debounce timer
of `didChange` start publishes on goroutines of their own, rendering runs on a
timer goroutine of the pipeline, which calls back into the server (`Notify`) and
starts another publish; a show command may leave a request behind that a later
`Notify` serves. Publishes ask the resolver for a schema reference and the store
for the schema, and never wait for the catalog: it is fetched in the background
and republishes the open documents through the reload hook. Settings changes come
in on the message loop and reach all of them through `applyLayers`: the resolver
(maybe a new catalog), the store's trust set, the renderers, and the pipeline,
which is invalidated when the renderer configuration changed.

What is hard. Nearly every mutex is released before the slow step and taken again
after it, and what was read in between may be stale: the epoch and the pointer
comparison of the pipeline, the publish sequence, the second open check in
`Notify`, the trust generation of the store, the key of the tree taken before the
lock are each a guard against one such interleaving. The disk cache writes two
files without a transaction. Results are remembered, so a wrong one stays.
`PROJECT.json` lists these hazards at their lines, with the properties for them.

What makes each component correct is, in a line: the newest request is answered
and nothing from before an invalidation is remembered (pipeline); the client ends
up with the newest results, and nothing of a closed document survives (server);
the caches agree with the trust set in force, compiles are shared, every caller
returns (store); entries are immutable once visible, and documents shown without
their schema are shown again (catalog); the two files fit each other (disk cache);
no caller gets a tree older than the change it knew of, nor an interrupted one
(tree); working settings survive a broken file and cached renders are of the
applied configuration (settings); only whole output is parsed, and the run ends
(subprocess); the server's text is the editor's and positions in it mean the same to both
(document store); concurrency and directives do not show in the report (validation); and
the pure functions compute what their comments say, on inputs with everything in
them that is hard: `**` at the ends of a path, nested expressions and escapes, schemas
that merge themselves, aliases and merge keys, CRLF and characters of two units.

## Modules

**RenderRequests** is what the pipeline promises, without timers, goroutines and
locks: a URI has at most one request outstanding and one remembered result; a
result is given to the newest request only; after `ForgetAll` an outstanding
request is never answered and nothing is remembered; a cancelled or timed-out
render is never remembered.

**RenderPipeline** has one action per critical section of `Pipeline.mu` and per step
outside it. A job is one call of `Schedule` and the goroutine it arms; it goes
through `Schedule` (renderer chosen), `ScheduleHit` or `ScheduleArm` (the critical
section), `Fire` (the timer), the render, `Writeback` or `Drop` (the second critical
section) and `Report` (`Notify`). `Configure` and `InvalidateAll` are the two ends of
`applyLayers` a Schedule can get in between. The text hash is taken to be exact.
`Requests` maps it to `RenderRequests`: the outstanding request is the registered
job unless its epoch is over.

**LanguageServer** instantiates `RenderPipeline` for its pipeline's types and
calls. A thread is a continuation, a sequence of frames; a frame is the code up to
the next point at which another thread can get in: one critical section, or one
read of the document store. `LoopStep` and `ThreadStep` run the frames, each named for
the function it is part of (`CancelDebounce`, `ForgetPublish`, `CancelRender`,
`ClearRenderState`, `StoreRendered`, ...). A message is taken when the loop's
continuation is empty. `LintTimerFires`, `RenderStep`, `Collect` and `Send` are the
debounce timer, the pipeline's goroutines and the two halves of a publish. A superseded
publish is dropped when it is superseded (`Unsuperseded`), not when its goroutine gets to
the check: sequence numbers are never reused, so nobody can tell, and the state space is
a fifth of what it would be.

**SchemaStore**: a caller is a goroutine in `Get`; `Join`, `Start`, `Load` (one document of
the compile), `Finish`. `SetRoot` and `ClearCaches` are the two halves of
`SetTrustRoot`, which are not under one lock. `Refs` says which documents a compile
loads.

**SchemaCatalog**: `Launch`/`FetchEnds`/`CallHook` are the fetch goroutine; `SetSettings`,
`Load`, `Start`, `SetReloadHook`, `RepublishOpen` the goroutine that applies settings
(`New`'s at first, in which the hook is set after the first `Load`); `Resolve`, `Match`,
`MatchUnloaded`, `Retry` an analysis of a document.

**DiskCache**: one action per file operation and per answer of the origin; contents and
ETags are numbers, 0 is a body that is not JSON; `Stop` is a kill or a failed write at any point.
Any number of loaders, of one process or of several, are under way at once, and the origin may
go back to an earlier content; two history variables say whether either has happened
(`overlapped`, `wentBack`), for the properties that hold until then (`Undisturbed`).

**FlateTree**: a caller takes its key (`Key`), waits for the lock, uses the cached tree,
gives up or builds; `Change` and `InvalidateTree` are a change on disk and its
notification; contents are numbered. `told` is what a Render can know of with file watching:
flate.go:95 ignores a change that is notified while another root is the build root, and it is
not counted after a return to its root either.

**WorkspaceConfig**: handlers run one after the other on the message loop, so each is one
action that includes the whole of `applyLayers`; the files change under them. It extends
**Registry**, whose methods are operators on the registry's record, each the whole of a
method under the registry's lock; a cached result is known by the renderer that made it. Four
settings stand for their kinds: one flag that is only merged (`kubernetes`), the built-in
renderer's entry, a command, a trusted path.

**Subprocess**: `Render` and the part of `cmd.Run` on its goroutine (`Start`, `Reap`, `Drained`,
`DelayExpires`, `Classify`), os/exec's watcher (`Cancel`), the two copying goroutines
(`Copy`, `EndOfFile`) and, external, the processes. os/exec is modelled from how
subprocess.go sets it up. Unix only.

**Suppressions** and **Lint**: the scan is a fold over lines abstracted to what it tells
apart: indent, the width of the dashes after it, content, the header of a block scalar (`opens`: what
the code takes for one), directive. The column a scalar's content has to exceed is YAML's
(`parent`), and the code's guess at it is `blockScalarParentIndent`; they agree where the scalar is the
value of a key on the line of its header (`HeadersFollowKeys`), which the properties ask of a text. Content
is told by that column alone, as suppress.go:140-141 says; YAML ends a scalar also at a
comment that is indented less than its first line. `Resolve`, `ValidateOneDoc`, `Reassemble`,
`RenderedDiagnostics` are operators, the two levels of goroutines with their semaphores are actions. `Live`, `Says`, `Suppressed`
(Suppressions) and `AskedFor`, `Contribution`, `Emitted` (Lint) are definitions of the
intended result that do not follow the code's loops.

Seven modules have no variables; each has the code's functions first and then, from
another angle, what they are meant to compute.

- **Globs**: `GlobMatch` is the recursion of globMatch, by the suffix of the pattern
  (`starts`, the places of the path it matches from); `PathMatches` cuts a path into runs of
  segments and a name into pieces. `**/` takes its slash along and stands for any
  characters, so `**/a` matches `ba`: glob.go:8 has it so ("any chars"), and `Anchored`
  leaves the converse out where what follows does not start with a star. path.Clean
  (external) goes along the segments and keeps some (`Walked`). It leaves of `**/../a` only
  `a`, without the `**` that would let it match at any depth: `MatchesAtAnyDepth` leaves that out.
- **K8sTemplate**: a template is a sequence of tokens and an expression stays its tokens, since
  parsing is a function of them; `IsTemplate` is the grammar, `Written` and `Meaning` write
  and evaluate expressions as trees. Four variables stand for eight; the empty
  setting, which means the default template, is left out.
- **SchemaWalk**: a schema graph has numbers for nodes; the order in which a walk visits nodes
  (`Visited`) is separate from what it collects. `Paths`, `Earlier` and `Acyclic` say which
  definition comes first. If a schema merges itself the definition that wins depends on the
  bound, so nothing is said of which it is.
- **YamlNodes**: a document is a tree, a node is known by its address; `Value` is the parser's
  decoding (external), in which each value knows its node: of merged keys, the mapping's own
  comes before merged ones and the first source before later ones, as YAML says. Anchor names are unique:
  with a name defined twice the code takes the last, YAML the one before the alias. Tags
  are not nodes here.
- **TextPositions**: texts of LF, CR and characters of one and of two UTF-16 units, between the
  client's positions, the parser's and offsets; `ApplyChange` makes one of the changes of a
  notification in a text. `Cursors` and `EditorPosition` are the editor's idea of both. Lines
  end with LF or CRLF for the code, and so they do for the client and the parser here; a CR by
  itself is an ordinary character for all three, though LSP 3.16 and YAML end a line there.
- **Pointers**: pointers and the parser's paths (`ParserPath`, made of the `PathPart`s of its segments, is external). "/" is the document,
  not its empty key. How the parser writes a key with a quote is not in this repository:
  `PathSegments` leaves such keys out.
- **Indentation**: the scan by indentation, on texts written from values (`Written`).

**DocumentStore** composes TextPositions with the messages: one document, which the editor and
the server each have a text of. The editor opens, edits and closes it and sends what it has
typed in notifications of one change or several; the store handles them in the order they were
sent (`DidOpen`, `DidChange`, `DidClose`). The editor is external; it says a change as a whole text
or as a range, from either end. `asSent` remembers the text the
editor had when it sent the notification that was handled last. What the server does besides with a notification is `LanguageServer`'s.

**Absent** has the one value (`None`) that stands for a missing one in the modules that need it.

**Questions** has the functions of Globs and Pointers as a state machine to state theorems of:
the state is the arguments of one of them, and nothing happens to it.

**MCRenderers** has one run for FlateTree and Subprocess: an initial state is the tree or a run of a
tool, and the other's state stays as it is.

**MCAlgorithms** extends MCLint, MCDocumentStore and Questions and instantiates the others: an
initial state is a run of `validate`, a document that is not open yet, or a question, the
arguments of one of these functions.

The `MC*` modules hold the instances: model values, symmetry, sets of inputs.
Operators marked "Mutant of" are plausible bugs used to see that each property
notices one; no specification uses them.

## Runs

Every run explores its whole state space; deadlock is checked in all but SchemaStore and
Renderers, which end (the bound on trust changes is used up and the callers may stop;
the tool's Render has returned).

| Run | Bounds | What it shows |
| --- | --- | --- |
| RenderPipeline | 2 URIs, 2 texts, 1 renderer, 3 jobs, 2 invalidations | `NoOrphanTimer`: no armed timer escapes supersede and Cancel. `CacheSinceInvalidation`: nothing scheduled before an invalidation is cached after it. `ImplementsRequests`: the refinement |
| LanguageServer | 1 URI, 3 renders, 2 workers, 3 messages: at most 2 edits (didOpen, didChange) and 2 of didClose and executeCommand | `ClosedIsForgotten`, `NewestPublishDelivered`, `StoredRenderShown`, `DeferredShowServed`, `PublishesInOrder`, `BaselineKept` |
| ServerLiveness | 1 URI, 2 renders, 2 workers; any 2 messages of all six kinds, and a didClose after 2 edits | `EventuallySettles`, `EditsArePublished` under fairness |
| SchemaStore | 3 callers, 2 keys that share a document, 2 trust changes | `CachedIsTrusted`, `RefusedIsUntrusted`, `JoinedIsTrusted`, `SingleFlight`; `EveryGetReturns` |
| SchemaCatalog | 2 catalogs, 2 fetchers, 2 documents | `EntriesReadOnly`, `NewCatalogRevisits`; `WaitReturns` |
| DiskCache | 2 loaders, 3 contents | `FilesFit` |
| WorkspaceConfig | 2 folders, 1 path, 3 commands, one of them disabled | `RenderersInForce`, `CacheOfApplied`, `TypoKeepsSettings` |
| Renderers, tree | 2 callers, 2 roots, 1 change per tree | `FreshTree`, `CachedIsWhole` |
| Renderers, tool | limits of 2 and 1 chunks, pipes of 2, 4 written | `NoTruncatedOutput`, `ErrorIsHonest`; `RenderReturns` |
| Algorithms, validation | files of up to 3 documents, 2 schemas, 2 goroutines per level; texts of 4 lines out of 17 | `SameAsSequential`, `SuppressedAsDirected` |
| Algorithms, globs | patterns of 5 and paths of 3 characters, of 3 and 3 with `.` and backslash | `GlobsMatchSegments` |
| Algorithms, templates | any 5 of 6 tokens, any 6 of 4; expressions nested in operand and word | `TemplatesMeanWhatTheySay` |
| Algorithms, schemas | any references among 3 nodes, walks bounded by 2 | `SchemasAreMerged` |
| Algorithms, documents | two anchors and their uses, directives everywhere, alias chains of 4 | `ErrorsAreLocated` |
| Algorithms, document | opened with up to 3 characters, some with 4; 2 edits that leave up to 2; 1 notification under way | `ServerHasEditorsText`, `ServersPositionsAgree` |
| Algorithms, pointers | 2 segments of 2 characters out of 8; values nested 3 deep | `PointersRoundTrip`, `InfersOpenMapping` |
| StalePublish | 1 URI, 2 renders, 1 worker, 2 edits | violation of `NewestVersionShown`, below |
| GroupOutlives | as Renderers, tool, with 2 written | violation of `GroupDoesNotOutlive`, below |
| ItemScalar | one text of 3 lines | violation of `ScalarsAreText`, below |

Why the bounds are enough for the cases the properties are about: the pipeline's
races are between a job that holds the entry, one that replaces it and one that is
past it, hence three; an invalidation can hit each of them, and a second one tells
"the last" from "the first". The server's state is kept by URI and the only things
URIs share are the publish counter and the message loop, hence one URI; two edits give an
old and a new document, three renders one that is over, one that runs and one that
comes; a show command and a close let a document be closed with a show deferred. For
the edit that has to get to its publish there is a close at any point of its way (a third message, `Late`);
a newer edit that takes its place is left out there, since it needs a third edit. The store needs
a compile of the old generation, one of the new one and a waiter; two keys because a document may be shared. A new catalog is an old one's successor, hence
two. A tree is at most one change behind what a caller knows, and the key is compared for
equality only. Three contents let an ETag be ahead of, equal to and behind the body, and the
origin go back by one and by two; two loaders overlap in every way a pair can. The
subprocess's limits are each reached, exceeded and not reached.
Among three nodes every cycle and every path to one exists, and a bound of 2 is the
number of steps that reach all three: one less, and something is missing; the code's 16 and
32 are as generous for the schemas there are. Two edits make the second depend on what
the first left.

`TypeOK` is an invariant of the runs RenderPipeline and SchemaStore. In the other modules
with variables it documents the state; the properties the runs check say more. It is
proved for all of them but WorkspaceConfig, where it holds with the bounds above.

## Fairness

Fairness is weak, and only for what the code or the runtime moves on its own:
goroutines that are ready to run (`ThreadStep`, `RenderStep`, `Collect`, `Send`, `Load`,
`Finish`, `Main`, `Copy`, ...), timers that have been armed (`LintTimerFires`, the debounce of a
job), the message loop working off its continuation, and requests that have a timeout
(a fetch ends, `fetchTimeout`; a render ends, `DefaultTimeout`; the pipes are closed,
`WaitDelay`). No message ever has to arrive, no file has to change, no retry has to
be due, the tool of a subprocess may hang, and the pipeline's Configure and InvalidateAll
need not happen. `EventuallySettles` says the server comes to rest since the number
of messages of a run is bounded. A server that forgets the next step also comes to rest:
`EditsArePublished` is what says that the steps are taken.

## Proofs

Each module of proofs extends the component's and holds for any sets of documents,
renderers, callers, goroutines, keys, files and contents, and any bound. The proofs are about the
specification without fairness (`Safe` where the module names it), which each `Spec` implies.
They assume the named ASSUMEs of the modules and nothing else: `None` is none of the other
values, bounds are natural numbers, a key is one of the documents its compile loads, the message
loop is no goroutine, what is given to `validate` is made of lines, schemas and renders
(`InputAssumption`), texts are sequences of characters (`TextAssumption`), and the characters
that globs treat specially are characters (`PathCharAssumption`).

*RenderPipeline.* `TypeCorrect` is inductive by itself. `PendingCorrect` proves
`PendingInv`, `NoOrphanTimer` together with `PendingOwnUri` (an entry names a job of its own
URI, armed or rendering). Neither is inductive alone: a writeback clears the entry
of its URI, so no other entry may name its job; a superseding `Schedule` stops the
timer its entry names, so no timer may be missing from the entries. `CacheCorrect` adds
that no job's epoch is ahead of the pipeline's (`EpochsSeen`): without it an invalidation
could make a job current. `PipelineImplementsRequests` uses the three invariants to map
each action: `ScheduleHit` and `ScheduleArm` to `Ask` (of an invisible kind when the answer
is known), `Writeback` to `Answer` or `GiveUp`, `Cancel` to `Forget`, `InvalidateAll` to `ForgetAll`,
everything else to a stutter.

*LanguageServer.* What makes these proofs long is the continuations, so their shape is the
first part of the invariant (`Types`): the loop's is either a sequence of frames of open
documents or the rest of one `didClose` (`CloseRest`), a goroutine's has only frames any
thread may run, and the goroutine of a render has none before its writeback. The other parts:

- `Forgetting`: a closed document has lost exactly what the frames of `didClose` that ran have
  taken away. `CloseForgets` is its last case; without the earlier ones no step could reach it.
- `Publishes`: at most one publish is under way for a URI, it has the URI's newest number,
  and the client has an older one. `PublishOrder` rests on it.
- `Delivering` and `Showing`: the newest publish of an open document has arrived, is under way,
  or a thread is about to schedule it; whichever it is carries the stored diagnostics or is
  followed by one that does. At rest they are `NewestDelivered` and `StoredIsShown`.
- `SchedulesRun`: a frame that calls the pipeline is its thread's next and has a job of its own.
- `Refreshing` and `Serving`: a document whose deferred show could be served has a debounce
  timer, a frame on the way to a render, or a registered render of the current epoch. Before the
  loop invalidates the pipeline or changes what renders it, it already holds the frames that
  analyze every open document afterwards, which is why an invalidated render does not lose
  the show. `DeferredServed` is this at rest.

`BaselineStays` needs no more than `Types`: only `didClose` clears a baseline, and then the
document is closed.

The server and the pipeline compose. Each step of the server is a step of its pipeline or
leaves it alone, as its actions are written (`ServersPipeline`), so what is proved of
RenderPipeline holds in the server whatever the client sends: `ServersPipelineCorrect` and
`ServerImplementsRequests` say so, and `Serving` uses the former: only because an entry names a
job of its own URI does the supersede of one document leave the render of another registered.

*SchemaStore.* The inductive invariant `Inv` ties the three places a compile is known by
together: `Registered` (the inflight entries are exactly the compiles of the current
generation), `Waiting` (nobody waits and compiles; a waiter's compile exists), `SeenIsTrusted` (what a
current compile has loaded the trust set permits, and what it was refused the trust
set refuses) and `CachesAreTrusted`. `CachedIsTrusted` alone is not inductive: a compile
that ends puts in the cache what it has seen. `StoreTypeCorrect`, `CachesFollowTrust`,
`RefusalsFollowTrust`, `JoinsFollowTrust` and `OneCompilePerKey` follow from it.

*SchemaCatalog.* `MatchReadsSafely` follows from `Fetches`: a fetch under way is the one its
catalog is loading for, and that catalog is not ready. `HookMissesNoDocument` needs `Booting`
and `Quiet` (until `New` has set the hook no catalog has one and nothing was analysed, which is
what tells a later catalog from the first) and `ReadsCatalog` (after a change of settings no
analysis is left that resolved with the catalog before).

*DiskCache.* `Holds` says for each point of a load how what the loader has read stands to the
files: the body file is what it read or gone, the ETag it sends is not ahead of that body, what
it is about to write fits the file that stays if it is killed right there. All of it, and that
nothing is newer than the origin (`Past`), is claimed until loads overlap or the origin goes back,
and until they overlap there is one loader (`Alone`). That gives `FilesFitEachOther` and
`ConfirmedBodyIsCurrent`. Neither condition is one the code ensures. For a URL that one schema uses in
one process the store's single flight compiles it once at a time, but nothing serialises the
loads of two schemas that refer to the same URL, of two processes, or of a compile that a new
trust set has made obsolete and its successor; and an origin is free to go back. What happens
then is told at `ConfirmedIsCurrent` below. `CacheIsJson` and `CacheTypeCorrect` have no condition.

*FlateTree.* `FreshTree` says nothing of the key, but the key is all the code compares, so the
invariant (`Fresh`) is about keys: a caller expects no more than what its key stands for
(`Expects`), callers of one key expect the same and the tree cached under it shows that
(`SameKey`), and the tree shows what its own key stands for even when no caller is left
(`CachedShows`). `TreeIsWhole` adds that whoever builds began with a live context.

*WorkspaceConfig.* `Applied` says that what `applyLayers` remembers is what the layers say now,
and that configuring the registry by it once more would change nothing: it is why leaving
out the invalidation when the configuration is unchanged leaves no stale result.
`Watched` ties the Flux renderer's knowledge of the watch to the registry's.

*Subprocess.* `Stage` says for each point of `Render` what is over by then; `Output` that no
output is lost between the tool and the buffer short of the limit; `Killed` that only the end of
the context kills. `RendersWholeOutput` and `ReportsHonestError` are about the result,
which is why they are part of the invariant themselves: it outlives the state it was made from.

**AlgorithmProofs** is about what functions compute, for inputs of any size. The code's loops
are folds (`FoldLeft`, `FlattenSeq`) or recursive functions here, and a fold is by its
definition a function over sets of places, the first so many being the ones the loop has been at.
That there is a least number among any is a theorem of the library (`LeastNat`); so a claim
about each step of a loop that holds of the first and is handed on holds of all (`NatInd`). `Chain`,
`Steps` and `FoldsAlong` turn a fold into the values it goes through, which all else is
about.

*Suppressions and Lint.* Suppressions first: what a scan of the lines leaves in force at a line
is what the lines before it say, and what is left out is decided place by place. That the scan
and the comments mean the same lines by the content of a scalar needs `HeadersFollowKeys`; without it
ItemScalar refutes it. The
inductive invariant `IInv` has for each file how far it has come (`FileInv`): the results of
its documents are in the places of their documents, each either not there yet or what
`DocResult` says, however many goroutines are under way; what a
file that is done has found is what it is meant to (`Emitted`); and no more goroutines run than their semaphores let. When
all are in, the output is the fold over the files in order (`Printed`), so
`SameAsSequential`; and since each result is place by place what the directives ask for,
`SuppressedAsDirected`. `LintTypeCorrect` is `TypeOK`.

*DocumentStore and TextPositions.* Lines are cut by line feeds, columns never fall along a line,
and the first place where the column is reached is where a position leads; so a position that an
editor has of a cursor leads back there, and any other position to the last place of the line
that is not beyond it (`PositionsAgree`). With it an edit that the editor sends as a range has
the same ends in the server's text (`ChangeIsEdit`). `SyncInv` says it of all that is under way:
each notification takes the text of the one before to its own (`AllTold`), and what was not sent
yet takes that of the last to the editor's (`UpToDate`). `EditsReachServer`,
`PositionsAlwaysAgree` and `StoreTypeOK` follow.

*Globs.* The places a pattern matches from (`Matches`) are told by the next character of pattern
and path. Within a segment they go along one cut of a name into pieces, each for a character
(`NameMatched`); from segment to segment along one cut of the path into runs (`PathMatched`). Both
are the same argument, from the last piece back (`Fits`). `**/` may stop in the middle of a name;
what comes after it can start with a star and so take the rest of that name, which is why
`Anchored` has the converse (`RestMatched`, `RestAnchored`). For globs at any depth, path.Clean of a path
with `**/` before it is path.Clean of the path with `**/` before that, unless the path leads up past its
start (`KeptAtAnyDepth`); so a pattern that is relative once cleaned gains exactly the segment
`**`, which takes whatever the path starts with. `GlobsMatch` is both.

*Pointers.* `ReplaceEach` goes on after what it has replaced, so what it does for one character is
a concatenation of what is written for each (`ReplaceOne`). Replaced back, every escape is found
where it was written: what comes before it is never taken for the start of one (`NotTaken`). For `~1`
that is because by then each `~` has a `0` after it (`FollowedAll`), which is why the two replacements are
undone in the opposite order (`EscapedIs`). Escaped segments have no slash: the last one of a
pointer is before its last segment (`SplitPointerIs`), and the slashes cut it into its
segments (`PointerReads`). `pathToPointer` is between segments whenever it has read what the parser
writes for one (`ReadPart`), in quotes, in brackets or neither. `PointersLeadBack` is all of it.

Only model-checked: liveness (`EventuallySettles`, `EditsArePublished`, `EveryGetReturns`, `WaitReturns`,
`RenderReturns`) and what depends on ENABLED are out of the prover's reach. So are modules that
declare RECURSIVE operators, `K8sTemplate`, `YamlNodes` and `Indentation`, and with them
`TemplatesMeanWhatTheySay`, `ErrorsAreLocated` and `InfersOpenMapping`: their trees and
expressions nest as deep as they like, and so do the definitions. `SchemasAreMerged` is about one bound of
the walk and the graphs small enough for it; a theorem would need the longest path of a graph.
The `TypeOK` of WorkspaceConfig is not proved: it needs what `SelectSeq` returns, for the folders that stay; to
the prover that is a primitive without facts. No module with a theorem
reaches a RECURSIVE operator.

## What the comments say and the code does not do

Three disagreements have a run:

- `StalePublish`. server.go:516-517: "The sequence guard drops a result superseded by a
  newer edit or a close." `Notify` publishes the document it read at its start with a new
  sequence number; `didChange` takes one only when its debounce timer fires. An edit
  whose publish comes in between is overwritten by the older text's diagnostics.
- `GroupOutlives`. procgroup_unix.go:12-13: "makes cancellation kill the child's whole process
  group, so grandchildren of a `sh -c` wrapper don't outlive the render timeout." Once the
  tool itself has exited, os/exec no longer watches the context: a timeout while the
  pipes are drained leaves a helper alive. `LateTimeout` lets the context end only then.
- `ItemScalar`. suppress.go:140-141: "blockScalarParentIndent returns the indent a following line must
  exceed to be inside a block scalar opened by line". For `- |` it counts the dash as for `- key: |`, so
  content that is indented by no more than the dash's width is read for directives. The same goes for other
  headers without a key on their line (`--- |`, or one that stands on a line of its own).

Others are stated as definitions at the end of their modules, under the same heading;
TLC refutes each of them in the instances above, or with the bounds named here.

| Definition | Text | Code |
| --- | --- | --- |
| `NoStaleRenderer` (RenderPipeline, 2 renderers) | server.go:333-334, changed configuration would otherwise keep serving old results | a Schedule that chose its renderer before `Configure` and takes the lock after `InvalidateAll` caches the old renderer's result |
| `RenderOfCurrentText` (LanguageServer, both texts renderable) | pipeline.go:94-98, superseding keeps old results from overwriting current diagnostics | two Notifys of two renders run after the pipeline's lock is released, in any order |
| `NotifyOffTheLoop` | pipeline.go:51-56, Notify is not called on the message loop | a cache hit calls it from Schedule, and executeCommand and didChangeWatchedFiles schedule from the loop |
| `PipelineBoundedByOpen` | pipeline.go:160-161, no entries for files no longer open | a Schedule that looked the document up before didClose arms or caches after `Cancel` |
| `NoTempsOfClosed` (LanguageServer, 1 edit, 2 other messages) | showdocument.go:114, temp files of a closed document are deleted | showInEditor may write one after that |
| `NoRenderWhenDisabled` | README.md:19-20, Kubernetes support can be disabled | stored rendered diagnostics stay until the document is closed or rendered again |
| `BaselineIsARender` | README.md:397-398, the diff is against the open-time render | a failed render that returns no text sets an empty baseline |
| `CatalogRevisits` (SchemaCatalog) | server.go:488-490, documents resolved via the catalog get their diagnostics once it is there | `NewResolver` loads the default catalog before `New` sets the hook, so the first catalog has none |
| `ConfirmedIsCurrent` (DiskCache) | diskloader.go:98-99, a 304 means the origin just confirmed the cached body | with one loader: the body is written before the meta file, whose write may fail or never come; the ETag of the older content stays, and if the origin goes back to it, its 304 confirms a body it does not serve. With two: one writes its body last, the other its ETag, and the 304 for the ETag confirms the other's body |
| `AppliedToRoot` (WorkspaceConfig) | README.md:319, the root is the workspace root | a config file that does not parse in the new root returns before applyLayers, so the old root stays applied |
| `LayeredPrecedence` | README.md:341-342, three layers | didChangeConfiguration replaces initializationOptions as a whole |
| `FlateEnabledByDefault` | README.md:288-291, enabled by default | an entry that disables flate and then disappears leaves it disabled |

Not modelled as a definition: subprocess.go:22-28 speaks of the wait "after a
cancellation", but it also starts when the tool exits by itself, and a helper that holds
the pipes then makes the run a failure and is not killed; cli.go:146-147 says
`# yayamlls-disable` covers rendered findings, which are on the first line, where no
block directive above can reach; cli.go:28-30 gives exit code 2 for an I/O error, but an
unreadable file among others gives 1.

## Not modelled

- Clients without `window/showDocument` (the result payload instead of a temp file), the
  diff view, and the requests that only read (hover, completion, symbols, folding, links, lenses,
  actions): they change no state.
- `initialize` beyond the settings, `shutdown` and `exit`, the transport; didSave.
- The HTTP client with its proxy and dial rules; the schema library; git and helm inside
  flate; scoping a tree to a document.
- The YAML parser and what parse.go repairs before it, the extent of a node in the text, the
  search for the node at the cursor (all defined by the parser's tokens), URIs.
- Builds for systems without process groups. Durations: debounce, timeout, retry interval and
  freshness are "at some point".
- In `WorkspaceConfig`, two subprocess entries at once: which of them comes first is the
  iteration order of a map, renderer.go:176.

## Plan

Done: the order was pipeline, server, store, then the components the server talks to,
then the command line; each core module before the ones that compose it.

Then came the functions the others rest on, and the registry composed with the settings.

Next, modelled and checked: the diff view and clients without `window/showDocument` in
`LanguageServer`; a second URI; the extent of nodes and `LocateCursor` over a model of the
parser's tokens.

Proved, in this order: the pipeline and its refinement, the store, the other components by
themselves, the server, and the server with the pipeline in it.

Then what validation, edits, globs and pointers compute, for inputs of any size.
