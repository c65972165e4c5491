------------------------ MODULE WorkspaceConfigProofs ------------------------
(***************************************************************************)
(* Proofs about WorkspaceConfig, for any folders, any contents of their    *)
(* config files and any settings of the client.                            *)
(***************************************************************************)
EXTENDS WorkspaceConfig, TLAPS

USE NoneAssumption

\* The registry is a record of its fields, and so is the Flux renderer in it.
Shape ==
    registry = [wsRoot |-> registry.wsRoot, watchActive |-> registry.watchActive,
                dynamic |-> registry.dynamic,
                flate |-> [disabled |-> registry.flate.disabled, path |-> registry.flate.path,
                           root |-> registry.flate.root,
                           eventDriven |-> registry.flate.eventDriven]]

\* The renderers that the entry of a command makes.
Built(command, root) == IF command = None THEN <<>> ELSE <<FromConfig(command, root)>>

\* What renderCfg remembers is what the layers say now, and the registry is what
\* configuring it by that once more would make of it.
Applied ==
    LET renderers == TrustedRenderers(workspaceSettings, overrides) IN
    /\ renderCfg = RenderConfig(registry.wsRoot, renderers)
    /\ registry.flate.root = registry.wsRoot
    /\ registry.flate = FlateConfigured(registry.flate, renderers.flate)
    /\ registry.dynamic = Built(renderers.command, registry.wsRoot)

\* The Flux renderer knows of the watch when the registry does.
Watched ==
    /\ registry.flate.eventDriven = registry.watchActive
    /\ registry.flate.eventDriven => clientWatchFiles

Inv == Shape /\ Applied /\ Watched /\ CacheOfApplied

-----------------------------------------------------------------------------
\* What For makes of a document depends on no more than this.
LEMMA ForDepends ==
    ASSUME NEW r, NEW s, NEW kind,
           r.dynamic = s.dynamic,
           r.flate.disabled = s.flate.disabled,
           r.flate.path = s.flate.path,
           r.flate.root = s.flate.root
    PROVE  For(r, kind) = For(s, kind)
<1>1. FlateRenderer(r) = FlateRenderer(s) BY DEF FlateRenderer
<1> QED BY <1>1 DEF For

\* What applying a configuration makes of the registry: the watch alone stays as
\* it is, and what the settings do not say about the Flux renderer.
LEMMA ConfigureFields ==
    ASSUME Shape, NEW root, NEW renderers,
           registry' = Configure(SetWorkspaceRoot(registry, root), renderers)
    PROVE  /\ registry'.wsRoot = root
           /\ registry'.watchActive = registry.watchActive
           /\ registry'.dynamic = Built(renderers.command, root)
           /\ registry'.flate = FlateConfigured([registry.flate EXCEPT !.root = root],
                                                renderers.flate)
           /\ registry' = [wsRoot |-> registry'.wsRoot, watchActive |-> registry'.watchActive,
                           dynamic |-> registry'.dynamic, flate |-> registry'.flate]
<1> DEFINE moved == SetWorkspaceRoot(registry, root)
           seq == [i \in DOMAIN registry.dynamic |-> [registry.dynamic[i] EXCEPT !.root = root]]
<1>1. moved = [wsRoot |-> root, watchActive |-> registry.watchActive,
               dynamic |-> seq, flate |-> [registry.flate EXCEPT !.root = root]]
  <2>1. moved = [registry EXCEPT !.wsRoot = root,
                                 !.flate = [registry.flate EXCEPT !.root = root],
                                 !.dynamic = seq]
    BY DEF SetWorkspaceRoot, Shape
  <2> HIDE DEF moved, seq
  <2> QED BY <2>1 DEF Shape
<1>2. registry' = [moved EXCEPT !.flate = FlateConfigured(moved.flate, renderers.flate),
                                !.dynamic = Built(renderers.command, moved.wsRoot)]
  BY <1>1 DEF Configure, Built
<1> HIDE DEF moved, seq
<1> QED BY <1>1, <1>2

\* What the Flux renderer is configured to, and that it stays so.
LEMMA FlateFields ==
    ASSUME NEW disabled, NEW path, NEW root, NEW eventDriven, NEW cfg
    PROVE  LET f == [disabled |-> disabled, path |-> path, root |-> root,
                     eventDriven |-> eventDriven]
               g == FlateConfigured(f, cfg)
           IN  /\ g = [disabled |-> g.disabled, path |-> g.path, root |-> root,
                       eventDriven |-> eventDriven]
               /\ g = FlateConfigured(g, cfg)
  BY DEF FlateConfigured

\* So does the Flux renderer that has come to know of the watch.
LEMMA FlateWatch ==
    ASSUME NEW disabled, NEW path, NEW root, NEW before, NEW after, NEW cfg
    PROVE  LET flate(eventDriven) == [disabled |-> disabled, path |-> path, root |-> root,
                                      eventDriven |-> eventDriven]
           IN  flate(before) = FlateConfigured(flate(before), cfg)
                  => flate(after) = FlateConfigured(flate(after), cfg)
<1> DEFINE flate(eventDriven) == [disabled |-> disabled, path |-> path, root |-> root,
                                  eventDriven |-> eventDriven]
<1>1. CASE cfg = None BY <1>1 DEF FlateConfigured
<1>2. CASE cfg # None
  <2>1. PICK off : off = (cfg.enabled = "off") OBVIOUS
  <2> DEFINE set == IF cfg.enabled = None THEN disabled ELSE off
  <2>2. \A e : FlateConfigured(flate(e), cfg)
                 = [flate(e) EXCEPT !.disabled = set, !.path = cfg.path]
    <3> SUFFICES ASSUME NEW e
                 PROVE  FlateConfigured(flate(e), cfg)
                          = [flate(e) EXCEPT !.disabled = set, !.path = cfg.path]
      OBVIOUS
    <3>1. CASE cfg.enabled = None BY <1>2, <3>1 DEF FlateConfigured
    <3>2. CASE cfg.enabled # None BY <1>2, <2>1, <3>2 DEF FlateConfigured
    <3> QED BY <3>1, <3>2
  <2> HIDE DEF set
  <2>3. \A e : FlateConfigured(flate(e), cfg)
                 = [disabled |-> set, path |-> cfg.path, root |-> root, eventDriven |-> e]
    BY <2>2
  <2>4. ASSUME flate(before) = FlateConfigured(flate(before), cfg)
        PROVE  disabled = set /\ path = cfg.path
    <3>1. FlateConfigured(flate(before), cfg)
            = [disabled |-> set, path |-> cfg.path, root |-> root, eventDriven |-> before]
      BY <2>3
    <3>2. [disabled |-> disabled, path |-> path, root |-> root, eventDriven |-> before]
            = [disabled |-> set, path |-> cfg.path, root |-> root, eventDriven |-> before]
      BY <2>4, <3>1
    <3> QED BY <3>2
  <2> QED BY <2>3, <2>4
<1> QED BY <1>1, <1>2

\* Applying the layers: the renderers are in force, and when this is no change,
\* none of them has changed.
LEMMA ApplyInv ==
    ASSUME Inv, NEW root, NEW ws, NEW ov,
           Apply(root, ws, ov), workspaceSettings' = ws, overrides' = ov,
           UNCHANGED clientWatchFiles
    PROVE  Inv'
<1> DEFINE renderers == TrustedRenderers(ws, ov)
           moved == [disabled |-> registry.flate.disabled, path |-> registry.flate.path,
                     root |-> root, eventDriven |-> registry.flate.eventDriven]
<1>1. /\ registry'.wsRoot = root
      /\ registry'.watchActive = registry.watchActive
      /\ registry'.dynamic = Built(renderers.command, root)
      /\ registry'.flate = FlateConfigured([registry.flate EXCEPT !.root = root],
                                           renderers.flate)
      /\ registry' = [wsRoot |-> registry'.wsRoot, watchActive |-> registry'.watchActive,
                      dynamic |-> registry'.dynamic, flate |-> registry'.flate]
  BY ConfigureFields DEF Apply, Inv
<1>2. [registry.flate EXCEPT !.root = root] = moved BY DEF Inv, Shape
<1>3. /\ registry'.flate = [disabled |-> registry'.flate.disabled,
                            path |-> registry'.flate.path,
                            root |-> root, eventDriven |-> registry.flate.eventDriven]
      /\ registry'.flate = FlateConfigured(registry'.flate, renderers.flate)
  BY <1>1, <1>2, FlateFields
<1>4. renderCfg' = RenderConfig(root, renderers) BY DEF Apply
<1> HIDE DEF renderers, moved
<1>5. Shape' BY <1>1, <1>3 DEF Shape
<1>6. Applied' BY <1>1, <1>3, <1>4 DEF Applied, renderers
<1>7. Watched' BY <1>1, <1>3 DEF Inv, Watched
<1>8. CacheOfApplied'
  <2>1. CASE renderCfg' # renderCfg
    <3>1. cachedUnder' = {} BY <1>4, <2>1 DEF Apply, ConfigChanged, renderers
    <3> QED BY <3>1 DEF CacheOfApplied
  <2>2. CASE renderCfg' = renderCfg
    <3>1. cachedUnder' = cachedUnder BY <1>4, <2>2 DEF Apply, ConfigChanged, renderers
    <3>2. /\ registry.wsRoot = root
          /\ renderers = TrustedRenderers(workspaceSettings, overrides)
      BY <1>4, <2>2 DEF Inv, Applied, RenderConfig
    <3>3. registry'.dynamic = registry.dynamic BY <1>1, <3>2 DEF Inv, Applied
    <3>4. [registry.flate EXCEPT !.root = root] = registry.flate
      BY <3>2 DEF Inv, Applied, Shape
    <3>5. registry'.flate = registry.flate BY <1>1, <3>2, <3>4 DEF Inv, Applied
    <3>6. \A cached \in cachedUnder :
             For(registry', cached.kind) = For(registry, cached.kind)
      BY <3>3, <3>5, ForDepends
    <3> QED BY <3>1, <3>6 DEF Inv, CacheOfApplied
  <2> QED BY <2>1, <2>2
<1> QED BY <1>5, <1>6, <1>7, <1>8 DEF Inv

\* What is not touched keeps the invariant.
LEMMA UntouchedInv ==
    ASSUME Inv, UNCHANGED <<workspaceSettings, overrides, clientWatchFiles, appliedVars>>
    PROVE  Inv'
<1>1. UNCHANGED <<registry, renderCfg, cachedUnder>> BY DEF appliedVars
<1>2. Shape' BY <1>1 DEF Inv, Shape
<1>3. Applied' BY <1>1 DEF Inv, Applied
<1>4. Watched' BY <1>1 DEF Inv, Watched
<1>5. CacheOfApplied' BY <1>1 DEF Inv, CacheOfApplied
<1> QED BY <1>2, <1>3, <1>4, <1>5 DEF Inv

\* A file that does not parse changes nothing, any other is applied.
LEMMA ReloadInv ==
    ASSUME Inv, NEW root, Reload(root), UNCHANGED <<overrides, clientWatchFiles>>
    PROVE  Inv'
<1>1. CASE LoadFromWorkspace(root) = Malformed BY <1>1, UntouchedInv DEF Reload
<1>2. CASE LoadFromWorkspace(root) # Malformed
  <2>1. /\ workspaceSettings' = LoadFromWorkspace(root)
        /\ Apply(root, LoadFromWorkspace(root), overrides)
    BY <1>2 DEF Reload
  <2> QED BY <2>1, ApplyInv
<1> QED BY <1>1, <1>2

\* The server has applied the first settings.
LEMMA InitInv == Init => Inv
<1> SUFFICES ASSUME Init PROVE Inv
  OBVIOUS
<1>1. PICK root, ws, init :
        /\ workspaceSettings = ws /\ overrides = init
        /\ registry = Configure(SetWorkspaceRoot(NewRegistry, root), TrustedRenderers(ws, init))
        /\ renderCfg = RenderConfig(root, TrustedRenderers(ws, init))
        /\ cachedUnder = {}
  BY DEF Init, InitializedWith
<1> DEFINE renderers == TrustedRenderers(ws, init)
<1>0. PICK no : no = FALSE OBVIOUS
<1> DEFINE flate == [disabled |-> no, path |-> None, root |-> root, eventDriven |-> no]
<1>2. SetWorkspaceRoot(NewRegistry, root) =
        [wsRoot |-> root, watchActive |-> no, dynamic |-> <<>>, flate |-> flate]
  <2>0. NewRegistry = [wsRoot |-> None, watchActive |-> no, dynamic |-> <<>>,
                       flate |-> [disabled |-> no, path |-> None, root |-> None,
                                  eventDriven |-> no]]
    BY <1>0, Zenon DEF NewRegistry
  <2> DEFINE seq == [i \in DOMAIN NewRegistry.dynamic |->
                        [NewRegistry.dynamic[i] EXCEPT !.root = root]]
  <2>1. seq = <<>> BY <2>0
  <2>2. [NewRegistry.flate EXCEPT !.root = root] = flate BY <2>0
  <2>3. SetWorkspaceRoot(NewRegistry, root) =
          [NewRegistry EXCEPT !.wsRoot = root, !.flate = flate, !.dynamic = seq]
    <3>1. SetWorkspaceRoot(NewRegistry, root) =
            [NewRegistry EXCEPT !.wsRoot = root,
                                !.flate = [NewRegistry.flate EXCEPT !.root = root],
                                !.dynamic = seq]
      BY <2>0 DEF SetWorkspaceRoot
    <3> HIDE DEF seq, flate
    <3> QED BY <2>2, <3>1
  <2> HIDE DEF seq, flate
  <2> QED BY <2>0, <2>1, <2>3
<1>3. registry = [wsRoot |-> root, watchActive |-> no,
                  dynamic |-> Built(renderers.command, root),
                  flate |-> FlateConfigured(flate, renderers.flate)]
  <2> DEFINE moved == SetWorkspaceRoot(NewRegistry, root)
  <2>1. registry = [moved EXCEPT !.flate = FlateConfigured(moved.flate, renderers.flate),
                                 !.dynamic = Built(renderers.command, moved.wsRoot)]
    BY <1>1, <1>2 DEF Configure, Built
  <2> HIDE DEF moved, flate, renderers
  <2>2. moved = [wsRoot |-> root, watchActive |-> no, dynamic |-> <<>>, flate |-> flate]
    BY <1>2 DEF moved
  <2> QED BY <2>1, <2>2
<1>4. /\ registry.flate = [disabled |-> registry.flate.disabled, path |-> registry.flate.path,
                           root |-> root, eventDriven |-> no]
      /\ registry.flate = FlateConfigured(registry.flate, renderers.flate)
  BY <1>3, FlateFields
<1> HIDE DEF flate, renderers
<1>5. Shape BY <1>3, <1>4 DEF Shape
<1>6. Applied BY <1>1, <1>3, <1>4 DEF Applied, renderers
<1>7. Watched
  <2>1. registry.watchActive = no BY <1>3
  <2>2. registry.flate.eventDriven = no BY <1>4
  <2> QED BY <1>0, <2>1, <2>2, Zenon DEF Watched
<1>8. CacheOfApplied BY <1>1 DEF CacheOfApplied
<1> QED BY <1>5, <1>6, <1>7, <1>8 DEF Inv

\* The watch changes no renderer's answers.
LEMMA InitializedInv ==
    ASSUME Inv, Initialized
    PROVE  Inv'
<1>1. /\ clientWatchFiles
      /\ registry' = SetFileWatchActive(registry, TRUE)
      /\ UNCHANGED <<workspaceSettings, overrides, clientWatchFiles, renderCfg, cachedUnder>>
  BY DEF Initialized, serverVars
<1>0. PICK yes : yes = TRUE OBVIOUS
<1>2. /\ registry'.wsRoot = registry.wsRoot
      /\ registry'.watchActive = yes
      /\ registry'.dynamic = registry.dynamic
      /\ registry'.flate = [disabled |-> registry.flate.disabled, path |-> registry.flate.path,
                            root |-> registry.flate.root, eventDriven |-> yes]
      /\ registry' = [wsRoot |-> registry'.wsRoot, watchActive |-> registry'.watchActive,
                      dynamic |-> registry'.dynamic, flate |-> registry'.flate]
  <2> DEFINE flate == [registry.flate EXCEPT !.eventDriven = yes]
  <2>1. registry' = [registry EXCEPT !.watchActive = yes, !.flate = flate]
    <3>1. registry' = [registry EXCEPT !.watchActive = yes, !.flate.eventDriven = yes]
      BY <1>0, <1>1, Zenon DEF SetFileWatchActive
    <3> QED BY <3>1 DEF Inv, Shape
  <2>2. flate = [disabled |-> registry.flate.disabled, path |-> registry.flate.path,
                 root |-> registry.flate.root, eventDriven |-> yes]
    BY DEF Inv, Shape
  <2> HIDE DEF flate
  <2> QED BY <2>1, <2>2 DEF Inv, Shape
<1>3. Shape' BY <1>2 DEF Shape
<1>4. Applied'
  <2>1. registry'.flate = FlateConfigured(registry'.flate,
                             TrustedRenderers(workspaceSettings, overrides).flate)
    <3> DEFINE cfg == TrustedRenderers(workspaceSettings, overrides).flate
    <3>1. registry.flate = FlateConfigured(registry.flate, cfg) BY DEF Inv, Applied
    <3> HIDE DEF cfg
    <3>2. registry.flate = [disabled |-> registry.flate.disabled, path |-> registry.flate.path,
                            root |-> registry.flate.root,
                            eventDriven |-> registry.flate.eventDriven]
      BY DEF Inv, Shape
    <3>3. registry'.flate = FlateConfigured(registry'.flate, cfg)
      BY <1>2, <3>1, <3>2, FlateWatch
    <3> QED BY <3>3 DEF cfg
  <2>2. registry'.flate.root = registry'.wsRoot BY <1>2 DEF Inv, Applied
  <2> QED BY <1>1, <1>2, <2>1, <2>2 DEF Inv, Applied
<1>5. Watched'
  <2>1. registry'.flate.eventDriven = yes BY <1>2
  <2> QED BY <1>0, <1>1, <1>2, <2>1, Zenon DEF Watched
<1>6. CacheOfApplied'
  <2>1. \A cached \in cachedUnder : For(registry', cached.kind) = For(registry, cached.kind)
    BY <1>2, ForDepends
  <2> QED BY <1>1, <2>1 DEF Inv, CacheOfApplied
<1> QED BY <1>3, <1>4, <1>5, <1>6 DEF Inv

\* The invariant is inductive.
LEMMA StepInv == Inv /\ [Next]_vars => Inv'
<1> SUFFICES ASSUME Inv, [Next]_vars PROVE Inv'
  OBVIOUS
<1> USE DEF serverVars
<1>1. ASSUME NEW removed, NEW added, DidChangeWorkspaceFolders(removed, added) PROVE Inv'
  <2> DEFINE root == NextRoot(Folders(removed, added), removed)
  <2>1. UNCHANGED <<overrides, clientWatchFiles>> BY <1>1 DEF DidChangeWorkspaceFolders
  <2>2. Reload(root) \/ UNCHANGED <<workspaceSettings, appliedVars>>
    BY <1>1 DEF DidChangeWorkspaceFolders
  <2> HIDE DEF root
  <2> QED BY <2>1, <2>2, ReloadInv, UntouchedInv
<1>2. ASSUME NEW f \in Folder, SaveConfig(f) PROVE Inv'
  BY <1>2, UntouchedInv DEF SaveConfig
<1>3. CASE DidChangeConfigFile BY <1>3, ReloadInv DEF DidChangeConfigFile
<1>4. CASE DidChangeConfig BY <1>4, ApplyInv DEF DidChangeConfig
<1>5. CASE Initialized BY <1>5, InitializedInv
<1>6. ASSUME NEW kind \in Kind, Render(kind) PROVE Inv'
  <2>1. /\ cachedUnder' = cachedUnder \cup {[kind |-> kind, renderer |-> For(registry, kind)]}
        /\ UNCHANGED <<workspaceSettings, overrides, clientWatchFiles, registry, renderCfg>>
    BY <1>6 DEF Render
  <2>2. Shape' BY <2>1 DEF Inv, Shape
  <2>3. Applied' BY <2>1 DEF Inv, Applied
  <2>4. Watched' BY <2>1 DEF Inv, Watched
  <2>5. CacheOfApplied' BY <2>1 DEF Inv, CacheOfApplied
  <2> QED BY <2>2, <2>3, <2>4, <2>5 DEF Inv
<1>7. CASE UNCHANGED vars BY <1>7, UntouchedInv DEF vars
<1> QED BY <1>1, <1>2, <1>3, <1>4, <1>5, <1>6, <1>7 DEF Next

LEMMA Invariance == Spec => []Inv
<1> QED BY InitInv, StepInv, PTL DEF Spec

-----------------------------------------------------------------------------
\* renderer.go:183-186 and 227-228, in whatever order the settings, the root and the
\* watch of the client come, every renderer has the root applied last and knows of
\* the watch, and the dynamic renderers are the one for the client's entry, if any.
THEOREM RenderersFollowSettings == Spec => []RenderersInForce
<1>1. Inv => RenderersInForce
  <2> SUFFICES ASSUME Inv PROVE RenderersInForce
    OBVIOUS
  <2> DEFINE entry == TrustedRenderers(workspaceSettings, overrides).command
             dynamic == ToSet(registry.dynamic)
  <2>1. /\ renderCfg.root = registry.wsRoot /\ registry.flate.root = registry.wsRoot
        /\ registry.dynamic = Built(entry, registry.wsRoot)
    BY DEF Inv, Applied, RenderConfig
  <2>2. dynamic = IF entry = None THEN {} ELSE {FromConfig(entry, registry.wsRoot)}
    <3>1. ToSet(<<>>) = {} BY DEF ToSet
    <3>2. ToSet(<<FromConfig(entry, registry.wsRoot)>>) = {FromConfig(entry, registry.wsRoot)}
      BY DEF ToSet
    <3> HIDE DEF entry
    <3> QED BY <2>1, <3>1, <3>2 DEF Built
  <2> HIDE DEF entry, dynamic
  <2>3. /\ FromConfig(entry, registry.wsRoot).root = registry.wsRoot
        /\ FromConfig(entry, registry.wsRoot).command = entry
    BY DEF FromConfig
  <2>4. /\ \A r \in dynamic : r.root = renderCfg.root
        /\ {r.command : r \in dynamic} = {entry} \ {None}
    <3>1. CASE entry = None BY <2>2, <3>1
    <3>2. CASE entry # None BY <2>1, <2>2, <2>3, <3>2
    <3> QED BY <3>1, <3>2
  <2> QED BY <2>1, <2>4 DEF RenderersInForce, Inv, Watched, entry, dynamic
<1> QED BY <1>1, Invariance, PTL

\* server.go:333-334, no result of the pipeline's cache was made by a renderer other
\* than the one that would make it now, in its present configuration.
THEOREM CacheFollowsSettings == Spec => []CacheOfApplied
<1>1. Inv => CacheOfApplied BY DEF Inv
<1> QED BY <1>1, Invariance, PTL

\* handlers.go:270-272, a config file that does not parse, saved or met in a new
\* root, leaves the workspace's settings as they were.
THEOREM TyposAreHarmless == Spec => TypoKeepsSettings
<1>1. [Next]_vars =>
        [workspaceSettings' # workspaceSettings =>
           (workspaceRoot' = None \/ files[workspaceRoot'] # Malformed)]_vars
  <2> SUFFICES ASSUME Next, workspaceSettings' # workspaceSettings
               PROVE  workspaceRoot' = None \/ files[workspaceRoot'] # Malformed
    OBVIOUS
  <2>1. PICK root : Reload(root) /\ workspaceRoot' = root
    BY DEF Next, DidChangeWorkspaceFolders, SaveConfig, DidChangeConfigFile, DidChangeConfig,
           Initialized, Render, serverVars
  <2> QED BY <2>1 DEF Reload, LoadFromWorkspace
<1> QED BY <1>1, PTL DEF Spec, TypoKeepsSettings
=============================================================================
