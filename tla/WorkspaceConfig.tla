--------------------------- MODULE WorkspaceConfig ---------------------------
(***************************************************************************)
(* The server's settings: the workspace layer read from .yayamlls.yaml in  *)
(* the workspace root, the client's layer, and what applyLayers makes of   *)
(* them (internal/lsp/server.go, handlers.go, internal/config/file.go),    *)
(* with the renderer registry they configure.  Handlers run on the message *)
(* loop, one after the other, so each is one action; the files change      *)
(* under them.                                                             *)
(***************************************************************************)
EXTENDS Registry, SequencesExt

CONSTANTS
    Folder,         \* workspace folders
    FileSettings,   \* what config files may say
    ClientSettings, \* what the client may send
    Malformed       \* a config file that does not parse

Settings == [kubernetes : Flag \cup {None}, flate : FlateConfig \cup {None},
             command : Command \cup {None}, trusted : Path \cup {None}]

ASSUME SettingsAssumption ==
    FileSettings \subseteq Settings /\ ClientSettings \subseteq Settings
ASSUME NoneAssumption ==
    /\ None \notin Folder \cup Path \cup Command \cup Flag
    /\ None # Malformed /\ Malformed \notin Settings /\ None \notin FlateConfig

VARIABLES
    files,             \* files[f]: the config file of folder f, None when there is none
    workspaceFolders,  \* Server.workspaceFolders
    workspaceRoot,     \* Server.workspaceRoot
    workspaceSettings, \* Server.workspaceSettings
    overrides,         \* Server.overrides
    sent,              \* what the client sent: initializationOptions, then the latest
                       \* didChangeConfiguration, None before it
    settings,          \* Server.settings
    trusted,           \* the path applyLayers told the schema store to trust
    registry,          \* Server.renderer
    clientWatchFiles,  \* the client reports file changes if it is asked to
    renderCfg,         \* Server.renderCfg
    cachedUnder        \* the results in the pipeline's cache: of what kind of document,
                       \* and by which renderer they were made

serverVars == <<workspaceFolders, workspaceRoot, workspaceSettings, overrides, sent,
                clientWatchFiles>>
appliedVars == <<settings, trusted, registry, renderCfg, cachedUnder>>
vars == <<files, serverVars, appliedVars>>

Zero == [kubernetes |-> None, flate |-> None, command |-> None, trusted |-> None]

-----------------------------------------------------------------------------
(* Package config                                                           *)

Override(base, over) == IF over # None THEN over ELSE base

\* Merge: the override wins where it says something, entry by entry for the
\* renderers.  The trusted paths stay those of the base; nothing reads them there.
Merge(base, over) ==
    [kubernetes |-> Override(base.kubernetes, over.kubernetes),
     flate      |-> Override(base.flate, over.flate),
     command    |-> Override(base.command, over.command),
     trusted    |-> base.trusted]

\* LoadFromWorkspace
LoadFromWorkspace(root) ==
    IF root = None \/ files[root] = None THEN Zero ELSE files[root]

\* TrustedRenderers: a command is honoured from the client's layer only.
TrustedRenderers(ws, ov) ==
    [flate |-> Override(ws.flate, ov.flate), command |-> ov.command]

-----------------------------------------------------------------------------
(* applyLayers                                                              *)

\* What the renderers are configured by.
RenderConfig(root, renderers) == [root |-> root, renderers |-> renderers]

\* Mutant of ConfigChanged: a new root alone does not count as a change.
RenderersChanged(cfg) == cfg.renderers # renderCfg.renderers

\* Whether the pipeline is invalidated.
ConfigChanged(cfg) == cfg # renderCfg

\* The settings are merged, the schema store and the renderers told, and the
\* pipeline's results dropped if their configuration changed.
Apply(root, ws, ov) ==
    LET renderers == TrustedRenderers(ws, ov) IN
    /\ settings' = Merge(ws, ov)
    /\ trusted' = ov.trusted
    /\ registry' = Configure(SetWorkspaceRoot(registry, root), renderers)
    /\ renderCfg' = RenderConfig(root, renderers)
    /\ cachedUnder' = IF ConfigChanged(RenderConfig(root, renderers)) THEN {} ELSE cachedUnder

\* Mutant of Reload: a file that does not parse counts as an empty one.
ReloadOrForget(root) ==
    LET loaded == LoadFromWorkspace(root)
        ws == IF loaded = Malformed THEN Zero ELSE loaded IN
    workspaceSettings' = ws /\ Apply(root, ws, overrides)

\* reloadWorkspaceConfig: a file that does not parse leaves everything as it is.
Reload(root) ==
    LET loaded == LoadFromWorkspace(root) IN
    IF loaded = Malformed THEN UNCHANGED <<workspaceSettings, appliedVars>>
    ELSE workspaceSettings' = loaded /\ Apply(root, loaded, overrides)

-----------------------------------------------------------------------------
\* initialize with the folders fs, or without folders and the rootUri given; a
\* config file that does not parse counts as an empty one.
InitializedWith(fs, rootUri, content, init) ==
    LET root == IF fs = <<>> THEN rootUri ELSE fs[1]
        ws == IF root = None \/ content[root] \in {None, Malformed} THEN Zero
              ELSE content[root]
        renderers == TrustedRenderers(ws, init) IN
    /\ files = content
    /\ workspaceFolders = fs
    /\ workspaceRoot = root
    /\ workspaceSettings = ws
    /\ overrides = init
    /\ sent = [init |-> init, change |-> None]
    /\ settings = Merge(ws, init)
    /\ clientWatchFiles \in BOOLEAN
    /\ trusted = init.trusted
    /\ registry = Configure(SetWorkspaceRoot(NewRegistry, root), renderers)
    /\ renderCfg = RenderConfig(root, renderers)
    /\ cachedUnder = {}

Content == FileSettings \cup {None, Malformed}

Init ==
    \E fs \in {<<>>} \cup {<<f>> : f \in Folder}, rootUri \in Folder \cup {None},
       content \in [Folder -> Content], init \in ClientSettings :
        InitializedWith(fs, rootUri, content, init)

\* The root stays unless its folder was removed or there was none.
NextRoot(folders, removed) ==
    IF workspaceRoot # None /\ workspaceRoot \notin removed THEN workspaceRoot
    ELSE IF folders = <<>> THEN None ELSE folders[1]

\* The folders that stay.
Left(removed) ==
    LET stays(f) == f \notin removed IN SelectSeq(workspaceFolders, stays)

\* Added folders go to the end, unless they are there.
Folders(removed, added) == Left(removed) \o SetToSeq(added \ ToSet(Left(removed)))

\* didChangeWorkspaceFolders, one folder removed or added, or one for another.
DidChangeWorkspaceFolders(removed, added) ==
    LET folders == Folders(removed, added)
        root == NextRoot(folders, removed) IN
    /\ workspaceFolders' = folders
    /\ workspaceRoot' = root
    /\ IF root # workspaceRoot THEN Reload(root)
       ELSE UNCHANGED <<workspaceSettings, appliedVars>>
    /\ UNCHANGED <<files, overrides, sent, clientWatchFiles>>

\* The user saves a config file ...
SaveConfig(f) ==
    /\ \E c \in Content \ {files[f]} : files' = [files EXCEPT ![f] = c]
    /\ UNCHANGED <<serverVars, appliedVars>>

\* ... and the client reports it.
DidChangeConfigFile ==
    /\ Reload(workspaceRoot)
    /\ UNCHANGED <<files, workspaceFolders, workspaceRoot, overrides, sent, clientWatchFiles>>

\* didChangeConfig: the client's layer is replaced.
DidChangeConfig ==
    /\ \E s \in ClientSettings :
          /\ overrides' = s
          /\ sent' = [sent EXCEPT !.change = s]
          /\ Apply(workspaceRoot, workspaceSettings, s)
    /\ UNCHANGED <<files, workspaceFolders, workspaceRoot, workspaceSettings, clientWatchFiles>>

\* initialized: the client is asked to report file changes, and expected to.
Initialized ==
    /\ clientWatchFiles
    /\ registry' = SetFileWatchActive(registry, TRUE)
    /\ UNCHANGED <<files, serverVars, settings, trusted, renderCfg, cachedUnder>>

\* A render of a document some renderer is for enters the pipeline's cache.
Render(kind) ==
    /\ For(registry, kind) # None
    /\ cachedUnder' = cachedUnder \cup {[kind |-> kind, renderer |-> For(registry, kind)]}
    /\ UNCHANGED <<files, serverVars, settings, trusted, registry, renderCfg>>

Next ==
    \/ \E removed, added \in {{}} \cup {{f} : f \in Folder} :
          removed \cap added = {} /\ DidChangeWorkspaceFolders(removed, added)
    \/ \E f \in Folder : SaveConfig(f)
    \/ DidChangeConfigFile
    \/ DidChangeConfig
    \/ Initialized
    \/ \E kind \in Kind : Render(kind)

Spec == Init /\ [][Next]_vars

-----------------------------------------------------------------------------
\* The state keeps its types: no folder is open twice, no layer holds a file that does
\* not parse, and the applied settings are settings.
TypeOK ==
    /\ files \in [Folder -> Content]
    /\ workspaceFolders \in Seq(Folder) /\ IsInjective(workspaceFolders)
    /\ workspaceRoot \in Folder \cup {None}
    /\ workspaceSettings \in FileSettings \cup {Zero}
    /\ overrides \in ClientSettings /\ sent.change \in ClientSettings \cup {None}
    /\ settings \in Settings
    /\ trusted \in Path \cup {None}
    /\ registry.flate.disabled \in BOOLEAN /\ registry.flate.path \in Path \cup {None}

\* renderer.go:183-186 and 227-228, whatever the order in which the settings, the root
\* and the watch of the client come, every renderer in force has the root of the last
\* applyLayers and knows of the watch, and there is one for the entry that is in the
\* settings now, and no other.
RenderersInForce ==
    LET dynamic == ToSet(registry.dynamic)
        entry == TrustedRenderers(workspaceSettings, overrides).command
    IN  /\ registry.flate.root = renderCfg.root
        /\ \A r \in dynamic : r.root = renderCfg.root
        /\ {r.command : r \in dynamic} = {entry} \ {None}
        /\ registry.flate.eventDriven => clientWatchFiles
        /\ registry.flate.eventDriven = registry.watchActive

\* server.go:333-334, a result in the pipeline's cache is what the renderer that is now
\* in force for the document would make, with its configuration and for its root.
CacheOfApplied ==
    \A cached \in cachedUnder : cached.renderer = For(registry, cached.kind)

\* handlers.go:270-272, a typo saved into the config file does not wipe the
\* working settings.
TypoKeepsSettings ==
    [][workspaceSettings' # workspaceSettings =>
          (workspaceRoot' = None \/ files[workspaceRoot'] # Malformed)]_vars

-----------------------------------------------------------------------------
(* What the comments say and the code does not do.                         *)

\* README.md:319, flate builds from the workspace root unless a path is set: the
\* renderers, and the schema store with them, are told the root the server has.
AppliedToRoot == registry.wsRoot = workspaceRoot

\* README.md:341-342, the precedence is .yayamlls.yaml, initializationOptions,
\* didChangeConfiguration: each overrides the one before where it says something.
LayeredPrecedence ==
    LET client == IF sent.change = None THEN sent.init ELSE Merge(sent.init, sent.change) IN
    settings.kubernetes = Merge(workspaceSettings, client).kubernetes

\* README.md:288-291, the Flux renderer is enabled by default: settings without an
\* entry for it, or without `enabled` in it, leave it enabled.
FlateEnabledByDefault ==
    settings.flate = None => ~registry.flate.disabled
=============================================================================
