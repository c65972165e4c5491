------------------------------- MODULE Registry ------------------------------
(***************************************************************************)
(* The renderer registry (internal/render/renderer.go) with the renderers  *)
(* the server gives it: the compiled-in Flux renderer, and subprocess      *)
(* renderers built from settings.  Every method holds the registry's lock  *)
(* for all it does, so each is an operator on the registry.                *)
(***************************************************************************)
EXTENDS Sequences

CONSTANTS
    Path,     \* configured paths
    Command,  \* entries of subprocess renderers that have a command
    Kind,     \* kinds of documents
    Matches,  \* Matches[c]: the kinds the entry matches
    Disabled, \* entries with `enabled: false`
    None

ASSUME RegistryAssumption ==
    Matches \in [Command -> SUBSET Kind] /\ Disabled \subseteq Command /\ None \notin Command

\* The kinds the Flux renderer matches.
CONSTANT FluxKind

ASSUME FluxKindAssumption == FluxKind \subseteq Kind

Flag == {"on", "off"}
FlateConfig == [enabled : Flag \cup {None}, path : Path \cup {None}]

-----------------------------------------------------------------------------
(* Renderers                                                                *)

\* The Flux renderer's Configure: an entry without `enabled` leaves it as it is,
\* and so does no entry.
FlateConfigured(flate, cfg) ==
    IF cfg = None THEN flate
    ELSE [flate EXCEPT !.disabled = IF cfg.enabled = None THEN @ ELSE cfg.enabled = "off",
                       !.path = cfg.path]

\* FromConfig, the factory.
FromConfig(command, root) == [name |-> "subprocess", command |-> command, root |-> root]

\* What a renderer makes of a document depends on this.
FlateRenderer(registry) ==
    [name |-> "flate", path |-> registry.flate.path, root |-> registry.flate.root]

-----------------------------------------------------------------------------
(* The registry                                                             *)

\* With the Flux renderer registered.
NewRegistry ==
    [wsRoot |-> None, watchActive |-> FALSE, dynamic |-> <<>>,
     flate |-> [disabled |-> FALSE, path |-> None, root |-> None, eventDriven |-> FALSE]]

\* SetWorkspaceRoot, forwarded to all renderers there are.
SetWorkspaceRoot(registry, root) ==
    [registry EXCEPT !.wsRoot = root, !.flate.root = root,
                     !.dynamic = [i \in DOMAIN @ |-> [@[i] EXCEPT !.root = root]]]

\* SetFileWatchActive; a subprocess renderer has no use for it.
SetFileWatchActive(registry, active) ==
    [registry EXCEPT !.watchActive = active, !.flate.eventDriven = active]

\* Mutant of Configure: renderers built anew have no workspace root.
ConfigureRootless(registry, renderers) ==
    [registry EXCEPT !.flate = FlateConfigured(@, renderers.flate),
                     !.dynamic = IF renderers.command = None THEN <<>>
                                 ELSE <<FromConfig(renderers.command, None)>>]

\* Configure: the compiled-in renderer in place, the others built anew.
Configure(registry, renderers) ==
    [registry EXCEPT !.flate = FlateConfigured(@, renderers.flate),
                     !.dynamic = IF renderers.command = None THEN <<>>
                                 ELSE <<FromConfig(renderers.command, registry.wsRoot)>>]

\* For: the first enabled renderer that matches, those from the settings first.
For(registry, kind) ==
    LET fits(r) == r.command \notin Disabled /\ kind \in Matches[r.command]
        dynamic == SelectSeq(registry.dynamic, fits)
    IN  CASE dynamic # <<>> -> Head(dynamic)
          [] dynamic = <<>> /\ ~registry.flate.disabled /\ kind \in FluxKind -> FlateRenderer(registry)
          [] OTHER -> None
=============================================================================
