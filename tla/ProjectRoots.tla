----------------------------- MODULE ProjectRoots ----------------------------
(* Which project a directory belongs to.  Three parts of the program answer   *)
(* that on their own: the hooks (shim/shared/project-root.ts, for the         *)
(* namespace of every event), the installer (installer/index.ts, detectScope, *)
(* for where its files go) and the MCP server (mcp/namespace.ts, for the      *)
(* namespace it searches and saves in).                                       *)
(*                                                                            *)
(* A path is a sequence of directory names from the root <<>>, and a name a   *)
(* sequence of letters.  "marked" is the set of directories with a project    *)
(* marker; "home" is what homedir() says and "link" what realpathSync makes   *)
(* of a path.                                                                 *)
EXTENDS Naturals, SequencesExt

IsUnder(path, parent) == IsPrefix(parent, path)
InHome(path, home) == IsPrefix(home, path)

\* The walk from a directory up to the ceiling, which is never looked at: the
\* nearest marked directory, or the ceiling when there is none. dirname shortens
\* the path by a name, and leaves the root as it is.
Nearest(path, ceiling, marked) ==
  LET above(n) == SubSeq(path, 1, n)
      walk[n \in 0..Len(path)] ==
        IF n = 0 \/ above(n) = ceiling THEN ceiling
        ELSE IF above(n) \in marked THEN above(n)
        ELSE walk[n - 1]
  IN walk[Len(path)]

Global(ceiling) == [root |-> ceiling, isGlobal |-> TRUE]

\* detectProjectRoot, in the hooks.  A path realpathSync cannot resolve is
\* its own root.
DetectProjectRoot(cwd, home, link, missing, marked) ==
  LET ceiling == link[home]
      resolved == link[cwd]
      nearest == Nearest(resolved, ceiling, marked)
  IN IF cwd \in missing THEN [root |-> cwd, isGlobal |-> FALSE]
     ELSE IF resolved = ceiling \/ ~IsUnder(resolved, ceiling) THEN Global(ceiling)
     ELSE [root |-> nearest, isGlobal |-> nearest = ceiling]

\* detectScope, in the installer: the directory it writes to, none, or an
\* error outside home.  It does not resolve home.
Scope(kind, root) == [kind |-> kind, root |-> root]
DetectScope(cwd, home, link, marked) ==
  LET resolved == link[cwd]
      nearest == Nearest(resolved, home, marked)
  IN IF resolved # home /\ ~InHome(resolved, home) THEN Scope("outside", home)
     ELSE IF resolved = home \/ nearest = home THEN Scope("global", home)
     ELSE Scope("project", nearest)

\* deriveNamespace, in the MCP server: no walk at all.
ServerRoot(cwd, link) == link[cwd]

\* ------------------------------------------------------------- properties ---
\* The nearest marked directory strictly below home, by definition.
Project(path, ceiling, marked) ==
  LET own == {i \in Len(ceiling) + 1..Len(path) : SubSeq(path, 1, i) \in marked}
  IN IF own = {} THEN ceiling ELSE SubSeq(path, 1, Max(own))

\* The events of one project share one namespace wherever in it a hook runs,
\* those of no project share the one of home, and where the installer writes
\* its files is where the hooks put the events: it installs nowhere a hook
\* sees no project, and refuses or goes global exactly where there is none,
\* as long as home is not a link.
HooksAndInstallerAgree(dirs, home, link, marked) ==
  \A cwd \in dirs :
    LET hook == DetectProjectRoot(cwd, home, link, {}, marked)
        scope == DetectScope(cwd, home, link, marked)
        own == IF IsPrefix(link[home], link[cwd]) THEN Project(link[cwd], link[home], marked) ELSE link[home]
    IN /\ hook.root = own
       /\ scope.kind = "project" => scope.root = own /\ ~hook.isGlobal
       /\ link[home] = home => (hook.isGlobal <=> scope.kind # "project")
=============================================================================
