----------------------------- MODULE CachePath ------------------------------
(***************************************************************************)
(* Which file the MCP server opens as its cache: opened_mcp_cache_path of  *)
(* src/mcp.rs.  A tool may name a path; unless the server allows any, the  *)
(* file must lie under the default cache directory once every link on the  *)
(* way has been followed.                                                  *)
(*                                                                         *)
(* A path is the sequence of its names from the root, with "." and ".."    *)
(* among them.  The file system is the set of the paths that exist and a   *)
(* function from the links among them to their targets.                    *)
(***************************************************************************)
EXTENDS Naturals, SequencesExt

CONSTANT MaxLinks   \* links followed on one path (40 in the code)

ASSUME MaxLinksAssumption == MaxLinks \in Nat

CacheDir == <<"home", "canact">>
DefaultCacheFile == Append(CacheDir, "probes.json")

Links(fs) == DOMAIN fs.target

\* What has been walked: names known to exist, and names after one that does not.
Walked(existing, pending, links) == [existing |-> existing, pending |-> pending, links |-> links, ok |-> TRUE]
Lost == [existing |-> <<>>, pending |-> <<>>, links |-> 0, ok |-> FALSE]

Parent(w) ==
    IF w.pending # <<>> THEN [w EXCEPT !.pending = Front(@)]
    ELSE IF w.existing # <<>> THEN [w EXCEPT !.existing = Front(@)] ELSE w

\* The path that is walked where the next name is a link.
LinkAt(w, name) == Append(w.existing, name)
MeetsLink(fs, w, name) == w.pending = <<>> /\ LinkAt(w, name) \in Links(fs)
LinkTarget(fs, w, name) ==
    LET to == fs.target[LinkAt(w, name)]
    IN  IF to.absolute THEN to.names ELSE w.existing \o to.names

\* push_opened_cache_name of a name that is no link.
Push(fs, w, name) ==
    IF w.pending = <<>> /\ LinkAt(w, name) \in fs.exists
    THEN [w EXCEPT !.existing = LinkAt(w, name)]
    ELSE [w EXCEPT !.pending = Append(@, name)]

\* walk_opened_cache_path: a link is replaced by what its target walks to.
Walk(fs, path) ==
    LET W[links \in 0 .. MaxLinks, names \in Seq(STRING)] ==
          FoldLeft(LAMBDA w, name :
                     IF ~w.ok \/ name = "." THEN w
                     ELSE IF name = ".." THEN Parent(w)
                     ELSE IF ~MeetsLink(fs, w, name) THEN Push(fs, w, name)
                     ELSE IF w.links = MaxLinks THEN Lost
                     ELSE W[w.links + 1, LinkTarget(fs, w, name)],
                   Walked(<<>>, <<>>, links), names)
    IN  W[0, path]

ResolveOpened(fs, path) ==
    LET w == Walk(fs, path) IN [ok |-> w.ok, path |-> w.existing \o w.pending]

\* opened_mcp_cache_path.
OpenedPath(fs, path, allowed) ==
    LET candidate == ResolveOpened(fs, path)
        root == ResolveOpened(fs, CacheDir)
    IN  IF allowed THEN [ok |-> TRUE, path |-> path]
        ELSE [ok |-> candidate.ok /\ root.ok /\ IsPrefix(root.path, candidate.path),
              path |-> candidate.path]

----------------------------------------------------------------------------
(* What the operating system opens: the links on the way are followed as   *)
(* they are met, .. is the parent of where that led, and only the last     *)
(* name may be missing.                                                    *)

\* left is the number of links that it will still follow.
Reach(fs, path) ==
    LET Following[left \in 0 .. MaxLinks, at \in Seq(STRING), names \in Seq(STRING)] ==
          IF names = <<>> THEN at
          ELSE LET next == Append(at, Head(names))
                   onward == Tail(names)
               IN  IF Head(names) = "." THEN Following[left, at, onward]
                   ELSE IF Head(names) = ".."
                   THEN Following[left, IF at = <<>> THEN at ELSE Front(at), onward]
                   ELSE IF next \in Links(fs) /\ left > 0
                   THEN LET to == fs.target[next]
                        IN  Following[left - 1, IF to.absolute THEN <<>> ELSE at, to.names \o onward]
                   ELSE IF next \notin Links(fs) /\ next \in fs.exists THEN Following[left, next, onward]
                   ELSE IF next \notin Links(fs) /\ onward = <<>> THEN next ELSE <<"missing">>
    IN  Following[MaxLinks, <<>>, path]
=============================================================================
