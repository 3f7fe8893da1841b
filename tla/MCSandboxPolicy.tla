-------------------------- MODULE MCSandboxPolicy --------------------------
\* Mount policies over a small tree, for TLC.
EXTENDS SandboxPolicy, TLC

CONSTANTS home, repo, git, hooks, src, notes, tmp

\* home > repo > git > hooks, with src beside git and notes beside repo.
MCAbove ==
    home :> {} @@ repo :> {home} @@ git :> {home, repo} @@ hooks :> {home, repo, git}
    @@ src :> {home, repo} @@ notes :> {home} @@ tmp :> {}
MCListing == <<home, notes, repo, git, hooks, src, tmp>>

Few(n) == {S \in SUBSET {home, repo, git, hooks, src} : Cardinality(S) <= n}

\* At most two entries of each mode, and an optional something else of each kind.
MCPolicies ==
    {p \in [bwrap : BOOLEAN, db : BOOLEAN, exists : {Path, Path \ {src}}, ro : Few(2),
            rw : Few(2), worktrees : {{}, {git}, {src}}, runtime : {{}, {hooks}},
            installed : {NoPath, repo, git}, trust : {{}, {git}, {hooks, src}}] :
       p.db => p.bwrap}
=============================================================================
