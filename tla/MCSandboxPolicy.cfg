\* Every policy over seven paths with at most two read-only and two read-write
\* entries, a worktree, a runtime directory, an installed tree and trust roots.
CONSTANTS
    home = home
    repo = repo
    git = git
    hooks = hooks
    src = src
    notes = notes
    tmp = tmp
    NoPath = NoPath
    Path = {home, repo, git, hooks, src, notes, tmp}
    Above <- MCAbove
    Listing <- MCListing
    Tmp = tmp
    Socket = notes
    Policies <- MCPolicies
\* A launched task is the end.
CHECK_DEADLOCK FALSE
SPECIFICATION Spec
INVARIANTS
    PolicyIsWhatIsMounted
    TrustHolds
    InstalledHolds
    RulesFollowTheLists
    NothingCarvedUnderBwrap
    CarvingIsAnnounced
