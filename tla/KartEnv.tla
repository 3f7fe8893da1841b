------------------------------ MODULE KartEnv ------------------------------
(***************************************************************************)
(* kart_env of sandbox.py: which variables a task is handed, and from which *)
(* of its sources, in the order in which they override and remove each      *)
(* other.  Passed and rules of the mount policy stand for the names they  *)
(* match.                                                                   *)
(***************************************************************************)
EXTENDS Integers, FiniteSets

CONSTANTS
    Name,        \* environment variables
    Base,        \* PATH, HOME, LANG and the markers that say what a task may use
    Root,        \* WILLOW_ROOT, PYTHONPATH, WILLOW_PYTHON
    Identity,    \* the author and the committer of git
    PgHost, SafeRoot, RuntimeDir,  \* WILLOW_PG_HOST, WILLOW_SAFE_ROOT, XDG_RUNTIME_DIR
    Submitter, NoOne

\* The mount policy: the names env_prefixes, db_env_prefixes,
\* credential_env_prefixes and env_deny match, and what is bound.
Config == [pass : SUBSET Name, db : SUBSET Name, credentials : SUBSET Name,
           deny : SUBSET Name, runtimeBound : BOOLEAN]

\* The worker's own environment, the fleet's env file, a Postgres socket and a
\* default for the safe root.
Host == [environ : SUBSET Name, fleet : SUBSET Name, socket : BOOLEAN, safe : BOOLEAN]

\* What a task asks for, and who submitted it.
Ask == [net : BOOLEAN, db : BOOLEAN, by : Submitter \cup {NoOne}]

Source == {"kart", "environ", "fleet", "submitter"}

ASSUME KartEnvAssumption ==
    /\ Base \subseteq Name /\ Root \subseteq Name /\ Identity \subseteq Name
    /\ {PgHost, SafeRoot, RuntimeDir} \subseteq Name
    /\ Identity \cap {PgHost, SafeRoot} = {}
    /\ NoOne \notin Submitter

Passed(c, a) == c.pass \cup (IF a.db THEN c.db ELSE {})

\* A later source replaces the names it has.
Over(env, names, source) ==
    [n \in DOMAIN env \cup names |-> IF n \in names THEN source ELSE env[n]]

\* A fallback gives the names that are missing.
Under(env, names, source) == Over(env, names \ DOMAIN env, source)

Without(env, names) == [n \in DOMAIN env \ names |-> env[n]]

\* kart_env's own, the worker's environment over it, and the fleet's file and
\* the repository.
Gathered(c, h, a) ==
    LET own == [n \in Base |-> "kart"]
        inherited == Over(own, h.environ \cap Passed(c, a), "environ")
    IN  Over(Under(inherited, h.fleet \cap Passed(c, a), "fleet"), Root, "kart")

\* "A Kart task carries only its submitter's identity."
Identified(env, a) ==
    IF a.by = NoOne THEN Without(env, Identity) ELSE Over(env, Identity, "submitter")

\* The names looked for on the host if nobody gave them.
Completed(env, h, a) ==
    Under(env, (IF a.db /\ h.socket THEN {PgHost} ELSE {})
               \cup (IF h.safe THEN {SafeRoot} ELSE {}), "kart")

\* Mutant: credentials are held back before the other sources are read.
KartEnvStripsEarly(c, h, a) ==
    LET held == [h EXCEPT !.environ = IF a.net THEN @ ELSE @ \ c.credentials]
        env == Completed(Identified(Gathered(c, held, a), a), h, a)
    IN  Without(Without(env, c.deny), IF c.runtimeBound THEN {} ELSE {RuntimeDir})

\* Credentials are taken out without the network, and denied names always,
\* after every source; the runtime directory where it is not bound.
KartEnv(c, h, a) ==
    LET env == Completed(Identified(Gathered(c, h, a), a), h, a)
        gated == Without(env, IF a.net THEN {} ELSE c.credentials)
    IN  Without(Without(gated, c.deny), IF c.runtimeBound THEN {} ELSE {RuntimeDir})
=============================================================================
