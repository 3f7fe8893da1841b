---------------------------- MODULE MCTaskScan ----------------------------
\* The task scanner on small instances, for TLC.
EXTENDS TaskScan

CONSTANTS W

\* A read-only root with the writable lane in it, and a writable home with a
\* checkout in it that is read-only.
Root == <<"srv">>
Lane == <<"srv", "worktrees">>
HomeDir == <<"home">>
Checkout == <<"home", "src">>
Dirs == {<<>>, Root, Lane, HomeDir, Checkout}
OnePolicy == {{[at |-> Root, mode |-> "ro"], [at |-> Lane, mode |-> "rw"],
               [at |-> HomeDir, mode |-> "rw"], [at |-> Checkout, mode |-> "ro"]}}

Abs(d) == [abs |-> TRUE, seg |-> d]
Rel(d) == [abs |-> FALSE, seg |-> d]
Literal(p) == [name |-> NoName, lit |-> p]
Variable(n, seg) == [name |-> n, lit |-> Rel(seg)]

AllWords == {Literal(Abs(Root)), Literal(Abs(HomeDir)), Literal(Rel(<<"worktrees">>)),
             Literal(Rel(<<"..">>)), Literal(Empty),
             Variable(W, <<>>), Variable(W, <<"src">>)}

\* W is not set on the host; or it is, to a directory of its own, and passed on
\* or not.
HostWith(v, p) == [value |-> [n \in Name |-> IF n = W THEN v ELSE Unset], passed |-> p]
BareHost == {HostWith(Unset, {})}
AllHosts == BareHost \cup {HostWith(Abs(Lane), p) : p \in {{}, {W}}}

Commands ==
    {[allowed |-> a, severity |-> s, always |-> FALSE] : a \in BOOLEAN, s \in {"none", "high"}}
      \cup {[allowed |-> TRUE, severity |-> "critical", always |-> FALSE],
            [allowed |-> TRUE, severity |-> "high", always |-> TRUE]}
Quiet == [enabled |-> TRUE, maintenance |-> FALSE, found |-> {}, fragments |-> {}]
AllTexts ==
    {Quiet, [Quiet EXCEPT !.enabled = FALSE]}
      \cup {[Quiet EXCEPT !.found = {s}, !.maintenance = m] : s \in Screens, m \in BOOLEAN}
      \cup {[Quiet EXCEPT !.found = Screens]}
      \cup {[Quiet EXCEPT !.fragments = {{c, d}}] : c, d \in Commands}
=============================================================================
