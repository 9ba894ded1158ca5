--------------------------- MODULE MCClientStack ---------------------------
(* Values of the constants of ClientStack for TLC. *)
EXTENDS ClientStack

Allow(s, f, i, r) == [syncs |-> s, faults |-> f, inbound |-> i, frames |-> r]
Config(w, a) == [wanted |-> w, authorized |-> a]
OnlyQ(as) == [q \in {"q"} |-> as]

\* A request to a peer with two links, of which one breaks.
Mail ==
    [wanted |-> OnlyQ({"a", "b"}), linked |-> <<"a", "b">>, addresses |-> {"a", "b"},
     authorized |-> {"q"}, messages |-> [m \in {"m"} |-> [kind |-> "request", to |-> "q"]],
     configs |-> {}, others |-> {"q"}, budget |-> Allow(0, 1, 0, 0), until |-> 1]

\* A blocking request, or a reply, to a peer that may be removed meanwhile.
Removal(kind) ==
    [wanted |-> OnlyQ({"a"}), linked |-> <<"a">>, addresses |-> {"a"}, authorized |-> {},
     messages |-> [m \in {"m"} |-> [kind |-> kind, to |-> "q"]],
     configs |-> {Config(<<>>, {})}, others |-> {"q"}, budget |-> Allow(1, 0, 0, 0), until |-> 1]

\* Two requests to a peer that is never reached.
Unreached ==
    [wanted |-> OnlyQ({}), linked |-> <<>>, addresses |-> {"a"}, authorized |-> {},
     messages |-> [m \in {"m", "n"} |-> [kind |-> "request", to |-> "q"]],
     configs |-> {}, others |-> {"q"}, budget |-> Allow(0, 0, 0, 0), until |-> 1]

\* No message: a peer that connects, is wanted, authorised or neither, and fails;
\* the environment does all but one of what it may do.
Peerage(b) ==
    [wanted |-> <<>>, linked |-> <<>>, addresses |-> {"a"}, authorized |-> {},
     messages |-> <<>>,
     configs |-> {Config(<<>>, {}), Config(<<>>, {"q"}), Config(OnlyQ({"a"}), {"q"})},
     others |-> {"q"}, budget |-> b, until |-> 0]

IdlePostman ==
    [wanted |-> <<>>, linked |-> <<>>, addresses |-> {}, authorized |-> {}, messages |-> <<>>,
     configs |-> {}, others |-> {}, budget |-> Allow(0, 0, 0, 0), until |-> 0]

SmallPostmanCasts == 
    {Mail, Unreached, Removal("blocking"), Removal("reply"), IdlePostman} \cup
    {Peerage(b) : b \in {Allow(1, 1, 1, 1), Allow(2, 1, 1, 0), Allow(2, 0, 1, 1)}}

\* The third block changes the roster.
TwoRosters == <<1, 1, 2, 2>>

Of(from, nodes, budgets) == [from |-> from, nodes |-> nodes, budget |-> budgets]
May(b, t, l, c, g, s, w) ==
    [last |-> b, timeouts |-> t, losses |-> l, crashes |-> c, compactions |-> g, submits |-> s,
     walks |-> w]
One == {"p1"}
Two == {"p1", "p2"}
Three == {"p1", "p2", "p3"}

\* Over a change of the roster: nothing else, or late answers and both kinds of
\* reads, or a compaction; under one roster: a late answer, or a submission and a
\* lost request, or a crash; and no client.
SmallClientCasts ==
    {Of(1, Two, May(3, 0, 0, 0, 0, 0, 0)), Of(2, One, May(4, 1, 0, 0, 0, 0, 1)),
     Of(2, Two, May(3, 0, 0, 0, 1, 0, 0)), Of(3, Two, May(4, 1, 0, 0, 0, 0, 0)),
     Of(3, Two, May(3, 0, 1, 0, 0, 1, 0)), Of(3, Three, May(3, 0, 0, 1, 0, 0, 0)),
     Of(4, {}, May(3, 0, 0, 0, 0, 0, 0))}
=============================================================================
