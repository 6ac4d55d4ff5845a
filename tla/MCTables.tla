------------------------------ MODULE MCTables ------------------------------
(* Inputs for Tables: every request of a grid and every short list drawn     *)
(* from a pool, records of every shape, documents at every boundary.         *)
EXTENDS Tables

\* Two candidates of the same tier with different windows, one per other tier.
Pool == {[id |-> "a", tier |-> "fast", supports |-> {}, window |-> 2221],
         [id |-> "b", tier |-> "balanced", supports |-> {"tools"}, window |-> 8889],
         [id |-> "c", tier |-> "balanced", supports |-> Capabilities, window |-> 2222],
         [id |-> "d", tier |-> "strong", supports |-> Capabilities, window |-> 9000]}

PoolShortlists == UNION {{s \in [1..n -> Pool]: IsInjective(s)}: n \in 1..3}

\* On both sides of every threshold: the scores' and the windows' nine tenths.
GridBodies == [needs: SUBSET Capabilities, tokens: {1998, 1999, 2000, 7999, 8000, 8001},
           length: {1499, 1500}, fenced: {"yes", "no"}, messages: {19, 20}]

\* Every path to a little beyond the depth that is looked at.
Paths == UNION {[1..n -> {"at", "#", "messages", "root_session_id"}]: n \in 1..MaxDepth + 2}

\* What the walk may find there: the words of a prompt lie below a banned key.
LeavesAt(path) ==
    IF path[Len(path)] = "root_session_id" THEN {"session", "object"}
    ELSE IF \E n \in DOMAIN path: path[n] \in BannedKeys \cup SessionIdKeys THEN {"private"}
    ELSE {"plain", "object", "back"}

Single == {{[path |-> p, is |-> l]}: p \in Paths, l \in {"session", "object", "private", "plain", "back"}}

\* One leaf of every kind anywhere, alone or beside what an earlier pass left.
LeafRecords ==
    LET one == {s \in Single: \A l \in s: l.is \in LeavesAt(l.path)}
        beside(s, l) == \A k \in s: k.path[1] # "#" /\ ~IsPrefix(l.path, k.path)
    IN  one \cup {s \cup {Mark(<<>>, "token")}: s \in {t \in one: beside(t, Mark(<<>>, "token"))}}
            \cup {s \cup {[path |-> <<"status">>, is |-> "plain"]}:
                    s \in {t \in one: beside(t, [path |-> <<"status">>, is |-> "plain"])}}

LogWords ==
    BannedKeys \cup SessionIdKeys \cup Texts
      \cup {"at", "status", "object", "back", "_redacted", "#", "root_session_hash", "digest",
             "repr", "<cycle>", "<truncated>"}

Candidate(id, window, base, ref) ==
    [id |-> id, tier |-> "fast", window |-> window, base |-> base, ref |-> ref, keys |-> Required]

Lists == {None, <<>>, <<Candidate("a", 1, "absolute", "env")>>,
          <<Candidate("a", 0, "absolute", "env")>>,
          <<Candidate("a", 1, "userinfo", "none")>>, <<Candidate("a", 1, "absolute", "literal")>>,
          <<Candidate("a", 1, "absolute", "env"), Candidate("a", 2, "absolute", "none")>>,
          <<Candidate("a", 1, "absolute", "env"), Candidate("b", 2, "absolute", "none")>>,
          <<[Candidate("a", 1, "absolute", "env") EXCEPT !.keys = @ \ {"tier"}]>>}

Urls == {None} \cup [scheme: {"http", "https"}, port: {None, -1, 0, 9000, 65535}]

Gateways == {[url |-> u, port |-> p, admin |-> a, timeout |-> t]:
               u \in Urls, p \in {None, 0, 8787, 65535, 65536}, a \in {None, 0, 8787, 9000},
               t \in {None, 0}}

Blocks == {[NoBlock EXCEPT !.gateway = g]: g \in Gateways}
            \cup {[NoBlock EXCEPT !.upstream = u, !.candidates = c, !.unknown = k]:
                    u \in {None} \cup [base: {"absolute", "relative"}, ref: {"env", "literal"}],
                    c \in Lists, k \in {{}, {"gatway"}}}

BareFiles == {[auto |-> None, bare |-> b, foreign |-> {}]: b \in Blocks}

=============================================================================
