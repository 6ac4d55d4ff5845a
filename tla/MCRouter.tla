------------------------------ MODULE MCRouter ------------------------------
(* Values for the constants of Router.                                      *)
EXTENDS Router

Candidate(id, tier, supports) ==
    [id |-> id, tier |-> tier, supports |-> supports, window |-> 100]

OneOfEach == <<Candidate("small", "fast", {}), Candidate("large", "strong", {"tools"})>>

Body(needs, tokens) ==
    [needs |-> needs, tokens |-> tokens, length |-> 0, fenced |-> "no", messages |-> 1]

Ask(key, role, mode, body) ==
    [key |-> key, role |-> role, mode |-> mode, body |-> body]

\* Three sessions, one to each virtual model: questions that need tools and easy
\* tool results, easy questions and tool results, questions easy and unservable.
Talk == {Ask("k1", "user", "auto", Body({"tools"}, 10)),
         Ask("k1", "tool", "auto", Body({}, 10)),
         Ask("k2", "user", "auto:session", Body({}, 10)),
         Ask("k2", "tool", "auto:session", Body({}, 10)),
         Ask("k3", "user", "auto:quality", Body({}, 10)),
         Ask("k3", "user", "auto:quality", Body({"vision"}, 10))}

=============================================================================
