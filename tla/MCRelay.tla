------------------------------- MODULE MCRelay -------------------------------
(* Values for the constants of Relay.                                       *)
EXTENDS Relay

Candidate(id, tier, supports) ==
    [id |-> id, tier |-> tier, supports |-> supports, window |-> 100]

\* Two candidates that can be used and one whose credential is missing.
Three == <<Candidate("small", "fast", {}), Candidate("keyless", "balanced", {}),
           Candidate("large", "strong", {"tools"})>>

Body(needs) == [needs |-> needs, tokens |-> 10, length |-> 0, fenced |-> "no", messages |-> 1]

\* A call in two chunks that reach the cap, with nothing wrong about it.
Good == [bearer |-> "ours", media |-> "json", declared |-> 4, chunks |-> <<3, 1>>,
         ends |-> "whole", content |-> "object", envelope |-> "fits", schema |-> "no"]

Ask(key, role, stream, needs, call) ==
    [key |-> key, role |-> role, mode |-> "auto", stream |-> stream, body |-> Body(needs),
     call |-> call]

\* Everything that may be wrong, alone or together with a body that is too large.
Bad == {[Good EXCEPT !.bearer = "empty"], [Good EXCEPT !.media = "other"],
        [Good EXCEPT !.declared = 5], [Good EXCEPT !.declared = None, !.chunks = <<3, 1, 1>>],
        [Good EXCEPT !.declared = 1, !.chunks = <<3, 2>>, !.ends = "hangup"],
        [Good EXCEPT !.declared = -1, !.ends = "hangup"], [Good EXCEPT !.content = "array"],
        [Good EXCEPT !.envelope = "scalar"], [Good EXCEPT !.envelope = "foreign"],
        [Good EXCEPT !.envelope = "unfit"]}

\* Streamed and plain requests of two sessions, one that nobody can serve, and
\* those that the ingress has to refuse.
Traffic == {Ask("k1", "user", "yes", {}, Good), Ask("k1", "tool", "yes", {}, Good),
            Ask("k1", "tool", "no", {"tools"}, [Good EXCEPT !.envelope = None]),
            Ask("k2", "user", "no", {}, [Good EXCEPT !.declared = -1]),
            Ask("k2", "user", "yes", {"vision"}, Good)}
           \cup {Ask("k1", "user", "no", {}, call): call \in Bad}

=============================================================================
