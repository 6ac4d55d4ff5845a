-------------------------------- MODULE Relay --------------------------------
(***************************************************************************)
(* chat_completions of gateway/app.py, from the ingress to the client pool *)
(* of gateway/upstream.py: what gets past the ingress tries the candidates *)
(* of its routing decision in order until one answers; once a byte of a    *)
(* stream went to the client there is no other.  A step is what a handler  *)
(* does between two awaits that wait for someone.  Upstreams answer, fail  *)
(* or stay silent as they like; every candidate's client has PoolSize      *)
(* connections.                                                            *)
(***************************************************************************)
EXTENDS Integers, SequencesExt

CONSTANTS MaxRequests, Keys, Arrivals, Shortlist, MaxSessions, MaxDecisions, None,
          MaxBytes, Strict, Token,     \* as in Ingress, and the token of the gateway
          Unset,       \* candidates whose credential variable is not set
          PoolSize,    \* connections of one candidate's client
          MaxChunks    \* bound: chunks of one answer

VARIABLES
    at,         \* at[r]: where the handler of request r is
    nth,        \* nth[r]: the position of the candidate it tries
    attempts,   \* attempts[r]: the candidates it recorded as failed
    sent,       \* sent[r]: the chunks its client got, each by who produced it
    pool,       \* pool[c]: the requests that took a connection of candidate c
    asked, decision, lru, route, log     \* as in Router

routing == <<asked, decision, lru, route, log>>
vars == <<at, nth, attempts, sent, pool, routing>>

\* What the router knows of a request.
Stage == [r \in 1..MaxRequests |->
            CASE at[r] \in {"try", "sending", "first"} -> "routed"
              [] at[r] \in {"ready", "rejected", "relaying", "answered", "cut",
                            "dropped", "lost"} -> "served"
              [] at[r] \in {"all_failed", "internal"} -> "failed"
              [] OTHER -> at[r]]

R == INSTANCE Router WITH stage <- Stage

I == INSTANCE Ingress

Requests == R!Requests

\* The sizes of the chunks add up to a size.
ASSUME RelayAssumption ==
    /\ R!RouterParameters
    /\ PoolSize \in Nat \ {0} /\ MaxChunks \in Nat \ {0}
    /\ MaxBytes \in Nat /\ Strict \in {"yes", "no"}
    /\ Unset \subseteq R!Ids
    /\ None \notin {"scalar", "foreign", "unfit"}
    /\ \A a \in Arrivals:
         /\ a.stream \in {"yes", "no"} /\ a.call.ends \in {"whole", "hangup"}
         /\ a.call.chunks \in Seq(Nat) \ {<<>>} /\ I!Read(a.call.chunks, Len(a.call.chunks)) \in Nat

TypeOK ==
    /\ at \in [Requests -> {"new", "refused", "try", "sending", "first", "ready", "rejected",
                            "relaying", "answered", "cut", "dropped", "lost",
                            "all_failed", "internal"}]
    /\ nth \in [Requests -> 1..Len(Shortlist)]
    /\ attempts \in [Requests -> Seq(R!Ids)]
    /\ sent \in [Requests -> Seq(R!Ids)] /\ \A r \in Requests: Len(sent[r]) <= MaxChunks
    /\ pool \in [R!Ids -> SUBSET Requests] /\ \A c \in R!Ids: Cardinality(pool[c]) <= PoolSize
    /\ R!RouterTypeOK

Init ==
    /\ at = [r \in Requests |-> "new"]
    /\ nth = [r \in Requests |-> 1]
    /\ attempts = [r \in Requests |-> <<>>]
    /\ sent = [r \in Requests |-> <<>>]
    /\ pool = [c \in R!Ids |-> {}]
    /\ R!RouterInit

Goes(r, from, to) == at[r] = from /\ at' = [at EXCEPT ![r] = to]

Tried(r) == decision[r].candidates[nth[r]]

Streams(r) == asked[r].stream = "yes"

Release(r) == pool' = [pool EXCEPT ![Tried(r)] = @ \ {r}]

\* The body has come in, or is given up: nothing of the gateway is touched before.
Arrive(r) ==
    /\ R!IsNext(r)
    /\ \E a \in Arrivals:
         \/ /\ I!Verdict(a.call, Token) = 200
            /\ \E to \in {"try", "refused"}: Goes(r, "new", to)
            /\ R!Route(r, a)
         \/ /\ I!Verdict(a.call, Token) # 200
            /\ Goes(r, "new", "refused")
            /\ R!TurnAway(r, a)
    /\ UNCHANGED <<nth, attempts, sent, pool>>

\* The candidate failed before a byte of it went out: record it, go to the next.
Fails(r, from) ==
    /\ attempts' = [attempts EXCEPT ![r] = Append(@, Tried(r))]
    /\ \/ /\ nth[r] < Len(decision[r].candidates)
          /\ Goes(r, from, "try")
          /\ nth' = [nth EXCEPT ![r] = @ + 1]
          /\ UNCHANGED routing
       \/ /\ nth[r] = Len(decision[r].candidates)      \* _all_failed
          /\ Goes(r, from, "all_failed")
          /\ R!RecordFailures(r, attempts'[r])
          /\ UNCHANGED nth
    /\ UNCHANGED sent

\* Mutant: finalizes with the candidate that was planned.
CommitsPlanned(r, from, to) ==
    /\ Goes(r, from, to)
    /\ R!Finalize(r, decision[r].selected, attempts[r])
    /\ UNCHANGED <<nth, attempts>>

\* The candidate's answer is the request's answer.
Commits(r, from, to) ==
    /\ Goes(r, from, to)
    /\ R!Finalize(r, Tried(r), attempts[r])
    /\ UNCHANGED <<nth, attempts>>

-----------------------------------------------------------------------------
(* Taking a connection: each of these ends within the pool timeout          *)

NoCredential(r) ==
    /\ at[r] = "try" /\ Tried(r) \in Unset
    /\ Fails(r, "try")
    /\ UNCHANGED pool

\* Mutant: a client without limits.
Unlimited(r) == FALSE

Full(r) == Cardinality(pool[Tried(r)]) = PoolSize

\* Mutant: no pool timeout, as httpx.Timeout(None) has none.
WaitsForPool(r) == FALSE /\ UNCHANGED vars

PoolTimeout(r) ==
    /\ at[r] = "try" /\ Tried(r) \notin Unset /\ Full(r)
    /\ Fails(r, "try")
    /\ UNCHANGED pool

Connect(r) ==
    /\ at[r] = "try" /\ Tried(r) \notin Unset /\ ~Full(r)
    /\ Goes(r, "try", "sending")
    /\ pool' = [pool EXCEPT ![Tried(r)] = @ \cup {r}]
    /\ UNCHANGED <<nth, attempts, sent, routing>>

Try(r) == NoCredential(r) \/ PoolTimeout(r) \/ Connect(r)

-----------------------------------------------------------------------------
(* The upstream's answer                                                    *)

\* No connection, or a transport error while the request is sent or, for a plain
\* request, while its body is read.
SendFails(r) ==
    /\ at[r] = "sending"
    /\ Fails(r, "sending")
    /\ Release(r)

\* 401, 403, 429 or 5xx.  A plain request has read and closed the response.  Of a
\* stream, _release closes an iterator that never ran: its finally never does.
Retryable(r) ==
    /\ at[r] = "sending"
    /\ Fails(r, "sending")
    /\ IF Streams(r) THEN UNCHANGED pool ELSE Release(r)

\* A plain request is answered in one piece, whatever else its status is; or with
\* a 500, when a header of the answer cannot be relayed.
AnswersPlain(r) ==
    /\ at[r] = "sending" /\ ~Streams(r)
    /\ Commits(r, "sending", "answered")
    /\ sent' \in {sent, [sent EXCEPT ![r] = <<Tried(r)>>]}
    /\ Release(r)

\* Another 4xx ends a streaming request too: its body is to be relayed, by an
\* iterator nobody has started yet.
Rejects(r) ==
    /\ at[r] = "sending" /\ Streams(r)
    /\ Commits(r, "sending", "rejected")
    /\ UNCHANGED <<sent, pool>>

\* 2xx: nothing is committed before the first byte.
Opens(r) ==
    /\ at[r] = "sending" /\ Streams(r)
    /\ Goes(r, "sending", "first")
    /\ UNCHANGED <<nth, attempts, sent, pool, routing>>

FirstByte(r) ==
    /\ Commits(r, "first", "ready")
    /\ UNCHANGED <<sent, pool>>

\* Mutant: the response that ended without a byte is not closed.
EmptyUnclosed(r) ==
    /\ Commits(r, "first", "answered")
    /\ UNCHANGED <<sent, pool>>

Empty(r) ==
    /\ Commits(r, "first", "answered")
    /\ Release(r)
    /\ UNCHANGED sent

\* A transport error before the first byte is a raw httpx exception: neither
\* handler of the loop takes it, and the client gets a 500.
FirstFails(r) ==
    /\ Goes(r, "first", "internal")
    /\ Release(r)
    /\ UNCHANGED <<nth, attempts, sent, routing>>

-----------------------------------------------------------------------------
(* The committed stream                                                     *)

\* The response starts to pull its body; of a 2xx that gives the first byte.
Pulled(r) ==
    /\ \/ /\ Goes(r, "ready", "relaying")
          /\ sent' = [sent EXCEPT ![r] = <<Tried(r)>>]
       \/ /\ Goes(r, "rejected", "relaying")
          /\ UNCHANGED sent
    /\ UNCHANGED <<nth, attempts, pool, routing>>

\* It never does: a header cannot be relayed, or the client left before.  Closing
\* generators that never ran runs none of their finallys.
Unpulled(r) ==
    /\ Goes(r, "ready", "dropped") \/ Goes(r, "rejected", "lost")
    /\ UNCHANGED <<nth, attempts, sent, pool, routing>>

\* The upstream's iterator of a 2xx did run, as far as the first byte: the event
\* loop closes it when the collector finds it.  That of a 4xx did not.
Collected(r) ==
    /\ Goes(r, "dropped", "cut")
    /\ Release(r)
    /\ UNCHANGED <<nth, attempts, sent, routing>>

Chunk(r) ==
    /\ at[r] = "relaying" /\ Len(sent[r]) < MaxChunks
    /\ sent' = [sent EXCEPT ![r] = Append(@, Tried(r))]
    /\ UNCHANGED <<at, nth, attempts, pool, routing>>

StreamEnds(r) ==
    /\ Goes(r, "relaying", "answered")
    /\ Release(r)
    /\ UNCHANGED <<nth, attempts, sent, routing>>

\* Mutant: what broke is resumed with the next candidate.
StreamResumed(r) ==
    /\ at[r] = "relaying"
    /\ Fails(r, "relaying")
    /\ Release(r)

\* The upstream breaks off or the client hangs up: the stream ends there, and all
\* its generators have run, so closing them releases the response.
StreamCut(r) ==
    /\ Goes(r, "relaying", "cut")
    /\ Release(r)
    /\ UNCHANGED <<nth, attempts, sent, routing>>

Upstream(r) ==
    \/ SendFails(r) \/ Retryable(r) \/ AnswersPlain(r) \/ Rejects(r) \/ Opens(r)
    \/ FirstByte(r) \/ Empty(r) \/ FirstFails(r)
    \/ Pulled(r) \/ Unpulled(r) \/ Collected(r)
    \/ Chunk(r) \/ StreamEnds(r) \/ StreamCut(r)

Next == \E r \in Requests: Arrive(r) \/ Try(r) \/ Upstream(r)

Spec == Init /\ [][Next]_vars

\* The pool timeout and the connect timeout are finite; reading has no timeout, so
\* nothing is assumed of upstreams.
FairSpec == Spec /\ \A r \in Requests: WF_vars(Try(r))

-----------------------------------------------------------------------------
\* The router is driven as it expects: every request is routed once and finalized
\* at most once, with the candidate that answered and exactly those before it.
DrivesRouter == R!RouterSpec

\* design.md: "A committed stream is never spliced with another candidate", and
\* the decision that explains the request names the one whose bytes were sent.
NeverSpliced ==
    \A r \in Requests: \A n \in DOMAIN sent[r]: sent[r][n] = decision[r].selected

\* Nobody without the token and nothing larger than the cap gets to an upstream,
\* however the body came in; who is refused, by the ingress or because no candidate
\* fits, leaves no connection, no session and no decision behind.
Admission ==
    \A r \in Requests: at[r] # "new" =>
      LET call == asked[r].call
      IN  IF at[r] = "refused"
            THEN /\ \A c \in R!Ids: r \notin pool[c]
                 /\ ~Contains(log, r) /\ \A k \in Keys: route[k].owner # r
            ELSE /\ Token # None /\ call.bearer = "ours" /\ call.ends = "whole"
                 /\ I!Read(call.chunks, Len(call.chunks)) <= MaxBytes
                 /\ call.envelope \notin {"scalar", "foreign", "unfit"}

\* r is at work on a response of candidate c.
Uses(r, c) ==
    at[r] \in {"sending", "first", "ready", "rejected", "relaying"} /\ Tried(r) = c

\* Nobody ever pulled the answer of c that r committed to.
Abandoned(r, c) == at[r] \in {"dropped", "lost"} /\ Tried(r) = c

\* Whatever answers, or breaks off while it is relayed, gives its connection back;
\* plain requests always do.  A stream may hold one only of a candidate it gave up,
\* or of an answer it committed to and never began to relay.
ServedReleases ==
    \A c \in R!Ids: \A r \in pool[c]:
      Uses(r, c) \/ (Streams(r) /\ (Contains(attempts[r], c) \/ Abandoned(r, c)))

\* Nobody waits for ever for a connection, however many are out and never come
\* back: the handler gets one or runs out of candidates.
AttemptsStart == \A r \in Requests: at[r] = "try" ~> at[r] # "try"

\* "Consuming it to completion, closing it, or having it cancelled all release
\* the response" (upstream.py): no request keeps a connection it has no use for.
ConnectionsReturn == \A c \in R!Ids: \A r \in pool[c]: Uses(r, c)

\* "An error before that byte can fall back" (architecture.md): a request whose
\* client got nothing ends only when a candidate answered or all were tried.
EarlyErrorFallsBack ==
    \A r \in Requests: at[r] \in {"all_failed", "internal"} =>
      attempts[r] = decision[r].candidates

=============================================================================
