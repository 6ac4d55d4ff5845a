------------------------------- MODULE Router -------------------------------
(***************************************************************************)
(* The decision router of one gateway process (DecisionRouter in           *)
(* routing/selector.py): the bounded table of sessions, the bounded list   *)
(* of recent decisions, and the requests that route through them.  The     *)
(* handlers run in one event loop: route() and finalize() are atomic, and  *)
(* between the two of one request any number of others may run.            *)
(***************************************************************************)
EXTENDS Selector

CONSTANTS MaxRequests,   \* bound: the requests of one gateway process
          Keys,          \* session keys (salted hashes of root session ids)
          Arrivals,      \* what a request may look like, see Arrival
          Shortlist,     \* the configured candidates, in order
          MaxSessions, MaxDecisions,
          None

Requests == 1..MaxRequests     \* numbered as they arrive

Ids == {Shortlist[n].id: n \in DOMAIN Shortlist}

RouterParameters ==
    /\ MaxRequests \in Nat
    /\ MaxSessions \in Nat \ {0} /\ MaxDecisions \in Nat \ {0}
    /\ Shortlist \in Seq(CandidateType) /\ Shortlist # <<>>
    /\ \A m, n \in DOMAIN Shortlist: Shortlist[m].id = Shortlist[n].id => m = n
    /\ None \notin Requests /\ None \notin Ids
    /\ \A a \in Arrivals: a.key \in Keys /\ a.mode \in Modes /\ a.role \in {"user", "tool"}

ASSUME RouterAssumption == RouterParameters

VARIABLES
    stage,      \* stage[r]: new, routed, served, failed or refused
    asked,      \* asked[r]: what request r looks like, once it has arrived
    decision,   \* decision[r]: its RouteDecision
    lru,        \* the session keys of the table, least recently routed first
    route,      \* route[k]: the _SessionRoute of key k
    log         \* the recent decisions, by request, newest last

tables == <<lru, route, log>>
routerVars == <<stage, asked, decision, lru, route, log>>

NoDecision == [selected |-> None, candidates |-> <<>>, pinned |-> "no", attempts |-> <<>>]
NoRoute == [candidate |-> None, owner |-> None]

RouterTypeOK ==
    /\ stage \in [Requests -> {"new", "routed", "served", "failed", "refused"}]
    /\ asked \in [Requests -> Arrivals \cup {None}]
    /\ decision \in [Requests -> [selected: Ids \cup {None}, candidates: Seq(Ids),
                                  pinned: {"no", "tool_loop", "session"},
                                  attempts: Seq(Ids)]]
    /\ lru \in Seq(Keys) /\ Len(lru) <= MaxSessions
    /\ route \in [Keys -> [candidate: Ids \cup {None}, owner: Requests \cup {None}]]
    /\ log \in Seq(Requests) /\ Len(log) <= MaxDecisions

RouterInit ==
    /\ stage = [r \in Requests |-> "new"]
    /\ asked = [r \in Requests |-> None]
    /\ decision = [r \in Requests |-> NoDecision]
    /\ lru = <<>> /\ log = <<>>
    /\ route = [k \in Keys |-> NoRoute]

\* Mutant: one element too many.
NewestLate(s, bound) == IF Len(s) > bound + 1 THEN Tail(s) ELSE s

\* A bounded queue drops its oldest elements.
Newest(s, bound) == IF Len(s) > bound THEN Tail(s) ELSE s

Moves(r, from, to) == stage[r] = from /\ stage' = [stage EXCEPT ![r] = to]

-----------------------------------------------------------------------------
\* Mutant: a known key keeps its place, as assigning to an OrderedDict leaves it.
RememberInPlace(r, k, d) ==
    /\ decision' = [decision EXCEPT ![r] = d]
    /\ lru' = Newest(IF Contains(lru, k) THEN lru ELSE Append(lru, k), MaxSessions)
    /\ route' = [j \in Keys |-> IF j = k THEN [candidate |-> d.selected, owner |-> r]
                                ELSE IF Contains(lru', j) THEN route[j] ELSE NoRoute]
    /\ log' = Newest(Append(log, r), MaxDecisions)

\* _remember: the session of key k now follows the decision d of request r.
Remember(r, k, d) ==
    /\ decision' = [decision EXCEPT ![r] = d]
    /\ lru' = Newest(Append(RemoveFirst(lru, k), k), MaxSessions)
    /\ route' = [j \in Keys |-> IF j = k THEN [candidate |-> d.selected, owner |-> r]
                                ELSE IF Contains(lru', j) THEN route[j] ELSE NoRoute]
    /\ log' = Newest(Append(log, r), MaxDecisions)

\* What the previous route of the session pins, and why.
Pin(a, eligible) ==
    LET known == Contains(lru, a.key) /\ \E c \in ToSet(eligible): c.id = route[a.key].candidate
    IN  CASE known /\ a.role # "user" -> "tool_loop"
          [] known /\ a.role = "user" /\ a.mode = "auto:session" -> "session"
          [] OTHER -> "no"

\* route(): what r asks for meets what the session remembers.
Route(r, a) ==
    LET eligible == EligibleCandidates(Shortlist, a.body)
        ordered == OrderedCandidates(eligible, RequestedTier(a.mode, a.body))
        pinned == Pin(a, eligible)
        tried == IF pinned = "no" THEN ordered ELSE PinFirst(ordered, route[a.key].candidate)
        ids == [n \in DOMAIN tried |-> tried[n].id]
    IN  /\ asked' = [asked EXCEPT ![r] = a]
        /\ \/ /\ eligible # <<>>
              /\ Moves(r, "new", "routed")
              /\ Remember(r, a.key, [selected |-> ids[1], candidates |-> ids,
                                     pinned |-> pinned, attempts |-> <<>>])
           \/ /\ eligible = <<>>      \* RoutingError
              /\ Moves(r, "new", "refused")
              /\ UNCHANGED <<decision, tables>>

\* The ingress refuses it: the router never sees it.
TurnAway(r, a) ==
    /\ asked' = [asked EXCEPT ![r] = a]
    /\ Moves(r, "new", "refused")
    /\ UNCHANGED <<decision, tables>>

IsNext(r) == stage[r] = "new" /\ \A q \in 1..r - 1: stage[q] # "new"

Arrive(r) == IsNext(r) /\ \E a \in Arrivals: Route(r, a) \/ TurnAway(r, a)

\* Mutant: follows the session of the request, whoever it belongs to by now.
FinalizeByKey(r, selected, attempts) ==
    /\ decision' = [decision EXCEPT ![r].selected = selected, ![r].attempts = attempts]
    /\ route' = IF Contains(lru, asked[r].key)
                  THEN [route EXCEPT ![asked[r].key].candidate = selected] ELSE route
    /\ UNCHANGED <<asked, lru, log>>

\* Mutant: records what served the request and leaves its session alone.
FinalizeForgets(r, selected, attempts) ==
    /\ decision' = [decision EXCEPT ![r].selected = selected, ![r].attempts = attempts]
    /\ UNCHANGED <<asked, lru, route, log>>

\* finalize(): the session follows only if the decision it holds is this very one.
Finalize(r, selected, attempts) ==
    /\ decision' = [decision EXCEPT ![r].selected = selected, ![r].attempts = attempts]
    /\ route' = [k \in Keys |-> IF route[k].owner = r
                                  THEN [route[k] EXCEPT !.candidate = selected]
                                  ELSE route[k]]
    /\ UNCHANGED <<asked, lru, log>>

\* Candidate n answered, those before it failed.
Served(r) ==
    /\ \E n \in DOMAIN decision[r].candidates:
         Finalize(r, decision[r].candidates[n], SubSeq(decision[r].candidates, 1, n - 1))
    /\ Moves(r, "routed", "served")

\* _all_failed(): only the decision itself is told, its session is not.
RecordFailures(r, attempts) ==
    /\ decision' = [decision EXCEPT ![r].attempts = attempts]
    /\ UNCHANGED <<asked, tables>>

AllFailed(r) == RecordFailures(r, decision[r].candidates) /\ Moves(r, "routed", "failed")

\* The handler ends in an exception: nobody is told.
Raises(r) ==
    /\ Moves(r, "routed", "failed")
    /\ UNCHANGED <<asked, decision, tables>>

RouterNext == \E r \in Requests: Arrive(r) \/ Served(r) \/ AllFailed(r) \/ Raises(r)

RouterSpec == RouterInit /\ [][RouterNext]_routerVars

-----------------------------------------------------------------------------
\* decision_for() and the pin agree: a session's candidate is always the one its
\* own decision selected, however late and in whatever order requests finish.
RouteMatchesDecision ==
    \A k \in Keys: route[k].owner # None =>
        /\ route[k].candidate = decision[route[k].owner].selected
        /\ asked[route[k].owner].key = k
        /\ Contains(lru, k)

\* The table keeps the sessions routed most recently, each with its newest
\* request: what eviction drops has seen MaxSessions other sessions since.
KeepsRecentSessions ==
    \A k \in Keys, n \in DOMAIN log:
      asked[log[n]].key = k /\ (\A m \in n + 1 .. Len(log): asked[log[m]].key # k) =>
        LET since == {asked[log[m]].key: m \in n + 1 .. Len(log)}
        IN  IF Cardinality(since) < MaxSessions THEN route[k].owner = log[n]
            ELSE ~Contains(lru, k)

\* A tool result is tried first on the candidate that really served the latest
\* request of its session, fallbacks included, if that can serve it.
ToolResultFollows ==
    [][\A r \in Requests:
         stage[r] = "new" /\ stage'[r] = "routed" /\ asked'[r].role = "tool"
           /\ Contains(lru, asked'[r].key) =>
         LET served == decision[route[asked'[r].key].owner].selected
         IN  \A c \in ToSet(Shortlist):
               c.id = served /\ Reasons(c, asked'[r].body) = {}
                 => decision'[r].selected = served]_routerVars

=============================================================================
