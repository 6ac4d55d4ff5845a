----------------------------- MODULE RelayProofs -----------------------------
(***************************************************************************)
(* What the relay promises for every number of requests, candidates,       *)
(* connections and chunks: it drives the router as the router expects to   *)
(* be driven, so all that is proved of the router holds of it; a stream    *)
(* is one candidate's; what is refused leaves nothing behind.              *)
(***************************************************************************)
EXTENDS Relay, FiniteSetTheorems, SequenceTheorems, TLAPS

\* The proofs about the router, read with the stages of the relay's requests.
RP == INSTANCE RouterProofs WITH stage <- Stage

LEMMA RouterParametersHold == RP!RouterAssumption
BY RelayAssumption
   DEF RP!RouterParameters, R!RouterParameters, R!CandidateType, RP!CandidateType,
       R!Tiers, RP!Tiers, R!ToSet, RP!ToSet, R!Capabilities, RP!Capabilities,
       R!Requests, RP!Requests, R!Ids, RP!Ids, R!Modes, RP!Modes
-----------------------------------------------------------------------------
(* R and RP are two readings of the same definitions                        *)

LEMMA SameCandidates ==
    /\ \A s, body: R!EligibleCandidates(s, body) = RP!EligibleCandidates(s, body)
    /\ \A e, tier: R!OrderedCandidates(e, tier) = RP!OrderedCandidates(e, tier)
    /\ \A o, id: R!PinFirst(o, id) = RP!PinFirst(o, id)
    /\ \A mode, body: R!RequestedTier(mode, body) = RP!RequestedTier(mode, body)
    /\ \A a, e: R!Pin(a, e) = RP!Pin(a, e)
<1>1. \A s, body: R!EligibleCandidates(s, body) = RP!EligibleCandidates(s, body)
  BY DEF R!EligibleCandidates, RP!EligibleCandidates, R!Picked, RP!Picked, R!Reasons,
     RP!Reasons, R!Cardinality, RP!Cardinality
<1>2. \A e, tier: R!OrderedCandidates(e, tier) = RP!OrderedCandidates(e, tier)
  BY DEF R!OrderedCandidates, RP!OrderedCandidates, R!TierFallbackOrder,
     RP!TierFallbackOrder, R!TierIndex, RP!TierIndex, R!Tier, RP!Tier, R!Tiers,
     RP!Tiers, R!Reverse, RP!Reverse, R!Picked, RP!Picked, R!Cardinality, RP!Cardinality
<1>3. \A o, id: R!PinFirst(o, id) = RP!PinFirst(o, id)
  BY DEF R!PinFirst, RP!PinFirst, R!Named, RP!Named, R!Picked, RP!Picked, R!Cardinality,
     RP!Cardinality
<1>4. \A mode, body: R!RequestedTier(mode, body) = RP!RequestedTier(mode, body)
  BY DEF R!RequestedTier, RP!RequestedTier, R!CompatibilityTier, RP!CompatibilityTier,
     R!DetectedTier, RP!DetectedTier, R!ComplexityScore, RP!ComplexityScore, R!Points,
     RP!Points
<1>5. \A a, e: R!Pin(a, e) = RP!Pin(a, e)
  BY DEF R!Pin, RP!Pin, R!ToSet, RP!ToSet, R!Contains, RP!Contains
<1>. QED BY <1>1, <1>2, <1>3, <1>4, <1>5

LEMMA SameSteps == R!RouterNext = RP!RouterNext /\ R!routerVars = RP!routerVars
<1>1. \A r, k, d: R!Remember(r, k, d) = RP!Remember(r, k, d)
  BY DEF R!Remember, RP!Remember, R!Newest, RP!Newest, R!RemoveFirst, RP!RemoveFirst,
     R!RemoveAt, RP!RemoveAt, R!SelectInSeq, RP!SelectInSeq, R!Min, RP!Min, R!NoRoute,
     RP!NoRoute, R!Contains, RP!Contains
<1>2. \A r, from, to: R!Moves(r, from, to) = RP!Moves(r, from, to)
  BY DEF R!Moves, RP!Moves
<1>3. ASSUME NEW r, NEW a PROVE R!Route(r, a) = RP!Route(r, a)
  BY <1>1, <1>2, SameCandidates DEF R!Route, RP!Route, R!tables, RP!tables
<1>4. \A r, a: R!TurnAway(r, a) = RP!TurnAway(r, a)
  BY <1>2 DEF R!TurnAway, RP!TurnAway, R!tables, RP!tables
<1>5. \A r: R!IsNext(r) = RP!IsNext(r)
  BY DEF R!IsNext, RP!IsNext
<1>6. \A r: R!Arrive(r) = RP!Arrive(r)
  BY <1>3, <1>4, <1>5 DEF R!Arrive, RP!Arrive
<1>7. \A r: R!Served(r) = RP!Served(r)
  BY <1>2 DEF R!Served, RP!Served, R!Finalize, RP!Finalize
<1>8. \A r: R!AllFailed(r) = RP!AllFailed(r)
  BY <1>2 DEF R!AllFailed, RP!AllFailed, R!RecordFailures, RP!RecordFailures, R!tables,
     RP!tables
<1>9. \A r: R!Raises(r) = RP!Raises(r)
  BY <1>2 DEF R!Raises, RP!Raises, R!tables, RP!tables
<1>. QED
  BY <1>6, <1>7, <1>8, <1>9 DEF R!RouterNext, RP!RouterNext, R!routerVars,
     RP!routerVars, R!Requests, RP!Requests

LEMMA SameActions == [R!RouterNext]_R!routerVars <=> [RP!RouterNext]_RP!routerVars
<1>1. UNCHANGED R!routerVars <=> UNCHANGED RP!routerVars
  BY DEF R!routerVars, RP!routerVars
<1>. QED BY <1>1, SameSteps

LEMMA SameStates ==
    /\ R!RouterInit = RP!RouterInit
    /\ R!RouterTypeOK = RP!RouterTypeOK
    /\ R!RouteMatchesDecision = RP!RouteMatchesDecision
    /\ R!KeepsRecentSessions = RP!KeepsRecentSessions
<1>1. R!RouterInit = RP!RouterInit
  BY DEF R!RouterInit, RP!RouterInit, R!Requests, RP!Requests, R!NoDecision,
     RP!NoDecision, R!NoRoute, RP!NoRoute
<1>2. R!RouterTypeOK = RP!RouterTypeOK
  BY DEF R!RouterTypeOK, RP!RouterTypeOK, R!Requests, RP!Requests, R!Ids, RP!Ids
<1>3. R!RouteMatchesDecision = RP!RouteMatchesDecision
  BY DEF R!RouteMatchesDecision, RP!RouteMatchesDecision, R!Contains, RP!Contains
<1>4. R!KeepsRecentSessions = RP!KeepsRecentSessions
  BY DEF R!KeepsRecentSessions, RP!KeepsRecentSessions, R!Contains, RP!Contains,
     R!Cardinality, RP!Cardinality
<1>. QED BY <1>1, <1>2, <1>3, <1>4

-----------------------------------------------------------------------------
(* The stages of requests                                                   *)

Places == {"new", "refused", "try", "sending", "first", "ready", "rejected", "relaying",
           "answered", "cut", "dropped", "lost", "all_failed", "internal"}
AtWork == {"try", "sending", "first"}
Committed == {"ready", "rejected", "relaying", "answered", "cut", "dropped", "lost"}

Coarse(place) ==
    CASE place \in {"try", "sending", "first"} -> "routed"
      [] place \in {"ready", "rejected", "relaying", "answered", "cut",
                    "dropped", "lost"} -> "served"
      [] place \in {"all_failed", "internal"} -> "failed"
      [] OTHER -> place

LEMMA CoarseValues ==
    /\ \A place \in AtWork: Coarse(place) = "routed"
    /\ \A place \in Committed: Coarse(place) = "served"
    /\ Coarse("all_failed") = "failed" /\ Coarse("internal") = "failed"
    /\ Coarse("new") = "new" /\ Coarse("refused") = "refused"
BY DEF Coarse, AtWork, Committed

LEMMA StageIsCoarse ==
    /\ Stage = [r \in Requests |-> Coarse(at[r])]
    /\ Stage' = [r \in Requests |-> Coarse(at'[r])]
BY DEF Stage, Coarse, Requests, R!Requests

LEMMA StageMoves ==
    ASSUME at \in [Requests -> Places], NEW r \in Requests, NEW from, NEW to, Goes(r, from, to)
    PROVE  Stage' = [Stage EXCEPT ![r] = Coarse(to)] /\ Stage[r] = Coarse(from)
<1>1. \A q \in Requests: at'[q] = IF q = r THEN to ELSE at[q]
  BY DEF Goes
<1>2. at[r] = from
  BY DEF Goes
<1>3. [Stage EXCEPT ![r] = Coarse(to)] = [q \in Requests |-> Coarse(at'[q])]
  BY <1>1, StageIsCoarse
<1>. QED BY <1>2, <1>3, StageIsCoarse

-----------------------------------------------------------------------------
(* The inductive invariant                                                  *)

\* How far the handler of r is agrees with what it recorded and sent.
Progress(r) ==
    /\ at[r] \in {"new", "refused"} => nth[r] = 1 /\ attempts[r] = <<>>
    /\ at[r] \in AtWork \cup Committed =>
         /\ nth[r] \in 1..Len(decision[r].candidates)
         /\ attempts[r] = SubSeq(decision[r].candidates, 1, nth[r] - 1)
    /\ at[r] \in Committed => decision[r].selected = Tried(r)
    /\ at[r] \notin Committed => sent[r] = <<>>
    /\ \A n \in DOMAIN sent[r]: sent[r][n] = Tried(r)

Pooled(r) ==
    \A c \in R!Ids: r \in pool[c] =>
      Uses(r, c) \/ (Streams(r) /\ (Contains(attempts[r], c) \/ Abandoned(r, c)))

Streamed(r) == at[r] \in {"first", "ready", "rejected", "dropped", "lost"} => Streams(r)

Admitted(r) ==
    at[r] \notin {"new", "refused"} =>
      asked[r] \in Arrivals /\ I!Verdict(asked[r].call, Token) = 200

Proper(r) == Progress(r) /\ Pooled(r) /\ Streamed(r) /\ Admitted(r)

RelayTypeOK ==
    /\ at \in [Requests -> Places]
    /\ nth \in [Requests -> 1..Len(Shortlist)]
    /\ attempts \in [Requests -> Seq(R!Ids)]
    /\ sent \in [Requests -> Seq(R!Ids)] /\ \A r \in Requests: Len(sent[r]) <= MaxChunks
    /\ pool \in [R!Ids -> SUBSET Requests] /\ \A c \in R!Ids: Cardinality(pool[c]) <= PoolSize

RelayInv ==
    /\ RelayTypeOK
    /\ RP!RouterInv
    /\ \A r \in Requests: Proper(r)

-----------------------------------------------------------------------------
(* The steps                                                                *)

\* Nothing of another request changes, and nobody else takes a connection.
Frame(r) ==
    /\ \A q \in Requests: q # r =>
         /\ at'[q] = at[q] /\ nth'[q] = nth[q] /\ attempts'[q] = attempts[q]
         /\ sent'[q] = sent[q] /\ decision'[q] = decision[q] /\ asked'[q] = asked[q]
    /\ \A c \in R!Ids: pool'[c] \ {r} \subseteq pool[c]

Failing(r) ==
    \/ at[r] = "try" /\ Fails(r, "try") /\ UNCHANGED pool
    \/ at[r] = "sending" /\ Fails(r, "sending") /\ (Release(r) \/ (Streams(r) /\ UNCHANGED pool))

Committing(r) ==
    /\ \E from \in {"sending", "first"}, to \in {"ready", "rejected", "answered"}:
         /\ Commits(r, from, to)
         /\ Release(r) \/ (to # "answered" /\ UNCHANGED pool)
         /\ to # "answered" => from = "first" \/ Streams(r)
    /\ sent' = sent \/ sent' = [sent EXCEPT ![r] = <<Tried(r)>>]

Moving(r) ==
    /\ \/ /\ \/ Goes(r, "sending", "first") /\ Streams(r) /\ UNCHANGED pool
             \/ Goes(r, "first", "internal") /\ Release(r)
             \/ \E to \in {"answered", "cut"}: Goes(r, "relaying", to) /\ Release(r)
             \/ Goes(r, "dropped", "cut") /\ Release(r)
             \/ Goes(r, "ready", "dropped") /\ UNCHANGED pool
             \/ Goes(r, "rejected", "lost") /\ UNCHANGED pool
          /\ UNCHANGED sent
       \/ /\ \E from \in {"ready", "rejected"}: Goes(r, from, "relaying") /\ UNCHANGED pool
          /\ sent' = sent \/ sent' = [sent EXCEPT ![r] = <<Tried(r)>>]
    /\ UNCHANGED <<nth, attempts, routing>>

\* What a step of the relay is.
LEMMA RelaySteps ==
    ASSUME Next
    PROVE  \E r \in Requests: \/ Arrive(r) \/ Connect(r) \/ Chunk(r)
                              \/ Failing(r) \/ Committing(r) \/ Moving(r)
<1>1. PICK r \in Requests: Arrive(r) \/ Try(r) \/ Upstream(r)
  BY DEF Next
<1>2. CASE NoCredential(r) \/ PoolTimeout(r) \/ SendFails(r) \/ Retryable(r)
  <2>1. Failing(r)
    BY <1>2 DEF NoCredential, PoolTimeout, SendFails, Retryable, Failing
  <2>. QED BY <2>1
<1>3. CASE AnswersPlain(r) \/ Rejects(r) \/ FirstByte(r) \/ Empty(r)
  <2>1. Committing(r)
    BY <1>3 DEF AnswersPlain, Rejects, FirstByte, Empty, Committing
  <2>. QED BY <2>1
<1>4. CASE Opens(r) \/ FirstFails(r) \/ StreamEnds(r) \/ StreamCut(r)
  <2>1. Moving(r)
    BY <1>4 DEF Opens, FirstFails, StreamEnds, StreamCut, Moving
  <2>. QED BY <2>1
<1>5. CASE Unpulled(r) \/ Collected(r)
  <2>1. Moving(r)
    BY <1>5 DEF Unpulled, Collected, Moving
  <2>. QED BY <2>1
<1>6. CASE Pulled(r)
  <2>1. PICK from \in {"ready", "rejected"}:
          /\ Goes(r, from, "relaying")
          /\ sent' = sent \/ sent' = [sent EXCEPT ![r] = <<Tried(r)>>]
    BY <1>6 DEF Pulled
  <2>2. Moving(r)
    BY <1>6, <2>1 DEF Pulled, Moving
  <2>. QED BY <2>2
<1>. QED BY <1>1, <1>2, <1>3, <1>4, <1>5, <1>6 DEF Try, Upstream

\* A request in progress has a plan and tries a candidate of it.
LEMMA AtWorkHolds ==
    ASSUME RelayInv, NEW r \in Requests
    PROVE  /\ decision[r] \in [selected: R!Ids \cup {None}, candidates: Seq(R!Ids),
                               pinned: {"no", "tool_loop", "session"}, attempts: Seq(R!Ids)]
           /\ decision = [q \in Requests |-> decision[q]]
           /\ at[r] \in AtWork \cup Committed => Tried(r) \in R!Ids
           /\ at[r] \in AtWork => Len(decision[r].candidates) <= Len(Shortlist)
<1>1. R!RouterTypeOK
  BY SameStates DEF RelayInv, RP!RouterInv
<1>2. decision \in [Requests -> [selected: R!Ids \cup {None}, candidates: Seq(R!Ids),
                                 pinned: {"no", "tool_loop", "session"},
                                 attempts: Seq(R!Ids)]]
  BY <1>1 DEF R!RouterTypeOK, Requests
<1>3. ASSUME at[r] \in AtWork \cup Committed PROVE Tried(r) \in R!Ids
  <2>1. nth[r] \in 1..Len(decision[r].candidates)
    BY <1>3 DEF RelayInv, Proper, Progress
  <2>. QED BY <1>2, <2>1 DEF Tried
<1>4. ASSUME at[r] \in AtWork PROVE Len(decision[r].candidates) <= Len(Shortlist)
  <2>1. Stage[r] = "routed"
    BY <1>4, CoarseValues, StageIsCoarse
  <2>2. /\ RP!Routed(r)
        /\ Len(decision[r].candidates) \in 1..Len(Shortlist)
    BY <2>1 DEF RelayInv, RP!RouterInv, RP!History, Requests, R!Requests, RP!Requests
  <2>. QED BY <2>2
<1>. QED BY <1>2, <1>3, <1>4

\* Whatever step r takes, the others stay as they should be.
LEMMA OthersStay ==
    ASSUME RelayInv, NEW r \in Requests, Frame(r), NEW q \in Requests, q # r
    PROVE  Proper(q)'
<1>1. /\ at'[q] = at[q] /\ nth'[q] = nth[q] /\ attempts'[q] = attempts[q]
      /\ sent'[q] = sent[q] /\ decision'[q] = decision[q] /\ asked'[q] = asked[q]
      /\ \A c \in R!Ids: q \in pool'[c] => q \in pool[c]
  BY DEF Frame
<1>2. Proper(q)
  BY DEF RelayInv
<1>3. Progress(q)'
  BY <1>1, <1>2 DEF Proper, Progress, Tried
<1>4. Pooled(q)'
  BY <1>1, <1>2 DEF Proper, Pooled, Uses, Abandoned, Tried, Streams, R!Ids
<1>5. Streamed(q)' /\ Admitted(q)'
  BY <1>1, <1>2 DEF Proper, Streamed, Streams, Admitted
<1>. QED BY <1>3, <1>4, <1>5 DEF Proper

\* Giving connections back keeps the pools in their bounds.
LEMMA PoolShrinks ==
    ASSUME RelayInv, NEW r \in Requests, Tried(r) \in R!Ids, Release(r) \/ UNCHANGED pool
    PROVE  /\ pool' \in [R!Ids -> SUBSET Requests]
           /\ \A c \in R!Ids: pool'[c] \subseteq pool[c] /\ Cardinality(pool'[c]) <= PoolSize
           /\ Release(r) => r \notin pool'[Tried(r)]
<1>1. pool \in [R!Ids -> SUBSET Requests] /\ \A c \in R!Ids: Cardinality(pool[c]) <= PoolSize
  BY DEF RelayInv, RelayTypeOK
<1>2. /\ pool' \in [R!Ids -> SUBSET Requests]
      /\ \A c \in R!Ids: pool'[c] \subseteq pool[c]
      /\ Release(r) => r \notin pool'[Tried(r)]
  BY <1>1 DEF Release
<1>3. IsFiniteSet(Requests)
  <2>1. Requests = 1..MaxRequests /\ MaxRequests \in Nat
    BY RelayAssumption DEF Requests, R!Requests, R!RouterParameters
  <2>. QED BY <2>1, FS_Interval
<1>4. PoolSize \in Nat
  BY RelayAssumption
<1>5. ASSUME NEW c \in R!Ids PROVE Cardinality(pool'[c]) <= PoolSize
  <2> DEFINE S == pool[c]
             T == pool'[c]
  <2>1. S \in SUBSET Requests /\ T \in SUBSET S /\ Cardinality(S) <= PoolSize
    BY <1>1, <1>2
  <2> HIDE DEF S, T
  <2>2. IsFiniteSet(S)
    BY <1>3, <2>1, FS_Subset
  <2>3. IsFiniteSet(T) /\ Cardinality(T) <= Cardinality(S)
    BY <2>1, <2>2, FS_Subset
  <2>4. Cardinality(S) \in Nat
    BY <2>2, FS_CardinalityType
  <2>5. Cardinality(T) \in Nat
    BY <2>3, FS_CardinalityType
  <2>6. Cardinality(T) <= PoolSize
    BY <1>4, <2>1, <2>3, <2>4, <2>5
  <2>. QED BY <2>6 DEF T
<1>. QED BY <1>2, <1>5

LEMMA PrefixGrows ==
    ASSUME NEW T, NEW s \in Seq(T), NEW n \in 1..Len(s)
    PROVE  Append(SubSeq(s, 1, n - 1), s[n]) = SubSeq(s, 1, n)
<1> DEFINE p == SubSeq(s, 1, n - 1)
           q == SubSeq(s, 1, n)
<1>1. p \in Seq(T) /\ Len(p) = n - 1 /\ \A i \in 1..n - 1: p[i] = s[i]
  OBVIOUS
<1>2. q \in Seq(T) /\ Len(q) = n /\ \A i \in 1..n: q[i] = s[i]
  OBVIOUS
<1> HIDE DEF p, q
<1> DEFINE u == Append(p, s[n])
<1>3. u \in Seq(T) /\ Len(u) = n /\ \A i \in 1..n: u[i] = s[i]
  BY <1>1
<1> HIDE DEF u
<1>4. u = q
  BY <1>2, <1>3, SeqEqual
<1>. QED BY <1>4 DEF u, p, q

LEMMA FailingHolds ==
    ASSUME RelayInv, NEW r \in Requests, Failing(r)
    PROVE  Frame(r) /\ RelayTypeOK' /\ Proper(r)' /\ [R!RouterNext]_R!routerVars
<1> DEFINE s == decision[r].candidates
           n == nth[r]
<1>1. at[r] \in {"try", "sending"} /\ Fails(r, at[r]) /\ (Release(r) \/ UNCHANGED pool)
  BY DEF Failing
<1>2. /\ decision[r] \in [selected: R!Ids \cup {None}, candidates: Seq(R!Ids),
                          pinned: {"no", "tool_loop", "session"}, attempts: Seq(R!Ids)]
      /\ decision = [q \in Requests |-> decision[q]]
      /\ Tried(r) \in R!Ids /\ Len(s) <= Len(Shortlist)
  BY <1>1, AtWorkHolds DEF AtWork
<1>3. Proper(r) /\ RelayTypeOK
  BY DEF RelayInv
<1>4. n \in 1..Len(s) /\ attempts[r] = SubSeq(s, 1, n - 1) /\ sent[r] = <<>>
  BY <1>1, <1>3 DEF Proper, Progress, AtWork, Committed
<1>5. /\ pool' \in [R!Ids -> SUBSET Requests]
      /\ \A c \in R!Ids: pool'[c] \subseteq pool[c] /\ Cardinality(pool'[c]) <= PoolSize
      /\ Release(r) => r \notin pool'[Tried(r)]
  BY <1>1, <1>2, PoolShrinks
<1>6. attempts'[r] = SubSeq(s, 1, n) /\ attempts'[r] = Append(attempts[r], Tried(r))
      /\ attempts' \in [Requests -> Seq(R!Ids)]
      /\ \A q \in Requests: q # r => attempts'[q] = attempts[q]
  <2>1. attempts' = [attempts EXCEPT ![r] = Append(attempts[r], Tried(r))]
    BY <1>1 DEF Fails
  <2>2. Append(attempts[r], Tried(r)) = SubSeq(s, 1, n)
    BY <1>2, <1>4, PrefixGrows DEF Tried
  <2> DEFINE u == Append(attempts[r], Tried(r))
  <2>3. attempts \in [Requests -> Seq(R!Ids)]
    BY <1>3 DEF RelayTypeOK
  <2>4. u \in Seq(R!Ids)
    BY <1>2, <2>3
  <2> HIDE DEF u
  <2>5. /\ attempts'[r] = u /\ attempts' \in [Requests -> Seq(R!Ids)]
        /\ \A q \in Requests: q # r => attempts'[q] = attempts[q]
    BY <2>1, <2>3, <2>4 DEF u
  <2>. QED BY <2>2, <2>5 DEF u
<1>7. sent' = sent
  BY <1>1 DEF Fails
<1>8. s \in Seq(R!Ids) /\ Len(s) \in Nat
  BY <1>2
<1> HIDE DEF s, n
<1>9. asked' = asked /\ lru' = lru /\ route' = route /\ log' = log
  BY <1>1 DEF Fails, routing, R!RecordFailures, R!tables
<1>10. Pooled(r)' <=> \A c \in R!Ids: r \in pool'[c] =>
         Uses(r, c)' \/ (Streams(r) /\ (Contains(attempts'[r], c) \/ Abandoned(r, c)'))
  BY <1>9 DEF Pooled, Streams, R!Ids
<1>11. \A c: Contains(attempts[r], c) \/ c = Tried(r) => Contains(attempts'[r], c)
  <2> DEFINE p == attempts[r]
             e == Tried(r)
  <2>1. p \in Seq(R!Ids) /\ e \in R!Ids
    BY <1>2, <1>3 DEF RelayTypeOK
  <2> HIDE DEF p, e
  <2>2. \A c: Contains(p, c) \/ c = e => Contains(Append(p, e), c)
    <3>1. /\ Len(Append(p, e)) = Len(p) + 1 /\ Append(p, e)[Len(p) + 1] = e
          /\ \A i \in 1..Len(p): Append(p, e)[i] = p[i]
          /\ DOMAIN p = 1..Len(p) /\ DOMAIN Append(p, e) = 1..Len(p) + 1 /\ Len(p) \in Nat
      BY <2>1
    <3>. QED BY <3>1 DEF Contains
  <2>3. attempts'[r] = Append(p, e)
    BY <1>6 DEF p, e
  <2>. QED BY <2>2, <2>3 DEF p, e
<1>12. Pooled(r)'
  <2>1. ASSUME NEW c \in R!Ids, r \in pool'[c]
        PROVE  Streams(r) /\ Contains(attempts'[r], c)
    <3>1. r \in pool[c]
      BY <1>5, <2>1
    <3>2. Uses(r, c) \/ (Streams(r) /\ Contains(attempts[r], c))
      BY <1>1, <1>3, <3>1 DEF Proper, Pooled, Abandoned
    <3>3. CASE Uses(r, c)
      <4>1. c = Tried(r) /\ at[r] = "sending"
        BY <1>1, <3>3 DEF Uses
      <4>2. Streams(r)
        BY <1>5, <2>1, <4>1 DEF Failing
      <4>. QED BY <1>11, <4>1, <4>2
    <3>4. CASE Streams(r) /\ Contains(attempts[r], c)
      BY <1>11, <3>4
    <3>. QED BY <3>2, <3>3, <3>4
  <2>. QED BY <1>10, <2>1
<1>13. CASE /\ n < Len(s) /\ Goes(r, at[r], "try") /\ nth' = [nth EXCEPT ![r] = @ + 1]
            /\ UNCHANGED routing
  <2>1. /\ decision' = decision /\ at'[r] = "try" /\ nth'[r] = n + 1
        /\ \A q \in Requests: q # r => at'[q] = at[q] /\ nth'[q] = nth[q]
    BY <1>3, <1>13 DEF routing, Goes, RelayTypeOK, n
  <2>2. Frame(r)
    BY <1>5, <1>6, <1>7, <1>9, <2>1 DEF Frame
  <2>3. RelayTypeOK'
    <3>1. at' \in [Requests -> Places]
      BY <1>3, <1>13 DEF RelayTypeOK, Goes, Places
    <3>2. nth' \in [Requests -> 1..Len(Shortlist)]
      <4>1. n + 1 \in 1..Len(Shortlist)
        BY <1>2, <1>4, <1>8, <1>13 DEF s, n, RelayTypeOK
      <4>. QED BY <1>3, <1>13, <4>1 DEF RelayTypeOK, n
    <3>. QED BY <1>3, <1>5, <1>6, <1>7, <3>1, <3>2 DEF RelayTypeOK
  <2>4. Progress(r)'
    <3>1. n + 1 \in 1..Len(s) /\ n + 1 - 1 = n
      BY <1>4, <1>8, <1>13 DEF s, n
    <3>2. decision'[r].candidates = s
      BY <2>1 DEF s
    <3>3. DOMAIN sent'[r] = {}
      BY <1>4, <1>7
    <3>. QED BY <1>4, <1>6, <1>7, <2>1, <3>1, <3>2, <3>3 DEF Progress, AtWork, Committed
  <2>5. Admitted(r)' /\ Streamed(r)'
    BY <1>1, <1>3, <1>9, <2>1 DEF Proper, Admitted, Streamed
  <2>6. Stage' = Stage
    <3>1. Stage' = [Stage EXCEPT ![r] = "routed"] /\ Stage[r] = "routed"
      BY <1>1, <1>3, <1>13, StageMoves, CoarseValues DEF RelayTypeOK, AtWork
    <3>. QED BY <3>1, StageIsCoarse
  <2>. QED BY <1>9, <1>12, <2>1, <2>2, <2>3, <2>4, <2>5, <2>6 DEF Proper, R!routerVars
<1>14. CASE /\ n = Len(s) /\ Goes(r, at[r], "all_failed")
            /\ R!RecordFailures(r, attempts'[r]) /\ UNCHANGED nth
  <2>1. attempts'[r] = s
    BY <1>6, <1>8, <1>14, SubSeqFull
  <2>2. /\ at'[r] = "all_failed" /\ nth' = nth
        /\ decision' = [decision EXCEPT ![r].attempts = s]
        /\ \A q \in Requests: q # r => at'[q] = at[q] /\ decision'[q] = decision[q]
    BY <1>2, <1>3, <1>14, <2>1 DEF Goes, RelayTypeOK, R!RecordFailures
  <2>3. Frame(r)
    BY <1>5, <1>6, <1>7, <1>9, <2>2 DEF Frame
  <2>4. RelayTypeOK'
    <3>1. at' \in [Requests -> Places]
      BY <1>3, <1>14 DEF RelayTypeOK, Goes, Places
    <3>. QED BY <1>3, <1>5, <1>6, <1>7, <2>2, <3>1 DEF RelayTypeOK
  <2>5. Progress(r)'
    <3>1. DOMAIN sent'[r] = {}
      BY <1>4, <1>7
    <3>. QED BY <1>4, <1>7, <2>2, <3>1 DEF Progress, AtWork, Committed
  <2>6. Admitted(r)' /\ Streamed(r)'
    BY <1>1, <1>3, <1>9, <2>2 DEF Proper, Admitted, Streamed
  <2>7. Stage' = [Stage EXCEPT ![r] = "failed"] /\ Stage[r] = "routed"
    BY <1>1, <1>3, <1>14, StageMoves, CoarseValues DEF RelayTypeOK, AtWork
  <2>8. R!AllFailed(r)
    BY <1>14, <2>1, <2>7 DEF R!AllFailed, R!Moves, s
  <2>9. R!RouterNext
    BY <2>8 DEF R!RouterNext, Requests
  <2>. QED BY <1>12, <2>3, <2>4, <2>5, <2>6, <2>9 DEF Proper
<1>. QED BY <1>1, <1>13, <1>14 DEF Fails, s, n

LEMMA CommittingHolds ==
    ASSUME RelayInv, NEW r \in Requests, Committing(r)
    PROVE  Frame(r) /\ RelayTypeOK' /\ Proper(r)' /\ [R!RouterNext]_R!routerVars
<1> DEFINE s == decision[r].candidates
           n == nth[r]
           c0 == Tried(r)
<1>1. PICK from \in {"sending", "first"}, to \in {"ready", "rejected", "answered"}:
        /\ Commits(r, from, to)
        /\ Release(r) \/ (to # "answered" /\ UNCHANGED pool)
        /\ to # "answered" => from = "first" \/ Streams(r)
  BY DEF Committing
<1>2. Goes(r, from, to) /\ R!Finalize(r, c0, attempts[r]) /\ UNCHANGED <<nth, attempts>>
  BY <1>1 DEF Commits
<1>3. /\ decision[r] \in [selected: R!Ids \cup {None}, candidates: Seq(R!Ids),
                          pinned: {"no", "tool_loop", "session"}, attempts: Seq(R!Ids)]
      /\ decision = [q \in Requests |-> decision[q]]
      /\ c0 \in R!Ids
  BY <1>2, AtWorkHolds DEF AtWork, Goes
<1>4. Proper(r) /\ RelayTypeOK
  BY DEF RelayInv
<1>5. n \in 1..Len(s) /\ attempts[r] = SubSeq(s, 1, n - 1) /\ sent[r] = <<>>
      /\ s \in Seq(R!Ids) /\ c0 = s[n]
  BY <1>2, <1>3, <1>4 DEF Goes, Proper, Progress, AtWork, Committed, Tried
<1>6. /\ at'[r] = to /\ nth' = nth /\ attempts' = attempts /\ asked' = asked
      /\ \A q \in Requests: q # r => at'[q] = at[q]
      /\ at' \in [Requests -> Places]
  BY <1>2, <1>4 DEF Goes, RelayTypeOK, R!Finalize, Places
<1>7. /\ decision'[r].candidates = s /\ decision'[r].selected = c0
      /\ \A q \in Requests: q # r => decision'[q] = decision[q]
  BY <1>2, <1>3 DEF R!Finalize
<1>8. /\ pool' \in [R!Ids -> SUBSET Requests]
      /\ \A c \in R!Ids: pool'[c] \subseteq pool[c] /\ Cardinality(pool'[c]) <= PoolSize
      /\ Release(r) => r \notin pool'[c0]
  BY <1>1, <1>3, PoolShrinks
<1>9. /\ sent'[r] = <<>> \/ sent'[r] = <<c0>>
      /\ sent' \in [Requests -> Seq(R!Ids)] /\ \A q \in Requests: Len(sent'[q]) <= MaxChunks
      /\ \A q \in Requests: q # r => sent'[q] = sent[q]
  <2>1. sent' = sent \/ sent' = [sent EXCEPT ![r] = <<c0>>]
    BY DEF Committing
  <2>2. MaxChunks \in Nat \ {0}
    BY RelayAssumption
  <2> HIDE DEF c0
  <2>3. <<c0>> \in Seq(R!Ids) /\ Len(<<c0>>) = 1
    BY <1>3
  <2>4. sent \in [Requests -> Seq(R!Ids)] /\ \A q \in Requests: Len(sent[q]) <= MaxChunks
    BY <1>4 DEF RelayTypeOK
  <2>5. CASE sent' = sent
    BY <1>5, <2>4, <2>5
  <2>6. CASE sent' = [sent EXCEPT ![r] = <<c0>>]
    BY <2>2, <2>3, <2>4, <2>6
  <2>. QED BY <2>1, <2>5, <2>6
<1>10. Tried(r)' = c0
  BY <1>6, <1>7 DEF Tried
<1>11. Streams(r)' = Streams(r)
  BY <1>6 DEF Streams
<1> HIDE DEF s, n, c0
<1>12. Frame(r)
  BY <1>6, <1>7, <1>8, <1>9 DEF Frame
<1>13. RelayTypeOK'
  BY <1>4, <1>6, <1>8, <1>9 DEF RelayTypeOK
<1>14. Progress(r)'
  <2>1. \A i \in DOMAIN sent'[r]: sent'[r][i] = c0
    BY <1>9
  <2>2. at'[r] \in Committed /\ at'[r] \notin {"new", "refused"}
    BY <1>6 DEF Committed
  <2>. QED BY <1>5, <1>6, <1>7, <1>10, <2>1, <2>2 DEF Progress, n
<1>15. Pooled(r)'
  <2>1. ASSUME NEW c \in R!Ids, r \in pool'[c]
        PROVE  Uses(r, c)' \/ (Streams(r) /\ Contains(attempts[r], c))
    <3>1. Uses(r, c) \/ (Streams(r) /\ Contains(attempts[r], c))
      BY <1>2, <1>4, <1>8, <2>1 DEF Proper, Pooled, Abandoned, Goes
    <3>2. CASE Uses(r, c)
      <4>1. c = c0
        BY <3>2 DEF Uses, c0
      <4>2. to \in {"ready", "rejected"}
        BY <1>1, <1>8, <2>1, <4>1
      <4>. QED BY <1>6, <1>10, <4>1, <4>2 DEF Uses
    <3>. QED BY <3>1, <3>2
  <2>. QED BY <1>6, <1>11, <2>1 DEF Pooled, R!Ids
<1>16. Admitted(r)' /\ Streamed(r)'
  BY <1>1, <1>2, <1>4, <1>6, <1>11 DEF Proper, Admitted, Streamed, Goes
<1>17. R!RouterNext
  <2>1. Stage' = [Stage EXCEPT ![r] = "served"] /\ Stage[r] = "routed"
    BY <1>2, <1>4, StageMoves, CoarseValues DEF RelayTypeOK, AtWork, Committed
  <2>2. n \in DOMAIN s /\ R!Finalize(r, s[n], SubSeq(s, 1, n - 1))
    BY <1>2, <1>5
  <2>3. R!Served(r)
    BY <2>1, <2>2 DEF R!Served, R!Moves, s
  <2>. QED BY <2>3 DEF R!RouterNext, Requests
<1>. QED BY <1>12, <1>13, <1>14, <1>15, <1>16, <1>17 DEF Proper

LEMMA MovingHolds ==
    ASSUME RelayInv, NEW r \in Requests, Moving(r)
    PROVE  Frame(r) /\ RelayTypeOK' /\ Proper(r)' /\ [R!RouterNext]_R!routerVars
<1>1. PICK from \in {"sending", "first", "ready", "rejected", "relaying", "dropped"},
           to \in {"first", "internal", "relaying", "answered", "cut", "dropped", "lost"}:
        /\ Goes(r, from, to)
        /\ to = "first" => from = "sending" /\ Streams(r)
        /\ to = "internal" => from = "first"
        /\ to = "relaying" => from \in {"ready", "rejected"}
        /\ to \in {"answered", "cut"} => from \in {"relaying", "dropped"}
        /\ to = "dropped" => from = "ready"
        /\ to = "lost" => from = "rejected"
        /\ IF to \in {"first", "relaying", "dropped", "lost"} THEN UNCHANGED pool ELSE Release(r)
        /\ sent' = sent \/ (to = "relaying" /\ sent' = [sent EXCEPT ![r] = <<Tried(r)>>])
  BY DEF Moving
<1>2. UNCHANGED <<nth, attempts, routing>>
  BY DEF Moving
<1>3. Proper(r) /\ RelayTypeOK
  BY DEF RelayInv
<1>4. Tried(r) \in R!Ids
  BY <1>1, AtWorkHolds DEF AtWork, Committed, Goes
<1>5. /\ pool' \in [R!Ids -> SUBSET Requests]
      /\ \A c \in R!Ids: pool'[c] \subseteq pool[c] /\ Cardinality(pool'[c]) <= PoolSize
      /\ Release(r) => r \notin pool'[Tried(r)]
  BY <1>1, <1>4, PoolShrinks
<1>6. /\ at[r] = from /\ at'[r] = to /\ at' \in [Requests -> Places]
      /\ \A q \in Requests: q # r => at'[q] = at[q]
  BY <1>1, <1>3 DEF Goes, RelayTypeOK, Places
<1>7. /\ nth' = nth /\ attempts' = attempts /\ asked' = asked
      /\ decision' = decision /\ Tried(r)' = Tried(r) /\ Streams(r)' = Streams(r)
  BY <1>2 DEF routing, Tried, Streams
<1> DEFINE c0 == Tried(r)
<1>70. /\ sent' \in [Requests -> Seq(R!Ids)] /\ \A q \in Requests: Len(sent'[q]) <= MaxChunks
       /\ \A q \in Requests: q # r => sent'[q] = sent[q]
       /\ sent'[r] = sent[r] \/ (to = "relaying" /\ sent'[r] = <<c0>>)
  <2>1. sent' = sent \/ (to = "relaying" /\ sent' = [sent EXCEPT ![r] = <<c0>>])
    BY <1>1
  <2>2. MaxChunks \in Nat \ {0}
    BY RelayAssumption
  <2>3. sent \in [Requests -> Seq(R!Ids)] /\ \A q \in Requests: Len(sent[q]) <= MaxChunks
    BY <1>3 DEF RelayTypeOK
  <2> HIDE DEF c0
  <2>4. <<c0>> \in Seq(R!Ids) /\ Len(<<c0>>) = 1
    BY <1>4 DEF c0
  <2>5. CASE sent' = sent
    BY <2>3, <2>5
  <2>6. CASE to = "relaying" /\ sent' = [sent EXCEPT ![r] = <<c0>>]
    BY <2>2, <2>3, <2>4, <2>6
  <2>. QED BY <2>1, <2>5, <2>6
<1>8. Frame(r)
  BY <1>5, <1>6, <1>7, <1>70 DEF Frame
<1>9. RelayTypeOK'
  BY <1>3, <1>5, <1>6, <1>7, <1>70 DEF RelayTypeOK
<1>10. Progress(r)'
  <2>1. \A n \in DOMAIN sent'[r]: sent'[r][n] = c0
    <3>1. CASE sent'[r] = sent[r]
      BY <1>3, <3>1 DEF Proper, Progress
    <3>2. CASE sent'[r] = <<c0>>
      <4> HIDE DEF c0
      <4>. QED BY <3>2
    <3>. QED BY <1>70, <3>1, <3>2
  <2>2. to \notin Committed => sent'[r] = <<>>
    BY <1>1, <1>3, <1>6, <1>70 DEF Proper, Progress, Committed
  <2>3. to \notin {"new", "refused"} /\ (to \in Committed => from \in Committed)
        /\ (to \in AtWork \cup Committed => from \in AtWork \cup Committed)
    BY <1>1 DEF AtWork, Committed
  <2>. QED BY <1>3, <1>6, <1>7, <2>1, <2>2, <2>3 DEF Proper, Progress
<1>11. Pooled(r)'
  <2>1. ASSUME NEW c \in R!Ids, r \in pool'[c]
        PROVE  Uses(r, c)' \/ (Streams(r) /\ (Contains(attempts[r], c) \/ Abandoned(r, c)'))
    <3>1. Uses(r, c) \/ (Streams(r) /\ (Contains(attempts[r], c) \/ Abandoned(r, c)))
      BY <1>3, <1>5, <2>1 DEF Proper, Pooled
    <3>2. CASE Uses(r, c) \/ Abandoned(r, c)
      <4>1. c = Tried(r)
        BY <3>2 DEF Uses, Abandoned
      <4>2. to \in {"first", "relaying", "dropped", "lost"}
        BY <1>1, <1>5, <2>1, <4>1
      <4>3. to \in {"dropped", "lost"} => Streams(r)
        BY <1>1, <1>3, <1>6 DEF Proper, Streamed
      <4>. QED BY <1>6, <1>7, <4>1, <4>2, <4>3 DEF Uses, Abandoned
    <3>. QED BY <3>1, <3>2
  <2>. QED BY <1>7, <2>1 DEF Pooled, R!Ids
<1>12. Admitted(r)' /\ Streamed(r)'
  BY <1>1, <1>3, <1>6, <1>7 DEF Proper, Admitted, Streamed
<1>13. [R!RouterNext]_R!routerVars
  <2>1. Stage' = [Stage EXCEPT ![r] = Coarse(to)] /\ Stage[r] = Coarse(from)
    BY <1>1, <1>3, StageMoves DEF RelayTypeOK
  <2>2. CASE to = "internal"
    <3>1. R!Moves(r, "routed", "failed")
      BY <1>1, <2>1, <2>2, CoarseValues DEF AtWork, R!Moves
    <3>2. R!Raises(r)
      BY <1>2, <3>1 DEF R!Raises, R!tables, routing
    <3>. QED BY <3>2 DEF R!RouterNext, Requests
  <2>3. CASE to # "internal"
    <3>1. Coarse(to) = Coarse(from)
      BY <1>1, <2>3, CoarseValues DEF AtWork, Committed
    <3>2. Stage' = Stage
      BY <2>1, <3>1, StageIsCoarse
    <3>. QED BY <1>2, <3>2 DEF R!routerVars, routing
  <2>. QED BY <2>2, <2>3
<1>. QED BY <1>8, <1>9, <1>10, <1>11, <1>12, <1>13 DEF Proper

LEMMA ConnectHolds ==
    ASSUME RelayInv, NEW r \in Requests, Connect(r)
    PROVE  Frame(r) /\ RelayTypeOK' /\ Proper(r)' /\ [R!RouterNext]_R!routerVars
<1> DEFINE c0 == Tried(r)
<1>1. /\ Goes(r, "try", "sending") /\ ~Full(r)
      /\ pool' = [pool EXCEPT ![c0] = @ \cup {r}]
      /\ UNCHANGED <<nth, attempts, sent, routing>>
  BY DEF Connect
<1>2. Proper(r) /\ RelayTypeOK
  BY DEF RelayInv
<1>3. c0 \in R!Ids
  BY <1>1, AtWorkHolds DEF AtWork, Goes
<1>4. /\ at[r] = "try" /\ at'[r] = "sending" /\ at' \in [Requests -> Places]
      /\ \A q \in Requests: q # r => at'[q] = at[q]
  BY <1>1, <1>2 DEF Goes, RelayTypeOK, Places
<1>5. /\ nth' = nth /\ attempts' = attempts /\ sent' = sent /\ asked' = asked
      /\ decision' = decision /\ Tried(r)' = c0 /\ Streams(r)' = Streams(r)
  BY <1>1 DEF routing, Tried, Streams
<1>6. Cardinality(pool[c0]) # PoolSize
  BY <1>1 DEF Full
<1> HIDE DEF c0
<1>7. /\ pool' \in [R!Ids -> SUBSET Requests]
      /\ \A c \in R!Ids: pool'[c] = IF c = c0 THEN pool[c] \cup {r} ELSE pool[c]
  BY <1>1, <1>2, <1>3 DEF RelayTypeOK
<1>8. \A c \in R!Ids: Cardinality(pool'[c]) <= PoolSize
  <2>1. IsFiniteSet(Requests)
    <3>1. Requests = 1..MaxRequests /\ MaxRequests \in Nat
      BY RelayAssumption DEF Requests, R!Requests, R!RouterParameters
    <3>. QED BY <3>1, FS_Interval
  <2> DEFINE S == pool[c0]
  <2>2. S \in SUBSET Requests /\ Cardinality(S) <= PoolSize /\ Cardinality(S) # PoolSize
    BY <1>2, <1>3, <1>6 DEF RelayTypeOK
  <2> HIDE DEF S
  <2>3. IsFiniteSet(S)
    BY <2>1, <2>2, FS_Subset
  <2>4. Cardinality(S) \in Nat /\ PoolSize \in Nat
    BY <2>3, FS_CardinalityType, RelayAssumption
  <2>5. Cardinality(S \cup {r}) = IF r \in S THEN Cardinality(S) ELSE Cardinality(S) + 1
    BY <2>3, FS_AddElement
  <2>6. Cardinality(S \cup {r}) <= PoolSize
    BY <2>2, <2>4, <2>5
  <2>. QED BY <1>2, <1>7, <2>6 DEF RelayTypeOK, S
<1>9. Frame(r)
  BY <1>4, <1>5, <1>7 DEF Frame
<1>10. RelayTypeOK'
  BY <1>2, <1>4, <1>5, <1>7, <1>8 DEF RelayTypeOK
<1>11. Progress(r)'
  BY <1>2, <1>4, <1>5 DEF Proper, Progress, AtWork, Committed
<1>12. Pooled(r)'
  <2>1. ASSUME NEW c \in R!Ids, r \in pool'[c]
        PROVE  Uses(r, c)' \/ (Streams(r) /\ Contains(attempts[r], c))
    <3>1. CASE c = c0
      BY <1>4, <1>5, <3>1 DEF Uses
    <3>2. CASE c # c0
      <4>1. Uses(r, c) \/ (Streams(r) /\ Contains(attempts[r], c))
        BY <1>2, <1>4, <1>7, <2>1, <3>2 DEF Proper, Pooled, Abandoned
      <4>2. ~Uses(r, c)
        BY <1>4 DEF Uses
      <4>. QED BY <4>1, <4>2
    <3>. QED BY <3>1, <3>2
  <2>. QED BY <1>5, <2>1 DEF Pooled, R!Ids
<1>13. Admitted(r)' /\ Streamed(r)'
  BY <1>2, <1>4, <1>5 DEF Proper, Admitted, Streamed
<1>14. Stage' = Stage
  <2>1. Stage' = [Stage EXCEPT ![r] = "routed"] /\ Stage[r] = "routed"
    BY <1>1, <1>2, StageMoves, CoarseValues DEF RelayTypeOK, AtWork
  <2>. QED BY <2>1, StageIsCoarse
<1>. QED BY <1>1, <1>9, <1>10, <1>11, <1>12, <1>13, <1>14 DEF Proper, R!routerVars, routing

LEMMA ChunkHolds ==
    ASSUME RelayInv, NEW r \in Requests, Chunk(r)
    PROVE  Frame(r) /\ RelayTypeOK' /\ Proper(r)' /\ [R!RouterNext]_R!routerVars
<1> DEFINE c0 == Tried(r)
           s == sent[r]
<1>1. /\ at[r] = "relaying" /\ Len(s) < MaxChunks
      /\ sent' = [sent EXCEPT ![r] = Append(s, c0)]
      /\ UNCHANGED <<at, nth, attempts, pool, routing>>
  BY DEF Chunk
<1>2. Proper(r) /\ RelayTypeOK
  BY DEF RelayInv
<1>3. c0 \in R!Ids /\ s \in Seq(R!Ids) /\ MaxChunks \in Nat
  BY <1>1, <1>2, AtWorkHolds, RelayAssumption DEF Committed, RelayTypeOK
<1>4. \A i \in DOMAIN s: s[i] = c0
  BY <1>2 DEF Proper, Progress
<1>5. /\ at' = at /\ nth' = nth /\ attempts' = attempts /\ pool' = pool /\ asked' = asked
      /\ decision' = decision /\ Tried(r)' = c0 /\ Streams(r)' = Streams(r)
  BY <1>1 DEF routing, Tried, Streams
<1> HIDE DEF c0, s
<1> DEFINE u == Append(s, c0)
<1>6. u \in Seq(R!Ids) /\ Len(u) <= MaxChunks /\ \A i \in DOMAIN u: u[i] = c0
  BY <1>1, <1>3, <1>4
<1>7. sent' = [sent EXCEPT ![r] = u]
  BY <1>1
<1> HIDE DEF u
<1>8. /\ sent' \in [Requests -> Seq(R!Ids)] /\ \A q \in Requests: Len(sent'[q]) <= MaxChunks
      /\ sent'[r] = u /\ \A q \in Requests: q # r => sent'[q] = sent[q]
  BY <1>2, <1>6, <1>7 DEF RelayTypeOK
<1>9. Frame(r)
  BY <1>5, <1>8 DEF Frame
<1>10. RelayTypeOK'
  BY <1>2, <1>5, <1>8 DEF RelayTypeOK
<1>11. Progress(r)'
  <2>1. at[r] \in Committed /\ at[r] \notin {"new", "refused"}
    BY <1>1 DEF Committed
  <2>2. /\ nth[r] \in 1..Len(decision[r].candidates)
        /\ attempts[r] = SubSeq(decision[r].candidates, 1, nth[r] - 1)
        /\ decision[r].selected = c0
    BY <1>2, <2>1 DEF Proper, Progress, c0
  <2>3. \A i \in DOMAIN sent'[r]: sent'[r][i] = c0
    BY <1>6, <1>8
  <2>. QED BY <1>5, <2>1, <2>2, <2>3 DEF Progress
<1>12. Pooled(r)'
  BY <1>2, <1>5 DEF Proper, Pooled, Uses, Abandoned, Streams, c0, R!Ids
<1>13. Admitted(r)' /\ Streamed(r)'
  BY <1>2, <1>5 DEF Proper, Admitted, Streamed
<1>14. Stage' = Stage
  BY <1>5, StageIsCoarse
<1>. QED BY <1>1, <1>9, <1>10, <1>11, <1>12, <1>13, <1>14 DEF Proper, R!routerVars, routing

LEMMA ArriveHolds ==
    ASSUME RelayInv, NEW r \in Requests, Arrive(r)
    PROVE  Frame(r) /\ RelayTypeOK' /\ Proper(r)' /\ [R!RouterNext]_R!routerVars
<1>1. PICK a \in Arrivals:
         \/ /\ I!Verdict(a.call, Token) = 200
            /\ \E to \in {"try", "refused"}: Goes(r, "new", to)
            /\ R!Route(r, a)
         \/ /\ I!Verdict(a.call, Token) # 200
            /\ Goes(r, "new", "refused")
            /\ R!TurnAway(r, a)
  BY DEF Arrive
<1>2. UNCHANGED <<nth, attempts, sent, pool>> /\ R!IsNext(r)
  BY DEF Arrive
<1>3. Proper(r) /\ RelayTypeOK
  BY DEF RelayInv
<1>4. /\ at[r] = "new" /\ at'[r] \in {"try", "refused"} /\ at' \in [Requests -> Places]
      /\ \A q \in Requests: q # r => at'[q] = at[q]
      /\ at'[r] = "try" => I!Verdict(a.call, Token) = 200
  <2>1. PICK to \in {"try", "refused"}:
          Goes(r, "new", to) /\ (to = "try" => I!Verdict(a.call, Token) = 200)
    BY <1>1
  <2>2. {"try", "refused"} \subseteq Places
    BY DEF Places
  <2>. QED BY <1>3, <2>1, <2>2 DEF Goes, RelayTypeOK
<1>5. R!RouterNext
  <2>1. R!Route(r, a) \/ R!TurnAway(r, a)
    BY <1>1
  <2>2. R!Arrive(r)
    BY <1>2, <2>1 DEF R!Arrive
  <2>. QED BY <2>2 DEF R!RouterNext, Requests
<1>6. asked' = [asked EXCEPT ![r] = a] /\ (UNCHANGED decision \/ \E d: decision' = [decision EXCEPT ![r] = d])
  BY <1>1 DEF R!Route, R!TurnAway, R!Remember
<1>7. asked'[r] = a /\ \A q \in Requests: q # r => asked'[q] = asked[q] /\ decision'[q] = decision[q]
  <2>1. R!RouterTypeOK
    BY SameStates DEF RelayInv, RP!RouterInv
  <2>2. asked \in [Requests -> Arrivals \cup {None}]
    BY <2>1 DEF R!RouterTypeOK, Requests
  <2>. QED BY <1>6, <2>2, AtWorkHolds
<1>8. RP!RouterInv'
  BY <1>5, SameSteps, RP!RouterInvStep, RouterParametersHold DEF RelayInv
<1>9. Frame(r)
  BY <1>2, <1>4, <1>7 DEF Frame
<1>10. RelayTypeOK'
  BY <1>2, <1>3, <1>4 DEF RelayTypeOK
<1>11. nth[r] = 1 /\ attempts[r] = <<>> /\ sent[r] = <<>>
  BY <1>3, <1>4 DEF Proper, Progress, Committed
<1>12. at'[r] = "try" => Len(decision'[r].candidates) \in 1..Len(Shortlist)
  <2>1. SUFFICES ASSUME at'[r] = "try" PROVE Len(decision'[r].candidates) \in 1..Len(Shortlist)
    OBVIOUS
  <2>2. Stage'[r] = "routed"
    BY <2>1, CoarseValues, StageIsCoarse DEF AtWork
  <2>3. RP!Routed(r)' /\ Len(decision'[r].candidates) \in 1..Len(Shortlist)
    BY <1>8, <2>2 DEF RP!RouterInv, RP!History, Requests, R!Requests, RP!Requests
  <2>. QED BY <2>3
<1>13. Progress(r)'
  <2>1. at'[r] \notin Committed /\ at'[r] # "new"
    BY <1>4 DEF Committed
  <2>2. at'[r] = "try" => /\ nth[r] \in 1..Len(decision'[r].candidates)
                          /\ attempts[r] = SubSeq(decision'[r].candidates, 1, nth[r] - 1)
    <3>1. SUFFICES ASSUME at'[r] = "try"
                   PROVE  /\ 1 \in 1..Len(decision'[r].candidates)
                          /\ SubSeq(decision'[r].candidates, 1, 0) = <<>>
      BY <1>11
    <3> DEFINE s == decision'[r].candidates
    <3>2. Len(s) \in 1..Len(Shortlist) /\ Len(Shortlist) \in Nat
      BY <1>12, <3>1, RelayAssumption DEF R!RouterParameters
    <3> HIDE DEF s
    <3>3. 1 \in 1..Len(s)
      BY <3>2
    <3>4. SubSeq(s, 1, 0) = <<>>
      OBVIOUS
    <3>. QED BY <3>3, <3>4 DEF s
  <2>3. at'[r] \in AtWork \cup Committed => at'[r] = "try"
    BY <1>4 DEF AtWork, Committed
  <2>4. nth'[r] = 1 /\ attempts'[r] = <<>> /\ sent'[r] = <<>>
    BY <1>2, <1>11
  <2>. QED BY <1>11, <2>1, <2>2, <2>3, <2>4 DEF Progress
<1>14. Pooled(r)'
  <2>1. ASSUME NEW c \in R!Ids PROVE r \notin pool[c]
    <3>1. r \in pool[c] => Uses(r, c) \/ Contains(attempts[r], c)
      BY <1>3, <1>4 DEF Proper, Pooled, Abandoned
    <3>2. ~Uses(r, c)
      BY <1>4 DEF Uses
    <3>3. ~Contains(attempts[r], c)
      BY <1>11 DEF Contains
    <3>. QED BY <3>1, <3>2, <3>3
  <2>. QED BY <1>2, <2>1 DEF Pooled, R!Ids
<1>15. Admitted(r)' /\ Streamed(r)'
  BY <1>4, <1>7 DEF Admitted, Streamed
<1>. QED BY <1>5, <1>9, <1>10, <1>13, <1>14, <1>15 DEF Proper

LEMMA RelayInitHolds == Init => RelayInv
<1> SUFFICES ASSUME Init PROVE RelayInv
  OBVIOUS
<1>1. RP!RouterInv
  BY RP!RouterInitHolds, RouterParametersHold, SameStates DEF Init
<1>2. RelayTypeOK
  <2>1. at \in [Requests -> Places]
    BY DEF Init, Places
  <2>2. Len(Shortlist) \in Nat \ {0}
    BY RelayAssumption DEF R!RouterParameters
  <2>3. nth \in [Requests -> 1..Len(Shortlist)]
    BY <2>2 DEF Init
  <2>4. attempts \in [Requests -> Seq(R!Ids)]
    BY DEF Init
  <2>5. sent \in [Requests -> Seq(R!Ids)] /\ \A r \in Requests: Len(sent[r]) <= MaxChunks
    BY RelayAssumption DEF Init
  <2>6. pool \in [R!Ids -> SUBSET Requests] /\ \A c \in R!Ids: Cardinality(pool[c]) <= PoolSize
    BY RelayAssumption, FS_EmptySet DEF Init
  <2>. QED BY <2>1, <2>3, <2>4, <2>5, <2>6 DEF RelayTypeOK
<1>3. ASSUME NEW r \in Requests PROVE Proper(r)
  BY <1>3 DEF Init, Proper, Progress, Pooled, Streamed, Admitted, AtWork, Committed, R!Ids
<1>. QED BY <1>1, <1>2, <1>3 DEF RelayInv

\* A step of the relay is a step of the router, or none.
LEMMA RelayInvStep ==
    RelayInv /\ [Next]_vars => RelayInv' /\ [R!RouterNext]_R!routerVars
<1> SUFFICES ASSUME RelayInv, [Next]_vars PROVE RelayInv' /\ [R!RouterNext]_R!routerVars
  OBVIOUS
<1>1. CASE Next
  <2>1. PICK r \in Requests: \/ Arrive(r) \/ Connect(r) \/ Chunk(r)
                             \/ Failing(r) \/ Committing(r) \/ Moving(r)
    BY <1>1, RelaySteps
  <2>2. Frame(r) /\ RelayTypeOK' /\ Proper(r)' /\ [R!RouterNext]_R!routerVars
    BY <2>1, ArriveHolds, ConnectHolds, ChunkHolds, FailingHolds, CommittingHolds, MovingHolds
  <2>3. RP!RouterInv'
    BY <2>2, SameActions, RP!RouterInvStep, RouterParametersHold DEF RelayInv
  <2>4. ASSUME NEW q \in Requests PROVE Proper(q)'
    BY <2>2, OthersStay
  <2>. QED BY <2>2, <2>3, <2>4 DEF RelayInv, Requests, R!Requests
<1>2. CASE UNCHANGED vars
  <2>1. UNCHANGED <<at, nth, attempts, sent, pool>> /\ UNCHANGED <<asked, decision, lru, route, log>>
    BY <1>2 DEF vars, routing
  <2>2. Stage' = Stage
    BY <2>1, StageIsCoarse
  <2>3. UNCHANGED R!routerVars
    BY <2>1, <2>2 DEF R!routerVars
  <2>4. RP!RouterInv'
    BY <2>3, SameActions, RP!RouterInvStep, RouterParametersHold DEF RelayInv
  <2>5. RelayTypeOK'
    BY <2>1 DEF RelayInv, RelayTypeOK
  <2>6. ASSUME NEW q \in Requests PROVE Proper(q)'
    BY <2>1 DEF RelayInv, Proper, Progress, Pooled, Streamed, Admitted, Uses, Abandoned, Tried,
             Streams, R!Ids
  <2>. QED BY <2>3, <2>4, <2>5, <2>6 DEF RelayInv, Requests, R!Requests
<1>. QED BY <1>1, <1>2

LEMMA RelayInvHolds == Spec => []RelayInv
<1>1. RelayInv /\ [Next]_vars => RelayInv'
  BY RelayInvStep
<1>. QED BY <1>1, RelayInitHolds, PTL DEF Spec

-----------------------------------------------------------------------------
(* What the relay promises                                                  *)

\* No request has more than one connection of a candidate, no candidate more than
\* its client allows, and no client gets more chunks than were sent.
THEOREM RelayTypeCorrect == Spec => []TypeOK
<1>1. RelayInv => TypeOK
  BY SameStates DEF RelayInv, RelayTypeOK, TypeOK, Places, RP!RouterInv
<1>. QED BY <1>1, RelayInvHolds, PTL

\* chat_completions routes every request once and finalizes it at most once, with
\* the candidate that answered and those it tried before.
THEOREM RelayDrivesRouter == Spec => DrivesRouter
<1>1. Init => R!RouterInit
  BY DEF Init
<1>2. RelayInv /\ [Next]_vars => [R!RouterNext]_R!routerVars
  BY RelayInvStep
<1>. QED BY <1>1, <1>2, RelayInvHolds, PTL DEF Spec, DrivesRouter, R!RouterSpec

\* So the sessions of the gateway follow what served them, and eviction drops those
\* that were not used for longest, whatever upstreams do.
THEOREM RelayKeepsSessions == Spec => [](R!RouteMatchesDecision /\ R!KeepsRecentSessions)
<1>1. Init => RP!RouterInit
  BY SameStates DEF Init
<1>2. RelayInv /\ [Next]_vars => [RP!RouterNext]_RP!routerVars
  BY RelayInvStep, SameActions
<1>3. Spec => RP!RouterSpec
  BY <1>1, <1>2, RelayInvHolds, PTL DEF Spec, RP!RouterSpec
<1>4. RP!RouteMatchesDecision /\ RP!KeepsRecentSessions
        => R!RouteMatchesDecision /\ R!KeepsRecentSessions
  BY SameStates
<1>. QED BY <1>3, <1>4, RP!RoutesAgree, RP!SessionsAreRecent, RouterParametersHold, PTL

\* A client gets the bytes of one candidate only, the one its decision names.
THEOREM OneCandidateAnswers == Spec => []NeverSpliced
<1>1. ASSUME RelayInv, NEW r \in Requests, NEW n \in DOMAIN sent[r]
      PROVE  sent[r][n] = decision[r].selected
  <2>1. sent[r] # <<>>
    <3>1. CASE sent[r] = <<>>
      BY <1>1, <3>1
    <3>. QED BY <3>1
  <2>. QED BY <1>1, <2>1 DEF RelayInv, Proper, Progress
<1>2. RelayInv => NeverSpliced
  BY <1>1 DEF NeverSpliced
<1>. QED BY <1>2, RelayInvHolds, PTL

\* Only a stream that gave a candidate up, or whose answer nobody began to pull, still
\* holds a connection it has no use for.
THEOREM AnsweredReleases == Spec => []ServedReleases
<1>1. ASSUME RelayInv, NEW c \in R!Ids, NEW r \in pool[c]
      PROVE  Uses(r, c) \/ (Streams(r) /\ (Contains(attempts[r], c) \/ Abandoned(r, c)))
  <2>1. r \in Requests
    BY <1>1 DEF RelayInv, RelayTypeOK
  <2>. QED BY <1>1, <2>1 DEF RelayInv, Proper, Pooled
<1>2. RelayInv => ServedReleases
  BY <1>1 DEF ServedReleases
<1>. QED BY <1>2, RelayInvHolds, PTL

LEMMA RefusedLeavesNothing ==
    ASSUME RelayInv, NEW r \in Requests, at[r] = "refused"
    PROVE  /\ \A c \in R!Ids: r \notin pool[c]
           /\ ~Contains(log, r) /\ \A k \in Keys: route[k].owner # r
<1>1. ~RP!Routed(r)
  <2>1. Stage[r] = "refused"
    BY CoarseValues, StageIsCoarse
  <2>. QED BY <2>1 DEF RelayInv, RP!RouterInv, RP!History, Requests, R!Requests, RP!Requests
<1>2. ~Contains(log, r)
  BY <1>1 DEF RelayInv, RP!RouterInv, RP!Logged, Contains
<1>3. ASSUME NEW k \in Keys PROVE route[k].owner # r
  <2>1. r # None
    BY RelayAssumption DEF R!RouterParameters, Requests
  <2>2. route[k].owner # None => RP!Routed(route[k].owner)
    BY DEF RelayInv, RP!RouterInv, RP!Table
  <2>. QED BY <1>1, <2>1, <2>2
<1>4. ASSUME NEW c \in R!Ids PROVE r \notin pool[c]
  <2>1. r \in pool[c] => Uses(r, c) \/ Contains(attempts[r], c)
    BY DEF RelayInv, Proper, Pooled, Abandoned
  <2>2. ~Uses(r, c)
    BY DEF Uses
  <2>3. attempts[r] = <<>>
    BY DEF RelayInv, Proper, Progress
  <2>4. ~Contains(attempts[r], c)
    BY <2>3 DEF Contains
  <2>. QED BY <2>1, <2>2, <2>4
<1>. QED BY <1>2, <1>3, <1>4

\* What the ingress lets through is authenticated, whole and within the cap.
LEMMA VerdictHolds ==
    ASSUME NEW a \in Arrivals, I!Verdict(a.call, Token) = 200
    PROVE  /\ Token # None /\ a.call.bearer = "ours" /\ a.call.ends = "whole"
           /\ I!Read(a.call.chunks, Len(a.call.chunks)) <= MaxBytes
           /\ a.call.envelope \notin {"scalar", "foreign", "unfit"}
<1> DEFINE c == a.call
<1>1. I!Authenticated(c, Token) /\ I!Limits(c) = 200 /\ I!WellFormed(c)
  BY DEF I!Verdict
<1>2. Token # None /\ c.bearer = "ours"
  BY <1>1 DEF I!Authenticated
<1>3. ~I!Oversized(c) /\ c.ends # "hangup"
  BY <1>1 DEF I!Limits
<1>4. c.envelope \notin {"scalar", "foreign", "unfit"}
  BY <1>1, RelayAssumption DEF I!WellFormed
<1>5. /\ c.chunks \in Seq(Nat) \ {<<>>} /\ I!Read(c.chunks, Len(c.chunks)) \in Nat
      /\ c.ends \in {"whole", "hangup"} /\ MaxBytes \in Nat
  BY RelayAssumption
<1> HIDE DEF c
<1>6. Len(c.chunks) \in DOMAIN c.chunks
  BY <1>5
<1>7. ~(I!Read(c.chunks, Len(c.chunks)) > MaxBytes)
  BY <1>3, <1>6 DEF I!Oversized
<1>8. I!Read(c.chunks, Len(c.chunks)) <= MaxBytes
  BY <1>5, <1>7
<1>. QED BY <1>2, <1>3, <1>4, <1>5, <1>8 DEF c

\* Nothing unauthenticated or too large reaches an upstream; a refusal leaves nothing.
THEOREM OnlyAdmittedGetThrough == Spec => []Admission
<1>1. ASSUME RelayInv, NEW r \in Requests, at[r] # "new", at[r] # "refused"
      PROVE  asked[r] \in Arrivals /\ I!Verdict(asked[r].call, Token) = 200
  BY <1>1 DEF RelayInv, Proper, Admitted
<1>2. RelayInv => Admission
  BY <1>1, RefusedLeavesNothing, VerdictHolds DEF Admission
<1>. QED BY <1>2, RelayInvHolds, PTL

=============================================================================
