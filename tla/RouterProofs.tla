---------------------------- MODULE RouterProofs ----------------------------
(***************************************************************************)
(* What the decision router promises however its requests interleave: a    *)
(* session's route is that of its own newest decision, the table keeps the *)
(* sessions routed most recently, a tool result follows its session.       *)
(* Requests are numbered as they arrive, so "later" is "greater".          *)
(***************************************************************************)
EXTENDS Router, SelectorProofs

Routed(r) == decision[r].selected # None

\* Requests arrive in their order; a request with a decision was routed.
History ==
    /\ \A q, r \in Requests: q < r /\ stage[r] # "new" => stage[q] # "new"
    /\ \A r \in Requests: stage[r] = "routed" => Routed(r)
    /\ \A r \in Requests: Routed(r) =>
         /\ stage[r] \in {"routed", "served", "failed"} /\ asked[r] \in Arrivals
         /\ Len(decision[r].candidates) \in 1..Len(Shortlist)

\* The table holds, least recently routed first, sessions with their newest request;
\* a session it does not hold was pushed out by more recent ones only.
Table ==
    /\ \A k \in Keys: route[k].owner # None <=> Contains(lru, k)
    /\ \A k \in Keys: route[k].owner # None =>
         /\ Routed(route[k].owner) /\ asked[route[k].owner].key = k
         /\ route[k].candidate = decision[route[k].owner].selected
    /\ \A m, n \in DOMAIN lru: m < n => route[lru[m]].owner < route[lru[n]].owner
    /\ \A r \in Requests: Routed(r) =>
         IF route[asked[r].key].owner # None THEN r <= route[asked[r].key].owner
         ELSE /\ Len(lru) = MaxSessions
              /\ \A n \in DOMAIN lru: r < route[lru[n]].owner

\* The log ends with the latest decision and leaves none out on its way there.
Logged ==
    /\ \A n \in DOMAIN log: Routed(log[n])
    /\ \A m, n \in DOMAIN log: m < n => log[m] < log[n]
    /\ \A r \in Requests, n \in DOMAIN log: Routed(r) /\ log[n] < r => Contains(log, r)

-----------------------------------------------------------------------------
(* The bounded queues                                                       *)

\* A queue that is one too long loses its oldest element, and nothing else.
LEMMA NewestHolds ==
    ASSUME NEW T, NEW s \in Seq(T), NEW bound \in Nat \ {0}, Len(s) <= bound + 1
    PROVE  LET d == IF Len(s) > bound THEN 1 ELSE 0
           IN  /\ Newest(s, bound) \in Seq(T)
               /\ Len(Newest(s, bound)) = Len(s) - d /\ Len(s) - d <= bound
               /\ \A n \in 1..Len(s) - d: Newest(s, bound)[n] = s[n + d]
<1>1. CASE Len(s) > bound
  <2>1. s # <<>>
    BY <1>1
  <2>2. Tail(s) \in Seq(T) /\ Len(Tail(s)) = Len(s) - 1
        /\ \A n \in 1..Len(Tail(s)): Tail(s)[n] = s[n + 1]
    BY <2>1, HeadTailProperties
  <2>. QED BY <1>1, <2>2 DEF Newest
<1>2. CASE ~(Len(s) > bound)
  BY <1>2 DEF Newest
<1>. QED BY <1>1, <1>2

\* Where e stands first in s, or the place behind its end.
FirstAt(s, e) ==
    IF Contains(s, e) THEN Min({n \in 1..Len(s): s[n] = e}) ELSE Len(s) + 1

LEMMA RemoveFirstHolds ==
    ASSUME NEW T, NEW s \in Seq(T), NEW e
    PROVE  LET i == FirstAt(s, e)
               t == RemoveFirst(s, e)
           IN  /\ i \in 1..Len(s) + 1
               /\ i <= Len(s) <=> Contains(s, e)
               /\ i <= Len(s) => s[i] = e
               /\ t \in Seq(T)
               /\ Len(t) = IF i <= Len(s) THEN Len(s) - 1 ELSE Len(s)
               /\ \A n \in 1..Len(t): t[n] = IF n < i THEN s[n] ELSE s[n + 1]
<1> DEFINE i == FirstAt(s, e)
           t == RemoveFirst(s, e)
           at == {n \in 1..Len(s): s[n] = e}
<1>1. CASE Contains(s, e)
  <2>1. at # {} /\ i = Min(at)
    BY <1>1 DEF FirstAt, Contains
  <2>2. i \in at
    <3>1. at \in SUBSET Nat
      OBVIOUS
    <3>2. \E m \in at: \A n \in at: m <= n
      BY <2>1, <3>1, LeastPosition
    <3>. QED BY <2>1, <3>2 DEF Min
  <2>3. t = SubSeq(s, 1, i - 1) \o SubSeq(s, i + 1, Len(s))
    BY <1>1, <2>1 DEF RemoveFirst, RemoveAt, SelectInSeq, Contains
  <2> HIDE DEF i, t
  <2>4. i \in 1..Len(s) /\ s[i] = e
    BY <2>2
  <2> DEFINE p == SubSeq(s, 1, i - 1)
             q == SubSeq(s, i + 1, Len(s))
  <2>0. t = p \o q
    BY <2>3
  <2>5. /\ p \in Seq(T) /\ Len(p) = i - 1 /\ \A n \in 1..i - 1: p[n] = s[n]
        /\ q \in Seq(T) /\ Len(q) = Len(s) - i /\ \A n \in 1..Len(s) - i: q[n] = s[n + i]
    BY <2>4
  <2> HIDE DEF p, q
  <2>6. t \in Seq(T) /\ Len(t) = Len(s) - 1
    BY <2>0, <2>4, <2>5
  <2>7. ASSUME NEW n \in 1..Len(t) PROVE t[n] = IF n < i THEN s[n] ELSE s[n + 1]
    <3>1. t[n] = IF n <= i - 1 THEN p[n] ELSE q[n - (i - 1)]
      BY <2>0, <2>4, <2>5, <2>6
    <3>2. CASE n < i
      BY <2>4, <2>5, <3>1, <3>2
    <3>3. CASE ~(n < i)
      <4>1. n - (i - 1) \in 1..Len(s) - i /\ n - (i - 1) + i = n + 1
        BY <2>4, <2>6, <3>3
      <4>. QED BY <2>4, <2>5, <3>1, <3>3, <4>1
    <3>. QED BY <3>2, <3>3
  <2>. QED BY <1>1, <2>4, <2>6, <2>7 DEF i, t
<1>2. CASE ~Contains(s, e)
  <2>1. t = s /\ i = Len(s) + 1
    BY <1>2 DEF RemoveFirst, FirstAt, Contains
  <2> HIDE DEF i, t
  <2>. QED BY <1>2, <2>1 DEF i, t
<1>. QED BY <1>1, <1>2

\* z is the full or growing queue s with k moved to the newest place: the others keep
\* their order, and only the oldest of a full queue without k is dropped.
Renewed(T, s, k, bound, z) ==
    /\ z \in Seq(T) /\ Len(z) \in 1..bound /\ z[Len(z)] = k
    /\ \A n \in 1..Len(z) - 1: z[n] # k /\ Contains(s, z[n])
    /\ \A m, n \in 1..Len(z) - 1: m < n =>
         \E p, q \in 1..Len(s): p < q /\ z[m] = s[p] /\ z[n] = s[q]
    /\ \A n \in 1..Len(s): s[n] # k /\ ~Contains(z, s[n])
         => n = 1 /\ Len(z) = bound /\ ~Contains(s, k)
    /\ Len(s) = bound => Len(z) = bound

LEMMA RenewHolds ==
    ASSUME NEW T, NEW s \in Seq(T), NEW k \in T, NEW bound \in Nat \ {0}, Len(s) <= bound,
           \A m, n \in 1..Len(s): m < n => s[m] # s[n]
    PROVE  Renewed(T, s, k, bound, Newest(Append(RemoveFirst(s, k), k), bound))
<1> DEFINE i == FirstAt(s, k)
           t == RemoveFirst(s, k)
           L == IF i <= Len(s) THEN Len(s) - 1 ELSE Len(s)
           u == Append(t, k)
           d == IF L + 1 > bound THEN 1 ELSE 0
           z == Newest(u, bound)
           from(n) == IF n + d < i THEN n + d ELSE n + d + 1
<1>1. /\ i \in 1..Len(s) + 1 /\ (i <= Len(s) <=> Contains(s, k)) /\ (i <= Len(s) => s[i] = k)
      /\ t \in Seq(T) /\ Len(t) = L /\ \A n \in 1..L: t[n] = IF n < i THEN s[n] ELSE s[n + 1]
  BY RemoveFirstHolds
<1> HIDE DEF i, t
<1>2. u \in Seq(T) /\ Len(u) = L + 1 /\ u[L + 1] = k /\ \A n \in 1..L: u[n] = t[n]
  BY <1>1
<1> HIDE DEF u
<1>3. L \in Nat /\ L <= Len(s) /\ L + 1 <= bound + 1
  BY <1>1
<1>4. /\ z \in Seq(T) /\ Len(z) = L + 1 - d /\ L + 1 - d <= bound
      /\ \A n \in 1..L + 1 - d: z[n] = u[n + d]
  <2>1. /\ Newest(u, bound) \in Seq(T)
        /\ Len(Newest(u, bound)) = Len(u) - (IF Len(u) > bound THEN 1 ELSE 0)
        /\ Len(u) - (IF Len(u) > bound THEN 1 ELSE 0) <= bound
        /\ \A n \in 1..Len(u) - (IF Len(u) > bound THEN 1 ELSE 0):
             Newest(u, bound)[n] = u[n + (IF Len(u) > bound THEN 1 ELSE 0)]
    BY <1>2, <1>3, NewestHolds
  <2>. QED BY <1>2, <2>1
<1> HIDE DEF z
<1>5. d = 1 => i = Len(s) + 1 /\ L = Len(s) /\ L = bound
  BY <1>1, <1>3
<1>6. d \in {0, 1} /\ L + 1 - d >= 1
  BY <1>3, <1>5
<1>7. z[Len(z)] = k /\ Len(z) \in 1..bound
  <2>1. Len(z) + d = L + 1 /\ Len(z) \in 1..L + 1 - d
    BY <1>3, <1>4, <1>6
  <2> HIDE DEF L, d
  <2>2. z[Len(z)] = u[Len(z) + d]
    BY <1>4, <2>1
  <2>3. z[Len(z)] = k
    BY <1>2, <2>1, <2>2
  <2>. QED BY <1>3, <1>4, <1>6, <2>3
<1>8. ASSUME NEW n \in 1..Len(z) - 1
      PROVE  from(n) \in 1..Len(s) /\ from(n) # i /\ z[n] = s[from(n)]
  <2>1. n \in 1..L + 1 - d /\ n + d \in 1..L
    BY <1>3, <1>4, <1>6
  <2>2. z[n] = t[n + d]
    BY <1>2, <1>4, <2>1
  <2>3. z[n] = IF n + d < i THEN s[n + d] ELSE s[n + d + 1]
    BY <1>1, <2>1, <2>2
  <2>4. from(n) \in 1..Len(s) /\ from(n) # i
    BY <1>1, <1>3, <1>6, <2>1
  <2>. QED BY <2>3, <2>4
<1>9. \A n \in 1..Len(z) - 1: z[n] # k /\ Contains(s, z[n])
  <2>1. ASSUME NEW n \in 1..Len(z) - 1 PROVE z[n] # k
    <3>1. CASE i <= Len(s)
      <4>1. s[i] = k /\ i \in 1..Len(s)
        BY <1>1, <3>1
      <4>2. from(n) < i \/ i < from(n)
        BY <1>1, <1>8
      <4> HIDE DEF from
      <4>. QED BY <1>8, <4>1, <4>2
    <3>2. CASE ~(i <= Len(s))
      <4>1. \A m \in 1..Len(s): s[m] # k
        BY <1>1, <3>2 DEF Contains
      <4> HIDE DEF from
      <4>. QED BY <1>8, <4>1
    <3>. QED BY <3>1, <3>2
  <2>2. ASSUME NEW n \in 1..Len(z) - 1 PROVE Contains(s, z[n])
    <3> HIDE DEF from
    <3>. QED BY <1>8 DEF Contains
  <2>. QED BY <2>1, <2>2
<1>10. ASSUME NEW m \in 1..Len(z) - 1, NEW n \in 1..Len(z) - 1, m < n
       PROVE  \E p, q \in 1..Len(s): p < q /\ z[m] = s[p] /\ z[n] = s[q]
  <2>1. from(m) < from(n)
    BY <1>1, <1>4, <1>6, <1>3, <1>10
  <2> HIDE DEF from
  <2>. QED BY <1>8, <2>1
<1>11. ASSUME NEW n \in 1..Len(s), s[n] # k, ~Contains(z, s[n])
       PROVE  n = 1 /\ Len(z) = bound /\ ~Contains(s, k)
  <2> DEFINE m == IF n < i THEN n - d ELSE n - 1 - d
  <2>1. n # i
    BY <1>1, <1>11
  <2>2. ASSUME m >= 1 PROVE FALSE
    <3>1. m \in 1..Len(z) - 1 /\ from(m) = n
      BY <1>1, <1>3, <1>4, <1>5, <1>6, <2>1, <2>2
    <3>2. z[m] = s[n] /\ m \in 1..Len(z)
      BY <1>4, <1>8, <3>1
    <3>. QED BY <1>11, <3>2 DEF Contains
  <2>3. d = 1 /\ n = 1
    BY <1>1, <1>5, <1>6, <2>1, <2>2
  <2>. QED BY <1>1, <1>4, <1>5, <2>3
<1>12. Len(s) = bound => Len(z) = bound
  BY <1>1, <1>3, <1>4, <1>5
<1>13. Renewed(T, s, k, bound, z)
  BY <1>4, <1>7, <1>9, <1>10, <1>11, <1>12 DEF Renewed
<1>. QED BY <1>13 DEF z, u, t

-----------------------------------------------------------------------------
(* What route() plans                                                       *)

Fitting(a) == EligibleCandidates(Shortlist, a.body)
Tries(a) ==
    LET ordered == OrderedCandidates(Fitting(a), RequestedTier(a.mode, a.body))
    IN  IF Pin(a, Fitting(a)) = "no" THEN ordered ELSE PinFirst(ordered, route[a.key].candidate)
Plan(a) == [n \in DOMAIN Tries(a) |-> Tries(a)[n].id]

LEMMA PinKinds ==
    ASSUME NEW a, NEW eligible
    PROVE  /\ Pin(a, eligible) \in {"no", "tool_loop", "session"}
           /\ Pin(a, eligible) # "no" => \E c \in ToSet(eligible): c.id = route[a.key].candidate
           /\ a.role # "user" /\ Contains(lru, a.key)
                /\ (\E c \in ToSet(eligible): c.id = route[a.key].candidate)
              => Pin(a, eligible) = "tool_loop"
<1> DEFINE known == Contains(lru, a.key) /\ \E c \in ToSet(eligible): c.id = route[a.key].candidate
<1>1. CASE known /\ a.role # "user"
  BY <1>1 DEF Pin
<1>2. CASE known /\ a.role = "user" /\ a.mode = "auto:session"
  BY <1>2 DEF Pin
<1>3. CASE ~(known /\ a.role # "user") /\ ~(known /\ a.role = "user" /\ a.mode = "auto:session")
  BY <1>3 DEF Pin
<1>. QED BY <1>1, <1>2, <1>3

\* A plan lists configured candidates, one at least; what is pinned comes first.
LEMMA PlanHolds ==
    ASSUME NEW a, Fitting(a) # <<>>
    PROVE  /\ Plan(a) \in Seq(Ids) /\ Len(Plan(a)) \in 1..Len(Shortlist) /\ Plan(a)[1] \in Ids
           /\ Pin(a, Fitting(a)) # "no" => Plan(a)[1] = route[a.key].candidate
<1> DEFINE e == Fitting(a)
           tier == RequestedTier(a.mode, a.body)
           o == OrderedCandidates(e, tier)
           pinned == Pin(a, e)
           id == route[a.key].candidate
           C == ToSet(Shortlist)
<1>1. Shortlist \in Seq(CandidateType) /\ Shortlist \in Seq(C)
  BY RouterAssumption DEF RouterParameters, ToSet
<1>2. e \in Seq(C) /\ ToSet(e) \subseteq C /\ Len(e) <= Len(Shortlist)
  BY <1>1, EligibleHolds DEF Fitting
<1>3. \A c \in C: c.tier \in TierNames
  <2>1. \A n \in DOMAIN Shortlist: Shortlist[n] \in CandidateType
    BY <1>1
  <2>2. C \subseteq CandidateType
    BY <2>1 DEF ToSet
  <2>. QED BY <2>2, NamesOfTiers DEF CandidateType
<1>4. tier \in TierNames
  BY SomeTier
<1>5. pinned # "no" => \E c \in ToSet(e): c.id = id
  BY PinKinds
<1>6. Tries(a) = IF pinned = "no" THEN o ELSE PinFirst(o, id)
  BY DEF Tries
<1>7. e # <<>>
  OBVIOUS
<1> HIDE DEF e, tier, pinned, id, C
<1>8. o \in Seq(C) /\ ToSet(o) = ToSet(e) /\ Len(o) <= Len(e)
  <2>1. \A c \in ToSet(e): c.tier \in TierNames
    BY <1>2, <1>3
  <2>. QED BY <1>2, <1>4, <2>1, OrderedHolds, OrderedLength
<1>9. \E c: c \in ToSet(o)
  <2>1. e[1] \in ToSet(e)
    BY <1>2, <1>7 DEF ToSet
  <2>. QED BY <1>8, <2>1
<1> HIDE DEF o
<1>10. Tries(a) \in Seq(C) /\ Len(Tries(a)) = Len(o)
  BY <1>6, <1>8, PinFirstHolds
<1>11. pinned # "no" => Tries(a)[1].id = id
  BY <1>5, <1>6, <1>8, PinFirstHolds
<1>12. Len(Tries(a)) >= 1
  BY <1>8, <1>9, <1>10 DEF ToSet
<1>13. \A c \in C: c.id \in Ids
  BY DEF C, Ids, ToSet
<1>14. Plan(a) \in Seq(Ids) /\ Len(Plan(a)) = Len(Tries(a))
  BY <1>10, <1>13 DEF Plan
<1>15. Plan(a)[1] = Tries(a)[1].id /\ Tries(a)[1] \in C
  BY <1>10, <1>12 DEF Plan
<1>16. Len(Plan(a)) \in 1..Len(Shortlist)
  BY <1>1, <1>2, <1>8, <1>10, <1>12, <1>14
<1>. QED BY <1>11, <1>13, <1>14, <1>15, <1>16 DEF pinned, id, e

-----------------------------------------------------------------------------
(* The steps                                                                *)

RouterInv == RouterTypeOK /\ History /\ Table /\ Logged

Decided == [selected: Ids, candidates: {s \in Seq(Ids): Len(s) \in 1..Len(Shortlist)},
            pinned: {"no", "tool_loop", "session"}, attempts: Seq(Ids)]

\* Request r is routed by decision d.
Takes(r, a, d) ==
    /\ IsNext(r)
    /\ asked' = [asked EXCEPT ![r] = a]
    /\ stage' = [stage EXCEPT ![r] = "routed"]
    /\ Remember(r, a.key, d)

\* A request ends and the table keeps its sessions, each with its owner.
Ends(r) ==
    /\ stage[r] = "routed"
    /\ \E to \in {"served", "failed"}: stage' = [stage EXCEPT ![r] = to]
    /\ \E d \in Decided: decision' = [decision EXCEPT ![r] = d]
    /\ route' = [k \in Keys |-> IF route[k].owner = r
                                  THEN [route[k] EXCEPT !.candidate = decision'[r].selected]
                                  ELSE route[k]]
    /\ UNCHANGED <<asked, lru, log>>

\* What a step of the router is.
LEMMA RouterSteps ==
    ASSUME RouterInv, RouterNext
    PROVE  \E r \in Requests:
             \/ \E a \in Arrivals, d \in Decided: Takes(r, a, d) /\ d.selected = Plan(a)[1]
             \/ /\ IsNext(r)
                /\ \E a \in Arrivals: asked' = [asked EXCEPT ![r] = a]
                /\ stage' = [stage EXCEPT ![r] = "refused"]
                /\ UNCHANGED <<decision, tables>>
             \/ Ends(r)
<1>1. PICK r \in Requests: Arrive(r) \/ Served(r) \/ AllFailed(r) \/ Raises(r)
  BY DEF RouterNext
<1>2. ASSUME NEW a \in Arrivals, IsNext(r), Route(r, a), Fitting(a) # <<>>
      PROVE  \E d \in Decided: Takes(r, a, d) /\ d.selected = Plan(a)[1]
  <2> DEFINE d == [selected |-> Plan(a)[1], candidates |-> Plan(a),
                   pinned |-> Pin(a, Fitting(a)), attempts |-> <<>>]
  <2>1. d \in Decided
    BY <1>2, PlanHolds, PinKinds DEF Decided
  <2>2. /\ asked' = [asked EXCEPT ![r] = a]
        /\ Moves(r, "new", "routed")
        /\ Remember(r, a.key, d)
    BY <1>2 DEF Route, Fitting, Plan, Tries
  <2>. QED BY <1>2, <2>1, <2>2 DEF Takes, Moves
<1>3. ASSUME NEW a \in Arrivals, IsNext(r),
             TurnAway(r, a) \/ (Route(r, a) /\ ~(Fitting(a) # <<>>))
      PROVE  /\ asked' = [asked EXCEPT ![r] = a]
             /\ stage' = [stage EXCEPT ![r] = "refused"]
             /\ UNCHANGED <<decision, tables>>
  BY <1>3 DEF Route, TurnAway, Fitting, Moves
<1>4. decision[r] \in [selected: Ids \cup {None}, candidates: Seq(Ids),
                       pinned: {"no", "tool_loop", "session"}, attempts: Seq(Ids)]
      /\ (stage[r] = "routed" => decision[r] \in Decided)
  BY DEF RouterInv, RouterTypeOK, History, Routed, Decided
<1>5. CASE Served(r)
  <2>1. PICK n \in DOMAIN decision[r].candidates:
          Finalize(r, decision[r].candidates[n], SubSeq(decision[r].candidates, 1, n - 1))
    BY <1>5 DEF Served
  <2> DEFINE selected == decision[r].candidates[n]
             attempts == SubSeq(decision[r].candidates, 1, n - 1)
             d == [decision[r] EXCEPT !.selected = selected, !.attempts = attempts]
  <2>2. selected \in Ids /\ attempts \in Seq(Ids)
    BY <1>4
  <2>3. Moves(r, "routed", "served")
    BY <1>5 DEF Served
  <2> HIDE DEF selected, attempts
  <2>4. d \in Decided
    BY <1>4, <2>2, <2>3 DEF Decided, Moves
  <2>5. decision' = [decision EXCEPT ![r] = d] /\ decision'[r].selected = selected
    BY <1>4, <2>1 DEF Finalize, selected, attempts, RouterInv, RouterTypeOK
  <2>6. Ends(r)
    BY <2>1, <2>3, <2>4, <2>5 DEF Ends, Moves, Finalize, selected
  <2>. QED BY <2>6
<1>6. ASSUME NEW d \in Decided, decision' = [decision EXCEPT ![r] = d],
             d.selected = decision[r].selected,
             Moves(r, "routed", "failed"), UNCHANGED <<asked, tables>>
      PROVE  Ends(r)
  <2>1. ASSUME NEW k \in Keys, route[k].owner = r
        PROVE  route[k] = [route[k] EXCEPT !.candidate = decision'[r].selected]
    <3>1. route[k] \in [candidate: Ids \cup {None}, owner: Requests \cup {None}]
      BY DEF RouterInv, RouterTypeOK
    <3>2. route[k].candidate = decision[r].selected
      BY <2>1, RouterAssumption DEF RouterParameters, RouterInv, Table
    <3>3. decision'[r].selected = decision[r].selected
      BY <1>6 DEF RouterInv, RouterTypeOK
    <3>. QED BY <3>1, <3>2, <3>3
  <2>2. route \in [Keys -> [candidate: Ids \cup {None}, owner: Requests \cup {None}]]
    BY DEF RouterInv, RouterTypeOK
  <2>3. route' = [k \in Keys |-> IF route[k].owner = r
                                  THEN [route[k] EXCEPT !.candidate = decision'[r].selected]
                                  ELSE route[k]]
    BY <1>6, <2>1, <2>2 DEF tables
  <2>. QED BY <1>6, <2>3 DEF Ends, Moves, tables
<1>7. CASE AllFailed(r)
  <2> DEFINE d == [decision[r] EXCEPT !.attempts = decision[r].candidates]
  <2>1. Moves(r, "routed", "failed") /\ RecordFailures(r, decision[r].candidates)
    BY <1>7 DEF AllFailed
  <2>2. d \in Decided /\ d.selected = decision[r].selected
    BY <1>4, <2>1 DEF Moves, Decided
  <2>3. decision' = [decision EXCEPT ![r] = d] /\ UNCHANGED <<asked, tables>>
    BY <2>1 DEF RecordFailures
  <2> HIDE DEF d
  <2>. QED BY <1>6, <2>1, <2>2, <2>3
<1>8. CASE Raises(r)
  <2>1. Moves(r, "routed", "failed") /\ decision' = decision /\ UNCHANGED <<asked, tables>>
    BY <1>8 DEF Raises
  <2>2. decision' = [decision EXCEPT ![r] = decision[r]]
    BY <2>1 DEF RouterInv, RouterTypeOK
  <2>. QED BY <1>4, <1>6, <2>1, <2>2 DEF Moves
<1>9. CASE Arrive(r)
  <2>1. PICK a \in Arrivals: IsNext(r) /\ (Route(r, a) \/ TurnAway(r, a))
    BY <1>9 DEF Arrive
  <2>2. CASE Route(r, a) /\ Fitting(a) # <<>>
    BY <1>2, <2>1, <2>2
  <2>3. CASE TurnAway(r, a) \/ (Route(r, a) /\ ~(Fitting(a) # <<>>))
    BY <1>3, <2>1, <2>3
  <2>. QED BY <2>1, <2>2, <2>3
<1>. QED BY <1>1, <1>5, <1>7, <1>8, <1>9

\* The sessions of the table have owners, and no two of them the same.
LEMMA Owned ==
    ASSUME RouterInv
    PROVE  /\ Requests \subseteq Nat /\ None \notin Requests /\ None \notin Ids
           /\ \A n \in 1..Len(lru): lru[n] \in Keys /\ Contains(lru, lru[n])
                                    /\ route[lru[n]].owner \in Requests
           /\ \A m, n \in 1..Len(lru): m < n => lru[m] # lru[n]
<1>1. Requests \subseteq Nat /\ None \notin Requests /\ None \notin Ids
  BY RouterAssumption DEF RouterParameters, Requests
<1>2. ASSUME NEW n \in 1..Len(lru)
      PROVE  lru[n] \in Keys /\ Contains(lru, lru[n]) /\ route[lru[n]].owner \in Requests
  <2>1. lru[n] \in Keys
    BY DEF RouterInv, RouterTypeOK
  <2>2. Contains(lru, lru[n])
    BY DEF Contains
  <2>3. route[lru[n]].owner # None
    BY <2>1, <2>2 DEF RouterInv, Table
  <2>. QED BY <2>1, <2>2, <2>3 DEF RouterInv, RouterTypeOK
<1>3. ASSUME NEW m \in 1..Len(lru), NEW n \in 1..Len(lru), m < n PROVE lru[m] # lru[n]
  <2>1. route[lru[m]].owner < route[lru[n]].owner
    <3>1. Table /\ DOMAIN lru = 1..Len(lru)
      BY DEF RouterInv, RouterTypeOK
    <3>. QED BY <1>3, <3>1 DEF Table
  <2>2. route[lru[m]].owner \in Nat
    BY <1>1, <1>2
  <2>. QED BY <2>1, <2>2
<1>. QED BY <1>1, <1>2, <1>3

\* What the table is after a request was routed.
LEMMA TakesRoutes ==
    ASSUME RouterInv, NEW r \in Requests, NEW a \in Arrivals, NEW d \in Decided, Takes(r, a, d)
    PROVE  /\ a.key \in Keys /\ r \in Nat
           /\ stage[r] = "new" /\ ~Routed(r)
           /\ \A q \in Requests: Routed(q) => q < r
           /\ asked'[r] = a /\ decision'[r] = d /\ stage'[r] = "routed"
           /\ \A q \in Requests: q # r => asked'[q] = asked[q] /\ decision'[q] = decision[q]
                                          /\ stage'[q] = stage[q]
           /\ route'[a.key] = [candidate |-> d.selected, owner |-> r]
           /\ \A j \in Keys: j # a.key =>
                route'[j] = IF Contains(lru', j) THEN route[j] ELSE NoRoute
<1>1. a.key \in Keys /\ r \in Nat /\ r >= 1
  BY RouterAssumption DEF RouterParameters, Requests
<1>2. stage[r] = "new" /\ \A q \in 1..r - 1: stage[q] # "new"
  BY DEF Takes, IsNext
<1>3. ~Routed(r)
  BY <1>2 DEF RouterInv, History
<1>4. ASSUME NEW q \in Requests, Routed(q) PROVE q < r
  <2>1. stage[q] # "new"
    BY <1>4 DEF RouterInv, History
  <2>2. ~(r < q)
    BY <1>2, <2>1 DEF RouterInv, History
  <2>. QED BY <1>2, <2>1, <2>2 DEF Requests
<1>5. /\ asked'[r] = a /\ decision'[r] = d /\ stage'[r] = "routed"
      /\ \A q \in Requests: q # r => asked'[q] = asked[q] /\ decision'[q] = decision[q]
                                     /\ stage'[q] = stage[q]
  BY DEF Takes, Remember, RouterInv, RouterTypeOK
<1>6. /\ route'[a.key] = [candidate |-> d.selected, owner |-> r]
      /\ \A j \in Keys: j # a.key =>
           route'[j] = IF Contains(lru', j) THEN route[j] ELSE NoRoute
  BY <1>1 DEF Takes, Remember
<1>. QED BY <1>1, <1>2, <1>3, <1>4, <1>5, <1>6

\* The table's order after a request of session a.key was routed.
LEMMA TakesOrder ==
    ASSUME RouterInv, NEW r \in Requests, NEW a \in Arrivals, NEW d \in Decided, Takes(r, a, d)
    PROVE  Renewed(Keys, lru, a.key, MaxSessions, lru')
<1>1. a.key \in Keys /\ MaxSessions \in Nat \ {0}
  BY RouterAssumption DEF RouterParameters
<1>2. lru \in Seq(Keys) /\ Len(lru) <= MaxSessions
  BY DEF RouterInv, RouterTypeOK
<1>3. \A m, n \in 1..Len(lru): m < n => lru[m] # lru[n]
  BY Owned
<1>4. lru' = Newest(Append(RemoveFirst(lru, a.key), a.key), MaxSessions)
  BY DEF Takes, Remember
<1>. QED BY <1>1, <1>2, <1>3, <1>4, RenewHolds

LEMMA TakesTable ==
    ASSUME RouterInv, NEW r \in Requests, NEW a \in Arrivals, NEW d \in Decided, Takes(r, a, d)
    PROVE  Table'
<1> DEFINE k == a.key
           last == Len(lru')
<1>1. /\ k \in Keys /\ r \in Nat /\ ~Routed(r) /\ \A q \in Requests: Routed(q) => q < r
      /\ asked'[r] = a /\ decision'[r] = d
      /\ \A q \in Requests: q # r => asked'[q] = asked[q] /\ decision'[q] = decision[q]
      /\ route'[k] = [candidate |-> d.selected, owner |-> r]
      /\ \A j \in Keys: j # k => route'[j] = IF Contains(lru', j) THEN route[j] ELSE NoRoute
  BY TakesRoutes
<1>2. Renewed(Keys, lru, k, MaxSessions, lru')
  BY TakesOrder
<1>3. /\ Requests \subseteq Nat /\ None \notin Requests /\ None \notin Ids
      /\ \A n \in 1..Len(lru): lru[n] \in Keys /\ Contains(lru, lru[n])
                               /\ route[lru[n]].owner \in Requests
  BY Owned
<1>4. lru' \in Seq(Keys) /\ last \in 1..MaxSessions /\ lru'[last] = k /\ DOMAIN lru' = 1..last
      /\ lru \in Seq(Keys) /\ DOMAIN lru = 1..Len(lru)
  BY <1>2 DEF Renewed, RouterInv, RouterTypeOK
<1>5. /\ \A n \in 1..last - 1: lru'[n] # k /\ Contains(lru, lru'[n])
      /\ \A m, n \in 1..last - 1: m < n =>
           \E p, q \in 1..Len(lru): p < q /\ lru'[m] = lru[p] /\ lru'[n] = lru[q]
      /\ \A n \in 1..Len(lru): lru[n] # k /\ ~Contains(lru', lru[n])
           => n = 1 /\ last = MaxSessions /\ ~Contains(lru, k)
      /\ Len(lru) = MaxSessions => last = MaxSessions
  BY <1>2 DEF Renewed
<1>6. /\ \A j \in Keys: route[j].owner # None <=> Contains(lru, j)
      /\ \A j \in Keys: route[j].owner # None =>
           /\ Routed(route[j].owner) /\ asked[route[j].owner].key = j
           /\ route[j].candidate = decision[route[j].owner].selected
      /\ \A m, n \in 1..Len(lru): m < n => route[lru[m]].owner < route[lru[n]].owner
      /\ \A q \in Requests: Routed(q) =>
           IF route[asked[q].key].owner # None THEN q <= route[asked[q].key].owner
           ELSE /\ Len(lru) = MaxSessions
                /\ \A n \in 1..Len(lru): q < route[lru[n]].owner
  BY <1>4 DEF RouterInv, Table
<1>7. \A j \in Keys: route[j].owner \in Requests \cup {None}
  BY DEF RouterInv, RouterTypeOK
<1>8. d.selected \in Ids /\ Routed(r)' /\ \A q \in Requests: q # r => (Routed(q)' <=> Routed(q))
  BY <1>1, <1>3 DEF Decided, Routed
<1>9. route'[k].owner = r /\ route'[k].candidate = d.selected /\ r # None
  BY <1>1, <1>3
<1> HIDE DEF k, last
<1>10. Contains(lru', k)
  BY <1>4 DEF Contains
<1>11. ASSUME NEW j \in Keys, j # k
       PROVE  /\ Contains(lru', j) => Contains(lru, j) /\ route'[j] = route[j]
              /\ ~Contains(lru', j) => route'[j].owner = None
  <2>1. ASSUME Contains(lru', j) PROVE Contains(lru, j)
    <3>1. PICK n \in 1..last: lru'[n] = j
      BY <1>4, <2>1 DEF Contains
    <3>2. n \in 1..last - 1
      BY <1>4, <1>11, <3>1
    <3>. QED BY <1>5, <3>1, <3>2
  <2>. QED BY <1>1, <1>11, <2>1 DEF NoRoute
<1>12. ASSUME NEW j \in Keys PROVE route'[j].owner # None <=> Contains(lru', j)
  BY <1>6, <1>9, <1>10, <1>11
<1>13. ASSUME NEW j \in Keys, route'[j].owner # None
       PROVE  /\ decision'[route'[j].owner].selected # None /\ asked'[route'[j].owner].key = j
              /\ route'[j].candidate = decision'[route'[j].owner].selected
  <2>1. CASE j = k
    <3>1. route'[j].owner = r /\ route'[j].candidate = d.selected
      BY <1>9, <2>1
    <3>2. asked'[r].key = k
      BY <1>1 DEF k
    <3>3. decision'[r] = d
      BY <1>1
    <3>. QED BY <1>3, <1>8, <2>1, <3>1, <3>2, <3>3
  <2>2. CASE j # k
    <3>1. route'[j] = route[j] /\ route[j].owner # None
      BY <1>11, <1>13, <2>2
    <3>2. route[j].owner \in Requests /\ route[j].owner # r
      BY <1>1, <1>6, <1>7, <3>1
    <3> DEFINE o == route[j].owner
    <3>3. decision'[o].selected # None
      BY <1>1, <1>6, <3>1, <3>2 DEF Routed
    <3>4. asked'[o].key = j /\ route[j].candidate = decision'[o].selected
      BY <1>1, <1>6, <3>1, <3>2
    <3>. QED BY <3>1, <3>3, <3>4
  <2>. QED BY <2>1, <2>2
<1>14. ASSUME NEW m \in 1..last, NEW n \in 1..last, m < n
       PROVE  route'[lru'[m]].owner < route'[lru'[n]].owner
  <2>1. m \in 1..last - 1
    BY <1>4, <1>14
  <2>2. lru'[m] \in Keys /\ lru'[m] # k /\ Contains(lru', lru'[m])
    BY <1>4, <1>5, <2>1 DEF Contains
  <2>3. route'[lru'[m]] = route[lru'[m]] /\ route[lru'[m]].owner # None
    BY <1>6, <1>11, <2>2
  <2>4. CASE n = last
    BY <1>1, <1>4, <1>6, <1>7, <1>9, <2>2, <2>3, <2>4
  <2>5. CASE n # last
    <3>1. n \in 1..last - 1
      BY <1>4, <2>5
    <3>2. lru'[n] \in Keys /\ lru'[n] # k /\ Contains(lru', lru'[n])
      BY <1>4, <1>5, <3>1 DEF Contains
    <3>3. route'[lru'[n]] = route[lru'[n]]
      BY <1>11, <3>2
    <3>4. PICK p, q \in 1..Len(lru): p < q /\ lru'[m] = lru[p] /\ lru'[n] = lru[q]
      BY <1>5, <1>14, <2>1, <3>1
    <3>. QED BY <1>6, <2>3, <3>3, <3>4
  <2>. QED BY <2>4, <2>5
<1>15. ASSUME NEW q \in Requests, Routed(q)'
       PROVE  IF route'[asked'[q].key].owner # None THEN q <= route'[asked'[q].key].owner
              ELSE /\ Len(lru') = MaxSessions
                   /\ \A n \in 1..last: q < route'[lru'[n]].owner
  <2>1. CASE q = r
    BY <1>1, <1>9, <2>1 DEF k
  <2>2. CASE q # r
    <3> DEFINE j == asked[q].key
    <3>1. asked'[q] = asked[q] /\ Routed(q) /\ q < r
      BY <1>1, <1>8, <1>15, <2>2
    <3>2. j \in Keys
      <4>1. asked[q] \in Arrivals
        BY <3>1 DEF RouterInv, History
      <4>. QED BY <4>1, RouterAssumption DEF RouterParameters
    <3>3. q \in Nat
      BY <1>3
    <3>4. CASE j = k
      BY <1>1, <1>9, <3>1, <3>3, <3>4
    <3>5. CASE j # k /\ Contains(lru', j)
      BY <1>6, <1>11, <3>1, <3>2, <3>5
    <3>6. CASE j # k /\ ~Contains(lru', j)
      <4>1. route'[j].owner = None
        BY <1>11, <3>2, <3>6
      <4>2. ASSUME NEW n \in 1..Len(lru), lru[n] # j, lru[n] # k
            PROVE  q < route[lru[n]].owner
        <5>1. CASE Contains(lru, j)
          <6>1. PICK p \in 1..Len(lru): lru[p] = j
            BY <1>4, <5>1 DEF Contains
          <6>2. p = 1
            BY <1>5, <3>6, <6>1
          <6>3. route[j].owner < route[lru[n]].owner
            BY <1>4, <1>6, <4>2, <6>1, <6>2
          <6>4. q <= route[j].owner /\ route[j].owner \in Requests
            BY <1>3, <1>6, <3>1, <3>2, <5>1, <6>1
          <6>. QED BY <1>3, <6>3, <6>4
        <5>2. CASE ~Contains(lru, j)
          BY <1>6, <3>1, <3>2, <5>2
        <5>. QED BY <5>1, <5>2
      <4>3. Len(lru') = MaxSessions
        <5>1. CASE Contains(lru, j)
          <6>1. PICK p \in 1..Len(lru): lru[p] = j
            BY <1>4, <5>1 DEF Contains
          <6>. QED BY <1>5, <3>6, <6>1 DEF last
        <5>2. CASE ~Contains(lru, j)
          BY <1>5, <1>6, <3>1, <3>2, <5>2 DEF last
        <5>. QED BY <5>1, <5>2
      <4>4. ASSUME NEW n \in 1..last PROVE q < route'[lru'[n]].owner
        <5>1. CASE n = last
          BY <1>4, <1>9, <3>1, <5>1
        <5>2. CASE n # last
          <6>1. n \in 1..last - 1
            BY <1>4, <5>2
          <6>2. lru'[n] \in Keys /\ lru'[n] # k /\ Contains(lru', lru'[n]) /\ Contains(lru, lru'[n])
            BY <1>4, <1>5, <6>1 DEF Contains
          <6>3. lru'[n] # j
            BY <3>6, <6>2
          <6>4. PICK p \in 1..Len(lru): lru[p] = lru'[n]
            BY <1>4, <6>2 DEF Contains
          <6>5. route'[lru'[n]] = route[lru'[n]]
            BY <1>11, <6>2
          <6>. QED BY <4>2, <6>2, <6>3, <6>4, <6>5
        <5>. QED BY <5>1, <5>2
      <4>. QED BY <3>1, <4>1, <4>3, <4>4
    <3>. QED BY <3>4, <3>5, <3>6
  <2>. QED BY <2>1, <2>2
<1>. QED BY <1>4, <1>12, <1>13, <1>14, <1>15 DEF Table, Routed

LEMMA TakesLogged ==
    ASSUME RouterInv, NEW r \in Requests, NEW a \in Arrivals, NEW d \in Decided, Takes(r, a, d)
    PROVE  Logged' /\ log' \in Seq(Requests) /\ Len(log') <= MaxDecisions
<1>1. /\ r \in Nat /\ ~Routed(r) /\ \A q \in Requests: Routed(q) => q < r
      /\ \A q \in Requests: q # r => decision'[q] = decision[q]
      /\ Routed(r)'
  <2>1. /\ r \in Nat /\ ~Routed(r) /\ \A q \in Requests: Routed(q) => q < r
        /\ \A q \in Requests: q # r => asked'[q] = asked[q] /\ decision'[q] = decision[q]
                                       /\ stage'[q] = stage[q]
        /\ decision'[r] = d
    BY TakesRoutes
  <2>2. d.selected \in Ids /\ None \notin Ids
    BY Owned DEF Decided
  <2>. QED BY <2>1, <2>2 DEF Routed
<1> DEFINE u == Append(log, r)
           e == IF Len(u) > MaxDecisions THEN 1 ELSE 0
           last == Len(log')
<1>2. /\ Requests \subseteq Nat /\ MaxDecisions \in Nat \ {0}
      /\ log \in Seq(Requests) /\ Len(log) <= MaxDecisions
  BY RouterAssumption DEF RouterParameters, Requests, RouterInv, RouterTypeOK
<1>3. /\ \A n \in 1..Len(log): Routed(log[n])
      /\ \A m, n \in 1..Len(log): m < n => log[m] < log[n]
      /\ \A q \in Requests, n \in 1..Len(log): Routed(q) /\ log[n] < q => Contains(log, q)
  BY <1>2 DEF RouterInv, Logged
<1>15. ASSUME NEW n \in 1..Len(log)
       PROVE  log[n] \in Requests /\ log[n] \in Nat /\ log[n] < r
  <2>1. log[n] \in Requests
    BY <1>2
  <2>2. Routed(log[n])
    BY <1>3
  <2>. QED BY <1>1, <1>2, <2>1, <2>2
<1>4. /\ u \in Seq(Requests) /\ Len(u) = Len(log) + 1 /\ u[Len(log) + 1] = r
      /\ \A n \in 1..Len(log): u[n] = log[n]
  BY <1>2
<1>5. log' = Newest(u, MaxDecisions)
  BY DEF Takes, Remember
<1> HIDE DEF u
<1>6. /\ Newest(u, MaxDecisions) \in Seq(Requests)
      /\ Len(Newest(u, MaxDecisions)) = Len(u) - e /\ Len(u) - e <= MaxDecisions
      /\ \A n \in 1..Len(u) - e: Newest(u, MaxDecisions)[n] = u[n + e]
  BY <1>2, <1>4, NewestHolds
<1>7. /\ log' \in Seq(Requests) /\ DOMAIN log' = 1..last
      /\ last = Len(log) + 1 - e /\ last <= MaxDecisions
      /\ e \in {0, 1} /\ \A n \in 1..last: log'[n] = u[n + e]
  BY <1>4, <1>5, <1>6
<1>8. last >= 1 /\ log'[last] = r
  BY <1>2, <1>4, <1>7
<1> HIDE DEF e, last
<1>9. \A n \in 1..last - 1: n + e \in 1..Len(log) /\ log'[n] = log[n + e]
  BY <1>2, <1>4, <1>7
<1>10. \A n \in 1..last: n = last \/ n \in 1..last - 1
  BY <1>2, <1>7
<1>11. ASSUME NEW n \in 1..last PROVE decision'[log'[n]].selected # None
  <2>1. CASE n = last
    BY <1>1, <1>8, <2>1 DEF Routed
  <2>2. CASE n # last
    <3>1. n + e \in 1..Len(log) /\ log'[n] = log[n + e]
      BY <1>9, <1>10, <2>2
    <3>2. log[n + e] \in Requests /\ log[n + e] # r /\ Routed(log[n + e])
      BY <1>1, <1>3, <1>15, <3>1
    <3>. QED BY <1>1, <3>1, <3>2 DEF Routed
  <2>. QED BY <2>1, <2>2
<1>12. ASSUME NEW m \in 1..last, NEW n \in 1..last, m < n PROVE log'[m] < log'[n]
  <2>1. m \in 1..last - 1
    BY <1>2, <1>7, <1>12
  <2>2. CASE n = last
    BY <1>8, <1>9, <1>15, <2>1, <2>2
  <2>3. CASE n # last
    <3>1. n \in 1..last - 1 /\ m + e < n + e
      BY <1>7, <1>10, <1>12, <2>3
    <3>. QED BY <1>3, <1>9, <2>1, <3>1
  <2>. QED BY <2>2, <2>3
<1>13. ASSUME NEW q \in Requests, NEW n \in 1..last, Routed(q)', log'[n] < q
       PROVE  Contains(log', q)
  <2>1. CASE q = r
    BY <1>7, <1>8, <2>1 DEF Contains, last
  <2>2. CASE q # r
    <3>1. Routed(q) /\ q < r
      BY <1>1, <1>13, <2>2 DEF Routed
    <3>2. n # last
      BY <1>1, <1>2, <1>8, <1>13, <3>1
    <3>3. n \in 1..last - 1
      BY <1>10, <3>2
    <3>4. n + e \in 1..Len(log) /\ log'[n] = log[n + e]
      BY <1>9, <3>3
    <3>5. Contains(log, q)
      BY <1>3, <1>13, <3>1, <3>4
    <3>6. PICK p \in 1..Len(log): log[p] = q
      BY <1>2, <3>5 DEF Contains
    <3>7. n + e < p
      <4>1. ASSUME p < n + e \/ p = n + e PROVE FALSE
        <5>1. log[p] < log[n + e] \/ log[p] = log[n + e]
          BY <1>3, <3>4, <4>1
        <5>. QED BY <1>13, <1>15, <3>4, <3>6, <5>1
      <4>. QED BY <1>7, <4>1
    <3>8. p - e \in 1..last - 1 /\ p - e + e = p
      BY <1>2, <1>7, <3>7
    <3>9. log'[p - e] = q
      BY <1>9, <3>6, <3>8
    <3>10. p - e \in 1..last
      BY <1>2, <1>7, <3>8
    <3>. QED BY <3>9, <3>10 DEF Contains, last
  <2>. QED BY <2>1, <2>2
<1>14. Logged'
  BY <1>7, <1>11, <1>12, <1>13 DEF Logged, Routed
<1>. QED BY <1>7, <1>14 DEF last

LEMMA TakesHistory ==
    ASSUME RouterInv, NEW r \in Requests, NEW a \in Arrivals, NEW d \in Decided, Takes(r, a, d)
    PROVE  History'
<1>1. /\ asked'[r] = a /\ decision'[r] = d /\ stage'[r] = "routed"
      /\ \A q \in Requests: q # r => asked'[q] = asked[q] /\ decision'[q] = decision[q]
                                     /\ stage'[q] = stage[q]
      /\ r \in Nat
  BY TakesRoutes
<1>2. \A q \in 1..r - 1: stage[q] # "new"
  BY DEF Takes, IsNext
<1>3. d.selected # None
  BY Owned DEF Decided
<1>4. Requests = 1..MaxRequests /\ MaxRequests \in Nat
  BY RouterAssumption DEF RouterParameters, Requests
<1>5. ASSUME NEW p \in Requests, NEW q \in Requests, p < q, stage'[q] # "new"
      PROVE  stage'[p] # "new"
  <2>1. CASE p = r
    BY <1>1, <2>1
  <2>2. CASE p # r /\ q = r
    BY <1>1, <1>2, <1>4, <1>5, <2>2
  <2>3. CASE p # r /\ q # r
    BY <1>1, <1>5, <2>3 DEF RouterInv, History
  <2>. QED BY <2>1, <2>2, <2>3
<1>6. \A q \in Requests: stage'[q] = "routed" => decision'[q].selected # None
  BY <1>1, <1>3 DEF RouterInv, History, Routed
<1>8. Len(d.candidates) \in 1..Len(Shortlist)
  BY DEF Decided
<1>7. \A q \in Requests: decision'[q].selected # None =>
        /\ stage'[q] \in {"routed", "served", "failed"} /\ asked'[q] \in Arrivals
        /\ Len(decision'[q].candidates) \in 1..Len(Shortlist)
  BY <1>1, <1>3, <1>8 DEF RouterInv, History, Routed
<1>. QED BY <1>5, <1>6, <1>7 DEF History, Routed

LEMMA TakesType ==
    ASSUME RouterInv, NEW r \in Requests, NEW a \in Arrivals, NEW d \in Decided, Takes(r, a, d)
    PROVE  RouterTypeOK'
<1>1. stage' \in [Requests -> {"new", "routed", "served", "failed", "refused"}]
  BY DEF Takes, RouterInv, RouterTypeOK
<1>2. asked' \in [Requests -> Arrivals \cup {None}]
  BY DEF Takes, RouterInv, RouterTypeOK
<1>3. d \in [selected: Ids \cup {None}, candidates: Seq(Ids),
             pinned: {"no", "tool_loop", "session"}, attempts: Seq(Ids)]
  BY DEF Decided
<1>4. decision' \in [Requests -> [selected: Ids \cup {None}, candidates: Seq(Ids),
                                  pinned: {"no", "tool_loop", "session"}, attempts: Seq(Ids)]]
  BY <1>3 DEF Takes, Remember, RouterInv, RouterTypeOK
<1>5. lru' \in Seq(Keys) /\ Len(lru') <= MaxSessions
  <2>1. Renewed(Keys, lru, a.key, MaxSessions, lru') /\ MaxSessions \in Nat
    BY TakesOrder, RouterAssumption DEF RouterParameters
  <2>. QED BY <2>1 DEF Renewed
<1>6. route' \in [Keys -> [candidate: Ids \cup {None}, owner: Requests \cup {None}]]
  <2>1. d.selected \in Ids
    BY DEF Decided
  <2>2. route' = [j \in Keys |-> IF j = a.key THEN [candidate |-> d.selected, owner |-> r]
                                ELSE IF Contains(lru', j) THEN route[j] ELSE NoRoute]
    BY DEF Takes, Remember
  <2>. QED BY <2>1, <2>2 DEF RouterInv, RouterTypeOK, NoRoute
<1>7. log' \in Seq(Requests) /\ Len(log') <= MaxDecisions
  BY TakesLogged
<1>. QED BY <1>1, <1>2, <1>4, <1>5, <1>6, <1>7 DEF RouterTypeOK

\* A request that is refused touches none of it.
LEMMA RefusedHolds ==
    ASSUME RouterInv, NEW r \in Requests, NEW a \in Arrivals, IsNext(r),
           asked' = [asked EXCEPT ![r] = a], stage' = [stage EXCEPT ![r] = "refused"],
           UNCHANGED <<decision, tables>>
    PROVE  RouterInv'
<1>1. /\ \A q \in Requests: q # r => asked'[q] = asked[q] /\ stage'[q] = stage[q]
      /\ stage'[r] = "refused"
  BY DEF RouterInv, RouterTypeOK
<1>2. decision' = decision /\ lru' = lru /\ route' = route /\ log' = log
  BY DEF tables
<1>3. Requests = 1..MaxRequests /\ MaxRequests \in Nat /\ r \in Nat
  BY RouterAssumption DEF RouterParameters, Requests
<1>4. ~Routed(r) /\ \A q \in 1..r - 1: stage[q] # "new"
  BY DEF IsNext, RouterInv, History
<1>5. RouterTypeOK'
  <2>1. stage' \in [Requests -> {"new", "routed", "served", "failed", "refused"}]
    BY DEF RouterInv, RouterTypeOK
  <2>2. asked' \in [Requests -> Arrivals \cup {None}]
    BY DEF RouterInv, RouterTypeOK
  <2>. QED BY <1>2, <2>1, <2>2 DEF RouterInv, RouterTypeOK
<1>6. History'
  <2>1. ASSUME NEW p \in Requests, NEW q \in Requests, p < q, stage'[q] # "new"
        PROVE  stage'[p] # "new"
    <3>1. CASE p = r
      BY <1>1, <3>1
    <3>2. CASE p # r /\ q = r
      BY <1>1, <1>3, <1>4, <2>1, <3>2
    <3>3. CASE p # r /\ q # r
      BY <1>1, <2>1, <3>3 DEF RouterInv, History
    <3>. QED BY <3>1, <3>2, <3>3
  <2>2. \A q \in Requests: stage'[q] = "routed" => Routed(q)'
    BY <1>1, <1>2 DEF RouterInv, History, Routed
  <2>3. \A q \in Requests: Routed(q)' =>
          /\ stage'[q] \in {"routed", "served", "failed"} /\ asked'[q] \in Arrivals
          /\ Len(decision'[q].candidates) \in 1..Len(Shortlist)
    BY <1>1, <1>2, <1>4 DEF RouterInv, History, Routed
  <2>. QED BY <2>1, <2>2, <2>3 DEF History, Routed
<1>7. Table'
  <2>1. \A k \in Keys: route[k].owner # None => asked'[route[k].owner] = asked[route[k].owner]
    BY <1>1, <1>4 DEF RouterInv, RouterTypeOK, Table
  <2>2. \A q \in Requests: Routed(q) => asked'[q] = asked[q]
    BY <1>1, <1>4
  <2>3. \A k \in Keys: route[k].owner # None => asked'[route[k].owner].key = k
    BY <2>1 DEF RouterInv, Table
  <2>. QED BY <1>2, <2>2, <2>3 DEF RouterInv, Table, Routed
<1>8. Logged'
  BY <1>2 DEF RouterInv, Logged, Routed
<1>. QED BY <1>5, <1>6, <1>7, <1>8 DEF RouterInv

\* A request that ends keeps its session where it is.
LEMMA EndsHolds ==
    ASSUME RouterInv, NEW r \in Requests, Ends(r)
    PROVE  RouterInv'
<1>1. PICK to \in {"served", "failed"}: stage' = [stage EXCEPT ![r] = to]
  BY DEF Ends
<1>2. PICK d \in Decided: decision' = [decision EXCEPT ![r] = d]
  BY DEF Ends
<1>3. /\ asked' = asked /\ lru' = lru /\ log' = log
      /\ stage[r] = "routed" /\ Routed(r)
      /\ route' = [k \in Keys |-> IF route[k].owner = r
                                  THEN [route[k] EXCEPT !.candidate = decision'[r].selected]
                                  ELSE route[k]]
  BY DEF Ends, RouterInv, History
<1>4. /\ stage'[r] = to /\ decision'[r] = d
      /\ \A q \in Requests: q # r => decision'[q] = decision[q] /\ stage'[q] = stage[q]
  BY <1>1, <1>2 DEF RouterInv, RouterTypeOK
<1>5. d.selected \in Ids /\ d.selected # None
  BY Owned DEF Decided
<1>6. \A q \in Requests: decision'[q].selected # None <=> Routed(q)
  BY <1>3, <1>4, <1>5 DEF Routed
<1>7. ASSUME NEW k \in Keys
      PROVE  /\ route'[k] \in [candidate: Ids \cup {None}, owner: Requests \cup {None}]
             /\ route'[k].owner = route[k].owner
             /\ route'[k].candidate = IF route[k].owner = r THEN d.selected ELSE route[k].candidate
  <2>1. route[k] \in [candidate: Ids \cup {None}, owner: Requests \cup {None}]
    BY DEF RouterInv, RouterTypeOK
  <2>. QED BY <1>3, <1>4, <1>5, <2>1
<1>8. RouterTypeOK'
  <2>1. stage' \in [Requests -> {"new", "routed", "served", "failed", "refused"}]
    BY <1>1 DEF RouterInv, RouterTypeOK
  <2>2. decision' \in [Requests -> [selected: Ids \cup {None}, candidates: Seq(Ids),
                                    pinned: {"no", "tool_loop", "session"},
                                    attempts: Seq(Ids)]]
    BY <1>2 DEF Decided, RouterInv, RouterTypeOK
  <2>3. route' \in [Keys -> [candidate: Ids \cup {None}, owner: Requests \cup {None}]]
    <3>1. DOMAIN route' = Keys /\ route' = [k \in Keys |-> route'[k]]
      BY <1>3
    <3>. QED BY <1>7, <3>1
  <2>. QED BY <1>3, <2>1, <2>2, <2>3 DEF RouterInv, RouterTypeOK
<1>9. History'
  <2>1. \A q \in Requests: stage'[q] = "new" <=> stage[q] = "new"
    BY <1>3, <1>4
  <2>2. \A q \in Requests: stage'[q] = "routed" => stage[q] = "routed"
    BY <1>4
  <2>3. Len(d.candidates) \in 1..Len(Shortlist)
    BY DEF Decided
  <2>4. \A q \in Requests: Routed(q) =>
          /\ stage'[q] \in {"routed", "served", "failed"} /\ asked[q] \in Arrivals
          /\ Len(decision'[q].candidates) \in 1..Len(Shortlist)
    BY <1>3, <1>4, <2>3 DEF RouterInv, History
  <2>5. \A p, q \in Requests: p < q /\ stage'[q] # "new" => stage'[p] # "new"
    BY <2>1 DEF RouterInv, History
  <2>6. \A q \in Requests: stage'[q] = "routed" => Routed(q)
    BY <2>2 DEF RouterInv, History
  <2>. QED BY <1>3, <1>6, <2>4, <2>5, <2>6 DEF History, Routed
<1>10. Table'
  <2>1. \A k \in Keys: route[k].owner \in Requests \cup {None}
    BY DEF RouterInv, RouterTypeOK
  <2>2. \A n \in DOMAIN lru: lru[n] \in Keys
    BY DEF RouterInv, RouterTypeOK
  <2>3. \A q \in Requests: Routed(q) => asked[q].key \in Keys
    BY RouterAssumption DEF RouterParameters, RouterInv, History
  <2>4. \A k \in Keys: route'[k].owner # None <=> Contains(lru, k)
    BY <1>7 DEF RouterInv, Table
  <2>5. ASSUME NEW k \in Keys, route'[k].owner # None
        PROVE  /\ decision'[route'[k].owner].selected # None /\ asked[route'[k].owner].key = k
               /\ route'[k].candidate = decision'[route'[k].owner].selected
    <3>1. route'[k].owner = route[k].owner /\ route[k].owner \in Requests
      BY <1>7, <2>1, <2>5
    <3>2. /\ Routed(route[k].owner) /\ asked[route[k].owner].key = k
          /\ route[k].candidate = decision[route[k].owner].selected
      BY <2>5, <3>1 DEF RouterInv, Table
    <3>. QED BY <1>4, <1>6, <1>7, <3>1, <3>2
  <2>6. \A m, n \in DOMAIN lru: m < n => route'[lru[m]].owner < route'[lru[n]].owner
    BY <1>7, <2>2 DEF RouterInv, Table
  <2>7. ASSUME NEW q \in Requests, Routed(q)
        PROVE  IF route'[asked[q].key].owner # None THEN q <= route'[asked[q].key].owner
               ELSE /\ Len(lru) = MaxSessions
                    /\ \A n \in DOMAIN lru: q < route'[lru[n]].owner
    <3>1. route'[asked[q].key].owner = route[asked[q].key].owner
      BY <1>7, <2>3, <2>7
    <3>2. \A n \in DOMAIN lru: route'[lru[n]].owner = route[lru[n]].owner
      BY <1>7, <2>2
    <3>. QED BY <2>7, <3>1, <3>2 DEF RouterInv, Table
  <2>8. asked' = asked /\ lru' = lru
    BY <1>3
  <2>9. \A q \in Requests: Routed(q)' => Routed(q)
    BY <1>6 DEF Routed
  <2>. QED BY <2>4, <2>5, <2>6, <2>7, <2>8, <2>9 DEF Table, Routed
<1>11. Logged'
  <2>1. \A n \in DOMAIN log: log[n] \in Requests
    BY DEF RouterInv, RouterTypeOK
  <2>. QED BY <1>3, <1>6, <2>1 DEF RouterInv, Logged, Routed
<1>. QED BY <1>8, <1>9, <1>10, <1>11 DEF RouterInv

-----------------------------------------------------------------------------
(* The theorems                                                             *)

LEMMA RouterInitHolds == RouterInit => RouterInv
<1> SUFFICES ASSUME RouterInit PROVE RouterInv
  OBVIOUS
<1>1. RouterTypeOK
  BY RouterAssumption DEF RouterParameters, RouterInit, RouterTypeOK, NoDecision, NoRoute
<1>2. /\ \A r \in Requests: ~Routed(r) /\ stage[r] = "new"
      /\ \A k \in Keys: route[k].owner = None
      /\ lru = <<>> /\ log = <<>> /\ \A k: ~Contains(lru, k)
  BY DEF RouterInit, Routed, NoDecision, NoRoute, Contains
<1>3. History
  BY <1>2 DEF History
<1>4. Table
  BY <1>2 DEF Table
<1>5. Logged
  BY <1>2 DEF Logged
<1>. QED BY <1>1, <1>3, <1>4, <1>5 DEF RouterInv

LEMMA RouterInvStep == RouterInv /\ [RouterNext]_routerVars => RouterInv'
<1> SUFFICES ASSUME RouterInv, [RouterNext]_routerVars PROVE RouterInv'
  OBVIOUS
<1>1. CASE RouterNext
  <2>1. PICK r \in Requests:
          \/ \E a \in Arrivals, d \in Decided: Takes(r, a, d)
          \/ /\ IsNext(r)
             /\ \E a \in Arrivals: asked' = [asked EXCEPT ![r] = a]
             /\ stage' = [stage EXCEPT ![r] = "refused"]
             /\ UNCHANGED <<decision, tables>>
          \/ Ends(r)
    BY <1>1, RouterSteps
  <2>2. ASSUME NEW a \in Arrivals, NEW d \in Decided, Takes(r, a, d) PROVE RouterInv'
    BY <2>2, TakesType, TakesHistory, TakesTable, TakesLogged DEF RouterInv
  <2>3. ASSUME NEW a \in Arrivals, IsNext(r), asked' = [asked EXCEPT ![r] = a],
               stage' = [stage EXCEPT ![r] = "refused"], UNCHANGED <<decision, tables>>
        PROVE  RouterInv'
    BY <2>3, RefusedHolds
  <2>4. CASE Ends(r)
    BY <2>4, EndsHolds
  <2>. QED BY <2>1, <2>2, <2>3, <2>4
<1>2. CASE UNCHANGED routerVars
  BY <1>2 DEF routerVars, RouterInv, RouterTypeOK, History, Table, Logged, Routed
<1>. QED BY <1>1, <1>2

LEMMA RouterInvHolds == RouterSpec => []RouterInv
BY RouterInitHolds, RouterInvStep, PTL DEF RouterSpec

\* The tables hold sessions, requests and configured candidates only, and neither
\* grows past its limit.
THEOREM RouterTypeCorrect == RouterSpec => []RouterTypeOK
<1>1. RouterInv => RouterTypeOK
  BY DEF RouterInv
<1>. QED BY <1>1, RouterInvHolds, PTL

\* decision_for() and the pin agree, in whatever order requests are finalized.
THEOREM RoutesAgree == RouterSpec => []RouteMatchesDecision
<1>1. RouterInv => RouteMatchesDecision
  BY DEF RouterInv, Table, RouteMatchesDecision
<1>. QED BY <1>1, RouterInvHolds, PTL

\* A sequence without repetitions has as many elements as its length.
LEMMA SpreadHolds ==
    ASSUME NEW T, NEW s \in Seq(T), \A m, n \in 1..Len(s): m < n => s[m] # s[n]
    PROVE  IsFiniteSet(ToSet(s)) /\ Cardinality(ToSet(s)) = Len(s)
<1> DEFINE S == 1..Len(s)
           C == ToSet(s)
<1>1. IsFiniteSet(S) /\ Cardinality(S) = Len(s)
  <2> DEFINE z == Len(s)
  <2>1. 1 \in Int /\ z \in Int /\ z >= 0
    OBVIOUS
  <2> HIDE DEF z
  <2>2. IsFiniteSet(1..z) /\ Cardinality(1..z) = IF 1 > z THEN 0 ELSE z - 1 + 1
    BY <2>1, FS_Interval
  <2>3. Cardinality(1..z) = z
    BY <2>1, <2>2
  <2>. QED BY <2>2, <2>3 DEF z
<1>2. DOMAIN s = S /\ s \in [S -> C]
  BY DEF ToSet
<1>3. \A m, n \in S: s[m] = s[n] => m = n
  OBVIOUS
<1>4. s \in Surjection(S, C)
  BY <1>2 DEF Surjection, ToSet
<1>5. s \in Injection(S, C)
  BY <1>2, <1>3 DEF Injection, IsInjective
<1> HIDE DEF S, C
<1>6. IsFiniteSet(C) /\ Cardinality(C) = Cardinality(S)
  BY <1>1, <1>4, <1>5, FS_Surjection
<1>. QED BY <1>1, <1>6 DEF C

\* A session in the log keeps its route until MaxSessions others were routed.
LEMMA SessionKept ==
    ASSUME RouterInv, NEW k \in Keys, NEW n \in DOMAIN log, asked[log[n]].key = k,
           \A m \in n + 1 .. Len(log): asked[log[m]].key # k
    PROVE  LET since == {asked[log[m]].key: m \in n + 1 .. Len(log)}
           IN  IF Cardinality(since) < MaxSessions THEN route[k].owner = log[n]
               ELSE ~Contains(lru, k)
<1> DEFINE since == {asked[log[m]].key: m \in n + 1 .. Len(log)}
           r == log[n]
<1>1. /\ Requests \subseteq Nat /\ None \notin Requests
      /\ \A p \in 1..Len(lru): lru[p] \in Keys /\ Contains(lru, lru[p])
                               /\ route[lru[p]].owner \in Requests
      /\ \A m, p \in 1..Len(lru): m < p => lru[m] # lru[p]
  BY Owned
<1>2. /\ log \in Seq(Requests) /\ lru \in Seq(Keys) /\ Len(lru) <= MaxSessions
      /\ MaxSessions \in Nat \ {0}
      /\ \A j \in Keys: route[j].owner \in Requests \cup {None}
  BY RouterAssumption DEF RouterParameters, RouterInv, RouterTypeOK
<1>3. DOMAIN log = 1..Len(log) /\ DOMAIN lru = 1..Len(lru) /\ n \in 1..Len(log)
  BY <1>2
<1>4. /\ \A m \in 1..Len(log): Routed(log[m])
      /\ \A m, p \in 1..Len(log): m < p => log[m] < log[p]
      /\ \A q \in Requests, m \in 1..Len(log): Routed(q) /\ log[m] < q => Contains(log, q)
  BY <1>3 DEF RouterInv, Logged
<1>5. r \in Requests /\ Routed(r) /\ asked[r].key = k
  BY <1>2, <1>3, <1>4
<1>6. ASSUME NEW q \in Requests, Routed(q), r < q
      PROVE  asked[q].key \in since
  <2>1. Contains(log, q)
    BY <1>3, <1>4, <1>6
  <2>2. PICK m \in 1..Len(log): log[m] = q
    BY <1>3, <2>1 DEF Contains
  <2>3. n < m
    <3>1. ASSUME m < n \/ m = n PROVE FALSE
      <4>1. q < r \/ q = r
        BY <1>3, <1>4, <2>2, <3>1
      <4>2. q \in Nat /\ r \in Nat
        BY <1>1, <1>5
      <4>. QED BY <1>6, <4>1, <4>2
    <3>. QED BY <1>3, <3>1
  <2>4. m \in n + 1 .. Len(log)
    BY <1>3, <2>3
  <2>. QED BY <2>2, <2>4
<1>7. k \notin since
  OBVIOUS
<1>8. ASSUME NEW j \in since
      PROVE  j \in Keys /\ \E q \in Requests: Routed(q) /\ r < q /\ asked[q].key = j
  <2>1. PICK m \in n + 1 .. Len(log): j = asked[log[m]].key
    OBVIOUS
  <2>2. m \in 1..Len(log) /\ n < m
    BY <1>3, <2>1
  <2>3. log[m] \in Requests /\ Routed(log[m]) /\ r < log[m]
    BY <1>2, <1>3, <1>4, <2>2
  <2>4. j \in Keys
    BY <2>1, <2>3, RouterAssumption DEF RouterParameters, RouterInv, History
  <2>. QED BY <2>1, <2>3, <2>4
<1> HIDE DEF since, r
<1>9. /\ \A j \in Keys: route[j].owner # None <=> Contains(lru, j)
      /\ \A j \in Keys: route[j].owner # None =>
           Routed(route[j].owner) /\ asked[route[j].owner].key = j
      /\ \A q \in Requests: Routed(q) =>
           IF route[asked[q].key].owner # None THEN q <= route[asked[q].key].owner
           ELSE /\ Len(lru) = MaxSessions
                /\ \A p \in 1..Len(lru): q < route[lru[p]].owner
  BY <1>3 DEF RouterInv, Table
<1>10. IsFiniteSet(ToSet(lru)) /\ Cardinality(ToSet(lru)) = Len(lru)
  BY <1>1, <1>2, SpreadHolds
<1>11. CASE route[k].owner # None
  <2>1. route[k].owner = r
    <3>1. route[k].owner \in Requests /\ r <= route[k].owner
      BY <1>2, <1>5, <1>9, <1>11
    <3>2. ~(r < route[k].owner)
      BY <1>6, <1>7, <1>9, <1>11, <3>1
    <3>3. r \in Nat /\ route[k].owner \in Nat
      BY <1>1, <1>5, <3>1
    <3>. QED BY <3>1, <3>2, <3>3
  <2>2. Contains(lru, k)
    BY <1>9, <1>11
  <2>3. PICK i \in 1..Len(lru): lru[i] = k
    BY <1>3, <2>2 DEF Contains
  <2>4. ASSUME NEW j \in since PROVE j \in ToSet(lru)
    <3>1. PICK q \in Requests: Routed(q) /\ r < q /\ asked[q].key = j
      BY <1>8
    <3>2. route[j].owner # None
      <4>1. ASSUME route[j].owner = None PROVE FALSE
        <5>1. q < route[lru[i]].owner
          BY <1>9, <3>1, <4>1
        <5>2. q < r /\ q \in Nat /\ r \in Nat
          BY <1>1, <1>5, <2>1, <2>3, <5>1
        <5>. QED BY <3>1, <5>2
      <4>. QED BY <4>1
    <3>3. Contains(lru, j)
      BY <1>8, <1>9, <3>2
    <3>. QED BY <3>3 DEF Contains, ToSet
  <2>5. since \cup {k} \in SUBSET ToSet(lru) /\ since \in SUBSET ToSet(lru)
    BY <1>3, <2>3, <2>4 DEF ToSet
  <2>6. IsFiniteSet(since)
    BY <1>10, <2>5, FS_Subset
  <2>7. Cardinality(since \cup {k}) = Cardinality(since) + 1 /\ Cardinality(since) \in Nat
    <3>1. Cardinality(since \cup {k}) = Cardinality(since) + 1
      BY <1>7, <2>6, FS_AddElement
    <3>2. Cardinality(since) \in Nat
      BY <2>6, FS_CardinalityType
    <3>. QED BY <3>1, <3>2
  <2>8. Cardinality(since \cup {k}) <= Cardinality(ToSet(lru))
    BY <1>10, <2>5, FS_Subset
  <2>9. Cardinality(since) < MaxSessions
    BY <1>2, <1>10, <2>7, <2>8
  <2>. QED BY <2>1, <2>9 DEF since, r
<1>12. CASE route[k].owner = None
  <2>1. Len(lru) = MaxSessions /\ \A p \in 1..Len(lru): r < route[lru[p]].owner
    BY <1>5, <1>9, <1>12
  <2>2. ASSUME NEW p \in 1..Len(lru) PROVE lru[p] \in since
    <3>1. route[lru[p]].owner \in Requests /\ r < route[lru[p]].owner /\ lru[p] \in Keys
      BY <1>1, <2>1
    <3>2. Routed(route[lru[p]].owner) /\ asked[route[lru[p]].owner].key = lru[p]
      BY <1>1, <1>9, <3>1
    <3>. QED BY <1>6, <3>1, <3>2
  <2>3. ToSet(lru) \in SUBSET since
    BY <1>3, <2>2 DEF ToSet
  <2>4. IsFiniteSet(since)
    <3> DEFINE N == n + 1 .. Len(log)
               f == [m \in N |-> asked[log[m]].key]
    <3>1. IsFiniteSet(N)
      <4>1. n + 1 \in Int /\ Len(log) \in Int
        BY <1>2, <1>3
      <4>. QED BY <4>1, FS_Interval
    <3>2. f \in Surjection(N, since)
      BY DEF Surjection, since
    <3> HIDE DEF N, f
    <3>. QED BY <3>1, <3>2, FS_Surjection
  <2>5. Cardinality(ToSet(lru)) <= Cardinality(since)
    BY <2>3, <2>4, FS_Subset
  <2>6. Cardinality(since) \in Nat
    BY <2>4, FS_CardinalityType
  <2>7. ~(Cardinality(since) < MaxSessions)
    BY <1>2, <1>10, <2>1, <2>5, <2>6
  <2>8. ~Contains(lru, k)
    BY <1>9, <1>12
  <2>. QED BY <2>7, <2>8 DEF since, r
<1>. QED BY <1>11, <1>12

\* Eviction drops nobody before MaxSessions other sessions were routed since, and
\* keeps nobody after: the table is exactly the sessions routed most recently.
THEOREM SessionsAreRecent == RouterSpec => []KeepsRecentSessions
<1>1. RouterInv => KeepsRecentSessions
  BY SessionKept DEF KeepsRecentSessions
<1>. QED BY <1>1, RouterInvHolds, PTL

\* A tool result goes first to the candidate that served its session last.
THEOREM ToolResultsFollow == RouterSpec => ToolResultFollows
<1>1. ASSUME RouterInv, [RouterNext]_routerVars,
             NEW r \in Requests, stage[r] = "new", stage'[r] = "routed",
             asked'[r].role = "tool", Contains(lru, asked'[r].key),
             NEW c \in ToSet(Shortlist),
             c.id = decision[route[asked'[r].key].owner].selected,
             Reasons(c, asked'[r].body) = {}
      PROVE  decision'[r].selected = decision[route[asked'[r].key].owner].selected
  <2>1. RouterNext
    BY <1>1 DEF routerVars
  <2>2. PICK q \in Requests:
          \/ \E a \in Arrivals, d \in Decided: Takes(q, a, d) /\ d.selected = Plan(a)[1]
          \/ stage' = [stage EXCEPT ![q] = "refused"]
          \/ Ends(q)
    BY <1>1, <2>1, RouterSteps
  <2>3. stage \in [Requests -> {"new", "routed", "served", "failed", "refused"}]
    BY <1>1 DEF RouterInv, RouterTypeOK
  <2>4. PICK a \in Arrivals, d \in Decided: Takes(q, a, d) /\ d.selected = Plan(a)[1]
    BY <1>1, <2>2, <2>3 DEF Ends
  <2>5. q = r
    BY <1>1, <2>3, <2>4 DEF Takes
  <2>6. a.key \in Keys /\ asked'[r] = a /\ decision'[r] = d
    <3>1. Takes(r, a, d) /\ RouterInv
      BY <1>1, <2>4, <2>5
    <3>. QED BY <3>1, TakesRoutes
  <2>7. route[a.key].candidate = c.id
    BY <1>1, <2>6 DEF RouterInv, Table
  <2>8. c \in ToSet(Fitting(a))
    <3>1. Shortlist \in Seq(CandidateType) /\ Reasons(c, a.body) = {}
      BY <1>1, <2>6, RouterAssumption DEF RouterParameters
    <3>. QED BY <3>1, EligibleHolds DEF Fitting
  <2>9. Fitting(a) # <<>>
    BY <2>8 DEF ToSet
  <2>10. Pin(a, Fitting(a)) = "tool_loop"
    BY <1>1, <2>6, <2>7, <2>8, PinKinds
  <2>11. Plan(a)[1] = route[a.key].candidate
    BY <2>9, <2>10, PlanHolds
  <2>. QED BY <1>1, <2>4, <2>6, <2>7, <2>11
<1>2. RouterInv /\ [RouterNext]_routerVars
      => [\A r \in Requests:
            stage[r] = "new" /\ stage'[r] = "routed" /\ asked'[r].role = "tool"
              /\ Contains(lru, asked'[r].key) =>
            LET served == decision[route[asked'[r].key].owner].selected
            IN  \A c \in ToSet(Shortlist):
                  c.id = served /\ Reasons(c, asked'[r].body) = {}
                    => decision'[r].selected = served]_routerVars
  BY <1>1
<1>. QED BY <1>2, RouterInvHolds, PTL DEF RouterSpec, ToolResultFollows

=============================================================================
