------------------------------ MODULE Selector ------------------------------
(***************************************************************************)
(* Which candidates may serve a request, how hard the request is, and in   *)
(* which order the candidates are tried: the pure part of                  *)
(* routing/selector.py.  A candidate is [id, tier, supports, window]; a    *)
(* request body is what the selector reads of it: the capabilities it      *)
(* `needs`, its estimated `tokens`, the `length` of its latest user        *)
(* message, whether that is `fenced`, and how many `messages` it has.      *)
(***************************************************************************)
EXTENDS Integers, SequencesExt

Tiers == <<"fast", "balanced", "strong">>

Capabilities == {"tools", "vision"}

Modes == {"auto", "auto:quality", "auto:economy", "auto:session"}

\* What the loader lets through as a candidate.
CandidateType == [id: STRING, tier: ToSet(Tiers), supports: SUBSET Capabilities, window: Nat]

Tier(n) == Tiers[n]

TierIndex(t) == CHOOSE n \in 1..3: Tier(n) = t

Points(condition, n) == IF condition THEN n ELSE 0

\* Mutant: the last bound of the middle band is taken for the upper band's.
ScoreSkipsBand(body) ==
    Points("tools" \in body.needs, 1)
      + Points(body.length >= 1500 \/ body.fenced = "yes", 1)
      + Points(body.tokens >= 8000, 0) + Points(body.tokens \in 2000..7999, 1)
      + Points("vision" \in body.needs, 2)
      + Points(body.messages >= 20, 1)

ComplexityScore(body) ==
    Points("tools" \in body.needs, 1)
      + Points(body.length >= 1500 \/ body.fenced = "yes", 1)
      + Points(body.tokens >= 2000, 1) + Points(body.tokens >= 8000, 1)
      + Points("vision" \in body.needs, 2)
      + Points(body.messages >= 20, 1)

DetectedTier(score) ==
    IF score <= 1 THEN "fast" ELSE IF score <= 3 THEN "balanced" ELSE "strong"

CompatibilityTier(mode, classified) ==
    CASE mode = "auto:quality" -> "strong"
      [] mode = "auto:economy" -> "fast"
      [] OTHER -> classified

RequestedTier(mode, body) == CompatibilityTier(mode, DetectedTier(ComplexityScore(body)))

\* Mutant: the reserved tenth is rounded the other way.
ReasonsRoundedUp(c, body) ==
    (body.needs \ c.supports)
      \cup (IF body.tokens > c.window - (c.window \div 10) THEN {"context"} ELSE {})

\* Why c cannot serve the request.  A tenth of its window stays reserved.
Reasons(c, body) ==
    (body.needs \ c.supports)
      \cup (IF body.tokens > (9 * c.window) \div 10 THEN {"context"} ELSE {})

\* The elements of s at the positions I, in their order: what a comprehension over
\* s with a condition lists.
Picked(s, I) ==
    LET rank(n) == Cardinality({m \in I: m <= n})
    IN  [k \in 1..Cardinality(I) |-> s[CHOOSE n \in I: rank(n) = k]]

EligibleCandidates(shortlist, body) ==
    Picked(shortlist, {n \in DOMAIN shortlist: Reasons(shortlist[n], body) = {}})

\* The requested tier, then the stronger ones upwards, then the weaker downwards.
TierFallbackOrder(requested) ==
    LET n == TierIndex(requested)
    IN  <<requested>> \o SubSeq(Tiers, n + 1, 3) \o Reverse(SubSeq(Tiers, 1, n - 1))

OrderedCandidates(eligible, requested) ==
    LET order == TierFallbackOrder(requested)
        At(n) == Picked(eligible, {m \in DOMAIN eligible: eligible[m].tier = order[n]})
    IN  At(1) \o At(2) \o At(3)

\* The positions of the candidate called id.
Named(s, id) == {n \in DOMAIN s: s[n].id = id}

\* Mutant: what was pinned keeps its old place as well.
PinTwice(ordered, id) == Picked(ordered, Named(ordered, id)) \o ordered

\* The pinned candidate first, the others behind it in their order.
PinFirst(ordered, id) ==
    LET pinned == Named(ordered, id)
    IN  Picked(ordered, pinned) \o Picked(ordered, DOMAIN ordered \ pinned)

-----------------------------------------------------------------------------
(* The contract (design.md), stated without an algorithm                    *)

\* c may serve the request: a tenth of the window is left for the answer.
Fits(c, body) ==
    /\ body.needs \subseteq c.supports
    /\ 10 * body.tokens <= 9 * c.window

\* How much tier t is preferred when tier r is asked for: least is best.
Preference(t, r) ==
    LET d == TierIndex(t) - TierIndex(r)
    IN  IF d >= 0 THEN d ELSE 3 - d

\* s lists exactly the candidates that fit, most preferred first, those of one
\* tier in the configured order.
IsContract(s, shortlist, body, requested) ==
    LET at(c) == CHOOSE n \in DOMAIN shortlist: shortlist[n] = c
    IN  /\ ToSet(s) = {c \in ToSet(shortlist): Fits(c, body)}
        /\ \A m, n \in DOMAIN s: m < n =>
             \/ Preference(s[m].tier, requested) < Preference(s[n].tier, requested)
             \/ /\ s[m].tier = s[n].tier
                /\ at(s[m]) < at(s[n])

\* b asks for at least as much as a, in every respect the selector looks at.
Grows(a, b) ==
    /\ a.needs \subseteq b.needs
    /\ a.tokens <= b.tokens /\ a.length <= b.length /\ a.messages <= b.messages
    /\ a.fenced = "yes" => b.fenced = "yes"

=============================================================================
