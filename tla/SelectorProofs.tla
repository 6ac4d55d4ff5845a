--------------------------- MODULE SelectorProofs ---------------------------
(***************************************************************************)
(* What the lists of the selector hold: filtering keeps exactly what meets *)
(* the condition, in its order; grouping by tier and pinning reorder, and  *)
(* neither drop nor add.                                                   *)
(***************************************************************************)
EXTENDS Selector, FiniteSetTheorems, SequenceTheorems, TLAPS

-----------------------------------------------------------------------------
(* Picking positions                                                        *)

\* Some position is the first.
LEMMA LeastPosition ==
    ASSUME NEW S \in SUBSET Nat, S # {}
    PROVE  \E m \in S: \A n \in S: m <= n
<1>1. PICK m \in S: \A n \in S: <<n, m>> \notin OpToRel(<, Nat)
  BY NatLessThanWellFounded, WFMin
<1>2. \A n \in S: ~(n < m)
  BY <1>1 DEF OpToRel
<1>. QED BY <1>2

Rank(I, n) == Cardinality({m \in I: m <= n})

\* Among finitely many positions, every rank is that of exactly one of them, and
\* ranks grow with positions.
LEMMA Ranks ==
    ASSUME NEW len \in Nat, NEW I \in SUBSET (1..len)
    PROVE  /\ IsFiniteSet(I) /\ Cardinality(I) \in 0..len
           /\ \A n \in I: Rank(I, n) \in 1..Cardinality(I)
           /\ \A m, n \in I: m < n => Rank(I, m) < Rank(I, n)
           /\ \A k \in 1..Cardinality(I): \E n \in I: Rank(I, n) = k
<1> DEFINE below(n) == {m \in I: m <= n}
<1>1. IsFiniteSet(I) /\ Cardinality(I) \in 0..len
  <2>1. IsFiniteSet(1..len) /\ Cardinality(1..len) = len
    BY FS_Interval
  <2>2. IsFiniteSet(I) /\ Cardinality(I) <= len
    BY <2>1, FS_Subset
  <2>3. Cardinality(I) \in Nat
    BY <2>2, FS_CardinalityType
  <2>. QED BY <2>2, <2>3
<1>2. \A n \in I: IsFiniteSet(below(n)) /\ Cardinality(below(n)) \in 1..Cardinality(I)
  <2> TAKE n \in I
  <2>1. IsFiniteSet(below(n)) /\ Cardinality(below(n)) <= Cardinality(I)
    BY <1>1, FS_Subset
  <2>2. n \in below(n)
    OBVIOUS
  <2>3. Cardinality(below(n)) # 0
    BY <2>1, <2>2, FS_EmptySet
  <2>4. Cardinality(below(n)) \in Nat
    BY <2>1, FS_CardinalityType
  <2>. QED BY <1>1, <2>1, <2>3, <2>4
<1>3. ASSUME NEW m \in I, NEW n \in I, m < n
      PROVE  Cardinality(below(m)) < Cardinality(below(n))
  <2>1. below(m) \in SUBSET below(n)
    <3>1. m \in Int /\ n \in Int /\ \A x \in I: x \in Int
      OBVIOUS
    <3>2. ASSUME NEW x \in I, x <= m PROVE x <= n
      BY <1>3, <3>1, <3>2
    <3>. QED BY <3>2
  <2>2. n \in below(n) /\ n \notin below(m)
    BY <1>3
  <2>3. /\ Cardinality(below(m)) <= Cardinality(below(n))
        /\ Cardinality(below(n)) = Cardinality(below(m)) => below(n) = below(m)
    <3> HIDE DEF below
    <3>. QED BY <1>2, <2>1, FS_Subset
  <2>4. Cardinality(below(n)) # Cardinality(below(m))
    BY <2>2, <2>3
  <2>5. Cardinality(below(m)) \in Int /\ Cardinality(below(n)) \in Int
    BY <1>2
  <2> HIDE DEF below
  <2>. QED BY <2>3, <2>4, <2>5
<1>4. ASSUME NEW k \in 1..Cardinality(I)
      PROVE  \E n \in I: Cardinality(below(n)) = k
  <2> DEFINE f == [n \in I |-> Cardinality(below(n))]
             T == 1..Cardinality(I)
  <2>1. f \in Injection(I, T)
    <3>1. f \in [I -> T]
      BY <1>2
    <3>2. ASSUME NEW a \in I, NEW b \in I, f[a] = f[b] PROVE a = b
      <4>1. a \in Int /\ b \in Int /\ f[a] \in Int
        BY <3>1
      <4>2. a < b => f[a] < f[b]
        BY <1>3
      <4>3. b < a => f[b] < f[a]
        BY <1>3
      <4> HIDE DEF f
      <4>. QED BY <3>2, <4>1, <4>2, <4>3
    <3> HIDE DEF f
    <3>. QED BY <3>1, <3>2 DEF Injection, IsInjective
  <2>2. IsFiniteSet(T) /\ Cardinality(T) = Cardinality(I)
    BY <1>1, FS_Interval
  <2>3. f \in Surjection(I, T)
    BY <2>1, <2>2, FS_Injection
  <2>. QED BY <2>3 DEF Surjection
<1>. QED BY <1>1, <1>2, <1>3, <1>4 DEF Rank

\* Picked(s, I) walks up the positions I of s and leaves none of them out.
LEMMA PickedWalks ==
    ASSUME NEW T, NEW s \in Seq(T), NEW I \in SUBSET DOMAIN s
    PROVE  /\ IsFiniteSet(I)
           /\ Picked(s, I) \in Seq(T)
           /\ Len(Picked(s, I)) = Cardinality(I) /\ Cardinality(I) <= Len(s)
           /\ \E walk \in [1..Cardinality(I) -> I]:
                /\ \A k \in 1..Cardinality(I): Picked(s, I)[k] = s[walk[k]]
                /\ \A j, k \in 1..Cardinality(I): j < k => walk[j] < walk[k]
                /\ \A n \in I: \E k \in 1..Cardinality(I): walk[k] = n
<1> DEFINE C == Cardinality(I)
           walk == [k \in 1..C |-> CHOOSE n \in I: Rank(I, n) = k]
<1>0. Len(s) \in Nat /\ I \in SUBSET (1..Len(s))
  OBVIOUS
<1>1. IsFiniteSet(I) /\ C \in 0..Len(s)
  BY <1>0, Ranks
<1>2. ASSUME NEW k \in 1..C PROVE walk[k] \in I /\ Rank(I, walk[k]) = k
  <2>1. \E n \in I: Rank(I, n) = k
    BY <1>0, Ranks
  <2>. QED BY <2>1
<1>3. Picked(s, I) = [k \in 1..C |-> s[walk[k]]]
  BY DEF Picked, Rank
<1>4. Picked(s, I) \in Seq(T) /\ Len(Picked(s, I)) = C
  <2> HIDE DEF walk, C
  <2>. QED BY <1>0, <1>1, <1>2, <1>3
<1>5. ASSUME NEW j \in 1..C, NEW k \in 1..C, j < k PROVE walk[j] < walk[k]
  <2>1. walk[j] \in I /\ walk[k] \in I /\ Rank(I, walk[j]) = j /\ Rank(I, walk[k]) = k
    BY <1>2
  <2>2. \A m, n \in I: m < n => Rank(I, m) < Rank(I, n)
    BY <1>0, Ranks
  <2> HIDE DEF walk, C
  <2>. QED BY <1>0, <1>1, <1>5, <2>1, <2>2
<1>6. ASSUME NEW n \in I PROVE Rank(I, n) \in 1..C /\ walk[Rank(I, n)] = n
  <2>1. Rank(I, n) \in 1..C
    BY <1>0, Ranks
  <2>2. ASSUME NEW m \in I, Rank(I, m) = Rank(I, n) PROVE m = n
    <3>1. ~(m < n) /\ ~(n < m)
      BY <1>0, <1>1, <2>1, <2>2, Ranks
    <3>. QED BY <1>0, <3>1
  <2>3. walk[Rank(I, n)] \in I /\ Rank(I, walk[Rank(I, n)]) = Rank(I, n)
    BY <1>2, <2>1
  <2>. QED BY <2>1, <2>2, <2>3
<1> HIDE DEF walk
<1>7. walk \in [1..C -> I]
  <2>1. walk = [k \in 1..C |-> walk[k]]
    BY DEF walk
  <2>. QED BY <1>2, <2>1
<1>8. \A k \in 1..C: Picked(s, I)[k] = s[walk[k]]
  BY <1>3
<1>. QED BY <1>1, <1>4, <1>5, <1>6, <1>7, <1>8

LEMMA PickedHolds ==
    ASSUME NEW T, NEW s \in Seq(T), NEW I \in SUBSET DOMAIN s
    PROVE  /\ Picked(s, I) \in Seq(T)
           /\ Len(Picked(s, I)) <= Len(s)
           /\ ToSet(Picked(s, I)) = {s[n]: n \in I}
           /\ Picked(s, I) = <<>> <=> I = {}
<1> DEFINE t == Picked(s, I)
           C == Cardinality(I)
<1>1. t \in Seq(T) /\ Len(t) = C /\ C <= Len(s)
  BY PickedWalks
<1>2. PICK walk \in [1..C -> I]:
         /\ \A k \in 1..C: t[k] = s[walk[k]]
         /\ \A n \in I: \E k \in 1..C: walk[k] = n
  BY PickedWalks
<1> HIDE DEF t, C
<1>3. DOMAIN t = 1..C
  BY <1>1
<1>4. ToSet(t) = {s[n]: n \in I}
  BY <1>2, <1>3 DEF ToSet
<1>5. t = <<>> <=> I = {}
  <2>1. I = {} => C = 0
    BY FS_EmptySet DEF C
  <2>2. I # {} => \E k \in 1..C: TRUE
    BY <1>2
  <2>. QED BY <1>1, <2>1, <2>2
<1>. QED BY <1>1, <1>4, <1>5 DEF t

LEMMA ConcatHolds ==
    ASSUME NEW T, NEW s \in Seq(T), NEW t \in Seq(T)
    PROVE  s \o t \in Seq(T) /\ ToSet(s \o t) = ToSet(s) \cup ToSet(t)
<1>1. s \o t \in Seq(T) /\ Len(s \o t) = Len(s) + Len(t)
  OBVIOUS
<1>2. ASSUME NEW n \in DOMAIN (s \o t) PROVE (s \o t)[n] \in ToSet(s) \cup ToSet(t)
  BY DEF ToSet
<1>3. ASSUME NEW n \in DOMAIN s PROVE n \in DOMAIN (s \o t) /\ (s \o t)[n] = s[n]
  OBVIOUS
<1>4. ASSUME NEW n \in DOMAIN t
      PROVE  n + Len(s) \in DOMAIN (s \o t) /\ (s \o t)[n + Len(s)] = t[n]
  OBVIOUS
<1>5. ASSUME NEW x \in ToSet(s) \cup ToSet(t) PROVE x \in ToSet(s \o t)
  <2>1. CASE x \in ToSet(s)
    BY <1>3, <2>1 DEF ToSet
  <2>2. CASE x \in ToSet(t)
    BY <1>4, <2>2 DEF ToSet
  <2>. QED BY <1>5, <2>1, <2>2
<1>6. ASSUME NEW x \in ToSet(s \o t) PROVE x \in ToSet(s) \cup ToSet(t)
  BY <1>2, <1>6 DEF ToSet
<1>. QED BY <1>1, <1>5, <1>6

-----------------------------------------------------------------------------
(* Eligible, ordered and pinned candidates                                  *)

TierNames == {"fast", "balanced", "strong"}

LEMMA NamesOfTiers == ToSet(Tiers) = TierNames
<1>1. DOMAIN Tiers = {1, 2, 3} /\ Tiers[1] = "fast" /\ Tiers[2] = "balanced" /\ Tiers[3] = "strong"
  <2>1. DOMAIN Tiers = 1..3
    BY DEF Tiers
  <2>. QED BY <2>1 DEF Tiers
<1>. QED BY <1>1 DEF ToSet, TierNames

LEMMA EligibleHolds ==
    ASSUME NEW T, NEW s \in Seq(T), NEW body
    PROVE  /\ EligibleCandidates(s, body) \in Seq(T)
           /\ Len(EligibleCandidates(s, body)) <= Len(s)
           /\ ToSet(EligibleCandidates(s, body)) = {c \in ToSet(s): Reasons(c, body) = {}}
<1> DEFINE I == {n \in DOMAIN s: Reasons(s[n], body) = {}}
<1>1. EligibleCandidates(s, body) = Picked(s, I)
  BY DEF EligibleCandidates
<1>2. {s[n]: n \in I} = {c \in ToSet(s): Reasons(c, body) = {}}
  BY DEF ToSet
<1>3. I \in SUBSET DOMAIN s
  OBVIOUS
<1> HIDE DEF I
<1>. QED BY <1>1, <1>2, <1>3, PickedHolds

\* Some tier is asked for whatever the request looks like.
LEMMA SomeTier == \A mode, body: RequestedTier(mode, body) \in TierNames
<1>1. \A score: DetectedTier(score) \in TierNames
  BY DEF DetectedTier, TierNames
<1>2. ASSUME NEW mode, NEW tier \in TierNames PROVE CompatibilityTier(mode, tier) \in TierNames
  <2>1. CASE mode = "auto:quality"
    BY <2>1 DEF CompatibilityTier, TierNames
  <2>2. CASE mode = "auto:economy"
    BY <2>2 DEF CompatibilityTier, TierNames
  <2>3. CASE mode # "auto:quality" /\ mode # "auto:economy"
    BY <1>2, <2>3 DEF CompatibilityTier, TierNames
  <2>. QED BY <2>1, <2>2, <2>3
<1>. QED BY <1>1, <1>2 DEF RequestedTier

\* A tenth of the window stays free, in whole tokens.
LEMMA FitsReasons ==
    ASSUME NEW c \in CandidateType, NEW body, body.tokens \in Nat
    PROVE  Reasons(c, body) = {} <=> Fits(c, body)
<1>1. c.window \in Nat
  BY DEF CandidateType
<1>2. body.tokens > (9 * c.window) \div 10 <=> ~(10 * body.tokens <= 9 * c.window)
  BY <1>1
<1>3. (body.needs \ c.supports) = {} <=> body.needs \subseteq c.supports
  OBVIOUS
<1>. QED BY <1>2, <1>3 DEF Reasons, Fits

\* Every tier has its index.
LEMMA TierIndices ==
    ASSUME NEW t \in TierNames
    PROVE  TierIndex(t) \in 1..3 /\ Tiers[TierIndex(t)] = t
<1>1. Tiers[1] = "fast" /\ Tiers[2] = "balanced" /\ Tiers[3] = "strong"
  BY DEF Tiers
<1>2. \E n \in 1..3: Tier(n) = t
  <2>1. 1 \in 1..3 /\ 2 \in 1..3 /\ 3 \in 1..3
    OBVIOUS
  <2>. QED BY <1>1, <2>1 DEF TierNames, Tier
<1>. QED BY <1>2 DEF TierIndex, Tier

LEMMA TierOfIndex ==
    ASSUME NEW n \in 1..3
    PROVE  Tiers[n] \in TierNames /\ TierIndex(Tiers[n]) = n
<1>1. Tiers[1] = "fast" /\ Tiers[2] = "balanced" /\ Tiers[3] = "strong"
  BY DEF Tiers
<1>2. n = 1 \/ n = 2 \/ n = 3
  OBVIOUS
<1>3. Tiers[n] \in TierNames
  BY <1>1, <1>2 DEF TierNames
<1>4. \A m \in 1..3: Tiers[m] = Tiers[n] => m = n
  BY <1>1, <1>2
<1>. QED BY <1>3, <1>4, TierIndices

\* The k-th tier that is tried: upwards from the requested one, then downwards.
LEMMA FallbackOrder ==
    ASSUME NEW r \in TierNames, NEW k \in 1..3
    PROVE  LET n == TierIndex(r)
           IN  TierFallbackOrder(r)[k] = IF k <= 4 - n THEN Tiers[n + k - 1] ELSE Tiers[4 - k]
<1> DEFINE n == TierIndex(r)
           up == SubSeq(Tiers, n + 1, 3)
           weaker == SubSeq(Tiers, 1, n - 1)
           down == Reverse(weaker)
<1>1. n \in 1..3 /\ Tiers[n] = r
  BY TierIndices
<1>2. \A m \in 1..3: Tiers[m] \in TierNames
  BY TierOfIndex
<1> HIDE DEF n
<1>3. /\ up \in Seq(TierNames) /\ Len(up) = 3 - n
      /\ \A i \in 1..3 - n: up[i] = Tiers[n + i]
  <2>1. /\ up \in Seq(TierNames) /\ Len(up) = IF n + 1 <= 3 THEN 3 - (n + 1) + 1 ELSE 0
        /\ \A i \in 1..3 - (n + 1) + 1: up[i] = Tiers[n + 1 + i - 1]
    BY <1>1, <1>2, SubSeqProperties
  <2> HIDE DEF up
  <2>. QED BY <1>1, <2>1
<1>4. /\ weaker \in Seq(TierNames) /\ Len(weaker) = n - 1
      /\ \A i \in 1..n - 1: weaker[i] = Tiers[i]
  <2>1. /\ weaker \in Seq(TierNames) /\ Len(weaker) = IF 1 <= n - 1 THEN n - 1 - 1 + 1 ELSE 0
        /\ \A i \in 1..n - 1 - 1 + 1: weaker[i] = Tiers[1 + i - 1]
    BY <1>1, <1>2, SubSeqProperties
  <2> HIDE DEF weaker
  <2>. QED BY <1>1, <2>1
<1> HIDE DEF up, weaker
<1>5. /\ down \in Seq(TierNames) /\ Len(down) = n - 1
      /\ \A i \in 1..n - 1: down[i] = Tiers[n - i]
  BY <1>1, <1>4, <1>2 DEF Reverse
<1> HIDE DEF down
<1> DEFINE first == <<r>> \o up
<1>6. /\ first \in Seq(TierNames) /\ Len(first) = 4 - n
      /\ first[1] = r /\ \A i \in 2..4 - n: first[i] = up[i - 1]
  BY <1>1, <1>3
<1> HIDE DEF first
<1>7. TierFallbackOrder(r) = first \o down
  BY DEF TierFallbackOrder, n, up, down, weaker, first
<1>8. (first \o down)[k] = IF k <= 4 - n THEN first[k] ELSE down[k - (4 - n)]
  BY <1>1, <1>5, <1>6
<1>9. CASE k <= 4 - n
  <2>1. first[k] = Tiers[n + k - 1]
    BY <1>1, <1>3, <1>6, <1>9
  <2>. QED BY <1>7, <1>8, <1>9, <2>1 DEF n
<1>10. CASE k > 4 - n
  <2>1. down[k - (4 - n)] = Tiers[4 - k]
    <3>1. k - (4 - n) \in 1..n - 1 /\ n - (k - (4 - n)) = 4 - k
      BY <1>1, <1>10
    <3>. QED BY <1>5, <3>1
  <2>. QED BY <1>1, <1>7, <1>8, <1>10, <2>1 DEF n
<1>. QED BY <1>1, <1>9, <1>10

\* What is tried k-th among the tiers, and nothing but that, makes up the k-th part.
OfTier(e, t) == Picked(e, {m \in DOMAIN e: e[m].tier = t})

LEMMA OrderedParts ==
    ASSUME NEW e, NEW r
    PROVE  OrderedCandidates(e, r) =
             LET order == TierFallbackOrder(r)
             IN  OfTier(e, order[1]) \o OfTier(e, order[2]) \o OfTier(e, order[3])
BY DEF OrderedCandidates, OfTier

LEMMA OfTierHolds ==
    ASSUME NEW T, NEW e \in Seq(T), NEW t
    PROVE  /\ OfTier(e, t) \in Seq(T)
           /\ ToSet(OfTier(e, t)) = {c \in ToSet(e): c.tier = t}
<1> DEFINE I == {m \in DOMAIN e: e[m].tier = t}
<1>1. I \in SUBSET DOMAIN e
  OBVIOUS
<1>2. {e[m]: m \in I} = {c \in ToSet(e): c.tier = t}
  BY DEF ToSet
<1>3. OfTier(e, t) = Picked(e, I)
  BY DEF OfTier
<1> HIDE DEF I
<1>. QED BY <1>1, <1>2, <1>3, PickedHolds

LEMMA EveryTierIsTried ==
    ASSUME NEW r \in TierNames, NEW t \in TierNames
    PROVE  \E k \in 1..3: TierFallbackOrder(r)[k] = t
<1> DEFINE n == TierIndex(r)
           i == TierIndex(t)
<1>1. n \in 1..3 /\ i \in 1..3 /\ Tiers[i] = t
  BY TierIndices
<1>2. \A k \in 1..3: TierFallbackOrder(r)[k] = IF k <= 4 - n THEN Tiers[n + k - 1] ELSE Tiers[4 - k]
  BY FallbackOrder
<1> HIDE DEF n, i
<1>3. CASE i >= n
  <2>1. i - n + 1 \in 1..3 /\ i - n + 1 <= 4 - n /\ n + (i - n + 1) - 1 = i
    BY <1>1, <1>3
  <2>. QED BY <1>1, <1>2, <2>1
<1>4. CASE i < n
  <2>1. 4 - i \in 1..3 /\ ~(4 - i <= 4 - n) /\ 4 - (4 - i) = i
    BY <1>1, <1>4
  <2>. QED BY <1>1, <1>2, <2>1
<1>. QED BY <1>1, <1>3, <1>4

\* Ordering drops no candidate, whatever tier was asked for.
LEMMA OrderedHolds ==
    ASSUME NEW T, NEW e \in Seq(T), NEW r \in TierNames, \A c \in ToSet(e): c.tier \in TierNames
    PROVE  /\ OrderedCandidates(e, r) \in Seq(T)
           /\ ToSet(OrderedCandidates(e, r)) = ToSet(e)
<1> DEFINE order == TierFallbackOrder(r)
           part(k) == OfTier(e, order[k])
<1>1. \A k \in 1..3: part(k) \in Seq(T) /\ ToSet(part(k)) = {c \in ToSet(e): c.tier = order[k]}
  BY OfTierHolds
<1>2. \A c \in ToSet(e): \E k \in 1..3: c.tier = order[k]
  BY EveryTierIsTried
<1>3. OrderedCandidates(e, r) = part(1) \o part(2) \o part(3)
  BY OrderedParts
<1>4. 1 \in 1..3 /\ 2 \in 1..3 /\ 3 \in 1..3 /\ \A k \in 1..3: k = 1 \/ k = 2 \/ k = 3
  OBVIOUS
<1> HIDE DEF part, order
<1>5. part(1) \o part(2) \in Seq(T) /\ ToSet(part(1) \o part(2)) = ToSet(part(1)) \cup ToSet(part(2))
  BY <1>1, <1>4, ConcatHolds
<1>6. /\ OrderedCandidates(e, r) \in Seq(T)
      /\ ToSet(OrderedCandidates(e, r)) = ToSet(part(1)) \cup ToSet(part(2)) \cup ToSet(part(3))
  <2>1. part(3) \in Seq(T)
    BY <1>1, <1>4
  <2> DEFINE front == part(1) \o part(2)
             last == part(3)
  <2>2. front \in Seq(T) /\ last \in Seq(T)
    BY <1>5, <2>1
  <2> HIDE DEF front, last
  <2>3. front \o last \in Seq(T) /\ ToSet(front \o last) = ToSet(front) \cup ToSet(last)
    BY <2>2, ConcatHolds
  <2>. QED BY <1>3, <1>5, <2>3 DEF front, last
<1>7. ToSet(part(1)) \cup ToSet(part(2)) \cup ToSet(part(3)) = ToSet(e)
  <2>1. ASSUME NEW c \in ToSet(e)
        PROVE  c \in ToSet(part(1)) \cup ToSet(part(2)) \cup ToSet(part(3))
    <3>1. PICK k \in 1..3: c.tier = order[k]
      BY <1>2
    <3>2. c \in ToSet(part(k))
      BY <1>1, <3>1
    <3>. QED BY <1>4, <3>2
  <2>2. \A k \in 1..3: ToSet(part(k)) \subseteq ToSet(e)
    BY <1>1
  <2>. QED BY <1>4, <2>1, <2>2
<1>. QED BY <1>6, <1>7

LEMMA TriedOnce ==
    ASSUME NEW r \in TierNames, NEW j \in 1..3, NEW k \in 1..3, j # k
    PROVE  TierFallbackOrder(r)[j] # TierFallbackOrder(r)[k]
<1> DEFINE n == TierIndex(r)
           i(x) == IF x <= 4 - n THEN n + x - 1 ELSE 4 - x
<1>1. n \in 1..3
  BY TierIndices
<1>2. \A x \in 1..3: TierFallbackOrder(r)[x] = Tiers[i(x)]
  BY FallbackOrder
<1> HIDE DEF n
<1>3. i(j) \in 1..3 /\ i(k) \in 1..3 /\ i(j) # i(k)
  BY <1>1
<1> HIDE DEF i
<1>. QED BY <1>2, <1>3, TierOfIndex

\* Nor does it list a candidate twice.
LEMMA OrderedLength ==
    ASSUME NEW T, NEW e \in Seq(T), NEW r \in TierNames
    PROVE  Len(OrderedCandidates(e, r)) <= Len(e)
<1> DEFINE order == TierFallbackOrder(r)
           I(k) == {m \in DOMAIN e: e[m].tier = order[k]}
           part(k) == OfTier(e, order[k])
           D == DOMAIN e
<1>1. ASSUME NEW k \in 1..3
      PROVE  part(k) \in Seq(T) /\ Len(part(k)) = Cardinality(I(k))
             /\ IsFiniteSet(I(k)) /\ I(k) \in SUBSET D
  <2>1. part(k) = Picked(e, I(k)) /\ I(k) \in SUBSET DOMAIN e
    BY DEF OfTier
  <2> HIDE DEF I, part
  <2>. QED BY <2>1, PickedWalks
<1>2. ASSUME NEW j \in 1..3, NEW k \in 1..3, j # k PROVE I(j) \cap I(k) = {}
  <2>1. order[j] # order[k]
    BY <1>2, TriedOnce
  <2>. QED BY <2>1
<1>3. IsFiniteSet(D) /\ Cardinality(D) = Len(e)
  <2>1. DOMAIN e = 1..Len(e) /\ Len(e) \in Nat
    OBVIOUS
  <2>. QED BY <2>1, FS_Interval
<1>4. OrderedCandidates(e, r) = part(1) \o part(2) \o part(3)
  BY OrderedParts
<1>5. 1 \in 1..3 /\ 2 \in 1..3 /\ 3 \in 1..3
  OBVIOUS
<1> HIDE DEF order, I, part, D
<1> DEFINE A == I(1)
           B == I(2)
           C == I(3)
<1>6. /\ IsFiniteSet(A) /\ IsFiniteSet(B) /\ IsFiniteSet(C)
      /\ A \cap B = {} /\ (A \cup B) \cap C = {} /\ A \cup B \cup C \in SUBSET D
  BY <1>1, <1>2, <1>5
<1>7. /\ part(1) \in Seq(T) /\ part(2) \in Seq(T) /\ part(3) \in Seq(T)
      /\ Len(part(1)) = Cardinality(A) /\ Len(part(2)) = Cardinality(B)
      /\ Len(part(3)) = Cardinality(C)
  BY <1>1, <1>5
<1>8. Len(part(1) \o part(2) \o part(3)) = Cardinality(A) + Cardinality(B) + Cardinality(C)
  <2> DEFINE p == part(1)
             q == part(2)
             w == part(3)
  <2>1. /\ p \in Seq(T) /\ q \in Seq(T) /\ w \in Seq(T)
        /\ Len(p) = Cardinality(A) /\ Len(q) = Cardinality(B) /\ Len(w) = Cardinality(C)
    BY <1>7
  <2> HIDE DEF p, q, w
  <2>2. p \o q \in Seq(T) /\ Len(p \o q) = Len(p) + Len(q)
    BY <2>1, ConcatProperties
  <2>3. Len((p \o q) \o w) = Len(p \o q) + Len(w)
    BY <2>1, <2>2, ConcatProperties
  <2>. QED BY <2>1, <2>2, <2>3 DEF p, q, w
<1> HIDE DEF A, B, C
<1>9. /\ IsFiniteSet(A \cup B)
      /\ Cardinality(A \cup B) = Cardinality(A) + Cardinality(B) - Cardinality(A \cap B)
  BY <1>6, FS_Union
<1>10. Cardinality(A \cup B \cup C)
         = Cardinality(A \cup B) + Cardinality(C) - Cardinality((A \cup B) \cap C)
  BY <1>6, <1>9, FS_Union
<1>11. Cardinality({}) = 0
  BY FS_EmptySet
<1>12. Cardinality(A) \in Nat /\ Cardinality(B) \in Nat /\ Cardinality(C) \in Nat
  BY <1>6, FS_CardinalityType
<1>13. Cardinality(A \cup B \cup C) <= Cardinality(D)
  BY <1>3, <1>6, FS_Subset
<1>14. Cardinality(A \cup B \cup C) = Cardinality(A) + Cardinality(B) + Cardinality(C)
  <2>1. Cardinality(A \cap B) = 0 /\ Cardinality((A \cup B) \cap C) = 0
    BY <1>6, <1>11
  <2>. QED BY <1>9, <1>10, <1>12, <2>1
<1>. QED BY <1>3, <1>4, <1>8, <1>13, <1>14

\* Pinning reorders: what is pinned comes first, nothing is dropped or added.
LEMMA PinFirstHolds ==
    ASSUME NEW T, NEW o \in Seq(T), NEW id
    PROVE  /\ PinFirst(o, id) \in Seq(T)
           /\ Len(PinFirst(o, id)) = Len(o)
           /\ ToSet(PinFirst(o, id)) = ToSet(o)
           /\ (\E c \in ToSet(o): c.id = id) => PinFirst(o, id)[1].id = id
<1> DEFINE I == Named(o, id)
           J == DOMAIN o \ I
           p == Picked(o, I)
           q == Picked(o, J)
<1>1. I \in SUBSET DOMAIN o /\ J \in SUBSET DOMAIN o /\ I \cup J = DOMAIN o
  BY DEF Named
<1>2. p \in Seq(T) /\ ToSet(p) = {o[n]: n \in I} /\ (p = <<>> <=> I = {})
  BY <1>1, PickedHolds
<1>3. q \in Seq(T) /\ ToSet(q) = {o[n]: n \in J}
  BY <1>1, PickedHolds
<1>4. PinFirst(o, id) = p \o q
  BY DEF PinFirst
<1>5. Len(p) + Len(q) = Len(o)
  <2>1. Len(p) = Cardinality(I) /\ Len(q) = Cardinality(J)
    BY <1>1, PickedWalks
  <2>2. IsFiniteSet(DOMAIN o) /\ Cardinality(DOMAIN o) = Len(o)
    <3>1. DOMAIN o = 1..Len(o) /\ Len(o) \in Nat
      OBVIOUS
    <3>. QED BY <3>1, FS_Interval
  <2>3. Cardinality(J) = Cardinality(DOMAIN o) - Cardinality(DOMAIN o \cap I)
    BY <2>2, FS_Difference
  <2>4. DOMAIN o \cap I = I
    BY <1>1
  <2>5. IsFiniteSet(I)
    BY <1>1, <2>2, FS_Subset
  <2>6. Cardinality(I) \in Nat
    BY <2>5, FS_CardinalityType
  <2>7. Cardinality(J) = Len(o) - Cardinality(I)
    BY <2>2, <2>3, <2>4
  <2> HIDE DEF I, J, p, q
  <2>. QED BY <2>1, <2>6, <2>7
<1>6. {o[n]: n \in I} \cup {o[n]: n \in J} = ToSet(o)
  BY <1>1 DEF ToSet
<1>7. ASSUME NEW c \in ToSet(o), c.id = id PROVE p # <<>> /\ p[1].id = id
  <2>1. I # {}
    BY <1>7 DEF ToSet, Named
  <2>2. p # <<>> /\ 1 \in DOMAIN p
    BY <1>2, <2>1
  <2>3. p[1] \in {o[n]: n \in I}
    BY <1>2, <2>2 DEF ToSet
  <2>. QED BY <2>2, <2>3 DEF Named
<1> HIDE DEF I, J, p, q
<1>8. p \o q \in Seq(T) /\ ToSet(p \o q) = ToSet(o)
  <2>1. p \o q \in Seq(T) /\ ToSet(p \o q) = ToSet(p) \cup ToSet(q)
    BY <1>2, <1>3, ConcatHolds
  <2>. QED BY <1>2, <1>3, <1>6, <2>1
<1>9. Len(p \o q) = Len(o) /\ (p # <<>> => (p \o q)[1] = p[1])
  BY <1>2, <1>3, <1>5
<1>. QED BY <1>4, <1>7, <1>8, <1>9

-----------------------------------------------------------------------------
(* The contract                                                             *)

Place(s, c) == CHOOSE n \in DOMAIN s: s[n] = c

\* t lists elements of s in the order they have there.
Ascends(t, s) == \A a, b \in DOMAIN t: a < b => Place(s, t[a]) < Place(s, t[b])

\* t lists candidates in the order in which tier r prefers them.
Sorted(t, s, r) ==
    \A a, b \in DOMAIN t: a < b =>
      \/ Preference(t[a].tier, r) < Preference(t[b].tier, r)
      \/ t[a].tier = t[b].tier /\ Place(s, t[a]) < Place(s, t[b])

LEMMA PickedAscends ==
    ASSUME NEW T, NEW s, NEW e \in Seq(T), Ascends(e, s), NEW I \in SUBSET DOMAIN e
    PROVE  Ascends(Picked(e, I), s)
<1> DEFINE C == Cardinality(I)
           t == Picked(e, I)
<1>1. t \in Seq(T) /\ Len(t) = C
  BY PickedWalks
<1>2. PICK walk \in [1..C -> I]:
         /\ \A k \in 1..C: t[k] = e[walk[k]]
         /\ \A j, k \in 1..C: j < k => walk[j] < walk[k]
         /\ \A n \in I: \E k \in 1..C: walk[k] = n
  BY PickedWalks
<1> HIDE DEF C, t
<1>3. DOMAIN t = 1..C
  BY <1>1
<1>4. ASSUME NEW a \in DOMAIN t, NEW b \in DOMAIN t, a < b
      PROVE  Place(s, t[a]) < Place(s, t[b])
  <2>1. walk[a] \in DOMAIN e /\ walk[b] \in DOMAIN e /\ walk[a] < walk[b]
    BY <1>2, <1>3, <1>4
  <2>. QED BY <1>2, <1>3, <2>1 DEF Ascends
<1>. QED BY <1>4 DEF Ascends, t

LEMMA ItselfAscends ==
    ASSUME NEW T, NEW s \in Seq(T), IsInjective(s)
    PROVE  Ascends(s, s)
<1>1. \A n \in DOMAIN s: Place(s, s[n]) = n
  BY DEF Place, IsInjective
<1>. QED BY <1>1 DEF Ascends

\* Tiers are tried in the order of preference.
LEMMA PreferenceOfOrder ==
    ASSUME NEW r \in TierNames, NEW j \in 1..3, NEW k \in 1..3, j < k
    PROVE  Preference(TierFallbackOrder(r)[j], r) < Preference(TierFallbackOrder(r)[k], r)
<1> DEFINE n == TierIndex(r)
<1>1. n \in 1..3
  BY TierIndices
<1>2. ASSUME NEW i \in 1..3
      PROVE  Preference(TierFallbackOrder(r)[i], r) = IF i <= 4 - n THEN i - 1 ELSE i + n - 1
  <2>1. TierFallbackOrder(r)[i] = IF i <= 4 - n THEN Tiers[n + i - 1] ELSE Tiers[4 - i]
    BY FallbackOrder
  <2>2. CASE i <= 4 - n
    <3>1. n + i - 1 \in 1..3
      BY <1>1, <2>2
    <3>2. TierIndex(TierFallbackOrder(r)[i]) = n + i - 1
      BY <2>1, <2>2, <3>1, TierOfIndex
    <3> HIDE DEF n
    <3>. QED BY <1>1, <2>2, <3>1, <3>2 DEF Preference, n
  <2>3. CASE ~(i <= 4 - n)
    <3>1. 4 - i \in 1..3 /\ 4 - i < n
      BY <1>1, <2>3
    <3>2. TierIndex(TierFallbackOrder(r)[i]) = 4 - i
      BY <2>1, <2>3, <3>1, TierOfIndex
    <3>. QED BY <1>1, <2>3, <3>1, <3>2 DEF Preference
  <2>. QED BY <2>2, <2>3
<1> HIDE DEF n
<1>. QED BY <1>1, <1>2

LEMMA ConcatSorted ==
    ASSUME NEW T, NEW s, NEW r, NEW p \in Seq(T), NEW q \in Seq(T), Sorted(p, s, r), Sorted(q, s, r),
           \A x \in ToSet(p), y \in ToSet(q): Preference(x.tier, r) < Preference(y.tier, r)
    PROVE  Sorted(p \o q, s, r)
<1> DEFINE t == p \o q
<1>1. t \in Seq(T) /\ Len(t) = Len(p) + Len(q)
  OBVIOUS
<1>2. \A n \in DOMAIN t: \/ n \in DOMAIN p /\ t[n] = p[n]
                         \/ n - Len(p) \in DOMAIN q /\ t[n] = q[n - Len(p)] /\ n > Len(p)
  OBVIOUS
<1>3. ASSUME NEW a \in DOMAIN t, NEW b \in DOMAIN t, a < b
      PROVE  \/ Preference(t[a].tier, r) < Preference(t[b].tier, r)
             \/ t[a].tier = t[b].tier /\ Place(s, t[a]) < Place(s, t[b])
  <2> HIDE DEF t
  <2>1. a \in Int /\ b \in Int /\ Len(p) \in Int /\ DOMAIN p = 1..Len(p)
    BY <1>1
  <2>2. CASE b \in DOMAIN p /\ t[b] = p[b]
    <3>1. a \in DOMAIN p /\ t[a] = p[a]
      BY <1>2, <1>3, <2>1, <2>2
    <3>. QED BY <1>3, <2>2, <3>1 DEF Sorted
  <2>3. CASE b - Len(p) \in DOMAIN q /\ t[b] = q[b - Len(p)] /\ a \in DOMAIN p /\ t[a] = p[a]
    <3>1. t[a] \in ToSet(p) /\ t[b] \in ToSet(q)
      BY <2>3 DEF ToSet
    <3>. QED BY <3>1
  <2>4. CASE /\ b - Len(p) \in DOMAIN q /\ t[b] = q[b - Len(p)]
             /\ a - Len(p) \in DOMAIN q /\ t[a] = q[a - Len(p)]
    <3>1. a - Len(p) < b - Len(p)
      BY <1>3, <2>1
    <3>. QED BY <2>4, <3>1 DEF Sorted
  <2>. QED BY <1>2, <2>2, <2>3, <2>4
<1>. QED BY <1>3 DEF Sorted

LEMMA OrderedSorts ==
    ASSUME NEW T, NEW s, NEW e \in Seq(T), Ascends(e, s), NEW r \in TierNames
    PROVE  Sorted(OrderedCandidates(e, r), s, r)
<1> DEFINE order == TierFallbackOrder(r)
           part(k) == OfTier(e, order[k])
<1>1. \A k \in 1..3: part(k) \in Seq(T) /\ ToSet(part(k)) = {c \in ToSet(e): c.tier = order[k]}
  BY OfTierHolds
<1>2. ASSUME NEW k \in 1..3 PROVE Sorted(part(k), s, r)
  <2>1. Ascends(part(k), s)
    <3> DEFINE I == {m \in DOMAIN e: e[m].tier = order[k]}
    <3>1. I \in SUBSET DOMAIN e /\ part(k) = Picked(e, I)
      BY DEF OfTier
    <3> HIDE DEF I, part
    <3>. QED BY <3>1, PickedAscends
  <2>2. \A a \in DOMAIN part(k): part(k)[a].tier = order[k]
    <3> HIDE DEF part
    <3>1. \A a \in DOMAIN part(k): part(k)[a] \in ToSet(part(k))
      BY DEF ToSet
    <3>. QED BY <1>1, <3>1
  <2> HIDE DEF part
  <2>. QED BY <2>1, <2>2 DEF Ascends, Sorted
<1>3. OrderedCandidates(e, r) = (part(1) \o part(2)) \o part(3)
  BY OrderedParts
<1>4. \A j, k \in 1..3: j < k => Preference(order[j], r) < Preference(order[k], r)
  BY PreferenceOfOrder
<1>5. 1 \in 1..3 /\ 2 \in 1..3 /\ 3 \in 1..3 /\ 1 < 2 /\ 1 < 3 /\ 2 < 3
  OBVIOUS
<1> HIDE DEF part, order
<1> DEFINE front == part(1) \o part(2)
<1>6. /\ front \in Seq(T) /\ ToSet(front) = ToSet(part(1)) \cup ToSet(part(2))
  BY <1>1, <1>5, ConcatHolds
<1>7. Sorted(front, s, r)
  <2>1. \A x \in ToSet(part(1)), y \in ToSet(part(2)): Preference(x.tier, r) < Preference(y.tier, r)
    BY <1>1, <1>4, <1>5
  <2>. QED BY <1>1, <1>2, <1>5, <2>1, ConcatSorted
<1> HIDE DEF front
<1>8. \A x \in ToSet(front), y \in ToSet(part(3)): Preference(x.tier, r) < Preference(y.tier, r)
  BY <1>1, <1>4, <1>5, <1>6
<1>9. part(3) \in Seq(T) /\ Sorted(part(3), s, r)
  BY <1>1, <1>2, <1>5
<1> DEFINE last == part(3)
<1>10. Sorted(front \o last, s, r)
  <2> HIDE DEF last
  <2>1. last \in Seq(T) /\ Sorted(last, s, r)
    BY <1>9 DEF last
  <2>2. \A x \in ToSet(front), y \in ToSet(last): Preference(x.tier, r) < Preference(y.tier, r)
    BY <1>8 DEF last
  <2>. QED BY <1>6, <1>7, <2>1, <2>2, ConcatSorted
<1>. QED BY <1>3, <1>10 DEF front

\* design.md, "Eligibility" and "Complexity and selection": whatever is configured and
\* whatever is asked, the filters and the three passes of the code list exactly the
\* candidates that fit, in order of preference.
THEOREM SelectionIsContract ==
    ASSUME NEW shortlist \in Seq(CandidateType), IsInjective(shortlist),
           NEW body, body.tokens \in Nat, NEW requested \in TierNames
    PROVE  IsContract(OrderedCandidates(EligibleCandidates(shortlist, body), requested),
                      shortlist, body, requested)
<1> DEFINE e == EligibleCandidates(shortlist, body)
           o == OrderedCandidates(e, requested)
           I == {n \in DOMAIN shortlist: Reasons(shortlist[n], body) = {}}
<1>1. ASSUME NEW c \in CandidateType PROVE Reasons(c, body) = {} <=> Fits(c, body)
  BY FitsReasons
<1>2. e \in Seq(CandidateType) /\ ToSet(e) = {c \in ToSet(shortlist): Reasons(c, body) = {}}
  BY EligibleHolds
<1>3. ToSet(e) = {c \in ToSet(shortlist): Fits(c, body)}
  <2>1. ToSet(shortlist) \subseteq CandidateType
    BY DEF ToSet
  <2>. QED BY <1>1, <1>2, <2>1
<1>4. Ascends(e, shortlist)
  <2>1. I \in SUBSET DOMAIN shortlist /\ e = Picked(shortlist, I)
    BY DEF EligibleCandidates
  <2>2. Ascends(shortlist, shortlist)
    BY ItselfAscends
  <2> HIDE DEF I, e
  <2>. QED BY <2>1, <2>2, PickedAscends
<1>5. \A c \in ToSet(e): c.tier \in TierNames
  <2>1. \A n \in DOMAIN e: e[n] \in CandidateType
    BY <1>2
  <2>. QED BY <2>1, NamesOfTiers DEF ToSet, CandidateType
<1> HIDE DEF e, I
<1>6. ToSet(o) = ToSet(e)
  BY <1>2, <1>5, OrderedHolds
<1>7. Sorted(o, shortlist, requested)
  BY <1>2, <1>4, OrderedSorts
<1> HIDE DEF o
<1>8. IsContract(o, shortlist, body, requested)
  BY <1>3, <1>6, <1>7 DEF IsContract, Sorted, Place
<1>. QED BY <1>8 DEF o, e

=============================================================================
