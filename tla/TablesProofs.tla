---------------------------- MODULE TablesProofs ----------------------------
(***************************************************************************)
(* What the pure parts of the gateway promise for all inputs: any list of  *)
(* candidates with names of their own and any request, any record and any  *)
(* depth limit, any configuration file.                                    *)
(***************************************************************************)
EXTENDS Tables, SelectorProofs

\* A behaviour stays among the inputs it began with; a record that was redacted is
\* a record, a file that was edited a document.
TablesInv ==
    /\ body # None => shortlist \in Shortlists /\ body \in Bodies
    /\ event # None => event \subseteq Leaf /\ \A l \in event: WellPlaced(l)
    /\ file # None => file \in Documents /\ (file.auto = None => file.foreign = {})

-----------------------------------------------------------------------------
(* The selector                                                             *)

LEMMA TriedHolds ==
    ASSUME NEW s \in Shortlists, s = shortlist, NEW b \in Bodies
    PROVE  /\ s \in Seq(CandidateType)
           /\ Tried(b) \in Seq(CandidateType)
           /\ ToSet(Tried(b)) = {c \in ToSet(s): Fits(c, b)}
<1> DEFINE e == EligibleCandidates(s, b)
           t == RequestedTier(mode, b)
<1>1. s \in Seq(CandidateType) /\ b.tokens \in Nat
  BY TablesAssumption
<1>2. e \in Seq(CandidateType) /\ ToSet(e) = {c \in ToSet(s): Reasons(c, b) = {}}
  BY <1>1, EligibleHolds
<1>3. \A c \in ToSet(e): c.tier \in TierNames
  <2>1. \A n \in DOMAIN e: e[n] \in CandidateType
    BY <1>2
  <2>. QED BY <2>1, NamesOfTiers DEF ToSet, CandidateType
<1>4. t \in TierNames
  BY SomeTier
<1>5. Tried(b) = OrderedCandidates(e, t)
  BY DEF Tried
<1> HIDE DEF e, t
<1>6. Tried(b) \in Seq(CandidateType) /\ ToSet(Tried(b)) = ToSet(e)
  BY <1>2, <1>3, <1>4, <1>5, OrderedHolds
<1>7. \A c \in ToSet(s): c \in CandidateType
  BY <1>1 DEF ToSet
<1>8. ToSet(e) = {c \in ToSet(s): Fits(c, b)}
  BY <1>1, <1>2, <1>7, FitsReasons
<1>. QED BY <1>1, <1>6, <1>8

LEMMA OrderHolds == TablesInv => OrderIsContract
<1> SUFFICES ASSUME TablesInv, body # None
             PROVE  IsContract(Tried(body), shortlist, body, RequestedTier(mode, body))
  BY DEF OrderIsContract
<1>1. shortlist \in Seq(CandidateType) /\ IsInjective(shortlist) /\ body.tokens \in Nat
  BY TablesAssumption DEF TablesInv, IsInjective
<1>2. RequestedTier(mode, body) \in TierNames
  BY SomeTier
<1>. QED BY <1>1, <1>2, SelectionIsContract DEF Tried

LEMMA PinHolds == TablesInv => PinKeepsFallbacks
<1> SUFFICES ASSUME TablesInv, body # None, NEW c \in ToSet(Tried(body))
             PROVE  LET s == PinFirst(Tried(body), c.id)
                    IN  s[1] = c /\ Len(s) = Len(Tried(body)) /\ ToSet(s) = ToSet(Tried(body))
  BY DEF PinKeepsFallbacks
<1> DEFINE o == Tried(body)
           p == PinFirst(o, c.id)
<1>1. shortlist \in Shortlists /\ body \in Bodies
  BY DEF TablesInv
<1>2. o \in Seq(CandidateType) /\ ToSet(o) \subseteq ToSet(shortlist)
  BY <1>1, TriedHolds
<1> HIDE DEF o
<1>3. /\ p \in Seq(CandidateType) /\ Len(p) = Len(o) /\ ToSet(p) = ToSet(o)
      /\ p[1].id = c.id
  <2>1. c \in ToSet(o)
    BY DEF o
  <2>2. \E d \in ToSet(o): d.id = c.id
    BY <2>1
  <2>. QED BY <1>2, <2>2, PinFirstHolds
<1> HIDE DEF p
<1>4. p[1] \in ToSet(o) /\ c \in ToSet(o)
  <2>1. c \in ToSet(o)
    BY DEF o
  <2>2. Len(o) # 0
    BY <1>2, <2>1 DEF ToSet
  <2>3. 1 \in DOMAIN p
    BY <1>2, <1>3, <2>2
  <2>4. p[1] \in ToSet(p)
    BY <2>3 DEF ToSet
  <2>. QED BY <1>3, <2>1, <2>4
<1>5. p[1] = c
  <2>1. shortlist \in Seq(CandidateType)
        /\ \A m, n \in DOMAIN shortlist: shortlist[m].id = shortlist[n].id => m = n
    BY <1>1, TablesAssumption
  <2>2. PICK m \in DOMAIN shortlist: shortlist[m] = p[1]
    BY <1>2, <1>4 DEF ToSet
  <2>3. PICK n \in DOMAIN shortlist: shortlist[n] = c
    BY <1>2, <1>4 DEF ToSet
  <2>. QED BY <1>3, <2>1, <2>2, <2>3
<1>. QED BY <1>3, <1>5 DEF p, o

\* A conversation that grows scores at least as high.
LEMMA ScoreGrows ==
    ASSUME NEW a \in Bodies, NEW b \in Bodies, Grows(a, b)
    PROVE  /\ ComplexityScore(a) \in Nat /\ ComplexityScore(b) \in Nat
           /\ ComplexityScore(a) <= ComplexityScore(b)
<1>1. /\ a.tokens \in Nat /\ a.length \in Nat /\ a.messages \in Nat
      /\ b.tokens \in Nat /\ b.length \in Nat /\ b.messages \in Nat
  BY TablesAssumption
<1> DEFINE p(x) == Points("tools" \in x.needs, 1)
           q(x) == Points(x.length >= 1500 \/ x.fenced = "yes", 1)
           r(x) == Points(x.tokens >= 2000, 1)
           s(x) == Points(x.tokens >= 8000, 1)
           t(x) == Points("vision" \in x.needs, 2)
           u(x) == Points(x.messages >= 20, 1)
<1>2. p(a) \in Nat /\ p(b) \in Nat /\ p(a) <= p(b)
  BY DEF Points, Grows
<1>3. q(a) \in Nat /\ q(b) \in Nat /\ q(a) <= q(b)
  <2>1. a.length >= 1500 \/ a.fenced = "yes" => b.length >= 1500 \/ b.fenced = "yes"
    BY <1>1 DEF Grows
  <2>. QED BY <2>1 DEF Points
<1>4. r(a) \in Nat /\ r(b) \in Nat /\ r(a) <= r(b)
  <2>1. a.tokens >= 2000 => b.tokens >= 2000
    BY <1>1 DEF Grows
  <2>. QED BY <2>1 DEF Points
<1>5. s(a) \in Nat /\ s(b) \in Nat /\ s(a) <= s(b)
  <2>1. a.tokens >= 8000 => b.tokens >= 8000
    BY <1>1 DEF Grows
  <2>. QED BY <2>1 DEF Points
<1>6. t(a) \in Nat /\ t(b) \in Nat /\ t(a) <= t(b)
  BY DEF Points, Grows
<1>7. u(a) \in Nat /\ u(b) \in Nat /\ u(a) <= u(b)
  <2>1. a.messages >= 20 => b.messages >= 20
    BY <1>1 DEF Grows
  <2>. QED BY <2>1 DEF Points
<1>8. /\ ComplexityScore(a) = p(a) + q(a) + r(a) + s(a) + t(a) + u(a)
      /\ ComplexityScore(b) = p(b) + q(b) + r(b) + s(b) + t(b) + u(b)
  BY DEF ComplexityScore
<1> HIDE DEF p, q, r, s, t, u
<1>. QED BY <1>2, <1>3, <1>4, <1>5, <1>6, <1>7, <1>8

LEMMA TierGrows ==
    ASSUME NEW a \in Bodies, NEW b \in Bodies, Grows(a, b)
    PROVE  TierIndex(RequestedTier(mode, a)) <= TierIndex(RequestedTier(mode, b))
<1> DEFINE x == ComplexityScore(a)
           y == ComplexityScore(b)
<1>1. x \in Nat /\ y \in Nat /\ x <= y
  BY ScoreGrows
<1> HIDE DEF x, y
<1>2. TierIndex("fast") = 1 /\ TierIndex("balanced") = 2 /\ TierIndex("strong") = 3
  <2>1. Tiers[1] = "fast" /\ Tiers[2] = "balanced" /\ Tiers[3] = "strong"
    BY DEF Tiers
  <2>2. TierIndex(Tiers[1]) = 1 /\ TierIndex(Tiers[2]) = 2 /\ TierIndex(Tiers[3]) = 3
    BY TierOfIndex
  <2>. QED BY <2>1, <2>2
<1>3. TierIndex(DetectedTier(x)) <= TierIndex(DetectedTier(y))
  <2>1. CASE y <= 1
    <3>1. x <= 1
      BY <1>1, <2>1
    <3>. QED BY <1>2, <2>1, <3>1 DEF DetectedTier
  <2>2. CASE ~(y <= 1) /\ y <= 3
    <3>1. x <= 3
      BY <1>1, <2>2
    <3>. QED BY <1>2, <2>2, <3>1 DEF DetectedTier
  <2>3. CASE ~(y <= 3)
    <3>1. ~(y <= 1)
      BY <1>1, <2>3
    <3>. QED BY <1>2, <2>3, <3>1 DEF DetectedTier
  <2>. QED BY <2>1, <2>2, <2>3
<1>4. TierIndex("strong") <= TierIndex("strong") /\ TierIndex("fast") <= TierIndex("fast")
  BY <1>2
<1>5. CASE mode = "auto:quality"
  BY <1>4, <1>5 DEF RequestedTier, CompatibilityTier
<1>6. CASE mode = "auto:economy"
  BY <1>4, <1>6 DEF RequestedTier, CompatibilityTier
<1>7. CASE mode # "auto:quality" /\ mode # "auto:economy"
  BY <1>3, <1>7 DEF RequestedTier, CompatibilityTier, x, y
<1>. QED BY <1>5, <1>6, <1>7

LEMMA FitsGrows ==
    ASSUME NEW a \in Bodies, NEW b \in Bodies, Grows(a, b), shortlist \in Shortlists
    PROVE  ToSet(Tried(b)) \subseteq ToSet(Tried(a))
<1>1. /\ shortlist \in Seq(CandidateType)
      /\ ToSet(Tried(a)) = {c \in ToSet(shortlist): Fits(c, a)}
      /\ ToSet(Tried(b)) = {c \in ToSet(shortlist): Fits(c, b)}
  BY TriedHolds
<1>2. ASSUME NEW c \in ToSet(shortlist), Fits(c, b) PROVE Fits(c, a)
  <2>1. c \in CandidateType
    BY <1>1 DEF ToSet
  <2>2. c.window \in Nat /\ a.tokens \in Nat /\ b.tokens \in Nat
    BY <2>1, TablesAssumption DEF CandidateType
  <2>3. 10 * a.tokens <= 9 * c.window
    BY <1>2, <2>2 DEF Fits, Grows
  <2>. QED BY <1>2, <2>3 DEF Fits, Grows
<1>. QED BY <1>1, <1>2

-----------------------------------------------------------------------------
(* The loader                                                               *)

LEMMA DocumentsHold ==
    ASSUME NEW d \in Documents
    PROVE  /\ d # None /\ d # Garbage
           /\ d.auto = None \/ d.auto \in Settings
           /\ d.bare \in Settings /\ d.foreign \in SUBSET Foreign
BY TablesAssumption DEF Documents

LEMMA PortHolds ==
    ASSUME Ephemeral = "no", NEW n, PortOK(n)
    PROVE  n \in 1..LastPort
BY DEF PortOK

LEMMA GatewayBinds ==
    ASSUME Ephemeral = "no", NEW g, Gateway(g) # None
    PROVE  /\ Gateway(g).port \in 1..LastPort
           /\ Gateway(g).admin \in 1..LastPort \ {Gateway(g).port}
<1> DEFINE url == Given(g.url, DefaultUrl)
           port == Given(g.port, PortFromUrl(url))
           admin == Given(g.admin, IF port = 0 THEN 0 ELSE port + 1)
<1>1. /\ PortOK(port) /\ PortOK(admin) /\ (admin = 0 \/ admin # port)
      /\ Gateway(g) = [port |-> port, admin |-> admin, dial |-> PortFromUrl(url)]
  BY DEF Gateway
<1> HIDE DEF port, admin, url
<1>2. port \in 1..LastPort /\ admin \in 1..LastPort
  BY <1>1, PortHolds
<1>3. admin # port
  BY <1>1, <1>2
<1>. QED BY <1>1, <1>2, <1>3

LEMMA BlockBinds ==
    ASSUME Ephemeral = "no", NEW b \in Settings, Block(b) # None
    PROVE  /\ Block(b).port \in 1..LastPort
           /\ Block(b).admin \in 1..LastPort \ {Block(b).port}
           /\ Block(b).ids # <<>> /\ IsInjective(Block(b).ids)
           /\ b.upstream = None \/ b.candidates = None
<1> DEFINE g == Gateway(Given(b.gateway, NoGateway))
           list == b.candidates
           ids == ResolvedIds(b)
<1>1. /\ g # None
      /\ list = None \/ (b.upstream = None /\ CandidatesOK(list))
      /\ Block(b) = [port |-> g.port, admin |-> g.admin, dial |-> g.dial, ids |-> ids]
  BY DEF Block
<1>2. g.port \in 1..LastPort /\ g.admin \in 1..LastPort \ {g.port}
  BY <1>1, GatewayBinds
<1>3. ids # <<>> /\ IsInjective(ids)
  <2>1. CASE list = None
    <3>1. ids = <<"legacy-upstream">>
      BY <2>1 DEF ResolvedIds
    <3>2. ids # <<>> /\ \A m, n \in DOMAIN ids: m = n
      BY <3>1
    <3>. QED BY <3>2 DEF IsInjective
  <2>2. CASE list # None
    <3>1. ids = [n \in DOMAIN list |-> list[n].id]
      BY <2>2 DEF ResolvedIds
    <3>2. list # <<>> /\ \A m, n \in DOMAIN list: list[m].id = list[n].id => m = n
      BY <1>1, <2>2 DEF CandidatesOK
    <3>3. \E T: list \in Seq(T)
      <4>1. list \in {None} \cup Seq([id: STRING, tier: STRING, window: Int, base: STRING,
                                      ref: STRING, keys: SUBSET STRING])
        BY DEF Settings
      <4>. QED BY <2>2, <4>1
    <3> HIDE DEF list, ids
    <3>4. DOMAIN list # {}
      BY <3>2, <3>3
    <3>5. ids # <<>>
      BY <3>1, <3>4
    <3>6. IsInjective(ids)
      BY <3>1, <3>2 DEF IsInjective
    <3>. QED BY <3>5, <3>6
  <2>. QED BY <2>1, <2>2
<1> HIDE DEF g, list, ids
<1>. QED BY <1>1, <1>2, <1>3 DEF list

\* What the loader takes for the settings of a document.
Meant(d) == IF d.auto # None THEN d.auto ELSE [d.bare EXCEPT !.unknown = @ \cup d.foreign]

LEMMA LoadMeans ==
    ASSUME NEW d \in Documents, NEW named,
           named = "yes" \/ d.auto # None \/ d.bare.unknown \cup d.foreign = {}
    PROVE  /\ Load(d, named) = Block(Meant(d)) /\ Meant(d) \in Settings
           /\ d.auto = None /\ d.foreign = {} => Meant(d) = d.bare
<1>1. d # None /\ d # Garbage /\ (d.auto = None \/ d.auto \in Settings)
      /\ d.bare \in Settings /\ d.foreign \in SUBSET Foreign
  BY DocumentsHold
<1>2. ~(named = "no" /\ d.bare.unknown \cup d.foreign # {}) \/ d.auto # None
  OBVIOUS
<1>3. Load(d, named) = Block(Meant(d))
  BY <1>1, <1>2 DEF Load, Meant
<1>4. [d.bare EXCEPT !.unknown = @ \cup d.foreign] \in Settings
  BY <1>1, TablesAssumption DEF Settings
<1>5. ASSUME d.foreign = {} PROVE [d.bare EXCEPT !.unknown = @ \cup d.foreign] = d.bare
  <2>1. d.bare.unknown \cup d.foreign = d.bare.unknown
    BY <1>5
  <2>. QED BY <1>1, <2>1 DEF Settings
<1>. QED BY <1>1, <1>3, <1>4, <1>5 DEF Meant

LEMMA LoadHolds == Ephemeral = "no" /\ TablesInv => LoadedIsUsable
<1> SUFFICES ASSUME Ephemeral = "no", TablesInv, file # None, Load(file, "yes") # None
             PROVE  LET c == Load(file, "yes")
                        block == IF file.auto # None THEN file.auto ELSE file.bare
                    IN  /\ c.port \in 1..LastPort /\ c.admin \in 1..LastPort \ {c.port}
                        /\ c.ids # <<>> /\ IsInjective(c.ids)
                        /\ block.upstream = None \/ block.candidates = None
  BY DEF LoadedIsUsable
<1> DEFINE m == Meant(file)
           block == IF file.auto # None THEN file.auto ELSE file.bare
<1>1. file \in Documents
  BY DEF TablesInv
<1>2. Load(file, "yes") = Block(m) /\ m \in Settings
  BY <1>1, LoadMeans
<1>3. m.upstream = block.upstream /\ m.candidates = block.candidates
  <2>1. file.bare \in Settings
    BY <1>1, DocumentsHold
  <2>. QED BY <2>1 DEF Meant, Settings
<1> HIDE DEF m, block
<1>4. /\ Block(m).port \in 1..LastPort /\ Block(m).admin \in 1..LastPort \ {Block(m).port}
      /\ Block(m).ids # <<>> /\ IsInjective(Block(m).ids)
      /\ m.upstream = None \/ m.candidates = None
  BY <1>2, BlockBinds
<1>. QED BY <1>2, <1>3, <1>4 DEF block

LEMMA WrapHolds ==
    ASSUME TablesInv, file # None, Wrap \/ Share, NEW named,
           named = "yes" \/ file.bare.unknown = {}
    PROVE  Load(file', named) = Load(file, named)
<1>1. file \in Documents /\ (file.auto = None => file.foreign = {})
  BY DEF TablesInv
<1>2. CASE Wrap
  <2>1. file.auto = None /\ file' = [auto |-> file.bare, bare |-> NoBlock, foreign |-> {}]
    BY <1>2 DEF Wrap
  <2>2. file.bare \in Settings /\ file.bare # None
    BY <1>1, DocumentsHold, TablesAssumption
  <2>3. NoBlock \in Settings
    BY DEF NoBlock, Settings
  <2>4. file' \in Documents /\ file'.auto # None
    BY <2>1, <2>2, <2>3 DEF Documents
  <2>5. Load(file', named) = Block(Meant(file'))
    BY <2>4, LoadMeans
  <2>6. Meant(file') = file.bare
    BY <2>1, <2>2 DEF Meant
  <2>7. file.foreign = {} /\ (named = "yes" \/ file.bare.unknown \cup file.foreign = {})
    BY <1>1, <2>1
  <2>8. Load(file, named) = Block(Meant(file)) /\ Meant(file) = file.bare
    BY <1>1, <2>1, <2>7, LoadMeans
  <2>. QED BY <2>5, <2>6, <2>8
<1>3. CASE Share
  <2>1. /\ file.auto # None
        /\ \E keys \in SUBSET Foreign: file' = [file EXCEPT !.foreign = keys]
    BY <1>3 DEF Share
  <2>2. file' \in Documents /\ file'.auto = file.auto
    BY <1>1, <2>1 DEF Documents
  <2>3. Load(file', named) = Block(Meant(file')) /\ Load(file, named) = Block(Meant(file))
    BY <1>1, <2>1, <2>2, LoadMeans
  <2>4. Meant(file') = file.auto /\ Meant(file) = file.auto
    BY <2>1, <2>2 DEF Meant
  <2>. QED BY <2>3, <2>4
<1>. QED BY <1>2, <1>3

-----------------------------------------------------------------------------
(* Redaction                                                                *)

StopKeys == BannedKeys \cup SessionIdKeys

\* A leaf that the walk passes as it is, if it is not too deep.
Clean(l) ==
    /\ l \in Leaf /\ Stops(l.path) = {}
    /\ l.is \notin {"private", "session", "object", "back"}
    /\ l.is = "<truncated>" => Len(l.path) <= MaxDepth + 1

LEMMA LeafHolds ==
    ASSUME NEW l \in Leaf
    PROVE  /\ l.path \in Seq(Words) /\ Len(l.path) \in Nat \ {0} /\ DOMAIN l.path = 1..Len(l.path)
           /\ l.is \in Words /\ l = [path |-> l.path, is |-> l.is]
           /\ MaxDepth \in Nat /\ MaxDepth >= 2
BY RedactionAssumption DEF Leaf

LEMMA KeysDiffer ==
    /\ {"_redacted", "#", "root_session_hash"} \cap StopKeys = {}
    /\ {"private", "session", "object", "back", "<truncated>"} \cap StopKeys = {}
BY DEF StopKeys, BannedKeys, SessionIdKeys

\* The walk stops at the first such key.
LEMMA FirstStop ==
    ASSUME NEW l \in Leaf, Stops(l.path) # {}
    PROVE  LET n == Min(Stops(l.path))
           IN  /\ n \in 1..Len(l.path) /\ n <= MaxDepth + 1 /\ l.path[n] \in StopKeys
               /\ \A m \in 1..n - 1: l.path[m] \notin StopKeys
<1> DEFINE p == l.path
           S == Stops(p)
           n == Min(S)
<1>1. p \in Seq(Words) /\ DOMAIN p = 1..Len(p) /\ Len(p) \in Nat /\ MaxDepth \in Nat
  BY LeafHolds
<1>2. S = {m \in 1..Len(p): m <= MaxDepth + 1 /\ p[m] \in StopKeys}
  BY <1>1 DEF Stops, StopKeys
<1> HIDE DEF p
<1>3. S \in SUBSET Nat /\ S # {}
  <2>1. S # {}
    BY DEF p
  <2>. QED BY <1>1, <1>2, <2>1
<1> HIDE DEF S
<1>4. \E m \in S: \A k \in S: m <= k
  BY <1>3, LeastPosition
<1>5. n \in S /\ \A k \in S: n <= k
  BY <1>4 DEF Min
<1> HIDE DEF n
<1>6. n \in 1..Len(p) /\ n <= MaxDepth + 1 /\ p[n] \in StopKeys
  BY <1>2, <1>5
<1>7. ASSUME NEW m \in 1..n - 1 PROVE p[m] \notin StopKeys
  <2>1. m \in 1..Len(p) /\ m <= MaxDepth + 1 /\ ~(n <= m)
    BY <1>1, <1>6
  <2>. QED BY <1>2, <1>5, <2>1
<1>. QED BY <1>6, <1>7 DEF p, S, n

\* A path without such a key at the places that are looked at.
LEMMA NoStops ==
    ASSUME NEW p \in Seq(Words), \A m \in 1..Len(p): m <= MaxDepth + 1 => p[m] \notin StopKeys
    PROVE  Stops(p) = {}
BY DEF Stops, StopKeys

LEMMA FrontHolds ==
    ASSUME NEW T, NEW s \in Seq(T), Len(s) # 0
    PROVE  /\ Front(s) \in Seq(T) /\ Len(Front(s)) = Len(s) - 1
           /\ \A m \in 1..Len(s) - 1: Front(s)[m] = s[m]
<1> DEFINE k == Len(s)
<1>0. k \in Nat /\ k # 0
  BY LenProperties
<1> HIDE DEF k
<1>1. PICK n \in Nat: n = k - 1 /\ n <= k
  BY <1>0
<1>2. SubSeq(s, 1, n) \in Seq(T) /\ Len(SubSeq(s, 1, n)) = n /\ \A m \in 1..n: SubSeq(s, 1, n)[m] = s[m]
  BY <1>1 DEF k
<1>3. Front(s) = SubSeq(s, 1, n)
  BY <1>1 DEF Front, k
<1>. QED BY <1>1, <1>2, <1>3 DEF k

LEMMA PassedIsClean ==
    ASSUME NEW l \in Leaf, WellPlaced(l), NEW salted, ~Drops(l, salted)
    PROVE  Clean(Passed(l))
<1> DEFINE p == l.path
           n == Min(Stops(p))
<1>1. /\ p \in Seq(Words) /\ Len(p) \in Nat \ {0} /\ DOMAIN p = 1..Len(p)
      /\ l.is \in Words /\ l = [path |-> p, is |-> l.is] /\ MaxDepth \in Nat
  BY LeafHolds
<1>2. CASE Stops(p) # {}
  <2> DEFINE q == Append(Front(p), "root_session_hash")
  <2>1. n = Len(p)
    BY <1>2 DEF Drops, Digested
  <2>2. \A m \in 1..Len(p) - 1: p[m] \notin StopKeys
    BY <1>2, <2>1, FirstStop
  <2>3. Front(p) \in Seq(Words) /\ Len(Front(p)) = Len(p) - 1
        /\ \A m \in 1..Len(p) - 1: Front(p)[m] = p[m]
    BY <1>1, FrontHolds
  <2>4. "root_session_hash" \in Words /\ "digest" \in Words
    BY TablesAssumption
  <2>5. Passed(l) = [path |-> q, is |-> "digest"]
    BY <1>2 DEF Passed
  <2> HIDE DEF p, n
  <2> DEFINE f == Front(p)
  <2> HIDE DEF f
  <2>6. /\ q \in Seq(Words) \ {<<>>} /\ Len(q) = Len(p)
        /\ \A m \in 1..Len(p) - 1: q[m] = p[m]
        /\ q[Len(p)] = "root_session_hash"
    <3>1. f \in Seq(Words) /\ Len(f) = Len(p) - 1 /\ \A m \in 1..Len(p) - 1: f[m] = p[m]
      BY <2>3 DEF f
    <3>2. q = Append(f, "root_session_hash")
      BY DEF f
    <3> HIDE DEF q
    <3>3. q \in Seq(Words) /\ Len(q) = Len(p) /\ q[Len(p)] = "root_session_hash"
      <4> DEFINE word == "root_session_hash"
                 i == Len(f) + 1
      <4>1. word \in Words
        BY <2>4
      <4> HIDE DEF word
      <4>2. Append(f, word) \in Seq(Words) /\ Len(Append(f, word)) = i /\ Append(f, word)[i] = word
        BY <3>1, <4>1, AppendProperties
      <4>3. i = Len(p)
        BY <1>1, <3>1
      <4>. QED BY <3>2, <4>2, <4>3 DEF word
    <3>4. \A m \in 1..Len(p) - 1: q[m] = p[m]
      BY <1>1, <2>4, <3>1, <3>2, AppendProperties
    <3>. QED BY <1>1, <3>3, <3>4
  <2> HIDE DEF q
  <2>7. \A m \in 1..Len(q): q[m] \notin StopKeys
    BY <1>1, <2>2, <2>6, KeysDiffer
  <2>8. Stops(q) = {}
    BY <2>6, <2>7, NoStops
  <2>. QED BY <2>4, <2>5, <2>6, <2>8 DEF Clean, Leaf
<1>3. CASE Stops(p) = {} /\ Len(p) > MaxDepth
  <2> DEFINE q == SubSeq(p, 1, MaxDepth + 1)
  <2>1. Passed(l) = [path |-> q, is |-> "<truncated>"]
    BY <1>3 DEF Passed
  <2>2. \A m \in 1..Len(p): m <= MaxDepth + 1 => p[m] \notin StopKeys
    BY <1>1, <1>3 DEF Stops, StopKeys
  <2>3. "<truncated>" \in Words
    BY TablesAssumption
  <2> HIDE DEF p, n
  <2>4. /\ q \in Seq(Words) \ {<<>>} /\ Len(q) = MaxDepth + 1
        /\ \A m \in 1..MaxDepth + 1: q[m] = p[m]
    BY <1>1, <1>3
  <2> HIDE DEF q
  <2>5. Stops(q) = {}
    BY <1>1, <1>3, <2>2, <2>4, NoStops
  <2>. QED BY <1>1, <2>1, <2>3, <2>4, <2>5 DEF Clean, Leaf
<1>4. CASE Stops(p) = {} /\ ~(Len(p) > MaxDepth)
  <2>1. Passed(l) = [path |-> p, is |-> Rendered(l.is)]
    BY <1>4 DEF Passed
  <2>2. \A m \in 1..Len(p): p[m] \notin StopKeys
    BY <1>1, <1>4 DEF Stops, StopKeys
  <2>3. l.is # "private" /\ l.is # "session"
    BY <1>1, <2>2 DEF WellPlaced, StopKeys
  <2>4. Rendered(l.is) \in Words /\ Rendered(l.is) \notin {"private", "session", "object", "back"}
    BY <1>1, <2>3, TablesAssumption DEF Rendered
  <2>5. Len(p) <= MaxDepth + 1 /\ p # <<>>
    BY <1>1, <1>4
  <2>. QED BY <1>1, <1>4, <2>1, <2>4, <2>5 DEF Clean, Leaf
<1>. QED BY <1>2, <1>3, <1>4

LEMMA MarksHold ==
    ASSUME NEW l \in Leaf, Stops(l.path) # {}
    PROVE  LET n == Min(Stops(l.path))
               m == Mark(SubSeq(l.path, 1, n - 1), l.path[n])
           IN  /\ Clean(m) /\ Len(m.path) = n + 1 /\ n \in 1..MaxDepth + 1
               /\ m.path[Len(m.path)] = "#"
<1> DEFINE p == l.path
           n == Min(Stops(p))
           s == SubSeq(p, 1, n - 1)
           q == s \o <<"_redacted", "#">>
           m == Mark(s, p[n])
<1>1. /\ p \in Seq(Words) /\ Len(p) \in Nat \ {0} /\ DOMAIN p = 1..Len(p) /\ MaxDepth \in Nat
  BY LeafHolds
<1>2. /\ n \in 1..Len(p) /\ n <= MaxDepth + 1 /\ p[n] \in StopKeys
      /\ \A k \in 1..n - 1: p[k] \notin StopKeys
  BY FirstStop
<1>3. m = [path |-> q, is |-> p[n]]
  BY DEF Mark
<1> HIDE DEF n, p
<1>4. s \in Seq(Words) /\ Len(s) = n - 1 /\ \A k \in 1..n - 1: s[k] = p[k]
  BY <1>1, <1>2
<1>5. "_redacted" \in Words /\ "#" \in Words
  BY TablesAssumption
<1> HIDE DEF s, m
<1>6. /\ q \in Seq(Words) /\ Len(q) = n + 1
      /\ \A k \in 1..n - 1: q[k] = p[k]
      /\ q[n] = "_redacted" /\ q[n + 1] = "#"
  <2> DEFINE t == <<"_redacted", "#">>
  <2>1. t \in Seq(Words) /\ Len(t) = 2 /\ t[1] = "_redacted" /\ t[2] = "#"
    BY <1>5
  <2> HIDE DEF t
  <2>2. s \o t \in Seq(Words) /\ Len(s \o t) = n + 1
    <3>1. s \o t \in Seq(Words) /\ Len(s \o t) = Len(s) + Len(t)
      BY <1>4, <2>1, ConcatProperties
    <3>2. n \in Int
      BY <1>1, <1>2
    <3>. QED BY <1>4, <2>1, <3>1, <3>2
  <2>3. \A k \in 1..n - 1: (s \o t)[k] = s[k]
    BY <1>1, <1>2, <1>4, <2>1, ConcatProperties
  <2>4. (s \o t)[n] = t[1] /\ (s \o t)[n + 1] = t[2]
    BY <1>1, <1>2, <1>4, <2>1, ConcatProperties
  <2>. QED BY <1>4, <2>1, <2>2, <2>3, <2>4 DEF t
<1> HIDE DEF q
<1>7. \A k \in 1..Len(q): q[k] \notin StopKeys
  <2>1. ASSUME NEW k \in 1..n + 1 PROVE k \in 1..n - 1 \/ k = n \/ k = n + 1
    BY <1>2
  <2>. QED BY <1>2, <1>6, <2>1, KeysDiffer
<1>8. Stops(q) = {} /\ q # <<>>
  BY <1>2, <1>6, <1>7, NoStops
<1>9. p[n] \in Words /\ p[n] \notin {"private", "session", "object", "back", "<truncated>"}
  BY <1>1, <1>2, KeysDiffer
<1>10. Clean(m)
  BY <1>3, <1>6, <1>8, <1>9 DEF Clean, Leaf
<1>11. Len(m.path) = n + 1 /\ n \in 1..MaxDepth + 1 /\ m.path[Len(m.path)] = "#"
  BY <1>1, <1>2, <1>3, <1>6
<1>. QED BY <1>10, <1>11 DEF m, s, n, p

\* A name that an earlier pass listed is no text of the operator's.
LEMMA PriorIsClean ==
    ASSUME NEW l \in Leaf, WellPlaced(l), l.is \notin {"object", "back"},
           NEW d \in Leaf, Stops(d.path) # {},
           l.path = Mark(SubSeq(d.path, 1, Min(Stops(d.path)) - 1), d.path[Min(Stops(d.path))]).path
    PROVE  Clean(l)
<1> DEFINE n == Min(Stops(d.path))
           m == Mark(SubSeq(d.path, 1, n - 1), d.path[n])
           p == l.path
<1>1. Clean(m) /\ Len(m.path) = n + 1 /\ n \in 1..MaxDepth + 1 /\ m.path[Len(m.path)] = "#"
  BY MarksHold
<1>2. p = m.path
  OBVIOUS
<1> HIDE DEF m, n
<1>3. /\ p \in Seq(Words) /\ Len(p) \in Nat \ {0} /\ DOMAIN p = 1..Len(p) /\ MaxDepth \in Nat
  BY LeafHolds
<1>4. Stops(p) = {} /\ p[Len(p)] = "#" /\ Len(p) <= MaxDepth + 2
  BY <1>1, <1>2, <1>3 DEF Clean
<1>5. \A k \in 1..Len(p): p[k] \notin StopKeys
  <2>1. \A k \in 1..Len(p): k <= MaxDepth + 1 => p[k] \notin StopKeys
    BY <1>3, <1>4 DEF Stops, StopKeys
  <2>2. \A k \in 1..Len(p): k <= MaxDepth + 1 \/ k = Len(p)
    BY <1>3, <1>4
  <2>3. p[Len(p)] \notin StopKeys
    BY <1>4, KeysDiffer
  <2>. QED BY <2>1, <2>2, <2>3
<1>6. l.is # "private" /\ l.is # "session"
  <2>1. Len(p) \in 1..Len(p)
    BY <1>3
  <2>. QED BY <1>3, <1>5, <2>1 DEF WellPlaced, StopKeys
<1>. QED BY <1>4, <1>6 DEF Clean, WellPlaced

\* Whatever a record holds, all that reaches the log is clean.
LEMMA RedactedIsClean ==
    ASSUME NEW e, e \subseteq Leaf, \A l \in e: WellPlaced(l), NEW salted,
           NEW r \in Redact(e, salted)
    PROVE  Clean(r)
<1> DEFINE dropped == {l \in e: Drops(l, salted)}
           marks == Marks(dropped)
<1>1. \/ \E l \in e \ dropped: r = Passed(l)
      \/ r \in e \ dropped /\ r.is \notin {"object", "back"} /\ \E m \in marks: m.path = r.path
      \/ r \in marks
  BY DEF Redact
<1>2. \A m \in marks: \E d \in e:
         Stops(d.path) # {} /\ m = Mark(SubSeq(d.path, 1, Min(Stops(d.path)) - 1), d.path[Min(Stops(d.path))])
  BY DEF Marks, Drops
<1>3. CASE \E l \in e \ dropped: r = Passed(l)
  <2>1. PICK l \in e: ~Drops(l, salted) /\ r = Passed(l)
    BY <1>3
  <2>2. l \in Leaf /\ WellPlaced(l)
    OBVIOUS
  <2>. QED BY <2>1, <2>2, PassedIsClean
<1>4. CASE r \in e \ dropped /\ r.is \notin {"object", "back"} /\ \E m \in marks: m.path = r.path
  <2>1. PICK d \in e:
           /\ Stops(d.path) # {}
           /\ r.path = Mark(SubSeq(d.path, 1, Min(Stops(d.path)) - 1), d.path[Min(Stops(d.path))]).path
    BY <1>2, <1>4
  <2>2. r \in Leaf /\ WellPlaced(r) /\ d \in Leaf
    BY <1>4
  <2>. QED BY <1>4, <2>1, <2>2, PriorIsClean
<1>5. CASE r \in marks
  <2>1. PICK d \in e:
           /\ Stops(d.path) # {}
           /\ r = Mark(SubSeq(d.path, 1, Min(Stops(d.path)) - 1), d.path[Min(Stops(d.path))])
    BY <1>2, <1>5
  <2>2. d \in Leaf
    OBVIOUS
  <2>. QED BY <2>1, <2>2, MarksHold
<1>. QED BY <1>1, <1>3, <1>4, <1>5

\* What is clean and not too deep is passed as it is.
LEMMA CleanPasses ==
    ASSUME NEW r, Clean(r), Len(r.path) <= MaxDepth \/ r.is = "<truncated>"
    PROVE  Passed(r) = r /\ \A salted: ~Drops(r, salted)
<1> DEFINE p == r.path
<1>1. /\ p \in Seq(Words) /\ Len(p) \in Nat \ {0} /\ DOMAIN p = 1..Len(p) /\ MaxDepth \in Nat
      /\ r = [path |-> p, is |-> r.is]
  BY LeafHolds DEF Clean
<1>2. Stops(p) = {} /\ r.is \notin {"object", "back"} /\ (r.is = "<truncated>" => Len(p) <= MaxDepth + 1)
  BY DEF Clean
<1>3. \A salted: ~Drops(r, salted)
  BY <1>2 DEF Drops
<1>4. CASE Len(p) > MaxDepth
  <2>1. r.is = "<truncated>" /\ Len(p) = MaxDepth + 1
    BY <1>1, <1>2, <1>4
  <2>2. Passed(r) = [path |-> SubSeq(p, 1, MaxDepth + 1), is |-> "<truncated>"]
    BY <1>2, <1>4 DEF Passed
  <2> HIDE DEF p
  <2>3. SubSeq(p, 1, Len(p)) = p
    BY <1>1
  <2>. QED BY <1>1, <1>3, <2>1, <2>2, <2>3
<1>5. CASE ~(Len(p) > MaxDepth)
  <2>1. Passed(r) = [path |-> p, is |-> Rendered(r.is)]
    BY <1>2, <1>5 DEF Passed
  <2>2. Rendered(r.is) = r.is
    BY <1>2 DEF Rendered
  <2>. QED BY <1>1, <1>3, <2>1, <2>2
<1>. QED BY <1>4, <1>5

\* A name listed at the root of a record stays there.
LEMMA RootMarkStays ==
    ASSUME NEW e, e \subseteq Leaf, Mark(<<>>, "token") \in e, NEW salted
    PROVE  Mark(<<>>, "token") \in Redact(e, salted)
<1> DEFINE l == Mark(<<>>, "token")
           q == <<"_redacted", "#">>
           dropped == {k \in e: Drops(k, salted)}
           marks == Marks(dropped)
<1>1. l = [path |-> q, is |-> "token"] /\ l \in Leaf
  <2>1. <<>> \o q = q
    OBVIOUS
  <2>. QED BY <2>1 DEF Mark
<1>2. /\ q \in Seq(Words) /\ Len(q) = 2 /\ q[1] = "_redacted" /\ q[2] = "#" /\ DOMAIN q = 1..2
  <2>1. "_redacted" \in Words /\ "#" \in Words
    BY TablesAssumption
  <2>. QED BY <2>1
<1> HIDE DEF q
<1>3. Stops(q) = {}
  <2>1. \A m \in 1..Len(q): q[m] \notin StopKeys
    <3>1. \A m \in 1..2: m = 1 \/ m = 2
      OBVIOUS
    <3>. QED BY <1>2, <3>1, KeysDiffer
  <2>. QED BY <1>2, <2>1, NoStops
<1>4. ~Drops(l, salted)
  BY <1>1, <1>3 DEF Drops
<1>5. Passed(l) = l
  <2>1. ~(Len(q) > MaxDepth)
    BY <1>2, RedactionAssumption
  <2>. QED BY <1>1, <1>3, <2>1 DEF Passed, Rendered
<1>6. ASSUME NEW m \in marks, IsPrefix(Front(m.path), q) PROVE m.path = q
  <2>1. PICK d \in e:
           /\ Stops(d.path) # {}
           /\ m = Mark(SubSeq(d.path, 1, Min(Stops(d.path)) - 1), d.path[Min(Stops(d.path))])
    BY DEF Marks, Drops
  <2> DEFINE n == Min(Stops(d.path))
             s == SubSeq(d.path, 1, n - 1)
             f == Front(m.path)
  <2>2. d \in Leaf
    OBVIOUS
  <2>3. Clean(m) /\ Len(m.path) = n + 1 /\ n \in 1..MaxDepth + 1
    BY <2>1, <2>2, MarksHold
  <2>4. m.path = s \o q
    BY <2>1 DEF Mark, q
  <2>5. s \in Seq(Words) /\ Len(s) = n - 1
    <3> DEFINE p == d.path
    <3>1. p \in Seq(Words) /\ Len(p) \in Nat /\ n \in 1..Len(p)
      BY <2>1, <2>2, LeafHolds, FirstStop
    <3> HIDE DEF p, n
    <3>2. SubSeq(p, 1, n - 1) \in Seq(Words) /\ Len(SubSeq(p, 1, n - 1)) = n - 1
      BY <3>1
    <3>. QED BY <3>2 DEF p
  <2> HIDE DEF n, s
  <2>6. /\ m.path \in Seq(Words) /\ Len(m.path) # 0
        /\ m.path[n] = "_redacted" /\ n \in 1..Len(m.path) - 1
    <3>1. MaxDepth \in Nat /\ n \in Nat
      BY <2>3, RedactionAssumption
    <3>2. s \o q \in Seq(Words) /\ (s \o q)[n] = q[1]
      <4>1. n \in 1..Len(s) + Len(q) /\ ~(n <= Len(s)) /\ n - Len(s) = 1
        BY <1>2, <2>3, <2>5, <3>1
      <4>. QED BY <1>2, <2>5, <4>1, ConcatProperties
    <3>. QED BY <1>2, <2>3, <2>4, <3>1, <3>2
  <2>7. f \in Seq(Words) /\ Len(f) = n /\ f[n] = "_redacted"
    <3>1. /\ f \in Seq(Words) /\ Len(f) = Len(m.path) - 1
          /\ \A i \in 1..Len(m.path) - 1: f[i] = m.path[i]
      BY <2>6, FrontHolds
    <3>. QED BY <2>3, <2>6, <3>1, RedactionAssumption
  <2> HIDE DEF f
  <2>8. n <= 2 /\ SubSeq(f, 1, n) = SubSeq(q, 1, n)
    BY <1>2, <1>6, <2>7 DEF IsPrefix, f
  <2>9. n \in 1..2 /\ f[n] = q[n]
    <3>1. n \in Nat /\ n >= 1
      BY <2>3, RedactionAssumption
    <3>2. SubSeq(f, 1, n)[n] = f[n] /\ SubSeq(q, 1, n)[n] = q[n]
      BY <1>2, <2>7, <2>8, <3>1, SubSeqProperties
    <3>. QED BY <2>8, <3>1, <3>2
  <2>10. n = 1
    BY <1>2, <2>7, <2>9
  <2>11. s = <<>>
    BY <2>5, <2>10, EmptySeq
  <2>. QED BY <1>2, <2>4, <2>11, ConcatEmptySeq
<1> HIDE DEF l
<1>7. l \in e \ dropped
  BY <1>4 DEF l
<1>8. CASE \E m \in marks: IsPrefix(Front(m.path), q)
  <2>1. PICK m \in marks: m.path = q
    BY <1>6, <1>8
  <2>2. l.path = q /\ l.is \notin {"object", "back"}
    BY <1>1
  <2>. QED BY <1>7, <2>1, <2>2 DEF Redact, l
<1>9. CASE ~\E m \in marks: IsPrefix(Front(m.path), q)
  <2>1. l.path = q
    BY <1>1
  <2>. QED BY <1>5, <1>7, <1>9, <2>1 DEF Redact, l
<1>. QED BY <1>8, <1>9

LEMMA TwiceHolds == TablesInv => RedactTwice
<1> SUFFICES ASSUME TablesInv, event # None PROVE RedactTwice
  BY DEF RedactTwice
<1> DEFINE once == Redact(event, "yes")
           deep == \E l \in once: Len(l.path) > MaxDepth /\ l.is # "<truncated>"
<1>1. event \subseteq Leaf /\ \A l \in event: WellPlaced(l)
  BY DEF TablesInv
<1>2. \A r \in once: Clean(r)
  BY <1>1, RedactedIsClean
<1>3. Mark(<<>>, "token") \in event => Mark(<<>>, "token") \in once
  BY <1>1, RootMarkStays
<1>4. ASSUME ~deep PROVE Redact(once, "yes") = once
  <2> HIDE DEF once
  <2>1. ASSUME NEW r \in once PROVE Passed(r) = r /\ ~Drops(r, "yes")
    <3>1. Len(r.path) \in Nat /\ MaxDepth \in Nat
      BY <1>2, <2>1, LeafHolds DEF Clean
    <3>2. Len(r.path) <= MaxDepth \/ r.is = "<truncated>"
      BY <1>4, <2>1, <3>1
    <3>. QED BY <1>2, <2>1, <3>2, CleanPasses
  <2>2. {l \in once: Drops(l, "yes")} = {} /\ Marks({}) = {}
    BY <2>1 DEF Marks
  <2>3. Redact(once, "yes") = {Passed(l): l \in {k \in once \ {}: TRUE}} \cup {} \cup {}
    BY <2>2 DEF Redact
  <2>4. {Passed(l): l \in {k \in once \ {}: TRUE}} = once
    BY <2>1
  <2>. QED BY <2>3, <2>4
<1>. QED BY <1>3, <1>4 DEF RedactTwice

LEMMA PrivateHolds == TablesInv => NothingPrivate
<1> SUFFICES ASSUME TablesInv, event # None, NEW salted, NEW l \in Redact(event, salted)
             PROVE  l.is \notin {"private", "session"}
  BY DEF NothingPrivate
<1>1. event \subseteq Leaf /\ \A k \in event: WellPlaced(k)
  BY DEF TablesInv
<1>2. Clean(l)
  BY <1>1, RedactedIsClean
<1>. QED BY <1>2 DEF Clean

-----------------------------------------------------------------------------
(* Any sequence of requests, passes and edits                               *)

LEMMA TablesInit == Init => TablesInv
<1> SUFFICES ASSUME Init PROVE TablesInv
  OBVIOUS
<1>. QED BY TablesAssumption DEF Init, TablesInv

LEMMA TablesStep == TablesInv /\ [Next]_vars => TablesInv'
<1> SUFFICES ASSUME TablesInv, [Next]_vars PROVE TablesInv'
  OBVIOUS
<1>1. CASE NextRequest
  BY <1>1 DEF NextRequest, TablesInv
<1>2. CASE RedactAgain
  <2>1. event' = Redact(event, "yes") /\ event # None /\ UNCHANGED <<shortlist, body, mode, file>>
    BY <1>2 DEF RedactAgain
  <2>2. \A r \in event': Clean(r)
    BY <2>1, RedactedIsClean DEF TablesInv
  <2>3. event' \subseteq Leaf /\ \A r \in event': WellPlaced(r)
    BY <2>2 DEF Clean, WellPlaced
  <2>. QED BY <2>1, <2>3 DEF TablesInv, WellPlaced
<1>3. CASE Wrap
  <2>1. /\ file.auto = None /\ file' = [auto |-> file.bare, bare |-> NoBlock, foreign |-> {}]
        /\ file # None /\ UNCHANGED <<shortlist, body, mode, event>>
    BY <1>3 DEF Wrap
  <2>2. file.bare \in Settings /\ NoBlock \in Settings
    BY <2>1, DocumentsHold DEF TablesInv, NoBlock, Settings
  <2>3. file' \in Documents /\ file'.foreign = {}
    BY <2>1, <2>2 DEF Documents
  <2>. QED BY <2>1, <2>3 DEF TablesInv, WellPlaced
<1>4. CASE Share
  <2>1. /\ file.auto # None /\ file # None /\ UNCHANGED <<shortlist, body, mode, event>>
        /\ \E keys \in SUBSET Foreign: file' = [file EXCEPT !.foreign = keys]
    BY <1>4 DEF Share
  <2>2. file \in Documents
    BY <2>1 DEF TablesInv
  <2>3. file' \in Documents /\ file'.auto = file.auto
    BY <2>1, <2>2 DEF Documents
  <2>. QED BY <2>1, <2>3 DEF TablesInv, WellPlaced
<1>5. CASE UNCHANGED vars
  BY <1>5 DEF vars, TablesInv, WellPlaced
<1>. QED BY <1>1, <1>2, <1>3, <1>4, <1>5 DEF Next

LEMMA TablesInvHolds == Spec => []TablesInv
BY TablesInit, TablesStep, PTL DEF Spec

\* Whatever is configured and whatever a gateway is asked, in whatever order: the
\* candidates it tries are those that fit, in the order of the contract.
THEOREM OrdersAreContract == Spec => []OrderIsContract
BY TablesInvHolds, OrderHolds, PTL

\* Pinning a session's candidate loses none of those it may fall back on.
THEOREM PinsKeepFallbacks == Spec => []PinKeepsFallbacks
BY TablesInvHolds, PinHolds, PTL

\* A conversation that grows never asks for a weaker tier nor gains a candidate.
THEOREM GrowthNeverWeakens == Spec => GrowthIsMonotone
<1> DEFINE Step ==
      body # None /\ Grows(body, body') =>
         /\ TierIndex(RequestedTier(mode, body)) <= TierIndex(RequestedTier(mode, body'))
         /\ ToSet(Tried(body')) \subseteq ToSet(Tried(body))
<1>1. ASSUME TablesInv, Next, body # None, Grows(body, body')
      PROVE  /\ TierIndex(RequestedTier(mode, body)) <= TierIndex(RequestedTier(mode, body'))
             /\ ToSet(Tried(body')) \subseteq ToSet(Tried(body))
  <2>1. body \in Bodies /\ shortlist \in Shortlists
    BY <1>1 DEF TablesInv
  <2>2. body' \in Bodies
    BY <1>1, <2>1 DEF Next, NextRequest, RedactAgain, Wrap, Share
  <2>. QED BY <1>1, <2>1, <2>2, TierGrows, FitsGrows
<1>2. TablesInv /\ [Next]_vars => [Step]_vars
  BY <1>1
<1>. QED BY <1>2, TablesInvHolds, PTL DEF Spec, GrowthIsMonotone

\* Neither a prompt nor a session id reaches the log, in whatever it is nested.
THEOREM NothingPrivateIsLogged == Spec => []NothingPrivate
BY TablesInvHolds, PrivateHolds, PTL

\* The second handler that redacts a record leaves it as the first one wrote it.
THEOREM SecondPassIsIdle == Spec => []RedactTwice
BY TablesInvHolds, TwiceHolds, PTL

\* With ephemeral ports, which are for tests, switched off: what loads can be bound.
THEOREM LoadedBinds == Ephemeral = "no" => (Spec => []LoadedIsUsable)
<1> SUFFICES ASSUME Ephemeral = "no" PROVE Spec => []LoadedIsUsable
  OBVIOUS
<1>1. TablesInv => LoadedIsUsable
  BY LoadHolds
<1>. QED BY <1>1, TablesInvHolds, PTL

\* The wrapper, and what else a file holds beside it, never change what it means.
THEOREM WrapperMeansNothing == Spec => WrapperIsOptional
<1> DEFINE Step ==
      file # None => \A named \in {"yes", "no"}:
         named = "yes" \/ file.bare.unknown = {} => Load(file', named) = Load(file, named)
<1>1. ASSUME TablesInv, Next PROVE Step
  <2>1. CASE Wrap \/ Share
    BY <1>1, <2>1, WrapHolds
  <2>2. CASE NextRequest \/ RedactAgain
    BY <2>2 DEF NextRequest, RedactAgain
  <2>. QED BY <1>1, <2>1, <2>2 DEF Next
<1>2. TablesInv /\ [Next]_vars => [Step]_vars
  BY <1>1
<1>. QED BY <1>2, TablesInvHolds, PTL DEF Spec, WrapperIsOptional

=============================================================================
