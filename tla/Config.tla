------------------------------- MODULE Config -------------------------------
(***************************************************************************)
(* load_config of config.py: what a configuration file means.  A document  *)
(* is [auto, bare, foreign]: the block under `auto_router:` (None without  *)
(* one), the settings it would be if the document itself is the block, and *)
(* its other root keys.  A block is [gateway, upstream, candidates,        *)
(* unknown], an absent part is None, a value of the wrong type is          *)
(* represented by one out of range.  ConfigError is the result None.       *)
(***************************************************************************)
EXTENDS Integers, SequencesExt

CONSTANTS None,
          Garbage,      \* a file that is not YAML, not UTF-8 or not a mapping
          Ephemeral     \* "yes" when the environment allows port 0

ASSUME ConfigAssumption == None # Garbage /\ Ephemeral \in {"yes", "no"}

DefaultPort == 8787

DefaultUrl == [scheme |-> "http", port |-> DefaultPort]

NoGateway == [url |-> None, port |-> None, admin |-> None, timeout |-> None]

NoBlock == [gateway |-> None, upstream |-> None, candidates |-> None, unknown |-> {}]

\* What the parser may hand over; a block that is a scalar or a list is out of range,
\* and so is a value of one with a key that nobody knows inside `gateway` or `upstream`,
\* which does not load either: here it is one with a value that does not.
Settings ==
    [gateway: {None} \cup [url: {None} \cup [scheme: STRING, port: {None} \cup Int],
                           port: {None} \cup Int, admin: {None} \cup Int,
                           timeout: {None} \cup Int],
     upstream: {None} \cup [base: STRING, ref: STRING],
     candidates: {None} \cup Seq([id: STRING, tier: STRING, window: Int, base: STRING,
                                 ref: STRING, keys: SUBSET STRING]),
     unknown: SUBSET STRING]

Given(value, default) == IF value = None THEN default ELSE value

-----------------------------------------------------------------------------
(* The gateway block                                                        *)

LastPort == 65535

PortOK(n) == n \in 1..LastPort \/ (n = 0 /\ Ephemeral = "yes")

\* An address that cannot be parsed has port -1.
PortFromUrl(url) ==
    IF url.port # None THEN url.port
    ELSE CASE url.scheme = "https" -> 443 [] url.scheme = "http" -> 80 [] OTHER -> DefaultPort

\* Mutant: the successor of the port is taken for a port.
GatewayUnchecked(g) ==
    LET url == Given(g.url, DefaultUrl)
        port == Given(g.port, PortFromUrl(url))
        admin == Given(g.admin, IF port = 0 THEN 0 ELSE port + 1)
    IN  IF PortOK(port) /\ (g.admin # None => PortOK(admin)) /\ (admin = 0 \/ admin # port)
             /\ Given(g.timeout, 10) > 0
          THEN [port |-> port, admin |-> admin, dial |-> PortFromUrl(url)]
          ELSE None

\* The ports that are bound, and the one that the shim dials.
Gateway(g) ==
    LET url == Given(g.url, DefaultUrl)
        port == Given(g.port, PortFromUrl(url))
        admin == Given(g.admin, IF port = 0 THEN 0 ELSE port + 1)
    IN  IF PortOK(port) /\ PortOK(admin) /\ (admin = 0 \/ admin # port)
             /\ Given(g.timeout, 10) > 0
          THEN [port |-> port, admin |-> admin, dial |-> PortFromUrl(url)]
          ELSE None

-----------------------------------------------------------------------------
(* The candidates, or the one upstream of earlier releases                  *)

\* No credential is written into the file: not in an address, not by itself.
BaseUrlOK(base) == base = "absolute"

CredentialRefOK(ref) == ref \in {"env", "none"}

Required == {"id", "provider", "model", "base_url", "credential_ref", "tier",
             "context_window", "supports_tools", "supports_vision"}

UpstreamOK(u) == u = None \/ (BaseUrlOK(u.base) /\ CredentialRefOK(u.ref))

CandidateOK(c) ==
    /\ c.keys = Required
    /\ c.tier \in {"fast", "balanced", "strong"}
    /\ c.window > 0
    /\ BaseUrlOK(c.base) /\ CredentialRefOK(c.ref)

CandidatesOK(list) ==
    /\ list # <<>>
    /\ \A n \in DOMAIN list: CandidateOK(list[n])
    /\ \A m, n \in DOMAIN list: list[m].id = list[n].id => m = n

\* The ids of resolved_candidates: without a list it is the migrated upstream.
ResolvedIds(block) ==
    IF block.candidates = None THEN <<"legacy-upstream">>
    ELSE [n \in DOMAIN block.candidates |-> block.candidates[n].id]

-----------------------------------------------------------------------------
Defaults == [port |-> DefaultPort, admin |-> DefaultPort + 1, dial |-> DefaultPort,
             ids |-> <<"legacy-upstream">>]

Block(b) ==
    LET g == Gateway(Given(b.gateway, NoGateway))
    IN  IF /\ b.unknown = {} /\ g # None
           /\ UpstreamOK(b.upstream)
           /\ b.candidates = None \/ (b.upstream = None /\ CandidatesOK(b.candidates))
          THEN [port |-> g.port, admin |-> g.admin, dial |-> g.dial, ids |-> ResolvedIds(b)]
          ELSE None

\* Mutant: only a file that is named may do without the wrapper.
LoadWrapped(d, named) ==
    CASE d = None -> (IF named = "yes" THEN None ELSE Defaults)
      [] d = Garbage -> None
      [] OTHER ->
           IF d.auto # None THEN Block(d.auto)
           ELSE IF named = "no" THEN Defaults
           ELSE Block([d.bare EXCEPT !.unknown = @ \cup d.foreign])

\* A file is `named` when the caller or HERMES_AUTO_CONFIG names it, not when it
\* is looked for in $HERMES_HOME: there, foreign keys make it unrelated.
Load(d, named) ==
    CASE d = None -> (IF named = "yes" THEN None ELSE Defaults)
      [] d = Garbage -> None
      [] OTHER ->
           IF d.auto # None THEN Block(d.auto)
           ELSE IF named = "no" /\ d.bare.unknown \cup d.foreign # {} THEN Defaults
           ELSE Block([d.bare EXCEPT !.unknown = @ \cup d.foreign])

=============================================================================
