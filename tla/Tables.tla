------------------------------- MODULE Tables -------------------------------
(***************************************************************************)
(* The pure parts of the gateway over any inputs: the selector over lists  *)
(* of candidates and the requests they get, redaction over records, the    *)
(* loader over configuration files.  A behaviour is about one of the       *)
(* three; the inputs of the others are None.                               *)
(***************************************************************************)
EXTENDS Selector, Redaction, Config

CONSTANTS Shortlists, Bodies,    \* the selector's inputs
          Records, Words,        \* the redaction's, and all that a log may hold
          Files, Foreign         \* the loader's, and what others keep in them

Leaf == [path: Seq(Words) \ {<<>>}, is: Words]

\* The words of a prompt lie below a banned key, a session id right below its own;
\* what an earlier pass cut off it cut at the limit.
WellPlaced(l) ==
    /\ l.is = "private" => \E n \in DOMAIN l.path: l.path[n] \in BannedKeys \cup SessionIdKeys
    /\ l.is = "session" => l.path[Len(l.path)] \in SessionIdKeys
    /\ l.is = "<truncated>" => Len(l.path) <= MaxDepth + 1

Documents == [auto: {None} \cup Settings, bare: Settings, foreign: SUBSET Foreign]

ASSUME TablesAssumption ==
    /\ \A s \in Shortlists:
         /\ s \in Seq(CandidateType)
         /\ \A m, n \in DOMAIN s: s[m].id = s[n].id => m = n
    /\ \A b \in Bodies: b.tokens \in Nat /\ b.length \in Nat /\ b.messages \in Nat
    /\ \A e \in Records: e \subseteq Leaf /\ \A l \in e: WellPlaced(l)
    /\ BannedKeys \cup SessionIdKeys
         \cup {"_redacted", "#", "root_session_hash", "digest", "repr", "<cycle>", "<truncated>"}
         \subseteq Words
    /\ Foreign \subseteq STRING
    /\ \A f \in Files: f \in Documents /\ f.auto = None /\ f.foreign = {}
    /\ None \notin Settings /\ {None, Garbage} \cap Documents = {}

VARIABLES shortlist, body, mode,    \* a gateway's candidates and the request it selects for
          event,                    \* a log record
          file                      \* a configuration file
vars == <<shortlist, body, mode, event, file>>

Init ==
    \/ /\ shortlist \in Shortlists /\ body \in Bodies /\ mode \in Modes
       /\ event = None /\ file = None
    \/ /\ event \in Records
       /\ shortlist = None /\ body = None /\ mode = None /\ file = None
    \/ /\ file \in Files
       /\ shortlist = None /\ body = None /\ mode = None /\ event = None

\* The next request to the same gateway.
NextRequest ==
    /\ body # None /\ body' \in Bodies
    /\ UNCHANGED <<shortlist, mode, event, file>>

\* What redact returned is handed to redact again, "Idempotent" as its docstring is.
\* (Not by the handlers of one logger: the formatter redacts a copy for each.)
RedactAgain ==
    /\ event # None /\ event' = Redact(event, "yes")
    /\ UNCHANGED <<shortlist, body, mode, file>>

\* The operator puts the settings under `auto_router:`.
Wrap ==
    /\ file # None /\ file.auto = None
    /\ file' = [auto |-> file.bare, bare |-> NoBlock, foreign |-> {}]
    /\ UNCHANGED <<shortlist, body, mode, event>>

\* Hermes, or setup, changes what else the file holds.
Share ==
    /\ file # None /\ file.auto # None
    /\ \E keys \in SUBSET Foreign: file' = [file EXCEPT !.foreign = keys]
    /\ UNCHANGED <<shortlist, body, mode, event>>

Next == NextRequest \/ RedactAgain \/ Wrap \/ Share

Spec == Init /\ [][Next]_vars

-----------------------------------------------------------------------------
Tried(b) ==
    OrderedCandidates(EligibleCandidates(shortlist, b), RequestedTier(mode, b))

\* design.md, "Eligibility" and "Complexity and selection": the two filters and
\* the three-pass ordering of the code list exactly the candidates that fit, in
\* order of preference, at every boundary of the windows and the scores.
OrderIsContract ==
    body # None => IsContract(Tried(body), shortlist, body, RequestedTier(mode, body))

\* A conversation that grows never asks for a weaker tier, and never makes a
\* candidate eligible that could not serve it before.
GrowthIsMonotone ==
    [][body # None /\ Grows(body, body') =>
         /\ TierIndex(RequestedTier(mode, body)) <= TierIndex(RequestedTier(mode, body'))
         /\ ToSet(Tried(body')) \subseteq ToSet(Tried(body))]_vars

\* Pinning reorders and neither drops nor adds: what was pinned is tried first,
\* what it displaced is still there to fall back on.
PinKeepsFallbacks ==
    body # None =>
      \A c \in ToSet(Tried(body)):
        LET s == PinFirst(Tried(body), c.id)
        IN  s[1] = c /\ Len(s) = Len(Tried(body)) /\ ToSet(s) = ToSet(Tried(body))

-----------------------------------------------------------------------------
\* Whatever is nested in what, and whether or not there is a salt, neither the
\* words of a prompt nor a session id as it is comes through redact: not from the
\* message of a log record nor from its arguments, which are all that this program
\* logs.  (An attribute given by `extra=` is redacted as a value of its own: the
\* formatter drops a banned name, but does not ask whether it is `session_id`.)
NothingPrivate ==
    event # None =>
      \A salted \in {"yes", "no"}: \A l \in Redact(event, salted):
        l.is \notin {"private", "session"}

\* A second pass over a record changes nothing, unless the first put a digest or
\* a list of names at a depth that the second cuts off; and names listed by an
\* earlier pass survive one that drops more.
RedactTwice ==
    event # None =>
      LET once == Redact(event, "yes")
          deep == \E l \in once: Len(l.path) > MaxDepth /\ l.is # "<truncated>"
      IN  /\ deep \/ Redact(once, "yes") = once
          /\ Mark(<<>>, "token") \in event => Mark(<<>>, "token") \in once

-----------------------------------------------------------------------------
\* Whatever the file says, a configuration that loads has two ports that can be
\* bound side by side and candidates that can be told apart: the successor of the
\* last port is no port, and a file with both kinds of upstreams does not load.
LoadedIsUsable ==
    file # None /\ file # Garbage =>
      LET c == Load(file, "yes")
          block == IF file.auto # None THEN file.auto ELSE file.bare
      IN  c # None =>
            /\ c.port \in 1..LastPort /\ c.admin \in 1..LastPort \ {c.port}
            /\ c.ids # <<>> /\ IsInjective(c.ids)
            /\ block.upstream = None \/ block.candidates = None

\* "A standalone file that omits the wrapper is also accepted" (config.py): the
\* same settings mean the same with and without it, wherever the file is found;
\* under it, nothing else that the file holds makes a difference.  Only a key that
\* nobody knows is an error in a named file and hides all of another one.
WrapperIsOptional ==
    [][file # None => \A named \in {"yes", "no"}:
         named = "yes" \/ file.bare.unknown = {} => Load(file', named) = Load(file, named)]_vars

=============================================================================
