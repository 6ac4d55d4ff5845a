------------------------------ MODULE Redaction ------------------------------
(***************************************************************************)
(* redact of telemetry/redaction.py: what of the message of a log record   *)
(* and its arguments reaches the log.                                      *)
(* A record is the set of its leaves, each with the path of keys that      *)
(* leads to it; "#" is a place in a list.  The depth of a node is the      *)
(* length of its path.  Leaves: "plain", "private" and "session" are       *)
(* strings, "object" is of no JSON type, "back" refers to a node above.    *)
(***************************************************************************)
EXTENDS Integers, SequencesExt

CONSTANT MaxDepth      \* _MAX_DEPTH: 12 in the code

\* The names that a record lists at its root lie two deep.
ASSUME RedactionAssumption == MaxDepth \in Nat /\ MaxDepth >= 2

BannedKeys == {"messages", "token"}      \* two of the eleven

SessionIdKeys == {"root_session_id", "session_id"}

Texts == {"plain", "private", "session"}

\* Mutant: mappings inside lists are passed as they are.
StopsOutsideLists(path) ==
    {n \in DOMAIN path: /\ n <= MaxDepth + 1 /\ path[n] \in BannedKeys \cup SessionIdKeys
                        /\ ~Contains(SubSeq(path, 1, n), "#")}

\* Where a walk down the path meets a key that is not passed through.
Stops(path) ==
    {n \in DOMAIN path: n <= MaxDepth + 1 /\ path[n] \in BannedKeys \cup SessionIdKeys}

\* A session id is replaced by its digest when there is a salt and it is a string.
Digested(leaf, salted) ==
    LET n == Min(Stops(leaf.path))
    IN  /\ leaf.path[n] \in SessionIdKeys /\ n = Len(leaf.path)
        /\ leaf.is \in Texts /\ salted = "yes"

Drops(leaf, salted) == Stops(leaf.path) # {} /\ ~Digested(leaf, salted)

Rendered(is) ==
    CASE is = "object" -> "repr" [] is = "back" -> "<cycle>" [] OTHER -> is

Passed(leaf) ==
    IF Stops(leaf.path) # {}
      THEN [path |-> Append(Front(leaf.path), "root_session_hash"), is |-> "digest"]
    ELSE IF Len(leaf.path) > MaxDepth
      THEN [path |-> SubSeq(leaf.path, 1, MaxDepth + 1), is |-> "<truncated>"]
    ELSE [path |-> leaf.path, is |-> Rendered(leaf.is)]

\* What is dropped is named in the `_redacted` list of the mapping it was in.
Mark(at, name) == [path |-> at \o <<"_redacted", "#">>, is |-> name]

Marks(dropped) ==
    {LET n == Min(Stops(l.path)) IN Mark(SubSeq(l.path, 1, n - 1), l.path[n]): l \in dropped}

\* Mutant: an earlier list is lost.
RedactOverwrites(event, salted) ==
    LET dropped == {l \in event: Drops(l, salted)}
        marks == Marks(dropped)
        listed(l) == \E m \in marks: IsPrefix(Front(m.path), l.path)
    IN  {Passed(l): l \in {k \in event \ dropped: ~listed(k)}} \cup marks

\* A mapping that drops something keeps the names its `_redacted` list had.
Redact(event, salted) ==
    LET dropped == {l \in event: Drops(l, salted)}
        marks == Marks(dropped)
        listed(l) == \E m \in marks: IsPrefix(Front(m.path), l.path)
        prior(l) == \E m \in marks: m.path = l.path
    IN  {Passed(l): l \in {k \in event \ dropped: ~listed(k)}}
          \cup {l \in event \ dropped: prior(l) /\ l.is \notin {"object", "back"}} \cup marks

=============================================================================
