----------------------------- MODULE MCInstall -----------------------------
(* Who meets whom: each behaviour has one cast, of a few processes over one  *)
(* home and one state directory, with a budget of faults and crashes.        *)
EXTENDS Setup

CONSTANTS g1, g2, c1, c2

MCGateways == {g1, g2}
MCCommands == {c1, c2}

Candidate(id) == [id |-> id, tier |-> "fast", window |-> 1, base |-> "absolute",
                  ref |-> "env", keys |-> Required]

MCApproved == <<Candidate("a"), Candidate("b")>>

At9000 == [NoGateway EXCEPT !.url = [scheme |-> "http", port |-> 9000]]

-----------------------------------------------------------------------------
(* Homes and state directories                                              *)

Own == [EmptyDoc EXCEPT !.own = 1]

Bare == [EmptyDoc EXCEPT !.bare = [NoBlock EXCEPT !.gateway = At9000]]

Wrapped == [Own EXCEPT !.auto = [NoBlock EXCEPT !.gateway = At9000]]

Refused == [Own EXCEPT !.auto = [NoBlock EXCEPT !.unknown = {"typo"}]]

Empty == [f \in Homes |-> None]

With(doc) == [Empty EXCEPT !["config"] = doc]

\* An earlier release was set up for another port.
Older(doc) == [Empty EXCEPT !["config"] = doc, !["bak"] = Own, !["aliasbak"] = Own,
                            !["shim"] = Shim("old", 9000),
                            !["init"] = Control("old"), !["manifest"] = Control("old")]

Nothing == [secret |-> [f \in SecretFiles |-> None], mints |-> 0]

Both == [secret |-> [token |-> [id |-> 1, whole |-> "yes"], admin |-> [id |-> 2, whole |-> "yes"],
                     salt |-> None], mints |-> 2]

Damaged(f) == [Both EXCEPT !.secret[f].whole = "no"]

-----------------------------------------------------------------------------
All(op) == [c \in MCCommands |-> op]

Cast(procs, op, faults, state, files) ==
    [procs |-> procs, op |-> op, faults |-> faults, hashing |-> "no", given |-> "no",
     secret |-> state.secret, mints |-> state.mints, home |-> files]

Docs == {None, EmptyDoc, Own, Bare, Wrapped, Refused, Garbage,
         [Own EXCEPT !.plugins = "others", !.alias = 9000],
         [Own EXCEPT !.plugins = "flow"], [Own EXCEPT !.plugins = "both", !.alias = 8787],
         [Own EXCEPT !.plugins = "odd"], [Own EXCEPT !.auto = Garbage],
         [Own EXCEPT !.alias = 0]}

\* One setup over every kind of home, with so many things going wrong.
Alone(faults) ==
         {Cast({c1}, All("setup"), faults, Both, h):
            h \in {With(d): d \in Docs} \cup {Older(d): d \in Docs}}
         \cup {Cast({c1}, All("setup"), faults, Nothing, h):
            h \in {With(None), With(Wrapped), Older(Own), Older(Bare)}}
         \cup {Cast({c1}, All("setup"), 1, Damaged(f), With(Own)): f \in {"token", "admin"}}
         \cup {Cast({c1}, All("setup"), 2, Both, [With(Own) EXCEPT ![f] = Theirs]):
                 f \in {"shim", "init", "manifest"}}
         \cup {[Cast({c1}, All("setup"), 1, Both, With(d)) EXCEPT !.given = "yes"]: d \in Docs}

\* Beside an operator who edits one file, or beside another command.
Disturbed == {Cast({c1, "user"}, All("setup"), 0, Both, h): 
                      h \in {With(Own), Older(Wrapped), With(None), With([Own EXCEPT !.plugins = "both"])}}
             \cup {Cast({c1, "user"}, All("configure"), 1, Both, With(Own))}
             \cup {Cast({c1, c2}, All("setup"), 0, Both, h):
                      h \in {With([Own EXCEPT !.plugins = "both", !.alias = 9000]),
                             [Older(Own) EXCEPT !["manifest"] = Theirs]}}
             \cup {Cast({c1, c2}, [All("setup") EXCEPT ![c2] = "configure"], 0, Both, With(Wrapped))}

\* configure over every kind of document.
Configuring == {Cast({c1}, All("configure"), 2, Both, With(d)): d \in Docs}

\* Beside gateways that start.
Starting == {Cast({c1, g1}, All("setup"), 0, Nothing, With(Own)),
             Cast({c1, g1}, All("setup"), 1, Damaged("admin"), With(Own))}
            \cup {Cast({c1, g1}, All("setup"), 0, s, [Empty EXCEPT !["shim"] = Theirs]):
                    s \in {Nothing, Both}}
            \cup {Cast({c1, g1}, All("doctor"), 2, s, Empty): s \in {Nothing, Damaged("admin")}}
            \cup {Cast({g1, g2}, All("doctor"), 1, s, Empty): s \in {Nothing, Damaged("token")}}
            \cup {Cast({c1, g1, g2}, All("doctor"), 1, Damaged("admin"), Empty)}

\* Gateways that log a session at the same time.
Hashing(faults) == [Cast({g1, g2}, All("doctor"), faults, Both, Empty) EXCEPT !.hashing = "yes"]

MCCasts == Alone(2) \cup Disturbed \cup Configuring \cup Starting \cup {Hashing(2)}

SaltCasts == {Hashing(0)}

BareCasts == {Cast({c1}, All("setup"), 0, Both, With(Bare))}

=============================================================================
