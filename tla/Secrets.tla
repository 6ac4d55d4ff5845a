------------------------------ MODULE Secrets ------------------------------
(***************************************************************************)
(* The bearer token, the admin token and the hashing salt of one state     *)
(* directory, each read or minted by whoever finds it missing: gateways as *)
(* they start and as they log, commands as they run.  A step is one system *)
(* call on a file; gateways may share the directory (an old one drains, or *)
(* two homes use the default directory).                                   *)
(***************************************************************************)
EXTENDS Integers, FiniteSets

CONSTANTS Gateways, Commands, None,
          MaxMints,     \* bound: secrets drawn in a behaviour
          Casts         \* who takes part and what may fail, see Cast

Procs == Gateways \cup Commands

SecretFiles == {"token", "admin", "salt"}

\* The secret number `id`, or what there is of it.
Secret == [id: 0..MaxMints, whole: {"yes", "no"}]

ASSUME SecretsAssumption ==
    /\ MaxMints \in Nat
    /\ None \notin Nat /\ None \notin Secret /\ None \notin SecretFiles
    /\ None \notin Procs /\ "user" \notin Procs /\ Gateways \cap Commands = {}
    /\ \A k \in Casts:
          /\ k.procs \subseteq Procs \cup {"user"} /\ k.faults \in Nat
          /\ k.mints \in 0..MaxMints /\ k.secret \in [SecretFiles -> {None} \cup Secret]

VARIABLES
    cast,       \* bound: the one of Casts this behaviour has; never changes
    todo,       \* those of its cast that have not begun
    spent,      \* the faults that have happened
    secret,     \* secret[f]: None, or whose secret it is and whether all of it is there
    mints,      \* the secrets drawn so far
    job,        \* job[p]: the file p is minting, the next step, and its own draft
    life,       \* life[g]: "down", "token" and "admin" during startup, "up"
    held,       \* held[g]: the bearer token that g enforces
    salt,       \* salt[g]: the salt in g's cache
    overlap     \* whether one gateway went for the salt while another was at it

secretVars == <<cast, todo, spent, secret, mints, job, life, held, salt, overlap>>

Jobs == [file: SecretFiles \cup {None}, id: 0..MaxMints,
         step: {"idle", "claim", "unlink", "create", "write", "written", "failed", "read",
                "undo"}]

Idle == [file |-> None, step |-> "idle", id |-> 0]

SecretsTypeOK ==
    /\ cast \in Casts
    /\ todo \subseteq Procs \cup {"user"}
    /\ spent \in 0..cast.faults
    /\ secret \in [SecretFiles -> {None} \cup Secret]
    /\ mints \in 0..MaxMints
    /\ job \in [Procs -> Jobs]
    /\ life \in [Gateways -> {"down", "token", "admin", "up"}]
    /\ held \in [Gateways -> {None} \cup 0..MaxMints]
    /\ salt \in [Gateways -> {None} \cup 0..MaxMints]
    /\ overlap \in {"yes", "no"}

SecretsInit ==
    /\ cast \in Casts
    /\ todo = cast.procs
    /\ spent = 0
    /\ secret = cast.secret /\ mints = cast.mints
    /\ job = [p \in Procs |-> Idle]
    /\ life = [g \in Gateways |-> "down"]
    /\ held = [g \in Gateways |-> None]
    /\ salt = [g \in Gateways |-> None]
    /\ overlap = "no"

\* What a reader gets: None from a missing file, 0 from one without its content.
Holds(f) ==
    IF secret[f] = None THEN None ELSE IF secret[f].whole = "yes" THEN secret[f].id ELSE 0

Present(f) == Holds(f) # None /\ Holds(f) # 0

Fault == spent < cast.faults /\ spent' = spent + 1

Fine == UNCHANGED spent

At(p, step) == job[p].step = step

Goes(p, step) == job' = [job EXCEPT ![p].step = step]

Puts(f, content) == secret' = [secret EXCEPT ![f] = content]

Draw(p, f, step) ==
    /\ mints < MaxMints /\ mints' = mints + 1
    /\ job' = [job EXCEPT ![p] = [file |-> f, step |-> step, id |-> mints + 1]]

Done(p) == job' = [job EXCEPT ![p] = Idle]

-----------------------------------------------------------------------------
(* secure_write: removes what is there, creates the file, writes its own    *)
(* file, which by then may no longer be the one of that name                *)

Unlink(p) ==
    /\ At(p, "unlink")
    /\ \/ Fine /\ Puts(job[p].file, None) /\ Goes(p, "create")
       \/ Fault /\ Goes(p, "failed") /\ UNCHANGED secret

Create(p) ==
    /\ At(p, "create")
    /\ \/ /\ secret[job[p].file] = None /\ Fine
          /\ Puts(job[p].file, [id |-> job[p].id, whole |-> "no"])
          /\ Goes(p, "write")
       \/ /\ \/ secret[job[p].file] # None /\ Fine      \* O_EXCL
             \/ Fault
          /\ Goes(p, "failed")
          /\ UNCHANGED secret

Mine(p) == [id |-> job[p].id, whole |-> "no"]

Write(p) ==
    /\ At(p, "write")
    /\ \/ /\ Fine
          /\ IF secret[job[p].file] = Mine(p)
               THEN Puts(job[p].file, [Mine(p) EXCEPT !.whole = "yes"])
               ELSE UNCHANGED secret
          /\ Goes(p, "written")
       \/ Fault /\ Goes(p, "failed") /\ UNCHANGED secret

SecureWrite(p) ==
    /\ Unlink(p) \/ Create(p) \/ Write(p)
    /\ UNCHANGED <<cast, todo, mints, life, held, salt, overlap>>

-----------------------------------------------------------------------------
(* A gateway starts: the lifespan of the inference app, that of the admin app *)

Becomes(g, stage) == life' = [life EXCEPT ![g] = stage]

Start(g) ==
    /\ g \in todo /\ todo' = todo \ {g}
    /\ Becomes(g, "token")
    /\ UNCHANGED <<cast, spent, secret, mints, job, held, salt, overlap>>

\* Read once: what it says now is what the gateway enforces until it goes.  The two
\* apps start as tasks of their own: one that fails does not keep the other from it.
ReadToken(g) ==
    /\ life[g] = "token" /\ At(g, "idle")
    /\ \/ Holds("token") = None /\ Draw(g, "token", "unlink") /\ UNCHANGED <<life, held>>
       \/ Holds("token") = 0 /\ Becomes(g, "admin") /\ UNCHANGED <<mints, job, held>>
       \/ /\ Present("token")
          /\ held' = [held EXCEPT ![g] = Holds("token")]
          /\ Becomes(g, "admin")
          /\ UNCHANGED <<mints, job>>
    /\ UNCHANGED <<cast, todo, spent, secret, salt, overlap>>

TokenMinted(g) ==
    /\ life[g] = "token" /\ Done(g)
    /\ Becomes(g, "admin")
    /\ \/ At(g, "written") /\ held' = [held EXCEPT ![g] = job[g].id]
       \/ At(g, "failed") /\ UNCHANGED held
    /\ UNCHANGED <<cast, todo, spent, secret, mints, salt, overlap>>

\* With both apps started it serves, with one of them it goes.
Serves(g) == Becomes(g, IF held[g] # None THEN "up" ELSE "down")

\* Mutant: takes a damaged file for a token.
ReadAdminTrusting(g) ==
    /\ life[g] = "admin" /\ At(g, "idle")
    /\ \/ Holds("admin") = None /\ Draw(g, "admin", "unlink") /\ UNCHANGED life
       \/ Holds("admin") # None /\ Serves(g) /\ UNCHANGED <<mints, job>>
    /\ UNCHANGED <<cast, todo, spent, secret, held, salt, overlap>>

\* Nothing is kept of it: requests read the file.  A damaged one is minted anew.
ReadAdmin(g) ==
    /\ life[g] = "admin" /\ At(g, "idle")
    /\ \/ ~Present("admin") /\ Draw(g, "admin", "unlink") /\ UNCHANGED life
       \/ Present("admin") /\ Serves(g) /\ UNCHANGED <<mints, job>>
    /\ UNCHANGED <<cast, todo, spent, secret, held, salt, overlap>>

AdminMinted(g) ==
    /\ life[g] = "admin" /\ Done(g)
    /\ \/ At(g, "written") /\ Serves(g) /\ UNCHANGED held
       \/ At(g, "failed") /\ Becomes(g, "down") /\ held' = [held EXCEPT ![g] = None]
    /\ UNCHANGED <<cast, todo, spent, secret, mints, salt, overlap>>

\* The process ends: whatever it was at stays as it is.
Crash(g) ==
    /\ life[g] # "down" /\ Fault
    /\ Becomes(g, "down") /\ Done(g)
    /\ held' = [held EXCEPT ![g] = None]
    /\ salt' = [salt EXCEPT ![g] = None]
    /\ UNCHANGED <<cast, todo, secret, mints, overlap>>

\* require_admin: the credential of a request against the file as it is now.
RequireAdmin(supplied) == Present("admin") /\ supplied = Holds("admin")

-----------------------------------------------------------------------------
(* A gateway logs a session id: _salt_for, _load_or_create_salt             *)

LookUp(g) ==
    /\ life[g] = "up" /\ At(g, "idle") /\ salt[g] = None /\ cast.hashing = "yes"
    /\ \/ secret["salt"] = None /\ Draw(g, "salt", "claim")
       \/ /\ secret["salt"] # None
          /\ job' = [job EXCEPT ![g] = [file |-> "salt", step |-> "read", id |-> 0]]
          /\ UNCHANGED mints
    /\ overlap' = IF \E h \in Gateways \ {g}: job[h].file = "salt" THEN "yes" ELSE overlap
    /\ UNCHANGED <<cast, todo, spent, secret, life, held, salt>>

\* Creates the file, or loses to whoever did.
Claim(g) ==
    /\ At(g, "claim")
    /\ \/ secret["salt"] = None /\ Fine /\ Puts("salt", Mine(g)) /\ Goes(g, "unlink")
       \/ secret["salt"] # None /\ Fine /\ Goes(g, "read") /\ UNCHANGED secret
       \/ Fault /\ Done(g) /\ UNCHANGED secret
    /\ UNCHANGED <<cast, todo, mints, life, held, salt, overlap>>

\* Mutant: the loser of the claim waits until the winner has written.
ReadSaltPatiently(g) ==
    /\ At(g, "read") /\ Present("salt") /\ Done(g)
    /\ salt' = [salt EXCEPT ![g] = Holds("salt")]
    /\ UNCHANGED <<cast, todo, spent, secret, mints, life, held, overlap>>

\* Missing by now or not whole: the session id is dropped from the record.
ReadSalt(g) ==
    /\ At(g, "read") /\ Done(g)
    /\ salt' = IF Present("salt") THEN [salt EXCEPT ![g] = Holds("salt")] ELSE salt
    /\ UNCHANGED <<cast, todo, spent, secret, mints, life, held, overlap>>

Unverified == (secret["salt"] = None /\ Fine) \/ Fault

\* Mutant: caches before the permissions are read back.
SaltCached(g) ==
    /\ job[g].file = "salt" /\ At(g, "written")
    /\ salt' = [salt EXCEPT ![g] = job[g].id]
    /\ \/ secret["salt"] # None /\ Fine /\ Done(g)
       \/ Unverified /\ Goes(g, "undo")
    /\ UNCHANGED <<cast, todo, secret, mints, life, held, overlap>>

\* The permissions of whatever has the name by now are read back.
SaltWritten(g) ==
    /\ job[g].file = "salt" /\ At(g, "written")
    /\ \/ /\ secret["salt"] # None /\ Fine /\ Done(g)
          /\ salt' = [salt EXCEPT ![g] = job[g].id]
       \/ Unverified /\ Goes(g, "undo") /\ UNCHANGED salt
    /\ UNCHANGED <<cast, todo, secret, mints, life, held, overlap>>

SaltFailed(g) ==
    /\ job[g].file = "salt" /\ At(g, "failed")
    /\ Goes(g, "undo")
    /\ UNCHANGED <<cast, todo, spent, secret, mints, life, held, salt, overlap>>

\* What has the name by now goes, whoever wrote it; the error of that is ignored.
Undo(g) ==
    /\ At(g, "undo") /\ Done(g)
    /\ (Fine /\ Puts("salt", None)) \/ (Fault /\ UNCHANGED secret)
    /\ UNCHANGED <<cast, todo, mints, life, held, salt, overlap>>

\* What a gateway has begun it goes on with.
GatewayStep(g) ==
    \/ SecureWrite(g)
    \/ ReadToken(g) \/ TokenMinted(g) \/ ReadAdmin(g) \/ AdminMinted(g)
    \/ Claim(g) \/ ReadSalt(g) \/ SaltWritten(g) \/ SaltFailed(g) \/ Undo(g)

GatewayRuns(g) == Start(g) \/ GatewayStep(g) \/ LookUp(g) \/ Crash(g)

-----------------------------------------------------------------------------
\* Gateways that went for the salt one after the other all use that of the file,
\* whatever failed on the way (_load_or_create_salt): nobody caches a salt that it
\* could not verify and took away again, or that a crash left half written.
SerialSaltsAgree ==
    overlap = "no" =>
      \A g \in Gateways: salt[g] # None => Holds("salt") = salt[g]

\* "Two processes with different salts produce different digests for the same
\* session" (redaction.py): "the loser of that race must adopt the winner's salt".
SaltsAgree ==
    \A g, h \in Gateways: salt[g] # None /\ salt[h] # None => salt[g] = salt[h]

=============================================================================
