------------------------------- MODULE Setup -------------------------------
(***************************************************************************)
(* The commands that write files: setup, configure and doctor of           *)
(* commands.py with hermes_shim/installer.py, over one Hermes home and one *)
(* state directory, beside gateways that start and an operator who edits.  *)
(* A step reads or writes one file.  The config.yaml is what the commands  *)
(* tell apart in it:                                                       *)
(*   own       a number for every value in it that is the operator's       *)
(*   auto      the block under `auto_router:`, None without one, Garbage   *)
(*             where it is no mapping                                      *)
(*   bare      router settings at the root of the document, NoBlock: none  *)
(*   plugins   see Plugins                                                 *)
(*   alias     the port /model auto points to, None, or 0: no mapping      *)
(*   layout    "theirs": its comments and format are its author's;         *)
(*             "dumped": lost in a dump of the parsed document             *)
(***************************************************************************)
EXTENDS Secrets, Sequences

CONSTANTS Garbage,     \* a file that the loader cannot parse
          Ephemeral,   \* "yes" when the environment allows port 0
          Theirs,      \* a file of the operator's where a shim would go
          Approved     \* the candidates that configure writes

INSTANCE Config

Homes == {"shim", "init", "manifest", "config", "bak", "aliasbak", "confbak"}

\* What setup takes a snapshot of, in the order of its rollback.
Managed == <<"token", "admin", "shim", "init", "manifest", "config", "bak", "aliasbak">>

\* No `plugins`; a list of others, of this one, of both; an inline mapping, which
\* this program does not edit; a shape ("odd": `enabled:` without a value) whose edit
\* does not verify ("mangled"); and a list that has the plugin twice.
Plugins == {"absent", "others", "ours", "both", "flow", "odd", "mangled", "twice"}

Document == [own: Nat, auto: {None, Garbage} \cup Settings, bare: Settings,
             plugins: Plugins, alias: {None} \cup Int, layout: {"theirs", "dumped"}]

\* The release that wrote a shim, and the port it dials (0: none).
ShimFiles == [version: {"old", "new"}, dial: Int]

\* What file f may hold.
Contents(f) ==
    IF f \in SecretFiles THEN {None} \cup Secret
    ELSE IF f \in {"shim", "init", "manifest"} THEN {None, Theirs} \cup ShimFiles
    ELSE {None, Garbage} \cup Document

\* What the loader is given of a document.
AsFiles == [auto: {None} \cup Settings, bare: Settings,
            foreign: SUBSET {"own", "plugins", "model_aliases"}]

ASSUME SetupAssumption ==
    /\ None \notin Int /\ None \notin Document /\ None \notin ShimFiles /\ None \notin Settings
    /\ Garbage \notin Document \cup Settings \cup {None} /\ Theirs \notin ShimFiles \cup {None}
    /\ None # Defaults
    /\ {None, Garbage} \cap AsFiles = {}
    /\ Approved # None /\ [NoBlock EXCEPT !.candidates = Approved] \in Settings
    /\ \A k \in Casts:
          /\ k.op \in [Commands -> {"setup", "configure", "doctor"}]
          /\ k.given \in {"yes", "no"}
          /\ k.home = [f \in Homes |-> k.home[f]] /\ \A f \in Homes: k.home[f] \in Contents(f)

VARIABLES
    home,       \* home[f]: what file f holds, None without it
    pc,         \* pc[c]: where command c is
    url,        \* url[c]: the port its configuration makes Hermes dial
    read,       \* read[c]: the config.yaml it read last
    prior,      \* prior[c]: the control shim's two files before it wrote them
    failed,     \* failed[c]: whether a part of setup has failed
    snap,       \* snap[c]: setup's snapshots
    roll,       \* roll[c]: the snapshot its rollback is at
    touched,    \* history: touched[c], the files that others changed since c began
    racers      \* history: racers[g], who was minting the token when the file last
                \* came to hold the one that g enforces

setupVars == <<home, pc, url, read, prior, failed, snap, roll>>
vars == <<secretVars, setupVars, touched, racers>>

Op(c) == cast.op[c]

EmptyDoc == [own |-> 0, auto |-> None, bare |-> NoBlock, plugins |-> "absent", alias |-> None,
             layout |-> "theirs"]

\* A file that is missing is read as an empty document.
Text(doc) == IF doc = None THEN EmptyDoc ELSE doc

\* The document as the loader sees it: one whose `auto_router` is no mapping it
\* refuses like one that it cannot parse.
AsFile(doc) ==
    IF doc \in {None, Garbage} THEN doc
    ELSE IF doc.auto = Garbage THEN Garbage
    ELSE [auto |-> doc.auto, bare |-> doc.bare,
          foreign |-> (IF doc.own > 0 THEN {"own"} ELSE {})
                        \cup (IF doc.plugins # "absent" THEN {"plugins"} ELSE {})
                        \cup (IF doc.alias # None THEN {"model_aliases"} ELSE {})]

Listed(doc) == doc.plugins \in {"ours", "both", "twice"}

\* What `plugins` becomes with this plugin's line inserted.
Inserted == [absent |-> "ours", others |-> "both", ours |-> "twice", both |-> "twice",
             twice |-> "twice", odd |-> "mangled", mangled |-> "mangled"]

\* _plan_edit: text surgery that keeps the rest as it is, None where it would be a
\* guess.  It does not ask whether the plugin is in the list already.
PlanEdit(doc) ==
    IF doc.plugins = "flow" THEN None ELSE [doc EXCEPT !.plugins = Inserted[@]]

\* What a parser makes of a document: the values.
Parsed(doc) == [doc EXCEPT !.layout = "theirs"]

\* The file parses to the same values as the document.
ParsesTo(doc) == home["config"] \notin {None, Garbage} /\ Parsed(home["config"]) = Parsed(doc)

Shim(version, port) == [version |-> version, dial |-> port]

Control(version) == Shim(version, 0)

Content(f) == IF f \in SecretFiles THEN secret[f] ELSE home[f]

NoSnapshots == [n \in DOMAIN Managed |-> None]

SetupInit ==
    /\ SecretsInit
    /\ home = cast.home
    /\ pc = [c \in Commands |-> "off"]
    /\ url = [c \in Commands |-> 0]
    /\ read = [c \in Commands |-> None]
    /\ prior = [c \in Commands |-> <<None, None>>]
    /\ failed = [c \in Commands |-> "no"]
    /\ snap = [c \in Commands |-> NoSnapshots]
    /\ roll = [c \in Commands |-> 1]
    /\ touched = [c \in Commands |-> {}]
    /\ racers = [g \in Gateways |-> {}]

-----------------------------------------------------------------------------
On(c, from) == pc[c] = from

To(c, to) == pc' = [pc EXCEPT ![c] = to]

\* This part of setup failed, the next one is tried all the same.
FailsTo(c, to) == To(c, to) /\ failed' = [failed EXCEPT ![c] = "yes"]

Sets(f, content) == home' = [home EXCEPT ![f] = content]

Reads(c) == read' = [read EXCEPT ![c] = home["config"]]

Frame == UNCHANGED <<cast, todo, life, held, salt, overlap>>

NoSecrets == Frame /\ UNCHANGED <<secret, mints, job>>

\* The rest of a command's state.
Keeps == UNCHANGED <<url, prior, snap, roll>>

-----------------------------------------------------------------------------
(* setup: what it starts from                                               *)

Begin(c) ==
    /\ c \in todo /\ todo' = todo \ {c}
    /\ On(c, "off")
    /\ To(c, CASE Op(c) = "setup" -> "resolve" [] Op(c) = "configure" -> "cfg"
               [] Op(c) = "doctor" -> "doctor")
    /\ UNCHANGED <<cast, spent, secret, mints, job, life, held, salt, overlap, home, read, failed>>
    /\ Keeps

\* With --hermes-home only a wrapped block is looked at; else $HERMES_HOME, which
\* is set, names the home.
SetupConfig(doc, given) ==
    IF given = "no" THEN Load(AsFile(doc), "no")
    ELSE IF doc = Garbage THEN None
    ELSE IF doc = None \/ doc.auto = None THEN Defaults
    ELSE Load(AsFile(doc), "yes")

Resolve(c) ==
    /\ On(c, "resolve") /\ Fine
    /\ LET config == SetupConfig(home["config"], cast.given)
       IN  IF config = None THEN To(c, "refused") /\ UNCHANGED url
           ELSE To(c, "snap_token") /\ url' = [url EXCEPT ![c] = config.dial]
    /\ NoSecrets /\ UNCHANGED <<home, read, prior, failed, snap, roll>>

Snaps(c, from, which, to) ==
    /\ On(c, from)
    /\ \/ /\ Fine /\ To(c, to)
          /\ snap' = [snap EXCEPT ![c] = [n \in DOMAIN Managed |->
                        IF n \in which THEN Content(Managed[n]) ELSE @[n]]]
       \/ Fault /\ To(c, "refused") /\ UNCHANGED snap
    /\ NoSecrets /\ UNCHANGED <<home, url, read, prior, failed, roll>>

\* Mutant: the second backup is not among the snapshots.
SnapshotWithoutAlias(c) ==
    \/ Snaps(c, "snap_token", {1}, "snap_admin")
    \/ Snaps(c, "snap_admin", {2}, "snap_home")
    \/ Snaps(c, "snap_home", 3..7, "token")

\* Nobody but a command writes the files of the home, but for the operator.
Snapshot(c) ==
    \/ Snaps(c, "snap_token", {1}, "snap_admin")
    \/ Snaps(c, "snap_admin", {2}, "snap_home")
    \/ Snaps(c, "snap_home", 3..8, "token")

-----------------------------------------------------------------------------
(* setup: the tokens; doctor mints the admin token too                      *)

\* Mutant: mints whatever is there.
TokenAlways(c) ==
    /\ On(c, "token") /\ At(c, "idle") /\ Fine
    /\ Draw(c, "token", "unlink")
    /\ Frame /\ UNCHANGED <<secret, home, pc, read, failed>> /\ Keeps

\* The token a gateway may be enforcing is left alone, even a damaged one.
Token(c) ==
    /\ On(c, "token") /\ At(c, "idle") /\ Fine
    /\ \/ Holds("token") = None /\ Draw(c, "token", "unlink") /\ UNCHANGED <<pc, failed>>
       \/ Holds("token") = 0 /\ FailsTo(c, "admin") /\ UNCHANGED <<mints, job>>
       \/ Present("token") /\ To(c, "token_perms") /\ UNCHANGED <<mints, job, failed>>
    /\ Frame /\ UNCHANGED <<secret, home, read>> /\ Keeps

\* _ensure_admin_token: a damaged one is minted anew.
EnsureAdmin(c, from, next) ==
    /\ On(c, from) /\ At(c, "idle") /\ Fine
    /\ \/ ~Present("admin") /\ Draw(c, "admin", "unlink") /\ UNCHANGED pc
       \/ Present("admin") /\ To(c, next) /\ UNCHANGED <<mints, job>>
    /\ Frame /\ UNCHANGED <<secret, home, read, failed>> /\ Keeps

\* doctor changes nothing else of this module: it reports a damaged token, and mints
\* a missing one.  (It calls `status` too, which may remove a stale runtime file.)
Doctor(c) ==
    /\ On(c, "doctor") /\ Fine
    /\ To(c, IF Holds("admin") = None THEN "doctor_mint" ELSE "done")
    /\ NoSecrets /\ UNCHANGED <<home, read, failed>> /\ Keeps

\* secure_write has returned, or raised.
Minted(c, from, next, skip) ==
    /\ On(c, from) /\ Done(c) /\ Fine
    /\ \/ At(c, "written") /\ To(c, next) /\ UNCHANGED failed
       \/ At(c, "failed") /\ FailsTo(c, skip)
    /\ Frame /\ UNCHANGED <<secret, mints, home, read>> /\ Keeps

\* The permissions are read back: a file that is gone by now has none.
Permissions(c, from, f, next) ==
    /\ On(c, from)
    /\ \/ secret[f] # None /\ Fine /\ To(c, next) /\ UNCHANGED failed
       \/ ((secret[f] = None /\ Fine) \/ Fault) /\ FailsTo(c, next)
    /\ NoSecrets /\ UNCHANGED <<home, read>> /\ Keeps

Tokens(c) ==
    \/ SecureWrite(c) /\ UNCHANGED <<home, pc, read, failed>> /\ Keeps
    \/ Token(c) \/ Minted(c, "token", "token_perms", "admin")
    \/ Permissions(c, "token_perms", "token", "admin")
    \/ EnsureAdmin(c, "admin", "admin_perms") \/ Minted(c, "admin", "admin_perms", "shim")
    \/ Permissions(c, "admin_perms", "admin", "shim")
    \/ Doctor(c)
    \/ EnsureAdmin(c, "doctor_mint", "done") \/ Minted(c, "doctor_mint", "done", "done")

-----------------------------------------------------------------------------
(* setup: the shims                                                         *)

\* Checks who a file belongs to.
Owned(f) == home[f] # Theirs

\* Mutant: nobody checks.
InstallCheckNot(c) ==
    /\ On(c, "shim") /\ Fine
    /\ To(c, "shim_write") /\ UNCHANGED failed
    /\ NoSecrets /\ UNCHANGED <<home, read>> /\ Keeps

InstallCheck(c) ==
    /\ On(c, "shim") /\ Fine
    /\ \/ Owned("shim") /\ To(c, "shim_write") /\ UNCHANGED failed
       \/ ~Owned("shim") /\ FailsTo(c, "control")
    /\ NoSecrets /\ UNCHANGED <<home, read>> /\ Keeps

\* An atomic replacement of file f, or an OSError.
Replaces(c, from, f, content, next, onError) ==
    /\ On(c, from)
    /\ \/ Fine /\ Sets(f, content) /\ To(c, next) /\ UNCHANGED failed
       \/ Fault /\ FailsTo(c, onError) /\ UNCHANGED home
    /\ NoSecrets /\ UNCHANGED read /\ Keeps

InstallWrite(c) ==
    Replaces(c, "shim_write", "shim", Shim("new", url[c]), "control", "control")

\* Mutant: a control shim that is not ours is no problem of setup's.
ControlSkipped(c) ==
    /\ On(c, "control") /\ Fine
    /\ \/ /\ Owned("init") /\ Owned("manifest")
          /\ To(c, "init") /\ UNCHANGED failed
          /\ prior' = [prior EXCEPT ![c] = <<home["init"], home["manifest"]>>]
       \/ /\ ~Owned("init") \/ ~Owned("manifest")
          /\ To(c, "plug") /\ UNCHANGED <<prior, failed>>
    /\ NoSecrets /\ UNCHANGED <<home, url, read, snap, roll>>

ControlCheck(c) ==
    /\ On(c, "control")
    /\ \/ /\ Owned("init") /\ Owned("manifest") /\ Fine
          /\ To(c, "init") /\ UNCHANGED failed
          /\ prior' = [prior EXCEPT ![c] = <<home["init"], home["manifest"]>>]
       \/ /\ \/ (~Owned("init") \/ ~Owned("manifest")) /\ Fine
             \/ Fault                                 \* no executable to bake
          /\ FailsTo(c, "plug") /\ UNCHANGED prior
    /\ NoSecrets /\ UNCHANGED <<home, url, read, snap, roll>>

\* install_control undoes both files whichever failed, as well as it can.
Undoes(c, from, f, content, next) ==
    /\ On(c, from) /\ To(c, next)
    /\ \/ Fine /\ Sets(f, content)
       \/ Fault /\ UNCHANGED home
    /\ NoSecrets /\ UNCHANGED <<read, failed>> /\ Keeps

ControlWrite(c) ==
    \/ Replaces(c, "init", "init", Control("new"), "manifest", "undo_init")
    \/ Replaces(c, "manifest", "manifest", Control("new"), "plug", "undo_init")
    \/ Undoes(c, "undo_init", "init", prior[c][1], "undo_manifest")
    \/ Undoes(c, "undo_manifest", "manifest", prior[c][2], "plug")

Shims(c) == InstallCheck(c) \/ InstallWrite(c) \/ ControlCheck(c) \/ ControlWrite(c)

-----------------------------------------------------------------------------
(* The edits of config.yaml: read, back up, replace, verify                 *)

\* write_text truncates the file before it writes.
Torn(f) == UNCHANGED home \/ Sets(f, Garbage)

\* A copy of the text that was read, if there is a file by now.
Backs(c, from, f, next, onError) ==
    /\ On(c, from)
    /\ \/ /\ Fine /\ To(c, next) /\ UNCHANGED failed
          /\ IF home["config"] # None THEN Sets(f, Text(read[c])) ELSE UNCHANGED home
       \/ Fault /\ FailsTo(c, onError) /\ Torn(f)
    /\ NoSecrets /\ UNCHANGED read /\ Keeps

PlugRead(c) ==
    /\ On(c, "plug") /\ Fine
    /\ \/ home["config"] = Garbage /\ FailsTo(c, "alias") /\ UNCHANGED read
       \/ home["config"] # Garbage /\ To(c, "plug_check") /\ Reads(c) /\ UNCHANGED failed
    /\ NoSecrets /\ UNCHANGED home /\ Keeps

EnabledNow == home["config"] \notin {None, Garbage} /\ Listed(home["config"])

\* The file is read a second time to see whether the plugin is there already.
PlugCheck(c) ==
    /\ On(c, "plug_check") /\ Fine
    /\ \/ EnabledNow /\ To(c, "alias") /\ UNCHANGED failed
       \/ ~EnabledNow /\ PlanEdit(Text(read[c])) = None /\ FailsTo(c, "alias")
       \/ /\ ~EnabledNow /\ PlanEdit(Text(read[c])) # None
          /\ To(c, "plug_backup") /\ UNCHANGED failed
    /\ NoSecrets /\ UNCHANGED <<home, read>> /\ Keeps

\* What was read comes back; the error of that is suppressed.
Restores(c, from, content, next) ==
    /\ On(c, from) /\ FailsTo(c, next)
    /\ \/ Fine /\ Sets("config", content)
       \/ Fault /\ UNCHANGED home
    /\ NoSecrets /\ UNCHANGED read /\ Keeps

\* Without this one name, the result is the document that was read.
PlugVerified(c) ==
    /\ EnabledNow /\ ~Listed(Text(read[c]))
    /\ ParsesTo(PlanEdit(Text(read[c])))

\* ...or it is undone.
PlugVerify(c) ==
    \/ /\ On(c, "plug_verify") /\ Fine
       /\ To(c, IF PlugVerified(c) THEN "alias" ELSE "plug_restore")
       /\ NoSecrets /\ UNCHANGED <<home, read, failed>> /\ Keeps
    \/ Restores(c, "plug_restore", Text(read[c]), "alias")

EnablePlugin(c) ==
    \/ PlugRead(c) \/ PlugCheck(c)
    \/ Backs(c, "plug_backup", "bak", "plug_write", "alias")
    \/ Replaces(c, "plug_write", "config", PlanEdit(Text(read[c])), "plug_verify", "alias")
    \/ PlugVerify(c)

Aliasable(doc) == doc # Garbage /\ doc.alias # 0

AliasRead(c) ==
    /\ On(c, "alias") /\ Fine
    /\ LET doc == Text(home["config"])
       IN  \/ ~Aliasable(doc) /\ FailsTo(c, "finish") /\ UNCHANGED read
           \/ /\ Aliasable(doc) /\ doc.alias = url[c]
              /\ To(c, "finish") /\ UNCHANGED <<read, failed>>
           \/ /\ Aliasable(doc) /\ doc.alias # url[c]
              /\ To(c, "alias_backup") /\ Reads(c) /\ UNCHANGED failed
    /\ NoSecrets /\ UNCHANGED home /\ Keeps

\* yaml.safe_dump of the document that was parsed.
Aliased(c) == [Text(read[c]) EXCEPT !.alias = url[c], !.layout = "dumped"]

\* An empty text is taken for a file that was not there.
Was(c) == IF Text(read[c]) = EmptyDoc THEN None ELSE read[c]

AliasVerify(c) ==
    \/ /\ On(c, "alias_verify") /\ Fine
       /\ To(c, IF ParsesTo(Aliased(c)) THEN "finish" ELSE "alias_restore")
       /\ NoSecrets /\ UNCHANGED <<home, read, failed>> /\ Keeps
    \/ Restores(c, "alias_restore", Was(c), "finish")

\* Mutant: both edits keep their backup under one name.
EnableAliasOneBackup(c) ==
    \/ AliasRead(c)
    \/ Backs(c, "alias_backup", "bak", "alias_write", "alias_restore")
    \/ Replaces(c, "alias_write", "config", Aliased(c), "alias_verify", "alias_restore")
    \/ AliasVerify(c)

\* Mutant: writes the alias without what else is in the document.
EnableAliasAlone(c) ==
    \/ AliasRead(c)
    \/ Backs(c, "alias_backup", "aliasbak", "alias_write", "alias_restore")
    \/ Replaces(c, "alias_write", "config", [EmptyDoc EXCEPT !.alias = url[c]],
                "alias_verify", "alias_restore")
    \/ AliasVerify(c)

EnableAlias(c) ==
    \/ AliasRead(c)
    \/ Backs(c, "alias_backup", "aliasbak", "alias_write", "alias_restore")
    \/ Replaces(c, "alias_write", "config", Aliased(c), "alias_verify", "alias_restore")
    \/ AliasVerify(c)

-----------------------------------------------------------------------------
(* setup: the end                                                           *)

Finish(c) ==
    /\ On(c, "finish") /\ Fine
    /\ To(c, IF failed[c] = "no" THEN "done" ELSE "roll")
    /\ NoSecrets /\ UNCHANGED <<home, read, failed>> /\ Keeps

\* Mutant: counts one file too many.
RollbackPast(c) ==
    /\ On(c, "roll") /\ Fine
    /\ LET f == Managed[roll[c]]
       IN  IF f \in SecretFiles
             THEN Puts(f, snap[c][roll[c]]) /\ UNCHANGED home
             ELSE Sets(f, snap[c][roll[c]]) /\ UNCHANGED secret
    /\ roll' = [roll EXCEPT ![c] = @ + 1]
    /\ To(c, IF roll[c] < Len(Managed) THEN "roll" ELSE "restored")
    /\ Frame /\ UNCHANGED <<mints, job, url, read, prior, snap, failed>>

\* One file after the other gets the content, or the absence, of its snapshot.
Rollback(c) ==
    /\ On(c, "roll")
    /\ LET f == Managed[roll[c]]
       IN  \/ /\ Fine
              /\ IF f \in SecretFiles
                   THEN Puts(f, snap[c][roll[c]]) /\ UNCHANGED home
                   ELSE Sets(f, snap[c][roll[c]]) /\ UNCHANGED secret
              /\ UNCHANGED failed
           \/ /\ Fault /\ Content(f) # snap[c][roll[c]]
              /\ failed' = [failed EXCEPT ![c] = "for good"]
              /\ UNCHANGED <<home, secret>>
    /\ roll' = [roll EXCEPT ![c] = IF @ < Len(Managed) THEN @ + 1 ELSE @]
    /\ To(c, IF roll[c] < Len(Managed) THEN "roll"
             ELSE IF failed'[c] = "yes" THEN "restored" ELSE "unrestored")
    /\ Frame /\ UNCHANGED <<mints, job, url, read, prior, snap>>

-----------------------------------------------------------------------------
(* configure, once the operator has confirmed the candidates                *)

Configurable(doc) == doc # Garbage /\ Text(doc).auto # Garbage

CfgRead(c) ==
    /\ On(c, "cfg") /\ Fine
    /\ \/ ~Configurable(home["config"]) /\ To(c, "refused") /\ UNCHANGED read
       \/ Configurable(home["config"]) /\ To(c, "cfg_backup") /\ Reads(c)
    /\ NoSecrets /\ UNCHANGED <<home, failed>> /\ Keeps

\* Mutant: a new block, without what else was in the old one.
ConfiguredAnew(c) ==
    [Text(read[c]) EXCEPT !.auto = [NoBlock EXCEPT !.candidates = Approved], !.layout = "dumped"]

\* Dumped like the alias.  The list replaces what it was migrated from.
Configured(c) ==
    [Text(read[c]) EXCEPT !.auto = [Given(@, NoBlock) EXCEPT !.upstream = None,
                                                            !.candidates = Approved],
                          !.layout = "dumped"]

\* The loader itself verifies the result.
CfgVerify(c) ==
    /\ On(c, "cfg_verify") /\ Fine
    /\ To(c, IF Load(AsFile(home["config"]), "yes") # None THEN "done" ELSE "cfg_restore")
    /\ NoSecrets /\ UNCHANGED <<home, read, failed>> /\ Keeps

\* Mutant: backs up after the replacement.
ConfigureBacksLate(c) ==
    \/ CfgRead(c)
    \/ Replaces(c, "cfg_backup", "config", Configured(c), "cfg_write", "cfg_restore")
    \/ Backs(c, "cfg_write", "confbak", "cfg_verify", "cfg_restore")
    \/ CfgVerify(c)
    \/ Restores(c, "cfg_restore", Was(c), "unchanged")

Configure(c) ==
    \/ CfgRead(c)
    \/ Backs(c, "cfg_backup", "confbak", "cfg_write", "cfg_restore")
    \/ Replaces(c, "cfg_write", "config", Configured(c), "cfg_verify", "cfg_restore")
    \/ CfgVerify(c)
    \/ Restores(c, "cfg_restore", Was(c), "unchanged")

-----------------------------------------------------------------------------
CommandStep(c) ==
    \/ Resolve(c) \/ Snapshot(c) \/ Tokens(c) \/ Shims(c)
    \/ EnablePlugin(c) \/ EnableAlias(c) \/ Finish(c) \/ Rollback(c)
    \/ Configure(c)

Ended == {"done", "refused", "restored", "unrestored", "unchanged", "crashed"}

Running(c) == pc[c] \notin Ended \cup {"off"}

BackupOf == [plug_backup |-> "bak", alias_backup |-> "aliasbak", cfg_backup |-> "confbak"]

\* The process of a command ends: nothing undoes what it did.
CommandCrash(c) ==
    /\ Running(c) /\ Fault
    /\ To(c, "crashed") /\ Done(c)
    /\ IF pc[c] \in DOMAIN BackupOf THEN Torn(BackupOf[pc[c]]) ELSE UNCHANGED home
    /\ Frame /\ UNCHANGED <<secret, mints, read, failed>> /\ Keeps

\* An editor, or Hermes itself, writes one file.
UserEdit ==
    /\ "user" \in todo /\ todo' = todo \ {"user"}
    /\ \/ \E f \in {"shim", "init"}: Sets(f, Theirs)
       \/ home["config"] # None /\ Sets("config", None)
       \/ Sets("config", Garbage)
       \/ /\ home["config"] \notin {None, Garbage}
          /\ \/ Sets("config", [home["config"] EXCEPT !.own = @ + 1, !.layout = "theirs"])
             \/ EnabledNow /\ Sets("config", [home["config"] EXCEPT !.plugins = "others"])
    /\ UNCHANGED <<cast, spent, secret, mints, job, life, held, salt, overlap>>
    /\ UNCHANGED <<pc, url, read, prior, failed, snap, roll>>

\* The file holds the token that g enforces.
Holding(g) == held[g] # None /\ Present("token") /\ Holds("token") = held[g]

Minting(p, f) == job[p].file = f

\* Remembers, for the others that run, which files changed under them, and who was
\* minting the token when the file came to hold that of a gateway.
Touches(p) ==
    /\ touched' = [c \in Commands |->
         IF c = p \/ ~Running(c) THEN touched[c]
         ELSE touched[c] \cup {f \in SecretFiles \cup Homes: Content(f)' # Content(f)}]
    /\ racers' = [g \in Gateways |->
         IF Holding(g)' /\ ~Holding(g) THEN {q \in Procs: Minting(q, "token")'} ELSE racers[g]]

CommandNext(c) == CommandStep(c) /\ Touches(c)

GatewayNext(g) == GatewayStep(g) /\ UNCHANGED setupVars /\ Touches(g)

Next ==
    \/ \E c \in Commands:
          \/ CommandNext(c)
          \/ (Begin(c) \/ CommandCrash(c)) /\ Touches(c)
    \/ \E g \in Gateways: GatewayRuns(g) /\ UNCHANGED setupVars /\ Touches(g)
    \/ UserEdit /\ Touches(None)

Spec == SetupInit /\ [][Next]_vars

\* A process that has begun goes on; nobody has to begin, to log, to edit or to crash.
FairSpec ==
    /\ Spec
    /\ \A c \in Commands: WF_vars(CommandNext(c))
    /\ \A g \in Gateways: WF_vars(GatewayNext(g))

-----------------------------------------------------------------------------
Steps ==
    {"off", "resolve", "snap_token", "snap_admin", "snap_home", "token", "token_perms",
     "admin", "admin_perms", "shim", "shim_write", "control", "init", "manifest",
     "undo_init", "undo_manifest", "plug", "plug_check", "plug_backup", "plug_write",
     "plug_verify", "plug_restore", "alias", "alias_backup", "alias_write",
     "alias_verify", "alias_restore", "finish", "roll", "doctor", "doctor_mint", "cfg",
     "cfg_backup", "cfg_write", "cfg_verify", "cfg_restore"} \cup Ended

SetupTypeOK ==
    /\ SecretsTypeOK
    /\ DOMAIN home = Homes /\ \A f \in Homes: home[f] \in Contents(f)
    /\ pc \in [Commands -> Steps]
    /\ url \in [Commands -> Int]
    /\ read \in [Commands -> {None} \cup Document]
    /\ prior \in [Commands -> [1..2 -> {None} \cup ShimFiles]]
    /\ failed \in [Commands -> {"no", "yes", "for good"}]
    /\ DOMAIN snap = Commands
    /\ \A c \in Commands: /\ DOMAIN snap[c] = DOMAIN Managed
                          /\ \A n \in DOMAIN Managed: snap[c][n] \in Contents(Managed[n])
    /\ roll \in [Commands -> DOMAIN Managed]
    /\ touched \in [Commands -> SUBSET (SecretFiles \cup Homes)]
    /\ racers \in [Gateways -> SUBSET Procs]

\* What setup c found in file f.
Found(c, f) == snap[c][CHOOSE n \in DOMAIN Managed: Managed[n] = f]

\* Setup c has its snapshots and has not ended.
Transacts(c) ==
    /\ Op(c) = "setup" /\ Running(c)
    /\ pc[c] \notin {"resolve", "snap_token", "snap_admin", "snap_home"}

Undisturbed(c, files) == touched[c] \cap files = {}

\* A setup that says that all its files were restored to their previous state
\* (cmd_setup) has left each of them as it found it, unless another process changed
\* it meanwhile; a setup that was alone has left no trace at all.
FailureRestores ==
    [][\A c \in Commands: On(c, "roll") /\ pc'[c] = "restored" =>
          /\ \A n \in DOMAIN Managed:
                Managed[n] \notin touched'[c] => Content(Managed[n])' = snap[c][n]
          /\ cast.procs = {c} => home' = cast.home /\ secret' = cast.secret]_vars

\* A shim path that holds somebody else's file is never written: not by the
\* installation, not by the undoing of half a control shim, not by the rollback.
UnownedKept ==
    \A c \in Commands: Transacts(c) =>
      \A f \in {"shim", "init", "manifest"}:
        Found(c, f) = Theirs /\ Undisturbed(c, {f}) => home[f] = Theirs

\* Every value of the operator's in config.yaml survives setup's edits at every step,
\* whichever of them fails and however it is undone; its comments and format go only
\* with the dump of the alias edit, never with the plugin's ("not ours", _plan_edit).
UserConfigKept ==
    \A c \in Commands: Transacts(c) /\ Undisturbed(c, {"config"}) =>
      \/ home["config"] = Found(c, "config")
      \/ /\ home["config"] # Garbage /\ Found(c, "config") # Garbage
         /\ LET now == Text(home["config"])
                then == Text(Found(c, "config"))
            IN  /\ now.own = then.own /\ now.auto = then.auto /\ now.bare = then.bare
                /\ \/ now.layout = then.layout /\ now.alias = then.alias
                   \/ then.alias # url[c] /\ now.alias = url[c]

\* As long as config.yaml differs from what setup found, a backup holds what setup
\* found: two edits, two backups, and the rollback restores the file before it
\* removes them.  (Not so when that restoration fails: the backups still go; and an
\* empty file is taken for none, undoing the alias may remove it without a backup.)
BackupHolds ==
    \A c \in Commands:
      /\ Transacts(c) /\ failed[c] # "for good"
      /\ Undisturbed(c, {"config", "bak", "aliasbak"})
      /\ Text(Found(c, "config")) # EmptyDoc /\ home["config"] # Found(c, "config")
      => Found(c, "config") \in {home["bak"], home["aliasbak"]}

\* The failures of run_doctor that setup is to prevent.
Fails(check) ==
    LET config == Load(AsFile(home["config"]), "no")
        ours == home["shim"] \notin {None, Theirs}
    IN  CASE check = "config" -> config = None
          [] check = "shim" -> ~ours
          [] check = "shim version" -> ours /\ home["shim"].version # "new"
          [] check = "shim drift" ->
               ours /\ config # None /\ home["shim"] # Shim("new", config.dial)
          [] check = "control plugin" -> ~EnabledNow
          [] check = "token" -> ~Present("token")
          [] check = "admin token" -> ~Present("admin")

Checks == {"config", "shim", "shim version", "shim drift", "control plugin", "token", "admin token"}

\* A setup that exits with 0 and that nobody disturbed leaves nothing for doctor to
\* fail on, and has its control shim and its alias in place.  (Settings at the root
\* of the document are another matter, see GatewayWhereHermesDials; and with
\* --hermes-home doctor still compares the shim with the default configuration.)
SuccessMeansInstalled ==
    [][\A c \in Commands: On(c, "finish") /\ pc'[c] = "done" /\ touched'[c] = {} =>
          /\ \A check \in Checks: Fails(check) =>
                /\ check = "shim drift"
                /\ cast.given = "yes" \/ Text(Found(c, "config")).bare # NoBlock
          /\ home["init"] = Control("new") /\ home["manifest"] = Control("new")
          /\ home["config"].alias = url[c]]_vars

\* The document that configure c read is in config.yaml or in the backup, comments and
\* all, and no value has changed but the router's.  (An empty text is not worth one.)
Preserved(c) ==
    \/ read[c] = None \/ Text(home["config"]) = read[c]
    \/ /\ home["confbak"] = read[c] \/ read[c] = EmptyDoc
       /\ home["config"] \notin {None, Garbage}
       /\ [home["config"] EXCEPT !.auto = read[c].auto, !.layout = read[c].layout] = read[c]

\* What configure read is never lost, up to and including the step that ends it: not
\* when a step fails, not when it is killed, not even when putting it back fails.
ConfigureKeeps ==
    [][\A c \in Commands:
          /\ Op(c) = "configure" /\ Running(c)
          /\ touched'[c] \cap {"config", "confbak"} = {}
          => Preserved(c)']_vars

\* "wrote N approved candidates": a gateway that starts with the file that an
\* undisturbed configure leaves routes among these, on the ports it had, unless the
\* settings were bare ones, which the new block hides.
ConfigureTakesEffect ==
    [][\A c \in Commands:
          /\ Op(c) = "configure" /\ On(c, "cfg_verify") /\ pc'[c] = "done"
          /\ Undisturbed(c, {"config"})
          => LET before == Load(AsFile(read[c]), "no")
                 after == Load(AsFile(home["config"]), "no")
             IN  /\ after # None /\ after.ids = [n \in DOMAIN Approved |-> Approved[n].id]
                 /\ before # None /\ Text(read[c]).bare = NoBlock
                      => after = [before EXCEPT !.ids = after.ids]]_vars

\* While a gateway serves, its admin listener accepts what the admin token's file
\* says, so that `stop` need not kill: a damaged file was repaired, minting never
\* leaves the file missing, whoever mints beside it.  (Until a setup is rolled back
\* that found no admin token, or a write of it fails.)
AdminReachable ==
    (\E g \in Gateways: life[g] = "up") =>
      \/ spent > 0
      \/ \E c \in Commands: pc[c] \in {"roll", "restored", "unrestored"}
      \/ \E p \in Procs: job[p].file = "admin"
      \/ RequireAdmin(Holds("admin"))

\* The bearer token that a gateway enforces and that the file holds stays there
\* ("left as it is").  It is taken away only by somebody who was minting one when the
\* gateway came to hold it, and removes what is there before writing its own; or by
\* the rollback of a setup that found another content, or none, when it began.
RunningTokenKept ==
    [][\A g \in Gateways: Holding(g) /\ secret'["token"] # secret["token"] =>
          \/ \E p \in racers[g]: Minting(p, "token") /\ At(p, "unlink") /\ At(p, "create")'
          \/ \E c \in Commands: On(c, "roll") /\ snap[c][1] # secret["token"]]_vars

Rests(p) ==
    /\ job[p] = Idle
    /\ p \in Commands => ~Running(p)
    /\ p \in Gateways => life[p] \in {"up", "down"}

\* Every command ends, every gateway that starts comes up or goes, and everybody
\* who went for a secret is done with it, whatever failed or crashed beside it:
\* nobody waits for somebody else's file.
EverybodyEnds == \A p \in Procs: []<>Rests(p)

\* "a config setting only url: http://127.0.0.1:9000 cannot end up binding 8787
\* while Hermes talks to 9000" (config.py, _port_from_url): after a setup that
\* nobody disturbed, the gateway binds the port that the shim dials.
GatewayWhereHermesDials ==
    [][\A c \in Commands: On(c, "finish") /\ pc'[c] = "done" /\ touched'[c] = {} =>
          Load(AsFile(home["config"]), "no").port = home["shim"].dial]_vars

=============================================================================
