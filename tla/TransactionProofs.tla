------------------------- MODULE TransactionProofs -------------------------
(***************************************************************************)
(* What the commands promise of the files they change together: what a     *)
(* backup and a rollback are good for, what success means, and that the    *)
(* secrets of a running gateway stay.  A command's promise is about what   *)
(* nobody else changed, so each proof has two halves: the command's own    *)
(* steps (Acts), and those of everybody else (Away).                       *)
(***************************************************************************)
EXTENDS SetupProofs

\* c takes a step.
Acts(c) ==
    /\ CommandStep(c) \/ Begin(c) \/ CommandCrash(c)
    /\ touched'[c] = touched[c]

\* Somebody else does: what of it c can see, it has noted.
Away(c) ==
    /\ UNCHANGED cast
    /\ pc'[c] = pc[c] /\ url'[c] = url[c] /\ read'[c] = read[c] /\ prior'[c] = prior[c]
    /\ failed'[c] = failed[c] /\ snap'[c] = snap[c] /\ roll'[c] = roll[c] /\ job'[c] = job[c]
    /\ touched[c] \subseteq touched'[c]
    /\ Running(c) =>
         \A f \in SecretFiles \cup Homes: f \notin touched'[c] => Content(f)' = Content(f)

LEMMA JobLocal ==
    ASSUME SecretsTypeOK, NEW p \in Procs, NEW q \in Procs, p # q,
           \/ UNCHANGED job \/ Done(p) \/ \E step: Goes(p, step)
           \/ \E f, step: Draw(p, f, step)
           \/ job' = [job EXCEPT ![p] = [file |-> "salt", step |-> "read", id |-> 0]]
    PROVE  job'[q] = job[q]
BY DEF SecretsTypeOK, Done, Goes, Draw

LEMMA SecureWriteJob ==
    ASSUME NEW p, SecureWrite(p)
    PROVE  \E step: Goes(p, step)
BY DEF SecureWrite, Unlink, Create, Write

\* What is c's own, the steps of another command leave alone.
LEMMA CommandOthers ==
    ASSUME SecretsTypeOK, CommandsTypeOK, NEW c \in Commands, NEW d \in Commands, d # c,
           CommandStep(d) \/ Begin(d) \/ CommandCrash(d)
    PROVE  /\ url'[c] = url[c] /\ prior'[c] = prior[c] /\ failed'[c] = failed[c]
           /\ roll'[c] = roll[c] /\ job'[c] = job[c]
<1>0. /\ \A step: FailsTo(d, step) => failed'[c] = failed[c]
      /\ c \in Procs /\ d \in Procs
  BY DEF FailsTo, CommandsTypeOK, Procs
<1>1. CASE Begin(d) \/ Finish(d) \/ Snapshot(d)
  BY <1>1 DEF Begin, Finish, Snapshot, Snaps, NoSecrets, Frame, Keeps
<1>2. CASE CommandCrash(d)
  BY <1>0, <1>2, JobLocal DEF CommandCrash, Frame, Keeps
<1>3. CASE Resolve(d)
  BY <1>3 DEF Resolve, NoSecrets, Frame, CommandsTypeOK
<1>4. CASE Tokens(d)
  <2>1. UNCHANGED <<url, prior, roll>>
    BY <1>4 DEF Tokens, SecureWrite, Token, EnsureAdmin, Doctor, Minted, Permissions,
                NoSecrets, Frame, Keeps
  <2>2. failed'[c] = failed[c]
    BY <1>0, <1>4 DEF Tokens, SecureWrite, Token, EnsureAdmin, Doctor, Minted, Permissions
  <2>3. \/ UNCHANGED job \/ Done(d) \/ SecureWrite(d) \/ \E f, step: Draw(d, f, step)
    BY <1>4 DEF Tokens, Token, EnsureAdmin, Doctor, Minted, Permissions, NoSecrets
  <2>4. job'[c] = job[c]
    BY <1>0, <2>3, SecureWriteJob, JobLocal
  <2>. QED BY <2>1, <2>2, <2>4
<1>5. CASE Shims(d)
  <2>1. UNCHANGED <<url, roll, job>>
    BY <1>5 DEF Shims, InstallCheck, InstallWrite, ControlCheck, ControlWrite, Replaces, Undoes,
                NoSecrets, Frame, Keeps
  <2>2. failed'[c] = failed[c]
    BY <1>0, <1>5 DEF Shims, InstallCheck, InstallWrite, ControlCheck, ControlWrite, Replaces, Undoes
  <2>3. prior'[c] = prior[c]
    BY <1>5 DEF Shims, InstallCheck, InstallWrite, ControlCheck, ControlWrite, Replaces, Undoes,
                Keeps, CommandsTypeOK
  <2>. QED BY <2>1, <2>2, <2>3
<1>6. CASE EnablePlugin(d)
  BY <1>0, <1>6 DEF EnablePlugin, PlugRead, PlugCheck, PlugVerify, Backs, Replaces, Restores,
                    NoSecrets, Frame, Keeps
<1>7. CASE EnableAlias(d)
  BY <1>0, <1>7 DEF EnableAlias, AliasRead, AliasVerify, Backs, Replaces, Restores,
                    NoSecrets, Frame, Keeps
<1>8. CASE Rollback(d)
  <2>1. failed'[c] = failed[c] /\ roll'[c] = roll[c]
    BY <1>8 DEF Rollback, CommandsTypeOK
  <2>. QED BY <1>8, <2>1 DEF Rollback, Frame
<1>9. CASE Configure(d)
  BY <1>0, <1>9 DEF Configure, CfgRead, CfgVerify, Backs, Replaces, Restores, NoSecrets, Frame, Keeps
<1>. QED BY <1>1, <1>2, <1>3, <1>4, <1>5, <1>6, <1>7, <1>8, <1>9 DEF CommandStep

LEMMA GatewayOthers ==
    ASSUME SecretsTypeOK, NEW c \in Commands, NEW g \in Gateways, GatewayRuns(g)
    PROVE  UNCHANGED cast /\ job'[c] = job[c]
<1>1. UNCHANGED cast
  BY DEF GatewayRuns, GatewayStep, SecureWrite, Start, ReadToken, TokenMinted, ReadAdmin,
         AdminMinted, LookUp, Claim, ReadSalt, SaltWritten, SaltFailed, Undo, Crash
<1>2. c \in Procs /\ g \in Procs /\ g # c
  BY SecretsAssumption DEF Procs
<1>3. \/ UNCHANGED job \/ Done(g) \/ SecureWrite(g) \/ \E step: Goes(g, step)
      \/ \E f, step: Draw(g, f, step)
      \/ job' = [job EXCEPT ![g] = [file |-> "salt", step |-> "read", id |-> 0]]
  BY DEF GatewayRuns, GatewayStep, Start, ReadToken, TokenMinted, ReadAdmin,
         AdminMinted, LookUp, Claim, ReadSalt, SaltWritten, SaltFailed, Undo, Crash
<1>4. job'[c] = job[c]
  BY <1>2, <1>3, SecureWriteJob, JobLocal
<1>. QED BY <1>1, <1>4

\* Every step is c's own, or one it stands beside.
LEMMA Turns ==
    ASSUME SetupTypeOK, NEW c \in Commands, [Next]_vars
    PROVE  Acts(c) \/ Away(c)
<1>0. CommandsTypeOK /\ SecretsTypeOK /\ touched[c] = touched[c] \cup {}
  BY DEF SetupTypeOK, CommandsTypeOK
<1>1. CASE UNCHANGED vars
  BY <1>1 DEF vars, secretVars, setupVars, Away, Content
<1>2. ASSUME NEW p, p # c, Touches(p), UNCHANGED cast,
             pc'[c] = pc[c], url'[c] = url[c], read'[c] = read[c], prior'[c] = prior[c],
             failed'[c] = failed[c], snap'[c] = snap[c], roll'[c] = roll[c], job'[c] = job[c]
      PROVE  Away(c)
  <2> DEFINE changed == {f \in SecretFiles \cup Homes: Content(f)' # Content(f)}
  <2>1. touched'[c] = IF ~Running(c) THEN touched[c] ELSE touched[c] \cup changed
    BY <1>2 DEF Touches
  <2>. QED BY <1>2, <2>1 DEF Away
<1>3. ASSUME NEW d \in Commands, CommandStep(d) \/ Begin(d) \/ CommandCrash(d), Touches(d)
      PROVE  Acts(c) \/ Away(c)
  <2>1. CASE d = c
    BY <1>3, <2>1 DEF Touches, Acts
  <2>2. CASE d # c
    BY <1>0, <1>2, <1>3, <2>2, CommandLocals, CommandOthers
  <2>. QED BY <2>1, <2>2
<1>4. ASSUME NEW g \in Gateways, GatewayRuns(g), UNCHANGED setupVars, Touches(g)
      PROVE  Away(c)
  <2>1. g # c
    BY SecretsAssumption
  <2>. QED BY <1>0, <1>2, <1>4, <2>1, GatewayOthers DEF setupVars
<1>5. CASE UserEdit /\ Touches(None)
  <2>1. None # c
    BY SecretsAssumption DEF Procs
  <2>. QED BY <1>2, <1>5, <2>1 DEF UserEdit
<1>6. CASE Next
  BY <1>3, <1>4, <1>5, <1>6 DEF Next, CommandNext
<1>. QED BY <1>1, <1>6

-----------------------------------------------------------------------------
(* configure                                                                *)

\* What of configure's way concerns the files: the document stays until the new one
\* is written, the backup is there before; then it is the new one, or the old again.
Way(c) ==
    Op(c) = "configure" =>
      /\ pc[c] \in {"off"} \cup Configures \cup Ended
      /\ pc[c] \in {"off", "cfg"} => read[c] = None
      /\ pc[c] \in Configures \ {"cfg"} => Text(read[c]).auto # Garbage
      /\ "config" \notin touched[c] =>
            /\ pc[c] \in {"cfg_backup", "cfg_write"} => home["config"] = read[c]
            /\ pc[c] = "cfg_verify" => home["config"] = Configured(c)
            /\ pc[c] = "cfg_restore" => home["config"] \in {read[c], Configured(c)}
      /\ {"config", "confbak"} \cap touched[c] = {} =>
            /\ pc[c] \in {"cfg_write", "cfg_verify"} => read[c] = None \/ home["confbak"] = read[c]
            /\ pc[c] = "cfg_restore" =>
                  home["config"] = read[c] \/ read[c] = None \/ home["confbak"] = read[c]

LEMMA ConfigureActs ==
    ASSUME NEW c \in Commands, Acts(c), pc[c] \in {"off"} \cup Configures \cup Ended
    PROVE  \/ Begin(c) \/ CommandCrash(c) \/ Configure(c)
           \/ UNCHANGED <<cast, pc, read, home>>
<1> DEFINE Here == pc[c] \in {"off"} \cup Configures \cup Ended
<1>1. Resolve(c) \/ Snapshot(c) \/ Finish(c) \/ Rollback(c) => ~Here
  BY DEF Resolve, Snapshot, Snaps, Finish, Rollback, On, Configures, Ended
<1>2. Tokens(c) /\ Here => UNCHANGED <<cast, pc, read, home>>
  <2>1. Token(c) \/ Doctor(c) => ~Here
    BY DEF Token, Doctor, On, Configures, Ended
  <2>2. /\ \A from, next: EnsureAdmin(c, from, next) => pc[c] = from
        /\ \A from, next, skip: Minted(c, from, next, skip) => pc[c] = from
        /\ \A from, f, next: Permissions(c, from, f, next) => pc[c] = from
    BY DEF EnsureAdmin, Minted, Permissions, On
  <2>3. SecureWrite(c) => UNCHANGED cast
    BY DEF SecureWrite
  <2>. QED BY <2>1, <2>2, <2>3 DEF Tokens, Configures, Ended
<1>3. Shims(c) => ~Here
  BY DEF Shims, InstallCheck, InstallWrite, ControlCheck, ControlWrite, Replaces, Undoes, On,
         Configures, Ended
<1>4. EnablePlugin(c) => ~Here
  BY DEF EnablePlugin, PlugRead, PlugCheck, PlugVerify, Backs, Replaces, Restores, On,
         Configures, Ended
<1>5. EnableAlias(c) => ~Here
  BY DEF EnableAlias, AliasRead, AliasVerify, Backs, Replaces, Restores, On, Configures, Ended
<1>. QED BY <1>1, <1>2, <1>3, <1>4, <1>5 DEF Acts, CommandStep

\* The new document without the router's block is the old one.
LEMMA ConfiguredKeeps ==
    ASSUME CommandsTypeOK, NEW c \in Commands, Text(read[c]).auto # Garbage, read[c] # None
    PROVE  /\ Configured(c) \notin {None, Garbage} /\ read[c] \in Document
           /\ [Configured(c) EXCEPT !.auto = read[c].auto, !.layout = read[c].layout] = read[c]
<1>1. read[c] \in Document /\ Text(read[c]) = read[c]
  BY DEF CommandsTypeOK, Text
<1>2. Configured(c) \in Document
  BY EditsType
<1>3. [Configured(c) EXCEPT !.auto = read[c].auto, !.layout = read[c].layout] = read[c]
  BY <1>1 DEF Configured, Document
<1>. QED BY <1>1, <1>2, <1>3, SetupAssumption

LEMMA WayPreserves ==
    ASSUME CommandsTypeOK, NEW c \in Commands, Op(c) = "configure", Running(c), Way(c),
           touched[c] \cap {"config", "confbak"} = {}
    PROVE  Preserved(c)
<1>1. pc[c] \in Configures
  BY DEF Way, Running
<1>2. CASE read[c] = None
  BY <1>2 DEF Preserved
<1>3. CASE home["config"] = read[c] /\ read[c] # None
  BY <1>3 DEF Preserved, Text
<1>4. CASE home["config"] = Configured(c) /\ home["confbak"] = read[c] /\ read[c] # None
           /\ Text(read[c]).auto # Garbage
  BY <1>4, ConfiguredKeeps DEF Preserved
<1>. QED BY <1>1, <1>2, <1>3, <1>4 DEF Way, Configures

\* A step of configure's own that begins or goes on.
LEMMA WayOn ==
    ASSUME CommandsTypeOK, SecretsTypeOK, NEW c \in Commands, Op(c) = "configure", Way(c), Acts(c)
    PROVE  Way(c)' /\ (touched[c] \cap {"config", "confbak"} = {} /\ Running(c) => Preserved(c)')
<1> DEFINE clean == touched[c] \cap {"config", "confbak"} = {}
<1>0. /\ touched'[c] = touched[c] /\ (Running(c) /\ clean => Preserved(c))
      /\ pc[c] \in {"off"} \cup Configures \cup Ended
      /\ {"config", "confbak"} \subseteq Homes
  BY WayPreserves DEF Acts, Way, Homes
<1>a. UNCHANGED cast => Op(c)' = "configure"
  BY DEF Op
<1>b. UNCHANGED read => Configured(c)' = Configured(c)
  BY DEF Configured
<1>1. CASE UNCHANGED <<cast, pc, read, home>>
  BY <1>0, <1>1 DEF Way, Op, Configured, Preserved
<1>2. CASE Begin(c)
  <2>1. pc[c] = "off" /\ pc'[c] = "cfg" /\ UNCHANGED <<cast, read, home>>
    BY <1>2 DEF Begin, On, To, CommandsTypeOK
  <2>2. ~Running(c)
    BY <2>1 DEF Running
  <2>. QED BY <1>0, <1>a, <2>1, <2>2 DEF Way, Configures
<1>3. CASE CommandCrash(c)
  <2>1. pc'[c] = "crashed" /\ UNCHANGED <<cast, read>>
    BY <1>3, AtStep DEF CommandCrash, Frame
  <2>2. Way(c)'
    BY <1>a, <2>1 DEF Way, Configures, Ended
  <2>3. CASE UNCHANGED home
    BY <1>0, <2>1, <2>2, <2>3 DEF Preserved, Running, CommandCrash
  <2>4. ASSUME pc[c] \in DOMAIN BackupOf, Sets(BackupOf[pc[c]], Garbage), clean
        PROVE  Preserved(c)'
    <3>1. pc[c] = "cfg_backup" /\ BackupOf[pc[c]] = "confbak"
      BY <1>0, <2>4 DEF BackupOf, Configures, Ended
    <3>2. home'["config"] = home["config"] /\ home["config"] = read[c]
      BY <1>0, <2>4, <3>1, SetsAt DEF Way
    <3>. QED BY <2>1, <3>2 DEF Preserved, Text
  <2>. QED BY <1>3, <2>2, <2>3, <2>4 DEF CommandCrash, Torn
<1>4. CASE CfgRead(c)
  <2>1. UNCHANGED <<cast, home>> /\ pc[c] = "cfg"
    BY <1>4 DEF CfgRead, NoSecrets, Frame, On
  <2>2. CASE To(c, "refused") /\ UNCHANGED read
    <3>1. pc'[c] = "refused"
      BY <2>2, AtStep
    <3>. QED BY <1>0, <1>a, <2>1, <2>2, <3>1 DEF Way, Preserved, Configures, Ended
  <2>3. CASE Configurable(home["config"]) /\ To(c, "cfg_backup") /\ Reads(c)
    <3>1. pc'[c] = "cfg_backup" /\ read'[c] = home'["config"]
      BY <2>1, <2>3, AtStep DEF Reads, CommandsTypeOK
    <3>2. Text(read'[c]).auto # Garbage
      BY <2>1, <2>3, <3>1 DEF Configurable
    <3>. QED BY <1>0, <1>a, <2>1, <3>1, <3>2 DEF Way, Preserved, Text, Configures, Ended
  <2>. QED BY <1>4, <2>2, <2>3 DEF CfgRead
<1>5. CASE Backs(c, "cfg_backup", "confbak", "cfg_write", "cfg_restore")
  <2>1. UNCHANGED <<cast, read>> /\ pc[c] = "cfg_backup" /\ read[c] \in {None} \cup Document
    BY <1>5 DEF Backs, NoSecrets, Frame, On, CommandsTypeOK
  <2>2. home'["config"] = home["config"]
    BY <1>5, ShimsStay DEF Backs, Torn
  <2>3. clean => Preserved(c)'
    BY <1>0, <2>1, <2>2 DEF Way, Preserved, Text
  <2>4. CASE /\ To(c, "cfg_write")
             /\ IF home["config"] # None THEN Sets("confbak", Text(read[c])) ELSE UNCHANGED home
    <3>1. pc'[c] = "cfg_write"
      BY <2>4, AtStep
    <3>2. home["config"] # None => home'["confbak"] = Text(read[c])
      BY <1>0, <2>4, SetsAt
    <3>3. clean => read'[c] = None \/ home'["confbak"] = read'[c]
      BY <1>0, <2>1, <2>4, <3>2 DEF Way, Text
    <3>4. Text(read'[c]).auto # Garbage /\ ("config" \notin touched'[c] => home'["config"] = read'[c])
      BY <1>0, <2>1, <2>2 DEF Way, Configures
    <3>. QED BY <1>0, <1>a, <2>1, <2>3, <3>1, <3>3, <3>4 DEF Way, Configures
  <2>5. CASE FailsTo(c, "cfg_restore")
    <3>1. pc'[c] = "cfg_restore"
      BY <2>5, AtStep DEF FailsTo
    <3>. QED BY <1>0, <1>a, <2>1, <2>2, <2>3, <3>1 DEF Way, Configures, Ended
  <2>. QED BY <1>5, <2>4, <2>5 DEF Backs
<1>6. CASE Replaces(c, "cfg_write", "config", Configured(c), "cfg_verify", "cfg_restore")
  <2>1. UNCHANGED <<cast, read>> /\ pc[c] = "cfg_write"
    BY <1>6 DEF Replaces, NoSecrets, Frame, On
  <2>2. home'["confbak"] = home["confbak"]
    BY <1>0, <1>6, SetsAt DEF Replaces
  <2>3. CASE Sets("config", Configured(c)) /\ To(c, "cfg_verify")
    <3>1. pc'[c] = "cfg_verify" /\ home'["config"] = Configured(c)
      BY <1>0, <2>3, AtStep, SetsAt
    <3>2. clean => Preserved(c)'
      BY <1>0, <2>1, <2>2, <3>1, ConfiguredKeeps DEF Way, Preserved, Configures
    <3>. QED BY <1>0, <1>a, <1>b, <2>1, <2>2, <3>1, <3>2 DEF Way, Configures, Ended
  <2>4. CASE FailsTo(c, "cfg_restore") /\ UNCHANGED home
    <3>1. pc'[c] = "cfg_restore"
      BY <2>4, AtStep DEF FailsTo
    <3>2. clean => Preserved(c)'
      BY <1>0, <2>1, <2>4 DEF Way, Preserved, Text
    <3>. QED BY <1>0, <1>a, <1>b, <2>1, <2>4, <3>1, <3>2 DEF Way, Configures, Ended
  <2>. QED BY <1>6, <2>3, <2>4 DEF Replaces
<1>7. CASE CfgVerify(c)
  <2>1. UNCHANGED <<cast, home, read>> /\ pc[c] = "cfg_verify"
    BY <1>7 DEF CfgVerify, NoSecrets, Frame, On
  <2>2. pc'[c] \in {"done", "cfg_restore"}
    BY <1>7, AtStep DEF CfgVerify
  <2>3. clean => Preserved(c)'
    BY <1>0, <2>1 DEF Preserved, Running, Ended
  <2>. QED BY <1>0, <1>a, <1>b, <2>1, <2>2, <2>3 DEF Way, Configures, Ended
<1>8. CASE Restores(c, "cfg_restore", Was(c), "unchanged")
  <2>1. UNCHANGED <<cast, read>> /\ pc[c] = "cfg_restore" /\ pc'[c] = "unchanged"
    BY <1>8, AtStep DEF Restores, NoSecrets, Frame, On, FailsTo
  <2>2. \/ home'["config"] = Was(c)
        \/ UNCHANGED home
    BY <1>0, <1>8, SetsAt DEF Restores
  <2>3. home'["config"] = Was(c) => read[c] = None \/ Text(home'["config"]) = read[c]
    BY DEF Was, Text
  <2>4. clean => Preserved(c)'
    <3>1. UNCHANGED home => (clean => Preserved(c)')
      BY <1>0, <2>1 DEF Preserved, Running, Ended
    <3>. QED BY <2>1, <2>2, <2>3, <3>1 DEF Preserved
  <2>. QED BY <1>a, <2>1, <2>4 DEF Way, Configures, Ended
<1>. QED
  BY <1>0, <1>1, <1>2, <1>3, <1>4, <1>5, <1>6, <1>7, <1>8, ConfigureActs DEF Configure

LEMMA CastStays ==
    ASSUME [Next]_vars
    PROVE  UNCHANGED cast
<1>1. ASSUME NEW c \in Commands, CommandStep(c) \/ Begin(c) \/ CommandCrash(c)
      PROVE  UNCHANGED cast
  <2>1. NoSecrets => UNCHANGED cast
    BY DEF NoSecrets, Frame
  <2>2. Tokens(c) => UNCHANGED cast
    BY DEF Tokens, SecureWrite, Token, EnsureAdmin, Doctor, Minted, Permissions, NoSecrets, Frame
  <2>3. Begin(c) \/ CommandCrash(c) \/ Rollback(c) => UNCHANGED cast
    BY DEF Begin, CommandCrash, Rollback, Frame
  <2>4. Resolve(c) \/ Snapshot(c) \/ Finish(c) => NoSecrets
    BY DEF Resolve, Snapshot, Snaps, Finish
  <2>5. Shims(c) => NoSecrets
    BY DEF Shims, InstallCheck, InstallWrite, ControlCheck, ControlWrite, Replaces, Undoes
  <2>6. EnablePlugin(c) => NoSecrets
    BY DEF EnablePlugin, PlugRead, PlugCheck, PlugVerify, Backs, Replaces, Restores
  <2>7. EnableAlias(c) => NoSecrets
    BY DEF EnableAlias, AliasRead, AliasVerify, Backs, Replaces, Restores
  <2>8. Configure(c) => NoSecrets
    BY DEF Configure, CfgRead, CfgVerify, Backs, Replaces, Restores
  <2>. QED BY <1>1, <2>1, <2>2, <2>3, <2>4, <2>5, <2>6, <2>7, <2>8 DEF CommandStep
<1>2. ASSUME NEW g \in Gateways, GatewayRuns(g)
      PROVE  UNCHANGED cast
  BY <1>2 DEF GatewayRuns, GatewayStep, SecureWrite, Start, ReadToken, TokenMinted, ReadAdmin,
              AdminMinted, LookUp, Claim, ReadSalt, SaltWritten, SaltFailed, Undo, Crash
<1>3. UserEdit \/ UNCHANGED vars => UNCHANGED cast
  BY DEF UserEdit, vars, secretVars
<1>. QED BY <1>1, <1>2, <1>3 DEF Next, CommandNext

LEMMA WayGoesOn ==
    ASSUME SetupTypeOK, NEW c \in Commands, Way(c), [Next]_vars
    PROVE  /\ Way(c)'
           /\ Op(c) = "configure" /\ Running(c) /\ touched'[c] \cap {"config", "confbak"} = {} =>
                Preserved(c)'
<1>0. CommandsTypeOK /\ SecretsTypeOK
  BY DEF SetupTypeOK, CommandsTypeOK
<1>1. UNCHANGED cast
  BY CastStays
<1>2. CASE Op(c) # "configure"
  BY <1>1, <1>2 DEF Way, Op
<1>3. CASE Op(c) = "configure" /\ Acts(c)
  BY <1>0, <1>3, WayOn DEF Acts
<1>4. CASE Op(c) = "configure" /\ Away(c)
  <2>0. Op(c)' = "configure" /\ pc'[c] = pc[c] /\ read'[c] = read[c] /\ Configured(c)' = Configured(c)
    BY <1>4 DEF Away, Op, Configured
  <2>1. ASSUME NEW f \in {"config", "confbak"}, f \notin touched'[c], Running(c)
        PROVE  f \notin touched[c] /\ home'[f] = home[f]
    <3>1. f \in Homes /\ f \notin SecretFiles
      BY DEF Homes, SecretFiles
    <3>. QED BY <1>4, <2>1, <3>1 DEF Away, Content
  <2>2. ~Running(c) => Way(c)'
    BY <1>4, <2>0 DEF Way, Running, Configures, Ended
  <2>3. ASSUME Running(c) PROVE Way(c)'
    <3>1. Text(read'[c]) = Text(read[c]) /\ Op(c) = "configure"
      BY <1>4, <2>0
    <3>2. "config" \notin touched'[c] =>
            "config" \notin touched[c] /\ home'["config"] = home["config"]
      BY <2>1, <2>3
    <3>3. "confbak" \notin touched'[c] =>
            "confbak" \notin touched[c] /\ home'["confbak"] = home["confbak"]
      BY <2>1, <2>3
    <3>. QED BY <2>0, <3>1, <3>2, <3>3 DEF Way
  <2>4. ASSUME Running(c), touched'[c] \cap {"config", "confbak"} = {} PROVE Preserved(c)'
    <3>1. /\ touched[c] \cap {"config", "confbak"} = {}
          /\ home'["config"] = home["config"] /\ home'["confbak"] = home["confbak"]
      BY <2>1, <2>4
    <3>2. Preserved(c)
      BY <1>0, <1>4, <2>4, <3>1, WayPreserves
    <3>. QED BY <2>0, <3>1, <3>2 DEF Preserved
  <2>. QED BY <2>2, <2>3, <2>4
<1>. QED BY <1>2, <1>3, <1>4, Turns

LEMMA WayBegins ==
    ASSUME SetupInit, NEW c \in Commands
    PROVE  Way(c)
BY DEF SetupInit, Way, Configures

\* Whatever fails and whoever kills it: the document that a configure read is in
\* config.yaml or, whole, in the backup that _write_candidate_config made before it
\* wrote, and then no value of it but the router's has changed.
THEOREM ConfigureLosesNothing == Spec => ConfigureKeeps
<1> DEFINE All == \A c \in Commands: Way(c)
<1> DEFINE Good == \A c \in Commands:
              /\ Op(c) = "configure" /\ Running(c)
              /\ touched'[c] \cap {"config", "confbak"} = {}
              => Preserved(c)'
<1>1. SetupInit => All
  BY WayBegins
<1>2. SetupTypeOK /\ All /\ [Next]_vars => All' /\ [Good]_vars
  BY WayGoesOn
<1>. QED BY <1>1, <1>2, TypeCorrect, PTL DEF Spec, ConfigureKeeps

LEMMA AsFileAt ==
    ASSUME NEW doc \in Document, doc.auto # Garbage
    PROVE  /\ AsFile(doc).auto = doc.auto /\ AsFile(doc).bare = doc.bare
           /\ doc.plugins # "absent" => AsFile(doc).foreign # {}
           /\ AsFile(doc) # None /\ AsFile(doc) # Garbage
<1>1. doc \notin {None, Garbage}
  BY SetupAssumption
<1>2. doc.auto \in {None} \cup Settings /\ doc.bare \in Settings
  BY DEF Document
<1>3. /\ AsFile(doc).auto = doc.auto /\ AsFile(doc).bare = doc.bare
      /\ doc.plugins # "absent" => "plugins" \in AsFile(doc).foreign
      /\ AsFile(doc) \in AsFiles
  <2> DEFINE others == (IF doc.own > 0 THEN {"own"} ELSE {})
                         \cup (IF doc.plugins # "absent" THEN {"plugins"} ELSE {})
                         \cup (IF doc.alias # None THEN {"model_aliases"} ELSE {})
  <2>1. AsFile(doc) = [auto |-> doc.auto, bare |-> doc.bare, foreign |-> others]
    BY <1>1 DEF AsFile
  <2>2. /\ others \in SUBSET {"own", "plugins", "model_aliases"}
        /\ doc.plugins # "absent" => "plugins" \in others
    OBVIOUS
  <2> HIDE DEF others
  <2>. QED BY <1>2, <2>1, <2>2 DEF AsFiles
<1>. QED BY <1>3, SetupAssumption

\* What a block loads as.
LEMMA BlockIs ==
    ASSUME NEW b, Block(b) # None
    PROVE  LET g == Gateway(Given(b.gateway, NoGateway))
           IN  Block(b) = [port |-> g.port, admin |-> g.admin, dial |-> g.dial,
                           ids |-> ResolvedIds(b)]
BY DEF Block

\* A block with no gateway settings binds what the defaults bind.
LEMMA NoGatewayIs ==
    Gateway(NoGateway) = [port |-> DefaultPort, admin |-> DefaultPort + 1, dial |-> DefaultPort]
<1>1. /\ Given(NoGateway.url, DefaultUrl) = DefaultUrl
      /\ \A n: Given(NoGateway.port, n) = n /\ Given(NoGateway.admin, n) = n
      /\ Given(NoGateway.timeout, 10) = 10
  BY DEF NoGateway, Given
<1>2. PortFromUrl(DefaultUrl) = DefaultPort
  <2>1. DefaultUrl.port = DefaultPort /\ DefaultPort \in Int
    BY DEF DefaultUrl, DefaultPort
  <2>. QED BY <2>1, SetupAssumption DEF PortFromUrl
<1>3. /\ PortOK(DefaultPort) /\ PortOK(DefaultPort + 1)
      /\ DefaultPort + 1 # DefaultPort /\ DefaultPort # 0
  BY DEF PortOK, LastPort, DefaultPort
<1>. QED BY <1>1, <1>2, <1>3 DEF Gateway

\* What the loader makes of the document that configure writes.
LEMMA ConfiguredLoads ==
    ASSUME CommandsTypeOK, NEW c \in Commands, Text(read[c]).auto # Garbage,
           Load(AsFile(Configured(c)), "yes") # None
    PROVE  LET before == Load(AsFile(read[c]), "no")
               after == Load(AsFile(Configured(c)), "no")
           IN  /\ after # None /\ after.ids = [n \in DOMAIN Approved |-> Approved[n].id]
               /\ before # None /\ Text(read[c]).bare = NoBlock
                    => after = [before EXCEPT !.ids = after.ids]
<1> DEFINE old == Text(read[c])
           block == [Given(old.auto, NoBlock) EXCEPT !.upstream = None, !.candidates = Approved]
           ids == [n \in DOMAIN Approved |-> Approved[n].id]
           gateway == Gateway(Given(Given(old.auto, NoBlock).gateway, NoGateway))
           after == Load(AsFile(Configured(c)), "no")
           before == Load(AsFile(read[c]), "no")
<1>1. /\ old \in Document /\ Configured(c) \in Document
      /\ old.auto \in {None} \cup Settings /\ Configured(c).auto = block
  <2>1. old \in Document /\ Configured(c) \in Document
    BY EditsType
  <2>. QED BY <2>1 DEF Document, Configured
<1>2. /\ Given(old.auto, NoBlock) \in Settings /\ block \in Settings
      /\ block # None /\ block # Garbage
  <2>1. Given(old.auto, NoBlock) \in Settings
    BY <1>1, EmptyType DEF Given
  <2>2. [NoBlock EXCEPT !.candidates = Approved].candidates = Approved
    BY DEF NoBlock
  <2>3. block \in Settings
    BY <2>1, <2>2, SetupAssumption DEF Settings
  <2>. QED BY <2>1, <2>3, SetupAssumption
<1>3. /\ block.gateway = Given(old.auto, NoBlock).gateway /\ block.candidates = Approved
      /\ ResolvedIds(block) = ids
  <2>1. block.gateway = Given(old.auto, NoBlock).gateway /\ block.candidates = Approved
    BY <1>2 DEF Settings
  <2>. QED BY <2>1, SetupAssumption DEF ResolvedIds
<1> HIDE DEF block
<1>4. /\ after = Block(block) /\ after # None
  <2>1. /\ AsFile(Configured(c)).auto = block
        /\ AsFile(Configured(c)) # None /\ AsFile(Configured(c)) # Garbage
    BY <1>1, <1>2, AsFileAt
  <2>. QED BY <1>2, <2>1 DEF Load
<1>5. after = [port |-> gateway.port, admin |-> gateway.admin, dial |-> gateway.dial, ids |-> ids]
  BY <1>3, <1>4, BlockIs
<1>6. ASSUME before # None, old.bare = NoBlock PROVE after = [before EXCEPT !.ids = ids]
  <2>1. CASE old.auto = None
    <3>1. Given(Given(old.auto, NoBlock).gateway, NoGateway) = NoGateway
      BY <2>1 DEF Given, NoBlock
    <3>2. /\ gateway.port = DefaultPort /\ gateway.admin = DefaultPort + 1
          /\ gateway.dial = DefaultPort
      BY <3>1, NoGatewayIs
    <3>3. \/ before = Defaults
          \/ before = [port |-> DefaultPort, admin |-> DefaultPort + 1, dial |-> DefaultPort,
                       ids |-> ResolvedIds(NoBlock)]
      <4>1. CASE read[c] = None
        <5>1. AsFile(read[c]) = None
          BY <4>1 DEF AsFile
        <5>2. Load(None, "no") = Defaults
          <6>1. None # Garbage
            BY SetupAssumption
          <6>. QED BY <6>1 DEF Load
        <5>3. before = Load(None, "no")
          BY <5>1
        <5> HIDE DEF before
        <5>. QED BY <5>2, <5>3
      <4>2. CASE read[c] # None
        <5>1. read[c] = old /\ old.auto # Garbage
          BY <2>1, <4>2, SetupAssumption DEF Text
        <5>2. /\ AsFile(read[c]).auto = None /\ AsFile(read[c]).bare = NoBlock
              /\ AsFile(read[c]) # None /\ AsFile(read[c]) # Garbage
          BY <1>1, <1>6, <2>1, <5>1, AsFileAt
        <5>3. CASE AsFile(read[c]).foreign = {}
          <6>1. NoBlock.unknown \cup {} = {} /\ [NoBlock EXCEPT !.unknown = @ \cup {}] = NoBlock
            BY DEF NoBlock
          <6>2. before = Block(NoBlock)
            BY <5>2, <5>3, <6>1 DEF Load
          <6>3. Given(NoBlock.gateway, NoGateway) = NoGateway
            BY DEF NoBlock, Given
          <6>4. LET g == Gateway(NoGateway)
                IN  before = [port |-> g.port, admin |-> g.admin, dial |-> g.dial,
                              ids |-> ResolvedIds(NoBlock)]
            BY <1>6, <6>2, <6>3, BlockIs
          <6>. QED BY <6>4, NoGatewayIs
        <5>4. CASE AsFile(read[c]).foreign # {}
          <6>1. NoBlock.unknown \cup AsFile(read[c]).foreign # {}
            BY <5>4
          <6>. QED BY <5>2, <6>1 DEF Load
        <5>. QED BY <5>3, <5>4
      <4>. QED BY <4>1, <4>2
    <3>. QED BY <1>5, <3>2, <3>3 DEF Defaults
  <2>2. CASE old.auto # None
    <3>1. read[c] = old /\ Given(old.auto, NoBlock) = old.auto
      BY <2>2 DEF Text, EmptyDoc, Given
    <3>2. AsFile(read[c]).auto = old.auto /\ AsFile(read[c]) # None /\ AsFile(read[c]) # Garbage
      BY <1>1, <3>1, AsFileAt
    <3>3. before = Block(old.auto)
      BY <2>2, <3>2 DEF Load
    <3>4. before = [port |-> gateway.port, admin |-> gateway.admin, dial |-> gateway.dial,
                    ids |-> ResolvedIds(old.auto)]
      BY <1>6, <3>1, <3>3, BlockIs
    <3>. QED BY <1>5, <3>4
  <2>. QED BY <2>1, <2>2
<1>. QED BY <1>4, <1>5, <1>6

\* "wrote N approved candidates": the file that an undisturbed configure leaves loads,
\* routes among these and, unless the settings were bare ones, binds what it bound.
THEOREM ConfigureWorks == Spec => ConfigureTakesEffect
<1> DEFINE All == \A c \in Commands: Way(c)
           works(c) ==
             LET before == Load(AsFile(read[c]), "no")
                 after == Load(AsFile(home["config"]), "no")
             IN  /\ after # None /\ after.ids = [n \in DOMAIN Approved |-> Approved[n].id]
                 /\ before # None /\ Text(read[c]).bare = NoBlock
                      => after = [before EXCEPT !.ids = after.ids]
           Good == \A c \in Commands:
              /\ Op(c) = "configure" /\ On(c, "cfg_verify") /\ pc'[c] = "done"
              /\ Undisturbed(c, {"config"})
              => works(c)
<1>1. SetupInit => All
  BY WayBegins
<1>2. SetupTypeOK /\ All /\ [Next]_vars => All'
  BY WayGoesOn
<1>3. ASSUME SetupTypeOK, All, [Next]_vars, NEW c \in Commands, Op(c) = "configure",
             On(c, "cfg_verify"), pc'[c] = "done", Undisturbed(c, {"config"})
      PROVE  works(c)
  <2>1. CommandsTypeOK /\ Way(c) /\ pc[c] = "cfg_verify"
    BY <1>3 DEF SetupTypeOK, CommandsTypeOK, On
  <2>2. Acts(c)
    BY <1>3, <2>1, Turns DEF Away
  <2>3. Configure(c)
    <3>1. CommandCrash(c) => pc'[c] = "crashed"
      BY <2>1, AtStep DEF CommandCrash
    <3>. QED BY <1>3, <2>1, <2>2, <3>1, ConfigureActs DEF Begin, On, Configures
  <2>4. CfgVerify(c)
    BY <2>1, <2>3 DEF Configure, CfgRead, Backs, Replaces, Restores, On
  <2>5. Load(AsFile(home["config"]), "yes") # None
    <3>1. ~To(c, "cfg_restore")
      BY <1>3, <2>1, AtStep
    <3>. QED BY <2>4, <3>1 DEF CfgVerify
  <2>6. home["config"] = Configured(c) /\ Text(read[c]).auto # Garbage
    BY <1>3, <2>1 DEF Way, Undisturbed, Configures
  <2>. QED BY <2>1, <2>5, <2>6, ConfiguredLoads
<1>4. SetupTypeOK /\ All /\ [Next]_vars => [Good]_vars
  BY <1>3
<1>. QED BY <1>1, <1>2, <1>4, TypeCorrect, PTL DEF Spec, ConfigureTakesEffect

-----------------------------------------------------------------------------
(* The bearer token of a running gateway.  While the file holds it nobody   *)
(* begins to mint one, so whoever takes it away was at it before.           *)

TokenTaken ==
    \/ \E p \in Procs: Minting(p, "token") /\ At(p, "unlink") /\ At(p, "create")'
    \/ \E c \in Commands: On(c, "roll") /\ snap[c][1] # secret["token"]

\* What a step makes of a token that is there.
KeepsToken ==
    /\ secret'["token"] = secret["token"] \/ TokenTaken
    /\ \A p \in Procs: Minting(p, "token")' => Minting(p, "token")

LEMMA JobSteps ==
    ASSUME SecretsTypeOK, NEW p \in Procs
    PROVE  /\ \A step: Goes(p, step) =>
                /\ job'[p].file = job[p].file /\ job'[p].id = job[p].id /\ job'[p].step = step
                /\ \A q \in Procs: q # p => job'[q] = job[q]
           /\ Done(p) => job'[p] = Idle /\ \A q \in Procs: q # p => job'[q] = job[q]
           /\ \A f, step: Draw(p, f, step) =>
                /\ job'[p] = [file |-> f, step |-> step, id |-> mints + 1]
                /\ \A q \in Procs: q # p => job'[q] = job[q]
BY GoesStep DEF SecretsTypeOK, Done, Draw

\* Of the three secrets, a step of secure_write writes that of its job.
LEMMA WritesOwn ==
    ASSUME SecretsTypeOK, NEW p \in Procs, NEW f \in SecretFiles, job[p].file # f, SecureWrite(p)
    PROVE  secret'[f] = secret[f]
BY DEF SecureWrite, Unlink, Create, Write, Puts, SecretsTypeOK

LEMMA SecureWriteToken ==
    ASSUME SecretsTypeOK, NEW p \in Procs, Present("token"), SecureWrite(p)
    PROVE  KeepsToken
<1>0. secret["token"] # None /\ secret["token"].whole = "yes"
  BY DEF Present, Holds
<1>1. PICK step: Goes(p, step)
  BY SecureWriteJob
<1>2. \A q \in Procs: Minting(q, "token")' => Minting(q, "token")
  BY <1>1, JobSteps DEF Minting
<1>3. CASE job[p].file # "token"
  <2>1. secret'["token"] = secret["token"]
    BY <1>3, WritesOwn DEF SecretFiles
  <2>. QED BY <1>2, <2>1 DEF KeepsToken
<1>4. CASE job[p].file = "token"
  <2>1. Unlink(p) => secret' = secret \/ TokenTaken
    <3>1. Goes(p, "create") => At(p, "create")'
      BY JobSteps DEF At
    <3>. QED BY <1>4, <3>1 DEF Unlink, TokenTaken, Minting
  <2>2. Create(p) => secret' = secret
    BY <1>0, <1>4 DEF Create
  <2>3. Write(p) => secret' = secret
    <3>1. secret["token"] # Mine(p)
      BY <1>0 DEF Mine
    <3>. QED BY <1>4, <3>1 DEF Write
  <2>. QED BY <1>2, <2>1, <2>2, <2>3 DEF KeepsToken, SecureWrite
<1>. QED BY <1>3, <1>4

LEMMA DoneToken ==
    ASSUME SecretsTypeOK, NEW p \in Procs, Done(p), secret'["token"] = secret["token"]
    PROVE  KeepsToken
<1>1. None # "token"
  BY SecretsAssumption DEF SecretFiles
<1>. QED BY <1>1, JobSteps DEF KeepsToken, Idle, Minting

LEMMA DrawToken ==
    ASSUME SecretsTypeOK, NEW p \in Procs, NEW f, NEW step, f # "token", Draw(p, f, step),
           UNCHANGED secret
    PROVE  KeepsToken
<1>1. /\ job'[p] = [file |-> f, step |-> step, id |-> mints + 1]
      /\ \A q \in Procs: q # p => job'[q] = job[q]
  BY DEF Draw, SecretsTypeOK
<1>. QED BY <1>1 DEF KeepsToken, Minting

LEMMA NoSecretsToken ==
    ASSUME NoSecrets
    PROVE  KeepsToken
BY DEF NoSecrets, KeepsToken, Minting

LEMMA CommandToken ==
    ASSUME SecretsTypeOK, CommandsTypeOK, NEW c \in Commands, Present("token"),
           CommandStep(c) \/ Begin(c) \/ CommandCrash(c)
    PROVE  KeepsToken
<1>0. c \in Procs
  BY DEF Procs
<1>1. CASE NoSecrets
  BY <1>1, NoSecretsToken
<1>2. CASE Begin(c)
  BY <1>2 DEF Begin, KeepsToken, Minting
<1>3. CASE CommandCrash(c)
  BY <1>0, <1>3, DoneToken DEF CommandCrash
<1>4. CASE Tokens(c)
  <2>1. SecureWrite(c) => KeepsToken
    BY <1>0, SecureWriteToken
  <2>2. Token(c) => KeepsToken
    BY DEF Token, KeepsToken, Minting, Present
  <2>3. ASSUME NEW from, NEW next, EnsureAdmin(c, from, next)
        PROVE  KeepsToken
    BY <1>0, <2>3, DrawToken DEF EnsureAdmin, KeepsToken, Minting
  <2>4. ASSUME NEW from, NEW next, NEW skip, Minted(c, from, next, skip)
        PROVE  KeepsToken
    BY <1>0, <2>4, DoneToken DEF Minted
  <2>5. ASSUME NEW from, NEW f, NEW next, Permissions(c, from, f, next)
        PROVE  KeepsToken
    BY <2>5, NoSecretsToken DEF Permissions
  <2>6. Doctor(c) => KeepsToken
    BY NoSecretsToken DEF Doctor
  <2>. QED BY <1>4, <2>1, <2>2, <2>3, <2>4, <2>5, <2>6 DEF Tokens
<1>5. CASE Rollback(c)
  <2>1. pc[c] = "roll" /\ UNCHANGED job
    BY <1>5 DEF Rollback, On
  <2>2. roll[c] \in 1..8 /\ (Managed[roll[c]] = "token" => roll[c] = 1)
    <3>1. roll[c] \in 1..8
      BY TableOfFiles DEF CommandsTypeOK
    <3>2. \A n \in 1..8: Managed[n] = "token" => n = 1
      BY DEF Managed
    <3>. QED BY <3>1, <3>2
  <2>3. secret' = secret \/ Puts(Managed[roll[c]], snap[c][roll[c]])
    BY <1>5 DEF Rollback
  <2>5. secret'["token"] = secret["token"] \/ TokenTaken
    <3>1. CASE roll[c] = 1
      <4>1. secret'["token"] \in {secret["token"], snap[c][1]}
        BY <2>3, <3>1 DEF Puts, SecretsTypeOK, SecretFiles, Managed
      <4>. QED BY <2>1, <4>1 DEF TokenTaken, On
    <3>2. CASE Managed[roll[c]] # "token"
      BY <2>3, <3>2 DEF Puts, SecretsTypeOK, SecretFiles
    <3>. QED BY <2>2, <3>1, <3>2
  <2>. QED BY <2>1, <2>5 DEF KeepsToken, Minting
<1>6. Resolve(c) \/ Snapshot(c) => NoSecrets
  BY DEF Resolve, Snapshot, Snaps
<1>7. Shims(c) => NoSecrets
  BY DEF Shims, InstallCheck, InstallWrite, ControlCheck, ControlWrite, Replaces, Undoes
<1>8. EnablePlugin(c) => NoSecrets
  BY DEF EnablePlugin, PlugRead, PlugCheck, PlugVerify, Backs, Replaces, Restores
<1>9. EnableAlias(c) => NoSecrets
  BY DEF EnableAlias, AliasRead, AliasVerify, Backs, Replaces, Restores
<1>10. Configure(c) => NoSecrets
  BY DEF Configure, CfgRead, CfgVerify, Backs, Replaces, Restores
<1>11. Finish(c) => NoSecrets
  BY DEF Finish
<1>. QED
  BY <1>1, <1>2, <1>3, <1>4, <1>5, <1>6, <1>7, <1>8, <1>9, <1>10, <1>11 DEF CommandStep

LEMMA GatewayToken ==
    ASSUME SecretsTypeOK, NEW g \in Gateways, Present("token"), GatewayRuns(g)
    PROVE  KeepsToken
<1>0. g \in Procs
  BY DEF Procs
<1>1. SecureWrite(g) => KeepsToken
  BY <1>0, SecureWriteToken
<1>2. Start(g) \/ ReadToken(g) => KeepsToken
  BY DEF Start, ReadToken, KeepsToken, Minting, Present
<1>3. TokenMinted(g) \/ AdminMinted(g) \/ ReadSalt(g) \/ Crash(g) => KeepsToken
  BY <1>0, DoneToken DEF TokenMinted, AdminMinted, ReadSalt, Crash
<1>4. ReadAdmin(g) => KeepsToken
  BY <1>0, DrawToken DEF ReadAdmin, KeepsToken, Minting
<1>5. LookUp(g) => KeepsToken
  <2>1. job' = [job EXCEPT ![g] = [file |-> "salt", step |-> "read", id |-> 0]] /\ UNCHANGED secret
          => KeepsToken
    BY <1>0 DEF KeepsToken, Minting, SecretsTypeOK
  <2>. QED BY <1>0, <2>1, DrawToken DEF LookUp
<1>6. ASSUME Claim(g) \/ SaltWritten(g) \/ SaltFailed(g) \/ Undo(g) PROVE KeepsToken
  <2>1. secret'["token"] = secret["token"]
    BY <1>6 DEF Claim, SaltWritten, SaltFailed, Undo, Puts, SecretsTypeOK, SecretFiles
  <2>2. Done(g) \/ \E step: Goes(g, step)
    BY <1>6 DEF Claim, SaltWritten, SaltFailed, Undo
  <2>. QED BY <1>0, <2>1, <2>2, DoneToken, JobSteps DEF KeepsToken, Minting
<1>. QED BY <1>1, <1>2, <1>3, <1>4, <1>5, <1>6 DEF GatewayRuns, GatewayStep

LEMMA TokenStep ==
    ASSUME SetupTypeOK, Present("token"), [Next]_vars
    PROVE  KeepsToken
<1>0. CommandsTypeOK /\ SecretsTypeOK
  BY DEF SetupTypeOK, CommandsTypeOK
<1>1. UserEdit \/ UNCHANGED vars => KeepsToken
  BY DEF UserEdit, KeepsToken, Minting, vars, secretVars
<1>. QED BY <1>0, <1>1, CommandToken, GatewayToken DEF Next, CommandNext

Racing == \A g \in Gateways: Holding(g) => {p \in Procs: Minting(p, "token")} \subseteq racers[g]

LEMMA RacingGoesOn ==
    ASSUME SetupTypeOK, Racing, [Next]_vars
    PROVE  Racing'
<1> SUFFICES ASSUME NEW g \in Gateways, Holding(g)', NEW p \in Procs, Minting(p, "token")'
             PROVE  p \in racers'[g]
  BY DEF Racing
<1>1. CASE UNCHANGED vars
  <2>1. Holding(g) /\ Minting(p, "token") /\ racers'[g] = racers[g]
    BY <1>1 DEF vars, secretVars, Holding, Present, Holds, Minting
  <2>. QED BY <2>1 DEF Racing
<1>2. ASSUME NEW q, Touches(q) PROVE p \in racers'[g]
  <2>1. CASE ~Holding(g)
    BY <1>2, <2>1 DEF Touches
  <2>2. CASE Holding(g)
    <3>1. Minting(p, "token")
      BY <2>2, TokenStep DEF Holding, KeepsToken
    <3>2. racers'[g] = racers[g]
      BY <1>2, <2>2 DEF Touches
    <3>. QED BY <2>2, <3>1, <3>2 DEF Racing
  <2>. QED BY <2>1, <2>2
<1>. QED BY <1>1, <1>2 DEF Next, CommandNext

\* The token that a gateway enforces outlives every start, setup, crash and edit that
\* begins once the file holds it: cmd_setup and the lifespan of the inference app mint
\* only where there is no file.  Who had found none before may still take it away, and
\* so may the rollback of a setup that had.
THEOREM TokensStay == Spec => RunningTokenKept
<1> DEFINE Good == \A g \in Gateways: Holding(g) /\ secret'["token"] # secret["token"] =>
          \/ \E p \in racers[g]: Minting(p, "token") /\ At(p, "unlink") /\ At(p, "create")'
          \/ \E c \in Commands: On(c, "roll") /\ snap[c][1] # secret["token"]
<1>1. SetupInit => Racing
  BY DEF SetupInit, SecretsInit, Racing, Holding
<1>2. SetupTypeOK /\ Racing /\ [Next]_vars => Racing' /\ [Good]_vars
  <2>1. ASSUME SetupTypeOK, Racing, [Next]_vars PROVE Good
    BY <2>1, TokenStep DEF Racing, Holding, KeepsToken, TokenTaken
  <2>. QED BY <2>1, RacingGoesOn
<1>. QED BY <1>1, <1>2, TypeCorrect, PTL DEF Spec, RunningTokenKept

-----------------------------------------------------------------------------
(* The admin token of a gateway that is up.  AdminReachable alone says      *)
(* nothing of a file that is being minted; Sound does: it is whole, or one  *)
(* of those who mint it is about to create it, or to write what it created. *)

\* What a gateway may be minting at each stage of its life.
JobFiles(stage) ==
    IF stage = "token" THEN {None, "token"} ELSE IF stage = "admin" THEN {None, "admin"}
    ELSE IF stage = "up" THEN {None, "salt"} ELSE {None}

JobFits(p) ==
    /\ job[p].file = None <=> job[p].step = "idle"
    /\ job[p].file = "admin" => job[p].id # 0
    /\ job[p].step \in {"claim", "read", "undo"} => job[p].file = "salt"
    /\ p \in Gateways => job[p].file \in JobFiles(life[p])

Midway == {"create", "write"}

Past == Midway \cup {"written", "failed"}

Sound ==
    \/ Present("admin")
    \/ \E p \in Procs: /\ job[p].file = "admin"
                       /\ \/ At(p, "create") /\ secret["admin"] = None
                          \/ At(p, "write") /\ secret["admin"] = Mine(p)

\* Somebody serves, or has unlinked the file.
Matters ==
    \/ \E g \in Gateways: life[g] = "up"
    \/ \E p \in Procs: job[p].file = "admin" /\ job[p].step \in Past

Excused == spent > 0 \/ \E c \in Commands: pc[c] \in {"roll", "restored", "unrestored"}

\* Who has not begun is down.
Waiting == \A g \in Gateways: g \in todo => life[g] = "down"

AdminInv ==
    /\ Waiting /\ \A p \in Procs: JobFits(p)
    /\ Excused \/ (Matters => Sound)

\* What a step does to the job of the process that takes it.
JobMoves(p) ==
    \/ UNCHANGED job
    \/ Done(p)
    \/ \E f \in SecretFiles, step \in {"unlink", "claim"}:
          Draw(p, f, step) /\ (step = "claim" => f = "salt")
    \/ /\ job[p].step # "idle"
       /\ \E step \in {"unlink", "create", "write", "written", "failed"}: Goes(p, step)
    \/ job[p].file = "salt" /\ \E step \in {"read", "undo"}: Goes(p, step)
    \/ job[p].step = "idle" /\ job' = [job EXCEPT ![p] = [file |-> "salt", step |-> "read", id |-> 0]]

LEMMA JobFitsMoves ==
    ASSUME SecretsTypeOK, NEW p \in Procs, \A q \in Procs: JobFits(q), JobMoves(p),
           \A g \in Gateways: g # p => life'[g] = life[g],
           p \in Gateways => job'[p].file \in JobFiles(life'[p])
    PROVE  \A q \in Procs: JobFits(q)'
<1>0. None \notin SecretFiles /\ mints \in Nat
  BY SecretsAssumption DEF SecretsTypeOK
<1>1. \A q \in Procs: q # p => job'[q] = job[q]
  BY JobSteps DEF JobMoves, SecretsTypeOK
<1>2. ASSUME NEW q \in Procs, q # p PROVE JobFits(q)'
  BY <1>1, <1>2 DEF JobFits
<1>3. JobFits(p)'
  <2>1. CASE UNCHANGED job
    BY <2>1 DEF JobFits
  <2>2. CASE Done(p)
    <3>1. job'[p] = Idle
      BY <2>2, JobSteps
    <3>. QED BY <1>0, <3>1 DEF JobFits, Idle, SecretFiles
  <2>3. ASSUME NEW f \in SecretFiles, NEW step \in {"unlink", "claim"}, Draw(p, f, step),
               step = "claim" => f = "salt"
        PROVE  JobFits(p)'
    <3>1. job'[p] = [file |-> f, step |-> step, id |-> mints + 1]
      BY <2>3, JobSteps
    <3>. QED BY <1>0, <2>3, <3>1 DEF JobFits, SecretFiles
  <2>4. ASSUME job[p].step # "idle",
               NEW step \in {"unlink", "create", "write", "written", "failed"}, Goes(p, step)
        PROVE  JobFits(p)'
    <3>1. job'[p].file = job[p].file /\ job'[p].id = job[p].id /\ job'[p].step = step
      BY <2>4, JobSteps
    <3>. QED BY <1>0, <2>4, <3>1 DEF JobFits, SecretFiles
  <2>5. ASSUME job[p].file = "salt", NEW step \in {"read", "undo"}, Goes(p, step)
        PROVE  JobFits(p)'
    <3>1. job'[p].file = job[p].file /\ job'[p].id = job[p].id /\ job'[p].step = step
      BY <2>5, JobSteps
    <3>. QED BY <1>0, <2>5, <3>1 DEF JobFits, SecretFiles
  <2>6. CASE job' = [job EXCEPT ![p] = [file |-> "salt", step |-> "read", id |-> 0]]
    <3>1. job'[p] = [file |-> "salt", step |-> "read", id |-> 0]
      BY <2>6 DEF SecretsTypeOK
    <3>. QED BY <1>0, <3>1 DEF JobFits, SecretFiles
  <2>. QED BY <2>1, <2>2, <2>3, <2>4, <2>5, <2>6 DEF JobMoves
<1>. QED BY <1>2, <1>3

\* A step that writes no admin token and leaves those alone who are about to.
Harmless ==
    /\ secret'["admin"] = secret["admin"]
    /\ \A p \in Procs:
          /\ job[p].file = "admin" /\ job[p].step \in Midway => job'[p] = job[p]
          /\ job'[p].file = "admin" /\ job'[p].step \in Past => job'[p] = job[p]
    /\ \A g \in Gateways: life'[g] = "up" => life[g] = "up" \/ Sound

LEMMA HarmlessKeeps ==
    ASSUME Matters => Sound, Harmless
    PROVE  Matters' => Sound'
<1> SUFFICES ASSUME Matters' PROVE Sound'
  OBVIOUS
<1>1. Matters \/ Sound
  BY DEF Matters, Harmless
<1>2. Present("admin") => Present("admin")'
  BY DEF Harmless, Present, Holds
<1>3. ASSUME NEW p \in Procs, job[p].file = "admin",
             \/ At(p, "create") /\ secret["admin"] = None
             \/ At(p, "write") /\ secret["admin"] = Mine(p)
      PROVE  Sound'
  <2>1. job'[p] = job[p] /\ secret'["admin"] = secret["admin"]
    BY <1>3 DEF Harmless, At, Midway
  <2>. QED BY <1>3, <2>1 DEF Sound, At, Mine
<1>4. Sound => Sound'
  BY <1>2, <1>3 DEF Sound
<1>. QED BY <1>1, <1>4

\* Whoever mints the admin token leaves it in good hands.
LEMMA AdminWrites ==
    ASSUME SecretsTypeOK, NEW p \in Procs, JobFits(p), job[p].file = "admin", SecureWrite(p), Fine,
           Matters => Sound
    PROVE  Sound'
<1>0. /\ "admin" \in SecretFiles /\ job[p].id \in 0..MaxMints /\ job[p].id # 0 /\ None \notin Nat
      /\ MaxMints \in Nat
  BY SecretsAssumption DEF SecretFiles, JobFits, SecretsTypeOK, Jobs
<1>1. ~Fault
  BY SecretsAssumption DEF Fine, Fault, SecretsTypeOK
<1>2. CASE Unlink(p)
  <2>1. Puts("admin", None) /\ Goes(p, "create")
    BY <1>1, <1>2 DEF Unlink
  <2>2. secret'["admin"] = None /\ job'[p].file = "admin" /\ job'[p].step = "create"
    BY <1>0, <2>1, JobSteps DEF Puts, SecretsTypeOK
  <2>. QED BY <2>2 DEF Sound, At
<1>3. CASE Create(p)
  <2>1. Sound
    BY <1>3 DEF Matters, Create, At, Past, Midway
  <2>2. CASE secret["admin"] = None
    <3>1. Puts("admin", [id |-> job[p].id, whole |-> "no"]) /\ Goes(p, "write")
      BY <1>1, <1>3, <2>2 DEF Create
    <3>2. /\ secret'["admin"] = [id |-> job[p].id, whole |-> "no"]
          /\ job'[p].file = "admin" /\ job'[p].step = "write" /\ job'[p].id = job[p].id
      BY <1>0, <3>1, JobSteps DEF Puts, SecretsTypeOK
    <3>. QED BY <3>2 DEF Sound, At, Mine
  <2>3. CASE secret["admin"] # None
    <3>1. Goes(p, "failed") /\ UNCHANGED secret
      BY <1>1, <1>3, <2>3 DEF Create
    <3>2. \A q \in Procs: q # p => job'[q] = job[q]
      BY <3>1, JobSteps
    <3>3. Present("admin") => Present("admin")'
      BY <3>1 DEF Present, Holds
    <3>4. ASSUME NEW q \in Procs, job[q].file = "admin", At(q, "write"), secret["admin"] = Mine(q)
          PROVE  Sound'
      <4>1. job'[q] = job[q] /\ secret'["admin"] = secret["admin"]
        BY <1>3, <3>1, <3>2, <3>4 DEF Create, At
      <4>. QED BY <3>4, <4>1 DEF Sound, At, Mine
    <3>. QED BY <2>1, <2>3, <3>3, <3>4 DEF Sound
  <2>. QED BY <2>2, <2>3
<1>4. CASE Write(p)
  <2>1. Sound
    BY <1>4 DEF Matters, Write, At, Past, Midway
  <2>2. CASE secret["admin"] = Mine(p)
    <3>1. Puts("admin", [Mine(p) EXCEPT !.whole = "yes"])
      BY <1>1, <1>4, <2>2 DEF Write
    <3>2. secret'["admin"] = [id |-> job[p].id, whole |-> "yes"]
      BY <1>0, <3>1 DEF Puts, SecretsTypeOK, Mine
    <3>3. secret'["admin"] # None
      BY <1>0, <3>2, SecretsAssumption DEF Secret
    <3>4. Holds("admin")' = job[p].id
      BY <3>2, <3>3 DEF Holds
    <3>5. Present("admin")'
      BY <1>0, <3>4 DEF Present
    <3>. QED BY <3>5 DEF Sound
  <2>3. CASE secret["admin"] # Mine(p)
    <3>1. Goes(p, "written") /\ UNCHANGED secret
      BY <1>1, <1>4, <2>3 DEF Write
    <3>2. \A q \in Procs: q # p => job'[q] = job[q]
      BY <3>1, JobSteps
    <3>3. Present("admin") => Present("admin")'
      BY <3>1 DEF Present, Holds
    <3>4. ASSUME NEW q \in Procs, job[q].file = "admin",
                 \/ At(q, "create") /\ secret["admin"] = None
                 \/ At(q, "write") /\ secret["admin"] = Mine(q)
          PROVE  Sound'
      <4>1. job'[q] = job[q] /\ secret'["admin"] = secret["admin"]
        BY <1>4, <2>3, <3>1, <3>2, <3>4 DEF Write, At
      <4>. QED BY <3>4, <4>1 DEF Sound, At, Mine
    <3>. QED BY <2>1, <3>3, <3>4 DEF Sound
  <2>. QED BY <2>2, <2>3
<1>. QED BY <1>2, <1>3, <1>4 DEF SecureWrite

LEMMA NoSecretsHarmless ==
    ASSUME NoSecrets
    PROVE  Harmless /\ UNCHANGED <<job, life>>
BY DEF NoSecrets, Frame, Harmless

LEMMA DoneHarmless ==
    ASSUME SecretsTypeOK, NEW p \in Procs, Done(p), job[p].step \notin Midway,
           secret'["admin"] = secret["admin"],
           \A g \in Gateways: life'[g] = "up" => life[g] = "up" \/ Sound
    PROVE  Harmless
<1>1. None # "admin"
  BY SecretsAssumption DEF SecretFiles
<1>2. job'[p].file # "admin" /\ \A q \in Procs: q # p => job'[q] = job[q]
  BY <1>1, JobSteps DEF Idle
<1>. QED BY <1>2 DEF Harmless

LEMMA DrawHarmless ==
    ASSUME SecretsTypeOK, NEW p \in Procs, NEW f \in SecretFiles,
           NEW step \in {"unlink", "claim"}, Draw(p, f, step), job[p].step \notin Midway,
           secret'["admin"] = secret["admin"],
           \A g \in Gateways: life'[g] = "up" => life[g] = "up" \/ Sound
    PROVE  Harmless
<1>1. /\ job'[p] = [file |-> f, step |-> step, id |-> mints + 1]
      /\ \A q \in Procs: q # p => job'[q] = job[q]
  BY DEF Draw, SecretsTypeOK
<1>2. job'[p].step \notin Past
  BY <1>1 DEF Past, Midway
<1>. QED BY <1>1, <1>2 DEF Harmless

LEMMA GoesHarmless ==
    ASSUME SecretsTypeOK, NEW p \in Procs, NEW step, Goes(p, step), job[p].file # "admin",
           secret'["admin"] = secret["admin"],
           \A g \in Gateways: life'[g] = "up" => life[g] = "up" \/ Sound
    PROVE  Harmless
<1>1. job'[p].file = job[p].file /\ \A q \in Procs: q # p => job'[q] = job[q]
  BY JobSteps
<1>. QED BY <1>1 DEF Harmless

\* One step of secure_write, whoever takes it.
LEMMA SecureWriteAdmin ==
    ASSUME SecretsTypeOK, NEW p \in Procs, \A q \in Procs: JobFits(q), Matters => Sound,
           SecureWrite(p), spent' = 0
    PROVE  /\ JobMoves(p) /\ job'[p].file = job[p].file /\ UNCHANGED life
           /\ Matters' => Sound'
<1>1. PICK step \in {"create", "write", "written", "failed"}: Goes(p, step)
  BY DEF SecureWrite, Unlink, Create, Write
<1>2. job[p].step # "idle" /\ UNCHANGED life
  BY DEF SecureWrite, Unlink, Create, Write, At
<1>3. JobMoves(p) /\ job'[p].file = job[p].file
  BY <1>1, <1>2, JobSteps DEF JobMoves
<1>4. CASE job[p].file = "admin"
  <2>1. Fine
    BY SecretsAssumption DEF SecureWrite, Unlink, Create, Write, Fine, Fault, SecretsTypeOK
  <2>. QED BY <1>2, <1>3, <1>4, <2>1, AdminWrites
<1>5. CASE job[p].file # "admin"
  <2>1. secret'["admin"] = secret["admin"]
    BY <1>5, WritesOwn DEF SecretFiles
  <2>. QED BY <1>1, <1>2, <1>3, <1>5, <2>1, GoesHarmless, HarmlessKeeps
<1>. QED BY <1>4, <1>5

\* A command's step, unless it rolls back or something fails.
LEMMA CommandAdmin ==
    ASSUME SecretsTypeOK, CommandsTypeOK, NEW c \in Commands,
           CommandStep(c) \/ Begin(c) \/ CommandCrash(c), \A p \in Procs: JobFits(p)
    PROVE  /\ \A p \in Procs: JobFits(p)'
           /\ (Matters => Sound) /\ ~Excused' => (Matters' => Sound')
<1>0. c \in Procs /\ c \notin Gateways
  BY SecretsAssumption DEF Procs
<1>1. ASSUME NoSecrets PROVE JobMoves(c) /\ UNCHANGED life /\ Harmless
  BY <1>1, NoSecretsHarmless DEF JobMoves
<1>2. CASE Begin(c)
  <2>1. JobMoves(c) /\ UNCHANGED life /\ Harmless
    BY <1>2 DEF Begin, JobMoves, Harmless
  <2>. QED BY <1>0, <2>1, JobFitsMoves, HarmlessKeeps
<1>3. CASE CommandCrash(c)
  <2>1. JobMoves(c) /\ UNCHANGED life
    BY <1>3 DEF CommandCrash, Frame, JobMoves
  <2>2. spent' > 0
    BY <1>3 DEF CommandCrash, Fault, SecretsTypeOK
  <2>. QED BY <1>0, <2>1, <2>2, JobFitsMoves DEF Excused
<1>4. CASE Rollback(c)
  <2>1. JobMoves(c) /\ UNCHANGED life
    BY <1>4 DEF Rollback, Frame, JobMoves
  <2>2. \E step \in {"roll", "restored", "unrestored"}: To(c, step)
    BY <1>4 DEF Rollback
  <2>3. pc'[c] \in {"roll", "restored", "unrestored"}
    BY <2>2, AtStep
  <2>. QED BY <1>0, <2>1, <2>3, JobFitsMoves DEF Excused
<1>5. CASE Tokens(c)
  <2>1. CASE SecureWrite(c)
    <3>1. JobMoves(c) /\ UNCHANGED life
      <4>1. PICK step \in {"create", "write", "written", "failed"}: Goes(c, step)
        BY <2>1 DEF SecureWrite, Unlink, Create, Write
      <4>. QED BY <2>1, <4>1 DEF SecureWrite, Unlink, Create, Write, At, JobMoves
    <3>2. ~Excused' => spent' = 0
      <4>1. spent' \in Nat
        BY <2>1 DEF SecureWrite, Unlink, Create, Write, Fine, Fault, SecretsTypeOK
      <4>. QED BY <4>1 DEF Excused
    <3>. QED BY <1>0, <2>1, <3>1, <3>2, SecureWriteAdmin, JobFitsMoves
  <2>2. ASSUME NEW f \in SecretFiles, Draw(c, f, "unlink"), At(c, "idle"), UNCHANGED <<secret, life>>
        PROVE  JobMoves(c) /\ UNCHANGED life /\ Harmless
    BY <1>0, <2>2, DrawHarmless DEF JobMoves, At, Midway
  <2>3. ASSUME UNCHANGED <<job, secret, life>>
        PROVE  JobMoves(c) /\ UNCHANGED life /\ Harmless
    BY <2>3 DEF JobMoves, Harmless
  <2>4. ASSUME Done(c), At(c, "written") \/ At(c, "failed"), UNCHANGED <<secret, life>>
        PROVE  JobMoves(c) /\ UNCHANGED life /\ Harmless
    BY <1>0, <2>4, DoneHarmless DEF JobMoves, At, Midway
  <2>5. {"token", "admin"} \subseteq SecretFiles
    BY DEF SecretFiles
  <2>6. Token(c) => JobMoves(c) /\ UNCHANGED life /\ Harmless
    BY <2>2, <2>3, <2>5 DEF Token, Frame
  <2>7. ASSUME NEW from, NEW next, EnsureAdmin(c, from, next)
        PROVE  JobMoves(c) /\ UNCHANGED life /\ Harmless
    BY <2>2, <2>3, <2>5, <2>7 DEF EnsureAdmin, Frame
  <2>8. ASSUME NEW from, NEW next, NEW skip, Minted(c, from, next, skip)
        PROVE  JobMoves(c) /\ UNCHANGED life /\ Harmless
    BY <2>4, <2>8 DEF Minted, Frame
  <2>9. ASSUME NEW from, NEW f, NEW next, Permissions(c, from, f, next)
        PROVE  JobMoves(c) /\ UNCHANGED life /\ Harmless
    BY <1>1, <2>9 DEF Permissions
  <2>10. Doctor(c) => JobMoves(c) /\ UNCHANGED life /\ Harmless
    BY <1>1 DEF Doctor
  <2>11. CASE JobMoves(c) /\ UNCHANGED life /\ Harmless
    BY <1>0, <2>11, JobFitsMoves, HarmlessKeeps
  <2>. QED BY <1>5, <2>1, <2>6, <2>7, <2>8, <2>9, <2>10, <2>11 DEF Tokens
<1>6. CASE NoSecrets
  BY <1>0, <1>1, <1>6, JobFitsMoves, HarmlessKeeps
<1>7. Resolve(c) \/ Snapshot(c) \/ Finish(c) => NoSecrets
  BY DEF Resolve, Snapshot, Snaps, Finish
<1>8. Shims(c) => NoSecrets
  BY DEF Shims, InstallCheck, InstallWrite, ControlCheck, ControlWrite, Replaces, Undoes
<1>9. EnablePlugin(c) => NoSecrets
  BY DEF EnablePlugin, PlugRead, PlugCheck, PlugVerify, Backs, Replaces, Restores
<1>10. EnableAlias(c) => NoSecrets
  BY DEF EnableAlias, AliasRead, AliasVerify, Backs, Replaces, Restores
<1>11. Configure(c) => NoSecrets
  BY DEF Configure, CfgRead, CfgVerify, Backs, Replaces, Restores
<1>. QED BY <1>2, <1>3, <1>4, <1>5, <1>6, <1>7, <1>8, <1>9, <1>10, <1>11 DEF CommandStep

LEMMA GatewayAdmin ==
    ASSUME SecretsTypeOK, NEW g \in Gateways, GatewayRuns(g), Waiting, \A p \in Procs: JobFits(p)
    PROVE  /\ \A p \in Procs: JobFits(p)'
           /\ (Matters => Sound) /\ spent' = 0 => (Matters' => Sound')
<1>0. /\ g \in Procs /\ JobFits(g) /\ None \notin SecretFiles /\ "salt" # "admin"
      /\ {"token", "admin", "salt"} \subseteq SecretFiles
  BY SecretsAssumption DEF Procs, SecretFiles
<1> DEFINE Good == /\ JobMoves(g) /\ \A h \in Gateways: h # g => life'[h] = life[h]
                   /\ job'[g].file \in JobFiles(life'[g])
                   /\ (Matters => Sound) => Harmless
<1>1. Good => /\ \A p \in Procs: JobFits(p)'
              /\ (Matters => Sound) => (Matters' => Sound')
  BY <1>0, JobFitsMoves, HarmlessKeeps
<1>2. ASSUME NEW stage, Becomes(g, stage)
      PROVE  life'[g] = stage /\ \A h \in Gateways: h # g => life'[h] = life[h]
  BY <1>2 DEF Becomes, SecretsTypeOK
<1>3. CASE SecureWrite(g)
  <2>1. JobMoves(g) /\ UNCHANGED life /\ job'[g].file = job[g].file
    <3>1. PICK step \in {"create", "write", "written", "failed"}: Goes(g, step)
      BY <1>3 DEF SecureWrite, Unlink, Create, Write
    <3>. QED BY <1>0, <1>3, <3>1, JobSteps DEF SecureWrite, Unlink, Create, Write, At, JobMoves
  <2>2. job'[g].file \in JobFiles(life'[g])
    BY <1>0, <2>1 DEF JobFits
  <2>. QED BY <1>0, <1>3, <2>1, <2>2, JobFitsMoves, SecureWriteAdmin
<1>4. CASE Start(g)
  <2>1. UNCHANGED <<job, secret>> /\ Becomes(g, "token")
    BY <1>4 DEF Start
  <2>2. JobMoves(g) /\ Harmless
    BY <1>2, <2>1 DEF JobMoves, Harmless
  <2>3. job'[g].file \in JobFiles(life'[g])
    BY <1>0, <1>2, <1>4, <2>1 DEF Start, Waiting, JobFits, JobFiles
  <2>. QED BY <1>1, <1>2, <2>1, <2>2, <2>3
<1>5. CASE ReadToken(g)
  <2>0. life[g] = "token" /\ job[g].step = "idle" /\ job[g].file = None
    BY <1>0, <1>5 DEF ReadToken, At, JobFits
  <2>1. CASE Draw(g, "token", "unlink") /\ UNCHANGED <<life, secret>>
    <3>1. JobMoves(g)
      BY <1>0, <2>1 DEF JobMoves
    <3>2. job'[g].file = "token"
      BY <1>0, <2>1 DEF Draw, SecretsTypeOK
    <3>3. Harmless
      BY <1>0, <2>0, <2>1, DrawHarmless DEF Midway
    <3>. QED BY <1>1, <2>0, <2>1, <3>1, <3>2, <3>3 DEF JobFiles
  <2>2. CASE Becomes(g, "admin") /\ UNCHANGED <<job, secret>>
    <3>1. JobMoves(g) /\ Harmless
      BY <1>2, <2>2 DEF JobMoves, Harmless
    <3>. QED BY <1>1, <1>2, <2>0, <2>2, <3>1 DEF JobFiles
  <2>. QED BY <1>5, <2>1, <2>2 DEF ReadToken
<1>6. CASE TokenMinted(g)
  <2>1. Done(g) /\ Becomes(g, "admin") /\ UNCHANGED secret /\ job[g].step \in {"written", "failed"}
    BY <1>6 DEF TokenMinted, At
  <2>2. Harmless
    BY <1>0, <1>2, <2>1, DoneHarmless DEF Midway
  <2>3. job'[g].file = None
    BY <1>0, <2>1, JobSteps DEF Idle
  <2>. QED BY <1>1, <1>2, <2>1, <2>2, <2>3 DEF JobMoves, JobFiles
<1>7. CASE ReadAdmin(g)
  <2>0. life[g] = "admin" /\ job[g].step = "idle" /\ job[g].file = None
    BY <1>0, <1>7 DEF ReadAdmin, At, JobFits
  <2>1. CASE Draw(g, "admin", "unlink") /\ UNCHANGED <<life, secret>>
    <3>1. JobMoves(g)
      BY <1>0, <2>1 DEF JobMoves
    <3>2. job'[g].file = "admin"
      BY <1>0, <2>1 DEF Draw, SecretsTypeOK
    <3>3. Harmless
      BY <1>0, <2>0, <2>1, DrawHarmless DEF Midway
    <3>. QED BY <1>1, <2>0, <2>1, <3>1, <3>2, <3>3 DEF JobFiles
  <2>2. CASE Present("admin") /\ Serves(g) /\ UNCHANGED <<job, secret>>
    <3>1. PICK stage \in {"up", "down"}: Becomes(g, stage)
      BY <2>2 DEF Serves
    <3>2. Sound
      BY <2>2 DEF Sound
    <3>3. JobMoves(g) /\ Harmless
      BY <2>2, <3>2 DEF JobMoves, Harmless
    <3>. QED BY <1>1, <1>2, <2>0, <2>2, <3>1, <3>3 DEF JobFiles
  <2>. QED BY <1>7, <2>1, <2>2 DEF ReadAdmin
<1>8. CASE AdminMinted(g)
  <2>1. /\ Done(g) /\ UNCHANGED secret /\ life[g] = "admin"
        /\ job[g].step \in {"written", "failed"}
    BY <1>8 DEF AdminMinted, At
  <2>2. PICK stage \in {"up", "down"}: Becomes(g, stage)
    BY <1>8 DEF AdminMinted, Serves
  <2>3. job[g].file = "admin"
    BY <1>0, <2>1 DEF JobFits, JobFiles
  <2>4. Matters
    BY <1>0, <2>1, <2>3 DEF Matters, Past
  <2>5. (Matters => Sound) => Harmless
    BY <1>0, <2>1, <2>4, DoneHarmless DEF Midway
  <2>6. job'[g].file = None
    BY <1>0, <2>1, JobSteps DEF Idle
  <2>. QED BY <1>1, <1>2, <2>1, <2>2, <2>5, <2>6 DEF JobMoves, JobFiles
<1>9. CASE Crash(g)
  <2>1. Done(g) /\ Becomes(g, "down") /\ spent' > 0
    BY <1>9 DEF Crash, Fault, SecretsTypeOK
  <2>2. job'[g].file = None
    BY <1>0, <2>1, JobSteps DEF Idle
  <2>. QED BY <1>0, <1>2, <2>1, <2>2, JobFitsMoves DEF JobMoves, JobFiles
<1>10. CASE LookUp(g)
  <2>0. life[g] = "up" /\ job[g].step = "idle" /\ UNCHANGED <<life, secret>>
    BY <1>10 DEF LookUp, At
  <2>1. CASE Draw(g, "salt", "claim")
    <3>1. JobMoves(g)
      BY <1>0, <2>1 DEF JobMoves
    <3>2. job'[g].file = "salt"
      BY <1>0, <2>1 DEF Draw, SecretsTypeOK
    <3>3. Harmless
      BY <1>0, <2>0, <2>1, DrawHarmless DEF Midway
    <3>. QED BY <1>1, <2>0, <2>1, <3>1, <3>2, <3>3 DEF JobFiles
  <2>2. CASE job' = [job EXCEPT ![g] = [file |-> "salt", step |-> "read", id |-> 0]]
    <3>1. JobMoves(g)
      BY <2>0, <2>2 DEF JobMoves
    <3>2. job'[g].file = "salt" /\ \A p \in Procs: p # g => job'[p] = job[p]
      BY <1>0, <2>2 DEF SecretsTypeOK
    <3>3. Harmless
      BY <1>0, <2>0, <3>2 DEF Harmless, Midway
    <3>. QED BY <1>1, <2>0, <3>1, <3>2, <3>3 DEF JobFiles
  <2>. QED BY <1>10, <2>1, <2>2 DEF LookUp
<1>11. CASE Claim(g) \/ ReadSalt(g) \/ SaltWritten(g) \/ SaltFailed(g) \/ Undo(g)
  <2>1. job[g].file = "salt"
    BY <1>0, <1>11 DEF Claim, ReadSalt, SaltWritten, SaltFailed, Undo, At, JobFits
  <2>2. secret'["admin"] = secret["admin"] /\ UNCHANGED life
    BY <1>11 DEF Claim, ReadSalt, SaltWritten, SaltFailed, Undo, Puts, SecretsTypeOK, SecretFiles
  <2>3. Done(g) \/ \E step \in {"unlink", "read", "undo"}: Goes(g, step)
    BY <1>11 DEF Claim, ReadSalt, SaltWritten, SaltFailed, Undo
  <2>4. job[g].step # "idle"
    BY <1>0, <2>1 DEF JobFits
  <2>5. JobMoves(g)
    BY <2>1, <2>3, <2>4 DEF JobMoves
  <2>6. job'[g].file \in {None, "salt"} /\ \A p \in Procs: p # g => job'[p] = job[p]
    BY <1>0, <2>1, <2>3, JobSteps DEF Idle
  <2>7. Harmless
    BY <1>0, <2>1, <2>2, <2>6 DEF Harmless, SecretFiles
  <2>8. job'[g].file \in JobFiles(life[g])
    BY <1>0, <2>1, <2>6 DEF JobFits, JobFiles
  <2>. QED BY <1>1, <2>2, <2>5, <2>7, <2>8
<1>. QED
  BY <1>3, <1>4, <1>5, <1>6, <1>7, <1>8, <1>9, <1>10, <1>11 DEF GatewayRuns, GatewayStep

\* A command starts no gateway, and mints for nobody but itself.
LEMMA CommandFrame ==
    ASSUME SecretsTypeOK, NEW c \in Commands, CommandStep(c) \/ Begin(c) \/ CommandCrash(c)
    PROVE  /\ UNCHANGED life /\ todo' \subseteq todo
           /\ \A p \in Procs: p # c => job'[p] = job[p]
<1> DEFINE Others == /\ UNCHANGED life /\ todo' \subseteq todo
                     /\ \A p \in Procs: p # c => job'[p] = job[p]
<1>0. c \in Procs
  BY DEF Procs
<1>1. NoSecrets => Others
  BY DEF NoSecrets, Frame
<1>2. Begin(c) \/ Rollback(c) => Others
  BY DEF Begin, Rollback, Frame
<1>3. CommandCrash(c) => Others
  BY <1>0, JobLocal DEF CommandCrash, Frame
<1>4. CASE Tokens(c)
  <2>1. UNCHANGED life /\ todo' \subseteq todo
    BY <1>4 DEF Tokens, SecureWrite, Token, EnsureAdmin, Minted, Permissions, Doctor, NoSecrets, Frame
  <2>2. \/ UNCHANGED job \/ Done(c) \/ SecureWrite(c) \/ \E f, step: Draw(c, f, step)
    BY <1>4 DEF Tokens, Token, EnsureAdmin, Doctor, Minted, Permissions, NoSecrets
  <2>3. \A p \in Procs: p # c => job'[p] = job[p]
    BY <1>0, <2>2, SecureWriteJob, JobLocal
  <2>. QED BY <2>1, <2>3
<1>5. Resolve(c) \/ Snapshot(c) \/ Finish(c) => NoSecrets
  BY DEF Resolve, Snapshot, Snaps, Finish
<1>6. Shims(c) => NoSecrets
  BY DEF Shims, InstallCheck, InstallWrite, ControlCheck, ControlWrite, Replaces, Undoes
<1>7. EnablePlugin(c) => NoSecrets
  BY DEF EnablePlugin, PlugRead, PlugCheck, PlugVerify, Backs, Replaces, Restores
<1>8. EnableAlias(c) => NoSecrets
  BY DEF EnableAlias, AliasRead, AliasVerify, Backs, Replaces, Restores
<1>9. Configure(c) => NoSecrets
  BY DEF Configure, CfgRead, CfgVerify, Backs, Replaces, Restores
<1>. QED BY <1>1, <1>2, <1>3, <1>4, <1>5, <1>6, <1>7, <1>8, <1>9 DEF CommandStep

LEMMA StillWaiting ==
    ASSUME SecretsTypeOK, Waiting, [Next]_vars
    PROVE  Waiting'
<1>1. ASSUME NEW c \in Commands, CommandStep(c) \/ Begin(c) \/ CommandCrash(c) PROVE Waiting'
  BY <1>1, CommandFrame DEF Waiting
<1>2. ASSUME NEW g \in Gateways, GatewayRuns(g) PROVE Waiting'
  <2>1. CASE Start(g)
    BY <2>1 DEF Start, Becomes, Waiting, SecretsTypeOK
  <2>2. CASE UNCHANGED <<life, todo>>
    BY <2>2 DEF Waiting
  <2>3. ASSUME UNCHANGED todo, life[g] # "down", NEW stage, Becomes(g, stage) PROVE Waiting'
    BY <2>3 DEF Becomes, Waiting, SecretsTypeOK
  <2>4. ReadToken(g) => UNCHANGED <<life, todo>> \/ (UNCHANGED todo /\ life[g] # "down" /\ Becomes(g, "admin"))
    BY DEF ReadToken
  <2>5. TokenMinted(g) => UNCHANGED todo /\ life[g] # "down" /\ Becomes(g, "admin")
    BY DEF TokenMinted
  <2>6. ReadAdmin(g) \/ AdminMinted(g) =>
          \/ UNCHANGED <<life, todo>>
          \/ UNCHANGED todo /\ life[g] # "down" /\ \E stage: Becomes(g, stage)
    BY DEF ReadAdmin, AdminMinted, Serves
  <2>7. Crash(g) => UNCHANGED todo /\ life[g] # "down" /\ Becomes(g, "down")
    BY DEF Crash
  <2>8. SecureWrite(g) \/ LookUp(g) => UNCHANGED <<life, todo>>
    BY DEF SecureWrite, LookUp
  <2>9. Claim(g) \/ ReadSalt(g) \/ SaltWritten(g) \/ SaltFailed(g) \/ Undo(g) => UNCHANGED <<life, todo>>
    BY DEF Claim, ReadSalt, SaltWritten, SaltFailed, Undo
  <2>. QED BY <1>2, <2>1, <2>2, <2>3, <2>4, <2>5, <2>6, <2>7, <2>8, <2>9 DEF GatewayRuns, GatewayStep
<1>3. UserEdit \/ UNCHANGED vars => UNCHANGED life /\ todo' \subseteq todo
  BY DEF UserEdit, vars, secretVars
<1>. QED BY <1>1, <1>2, <1>3 DEF Next, CommandNext, Waiting

\* The budget is only ever spent.
LEMMA SpentGrows ==
    ASSUME SecretsTypeOK, [Next]_vars
    PROVE  spent' \in Nat /\ spent' >= spent
<1>0. Fine \/ Fault \/ UNCHANGED spent => spent' \in Nat /\ spent' >= spent
  BY SecretsAssumption DEF Fine, Fault, SecretsTypeOK
<1>1. ASSUME NEW c \in Commands, CommandStep(c) PROVE Fine \/ Fault
  <2>1. Resolve(c) \/ Snapshot(c) \/ Finish(c) \/ Rollback(c) => Fine \/ Fault
    BY DEF Resolve, Snapshot, Snaps, Finish, Rollback
  <2>2. Tokens(c) => Fine \/ Fault
    BY DEF Tokens, SecureWrite, Unlink, Create, Write, Token, EnsureAdmin, Minted, Permissions, Doctor
  <2>3. Shims(c) => Fine \/ Fault
    BY DEF Shims, InstallCheck, InstallWrite, ControlCheck, ControlWrite, Replaces, Undoes
  <2>4. EnablePlugin(c) => Fine \/ Fault
    BY DEF EnablePlugin, PlugRead, PlugCheck, PlugVerify, Backs, Replaces, Restores
  <2>5. EnableAlias(c) => Fine \/ Fault
    BY DEF EnableAlias, AliasRead, AliasVerify, Backs, Replaces, Restores
  <2>6. Configure(c) => Fine \/ Fault
    BY DEF Configure, CfgRead, CfgVerify, Backs, Replaces, Restores
  <2>. QED BY <1>1, <2>1, <2>2, <2>3, <2>4, <2>5, <2>6 DEF CommandStep
<1>2. ASSUME NEW g \in Gateways, GatewayRuns(g) PROVE Fine \/ Fault \/ UNCHANGED spent
  BY <1>2 DEF GatewayRuns, GatewayStep, SecureWrite, Unlink, Create, Write, Start, ReadToken,
     TokenMinted, ReadAdmin, AdminMinted, LookUp, Claim, ReadSalt, SaltWritten, Unverified,
     SaltFailed, Undo, Crash
<1>3. \A c \in Commands: Begin(c) \/ CommandCrash(c) => Fault \/ UNCHANGED spent
  BY DEF Begin, CommandCrash
<1>4. UserEdit \/ UNCHANGED vars => UNCHANGED spent
  BY DEF UserEdit, vars, secretVars
<1>. QED BY <1>0, <1>1, <1>2, <1>3, <1>4 DEF Next, CommandNext

\* Whoever has come to roll back leaves that by a crash only.
LEMMA RollingOn ==
    ASSUME SecretsTypeOK, CommandsTypeOK, NEW c \in Commands, Acts(c),
           pc[c] \in {"roll", "restored", "unrestored"}
    PROVE  pc'[c] \in {"roll", "restored", "unrestored"} \/ spent' > 0
<1>1. Begin(c) \/ Resolve(c) \/ Snapshot(c) \/ Finish(c) => FALSE
  BY DEF Begin, Resolve, Snapshot, Snaps, Finish, On
<1>2. Tokens(c) => UNCHANGED pc
  BY DEF Tokens, SecureWrite, Token, EnsureAdmin, Doctor, Minted, Permissions, On
<1>3. Shims(c) => FALSE
  BY DEF Shims, InstallCheck, InstallWrite, ControlCheck, ControlWrite, Replaces, Undoes, On
<1>4. EnablePlugin(c) => FALSE
  BY DEF EnablePlugin, PlugRead, PlugCheck, PlugVerify, Backs, Replaces, Restores, On
<1>5. EnableAlias(c) => FALSE
  BY DEF EnableAlias, AliasRead, AliasVerify, Backs, Replaces, Restores, On
<1>6. Configure(c) => FALSE
  BY DEF Configure, CfgRead, CfgVerify, Backs, Replaces, Restores, On
<1>7. Rollback(c) => pc'[c] \in {"roll", "restored", "unrestored"}
  <2>1. Rollback(c) => \E step \in {"roll", "restored", "unrestored"}: To(c, step)
    BY DEF Rollback
  <2>. QED BY <2>1, AtStep
<1>8. CommandCrash(c) => spent' > 0
  BY SecretsAssumption DEF CommandCrash, Fault, SecretsTypeOK
<1>. QED BY <1>1, <1>2, <1>3, <1>4, <1>5, <1>6, <1>7, <1>8 DEF Acts, CommandStep

LEMMA StillExcused ==
    ASSUME SetupTypeOK, [Next]_vars, Excused
    PROVE  Excused'
<1>0. SecretsTypeOK /\ CommandsTypeOK
  BY DEF SetupTypeOK, CommandsTypeOK
<1>1. CASE spent > 0
  <2>1. spent \in Nat
    BY <1>0, SecretsAssumption DEF SecretsTypeOK
  <2>. QED BY <1>0, <1>1, <2>1, SpentGrows DEF Excused
<1>2. ASSUME NEW c \in Commands, pc[c] \in {"roll", "restored", "unrestored"} PROVE Excused'
  BY <1>0, <1>2, Turns, RollingOn DEF Away, Excused
<1>. QED BY <1>1, <1>2 DEF Excused

\* A gateway that is up can be told to stop: those who mint the admin token, commands
\* and gateways, remove the file only to create it at once, and nobody takes a damaged
\* one for a token.
THEOREM AdminStaysReachable == Spec => []AdminReachable
<1>1. SetupInit => AdminInv
  <2> SUFFICES ASSUME SetupInit PROVE AdminInv
    OBVIOUS
  <2>1. None # "admin" /\ None # "salt"
    BY SecretsAssumption DEF SecretFiles
  <2>2. \A p \in Procs: job[p] = Idle
    BY DEF SetupInit, SecretsInit
  <2>3. \A g \in Gateways: life[g] = "down"
    BY DEF SetupInit, SecretsInit
  <2>. QED BY <2>1, <2>2, <2>3 DEF AdminInv, Waiting, JobFits, JobFiles, Matters, Idle
<1>2. SetupTypeOK /\ AdminInv /\ [Next]_vars => AdminInv'
  <2> SUFFICES ASSUME SetupTypeOK, AdminInv, [Next]_vars PROVE AdminInv'
    OBVIOUS
  <2>0. SecretsTypeOK /\ CommandsTypeOK
    BY DEF SetupTypeOK, CommandsTypeOK
  <2>1. Waiting'
    BY <2>0, StillWaiting DEF AdminInv
  <2>2. (\A p \in Procs: JobFits(p)') /\ ((Matters => Sound) /\ ~Excused' => (Matters' => Sound'))
    <3>1. ASSUME NEW c \in Commands, CommandStep(c) \/ Begin(c) \/ CommandCrash(c)
          PROVE  (\A p \in Procs: JobFits(p)') /\ ((Matters => Sound) /\ ~Excused' => (Matters' => Sound'))
      BY <2>0, <3>1, CommandAdmin DEF AdminInv
    <3>2. ASSUME NEW g \in Gateways, GatewayRuns(g)
          PROVE  (\A p \in Procs: JobFits(p)') /\ ((Matters => Sound) /\ ~Excused' => (Matters' => Sound'))
      <4>1. ~Excused' => spent' = 0
        BY <2>0, SpentGrows DEF Excused
      <4>. QED BY <2>0, <3>2, <4>1, GatewayAdmin DEF AdminInv
    <3>3. ASSUME UserEdit \/ UNCHANGED vars
          PROVE  (\A p \in Procs: JobFits(p)') /\ ((Matters => Sound) /\ ~Excused' => (Matters' => Sound'))
      <4>1. UNCHANGED <<job, life, secret>>
        BY <3>3 DEF UserEdit, vars, secretVars
      <4>2. Harmless
        BY <4>1 DEF Harmless
      <4>3. \A p \in Procs: JobFits(p)'
        BY <4>1 DEF AdminInv, JobFits
      <4>. QED BY <4>2, <4>3, HarmlessKeeps
    <3>. QED BY <3>1, <3>2, <3>3 DEF Next, CommandNext
  <2>3. Excused' \/ (Matters' => Sound')
    BY <2>2, StillExcused DEF AdminInv
  <2>. QED BY <2>1, <2>2, <2>3 DEF AdminInv
<1>3. AdminInv => AdminReachable
  <2> SUFFICES ASSUME AdminInv, ~Excused, \E g \in Gateways: life[g] = "up",
                      \A p \in Procs: job[p].file # "admin"
               PROVE  RequireAdmin(Holds("admin"))
    BY DEF AdminReachable, Excused
  <2>1. Sound
    BY DEF AdminInv, Matters
  <2>. QED BY <2>1 DEF Sound, RequireAdmin
<1>. QED BY <1>1, <1>2, <1>3, TypeCorrect, PTL DEF Spec

-----------------------------------------------------------------------------
(* The backups of config.yaml                                               *)

\* The steps of a setup before it has touched config.yaml.
Before == {"token", "token_perms", "admin", "admin_perms", "shim", "shim_write", "control",
           "init", "manifest", "undo_init", "undo_manifest", "plug", "doctor", "doctor_mint"}

\* Where setup c stands with the config.yaml that it found: which of the file itself,
\* the text it has read and the two backups still holds it.
Backed(c) ==
    LET found == snap[c][6]
        doc == home["config"]
        first == home["bak"] = found
        second == home["aliasbak"] = found
    IN  /\ doc = found \/ first \/ second
        /\ pc[c] \in Before => doc = found
        /\ pc[c] \in {"plug_check", "plug_backup"} => doc = found /\ read[c] = found
        /\ pc[c] = "plug_write" => doc = found /\ read[c] = found /\ first
        /\ pc[c] \in {"plug_verify", "plug_restore"} => read[c] = found /\ first
        /\ pc[c] = "alias" => doc = found \/ first
        /\ pc[c] = "alias_backup" => (doc = found /\ read[c] = found) \/ first
        /\ pc[c] = "alias_write" => (doc = found /\ read[c] = found /\ second) \/ first
        /\ pc[c] = "alias_verify" => (read[c] = found /\ second) \/ first
        /\ pc[c] = "alias_restore" => (read[c] = found /\ (doc = found \/ second)) \/ first
        /\ pc[c] = "roll" /\ roll[c] > 6 => doc = found

\* Setup c has found something in config.yaml, and was not disturbed in keeping it.
Keeper(c) ==
    /\ Transacts(c) /\ failed[c] # "for good"
    /\ Undisturbed(c, {"config", "bak", "aliasbak"})
    /\ Text(snap[c][6]) # EmptyDoc

\* Nobody is in the middle of a rollback, or failed in one, who has not begun one.
Rolls(c) == pc[c] \in {"roll"} \cup Ended \/ (roll[c] = 1 /\ failed[c] # "for good")

BackupInv(c) == Rolls(c) /\ (Keeper(c) => Backed(c))

LEMMA BackedSays ==
    ASSUME \A c \in Commands: BackupInv(c)
    PROVE  BackupHolds
<1> SUFFICES ASSUME NEW c \in Commands, Transacts(c), failed[c] # "for good",
                    Undisturbed(c, {"config", "bak", "aliasbak"}),
                    Text(snap[c][6]) # EmptyDoc, home["config"] # snap[c][6]
             PROVE  snap[c][6] \in {home["bak"], home["aliasbak"]}
  BY FoundAt DEF BackupHolds
<1>1. Backed(c)
  BY DEF BackupInv, Keeper
<1>. QED BY <1>1 DEF Backed

\* What was read is what was found, and both are something.
LEMMA ReadFound ==
    ASSUME NEW c \in Commands, Text(snap[c][6]) # EmptyDoc
    PROVE  /\ snap[c][6] # None
           /\ read[c] = snap[c][6] => Text(read[c]) = snap[c][6] /\ Was(c) = snap[c][6]
BY DEF Text, Was

\* A step that leaves config.yaml, its backups and the text alone, before or after the edits.
LEMMA BesideBacked ==
    ASSUME NEW c \in Commands, Backed(c), UNCHANGED home, snap'[c] = snap[c],
           \/ pc'[c] \in Before /\ pc[c] \in Before
           \/ pc'[c] = "finish"
           \/ pc'[c] = "roll" /\ roll'[c] = 1
    PROVE  Backed(c)'
BY DEF Backed, Before

LEMMA ShimsBacked ==
    ASSUME CommandsTypeOK, NEW c \in Commands, Backed(c), Shims(c)
    PROVE  Backed(c)'
<1>1. snap' = snap /\ pc[c] \in Before
  BY DEF Shims, InstallCheck, InstallWrite, ControlCheck, ControlWrite, Replaces, Undoes, Keeps,
         On, Before
<1>2. \E step \in {"shim_write", "control", "init", "manifest", "undo_init", "undo_manifest",
                   "plug"}: To(c, step)
  BY DEF Shims, InstallCheck, InstallWrite, ControlCheck, ControlWrite, Replaces, Undoes, FailsTo
<1>3. pc'[c] \in {"shim_write", "control", "init", "manifest", "undo_init", "undo_manifest", "plug"}
  BY <1>2, AtStep
<1>4. \/ UNCHANGED home
      \/ \E f \in {"shim", "init", "manifest"}: \E content: Sets(f, content)
  BY DEF Shims, InstallCheck, InstallWrite, ControlCheck, ControlWrite, Replaces, Undoes
<1>5. /\ home'["config"] = home["config"] /\ home'["bak"] = home["bak"]
      /\ home'["aliasbak"] = home["aliasbak"]
  BY <1>4, SetsAt DEF Homes
<1>. QED BY <1>1, <1>3, <1>5 DEF Backed, Before

LEMMA TokensBacked ==
    ASSUME CommandsTypeOK, NEW c \in Commands, Backed(c), Tokens(c), pc'[c] \notin Ended
    PROVE  Backed(c)'
<1>1. UNCHANGED <<home, snap, read, roll>>
  BY DEF Tokens, SecureWrite, Token, EnsureAdmin, Doctor, Minted, Permissions, NoSecrets,
         Frame, Keeps
<1>2. \/ UNCHANGED pc
      \/ /\ pc[c] \in Before
         /\ \E step \in {"token_perms", "admin", "admin_perms", "shim", "doctor_mint", "done"}:
              To(c, step)
  BY DEF Tokens, Token, EnsureAdmin, Doctor, Minted, Permissions, FailsTo, On, Before
<1>3. CASE UNCHANGED pc
  BY <1>1, <1>3 DEF Backed
<1>4. CASE pc'[c] \in {"token_perms", "admin", "admin_perms", "shim", "doctor_mint"} /\ pc[c] \in Before
  BY <1>1, <1>4, BesideBacked DEF Before
<1>. QED BY <1>2, <1>3, <1>4, AtStep DEF Ended

\* A step from one place to another, where each keeps what it needs.
LEMMA PluginBacked ==
    ASSUME CommandsTypeOK, NEW c \in Commands, Backed(c), EnablePlugin(c),
           Text(snap[c][6]) # EmptyDoc
    PROVE  Backed(c)'
<1>0. snap' = snap /\ {"config", "bak", "aliasbak"} \subseteq Homes
  BY DEF EnablePlugin, PlugRead, PlugCheck, PlugVerify, Backs, Replaces, Restores, Keeps, Homes
<1>1. CASE PlugRead(c)
  <2>1. UNCHANGED home /\ pc[c] = "plug"
    BY <1>1 DEF PlugRead, On
  <2>2. pc'[c] = "alias" \/ (pc'[c] = "plug_check" /\ read'[c] = home["config"])
    BY <1>1, AtStep DEF PlugRead, FailsTo, Reads, CommandsTypeOK
  <2>. QED BY <1>0, <2>1, <2>2 DEF Backed, Before
<1>2. CASE PlugCheck(c)
  <2>1. UNCHANGED <<home, read>> /\ pc[c] = "plug_check"
    BY <1>2 DEF PlugCheck, On
  <2>2. pc'[c] \in {"alias", "plug_backup"}
    BY <1>2, AtStep DEF PlugCheck, FailsTo
  <2>. QED BY <1>0, <2>1, <2>2 DEF Backed, Before
<1>3. CASE Backs(c, "plug_backup", "bak", "plug_write", "alias")
  <2>1. UNCHANGED read /\ pc[c] = "plug_backup"
    BY <1>3 DEF Backs, On
  <2>2. home["config"] = snap[c][6] /\ read[c] = snap[c][6]
    BY <2>1 DEF Backed
  <2>3. \/ pc'[c] = "alias" /\ UNCHANGED home
        \/ pc'[c] = "alias" /\ Sets("bak", Garbage)
        \/ pc'[c] = "plug_write" /\ Sets("bak", snap[c][6])
    BY <1>3, <2>2, AtStep, ReadFound DEF Backs, FailsTo, Torn
  <2>4. home'["config"] = home["config"] /\ (pc'[c] = "plug_write" => home'["bak"] = snap[c][6])
    BY <1>0, <2>3, SetsAt
  <2>. QED BY <1>0, <2>1, <2>2, <2>3, <2>4 DEF Backed, Before
<1>4. CASE Replaces(c, "plug_write", "config", PlanEdit(Text(read[c])), "plug_verify", "alias")
  <2>1. UNCHANGED read /\ pc[c] = "plug_write"
    BY <1>4 DEF Replaces, On
  <2>2. \/ pc'[c] = "alias" /\ UNCHANGED home
        \/ pc'[c] = "plug_verify" /\ Sets("config", PlanEdit(Text(read[c])))
    BY <1>4, AtStep DEF Replaces, FailsTo
  <2>3. home'["bak"] = home["bak"] /\ (pc'[c] = "alias" => home'["config"] = home["config"])
    BY <1>0, <2>2, SetsAt
  <2>. QED BY <1>0, <2>1, <2>2, <2>3 DEF Backed, Before
<1>5. CASE PlugVerify(c)
  <2>1. UNCHANGED read /\ pc[c] \in {"plug_verify", "plug_restore"}
    BY <1>5 DEF PlugVerify, Restores, On
  <2>2. pc'[c] \in {"alias", "plug_restore"}
    BY <1>5, AtStep DEF PlugVerify, Restores, FailsTo
  <2>3. UNCHANGED home \/ Sets("config", Text(read[c]))
    BY <1>5 DEF PlugVerify, Restores
  <2>4. home'["bak"] = home["bak"]
    BY <1>0, <2>3, SetsAt
  <2>. QED BY <1>0, <2>1, <2>2, <2>4 DEF Backed, Before
<1>. QED BY <1>1, <1>2, <1>3, <1>4, <1>5 DEF EnablePlugin

LEMMA AliasBacked ==
    ASSUME CommandsTypeOK, NEW c \in Commands, Backed(c), EnableAlias(c),
           Text(snap[c][6]) # EmptyDoc
    PROVE  Backed(c)'
<1>0. snap' = snap /\ {"config", "bak", "aliasbak"} \subseteq Homes
  BY DEF EnableAlias, AliasRead, AliasVerify, Backs, Replaces, Restores, Keeps, Homes
<1>1. CASE AliasRead(c)
  <2>1. UNCHANGED home /\ pc[c] = "alias"
    BY <1>1 DEF AliasRead, On
  <2>2. pc'[c] = "finish" \/ (pc'[c] = "alias_backup" /\ read'[c] = home["config"])
    BY <1>1, AtStep DEF AliasRead, FailsTo, Reads, CommandsTypeOK
  <2>. QED BY <1>0, <2>1, <2>2 DEF Backed, Before
<1>2. CASE Backs(c, "alias_backup", "aliasbak", "alias_write", "alias_restore")
  <2>1. UNCHANGED read /\ pc[c] = "alias_backup"
    BY <1>2 DEF Backs, On
  <2>2. pc'[c] \in {"alias_write", "alias_restore"}
    BY <1>2, AtStep DEF Backs, FailsTo
  <2>3. UNCHANGED home \/ \E content: Sets("aliasbak", content)
    BY <1>2 DEF Backs, Torn
  <2>4. home'["config"] = home["config"] /\ home'["bak"] = home["bak"]
    BY <1>0, <2>3, SetsAt
  <2>5. CASE home["bak"] = snap[c][6]
    BY <1>0, <2>2, <2>4, <2>5 DEF Backed, Before
  <2>6. CASE home["config"] = snap[c][6] /\ read[c] = snap[c][6]
    <3>1. home["config"] # None /\ Text(read[c]) = snap[c][6]
      BY <2>6, ReadFound
    <3>2. To(c, "alias_write") => pc'[c] = "alias_write"
      BY AtStep
    <3>3. pc'[c] = "alias_write" => Sets("aliasbak", snap[c][6])
      BY <1>2, <3>1, AtStep DEF Backs, FailsTo
    <3>4. pc'[c] = "alias_write" => home'["aliasbak"] = snap[c][6]
      BY <1>0, <3>3, SetsAt
    <3>. QED BY <1>0, <2>1, <2>2, <2>4, <2>6, <3>4 DEF Backed, Before
  <2>. QED BY <2>1, <2>5, <2>6 DEF Backed
<1>3. CASE Replaces(c, "alias_write", "config", Aliased(c), "alias_verify", "alias_restore")
  <2>1. UNCHANGED read /\ pc[c] = "alias_write"
    BY <1>3 DEF Replaces, On
  <2>2. \/ pc'[c] = "alias_restore" /\ UNCHANGED home
        \/ pc'[c] = "alias_verify" /\ Sets("config", Aliased(c))
    BY <1>3, AtStep DEF Replaces, FailsTo
  <2>3. home'["bak"] = home["bak"] /\ home'["aliasbak"] = home["aliasbak"]
    BY <1>0, <2>2, SetsAt
  <2>. QED BY <1>0, <2>1, <2>2, <2>3 DEF Backed, Before
<1>4. CASE AliasVerify(c)
  <2>1. /\ UNCHANGED read
        /\ \/ pc[c] = "alias_verify" /\ UNCHANGED home /\ pc'[c] \in {"finish", "alias_restore"}
           \/ /\ pc[c] = "alias_restore" /\ pc'[c] = "finish"
              /\ UNCHANGED home \/ Sets("config", Was(c))
    BY <1>4, AtStep DEF AliasVerify, Restores, FailsTo, On
  <2>2. CASE UNCHANGED home
    BY <1>0, <2>1, <2>2 DEF Backed, Before
  <2>3. CASE Sets("config", Was(c)) /\ pc[c] = "alias_restore" /\ pc'[c] = "finish"
    <3>1. home'["config"] = Was(c) /\ home'["bak"] = home["bak"]
      BY <1>0, <2>3, SetsAt
    <3>2. read[c] = snap[c][6] => home'["config"] = snap[c][6]
      BY <3>1, ReadFound
    <3>. QED BY <1>0, <2>1, <2>3, <3>1, <3>2 DEF Backed, Before
  <2>. QED BY <2>1, <2>2, <2>3
<1>. QED BY <1>1, <1>2, <1>3, <1>4 DEF EnableAlias

LEMMA RollOrder ==
    /\ \A n \in 1..8: Managed[n] \in {"config", "bak", "aliasbak"} => ~(n < 6)
    /\ \A n \in 1..8: n < 6 => ~(n + 1 > 6)
    /\ Managed[6] = "config" /\ Managed[7] = "bak"
    /\ {"config", "bak", "aliasbak"} \subseteq Homes /\ "config" \notin SecretFiles
<1>1. \A n \in 1..8: Managed[n] \in {"config", "bak", "aliasbak"} => n \in {6, 7, 8}
  BY DEF Managed
<1>2. Managed[6] = "config" /\ Managed[7] = "bak"
  BY DEF Managed
<1>3. \A n \in 1..8: n < 6 => ~(n + 1 > 6)
  OBVIOUS
<1>4. \A n \in 1..8: Managed[n] \in {"config", "bak", "aliasbak"} => ~(n < 6)
  <2>1. \A n \in 1..8: n \in {6, 7, 8} => ~(n < 6)
    OBVIOUS
  <2>. QED BY ONLY <1>1, <2>1
<1>. QED BY <1>2, <1>3, <1>4 DEF Homes, SecretFiles

\* The rollback restores config.yaml before it removes the backups.
LEMMA RollbackBacked ==
    ASSUME CommandsTypeOK, NEW c \in Commands, Backed(c), Rollback(c), pc'[c] \notin Ended,
           failed'[c] # "for good"
    PROVE  Backed(c)'
<1> SUFFICES ASSUME NEW n \in 1..8, n = roll[c]
             PROVE  Backed(c)'
  BY TableOfFiles DEF CommandsTypeOK
<1>0. snap' = snap /\ UNCHANGED read /\ pc[c] = "roll"
  BY DEF Rollback, On
<1>1. Managed[n] \in SecretFiles \cup Homes
  BY TableOfFiles
<1>2. pc'[c] = "roll" /\ n < 8
  <2>1. \/ n < 8 /\ To(c, "roll")
        \/ To(c, "restored") \/ To(c, "unrestored")
    BY <1>1, TableOfFiles DEF Rollback, Managed
  <2>. QED BY <2>1, AtStep DEF Ended
<1>3. roll'[c] = n + 1
  BY <1>2 DEF Rollback, CommandsTypeOK, Managed
<1>4. ~(failed' = [failed EXCEPT ![c] = "for good"])
  BY DEF CommandsTypeOK
<1>5. \/ Managed[n] \in Homes /\ Sets(Managed[n], snap[c][n])
      \/ Managed[n] \in SecretFiles /\ UNCHANGED home
  BY <1>1, <1>4 DEF Rollback
<1>6. n < 6 \/ n = 6 \/ n = 7
  <2>1. n < 8
    BY <1>2
  <2>. QED BY ONLY <2>1, n \in 1..8
<1>7. CASE n < 6
  <2>1. Managed[n] \notin {"config", "bak", "aliasbak"}
    BY <1>7, RollOrder
  <2>2. ~(roll'[c] > 6)
    BY <1>3, <1>7, RollOrder
  <2>3. /\ home'["config"] = home["config"] /\ home'["bak"] = home["bak"]
        /\ home'["aliasbak"] = home["aliasbak"]
    <3>1. home' = home \/ \A x \in Homes: x # Managed[n] => home'[x] = home[x]
      BY <1>5, SetsAt
    <3>. QED BY <2>1, <3>1, RollOrder
  <2>. QED BY <1>0, <1>2, <2>2, <2>3 DEF Backed, Before
<1>8. CASE n = 6
  <2>1. Sets("config", snap[c][6])
    BY <1>5, <1>8, RollOrder
  <2>2. home'["config"] = snap[c][6]
    BY <2>1, SetsAt DEF Homes
  <2>. QED BY <1>0, <1>2, <2>2 DEF Backed, Before
<1>9. CASE n = 7
  <2>1. home'["config"] = home["config"]
    BY <1>5, <1>9, RollOrder, SetsAt
  <2>2. roll[c] > 6
    BY ONLY <1>9, n = roll[c]
  <2>3. home["config"] = snap[c][6]
    BY <1>0, <2>2 DEF Backed
  <2>. QED BY <1>0, <1>2, <2>1, <2>3 DEF Backed, Before
<1>. QED BY <1>6, <1>7, <1>8, <1>9

\* What a step of c's own does to the record of its rollback.
LEMMA OwnRolls ==
    ASSUME CommandsTypeOK, NEW c \in Commands, Acts(c)
    PROVE  \/ pc[c] = "roll" /\ Rollback(c)
           \/ roll'[c] = roll[c] /\ failed'[c] = failed[c] /\ pc'[c] = pc[c]
           \/ roll'[c] = roll[c] /\ pc'[c] = "crashed" /\ failed'[c] = failed[c]
           \/ /\ roll'[c] = roll[c] /\ failed'[c] \in {failed[c], "yes"}
              /\ pc[c] \notin {"roll"} \cup Ended
<1>0. \A step: FailsTo(c, step) => failed'[c] = "yes"
  BY DEF FailsTo, CommandsTypeOK
<1>1. CASE Begin(c) \/ Finish(c) \/ Snapshot(c) \/ Resolve(c)
  BY <1>1 DEF Begin, Finish, Snapshot, Snaps, Resolve, Keeps, On, Ended
<1>2. CASE CommandCrash(c)
  <2>1. To(c, "crashed") /\ UNCHANGED failed /\ UNCHANGED roll
    BY <1>2 DEF CommandCrash, Keeps
  <2>. QED BY <2>1, AtStep
<1>3. CASE Rollback(c)
  BY <1>3 DEF Rollback, On
<1>4. CASE Tokens(c)
  <2>1. UNCHANGED roll
    BY <1>4 DEF Tokens, SecureWrite, Token, EnsureAdmin, Doctor, Minted, Permissions,
                NoSecrets, Frame, Keeps
  <2>2. \/ SecureWrite(c) /\ UNCHANGED <<pc, failed>>
        \/ pc[c] \notin {"roll"} \cup Ended
    BY <1>4 DEF Tokens, Token, EnsureAdmin, Doctor, Minted, Permissions, On, Ended
  <2>3. failed'[c] \in {failed[c], "yes"}
    BY <1>0, <1>4 DEF Tokens, Token, EnsureAdmin, Doctor, Minted, Permissions
  <2>. QED BY <2>1, <2>2, <2>3
<1>5. CASE Shims(c)
  <2>1. UNCHANGED roll /\ pc[c] \notin {"roll"} \cup Ended
    BY <1>5 DEF Shims, InstallCheck, InstallWrite, ControlCheck, ControlWrite, Replaces, Undoes,
                Keeps, On, Ended
  <2>2. failed'[c] \in {failed[c], "yes"}
    BY <1>0, <1>5 DEF Shims, InstallCheck, InstallWrite, ControlCheck, ControlWrite, Replaces, Undoes
  <2>. QED BY <2>1, <2>2
<1>6. CASE EnablePlugin(c)
  <2>1. UNCHANGED roll /\ pc[c] \notin {"roll"} \cup Ended
    BY <1>6 DEF EnablePlugin, PlugRead, PlugCheck, PlugVerify, Backs, Replaces, Restores, Keeps,
                On, Ended
  <2>2. failed'[c] \in {failed[c], "yes"}
    BY <1>0, <1>6 DEF EnablePlugin, PlugRead, PlugCheck, PlugVerify, Backs, Replaces, Restores
  <2>. QED BY <2>1, <2>2
<1>7. CASE EnableAlias(c)
  <2>1. UNCHANGED roll /\ pc[c] \notin {"roll"} \cup Ended
    BY <1>7 DEF EnableAlias, AliasRead, AliasVerify, Backs, Replaces, Restores, Keeps, On, Ended
  <2>2. failed'[c] \in {failed[c], "yes"}
    BY <1>0, <1>7 DEF EnableAlias, AliasRead, AliasVerify, Backs, Replaces, Restores
  <2>. QED BY <2>1, <2>2
<1>8. CASE Configure(c)
  <2>1. UNCHANGED roll /\ pc[c] \notin {"roll"} \cup Ended
    BY <1>8 DEF Configure, CfgRead, CfgVerify, Backs, Replaces, Restores, Keeps, On, Ended
  <2>2. failed'[c] \in {failed[c], "yes"}
    BY <1>0, <1>8 DEF Configure, CfgRead, CfgVerify, Backs, Replaces, Restores
  <2>. QED BY <2>1, <2>2
<1>. QED BY <1>1, <1>2, <1>3, <1>4, <1>5, <1>6, <1>7, <1>8 DEF Acts, CommandStep

LEMMA StillRolls ==
    ASSUME CommandsTypeOK, NEW c \in Commands, Rolls(c), Acts(c) \/ Away(c)
    PROVE  Rolls(c)'
<1>1. CASE Away(c)
  BY <1>1 DEF Away, Rolls, Ended
<1>2. CASE Rollback(c)
  <2>1. \E step \in {"roll", "restored", "unrestored"}: To(c, step)
    BY <1>2 DEF Rollback
  <2>2. pc'[c] \in {"roll", "restored", "unrestored"}
    BY <2>1, AtStep
  <2>. QED BY <2>2 DEF Rolls, Ended
<1>3. CASE Acts(c)
  BY <1>2, <1>3, OwnRolls DEF Rolls, Ended
<1>. QED BY <1>1, <1>3

\* A rollback that failed for good stays that.
LEMMA ForGood ==
    ASSUME CommandsTypeOK, NEW c \in Commands, Rolls(c), Acts(c), pc'[c] \notin Ended,
           failed'[c] # "for good"
    PROVE  failed[c] # "for good"
<1>1. Rollback(c) => failed'[c] \in {failed[c], "for good"}
  BY DEF Rollback, CommandsTypeOK
<1>. QED BY <1>1, OwnRolls DEF Rolls, Ended

\* Who has snapshots keeps them.
LEMMA OwnSnapshots ==
    ASSUME CommandsTypeOK, NEW c \in Commands, Acts(c), Op(c) = "setup",
           pc'[c] \notin Early \cup Ended
    PROVE  \/ /\ pc'[c] = "token" /\ UNCHANGED home /\ snap'[c][6] = home["config"]
              /\ pc[c] = "snap_home"
              /\ \A n \in 1..8:
                    snap'[c][n] = IF n \in 3..8 THEN Content(Managed[n]) ELSE snap[c][n]
           \/ UNCHANGED <<cast, snap>> /\ pc[c] \notin Early \cup Ended
<1>1. CASE Begin(c) \/ Resolve(c) \/ CommandCrash(c)
  <2>1. \E step \in {"resolve", "refused", "snap_token", "crashed"}: To(c, step)
    BY <1>1 DEF Begin, Resolve, CommandCrash
  <2>. QED BY <2>1, AtStep DEF Early, Ended
<1>2. CASE Snapshot(c)
  <2>1. \/ \E step \in {"snap_admin", "snap_home", "refused"}: To(c, step)
        \/ To(c, "token") /\ Snaps(c, "snap_home", 3..8, "token")
    BY <1>2 DEF Snapshot, Snaps
  <2>2. \/ pc'[c] \in {"snap_admin", "snap_home", "refused"}
        \/ pc'[c] = "token" /\ Snaps(c, "snap_home", 3..8, "token")
    BY <2>1, AtStep
  <2>3. pc'[c] = "token" /\ Snaps(c, "snap_home", 3..8, "token")
    BY <2>2 DEF Early, Ended
  <2>4. ~To(c, "refused")
    BY <2>3, AtStep
  <2>5. /\ UNCHANGED home
        /\ snap' = [snap EXCEPT ![c] = [n \in DOMAIN Managed |->
                        IF n \in 3..8 THEN Content(Managed[n]) ELSE @[n]]]
    BY <2>3, <2>4 DEF Snaps
  <2>6. pc[c] = "snap_home"
    BY <2>3 DEF Snaps, On
  <2>7. \A n \in 1..8: snap'[c][n] = IF n \in 3..8 THEN Content(Managed[n]) ELSE snap[c][n]
    BY <2>5, TableOfFiles DEF CommandsTypeOK
  <2>8. snap'[c][6] = home["config"]
    <3>1. snap'[c][6] = Content("config")
      BY <2>7, Slots
    <3>. QED BY <3>1 DEF Content, SecretFiles
  <2>. QED BY <2>3, <2>5, <2>6, <2>7, <2>8
<1>3. CASE Tokens(c)
  <2>1. UNCHANGED <<cast, snap>>
    BY <1>3 DEF Tokens, SecureWrite, Token, EnsureAdmin, Doctor, Minted, Permissions, NoSecrets,
                Frame, Keeps
  <2>2. UNCHANGED pc \/ pc[c] \notin Early \cup Ended
    BY <1>3 DEF Tokens, Token, EnsureAdmin, Doctor, Minted, Permissions, On, Early, Ended
  <2>. QED BY <2>1, <2>2
<1>4. CASE Shims(c)
  BY <1>4 DEF Shims, InstallCheck, InstallWrite, ControlCheck, ControlWrite, Replaces, Undoes,
              NoSecrets, Frame, Keeps, On, Early, Ended
<1>5. CASE EnablePlugin(c)
  BY <1>5 DEF EnablePlugin, PlugRead, PlugCheck, PlugVerify, Backs, Replaces, Restores, NoSecrets,
              Frame, Keeps, On, Early, Ended
<1>6. CASE EnableAlias(c)
  BY <1>6 DEF EnableAlias, AliasRead, AliasVerify, Backs, Replaces, Restores, NoSecrets, Frame,
              Keeps, On, Early, Ended
<1>7. CASE Finish(c) \/ Rollback(c)
  BY <1>7 DEF Finish, Rollback, NoSecrets, Frame, Keeps, On, Early, Ended
<1>8. CASE Configure(c)
  BY <1>8 DEF Configure, CfgRead, CfgVerify, Backs, Replaces, Restores, NoSecrets, Frame, Keeps,
              On, Early, Ended
<1>. QED BY <1>1, <1>2, <1>3, <1>4, <1>5, <1>6, <1>7, <1>8 DEF Acts, CommandStep

LEMMA OwnBacked ==
    ASSUME CommandsTypeOK, NEW c \in Commands, BackupInv(c), Kept(c), Acts(c), Keeper(c)',
           UNCHANGED cast
    PROVE  Backed(c)'
<1>1. /\ Op(c) = "setup" /\ pc'[c] \notin Early \cup Ended /\ failed'[c] # "for good"
      /\ touched'[c] = touched[c] /\ Text(snap'[c][6]) # EmptyDoc
  <2>1. Transacts(c)' <=> Op(c)' = "setup" /\ pc'[c] \notin Early \cup Ended
    BY DEF Transacts, Running, Early, Ended
  <2>2. Text(snap[c][6])' = Text(snap'[c][6])
    BY DEF Text
  <2>. QED BY <2>1, <2>2 DEF Keeper, Op, Acts
<1>2. CASE pc'[c] = "token" /\ UNCHANGED home /\ snap'[c][6] = home["config"]
  BY <1>2 DEF Backed, Before
<1>3. CASE UNCHANGED snap /\ pc[c] \notin Early \cup Ended
  <2>1. Transacts(c)
    BY <1>1, <1>3, TransactsAt
  <2>2. failed[c] # "for good"
    BY <1>1, ForGood DEF BackupInv
  <2>3. Undisturbed(c, {"config", "bak", "aliasbak"})
    BY <1>1 DEF Keeper, Undisturbed
  <2>4. Backed(c) /\ Text(snap[c][6]) # EmptyDoc
    BY <1>1, <1>3, <2>1, <2>2, <2>3 DEF BackupInv, Keeper
  <2>5. ~(Begin(c) \/ CommandCrash(c) \/ Resolve(c) \/ Snapshot(c) \/ Configure(c))
    <3>1. ~CommandCrash(c)
      BY <1>1, AtStep DEF CommandCrash, Ended
    <3>2. ~(Begin(c) \/ Resolve(c) \/ Snapshot(c))
      BY <1>3 DEF Begin, Resolve, Snapshot, Snaps, On, Early
    <3>3. ~Configure(c)
      BY <1>1 DEF Kept, Configure, CfgRead, CfgVerify, Backs, Replaces, Restores, On, Configures
    <3>. QED BY <3>1, <3>2, <3>3
  <2>6. CASE Finish(c)
    <3>1. pc'[c] \in {"done", "roll"} /\ pc[c] = "finish" /\ UNCHANGED <<home, snap, roll>>
      BY <2>6, AtStep DEF Finish, On, NoSecrets, Keeps
    <3>2. pc'[c] = "roll" /\ roll'[c] = 1
      BY <1>1, <3>1 DEF BackupInv, Rolls, Ended
    <3>. QED BY <2>4, <3>1, <3>2, BesideBacked
  <2>. QED
    BY <1>1, <2>4, <2>5, <2>6, TokensBacked, ShimsBacked, PluginBacked, AliasBacked, RollbackBacked
    DEF Acts, CommandStep
<1>. QED BY <1>1, <1>2, <1>3, OwnSnapshots

LEMMA AwayBacked ==
    ASSUME NEW c \in Commands, BackupInv(c), Away(c), Keeper(c)'
    PROVE  Backed(c)'
<1>1. /\ pc'[c] = pc[c] /\ read'[c] = read[c] /\ snap'[c] = snap[c] /\ roll'[c] = roll[c]
      /\ failed'[c] = failed[c] /\ UNCHANGED cast /\ touched[c] \subseteq touched'[c]
  BY DEF Away
<1>2. Transacts(c) /\ Running(c)
  BY <1>1 DEF Keeper, Transacts, Running, Op
<1>3. {"config", "bak", "aliasbak"} \cap touched'[c] = {}
  BY DEF Keeper, Undisturbed
<1>4. Text(snap[c][6]) # EmptyDoc
  BY <1>1 DEF Keeper, Text
<1>5. Keeper(c)
  BY <1>1, <1>2, <1>3, <1>4 DEF Keeper, Undisturbed
<1>6. /\ home'["config"] = home["config"] /\ home'["bak"] = home["bak"]
      /\ home'["aliasbak"] = home["aliasbak"]
  BY <1>2, <1>3 DEF Away, Content, Homes, SecretFiles
<1>. QED BY <1>1, <1>5, <1>6 DEF BackupInv, Backed

\* As long as config.yaml differs from what setup found there, one of the backups
\* holds that: each edit backs up what it has read before it replaces the file, the
\* second one under a name of its own, and the rollback restores the file before it
\* removes them.
THEOREM BackupsHold == Spec => []BackupHolds
<1> DEFINE Inv == \A c \in Commands: Kept(c) /\ BackupInv(c)
<1>1. SetupInit => Inv
  BY DEF SetupInit, Kept, Transacts, Running, Configures, BackupInv, Rolls, Keeper
<1>2. SetupTypeOK /\ Inv /\ [Next]_vars => Inv'
  <2> SUFFICES ASSUME SetupTypeOK, Inv, [Next]_vars, NEW c \in Commands
               PROVE  Kept(c)' /\ BackupInv(c)'
    OBVIOUS
  <2>0. CommandsTypeOK /\ UNCHANGED cast
    BY CastStays DEF SetupTypeOK, CommandsTypeOK
  <2>1. Kept(c)'
    BY AllKept
  <2>2. Acts(c) \/ Away(c)
    BY Turns
  <2>3. Rolls(c)'
    BY <2>0, <2>2, StillRolls DEF BackupInv
  <2>4. Keeper(c)' => Backed(c)'
    BY <2>0, <2>2, OwnBacked, AwayBacked
  <2>. QED BY <2>1, <2>3, <2>4 DEF BackupInv
<1>3. Inv => BackupHolds
  BY BackedSays
<1>. QED BY <1>1, <1>2, <1>3, TypeCorrect, PTL DEF Spec

-----------------------------------------------------------------------------
(* The rollback                                                             *)

\* The steps of a command at which it may be minting.
Mints == {"token", "admin", "doctor_mint"}

\* Who is not there has no file half written.
Rested(c) == pc[c] \in Mints \/ At(c, "idle")

\* Elsewhere a command leaves its job alone.
LEMMA OutsideTokens ==
    ASSUME NEW c \in Commands, Acts(c)
    PROVE  Tokens(c) \/ CommandCrash(c) \/ (UNCHANGED job /\ pc[c] \notin Mints)
<1>1. Begin(c) \/ Rollback(c) => UNCHANGED job /\ pc[c] \notin Mints
  BY DEF Begin, Rollback, On, Mints
<1>2. Resolve(c) \/ Snapshot(c) \/ Finish(c) => UNCHANGED job /\ pc[c] \notin Mints
  BY DEF Resolve, Snapshot, Snaps, Finish, NoSecrets, On, Mints
<1>3. Shims(c) => UNCHANGED job /\ pc[c] \notin Mints
  BY DEF Shims, InstallCheck, InstallWrite, ControlCheck, ControlWrite, Replaces, Undoes,
         NoSecrets, On, Mints
<1>4. EnablePlugin(c) => UNCHANGED job /\ pc[c] \notin Mints
  BY DEF EnablePlugin, PlugRead, PlugCheck, PlugVerify, Backs, Replaces, Restores, NoSecrets, On, Mints
<1>5. EnableAlias(c) => UNCHANGED job /\ pc[c] \notin Mints
  BY DEF EnableAlias, AliasRead, AliasVerify, Backs, Replaces, Restores, NoSecrets, On, Mints
<1>6. Configure(c) => UNCHANGED job /\ pc[c] \notin Mints
  BY DEF Configure, CfgRead, CfgVerify, Backs, Replaces, Restores, NoSecrets, On, Mints
<1>. QED BY <1>1, <1>2, <1>3, <1>4, <1>5, <1>6 DEF Acts, CommandStep

LEMMA StillRested ==
    ASSUME SecretsTypeOK, CommandsTypeOK, NEW c \in Commands, Rested(c), Acts(c) \/ Away(c)
    PROVE  Rested(c)'
<1>0. c \in Procs
  BY DEF Procs
<1>1. UNCHANGED job /\ pc[c] \notin Mints => Rested(c)'
  BY DEF Rested, At
<1>2. CASE Away(c)
  BY <1>2 DEF Away, Rested, At
<1>3. CASE CommandCrash(c)
  BY <1>0, <1>3, JobSteps DEF CommandCrash, Idle, Rested, At
<1>4. CASE Tokens(c)
  <2>1. SecureWrite(c) => ~At(c, "idle")
    BY DEF SecureWrite, Unlink, Create, Write, At
  <2>2. \/ pc[c] \in Mints /\ UNCHANGED pc
        \/ At(c, "idle") /\ UNCHANGED job
        \/ Done(c)
        \/ pc[c] \notin Mints /\ UNCHANGED job
    BY <1>4, <2>1 DEF Tokens, Token, EnsureAdmin, Doctor, Minted, Permissions, NoSecrets, On, Mints,
                       Rested
  <2>3. Done(c) => Rested(c)'
    BY <1>0, JobSteps DEF Idle, Rested, At
  <2>. QED BY <1>1, <2>2, <2>3 DEF Rested, At
<1>. QED BY <1>1, <1>2, <1>3, <1>4, OutsideTokens

\* What the rollback does with the n-th of its files, when it can.
LEMMA RollbackAt ==
    ASSUME SecretsTypeOK, CommandsTypeOK, NEW c \in Commands, Rollback(c),
           NEW n \in 1..8, n = roll[c], failed'[c] # "for good"
    PROVE  /\ Content(Managed[n])' = snap[c][n]
           /\ \A f \in SecretFiles \cup Homes: f # Managed[n] => Content(f)' = Content(f)
           /\ UNCHANGED snap
           /\ n < 8 => roll'[c] = n + 1
           /\ pc'[c] = "restored" => n = 8
           /\ pc'[c] = "roll" => n < 8
<1>1. Managed[n] \in SecretFiles \cup Homes /\ Len(Managed) = 8
  BY TableOfFiles DEF Managed
<1>2. ~(failed' = [failed EXCEPT ![c] = "for good"])
  BY DEF CommandsTypeOK
<1>3. IF Managed[n] \in SecretFiles
        THEN Puts(Managed[n], snap[c][n]) /\ UNCHANGED home
        ELSE Sets(Managed[n], snap[c][n]) /\ UNCHANGED secret
  BY <1>2 DEF Rollback
<1>4. /\ Content(Managed[n])' = snap[c][n]
      /\ \A f \in SecretFiles \cup Homes: f # Managed[n] => Content(f)' = Content(f)
  <2>1. CASE Managed[n] \in SecretFiles
    <3>1. /\ secret'[Managed[n]] = snap[c][n] /\ UNCHANGED home
          /\ \A f \in SecretFiles: f # Managed[n] => secret'[f] = secret[f]
      BY <1>3, <2>1 DEF Puts, SecretsTypeOK
    <3>. QED BY <2>1, <3>1 DEF Content
  <2>2. CASE Managed[n] \notin SecretFiles
    <3>1. /\ home'[Managed[n]] = snap[c][n] /\ UNCHANGED secret
          /\ \A f \in Homes: f # Managed[n] => home'[f] = home[f]
      BY <1>1, <1>3, <2>2, SetsAt
    <3>. QED BY <2>2, <3>1 DEF Content
  <2>. QED BY <2>1, <2>2
<1>5. UNCHANGED snap /\ (n < 8 => roll'[c] = n + 1)
  BY <1>1 DEF Rollback, CommandsTypeOK
<1>6. pc'[c] = "restored" => n = 8
  <2>1. n < 8 => To(c, "roll")
    BY <1>1 DEF Rollback
  <2>2. n < 8 => pc'[c] = "roll"
    BY <2>1, AtStep
  <2>3. ~(n < 8) => n = 8
    BY ONLY n \in 1..8
  <2>. QED BY <2>2, <2>3
<1>7. pc'[c] = "roll" => n < 8
  <2>1. n < 8 \/ \E step \in {"restored", "unrestored"}: To(c, step)
    BY <1>1 DEF Rollback
  <2>. QED BY <2>1, AtStep
<1>. QED BY <1>4, <1>5, <1>6, <1>7

\* Setup c has put back what it found in the files it is past.
Undone(c) ==
    pc[c] = "roll" /\ failed[c] # "for good" =>
      \A n \in 1..8: n < roll[c] /\ Managed[n] \notin touched[c] =>
        Content(Managed[n]) = snap[c][n]

\* The name of a file tells its place.
LEMMA OnePlace ==
    \A n, m \in 1..8: Managed[n] = Managed[m] => n = m
<1> SUFFICES ASSUME NEW n \in 1..8, NEW m \in 1..8, Managed[n] = Managed[m] PROVE n = m
  OBVIOUS
<1>1. /\ Managed[1] = "token" /\ Managed[2] = "admin" /\ Managed[3] = "shim"
      /\ Managed[4] = "init" /\ Managed[5] = "manifest" /\ Managed[6] = "config"
      /\ Managed[7] = "bak" /\ Managed[8] = "aliasbak"
  BY DEF Managed
<1>2. \A k \in 1..8: k = 1 \/ k = 2 \/ k = 3 \/ k = 4 \/ k = 5 \/ k = 6 \/ k = 7 \/ k = 8
  OBVIOUS
<1>. QED BY <1>1, <1>2

\* All that a command in its rollback does.
LEMMA OwnRollback ==
    ASSUME SecretsTypeOK, CommandsTypeOK, NEW c \in Commands, Rested(c), Acts(c),
           pc[c] = "roll"
    PROVE  Rollback(c) \/ pc'[c] = "crashed"
<1>1. CommandCrash(c) => pc'[c] = "crashed"
  BY AtStep DEF CommandCrash
<1>2. ~SecureWrite(c)
  BY DEF SecureWrite, Unlink, Create, Write, Rested, Mints, At
<1>3. ~Tokens(c)
  BY <1>2 DEF Tokens, Token, EnsureAdmin, Doctor, Minted, Permissions, On
<1>4. ~(Begin(c) \/ Resolve(c) \/ Snapshot(c) \/ Finish(c))
  BY DEF Begin, Resolve, Snapshot, Snaps, Finish, On
<1>5. ~Shims(c)
  BY DEF Shims, InstallCheck, InstallWrite, ControlCheck, ControlWrite, Replaces, Undoes, On
<1>6. ~EnablePlugin(c)
  BY DEF EnablePlugin, PlugRead, PlugCheck, PlugVerify, Backs, Replaces, Restores, On
<1>7. ~EnableAlias(c)
  BY DEF EnableAlias, AliasRead, AliasVerify, Backs, Replaces, Restores, On
<1>8. ~Configure(c)
  BY DEF Configure, CfgRead, CfgVerify, Backs, Replaces, Restores, On
<1>. QED BY <1>1, <1>3, <1>4, <1>5, <1>6, <1>7, <1>8 DEF Acts, CommandStep

LEMMA StillUndone ==
    ASSUME SecretsTypeOK, CommandsTypeOK, NEW c \in Commands, Rested(c), Rolls(c), Undone(c),
           Acts(c) \/ Away(c)
    PROVE  Undone(c)'
<1> SUFFICES ASSUME pc'[c] = "roll", failed'[c] # "for good", NEW m \in 1..8, m < roll'[c],
                    Managed[m] \notin touched'[c]
             PROVE  Content(Managed[m])' = snap'[c][m]
  BY DEF Undone
<1>1. Managed[m] \in SecretFiles \cup Homes
  BY TableOfFiles
<1>2. CASE Away(c)
  <2>1. Running(c) /\ Managed[m] \notin touched[c]
    BY <1>2 DEF Away, Running, Ended
  <2>2. Content(Managed[m])' = Content(Managed[m])
    BY <1>1, <1>2, <2>1 DEF Away
  <2>. QED BY <1>2, <2>1, <2>2 DEF Away, Undone
<1>3. CASE Acts(c) /\ pc[c] = "roll"
  <2>1. PICK n \in 1..8: n = roll[c]
    BY TableOfFiles DEF CommandsTypeOK
  <2>2. Rollback(c)
    BY <1>3, OwnRollback
  <2>3. failed[c] # "for good"
    BY <2>2 DEF Rollback, CommandsTypeOK
  <2>4. n < 8
    BY <2>1, <2>2, RollbackAt
  <2>5. roll'[c] = n + 1
    BY <2>1, <2>2, <2>4, RollbackAt
  <2>6. m = n \/ m < n
    BY ONLY <2>5, m < roll'[c], m \in 1..8, n \in 1..8
  <2>7. UNCHANGED snap /\ touched'[c] = touched[c]
    BY <1>3, <2>1, <2>2, RollbackAt DEF Acts
  <2>8. CASE m = n
    BY <2>1, <2>2, <2>7, <2>8, RollbackAt
  <2>9. CASE m < n
    <3>1. Managed[m] # Managed[n]
      <4>1. m # n
        BY ONLY <2>9, m \in 1..8, n \in 1..8
      <4>. QED BY <4>1, OnePlace
    <3>2. Content(Managed[m])' = Content(Managed[m])
      BY <1>1, <2>1, <2>2, <3>1, RollbackAt
    <3>3. Content(Managed[m]) = snap[c][m]
      BY <1>3, <2>1, <2>3, <2>7, <2>9 DEF Undone
    <3>. QED BY <2>7, <3>2, <3>3
  <2>. QED BY <2>6, <2>8, <2>9
<1>4. CASE Acts(c) /\ pc[c] # "roll"
  <2>1. roll'[c] = 1
    BY <1>4, OwnRolls DEF Rolls, Ended
  <2>. QED BY ONLY <2>1, m \in 1..8, m < roll'[c]
<1>. QED BY <1>2, <1>3, <1>4

\* The last step of a rollback that went well.
LEMMA RolledBack ==
    ASSUME SecretsTypeOK, CommandsTypeOK, NEW c \in Commands, Rested(c), Undone(c), Acts(c),
           pc[c] = "roll", pc'[c] = "restored"
    PROVE  \A n \in 1..8: Managed[n] \notin touched'[c] => Content(Managed[n])' = snap[c][n]
<1>1. Rollback(c)
  BY OwnRollback
<1>2. PICK last \in 1..8: last = roll[c]
  BY TableOfFiles DEF CommandsTypeOK
<1>3. failed'[c] = "yes" /\ failed[c] # "for good"
  <2>1. \E step \in {"roll", "unrestored"}: To(c, step) \/ failed'[c] = "yes"
    BY <1>1 DEF Rollback
  <2>2. failed'[c] = "yes"
    BY <2>1, AtStep
  <2>. QED BY <1>1, <2>2 DEF Rollback, CommandsTypeOK
<1>4. last = 8
  BY <1>1, <1>2, <1>3, RollbackAt
<1>5. ASSUME NEW n \in 1..8, Managed[n] \notin touched'[c] PROVE Content(Managed[n])' = snap[c][n]
  <2>1. CASE n = last
    BY <1>1, <1>2, <1>3, <2>1, RollbackAt
  <2>2. CASE n # last
    <3>1. n < last
      BY ONLY <1>4, <2>2, n \in 1..8
    <3>2. Managed[n] \notin touched[c]
      BY <1>5 DEF Acts
    <3>3. Content(Managed[n]) = snap[c][n]
      BY <1>2, <1>3, <3>1, <3>2 DEF Undone
    <3>4. Managed[n] # Managed[last] /\ Managed[n] \in SecretFiles \cup Homes
      BY <2>2, OnePlace, TableOfFiles
    <3>5. Content(Managed[n])' = Content(Managed[n])
      BY <1>1, <1>2, <1>3, <3>4, RollbackAt
    <3>. QED BY <3>3, <3>5
  <2>. QED BY <2>1, <2>2
<1>. QED BY <1>5

\* Where commands that are no setups may be.
OtherSteps == {"off", "doctor", "doctor_mint"} \cup Configures \cup Ended

LEMMA StillOther ==
    ASSUME SetupTypeOK, NEW c \in Commands, Op(c) # "setup", pc[c] \in OtherSteps,
           Acts(c) \/ Away(c)
    PROVE  pc'[c] \in OtherSteps
<1>0. CommandsTypeOK /\ Op(c) \in {"setup", "configure", "doctor"}
  BY SetupAssumption DEF SetupTypeOK, CommandsTypeOK, SecretsTypeOK, Op
<1>1. CASE Away(c)
  BY <1>1 DEF Away
<1>2. CASE Begin(c)
  <2>1. To(c, "cfg") \/ To(c, "doctor")
    BY <1>0, <1>2 DEF Begin
  <2>. QED BY <1>0, <2>1, AtStep DEF OtherSteps, Configures
<1>3. CASE CommandCrash(c)
  BY <1>0, <1>3, AtStep DEF CommandCrash, OtherSteps, Ended
<1>4. CASE Tokens(c)
  <2>1. UNCHANGED pc \/ \E step \in {"doctor_mint", "done"}: To(c, step)
    BY <1>4 DEF Tokens, Token, EnsureAdmin, Doctor, Minted, Permissions, On, FailsTo, OtherSteps,
                Configures, Ended
  <2>. QED BY <1>0, <2>1, AtStep DEF OtherSteps, Ended
<1>5. CASE Configure(c)
  <2>1. \E step \in Configures \cup {"refused", "done", "unchanged"}: To(c, step)
    BY <1>5 DEF Configure, CfgRead, CfgVerify, Backs, Replaces, Restores, FailsTo, Configures
  <2>. QED BY <1>0, <2>1, AtStep DEF OtherSteps, Ended
<1>6. Resolve(c) \/ Snapshot(c) \/ Finish(c) \/ Rollback(c) => pc[c] \notin OtherSteps
  BY DEF Resolve, Snapshot, Snaps, Finish, Rollback, On, OtherSteps, Configures, Ended
<1>7. Shims(c) => pc[c] \notin OtherSteps
  BY DEF Shims, InstallCheck, InstallWrite, ControlCheck, ControlWrite, Replaces, Undoes, On,
         OtherSteps, Configures, Ended
<1>8. EnablePlugin(c) => pc[c] \notin OtherSteps
  BY DEF EnablePlugin, PlugRead, PlugCheck, PlugVerify, Backs, Replaces, Restores, On,
         OtherSteps, Configures, Ended
<1>9. EnableAlias(c) => pc[c] \notin OtherSteps
  BY DEF EnableAlias, AliasRead, AliasVerify, Backs, Replaces, Restores, On,
         OtherSteps, Configures, Ended
<1>. QED BY <1>1, <1>2, <1>3, <1>4, <1>5, <1>6, <1>7, <1>8, <1>9 DEF Acts, CommandStep

\* A command writes one file of the home, and configure's backup in configure only.
LEMMA OwnWrites ==
    ASSUME CommandsTypeOK, NEW c \in Commands, Acts(c)
    PROVE  \/ UNCHANGED home
           \/ \E f \in Homes: \E content:
                Sets(f, content) /\ (f = "confbak" => pc[c] \in Configures)
<1>0. {"shim", "init", "manifest", "config", "bak", "aliasbak", "confbak"} \subseteq Homes
  BY DEF Homes
<1>1. Begin(c) \/ Resolve(c) \/ Snapshot(c) \/ Finish(c) => UNCHANGED home
  BY DEF Begin, Resolve, Snapshot, Snaps, Finish
<1>9. CASE CommandCrash(c)
  <2>1. \/ UNCHANGED home
        \/ pc[c] = "plug_backup" /\ Sets("bak", Garbage)
        \/ pc[c] = "alias_backup" /\ Sets("aliasbak", Garbage)
        \/ pc[c] = "cfg_backup" /\ Sets("confbak", Garbage)
    BY <1>9 DEF CommandCrash, Torn, BackupOf
  <2>. QED BY <1>0, <2>1 DEF Configures
<1>2. Tokens(c) => UNCHANGED home
  BY DEF Tokens, SecureWrite, Token, EnsureAdmin, Doctor, Minted, Permissions
<1>3. Shims(c) => UNCHANGED home \/ \E f \in {"shim", "init", "manifest"}: \E content: Sets(f, content)
  BY DEF Shims, InstallCheck, InstallWrite, ControlCheck, ControlWrite, Replaces, Undoes
<1>4. EnablePlugin(c) => UNCHANGED home \/ \E f \in {"config", "bak"}: \E content: Sets(f, content)
  BY DEF EnablePlugin, PlugRead, PlugCheck, PlugVerify, Backs, Torn, Replaces, Restores
<1>5. EnableAlias(c) => UNCHANGED home \/ \E f \in {"config", "aliasbak"}: \E content: Sets(f, content)
  BY DEF EnableAlias, AliasRead, AliasVerify, Backs, Torn, Replaces, Restores
<1>6. CASE Configure(c)
  <2>1. pc[c] \in Configures
    BY <1>6 DEF Configure, CfgRead, CfgVerify, Backs, Replaces, Restores, On, Configures
  <2>2. UNCHANGED home \/ \E f \in {"config", "confbak"}: \E content: Sets(f, content)
    BY <1>6 DEF Configure, CfgRead, CfgVerify, Backs, Torn, Replaces, Restores
  <2>. QED BY <1>0, <2>1, <2>2
<1>7. CASE Rollback(c)
  <2>1. PICK n \in 1..8: n = roll[c]
    BY TableOfFiles DEF CommandsTypeOK
  <2>2. Managed[n] \in SecretFiles \cup Homes /\ Managed[n] # "confbak"
    <3>1. \A m \in 1..8: Managed[m] # "confbak"
      BY DEF Managed
    <3>. QED BY <3>1, TableOfFiles
  <2>3. UNCHANGED home \/ (Managed[n] \notin SecretFiles /\ Sets(Managed[n], snap[c][n]))
    BY <1>7, <2>1 DEF Rollback
  <2>. QED BY <2>2, <2>3
<1>8. CASE \E f \in {"shim", "init", "manifest", "config", "bak", "aliasbak"}: \E content: Sets(f, content)
  BY <1>0, <1>8
<1>. QED BY <1>1, <1>2, <1>3, <1>4, <1>5, <1>6, <1>7, <1>8, <1>9 DEF Acts, CommandStep

\* Before it has all its snapshots a setup has changed nothing, and is there but once.
LEMMA EarlyOnly ==
    ASSUME CommandsTypeOK, NEW c \in Commands, Rested(c), Acts(c), pc[c] \in Early \/ pc'[c] \in Early
    PROVE  /\ pc[c] \in Early /\ UNCHANGED <<home, secret>>
           /\ Begin(c) \/ Resolve(c) \/ Snapshot(c) \/ pc'[c] = "crashed"
<1>1. CASE Begin(c) \/ Resolve(c) \/ Snapshot(c)
  BY <1>1 DEF Begin, Resolve, Snapshot, Snaps, NoSecrets, On, Early
<1>2. CASE CommandCrash(c)
  <2>1. pc'[c] = "crashed"
    BY <1>2, AtStep DEF CommandCrash
  <2>2. pc[c] \in Early /\ pc[c] \notin DOMAIN BackupOf
    BY <2>1 DEF Early, BackupOf
  <2>. QED BY <1>2, <2>1, <2>2 DEF CommandCrash
<1>3. CASE Tokens(c)
  <2>1. pc[c] \in Early => ~SecureWrite(c)
    BY DEF SecureWrite, Unlink, Create, Write, Rested, Mints, At, Early
  <2>2. pc[c] \notin Early
    BY <1>3, <2>1 DEF Tokens, Token, EnsureAdmin, Doctor, Minted, Permissions, On, Early
  <2>3. \/ UNCHANGED pc
        \/ \E step \in {"token_perms", "admin", "admin_perms", "shim", "doctor_mint", "done"}:
              To(c, step)
    BY <1>3 DEF Tokens, Token, EnsureAdmin, Doctor, Minted, Permissions, FailsTo
  <2>. QED BY <2>2, <2>3, AtStep DEF Early
<1>4. CASE Shims(c)
  <2>1. \E step \in Steps \ Early: To(c, step)
    BY <1>4 DEF Shims, InstallCheck, InstallWrite, ControlCheck, ControlWrite, Replaces, Undoes,
                FailsTo, Steps, Early
  <2>2. pc[c] \notin Early
    BY <1>4 DEF Shims, InstallCheck, InstallWrite, ControlCheck, ControlWrite, Replaces, Undoes,
                On, Early
  <2>. QED BY <2>1, <2>2, AtStep
<1>5. CASE EnablePlugin(c)
  <2>1. \E step \in Steps \ Early: To(c, step)
    BY <1>5 DEF EnablePlugin, PlugRead, PlugCheck, PlugVerify, Backs, Replaces, Restores, FailsTo,
                Steps, Early
  <2>2. pc[c] \notin Early
    BY <1>5 DEF EnablePlugin, PlugRead, PlugCheck, PlugVerify, Backs, Replaces, Restores, On, Early
  <2>. QED BY <2>1, <2>2, AtStep
<1>6. CASE EnableAlias(c)
  <2>1. \E step \in Steps \ Early: To(c, step)
    BY <1>6 DEF EnableAlias, AliasRead, AliasVerify, Backs, Replaces, Restores, FailsTo, Steps, Early
  <2>2. pc[c] \notin Early
    BY <1>6 DEF EnableAlias, AliasRead, AliasVerify, Backs, Replaces, Restores, On, Early
  <2>. QED BY <2>1, <2>2, AtStep
<1>7. CASE Finish(c) \/ Rollback(c)
  <2>1. \E step \in {"done", "roll", "restored", "unrestored"}: To(c, step)
    BY <1>7 DEF Finish, Rollback
  <2>2. pc[c] \notin Early
    BY <1>7 DEF Finish, Rollback, On, Early
  <2>. QED BY <2>1, <2>2, AtStep DEF Early
<1>8. CASE Configure(c)
  <2>1. \E step \in Steps \ Early: To(c, step)
    BY <1>8 DEF Configure, CfgRead, CfgVerify, Backs, Replaces, Restores, FailsTo, Steps, Early, Ended
  <2>2. pc[c] \notin Early
    BY <1>8 DEF Configure, CfgRead, CfgVerify, Backs, Replaces, Restores, On, Early
  <2>. QED BY <2>1, <2>2, AtStep
<1>. QED BY <1>1, <1>2, <1>3, <1>4, <1>5, <1>6, <1>7, <1>8 DEF Acts, CommandStep

\* What the cast brought is still there, or was when c began.
Origin(f) == IF f \in SecretFiles THEN cast.secret[f] ELSE cast.home[f]

\* The snapshots that a setup at `step` has taken.
TakenAt(step) ==
    IF step \in {"off", "resolve", "snap_token"} THEN {}
    ELSE IF step = "snap_admin" THEN {1}
    ELSE IF step = "snap_home" THEN 1..2
    ELSE 1..8

\* c is all there is.
Alone(c) ==
    /\ todo \subseteq {c} /\ touched[c] = {}
    /\ \A d \in Commands \ {c}: pc[d] = "off" /\ job[d] = Idle
    /\ \A g \in Gateways: life[g] = "down" /\ job[g] = Idle

\* What the rollback of a setup that was alone has to go by.
Traces(c) ==
    /\ home = [f \in Homes |-> home[f]]
    /\ secret["salt"] = cast.secret["salt"]
    /\ Op(c) = "setup" => home["confbak"] = cast.home["confbak"]
    /\ pc[c] \in Early => home = cast.home /\ secret = cast.secret
    /\ Op(c) = "setup" /\ pc[c] \notin Ended =>
         \A n \in TakenAt(pc[c]): snap[c][n] = Origin(Managed[n])

\* Who has not begun does nothing but begin.
LEMMA OffRests ==
    ASSUME NEW d \in Commands, pc[d] = "off", job[d] = Idle, d \notin todo
    PROVE  ~(CommandStep(d) \/ Begin(d) \/ CommandCrash(d))
<1>1. ~SecureWrite(d)
  BY DEF SecureWrite, Unlink, Create, Write, At, Idle
<1>2. ~Tokens(d)
  BY <1>1 DEF Tokens, Token, EnsureAdmin, Doctor, Minted, Permissions, On
<1>3. ~(Begin(d) \/ CommandCrash(d))
  BY DEF Begin, CommandCrash, Running
<1>4. ~(Resolve(d) \/ Snapshot(d) \/ Finish(d) \/ Rollback(d))
  BY DEF Resolve, Snapshot, Snaps, Finish, Rollback, On
<1>5. ~Shims(d)
  BY DEF Shims, InstallCheck, InstallWrite, ControlCheck, ControlWrite, Replaces, Undoes, On
<1>6. ~EnablePlugin(d)
  BY DEF EnablePlugin, PlugRead, PlugCheck, PlugVerify, Backs, Replaces, Restores, On
<1>7. ~EnableAlias(d)
  BY DEF EnableAlias, AliasRead, AliasVerify, Backs, Replaces, Restores, On
<1>8. ~Configure(d)
  BY DEF Configure, CfgRead, CfgVerify, Backs, Replaces, Restores, On
<1>. QED BY <1>2, <1>3, <1>4, <1>5, <1>6, <1>7, <1>8 DEF CommandStep

LEMMA DownRests ==
    ASSUME NEW g \in Gateways, life[g] = "down", job[g] = Idle, g \notin todo
    PROVE  ~GatewayRuns(g)
<1>1. ~SecureWrite(g)
  BY DEF SecureWrite, Unlink, Create, Write, At, Idle
<1>2. ~(Start(g) \/ ReadToken(g) \/ TokenMinted(g) \/ ReadAdmin(g) \/ AdminMinted(g) \/ Crash(g))
  BY DEF Start, ReadToken, TokenMinted, ReadAdmin, AdminMinted, Crash
<1>3. ~(LookUp(g) \/ Claim(g) \/ ReadSalt(g) \/ SaltWritten(g) \/ SaltFailed(g) \/ Undo(g))
  BY SecretsAssumption DEF LookUp, Claim, ReadSalt, SaltWritten, SaltFailed, Undo, At, Idle
<1>. QED BY <1>1, <1>2, <1>3 DEF GatewayRuns, GatewayStep

\* Then the steps are c's, and it stays alone.
LEMMA NobodyElse ==
    ASSUME SetupTypeOK, NEW c \in Commands, Alone(c), [Next]_vars
    PROVE  Acts(c) \/ UNCHANGED vars
<1>0. "user" \notin todo /\ c \notin Gateways
  BY SecretsAssumption DEF Alone, Procs
<1>1. ASSUME NEW d \in Commands, CommandStep(d) \/ Begin(d) \/ CommandCrash(d), Touches(d)
      PROVE  Acts(c)
  <2>1. d = c
    BY <1>1, OffRests DEF Alone
  <2>. QED BY <1>1, <2>1 DEF Touches, Acts
<1>2. ASSUME NEW g \in Gateways PROVE ~GatewayRuns(g)
  BY <1>0, DownRests DEF Alone
<1>3. ~UserEdit
  BY <1>0 DEF UserEdit
<1>. QED BY <1>1, <1>2, <1>3 DEF Next, CommandNext

LEMMA StaysAlone ==
    ASSUME SecretsTypeOK, CommandsTypeOK, NEW c \in Commands, Alone(c), Acts(c)
    PROVE  Alone(c)'
<1>1. /\ UNCHANGED life /\ todo' \subseteq todo
      /\ \A p \in Procs: p # c => job'[p] = job[p]
  BY CommandFrame DEF Acts
<1>2. \A d \in Commands \ {c}: pc'[d] = pc[d] /\ job'[d] = job[d]
  BY <1>1, CommandLocals DEF Acts, Procs
<1>3. \A g \in Gateways: job'[g] = job[g]
  BY <1>1, SecretsAssumption DEF Procs
<1>. QED BY <1>1, <1>2, <1>3 DEF Alone, Acts

\* Each snapshot is kept, or is taken of what is there.
LEMMA OwnTakes ==
    ASSUME CommandsTypeOK, NEW c \in Commands, Rested(c), Acts(c), Op(c) = "setup",
           pc'[c] \notin Ended
    PROVE  /\ pc[c] \notin Ended
           /\ \A n \in TakenAt(pc'[c]):
                 \/ n \in TakenAt(pc[c]) /\ snap'[c][n] = snap[c][n]
                 \/ pc[c] \in Early /\ snap'[c][n] = Content(Managed[n])
<1>0. /\ 1..2 \subseteq 1..8 /\ {1} \subseteq 1..8 /\ {2} \subseteq 1..8
      /\ \A n \in 1..8: n \in 3..8 \/ n \in 1..2
      /\ \A n \in 1..2: n \in {2} \/ n \in {1}
  OBVIOUS
<1>1. CASE pc'[c] \notin Early
  <2>1. CASE pc[c] = "snap_home"
    BY <1>0, <1>1, <2>1, OwnSnapshots DEF TakenAt, Early, Ended
  <2>2. CASE pc[c] \notin Early \cup Ended /\ UNCHANGED snap
    BY <1>1, <2>2 DEF TakenAt, Early
  <2>. QED BY <1>1, <2>1, <2>2, OwnSnapshots
<1>2. CASE pc'[c] \in Early
  <2>1. pc[c] \in Early /\ pc[c] \notin Ended /\ (Begin(c) \/ Resolve(c) \/ Snapshot(c))
    BY <1>2, EarlyOnly DEF Early, Ended
  <2>2. CASE Begin(c) \/ Resolve(c)
    <3>1. \E step \in {"resolve", "refused", "snap_token"}: To(c, step)
      BY <2>2 DEF Begin, Resolve
    <3>. QED BY <2>1, <3>1, AtStep DEF TakenAt, Ended
  <2>3. CASE Snapshot(c)
    <3>1. ASSUME NEW from, NEW which, NEW to, Snaps(c, from, which, to), pc'[c] # "refused"
          PROVE  /\ pc[c] = from /\ pc'[c] = to
                 /\ \A n \in 1..8: snap'[c][n] = IF n \in which THEN Content(Managed[n])
                                                 ELSE snap[c][n]
      <4>1. To(c, to) /\ snap' = [snap EXCEPT ![c] = [n \in DOMAIN Managed |->
                        IF n \in which THEN Content(Managed[n]) ELSE @[n]]]
        BY <3>1, AtStep DEF Snaps
      <4>2. pc[c] = from
        BY <3>1 DEF Snaps, On
      <4>. QED BY <4>1, <4>2, AtStep, TableOfFiles DEF CommandsTypeOK
    <3>2. Snaps(c, "snap_token", {1}, "snap_admin") \/ Snaps(c, "snap_admin", {2}, "snap_home")
          \/ pc'[c] \notin Early
      BY <2>3, <3>1 DEF Snapshot, Early, Ended
    <3>3. pc'[c] # "refused"
      BY DEF Ended
    <3>4. CASE Snaps(c, "snap_token", {1}, "snap_admin")
      BY <1>0, <2>1, <3>1, <3>3, <3>4 DEF TakenAt
    <3>5. CASE Snaps(c, "snap_admin", {2}, "snap_home")
      BY <1>0, <2>1, <3>1, <3>3, <3>5 DEF TakenAt
    <3>. QED BY <1>2, <3>2, <3>4, <3>5
  <2>. QED BY <2>1, <2>2, <2>3
<1>. QED BY <1>1, <1>2

LEMMA SetsForm ==
    ASSUME home = [f \in Homes |-> home[f]], NEW f \in Homes, NEW content, Sets(f, content)
    PROVE  /\ home' = [h \in Homes |-> home'[h]]
           /\ \A h \in Homes: h # f => home'[h] = home[h]
<1>1. DOMAIN home = Homes
  OBVIOUS
<1>2. home' = [h \in Homes |-> IF h = f THEN content ELSE home[h]]
  BY <1>1 DEF Sets
<1>. QED BY <1>2

LEMMA StillTraces ==
    ASSUME SetupTypeOK, SaltJobs, NEW c \in Commands, Rested(c), Kept(c), Traces(c), Acts(c),
           UNCHANGED cast
    PROVE  Traces(c)'
<1>0. CommandsTypeOK /\ SecretsTypeOK /\ "confbak" \in Homes /\ Op(c)' = Op(c)
  BY DEF SetupTypeOK, CommandsTypeOK, Homes, Op
<1>1. /\ home' = [f \in Homes |-> home'[f]]
      /\ Op(c) = "setup" => home'["confbak"] = cast.home["confbak"]
  <2>1. CASE UNCHANGED home
    BY <2>1 DEF Traces
  <2>2. ASSUME NEW f \in Homes, NEW content, Sets(f, content), f = "confbak" => pc[c] \in Configures
        PROVE  /\ home' = [h \in Homes |-> home'[h]]
               /\ Op(c) = "setup" => home'["confbak"] = cast.home["confbak"]
    <3>1. /\ home' = [h \in Homes |-> home'[h]]
          /\ \A h \in Homes: h # f => home'[h] = home[h]
      BY <2>2, SetsForm DEF Traces
    <3>. QED BY <1>0, <2>2, <3>1 DEF Traces, Kept
  <2>. QED BY <1>0, <2>1, <2>2, OwnWrites
<1>2. secret'["salt"] = cast.secret["salt"]
  BY <1>0, CommandQuiet DEF Acts, Quiet, Traces
<1>3. pc'[c] \in Early => home' = cast.home /\ secret' = cast.secret
  BY <1>0, EarlyOnly DEF Traces
<1>4. ASSUME Op(c) = "setup", pc'[c] \notin Ended, NEW n \in TakenAt(pc'[c])
      PROVE  snap'[c][n] = Origin(Managed[n])
  <2>1. CASE n \in TakenAt(pc[c]) /\ snap'[c][n] = snap[c][n]
    BY <1>0, <1>4, <2>1, OwnTakes DEF Traces
  <2>2. CASE pc[c] \in Early /\ snap'[c][n] = Content(Managed[n])
    BY <2>2 DEF Traces, Content, Origin
  <2>. QED BY <1>0, <1>4, <2>1, <2>2, OwnTakes
<1>5. \A f: Origin(f)' = Origin(f)
  BY DEF Origin
<1>. QED BY <1>0, <1>1, <1>2, <1>3, <1>4, <1>5 DEF Traces

\* With all its snapshots put back, nothing is left of a setup that was alone.
LEMMA NoTrace ==
    ASSUME SetupTypeOK, SetupTypeOK', NEW c \in Commands, Rested(c), Undone(c), Alone(c),
           Traces(c), Traces(c)', Op(c) = "setup", UNCHANGED cast, Acts(c),
           pc[c] = "roll", pc'[c] = "restored"
    PROVE  home' = cast.home /\ secret' = cast.secret
<1>0. CommandsTypeOK /\ SecretsTypeOK
  BY DEF SetupTypeOK, CommandsTypeOK
<1>1. \A n \in 1..8: Content(Managed[n])' = Origin(Managed[n])
  <2>1. \A n \in 1..8: Content(Managed[n])' = snap[c][n]
    BY <1>0, RolledBack DEF Alone, Acts
  <2>2. \A n \in 1..8: snap[c][n] = Origin(Managed[n])
    BY DEF Traces, TakenAt, Ended
  <2>. QED BY <2>1, <2>2
<1>2. ASSUME NEW n \in 1..8 PROVE
        /\ Managed[n] \in SecretFiles => secret'[Managed[n]] = cast.secret[Managed[n]]
        /\ Managed[n] \notin SecretFiles => home'[Managed[n]] = cast.home[Managed[n]]
  BY <1>1 DEF Content, Origin
<1>3. /\ Managed[1] = "token" /\ Managed[2] = "admin" /\ Managed[3] = "shim"
      /\ Managed[4] = "init" /\ Managed[5] = "manifest" /\ Managed[6] = "config"
      /\ Managed[7] = "bak" /\ Managed[8] = "aliasbak"
  BY DEF Managed
<1>4. home' = cast.home
  <2>1. home' = [f \in Homes |-> home'[f]] /\ home'["confbak"] = cast.home["confbak"]
    BY DEF Traces, Op
  <2>2. cast.home = [f \in Homes |-> cast.home[f]]
    BY <1>0, SetupAssumption DEF SecretsTypeOK
  <2>3. /\ 3 \in 1..8 /\ 4 \in 1..8 /\ 5 \in 1..8 /\ 6 \in 1..8 /\ 7 \in 1..8 /\ 8 \in 1..8
    OBVIOUS
  <2>4. \A f \in Homes: f = "confbak" \/ \E n \in 3..8: f = Managed[n]
    BY <1>3 DEF Homes
  <2>5. \A n \in 3..8: n \in 1..8 /\ Managed[n] \notin SecretFiles
    BY TableOfFiles
  <2>6. \A f \in Homes: home'[f] = cast.home[f]
    BY <1>2, <2>1, <2>4, <2>5
  <2>. QED BY <2>1, <2>2, <2>6
<1>5. secret' = cast.secret
  <2>1. secret' \in [SecretFiles -> {None} \cup Secret] /\ cast.secret \in [SecretFiles -> {None} \cup Secret]
    BY <1>0, SecretsAssumption DEF SetupTypeOK, SecretsTypeOK
  <2>2. secret'["salt"] = cast.secret["salt"]
    BY DEF Traces
  <2>3. secret'["token"] = cast.secret["token"] /\ secret'["admin"] = cast.secret["admin"]
    <3>1. 1 \in 1..8 /\ 2 \in 1..8 /\ "token" \in SecretFiles /\ "admin" \in SecretFiles
      BY DEF SecretFiles
    <3>. QED BY <1>2, <1>3, <3>1
  <2>4. \A f \in SecretFiles: secret'[f] = cast.secret[f]
    BY <2>2, <2>3 DEF SecretFiles
  <2>. QED BY <2>1, <2>4
<1>. QED BY <1>4, <1>5

\* What the invariant of a rollback says of one command.
RollbackInv(c) ==
    /\ Rested(c) /\ Rolls(c) /\ Undone(c) /\ Kept(c)
    /\ Op(c) # "setup" => pc[c] \in OtherSteps
    /\ cast.procs = {c} => Alone(c) /\ Traces(c)

LEMMA RollbackStarts ==
    ASSUME SetupInit
    PROVE  \A c \in Commands: RollbackInv(c)
<1> SUFFICES ASSUME NEW c \in Commands PROVE RollbackInv(c)
  OBVIOUS
<1>1. Rested(c) /\ Rolls(c) /\ Undone(c) /\ Kept(c) /\ pc[c] \in OtherSteps
  BY DEF SetupInit, SecretsInit, Rested, At, Idle, Procs, Rolls, Undone, Kept, Configures,
         Transacts, Running, OtherSteps
<1>2. cast.procs = {c} => Alone(c)
  BY DEF SetupInit, SecretsInit, Alone, Procs
<1>3. Traces(c)
  <2>1. cast.home = [f \in Homes |-> cast.home[f]]
    BY SetupAssumption DEF SetupInit, SecretsInit
  <2>2. home = cast.home /\ secret = cast.secret /\ pc[c] = "off"
    BY DEF SetupInit, SecretsInit
  <2>. QED BY <2>1, <2>2 DEF Traces, TakenAt
<1>. QED BY <1>1, <1>2, <1>3 DEF RollbackInv

LEMMA RollbackGoesOn ==
    ASSUME SetupTypeOK, SaltJobs, \A c \in Commands: RollbackInv(c), [Next]_vars
    PROVE  \A c \in Commands: RollbackInv(c)'
<1> SUFFICES ASSUME NEW c \in Commands PROVE RollbackInv(c)'
  OBVIOUS
<1>0. /\ CommandsTypeOK /\ SecretsTypeOK /\ UNCHANGED cast /\ RollbackInv(c)
      /\ Op(c)' = Op(c) /\ (cast.procs)' = cast.procs
  BY CastStays DEF SetupTypeOK, CommandsTypeOK, Op
<1>1. Acts(c) \/ Away(c)
  BY Turns
<1>2. Rested(c)' /\ Rolls(c)' /\ Undone(c)'
  BY <1>0, <1>1, StillRested, StillRolls, StillUndone DEF RollbackInv
<1>3. Kept(c)'
  BY AllKept DEF RollbackInv
<1>4. Op(c) # "setup" => pc'[c] \in OtherSteps
  BY <1>0, <1>1, StillOther DEF RollbackInv
<1>5. ASSUME cast.procs = {c} PROVE Alone(c)' /\ Traces(c)'
  <2>1. Alone(c) /\ Traces(c) /\ Rested(c) /\ Kept(c)
    BY <1>0, <1>5 DEF RollbackInv
  <2>2. CASE Acts(c)
    BY <1>0, <2>1, <2>2, StaysAlone, StillTraces
  <2>3. CASE UNCHANGED vars
    <3>1. UNCHANGED <<todo, touched, pc, job, life, cast, home, secret, snap>>
      BY <2>3 DEF vars, secretVars, setupVars
    <3>2. Alone(c)'
      BY <2>1, <3>1 DEF Alone
    <3>3. \A f: Origin(f)' = Origin(f)
      BY <3>1 DEF Origin
    <3>4. Traces(c)'
      BY <1>0, <2>1, <3>1, <3>3 DEF Traces
    <3>. QED BY <3>2, <3>4
  <2>. QED BY <2>1, <2>2, <2>3, NobodyElse
<1>. QED BY <1>0, <1>2, <1>3, <1>4, <1>5 DEF RollbackInv

\* A setup that reports that its files were restored has restored them, but for what
\* others changed meanwhile; one that was alone has left no trace: its snapshots are
\* of what it found, nothing was written before the last of them, and the rollback
\* misses no file that setup writes.
THEOREM RollbackRestores == Spec => FailureRestores
<1> DEFINE Inv == \A c \in Commands: RollbackInv(c)
           restored == \A c \in Commands: On(c, "roll") /\ pc'[c] = "restored" =>
              /\ \A n \in DOMAIN Managed:
                    Managed[n] \notin touched'[c] => Content(Managed[n])' = snap[c][n]
              /\ cast.procs = {c} => home' = cast.home /\ secret' = cast.secret
<1>1. SetupInit => SaltJobs /\ SaltInv /\ Inv
  BY SecretsAssumption, RollbackStarts
  DEF SetupInit, SecretsInit, SaltJobs, SaltInv, Idle, SecretFiles, Procs
<1>2. SetupTypeOK /\ SaltJobs /\ SaltInv /\ [Next]_vars => SaltJobs' /\ SaltInv'
  BY SaltsGoOn
<1>3. SetupTypeOK /\ SaltJobs /\ Inv /\ [Next]_vars => Inv'
  BY RollbackGoesOn
<1>4. ASSUME SetupTypeOK, SetupTypeOK', Inv, Inv', [Next]_vars, NEW c \in Commands,
             On(c, "roll"), pc'[c] = "restored"
      PROVE  /\ \A n \in DOMAIN Managed:
                    Managed[n] \notin touched'[c] => Content(Managed[n])' = snap[c][n]
             /\ cast.procs = {c} => home' = cast.home /\ secret' = cast.secret
  <2>1. /\ SecretsTypeOK /\ CommandsTypeOK /\ pc[c] = "roll" /\ RollbackInv(c) /\ RollbackInv(c)'
        /\ UNCHANGED cast
    BY <1>4, CastStays DEF SetupTypeOK, CommandsTypeOK, On
  <2>2. Acts(c)
    BY <1>4, <2>1, Turns DEF Away
  <2>3. \A n \in DOMAIN Managed: Managed[n] \notin touched'[c] => Content(Managed[n])' = snap[c][n]
    BY <1>4, <2>1, <2>2, RolledBack, TableOfFiles DEF RollbackInv
  <2>4. Op(c) = "setup"
    BY <2>1 DEF RollbackInv, OtherSteps, Configures, Ended
  <2>5. ASSUME cast.procs = {c} PROVE home' = cast.home /\ secret' = cast.secret
    <3>1. (cast.procs)' = {c}
      BY <2>1, <2>5
    <3>2. Alone(c) /\ Traces(c) /\ Traces(c)' /\ Rested(c) /\ Undone(c)
      BY <2>1, <2>5, <3>1 DEF RollbackInv
    <3>. QED BY <1>4, <2>1, <2>2, <2>4, <3>2, NoTrace
  <2>. QED BY <2>3, <2>5
<1>5. SetupTypeOK /\ SetupTypeOK' /\ Inv /\ Inv' /\ [Next]_vars => [restored]_vars
  BY <1>4
<1>. QED BY <1>1, <1>2, <1>3, <1>5, TypeCorrect, PTL DEF Spec, FailureRestores

-----------------------------------------------------------------------------
(* What success means                                                       *)

\* The document's settings load, and make Hermes dial this port.
Chosen(doc, port) ==
    LET config == SetupConfig(doc, cast.given) IN config # None /\ config.dial = port

\* The address of a configuration without settings.
LEMMA NoBlockDials ==
    ASSUME Block([NoBlock EXCEPT !.unknown = @ \cup {}]) # None
    PROVE  Block([NoBlock EXCEPT !.unknown = @ \cup {}]).dial = Defaults.dial
<1> DEFINE block == [NoBlock EXCEPT !.unknown = @ \cup {}]
<1>1. block.gateway = None
  BY DEF NoBlock
<1>2. Given(block.gateway, NoGateway) = NoGateway
  BY <1>1 DEF Given
<1>3. PortFromUrl(Given(NoGateway.url, DefaultUrl)) = DefaultPort
  <2>1. Given(NoGateway.url, DefaultUrl) = DefaultUrl
    BY DEF Given, NoGateway
  <2>2. DefaultUrl.port = DefaultPort /\ DefaultPort \in Int
    BY DEF DefaultUrl, DefaultPort
  <2>. QED BY <2>1, <2>2, SetupAssumption DEF PortFromUrl
<1>4. Gateway(NoGateway) # None => Gateway(NoGateway).dial = DefaultPort
  BY <1>3 DEF Gateway
<1>5. Gateway(NoGateway) # None /\ Block(block).dial = Gateway(NoGateway).dial
  BY <1>2 DEF Block
<1>. QED BY <1>4, <1>5 DEF Defaults

\* With the control shim among its plugins a file that held bare settings is another
\* program's: what Hermes dials is what setup chose only if there were none.
LEMMA LoadsAfter ==
    ASSUME NEW now \in Document, NEW found \in {None, Garbage} \cup Document, NEW port,
           Same(now, found, port), Listed(now), Chosen(found, port), cast.given \in {"yes", "no"}
    PROVE  /\ Load(AsFile(now), "no") # None
           /\ \/ Load(AsFile(now), "no").dial = port
              \/ cast.given = "yes" \/ Text(found).bare # NoBlock
<1>1. found # Garbage
  <2>1. Load(Garbage, "no") = None /\ AsFile(Garbage) = Garbage
    BY SetupAssumption DEF Load, AsFile
  <2>. QED BY <2>1 DEF Chosen, SetupConfig
<1>2. now # None /\ now # Garbage /\ Text(now) = now
  BY SetupAssumption DEF Text
<1>3. now.auto = Text(found).auto /\ now.bare = Text(found).bare
  BY <1>2 DEF Same
<1>a. Text(found).auto # Garbage
  <2>1. Load(Garbage, "no") = None /\ Load(Garbage, "yes") = None /\ Garbage # None
    BY SetupAssumption DEF Load
  <2>2. CASE found = None
    BY <2>1, <2>2 DEF Text, EmptyDoc
  <2>3. ASSUME found # None, found.auto = Garbage PROVE FALSE
    <3>1. AsFile(found) = Garbage /\ found.auto # None
      BY <1>1, <2>1, <2>3 DEF AsFile
    <3>2. SetupConfig(found, cast.given) = None
      BY <1>1, <2>1, <2>3, <3>1 DEF SetupConfig
    <3>. QED BY <3>2 DEF Chosen
  <2>. QED BY <2>2, <2>3 DEF Text
<1>4. /\ AsFile(now).auto = now.auto /\ AsFile(now).bare = now.bare /\ AsFile(now).foreign # {}
      /\ AsFile(now) # None /\ AsFile(now) # Garbage
  BY <1>3, <1>a, AsFileAt DEF Listed
<1>5. CASE now.auto # None
  <2>1. Load(AsFile(now), "no") = Block(now.auto)
    BY <1>4, <1>5 DEF Load
  <2>2. found # None /\ found \in Document /\ found.auto = now.auto
    BY <1>1, <1>3, <1>5 DEF Text, EmptyDoc
  <2>3. AsFile(found).auto = now.auto /\ AsFile(found) # None /\ AsFile(found) # Garbage
    BY <1>3, <1>a, <2>2, AsFileAt
  <2>4. SetupConfig(found, cast.given) = Block(now.auto)
    BY <1>1, <1>5, <2>2, <2>3 DEF SetupConfig, Load
  <2>. QED BY <2>1, <2>4 DEF Chosen
<1>6. CASE now.auto = None
  <2>1. Load(AsFile(now), "no") = Defaults
    BY <1>4, <1>6 DEF Load
  <2>2. ASSUME cast.given # "yes", Text(found).bare = NoBlock PROVE port = Defaults.dial
    <3>1. Load(AsFile(found), "no") # None /\ Load(AsFile(found), "no").dial = port
      BY <2>2 DEF Chosen, SetupConfig
    <3>2. CASE found = None
      BY <3>1, <3>2 DEF AsFile, Load
    <3>3. CASE found # None
      <4>1. found \in Document /\ found.auto = None /\ found.bare = NoBlock
        BY <1>1, <1>3, <1>6, <2>2, <3>3 DEF Text
      <4>2. /\ AsFile(found).auto = None /\ AsFile(found).bare = NoBlock
            /\ AsFile(found) # None /\ AsFile(found) # Garbage
        BY <4>1, SetupAssumption, AsFileAt
      <4>3. CASE AsFile(found).foreign = {}
        <5>1. NoBlock.unknown \cup {} = {}
          BY DEF NoBlock
        <5>2. Load(AsFile(found), "no") = Block([NoBlock EXCEPT !.unknown = @ \cup {}])
          BY <4>2, <4>3, <5>1 DEF Load
        <5>. QED BY <3>1, <5>2, NoBlockDials
      <4>4. CASE AsFile(found).foreign # {}
        <5>1. NoBlock.unknown \cup AsFile(found).foreign # {}
          BY <4>4
        <5>2. Load(AsFile(found), "no") = Defaults
          BY <4>2, <5>1 DEF Load
        <5>. QED BY <3>1, <5>2
      <4>. QED BY <4>3, <4>4
    <3>. QED BY <3>2, <3>3
  <2>. QED BY <2>1, <2>2, SetupAssumption
<1>. QED BY <1>5, <1>6

\* A setup that mints a token and is not disturbed writes the file it created.
MintsOwn(c) ==
    pc[c] \in {"token", "admin"} /\ ~At(c, "idle") =>
      /\ job[c].file = pc[c] /\ job[c].id # 0
      /\ touched[c] = {} =>
           /\ At(c, "write") => secret[pc[c]] = Mine(c)
           /\ At(c, "written") => secret[pc[c]] = Whole(job[c].id)

LEMMA SecureWriteOwn ==
    ASSUME SecretsTypeOK, NEW c \in Procs, SecureWrite(c), NEW f \in SecretFiles, job[c].file = f
    PROVE  /\ job'[c].file = f /\ job'[c].id = job[c].id
           /\ \A g \in SecretFiles: g # f => secret'[g] = secret[g]
           /\ At(c, "write")' => secret'[f] = Mine(c)'
           /\ At(c, "written")' /\ (At(c, "write") => secret[f] = Mine(c)) =>
                secret'[f] = Whole(job'[c].id)
<1>1. PICK step \in {"create", "write", "written", "failed"}: Goes(c, step)
  BY DEF SecureWrite, Unlink, Create, Write
<1>2. job'[c].file = f /\ job'[c].id = job[c].id /\ job'[c].step = step
  BY <1>1, JobSteps
<1>3. \A g \in SecretFiles: g # f => secret'[g] = secret[g]
  BY WritesOwn
<1>4. Mine(c)' = Mine(c)
  BY <1>2 DEF Mine
<1>5. Unlink(c) => job'[c].step \in {"create", "failed"}
  BY JobSteps DEF Unlink
<1>6. Create(c) => job'[c].step = "failed" \/ (job'[c].step = "write" /\ secret'[f] = Mine(c))
  BY JobSteps DEF Create, Puts, Mine, SecretsTypeOK
<1>7. ASSUME Write(c), secret[f] = Mine(c)
      PROVE  job'[c].step = "failed" \/ secret'[f] = Whole(job[c].id)
  BY <1>7, JobSteps DEF Write, Puts, Mine, Whole, SecretsTypeOK
<1>8. Write(c) => At(c, "write") /\ job'[c].step \in {"written", "failed"}
  BY JobSteps DEF Write
<1>. QED BY <1>2, <1>3, <1>4, <1>5, <1>6, <1>7, <1>8 DEF SecureWrite, At

LEMMA StillMintsOwn ==
    ASSUME SecretsTypeOK, CommandsTypeOK, NEW c \in Commands, Rested(c), MintsOwn(c),
           Acts(c) \/ Away(c)
    PROVE  MintsOwn(c)'
<1>0. c \in Procs /\ {"token", "admin"} \subseteq SecretFiles
  BY DEF Procs, SecretFiles
<1>1. CASE Away(c)
  <2>1. /\ pc'[c] = pc[c] /\ job'[c] = job[c] /\ Mine(c)' = Mine(c)
        /\ touched'[c] = {} => touched[c] = {}
    BY <1>1 DEF Away, Mine
  <2>2. ASSUME pc[c] \in {"token", "admin"}, touched'[c] = {} PROVE secret'[pc[c]] = secret[pc[c]]
    <3>1. Running(c) /\ pc[c] \in SecretFiles
      BY <1>0, <2>2 DEF Running, Ended
    <3>. QED BY <1>1, <2>2, <3>1 DEF Away, Content
  <2>. QED BY <2>1, <2>2 DEF MintsOwn, At
<1>2. CASE At(c, "idle")'
  BY <1>2 DEF MintsOwn
<1>3. CASE Acts(c) /\ UNCHANGED job /\ pc[c] \notin Mints
  BY <1>2, <1>3 DEF Rested, At
<1>4. CASE CommandCrash(c) \/ Done(c)
  BY <1>0, <1>2, <1>4, JobSteps DEF CommandCrash, Idle, At
<1>5. CASE Acts(c) /\ Tokens(c)
  <2>0. touched'[c] = touched[c]
    BY <1>5 DEF Acts
  <2>1. CASE SecureWrite(c) /\ UNCHANGED pc
    <3>1. ~At(c, "idle")
      BY <2>1 DEF SecureWrite, Unlink, Create, Write, At
    <3>2. ASSUME pc[c] \in {"token", "admin"} PROVE MintsOwn(c)'
      BY <1>0, <2>0, <2>1, <3>1, <3>2, SecureWriteOwn DEF MintsOwn
    <3>. QED BY <2>1, <3>2 DEF MintsOwn
  <2>2. ASSUME NEW f \in {"token", "admin"}, Draw(c, f, "unlink"),
               UNCHANGED pc, pc[c] \in {"token", "admin"} => pc[c] = f
        PROVE  MintsOwn(c)'
    <3>1. job'[c] = [file |-> f, step |-> "unlink", id |-> mints + 1] /\ mints \in Nat
      BY <1>0, <2>2, JobSteps DEF SecretsTypeOK
    <3>. QED BY <2>2, <3>1 DEF MintsOwn, At
  <2>3. Token(c) => At(c, "idle") /\ (UNCHANGED job \/ (Draw(c, "token", "unlink") /\ UNCHANGED pc))
                    /\ pc[c] = "token"
    BY DEF Token, On
  <2>4. \A from, next: EnsureAdmin(c, from, next) =>
           At(c, "idle") /\ (UNCHANGED job \/ (Draw(c, "admin", "unlink") /\ UNCHANGED pc))
           /\ pc[c] = from
    BY DEF EnsureAdmin, On
  <2>5. \A from, next, skip: Minted(c, from, next, skip) => Done(c)
    BY DEF Minted
  <2>6. \A from, f, next: Permissions(c, from, f, next) => UNCHANGED job /\ pc[c] = from
    BY DEF Permissions, NoSecrets, On
  <2>7. Doctor(c) => UNCHANGED job /\ pc[c] = "doctor"
    BY DEF Doctor, NoSecrets, On
  <2>8. CASE UNCHANGED job /\ At(c, "idle")
    BY <1>2, <2>8 DEF At
  <2>9. CASE UNCHANGED job /\ pc[c] \in {"token_perms", "admin_perms", "doctor"}
    BY <2>8, <2>9 DEF Rested, Mints
  <2>10. CASE Token(c)
    BY <2>2, <2>3, <2>8, <2>10
  <2>11. CASE EnsureAdmin(c, "admin", "admin_perms") \/ EnsureAdmin(c, "doctor_mint", "done")
    BY <2>2, <2>4, <2>8, <2>11
  <2>. QED
    BY <1>4, <1>5, <2>1, <2>5, <2>6, <2>7, <2>9, <2>10, <2>11 DEF Tokens
<1>. QED BY <1>1, <1>3, <1>4, <1>5, OutsideTokens

\* The steps of a setup by which a file is in place, if nothing failed.
PastManifest == {"plug", "plug_check", "plug_backup", "plug_write", "plug_verify", "plug_restore",
                 "alias", "alias_backup", "alias_write", "alias_verify", "alias_restore", "finish"}

PastInit == {"manifest"} \cup PastManifest

PastShim == {"control", "init"} \cup PastInit

PastAdmin == {"admin_perms", "shim", "shim_write"} \cup PastShim

PastToken == {"token_perms", "admin"} \cup PastAdmin

Undoing == {"undo_init", "undo_manifest"}

Tokened(c) ==
    /\ pc[c] \in PastToken => Present("token")
    /\ pc[c] \in PastAdmin => Present("admin")

Shimmed(c) ==
    /\ pc[c] \in PastShim => home["shim"] = Shim("new", url[c])
    /\ pc[c] \in PastInit => home["init"] = Control("new")
    /\ pc[c] \in PastManifest => home["manifest"] = Control("new")
    /\ pc[c] \notin Undoing

Edited(c) ==
    /\ pc[c] \in {"plug_backup", "plug_write", "plug_verify"} => PlanEdit(Text(read[c])) # None
    /\ pc[c] = "alias" => EnabledNow
    /\ pc[c] \in {"alias_backup", "alias_write", "alias_verify"} => Listed(Text(read[c]))
    /\ pc[c] = "finish" => EnabledNow /\ home["config"].alias = url[c]

\* What is in place as long as nothing failed and nobody else wrote.
Installed(c) == failed[c] = "no" /\ touched[c] = {} => Tokened(c) /\ Shimmed(c) /\ Edited(c)

LEMMA FailsToAt ==
    ASSUME CommandsTypeOK, NEW c \in Commands, NEW step, FailsTo(c, step)
    PROVE  failed'[c] = "yes" /\ pc'[c] = step
BY AtStep DEF FailsTo, CommandsTypeOK

\* A setup that fails no more has not failed before.
LEMMA NoFailure ==
    ASSUME CommandsTypeOK, NEW c \in Commands, Acts(c), failed'[c] = "no"
    PROVE  failed[c] = "no"
<1>0. \A step: ~FailsTo(c, step)
  BY FailsToAt
<1>1. Begin(c) \/ CommandCrash(c) \/ Resolve(c) \/ Snapshot(c) \/ Finish(c) => UNCHANGED failed
  BY DEF Begin, CommandCrash, Resolve, Snapshot, Snaps, Finish
<1>2. Tokens(c) => UNCHANGED failed
  BY <1>0 DEF Tokens, SecureWrite, Token, EnsureAdmin, Doctor, Minted, Permissions
<1>3. Shims(c) => UNCHANGED failed
  BY <1>0 DEF Shims, InstallCheck, InstallWrite, ControlCheck, ControlWrite, Replaces, Undoes
<1>4. EnablePlugin(c) => UNCHANGED failed
  BY <1>0 DEF EnablePlugin, PlugRead, PlugCheck, PlugVerify, Backs, Replaces, Restores
<1>5. EnableAlias(c) => UNCHANGED failed
  BY <1>0 DEF EnableAlias, AliasRead, AliasVerify, Backs, Replaces, Restores
<1>6. Configure(c) => UNCHANGED failed
  BY <1>0 DEF Configure, CfgRead, CfgVerify, Backs, Replaces, Restores
<1>7. Rollback(c) => failed'[c] \in {failed[c], "for good"}
  BY DEF Rollback, CommandsTypeOK
<1>. QED BY <1>1, <1>2, <1>3, <1>4, <1>5, <1>6, <1>7 DEF Acts, CommandStep

\* A minted secret is one.
LEMMA MintedPresent ==
    ASSUME SecretsTypeOK, NEW c \in Procs, NEW f \in SecretFiles, secret[f] = Whole(job[c].id),
           job[c].id # 0
    PROVE  Present(f)
<1>1. Whole(job[c].id) # None /\ job[c].id # None
  <2>1. job[c].id \in 0..MaxMints /\ job[c].id \in Nat
    <3>1. job[c] \in Jobs
      BY DEF SecretsTypeOK
    <3>2. job[c].id \in 0..MaxMints
      BY <3>1 DEF Jobs
    <3>. QED BY <3>2, SecretsAssumption
  <2>2. Whole(job[c].id) \in Secret
    BY <2>1 DEF Whole, Secret
  <2>. QED BY <2>1, <2>2, SecretsAssumption
<1>2. Holds(f) = job[c].id
  BY <1>1 DEF Holds, Whole
<1>. QED BY <1>1, <1>2 DEF Present

LEMMA TokensInstall ==
    ASSUME SecretsTypeOK, CommandsTypeOK, NEW c \in Commands, Rested(c), MintsOwn(c),
           failed[c] = "no", touched[c] = {}, failed'[c] = "no",
           Tokened(c), Shimmed(c), Edited(c), Tokens(c)
    PROVE  Tokened(c)' /\ Shimmed(c)' /\ Edited(c)'
<1>0. /\ c \in Procs /\ "token" \in SecretFiles /\ "admin" \in SecretFiles
      /\ \A step: ~FailsTo(c, step)
  BY FailsToAt DEF Procs, SecretFiles
<1>1. UNCHANGED <<home, url, read>>
  BY DEF Tokens, SecureWrite, Token, EnsureAdmin, Doctor, Minted, Permissions, NoSecrets, Frame, Keeps
<1>2. ASSUME pc'[c] = pc[c] \/ pc'[c] \in {"token_perms", "admin", "admin_perms", "shim", "doctor_mint", "done"},
             Tokened(c)'
      PROVE  Tokened(c)' /\ Shimmed(c)' /\ Edited(c)'
  <2>1. CASE pc'[c] = pc[c]
    BY <1>1, <1>2, <2>1 DEF Shimmed, Edited, EnabledNow
  <2>2. CASE pc'[c] \in {"token_perms", "admin", "admin_perms", "shim", "doctor_mint", "done"}
    BY <1>2, <2>2 DEF Shimmed, Edited, PastShim, PastInit, PastManifest, Undoing
  <2>. QED BY <1>2, <2>1, <2>2
<1>3. UNCHANGED secret => \A f: Present(f)' = Present(f)
  BY DEF Present, Holds
<1>4. CASE SecureWrite(c) /\ UNCHANGED pc
  <2>1. pc[c] \in Mints /\ ~At(c, "idle")
    BY <1>4 DEF SecureWrite, Unlink, Create, Write, At, Rested
  <2>2. ASSUME pc[c] = "admin" PROVE Present("token")'
    <3>1. job[c].file # "token"
      BY <2>1, <2>2 DEF MintsOwn
    <3>2. secret'["token"] = secret["token"]
      BY <1>0, <1>4, <3>1, WritesOwn
    <3>3. Present("token")
      BY <2>2 DEF Tokened, PastToken
    <3>. QED BY <3>2, <3>3 DEF Present, Holds
  <2>3. Tokened(c)'
    BY <1>4, <2>1, <2>2 DEF Tokened, Mints, PastToken, PastAdmin, PastShim, PastInit, PastManifest
  <2>. QED BY <1>2, <1>4, <2>3
<1>5. CASE Token(c)
  <2>1. UNCHANGED secret /\ pc[c] = "token"
        /\ (UNCHANGED pc \/ (Present("token") /\ To(c, "token_perms")))
    BY <1>0, <1>5 DEF Token, On
  <2>2. pc'[c] = "token" \/ (Present("token") /\ pc'[c] = "token_perms")
    BY <2>1, AtStep
  <2>3. Tokened(c)'
    BY <1>3, <2>1, <2>2 DEF Tokened, PastToken, PastAdmin, PastShim, PastInit, PastManifest
  <2>. QED BY <1>2, <2>2, <2>1, <2>3
<1>6. ASSUME NEW f \in {"token", "admin"}, NEW to, NEW skip, Minted(c, f, to, skip)
      PROVE  UNCHANGED secret /\ pc[c] = f /\ pc'[c] = to /\ Present(f)
  <2>1. UNCHANGED secret /\ pc[c] = f /\ To(c, to) /\ At(c, "written")
    BY <1>0, <1>6 DEF Minted, On
  <2>2. secret[f] = Whole(job[c].id) /\ job[c].id # 0
    BY <2>1 DEF MintsOwn, At
  <2>. QED BY <1>0, <2>1, <2>2, AtStep, MintedPresent
<1>7. CASE Minted(c, "token", "token_perms", "admin")
  <2>1. UNCHANGED secret /\ pc'[c] = "token_perms" /\ Present("token")
    BY <1>6, <1>7
  <2>2. Tokened(c)'
    BY <1>3, <2>1 DEF Tokened, PastAdmin, PastShim, PastInit, PastManifest
  <2>. QED BY <1>2, <2>1, <2>2
<1>8. CASE Minted(c, "admin", "admin_perms", "shim")
  <2>1. UNCHANGED secret /\ pc[c] = "admin" /\ pc'[c] = "admin_perms" /\ Present("admin")
    BY <1>6, <1>8
  <2>2. Tokened(c)'
    BY <1>3, <2>1 DEF Tokened, PastToken
  <2>. QED BY <1>2, <2>1, <2>2
<1>9. CASE Permissions(c, "token_perms", "token", "admin") \/ Permissions(c, "admin_perms", "admin", "shim")
  <2>1. UNCHANGED secret
    BY <1>9 DEF Permissions, NoSecrets
  <2>2. (pc[c] = "token_perms" /\ To(c, "admin")) \/ (pc[c] = "admin_perms" /\ To(c, "shim"))
    BY <1>0, <1>9 DEF Permissions, On
  <2>3. (pc[c] = "token_perms" /\ pc'[c] = "admin") \/ (pc[c] = "admin_perms" /\ pc'[c] = "shim")
    BY <2>2, AtStep
  <2>4. Tokened(c)'
    BY <1>3, <2>1, <2>3 DEF Tokened, PastToken, PastAdmin, PastShim, PastInit, PastManifest
  <2>. QED BY <1>2, <2>3, <2>4
<1>10. CASE EnsureAdmin(c, "admin", "admin_perms")
  <2>1. UNCHANGED secret /\ pc[c] = "admin" /\ (UNCHANGED pc \/ (Present("admin") /\ To(c, "admin_perms")))
    BY <1>10 DEF EnsureAdmin, On
  <2>2. pc'[c] = "admin" \/ (Present("admin") /\ pc'[c] = "admin_perms")
    BY <2>1, AtStep
  <2>3. Tokened(c)'
    BY <1>3, <2>1, <2>2 DEF Tokened, PastToken, PastAdmin, PastShim, PastInit, PastManifest
  <2>. QED BY <1>2, <2>1, <2>2, <2>3
<1>11. CASE Doctor(c) \/ EnsureAdmin(c, "doctor_mint", "done") \/ Minted(c, "doctor_mint", "done", "done")
  <2>1. \/ pc[c] = "doctor_mint" /\ UNCHANGED pc
        \/ \E step \in {"doctor_mint", "done"}: To(c, step)
    BY <1>0, <1>11 DEF Doctor, EnsureAdmin, Minted, On
  <2>2. pc'[c] \in {"doctor_mint", "done"}
    BY <2>1, AtStep
  <2>3. Tokened(c)'
    BY <2>2 DEF Tokened, PastToken, PastAdmin, PastShim, PastInit, PastManifest
  <2>. QED BY <1>2, <2>2, <2>3
<1>. QED BY <1>4, <1>5, <1>7, <1>8, <1>9, <1>10, <1>11 DEF Tokens

LEMMA ShimsInstall ==
    ASSUME CommandsTypeOK, NEW c \in Commands, failed[c] = "no", failed'[c] = "no",
           Tokened(c), Shimmed(c), Edited(c), Shims(c)
    PROVE  Tokened(c)' /\ Shimmed(c)' /\ Edited(c)'
<1>0. /\ \A step: ~FailsTo(c, step)
      /\ {"shim", "init", "manifest"} \subseteq Homes
  BY FailsToAt DEF Homes
<1>1. UNCHANGED <<secret, url>>
  BY DEF Shims, InstallCheck, InstallWrite, ControlCheck, ControlWrite, Replaces, Undoes, NoSecrets, Keeps
<1>2. \A f: Present(f)' = Present(f)
  BY <1>1 DEF Present, Holds
<1>3. \/ pc[c] = "shim" /\ To(c, "shim_write") /\ UNCHANGED home
      \/ pc[c] = "shim_write" /\ To(c, "control") /\ Sets("shim", Shim("new", url[c]))
      \/ pc[c] = "control" /\ To(c, "init") /\ UNCHANGED home
      \/ pc[c] = "init" /\ To(c, "manifest") /\ Sets("init", Control("new"))
      \/ pc[c] = "manifest" /\ To(c, "plug") /\ Sets("manifest", Control("new"))
  BY <1>0 DEF Shims, InstallCheck, InstallWrite, ControlCheck, ControlWrite, Replaces, Undoes, On,
              Shimmed, Undoing
<1>4. \/ pc[c] = "shim" /\ pc'[c] = "shim_write" /\ UNCHANGED home
      \/ pc[c] = "shim_write" /\ pc'[c] = "control" /\ home'["shim"] = Shim("new", url[c])
      \/ pc[c] = "control" /\ pc'[c] = "init" /\ UNCHANGED home
      \/ pc[c] = "init" /\ pc'[c] = "manifest" /\ home'["init"] = Control("new")
         /\ home'["shim"] = home["shim"]
      \/ pc[c] = "manifest" /\ pc'[c] = "plug" /\ home'["manifest"] = Control("new")
         /\ home'["shim"] = home["shim"] /\ home'["init"] = home["init"]
  BY <1>0, <1>3, AtStep, SetsAt
<1>5. Tokened(c)'
  BY <1>2, <1>4 DEF Tokened, PastToken, PastAdmin, PastShim, PastInit, PastManifest
<1>6. Shimmed(c)'
  BY <1>1, <1>4 DEF Shimmed, PastShim, PastInit, PastManifest, Undoing
<1>7. Edited(c)'
  BY <1>4 DEF Edited
<1>. QED BY <1>5, <1>6, <1>7

LEMMA PluginInstalls ==
    ASSUME CommandsTypeOK, NEW c \in Commands, failed[c] = "no", failed'[c] = "no",
           Tokened(c), Shimmed(c), Edited(c), EnablePlugin(c)
    PROVE  Tokened(c)' /\ Shimmed(c)' /\ Edited(c)'
<1>0. /\ \A step: ~FailsTo(c, step)
      /\ {"shim", "init", "manifest", "config", "bak"} \subseteq Homes
  BY FailsToAt DEF Homes
<1>1. UNCHANGED <<secret, url>>
  BY DEF EnablePlugin, PlugRead, PlugCheck, PlugVerify, Backs, Replaces, Restores, NoSecrets, Keeps
<1>2. \A f: Present(f)' = Present(f)
  BY <1>1 DEF Present, Holds
<1>3. \/ UNCHANGED home
      \/ \E f \in {"config", "bak"}: \E content: Sets(f, content)
  BY DEF EnablePlugin, PlugRead, PlugCheck, PlugVerify, Backs, Torn, Replaces, Restores
<1>4. \A f \in {"shim", "init", "manifest"}: home'[f] = home[f]
  BY <1>0, <1>3, SetsAt
<1>5. /\ pc[c] \in PastManifest /\ \E step \in PastManifest: To(c, step)
  BY DEF EnablePlugin, PlugRead, PlugCheck, PlugVerify, Backs, Replaces, Restores, On, FailsTo,
         PastManifest
<1>6. pc'[c] \in PastManifest
  BY <1>5, AtStep
<1>7. Tokened(c)' /\ Shimmed(c)'
  BY <1>1, <1>2, <1>4, <1>5, <1>6
  DEF Tokened, Shimmed, PastToken, PastAdmin, PastShim, PastInit, PastManifest, Undoing
<1>8. \/ To(c, "plug_check") \/ To(c, "plug_restore")
      \/ To(c, "alias") /\ UNCHANGED home /\ EnabledNow
      \/ To(c, "plug_backup") /\ UNCHANGED read /\ PlanEdit(Text(read[c])) # None
      \/ pc[c] = "plug_backup" /\ To(c, "plug_write") /\ UNCHANGED read
      \/ pc[c] = "plug_write" /\ To(c, "plug_verify") /\ UNCHANGED read
  BY <1>0 DEF EnablePlugin, PlugRead, PlugCheck, PlugVerify, PlugVerified, Backs, Replaces,
              Restores, On
<1>10. Edited(c)'
  <2>1. CASE pc'[c] \in {"plug_check", "plug_restore"}
    BY <2>1 DEF Edited
  <2>2. CASE pc'[c] = "alias" /\ UNCHANGED home /\ EnabledNow
    BY <2>2 DEF Edited, EnabledNow
  <2>3. CASE pc'[c] \in {"plug_backup", "plug_write", "plug_verify"} /\ UNCHANGED read
             /\ PlanEdit(Text(read[c])) # None
    BY <2>3 DEF Edited
  <2>. QED BY <1>8, <2>1, <2>2, <2>3, AtStep DEF Edited
<1>. QED BY <1>7, <1>10

LEMMA AliasInstalls ==
    ASSUME CommandsTypeOK, NEW c \in Commands, failed[c] = "no", failed'[c] = "no",
           Tokened(c), Shimmed(c), Edited(c), EnableAlias(c)
    PROVE  Tokened(c)' /\ Shimmed(c)' /\ Edited(c)'
<1>0. /\ \A step: ~FailsTo(c, step)
      /\ {"shim", "init", "manifest", "config", "aliasbak"} \subseteq Homes
  BY FailsToAt DEF Homes
<1>1. UNCHANGED <<secret, url>>
  BY DEF EnableAlias, AliasRead, AliasVerify, Backs, Replaces, Restores, NoSecrets, Keeps
<1>2. \A f: Present(f)' = Present(f)
  BY <1>1 DEF Present, Holds
<1>3. \/ UNCHANGED home
      \/ \E f \in {"config", "aliasbak"}: \E content: Sets(f, content)
  BY DEF EnableAlias, AliasRead, AliasVerify, Backs, Torn, Replaces, Restores
<1>4. \A f \in {"shim", "init", "manifest"}: home'[f] = home[f]
  BY <1>0, <1>3, SetsAt
<1>5. /\ pc[c] \in PastManifest /\ \E step \in PastManifest: To(c, step)
  BY DEF EnableAlias, AliasRead, AliasVerify, Backs, Replaces, Restores, On, FailsTo, PastManifest
<1>6. pc'[c] \in PastManifest
  BY <1>5, AtStep
<1>7. Tokened(c)' /\ Shimmed(c)'
  BY <1>1, <1>2, <1>4, <1>5, <1>6
  DEF Tokened, Shimmed, PastToken, PastAdmin, PastShim, PastInit, PastManifest, Undoing
<1>8. \/ To(c, "alias_restore")
      \/ /\ pc[c] = "alias" /\ To(c, "finish") /\ UNCHANGED home
         /\ Text(home["config"]).alias = url[c]
      \/ /\ pc[c] = "alias" /\ To(c, "alias_backup") /\ Reads(c)
      \/ pc[c] = "alias_backup" /\ To(c, "alias_write") /\ UNCHANGED read
      \/ pc[c] = "alias_write" /\ To(c, "alias_verify") /\ UNCHANGED read
      \/ /\ pc[c] = "alias_verify" /\ To(c, "finish") /\ UNCHANGED home
         /\ ParsesTo(Aliased(c))
  BY <1>0 DEF EnableAlias, AliasRead, AliasVerify, Backs, Replaces, Restores, On
<1>9. CASE pc'[c] = "alias_restore"
  BY <1>7, <1>9 DEF Edited
<1>10. CASE /\ pc[c] = "alias" /\ pc'[c] = "finish" /\ UNCHANGED home
            /\ Text(home["config"]).alias = url[c]
  <2>1. EnabledNow /\ Text(home["config"]) = home["config"]
    BY <1>10 DEF Edited, EnabledNow, Text
  <2>. QED BY <1>1, <1>7, <1>10, <2>1 DEF Edited, EnabledNow
<1>11. CASE pc[c] = "alias" /\ pc'[c] = "alias_backup" /\ Reads(c)
  <2>1. EnabledNow /\ Text(home["config"]) = home["config"] /\ read'[c] = home["config"]
    BY <1>11 DEF Edited, EnabledNow, Text, Reads, CommandsTypeOK
  <2>2. Text(read'[c]) = home["config"]
    BY <2>1
  <2>. QED BY <1>7, <1>11, <2>1, <2>2 DEF Edited, EnabledNow
<1>12. CASE pc[c] \in {"alias_backup", "alias_write"} /\ pc'[c] \in {"alias_write", "alias_verify"}
            /\ UNCHANGED read
  BY <1>7, <1>12 DEF Edited
<1>13. CASE /\ pc[c] = "alias_verify" /\ pc'[c] = "finish" /\ UNCHANGED home
            /\ ParsesTo(Aliased(c))
  <2>1. Text(read[c]) \in Document /\ Listed(Text(read[c]))
    BY <1>13, TextType DEF CommandsTypeOK, Edited
  <2>2. url[c] \in Int
    BY DEF CommandsTypeOK
  <2>3. Aliased(c) \in Document /\ Aliased(c).alias = url[c] /\ Listed(Aliased(c))
    BY <2>1, <2>2 DEF Aliased, Document, Listed
  <2>4. EnabledNow /\ home["config"].alias = url[c]
    <3>1. home["config"] \in Document /\ Parsed(home["config"]) = Parsed(Aliased(c))
      BY <1>13, HomeType DEF ParsesTo
    <3>2. /\ Parsed(home["config"]).plugins = home["config"].plugins
          /\ Parsed(home["config"]).alias = home["config"].alias
          /\ Parsed(Aliased(c)).plugins = Aliased(c).plugins
          /\ Parsed(Aliased(c)).alias = Aliased(c).alias
      BY <2>3, <3>1 DEF Parsed, Document
    <3>. QED BY <1>13, <2>3, <3>1, <3>2 DEF EnabledNow, Listed, ParsesTo
  <2>. QED BY <1>1, <1>7, <1>13, <2>4 DEF Edited, EnabledNow
<1>. QED BY <1>8, <1>9, <1>10, <1>11, <1>12, <1>13, AtStep

LEMMA OwnInstalled ==
    ASSUME SecretsTypeOK, CommandsTypeOK, NEW c \in Commands, Rested(c), MintsOwn(c), Installed(c),
           Acts(c), Op(c) \in {"setup", "configure", "doctor"}
    PROVE  Installed(c)'
<1> SUFFICES ASSUME failed'[c] = "no", touched'[c] = {}
             PROVE  Tokened(c)' /\ Shimmed(c)' /\ Edited(c)'
  BY DEF Installed
<1>0. failed[c] = "no" /\ touched[c] = {}
  BY NoFailure DEF Acts
<1>1. Tokened(c) /\ Shimmed(c) /\ Edited(c)
  BY <1>0 DEF Installed
<1>2. ASSUME pc'[c] \in Early \cup Ended \cup Configures \cup {"token", "roll", "doctor"}
      PROVE  Tokened(c)' /\ Shimmed(c)' /\ Edited(c)'
  BY <1>2 DEF Early, Ended, Configures, Tokened, Shimmed, Edited, PastToken, PastAdmin, PastShim,
              PastInit, PastManifest, Undoing
<1>3. CASE Begin(c) \/ CommandCrash(c) \/ Resolve(c) \/ Snapshot(c) \/ Finish(c) \/ Rollback(c)
  <2>1. \E step \in {"resolve", "cfg", "doctor", "crashed", "refused", "snap_token", "snap_admin",
                     "snap_home", "token", "done", "roll", "restored", "unrestored"}: To(c, step)
    BY <1>3 DEF Begin, CommandCrash, Resolve, Snapshot, Snaps, Finish, Rollback
  <2>2. pc'[c] \in {"resolve", "cfg", "doctor", "crashed", "refused", "snap_token", "snap_admin",
                    "snap_home", "token", "done", "roll", "restored", "unrestored"}
    BY <2>1, AtStep
  <2>. QED BY <1>2, <2>2 DEF Early, Ended, Configures
<1>4. CASE Configure(c)
  <2>1. \E step \in Configures \cup {"refused", "done", "unchanged"}: To(c, step)
    BY <1>4 DEF Configure, CfgRead, CfgVerify, Backs, Replaces, Restores, FailsTo, Configures
  <2>2. pc'[c] \in Configures \cup {"refused", "done", "unchanged"}
    BY <2>1, AtStep
  <2>. QED BY <1>2, <2>2 DEF Ended
<1>. QED
  BY <1>0, <1>1, <1>3, <1>4, TokensInstall, ShimsInstall, PluginInstalls, AliasInstalls
  DEF Acts, CommandStep

LEMMA AwayInstalled ==
    ASSUME NEW c \in Commands, Installed(c), Away(c)
    PROVE  Installed(c)'
<1> SUFFICES ASSUME failed'[c] = "no", touched'[c] = {}
             PROVE  Tokened(c)' /\ Shimmed(c)' /\ Edited(c)'
  BY DEF Installed
<1>0. /\ pc'[c] = pc[c] /\ url'[c] = url[c] /\ read'[c] = read[c]
      /\ Tokened(c) /\ Shimmed(c) /\ Edited(c)
  BY DEF Away, Installed
<1>1. ASSUME pc[c] \in PastToken \cup Undoing
      PROVE  \A f \in SecretFiles \cup Homes: Content(f)' = Content(f)
  <2>1. Running(c)
    BY <1>1 DEF Running, Ended, PastToken, PastAdmin, PastShim, PastInit, PastManifest, Undoing
  <2>. QED BY <2>1 DEF Away
<1>2. CASE pc[c] \in PastToken
  <2>1. /\ secret'["token"] = secret["token"] /\ secret'["admin"] = secret["admin"]
        /\ home'["shim"] = home["shim"] /\ home'["init"] = home["init"]
        /\ home'["manifest"] = home["manifest"] /\ home'["config"] = home["config"]
    BY <1>1, <1>2 DEF Content, SecretFiles, Homes
  <2>2. (Present("token") => Present("token")') /\ (Present("admin") => Present("admin")')
    BY <2>1 DEF Present, Holds
  <2>3. EnabledNow => EnabledNow'
    BY <2>1 DEF EnabledNow
  <2>. QED BY <1>0, <2>1, <2>2, <2>3 DEF Tokened, Shimmed, Edited
<1>3. CASE pc[c] \notin PastToken
  BY <1>0, <1>3 DEF Tokened, Shimmed, Edited, PastToken, PastAdmin, PastShim, PastInit, PastManifest
<1>. QED BY <1>2, <1>3

\* What setup has loaded, as long as nobody else wrote.
Snapping == {"snap_token", "snap_admin", "snap_home"}

Loaded(c) ==
    touched[c] = {} =>
      /\ pc[c] \in Snapping => Chosen(home["config"], url[c])
      /\ Op(c) = "setup" /\ pc[c] \notin Early \cup Ended => Chosen(snap[c][6], url[c])

LEMMA UrlStays ==
    ASSUME NEW c \in Commands, Acts(c), ~Resolve(c)
    PROVE  UNCHANGED url
<1>1. Begin(c) \/ CommandCrash(c) \/ Snapshot(c) \/ Finish(c) \/ Rollback(c) => UNCHANGED url
  BY DEF Begin, CommandCrash, Snapshot, Snaps, Finish, Rollback, Keeps
<1>2. Tokens(c) => UNCHANGED url
  BY DEF Tokens, SecureWrite, Token, EnsureAdmin, Doctor, Minted, Permissions, Keeps
<1>3. Shims(c) => UNCHANGED url
  BY DEF Shims, InstallCheck, InstallWrite, ControlCheck, ControlWrite, Replaces, Undoes, Keeps
<1>4. EnablePlugin(c) => UNCHANGED url
  BY DEF EnablePlugin, PlugRead, PlugCheck, PlugVerify, Backs, Replaces, Restores, Keeps
<1>5. EnableAlias(c) => UNCHANGED url
  BY DEF EnableAlias, AliasRead, AliasVerify, Backs, Replaces, Restores, Keeps
<1>6. Configure(c) => UNCHANGED url
  BY DEF Configure, CfgRead, CfgVerify, Backs, Replaces, Restores, Keeps
<1>. QED BY <1>1, <1>2, <1>3, <1>4, <1>5, <1>6 DEF Acts, CommandStep

LEMMA StillLoaded ==
    ASSUME CommandsTypeOK, NEW c \in Commands, Rested(c), Loaded(c), Acts(c) \/ Away(c),
           UNCHANGED cast, Op(c) \in {"setup", "configure", "doctor"}
    PROVE  Loaded(c)'
<1>0. Op(c)' = Op(c)
  BY DEF Op
<1>1. \A doc, port: Chosen(doc, port)' = Chosen(doc, port)
  BY DEF Chosen, SetupConfig, Load, AsFile
<1>2. CASE Away(c)
  <2>1. touched'[c] = {} => touched[c] = {}
    BY <1>2 DEF Away
  <2>2. pc[c] \in Snapping /\ touched'[c] = {} => home'["config"] = home["config"]
    BY <1>2 DEF Away, Running, Ended, Snapping, Content, Homes, SecretFiles
  <2>3. pc'[c] = pc[c] /\ url'[c] = url[c] /\ snap'[c] = snap[c]
    BY <1>2 DEF Away
  <2>4. \A doc, port: Chosen(doc, port) => Chosen(doc, port)'
    BY <1>1
  <2>. QED BY <1>0, <2>1, <2>2, <2>3, <2>4 DEF Loaded, Chosen, SetupConfig
<1>3. CASE Acts(c)
  <2>0. touched'[c] = touched[c]
    BY <1>3 DEF Acts
  <2>1. ASSUME pc'[c] \in Snapping, touched'[c] = {} PROVE Chosen(home["config"], url[c])'
    <3>1. pc[c] \in Early /\ UNCHANGED home /\ (Begin(c) \/ Resolve(c) \/ Snapshot(c))
      BY <1>3, <2>1, EarlyOnly DEF Early, Snapping
    <3>2. ~Begin(c)
      <4>1. Begin(c) => \E step \in {"resolve", "cfg", "doctor"}: To(c, step)
        BY DEF Begin
      <4>. QED BY <2>1, <4>1, AtStep DEF Snapping
    <3>3. CASE Resolve(c)
      <4>1. ~To(c, "refused")
        BY <2>1, AtStep DEF Snapping
      <4>2. SetupConfig(home["config"], cast.given) # None
            /\ url'[c] = SetupConfig(home["config"], cast.given).dial
        BY <3>3, <4>1 DEF Resolve, CommandsTypeOK
      <4>3. Chosen(home["config"], url'[c])
        BY <4>2 DEF Chosen
      <4>. QED BY <1>1, <3>1, <4>3 DEF Chosen, SetupConfig
    <3>4. CASE Snapshot(c)
      <4>1. pc[c] \in Snapping /\ UNCHANGED url
        BY <3>4 DEF Snapshot, Snaps, On, Snapping
      <4>2. Chosen(home["config"], url[c])
        BY <2>0, <2>1, <4>1 DEF Loaded
      <4>. QED BY <3>1, <4>1, <4>2 DEF Chosen, SetupConfig
    <3>. QED BY <3>1, <3>2, <3>3, <3>4
  <2>2. ASSUME Op(c) = "setup", pc'[c] \notin Early \cup Ended, touched'[c] = {}
        PROVE  Chosen(snap[c][6], url[c])'
    <3>1. CASE pc[c] = "snap_home" /\ snap'[c][6] = home["config"]
      <4>1. ~Resolve(c)
        BY <3>1 DEF Resolve, On
      <4>2. UNCHANGED url /\ Chosen(home["config"], url[c])
        BY <1>3, <2>0, <2>2, <3>1, <4>1, UrlStays DEF Loaded, Snapping
      <4>. QED BY <3>1, <4>2 DEF Chosen, SetupConfig
    <3>2. CASE UNCHANGED snap /\ pc[c] \notin Early \cup Ended
      <4>1. ~Resolve(c)
        BY <3>2 DEF Resolve, On, Early
      <4>2. UNCHANGED url /\ Chosen(snap[c][6], url[c])
        BY <1>3, <2>0, <2>2, <3>2, <4>1, UrlStays DEF Loaded
      <4>. QED BY <3>2, <4>2 DEF Chosen, SetupConfig
    <3>. QED BY <1>3, <2>2, <3>1, <3>2, OwnSnapshots
  <2>. QED BY <1>0, <2>1, <2>2 DEF Loaded
<1>. QED BY <1>2, <1>3

\* Success is the end of the last step, with nothing failed.
LEMMA OwnFinish ==
    ASSUME CommandsTypeOK, NEW c \in Commands, Acts(c), pc[c] = "finish", pc'[c] = "done"
    PROVE  failed[c] = "no" /\ UNCHANGED home
<1>1. ~(Begin(c) \/ CommandCrash(c) \/ Resolve(c) \/ Snapshot(c) \/ Rollback(c))
  <2>1. CommandCrash(c) => pc'[c] = "crashed"
    BY AtStep DEF CommandCrash
  <2>. QED BY <2>1 DEF Begin, Resolve, Snapshot, Snaps, Rollback, On
<1>2. ~Tokens(c)
  BY DEF Tokens, SecureWrite, Token, EnsureAdmin, Doctor, Minted, Permissions, On
<1>3. ~Shims(c)
  BY DEF Shims, InstallCheck, InstallWrite, ControlCheck, ControlWrite, Replaces, Undoes, On
<1>4. ~EnablePlugin(c)
  BY DEF EnablePlugin, PlugRead, PlugCheck, PlugVerify, Backs, Replaces, Restores, On
<1>5. ~EnableAlias(c)
  BY DEF EnableAlias, AliasRead, AliasVerify, Backs, Replaces, Restores, On
<1>6. ~Configure(c)
  BY DEF Configure, CfgRead, CfgVerify, Backs, Replaces, Restores, On
<1>7. Finish(c)
  BY <1>1, <1>2, <1>3, <1>4, <1>5, <1>6 DEF Acts, CommandStep
<1>8. ~To(c, "roll")
  BY AtStep
<1>. QED BY <1>7, <1>8 DEF Finish

\* With everything in place doctor has nothing to fail on, but for the port.
LEMMA DoctorPasses ==
    ASSUME SetupTypeOK, NEW c \in Commands, pc[c] = "finish", Op(c) = "setup",
           failed[c] = "no", touched[c] = {}, Installed(c), Loaded(c), Kept(c),
           NEW check \in Checks, Fails(check)
    PROVE  /\ check = "shim drift"
           /\ cast.given = "yes" \/ Text(Found(c, "config")).bare # NoBlock
<1>0. CommandsTypeOK /\ SecretsTypeOK /\ cast.given \in {"yes", "no"}
  BY SetupAssumption DEF SetupTypeOK, CommandsTypeOK, SecretsTypeOK
<1>1. Tokened(c) /\ Shimmed(c) /\ Edited(c)
  BY DEF Installed
<1>2. /\ Present("token") /\ Present("admin") /\ home["shim"] = Shim("new", url[c]) /\ EnabledNow
  BY <1>1 DEF Tokened, Shimmed, Edited, PastToken, PastAdmin, PastShim, PastInit, PastManifest
<1>3. /\ Transacts(c) /\ Chosen(snap[c][6], url[c])
  BY DEF Transacts, Running, Loaded, Early, Ended
<1>4. Same(home["config"], snap[c][6], url[c])
  BY <1>3 DEF Kept, KeepsConfig
<1>5. home["config"] \in Document /\ Listed(home["config"])
  BY <1>0, <1>2, HomeType DEF EnabledNow
<1>6. snap[c][6] \in {None, Garbage} \cup Document
  <2>1. 6 \in DOMAIN Managed /\ Managed[6] = "config"
    BY Slots
  <2>. QED BY <1>0, <2>1 DEF CommandsTypeOK, Contents, SecretFiles
<1>7. /\ Load(AsFile(home["config"]), "no") # None
      /\ \/ Load(AsFile(home["config"]), "no").dial = url[c]
         \/ cast.given = "yes" \/ Text(snap[c][6]).bare # NoBlock
  BY <1>0, <1>3, <1>4, <1>5, <1>6, LoadsAfter
<1>8. home["shim"] \notin {None, Theirs} /\ home["shim"].version = "new"
  <2>1. Shim("new", url[c]) \in ShimFiles /\ Shim("new", url[c]).version = "new"
    BY <1>0 DEF Shim, ShimFiles, CommandsTypeOK
  <2>. QED BY <1>2, <2>1, SetupAssumption
<1>9. check = "shim drift" /\ Load(AsFile(home["config"]), "no").dial # url[c]
  <2>1. check # "config"
    BY <1>7 DEF Fails
  <2>2. check # "shim" /\ check # "shim version"
    BY <1>8 DEF Fails
  <2>3. check # "control plugin" /\ check # "token" /\ check # "admin token"
    BY <1>2 DEF Fails
  <2>4. check = "shim drift"
    BY <2>1, <2>2, <2>3 DEF Checks
  <2>. QED BY <1>2, <2>4 DEF Fails
<1>. QED BY <1>7, <1>9, FoundAt

\* What the proof of success says of one command.
SuccessInv(c) ==
    /\ Rested(c) /\ MintsOwn(c) /\ Installed(c) /\ Loaded(c) /\ Kept(c)
    /\ Op(c) # "setup" => pc[c] \in OtherSteps

\* A setup that succeeds undisturbed has everything in place, and doctor finds nothing
\* to fail on but, where bare settings were or --hermes-home was given, the port.
THEOREM SuccessIsInstalled == Spec => SuccessMeansInstalled
<1> DEFINE Inv == \A c \in Commands: SuccessInv(c)
           success == \A c \in Commands: On(c, "finish") /\ pc'[c] = "done" /\ touched'[c] = {} =>
              /\ \A check \in Checks: Fails(check) =>
                    /\ check = "shim drift"
                    /\ cast.given = "yes" \/ Text(Found(c, "config")).bare # NoBlock
              /\ home["init"] = Control("new") /\ home["manifest"] = Control("new")
              /\ home["config"].alias = url[c]
<1>1. SetupInit => Inv
  <2> SUFFICES ASSUME SetupInit, NEW c \in Commands PROVE SuccessInv(c)
    OBVIOUS
  <2>1. pc[c] = "off" /\ job[c] = Idle
    BY DEF SetupInit, SecretsInit, Procs
  <2>2. Rested(c) /\ MintsOwn(c) /\ Loaded(c) /\ Kept(c) /\ pc[c] \in OtherSteps
    BY <2>1 DEF Rested, At, Idle, MintsOwn, Loaded, Snapping, Early, Kept, Configures, Transacts,
                Running, OtherSteps
  <2>3. Installed(c)
    BY <2>1 DEF Installed, Tokened, Shimmed, Edited, PastToken, PastAdmin, PastShim, PastInit,
                PastManifest, Undoing
  <2>. QED BY <2>2, <2>3 DEF SuccessInv
<1>2. SetupTypeOK /\ Inv /\ [Next]_vars => Inv'
  <2> SUFFICES ASSUME SetupTypeOK, Inv, [Next]_vars, NEW c \in Commands
               PROVE  SuccessInv(c)'
    OBVIOUS
  <2>0. /\ CommandsTypeOK /\ SecretsTypeOK /\ UNCHANGED cast /\ Op(c)' = Op(c) /\ SuccessInv(c)
        /\ Op(c) \in {"setup", "configure", "doctor"}
    BY CastStays, SetupAssumption DEF SetupTypeOK, CommandsTypeOK, SecretsTypeOK, Op
  <2>1. Acts(c) \/ Away(c)
    BY Turns
  <2>2. Rested(c)' /\ MintsOwn(c)' /\ Loaded(c)'
    BY <2>0, <2>1, StillRested, StillMintsOwn, StillLoaded DEF SuccessInv
  <2>3. Installed(c)'
    BY <2>0, <2>1, OwnInstalled, AwayInstalled DEF SuccessInv
  <2>4. Kept(c)'
    BY AllKept DEF SuccessInv
  <2>5. Op(c) # "setup" => pc'[c] \in OtherSteps
    BY <2>0, <2>1, StillOther DEF SuccessInv
  <2>. QED BY <2>0, <2>2, <2>3, <2>4, <2>5 DEF SuccessInv
<1>3. ASSUME SetupTypeOK, Inv, [Next]_vars PROVE success
  <2> SUFFICES ASSUME NEW c \in Commands, On(c, "finish"), pc'[c] = "done", touched'[c] = {}
               PROVE  /\ \A check \in Checks: Fails(check) =>
                            /\ check = "shim drift"
                            /\ cast.given = "yes" \/ Text(Found(c, "config")).bare # NoBlock
                      /\ home["init"] = Control("new") /\ home["manifest"] = Control("new")
                      /\ home["config"].alias = url[c]
    OBVIOUS
  <2>0. CommandsTypeOK /\ pc[c] = "finish" /\ SuccessInv(c)
    BY <1>3 DEF SetupTypeOK, CommandsTypeOK, On
  <2>1. Acts(c)
    BY <1>3, <2>0, Turns DEF Away
  <2>2. failed[c] = "no" /\ touched[c] = {}
    BY <2>0, <2>1, OwnFinish DEF Acts
  <2>3. Op(c) = "setup"
    BY <2>0 DEF SuccessInv, OtherSteps, Configures, Ended
  <2>4. Shimmed(c) /\ Edited(c)
    BY <2>0, <2>2 DEF SuccessInv, Installed
  <2>5. /\ home["init"] = Control("new") /\ home["manifest"] = Control("new")
        /\ home["config"].alias = url[c]
    BY <2>0, <2>4 DEF Shimmed, Edited, PastInit, PastManifest
  <2>. QED BY <1>3, <2>0, <2>2, <2>3, <2>5, DoctorPasses DEF SuccessInv
<1>4. SetupTypeOK /\ Inv /\ [Next]_vars => [success]_vars
  BY <1>3
<1>. QED BY <1>1, <1>2, <1>4, TypeCorrect, PTL DEF Spec, SuccessMeansInstalled

=============================================================================
