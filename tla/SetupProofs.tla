---------------------------- MODULE SetupProofs ----------------------------
(***************************************************************************)
(* Theorems about Setup.  First the types: a lemma for each operator that  *)
(* yields a document, a secret or a job, then one for each command's       *)
(* steps.  Then the salt, then what a setup must not lose.                 *)
(***************************************************************************)
EXTENDS Setup, TLAPS

-----------------------------------------------------------------------------
(* Documents and secrets                                                    *)

LEMMA TableOfFiles ==
    /\ DOMAIN Managed = 1..8
    /\ \A n \in 1..8: Managed[n] \in SecretFiles \cup Homes /\ Managed[n] # "salt"
    /\ \A n \in 1..8: Managed[n] \in SecretFiles <=> n \in {1, 2}
BY DEF Managed, SecretFiles, Homes

LEMMA EmptyType == NoBlock \in Settings /\ EmptyDoc \in Document
<1>1. NoBlock \in Settings
  BY DEF NoBlock, Settings
<1>. QED BY <1>1 DEF EmptyDoc, Document, Plugins

LEMMA TextType ==
    ASSUME NEW doc \in {None} \cup Document
    PROVE  Text(doc) \in Document
BY EmptyType DEF Text

LEMMA PlanType ==
    ASSUME NEW doc \in Document
    PROVE  PlanEdit(doc) \in {None} \cup Document
<1>1. doc.plugins # "flow" => Inserted[doc.plugins] \in Plugins
  BY DEF Document, Plugins, Inserted
<1>. QED BY <1>1 DEF PlanEdit, Document

LEMMA BlockType ==
    ASSUME NEW b, NEW s \in Settings, b.gateway = s.gateway, Block(b) # None
    PROVE  Block(b).dial \in Int
<1> DEFINE g == Given(b.gateway, NoGateway)
<1> DEFINE address == Given(g.url, DefaultUrl)
<1>1. b.gateway # None => b.gateway.url \in {None} \cup [scheme: STRING, port: {None} \cup Int]
  BY DEF Settings
<1>2. g.url \in {None} \cup [scheme: STRING, port: {None} \cup Int]
  BY <1>1 DEF Given, NoGateway
<1>3. address.port \in {None} \cup Int
  BY <1>2 DEF Given, DefaultUrl, DefaultPort
<1>4. PortFromUrl(address) \in Int
  BY <1>3 DEF PortFromUrl, DefaultPort
<1>5. Gateway(g) # None => Gateway(g).dial = PortFromUrl(address)
  BY DEF Gateway
<1>6. Gateway(g) # None /\ Block(b).dial = Gateway(g).dial
  BY DEF Block
<1>. QED BY <1>4, <1>5, <1>6

LEMMA LoadType ==
    ASSUME NEW doc \in {None, Garbage} \cup Document, NEW named \in {"yes", "no"},
           Load(AsFile(doc), named) # None
    PROVE  Load(AsFile(doc), named).dial \in Int
<1>1. Defaults.dial \in Int
  BY DEF Defaults, DefaultPort
<1>2. CASE AsFile(doc) \in {None, Garbage}
  <2>1. Load(AsFile(doc), named) \in {None, Defaults}
    BY <1>2 DEF Load
  <2>. QED BY <1>1, <2>1
<1>3. CASE AsFile(doc) \notin {None, Garbage}
  <2> DEFINE d == AsFile(doc)
  <2> DEFINE bare == [d.bare EXCEPT !.unknown = @ \cup d.foreign]
  <2>1. /\ d.auto = doc.auto /\ d.bare = doc.bare
        /\ d.auto \in {None} \cup Settings /\ d.bare \in Settings
    <3>1. doc \notin {None, Garbage} /\ doc.auto # Garbage
      BY <1>3 DEF AsFile
    <3>2. doc.auto \in {None} \cup Settings /\ doc.bare \in Settings
      BY <3>1 DEF Document
    <3>. QED BY <3>1, <3>2 DEF AsFile
  <2>2. bare.gateway = d.bare.gateway
    BY <2>1 DEF Settings
  <2>3. d \notin {None, Garbage} \/ Load(d, named) \in {None, Defaults}
    BY DEF Load
  <2>4. d \notin {None, Garbage} => Load(d, named) \in {Block(d.auto), Defaults, Block(bare)}
    BY DEF Load
  <2>5. d \notin {None, Garbage} /\ d.auto = None => Load(d, named) \in {Defaults, Block(bare)}
    BY DEF Load
  <2>. QED BY <1>1, <2>1, <2>2, <2>3, <2>4, <2>5, BlockType
<1>. QED BY <1>2, <1>3

LEMMA SecretsFrame ==
    ASSUME SecretsTypeOK, Fine \/ Fault,
           UNCHANGED <<cast, todo, secret, mints, job, life, held, salt, overlap>>
    PROVE  SecretsTypeOK'
BY SecretsAssumption DEF SecretsTypeOK, Fine, Fault

LEMMA JobType ==
    ASSUME SecretsTypeOK, NEW p \in Procs
    PROVE  /\ job[p] \in Jobs /\ job[p].file \in SecretFiles \cup {None}
           /\ job[p].id \in 0..MaxMints /\ Mine(p) \in Secret
           /\ [Mine(p) EXCEPT !.whole = "yes"] \in Secret
BY DEF SecretsTypeOK, Jobs, Mine, Secret

LEMMA GoesType ==
    ASSUME SecretsTypeOK, NEW p \in Procs,
           NEW step \in {"idle", "claim", "unlink", "create", "write", "written",
                         "failed", "read", "undo"}, Goes(p, step)
    PROVE  job' \in [Procs -> Jobs]
BY DEF SecretsTypeOK, Jobs, Goes

LEMMA DoneType ==
    ASSUME SecretsTypeOK, NEW p \in Procs, Done(p)
    PROVE  job' \in [Procs -> Jobs]
BY SecretsAssumption DEF SecretsTypeOK, Jobs, Done, Idle

LEMMA DrawType ==
    ASSUME SecretsTypeOK, NEW p \in Procs, NEW f \in SecretFiles,
           NEW step \in {"claim", "unlink"}, Draw(p, f, step)
    PROVE  mints' \in 0..MaxMints /\ job' \in [Procs -> Jobs]
BY SecretsAssumption DEF SecretsTypeOK, Jobs, Draw

LEMMA PutsType ==
    ASSUME SecretsTypeOK, NEW f, NEW content \in {None} \cup Secret, Puts(f, content)
    PROVE  secret' \in [SecretFiles -> {None} \cup Secret]
BY DEF SecretsTypeOK, Puts

LEMMA SpentType ==
    ASSUME SecretsTypeOK, Fine \/ Fault, UNCHANGED cast
    PROVE  spent' \in 0..cast'.faults
BY SecretsAssumption DEF SecretsTypeOK, Fine, Fault

LEMMA SecureWriteType ==
    ASSUME SecretsTypeOK, NEW p \in Procs, SecureWrite(p)
    PROVE  SecretsTypeOK'
<1> USE JobType, PutsType, SpentType, SecretsAssumption DEF SecureWrite
<1>1. CASE Unlink(p)
  BY <1>1, GoesType DEF Unlink, SecretsTypeOK
<1>2. CASE Create(p)
  BY <1>2, GoesType DEF Create, Mine, SecretsTypeOK
<1>3. CASE Write(p)
  BY <1>3, GoesType DEF Write, SecretsTypeOK
<1>. QED BY <1>1, <1>2, <1>3

LEMMA HoldsType ==
    ASSUME SecretsTypeOK, NEW f \in SecretFiles
    PROVE  Holds(f) \in {None} \cup 0..MaxMints
BY SecretsAssumption DEF SecretsTypeOK, Holds, Secret

LEMMA GatewayType ==
    ASSUME SecretsTypeOK, NEW g \in Gateways, GatewayRuns(g)
    PROVE  SecretsTypeOK'
<1>0. g \in Procs
  BY DEF Procs
<1> USE <1>0, JobType, GoesType, DoneType, DrawType, PutsType, SpentType, SecretsAssumption
<1>1. CASE Start(g)
  BY <1>1 DEF Start, SecretsTypeOK, Becomes
<1>2. CASE ReadToken(g)
  <2>1. job' \in [Procs -> Jobs] /\ mints' \in 0..MaxMints
    BY <1>2 DEF ReadToken, SecretsTypeOK, SecretFiles
  <2>2. life' \in [Gateways -> {"down", "token", "admin", "up"}]
    BY <1>2 DEF ReadToken, SecretsTypeOK, Becomes
  <2>3. held' \in [Gateways -> {None} \cup 0..MaxMints]
    BY <1>2, HoldsType DEF ReadToken, SecretsTypeOK, SecretFiles
  <2>. QED BY <1>2, <2>1, <2>2, <2>3 DEF ReadToken, SecretsTypeOK
<1>3. CASE TokenMinted(g)
  BY <1>3 DEF TokenMinted, SecretsTypeOK, Becomes
<1>4. CASE ReadAdmin(g)
  <2>1. job' \in [Procs -> Jobs] /\ mints' \in 0..MaxMints
    BY <1>4 DEF ReadAdmin, SecretsTypeOK, SecretFiles
  <2>2. life' \in [Gateways -> {"down", "token", "admin", "up"}]
    BY <1>4 DEF ReadAdmin, SecretsTypeOK, Serves, Becomes
  <2>. QED BY <1>4, <2>1, <2>2 DEF ReadAdmin, SecretsTypeOK
<1>5. CASE AdminMinted(g)
  BY <1>5 DEF AdminMinted, SecretsTypeOK, Serves, Becomes
<1>6. CASE Crash(g)
  BY <1>6 DEF Crash, SecretsTypeOK, Becomes
<1>7. CASE LookUp(g)
  <2>1. job' \in [Procs -> Jobs] /\ mints' \in 0..MaxMints
    <3>1. [file |-> "salt", step |-> "read", id |-> 0] \in Jobs
      BY DEF Jobs, SecretFiles
    <3>. QED BY <1>7, <3>1 DEF LookUp, SecretsTypeOK, SecretFiles
  <2>2. overlap' \in {"yes", "no"}
    BY <1>7 DEF LookUp, SecretsTypeOK
  <2>. QED BY <1>7, <2>1, <2>2 DEF LookUp, SecretsTypeOK
<1>8. CASE Claim(g)
  BY <1>8 DEF Claim, SecretsTypeOK
<1>9. CASE ReadSalt(g)
  <2>1. salt' \in [Gateways -> {None} \cup 0..MaxMints]
    BY <1>9, HoldsType DEF ReadSalt, SecretsTypeOK, SecretFiles
  <2>. QED BY <1>9, <2>1 DEF ReadSalt, SecretsTypeOK
<1>10. CASE SaltWritten(g)
  BY <1>10 DEF SaltWritten, SecretsTypeOK, Unverified
<1>11. CASE SaltFailed(g)
  BY <1>11 DEF SaltFailed, SecretsTypeOK
<1>12. CASE Undo(g)
  BY <1>12 DEF Undo, SecretsTypeOK
<1>. QED
  BY <1>1, <1>2, <1>3, <1>4, <1>5, <1>6, <1>7, <1>8, <1>9, <1>10, <1>11, <1>12,
     SecureWriteType DEF GatewayRuns, GatewayStep

-----------------------------------------------------------------------------
(* The commands                                                             *)

CommandsTypeOK ==
    /\ DOMAIN home = Homes /\ \A f \in Homes: home[f] \in Contents(f)
    /\ pc \in [Commands -> Steps]
    /\ url \in [Commands -> Int]
    /\ read \in [Commands -> {None} \cup Document]
    /\ prior \in [Commands -> [1..2 -> {None} \cup ShimFiles]]
    /\ failed \in [Commands -> {"no", "yes", "for good"}]
    /\ DOMAIN snap = Commands
    /\ \A c \in Commands: /\ DOMAIN snap[c] = DOMAIN Managed
                          /\ \A n \in DOMAIN Managed: snap[c][n] \in Contents(Managed[n])
    /\ roll \in [Commands -> DOMAIN Managed]

LEMMA HomeType ==
    ASSUME CommandsTypeOK
    PROVE  /\ home["config"] \in {None, Garbage} \cup Document
           /\ \A f \in {"shim", "init", "manifest"}: home[f] \in {None, Theirs} \cup ShimFiles
BY DEF CommandsTypeOK, Contents, Homes, SecretFiles

LEMMA ToType ==
    ASSUME CommandsTypeOK, NEW c \in Commands, NEW step \in Steps, To(c, step)
    PROVE  pc' \in [Commands -> Steps]
BY DEF CommandsTypeOK, To

LEMMA FailsToType ==
    ASSUME CommandsTypeOK, NEW c \in Commands, NEW step \in Steps, FailsTo(c, step)
    PROVE  pc' \in [Commands -> Steps] /\ failed' \in [Commands -> {"no", "yes", "for good"}]
BY DEF CommandsTypeOK, To, FailsTo

LEMMA SetsType ==
    ASSUME CommandsTypeOK, NEW f \in Homes, NEW content \in Contents(f), Sets(f, content)
    PROVE  DOMAIN home' = Homes /\ \A x \in Homes: home'[x] \in Contents(x)
BY DEF CommandsTypeOK, Sets

LEMMA ReadsType ==
    ASSUME CommandsTypeOK, NEW c \in Commands, home["config"] # Garbage, Reads(c)
    PROVE  read' \in [Commands -> {None} \cup Document]
BY HomeType DEF CommandsTypeOK, Reads

LEMMA ConfigContents ==
    /\ \A doc \in {None} \cup Document: doc \in Contents("config")
    /\ \A f \in {"config", "bak", "aliasbak", "confbak"}:
          f \in Homes /\ Garbage \in Contents(f) /\ Contents(f) = Contents("config")
    /\ \A f \in {"shim", "init", "manifest"}:
          f \in Homes /\ \A file \in {None} \cup ShimFiles: file \in Contents(f)
BY DEF Contents, Homes, SecretFiles

LEMMA ShimType ==
    ASSUME NEW version \in {"old", "new"}, NEW port \in Int
    PROVE  Shim(version, port) \in ShimFiles
BY DEF Shim, ShimFiles

LEMMA KeepsType ==
    ASSUME CommandsTypeOK, Keeps,
           DOMAIN home' = Homes /\ \A f \in Homes: home'[f] \in Contents(f),
           pc' \in [Commands -> Steps], read' \in [Commands -> {None} \cup Document],
           failed' \in [Commands -> {"no", "yes", "for good"}]
    PROVE  CommandsTypeOK'
BY DEF CommandsTypeOK, Keeps

LEMMA NoSecretsType ==
    ASSUME SecretsTypeOK, NoSecrets, Fine \/ Fault
    PROVE  SecretsTypeOK'
BY SecretsFrame DEF NoSecrets, Frame

LEMMA BacksType ==
    ASSUME SecretsTypeOK, CommandsTypeOK, NEW c \in Commands, NEW from,
           NEW f \in {"bak", "aliasbak", "confbak"}, NEW next \in Steps, NEW onError \in Steps,
           Backs(c, from, f, next, onError)
    PROVE  SecretsTypeOK' /\ CommandsTypeOK'
<1>1. Text(read[c]) \in Contents(f) /\ f \in Homes
  BY TextType, ConfigContents DEF CommandsTypeOK
<1>2. SecretsTypeOK'
  BY NoSecretsType DEF Backs
<1>3. pc' \in [Commands -> Steps]
  BY ToType, FailsToType DEF Backs
<1>4. failed' \in [Commands -> {"no", "yes", "for good"}]
  BY FailsToType DEF Backs, CommandsTypeOK
<1>5. DOMAIN home' = Homes /\ \A x \in Homes: home'[x] \in Contents(x)
  <2>1. CASE Sets(f, Text(read[c]))
    BY <1>1, <2>1, SetsType
  <2>2. CASE UNCHANGED home
    BY <2>2 DEF CommandsTypeOK
  <2>3. CASE Sets(f, Garbage)
    BY <1>1, <2>3, SetsType, ConfigContents
  <2>. QED BY <2>1, <2>2, <2>3 DEF Backs, Torn
<1>6. Keeps /\ read' \in [Commands -> {None} \cup Document]
  BY DEF Backs, CommandsTypeOK
<1>. QED BY <1>2, <1>3, <1>4, <1>5, <1>6, KeepsType

LEMMA ReplacesType ==
    ASSUME SecretsTypeOK, CommandsTypeOK, NEW c \in Commands, NEW from,
           NEW f \in Homes, NEW content \in Contents(f),
           NEW next \in Steps, NEW onError \in Steps,
           Replaces(c, from, f, content, next, onError)
    PROVE  SecretsTypeOK' /\ CommandsTypeOK'
<1>1. SecretsTypeOK'
  BY NoSecretsType DEF Replaces
<1>2. pc' \in [Commands -> Steps]
  BY ToType, FailsToType DEF Replaces
<1>3. failed' \in [Commands -> {"no", "yes", "for good"}]
  BY FailsToType DEF Replaces, CommandsTypeOK
<1>4. DOMAIN home' = Homes /\ \A x \in Homes: home'[x] \in Contents(x)
  <2>1. CASE Sets(f, content)
    BY <2>1, SetsType
  <2>2. CASE UNCHANGED home
    BY <2>2 DEF CommandsTypeOK
  <2>. QED BY <2>1, <2>2 DEF Replaces
<1>5. Keeps /\ read' \in [Commands -> {None} \cup Document]
  BY DEF Replaces, CommandsTypeOK
<1>. QED BY <1>1, <1>2, <1>3, <1>4, <1>5, KeepsType

LEMMA RestoresType ==
    ASSUME SecretsTypeOK, CommandsTypeOK, NEW c \in Commands, NEW from,
           NEW content \in {None} \cup Document, NEW next \in Steps,
           Restores(c, from, content, next)
    PROVE  SecretsTypeOK' /\ CommandsTypeOK'
<1>1. SecretsTypeOK'
  BY NoSecretsType DEF Restores
<1>2. pc' \in [Commands -> Steps] /\ failed' \in [Commands -> {"no", "yes", "for good"}]
  BY FailsToType DEF Restores
<1>3. DOMAIN home' = Homes /\ \A x \in Homes: home'[x] \in Contents(x)
  <2>1. CASE Sets("config", content)
    BY <2>1, SetsType, ConfigContents
  <2>2. CASE UNCHANGED home
    BY <2>2 DEF CommandsTypeOK
  <2>. QED BY <2>1, <2>2 DEF Restores
<1>4. Keeps /\ read' \in [Commands -> {None} \cup Document]
  BY DEF Restores, CommandsTypeOK
<1>. QED BY <1>1, <1>2, <1>3, <1>4, KeepsType

LEMMA UndoesType ==
    ASSUME SecretsTypeOK, CommandsTypeOK, NEW c \in Commands, NEW from,
           NEW f \in Homes, NEW content \in Contents(f), NEW next \in Steps,
           Undoes(c, from, f, content, next)
    PROVE  SecretsTypeOK' /\ CommandsTypeOK'
<1>1. SecretsTypeOK'
  BY NoSecretsType DEF Undoes
<1>2. pc' \in [Commands -> Steps]
  BY ToType DEF Undoes
<1>3. DOMAIN home' = Homes /\ \A x \in Homes: home'[x] \in Contents(x)
  <2>1. CASE Sets(f, content)
    BY <2>1, SetsType
  <2>2. CASE UNCHANGED home
    BY <2>2 DEF CommandsTypeOK
  <2>. QED BY <2>1, <2>2 DEF Undoes
<1>4. /\ Keeps /\ read' \in [Commands -> {None} \cup Document]
      /\ failed' \in [Commands -> {"no", "yes", "for good"}]
  BY DEF Undoes, CommandsTypeOK
<1>. QED BY <1>1, <1>2, <1>3, <1>4, KeepsType

LEMMA BeginType ==
    ASSUME SecretsTypeOK, CommandsTypeOK, NEW c \in Commands, Begin(c)
    PROVE  SecretsTypeOK' /\ CommandsTypeOK'
<1>1. Op(c) \in {"setup", "configure", "doctor"}
  BY SetupAssumption DEF Op, SecretsTypeOK
<1>2. pc' \in [Commands -> Steps]
  BY <1>1 DEF Begin, To, CommandsTypeOK, Steps
<1>3. SecretsTypeOK'
  BY DEF Begin, SecretsTypeOK
<1>. QED BY <1>2, <1>3 DEF Begin, Keeps, CommandsTypeOK

LEMMA ResolveType ==
    ASSUME SecretsTypeOK, CommandsTypeOK, NEW c \in Commands, Resolve(c)
    PROVE  SecretsTypeOK' /\ CommandsTypeOK'
<1> DEFINE config == SetupConfig(home["config"], cast.given)
<1>1. config # None => config.dial \in Int
  <2>1. Defaults.dial \in Int
    BY DEF Defaults, DefaultPort
  <2>2. /\ Load(AsFile(home["config"]), "no") # None => Load(AsFile(home["config"]), "no").dial \in Int
        /\ Load(AsFile(home["config"]), "yes") # None => Load(AsFile(home["config"]), "yes").dial \in Int
    BY HomeType, LoadType
  <2>. QED BY <2>1, <2>2 DEF SetupConfig
<1>2. pc' \in [Commands -> Steps]
  BY ToType DEF Resolve, Steps, Ended
<1>3. url' \in [Commands -> Int]
  BY <1>1 DEF Resolve, CommandsTypeOK
<1>4. SecretsTypeOK'
  BY NoSecretsType DEF Resolve
<1>. QED BY <1>2, <1>3, <1>4 DEF Resolve, CommandsTypeOK

LEMMA ContentType ==
    ASSUME SecretsTypeOK, CommandsTypeOK, NEW n \in DOMAIN Managed
    PROVE  Content(Managed[n]) \in Contents(Managed[n])
BY TableOfFiles DEF Content, Contents, SecretsTypeOK, CommandsTypeOK

LEMMA SnapsType ==
    ASSUME SecretsTypeOK, CommandsTypeOK, NEW c \in Commands, NEW from, NEW which,
           NEW to \in Steps, Snaps(c, from, which, to)
    PROVE  SecretsTypeOK' /\ CommandsTypeOK'
<1>1. SecretsTypeOK'
  BY NoSecretsType DEF Snaps
<1>2. pc' \in [Commands -> Steps]
  BY ToType DEF Snaps, Steps, Ended
<1>3. /\ DOMAIN snap' = Commands
      /\ \A d \in Commands: /\ DOMAIN snap'[d] = DOMAIN Managed
                            /\ \A n \in DOMAIN Managed: snap'[d][n] \in Contents(Managed[n])
  <2>1. CASE UNCHANGED snap
    BY <2>1 DEF CommandsTypeOK
  <2>2. CASE snap' = [snap EXCEPT ![c] = [n \in DOMAIN Managed |->
                        IF n \in which THEN Content(Managed[n]) ELSE @[n]]]
    BY <2>2, ContentType DEF CommandsTypeOK
  <2>. QED BY <2>1, <2>2 DEF Snaps
<1>. QED BY <1>1, <1>2, <1>3 DEF Snaps, CommandsTypeOK

LEMMA SnapshotType ==
    ASSUME SecretsTypeOK, CommandsTypeOK, NEW c \in Commands, Snapshot(c)
    PROVE  SecretsTypeOK' /\ CommandsTypeOK'
BY SnapsType DEF Snapshot, Steps

LEMMA TokensType ==
    ASSUME SecretsTypeOK, CommandsTypeOK, NEW c \in Commands, Tokens(c)
    PROVE  SecretsTypeOK' /\ CommandsTypeOK'
<1> USE DEF Steps, Ended
<1>0. c \in Procs /\ "token" \in SecretFiles /\ "admin" \in SecretFiles
  BY DEF Procs, SecretFiles
<1>h. DOMAIN home = Homes /\ \A f \in Homes: home[f] \in Contents(f)
  BY DEF CommandsTypeOK
<1>1. CASE SecureWrite(c) /\ UNCHANGED <<home, pc, read, failed>> /\ Keeps
  BY <1>0, <1>1, SecureWriteType DEF CommandsTypeOK, Keeps
<1>2. CASE Token(c)
  <2>1. pc' \in [Commands -> Steps] /\ failed' \in [Commands -> {"no", "yes", "for good"}]
    BY <1>2, ToType, FailsToType DEF Token, CommandsTypeOK
  <2>2. job' \in [Procs -> Jobs] /\ mints' \in 0..MaxMints
    BY <1>0, <1>2, DrawType DEF Token, SecretsTypeOK
  <2>3. SecretsTypeOK'
    BY <1>2, <2>2 DEF Token, Frame, Fine, SecretsTypeOK
  <2>. QED BY <1>2, <2>1, <2>3 DEF Token, Keeps, CommandsTypeOK
<1>3. ASSUME NEW from, NEW next \in Steps, EnsureAdmin(c, from, next)
      PROVE  SecretsTypeOK' /\ CommandsTypeOK'
  <2>1. pc' \in [Commands -> Steps]
    BY <1>3, ToType DEF EnsureAdmin, CommandsTypeOK
  <2>2. job' \in [Procs -> Jobs] /\ mints' \in 0..MaxMints
    BY <1>0, <1>3, DrawType DEF EnsureAdmin, SecretsTypeOK
  <2>3. SecretsTypeOK'
    BY <1>3, <2>2 DEF EnsureAdmin, Frame, Fine, SecretsTypeOK
  <2>. QED BY <1>3, <2>1, <2>3 DEF EnsureAdmin, Keeps, CommandsTypeOK
<1>4. ASSUME NEW from, NEW next \in Steps, NEW skip \in Steps, Minted(c, from, next, skip)
      PROVE  SecretsTypeOK' /\ CommandsTypeOK'
  <2>1. pc' \in [Commands -> Steps] /\ failed' \in [Commands -> {"no", "yes", "for good"}]
    BY <1>4, ToType, FailsToType DEF Minted, CommandsTypeOK
  <2>2. SecretsTypeOK'
    BY <1>0, <1>4, DoneType DEF Minted, Frame, Fine, SecretsTypeOK
  <2>. QED BY <1>4, <2>1, <2>2 DEF Minted, Keeps, CommandsTypeOK
<1>5. ASSUME NEW from, NEW f, NEW next \in Steps, Permissions(c, from, f, next)
      PROVE  SecretsTypeOK' /\ CommandsTypeOK'
  <2>1. pc' \in [Commands -> Steps] /\ failed' \in [Commands -> {"no", "yes", "for good"}]
    BY <1>5, ToType, FailsToType DEF Permissions, CommandsTypeOK
  <2>2. SecretsTypeOK'
    BY <1>5, NoSecretsType DEF Permissions
  <2>. QED BY <1>5, <2>1, <2>2 DEF Permissions, Keeps, CommandsTypeOK
<1>6. CASE Doctor(c)
  <2>1. pc' \in [Commands -> Steps]
    BY <1>6, ToType DEF Doctor
  <2>2. SecretsTypeOK'
    BY <1>6, NoSecretsType DEF Doctor
  <2>. QED BY <1>6, <2>1, <2>2 DEF Doctor, Keeps, CommandsTypeOK
<1>. QED BY <1>1, <1>2, <1>3, <1>4, <1>5, <1>6 DEF Tokens

LEMMA ShimsType ==
    ASSUME SecretsTypeOK, CommandsTypeOK, NEW c \in Commands, Shims(c)
    PROVE  SecretsTypeOK' /\ CommandsTypeOK'
<1>1. CASE InstallCheck(c)
  <2>1. pc' \in [Commands -> Steps] /\ failed' \in [Commands -> {"no", "yes", "for good"}]
    BY <1>1, ToType, FailsToType DEF InstallCheck, CommandsTypeOK, Steps
  <2>2. SecretsTypeOK'
    BY <1>1, NoSecretsType DEF InstallCheck
  <2>. QED BY <1>1, <2>1, <2>2 DEF InstallCheck, Keeps, CommandsTypeOK
<1>2. CASE InstallWrite(c)
  <2>1. Shim("new", url[c]) \in Contents("shim") /\ "shim" \in Homes
    BY ConfigContents, ShimType DEF CommandsTypeOK
  <2>. QED BY <1>2, <2>1, ReplacesType DEF InstallWrite, Steps
<1>3. CASE ControlCheck(c)
  <2>1. pc' \in [Commands -> Steps] /\ failed' \in [Commands -> {"no", "yes", "for good"}]
    BY <1>3, ToType, FailsToType DEF ControlCheck, CommandsTypeOK, Steps
  <2>2. prior' \in [Commands -> [1..2 -> {None} \cup ShimFiles]]
    <3>1. CASE UNCHANGED prior
      BY <3>1 DEF CommandsTypeOK
    <3>2. CASE /\ Owned("init") /\ Owned("manifest")
               /\ prior' = [prior EXCEPT ![c] = <<home["init"], home["manifest"]>>]
      <4>1. home["init"] \in {None} \cup ShimFiles /\ home["manifest"] \in {None} \cup ShimFiles
        BY <3>2, HomeType DEF Owned
      <4>2. <<home["init"], home["manifest"]>> \in [1..2 -> {None} \cup ShimFiles]
        BY <4>1
      <4>. QED BY <3>2, <4>2 DEF CommandsTypeOK
    <3>. QED BY <1>3, <3>1, <3>2 DEF ControlCheck
  <2>3. SecretsTypeOK'
    BY <1>3, NoSecretsType DEF ControlCheck
  <2>. QED BY <1>3, <2>1, <2>2, <2>3 DEF ControlCheck, CommandsTypeOK
<1>4. CASE ControlWrite(c)
  <2>1. Control("new") \in Contents("init") /\ Control("new") \in Contents("manifest")
    BY ConfigContents, ShimType DEF Control
  <2>2. prior[c][1] \in Contents("init") /\ prior[c][2] \in Contents("manifest")
    <3>1. prior[c] \in [1..2 -> {None} \cup ShimFiles]
      BY DEF CommandsTypeOK
    <3>2. prior[c][1] \in {None} \cup ShimFiles /\ prior[c][2] \in {None} \cup ShimFiles
      BY <3>1
    <3>. QED BY <3>2, ConfigContents
  <2>3. "init" \in Homes /\ "manifest" \in Homes
    BY ConfigContents
  <2>4. {"manifest", "undo_init", "plug", "undo_manifest"} \subseteq Steps
    BY DEF Steps
  <2>5. CASE Replaces(c, "init", "init", Control("new"), "manifest", "undo_init")
    BY <2>1, <2>3, <2>4, <2>5, ReplacesType
  <2>6. CASE Replaces(c, "manifest", "manifest", Control("new"), "plug", "undo_init")
    BY <2>1, <2>3, <2>4, <2>6, ReplacesType
  <2>7. CASE Undoes(c, "undo_init", "init", prior[c][1], "undo_manifest")
    BY <2>2, <2>3, <2>4, <2>7, UndoesType
  <2>8. CASE Undoes(c, "undo_manifest", "manifest", prior[c][2], "plug")
    BY <2>2, <2>3, <2>4, <2>8, UndoesType
  <2>. QED BY <1>4, <2>5, <2>6, <2>7, <2>8 DEF ControlWrite
<1>. QED BY <1>1, <1>2, <1>3, <1>4 DEF Shims

LEMMA EditsType ==
    ASSUME CommandsTypeOK, NEW c \in Commands
    PROVE  /\ Text(read[c]) \in Document
           /\ Aliased(c) \in Document
           /\ Was(c) \in {None} \cup Document
           /\ Text(read[c]).auto # Garbage => Configured(c) \in Document
<1>1. read[c] \in {None} \cup Document /\ url[c] \in Int
  BY DEF CommandsTypeOK
<1>2. Text(read[c]) \in Document
  BY <1>1, TextType
<1>3. Aliased(c) \in Document
  BY <1>1, <1>2 DEF Aliased, Document
<1>4. ASSUME Text(read[c]).auto # Garbage PROVE Configured(c) \in Document
  <2> DEFINE doc == Text(read[c])
  <2> DEFINE block == [Given(doc.auto, NoBlock) EXCEPT !.upstream = None, !.candidates = Approved]
  <2>1. Given(doc.auto, NoBlock) \in Settings
    BY <1>2, <1>4, EmptyType DEF Given, Document
  <2>2. [NoBlock EXCEPT !.candidates = Approved].candidates = Approved
    BY DEF NoBlock
  <2>3. block \in Settings
    BY <2>1, <2>2, SetupAssumption DEF Settings
  <2>4. Configured(c) = [doc EXCEPT !.auto = block, !.layout = "dumped"]
    BY <1>2 DEF Configured, Document
  <2>. QED BY <1>2, <2>3, <2>4 DEF Document
<1>. QED BY <1>1, <1>2, <1>3, <1>4 DEF Was

LEMMA WalksType ==
    ASSUME SecretsTypeOK, CommandsTypeOK, NoSecrets, Fine \/ Fault, Keeps, UNCHANGED home,
           pc' \in [Commands -> Steps], failed' \in [Commands -> {"no", "yes", "for good"}],
           read' \in [Commands -> {None} \cup Document]
    PROVE  SecretsTypeOK' /\ CommandsTypeOK'
<1>1. SecretsTypeOK'
  BY NoSecretsType
<1>2. DOMAIN home' = Homes /\ \A f \in Homes: home'[f] \in Contents(f)
  BY DEF CommandsTypeOK
<1>. QED BY <1>1, <1>2, KeepsType

LEMMA EnablePluginType ==
    ASSUME SecretsTypeOK, CommandsTypeOK, NEW c \in Commands, EnablePlugin(c)
    PROVE  SecretsTypeOK' /\ CommandsTypeOK'
<1>0. {"alias", "plug_check", "plug_backup", "plug_write", "plug_verify", "plug_restore"} \subseteq Steps
  BY DEF Steps
<1>1. CASE PlugRead(c)
  <2>1. pc' \in [Commands -> Steps] /\ failed' \in [Commands -> {"no", "yes", "for good"}]
    BY <1>0, <1>1, ToType, FailsToType DEF PlugRead, CommandsTypeOK
  <2>2. read' \in [Commands -> {None} \cup Document]
    BY <1>1, ReadsType DEF PlugRead, CommandsTypeOK
  <2>. QED BY <1>1, <2>1, <2>2, WalksType DEF PlugRead
<1>2. CASE PlugCheck(c)
  <2>1. pc' \in [Commands -> Steps] /\ failed' \in [Commands -> {"no", "yes", "for good"}]
    BY <1>0, <1>2, ToType, FailsToType DEF PlugCheck, CommandsTypeOK
  <2>. QED BY <1>2, <2>1, WalksType DEF PlugCheck, CommandsTypeOK
<1>3. CASE Backs(c, "plug_backup", "bak", "plug_write", "alias")
  BY <1>0, <1>3, BacksType
<1>4. CASE Replaces(c, "plug_write", "config", PlanEdit(Text(read[c])), "plug_verify", "alias")
  <2>1. PlanEdit(Text(read[c])) \in Contents("config") /\ "config" \in Homes
    BY EditsType, PlanType, ConfigContents
  <2>. QED BY <1>0, <1>4, <2>1, ReplacesType
<1>5. CASE PlugVerify(c)
  <2>1. CASE Restores(c, "plug_restore", Text(read[c]), "alias")
    BY <1>0, <2>1, EditsType, RestoresType
  <2>2. CASE /\ On(c, "plug_verify") /\ Fine
             /\ To(c, IF PlugVerified(c) THEN "alias" ELSE "plug_restore")
             /\ NoSecrets /\ UNCHANGED <<home, read, failed>> /\ Keeps
    <3>1. pc' \in [Commands -> Steps]
      BY <1>0, <2>2, ToType
    <3>. QED BY <2>2, <3>1, WalksType DEF CommandsTypeOK
  <2>. QED BY <1>5, <2>1, <2>2 DEF PlugVerify
<1>. QED BY <1>1, <1>2, <1>3, <1>4, <1>5 DEF EnablePlugin

LEMMA EnableAliasType ==
    ASSUME SecretsTypeOK, CommandsTypeOK, NEW c \in Commands, EnableAlias(c)
    PROVE  SecretsTypeOK' /\ CommandsTypeOK'
<1>0. {"finish", "alias_backup", "alias_write", "alias_verify", "alias_restore"} \subseteq Steps
  BY DEF Steps
<1>1. CASE AliasRead(c)
  <2>1. pc' \in [Commands -> Steps] /\ failed' \in [Commands -> {"no", "yes", "for good"}]
    BY <1>0, <1>1, ToType, FailsToType DEF AliasRead, CommandsTypeOK
  <2>2. Aliasable(Text(home["config"])) => home["config"] # Garbage
    BY SetupAssumption DEF Aliasable, Text
  <2>3. read' \in [Commands -> {None} \cup Document]
    BY <1>1, <2>2, ReadsType DEF AliasRead, CommandsTypeOK
  <2>. QED BY <1>1, <2>1, <2>3, WalksType DEF AliasRead
<1>2. CASE Backs(c, "alias_backup", "aliasbak", "alias_write", "alias_restore")
  BY <1>0, <1>2, BacksType
<1>3. CASE Replaces(c, "alias_write", "config", Aliased(c), "alias_verify", "alias_restore")
  <2>1. Aliased(c) \in Contents("config") /\ "config" \in Homes
    BY EditsType, ConfigContents
  <2>. QED BY <1>0, <1>3, <2>1, ReplacesType
<1>4. CASE AliasVerify(c)
  <2>1. CASE Restores(c, "alias_restore", Was(c), "finish")
    BY <1>0, <2>1, EditsType, RestoresType
  <2>2. CASE /\ On(c, "alias_verify") /\ Fine
             /\ To(c, IF ParsesTo(Aliased(c)) THEN "finish" ELSE "alias_restore")
             /\ NoSecrets /\ UNCHANGED <<home, read, failed>> /\ Keeps
    <3>1. pc' \in [Commands -> Steps]
      BY <1>0, <2>2, ToType
    <3>. QED BY <2>2, <3>1, WalksType DEF CommandsTypeOK
  <2>. QED BY <1>4, <2>1, <2>2 DEF AliasVerify
<1>. QED BY <1>1, <1>2, <1>3, <1>4 DEF EnableAlias

LEMMA FinishType ==
    ASSUME SecretsTypeOK, CommandsTypeOK, NEW c \in Commands, Finish(c)
    PROVE  SecretsTypeOK' /\ CommandsTypeOK'
<1>1. pc' \in [Commands -> Steps]
  BY ToType DEF Finish, Steps, Ended
<1>. QED BY <1>1, WalksType DEF Finish, CommandsTypeOK

LEMMA RollbackType ==
    ASSUME SecretsTypeOK, CommandsTypeOK, NEW c \in Commands, Rollback(c)
    PROVE  SecretsTypeOK' /\ CommandsTypeOK'
<1> DEFINE n == roll[c]
<1> DEFINE f == Managed[n]
<1>1. /\ n \in DOMAIN Managed /\ f \in SecretFiles \cup Homes
      /\ snap[c][n] \in Contents(f)
  BY TableOfFiles DEF CommandsTypeOK
<1>2. roll' \in [Commands -> DOMAIN Managed]
  <2>1. Len(Managed) = 8 /\ n \in 1..8 /\ DOMAIN Managed = 1..8
    BY <1>1, TableOfFiles DEF Managed
  <2>2. (IF n < Len(Managed) THEN n + 1 ELSE n) \in DOMAIN Managed
    BY <2>1
  <2>. QED BY <2>2 DEF Rollback, CommandsTypeOK
<1>3. pc' \in [Commands -> Steps]
  <2>1. To(c, "roll") \/ To(c, "restored") \/ To(c, "unrestored")
    BY DEF Rollback
  <2>. QED BY <2>1, ToType DEF Steps, Ended
<1>4. failed' \in [Commands -> {"no", "yes", "for good"}]
  BY DEF Rollback, CommandsTypeOK
<1>5. /\ secret' \in [SecretFiles -> {None} \cup Secret]
      /\ DOMAIN home' = Homes /\ \A x \in Homes: home'[x] \in Contents(x)
  <2>1. CASE f \in SecretFiles /\ Puts(f, snap[c][n]) /\ UNCHANGED home
    <3>1. snap[c][n] \in {None} \cup Secret
      BY <1>1, <2>1 DEF Contents
    <3>. QED BY <2>1, <3>1, PutsType DEF CommandsTypeOK
  <2>2. CASE f \notin SecretFiles /\ Sets(f, snap[c][n]) /\ UNCHANGED secret
    BY <1>1, <2>2, SetsType DEF SecretsTypeOK
  <2>3. CASE UNCHANGED <<home, secret>>
    BY <2>3 DEF SecretsTypeOK, CommandsTypeOK
  <2>. QED BY <2>1, <2>2, <2>3 DEF Rollback
<1>6. spent' \in 0..cast'.faults
  BY SpentType DEF Rollback, Frame
<1>7. SecretsTypeOK'
  BY <1>5, <1>6 DEF Rollback, Frame, SecretsTypeOK
<1>. QED BY <1>2, <1>3, <1>4, <1>5, <1>7 DEF Rollback, CommandsTypeOK

\* A configure that is about to write has read a document that it can edit.
Ready(c) == pc[c] \in {"cfg_backup", "cfg_write"} => Text(read[c]).auto # Garbage

LEMMA ConfigureType ==
    ASSUME SecretsTypeOK, CommandsTypeOK, NEW c \in Commands, Ready(c), Configure(c)
    PROVE  SecretsTypeOK' /\ CommandsTypeOK'
<1>0. {"refused", "cfg_backup", "cfg_write", "cfg_verify", "cfg_restore", "done", "unchanged"} \subseteq Steps
  BY DEF Steps, Ended
<1>1. CASE CfgRead(c)
  <2>1. pc' \in [Commands -> Steps]
    BY <1>0, <1>1, ToType DEF CfgRead
  <2>2. read' \in [Commands -> {None} \cup Document]
    BY <1>1, ReadsType DEF CfgRead, Configurable, CommandsTypeOK
  <2>. QED BY <1>1, <2>1, <2>2, WalksType DEF CfgRead, CommandsTypeOK
<1>2. CASE Backs(c, "cfg_backup", "confbak", "cfg_write", "cfg_restore")
  BY <1>0, <1>2, BacksType
<1>3. CASE Replaces(c, "cfg_write", "config", Configured(c), "cfg_verify", "cfg_restore")
  <2>1. Configured(c) \in Contents("config") /\ "config" \in Homes
    BY <1>3, EditsType, ConfigContents DEF Ready, Replaces, On
  <2>. QED BY <1>0, <1>3, <2>1, ReplacesType
<1>4. CASE CfgVerify(c)
  <2>1. pc' \in [Commands -> Steps]
    BY <1>0, <1>4, ToType DEF CfgVerify
  <2>. QED BY <1>4, <2>1, WalksType DEF CfgVerify, CommandsTypeOK
<1>5. CASE Restores(c, "cfg_restore", Was(c), "unchanged")
  BY <1>0, <1>5, EditsType, RestoresType
<1>. QED BY <1>1, <1>2, <1>3, <1>4, <1>5 DEF Configure

LEMMA CrashType ==
    ASSUME SecretsTypeOK, CommandsTypeOK, NEW c \in Commands, CommandCrash(c)
    PROVE  SecretsTypeOK' /\ CommandsTypeOK'
<1>0. c \in Procs
  BY DEF Procs
<1>1. pc' \in [Commands -> Steps]
  BY ToType DEF CommandCrash, Steps, Ended
<1>2. SecretsTypeOK'
  BY <1>0, DoneType, SpentType DEF CommandCrash, Frame, SecretsTypeOK
<1>3. DOMAIN home' = Homes /\ \A f \in Homes: home'[f] \in Contents(f)
  <2>1. CASE UNCHANGED home
    BY <2>1 DEF CommandsTypeOK
  <2>2. ASSUME pc[c] \in DOMAIN BackupOf, Sets(BackupOf[pc[c]], Garbage)
        PROVE  DOMAIN home' = Homes /\ \A f \in Homes: home'[f] \in Contents(f)
    <3>1. BackupOf[pc[c]] \in {"bak", "aliasbak", "confbak"}
      BY <2>2 DEF BackupOf
    <3>. QED BY <2>2, <3>1, SetsType, ConfigContents
  <2>. QED BY <2>1, <2>2 DEF CommandCrash, Torn
<1>. QED BY <1>1, <1>2, <1>3 DEF CommandCrash, Keeps, CommandsTypeOK

LEMMA UserEditType ==
    ASSUME SecretsTypeOK, CommandsTypeOK, UserEdit
    PROVE  SecretsTypeOK' /\ CommandsTypeOK'
<1>1. SecretsTypeOK'
  BY DEF UserEdit, SecretsTypeOK
<1>2. DOMAIN home' = Homes /\ \A x \in Homes: home'[x] \in Contents(x)
  <2>0. /\ "config" \in Homes /\ None \in Contents("config") /\ Garbage \in Contents("config")
        /\ \A f \in {"shim", "init"}: f \in Homes /\ Theirs \in Contents(f)
    BY DEF Homes, Contents, SecretFiles
  <2>1. CASE \E f \in {"shim", "init"}: Sets(f, Theirs)
    BY <2>0, <2>1, SetsType
  <2>2. CASE Sets("config", None) \/ Sets("config", Garbage)
    BY <2>0, <2>2, SetsType
  <2>3. ASSUME home["config"] \notin {None, Garbage}
        PROVE  /\ [home["config"] EXCEPT !.own = @ + 1, !.layout = "theirs"] \in Contents("config")
               /\ [home["config"] EXCEPT !.plugins = "others"] \in Contents("config")
    <3>1. home["config"] \in Document
      BY <2>3, HomeType
    <3>2. /\ [home["config"] EXCEPT !.own = @ + 1, !.layout = "theirs"] \in Document
          /\ [home["config"] EXCEPT !.plugins = "others"] \in Document
      <4>1. home["config"].own + 1 \in Nat /\ "others" \in Plugins
        BY <3>1 DEF Document, Plugins
      <4>. QED BY <3>1, <4>1 DEF Document
    <3>. QED BY <3>2, ConfigContents
  <2>. QED BY <2>0, <2>1, <2>2, <2>3, SetsType DEF UserEdit
<1>. QED BY <1>1, <1>2 DEF UserEdit, CommandsTypeOK

LEMMA AtStep ==
    ASSUME CommandsTypeOK, NEW c \in Commands, NEW step, To(c, step)
    PROVE  pc'[c] = step /\ \A d \in Commands: d # c => pc'[d] = pc[d]
BY DEF CommandsTypeOK, To

LEMMA CommandLocals ==
    ASSUME CommandsTypeOK, NEW c \in Commands, NEW d \in Commands, d # c,
           CommandStep(d) \/ Begin(d) \/ CommandCrash(d)
    PROVE  /\ UNCHANGED cast /\ pc'[c] = pc[c] /\ snap'[c] = snap[c]
           /\ read'[c] = read[c] /\ url'[c] = url[c]
<1>0. /\ \A step: To(d, step) => pc'[c] = pc[c]
      /\ Reads(d) => read'[c] = read[c]
  BY AtStep DEF Reads, CommandsTypeOK
<1>1. CASE Begin(d) \/ CommandCrash(d) \/ Finish(d)
  BY <1>0, <1>1 DEF Begin, CommandCrash, Finish, NoSecrets, Frame, Keeps
<1>9. CASE Resolve(d)
  <2>1. url'[c] = url[c]
    BY <1>9 DEF Resolve, CommandsTypeOK
  <2>2. \E step: To(d, step)
    BY <1>9 DEF Resolve
  <2>. QED BY <1>0, <1>9, <2>1, <2>2 DEF Resolve, NoSecrets, Frame
<1>2. CASE Snapshot(d)
  <2>1. PICK from, which, to: Snaps(d, from, which, to)
    BY <1>2 DEF Snapshot
  <2>2. snap'[c] = snap[c]
    BY <2>1 DEF Snaps, CommandsTypeOK
  <2>. QED BY <1>0, <2>1, <2>2 DEF Snaps, NoSecrets, Frame
<1>3. CASE Tokens(d)
  BY <1>0, <1>3 DEF Tokens, SecureWrite, Token, EnsureAdmin, Doctor, Minted, Permissions,
                    NoSecrets, Frame, Keeps, FailsTo
<1>4. CASE Shims(d)
  BY <1>0, <1>4 DEF Shims, InstallCheck, InstallWrite, ControlCheck, ControlWrite, Replaces,
                    Undoes, NoSecrets, Frame, Keeps, FailsTo
<1>5. CASE EnablePlugin(d)
  BY <1>0, <1>5 DEF EnablePlugin, PlugRead, PlugCheck, PlugVerify, Backs, Replaces, Restores,
                    NoSecrets, Frame, Keeps, FailsTo
<1>6. CASE EnableAlias(d)
  BY <1>0, <1>6 DEF EnableAlias, AliasRead, AliasVerify, Backs, Replaces, Restores,
                    NoSecrets, Frame, Keeps, FailsTo
<1>7. CASE Rollback(d)
  <2>1. \E step: To(d, step)
    BY <1>7 DEF Rollback
  <2>. QED BY <1>0, <1>7, <2>1 DEF Rollback, Frame
<1>8. CASE Configure(d)
  BY <1>0, <1>8 DEF Configure, CfgRead, CfgVerify, Backs, Replaces, Restores, NoSecrets, Frame,
                    Keeps, FailsTo
<1>. QED BY <1>1, <1>2, <1>3, <1>4, <1>5, <1>6, <1>7, <1>8, <1>9 DEF CommandStep

LEMMA ReadyStep ==
    ASSUME SecretsTypeOK, CommandsTypeOK, NEW c \in Commands, Ready(c),
           CommandStep(c) \/ Begin(c) \/ CommandCrash(c)
    PROVE  Ready(c)'
<1> DEFINE Others == Steps \ {"cfg_backup", "cfg_write"}
<1>0. ASSUME NEW step \in Others, To(c, step) PROVE Ready(c)'
  BY <1>0, AtStep DEF Ready
<1>1. CASE Begin(c)
  <2>1. pc'[c] \notin {"cfg_backup", "cfg_write"}
    <3>1. Op(c) \in {"setup", "configure", "doctor"}
      BY SetupAssumption DEF Op, SecretsTypeOK
    <3>. QED BY <1>1, <3>1 DEF Begin, To, CommandsTypeOK
  <2>. QED BY <2>1 DEF Ready
<1>2. CASE CfgRead(c)
  <2>1. CASE To(c, "refused")
    BY <1>0, <2>1 DEF Steps, Ended
  <2>2. CASE Configurable(home["config"]) /\ Reads(c)
    <3>1. read'[c] = home["config"]
      BY <2>2 DEF Reads, CommandsTypeOK
    <3>. QED BY <2>2, <3>1 DEF Configurable, Ready
  <2>. QED BY <1>2, <2>1, <2>2 DEF CfgRead
<1>3. CASE Backs(c, "cfg_backup", "confbak", "cfg_write", "cfg_restore")
  BY <1>3 DEF Backs, On, Ready
<1>4. CASE SecureWrite(c) /\ UNCHANGED <<pc, read>>
  BY <1>4 DEF Ready
<1>5. CASE UNCHANGED <<pc, read>>
  BY <1>5 DEF Ready
<1>6. CASE \E step \in Others: To(c, step)
  BY <1>0, <1>6
<1>7. Resolve(c) \/ Snapshot(c) \/ Finish(c) \/ CommandCrash(c) => \E step \in Others: To(c, step)
  BY DEF Resolve, Snapshot, Snaps, Finish, CommandCrash, Steps, Ended
<1>8. Tokens(c) => UNCHANGED <<pc, read>> \/ \E step \in Others: To(c, step)
  BY DEF Tokens, SecureWrite, Token, EnsureAdmin, Doctor, Minted, Permissions, FailsTo, Steps, Ended
<1>9. Shims(c) => \E step \in Others: To(c, step)
  BY DEF Shims, InstallCheck, InstallWrite, ControlCheck, ControlWrite, Replaces, Undoes,
         FailsTo, Steps
<1>10. EnablePlugin(c) => \E step \in Others: To(c, step)
  BY DEF EnablePlugin, PlugRead, PlugCheck, PlugVerify, Backs, Replaces, Restores, FailsTo, Steps
<1>11. EnableAlias(c) => \E step \in Others: To(c, step)
  BY DEF EnableAlias, AliasRead, AliasVerify, Backs, Replaces, Restores, FailsTo, Steps
<1>12. Rollback(c) => \E step \in Others: To(c, step)
  BY DEF Rollback, Steps, Ended
<1>13. /\ Replaces(c, "cfg_write", "config", Configured(c), "cfg_verify", "cfg_restore")
            => \E step \in Others: To(c, step)
       /\ CfgVerify(c) \/ Restores(c, "cfg_restore", Was(c), "unchanged")
            => \E step \in Others: To(c, step)
  BY DEF Replaces, CfgVerify, Restores, FailsTo, Steps, Ended
<1>. QED
  BY <1>1, <1>2, <1>3, <1>4, <1>5, <1>6, <1>7, <1>8, <1>9, <1>10, <1>11, <1>12, <1>13
  DEF CommandStep, Configure

LEMMA ReadyGoesOn ==
    ASSUME SecretsTypeOK, CommandsTypeOK, \A c \in Commands: Ready(c), [Next]_vars
    PROVE  \A c \in Commands: Ready(c)'
<1>1. ASSUME NEW d \in Commands, CommandStep(d) \/ Begin(d) \/ CommandCrash(d)
      PROVE  \A c \in Commands: Ready(c)'
  <2>1. ASSUME NEW c \in Commands, c # d PROVE Ready(c)'
    BY <1>1, <2>1, CommandLocals DEF Ready
  <2>. QED BY <1>1, <2>1, ReadyStep
<1>2. CASE UNCHANGED <<pc, read>>
  BY <1>2 DEF Ready
<1>3. UserEdit \/ UNCHANGED vars \/ UNCHANGED setupVars => UNCHANGED <<pc, read>>
  BY DEF UserEdit, vars, setupVars
<1>. QED BY <1>1, <1>2, <1>3 DEF Next, CommandNext

HistoryTypeOK ==
    /\ touched \in [Commands -> SUBSET (SecretFiles \cup Homes)]
    /\ racers \in [Gateways -> SUBSET Procs]

LEMMA TouchesType ==
    ASSUME HistoryTypeOK, NEW p, Touches(p)
    PROVE  HistoryTypeOK'
<1>1. touched' \in [Commands -> SUBSET (SecretFiles \cup Homes)]
  BY DEF HistoryTypeOK, Touches
<1>2. racers' \in [Gateways -> SUBSET Procs]
  BY DEF HistoryTypeOK, Touches
<1>. QED BY <1>1, <1>2 DEF HistoryTypeOK

\* Whatever the parameters, whatever the home and the state directory held: commands
\* restore, edit and back up only documents that are documents (the checks before
\* each read and each edit of commands.py), their rollback stays within its snapshots.
THEOREM TypeCorrect == Spec => []SetupTypeOK
<1>0. SetupTypeOK <=> SecretsTypeOK /\ CommandsTypeOK /\ HistoryTypeOK
  BY DEF SetupTypeOK, CommandsTypeOK, HistoryTypeOK
<1>1. SetupInit => SetupTypeOK /\ \A c \in Commands: Ready(c)
  <2> SUFFICES ASSUME SetupInit PROVE SetupTypeOK /\ \A c \in Commands: Ready(c)
    OBVIOUS
  <2>1. SecretsTypeOK
    BY SecretsAssumption DEF SetupInit, SecretsInit, SecretsTypeOK, Idle, Jobs
  <2>2. \A n \in DOMAIN Managed: None \in Contents(Managed[n])
    BY DEF Contents
  <2>3. pc \in [Commands -> Steps]
    BY DEF SetupInit, Steps
  <2>4. prior \in [Commands -> [1..2 -> {None} \cup ShimFiles]]
    BY DEF SetupInit
  <2>5. DOMAIN home = Homes /\ \A f \in Homes: home[f] \in Contents(f)
    BY <2>1, SetupAssumption DEF SetupInit, SecretsTypeOK
  <2>6. roll \in [Commands -> DOMAIN Managed]
    BY TableOfFiles DEF SetupInit
  <2>7. CommandsTypeOK
    BY <2>2, <2>3, <2>4, <2>5, <2>6 DEF SetupInit, CommandsTypeOK, NoSnapshots
  <2>8. HistoryTypeOK /\ \A c \in Commands: Ready(c)
    BY DEF SetupInit, HistoryTypeOK, Ready
  <2>. QED BY <1>0, <2>1, <2>7, <2>8
<1>2. /\ SetupTypeOK /\ (\A c \in Commands: Ready(c)) /\ [Next]_vars
      => SetupTypeOK' /\ (\A c \in Commands: Ready(c))'
  <2> SUFFICES ASSUME SecretsTypeOK, CommandsTypeOK, HistoryTypeOK,
                      \A c \in Commands: Ready(c), [Next]_vars
               PROVE  SecretsTypeOK' /\ CommandsTypeOK' /\ HistoryTypeOK'
    BY <1>0, ReadyGoesOn DEF SetupTypeOK, CommandsTypeOK, HistoryTypeOK
  <2>1. ASSUME NEW c \in Commands, CommandNext(c)
        PROVE  SecretsTypeOK' /\ CommandsTypeOK'
    BY <2>1, ResolveType, SnapshotType, TokensType, ShimsType, EnablePluginType,
       EnableAliasType, FinishType, RollbackType, ConfigureType DEF CommandNext, CommandStep
  <2>2. ASSUME NEW g \in Gateways, GatewayRuns(g), UNCHANGED setupVars
        PROVE  SecretsTypeOK' /\ CommandsTypeOK'
    BY <2>2, GatewayType DEF setupVars, CommandsTypeOK
  <2>3. CASE Next
    <3>1. SecretsTypeOK' /\ CommandsTypeOK'
      BY <2>1, <2>2, <2>3, BeginType, CrashType, UserEditType DEF Next
    <3>2. \E p: Touches(p)
      BY <2>3 DEF Next, CommandNext
    <3>. QED BY <3>1, <3>2, TouchesType
  <2>4. CASE UNCHANGED vars
    BY <2>4 DEF vars, secretVars, setupVars, SecretsTypeOK, CommandsTypeOK, HistoryTypeOK
  <2>. QED BY <2>3, <2>4
<1>. QED BY <1>1, <1>2, PTL DEF Spec

-----------------------------------------------------------------------------
(* The salt.  Who is at it is a gateway; without overlap there is one of    *)
(* them at most, from its claim on nobody has a salt in its cache, and once *)
(* it has written the file is what it wrote.                                *)

SaltJobs ==
    \A p \in Procs:
      /\ job[p].file = "salt" => p \in Gateways
      /\ job[p].step \in {"claim", "read", "undo"} => job[p].file = "salt"

Whole(id) == [id |-> id, whole |-> "yes"]

SaltInv ==
    overlap = "no" =>
      \A g \in Gateways:
        /\ salt[g] # None => Holds("salt") = salt[g]
        /\ job[g].file = "salt" =>
              /\ \A h \in Gateways: job[h].file = "salt" => h = g
              /\ job[g].step # "read" => \A h \in Gateways: salt[h] = None
              /\ job[g].step = "write" => secret["salt"] = Mine(g)
              /\ job[g].step = "written" => secret["salt"] = Whole(job[g].id)

\* Steps that leave the salt and those who are at it alone.
Quiet ==
    /\ UNCHANGED <<salt, overlap>> /\ secret'["salt"] = secret["salt"]
    /\ \A p \in Procs:
          \/ job'[p] = job[p]
          \/ job'[p].file # "salt" /\ job'[p].step \notin {"claim", "read", "undo"}

LEMMA QuietKeeps ==
    ASSUME SecretsTypeOK, SaltJobs, SaltInv, Quiet
    PROVE  SaltJobs' /\ SaltInv'
<1>1. SaltJobs'
  BY DEF SaltJobs, Quiet
<1>2. \A g \in Gateways: job'[g].file = "salt" => job'[g] = job[g]
  BY DEF Quiet, Procs
<1>3. UNCHANGED <<salt, overlap>> /\ Holds("salt")' = Holds("salt")
  BY DEF Quiet, Holds
<1>4. \A g \in Gateways: job'[g] = job[g] => Mine(g)' = Mine(g)
  BY DEF Mine
<1>5. secret'["salt"] = secret["salt"]
  BY DEF Quiet
<1>6. SaltInv'
  BY <1>2, <1>3, <1>4, <1>5 DEF SaltInv
<1>. QED BY <1>1, <1>6

LEMMA NoSecretsQuiet ==
    ASSUME NoSecrets
    PROVE  Quiet
BY DEF NoSecrets, Frame, Quiet

LEMMA DoneQuiet ==
    ASSUME SecretsTypeOK, NEW p \in Procs, Done(p),
           UNCHANGED <<salt, overlap>>, secret'["salt"] = secret["salt"]
    PROVE  Quiet
BY SecretsAssumption DEF SecretsTypeOK, Done, Idle, Quiet, SecretFiles

LEMMA DrawQuiet ==
    ASSUME SecretsTypeOK, NEW p \in Procs, NEW f \in {"token", "admin"}, Draw(p, f, "unlink"),
           UNCHANGED <<salt, overlap, secret>>
    PROVE  Quiet
BY DEF SecretsTypeOK, Draw, Quiet

LEMMA GoesStep ==
    ASSUME SecretsTypeOK, NEW p \in Procs, NEW step, Goes(p, step)
    PROVE  /\ job'[p].file = job[p].file /\ job'[p].id = job[p].id /\ job'[p].step = step
           /\ \A q \in Procs: q # p => job'[q] = job[q]
BY DEF SecretsTypeOK, Jobs, Goes

LEMMA SecureWriteQuiet ==
    ASSUME SecretsTypeOK, NEW p \in Procs, job[p].file # "salt", SecureWrite(p)
    PROVE  Quiet
<1>1. UNCHANGED <<salt, overlap>>
  BY DEF SecureWrite
<1>2. secret'["salt"] = secret["salt"]
  BY DEF SecureWrite, Unlink, Create, Write, Puts, SecretsTypeOK, SecretFiles
<1>3. PICK step \in {"create", "write", "written", "failed"}: Goes(p, step)
  BY DEF SecureWrite, Unlink, Create, Write
<1>4. /\ job'[p].file # "salt" /\ job'[p].step \notin {"claim", "read", "undo"}
      /\ \A q \in Procs: q # p => job'[q] = job[q]
  BY <1>3, GoesStep
<1>. QED BY <1>1, <1>2, <1>4 DEF Quiet

LEMMA CommandQuiet ==
    ASSUME SecretsTypeOK, CommandsTypeOK, SaltJobs, NEW c \in Commands,
           CommandStep(c) \/ Begin(c) \/ CommandCrash(c)
    PROVE  Quiet
<1>0. c \in Procs /\ job[c].file # "salt"
  BY SecretsAssumption DEF SaltJobs, Procs
<1>1. CASE NoSecrets
  BY <1>1, NoSecretsQuiet
<1>2. CASE Begin(c)
  BY <1>2 DEF Begin, Quiet
<1>3. CASE CommandCrash(c)
  BY <1>0, <1>3, DoneQuiet DEF CommandCrash, Frame
<1>4. CASE Tokens(c)
  <2>1. CASE SecureWrite(c)
    BY <1>0, <2>1, SecureWriteQuiet
  <2>2. CASE Token(c)
    BY <1>0, <2>2, DrawQuiet DEF Token, Frame, Quiet
  <2>3. ASSUME NEW from, NEW next, EnsureAdmin(c, from, next)
        PROVE  Quiet
    BY <1>0, <2>3, DrawQuiet DEF EnsureAdmin, Frame, Quiet
  <2>4. ASSUME NEW from, NEW next, NEW skip, Minted(c, from, next, skip)
        PROVE  Quiet
    BY <1>0, <2>4, DoneQuiet DEF Minted, Frame
  <2>5. ASSUME NEW from, NEW f, NEW next, Permissions(c, from, f, next)
        PROVE  Quiet
    BY <2>5, NoSecretsQuiet DEF Permissions
  <2>6. CASE Doctor(c)
    BY <2>6, NoSecretsQuiet DEF Doctor
  <2>. QED BY <1>4, <2>1, <2>2, <2>3, <2>4, <2>5, <2>6 DEF Tokens
<1>5. CASE Rollback(c)
  <2>1. Managed[roll[c]] # "salt"
    BY TableOfFiles DEF CommandsTypeOK
  <2>2. secret'["salt"] = secret["salt"]
    BY <1>5, <2>1 DEF Rollback, Puts, SecretsTypeOK, SecretFiles
  <2>. QED BY <1>5, <2>2 DEF Rollback, Frame, Quiet
<1>6. Resolve(c) \/ Snapshot(c) => NoSecrets
  BY DEF Resolve, Snapshot, Snaps
<1>7. Shims(c) => NoSecrets
  BY DEF Shims, InstallCheck, InstallWrite, ControlCheck, ControlWrite, Replaces, Undoes
<1>8. EnablePlugin(c) => NoSecrets
  BY DEF EnablePlugin, PlugRead, PlugCheck, PlugVerify, Backs, Replaces, Restores
<1>9. EnableAlias(c) => NoSecrets
  BY DEF EnableAlias, AliasRead, AliasVerify, Backs, Replaces, Restores
<1>10. Configure(c) => NoSecrets
  BY DEF Configure, CfgRead, CfgVerify, Backs, Replaces, Restores
<1>11. Finish(c) => NoSecrets
  BY DEF Finish
<1>. QED
  BY <1>1, <1>2, <1>3, <1>4, <1>5, <1>6, <1>7, <1>8, <1>9, <1>10, <1>11 DEF CommandStep

\* What one gateway's step has to show: of its own, as nobody else's job changes.
LEMMA OneAtIt ==
    ASSUME SecretsTypeOK, SaltJobs, SaltInv, NEW g \in Gateways,
           UNCHANGED overlap, \A p \in Procs: p # g => job'[p] = job[p],
           job'[g].step \in {"claim", "read", "undo"} => job'[g].file = "salt",
           overlap = "no" =>
             /\ job[g].file = "salt"
             /\ \A h \in Gateways: salt'[h] # None => Holds("salt")' = salt'[h]
             /\ job'[g].file = "salt" =>
                  /\ job'[g].step # "read" => \A h \in Gateways: salt'[h] = None
                  /\ job'[g].step = "write" => secret'["salt"] = Mine(g)'
                  /\ job'[g].step = "written" => secret'["salt"] = Whole(job'[g].id)
    PROVE  SaltJobs' /\ SaltInv'
<1>0. g \in Procs /\ Gateways \subseteq Procs
  BY DEF Procs
<1>1. SaltJobs'
  BY <1>0 DEF SaltJobs
<1>2. ASSUME overlap = "no", NEW h \in Gateways, job'[h].file = "salt" PROVE h = g
  <2>1. job[g].file = "salt"
    BY <1>2
  <2>2. h # g => job'[h] = job[h]
    BY <1>0
  <2>3. h # g => job[h].file = "salt"
    BY <1>2, <2>2
  <2>. QED BY <1>2, <2>1, <2>3 DEF SaltInv
<1>3. SaltInv'
  BY <1>2 DEF SaltInv, Whole
<1>. QED BY <1>1, <1>3

LEMMA SecureWriteSalt ==
    ASSUME SecretsTypeOK, SaltJobs, SaltInv, NEW g \in Gateways, job[g].file = "salt",
           SecureWrite(g)
    PROVE  SaltJobs' /\ SaltInv'
<1>0. g \in Procs /\ job[g] \in Jobs
  BY JobType DEF Procs
<1>1. UNCHANGED <<overlap, salt>>
  BY DEF SecureWrite
<1>2. ASSUME NEW step \in {"create", "write", "written", "failed"}, Goes(g, step),
             overlap = "no" => /\ step = "write" => secret'["salt"] = Mine(g)
                               /\ step = "written" => secret'["salt"] = Whole(job[g].id),
             job[g].step # "read"
      PROVE  SaltJobs' /\ SaltInv'
  <2>1. /\ job'[g].file = "salt" /\ job'[g].id = job[g].id /\ job'[g].step = step
        /\ \A p \in Procs: p # g => job'[p] = job[p]
    BY <1>0, <1>2, GoesStep
  <2>2. Mine(g)' = Mine(g)
    BY <2>1 DEF Mine
  <2>3. overlap = "no" => \A h \in Gateways: salt'[h] = None
    BY <1>1, <1>2 DEF SaltInv
  <2>4. overlap = "no" => /\ step = "write" => secret'["salt"] = Mine(g)'
                          /\ step = "written" => secret'["salt"] = Whole(job'[g].id)
    BY <1>2, <2>1, <2>2
  <2>. QED BY <1>1, <1>2, <2>1, <2>3, <2>4, OneAtIt
<1>3. CASE Unlink(g)
  <2>1. \E step \in {"create", "failed"}: Goes(g, step)
    BY <1>3 DEF Unlink
  <2>2. job[g].step # "read"
    BY <1>3 DEF Unlink, At
  <2>. QED BY <1>2, <2>1, <2>2
<1>4. CASE Create(g)
  <2>1. job[g].step # "read"
    BY <1>4 DEF Create, At
  <2>2. CASE Goes(g, "failed")
    BY <1>2, <2>1, <2>2
  <2>3. CASE Puts(job[g].file, [id |-> job[g].id, whole |-> "no"]) /\ Goes(g, "write")
    <3>1. secret'["salt"] = Mine(g)
      BY <2>3 DEF Puts, Mine, SecretsTypeOK, SecretFiles
    <3>. QED BY <1>2, <2>1, <2>3, <3>1
  <2>. QED BY <1>4, <2>2, <2>3 DEF Create
<1>5. CASE Write(g)
  <2>1. job[g].step # "read" /\ job[g].step = "write"
    BY <1>5 DEF Write, At
  <2>2. CASE Goes(g, "failed")
    BY <1>2, <2>1, <2>2
  <2>3. CASE /\ Goes(g, "written")
             /\ IF secret[job[g].file] = Mine(g)
                  THEN Puts(job[g].file, [Mine(g) EXCEPT !.whole = "yes"])
                  ELSE UNCHANGED secret
    <3>1. ASSUME overlap = "no" PROVE secret'["salt"] = Whole(job[g].id)
      <4>1. secret["salt"] = Mine(g)
        BY <2>1, <3>1 DEF SaltInv
      <4>2. [Mine(g) EXCEPT !.whole = "yes"] = Whole(job[g].id)
        BY DEF Mine, Whole
      <4>. QED BY <2>3, <4>1, <4>2 DEF Puts, SecretsTypeOK, SecretFiles
    <3>. QED BY <1>2, <2>1, <2>3, <3>1
  <2>. QED BY <1>5, <2>2, <2>3 DEF Write
<1>. QED BY <1>3, <1>4, <1>5 DEF SecureWrite

LEMMA DoneStep ==
    ASSUME SecretsTypeOK, NEW p \in Procs, Done(p)
    PROVE  /\ job'[p].file # "salt" /\ job'[p].step = "idle"
           /\ \A q \in Procs: q # p => job'[q] = job[q]
BY SecretsAssumption DEF SecretsTypeOK, Done, Idle, SecretFiles

LEMMA LookUpSalt ==
    ASSUME SecretsTypeOK, SaltJobs, SaltInv, NEW g \in Gateways, LookUp(g)
    PROVE  SaltJobs' /\ SaltInv'
<1>0. g \in Procs /\ Gateways \subseteq Procs
  BY DEF Procs
<1>1. /\ job'[g].file = "salt" /\ job'[g].step \in {"claim", "read"}
      /\ \A p \in Procs: p # g => job'[p] = job[p]
      /\ job'[g].step # "read" => secret["salt"] = None
  BY <1>0 DEF LookUp, Draw, SecretsTypeOK
<1>2. SaltJobs'
  BY <1>0, <1>1 DEF SaltJobs
<1>3. UNCHANGED <<secret, salt>> /\ Holds("salt")' = Holds("salt")
  BY DEF LookUp, Holds
<1>4. SaltInv'
  <2> SUFFICES ASSUME overlap' = "no" PROVE SaltInv'
    BY DEF SaltInv
  <2>1. overlap = "no" /\ \A h \in Gateways: h # g => job[h].file # "salt"
    BY DEF LookUp, SecretsTypeOK
  <2>2. \A h \in Gateways: salt'[h] # None => Holds("salt")' = salt'[h]
    BY <1>3, <2>1 DEF SaltInv
  <2>3. \A h \in Gateways: job'[h].file = "salt" => h = g
    BY <1>0, <1>1, <2>1
  <2>4. job'[g].step # "read" => \A h \in Gateways: salt'[h] = None
    BY <1>1, <1>3, <2>1 DEF SaltInv, Holds
  <2>5. job'[g].step # "write" /\ job'[g].step # "written"
    BY <1>1
  <2>. QED BY <2>2, <2>3, <2>4, <2>5 DEF SaltInv
<1>. QED BY <1>2, <1>4

LEMMA ClaimSalt ==
    ASSUME SecretsTypeOK, SaltJobs, SaltInv, NEW g \in Gateways, Claim(g)
    PROVE  SaltJobs' /\ SaltInv'
<1>0. g \in Procs /\ job[g].file = "salt" /\ job[g].step = "claim"
  BY DEF Procs, Claim, At, SaltJobs
<1>1. UNCHANGED <<overlap, salt>>
  BY DEF Claim
<1>2. overlap = "no" => \A h \in Gateways: salt'[h] = None
  BY <1>0, <1>1 DEF SaltInv
<1>3. CASE Done(g)
  BY <1>0, <1>1, <1>2, <1>3, DoneStep, OneAtIt
<1>4. ASSUME NEW step \in {"read", "unlink"}, Goes(g, step)
      PROVE  SaltJobs' /\ SaltInv'
  <2>1. /\ job'[g].file = "salt" /\ job'[g].step = step
        /\ \A p \in Procs: p # g => job'[p] = job[p]
    BY <1>0, <1>4, GoesStep
  <2>. QED BY <1>0, <1>1, <1>2, <2>1, OneAtIt
<1>. QED BY <1>3, <1>4 DEF Claim

LEMMA ReadSaltSalt ==
    ASSUME SecretsTypeOK, SaltJobs, SaltInv, NEW g \in Gateways, ReadSalt(g)
    PROVE  SaltJobs' /\ SaltInv'
<1>0. g \in Procs /\ job[g].file = "salt"
  BY DEF Procs, ReadSalt, At, SaltJobs
<1>1. UNCHANGED overlap /\ Holds("salt")' = Holds("salt") /\ Done(g)
  BY DEF ReadSalt, Holds
<1>2. \A h \in Gateways: salt'[h] = salt[h] \/ salt'[h] = Holds("salt")
  BY DEF ReadSalt, SecretsTypeOK
<1>3. overlap = "no" => \A h \in Gateways: salt'[h] # None => Holds("salt")' = salt'[h]
  BY <1>1, <1>2 DEF SaltInv
<1>. QED BY <1>0, <1>1, <1>3, DoneStep, OneAtIt

LEMMA SaltWrittenSalt ==
    ASSUME SecretsTypeOK, SaltJobs, SaltInv, NEW g \in Gateways, SaltWritten(g)
    PROVE  SaltJobs' /\ SaltInv'
<1>0. g \in Procs /\ job[g].file = "salt" /\ job[g].step = "written"
  BY DEF Procs, SaltWritten, At
<1>1. UNCHANGED <<overlap, secret>> /\ Holds("salt")' = Holds("salt")
  BY DEF SaltWritten, Holds
<1>2. overlap = "no" =>
        (\A h \in Gateways: salt[h] = None) /\ secret["salt"] = Whole(job[g].id)
  BY <1>0 DEF SaltInv
<1>3. CASE Done(g) /\ secret["salt"] # None /\ salt' = [salt EXCEPT ![g] = job[g].id]
  <2>1. secret["salt"] = Whole(job[g].id) => Holds("salt") = job[g].id
    BY <1>3 DEF Holds, Whole
  <2>2. overlap = "no" => \A h \in Gateways: salt'[h] # None => Holds("salt")' = salt'[h]
    BY <1>1, <1>2, <1>3, <2>1 DEF SecretsTypeOK
  <2>. QED BY <1>0, <1>1, <1>3, <2>2, DoneStep, OneAtIt
<1>4. CASE Goes(g, "undo") /\ UNCHANGED salt
  <2>1. /\ job'[g].file = "salt" /\ job'[g].step = "undo"
        /\ \A p \in Procs: p # g => job'[p] = job[p]
    BY <1>0, <1>4, GoesStep
  <2>2. overlap = "no" => \A h \in Gateways: salt'[h] = None
    BY <1>2, <1>4
  <2>. QED BY <1>0, <1>1, <2>1, <2>2, OneAtIt
<1>. QED BY <1>3, <1>4 DEF SaltWritten

LEMMA SaltUndone ==
    ASSUME SecretsTypeOK, SaltJobs, SaltInv, NEW g \in Gateways, SaltFailed(g) \/ Undo(g)
    PROVE  SaltJobs' /\ SaltInv'
<1>0. g \in Procs /\ job[g].file = "salt" /\ job[g].step # "read"
  BY DEF Procs, SaltFailed, Undo, At, SaltJobs
<1>1. UNCHANGED <<overlap, salt>>
  BY DEF SaltFailed, Undo
<1>2. overlap = "no" => \A h \in Gateways: salt'[h] = None
  BY <1>0, <1>1 DEF SaltInv
<1>3. CASE SaltFailed(g)
  <2>1. /\ job'[g].file = "salt" /\ job'[g].step = "undo"
        /\ \A p \in Procs: p # g => job'[p] = job[p]
    BY <1>0, <1>3, GoesStep DEF SaltFailed
  <2>. QED BY <1>0, <1>1, <1>2, <2>1, OneAtIt
<1>4. CASE Undo(g)
  <2>1. Done(g)
    BY <1>4 DEF Undo
  <2>. QED BY <1>0, <1>1, <1>2, <2>1, DoneStep, OneAtIt
<1>. QED BY <1>3, <1>4

LEMMA CrashSalt ==
    ASSUME SecretsTypeOK, SaltJobs, SaltInv, NEW g \in Gateways, Crash(g)
    PROVE  SaltJobs' /\ SaltInv'
<1>0. g \in Procs /\ Gateways \subseteq Procs
  BY DEF Procs
<1>1. /\ job'[g].file # "salt" /\ job'[g].step = "idle"
      /\ \A q \in Procs: q # g => job'[q] = job[q]
  BY <1>0, DoneStep DEF Crash
<1>2. UNCHANGED <<overlap, secret>> /\ Holds("salt")' = Holds("salt")
  BY DEF Crash, Holds
<1>3. \A h \in Gateways: salt'[h] = salt[h] \/ salt'[h] = None
  BY DEF Crash, SecretsTypeOK
<1>4. SaltJobs'
  BY <1>1 DEF SaltJobs
<1>5. ASSUME NEW h \in Gateways, job'[h].file = "salt"
      PROVE  job'[h] = job[h] /\ Mine(h)' = Mine(h) /\ h # g
  BY <1>0, <1>1, <1>5 DEF Mine
<1>6. SaltInv'
  BY <1>2, <1>3, <1>5 DEF SaltInv
<1>. QED BY <1>4, <1>6

LEMMA GatewaySalt ==
    ASSUME SecretsTypeOK, SaltJobs, SaltInv, NEW g \in Gateways, GatewayRuns(g)
    PROVE  SaltJobs' /\ SaltInv'
<1>0. g \in Procs
  BY DEF Procs
<1>1. CASE Start(g) \/ ReadToken(g) \/ TokenMinted(g) \/ ReadAdmin(g) \/ AdminMinted(g)
  <2>1. Start(g) => Quiet
    BY DEF Start, Quiet
  <2>2. ReadToken(g) => Quiet
    BY <1>0, DrawQuiet DEF ReadToken, Quiet
  <2>3. TokenMinted(g) => Quiet
    BY <1>0, DoneQuiet DEF TokenMinted
  <2>4. ReadAdmin(g) => Quiet
    BY <1>0, DrawQuiet DEF ReadAdmin, Quiet
  <2>5. AdminMinted(g) => Quiet
    BY <1>0, DoneQuiet DEF AdminMinted
  <2>. QED BY <1>1, <2>1, <2>2, <2>3, <2>4, <2>5, QuietKeeps
<1>2. CASE SecureWrite(g)
  BY <1>0, <1>2, SecureWriteSalt, SecureWriteQuiet, QuietKeeps
<1>. QED
  BY <1>1, <1>2, LookUpSalt, ClaimSalt, ReadSaltSalt, SaltWrittenSalt, SaltUndone, CrashSalt
  DEF GatewayRuns, GatewayStep

LEMMA SaltsGoOn ==
    ASSUME SetupTypeOK, SaltJobs, SaltInv, [Next]_vars
    PROVE  SaltJobs' /\ SaltInv'
<1>0. SecretsTypeOK /\ CommandsTypeOK
  BY DEF SetupTypeOK, CommandsTypeOK
<1>1. \/ \E c \in Commands: CommandStep(c) \/ Begin(c) \/ CommandCrash(c)
      \/ \E g \in Gateways: GatewayRuns(g)
      \/ UserEdit
      \/ UNCHANGED vars
  BY DEF Next, CommandNext
<1>2. UserEdit \/ UNCHANGED vars => Quiet
  BY DEF UserEdit, Quiet, vars, secretVars
<1>. QED BY <1>0, <1>1, <1>2, CommandQuiet, GatewaySalt, QuietKeeps

\* Gateways that went for the salt one after the other agree on it, however many
\* there are and whatever fails: _load_or_create_salt caches nothing that another
\* step of its own, or a command beside it, could still take away.
THEOREM SaltsAgreeInTurn == Spec => []SerialSaltsAgree
<1>1. SetupInit => SaltJobs /\ SaltInv
  BY SecretsAssumption DEF SetupInit, SecretsInit, SaltJobs, SaltInv, Idle, SecretFiles, Procs
<1>2. SetupTypeOK /\ SaltJobs /\ SaltInv /\ [Next]_vars => SaltJobs' /\ SaltInv'
  BY SaltsGoOn
<1>3. SaltInv => SerialSaltsAgree
  BY DEF SaltInv, SerialSaltsAgree
<1>. QED BY <1>1, <1>2, <1>3, TypeCorrect, PTL DEF Spec

-----------------------------------------------------------------------------
(* What a setup must not lose.  By its table of files: 3, 4 and 5 are the   *)
(* shim's and the control shim's, 6 is config.yaml.  Besides what the two   *)
(* properties say, a setup that found somebody else's file never gets to    *)
(* the steps that write there, and what it edits is what it found but for   *)
(* the plugins and the alias.                                               *)

Writing(n) ==
    IF n = 3 THEN {"shim_write"} ELSE {"init", "manifest", "undo_init", "undo_manifest"}

Planned == {"plug_backup", "plug_write"}

Aliasing == {"alias_backup", "alias_write", "alias_verify", "alias_restore"}

Editing == Planned \cup {"plug_check", "plug_verify", "plug_restore"} \cup Aliasing

Configures == {"cfg", "cfg_backup", "cfg_write", "cfg_verify", "cfg_restore"}

\* Equal, or equal in what is the operator's but for an alias that was set.
Same(now, then, port) ==
    \/ now = then
    \/ /\ now # Garbage /\ then # Garbage
       /\ Text(now).own = Text(then).own /\ Text(now).auto = Text(then).auto
       /\ Text(now).bare = Text(then).bare
       /\ \/ Text(now).layout = Text(then).layout /\ Text(now).alias = Text(then).alias
          \/ Text(then).alias # port /\ Text(now).alias = port

KeepsFiles(c) ==
    \A n \in 3..5: snap[c][n] = Theirs /\ Managed[n] \notin touched[c] =>
      home[Managed[n]] = Theirs /\ pc[c] \notin Writing(n)

KeepsConfig(c) ==
    /\ "config" \notin touched[c] =>
          /\ Same(home["config"], snap[c][6], url[c])
          /\ pc[c] \in Editing => Same(read[c], snap[c][6], url[c])
    /\ pc[c] \in Aliasing => Text(read[c]).alias # url[c]
    /\ pc[c] \in Planned => PlanEdit(Text(read[c])) # None

Kept(c) ==
    /\ Op(c) = "setup" => pc[c] \notin Configures
    /\ Transacts(c) => KeepsFiles(c) /\ KeepsConfig(c)

LEMMA Slots ==
    /\ Managed[3] = "shim" /\ Managed[4] = "init" /\ Managed[5] = "manifest"
    /\ Managed[6] = "config"
    /\ \A n \in 1..8: /\ Managed[n] = "shim" <=> n = 3
                      /\ Managed[n] = "init" <=> n = 4
                      /\ Managed[n] = "manifest" <=> n = 5
                      /\ Managed[n] = "config" <=> n = 6
    /\ DOMAIN Managed = 1..8
BY DEF Managed

LEMMA FoundAt ==
    ASSUME NEW c \in Commands
    PROVE  /\ Found(c, "shim") = snap[c][3] /\ Found(c, "init") = snap[c][4]
           /\ Found(c, "manifest") = snap[c][5] /\ Found(c, "config") = snap[c][6]
<1>1. (CHOOSE n \in DOMAIN Managed: Managed[n] = "shim") = 3
  BY Slots
<1>2. (CHOOSE n \in DOMAIN Managed: Managed[n] = "init") = 4
  BY Slots
<1>3. (CHOOSE n \in DOMAIN Managed: Managed[n] = "manifest") = 5
  BY Slots
<1>4. (CHOOSE n \in DOMAIN Managed: Managed[n] = "config") = 6
  BY Slots
<1>. QED BY <1>1, <1>2, <1>3, <1>4 DEF Found

LEMMA KeptSays ==
    ASSUME \A c \in Commands: Kept(c)
    PROVE  UnownedKept /\ UserConfigKept
<1>1. UnownedKept
  <2> SUFFICES ASSUME NEW c \in Commands, Transacts(c), NEW f \in {"shim", "init", "manifest"},
                      Found(c, f) = Theirs, Undisturbed(c, {f})
               PROVE  home[f] = Theirs
    BY DEF UnownedKept
  <2>1. KeepsFiles(c) /\ f \notin touched[c]
    BY DEF Kept, Undisturbed
  <2>. QED BY <2>1, FoundAt, Slots DEF KeepsFiles
<1>2. UserConfigKept
  <2> SUFFICES ASSUME NEW c \in Commands, Transacts(c), Undisturbed(c, {"config"})
               PROVE  Same(home["config"], Found(c, "config"), url[c])
    BY DEF UserConfigKept, Same
  <2>1. KeepsConfig(c) /\ "config" \notin touched[c]
    BY DEF Kept, Undisturbed
  <2>. QED BY <2>1, FoundAt DEF KeepsConfig
<1>. QED BY <1>1, <1>2

\* Steps of c that write no file and read no document.
Calm(c) ==
    /\ UNCHANGED <<cast, home>> /\ snap'[c] = snap[c] /\ touched'[c] = touched[c]
    /\ url'[c] = url[c]
    /\ Transacts(c)' => Transacts(c)
    /\ Op(c) = "setup" => pc'[c] \notin Configures
    /\ \A n \in 3..5: pc'[c] \in Writing(n) => pc[c] \in Writing(n)
    /\ pc'[c] \in Editing => pc[c] \in Editing /\ read'[c] = read[c]
    /\ pc'[c] \in Planned => pc[c] \in Planned
    /\ pc'[c] \in Aliasing => pc[c] \in Aliasing

LEMMA CalmKeeps ==
    ASSUME NEW c \in Commands, Kept(c), Calm(c)
    PROVE  Kept(c)'
<1>1. Op(c)' = Op(c) /\ (Op(c) = "setup" => pc'[c] \notin Configures)
  BY DEF Calm, Op
<1>2. ASSUME Transacts(c)' PROVE KeepsFiles(c)' /\ KeepsConfig(c)'
  <2>1. KeepsFiles(c) /\ KeepsConfig(c)
    BY <1>2 DEF Calm, Kept
  <2>2. KeepsFiles(c)'
    BY <2>1 DEF Calm, KeepsFiles, Writing
  <2>3. KeepsConfig(c)'
    BY <2>1 DEF Calm, KeepsConfig, Same, Editing
  <2>. QED BY <2>2, <2>3
<1>. QED BY <1>1, <1>2 DEF Kept

Early == {"off", "resolve", "snap_token", "snap_admin", "snap_home"}

LEMMA TransactsAt ==
    ASSUME NEW c \in Commands
    PROVE  Transacts(c) <=> Op(c) = "setup" /\ pc[c] \notin Early \cup Ended
BY DEF Transacts, Running, Early

LEMMA Outside ==
    ASSUME NEW c \in Commands, UNCHANGED cast,
           Op(c) = "setup" => pc'[c] \notin Configures, Op(c) # "setup" \/ pc'[c] \in Early \cup Ended
    PROVE  Kept(c)'
<1>1. Op(c)' = Op(c)
  BY DEF Op
<1>2. Op(c)' # "setup" \/ pc'[c] \in Early \cup Ended
  BY <1>1
<1>3. Transacts(c)' => Op(c)' = "setup" /\ pc'[c] \notin Early \cup Ended
  BY DEF Transacts, Running, Early
<1>. QED BY <1>1, <1>2, <1>3 DEF Kept

\* From one step of setup to another that writes no file of the home.
LEMMA WalkCalm ==
    ASSUME NEW c \in Commands, UNCHANGED <<cast, home, snap, url>>, touched'[c] = touched[c],
           pc[c] \notin Early \cup Ended,
           \/ pc'[c] = pc[c] /\ read'[c] = read[c] /\ (Op(c) = "setup" => pc[c] \notin Configures)
           \/ pc'[c] \in {"token_perms", "admin", "admin_perms", "shim", "control", "plug",
                          "alias", "finish", "roll", "doctor_mint"} \cup Ended
    PROVE  Calm(c)
<1>1. Transacts(c)' => Transacts(c)
  BY DEF Transacts, Running, Early, Op
<1>2. Op(c) = "setup" => pc'[c] \notin Configures
  BY DEF Configures, Ended, Editing, Planned, Aliasing
<1>3. \A n \in 3..5: pc'[c] \in Writing(n) => pc[c] \in Writing(n)
  BY DEF Writing, Ended, Editing, Planned, Aliasing
<1>4. pc'[c] \in Editing => pc[c] \in Editing /\ read'[c] = read[c]
  BY DEF Ended, Editing, Planned, Aliasing
<1>5. pc'[c] \in Planned => pc[c] \in Planned
  BY DEF Ended, Planned
<1>6. pc'[c] \in Aliasing => pc[c] \in Aliasing
  BY DEF Ended, Aliasing
<1>. QED BY <1>1, <1>2, <1>3, <1>4, <1>5, <1>6 DEF Calm

LEMMA BeginKept ==
    ASSUME CommandsTypeOK, NEW c \in Commands, Begin(c) \/ Resolve(c) \/ CommandCrash(c)
    PROVE  Kept(c)'
<1>1. UNCHANGED cast
  BY DEF Begin, Resolve, CommandCrash, NoSecrets, Frame
<1>2. Op(c) = "setup" => pc'[c] \in Early \cup Ended
  <2>1. CASE Begin(c)
    BY <2>1 DEF Begin, To, CommandsTypeOK, Early
  <2>2. CASE Resolve(c) \/ CommandCrash(c)
    <3>1. \E step \in {"refused", "snap_token", "crashed"}: To(c, step)
      BY <2>2 DEF Resolve, CommandCrash
    <3>2. pc'[c] \in {"refused", "snap_token", "crashed"}
      BY <3>1, AtStep
    <3>. QED BY <3>2 DEF Early, Ended
  <2>. QED BY <2>1, <2>2
<1>. QED BY <1>1, <1>2, Outside DEF Early, Ended, Configures

LEMMA SnapshotKept ==
    ASSUME CommandsTypeOK, NEW c \in Commands, Snapshot(c), touched'[c] = touched[c]
    PROVE  Kept(c)'
<1>1. UNCHANGED <<cast, home>>
  BY DEF Snapshot, Snaps, NoSecrets, Frame
<1>2. CASE pc'[c] \in {"snap_admin", "snap_home", "refused"}
  BY <1>1, <1>2, Outside DEF Early, Ended, Configures
<1>3. CASE /\ To(c, "token")
           /\ snap' = [snap EXCEPT ![c] = [n \in DOMAIN Managed |->
                        IF n \in 3..8 THEN Content(Managed[n]) ELSE @[n]]]
  <2>1. pc'[c] = "token"
    BY <1>3, AtStep
  <2>2. \A n \in 3..6: snap'[c][n] = home'[Managed[n]]
    <3>1. c \in DOMAIN snap
      BY DEF CommandsTypeOK
    <3>2. \A n \in 3..6: n \in DOMAIN Managed /\ n \in 3..8 /\ Managed[n] \notin SecretFiles
      BY TableOfFiles
    <3>3. \A n \in 3..6: snap'[c][n] = Content(Managed[n])
      BY <1>3, <3>1, <3>2
    <3>4. \A n \in 3..6: Content(Managed[n]) = home[Managed[n]]
      BY <3>2 DEF Content
    <3>. QED BY <1>1, <3>3, <3>4
  <2>3. KeepsFiles(c)'
    BY <2>1, <2>2 DEF KeepsFiles, Writing
  <2>4. KeepsConfig(c)'
    BY <2>1, <2>2, Slots DEF KeepsConfig, Same, Editing, Planned, Aliasing
  <2>5. pc'[c] \notin Configures
    BY <2>1 DEF Configures
  <2>. QED BY <2>3, <2>4, <2>5 DEF Kept
<1>4. \/ \E step \in {"snap_admin", "snap_home", "refused"}: To(c, step)
      \/ To(c, "token") /\ Snaps(c, "snap_home", 3..8, "token")
  BY DEF Snapshot, Snaps
<1>5. \/ pc'[c] \in {"snap_admin", "snap_home", "refused"}
      \/ To(c, "token") /\ Snaps(c, "snap_home", 3..8, "token")
  BY <1>4, AtStep
<1>6. Snaps(c, "snap_home", 3..8, "token") =>
        \/ To(c, "refused")
        \/ To(c, "token")
           /\ snap' = [snap EXCEPT ![c] = [n \in DOMAIN Managed |->
                        IF n \in 3..8 THEN Content(Managed[n]) ELSE @[n]]]
  BY DEF Snaps
<1>7. To(c, "refused") => pc'[c] = "refused"
  BY AtStep
<1>. QED BY <1>2, <1>3, <1>5, <1>6, <1>7

LEMMA TokensKept ==
    ASSUME CommandsTypeOK, NEW c \in Commands, Kept(c), Tokens(c), touched'[c] = touched[c]
    PROVE  Kept(c)'
<1>1. UNCHANGED <<cast, home, snap, read, url>>
  BY DEF Tokens, SecureWrite, Token, EnsureAdmin, Doctor, Minted, Permissions, NoSecrets,
         Frame, Keeps
<1>2. CASE pc[c] \in Early \cup Ended
  <2>1. \/ pc' = pc
        \/ pc[c] \in {"token", "token_perms", "admin", "admin_perms", "doctor", "doctor_mint"}
    BY DEF Tokens, Token, EnsureAdmin, Doctor, Minted, Permissions, On
  <2>. QED BY <1>1, <1>2, <2>1, Outside DEF Early, Ended, Configures
<1>3. CASE pc[c] \notin Early \cup Ended
  <2>1. \/ UNCHANGED pc
        \/ \E step \in {"token_perms", "admin", "admin_perms", "shim", "doctor_mint", "done"}:
              To(c, step)
    BY DEF Tokens, Token, EnsureAdmin, Doctor, Minted, Permissions, FailsTo
  <2>2. \/ pc'[c] = pc[c]
        \/ pc'[c] \in {"token_perms", "admin", "admin_perms", "shim", "doctor_mint", "done"}
    BY <2>1, AtStep
  <2>3. Op(c) = "setup" => pc[c] \notin Configures
    BY DEF Kept
  <2>. QED BY <1>1, <1>3, <2>2, <2>3, WalkCalm, CalmKeeps DEF Ended
<1>. QED BY <1>2, <1>3

\* A step of setup over the files of the shims.
LEMMA ShimStep ==
    ASSUME NEW c \in Commands, Kept(c), UNCHANGED <<cast, snap, url>>, touched'[c] = touched[c],
           pc[c] \notin Early \cup Ended,
           home'["config"] = home["config"], pc'[c] \notin Configures \cup Editing,
           \A n \in 3..5: home[Managed[n]] = Theirs /\ pc[c] \notin Writing(n) =>
                            home'[Managed[n]] = Theirs /\ pc'[c] \notin Writing(n)
    PROVE  Kept(c)'
<1>1. CASE Op(c) # "setup"
  BY <1>1, Outside
<1>2. CASE Op(c) = "setup"
  <2>1. KeepsFiles(c) /\ KeepsConfig(c)
    BY <1>2, TransactsAt DEF Kept
  <2>2. KeepsFiles(c)'
    BY <2>1 DEF KeepsFiles
  <2>3. KeepsConfig(c)'
    BY <2>1 DEF KeepsConfig, Same, Editing, Planned
  <2>. QED BY <2>2, <2>3 DEF Kept
<1>. QED BY <1>1, <1>2

\* A step of setup over config.yaml and its backups.
LEMMA EditStep ==
    ASSUME NEW c \in Commands, Kept(c), UNCHANGED <<cast, snap, url>>, touched'[c] = touched[c],
           pc[c] \notin Early \cup Ended, pc'[c] \notin Configures,
           \A n \in 3..5: home'[Managed[n]] = home[Managed[n]] /\ pc'[c] \notin Writing(n),
           /\ Same(home["config"], snap[c][6], url[c])
           /\ pc[c] \in Editing => Same(read[c], snap[c][6], url[c])
           /\ pc[c] \in Aliasing => Text(read[c]).alias # url[c]
           => /\ Same(home'["config"], snap[c][6], url[c])
              /\ pc'[c] \in Editing => Same(read'[c], snap[c][6], url[c]),
           (pc[c] \in Aliasing => Text(read[c]).alias # url[c]) =>
             (pc'[c] \in Aliasing => Text(read'[c]).alias # url[c]),
           (pc[c] \in Planned => PlanEdit(Text(read[c])) # None) =>
             (pc'[c] \in Planned => PlanEdit(Text(read[c]))' # None)
    PROVE  Kept(c)'
<1>1. CASE Op(c) # "setup"
  BY <1>1, Outside
<1>2. CASE Op(c) = "setup"
  <2>1. KeepsFiles(c) /\ KeepsConfig(c)
    BY <1>2, TransactsAt DEF Kept
  <2>2. KeepsFiles(c)'
    BY <2>1 DEF KeepsFiles
  <2>3. KeepsConfig(c)'
    <3>1. Same(home["config"], snap[c][6], url[c])' <=> Same(home'["config"], snap[c][6], url[c])
      BY DEF Same
    <3>2. Same(read[c], snap[c][6], url[c])' <=> Same(read'[c], snap[c][6], url[c])
      BY DEF Same
    <3>3. Text(read[c])' = Text(read'[c])
      OBVIOUS
    <3>. QED BY <2>1, <3>1, <3>2, <3>3 DEF KeepsConfig
  <2>. QED BY <2>2, <2>3 DEF Kept
<1>. QED BY <1>1, <1>2

LEMMA SetsAt ==
    ASSUME CommandsTypeOK, NEW f \in Homes, NEW content, Sets(f, content)
    PROVE  home'[f] = content /\ \A x \in Homes: x # f => home'[x] = home[x]
BY DEF CommandsTypeOK, Sets

LEMMA ShimsKept ==
    ASSUME CommandsTypeOK, NEW c \in Commands, Kept(c), Shims(c), touched'[c] = touched[c]
    PROVE  Kept(c)'
<1>0. /\ UNCHANGED <<cast, snap, url>>
      /\ pc[c] \in {"shim", "shim_write", "control", "init", "manifest", "undo_init",
                    "undo_manifest"}
  BY DEF Shims, InstallCheck, InstallWrite, ControlCheck, ControlWrite, Replaces, Undoes,
         NoSecrets, Frame, Keeps, On
<1>1. pc[c] \notin Early \cup Ended /\ {"shim", "init", "manifest", "config"} \subseteq Homes
  BY <1>0 DEF Early, Ended, Homes
<1>2. \E step \in {"shim_write", "control", "init", "manifest", "undo_init", "undo_manifest",
                   "plug"}: To(c, step)
  BY DEF Shims, InstallCheck, InstallWrite, ControlCheck, ControlWrite, Replaces, Undoes, FailsTo
<1>3. pc'[c] \in {"shim_write", "control", "init", "manifest", "undo_init", "undo_manifest", "plug"}
  BY <1>2, AtStep
<1>4. pc'[c] \notin Configures \cup Editing
  BY <1>3 DEF Configures, Editing, Planned, Aliasing
<1>5. CASE InstallCheck(c)
  <2>1. UNCHANGED home
    BY <1>5 DEF InstallCheck
  <2>2. (pc'[c] = "shim_write" /\ home["shim"] # Theirs) \/ pc'[c] = "control"
    BY <1>5, AtStep DEF InstallCheck, Owned, FailsTo
  <2>3. \A n \in 3..5: home[Managed[n]] = Theirs => pc'[c] \notin Writing(n)
    BY <2>2, Slots DEF Writing
  <2>. QED BY <1>0, <1>1, <1>4, <2>1, <2>3, ShimStep
<1>6. CASE ControlCheck(c)
  <2>1. UNCHANGED home
    BY <1>6 DEF ControlCheck
  <2>2. \/ pc'[c] = "init" /\ home["init"] # Theirs /\ home["manifest"] # Theirs
        \/ pc'[c] = "plug"
    BY <1>6, AtStep DEF ControlCheck, Owned, FailsTo
  <2>3. \A n \in 3..5: home[Managed[n]] = Theirs => pc'[c] \notin Writing(n)
    BY <2>2, Slots DEF Writing
  <2>. QED BY <1>0, <1>1, <1>4, <2>1, <2>3, ShimStep
<1>7. CASE InstallWrite(c)
  <2>1. pc[c] = "shim_write" /\ pc'[c] = "control"
    BY <1>7, AtStep DEF InstallWrite, Replaces, On, FailsTo
  <2>2. \A f \in Homes: f # "shim" => home'[f] = home[f]
    BY <1>1, <1>7, SetsAt DEF InstallWrite, Replaces
  <2>3. \A n \in 3..5: home[Managed[n]] = Theirs /\ pc[c] \notin Writing(n) =>
                            home'[Managed[n]] = Theirs /\ pc'[c] \notin Writing(n)
    BY <1>1, <2>1, <2>2, Slots DEF Writing
  <2>4. home'["config"] = home["config"]
    BY <1>1, <2>2
  <2>. QED BY <1>0, <1>1, <1>4, <2>3, <2>4, ShimStep
<1>8. CASE ControlWrite(c)
  <2>1. pc[c] \in {"init", "manifest", "undo_init", "undo_manifest"}
    BY <1>8 DEF ControlWrite, Replaces, Undoes, On
  <2>2. \A f \in Homes: f \notin {"init", "manifest"} => home'[f] = home[f]
    BY <1>1, <1>8, SetsAt DEF ControlWrite, Replaces, Undoes
  <2>3. pc'[c] # "shim_write"
    BY <1>8, AtStep DEF ControlWrite, Replaces, Undoes, FailsTo
  <2>4. \A n \in 3..5: home[Managed[n]] = Theirs /\ pc[c] \notin Writing(n) =>
                            home'[Managed[n]] = Theirs /\ pc'[c] \notin Writing(n)
    BY <1>1, <2>1, <2>2, <2>3, Slots DEF Writing
  <2>5. home'["config"] = home["config"]
    BY <1>1, <2>2
  <2>. QED BY <1>0, <1>1, <1>4, <2>4, <2>5, ShimStep
<1>. QED BY <1>5, <1>6, <1>7, <1>8 DEF Shims

LEMMA SameEdits ==
    ASSUME CommandsTypeOK, NEW c \in Commands, NEW then, NEW port, Same(read[c], then, port)
    PROVE  /\ Same(Text(read[c]), then, port)
           /\ PlanEdit(Text(read[c])) # None => Same(PlanEdit(Text(read[c])), then, port)
           /\ port = url[c] /\ Text(read[c]).alias # port => Same(Aliased(c), then, port)
           /\ Same(Was(c), then, port)
<1> DEFINE doc == Text(read[c])
<1>1. doc \in Document /\ read[c] \in {None} \cup Document
  BY EditsType DEF CommandsTypeOK
<1>2. read[c] # Garbage /\ doc # Garbage /\ doc # None
  BY <1>1, SetupAssumption
<1>3. Text(doc) = doc
  BY <1>2 DEF Text
<1>4. then # Garbage /\ doc.own = Text(then).own /\ doc.auto = Text(then).auto
      /\ doc.bare = Text(then).bare
      /\ \/ doc.layout = Text(then).layout /\ doc.alias = Text(then).alias
         \/ Text(then).alias # port /\ doc.alias = port
  BY <1>2 DEF Same
<1>5. ASSUME NEW edited \in Document, edited.own = doc.own, edited.auto = doc.auto,
             edited.bare = doc.bare,
             \/ edited.layout = doc.layout /\ edited.alias = doc.alias
             \/ doc.alias # port /\ edited.alias = port
      PROVE  Same(edited, then, port)
  <2>1. edited # Garbage /\ edited # None
    BY SetupAssumption
  <2>. QED BY <1>4, <1>5, <2>1 DEF Same, Text
<1>6. Same(doc, then, port)
  BY <1>1, <1>5
<1>7. ASSUME PlanEdit(doc) # None PROVE Same(PlanEdit(doc), then, port)
  <2>1. PlanEdit(doc) \in Document
    BY <1>1, <1>7, PlanType
  <2>2. /\ PlanEdit(doc).own = doc.own /\ PlanEdit(doc).auto = doc.auto /\ PlanEdit(doc).bare = doc.bare
        /\ PlanEdit(doc).layout = doc.layout /\ PlanEdit(doc).alias = doc.alias
    BY <1>1, <1>7 DEF PlanEdit, Document
  <2>. QED BY <1>5, <2>1, <2>2
<1>8. ASSUME port = url[c], doc.alias # port PROVE Same(Aliased(c), then, port)
  <2>1. Aliased(c) \in Document
    BY EditsType
  <2>2. Aliased(c).own = doc.own /\ Aliased(c).auto = doc.auto /\ Aliased(c).bare = doc.bare
    BY <1>1 DEF Aliased, Document
  <2>3. Aliased(c).alias = port
    BY <1>1, <1>8 DEF Aliased, Document
  <2>. QED BY <1>5, <1>8, <2>1, <2>2, <2>3
<1>9. Same(Was(c), then, port)
  <2>1. CASE doc = EmptyDoc
    <3>1. Was(c) = None /\ Text(None) = doc /\ None # Garbage
      BY <2>1, SetupAssumption DEF Was, Text
    <3>. QED BY <1>4, <3>1 DEF Same
  <2>2. CASE doc # EmptyDoc
    BY <2>2 DEF Was
  <2>. QED BY <2>1, <2>2
<1>. QED BY <1>6, <1>7, <1>8, <1>9

\* A file that is no shim is written, or none.
LEMMA ShimsStay ==
    ASSUME CommandsTypeOK, NEW f \in {"config", "bak", "aliasbak", "confbak"}, NEW content,
           Sets(f, content) \/ UNCHANGED home
    PROVE  /\ \A n \in 3..5: home'[Managed[n]] = home[Managed[n]]
           /\ f # "config" => home'["config"] = home["config"]
<1>1. {"shim", "init", "manifest", "config", "bak", "aliasbak", "confbak"} \subseteq Homes
  BY DEF Homes
<1>. QED BY <1>1, SetsAt, Slots

LEMMA NoShimSteps ==
    ASSUME NEW step \in Editing \cup {"alias", "finish"} \cup Ended
    PROVE  \A n \in 3..5: step \notin Writing(n)
BY DEF Editing, Planned, Aliasing, Ended, Writing

LEMMA PluginKept ==
    ASSUME CommandsTypeOK, NEW c \in Commands, Kept(c), EnablePlugin(c), touched'[c] = touched[c]
    PROVE  Kept(c)'
<1>0. UNCHANGED <<cast, snap, url>>
  BY DEF EnablePlugin, PlugRead, PlugCheck, PlugVerify, Backs, Replaces, Restores,
         NoSecrets, Frame, Keeps
<1>1. pc[c] \in {"plug", "plug_check", "plug_backup", "plug_write", "plug_verify", "plug_restore"}
  BY DEF EnablePlugin, PlugRead, PlugCheck, PlugVerify, Backs, Replaces, Restores, On
<1>2. pc[c] \notin Early \cup Ended
  BY <1>1 DEF Early, Ended
<1>3. \E step \in {"plug_check", "plug_backup", "plug_write", "plug_verify", "plug_restore",
                   "alias"}: To(c, step)
  BY DEF EnablePlugin, PlugRead, PlugCheck, PlugVerify, Backs, Replaces, Restores, FailsTo
<1>4. pc'[c] \in {"plug_check", "plug_backup", "plug_write", "plug_verify", "plug_restore", "alias"}
  BY <1>3, AtStep
<1>5. pc'[c] \notin Configures /\ \A n \in 3..5: pc'[c] \notin Writing(n)
  BY <1>4, NoShimSteps DEF Configures, Editing, Planned
<1>6. (pc'[c] \in Editing => pc'[c] # "alias") /\ pc'[c] \notin Aliasing
  BY <1>4 DEF Editing, Planned, Aliasing
<1>7. CASE PlugRead(c)
  <2>1. UNCHANGED home /\ pc'[c] \in {"alias", "plug_check"}
    BY <1>7, AtStep DEF PlugRead, FailsTo
  <2>2. pc'[c] = "plug_check" => read'[c] = home["config"]
    <3>1. To(c, "alias") => pc'[c] = "alias"
      BY AtStep
    <3>2. Reads(c) => read'[c] = home["config"]
      BY DEF Reads, CommandsTypeOK
    <3>. QED BY <1>7, <3>1, <3>2 DEF PlugRead, FailsTo
  <2>3. pc'[c] \notin Planned
    BY <2>1 DEF Planned
  <2>. QED BY <1>0, <1>2, <1>5, <1>6, <2>1, <2>2, <2>3, EditStep
<1>8. CASE PlugCheck(c)
  <2>1. UNCHANGED <<home, read>> /\ pc[c] \in Editing
    BY <1>8 DEF PlugCheck, On, Editing, Planned
  <2>2. pc'[c] \in Planned => PlanEdit(Text(read[c])) # None
    BY <1>8, AtStep DEF PlugCheck, FailsTo, Planned
  <2>3. PlanEdit(Text(read[c]))' = PlanEdit(Text(read[c]))
    BY <2>1
  <2>. QED BY <1>0, <1>2, <1>5, <1>6, <2>1, <2>2, <2>3, EditStep
<1>9. CASE Backs(c, "plug_backup", "bak", "plug_write", "alias")
  <2>1. /\ \A n \in 3..5: home'[Managed[n]] = home[Managed[n]]
        /\ home'["config"] = home["config"]
    BY <1>9, ShimsStay DEF Backs, Torn
  <2>2. UNCHANGED read /\ pc[c] \in Editing /\ pc[c] \in Planned
    BY <1>9 DEF Backs, On, Editing, Planned
  <2>3. PlanEdit(Text(read[c]))' = PlanEdit(Text(read[c]))
    BY <2>2
  <2>. QED BY <1>0, <1>2, <1>5, <1>6, <2>1, <2>2, <2>3, EditStep
<1>10. CASE Replaces(c, "plug_write", "config", PlanEdit(Text(read[c])), "plug_verify", "alias")
  <2>1. \A n \in 3..5: home'[Managed[n]] = home[Managed[n]]
    BY <1>10, ShimsStay DEF Replaces
  <2>2. UNCHANGED read /\ pc[c] \in Editing /\ pc[c] \in Planned
    BY <1>10 DEF Replaces, On, Editing, Planned
  <2>3. pc'[c] \notin Planned
    BY <1>10, AtStep DEF Replaces, FailsTo, Planned
  <2>4. home'["config"] = home["config"] \/ home'["config"] = PlanEdit(Text(read[c]))
    BY <1>10, SetsAt, ConfigContents DEF Replaces
  <2>5. CASE PlanEdit(Text(read[c])) # None
    <3>1. Same(home["config"], snap[c][6], url[c]) /\ Same(read[c], snap[c][6], url[c])
          => Same(home'["config"], snap[c][6], url[c]) /\ Same(read'[c], snap[c][6], url[c])
      BY <2>2, <2>4, <2>5, SameEdits
    <3>. QED BY <1>0, <1>2, <1>5, <1>6, <2>1, <2>2, <2>3, <3>1, EditStep
  <2>6. CASE PlanEdit(Text(read[c])) = None
    <3>1. ~Transacts(c)
      BY <2>2, <2>6 DEF Kept, KeepsConfig
    <3>. QED BY <1>0, <1>2, <1>5, <3>1, TransactsAt, Outside
  <2>. QED BY <2>5, <2>6
<1>11. CASE Restores(c, "plug_restore", Text(read[c]), "alias")
  <2>1. \A n \in 3..5: home'[Managed[n]] = home[Managed[n]]
    BY <1>11, ShimsStay DEF Restores
  <2>2. UNCHANGED read /\ pc[c] \in Editing
    BY <1>11 DEF Restores, On, Editing, Planned
  <2>3. home'["config"] = home["config"] \/ home'["config"] = Text(read[c])
    BY <1>11, SetsAt, ConfigContents DEF Restores
  <2>4. pc'[c] \notin Planned
    BY <1>11, AtStep DEF Restores, FailsTo, Planned
  <2>5. Same(home["config"], snap[c][6], url[c]) /\ Same(read[c], snap[c][6], url[c])
          => Same(home'["config"], snap[c][6], url[c]) /\ Same(read'[c], snap[c][6], url[c])
    BY <2>2, <2>3, SameEdits
  <2>. QED BY <1>0, <1>2, <1>5, <1>6, <2>1, <2>2, <2>4, <2>5, EditStep
<1>12. CASE /\ On(c, "plug_verify")
            /\ To(c, IF PlugVerified(c) THEN "alias" ELSE "plug_restore")
            /\ UNCHANGED <<home, read>>
  <2>1. pc[c] \in Editing /\ pc'[c] \notin Planned
    BY <1>12, AtStep DEF On, Editing, Planned
  <2>. QED BY <1>0, <1>2, <1>5, <1>6, <1>12, <2>1, EditStep
<1>. QED BY <1>7, <1>8, <1>9, <1>10, <1>11, <1>12 DEF EnablePlugin, PlugVerify

LEMMA AliasKept ==
    ASSUME CommandsTypeOK, NEW c \in Commands, Kept(c), EnableAlias(c), touched'[c] = touched[c]
    PROVE  Kept(c)'
<1>0. UNCHANGED <<cast, snap, url>>
  BY DEF EnableAlias, AliasRead, AliasVerify, Backs, Replaces, Restores, NoSecrets, Frame, Keeps
<1>1. pc[c] \in {"alias", "alias_backup", "alias_write", "alias_verify", "alias_restore"}
  BY DEF EnableAlias, AliasRead, AliasVerify, Backs, Replaces, Restores, On
<1>2. pc[c] \notin Early \cup Ended
  BY <1>1 DEF Early, Ended
<1>3. \E step \in {"alias_backup", "alias_write", "alias_verify", "alias_restore", "finish"}:
        To(c, step)
  BY DEF EnableAlias, AliasRead, AliasVerify, Backs, Replaces, Restores, FailsTo
<1>4. pc'[c] \in {"alias_backup", "alias_write", "alias_verify", "alias_restore", "finish"}
  BY <1>3, AtStep
<1>5. /\ pc'[c] \notin Configures /\ \A n \in 3..5: pc'[c] \notin Writing(n)
      /\ pc'[c] \notin Planned
  BY <1>4, NoShimSteps DEF Configures, Editing, Planned, Aliasing
<1>6. CASE AliasRead(c)
  <2>1. UNCHANGED home /\ pc'[c] \in {"finish", "alias_backup"}
    BY <1>6, AtStep DEF AliasRead, FailsTo
  <2>2. pc'[c] = "alias_backup" => read'[c] = home["config"]
    <3>1. To(c, "finish") => pc'[c] = "finish"
      BY AtStep
    <3>2. Reads(c) => read'[c] = home["config"]
      BY DEF Reads, CommandsTypeOK
    <3>. QED BY <1>6, <3>1, <3>2 DEF AliasRead, FailsTo
  <2>3. pc'[c] \in Editing => pc'[c] = "alias_backup"
    BY <2>1 DEF Editing, Planned, Aliasing
  <2>4. pc'[c] \in Aliasing => Text(read'[c]).alias # url[c]
    <3>1. pc'[c] \in Aliasing => pc'[c] = "alias_backup"
      BY <2>1 DEF Aliasing
    <3>2. To(c, "finish") => pc'[c] = "finish"
      BY AtStep
    <3>3. pc'[c] = "alias_backup" => Text(home["config"]).alias # url[c]
      BY <1>6, <3>2 DEF AliasRead, FailsTo
    <3>. QED BY <2>2, <3>1, <3>3
  <2>. QED BY <1>0, <1>2, <1>5, <2>1, <2>2, <2>3, <2>4, EditStep
<1>7. CASE Backs(c, "alias_backup", "aliasbak", "alias_write", "alias_restore")
  <2>1. /\ \A n \in 3..5: home'[Managed[n]] = home[Managed[n]]
        /\ home'["config"] = home["config"]
    BY <1>7, ShimsStay DEF Backs, Torn
  <2>2. UNCHANGED read /\ pc[c] \in Editing /\ pc[c] \in Aliasing
    BY <1>7 DEF Backs, On, Editing, Planned, Aliasing
  <2>. QED BY <1>0, <1>2, <1>5, <2>1, <2>2, EditStep
<1>8. ASSUME NEW content, content = Aliased(c) \/ content = Was(c), pc[c] # "alias",
             Sets("config", content) \/ UNCHANGED home, UNCHANGED read
      PROVE  Kept(c)'
  <2>1. \A n \in 3..5: home'[Managed[n]] = home[Managed[n]]
    BY <1>8, ShimsStay
  <2>2. pc[c] \in Editing /\ pc[c] \in Aliasing
    BY <1>1, <1>8 DEF Editing, Planned, Aliasing
  <2>3. home'["config"] = home["config"] \/ home'["config"] = content
    BY <1>8, SetsAt, ConfigContents
  <2>4. /\ Same(home["config"], snap[c][6], url[c]) /\ Same(read[c], snap[c][6], url[c])
        /\ Text(read[c]).alias # url[c]
        => Same(home'["config"], snap[c][6], url[c]) /\ Same(read'[c], snap[c][6], url[c])
    BY <1>8, <2>3, SameEdits
  <2>5. Text(read'[c]) = Text(read[c]) /\ UNCHANGED read
    BY <1>8
  <2>. QED BY <1>0, <1>2, <1>5, <2>1, <2>2, <2>4, <2>5, EditStep
<1>9. CASE Replaces(c, "alias_write", "config", Aliased(c), "alias_verify", "alias_restore")
  BY <1>8, <1>9 DEF Replaces, On
<1>10. CASE AliasVerify(c)
  BY <1>8, <1>10 DEF AliasVerify, Restores, On
<1>. QED BY <1>6, <1>7, <1>9, <1>10 DEF EnableAlias

LEMMA RollbackKept ==
    ASSUME CommandsTypeOK, NEW c \in Commands, Kept(c), Rollback(c), touched'[c] = touched[c]
    PROVE  Kept(c)'
<1> DEFINE n == roll[c]
<1>0. UNCHANGED <<cast, snap, url>> /\ pc[c] = "roll"
  BY DEF Rollback, Frame, On
<1>1. pc[c] \notin Early \cup Ended
  BY <1>0 DEF Early, Ended
<1>2. \E step \in {"roll", "restored", "unrestored"}: To(c, step)
  BY DEF Rollback
<1>3. pc'[c] \in {"roll", "restored", "unrestored"}
  BY <1>2, AtStep
<1>4. /\ pc'[c] \notin Configures \cup Editing
      /\ \A m \in 3..5: pc'[c] \notin Writing(m)
  BY <1>3 DEF Configures, Editing, Planned, Aliasing, Writing
<1>5. n \in 1..8 /\ Managed[n] \in SecretFiles \cup Homes
  BY TableOfFiles DEF CommandsTypeOK
<1>6. CASE Op(c) # "setup"
  BY <1>0, <1>6, Outside
<1>7. CASE Op(c) = "setup"
  <2>1. KeepsFiles(c) /\ KeepsConfig(c)
    BY <1>1, <1>7, TransactsAt DEF Kept
  <2>2. \/ UNCHANGED home
        \/ Managed[n] \in Homes /\ Sets(Managed[n], snap[c][n])
    BY <1>5 DEF Rollback
  <2>3. \A m \in 3..6: Managed[m] \in Homes /\ (Managed[m] = Managed[n] => m = n)
    BY <1>5, Slots DEF Homes
  <2>4. \A m \in 3..6: \/ home'[Managed[m]] = home[Managed[m]]
                       \/ home'[Managed[m]] = snap[c][m]
    BY <2>2, <2>3, SetsAt
  <2>5. KeepsFiles(c)'
    BY <1>0, <1>4, <2>1, <2>4 DEF KeepsFiles
  <2>6. home'["config"] = home["config"] \/ home'["config"] = snap[c][6]
    BY <2>4, Slots
  <2>7. KeepsConfig(c)'
    BY <1>0, <1>4, <2>1, <2>6 DEF KeepsConfig, Same, Editing, Planned
  <2>8. Op(c)' = "setup"
    BY <1>0, <1>7 DEF Op
  <2>. QED BY <1>4, <2>5, <2>7, <2>8 DEF Kept
<1>. QED BY <1>6, <1>7

LEMMA ConfigureKept ==
    ASSUME NEW c \in Commands, Kept(c), Configure(c)
    PROVE  Kept(c)'
<1>1. UNCHANGED cast /\ pc[c] \in Configures
  BY DEF Configure, CfgRead, CfgVerify, Backs, Replaces, Restores, On, NoSecrets, Frame, Configures
<1>2. Op(c) # "setup"
  BY <1>1 DEF Kept
<1>. QED BY <1>1, <1>2, Outside

LEMMA FinishKept ==
    ASSUME CommandsTypeOK, NEW c \in Commands, Kept(c), Finish(c), touched'[c] = touched[c]
    PROVE  Kept(c)'
<1>1. UNCHANGED <<cast, home, snap, url>> /\ pc[c] = "finish"
  BY DEF Finish, NoSecrets, Frame, Keeps, On
<1>2. pc'[c] \in {"done", "roll"}
  BY AtStep DEF Finish
<1>3. pc[c] \notin Early \cup Ended
  BY <1>1 DEF Early, Ended
<1>. QED BY <1>1, <1>2, <1>3, WalkCalm, CalmKeeps DEF Ended

\* What others change, c's record of it tells.
LEMMA Beside ==
    ASSUME NEW c \in Commands, Kept(c), NEW p, p # c, Touches(p), UNCHANGED cast,
           pc'[c] = pc[c], snap'[c] = snap[c], read'[c] = read[c], url'[c] = url[c]
    PROVE  Kept(c)'
<1>1. Op(c)' = Op(c) /\ (Transacts(c)' => Transacts(c))
  BY DEF Op, Transacts, Running
<1>2. ASSUME Transacts(c), NEW f \in {"shim", "init", "manifest", "config"}, f \notin touched'[c]
      PROVE  f \notin touched[c] /\ home'[f] = home[f]
  <2>1. f \in SecretFiles \cup Homes /\ Running(c)
    BY <1>2 DEF Homes, Transacts
  <2>2. touched'[c] = touched[c] \cup {x \in SecretFiles \cup Homes: Content(x)' # Content(x)}
    BY <2>1 DEF Touches
  <2>3. f \notin touched[c] /\ Content(f)' = Content(f)
    BY <1>2, <2>1, <2>2
  <2>. QED BY <2>3 DEF Content, SecretFiles
<1>3. ASSUME Transacts(c)' PROVE KeepsFiles(c)' /\ KeepsConfig(c)'
  <2>1. KeepsFiles(c) /\ KeepsConfig(c)
    BY <1>1, <1>3 DEF Kept
  <2>2. KeepsFiles(c)'
    BY <1>1, <1>2, <1>3, <2>1, Slots DEF KeepsFiles
  <2>3. KeepsConfig(c)'
    BY <1>1, <1>2, <1>3, <2>1 DEF KeepsConfig, Same
  <2>. QED BY <2>2, <2>3
<1>. QED BY <1>1, <1>3 DEF Kept

LEMMA AllKept ==
    ASSUME SetupTypeOK, \A c \in Commands: Kept(c), [Next]_vars
    PROVE  \A c \in Commands: Kept(c)'
<1> SUFFICES ASSUME NEW c \in Commands PROVE Kept(c)'
  OBVIOUS
<1>0. CommandsTypeOK /\ Kept(c) /\ None \notin Commands /\ Gateways \cap Commands = {}
  BY SecretsAssumption DEF SetupTypeOK, CommandsTypeOK, Procs
<1>1. CASE UNCHANGED vars
  <2>1. UNCHANGED <<cast, home, pc, read, snap, url, touched>>
    BY <1>1 DEF vars, secretVars, setupVars
  <2>. QED BY <1>0, <2>1
       DEF Kept, KeepsFiles, KeepsConfig, Transacts, Running, Op, Same
<1>2. ASSUME NEW d \in Commands, CommandStep(d) \/ Begin(d) \/ CommandCrash(d), Touches(d)
      PROVE  Kept(c)'
  <2>1. CASE d = c
    <3>1. touched'[c] = touched[c]
      BY <1>2, <2>1 DEF Touches
    <3>. QED BY <1>0, <1>2, <2>1, <3>1, BeginKept, SnapshotKept, TokensKept, ShimsKept, PluginKept,
                AliasKept, FinishKept, RollbackKept, ConfigureKept DEF CommandStep
  <2>2. CASE d # c
    BY <1>0, <1>2, <2>2, CommandLocals, Beside
  <2>. QED BY <2>1, <2>2
<1>3. ASSUME NEW g \in Gateways, GatewayRuns(g), UNCHANGED setupVars, Touches(g)
      PROVE  Kept(c)'
  <2>1. UNCHANGED cast
    BY <1>3 DEF GatewayRuns, GatewayStep, SecureWrite, Start, ReadToken, TokenMinted, ReadAdmin,
                AdminMinted, LookUp, Claim, ReadSalt, SaltWritten, SaltFailed, Undo, Crash
  <2>2. g # c /\ UNCHANGED <<pc, read, snap, url>>
    BY <1>0, <1>3 DEF setupVars
  <2>. QED BY <1>0, <1>3, <2>1, <2>2, Beside
<1>4. CASE UserEdit /\ Touches(None)
  BY <1>0, <1>4, Beside DEF UserEdit
<1>. QED BY <1>1, <1>2, <1>3, <1>4 DEF Next, CommandNext

\* A setup never writes over somebody else's shim, and every value of the operator's in
\* config.yaml outlives it, whatever the configuration, the faults and the others that
\* run beside it: installer.py and commands.py check before each write what the
\* snapshot found, and edit only what they have read.  Comments and format go where
\* the alias is set, by the dump of that edit, and nowhere else.
THEOREM OperatorsKept == Spec => []UnownedKept /\ []UserConfigKept
<1>1. SetupInit => \A c \in Commands: Kept(c)
  BY DEF SetupInit, Kept, Transacts, Running, Configures
<1>2. SetupTypeOK /\ (\A c \in Commands: Kept(c)) /\ [Next]_vars => (\A c \in Commands: Kept(c))'
  BY AllKept
<1>3. (\A c \in Commands: Kept(c)) => UnownedKept /\ UserConfigKept
  BY KeptSays
<1>. QED BY <1>1, <1>2, <1>3, TypeCorrect, PTL DEF Spec

=============================================================================
