-------------------------- MODULE SupervisionProofs --------------------------
EXTENDS Supervision, TLAPS

LEMMA Names ==
    /\ {"begin", "st_read", "st_probe", "st_bind", "st_compare", "st_unlink", "spawn",
        "wait", "record", "post", "drain", "drain_bind", "gone", "gone_bind", "probe",
        "signal", "fin_compare", "fin_unlink", "done"} \subseteq Labels
    /\ "done" \in Labels /\ "st_read" \in Labels /\ "wait" \in Labels /\ "spawn" \in Labels
    /\ "record" \in Labels /\ "fin_compare" \in Labels
    /\ "none" \in Sites /\ "renew" \in Sites /\ "start" \in Sites /\ "stop" \in Sites
    /\ "running" \in Kinds /\ "error" \in Kinds
BY DEF Labels, Sites, Kinds

LEMMA FinishType ==
    ASSUME NEW r \in Frame, NEW k \in Kinds
    PROVE  Finish(r, k) \in Frame
BY Names DEF Finish, Frame

LEMMA CallStatusType ==
    ASSUME NEW r \in Frame, NEW site \in Sites
    PROVE  CallStatus(r, site) \in Frame
BY Names DEF CallStatus, Frame

LEMMA StartedType ==
    ASSUME NEW r \in Frame
    PROVE  Started(r) \in Frame
<1>1. [r EXCEPT !.pc = "wait", !.at = "renew", !.seen = None] \in Frame
  BY Names DEF Frame
<1>. QED BY <1>1, Names, FinishType DEF Started

LEMMA StoppedType ==
    ASSUME NEW r \in Frame, NEW k \in Kinds
    PROVE  Stopped(r, k) \in Frame
BY Names, FinishType, CallStatusType DEF Stopped

LEMMA AfterStatusType ==
    ASSUME NEW r \in Frame, NEW k \in Kinds
    PROVE  AfterStatus(r, k) \in Frame
<1>1. Finish(r, k) \in Frame /\ Finish(r, "error") \in Frame
  BY FinishType, Names
<1>2. CallStatus(r, "start") \in Frame
  BY CallStatusType, Names
<1>3. Started(r) \in Frame /\ Stopped(r, k) \in Frame
  BY StartedType, StoppedType
<1>4. /\ [r EXCEPT !.pc = "spawn", !.at = "none", !.seen = None] \in Frame
      /\ [r EXCEPT !.pc = "record", !.at = "none", !.seen = None] \in Frame
      /\ [r EXCEPT !.pc = "fin_compare", !.at = "none", !.seen = None] \in Frame
      /\ [r EXCEPT !.pc = "wait", !.seen = None] \in Frame
  BY Names DEF Frame
<1>5. [r EXCEPT !.prev = IF k = "running" THEN r.seen ELSE None] \in Frame
  BY DEF Frame
<1>6. CallStatus([r EXCEPT !.prev = IF k = "running" THEN r.seen ELSE None], "stop") \in Frame
  BY <1>5, CallStatusType, Names
<1>. QED
  BY <1>1, <1>2, <1>3, <1>4, <1>6
  DEF AfterStatus, HookResumes, StartResumes, PollResumes,
      RestartResumes, StopResumes, FinalResumes

LEMMA KeptType ==
    ASSUME NEW r \in Frame
    PROVE  Kept(r) \in Frame
BY DEF Kept, Frame

LEMMA BecomesType ==
    ASSUME call \in [Calls -> Frame], NEW c \in Calls, NEW r \in Frame, Becomes(c, r)
    PROVE  call' \in [Calls -> Frame]
BY DEF Becomes

LEMMA WithoutType ==
    ASSUME TypeOK, NEW i \in Instances
    PROVE  Without(i) \in [Ports -> Instances \cup {None, Foreign}]
BY DEF TypeOK, Without

LEMMA UnlinkingType == Unlinking \subseteq Calls \cup Instances
BY DEF Unlinking

LEMMA InitType == Init => TypeOK
<1> SUFFICES ASSUME Init PROVE TypeOK
  OBVIOUS
<1>1. Fresh \in Frame
  BY Names DEF Fresh, Frame, Kinds, Rungs, Sites
<1>. QED BY <1>1, SupervisionAssumption DEF Init, TypeOK, Phases

LEMMA GatewayType ==
    ASSUME TypeOK, NEW i \in Instances, GatewayStep(i)
    PROVE  TypeOK'
<1> USE DEF TypeOK, Advance
<1>1. Without(i) \in [Ports -> Instances \cup {None, Foreign}]
  BY WithoutType
<1>2. CASE BindInference(i)
  BY <1>1, <1>2 DEF BindInference, Die, Phases
<1>3. CASE BindAdmin(i)
  BY <1>3 DEF BindAdmin, Phases
<1>4. CASE Publish(i)
  BY <1>4, UnlinkingType DEF Publish, Phases
<1>5. CASE PublishFails(i)
  BY <1>5 DEF PublishFails, Phases
<1>6. CASE Serve(i)
  BY <1>6 DEF Serve, Phases
<1>12. CASE ServeFails(i)
  BY <1>12 DEF ServeFails, Phases
<1>7. CASE DrainDone(i)
  BY <1>1, <1>7 DEF DrainDone, Die, Phases
<1>8. CASE Unwind(i)
  BY <1>1, <1>8 DEF Unwind, Phases
<1>9. CASE RetractCompare(i)
  BY <1>9 DEF RetractCompare, Phases
<1>10. CASE RetractUnlink(i)
  BY <1>10 DEF RetractUnlink, Removed, RemovalFails, Phases
<1>11. ASSUME NEW p \in Ports, CloseListener(i, p) PROVE TypeOK'
  BY <1>11 DEF CloseListener
<1>. QED
  BY <1>2, <1>3, <1>4, <1>5, <1>6, <1>7, <1>8, <1>9, <1>10, <1>11, <1>12
  DEF GatewayStep, GatewayTurn

LEMMA StatusType ==
    ASSUME TypeOK, NEW c \in Calls, StatusStep(c)
    PROVE  TypeOK'
<1>0. /\ call[c] \in Frame
      /\ {"not_started", "stale_cleaned", "foreign", "unresponsive", "corrupt", "running"}
           \subseteq Kinds
  BY DEF TypeOK, Kinds
<1>1. CASE StatusRead(c)
  <2>1. ASSUME file \notin {None, Corrupt}
        PROVE  [call[c] EXCEPT !.pc = "st_probe", !.seen = file] \in Frame
    BY <1>0, <2>1, Names DEF Frame, TypeOK
  <2>2. call' \in [Calls -> Frame]
    BY <1>0, <1>1, <2>1, AfterStatusType DEF StatusRead, Becomes, TypeOK
  <2>. QED BY <1>1, <2>2 DEF StatusRead, gatewayVars, TypeOK
<1>2. CASE StatusProbe(c)
  <2>1. [call[c] EXCEPT !.pc = "st_bind"] \in Frame
    BY <1>0, Names DEF Frame
  <2>2. call' \in [Calls -> Frame]
    BY <1>0, <1>2, <2>1, AfterStatusType DEF StatusProbe, Becomes, TypeOK
  <2>. QED BY <1>2, <2>2 DEF StatusProbe, gatewayVars, TypeOK
<1>3. CASE StatusBind(c)
  <2>1. [call[c] EXCEPT !.pc = "st_compare"] \in Frame
    BY <1>0, Names DEF Frame
  <2>2. call' \in [Calls -> Frame]
    BY <1>0, <1>3, <2>1, AfterStatusType DEF StatusBind, Becomes, TypeOK
  <2>. QED BY <1>3, <2>2 DEF StatusBind, gatewayVars, TypeOK
<1>4. CASE StatusCompare(c)
  <2>1. [call[c] EXCEPT !.pc = "st_unlink"] \in Frame
    BY <1>0, Names DEF Frame
  <2>2. call' \in [Calls -> Frame]
    BY <1>0, <1>4, <2>1, AfterStatusType DEF StatusCompare, Becomes, TypeOK
  <2>. QED BY <1>4, <2>2 DEF StatusCompare, gatewayVars, TypeOK
<1>5. CASE StatusUnlink(c)
  <2>2. call' \in [Calls -> Frame]
    BY <1>0, <1>5, AfterStatusType, KeptType DEF StatusUnlink, Becomes, TypeOK
  <2>. QED BY <1>5, <2>2 DEF StatusUnlink, Removed, RemovalFails, gatewayVars, TypeOK
<1>. QED BY <1>1, <1>2, <1>3, <1>4, <1>5 DEF StatusStep

LEMMA StartType ==
    ASSUME TypeOK, NEW c \in Calls, Begin(c) \/ Spawn(c) \/ PollAgain(c) \/ StartTimeout(c)
    PROVE  TypeOK'
<1>0. call[c] \in Frame /\ Finish(call[c], "error") \in Frame
  BY FinishType, Names DEF TypeOK
<1>1. CASE Begin(c)
  <2>1. PICK op \in Ops[c]: Becomes(c, CallStatus([call[c] EXCEPT !.op = op], op))
    BY <1>1 DEF Begin
  <2>2. op \in OpKinds /\ op \in Sites
    BY SupervisionAssumption DEF OpKinds, Sites
  <2>3. [call[c] EXCEPT !.op = op] \in Frame
    BY <1>0, <2>2 DEF Frame
  <2>4. call' \in [Calls -> Frame]
    BY <2>1, <2>2, <2>3, CallStatusType, BecomesType DEF TypeOK
  <2>. QED BY <1>1, <2>4 DEF Begin, gatewayVars, TypeOK
<1>2. CASE Spawn(c)
  <2>1. ASSUME NEW i \in Instances
        PROVE  [call[c] EXCEPT !.pc = "wait", !.at = "poll", !.child = i] \in Frame
    BY <1>0, Names DEF Frame, Sites
  <2>2. call' \in [Calls -> Frame]
    BY <1>0, <1>2, <2>1 DEF Spawn, Becomes, TypeOK
  <2>3. phase' \in [Instances -> Phases]
    BY <1>2 DEF Spawn, Advance, Phases, TypeOK
  <2>. QED BY <1>2, <2>2, <2>3 DEF Spawn, TypeOK
<1>3. CASE PollAgain(c)
  <2>1. CallStatus(call[c], call[c].at) \in Frame
    BY <1>0, CallStatusType DEF Frame
  <2>2. call' \in [Calls -> Frame]
    BY <1>0, <1>3, <2>1 DEF PollAgain, Becomes, TypeOK
  <2>. QED BY <1>3, <2>2 DEF PollAgain, gatewayVars, TypeOK
<1>4. CASE StartTimeout(c)
  <2>1. call' \in [Calls -> Frame]
    BY <1>0, <1>4 DEF StartTimeout, Becomes, TypeOK
  <2>2. phase' \in [Instances -> Phases]
    BY <1>4 DEF StartTimeout, Die, Phases, TypeOK
  <2>3. listener' \in [Ports -> Instances \cup {None, Foreign}]
    BY <1>4 DEF StartTimeout, Die, Without, TypeOK
  <2>. QED BY <1>4, <2>1, <2>2, <2>3 DEF StartTimeout, TypeOK
<1>. QED BY <1>1, <1>2, <1>3, <1>4

LEMMA StopType ==
    ASSUME TypeOK, NEW c \in Calls, StopStep(c)
    PROVE  TypeOK'
<1>0. call[c] \in Frame
  BY DEF TypeOK
<1>1. /\ CallStatus(call[c], "final") \in Frame /\ CallStatus(call[c], "lost") \in Frame
      /\ Finish(call[c], "error") \in Frame /\ Stopped(call[c], "stopped") \in Frame
  BY <1>0, CallStatusType, FinishType, StoppedType, Names DEF Sites, Kinds
<1>2. /\ [call[c] EXCEPT !.pc = "drain"] \in Frame
      /\ [call[c] EXCEPT !.pc = "gone"] \in Frame
      /\ [call[c] EXCEPT !.pc = "drain_bind"] \in Frame
      /\ [call[c] EXCEPT !.pc = "gone_bind"] \in Frame
      /\ [call[c] EXCEPT !.pc = "probe"] \in Frame
      /\ [call[c] EXCEPT !.pc = "signal"] \in Frame
      /\ [call[c] EXCEPT !.pc = "fin_compare"] \in Frame
      /\ [call[c] EXCEPT !.pc = "fin_unlink"] \in Frame
  BY <1>0, Names DEF Frame
<1>3. CASE StopRecord(c)
  <2>1. ASSUME file \notin {None, Corrupt}
        PROVE  [call[c] EXCEPT !.pc = "post", !.rec = file] \in Frame
    BY <1>0, <2>1, Names DEF Frame, TypeOK
  <2>2. call' \in [Calls -> Frame]
    BY <1>1, <1>3, <2>1 DEF StopRecord, Becomes, TypeOK
  <2>. QED BY <1>3, <2>2 DEF StopRecord, gatewayVars, TypeOK
<1>4. CASE StopPost(c)
  <2>1. call' \in [Calls -> Frame]
    BY <1>2, <1>4 DEF StopPost, Becomes, TypeOK
  <2>2. phase' \in [Instances -> Phases]
    BY <1>4 DEF StopPost, Phases, TypeOK
  <2>. QED BY <1>4, <2>1, <2>2 DEF StopPost, TypeOK
<1>5. CASE WaitForExit(c)
  BY <1>1, <1>2, <1>5 DEF WaitForExit, Becomes, gatewayVars, TypeOK
<1>11. CASE WaitForBind(c)
  BY <1>1, <1>2, <1>11 DEF WaitForBind, Becomes, gatewayVars, TypeOK
<1>6. CASE EscalateGone(c) \/ EscalateBind(c)
  <2>1. PICK pc \in {"fin_compare", "gone_bind", "probe"}: Becomes(c, [call[c] EXCEPT !.pc = pc])
    BY <1>6 DEF EscalateGone, EscalateBind
  <2>2. call' \in [Calls -> Frame]
    BY <1>2, <2>1 DEF Becomes, TypeOK
  <2>. QED BY <1>6, <2>2 DEF EscalateGone, EscalateBind, gatewayVars, TypeOK
<1>7. CASE EscalateProbe(c)
  <2>1. call' \in [Calls -> Frame]
    BY <1>1, <1>2, <1>7 DEF EscalateProbe, Becomes, TypeOK
  <2>. QED BY <1>7, <2>1 DEF EscalateProbe, gatewayVars, TypeOK
<1>8. CASE EscalateSignal(c)
  <2>1. ASSUME NEW rung \in {"terminate", "kill"}
        PROVE  [call[c] EXCEPT !.pc = "drain", !.rung = rung] \in Frame
    BY <1>0, Names DEF Frame, Rungs
  <2>2. call' \in [Calls -> Frame]
    BY <1>1, <1>8, <2>1 DEF EscalateSignal, Becomes, TypeOK
  <2>3. phase' \in [Instances -> Phases]
    BY <1>8 DEF EscalateSignal, Terminate, Die, Phases, TypeOK
  <2>4. listener' \in [Ports -> Instances \cup {None, Foreign}]
    BY <1>8 DEF EscalateSignal, Terminate, Die, Without, TypeOK
  <2>. QED BY <1>8, <2>2, <2>3, <2>4 DEF EscalateSignal, TypeOK
<1>9. CASE FinishCompare(c)
  BY <1>1, <1>2, <1>9 DEF FinishCompare, Becomes, gatewayVars, TypeOK
<1>10. CASE FinishUnlink(c)
  <2>1. Stopped(Kept(call[c]), "stopped") \in Frame
    BY <1>0, KeptType, StoppedType DEF Kinds
  <2>. QED
    BY <1>1, <1>10, <2>1
    DEF FinishUnlink, Removed, RemovalFails, Becomes, gatewayVars, TypeOK
<1>. QED BY <1>3, <1>4, <1>5, <1>6, <1>7, <1>8, <1>9, <1>10, <1>11 DEF StopStep

LEMMA EnvironmentType ==
    ASSUME TypeOK, Environment
    PROVE  TypeOK'
<1>1. ASSUME NEW i \in Instances, Crash(i) PROVE TypeOK'
  BY <1>1, WithoutType DEF Crash, Die, Phases, TypeOK
<1>2. ASSUME NEW i \in Instances, Hang(i) PROVE TypeOK'
  BY <1>2 DEF Hang, Advance, Phases, TypeOK
<1>3. ASSUME NEW p \in Ports, ForeignTakes(p) \/ ForeignLeaves(p) PROVE TypeOK'
  BY <1>3 DEF ForeignTakes, ForeignLeaves, TypeOK
<1>4. CASE Damage
  BY <1>4 DEF Damage, gatewayVars, TypeOK
<1>. QED BY <1>1, <1>2, <1>3, <1>4 DEF Environment

LEMMA StepType == TypeOK /\ [Next]_vars => TypeOK'
<1> SUFFICES ASSUME TypeOK, [Next]_vars PROVE TypeOK'
  OBVIOUS
<1>1. ASSUME NEW c \in Calls, CallStep(c) PROVE TypeOK'
  BY <1>1, StatusType, StartType, StopType DEF CallStep
<1>2. CASE UNCHANGED vars
  BY <1>2 DEF vars, TypeOK
<1>. QED BY <1>1, <1>2, GatewayType, EnvironmentType DEF Next

\* Every variable keeps its type, whatever the calls, faults and processes.
THEOREM TypeCorrect == Spec => []TypeOK
BY InitType, StepType, PTL DEF Spec

-----------------------------------------------------------------------------
(* Who listens where                                                        *)

LEMMA InitOwnership == Init => Ownership
<1> SUFFICES ASSUME Init PROVE Ownership
  OBVIOUS
<1>. QED BY SupervisionAssumption DEF Init, Ownership, Up, Ports

LEMMA DieOwnership ==
    ASSUME TypeOK, Ownership, NEW i \in Instances, Die(i)
    PROVE  Ownership'
BY SupervisionAssumption DEF TypeOK, Ownership, Die, Without, Up, Ports

LEMMA GatewayOwnership ==
    ASSUME TypeOK, Ownership, NEW i \in Instances, GatewayStep(i)
    PROVE  Ownership'
<1> USE SupervisionAssumption DEF TypeOK, Advance, Ownership, Up, Ports
<1>1. CASE BindInference(i)
  <2>1. CASE CanBind("inference")
    BY <1>1, <2>1 DEF BindInference, CanBind
  <2>2. CASE ~CanBind("inference")
    BY <1>1, <2>2, DieOwnership DEF BindInference
  <2>. QED BY <2>1, <2>2
<1>2. CASE BindAdmin(i)
  BY <1>2 DEF BindAdmin, CanBind
<1>3. CASE Publish(i)
  BY <1>3 DEF Publish
<1>4. CASE PublishFails(i)
  BY <1>4 DEF PublishFails
<1>5. CASE Serve(i) \/ ServeFails(i)
  BY <1>5 DEF Serve, ServeFails
<1>6. CASE DrainDone(i)
  BY <1>6, DieOwnership DEF DrainDone, Advance
<1>7. CASE Unwind(i)
  BY <1>7 DEF Unwind, Without
<1>8. CASE RetractCompare(i)
  BY <1>8 DEF RetractCompare
<1>9. CASE RetractUnlink(i)
  BY <1>9 DEF RetractUnlink
<1>10. ASSUME NEW p \in Ports, CloseListener(i, p) PROVE Ownership'
  BY <1>10 DEF CloseListener, Draining
<1>. QED
  BY <1>1, <1>2, <1>3, <1>4, <1>5, <1>6, <1>7, <1>8, <1>9, <1>10 DEF GatewayStep, GatewayTurn

LEMMA CallOwnership ==
    ASSUME TypeOK, Ownership, NEW c \in Calls, CallStep(c)
    PROVE  Ownership'
<1> USE DEF TypeOK, Ownership, Up
<1>1. CASE UNCHANGED gatewayVars
  BY <1>1 DEF gatewayVars
<1>2. CASE Spawn(c)
  BY <1>2 DEF Spawn, Advance
<1>3. CASE StartTimeout(c)
  <2>1. CASE call[c].at = "poll" /\ Alive(call[c].child)
    <3>1. call[c].child \in Instances \cup {None}
      BY DEF Frame
    <3>2. CASE call[c].child \in Instances
      BY <1>3, <2>1, <3>2, DieOwnership DEF StartTimeout
    <3>3. CASE call[c].child = None
      BY <1>3, <2>1, <3>3, SupervisionAssumption DEF StartTimeout, Die, Without, Ports
    <3>. QED BY <3>1, <3>2, <3>3
  <2>2. CASE ~(call[c].at = "poll" /\ Alive(call[c].child))
    BY <1>3, <2>2 DEF StartTimeout
  <2>. QED BY <2>1, <2>2
<1>4. CASE StopPost(c)
  BY <1>4 DEF StopPost, Ports
<1>5. CASE EscalateSignal(c)
  <2>1. call[c].rec \in Instances \cup {None}
    BY DEF Frame
  <2>2. CASE Die(call[c].rec)
    <3>1. CASE call[c].rec \in Instances
      BY <2>2, <3>1, DieOwnership
    <3>2. CASE call[c].rec = None
      BY <2>2, <3>2, SupervisionAssumption DEF Die, Without, Ports
    <3>. QED BY <2>1, <3>1, <3>2
  <2>3. CASE ~Die(call[c].rec)
    BY <1>5, <2>3 DEF EscalateSignal, Terminate
  <2>. QED BY <2>2, <2>3
<1>6. QED
  BY <1>1, <1>2, <1>3, <1>4, <1>5
  DEF CallStep, StatusStep, StopStep, Begin, StatusRead, StatusProbe, StatusBind,
      StatusCompare, StatusUnlink, PollAgain, StopRecord, WaitForExit, WaitForBind, EscalateGone, EscalateBind,
      EscalateProbe, FinishCompare, FinishUnlink

LEMMA EnvironmentOwnership ==
    ASSUME TypeOK, Ownership, Environment
    PROVE  Ownership'
<1> USE DEF TypeOK, Ownership, Up
<1>1. ASSUME NEW i \in Instances, Crash(i) PROVE Ownership'
  BY <1>1, DieOwnership DEF Crash
<1>2. ASSUME NEW i \in Instances, Hang(i) PROVE Ownership'
  BY <1>2 DEF Hang, Advance
<1>3. ASSUME NEW p \in Ports, ForeignTakes(p) \/ ForeignLeaves(p) PROVE Ownership'
  BY <1>3, SupervisionAssumption DEF ForeignTakes, ForeignLeaves, Ports
<1>4. CASE Damage
  BY <1>4 DEF Damage, gatewayVars
<1>. QED BY <1>1, <1>2, <1>3, <1>4 DEF Environment

LEMMA StepOwnership == TypeOK /\ Ownership /\ [Next]_vars => Ownership'
<1> SUFFICES ASSUME TypeOK, Ownership, [Next]_vars PROVE Ownership'
  OBVIOUS
<1>1. CASE UNCHANGED vars
  BY <1>1 DEF vars, Ownership, Up
<1>. QED BY <1>1, GatewayOwnership, CallOwnership, EnvironmentOwnership DEF Next

\* Who listens where follows from how far each process has come, always.
THEOREM OwnershipHolds == Spec => []Ownership
BY InitOwnership, StepOwnership, TypeCorrect, PTL DEF Spec

\* At most one gateway of this install is up, however many were spawned.
THEOREM AtMostOneGateway == Spec => []OneGatewayUp
<1>1. Ownership => OneGatewayUp
  BY DEF Ownership, OneGatewayUp
<1>. QED BY <1>1, OwnershipHolds, PTL

\* Whatever the interleaving, the runtime file only ever comes to name a
\* process that listens on both ports at that moment.
THEOREM AdvertisedHoldsPorts == Spec => AdvertisedIsBound
<1>1. ASSUME TypeOK, Ownership, [Next]_vars, file' \in Instances, file' # file
      PROVE  \A p \in Ports: listener'[p] = file'
  <2> USE SupervisionAssumption
  <2>1. PICK i \in Instances: Publish(i)
    BY <1>1
    DEF Next, GatewayStep, GatewayTurn, CallStep, StatusStep, StopStep, Environment, vars, gatewayVars,
        BindInference, BindAdmin, PublishFails, Serve, ServeFails, DrainDone, Unwind, RetractCompare,
        RetractUnlink, CloseListener, Begin, StatusRead, StatusProbe, StatusBind,
        StatusCompare, StatusUnlink, Spawn, PollAgain, StartTimeout, StopRecord, StopPost,
        WaitForExit, WaitForBind, EscalateGone, EscalateBind, EscalateProbe, EscalateSignal, FinishCompare,
        FinishUnlink, Removed, RemovalFails, Crash, Hang, ForeignTakes, ForeignLeaves, Damage
  <2>. QED BY <1>1, <2>1 DEF Publish, Advance, Ownership, Ports
<1>2. TypeOK /\ Ownership /\ [Next]_vars
      => [file' \in Instances /\ file' # file => \A p \in Ports: listener'[p] = file']_vars
  BY <1>1
<1>. QED BY <1>2, TypeCorrect, OwnershipHolds, PTL DEF Spec, AdvertisedIsBound

-----------------------------------------------------------------------------
(* What status() may remove                                                 *)

\* No call of status() returns in the middle of itself, and its record is kept
\* or dropped, never exchanged.
LEMMA AfterStatusEnds ==
    ASSUME NEW r \in Frame, NEW k \in Kinds
    PROVE  /\ AfterStatus(r, k).seen \in {r.seen, None}
           /\ AfterStatus(r, k).pc \in {"done", "st_read", "wait", "spawn", "record", "fin_compare"}
<1> DEFINE Ends(x) == /\ x.seen \in {r.seen, None}
                      /\ x.pc \in {"done", "st_read", "wait", "spawn", "record", "fin_compare"}
<1>1. Ends(Finish(r, k)) /\ Ends(Finish(r, "error")) /\ Ends(Finish(r, "running"))
  BY DEF Finish, Frame
<1>2. Ends(CallStatus(r, "start"))
  BY DEF CallStatus, Frame
<1>3. Ends([r EXCEPT !.pc = "wait", !.at = "renew", !.seen = None])
  BY DEF Frame
<1>4. Ends(Started(r)) /\ Ends(Stopped(r, k))
  BY <1>1, <1>2, <1>3 DEF Started, Stopped
<1>5. /\ Ends([r EXCEPT !.pc = "spawn", !.at = "none", !.seen = None])
      /\ Ends([r EXCEPT !.pc = "record", !.at = "none", !.seen = None])
      /\ Ends([r EXCEPT !.pc = "fin_compare", !.at = "none", !.seen = None])
      /\ Ends([r EXCEPT !.pc = "wait", !.seen = None])
  BY DEF Frame
<1>6. Ends(CallStatus([r EXCEPT !.prev = IF k = "running" THEN r.seen ELSE None], "stop"))
  BY DEF CallStatus, Frame
<1>7. Ends(AfterStatus(r, k))
  BY <1>1, <1>2, <1>4, <1>5, <1>6
  DEF AfterStatus, HookResumes, StartResumes, PollResumes,
      RestartResumes, StopResumes, FinalResumes
<1>. QED BY <1>7

LEMMA PastStays ==
    ASSUME TypeOK, [Next]_vars, NEW i \in Instances, Past(i)
    PROVE  Past(i)' /\ (listener["inference"] # i => listener'["inference"] # i)
<1> USE SupervisionAssumption DEF TypeOK, Past, Advance, Ports
<1>1. ASSUME NEW j \in Instances \cup {None}, Die(j)
      PROVE  Past(i)' /\ (listener["inference"] # i => listener'["inference"] # i)
  BY <1>1 DEF Die, Without
<1>2. ASSUME NEW j \in Instances, GatewayStep(j)
      PROVE  Past(i)' /\ (listener["inference"] # i => listener'["inference"] # i)
  BY <1>1, <1>2
  DEF GatewayStep, GatewayTurn, BindInference, BindAdmin, Publish, PublishFails, Serve, ServeFails, DrainDone,
      Unwind, RetractCompare, RetractUnlink, CloseListener, Without
<1>3. ASSUME NEW c \in Calls, CallStep(c)
      PROVE  Past(i)' /\ (listener["inference"] # i => listener'["inference"] # i)
  <2>1. CASE UNCHANGED gatewayVars
    BY <2>1 DEF gatewayVars
  <2>2. CASE Spawn(c)
    BY <2>2 DEF Spawn
  <2>3. CASE StartTimeout(c)
    BY <1>1, <2>3 DEF StartTimeout, Frame
  <2>4. CASE StopPost(c)
    BY <2>4 DEF StopPost
  <2>5. CASE EscalateSignal(c)
    <3>1. CASE Die(call[c].rec)
      BY <1>1, <3>1 DEF Frame
    <3>2. CASE ~Die(call[c].rec)
      BY <2>5, <3>2 DEF EscalateSignal, Terminate
    <3>. QED BY <3>1, <3>2
  <2>. QED
    BY <1>3, <2>1, <2>2, <2>3, <2>4, <2>5
    DEF CallStep, StatusStep, StopStep, Begin, StatusRead, StatusProbe, StatusBind,
        StatusCompare, StatusUnlink, PollAgain, StopRecord, WaitForExit, WaitForBind, EscalateGone, EscalateBind,
        EscalateProbe, FinishCompare, FinishUnlink
<1>4. CASE Environment
  BY <1>1, <1>4 DEF Environment, Crash, Hang, ForeignTakes, ForeignLeaves, Damage, gatewayVars
<1>5. CASE UNCHANGED vars
  BY <1>5 DEF vars
<1>. QED BY <1>2, <1>3, <1>4, <1>5 DEF Next

LEMMA InitJudged == Init => Judged
BY SupervisionAssumption DEF Init, Judged, Past, Fresh

\* Sound(r) is what a frame must satisfy for its call to respect Judged.
LEMMA StepJudged == TypeOK /\ Ownership /\ Judged /\ [Next]_vars => Judged'
<1> SUFFICES ASSUME TypeOK, Ownership, Judged, [Next]_vars PROVE Judged'
  OBVIOUS
<1> USE SupervisionAssumption
<1> DEFINE Sound(r) == /\ r.seen \in Instances => Past(r.seen)
                       /\ r.pc \in {"st_probe", "st_bind", "st_compare", "st_unlink"}
                            => r.seen \in Instances
                       /\ r.pc \in {"st_compare", "st_unlink"} => listener["inference"] # r.seen
           Stays(x) == x \in Instances /\ Past(x)
                         => Past(x)' /\ (listener["inference"] # x => listener'["inference"] # x)
<1>1. \A x: Stays(x)
  BY PastStays
<1>2. \A c \in Calls: Sound(call[c]) /\ call[c] \in Frame
  BY DEF Judged, TypeOK
<1>3. ASSUME NEW c \in Calls, NEW k \in Kinds PROVE Sound(AfterStatus(call[c], k))
  BY <1>2, AfterStatusEnds
<1>4. file' \in Instances => Past(file)'
  <2>1. CASE file' = file
    BY <1>1, <2>1 DEF Judged
  <2>2. CASE file' # file /\ file' \in Instances
    BY <2>2
    DEF Next, GatewayStep, GatewayTurn, CallStep, StatusStep, StopStep, Environment, vars, gatewayVars,
        BindInference, BindAdmin, Publish, PublishFails, Serve, ServeFails, DrainDone, Unwind,
        RetractCompare, RetractUnlink, CloseListener, Begin, StatusRead, StatusProbe,
        StatusBind, StatusCompare, StatusUnlink, Spawn, PollAgain, StartTimeout, StopRecord,
        StopPost, WaitForExit, WaitForBind, EscalateGone, EscalateBind, EscalateProbe, EscalateSignal, FinishCompare,
        FinishUnlink, Removed, RemovalFails, Crash, Hang, ForeignTakes, ForeignLeaves, Damage,
        Advance, Past, TypeOK
  <2>. QED BY <2>1, <2>2
<1>5. ASSUME NEW r \in Frame, NEW site PROVE Sound(CallStatus(r, site))
  BY DEF CallStatus, Frame
<1>6. ASSUME NEW r \in Frame, NEW k PROVE Sound(r) => Sound(Finish(r, k))
  BY DEF Finish, Frame
<1>7. ASSUME NEW r \in Frame, NEW k \in Kinds PROVE Sound(r) => Sound(Stopped(r, k))
  BY <1>5, <1>6 DEF Stopped
<1>8. ASSUME NEW r \in Frame, Sound(r),
             NEW pc \in {"wait", "post", "drain", "drain_bind", "gone", "gone_bind", "probe",
                        "signal", "fin_compare", "fin_unlink"}
      PROVE  Sound([r EXCEPT !.pc = pc])
  BY <1>8 DEF Frame
<1>9. ASSUME NEW c \in Calls, CallStep(c)
      PROVE  Sound(call'[c]) /\ \A d \in Calls \ {c}: call'[d] = call[d]
  <2> USE <1>2 DEF TypeOK, Becomes
  <2>1. CASE Begin(c)
    <3>1. PICK op \in Ops[c]: Becomes(c, CallStatus([call[c] EXCEPT !.op = op], op))
      BY <2>1 DEF Begin
    <3>2. [call[c] EXCEPT !.op = op] \in Frame
      BY DEF Frame
    <3>. QED BY <1>5, <3>1, <3>2
  <2>2. CASE StatusRead(c)
    <3>1. ASSUME file \notin {None, Corrupt}
          PROVE  Sound([call[c] EXCEPT !.pc = "st_probe", !.seen = file])
      BY <3>1 DEF Judged, Frame
    <3>. QED BY <1>3, <2>2, <3>1 DEF StatusRead, Kinds
  <2>3. CASE StatusProbe(c)
    <3>1. call[c].pc = "st_probe" => Sound([call[c] EXCEPT !.pc = "st_bind"])
      BY DEF Frame
    <3>. QED BY <1>3, <2>3, <3>1 DEF StatusProbe, Kinds
  <2>4. CASE StatusBind(c)
    <3>1. call[c].pc = "st_bind" /\ ~Held => Sound([call[c] EXCEPT !.pc = "st_compare"])
      BY DEF Frame, Held
    <3>. QED BY <1>3, <2>4, <3>1 DEF StatusBind, Kinds
  <2>5. CASE StatusCompare(c)
    <3>1. call[c].pc = "st_compare" => Sound([call[c] EXCEPT !.pc = "st_unlink"])
      BY DEF Frame
    <3>. QED BY <1>3, <2>5, <3>1 DEF StatusCompare, Kinds
  <2>6. CASE StatusUnlink(c)
    <3>1. Kept(call[c]) \in Frame /\ Sound(Kept(call[c]))
      BY KeptType DEF Kept, Frame
    <3>2. Sound(AfterStatus(Kept(call[c]), "stale_cleaned"))
      BY <3>1, AfterStatusEnds DEF Kinds
    <3>. QED BY <1>3, <2>6, <3>2 DEF StatusUnlink, Kinds
  <2>7. CASE Spawn(c)
    <3>1. ASSUME NEW i \in Instances
          PROVE  Sound([call[c] EXCEPT !.pc = "wait", !.at = "poll", !.child = i])
      BY DEF Frame
    <3>2. Sound(Finish(call[c], "error"))
      BY <1>6
    <3>3. CASE Becomes(c, Finish(call[c], "error"))
      BY <3>2, <3>3
    <3>4. ASSUME NEW i \in Instances,
                 Becomes(c, [call[c] EXCEPT !.pc = "wait", !.at = "poll", !.child = i])
          PROVE  Sound(call'[c]) /\ \A d \in Calls \ {c}: call'[d] = call[d]
      BY <3>1, <3>4
    <3>. QED BY <2>7, <3>3, <3>4 DEF Spawn
  <2>8. CASE PollAgain(c)
    BY <1>5, <1>6, <2>8 DEF PollAgain
  <2>9. CASE StartTimeout(c)
    BY <1>6, <2>9 DEF StartTimeout
  <2>10. CASE StopRecord(c)
    <3>1. Sound([call[c] EXCEPT !.pc = "post", !.rec = file])
      BY DEF Frame
    <3>. QED BY <1>5, <1>6, <2>10, <3>1 DEF StopRecord
  <2>11. CASE StopPost(c)
    <3>1. Sound([call[c] EXCEPT !.pc = "drain"]) /\ Sound([call[c] EXCEPT !.pc = "gone"])
      BY <1>8
    <3>2. CASE Becomes(c, [call[c] EXCEPT !.pc = "drain"])
      BY <3>1, <3>2
    <3>3. CASE Becomes(c, [call[c] EXCEPT !.pc = "gone"])
      BY <3>1, <3>3
    <3>. QED BY <2>11, <3>2, <3>3 DEF StopPost
  <2>12. CASE WaitForExit(c) \/ WaitForBind(c)
    <3>1. \/ Becomes(c, CallStatus(call[c], "final"))
          \/ \E pc \in {"drain_bind", "gone", "fin_compare"}: Becomes(c, [call[c] EXCEPT !.pc = pc])
      BY <2>12 DEF WaitForExit, WaitForBind
    <3>2. CASE Becomes(c, CallStatus(call[c], "final"))
      BY <1>5, <3>2
    <3>3. ASSUME NEW pc \in {"drain_bind", "gone", "fin_compare"}, Becomes(c, [call[c] EXCEPT !.pc = pc])
          PROVE  Sound(call'[c]) /\ \A d \in Calls \ {c}: call'[d] = call[d]
      BY <1>8, <3>3
    <3>. QED BY <3>1, <3>2, <3>3
  <2>13. CASE EscalateGone(c) \/ EscalateBind(c)
    <3>1. PICK pc \in {"fin_compare", "gone_bind", "probe"}: Becomes(c, [call[c] EXCEPT !.pc = pc])
      BY <2>13 DEF EscalateGone, EscalateBind
    <3>. QED BY <1>8, <3>1
  <2>14. CASE EscalateProbe(c)
    BY <1>5, <1>8, <2>14 DEF EscalateProbe
  <2>15. CASE EscalateSignal(c)
    <3>1. ASSUME NEW rung PROVE Sound([call[c] EXCEPT !.pc = "drain", !.rung = rung])
      BY DEF Frame
    <3>2. CASE Becomes(c, CallStatus(call[c], "final"))
      BY <1>5, <3>2
    <3>3. ASSUME NEW rung, Becomes(c, [call[c] EXCEPT !.pc = "drain", !.rung = rung])
          PROVE  Sound(call'[c]) /\ \A d \in Calls \ {c}: call'[d] = call[d]
      BY <3>1, <3>3
    <3>. QED BY <2>15, <3>2, <3>3 DEF EscalateSignal
  <2>16. CASE FinishCompare(c)
    BY <1>7, <1>8, <2>16 DEF FinishCompare, Kinds
  <2>17. CASE FinishUnlink(c)
    <3>1. Kept(call[c]) \in Frame /\ Sound(Kept(call[c]))
      BY KeptType DEF Kept, Frame
    <3>. QED BY <1>7, <2>17, <3>1 DEF FinishUnlink, Kinds
  <2>. QED
    BY <1>9, <2>1, <2>2, <2>3, <2>4, <2>5, <2>6, <2>7, <2>8, <2>9, <2>10, <2>11, <2>12,
       <2>13, <2>14, <2>15, <2>16, <2>17 DEF CallStep, StatusStep, StopStep
<1>10. \A c \in Calls: Sound(call'[c])
  <2>1. CASE call' = call
    BY <1>2, <2>1
  <2>2. CASE call' # call
    <3>1. PICK d \in Calls: CallStep(d)
      BY <2>2
      DEF Next, GatewayStep, GatewayTurn, Environment, vars, gatewayVars, BindInference, BindAdmin,
          Publish, PublishFails, Serve, ServeFails, DrainDone, Unwind, RetractCompare, RetractUnlink,
          CloseListener, Crash, Hang, ForeignTakes, ForeignLeaves, Damage
    <3>. QED BY <1>2, <1>9, <3>1
  <2>. QED BY <2>1, <2>2
<1>11. ASSUME NEW c \in Calls PROVE Sound(call[c])' 
  BY <1>1, <1>10
<1>. QED BY <1>4, <1>11 DEF Judged

\* Records name processes past their binds, and what a call is about to remove
\* as stale belongs to a process that has stopped listening.
THEOREM JudgedHolds == Spec => []Judged
BY InitJudged, StepJudged, TypeCorrect, OwnershipHolds, PTL DEF Spec

\* What status() is about to unlink is a record it compared and found dead, or one
\* published since.
UnlinksWhatItJudged ==
    \A c \in Calls: call[c].pc = "st_unlink" /\ file \in Instances
      => listener["inference"] # file \/ c \in window

\* Only a comparison brings status() to its unlink.
LEMMA OnlyCompareUnlinks ==
    ASSUME TypeOK, [Next]_vars, NEW c \in Calls,
           call[c].pc # "st_unlink", call'[c].pc = "st_unlink"
    PROVE  StatusCompare(c) /\ file = call[c].seen
<1> USE DEF TypeOK, Becomes
<1> DEFINE r == call[c]
<1>1. PICK d \in Calls: CallStep(d)
  BY DEF Next, GatewayStep, GatewayTurn, Environment, vars, gatewayVars, BindInference,
      BindAdmin, Publish, PublishFails, Serve, ServeFails, DrainDone, Unwind, RetractCompare,
      RetractUnlink, CloseListener, Crash, Hang, ForeignTakes, ForeignLeaves, Damage
<1>2. d = c
  BY <1>1
  DEF CallStep, StatusStep, StopStep, Begin, StatusRead, StatusProbe, StatusBind,
      StatusCompare, StatusUnlink, Spawn, PollAgain, StartTimeout, StopRecord, StopPost,
      WaitForExit, WaitForBind, EscalateGone, EscalateBind, EscalateProbe, EscalateSignal,
      FinishCompare, FinishUnlink
<1>3. r \in Frame /\ Kept(r) \in Frame
  BY KeptType
<1>4. ASSUME NEW k \in Kinds
      PROVE  /\ ~Becomes(c, AfterStatus(r, k)) /\ ~Becomes(c, AfterStatus(Kept(r), k))
             /\ ~Becomes(c, Finish(r, k)) /\ ~Becomes(c, Stopped(r, k))
             /\ ~Becomes(c, Stopped(Kept(r), k))
  <2>1. \A x \in Frame: AfterStatus(x, k).pc # "st_unlink"
    BY AfterStatusEnds
  <2>2. \A x \in Frame: Finish(x, k).pc # "st_unlink" /\ Stopped(x, k).pc # "st_unlink"
    BY DEF Finish, Stopped, CallStatus, Frame
  <2>. QED BY <1>3, <2>1, <2>2
<1>5. ASSUME NEW x \in Frame, NEW site PROVE ~Becomes(c, CallStatus(x, site))
  BY <1>5 DEF CallStatus, Frame
<1>6. ASSUME NEW pc, Becomes(c, [r EXCEPT !.pc = pc]) PROVE pc = "st_unlink"
  BY <1>3, <1>6 DEF Frame
<1>11. ASSUME NEW x, Becomes(c, x) PROVE x.pc = "st_unlink"
  BY <1>11
<1> HIDE DEF Becomes
<1>7. ~(Begin(c) \/ Spawn(c) \/ PollAgain(c) \/ StartTimeout(c))
  <2>1. ~Begin(c)
    <3>1. \A op \in OpKinds: [r EXCEPT !.op = op] \in Frame
      BY <1>3 DEF Frame
    <3>. QED BY <1>5, <3>1, SupervisionAssumption DEF Begin
  <2>2. ~Spawn(c)
    <3>0. \A i: [r EXCEPT !.pc = "wait", !.at = "poll", !.child = i].pc # "st_unlink"
      BY <1>3 DEF Frame
    <3>1. \A i: ~Becomes(c, [r EXCEPT !.pc = "wait", !.at = "poll", !.child = i])
      BY <1>11, <3>0
    <3>. QED BY <1>4, <3>1 DEF Spawn, Kinds
  <2>3. ~PollAgain(c) /\ ~StartTimeout(c)
    BY <1>3, <1>4, <1>5 DEF PollAgain, StartTimeout, Kinds
  <2>. QED BY <2>1, <2>2, <2>3
<1>8. ~StopStep(c)
  <2>1. ~StopRecord(c)
    <3>0. [r EXCEPT !.pc = "post", !.rec = file].pc # "st_unlink"
      BY <1>3 DEF Frame
    <3>1. ~Becomes(c, [r EXCEPT !.pc = "post", !.rec = file])
      BY <1>11, <3>0
    <3>2. ~Becomes(c, CallStatus(r, "lost")) /\ ~Becomes(c, Finish(r, "error"))
      BY <1>3, <1>4, <1>5 DEF Kinds
    <3>. QED BY <3>1, <3>2 DEF StopRecord
  <2>2. ~StopPost(c)
    BY <1>6 DEF StopPost
  <2>3. ~WaitForExit(c) /\ ~WaitForBind(c) /\ ~EscalateGone(c) /\ ~EscalateBind(c) /\ ~EscalateProbe(c)
    <3>1. ~WaitForExit(c) /\ ~WaitForBind(c)
      <4>1. \A pc \in {"fin_compare", "drain_bind", "gone"}: ~Becomes(c, [r EXCEPT !.pc = pc])
        BY <1>6
      <4>2. ~Becomes(c, CallStatus(r, "final"))
        BY <1>3, <1>5
      <4>. QED BY <4>1, <4>2 DEF WaitForExit, WaitForBind
    <3>2. ~EscalateGone(c) /\ ~EscalateBind(c)
      BY <1>6 DEF EscalateGone, EscalateBind
    <3>. QED BY <1>3, <1>5, <1>6, <3>1, <3>2 DEF EscalateProbe
  <2>4. ~EscalateSignal(c)
    <3>0. \A rung: [r EXCEPT !.pc = "drain", !.rung = rung].pc # "st_unlink"
      BY <1>3 DEF Frame
    <3>1. \A rung: ~Becomes(c, [r EXCEPT !.pc = "drain", !.rung = rung])
      BY <1>11, <3>0
    <3>2. ~Becomes(c, CallStatus(r, "final"))
      BY <1>3, <1>5
    <3>. QED BY <3>1, <3>2 DEF EscalateSignal
  <2>5. ~FinishCompare(c) /\ ~FinishUnlink(c)
    BY <1>4, <1>6 DEF FinishCompare, FinishUnlink, Kinds
  <2>. QED BY <2>1, <2>2, <2>3, <2>4, <2>5 DEF StopStep
<1>9. ~(StatusRead(c) \/ StatusProbe(c) \/ StatusBind(c) \/ StatusUnlink(c))
  <2>1. ~StatusRead(c)
    <3>0. [r EXCEPT !.pc = "st_probe", !.seen = file].pc # "st_unlink"
      BY <1>3 DEF Frame
    <3>1. ~Becomes(c, [r EXCEPT !.pc = "st_probe", !.seen = file])
      BY <1>11, <3>0
    <3>. QED BY <1>4, <3>1 DEF StatusRead, Kinds
  <2>2. ~Becomes(c, [r EXCEPT !.pc = "st_bind"]) /\ ~Becomes(c, [r EXCEPT !.pc = "st_compare"])
    BY <1>6
  <2>. QED BY <1>4, <2>1, <2>2 DEF StatusProbe, StatusBind, StatusUnlink, Kinds
<1>10. StatusCompare(c)
  BY <1>1, <1>2, <1>7, <1>8, <1>9 DEF CallStep, StatusStep
<1>. QED BY <1>4, <1>10 DEF StatusCompare, Kinds

LEMMA StepUnlinksWhatItJudged ==
    TypeOK /\ Ownership /\ Judged /\ UnlinksWhatItJudged /\ [Next]_vars => UnlinksWhatItJudged'
<1> SUFFICES ASSUME TypeOK, Ownership, Judged, UnlinksWhatItJudged, [Next]_vars,
                    NEW c \in Calls, call'[c].pc = "st_unlink", file' \in Instances
             PROVE  listener'["inference"] # file' \/ c \in window'
  BY DEF UnlinksWhatItJudged
<1> USE SupervisionAssumption
<1>1. CASE \E i \in Instances: Publish(i)
  BY <1>1 DEF Publish, Unlinking
<1>2. CASE ~ \E i \in Instances: Publish(i)
  <2>1. file' = file /\ window' = window
    BY <1>2
    DEF Next, GatewayStep, GatewayTurn, CallStep, StatusStep, StopStep, Environment, vars,
        gatewayVars, BindInference, BindAdmin, PublishFails, Serve, ServeFails, DrainDone,
        Unwind, RetractCompare, RetractUnlink, CloseListener, Begin, StatusRead, StatusProbe,
        StatusBind, StatusCompare, StatusUnlink, Spawn, PollAgain, StartTimeout, StopRecord,
        StopPost, WaitForExit, WaitForBind, EscalateGone, EscalateBind, EscalateProbe,
        EscalateSignal, FinishCompare, FinishUnlink, Removed, RemovalFails, Crash, Hang,
        ForeignTakes, ForeignLeaves, Damage
  <2>2. listener["inference"] # file => listener'["inference"] # file
    BY <2>1, PastStays DEF Judged
  <2>3. CASE call[c].pc = "st_unlink"
    BY <2>1, <2>2, <2>3 DEF UnlinksWhatItJudged
  <2>4. CASE call[c].pc # "st_unlink"
    <3>1. call[c].pc = "st_compare" /\ file = call[c].seen
      BY <2>4, OnlyCompareUnlinks DEF StatusCompare
    <3>. QED BY <2>1, <2>2, <3>1 DEF Judged
  <2>. QED BY <2>3, <2>4
<1>. QED BY <1>1, <1>2

\* status() takes the record of a gateway that is up from disk only if that record
\* was published after status() had compared identities; a slow or hung gateway it
\* has probed never loses its record this way.
THEOREM StatusIsSafe == Spec => StatusNeverStrands
<1>1. Init => UnlinksWhatItJudged
  BY DEF Init, UnlinksWhatItJudged, Fresh
<1>2. Spec => []UnlinksWhatItJudged
  BY <1>1, StepUnlinksWhatItJudged, TypeCorrect, OwnershipHolds, JudgedHolds, PTL DEF Spec
<1>3. ASSUME TypeOK, Ownership, UnlinksWhatItJudged,
             NEW c \in Calls, StatusUnlink(c), file \in Instances
      PROVE  (listener["inference"] # file /\ ~Up(file)) \/ c \in window
  BY <1>3 DEF StatusUnlink, UnlinksWhatItJudged, Ownership
<1>4. TypeOK /\ Ownership /\ UnlinksWhatItJudged /\ [Next]_vars
      => [\A c \in Calls: StatusUnlink(c) /\ file' # file /\ file \in Instances
            => \/ listener["inference"] # file /\ ~Up(file)
               \/ c \in window]_vars
  BY <1>3
<1>. QED BY <1>2, <1>4, TypeCorrect, OwnershipHolds, PTL DEF Spec, StatusNeverStrands

LEMMA OnlyProbeLicenses ==
    ASSUME TypeOK, NEW c \in Calls, CallStep(c), call'[c].pc = "signal"
    PROVE  EscalateProbe(c)
<1> SUFFICES ASSUME ~EscalateProbe(c) PROVE call'[c].pc # "signal"
  OBVIOUS
<1> USE DEF TypeOK, Becomes
<1> DEFINE Quiet(r) == r.pc # "signal"
<1>1. call[c] \in Frame
  OBVIOUS
<1>2. ASSUME NEW k \in Kinds PROVE Quiet(AfterStatus(call[c], k))
  BY <1>1, AfterStatusEnds
<1>3. ASSUME NEW r \in Frame, NEW site PROVE Quiet(CallStatus(r, site))
  BY DEF CallStatus, Frame
<1>4. ASSUME NEW k PROVE Quiet(Finish(call[c], k)) /\ Quiet(Stopped(call[c], k))
  BY <1>1, <1>3 DEF Finish, Stopped, Frame
<1>5. ASSUME NEW pc \in {"st_bind", "st_compare", "st_unlink", "wait", "post", "drain",
                        "drain_bind", "gone", "gone_bind", "probe", "fin_compare", "fin_unlink"}
      PROVE  Quiet([call[c] EXCEPT !.pc = pc])
  BY <1>1 DEF Frame
<1>6. CASE Begin(c)
  <2>1. PICK op \in Ops[c]: Becomes(c, CallStatus([call[c] EXCEPT !.op = op], op))
    BY <1>6 DEF Begin
  <2>2. Quiet(CallStatus([call[c] EXCEPT !.op = op], op))
    BY <1>1 DEF CallStatus, Frame
  <2>. QED BY <2>1, <2>2
<1>7. CASE StatusRead(c)
  <2>1. Quiet([call[c] EXCEPT !.pc = "st_probe", !.seen = file])
    BY <1>1 DEF Frame
  <2>. QED BY <1>2, <1>7, <2>1 DEF StatusRead, Kinds
<1>8. CASE StatusProbe(c)
  <2>1. Quiet([call[c] EXCEPT !.pc = "st_bind"])
    BY <1>5
  <2>. QED BY <1>2, <1>8, <2>1 DEF StatusProbe, Kinds
<1>9. CASE StatusBind(c) \/ StatusCompare(c) \/ StatusUnlink(c)
  <2>1. Quiet([call[c] EXCEPT !.pc = "st_compare"]) /\ Quiet([call[c] EXCEPT !.pc = "st_unlink"])
    BY <1>5
  <2>2. Quiet(AfterStatus(Kept(call[c]), "stale_cleaned"))
    BY <1>1, KeptType, AfterStatusEnds DEF Kinds
  <2>. QED BY <1>2, <1>9, <2>1, <2>2 DEF StatusBind, StatusCompare, StatusUnlink, Kinds
<1>10. CASE Spawn(c)
  <2>1. ASSUME NEW i, Becomes(c, [call[c] EXCEPT !.pc = "wait", !.at = "poll", !.child = i])
        PROVE  Quiet(call'[c])
    BY <1>1, <2>1 DEF Frame
  <2>2. CASE Becomes(c, Finish(call[c], "error"))
    BY <1>4, <2>2
  <2>. QED BY <1>10, <2>1, <2>2 DEF Spawn
<1>11. CASE PollAgain(c) \/ StartTimeout(c)
  BY <1>3, <1>4, <1>11 DEF PollAgain, StartTimeout
<1>12. CASE StopRecord(c)
  <2>1. Quiet([call[c] EXCEPT !.pc = "post", !.rec = file])
    BY <1>1 DEF Frame
  <2>. QED BY <1>3, <1>4, <1>12, <2>1 DEF StopRecord
<1>13. CASE StopPost(c)
  <2>1. CASE Becomes(c, [call[c] EXCEPT !.pc = "drain"])
    BY <1>5, <2>1
  <2>2. CASE Becomes(c, [call[c] EXCEPT !.pc = "gone"])
    BY <1>5, <2>2
  <2>. QED BY <1>13, <2>1, <2>2 DEF StopPost
<1>14. CASE WaitForExit(c) \/ WaitForBind(c)
  <2>1. \/ Becomes(c, CallStatus(call[c], "final"))
        \/ \E pc \in {"drain_bind", "gone", "fin_compare"}: Becomes(c, [call[c] EXCEPT !.pc = pc])
    BY <1>14 DEF WaitForExit, WaitForBind
  <2>. QED BY <1>1, <1>3, <1>5, <2>1
<1>15. CASE EscalateGone(c) \/ EscalateBind(c)
  <2>1. PICK pc \in {"fin_compare", "gone_bind", "probe"}: Becomes(c, [call[c] EXCEPT !.pc = pc])
    BY <1>15 DEF EscalateGone, EscalateBind
  <2>. QED BY <1>5, <2>1
<1>16. CASE EscalateSignal(c)
  <2>1. CASE Becomes(c, CallStatus(call[c], "final"))
    BY <1>3, <2>1
  <2>2. ASSUME NEW rung, Becomes(c, [call[c] EXCEPT !.pc = "drain", !.rung = rung])
        PROVE  Quiet(call'[c])
    BY <1>1, <2>2 DEF Frame
  <2>. QED BY <1>16, <2>1, <2>2 DEF EscalateSignal
<1>17. CASE FinishCompare(c) \/ FinishUnlink(c)
  <2>1. Quiet(Stopped(Kept(call[c]), "stopped"))
    BY <1>1, KeptType DEF Stopped, Finish, CallStatus, Frame
  <2>. QED BY <1>4, <1>5, <1>17, <2>1 DEF FinishCompare, FinishUnlink
<1>. QED
  BY <1>6, <1>7, <1>8, <1>9, <1>10, <1>11, <1>12, <1>13, <1>14, <1>15, <1>16, <1>17
  DEF CallStep, StatusStep, StopStep

\* No stale record alone ever causes a signal: the step that licenses one finds
\* the recorded process alive.
THEOREM SignalsAreLicensed == Spec => SignalLicensed
<1>1. ASSUME TypeOK, [Next]_vars, NEW c \in Calls,
             call[c].pc # "signal", call'[c].pc = "signal"
      PROVE  Alive(call'[c].rec)
  <2> USE <1>1, SupervisionAssumption DEF TypeOK, Becomes
  <2>1. EscalateProbe(c)
    <3>1. PICK d \in Calls: CallStep(d)
      BY DEF Next, GatewayStep, GatewayTurn, Environment, vars, gatewayVars, BindInference, BindAdmin,
          Publish, PublishFails, Serve, ServeFails, DrainDone, Unwind, RetractCompare, RetractUnlink,
          CloseListener, Crash, Hang, ForeignTakes, ForeignLeaves, Damage
    <3>2. d = c
      BY <3>1
      DEF CallStep, StatusStep, StopStep, Begin, StatusRead, StatusProbe, StatusBind,
          StatusCompare, StatusUnlink, Spawn, PollAgain, StartTimeout, StopRecord,
          StopPost, WaitForExit, WaitForBind, EscalateGone, EscalateBind, EscalateProbe, EscalateSignal,
          FinishCompare, FinishUnlink
    <3>. QED BY <3>1, <3>2, OnlyProbeLicenses
  <2>2. "ok" \in Answers /\ listener["inference"] = call[c].rec
    BY <2>1, Names DEF EscalateProbe, CallStatus, Frame
  <2>3. phase[call[c].rec] \in {"serving", "draining", "terminating"}
    BY <2>2 DEF Answers, Draining
  <2>4. call'[c].rec = call[c].rec
    BY <2>1 DEF EscalateProbe, CallStatus, Frame
  <2>. QED BY <2>3, <2>4 DEF Alive
<1>2. TypeOK /\ [Next]_vars
      => [\A c \in Calls: call[c].pc # "signal" /\ call'[c].pc = "signal"
            => Alive(call'[c].rec)]_vars
  BY <1>1
<1>. QED BY <1>2, TypeCorrect, PTL DEF Spec, SignalLicensed

=============================================================================
