----------------------------- MODULE CallProofs -----------------------------
(***************************************************************************)
(* What supervisor calls may rely on as they go: what `restart` replaces   *)
(* stays replaced, a failed `start` leaves no child, and a gateway that is *)
(* up loses its advertisement only in the window the code leaves open.     *)
(* The frame of a call is judged by predicates that take the runtime file  *)
(* as an argument, so that they can be put to the file after a step.       *)
(***************************************************************************)
EXTENDS SupervisionProofs

InStatus == {"st_read", "st_probe", "st_bind", "st_compare", "st_unlink"}

\* A call is in the part of restart() that has left stop(), or waits for its own
\* child, or is in the part of stop() that has a record to work on.
Restarting(r) == r.at \in {"start", "poll", "renew"} \/ r.pc = "spawn"
Spawning(r) == r.at = "poll" \/ r.pc = "spawn"
Stopping(r) ==
    \/ r.pc \in {"post", "drain", "drain_bind", "gone", "gone_bind", "probe", "signal",
                 "fin_compare", "fin_unlink"}
    \/ r.at = "final"

\* status() knows where to return to, a wait loop is one of the two, and restart()
\* notes what it replaces after it began.
Sited(r) ==
    /\ r.pc = "begin" \/ r.at \in {"status", "hook"} => r.prev = None
    /\ r.pc \in InStatus => r.at # "none"
    /\ r.pc = "wait" => r.at \in {"poll", "renew"}

\* f is the file and l who listens on the inference port.  The identity that
\* restart() replaces can come back only to a stop() that has not looked at the
\* file yet or works on that very record, or because this call failed to remove
\* that record; it never listens again once a replacement is spawned.
Superseded(r, f, l) ==
    r.prev # None =>
      /\ Restarting(r) => f # r.prev \/ r.kept = "yes"
      /\ Spawning(r) => l # r.prev \/ (f # r.prev /\ r.seen # r.prev)
      /\ r.at = "lost" => f # r.prev
      /\ Stopping(r) => r.rec = r.prev \/ f # r.prev
      /\ r.pc \in InStatus \ {"st_read"} => r.seen = r.prev \/ f # r.prev
      /\ r.op = "restart" /\ r.pc = "done" /\ r.kind = "running" => r.seen # r.prev

Replacing ==
    \A c \in Calls: /\ Sited(call[c])
                    /\ call[c].prev # None => Past(call[c].prev)
                    /\ Superseded(call[c], file, listener["inference"])

\* Only publication makes the file name a process, and only one that is not past it.
LEMMA RetractedStays ==
    ASSUME TypeOK, [Next]_vars, NEW i \in Instances, Past(i), file # i
    PROVE  file' # i
<1> USE SupervisionAssumption
<1>1. CASE \E j \in Instances: Publish(j)
  BY <1>1 DEF Publish, Advance, Past
<1>2. CASE ~\E j \in Instances: Publish(j)
  BY <1>2
  DEF Next, GatewayStep, GatewayTurn, CallStep, StatusStep, StopStep, Environment, vars, gatewayVars,
      BindInference, BindAdmin, PublishFails, Serve, ServeFails, DrainDone, Unwind, RetractCompare,
      RetractUnlink, CloseListener, Begin, StatusRead, StatusProbe, StatusBind,
      StatusCompare, StatusUnlink, Spawn, PollAgain, StartTimeout, StopRecord, StopPost,
      WaitForExit, WaitForBind, EscalateGone, EscalateBind, EscalateProbe, EscalateSignal, FinishCompare,
      FinishUnlink, Removed, RemovalFails, Crash, Hang, ForeignTakes, ForeignLeaves, Damage
<1>. QED BY <1>1, <1>2

\* Nobody else touches the frame of a call.
LEMMA OnlyCallStep ==
    ASSUME TypeOK, [Next]_vars, NEW c \in Calls, call'[c] # call[c]
    PROVE  CallStep(c)
<1>1. PICK d \in Calls: CallStep(d)
  BY DEF Next, GatewayStep, GatewayTurn, Environment, vars, gatewayVars, BindInference, BindAdmin,
      Publish, PublishFails, Serve, ServeFails, DrainDone, Unwind, RetractCompare, RetractUnlink,
      CloseListener, Crash, Hang, ForeignTakes, ForeignLeaves, Damage
<1>2. d = c
  BY <1>1
  DEF CallStep, StatusStep, StopStep, Begin, StatusRead, StatusProbe, StatusBind,
      StatusCompare, StatusUnlink, Spawn, PollAgain, StartTimeout, StopRecord,
      StopPost, WaitForExit, WaitForBind, EscalateGone, EscalateBind, EscalateProbe, EscalateSignal,
      FinishCompare, FinishUnlink, Becomes, TypeOK
<1>. QED BY <1>1, <1>2

LEMMA FinishSupersedes ==
    ASSUME NEW r \in Frame, NEW f, NEW l, NEW k,
           r.prev # None /\ r.op = "restart" /\ k = "running" => r.seen # r.prev
    PROVE  Sited(Finish(r, k)) /\ Superseded(Finish(r, k), f, l) /\ Finish(r, k).prev = r.prev
BY DEF Finish, Frame, Sited, InStatus, Superseded, Restarting, Spawning, Stopping

LEMMA CallSupersedes ==
    ASSUME NEW r \in Frame, NEW f, NEW l,
           NEW site \in Sites \ {"none"}, site \in {"status", "hook"} => r.prev = None,
           r.prev # None /\ site \in {"start", "poll", "renew"} => f # r.prev \/ r.kept = "yes",
           r.prev # None /\ site = "poll" => l # r.prev \/ f # r.prev,
           r.prev # None /\ site = "lost" => f # r.prev,
           r.prev # None /\ site = "final" => r.rec = r.prev \/ f # r.prev
    PROVE  /\ Sited(CallStatus(r, site)) /\ Superseded(CallStatus(r, site), f, l)
           /\ CallStatus(r, site).prev = r.prev
BY SupervisionAssumption
DEF CallStatus, Frame, Sited, InStatus, Superseded, Restarting, Spawning, Stopping

LEMMA StoppedSupersedes ==
    ASSUME NEW r \in Frame, NEW f, NEW l, NEW k,
           r.prev # None => f # r.prev \/ r.kept = "yes"
    PROVE  /\ Sited(Stopped(r, k)) /\ Superseded(Stopped(r, k), f, l)
           /\ Stopped(r, k).prev = r.prev
<1>1. CASE r.op = "stop"
  BY <1>1, FinishSupersedes DEF Stopped
<1>2. CASE r.op # "stop"
  BY <1>2, CallSupersedes DEF Stopped, Sites
<1>. QED BY <1>1, <1>2

\* What the result k of status() may be taken to mean where it returns to.
Permits(r, k, f, l) ==
    /\ k = "running" => l = r.seen
    /\ r.at = "stop" /\ r.prev # None /\ k \notin {"foreign", "unresponsive", "running"}
         => f # r.prev \/ r.kept = "yes"
    /\ r.at = "start" /\ r.prev # None
         /\ k \notin {"running", "foreign", "unresponsive", "corrupt"}
         => f # r.prev \/ l # r.prev

\* Wherever status() returns to, with whatever result: stop() goes on to start()
\* only with a result that rules the old identity out or with its record kept, and
\* start() spawns only where the old identity listens no more.
LEMMA AfterStatusSupersedes ==
    ASSUME NEW r \in Frame, NEW f, NEW l, NEW k \in Kinds, Sited(r), r.at # "none",
           Superseded(r, f, l), Permits(r, k, f, l)
    PROVE  /\ Sited(AfterStatus(r, k)) /\ Superseded(AfterStatus(r, k), f, l)
           /\ AfterStatus(r, k).prev \in {r.prev, None} \cup (IF k = "running" THEN {r.seen} ELSE {})
<1> USE SupervisionAssumption
<1> USE DEF Permits
<1> DEFINE Fits(x) == /\ Sited(x) /\ Superseded(x, f, l)
                      /\ x.prev \in {r.prev, None} \cup (IF k = "running" THEN {r.seen} ELSE {})
<1>1. Fits(Finish(r, "error")) /\ (k # "running" \/ r.prev = None => Fits(Finish(r, k)))
  BY FinishSupersedes
<1>2. CASE r.at = "status"
  BY <1>1, <1>2 DEF AfterStatus, Sited
<1>3. CASE r.at = "hook"
  <2>1. Fits(CallStatus(r, "start"))
    BY <1>3, CallSupersedes DEF Sites, Sited
  <2>. QED BY <1>1, <1>3, <2>1 DEF AfterStatus, HookResumes, Sited
<1>4. ASSUME r.at \in {"start", "poll", "renew"}, k = "running" PROVE Fits(Started(r))
  <2>1. CASE r.op = "restart" /\ r.prev # None /\ r.seen = r.prev
    <3>1. Fits([r EXCEPT !.pc = "wait", !.at = "renew", !.seen = None])
      BY <1>4 DEF Frame, Sited, InStatus, Superseded, Restarting, Spawning, Stopping
    <3>. QED BY <2>1, <3>1 DEF Started
  <2>2. CASE ~(r.op = "restart" /\ r.prev # None /\ r.seen = r.prev)
    <3>1. Fits(Finish(r, "running"))
      BY <2>2, FinishSupersedes
    <3>. QED BY <2>2, <3>1 DEF Started
  <2>. QED BY <2>1, <2>2
<1>5. CASE r.at = "start"
  <2>1. ASSUME k \notin {"running", "foreign", "unresponsive", "corrupt"}
        PROVE  Fits([r EXCEPT !.pc = "spawn", !.at = "none", !.seen = None])
    BY <1>5, <2>1 DEF Frame, Sited, InStatus, Superseded, Restarting, Spawning, Stopping
  <2>. QED BY <1>1, <1>4, <1>5, <2>1 DEF AfterStatus, StartResumes
<1>6. CASE r.at \in {"poll", "renew"}
  <2>1. Fits([r EXCEPT !.pc = "wait", !.seen = None])
    BY <1>6 DEF Frame, Sited, InStatus, Superseded, Restarting, Spawning, Stopping
  <2>. QED BY <1>4, <1>6, <2>1 DEF AfterStatus, PollResumes
<1>7. CASE r.at = "restart"
  <2> DEFINE prev == IF k = "running" THEN r.seen ELSE None
             noted == [r EXCEPT !.prev = prev]
  <2>1. noted \in Frame /\ noted.prev = prev
    BY DEF Frame
  <2>2. Sited(CallStatus(noted, "stop")) /\ Superseded(CallStatus(noted, "stop"), f, l)
    BY <2>1, CallSupersedes DEF Sites
  <2>3. CallStatus(noted, "stop").prev = prev
    BY <2>1 DEF CallStatus, Frame
  <2>. QED BY <1>7, <2>2, <2>3 DEF AfterStatus, RestartResumes
<1>8. CASE r.at = "stop"
  <2>1. Fits([r EXCEPT !.pc = "record", !.at = "none", !.seen = None])
    BY DEF Frame, Sited, InStatus, Superseded, Restarting, Spawning, Stopping
  <2>. QED BY <1>1, <1>8, <2>1, StoppedSupersedes DEF AfterStatus, StopResumes
<1>9. CASE r.at = "lost"
  <2>1. r.prev # None => f # r.prev
    BY <1>9 DEF Superseded
  <2>2. Fits(Stopped(r, k))
    BY <2>1, StoppedSupersedes
  <2>. QED BY <1>9, <2>2 DEF AfterStatus
<1>10. CASE r.at = "final"
  <2>1. Fits([r EXCEPT !.pc = "fin_compare", !.at = "none", !.seen = None])
    BY <1>10 DEF Frame, Sited, InStatus, Superseded, Restarting, Spawning, Stopping
  <2>. QED BY <1>1, <1>10, <2>1 DEF AfterStatus, FinalResumes
<1>. QED
  BY <1>2, <1>3, <1>5, <1>6, <1>7, <1>8, <1>9, <1>10 DEF Frame, Sites, Sited

LEMMA StatusSupersedes ==
    ASSUME TypeOK, Judged, Replacing, NEW c \in Calls, StatusStep(c)
    PROVE  /\ Sited(call'[c]) /\ Superseded(call'[c], file', listener["inference"])
           /\ call'[c].prev \in {call[c].prev, call[c].seen, None}
<1> USE SupervisionAssumption DEF Becomes
<1> DEFINE r == call[c]
           l == listener["inference"]
           Fits(x) == /\ Sited(x) /\ Superseded(x, file', l)
                      /\ x.prev \in {r.prev, r.seen, None}
<1>0. /\ r \in Frame /\ Sited(r) /\ Superseded(r, file, listener["inference"]) /\ call \in [Calls -> Frame]
      /\ r.pc \in InStatus => r.at # "none"
      /\ r.prev # None => r.prev \in Instances
  BY DEF TypeOK, Replacing, Sited, Frame
<1>1. ASSUME NEW x \in Frame, Sited(x), Superseded(x, file', l), x.at # "none",
             x.prev = r.prev, x.seen = r.seen, NEW k \in Kinds, Permits(x, k, file', l)
      PROVE  Fits(AfterStatus(x, k))
  <2>1. /\ Sited(AfterStatus(x, k)) /\ Superseded(AfterStatus(x, k), file', l)
        /\ AfterStatus(x, k).prev
             \in {x.prev, None} \cup (IF k = "running" THEN {x.seen} ELSE {})
    <3> HIDE DEF l
    <3>. QED BY <1>1, AfterStatusSupersedes
  <2>. QED BY <1>1, <2>1
<1>2. ASSUME NEW pc \in {"st_bind", "st_compare", "st_unlink"}, file' = file,
             r.pc \in InStatus \ {"st_read"}
      PROVE  Fits([r EXCEPT !.pc = pc])
  BY <1>0, <1>2 DEF Frame, Sited, InStatus, Superseded, Restarting, Spawning, Stopping
<1>9. r.pc \in {"st_compare", "st_unlink"} /\ r.prev # None => file # r.prev \/ l # r.prev
  BY <1>0 DEF Judged, Superseded, InStatus
<1>3. CASE StatusRead(c)
  <2>1. ASSUME file \notin {None, Corrupt}
        PROVE  Fits([r EXCEPT !.pc = "st_probe", !.seen = file])
    BY <1>0, <1>3, <2>1 DEF StatusRead, Frame, Sited, InStatus, Superseded, Restarting, Spawning, Stopping
  <2>2. file = Corrupt => Fits(AfterStatus(r, "corrupt"))
    BY <1>0, <1>1, <1>3 DEF StatusRead, Kinds, InStatus, Permits
  <2>3. file = None => Fits(AfterStatus(r, "not_started"))
    BY <1>0, <1>1, <1>3 DEF StatusRead, Kinds, InStatus, Permits
  <2>. QED BY <1>0, <1>3, <2>1, <2>2, <2>3 DEF StatusRead
<1>4. CASE StatusProbe(c)
  <2>0. Superseded(r, file', l) /\ r.at # "none"
    BY <1>0, <1>4 DEF StatusProbe, InStatus
  <2>1. Fits(AfterStatus(r, "foreign")) /\ (l = r.seen => Fits(AfterStatus(r, "running")))
    BY <1>0, <1>1, <2>0 DEF Kinds, Permits
  <2>2. Fits([r EXCEPT !.pc = "st_bind"])
    BY <1>2, <1>4 DEF StatusProbe, InStatus
  <2>. QED BY <1>0, <1>4, <2>1, <2>2 DEF StatusProbe
<1>5. CASE StatusBind(c)
  <2>1. Fits(AfterStatus(r, "unresponsive"))
    BY <1>0, <1>1, <1>5 DEF StatusBind, Kinds, InStatus, Permits
  <2>2. Fits([r EXCEPT !.pc = "st_compare"])
    BY <1>2, <1>5 DEF StatusBind, InStatus
  <2>. QED BY <1>0, <1>5, <2>1, <2>2 DEF StatusBind
<1>6. CASE StatusCompare(c)
  <2>1. file # r.seen => Fits(AfterStatus(r, "stale_cleaned"))
    BY <1>0, <1>1, <1>6, <1>9 DEF StatusCompare, Kinds, InStatus, Superseded, Permits
  <2>2. Fits([r EXCEPT !.pc = "st_unlink"])
    BY <1>2, <1>6 DEF StatusCompare, InStatus
  <2>. QED BY <1>0, <1>6, <2>1, <2>2 DEF StatusCompare
<1>7. CASE StatusUnlink(c)
  <2> DEFINE k == Kept(r)
  <2>1. k \in Frame /\ Sited(k) /\ k.at = r.at /\ k.prev = r.prev /\ k.seen = r.seen /\ k.kept = "yes"
    BY <1>0, KeptType DEF Kept, Frame, Sited
  <2>2. r.at # "none"
    BY <1>0, <1>7 DEF StatusUnlink, InStatus
  <2>3. CASE Removed /\ Becomes(c, AfterStatus(r, "stale_cleaned"))
    <3>1. Superseded(r, file', l) /\ (r.prev # None => file' # r.prev)
      BY <1>0, <2>3 DEF Removed, Superseded
    <3>2. Fits(AfterStatus(r, "stale_cleaned"))
      BY <1>0, <1>1, <2>2, <3>1 DEF Kinds, Permits
    <3>. QED BY <1>0, <2>3, <3>2
  <2>4. CASE RemovalFails /\ Becomes(c, AfterStatus(k, "stale_cleaned"))
    <3>1. Superseded(k, file', l)
      BY <1>0, <2>4 DEF RemovalFails, Kept, Frame, Superseded, Restarting, Spawning, Stopping, InStatus
    <3>2. r.prev # None => file' # r.prev \/ l # r.prev
      BY <1>7, <1>9, <2>4 DEF RemovalFails, StatusUnlink
    <3>3. Fits(AfterStatus(k, "stale_cleaned"))
      BY <1>1, <2>1, <2>2, <3>1, <3>2 DEF Kinds, Permits
    <3>. QED BY <1>0, <2>4, <3>3
  <2>. QED BY <1>7, <2>3, <2>4 DEF StatusUnlink
<1>. QED BY <1>3, <1>4, <1>5, <1>6, <1>7 DEF StatusStep

LEMMA StartSupersedes ==
    ASSUME TypeOK, Replacing, [Next]_vars, NEW c \in Calls,
           Begin(c) \/ Spawn(c) \/ PollAgain(c) \/ StartTimeout(c)
    PROVE  /\ Sited(call'[c]) /\ Superseded(call'[c], file', listener'["inference"])
           /\ call'[c].prev = call[c].prev
<1> USE SupervisionAssumption DEF Becomes
<1> DEFINE r == call[c]
           Fits(x) == Sited(x) /\ Superseded(x, file', listener'["inference"]) /\ x.prev = r.prev
<1>0. r \in Frame /\ Sited(r) /\ Superseded(r, file, listener["inference"]) /\ call \in [Calls -> Frame]
  BY DEF TypeOK, Replacing
<1>20. r.prev # None /\ listener["inference"] # r.prev => listener'["inference"] # r.prev
  BY PastStays DEF TypeOK, Replacing, Frame
<1>1. Fits(Finish(r, "error"))
  BY <1>0, FinishSupersedes
<1>2. CASE Begin(c)
  <2>1. PICK op \in Ops[c]: Becomes(c, CallStatus([r EXCEPT !.op = op], op))
    BY <1>2 DEF Begin
  <2>2. op \in OpKinds /\ op \in Sites \ {"none", "renew", "poll", "lost", "final"}
    BY DEF OpKinds, Sites
  <2>3. [r EXCEPT !.op = op] \in Frame /\ r.prev = None /\ [r EXCEPT !.op = op].prev = None
    BY <1>0, <1>2, <2>2 DEF Begin, Frame, Sited
  <2>4. Fits(CallStatus([r EXCEPT !.op = op], op))
    BY <2>2, <2>3, CallSupersedes
  <2>. QED BY <1>0, <2>1, <2>4
<1>3. CASE Spawn(c)
  <2>1. ASSUME NEW i \in Instances
        PROVE  Fits([r EXCEPT !.pc = "wait", !.at = "poll", !.child = i])
    BY <1>0, <1>3, <1>20 DEF Spawn, Frame, Sited, InStatus, Superseded, Restarting, Spawning, Stopping
  <2>. QED BY <1>0, <1>1, <1>3, <2>1 DEF Spawn
<1>4. CASE PollAgain(c)
  <2>1. /\ r.at \in {"poll", "renew"}
        /\ r.prev # None => file' # r.prev \/ r.kept = "yes"
        /\ r.at = "poll" /\ r.prev # None => listener'["inference"] # r.prev \/ file' # r.prev
    BY <1>0, <1>4, <1>20 DEF PollAgain, Sited, Superseded, Restarting, Spawning
  <2>2. Fits(CallStatus(r, r.at))
    BY <1>0, <2>1, CallSupersedes DEF Sites
  <2>. QED BY <1>0, <1>1, <1>4, <2>2 DEF PollAgain
<1>5. CASE StartTimeout(c)
  BY <1>0, <1>1, <1>5 DEF StartTimeout
<1>. QED BY <1>2, <1>3, <1>4, <1>5

LEMMA StopSupersedes ==
    ASSUME TypeOK, Replacing, [Next]_vars, NEW c \in Calls, StopStep(c)
    PROVE  /\ Sited(call'[c]) /\ Superseded(call'[c], file', listener'["inference"])
           /\ call'[c].prev = call[c].prev
<1> USE SupervisionAssumption DEF Becomes
<1> DEFINE r == call[c]
           Fits(x) == Sited(x) /\ Superseded(x, file', listener'["inference"]) /\ x.prev = r.prev
<1>0. /\ r \in Frame /\ Sited(r) /\ Superseded(r, file, listener["inference"]) /\ call \in [Calls -> Frame]
      /\ r.prev # None => r.prev \in Instances
  BY DEF TypeOK, Replacing, Frame
<1>20. r.prev # None /\ listener["inference"] # r.prev => listener'["inference"] # r.prev
  BY PastStays DEF TypeOK, Replacing, Frame
<1>1. Fits(Finish(r, "error"))
  BY <1>0, FinishSupersedes
<1>2. ASSUME Stopping(r), file' = file PROVE Fits(CallStatus(r, "final"))
  <2>1. r.prev # None => r.rec = r.prev \/ file' # r.prev
    BY <1>0, <1>2 DEF Superseded
  <2>. QED BY <1>0, <2>1, CallSupersedes DEF Sites
<1>3. ASSUME Stopping(r), file' = file, r.pc \notin InStatus \cup {"wait"},
             NEW pc \in {"drain", "drain_bind", "gone", "gone_bind", "probe", "signal",
                        "fin_compare", "fin_unlink"}
      PROVE  Fits([r EXCEPT !.pc = pc])
  BY <1>0, <1>3, <1>20 DEF Frame, Sited, InStatus, Superseded, Restarting, Spawning, Stopping
<1>4. CASE StopRecord(c)
  <2>1. ASSUME file \notin {None, Corrupt} PROVE Fits([r EXCEPT !.pc = "post", !.rec = file])
    BY <1>0, <1>4, <1>20, <2>1 DEF StopRecord, Frame, Sited, InStatus, Superseded, Restarting, Spawning, Stopping
  <2>2. file = None => Fits(CallStatus(r, "lost"))
    <3>1. file = None => (r.prev # None => file' # r.prev)
      BY <1>4 DEF StopRecord
    <3>. QED BY <1>0, <3>1, CallSupersedes DEF Sites
  <2>. QED BY <1>0, <1>1, <1>4, <2>1, <2>2 DEF StopRecord
<1>5. CASE StopPost(c)
  <2>1. Fits([r EXCEPT !.pc = "drain"]) /\ Fits([r EXCEPT !.pc = "gone"])
    BY <1>3, <1>5 DEF StopPost, Stopping, InStatus
  <2>2. CASE Becomes(c, [r EXCEPT !.pc = "drain"])
    BY <1>0, <2>1, <2>2
  <2>3. CASE Becomes(c, [r EXCEPT !.pc = "gone"])
    BY <1>0, <2>1, <2>3
  <2>. QED BY <1>5, <2>2, <2>3 DEF StopPost
<1>6. CASE WaitForExit(c) \/ WaitForBind(c)
  <2>0. Stopping(r) /\ file' = file /\ r.pc \notin InStatus \cup {"wait"}
    BY <1>6 DEF WaitForExit, WaitForBind, Stopping, InStatus
  <2>1. \/ Becomes(c, CallStatus(r, "final"))
        \/ \E pc \in {"drain_bind", "gone", "fin_compare"}: Becomes(c, [r EXCEPT !.pc = pc])
    BY <1>6 DEF WaitForExit, WaitForBind
  <2>2. Fits(CallStatus(r, "final"))
    BY <1>2, <2>0
  <2>3. \A pc \in {"drain_bind", "gone", "fin_compare"}: Fits([r EXCEPT !.pc = pc])
    BY <1>3, <2>0
  <2>. QED BY <1>0, <2>1, <2>2, <2>3
<1>7. CASE EscalateGone(c) \/ EscalateBind(c)
  <2>0. Stopping(r) /\ file' = file /\ r.pc \notin InStatus \cup {"wait"}
    BY <1>7 DEF EscalateGone, EscalateBind, Stopping, InStatus
  <2>1. PICK pc \in {"fin_compare", "gone_bind", "probe"}: Becomes(c, [r EXCEPT !.pc = pc])
    BY <1>7 DEF EscalateGone, EscalateBind
  <2>2. Fits([r EXCEPT !.pc = pc])
    BY <1>3, <2>0
  <2>. QED BY <1>0, <2>1, <2>2
<1>8. CASE EscalateProbe(c)
  <2>1. Fits([r EXCEPT !.pc = "signal"])
    BY <1>3, <1>8 DEF EscalateProbe, Stopping, InStatus
  <2>2. Fits(CallStatus(r, "final"))
    BY <1>2, <1>8 DEF EscalateProbe, Stopping
  <2>. QED BY <1>0, <1>8, <2>1, <2>2 DEF EscalateProbe
<1>9. CASE EscalateSignal(c)
  <2>1. ASSUME NEW rung PROVE Fits([r EXCEPT !.pc = "drain", !.rung = rung])
    BY <1>0, <1>9, <1>20 DEF EscalateSignal, Frame, Sited, InStatus, Superseded, Restarting, Spawning, Stopping
  <2>2. Fits(CallStatus(r, "final"))
    BY <1>2, <1>9 DEF EscalateSignal, Stopping
  <2>3. CASE Becomes(c, CallStatus(r, "final"))
    BY <1>0, <2>2, <2>3
  <2>4. ASSUME NEW rung, Becomes(c, [r EXCEPT !.pc = "drain", !.rung = rung])
        PROVE  Fits(call'[c])
    BY <1>0, <2>1, <2>4
  <2>. QED BY <1>9, <2>3, <2>4 DEF EscalateSignal
<1>10. CASE FinishCompare(c)
  <2>1. Fits([r EXCEPT !.pc = "fin_unlink"])
    BY <1>3, <1>10 DEF FinishCompare, Stopping, InStatus
  <2>2. file # r.rec => Fits(Stopped(r, "stopped"))
    <3>1. file # r.rec => (r.prev # None => file' # r.prev)
      BY <1>0, <1>10 DEF FinishCompare, Superseded, Stopping
    <3>. QED BY <1>0, <3>1, StoppedSupersedes
  <2>. QED BY <1>0, <1>10, <2>1, <2>2 DEF FinishCompare
<1>11. CASE FinishUnlink(c)
  <2>1. file' = None => Fits(Stopped(r, "stopped"))
    BY <1>0, StoppedSupersedes
  <2>2. Kept(r) \in Frame /\ Kept(r).prev = r.prev /\ Kept(r).kept = "yes"
    BY <1>0, KeptType DEF Kept, Frame
  <2>3. Fits(Stopped(Kept(r), "stopped"))
    BY <2>2, StoppedSupersedes
  <2>. QED BY <1>0, <1>11, <2>1, <2>3 DEF FinishUnlink, Removed
<1>. QED BY <1>4, <1>5, <1>6, <1>7, <1>8, <1>9, <1>10, <1>11 DEF StopStep

LEMMA InitReplacing == Init => Replacing
BY DEF Init, Fresh, Replacing, Sited, Superseded, InStatus

LEMMA StepReplacing == TypeOK /\ Judged /\ Replacing /\ [Next]_vars => Replacing'
<1> SUFFICES ASSUME TypeOK, Judged, Replacing, [Next]_vars PROVE Replacing'
  OBVIOUS
<1> USE SupervisionAssumption
<1>1. \A c \in Calls: /\ Sited(call[c]) /\ Superseded(call[c], file, listener["inference"])
                      /\ call[c].prev # None => call[c].prev \in Instances /\ Past(call[c].prev)
                      /\ call[c].seen # None => call[c].seen \in Instances /\ Past(call[c].seen)
  BY DEF TypeOK, Replacing, Judged, Frame
<1>2. ASSUME NEW c \in Calls
      PROVE  Superseded(call[c], file', listener'["inference"])
  <2>1. call[c].prev # None /\ file # call[c].prev => file' # call[c].prev
    BY <1>1, RetractedStays
  <2>2. call[c].prev # None /\ listener["inference"] # call[c].prev
        => listener'["inference"] # call[c].prev
    BY <1>1, PastStays
  <2>. QED BY <1>1, <2>1, <2>2 DEF Superseded
<1>3. ASSUME NEW c \in Calls, CallStep(c)
      PROVE  /\ Sited(call'[c]) /\ Superseded(call'[c], file', listener'["inference"])
             /\ call'[c].prev \in {call[c].prev, call[c].seen, None}
  <2>1. StatusStep(c) => listener' = listener
    BY DEF StatusStep, StatusRead, StatusProbe, StatusBind, StatusCompare, StatusUnlink, gatewayVars
  <2>. QED BY <1>3, <2>1, StatusSupersedes, StartSupersedes, StopSupersedes DEF CallStep
<1>4. ASSUME NEW c \in Calls
      PROVE  /\ Sited(call'[c]) /\ Superseded(call'[c], file', listener'["inference"])
             /\ call'[c].prev # None =>
                  call'[c].prev \in Instances /\ Past(call'[c].prev)
  <2>1. CASE call'[c] = call[c]
    BY <1>1, <1>2, <2>1
  <2>2. CASE call'[c] # call[c]
    BY <1>1, <1>3, <2>2, OnlyCallStep
  <2>. QED BY <2>1, <2>2
<1>5. \A i \in Instances: Past(i) => Past(i)'
  BY PastStays
<1>. QED BY <1>4, <1>5 DEF Replacing

\* Once the stop() inside a restart() has returned, the gateway to be replaced is
\* advertised no more, whoever else starts, stops or cleans up, unless this call
\* failed to remove its record; restart() never reports that gateway as its result.
THEOREM ReplacedStays == Spec => []RestartSupersedes
<1>1. Spec => []Replacing
  BY InitReplacing, StepReplacing, TypeCorrect, JudgedHolds, PTL DEF Spec
<1>2. Replacing => RestartSupersedes
  BY DEF Replacing, RestartSupersedes, Superseded, Restarting
<1>. QED BY <1>1, <1>2, PTL

-----------------------------------------------------------------------------
(* The child that start() spawned                                           *)

\* A call has a child from its spawn on: then it polls, or is over; and an error
\* of start() means that the child is dead.
Minds(r, ph) ==
    r.child # None =>
      /\ ph[r.child] # "unborn"
      /\ r.pc = "done" \/ (r.at = "poll" /\ r.pc \in InStatus \cup {"wait"})
      /\ r.pc = "done" /\ r.kind = "error" => ph[r.child] = "dead"

ChildrenMinded == \A c \in Calls: Minds(call[c], phase)

\* A process that has died is not born again.
LEMMA BornStays ==
    ASSUME TypeOK, [Next]_vars, NEW i \in Instances
    PROVE  /\ phase[i] # "unborn" => phase'[i] # "unborn"
           /\ phase[i] = "dead" => phase'[i] = "dead"
<1> DEFINE Ages == /\ phase[i] # "unborn" => phase'[i] # "unborn"
                   /\ phase[i] = "dead" => phase'[i] = "dead"
<1> USE DEF TypeOK, Advance
<1>1. ASSUME NEW j, Die(j) PROVE Ages
  BY <1>1 DEF Die
<1>2. ASSUME NEW j \in Instances, GatewayStep(j) PROVE Ages
  BY <1>1, <1>2
  DEF GatewayStep, GatewayTurn, BindInference, BindAdmin, Publish, PublishFails, Serve, ServeFails, DrainDone,
      Unwind, RetractCompare, RetractUnlink, CloseListener
<1>3. ASSUME NEW c \in Calls, CallStep(c) PROVE Ages
  <2>1. CASE UNCHANGED gatewayVars
    BY <2>1 DEF gatewayVars
  <2>2. CASE Spawn(c)
    BY <2>2 DEF Spawn
  <2>3. CASE StartTimeout(c)
    BY <1>1, <2>3 DEF StartTimeout
  <2>4. CASE StopPost(c)
    BY <2>4 DEF StopPost, Draining
  <2>5. CASE EscalateSignal(c)
    <3>1. CASE Die(call[c].rec)
      BY <1>1, <3>1
    <3>2. CASE ~Die(call[c].rec)
      BY <2>5, <3>2 DEF EscalateSignal, Terminate, Draining
    <3>. QED BY <3>1, <3>2
  <2>. QED
    BY <1>3, <2>1, <2>2, <2>3, <2>4, <2>5
    DEF CallStep, StatusStep, StopStep, Begin, StatusRead, StatusProbe, StatusBind,
        StatusCompare, StatusUnlink, PollAgain, StopRecord, WaitForExit, WaitForBind, EscalateGone, EscalateBind,
        EscalateProbe, FinishCompare, FinishUnlink
<1>4. CASE Environment
  BY <1>1, <1>4 DEF Environment, Crash, Hang, ForeignTakes, ForeignLeaves, Damage, gatewayVars
<1>5. CASE UNCHANGED vars
  BY <1>5 DEF vars
<1>. QED BY <1>2, <1>3, <1>4, <1>5 DEF Next

\* status() hands a polling start() back to its loop, or ends it with success.
LEMMA AfterStatusMinds ==
    ASSUME NEW r \in Frame, NEW k \in Kinds, r.child # None => r.at = "poll",
           r.at = "poll" /\ k = "running" => r.prev = None \/ r.seen # r.prev
    PROVE  /\ AfterStatus(r, k).child = r.child
           /\ r.child # None =>
                \/ AfterStatus(r, k).pc = "done" /\ AfterStatus(r, k).kind # "error"
                \/ AfterStatus(r, k).pc = "wait" /\ AfterStatus(r, k).at = "poll"
<1>1. CASE r.child # None
  <2>1. k = "running" => Started(r) = Finish(r, "running")
    BY <1>1 DEF Started
  <2>. QED BY <1>1, <2>1 DEF AfterStatus, PollResumes, Finish, Frame
<1>2. CASE r.child = None
  <2> DEFINE Childless(x) == x.child = None
  <2>1. \A j \in Kinds: Childless(Finish(r, j)) /\ Childless(Stopped(r, j))
    BY <1>2 DEF Finish, Stopped, CallStatus, Frame
  <2>2. Childless(CallStatus(r, "start")) /\ Childless(Started(r))
    BY <1>2 DEF CallStatus, Started, Finish, Frame
  <2>3. /\ Childless([r EXCEPT !.pc = "spawn", !.at = "none", !.seen = None])
        /\ Childless([r EXCEPT !.pc = "record", !.at = "none", !.seen = None])
        /\ Childless([r EXCEPT !.pc = "fin_compare", !.at = "none", !.seen = None])
        /\ Childless([r EXCEPT !.pc = "wait", !.seen = None])
    BY <1>2 DEF Frame
  <2>4. Childless(CallStatus([r EXCEPT !.prev = IF k = "running" THEN r.seen ELSE None], "stop"))
    BY <1>2 DEF CallStatus, Frame
  <2>5. Childless(AfterStatus(r, k))
    BY <2>1, <2>2, <2>3, <2>4, Names
    DEF AfterStatus, HookResumes, StartResumes, PollResumes, RestartResumes, StopResumes,
        FinalResumes
  <2>. QED BY <1>2, <2>5
<1>. QED BY <1>1, <1>2

LEMMA StatusMinds ==
    ASSUME TypeOK, Replacing, ChildrenMinded, NEW c \in Calls, StatusStep(c)
    PROVE  Minds(call'[c], phase')
<1> USE DEF Becomes
<1> DEFINE r == call[c]
<1>0. /\ r \in Frame /\ Sited(r) /\ Superseded(r, file, listener["inference"]) /\ Minds(r, phase)
      /\ call \in [Calls -> Frame] /\ phase' = phase
  BY DEF TypeOK, Replacing, ChildrenMinded, StatusStep, StatusRead, StatusProbe, StatusBind,
         StatusCompare, StatusUnlink, gatewayVars
<1>1. ASSUME r.pc \in InStatus, NEW x \in {r, Kept(r)}, NEW k \in Kinds,
             k = "running" => listener["inference"] = r.seen
      PROVE  Minds(AfterStatus(x, k), phase')
  <2>0. x \in Frame /\ x.child = r.child /\ x.at = r.at /\ x.prev = r.prev /\ x.seen = r.seen
    BY <1>0, KeptType DEF Kept, Frame
  <2>1. /\ r.child # None => r.at = "poll" /\ phase'[r.child] # "unborn"
        /\ r.at = "poll" /\ k = "running" => r.prev = None \/ r.seen # r.prev
    BY <1>0, <1>1 DEF Minds, InStatus, Superseded, Spawning
  <2>2. /\ AfterStatus(x, k).child = r.child
        /\ r.child # None =>
             \/ AfterStatus(x, k).pc = "done" /\ AfterStatus(x, k).kind # "error"
             \/ AfterStatus(x, k).pc = "wait" /\ AfterStatus(x, k).at = "poll"
    BY <2>0, <2>1, AfterStatusMinds
  <2>. QED BY <2>1, <2>2 DEF Minds
<1>2. ASSUME r.pc \in InStatus, NEW pc \in {"st_bind", "st_compare", "st_unlink"}
      PROVE  Minds([r EXCEPT !.pc = pc], phase')
  BY <1>0, <1>2 DEF Minds, InStatus, Frame
<1>3. CASE StatusRead(c)
  <2>1. Minds([r EXCEPT !.pc = "st_probe", !.seen = file], phase')
    BY <1>0, <1>3 DEF StatusRead, Minds, InStatus, Frame
  <2>. QED BY <1>0, <1>1, <1>3, <2>1 DEF StatusRead, InStatus, Kinds
<1>4. CASE StatusProbe(c)
  <2>1. Minds([r EXCEPT !.pc = "st_bind"], phase')
    BY <1>2, <1>4 DEF StatusProbe, InStatus
  <2>. QED BY <1>0, <1>1, <1>4, <2>1 DEF StatusProbe, InStatus, Kinds
<1>5. CASE StatusBind(c)
  <2>1. Minds([r EXCEPT !.pc = "st_compare"], phase')
    BY <1>2, <1>5 DEF StatusBind, InStatus
  <2>. QED BY <1>0, <1>1, <1>5, <2>1 DEF StatusBind, InStatus, Kinds
<1>6. CASE StatusCompare(c)
  <2>1. Minds([r EXCEPT !.pc = "st_unlink"], phase')
    BY <1>2, <1>6 DEF StatusCompare, InStatus
  <2>. QED BY <1>0, <1>1, <1>6, <2>1 DEF StatusCompare, InStatus, Kinds
<1>7. CASE StatusUnlink(c)
  BY <1>0, <1>1, <1>7 DEF StatusUnlink, InStatus, Kinds
<1>. QED BY <1>3, <1>4, <1>5, <1>6, <1>7 DEF StatusStep

LEMMA StartMinds ==
    ASSUME TypeOK, Replacing, ChildrenMinded, NEW c \in Calls,
           Begin(c) \/ Spawn(c) \/ PollAgain(c) \/ StartTimeout(c)
    PROVE  Minds(call'[c], phase')
<1> USE SupervisionAssumption DEF Becomes
<1> DEFINE r == call[c]
<1>0. /\ r \in Frame /\ Sited(r) /\ Minds(r, phase) /\ call \in [Calls -> Frame]
      /\ phase \in [Instances -> Phases]
  BY DEF TypeOK, Replacing, ChildrenMinded
<1>1. ASSUME r.child # None => phase'[r.child] = "dead"
      PROVE  Minds(Finish(r, "error"), phase')
  BY <1>0, <1>1 DEF Finish, Minds, Frame
<1>2. CASE Begin(c)
  <2>1. PICK op \in Ops[c]: Becomes(c, CallStatus([r EXCEPT !.op = op], op))
    BY <1>2 DEF Begin
  <2>2. r.child = None
    BY <1>0, <1>2 DEF Begin, Minds, InStatus
  <2>3. Minds(CallStatus([r EXCEPT !.op = op], op), phase')
    BY <1>0, <2>2 DEF CallStatus, Minds, Frame
  <2>. QED BY <1>0, <2>1, <2>3
<1>3. CASE Spawn(c)
  <2>1. ASSUME NEW i \in Instances, Advance(i, "unborn", "boot")
        PROVE  Minds([r EXCEPT !.pc = "wait", !.at = "poll", !.child = i], phase')
    BY <1>0, <2>1 DEF Advance, Minds, Frame
  <2>2. r.child = None
    BY <1>0, <1>3 DEF Spawn, Minds, InStatus
  <2>3. Minds(Finish(r, "error"), phase')
    BY <1>1, <2>2
  <2>. QED BY <1>0, <1>3, <2>1, <2>3 DEF Spawn
<1>4. CASE PollAgain(c)
  <2>1. Minds(CallStatus(r, r.at), phase')
    BY <1>0, <1>4 DEF PollAgain, CallStatus, Minds, InStatus, Frame, gatewayVars
  <2>2. r.at = "poll" /\ ~Alive(r.child) => Minds(Finish(r, "error"), phase')
    BY <1>0, <1>1, <1>4 DEF PollAgain, Minds, Alive, gatewayVars
  <2>. QED BY <1>0, <1>4, <2>1, <2>2 DEF PollAgain
<1>5. CASE StartTimeout(c)
  <2>1. r.child # None => phase'[r.child] = "dead"
    BY <1>0, <1>5 DEF StartTimeout, Minds, InStatus, Alive, Die, Frame
  <2>. QED BY <1>0, <1>1, <1>5, <2>1 DEF StartTimeout
<1>. QED BY <1>2, <1>3, <1>4, <1>5

\* stop() runs before there is a child, or in a call that never has one.
LEMMA StopMinds ==
    ASSUME TypeOK, ChildrenMinded, NEW c \in Calls, StopStep(c)
    PROVE  Minds(call'[c], phase')
<1> USE DEF Becomes
<1> DEFINE r == call[c]
           Childless(x) == x.child = None
<1>0. r \in Frame /\ call \in [Calls -> Frame] /\ Childless(r)
  BY DEF TypeOK, ChildrenMinded, Minds, InStatus, StopStep, StopRecord, StopPost, WaitForExit, WaitForBind,
         EscalateGone, EscalateBind, EscalateProbe, EscalateSignal, FinishCompare, FinishUnlink
<1>1. \A site: Childless(CallStatus(r, site))
  BY <1>0 DEF CallStatus, Frame
<1>2. \A k: Childless(Finish(r, k)) /\ Childless(Stopped(r, k)) /\ Childless(Stopped(Kept(r), k))
  BY <1>0, <1>1 DEF Finish, Stopped, CallStatus, Kept, Frame
<1>3. \A x: /\ Childless([r EXCEPT !.pc = x])
            /\ Childless([r EXCEPT !.pc = "post", !.rec = x])
            /\ Childless([r EXCEPT !.pc = "drain", !.rung = x])
  BY <1>0 DEF Frame
<1>4. Childless(call'[c])
  <2>1. CASE EscalateGone(c) \/ EscalateBind(c)
    <3>1. \E x: Becomes(c, [r EXCEPT !.pc = x])
      BY <2>1 DEF EscalateGone, EscalateBind
    <3>. QED BY <1>0, <1>3, <3>1
  <2>2. CASE EscalateSignal(c)
    <3>1. \/ Becomes(c, CallStatus(r, "final"))
          \/ \E x: Becomes(c, [r EXCEPT !.pc = "drain", !.rung = x])
      BY <2>2 DEF EscalateSignal
    <3>. QED BY <1>0, <1>1, <1>3, <3>1
  <2>3. CASE StopPost(c)
    <3>1. \E x: Becomes(c, [r EXCEPT !.pc = x])
      BY <2>3 DEF StopPost
    <3>. QED BY <1>0, <1>3, <3>1
  <2>4. CASE StopRecord(c)
    <3>1. \/ Becomes(c, CallStatus(r, "lost"))
          \/ Becomes(c, Finish(r, "error"))
          \/ Becomes(c, [r EXCEPT !.pc = "post", !.rec = file])
      <4>1. CASE file = None
        BY <2>4, <4>1, SupervisionAssumption DEF StopRecord
      <4>2. CASE file = Corrupt
        BY <2>4, <4>2, SupervisionAssumption DEF StopRecord
      <4>3. CASE file \notin {None, Corrupt}
        BY <2>4, <4>3 DEF StopRecord
      <4>. QED BY <4>1, <4>2, <4>3
    <3>2. Childless(CallStatus(r, "lost")) /\ Childless(Finish(r, "error"))
      BY <1>1, <1>2
    <3>. QED BY <1>0, <1>3, <3>1, <3>2
  <2>5. CASE WaitForExit(c) \/ WaitForBind(c)
    <3>1. \/ \E x: Becomes(c, [r EXCEPT !.pc = x])
          \/ Becomes(c, CallStatus(r, "final"))
      BY <2>5 DEF WaitForExit, WaitForBind
    <3>. QED BY <1>0, <1>1, <1>3, <3>1
  <2>6. CASE EscalateProbe(c)
    <3>1. \/ \E x: Becomes(c, [r EXCEPT !.pc = x])
          \/ Becomes(c, CallStatus(r, "final"))
      BY <2>6 DEF EscalateProbe
    <3>. QED BY <1>0, <1>1, <1>3, <3>1
  <2>7. CASE FinishCompare(c) \/ FinishUnlink(c)
    <3>1. \/ \E x: Becomes(c, [r EXCEPT !.pc = x])
          \/ Becomes(c, Stopped(r, "stopped"))
          \/ Becomes(c, Stopped(Kept(r), "stopped"))
      BY <2>7 DEF FinishCompare, FinishUnlink
    <3>2. Childless(Stopped(r, "stopped")) /\ Childless(Stopped(Kept(r), "stopped"))
      BY <1>2
    <3>. QED BY <1>0, <1>3, <3>1, <3>2
  <2>. QED BY <2>1, <2>2, <2>3, <2>4, <2>5, <2>6, <2>7 DEF StopStep
<1>. QED BY <1>4 DEF Minds

LEMMA StepMinds == TypeOK /\ Replacing /\ ChildrenMinded /\ [Next]_vars => ChildrenMinded'
<1> SUFFICES ASSUME TypeOK, Replacing, ChildrenMinded, [Next]_vars, NEW c \in Calls
             PROVE  Minds(call'[c], phase')
  BY DEF ChildrenMinded, Minds
<1>1. CASE call'[c] = call[c]
  <2>1. call[c].child # None => call[c].child \in Instances
    BY DEF TypeOK, Frame
  <2>2. Minds(call[c], phase')
    BY <2>1, BornStays DEF ChildrenMinded, Minds
  <2>. QED BY <1>1, <2>2
<1>2. CASE call'[c] # call[c]
  BY <1>2, OnlyCallStep, StatusMinds, StartMinds, StopMinds DEF CallStep
<1>. QED BY <1>1, <1>2

\* A start() that raises, on its own or inside a restart(), has killed the process
\* it spawned or found it dead: none is left behind.
THEOREM FailedStartsEnd == Spec => []FailedStartLeavesNoChild
<1>1. Spec => []Replacing
  BY InitReplacing, StepReplacing, TypeCorrect, JudgedHolds, PTL DEF Spec
<1>2. Init => ChildrenMinded
  BY DEF Init, Fresh, ChildrenMinded, Minds
<1>3. Spec => []ChildrenMinded
  BY <1>1, <1>2, StepMinds, TypeCorrect, PTL DEF Spec
<1>4. ChildrenMinded => FailedStartLeavesNoChild
  BY DEF ChildrenMinded, Minds, FailedStartLeavesNoChild, Alive
<1>. QED BY <1>3, <1>4, PTL

-----------------------------------------------------------------------------
(* The window in which an advertisement can be lost                         *)

\* No answer comes late and no loop hangs: the calls' own deadlines do not expire
\* while the gateway they ask is up.
NoStall == Faults \cap {"slow", "hang"} = {}

UpSet == {i \in Instances: Up(i)}

\* A call is in status() or in a wait loop, or has nowhere to return to.  stop() climbs
\* its ladder from the bottom, has a record for it, and after the last
\* rung the recorded gateway is not up; without stalls it never settles for clearing
\* the file while it still names a gateway that is up.
Laddered(r, f, up) ==
    /\ r.pc \notin InStatus \cup {"wait"} => r.at = "none"
    /\ r.pc \in {"begin", "record", "post"}
         \/ r.at \in {"status", "hook", "restart", "stop", "lost"} => r.rung = "none"
    /\ Stopping(r) => r.rec # None
    /\ Stopping(r) /\ r.rung = "kill" => r.rec \notin up
    /\ NoStall /\ (r.pc \in {"fin_compare", "fin_unlink"} \/ r.at = "final")
         => f # r.rec \/ r.rec \notin up

Laddering ==
    \A c \in Calls: /\ call[c].rec # None => Past(call[c].rec)
                    /\ Laddered(call[c], file, UpSet)

\* Whoever could unlink the advertisement of a gateway that is up decided to before
\* that gateway published it.
Windowed == \A i \in UpSet: file = i => Unlinking \subseteq window

NoHang == "hang" \notin Faults => \A i \in Instances: phase[i] # "hung"

\* A gateway comes up only by publishing, which it does once.
LEMMA DownStays ==
    ASSUME TypeOK, [Next]_vars, NEW i \in Instances, Past(i), ~Up(i)
    PROVE  ~Up(i)'
<1> USE DEF TypeOK, Past, Up, Advance
<1>1. ASSUME NEW j, Die(j) PROVE ~Up(i)'
  BY <1>1 DEF Die
<1>2. ASSUME NEW j \in Instances, GatewayStep(j) PROVE ~Up(i)'
  BY <1>1, <1>2
  DEF GatewayStep, GatewayTurn, BindInference, BindAdmin, Publish, PublishFails, Serve, ServeFails, DrainDone,
      Unwind, RetractCompare, RetractUnlink, CloseListener
<1>3. ASSUME NEW c \in Calls, CallStep(c) PROVE ~Up(i)'
  <2>1. CASE UNCHANGED gatewayVars
    BY <2>1 DEF gatewayVars
  <2>2. CASE Spawn(c)
    BY <2>2 DEF Spawn
  <2>3. CASE StartTimeout(c)
    BY <1>1, <2>3 DEF StartTimeout
  <2>4. CASE StopPost(c)
    BY <2>4 DEF StopPost, Draining
  <2>5. CASE EscalateSignal(c)
    <3>1. CASE Die(call[c].rec)
      BY <1>1, <3>1
    <3>2. CASE ~Die(call[c].rec)
      BY <2>5, <3>2 DEF EscalateSignal, Terminate, Draining
    <3>. QED BY <3>1, <3>2
  <2>. QED
    BY <1>3, <2>1, <2>2, <2>3, <2>4, <2>5
    DEF CallStep, StatusStep, StopStep, Begin, StatusRead, StatusProbe, StatusBind,
        StatusCompare, StatusUnlink, PollAgain, StopRecord, WaitForExit, WaitForBind, EscalateGone, EscalateBind,
        EscalateProbe, FinishCompare, FinishUnlink
<1>4. CASE Environment
  BY <1>1, <1>4 DEF Environment, Crash, Hang, ForeignTakes, ForeignLeaves, Damage, gatewayVars
<1>5. CASE UNCHANGED vars
  BY <1>5 DEF vars
<1>. QED BY <1>2, <1>3, <1>4, <1>5 DEF Next

LEMMA StepNoHang == TypeOK /\ NoHang /\ [Next]_vars => NoHang'
<1> SUFFICES ASSUME TypeOK, NoHang, [Next]_vars, "hang" \notin Faults, NEW i \in Instances
             PROVE  phase'[i] # "hung"
  BY DEF NoHang
<1> USE DEF TypeOK, Advance
<1>0. phase[i] # "hung"
  BY DEF NoHang
<1>1. ASSUME NEW j, Die(j) PROVE phase'[i] # "hung"
  BY <1>0, <1>1 DEF Die
<1>2. ASSUME NEW j \in Instances, GatewayStep(j) PROVE phase'[i] # "hung"
  BY <1>0, <1>1, <1>2
  DEF GatewayStep, GatewayTurn, BindInference, BindAdmin, Publish, PublishFails, Serve, ServeFails, DrainDone,
      Unwind, RetractCompare, RetractUnlink, CloseListener
<1>3. ASSUME NEW c \in Calls, CallStep(c) PROVE phase'[i] # "hung"
  <2>1. CASE UNCHANGED gatewayVars
    BY <1>0, <2>1 DEF gatewayVars
  <2>2. CASE Spawn(c)
    BY <1>0, <2>2 DEF Spawn
  <2>3. CASE StartTimeout(c)
    BY <1>0, <1>1, <2>3 DEF StartTimeout
  <2>4. CASE StopPost(c)
    BY <1>0, <2>4 DEF StopPost
  <2>5. CASE EscalateSignal(c)
    <3>1. CASE Die(call[c].rec)
      BY <1>1, <3>1
    <3>2. CASE ~Die(call[c].rec)
      BY <1>0, <2>5, <3>2 DEF EscalateSignal, Terminate
    <3>. QED BY <3>1, <3>2
  <2>. QED
    BY <1>3, <2>1, <2>2, <2>3, <2>4, <2>5
    DEF CallStep, StatusStep, StopStep, Begin, StatusRead, StatusProbe, StatusBind,
        StatusCompare, StatusUnlink, PollAgain, StopRecord, WaitForExit, WaitForBind, EscalateGone, EscalateBind,
        EscalateProbe, FinishCompare, FinishUnlink
<1>4. CASE Environment
  BY <1>0, <1>1, <1>4
  DEF Environment, Crash, Hang, ForeignTakes, ForeignLeaves, Damage, gatewayVars
<1>5. CASE UNCHANGED vars
  BY <1>0, <1>5 DEF vars
<1>. QED BY <1>2, <1>3, <1>4, <1>5 DEF Next

\* Wherever status() returns to: only the last look of stop() goes on down its ladder.
LEMMA AfterStatusLadders ==
    ASSUME NEW r \in Frame, NEW k \in Kinds, NEW f, NEW up, r.at # "none", Laddered(r, f, up)
    PROVE  Laddered(AfterStatus(r, k), f, up) /\ AfterStatus(r, k).rec = r.rec
<1> DEFINE Fits(x) == Laddered(x, f, up) /\ x.rec = r.rec
<1> USE DEF Laddered, Stopping, InStatus
<1>1. Fits(Finish(r, k)) /\ Fits(Finish(r, "error")) /\ Fits(Finish(r, "running"))
  BY DEF Finish, Frame
<1>2. Fits(CallStatus(r, "start"))
  BY DEF CallStatus, Frame
<1>3. Fits(Stopped(r, k))
  BY <1>1, <1>2 DEF Stopped
<1>4. Fits(Started(r))
  <2>1. Fits([r EXCEPT !.pc = "wait", !.at = "renew", !.seen = None])
    BY DEF Frame
  <2>. QED BY <1>1, <2>1 DEF Started
<1>5. CASE r.at \in {"status", "hook", "lost"}
  <2> SUFFICES Fits(AfterStatus(r, k))
    OBVIOUS
  <2> HIDE DEF Fits
  <2>1. CASE r.at = "status"
    BY <1>1, <2>1 DEF AfterStatus
  <2>2. CASE r.at = "hook"
    BY <1>1, <1>2, <2>2 DEF AfterStatus, HookResumes
  <2>3. CASE r.at = "lost"
    BY <1>3, <2>3 DEF AfterStatus
  <2>. QED BY <1>5, <2>1, <2>2, <2>3
<1>6. CASE r.at = "start"
  <2>1. Fits([r EXCEPT !.pc = "spawn", !.at = "none", !.seen = None])
    BY DEF Frame
  <2>. QED BY <1>1, <1>4, <1>6, <2>1 DEF AfterStatus, StartResumes
<1>7. CASE r.at \in {"poll", "renew"}
  <2>1. Fits([r EXCEPT !.pc = "wait", !.seen = None])
    BY <1>7 DEF Frame
  <2>. QED BY <1>4, <1>7, <2>1 DEF AfterStatus, PollResumes
<1>8. CASE r.at = "restart"
  <2>1. Fits(CallStatus([r EXCEPT !.prev = IF k = "running" THEN r.seen ELSE None], "stop"))
    BY <1>8 DEF CallStatus, Frame
  <2>. QED BY <1>8, <2>1 DEF AfterStatus, RestartResumes
<1>9. CASE r.at = "stop"
  <2>1. Fits([r EXCEPT !.pc = "record", !.at = "none", !.seen = None])
    BY <1>9 DEF Frame
  <2>. QED BY <1>1, <1>3, <1>9, <2>1 DEF AfterStatus, StopResumes
<1>10. CASE r.at = "final"
  <2>1. Fits([r EXCEPT !.pc = "fin_compare", !.at = "none", !.seen = None])
    BY <1>10 DEF Frame
  <2>. QED BY <1>1, <1>10, <2>1 DEF AfterStatus, FinalResumes
<1>. QED BY <1>5, <1>6, <1>7, <1>8, <1>9, <1>10 DEF Frame, Sites

\* What a frame says of the file and of the gateway it records stays true while the
\* file does not come to name that gateway and the gateway does not come up.
LEMMA LadderStays ==
    ASSUME NEW r, NEW f, NEW up, NEW g, NEW vp, Laddered(r, f, up),
           g = r.rec => g = f \/ r.rec = None, r.rec \in vp => r.rec \in up
    PROVE  Laddered(r, g, vp)
BY DEF Laddered, Stopping

LEMMA StatusLadders ==
    ASSUME TypeOK, Replacing, Laddering, NEW c \in Calls, StatusStep(c)
    PROVE  Laddered(call'[c], file', UpSet) /\ call'[c].rec = call[c].rec
<1> USE DEF Becomes
<1> DEFINE r == call[c]
           Fits(x) == Laddered(x, file', UpSet) /\ x.rec = r.rec
<1>0. /\ r \in Frame /\ call \in [Calls -> Frame]
      /\ r.pc \in InStatus => r.at # "none"
  BY DEF TypeOK, Replacing, Sited
<1>1. Laddered(r, file', UpSet)
  <2>1. file' = file \/ file' = None
    BY DEF StatusStep, StatusRead, StatusProbe, StatusBind, StatusCompare, StatusUnlink,
           Removed, RemovalFails
  <2>. QED BY <2>1, LadderStays DEF Laddering
<1>2. ASSUME r.pc \in InStatus, NEW x \in {r, Kept(r)}, NEW k \in Kinds PROVE Fits(AfterStatus(x, k))
  <2>1. x \in Frame /\ x.at # "none" /\ x.rec = r.rec /\ Laddered(x, file', UpSet)
    BY <1>0, <1>1, <1>2, KeptType DEF Kept, Frame, Laddered, Stopping, InStatus
  <2>. QED BY <2>1, AfterStatusLadders
<1>3. ASSUME r.pc \in InStatus, NEW pc \in InStatus
      PROVE  Fits([r EXCEPT !.pc = pc]) /\ \A s: Fits([r EXCEPT !.pc = pc, !.seen = s])
  BY <1>0, <1>1, <1>3 DEF Laddered, Stopping, Frame, InStatus
<1>4. CASE StatusRead(c)
  <2>1. Fits([r EXCEPT !.pc = "st_probe", !.seen = file])
    BY <1>3, <1>4 DEF StatusRead, InStatus
  <2>. QED BY <1>0, <1>2, <1>4, <2>1 DEF StatusRead, InStatus, Kinds
<1>5. CASE StatusProbe(c)
  <2>1. Fits([r EXCEPT !.pc = "st_bind"])
    BY <1>3, <1>5 DEF StatusProbe, InStatus
  <2>. QED BY <1>0, <1>2, <1>5, <2>1 DEF StatusProbe, InStatus, Kinds
<1>6. CASE StatusBind(c)
  <2>1. Fits([r EXCEPT !.pc = "st_compare"])
    BY <1>3, <1>6 DEF StatusBind, InStatus
  <2>. QED BY <1>0, <1>2, <1>6, <2>1 DEF StatusBind, InStatus, Kinds
<1>7. CASE StatusCompare(c)
  <2>1. Fits([r EXCEPT !.pc = "st_unlink"])
    BY <1>3, <1>7 DEF StatusCompare, InStatus
  <2>. QED BY <1>0, <1>2, <1>7, <2>1 DEF StatusCompare, InStatus, Kinds
<1>8. CASE StatusUnlink(c)
  BY <1>0, <1>2, <1>8 DEF StatusUnlink, InStatus, Kinds
<1>. QED BY <1>4, <1>5, <1>6, <1>7, <1>8 DEF StatusStep

LEMMA StartLadders ==
    ASSUME TypeOK, Replacing, Laddering, NEW c \in Calls,
           Begin(c) \/ Spawn(c) \/ PollAgain(c) \/ StartTimeout(c), NEW f, NEW up
    PROVE  Laddered(call'[c], f, up) /\ call'[c].rec = call[c].rec
<1> USE SupervisionAssumption DEF Becomes, Laddered, Stopping, InStatus
<1> DEFINE r == call[c]
           Fits(x) == Laddered(x, f, up) /\ x.rec = r.rec
<1>0. /\ r \in Frame /\ call \in [Calls -> Frame]
      /\ r.pc = "wait" => r.at \in {"poll", "renew"}
      /\ r.pc = "begin" => r.rung = "none"
  BY DEF TypeOK, Replacing, Sited, Laddering
<1>1. Fits(Finish(r, "error"))
  BY <1>0 DEF Finish, Frame
<1>2. CASE Begin(c)
  <2>1. PICK op \in Ops[c]: Becomes(c, CallStatus([r EXCEPT !.op = op], op))
    BY <1>2 DEF Begin
  <2>2. op \in OpKinds
    BY <2>1
  <2>3. Fits(CallStatus([r EXCEPT !.op = op], op))
    BY <1>0, <1>2, <2>2 DEF CallStatus, Frame, Begin, OpKinds
  <2>. QED BY <1>0, <2>1, <2>3
<1>3. CASE Spawn(c)
  <2>1. ASSUME NEW i, Becomes(c, [r EXCEPT !.pc = "wait", !.at = "poll", !.child = i])
        PROVE  Fits(call'[c])
    BY <1>0, <2>1 DEF Frame
  <2>. QED BY <1>0, <1>1, <1>3, <2>1 DEF Spawn
<1>4. CASE PollAgain(c)
  <2>1. Fits(CallStatus(r, r.at))
    BY <1>0, <1>4 DEF PollAgain, CallStatus, Frame
  <2>. QED BY <1>0, <1>1, <1>4, <2>1 DEF PollAgain
<1>5. CASE StartTimeout(c)
  BY <1>0, <1>1, <1>5 DEF StartTimeout
<1>. QED BY <1>2, <1>3, <1>4, <1>5

\* The ladder of stop(): it leaves a recorded gateway alone only once the file no
\* longer names it or it is not up.
LEMMA StopLadders ==
    ASSUME TypeOK, Ownership, Judged, NoHang, Laddering, NEW c \in Calls, StopStep(c), [Next]_vars
    PROVE  /\ Laddered(call'[c], file', UpSet')
           /\ call'[c].rec \in Instances \cup {None}
           /\ call'[c].rec # None => Past(call'[c].rec)
<1> USE SupervisionAssumption DEF Becomes
<1> DEFINE r == call[c]
           Fits(x) == Laddered(x, file', UpSet') /\ x.rec = r.rec
<1>0. /\ r \in Frame /\ call \in [Calls -> Frame] /\ r.rec \in Instances \cup {None}
      /\ Laddered(r, file, UpSet) /\ r.at = "none"
      /\ r.rec # None => Past(r.rec)
  BY DEF TypeOK, Frame, Laddering, Laddered, InStatus, StopStep, StopRecord, StopPost,
         WaitForExit, WaitForBind, EscalateGone, EscalateBind, EscalateProbe, EscalateSignal, FinishCompare, FinishUnlink
<1>1. r.rec \in UpSet' => r.rec \in UpSet
  BY <1>0, DownStays DEF UpSet
<1>2. file' = file \/ file' = None
  BY DEF StopStep, StopRecord, StopPost, WaitForExit, WaitForBind, EscalateGone, EscalateBind, EscalateProbe,
         EscalateSignal, FinishCompare, FinishUnlink, Removed, RemovalFails
<1>3. Laddered(r, file', UpSet')
  BY <1>0, <1>1, <1>2, LadderStays
<1>4. ASSUME Stopping(r), listener["inference"] # r.rec PROVE r.rec \notin UpSet'
  BY <1>0, <1>1, <1>4 DEF UpSet, Ownership
<1>5. ASSUME Stopping(r), NEW pc \in {"drain", "drain_bind", "gone", "gone_bind", "probe", "signal"}
      PROVE  Fits([r EXCEPT !.pc = pc])
  BY <1>0, <1>3, <1>5 DEF Laddered, Stopping, Frame, InStatus
<1>6. ASSUME Stopping(r), file' # r.rec \/ r.rec \notin UpSet', NEW pc \in {"fin_compare", "fin_unlink"}
      PROVE  Fits([r EXCEPT !.pc = pc])
  BY <1>0, <1>3, <1>6 DEF Laddered, Stopping, Frame, InStatus
<1>7. ASSUME Stopping(r), NoStall => file' # r.rec \/ r.rec \notin UpSet'
      PROVE  Fits(CallStatus(r, "final"))
  BY <1>0, <1>3, <1>7 DEF Laddered, Stopping, Frame, InStatus, CallStatus
<1>8. \A k: Fits(Finish(r, k)) /\ Fits(Stopped(r, k)) /\ Fits(Stopped(Kept(r), k))
  BY <1>0 DEF Laddered, Stopping, Frame, InStatus, Finish, Stopped, CallStatus, Kept
<1>9. CASE StopRecord(c)
  <2>1. CASE file = None
    <3>1. r.rung = "none"
      BY <1>0, <1>9 DEF StopRecord, Laddered
    <3>2. Fits(CallStatus(r, "lost"))
      BY <1>0, <3>1 DEF CallStatus, Laddered, Stopping, Frame, InStatus
    <3>. QED BY <1>0, <1>9, <2>1, <3>2 DEF StopRecord
  <2>2. CASE file = Corrupt
    BY <1>0, <1>8, <1>9, <2>2 DEF StopRecord
  <2>3. CASE file \notin {None, Corrupt}
    <3>1. file \in Instances /\ file' = file /\ Past(file)
      BY <1>9, <2>3 DEF TypeOK, StopRecord, Judged
    <3>2. r.rung = "none"
      BY <1>0, <1>9 DEF StopRecord, Laddered
    <3>3. LET x == [r EXCEPT !.pc = "post", !.rec = file]
          IN  Laddered(x, file', UpSet') /\ x.rec = file
      BY <1>0, <3>1, <3>2 DEF Laddered, Stopping, Frame, InStatus
    <3>4. call'[c] = [r EXCEPT !.pc = "post", !.rec = file]
      BY <1>0, <1>9, <2>3 DEF StopRecord
    <3>. QED BY <3>1, <3>3, <3>4
  <2>. QED BY <2>1, <2>2, <2>3
<1>10. CASE StopPost(c)
  <2>1. Stopping(r)
    BY <1>10 DEF StopPost, Stopping
  <2>. QED BY <1>0, <1>5, <1>10, <2>1 DEF StopPost
<1>11. ASSUME Stopping(r), ~Held PROVE r.rec \notin UpSet'
  BY <1>0, <1>4, <1>11 DEF Held, Laddered
<1>12. CASE WaitForExit(c) \/ WaitForBind(c)
  <2>1. Stopping(r) /\ file' = file
    BY <1>12 DEF WaitForExit, WaitForBind, Stopping
  <2>2. CASE Becomes(c, [r EXCEPT !.pc = "fin_compare"])
    <3>1. [r EXCEPT !.pc = "fin_compare"].pc = "fin_compare"
      BY <1>0 DEF Frame
    <3>2. file # r.rec \/ ~Held
      <4>1. CASE WaitForExit(c)
        BY <1>0, <2>2, <3>1, <4>1 DEF WaitForExit, Frame
      <4>2. CASE WaitForBind(c)
        <5>1. /\ [r EXCEPT !.pc = "gone"].pc = "gone"
              /\ CallStatus(r, "final").pc = "st_read"
          BY <1>0 DEF Frame, CallStatus
        <5>2. call'[c] = [r EXCEPT !.pc = "fin_compare"]
          BY <1>0, <2>2
        <5>3. \/ ~Held
              \/ call'[c] = CallStatus(r, "final")
              \/ call'[c] = [r EXCEPT !.pc = "gone"]
          BY <1>0, <4>2 DEF WaitForBind
        <5>. QED BY <3>1, <5>1, <5>2, <5>3
      <4>. QED BY <1>12, <4>1, <4>2
    <3>. QED BY <1>0, <1>6, <1>11, <2>1, <2>2, <3>2
  <2>3. CASE Becomes(c, CallStatus(r, "final")) /\ r.rung = "kill"
    <3>1. r.rec \notin UpSet'
      BY <1>3, <2>1, <2>3 DEF Laddered
    <3>. QED BY <1>0, <1>7, <2>1, <2>3, <3>1
  <2>4. CASE \E pc \in {"drain_bind", "gone"}: Becomes(c, [r EXCEPT !.pc = pc])
    BY <1>0, <1>5, <2>1, <2>4
  <2>. QED BY <1>12, <2>2, <2>3, <2>4 DEF WaitForExit, WaitForBind
<1>13. CASE EscalateGone(c) \/ EscalateBind(c)
  <2>1. Stopping(r) /\ file' = file
    BY <1>13 DEF EscalateGone, EscalateBind, Stopping
  <2>2. CASE Becomes(c, [r EXCEPT !.pc = "fin_compare"])
    <3>1. [r EXCEPT !.pc = "fin_compare"].pc = "fin_compare"
      BY <1>0 DEF Frame
    <3>2. file # r.rec \/ ~Held
      BY <1>0, <1>13, <2>2, <3>1 DEF EscalateGone, EscalateBind, Frame
    <3>. QED BY <1>0, <1>6, <1>11, <2>1, <2>2, <3>2
  <2>3. CASE \E pc \in {"gone_bind", "probe"}: Becomes(c, [r EXCEPT !.pc = pc])
    BY <1>0, <1>5, <2>1, <2>3
  <2>. QED BY <1>13, <2>2, <2>3 DEF EscalateGone, EscalateBind
<1>14. CASE EscalateProbe(c)
  <2>1. Stopping(r) /\ file' = file /\ phase' = phase /\ r.rec # None
    BY <1>0, <1>14 DEF EscalateProbe, Stopping, gatewayVars, Laddered
  <2>2. PICK a \in Answers:
          call'[c] = IF a = "ok" /\ listener["inference"] = r.rec
                       THEN [r EXCEPT !.pc = "signal"] ELSE CallStatus(r, "final")
    BY <1>0, <1>14 DEF EscalateProbe
  <2>3. CASE a = "ok" /\ listener["inference"] = r.rec
    BY <1>0, <1>5, <2>1, <2>2, <2>3
  <2>4. CASE ~(a = "ok" /\ listener["inference"] = r.rec)
    <3>1. ASSUME NoStall, listener["inference"] = r.rec PROVE r.rec \notin UpSet'
      <4>1. phase[r.rec] # "hung" /\ "slow" \notin Faults /\ r.rec \notin {None, Foreign}
        BY <1>0, <2>1, <3>1 DEF NoStall, NoHang
      <4>2. phase[r.rec] = "serving" => a = "ok"
        BY <3>1, <4>1 DEF Answers
      <4>3. phase[r.rec] # "published"
        BY <3>1, <4>1 DEF Answers, Draining
      <4>. QED BY <2>1, <2>4, <3>1, <4>1, <4>2, <4>3 DEF UpSet, Up
    <3>. QED BY <1>0, <1>4, <1>7, <2>1, <2>2, <2>4, <3>1
  <2>. QED BY <2>3, <2>4
<1>15. CASE EscalateSignal(c)
  <2> DEFINE next == IF r.rung = "none" THEN "terminate" ELSE "kill"
  <2>1. Stopping(r) /\ r.rec # None
    BY <1>0, <1>15 DEF EscalateSignal, Stopping, Laddered
  <2>2. CASE Alive(r.rec)
    <3>1. call'[c] = [r EXCEPT !.pc = "drain", !.rung = next]
      BY <1>0, <1>15, <2>2 DEF EscalateSignal
    <3>2. next = "kill" => r.rec \notin UpSet'
      BY <1>0, <1>15, <2>1, <2>2 DEF EscalateSignal, Die, TypeOK, UpSet, Up
    <3>3. Fits([r EXCEPT !.pc = "drain", !.rung = next])
      BY <1>0, <2>1, <3>2 DEF Laddered, Stopping, Frame, InStatus
    <3>. QED BY <1>0, <3>1, <3>3
  <2>3. CASE ~Alive(r.rec)
    <3>1. r.rec \notin UpSet'
      BY <1>1, <2>3 DEF Alive, UpSet, Up
    <3>2. Fits([r EXCEPT !.pc = "drain", !.rung = next])
      BY <1>0, <2>1, <3>1 DEF Laddered, Stopping, Frame, InStatus
    <3>. QED BY <1>0, <1>7, <1>15, <2>1, <2>3, <3>1, <3>2 DEF EscalateSignal
  <2>. QED BY <2>2, <2>3
<1>16. CASE FinishCompare(c)
  <2>1. Stopping(r) /\ file' = file
    BY <1>16 DEF FinishCompare, Stopping
  <2>2. Fits([r EXCEPT !.pc = "fin_unlink"])
    BY <1>0, <1>3, <1>16 DEF FinishCompare, Laddered, Stopping, Frame, InStatus
  <2>. QED BY <1>0, <1>8, <1>16, <2>2 DEF FinishCompare
<1>17. CASE FinishUnlink(c)
  BY <1>0, <1>8, <1>17 DEF FinishUnlink
<1>. QED BY <1>9, <1>10, <1>12, <1>13, <1>14, <1>15, <1>16, <1>17 DEF StopStep

LEMMA StepLaddering ==
    TypeOK /\ Ownership /\ Judged /\ NoHang /\ Replacing /\ Laddering /\ [Next]_vars => Laddering'
<1> SUFFICES ASSUME TypeOK, Ownership, Judged, NoHang, Replacing, Laddering, [Next]_vars,
                    NEW c \in Calls
             PROVE  /\ (call[c].rec # None => Past(call[c].rec))'
                    /\ Laddered(call'[c], file', UpSet')
  BY DEF Laddering
<1> USE SupervisionAssumption DEF Past
<1>0. call[c].rec \in Instances \cup {None} /\ file \in Instances \cup {None, Corrupt}
  BY DEF TypeOK, Frame
<1>1. \A i \in Instances: Past(i) => Past(i)' /\ (i \in UpSet' => i \in UpSet)
  BY PastStays, DownStays DEF UpSet
<1>2. \A i \in Instances: Past(i) /\ file' = i => file = i
  BY RetractedStays
<1>4. CASE call'[c] = call[c]
  BY <1>0, <1>1, <1>2, <1>4, LadderStays DEF Laddering, UpSet
<1>5. CASE StatusStep(c)
  <2>1. Laddered(call'[c], file', UpSet) /\ call'[c].rec = call[c].rec
    BY <1>5, StatusLadders
  <2>. QED BY <1>0, <1>1, <2>1, LadderStays DEF Laddering, UpSet
<1>6. CASE Begin(c) \/ Spawn(c) \/ PollAgain(c) \/ StartTimeout(c)
  BY <1>0, <1>1, <1>6, StartLadders DEF Laddering
<1>7. CASE StopStep(c)
  BY <1>0, <1>1, <1>7, StopLadders
<1>8. CASE call'[c] # call[c]
  <2>1. CallStep(c)
    BY <1>8, OnlyCallStep
  <2>. QED BY <1>5, <1>6, <1>7, <2>1 DEF CallStep
<1>. QED BY <1>4, <1>8

LEMMA InitLaddering == Init => Laddering /\ Windowed /\ NoHang
BY SupervisionAssumption
DEF Init, Fresh, Laddering, Laddered, Stopping, InStatus, Windowed, NoHang, UpSet, Unlinking

\* Only a comparison that found the file naming a gateway that is not up adds an
\* actor that may unlink it.
LEMMA UnlinkersJudge ==
    ASSUME NoStall, TypeOK, Ownership, Judged, Laddering, [Next]_vars,
           NEW a, a \in Unlinking', a \notin Unlinking
    PROVE  file \in Instances /\ ~Up(file)
<1> USE SupervisionAssumption
<1>1. CASE a \in Instances /\ phase'[a] = "unlink" /\ phase[a] # "unlink"
  <2>1. RetractCompare(a) /\ file = a
    <3>1. phase'[a] = "unlink" /\ phase[a] # "unlink" /\ a \in Instances
      BY <1>1
    <3>2. ~ \E j: Die(j)
      BY <3>1 DEF Die, TypeOK
    <3>3. PICK j \in Instances: GatewayStep(j)
      <4>1. ASSUME NEW c \in Calls, CallStep(c) PROVE phase' = phase \/ phase'[a] \notin {"unlink"}
        BY <3>1, <3>2, <4>1
        DEF CallStep, StatusStep, StopStep, gatewayVars, Begin, StatusRead, StatusProbe,
            StatusBind, StatusCompare, StatusUnlink, Spawn, PollAgain, StartTimeout,
            StopRecord, StopPost, Draining, WaitForExit, WaitForBind, EscalateGone, EscalateBind, EscalateProbe,
            EscalateSignal, Terminate, FinishCompare, FinishUnlink, Advance, TypeOK
      <4>2. ~Environment /\ ~UNCHANGED vars
        BY <3>1, <3>2
        DEF Environment, vars, gatewayVars, Crash, Hang, ForeignTakes, ForeignLeaves, Damage,
            Advance, TypeOK
      <4>. QED BY <3>1, <4>1, <4>2 DEF Next
    <3>4. RetractCompare(j)
      BY <3>1, <3>2, <3>3
      DEF GatewayStep, GatewayTurn, BindInference, BindAdmin, Publish, PublishFails, Serve, ServeFails, DrainDone,
          Unwind, RetractUnlink, CloseListener, Advance, TypeOK
    <3>. QED BY <3>1, <3>4 DEF RetractCompare, Advance, TypeOK
  <2>. QED BY <1>1, <2>1 DEF RetractCompare, Advance, Up
<1>2. CASE a \in Calls /\ call'[a].pc \in {"st_unlink", "fin_unlink"}
           /\ call[a].pc \notin {"st_unlink", "fin_unlink"}
  <2> DEFINE r == call[a]
  <2>0. r \in Frame /\ call \in [Calls -> Frame] /\ CallStep(a)
    BY <1>2, OnlyCallStep DEF TypeOK
  <2>1. \A k \in Kinds: /\ AfterStatus(r, k).pc \notin {"st_unlink", "fin_unlink"}
                       /\ AfterStatus(Kept(r), k).pc \notin {"st_unlink", "fin_unlink"}
    BY <2>0, KeptType, AfterStatusEnds
  <2>2. ASSUME NEW pc, Becomes(a, [r EXCEPT !.pc = pc])
        PROVE  pc \in {"st_unlink", "fin_unlink"}
    BY <1>2, <2>0, <2>2 DEF Becomes, Frame
  <2>3. ASSUME NEW k
        PROVE  /\ Finish(r, k).pc = "done" /\ Stopped(r, k).pc \in {"done", "st_read"}
               /\ Stopped(Kept(r), k).pc \in {"done", "st_read"}
    BY <2>0, KeptType DEF Finish, Stopped, CallStatus, Frame
  <2>4. \A site: CallStatus(r, site).pc = "st_read"
    BY <2>0 DEF CallStatus, Frame
  <2>5. CASE StatusStep(a)
    <3>1. StatusCompare(a)
      <4>1. ~StatusRead(a)
        <5>1. [r EXCEPT !.pc = "st_probe", !.seen = file].pc = "st_probe"
          BY <2>0 DEF Frame
        <5>. QED BY <1>2, <2>0, <2>1, <5>1 DEF StatusRead, Becomes, Kinds
      <4>2. ~StatusProbe(a)
        <5>1. ~Becomes(a, [r EXCEPT !.pc = "st_bind"])
          BY <2>2
        <5>2. \A k \in Kinds: ~Becomes(a, AfterStatus(r, k))
          BY <1>2, <2>0, <2>1 DEF Becomes
        <5>. QED BY <5>1, <5>2 DEF StatusProbe, Kinds
      <4>3. ~StatusBind(a) /\ ~StatusUnlink(a)
        <5>1. ~Becomes(a, [r EXCEPT !.pc = "st_compare"])
          BY <2>2
        <5>2. \A k \in Kinds: ~Becomes(a, AfterStatus(r, k)) /\ ~Becomes(a, AfterStatus(Kept(r), k))
          BY <1>2, <2>0, <2>1 DEF Becomes
        <5>. QED BY <5>1, <5>2 DEF StatusBind, StatusUnlink, Kinds
      <4>. QED BY <2>5, <4>1, <4>2, <4>3 DEF StatusStep
    <3>2. file = r.seen /\ r.pc = "st_compare"
      BY <1>2, <2>0, <2>1, <3>1 DEF StatusCompare, Becomes, Kinds
    <3>. QED BY <1>2, <3>2 DEF Judged, Ownership
  <2>6. CASE StopStep(a)
    <3>1. FinishCompare(a)
      <4>1. ~StopRecord(a)
        <5>1. [r EXCEPT !.pc = "post", !.rec = file].pc = "post"
          BY <2>0 DEF Frame
        <5>2. Finish(r, "error").pc = "done" /\ CallStatus(r, "lost").pc = "st_read"
          BY <2>3, <2>4
        <5>. QED BY <1>2, <2>0, <5>1, <5>2 DEF StopRecord, Becomes
      <4>2. ~StopPost(a)
        BY <1>2, <2>0, <2>2 DEF StopPost, Becomes
      <4>3. /\ ~WaitForExit(a) /\ ~WaitForBind(a)
            /\ ~EscalateGone(a) /\ ~EscalateBind(a) /\ ~EscalateProbe(a)
        <5>1. \A pc \in {"drain_bind", "gone", "gone_bind", "probe", "signal", "fin_compare"}:
                ~Becomes(a, [r EXCEPT !.pc = pc])
          BY <2>2
        <5>2. ~Becomes(a, CallStatus(r, "final"))
          BY <1>2, <2>0, <2>4 DEF Becomes
        <5>3. ~EscalateGone(a) /\ ~EscalateBind(a)
          BY <5>1 DEF EscalateGone, EscalateBind
        <5>. QED BY <5>1, <5>2, <5>3 DEF WaitForExit, WaitForBind, EscalateProbe
      <4>4. ~EscalateSignal(a)
        <5>1. \A rung: [r EXCEPT !.pc = "drain", !.rung = rung].pc = "drain"
          BY <2>0 DEF Frame
        <5>. QED BY <1>2, <2>0, <2>4, <5>1 DEF EscalateSignal, Becomes
      <4>5. ~FinishUnlink(a)
        BY <1>2, <2>0, <2>3 DEF FinishUnlink, Becomes
      <4>. QED BY <2>6, <4>1, <4>2, <4>3, <4>4, <4>5 DEF StopStep
    <3>2. file = r.rec /\ r.pc = "fin_compare"
      BY <1>2, <2>0, <2>3, <3>1 DEF FinishCompare, Becomes
    <3>3. r.rec \in Instances /\ r.rec \notin UpSet
      BY <1>2, <2>0, <3>2 DEF Laddering, Laddered, Stopping, Frame
    <3>. QED BY <3>2, <3>3 DEF UpSet
  <2>7. CASE Begin(a) \/ Spawn(a) \/ PollAgain(a) \/ StartTimeout(a)
    <3>1. ~Begin(a)
      <4>1. \A op: CallStatus([r EXCEPT !.op = op], op).pc = "st_read"
        BY <2>0 DEF CallStatus, Frame
      <4>. QED BY <1>2, <2>0, <4>1 DEF Begin, Becomes
    <3>2. ~Spawn(a)
      <4>1. \A i: [r EXCEPT !.pc = "wait", !.at = "poll", !.child = i].pc = "wait"
        BY <2>0 DEF Frame
      <4>. QED BY <1>2, <2>0, <2>3, <4>1 DEF Spawn, Becomes
    <3>3. ~PollAgain(a) /\ ~StartTimeout(a)
      BY <1>2, <2>0, <2>3, <2>4 DEF PollAgain, StartTimeout, Becomes
    <3>. QED BY <2>7, <3>1, <3>2, <3>3
  <2>. QED BY <2>0, <2>5, <2>6, <2>7 DEF CallStep
<1>. QED BY <1>1, <1>2 DEF Unlinking

\* What a step may do to the runtime file.
LEMMA FileSteps ==
    ASSUME TypeOK, [Next]_vars
    PROVE  \/ file' = file /\ window' = window
           \/ file' = Corrupt
           \/ \E c \in Calls: StatusUnlink(c) \/ FinishUnlink(c)
           \/ \E i \in Instances: RetractUnlink(i) \/ Publish(i)
BY DEF Next, GatewayStep, GatewayTurn, CallStep, StatusStep, StopStep, Environment, vars,
       gatewayVars,
       BindInference, BindAdmin, PublishFails, Serve, ServeFails, DrainDone, Unwind, RetractCompare,
       CloseListener, Begin, StatusRead, StatusProbe, StatusBind, StatusCompare, Spawn,
       PollAgain, StartTimeout, StopRecord, StopPost, WaitForExit, WaitForBind, EscalateGone, EscalateBind,
       EscalateProbe, EscalateSignal, FinishCompare, Crash, Hang, ForeignTakes,
       ForeignLeaves, Damage

LEMMA StepWindowed ==
    ASSUME NoStall, TypeOK, Ownership, Judged, Laddering, Windowed, [Next]_vars
    PROVE  Windowed'
<1> SUFFICES ASSUME NEW i \in UpSet', file' = i, NEW a \in Unlinking'
             PROVE  a \in window'
  BY DEF Windowed
<1> USE SupervisionAssumption
<1>0. i \in Instances
  BY DEF UpSet
<1>5. ASSUME file' = file /\ window' = window PROVE a \in window'
  <2>1. i \in UpSet
    BY <1>0, <1>5, DownStays DEF Judged, UpSet
  <2>2. a \in Unlinking
    BY <1>5, <2>1, UnlinkersJudge DEF UpSet
  <2>. QED BY <1>5, <2>1, <2>2 DEF Windowed
<1>1. CASE file' = file /\ window' = window
  BY <1>1, <1>5
<1>2. CASE \E j \in Instances: Publish(j)
  BY <1>2 DEF Publish, Advance, TypeOK, Unlinking
<1>3. CASE \E c \in Calls: StatusUnlink(c) \/ FinishUnlink(c)
  <2>1. Removed \/ RemovalFails
    BY <1>3 DEF StatusUnlink, FinishUnlink
  <2>. QED BY <1>0, <1>5, <2>1 DEF Removed, RemovalFails
<1>4. CASE \E j \in Instances: RetractUnlink(j)
  <2>1. Removed \/ RemovalFails
    BY <1>4 DEF RetractUnlink
  <2>. QED BY <1>0, <1>5, <2>1 DEF Removed, RemovalFails
<1>. QED BY <1>0, <1>1, <1>2, <1>3, <1>4, FileSteps

\* What a step of an unlinker, or of a publisher, means for a gateway that is up.
LEMMA LossInWindow ==
    ASSUME TypeOK, Ownership, Windowed, [Next]_vars,
           NEW i \in Instances, Up(i), file = i, file' # i, file' # Corrupt
    PROVE  \E a \in window: a \in Unlinking /\ a \notin Unlinking'
<1> USE SupervisionAssumption
<1>0. Unlinking \subseteq window
  BY DEF Windowed, UpSet
<1>1. ~ \E j \in Instances: Publish(j)
  BY DEF Publish, Advance, Ownership, Up
<1>2. CASE \E c \in Calls: StatusUnlink(c) \/ FinishUnlink(c)
  <2>1. PICK c \in Calls: StatusUnlink(c) \/ FinishUnlink(c)
    BY <1>2
  <2>2. call[c] \in Frame /\ call[c].pc \in {"st_unlink", "fin_unlink"}
    BY <2>1 DEF TypeOK, StatusUnlink, FinishUnlink
  <2>3. call'[c].pc \notin {"st_unlink", "fin_unlink"}
    <3>1. AfterStatus(call[c], "stale_cleaned").pc \notin {"st_unlink", "fin_unlink"}
      BY <2>2, AfterStatusEnds DEF Kinds
    <3>2. Stopped(call[c], "stopped").pc \notin {"st_unlink", "fin_unlink"}
      BY <2>2 DEF Stopped, Finish, CallStatus, Frame
    <3>3. Removed
      BY <2>1 DEF StatusUnlink, FinishUnlink, RemovalFails
    <3>4. ~RemovalFails
      BY DEF RemovalFails
    <3>. QED BY <2>1, <3>1, <3>2, <3>4 DEF StatusUnlink, FinishUnlink, Becomes, TypeOK
  <2>4. c \in Unlinking /\ c \notin Unlinking'
    BY <2>2, <2>3 DEF Unlinking
  <2>. QED BY <1>0, <2>4
<1>3. CASE \E j \in Instances: RetractUnlink(j)
  <2>1. PICK j \in Instances: RetractUnlink(j)
    BY <1>3
  <2>2. j \in Unlinking /\ j \notin Unlinking'
    BY <2>1 DEF RetractUnlink, Advance, TypeOK, Unlinking
  <2>. QED BY <1>0, <2>2
<1>. QED BY <1>1, <1>2, <1>3, FileSteps

\* Where no answer comes late and no loop hangs, a gateway that is up loses its
\* advertisement only to an actor that compared identities before that advertisement
\* was published, or to damage done to the file.
THEOREM LossNeedsWindow == NoStall => (Spec => LostOnlyInWindow)
<1> SUFFICES ASSUME NoStall PROVE Spec => LostOnlyInWindow
  OBVIOUS
<1>1. Spec => []Replacing
  BY InitReplacing, StepReplacing, TypeCorrect, JudgedHolds, PTL DEF Spec
<1>2. Spec => []NoHang
  BY InitLaddering, StepNoHang, TypeCorrect, PTL DEF Spec
<1>3. Spec => []Laddering
  BY <1>1, <1>2, InitLaddering, StepLaddering, TypeCorrect, OwnershipHolds, JudgedHolds, PTL
  DEF Spec
<1>4. TypeOK /\ Ownership /\ Judged /\ Laddering /\ Windowed /\ [Next]_vars => Windowed'
  BY StepWindowed
<1>5. Spec => []Windowed
  BY <1>3, <1>4, InitLaddering, TypeCorrect, OwnershipHolds, JudgedHolds, PTL DEF Spec
<1>6. TypeOK /\ Ownership /\ Windowed /\ [Next]_vars =>
        [\A i \in Instances: Up(i) /\ file = i /\ file' # i /\ file' # Corrupt =>
           \E a \in window: a \in Unlinking /\ a \notin Unlinking']_vars
  BY LossInWindow
<1>. QED
  BY <1>5, <1>6, TypeCorrect, OwnershipHolds, PTL DEF Spec, LostOnlyInWindow

=============================================================================
