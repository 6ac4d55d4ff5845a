----------------------------- MODULE Supervision -----------------------------
(***************************************************************************)
(* Supervision of the gateway process: the supervisor calls (status,       *)
(* start, stop, restart and the session-start hook), each one running in a *)
(* process of its own, the gateway processes they spawn and stop, and what *)
(* the two kinds of process share: the runtime file, the two loopback      *)
(* ports and signals.                                                      *)
(*                                                                         *)
(* An element of Instances is one gateway process, its pid and the         *)
(* instance_id it was given, so a runtime file naming i is the record that *)
(* i published.  An element of Calls is one invocation of the supervisor.  *)
(* One step is the code between two accesses to shared state.              *)
(***************************************************************************)
EXTENDS Naturals, FiniteSets

CONSTANTS Instances,   \* gateway processes; their number bounds the spawns
          Calls,       \* supervisor invocations, each made once
          Ops,         \* Ops[c]: the operations call c may turn out to be
          Faults,      \* which misfortunes the environment may produce
          None,        \* no process, no record, no file
          Corrupt,     \* a runtime file that does not parse
          Foreign      \* a process of somebody else listening on a port

OpKinds == {"status", "hook", "start", "stop", "restart"}

(***************************************************************************)
(* crash: a gateway dies anywhere.  hang: its event loop stops answering.  *)
(* slow: a live listener misses the probe's or the admin request's         *)
(* timeout.  token: there is no usable admin token.  foreign: others take  *)
(* and leave the ports.  damage: something writes nonsense over the        *)
(* runtime file.  disk: publishing the runtime file fails.  startup: a     *)
(* published gateway fails to create or start its app.  stuck: removing    *)
(* the runtime file fails, which every caller suppresses.                  *)
(***************************************************************************)
FaultKinds == {"crash", "hang", "slow", "token", "foreign", "damage", "disk",
               "startup", "stuck"}

ASSUME SupervisionAssumption ==
    /\ Ops \in [Calls -> SUBSET OpKinds]
    /\ Faults \subseteq FaultKinds
    /\ Instances \cap Calls = {}
    /\ None \notin Instances /\ Corrupt \notin Instances /\ Foreign \notin Instances
    /\ None # Corrupt /\ None # Foreign

VARIABLES
    phase,       \* phase[i]: how far gateway process i has come
    published,   \* the processes whose local `published` flag is set
    listener,    \* listener[p]: who listens on port p
    file,        \* the runtime file: None, Corrupt or the process it names
    call,        \* call[c]: the local state of supervisor call c
    window       \* history: the actors that were already past their identity
                 \* compare, about to unlink, when the file was last published

gatewayVars == <<phase, published, listener>>
vars == <<phase, published, listener, file, call, window>>

Ports == {"inference", "admin"}

Phases == {"unborn", "boot", "bound", "ready", "published", "serving", "hung",
           "draining", "terminating", "unwind", "retract", "unlink", "dead"}

Kinds == {"none", "running", "not_started", "stale_cleaned", "foreign",
          "unresponsive", "corrupt", "stopped", "error"}

Sites == {"none", "status", "hook", "start", "poll", "restart", "renew",
          "stop", "lost", "final"}

Labels == {"begin", "st_read", "st_probe", "st_bind", "st_compare", "st_unlink",
           "spawn", "wait", "record", "post", "drain", "drain_bind", "gone",
           "gone_bind", "probe", "signal", "fin_compare", "fin_unlink", "done"}

Rungs == {"none", "terminate", "kill"}

(***************************************************************************)
(* The locals of a call: `at` is the place `status` returns to, `seen` the *)
(* record `status` read, `rec` the record `stop` works on, `child` the     *)
(* process this call spawned, `prev` the id `restart` wants replaced and   *)
(* `rung` the last signal the escalation has sent.  `kept` is history: has *)
(* this call ever failed to remove the record it meant to remove?          *)
(***************************************************************************)
Frame == [op: OpKinds \cup {"none"}, pc: Labels, at: Sites, kind: Kinds,
          seen: Instances \cup {None}, rec: Instances \cup {None},
          child: Instances \cup {None}, prev: Instances \cup {None},
          rung: Rungs, kept: {"no", "yes"}]

Fresh == [op |-> "none", pc |-> "begin", at |-> "none", kind |-> "none",
          seen |-> None, rec |-> None, child |-> None, prev |-> None,
          rung |-> "none", kept |-> "no"]

TypeOK ==
    /\ phase \in [Instances -> Phases]
    /\ published \subseteq Instances
    /\ listener \in [Ports -> Instances \cup {None, Foreign}]
    /\ file \in Instances \cup {None, Corrupt}
    /\ call \in [Calls -> Frame]
    /\ window \subseteq Calls \cup Instances

Alive(i) == phase[i] \notin {"unborn", "dead"}

\* Has i advertised itself and not yet begun to shut down?
Up(i) == phase[i] \in {"published", "serving", "hung"}

\* Has i been told to shut down: by the admin API, or (terminating) by a signal?
Draining(i) == phase[i] \in {"draining", "terminating"}

\* clear_runtime unlinks whatever the file then holds...
Removed == file' = None /\ window' = {}

\* ...or raises: every caller suppresses that, and the file stays.
RemovalFails == "stuck" \in Faults /\ UNCHANGED <<file, window>>

Without(i) == [p \in Ports |-> IF listener[p] = i THEN None ELSE listener[p]]

\* Every actor whose next step removes whatever the runtime file then holds.
Unlinking == {c \in Calls: call[c].pc \in {"st_unlink", "fin_unlink"}}
             \cup {i \in Instances: phase[i] = "unlink"}

(***************************************************************************)
(* Either nothing has run yet, or one gateway of this install is serving.  *)
(***************************************************************************)
Init ==
    /\ file \in Instances \cup {None}
    /\ published = Instances \cap {file}
    /\ phase = [i \in Instances |-> IF i = file THEN "serving" ELSE "unborn"]
    /\ listener = [p \in Ports |-> file]
    /\ call = [c \in Calls |-> Fresh]
    /\ window = {}

-----------------------------------------------------------------------------
(* The gateway process: gateway/main.py                                     *)

Advance(i, from, to) ==
    /\ phase[i] = from
    /\ phase' = [phase EXCEPT ![i] = to]

Die(i) == /\ phase' = [phase EXCEPT ![i] = "dead"]
          /\ listener' = Without(i)

\* bind_socket: SO_REUSEADDR never lets a second process share a listener.
\* Mutant: as on Windows, where that option would let it.
CanBindShared(p) == listener[p] # Foreign

CanBind(p) == listener[p] = None

\* Mutant: waits for the port instead of giving up.
BindInferenceWaits(i) ==
    /\ CanBind("inference")
    /\ Advance(i, "boot", "bound")
    /\ listener' = [listener EXCEPT !["inference"] = i]
    /\ UNCHANGED <<published, file, call, window>>

\* The inference bind is outside the `try`: failing it runs no `finally`.
BindInference(i) ==
    /\ phase[i] = "boot"
    /\ IF CanBind("inference")
         THEN /\ phase' = [phase EXCEPT ![i] = "bound"]
              /\ listener' = [listener EXCEPT !["inference"] = i]
         ELSE Die(i)
    /\ UNCHANGED <<published, file, call, window>>

\* Mutant: an admin port that cannot be bound is not fatal.
BindAdminOptional(i) ==
    /\ Advance(i, "bound", "ready")
    /\ listener' = IF CanBind("admin") THEN [listener EXCEPT !["admin"] = i] ELSE listener
    /\ UNCHANGED <<published, file, call, window>>

\* The admin bind is inside it: failing it unwinds through the `finally`.
BindAdmin(i) ==
    /\ phase[i] = "bound"
    /\ IF CanBind("admin")
         THEN /\ phase' = [phase EXCEPT ![i] = "ready"]
              /\ listener' = [listener EXCEPT !["admin"] = i]
         ELSE /\ phase' = [phase EXCEPT ![i] = "unwind"]
              /\ UNCHANGED listener
    /\ UNCHANGED <<published, file, call, window>>

\* write_runtime replaces the file atomically, and only then is the flag set.
Publish(i) ==
    /\ Advance(i, "ready", "published")
    /\ file' = i
    /\ published' = published \cup {i}
    /\ window' = Unlinking
    /\ UNCHANGED <<listener, call>>

PublishFails(i) ==
    /\ "disk" \in Faults
    /\ Advance(i, "ready", "unwind")
    /\ UNCHANGED <<published, listener, file, call, window>>

\* Both uvicorn servers run: the process starts answering its listeners.
Serve(i) ==
    /\ Advance(i, "published", "serving")
    /\ UNCHANGED <<published, listener, file, call, window>>

\* create_app or the start of a server raises after the publication: serve()
\* unwinds like any other failure inside its `try`.
ServeFails(i) ==
    /\ "startup" \in Faults
    /\ Advance(i, "published", "unwind")
    /\ UNCHANGED <<published, listener, file, call, window>>

\* Mutant: no watchdog mirrors the exit, so the admin server never hears of it.
CloseListenerUnmirrored(i, p) ==
    /\ Draining(i)
    /\ p = "inference" /\ listener[p] = i
    /\ listener' = [listener EXCEPT ![p] = None]
    /\ UNCHANGED <<phase, published, file, call, window>>

\* Once should_exit is set on both servers, each closes its own listener...
CloseListener(i, p) ==
    /\ Draining(i)
    /\ listener[p] = i
    /\ listener' = [listener EXCEPT ![p] = None]
    /\ UNCHANGED <<phase, published, file, call, window>>

\* ...and returns when its in-flight requests have finished, which no timeout
\* bounds.  After a signal the primary server, its handler gone, then raises
\* that signal again: the process dies where it stands.
DrainDone(i) ==
    /\ \/ (\A p \in Ports: listener[p] # i) /\ Advance(i, "draining", "unwind")
          /\ UNCHANGED listener
       \/ phase[i] = "terminating" /\ listener["inference"] # i /\ Die(i)
    /\ UNCHANGED <<published, file, call, window>>

\* The `finally` of serve(): close the sockets, then retract if published.
Unwind(i) ==
    /\ Advance(i, "unwind", IF i \in published THEN "retract" ELSE "dead")
    /\ listener' = Without(i)
    /\ UNCHANGED <<published, file, call, window>>

\* Mutant: retracts without comparing identities.
RetractBlindly(i) ==
    /\ Advance(i, "retract", "unlink")
    /\ UNCHANGED <<published, listener, file, call, window>>

\* _clear_own_runtime reads and compares in one step...
RetractCompare(i) ==
    /\ Advance(i, "retract", IF file = i THEN "unlink" ELSE "dead")
    /\ UNCHANGED <<published, listener, file, call, window>>

\* ...and unlinks whatever is there in another.
RetractUnlink(i) ==
    /\ Advance(i, "unlink", "dead")
    /\ Removed \/ RemovalFails
    /\ UNCHANGED <<published, listener, call>>

-----------------------------------------------------------------------------
(* status                                                                   *)

\* A call ends with a result; `seen` then names the gateway it reported.
Finish(r, k) == [r EXCEPT !.pc = "done", !.at = "none", !.kind = k,
                          !.seen = IF k = "running" THEN @ ELSE None]

CallStatus(r, site) == [r EXCEPT !.pc = "st_read", !.at = site, !.seen = None]

\* start() has a running gateway: restart() still insists on a new identity.
Started(r) ==
    IF r.op = "restart" /\ r.prev # None /\ r.seen = r.prev
      THEN [r EXCEPT !.pc = "wait", !.at = "renew", !.seen = None]
      ELSE Finish(r, "running")

\* stop() returned without raising.
Stopped(r, k) == IF r.op = "stop" THEN Finish(r, k) ELSE CallStatus(r, "start")

\* The session hook starts a gateway only where start() has a chance.
HookResumes(r, k) ==
    IF k \in {"running", "foreign", "corrupt"} THEN Finish(r, k) ELSE CallStatus(r, "start")

\* start() returns what runs, refuses where it would fight, and else spawns.
StartResumes(r, k) ==
    IF k = "running" THEN Started(r)
    ELSE IF k \in {"foreign", "unresponsive", "corrupt"} THEN Finish(r, "error")
    ELSE [r EXCEPT !.pc = "spawn", !.at = "none", !.seen = None]

\* The wait loops end on any running gateway, whoever spawned it.
PollResumes(r, k) ==
    IF k = "running" THEN Started(r) ELSE [r EXCEPT !.pc = "wait", !.seen = None]

\* restart() notes the identity to replace, and stops it.
RestartResumes(r, k) ==
    CallStatus([r EXCEPT !.prev = IF k = "running" THEN r.seen ELSE None], "stop")

StopResumes(r, k) ==
    IF k \in {"foreign", "unresponsive"} THEN Finish(r, "error")
    ELSE IF k # "running" THEN Stopped(r, k)
    ELSE [r EXCEPT !.pc = "record", !.at = "none", !.seen = None]

\* The last look of stop(): anything but a running gateway counts as stopped.
FinalResumes(r, k) ==
    IF k = "running" THEN Finish(r, "error")
    ELSE [r EXCEPT !.pc = "fin_compare", !.at = "none", !.seen = None]

\* status() returns kind k to the place that called it.
AfterStatus(r, k) ==
    CASE r.at = "status" -> Finish(r, k)
      [] r.at = "hook" -> HookResumes(r, k)
      [] r.at = "start" -> StartResumes(r, k)
      [] r.at \in {"poll", "renew"} -> PollResumes(r, k)
      [] r.at = "restart" -> RestartResumes(r, k)
      [] r.at = "stop" -> StopResumes(r, k)
      [] r.at = "lost" -> Stopped(r, k)
      [] OTHER -> FinalResumes(r, k)

Becomes(c, r) == call' = [call EXCEPT ![c] = r]

Kept(r) == [r EXCEPT !.kept = "yes"]

Begin(c) ==
    /\ call[c].pc = "begin"
    /\ \E op \in Ops[c]: Becomes(c, CallStatus([call[c] EXCEPT !.op = op], op))
    /\ UNCHANGED <<gatewayVars, file, window>>

StatusRead(c) ==
    /\ call[c].pc = "st_read"
    /\ Becomes(c, CASE file = Corrupt -> AfterStatus(call[c], "corrupt")
                    [] file = None -> AfterStatus(call[c], "not_started")
                    [] OTHER -> [call[c] EXCEPT !.pc = "st_probe", !.seen = file])
    /\ UNCHANGED <<gatewayVars, file, window>>

\* What GET /healthz on the inference port can come back with.  A process that
\* listens and does not serve yet leaves the request waiting in its backlog.
Answers ==
    LET l == listener["inference"]
        late == IF "slow" \in Faults THEN {"timeout"} ELSE {}
    IN  IF l = None THEN {"refused"}
        ELSE IF l = Foreign THEN {"foreign"} \cup late
        ELSE IF phase[l] = "serving" \/ Draining(l) THEN {"ok"} \cup late
        ELSE IF phase[l] = "hung" THEN {"timeout"}
        ELSE late

StatusProbe(c) ==
    /\ call[c].pc = "st_probe"
    /\ \E a \in Answers:
         Becomes(c, CASE a = "ok" /\ listener["inference"] = call[c].seen ->
                           AfterStatus(call[c], "running")
                      [] a \in {"ok", "foreign"} /\ listener["inference"] # call[c].seen ->
                           AfterStatus(call[c], "foreign")
                      [] OTHER -> [call[c] EXCEPT !.pc = "st_bind"])
    /\ UNCHANGED <<gatewayVars, file, window>>

\* _port_binding: a bind fails exactly while somebody listens.  What a drain
\* leaves behind (established or TIME_WAIT connections) is "residue": not held.
Held == listener["inference"] # None

\* Mutant: a listener that does not answer is taken for a dead one.
StatusTrustsProbe(c) ==
    /\ call[c].pc = "st_bind"
    /\ Becomes(c, [call[c] EXCEPT !.pc = "st_compare"])
    /\ UNCHANGED <<gatewayVars, file, window>>

StatusBind(c) ==
    /\ call[c].pc = "st_bind"
    /\ Becomes(c, IF Held THEN AfterStatus(call[c], "unresponsive")
                  ELSE [call[c] EXCEPT !.pc = "st_compare"])
    /\ UNCHANGED <<gatewayVars, file, window>>

\* _clear_runtime_if_ours: read and compare, then unlink what is there.
StatusCompare(c) ==
    /\ call[c].pc = "st_compare"
    /\ Becomes(c, IF file = call[c].seen THEN [call[c] EXCEPT !.pc = "st_unlink"]
                  ELSE AfterStatus(call[c], "stale_cleaned"))
    /\ UNCHANGED <<gatewayVars, file, window>>

StatusUnlink(c) ==
    /\ call[c].pc = "st_unlink"
    /\ \/ Removed /\ Becomes(c, AfterStatus(call[c], "stale_cleaned"))
       \/ RemovalFails /\ Becomes(c, AfterStatus(Kept(call[c]), "stale_cleaned"))
    /\ UNCHANGED gatewayVars

-----------------------------------------------------------------------------
(* start                                                                    *)

Spawn(c) ==
    /\ call[c].pc = "spawn"
    /\ \/ \E i \in Instances:
            /\ Advance(i, "unborn", "boot")
            /\ Becomes(c, [call[c] EXCEPT !.pc = "wait", !.at = "poll", !.child = i])
       \* Popen or opening the log failed
       \/ /\ Becomes(c, Finish(call[c], "error"))
          /\ UNCHANGED phase
    /\ UNCHANGED <<published, listener, file, window>>

\* One turn of the wait loop: start() looks at its child before it asks for
\* status, restart()'s own loop only asks for status.
PollAgain(c) ==
    /\ call[c].pc = "wait"
    /\ Becomes(c, IF call[c].at = "poll" /\ ~Alive(call[c].child)
                    THEN Finish(call[c], "error")
                    ELSE CallStatus(call[c], call[c].at))
    /\ UNCHANGED <<gatewayVars, file, window>>

\* Mutant: raises and leaves the child to itself.
StartTimeoutForgets(c) ==
    /\ call[c].pc = "wait"
    /\ Becomes(c, Finish(call[c], "error"))
    /\ UNCHANGED <<gatewayVars, file, window>>

\* The deadline passes: start() kills the child it spawned and raises.
StartTimeout(c) ==
    /\ call[c].pc = "wait"
    /\ IF call[c].at = "poll" /\ Alive(call[c].child)
         THEN Die(call[c].child)
         ELSE UNCHANGED <<phase, listener>>
    /\ Becomes(c, Finish(call[c], "error"))
    /\ UNCHANGED <<published, file, window>>

-----------------------------------------------------------------------------
(* stop                                                                     *)

\* Mutant: takes a damaged file for a record.
StopRecordUnchecked(c) ==
    /\ call[c].pc = "record"
    /\ Becomes(c, IF file = None THEN CallStatus(call[c], "lost")
                  ELSE [call[c] EXCEPT !.pc = "post", !.rec = file])
    /\ UNCHANGED <<gatewayVars, file, window>>

\* stop() reads the record again: it may be gone, damaged or a newer one.
StopRecord(c) ==
    /\ call[c].pc = "record"
    /\ Becomes(c, CASE file = None -> CallStatus(call[c], "lost")
                    [] file = Corrupt -> Finish(call[c], "error")
                    [] OTHER -> [call[c] EXCEPT !.pc = "post", !.rec = file])
    /\ UNCHANGED <<gatewayVars, file, window>>

\* POST /admin/v1/shutdown reaches whoever listens on the admin port: it starts
\* a drain and is acknowledged, starts one after the caller gave up waiting, or
\* fails (no listener, not ours, no usable token, no answer in time).
StopPost(c) ==
    LET l == listener["admin"]
        ours == l \in Instances
        drain == phase' = [phase EXCEPT ![l] = IF Draining(l) THEN @ ELSE "draining"]
    IN  /\ call[c].pc = "post"
        /\ \/ /\ ours /\ (phase[l] = "serving" \/ Draining(l))
              /\ drain
              /\ Becomes(c, [call[c] EXCEPT !.pc = "drain"])
           \/ /\ "slow" \in Faults
              /\ ours /\ (phase[l] \in {"published", "serving"} \/ Draining(l))
              /\ drain
              /\ Becomes(c, [call[c] EXCEPT !.pc = "gone"])
           \/ /\ ours => phase[l] = "hung" \/ Faults \cap {"token", "slow"} # {}
              /\ Becomes(c, [call[c] EXCEPT !.pc = "gone"])
              /\ UNCHANGED phase
        /\ UNCHANGED <<published, listener, file, window>>

\* _wait_for_exit asks _instance_gone: the file no longer names the instance...
WaitForExit(c) ==
    /\ call[c].pc = "drain"
    /\ Becomes(c, IF file # call[c].rec THEN [call[c] EXCEPT !.pc = "fin_compare"]
                  ELSE [call[c] EXCEPT !.pc = "drain_bind"])
    /\ UNCHANGED <<gatewayVars, file, window>>

\* Mutant: waits without a deadline.
WaitForBindForever(c) ==
    /\ call[c].pc = "drain_bind"
    /\ Becomes(c, IF Held THEN [call[c] EXCEPT !.pc = "drain"]
                  ELSE [call[c] EXCEPT !.pc = "fin_compare"])
    /\ UNCHANGED <<gatewayVars, file, window>>

\* ...or the port can be bound.  Otherwise the deadline has passed: the next
\* rung follows, or a last status when there is none left.
WaitForBind(c) ==
    /\ call[c].pc = "drain_bind"
    /\ Becomes(c, IF ~Held THEN [call[c] EXCEPT !.pc = "fin_compare"]
                  ELSE IF call[c].rung = "kill" THEN CallStatus(call[c], "final")
                  ELSE [call[c] EXCEPT !.pc = "gone"])
    /\ UNCHANGED <<gatewayVars, file, window>>

\* Each rung begins by asking _instance_gone whether there is still anything
\* to signal: the file first...
EscalateGone(c) ==
    /\ call[c].pc = "gone"
    /\ Becomes(c, [call[c] EXCEPT
                      !.pc = IF file # call[c].rec THEN "fin_compare" ELSE "gone_bind"])
    /\ UNCHANGED <<gatewayVars, file, window>>

\* ...then the port.
EscalateBind(c) ==
    /\ call[c].pc = "gone_bind"
    /\ Becomes(c, [call[c] EXCEPT !.pc = IF Held THEN "probe" ELSE "fin_compare"])
    /\ UNCHANGED <<gatewayVars, file, window>>

\* Mutant: any gateway that answers will do.
EscalateProbeAnyone(c) ==
    /\ call[c].pc = "probe"
    /\ \E a \in Answers:
         Becomes(c, IF a = "ok" THEN [call[c] EXCEPT !.pc = "signal"]
                      ELSE CallStatus(call[c], "final"))
    /\ UNCHANGED <<gatewayVars, file, window>>

\* The recorded identity must answer right now, or no signal is sent.
EscalateProbe(c) ==
    /\ call[c].pc = "probe"
    /\ \E a \in Answers:
         Becomes(c, IF a = "ok" /\ listener["inference"] = call[c].rec
                      THEN [call[c] EXCEPT !.pc = "signal"]
                      ELSE CallStatus(call[c], "final"))
    /\ UNCHANGED <<gatewayVars, file, window>>

\* What SIGTERM does: uvicorn's handler drains while a server runs; before
\* and after that the default action kills; a hung loop never runs a handler.
Terminate(i) ==
    CASE phase[i] = "serving" \/ Draining(i) ->
           phase' = [phase EXCEPT ![i] = "terminating"] /\ UNCHANGED listener
      [] phase[i] = "hung" -> UNCHANGED <<phase, listener>>
      [] OTHER -> Die(i)

\* The pid of a process that has exited meanwhile is either unknown, and the
\* ladder stops, or belongs to somebody else by now and receives the signal.
EscalateSignal(c) ==
    LET i == call[c].rec
        next == IF call[c].rung = "none" THEN "terminate" ELSE "kill"
        sent == [call[c] EXCEPT !.pc = "drain", !.rung = next]
    IN  /\ call[c].pc = "signal"
        /\ \/ /\ Alive(i)
              /\ IF next = "kill" THEN Die(i) ELSE Terminate(i)
              /\ Becomes(c, sent)
           \/ /\ ~Alive(i)
              /\ \/ Becomes(c, CallStatus(call[c], "final"))
                 \/ Becomes(c, sent)
              /\ UNCHANGED <<phase, listener>>
        /\ UNCHANGED <<published, file, window>>

\* Mutant: reports without retracting.
FinishUncleared(c) ==
    /\ call[c].pc = "fin_compare"
    /\ Becomes(c, Stopped(call[c], "stopped"))
    /\ UNCHANGED <<gatewayVars, file, window>>

\* _finish_stop: clear the file if it still is the record's, and report.
FinishCompare(c) ==
    /\ call[c].pc = "fin_compare"
    /\ Becomes(c, IF file = call[c].rec THEN [call[c] EXCEPT !.pc = "fin_unlink"]
                  ELSE Stopped(call[c], "stopped"))
    /\ UNCHANGED <<gatewayVars, file, window>>

FinishUnlink(c) ==
    /\ call[c].pc = "fin_unlink"
    /\ \/ Removed /\ Becomes(c, Stopped(call[c], "stopped"))
       \/ RemovalFails /\ Becomes(c, Stopped(Kept(call[c]), "stopped"))
    /\ UNCHANGED gatewayVars

-----------------------------------------------------------------------------
(* The environment                                                          *)

Crash(i) ==
    /\ "crash" \in Faults
    /\ Alive(i)
    /\ Die(i)
    /\ UNCHANGED <<published, file, call, window>>

Hang(i) ==
    /\ "hang" \in Faults
    /\ Advance(i, "serving", "hung")
    /\ UNCHANGED <<published, listener, file, call, window>>

ForeignTakes(p) ==
    /\ "foreign" \in Faults
    /\ listener[p] = None
    /\ listener' = [listener EXCEPT ![p] = Foreign]
    /\ UNCHANGED <<phase, published, file, call, window>>

ForeignLeaves(p) ==
    /\ listener[p] = Foreign
    /\ listener' = [listener EXCEPT ![p] = None]
    /\ UNCHANGED <<phase, published, file, call, window>>

Damage ==
    /\ "damage" \in Faults
    /\ file # Corrupt
    /\ file' = Corrupt
    /\ window' = {}
    /\ UNCHANGED <<gatewayVars, call>>

-----------------------------------------------------------------------------

\* What a gateway process does by itself...
GatewayTurn(i) ==
    \/ BindInference(i) \/ BindAdmin(i) \/ Publish(i) \/ PublishFails(i)
    \/ Serve(i) \/ ServeFails(i) \/ Unwind(i)
    \/ RetractCompare(i) \/ RetractUnlink(i)
    \/ \E p \in Ports: CloseListener(i, p)

\* ...and what it does once its clients and upstreams let it.
GatewayStep(i) == GatewayTurn(i) \/ DrainDone(i)

StatusStep(c) ==
    \/ StatusRead(c) \/ StatusProbe(c) \/ StatusBind(c)
    \/ StatusCompare(c) \/ StatusUnlink(c)

StopStep(c) ==
    \/ StopRecord(c) \/ StopPost(c) \/ WaitForExit(c) \/ WaitForBind(c)
    \/ EscalateGone(c) \/ EscalateBind(c) \/ EscalateProbe(c) \/ EscalateSignal(c)
    \/ FinishCompare(c) \/ FinishUnlink(c)

CallStep(c) ==
    \/ Begin(c) \/ StatusStep(c) \/ StopStep(c)
    \/ Spawn(c) \/ PollAgain(c) \/ StartTimeout(c)

Environment ==
    \/ \E i \in Instances: Crash(i) \/ Hang(i)
    \/ \E p \in Ports: ForeignTakes(p) \/ ForeignLeaves(p)
    \/ Damage

Next ==
    \/ \E i \in Instances: GatewayStep(i)
    \/ \E c \in Calls: CallStep(c)
    \/ Environment

Spec == Init /\ [][Next]_vars

(***************************************************************************)
(* A call that has begun and a gateway process are scheduled, and every    *)
(* wait loop reads a monotonic clock, so a loop that keeps turning meets   *)
(* its deadline.  Nothing is assumed of the environment, and nothing of a  *)
(* drain: the requests in flight need not ever end (DrainDone is no turn). *)
(***************************************************************************)
Fairness ==
    /\ \A c \in Calls: WF_vars(CallStep(c) /\ call[c].pc # "begin")
    /\ \A c \in Calls: SF_vars(StartTimeout(c))
    /\ \A i \in Instances: WF_vars(GatewayTurn(i))

FairSpec == Spec /\ Fairness

-----------------------------------------------------------------------------
(* Properties                                                               *)

\* Two gateways of one install never both consider themselves up: the binds
\* serialise them, whoever spawned them and whatever the runtime file says.
OneGatewayUp == \A i, j \in Instances: Up(i) /\ Up(j) => i = j

\* What makes it so, and is inductive: who listens where follows from how far
\* each process has come.
Ownership ==
    /\ \A i \in Instances: phase[i] \in {"bound", "ready"} \/ Up(i)
         => listener["inference"] = i
    /\ \A i \in Instances: phase[i] = "ready" \/ Up(i) => listener["admin"] = i
    /\ \A i \in Instances, p \in Ports: listener[p] = i
         => phase[i] \notin {"unborn", "boot", "retract", "unlink", "dead"}

\* i published or gave up: from here on it never binds a port again.
Past(i) == phase[i] \notin {"unborn", "boot", "bound", "ready"}

\* Records name processes past their binds, and a call about to remove the
\* record it judged stale has found the port not held by that process.
Judged ==
    /\ file \in Instances => Past(file)
    /\ \A c \in Calls: call[c].seen \in Instances => Past(call[c].seen)
    /\ \A c \in Calls: call[c].pc \in {"st_probe", "st_bind", "st_compare", "st_unlink"}
         => call[c].seen \in Instances
    /\ \A c \in Calls: call[c].pc \in {"st_compare", "st_unlink"}
         => listener["inference"] # call[c].seen

\* Ordering is the contract (gateway/main.py): the runtime file only ever
\* changes to name a process that at that moment listens on both its ports.
AdvertisedIsBound ==
    [][file' \in Instances /\ file' # file =>
         \A p \in Ports: listener'[p] = file']_vars

\* However slow or hung a gateway can be, status() takes the record of one that
\* is up (or still listens) from disk only if that record was published after
\* status() had compared identities: a loaded gateway is never taken for a dead
\* one, and the window is the single file read the code leaves open.
StatusNeverStrands ==
    [][\A c \in Calls: StatusUnlink(c) /\ file' # file /\ file \in Instances
         => \/ listener["inference"] # file /\ ~Up(file)
            \/ c \in window]_vars

\* A gateway that is up loses its advertisement only to an actor that compared
\* identities before that advertisement was published: the one window the code
\* states it leaves open.
LostOnlyInWindow ==
    [][\A i \in Instances: Up(i) /\ file = i /\ file' # i /\ file' # Corrupt =>
         \E a \in window: a \in Unlinking /\ a \notin Unlinking']_vars

\* A start() that raises leaves no process of its own running behind it.
FailedStartLeavesNoChild ==
    \A c \in Calls: call[c].pc = "done" /\ call[c].kind = "error" /\ call[c].child # None
        => ~Alive(call[c].child)

\* Once the stop() inside a restart() has returned, the gateway to be replaced
\* is advertised no more, whoever else starts, stops or cleans up, unless this
\* call itself failed to remove its record; and even then restart() does not
\* report the gateway it was asked to replace, it waits for another or raises.
RestartSupersedes ==
    \A c \in Calls: call[c].op = "restart" /\ call[c].prev # None =>
        /\ call[c].at \in {"start", "poll", "renew"} \/ call[c].pc = "spawn"
             => file # call[c].prev \/ call[c].kept = "yes"
        /\ call[c].pc = "done" /\ call[c].kind = "running" => call[c].seen # call[c].prev

\* The step that licenses a signal happens while the recorded process lives:
\* a stale record alone never causes one.
SignalLicensed ==
    [][\A c \in Calls: call[c].pc # "signal" /\ call'[c].pc = "signal"
         => Alive(call'[c].rec)]_vars

\* Every supervisor call that begins returns.
CallsReturn == \A c \in Calls: call[c].pc # "begin" ~> call[c].pc = "done"

\* Every spawned process either advertises itself or exits: one that loses the
\* race for a port does not linger.
SpawnsSettle ==
    \A i \in Instances: phase[i] = "boot" ~> (i \in published \/ phase[i] = "dead")

\* A gateway asked to drain gives both its ports back, so that another can be
\* started, however long its own streams keep it from exiting.
DrainsFreePorts ==
    \A i \in Instances: Draining(i) ~> \A p \in Ports: listener[p] # i

-----------------------------------------------------------------------------
(* A claim of the code's own comments that its behaviour refutes            *)

\* "Called only once the port is quiet" (_finish_stop): stop() never clears the
\* record it worked on while the process it names is still listening.
ClearedOnlyWhenQuiet ==
    [][\A c \in Calls: FinishUnlink(c) /\ file = call[c].rec /\ file' # file
         => listener["inference"] # file]_vars

=============================================================================
