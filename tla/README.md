# Verification of hermes-auto

hermes-auto is a local routing gateway for the Hermes agent. A Hermes session
loads a small plugin; the plugin or the user starts a *gateway*, a detached
process with two loopback listeners (inference and admin), and Hermes then sends
its chat completions through the inference listener, which picks an upstream
model per request and relays the answer. This directory holds TLA+ models of the
parts with state and concurrency, the TLC configurations that check them, and
TLAPS proofs about them.

Paths below are relative to the repository; the code is `src/hermes_auto/`.

## 1. Inventory

| Part | State | Operations | Interacts with | Hard behaviour | Correct when |
|---|---|---|---|---|---|
| `supervisor.py` | none of its own: the runtime file, ports and processes are its state | `status`, `start`, `stop`, `restart` | runtime file, `/healthz`, admin API, signals, spawned process | every invocation is a process of its own; state is read, probed for seconds, then acted on | never strands, kills or doubles a gateway |
| `gateway/main.py` | two sockets, `published` | `serve`: bind, bind, publish, serve, drain, retract | runtime file, ports | two processes racing; failure between any two steps | one gateway up; advertised only when bound |
| `state/runtime.py` | `runtime/gateway.json` | write, read, clear | supervisor, gateway | atomic replace but no atomic compare-and-unlink | a live record is lost only in that window |
| `plugin.py` | none | session-start hook, slash command | supervisor | runs in every session at once | a session always opens |
| `gateway/admin.py` | token, exit hook | status, decision, shutdown | uvicorn servers, router | shutdown finds servers through running tasks | every server is told |
| `routing/selector.py` | LRU table of sessions, recent decisions | `route`, `finalize`, lookups | request handlers | requests of one session interleave; eviction | a tool loop keeps its model; finalize touches its own decision only |
| `gateway/app.py`, `relay.py` | per request | candidate loop, relay, release, readiness | router, upstream pool | fallback only before the first byte; client may disconnect | each request answered once, nothing after the first byte is retried |
| `gateway/upstream.py` | client pool, connections | `stream`, `complete`, close | relay | responses that are neither read nor closed | every connection returns to the pool |
| `gateway/auth.py`, `telemetry/redaction.py` | token files, salt file | read or mint; redact a record | gateway, setup, logging | two processes create at once; a file half written; nested records | the secret that is enforced is the one in the file; nothing private is logged |
| `commands.py`, `hermes_shim/installer.py` | config.yaml and its backups, shims, tokens | setup, configure, doctor | files of the operator, gateways that start | failure or crash at any write; others write in between | a failed setup leaves what it found; what it did not write it does not touch |
| `config.py` | none | `load_config` | all of them | boundaries of ports, which file counts, which block | gateway and shim agree on a port; what loads can be served |
| `gateway/ingress.py`, `schemas.py`, `errors.py` | none | authenticate, limit, parse, validate | relay | order of the checks | nothing unauthenticated is parsed |
| `discovery.py`, `provider.py`, `compatibility.py`, `health/probe.py`, `cli.py` | none | stateless reads and formatting | | | |

Hazards, each at its line, are listed in `PROJECT.json`.

## 2. Plan

In the order of importance; all of it is written unless it says otherwise.

1. `Supervision`: the supervisor calls, the gateway processes, the runtime file,
   ports and signals, in one module because every hazard lies between them.
   `SupervisionProofs`: its theorems about processes and signals; `CallProofs`:
   those about what a call may rely on as it goes.
2. `Selector`: tiers, eligibility and order as operators, against a contract.
   `Router`: the session table under interleaved requests, pinning, eviction and
   late `finalize`. `SelectorProofs`, `RouterProofs`.
3. `Ingress`: the verdict on one call. `Relay`: a request from the ingress to the
   client pool; it uses `Ingress` and implements `Router`. `RelayProofs`.
4. `Secrets`: tokens and salt, minted by whoever finds them missing. `Config`:
   what a configuration file means. `Setup`: the commands that write files;
   extends `Secrets`, uses `Config`, and lets commands, gateways and an operator
   meet. `SetupProofs`: types, the salt, the operator's files; `TransactionProofs`:
   backups, rollback, success, the secrets of running gateways.
5. `Redaction`: what of a log record is passed. `Tables`: `Selector`, `Redaction`
   and `Config` over whatever inputs; `TablesProofs`.

Every safety property that a passing run checks is also proved for all values of
the constants. Left: log rotation, and an abstract advertisement that
`Supervision` refines.

## 3. Supervision

`Instances` are gateway processes, `Calls` supervisor invocations. An element of
`Instances` stands for the process, its pid and its `instance_id`: ids are 128
random bits per process start, so they are never shared.

| Model | Code |
|---|---|
| `phase[i]` | how far `serve()` of process `i` has come |
| `published` | its local flag of that name |
| `listener[p]` | who has port `p` in the listening state (the kernel) |
| `file` | `runtime/gateway.json`: absent, damaged, or the identity it names |
| `call[c]` | the locals and the program point of one supervisor call |
| `window` | history: actors past their compare and before their unlink when the file was last published |

One action is the code between two accesses to shared state. `status` is five
actions (read, probe, bind, compare, unlink), called from nine places: on its
own, by the hook, `start`, `restart`, their wait loops, and thrice by `stop`; `at`
names the place and `AfterStatus` continues there. `start` spawns and polls;
`stop` posts, waits, and climbs the ladder (re-probe, SIGTERM, SIGKILL), asking
twice per turn whether the instance is gone, of the file and then of the port
(`WaitForExit`, `WaitForBind`; `EscalateGone`, `EscalateBind`); `restart` and the
session hook are built from those. A deadline is a branch that may be taken
whenever the code looks at its clock. A removal of the runtime file may fail
wherever one is tried (`RemovalFails`): each caller suppresses the error and goes
on as if the file were gone.

The environment (`Faults` chooses): crashes at any point (`crash`), an event loop
that hangs (`hang`), answers slower than a timeout (`slow`), an unusable admin
token (`token`), foreign processes on the ports (`foreign`), nonsense in the
runtime file (`damage`), a runtime file that cannot be written (`disk`) or removed
(`stuck`), an app that fails to start after the record was published (`startup`).
Modelled as external: the kernel's sockets, uvicorn's drain (it closes
the listener first and then waits for its connections), uvicorn's signal
handling (it drains, then raises the signal again).

Left out: the text of results, log rotation, the retry of spawn flags on Windows
(the POSIX path has one attempt), IPv4/IPv6 resolution (`probe_host` and
`bind_socket` are taken to agree on the host; the supervisor's comments tell the
story of when they did not), and `admin_port` 0, which `serve` never writes in a
complete install. An admin request that the gateway handles after the caller's
timeout is a branch of the caller's step (`StopPost`), not a message of its own:
it starts its drain no later than the caller goes on.

### Runs

| Run | Configuration | Shows |
|---|---|---|
| `supervision_races` | 2 processes, 3 calls, each `start` or `stop`; crash, disk, token, startup, damage | `TypeOK`, `OneGatewayUp`, `FailedStartLeavesNoChild`, `AdvertisedIsBound`, `LostOnlyInWindow` |
| `supervision_faults` | 2 processes, 2 calls of any kind; crash, hang, slow, stuck | `RestartSupersedes`, `StatusNeverStrands`, `SignalLicensed` |
| `supervision_liveness` | 2 processes, a `start` and a `restart`; hang, token, foreign | `CallsReturn`, `SpawnsSettle`, `DrainsFreePorts` |
| `stop_clears_loaded` | 1 process, 1 call; slow | refutes `ClearedOnlyWhenQuiet` |

What they say, where it is less than one might wish:

* `StatusNeverStrands`: whatever `status` takes from disk is not the record of a
  gateway that is up or listens, *unless* that record was published after `status`
  had compared identities. Such a replacement it does unlink: compare and unlink
  are two system calls, and `window` remembers who was between them.
  Without hangs and slow answers this window, that of `stop` and that of a process
  that retracts are the only ways for a live record to be unlinked (`LostOnlyInWindow`).
* `RestartSupersedes`: after the stop, the replaced gateway is not advertised,
  unless this very call failed to remove its record. Then the second loop of
  `restart` is entered; the call reports another gateway or raises.
* `DrainsFreePorts`: a gateway that is told to stop gives both ports back. That
  its process ends is not claimed: nothing bounds a stream in flight.

The first two runs reach 2.1 and 3.5 million states, the third 77 thousand.

Bounds. Two processes are the least that can race for a port, replace one
another and lose each other's records; the spawns of a run are bounded by their
number, since a process is born once. Three calls let one act while another is
between its compare and its unlink and a third publishes a replacement. Each fault
is in the run whose properties it threatens. `Init`
already offers a serving gateway, so no depth is spent on the first start.
Processes and calls are interchangeable, so the safety runs use symmetry; the
liveness run does not. Deadlock checking is off: when every call has returned
and no gateway lives, nothing is left to do.

`LostOnlyInWindow` is checked without slow answers and hangs: with them the
first divergence below breaks it, as it should.

Fairness (`supervision_liveness`): a call that has begun takes its next step and
a gateway process takes its next step, as the operating system's scheduler and
the event loop give them; a loop that keeps polling reaches its deadline
(`SF` on `StartTimeout`), because each loop compares a monotonic clock with a
fixed deadline. The end of a drain (`DrainDone`) is not among the fair steps: a stream
in flight ends when its client and its upstream let it, and neither the upstream
client nor uvicorn is given a timeout for it. Nothing is assumed of crashes, hangs,
strangers or of a call ever being made.

### Where the code and its words disagree

* `_finish_stop` is "called only once the port is quiet". A gateway that is too
  loaded to answer the admin request and the probe makes `stop` abandon its
  escalation; the last `status` says `unresponsive`, and the record of a
  listening gateway is cleared and reported stopped (run `stop_clears_loaded`).

Two more that the module exhibits and no run pins down:

* "`TIME_WAIT` residue counts as bindable: the process that held the socket has
  gone" (supervisor.py:473). The listener closes when a drain *begins*; with a
  stream in flight the bind succeeds, and `stop` (supervisor.py:903) clears the
  record and reports a gateway stopped that is still draining.
* "A second Hermes session must not fail because the first one already started
  the gateway" (supervisor.py:767). Two sessions that both find nothing each
  spawn; the loser's child exits on its bind, and `start` raises on that before it
  looks at `status`, although the winner is serving.

Also seen: `restart`'s second loop (waiting for the identity to change) is entered
only when the record of the stopped gateway could not be removed; the admin request
is not scoped to an identity, so a `stop` may drain a gateway newer than its record.

## 4. The pure parts: Selector, Redaction, Config

Three pieces of code compute without state. Each is a set of operators;
`Tables` puts them over sets of inputs that are its constants, one behaviour
about one of the three, and `MCTables` gives it grids. Its actions are the pairs of inputs the properties relate: the next request of a
conversation, a record that is redacted again, an operator who moves the
settings below `auto_router:`, Hermes that adds a key of its own.

`Selector` translates the pure part of `routing/selector.py`. A request is what
the selector reads of it: the capabilities it needs, its token estimate, the
length and fencing of its latest user message, its message count. The contract
is written without the code's algorithm: a candidate fits when it supports what
is needed and leaves a tenth of its window; `Preference` numbers the tiers from
the requested one upwards, then from it downwards. `floor(window * 0.9)` in
floating point equals the integer `(9 * window) \div 10` used here (compared
for every window up to two million); so it is 9/10 rounded down, and the
contract compares `10 * tokens <= 9 * window`. A comprehension of the code is
`Picked`: the positions that qualify, sorted. `SelectSeq` would be shorter, but
takes its condition as an operator, which no installed prover can instantiate.

`Redaction` is `redact`. A record is the set of its leaves with their paths, `#`
stands for a place in a list; so what the recursive walk does at a node is a
condition on a prefix of a path: the first banned key (`Stops`), the depth limit,
a cycle. The `_redacted` list a mapping gets, and keeps, is a leaf as well. It is
applied to the message and to the arguments of a log record; each handler's formatter
does so on a copy of its own, so that a record is not redacted twice in a row:
`RedactTwice` is about the docstring of `redact`, "Idempotent". Not modelled is the
formatter's loop over other attributes of a record (redaction.py:599-605): it drops a
banned name and redacts every other value by itself, so that one called `session_id`
would stay as it is. "No call site in this project passes `extra=` today"
(redaction.py:597), which is why `NothingPrivate` is about `redact` only.

`Config` is `load_config`: a document is the block under `auto_router:`, the block
it would be without the wrapper, and its other root keys. Values are kept where
rules compare them (ports, timeouts, windows, ids, key sets) and named by their
kind where the rule is a pattern (addresses, credential references). An unknown key
inside `gateway` or `upstream` is refused like a value that is out of range, which
stands for it; at the root and in a candidate unknown keys are kept apart.
`ConfigError` is `None`.

| Run | Inputs | Shows |
|---|---|---|
| `tables` | ordered lists of up to 3 of 4 candidates, 4 modes, 192 bodies around every threshold, every pair of bodies; leaves of 5 kinds at every path of 4 keys to two below the depth limit, alone or beside what an earlier pass left; 440 gateway blocks and 90 others around every boundary, named or found | `OrderIsContract`, `PinKeepsFallbacks`, `GrowthIsMonotone`, `NothingPrivate`, `RedactTwice`, `LoadedIsUsable`, `WrapperIsOptional` |

Bounds. Three list positions and two candidates of one tier exercise each pass
and the order within a pass. `MaxDepth` is small in the run (12 in the code);
every path from the root to two below it is there, so each way for a key, a
list and the limit to meet is. `WellPlaced` says of the records what the code's
callers do: a prompt is only ever logged below a banned key, a session id only
under a session key. Two of the eleven banned keys stand for all: the
code only asks whether a key is a member.

`WrapperIsOptional` compares two readings of one document; what other keys at the
root do to settings *without* a wrapper is `GatewayWhereHermesDials` (section 7).

A disagreement without a run: redaction.py:447 calls `redact` "Idempotent". At
the depth limit it is not: a digest or a list of names put one level deeper than the limit
is cut off by a second pass (`RedactTwice` says when).

## 5. Router

`Router` is `DecisionRouter`. `route()` and `finalize()` do not await, so each
is atomic; a request may be anywhere between its two calls when another runs.

| Model | Code |
|---|---|
| `lru`, `route` | `_sessions`: its order, and its values (`owner` is the request whose decision a `_SessionRoute` holds) |
| `decision[r]` | the `RouteDecision` of request `r`, mutable until finalized |
| `log` | `_decisions` |
| `asked[r]`, `stage[r]` | the request, and how far its handler is |

`Served` takes any position of the decision's candidates as the one that
answered; `Raises` is a handler that ends without telling the router; `TurnAway`
is a request that ingress refuses, so the router never hears of it.

| Run | Configuration | Shows |
|---|---|---|
| `router` | 4 requests, 3 sessions with different modes, 2 sessions remembered, 3 decisions logged | `RouterTypeOK`, `RouteMatchesDecision`, `KeepsRecentSessions`, `ToolResultFollows` |

Bounds. A session that is evicted must be the one routed longest ago and not the
oldest known: that takes four requests (a, b, a, c) and room for two.
`KeepsRecentSessions` looks at the decisions still in `log`, so `MaxDecisions`
exceeds `MaxSessions`. Requests are numbered as they arrive, which loses nothing
since they differ only in what they ask.

A disagreement without a run: design.md:104 promises that a tool loop stays on
one model. The router pins a tool result to its *session's* latest route
(`ToolResultFollows`), and a helper call of the agent under the same session id
moves that.

## 6. Ingress and Relay

`Ingress` gives the verdict on a call as a status: authentication, then the media
type, the body cap on the announced and on the running size, the client hanging
up, then what the body is. `Relay` is the handler, from there to the client pool.
One step is what it does between two awaits that really wait. `at[r]` is its
place: `try` (about to take a connection of the candidate `Tried(r)`), `sending`
(request out, no status yet), `first` (2xx, waiting for the first byte), `ready`
and `rejected` (committed with a 2xx or another 4xx, the response not begun),
`relaying` (its body is being pulled), and the ends: `dropped` and `lost` are
answers whose body nobody ever began to pull, because a header of the answer is not
encodable (a 500 for the client, app.py:350) or the client had left. `pool[c]` is who took a connection of
candidate `c`'s client and did not give it back; `sent[r]` is what the client
received, each chunk labelled by the candidate that produced it. A plain request
is read and closed inside `complete`, so it goes from `sending` to its end; its
client may get a 500 in place of the answer, for a header as well.
`NoCredential`, `PoolTimeout` and `SendFails` are the exceptions the candidate
loop records and survives.

External: httpx (a connection counts until its response is closed; waiting for
one times out), Python's generators (closing one that never started runs
nothing; asyncio's finalizer closes one that did start once it is collected, which
is `Collected`), Starlette (a client that hangs up cancels the response; before the
response begins its handler does not notice). Left out: headers, payloads, log
records, the readiness probe, closing the pools when the process ends.

`Relay` implements `Router` (`DrivesRouter`): `Stage` maps the handler's place to
what the router knows, and the attempts the handler collected must be exactly
the candidates before the one it finalizes with.

| Run | Configuration | Shows |
|---|---|---|
| `relay` | 2 requests of 2 sessions, 15 kinds of them with 10 that ingress must refuse, 3 candidates (one without credential), 1 connection each, 2 chunks | `TypeOK`, `NeverSpliced`, `ServedReleases`, `DrivesRouter`, `Admission`, `AttemptsStart` (16 420 states) |
| `relay_leak` | the same | refutes `ConnectionsReturn` |
| `relay_early_error` | the same | refutes `EarlyErrorFallsBack` |

Bounds. Two requests and one connection are the least that make one wait for
another and find a pool exhausted by a lost connection. Two chunks are the least
that could be spliced. The refused calls have one fault each, or a body that is
too large together with another.

`ServedReleases` says that a connection is held only by a request at work on it, or
by a stream for a candidate it gave up or for an answer that was never pulled. These
two exceptions are what the code does, see below.

Fairness: only the steps that take a connection (`Try`) are fair: their timeouts
are 5 seconds. Reading has no timeout, so nothing is assumed of upstreams, and
that every request ends is not claimed.

Disagreements: a stream refused with a retryable status keeps its connection
(the iterator is closed before it started; after enough refusals every request
to that candidate waits out the pool timeout and falls back); the same happens to a
4xx that ends the request when its body is never pulled (`Unpulled`: neither its
iterator nor the relay around it has started when `_RelayResponse` closes them),
while that of a 2xx, which ran as far as the first byte, is closed by the collector; and a transport
error between the 2xx headers and the first byte is not caught, although it "can
fall back".

## 7. Secrets and Setup

`Secrets` is one state directory: the bearer token, the admin token, the salt.
A secret is a number and whether all of it is in the file yet. `secure_write`
removes the file, creates it with `O_EXCL` and writes through its descriptor,
each a step of its own: what it writes may no longer be the file of that name. Gateways
go through the startup of their two apps (`ReadToken` … `AdminMinted`) and, once
up, through `_load_or_create_salt` (`LookUp` … `Undo`).

`Setup` adds a Hermes home and the commands. A step is one read or one write of a
file, with the branch the code takes on it.

| Model | Code |
|---|---|
| `secret[f]`, `home[f]` | the files: tokens and salt; shim, control shim (`init`, `manifest`), `config.yaml`, three backups |
| `pc[c]` | where a command is; `Ended` are its exits |
| `url[c]`, `read[c]` | the base URL of its configuration; the document it read last |
| `snap[c]`, `roll[c]` | `_setup_snapshots` and how far the rollback is |
| `prior[c]` | what `install_control` would undo to |
| `failed[c]` | whether a part failed; `"for good"`: a file could not be restored |
| `job[p]` | who is minting which file, and at what step |
| `touched[c]` | history: the files that others changed since `c` began |
| `racers[g]` | history: who was minting the token when the file last came to hold the one that `g` enforces |
| `cast`, `todo`, `spent` | bounds: who takes part, who has not begun, the faults so far |

`config.yaml` is what the code distinguishes in it (`Document`): the operator's
values as a number, the block (or something that is no mapping in its place), bare
settings, the shape of `plugins`, the alias, and `layout`, whether the comments and
the format are its author's. The plugin edit is text surgery and keeps them
(`PlanEdit`); the alias edit and `configure` dump the parsed document, so that they
are gone (`Aliased`, `Configured`). `PlanEdit` refuses where the surgery would be a
guess, and not where the plugin is in the list already: it inserts it again when
somebody enabled it between the two reads. Such an edit, one of an odd shape, and one
that meets another writer fail their verification, which compares values (`ParsesTo`,
`PlugVerified`), and what was read is put back over whatever is there. A fault is an
`OSError` of a write or of a chmod, or a crash, at any step that may have one; a
backup that fails or is killed half way may be left torn (`Torn`).

Merged: a setup's snapshots of the six files of the home are one step, and so are the
reads of `install_control`'s two files: nobody but commands and the operator writes
them. `SetupConfig` takes `$HERMES_HOME` as set; without it `load_config(None)` looks
for no file (config.py:377) while setup edits `~/.hermes/config.yaml`. doctor also
calls `status`, which may remove a stale runtime file: that is `Supervision`'s call.

External: the file system (rename is atomic, `O_EXCL` excludes), editors and
Hermes (`UserEdit`), processes that die.

| Run | Configuration | Shows |
|---|---|---|
| `install` | the casts of `MCInstall`, 160 046 states | all the properties below |
| `salts` | two gateways that log at the same time, no fault | refutes `SaltsAgree` |
| `bare_config` | one setup, settings without the wrapper, no fault | refutes `GatewayWhereHermesDials` |

What `install` shows:

| Property | Says |
|---|---|
| `FailureRestores` | "restored" is true: every file is as it was found, but for those that others changed meanwhile |
| `UnownedKept` | at every step somebody else's shim is untouched |
| `UserConfigKept` | at every step of a setup each value of the operator's in `config.yaml` is as it was found; comments and format as well until the alias is dumped |
| `BackupHolds` | as long as `config.yaml` differs from what was found, a backup has it |
| `SuccessMeansInstalled` | after exit 0, doctor has nothing to fail on |
| `ConfigureKeeps` | the text that configure read is in `config.yaml` or whole in the backup, at every step, killed or not; and no value but the router's has changed |
| `ConfigureTakesEffect` | what it reports as written loads, routes among the approved candidates and keeps its ports (unless the settings were bare ones: the new block hides those) |
| `AdminReachable` | whoever serves can be told to stop: the admin token's file is whole |
| `RunningTokenKept` | the file's token that a gateway enforces goes only by the hand of somebody who was minting one when the file came to hold it, or of a rollback that found another content |
| `SerialSaltsAgree` | gateways that come to the salt in turn agree on it |
| `EverybodyEnds` | nobody waits for somebody else's file for ever |

`RunningTokenKept` holds of commands and gateways that begin later, since both mint
only where there is no file; it does not hold of two that both found none
(`secure_write` removes what is there before it writes). `AdminReachable` starts from
files that an earlier crash left damaged; a fault of the run itself is excepted, it
may leave the file damaged under a gateway that serves.

Bounds. A *cast* says which processes a behaviour has, how many faults, and what
the files hold at first. One setup meets 33 homes with two faults (two make a
step fail and its undoing fail too) and 15 with one, configure every kind of document
with two; every pair that shares
a file meets without faults or with one or two: setup and setup, setup and
configure, setup and gateway, doctor and gateways, two gateways, a command and
an operator who makes one edit. Three processes meet once. `MaxMints` (6) exceeds what any cast
can draw but for logs that fail again and again; it stops only those. Deadlock
checking is off: when everybody has ended there is nothing left to do.

Fairness: a command or a gateway that has begun takes its next step, as the
operating system's scheduler gives it. Nobody has to begin, to log a session, to
edit or to crash. No step waits, so weak fairness is enough.

Disagreements: two processes that need a salt at once may keep different ones
(`salts`), although the code has an arbiter for exactly that. Its claim is
unlinked by the write it protects, so a second one succeeds in between; the first then
fails to create the file, its undo removes what the second has put there, and at its
next call it draws another. A home whose `config.yaml` holds bare router settings
stops meaning them once setup has added its own keys (`bare_config`). Without a
run of their own:

* `_plan_edit` says that a dump "discards every comment and reflows the whole file,
  and this is the user's Hermes configuration, not ours" (commands.py:190). The same
  setup dumps that file a moment later for the alias (commands.py:462), and so does
  configure (commands.py:782). The backups keep the text.
* `_plan_edit` returns a second `enabled:` under a `plugins:` whose `enabled:` has no
  value: the edit cannot verify, and the operator is told to do it by hand.
* A backup is truncated before it is written: a setup that fails or dies there has
  torn the backup of the setup before it.
* commands.py:361 promises "a timestamped backup"; the backup has a fixed name,
  so the next setup overwrites it.
* The rollback removes the backups even when it could not restore the file they
  are backups of (`BackupHolds` excepts it).
* An empty `config.yaml` is taken for a missing one: undoing the alias, or
  configure, removes it.
* A rollback takes away the tokens that a gateway, started since the snapshot,
  read or minted; that gateway goes on enforcing its own. So does one whose token is
  replaced by a process that had found no file either (`RunningTokenKept` excepts
  both, and says that there is no third way).
* With `--hermes-home` doctor compares the shim with the default configuration
  (`SuccessMeansInstalled` excepts it).
* An edit that an operator makes between the read and the replacement is lost,
  and the verification does not notice (hazard commands.py:369; `touched` is
  there to except it).

## 8. What is proved

For every value of the constants: any number of processes, calls, requests,
candidates, homes and faults. Every invariant and every action property of a
passing run is stated by a theorem; the five liveness properties are not.

The assumptions are one named `ASSUME` per module that declares constants, which
TLC evaluates in the runs:

| Assumption | Says |
|---|---|
| `SupervisionAssumption`, `SecretsAssumption`, `SetupAssumption` | model values are distinct, no gateway is a command, a cast's homes and secrets have their types, what marks a missing or damaged file is not what a parser or the loader sees |
| `RouterAssumption`, `RelayAssumption` | at least one candidate, ids that differ, limits of at least one, requests that are well typed; the sizes of a body's chunks add up to a natural number (stated, because summing a sequence is recursion over data) |
| `TablesAssumption`, `RedactionAssumption`, `ConfigAssumption` | the inputs are candidates, records and documents; a depth limit of at least 2 |

No theorem needs a bound of a run.

### Supervisor and gateway: `SupervisionProofs`, `CallProofs`

* `TypeCorrect`: `Spec => []TypeOK`.
* `OwnershipHolds`, `AtMostOneGateway`: `OneGatewayUp` is not inductive: it does
  not say who may bind. `Ownership` is: a process between its first bind and its
  drain is the listener of the inference port, one between its second bind and
  its drain also of the admin port, and a process that listens is in a phase
  that holds sockets. Two processes that are up would both be the one listener.
* `AdvertisedHoldsPorts`: the file changes to a new identity only in `Publish`,
  which `Ownership` places after both binds.
* `JudgedHolds`, `StatusIsSafe`: `Judged` says that records name processes past
  their binds, and that a call which found the port not held by its record may
  rely on that, because a process past its binds never binds again (`PastStays`).
  So what the unlink of `status` takes from disk is the record of a gateway that is
  up or listens only if `status` was in `window`: the replacement was published
  between its compare and its unlink.
* `SignalsAreLicensed`: only the identity probe leads to a signal, and only a
  process that is alive answers it.
* `ReplacedStays` (`RestartSupersedes`): `Replacing` says of each place in a
  `restart` what is known of the gateway it replaces: past its binds and, from
  the end of the stop on, not in the file, unless this call failed to remove it
  (`kept`). Nobody publishes twice, so nobody puts it back; and in that case too it
  listens no more once a replacement is spawned, so that the call does not report it.
* `FailedStartsEnd` (`FailedStartLeavesNoChild`): `ChildrenMinded` says that a call
  that has spawned still knows its child or has seen it end, at each of the
  places where a start may raise.
* `LossNeedsWindow` (`LostOnlyInWindow`), under `NoStall`, no hangs and no slow
  answers, without which it is false (run `stop_clears_loaded`). `Laddering` says
  what a call that goes up the ladder knows of the process it stops; `Windowed`,
  that whoever is about to unlink while a live gateway is advertised was in
  `window` when it published.

### Selection and routing: `SelectorProofs`, `RouterProofs`

* `SelectionIsContract`: for every list and request. The lemmas say what
  `Picked` returns (membership, order, length), that concatenating the passes
  keeps the order, and that the tiers a request may try are what `Preference`
  numbers.
* `RouterTypeCorrect`, `RoutesAgree`, `SessionsAreRecent`, `ToolResultsFollow`, from
  `RouterInv`: `History` (requests arrive in order, and one that is routed has a
  decision), `Table` (a session's route is owned by the newest request of that
  session and names what its decision selected; the table is ordered by those
  owners), `Logged` (what the log holds, newest last). `KeepsRecentSessions` is
  not inductive, and follows by counting: the sessions routed since are the tail
  of the table, which has as many elements as it is long.

### Relay: `RelayProofs`

`RP == INSTANCE RouterProofs WITH stage <- Stage` reads the router's theorems with
the relay's places. `RelayInv` is `RP!RouterInv` with, for each request,
`Progress` (which candidates were tried, what was sent), `Pooled` (whose
connections it may hold) and `Admitted` (what got past ingress).

* `RelayDrivesRouter`: initial states map to initial states and each action to an
  action of `Router` or a stutter: the refinement. `RelayKeepsSessions` takes the
  router's theorems over.
* `RelayTypeCorrect`, `OneCandidateAnswers` (`NeverSpliced`), `AnsweredReleases`
  (`ServedReleases`), `OnlyAdmittedGetThrough` (`Admission`). The third needs that only
  streams are ever `ready`, `rejected`, `dropped` or `lost` (`Streamed`).

### Pure parts: `TablesProofs`

`TablesInv`: a record that was redacted is a record, an edited file a document.
`OrdersAreContract`, `PinsKeepFallbacks`, `GrowthNeverWeakens` apply
`SelectionIsContract`. `NothingPrivateIsLogged` and `SecondPassIsIdle` argue about
prefixes of paths (a redacted leaf is stopped nowhere above). `LoadedBinds` has
the hypothesis `Ephemeral = "no"`: with the switch for tests a port may be 0, as
it should. `WrapperMeansNothing` compares the block that `load_config` ends up with.

### Secrets and commands: `SetupProofs`, `TransactionProofs`

* `TypeCorrect`: `Spec => []SetupTypeOK`. What makes it more than bookkeeping:
  what is read, edited and restored is a document although anybody may have put
  garbage there since (each command checks before it keeps what it read), and
  the rollback never leaves its table. Each action has a lemma, and so has each
  operator that yields a document (`PlanType`, `EditsType`, `LoadType`).
* `SaltsAgreeInTurn`: `SerialSaltsAgree` alone is not inductive. `SaltInv` adds,
  for behaviours without overlap: one gateway at most is at the salt; from its
  claim on until it is done nobody has one cached; between creation and
  verification the file holds its draft. `Quiet` is what all other steps, the
  commands' included, do to it: nothing (`SaltJobs`: no command mints a salt;
  `TableOfFiles`: no rollback covers it).
* `OperatorsKept`: `UnownedKept` and `UserConfigKept`. `Kept(c)` adds what the
  program counters know: a setup that found somebody else's file never reaches
  the steps that write there; what it is editing has the values it found but for
  plugins and alias, and the layout it found until the alias is written; it replaces only what `PlanEdit` did not refuse. Own steps
  preserve it because of the checks (`ShimStep`, `EditStep`), everybody else's because
  `touched` records what they change (`Beside`).

What a command promises of several files is proved in two halves: its own steps
(`Acts`), and everybody else's (`Away`: they change nothing of its own, and what
they change in files is in `touched`); `Turns` says that each step is one or the
other for each command.

* `ConfigureLosesNothing` (`ConfigureKeeps`): `Way` tells for each place of a configure
  which of `config.yaml` and the backup hold the text it read: the file until the
  backup is whole, the backup from then on.
* `ConfigureWorks` (`ConfigureTakesEffect`): what is verified is what was written (`Way`
  again), and a document with a block means that block (`BlockIs`), whose gateway is
  the one of the old block or, without one, the default (`NoGatewayIs`).
* `TokensStay` (`RunningTokenKept`): `Racing` says that whoever is about to remove the
  token while a gateway enforces it was minting when the file came to hold it, and is
  in `racers`: nobody begins to mint where there is a file.
* `AdminStaysReachable`: `AdminReachable` says nothing of a file that is being
  minted. `Sound` does: the file is whole, or one of those who mint it is about to
  create it, or to write what it created. Nobody leaves the file missing who is
  not one of these, since `secure_write` removes and creates in a row.
* `BackupsHold`: `Backed` tells for each place of a setup which of the file, the
  text it read and the two backups still holds what it found; the second edit
  may overwrite none of the first's because its backup has another name.
* `RollbackRestores`: `Undone` is the rollback's loop invariant. For the setup that
  had nobody beside it, `Alone` says so of everybody and `Traces` that its
  snapshots are what the cast brought; `NoTrace`: whatever setup writes is in
  the table of files that are restored.
* `SuccessIsInstalled`: `Installed` says what is in place at each step (tokens,
  shims, edits), `Loaded` which port the configuration means, though setup edits
  the file it was loaded from; so that doctor finds what setup wrote
  (`DoctorPasses`). It needs `MintsOwn`: a draft belongs to the command that is
  minting.

### Only model-checked

`CallsReturn`, `SpawnsSettle`, `DrainsFreePorts`, `AttemptsStart`, `EverybodyEnds`: liveness
under fairness needs `ENABLED`, which the provers do not reason about. And the
runs that refute a claim of the code's documentation, which no proof replaces.

The provers take a `CASE` whose guards overlap for undetermined, TLC for its
first arm. Where the code is a chain of `elif`s the model is a chain of `IF`s
(`Rollback`, `Limits`, `Verdict`, `Answers`).

## 9. Not modelled

* Log rotation before a spawn (`supervisor.py:300`): nothing else depends on it.
* Reads that fail with `OSError`, and a `config.yaml` that is not UTF-8, which
  setup does not catch.
* What the log formatter does with attributes given as `extra=`, which no call gives.
* The Windows ACL commands: they are behind "the permissions are read back".
* Discovery and the prompts of `configure`, the formatting of doctor, `cli.py`.
* `uninstall`: no command calls it.
* Admin `status` and `decision`, the readiness probe, the model list,
  `health/probe.py`, `discovery.py`, `provider.py`, `compatibility.py`: they read
  and format.
* `gateway/admin_main.py`: a development entry that nothing starts.
* Closing the client pools when a gateway ends.
