# WebSpec gateway: specifications, checks and proofs

WebSpec maps HTTP requests to `{service}.localhost` (or a public domain) onto the tools of MCP
servers. One process, the *gateway* (`gateway/webspec/`, an asyncio ASGI application behind Caddy),
decides per request whether the tool may run: it checks a guard signature and a nonce, an
Idempotency-Key, a one-shot clearance and a human's signed approval, keeps the map from paths to
tools closed to takeovers, holds one connection per server, and logs each decision in a hash chain.
`webspec-ctl` and some shell scripts administer the host, and a service manager, or the init of a
container, holds the gateway's socket.

This directory models that core in TLA+. TLC checks small instances; TLAPS proves the safety properties that
hold in the runs, and the type invariants, for all values of the constants that the assumptions allow; one of
them needs a hypothesis besides, which section 4 explains.

| file | what it is |
|---|---|
| `IdempotencyStore`, `ApprovalStore`, `GuardNonces`, `Clearances`, `Contracts` | the data of one component and what each of its operations does to it: operators, no variables |
| `Idempotency`, `Approval`, `Guard`, `Routes`, `Audit` | one component under concurrent users and time |
| `ServiceRegistry`, `Pool` | the registry with its poll loop, and the pool composed with it |
| `Invoke` | the commit of a call, composed of three stores |
| `CtlProcs`, `ConfigFile`, `SiteFiles`, `Sites` | the administrator's side: the edit of the configuration file, the transaction on Caddy's files, and the commands of `webspec-ctl` composed of both |
| `CaddyFiles`, `Setup` | what `caddy.py` reads from a host and decides, and `setup-caddy.sh` with everything that may come between two of its steps |
| `Activation`, `Drain`, `Container` | how the gateway starts, serves and stops, and who runs it |
| `AtMostOnce`, `OneShot` | abstract specifications |
| `IdempotencyProofs`, `LevelsProofs` (of `Guard`, `Approval` and `Audit`), `InvokeProofs`, `RoutesProofs`, `PoolProofs`, `SitesProofs`, `ContainerProofs`, `SetupProofs` | theorems and their proofs |
| `MC*`, `*.cfg` | instances for TLC |
| `PROJECT.json` | components, runs, mutants, source lines of each definition, hazards, findings, theorems |

Definitions that end in a name for a mistake (`AgeOutKeepsAge`, `CommitUnchecked`) are *faulty
variants*: a plausible bug in the operator defined right after it. No behaviour uses them. Each
property has one that breaks it (`mutants` in `PROJECT.json`), which shows what the property is
worth. A few of them serve two properties.

## 1. Inventory

### The system's parts

| component | source | state it keeps | operations |
|---|---|---|---|
| Idempotency store | `idempotency.py` | per destination, an ordered dict of records: state, fingerprint, tool, response, time of the last change | `peek`, `begin`, `complete`, `mark_unknown`, `abandon` |
| Approval store | `approval.py` | ordered dict of challenges: state, request, age, failures, signature | `issue`, `verify` (awaits ssh-keygen), `can_spend`, `spend` |
| Nonces | `guard.py` `NonceStore` | nonces with audience, age, used mark; time of the last cleanup | `issue`, `consume`, `_maybe_cleanup` |
| Clearances | `guard.py` `_SpentClearances` | spent tokens and until when to remember them | `is_spent`, `spend` |
| Method contracts | `methods.py` | `ContractPins`: the strictest contract seen of each tool | `observe`, `join`, `apply_override`, `admissible_methods`, `requirements` |
| Route map | `routes.py`, `_list_tools` and `_route_map` in `handlers.py` | per destination: entries, binding pins, tools moved to their full names, closed keys | `build`, `rebuild`, lookups |
| Invocation | `handle_service_invoke` in `handlers.py` | none of its own; it composes the above | early look, credentials, commit, call, settlement |
| Service registry | `config.py` | services, signature of the file last read | `reload`, `check_reload` |
| Poll loop | `app.py` | none | reload, remove services from the pool |
| Connection pool | `pool.py` | per service: a client, its cached tools, two locks | `get_client`, `list_tools`, `call_tool`, `ping`, `_teardown`, `remove_service`, `close_all` |
| Audit log | `audit.py` | last hash per path, cached descriptor per path, the files | `record`, `verify_chain` |
| Dispatch | `app.py` | none | host grammar, guard, `/__nonce`, method to handler |
| Config writer | `config_writer.py` | the configuration and env files on disk, a temporary file beside each | `add_service`, `remove_service`, `list_services` |
| webspec-ctl | `ctl.py` | none; one process per command | `add`, `add --direct`, `rm`, `caddy-sync`, `ls`, `health` |
| Caddy sites | `caddy.py` | Caddyfile, site blocks, a lock on their directory, Caddy's running configuration | `plan_sync`, `apply_site_changes`; plan, stage and apply for `setup-caddy.sh` |
| Caddyfile reading and generation | `caddy.py` | none of its own: the Caddyfile, `conf.d`, the loaded socket unit, `gateway.env` | plan, domain, listeners, `caddy_status`, health checks |
| Setup of Caddy | `gateway/tools/setup-caddy.sh` | the files, a copy of the previous ones, units, sockets, the tunnel | plan, stage, apply, put back, switch, restart, reload |
| Start and stop | `activation.py`, `__main__.py`, `config.py` | listening socket, guard key, draining flag, connections | socket activation, start, drain |
| Container init | `docker/init.py` | child process, the sockets of the port | start, supervise, end everyone else |
| Tool registry | `webspec_registry/` | cached catalog | harvest, resolve |
| Pure helpers | `definer.py`, `hostgrammar.py`, `serializers.py`, `permissions.py`, `approve_cli.py` | none | parse, format |
| Installers, services, CI, plugins | `gateway/deploy`, `services`, `.github`, `plugins` | | |

### How they interact

A request is handled by one coroutine. It reads its destination's *entry* in the registry, has the
guard checked (which uses up a nonce), lists the tools (awaiting the pool), rebuilds the route map,
looks its Idempotency-Key up, checks its clearance, has its approval verified (awaiting ssh-keygen),
and *commits*: check, claim the key, spend the credentials. Then it awaits the tool call, and settles
its key. All coroutines share the stores through module globals. There are no threads, so what
stands between two `await`s is atomic, and everything else interleaves. The poll loop is one more
coroutine that replaces the registry's services and closes clients. The files on disk are shared with
`webspec-ctl`, editors and logrotate, which are other processes. The stores live in memory
(`docs/spec/status.md:44`), so a restart starts a new behaviour; only the audit log and the
configuration survive one.

The gateway takes its socket from systemd, launchd or the container's init, or binds one itself. It runs stdio
servers as its own user, and they may leave processes behind, which can signal it and the init, and listen where
they can. Caddy keeps its connections to the gateway open between two calls. `setup-caddy.sh` writes the files that
`webspec-ctl` changes and Caddy runs, and moves Caddy's ports to systemd; it takes no lock.

### What is hard

* *Interleavings at awaits*: ssh-keygen in the middle of an approval, the listing between reading an
  entry and using it, connecting and closing clients.
* *Time*: records age into `unknown` and then expire while their call may be open; clearances are
  valid on both sides of their timestamp; challenges expire while they are verified.
* *Limits*: a full store or queue must evict or refuse the right thing.
* *Unknown outcomes*: after a timeout or a lost connection the tool may have run.
* *Sequences*: what a server lists today and tomorrow, and what the operator confirms in between,
  decides who may hold a path and how strict a contract is.
* *Two files and a server*: a command of `webspec-ctl` changes the gateway's configuration, then Caddy's files, then
  what Caddy runs, and takes each back if the next fails; it can be interrupted or killed anywhere, and other commands run meanwhile.
* *A stop while clients are busy*: requests are on the wire of a connection that is about to be closed, and signals come in any
  order, to the gateway or to the init.
* *A long script on a live host*: anything may change between its plan and its writing, and every step of it may be its last.
* *Partial failure*: short writes, failed opens, half-written configuration files, servers that
  break at any moment, cancelled requests.

`PROJECT.json` lists each place under `hazards`, with the properties that would catch it.

### What makes each part correct

| component | properties |
|---|---|
| Idempotency store | one open call per key; an open call's record cannot be lost; after an unknown outcome no retry within `TTL`; a replay is of the same request; refusals have a cause; only completed records are evicted, and only when full |
| Approval store | an approval runs one call, as signed; one verification at a time, none left marked; nobody else's challenge is lost to a full queue |
| Nonces, clearances | each used once, in time, for its destination (but for a clearance whose request waits too long); none lost early, none kept for ever |
| Invocation | nothing spent without a call, everything a call needs spent with it; a retry of a completed call needs no credential; everything settles |
| Contracts, routes | contracts only tighten, but for a tool that the operator unmarks; the first map gives every tool a key of its own; a bound path changes hands only when confirmed; methods stay within the contract |
| Registry, pool | the last good file applies; no connection is left behind; every request ends |
| Audit log | the chain holds across rotation, restarts, failed writes; a rotation takes effect at once |
| Configuration and sites | what Caddy runs is what is on disk; entries and blocks agree and serve one domain, whatever failed; the configuration file is whole |
| Caddy's files, setup | no host is dropped unless asked; the recorded domain stays; what fails goes back; what does not fit is told; the tunnel reaches only Caddy |
| Start and stop | the gateway serves as its deployment says or not at all; a stop loses no call that came in time |
| Container init | nobody else ever has the port; the container ends with its gateway; no stop signal is for good |

## 2. What each module models

In every model an action is what the code does between two awaits, with all calls it makes. One
behaviour is one life of the process, except in `Audit`, where `Restart` is an action. Ages replace
timestamps: whole seconds, saturated at the first value beyond which the code cannot tell two ages
apart, so the clock is unbounded and the state space finite. Steps of the wall clock or of the
monotonic clock other than forward are not modelled.

### Idempotency: `IdempotencyStore`, `Idempotency`, `AtMostOnce`

`IdempotencyStore` has an operator per method: `LookUp` (`_lookup`), `Classify`, `Peek`, `Roomy`
(`_make_room`, a set of results since records settled in the same second are not told apart), `Begin`, `Complete`, `MarkUnknown`,
`Abandon`. `Idempotency` adds the callers: `PeekAt`, `Claim`, then one of `Completed`, `Lost`,
`Refused`, and `Tick`. `claims` are the calls that are open; `reply` is the decision just taken;
`last` remembers how each key's last call ended. The two exist only to state properties.
One destination suffices, as scopes share nothing. `_make_room`'s loop evicts one record at most, for the store
is never above its limit. `CallLimit` stands for the connect, the 30 s of `DEFAULT_TIMEOUT` and the close after an
error. The pool gives the first and the last no timeout: that they end is assumed (Fairness, below).

`AtMostOnce` is the promise: a key is free, open, done or unknown; an open or unknown key is never
granted. `Idempotency` implements it under the mapping `PhaseOf`, which looks through the lazily aged
records (`ImplementsAtMostOnce`).

### Approval: `ApprovalStore`, `Approval`

Challenges are numbered in the order of issue, which is the order of the dict and of their ages, so
`_purge`, which stops at the first young one, is `Purge` of all old ones. A signature is a signer, a
challenge and a request; it is `Genuine` when the signer is an approver and the other two match.
`Present` is `verify` up to its await (and, for a challenge approved earlier, the commit right after
it); `Verified` and `Unverified` are the rest. `Unverified` is always possible: timeouts,
crashes and cancellation run the same `finally`. Requests are told apart by a destination and a body.

### Guard: `GuardNonces`, `Clearances`, `Guard`

Nonces keep an age, up to the time when any cleanup would have taken them, and whether they are used. `IssueNonce` and `GuardedRequest` both run
`_maybe_cleanup` first. A request whose HMAC is wrong changes nothing and is left out. A
clearance's timestamp is its `lead` over the clock, from `-(TTL+1)` to `TTL+1`. `Validate` is the early
check, which with `spend=False` asks for the time only, `PayAtCommit` asks again whether the token is spent and spends it, `GiveUp` is every refusal in
between. `WaitLimit` bounds the time between the two: 0 below level 4, up to 20 s at level 4, two
ssh-keygen calls of 10 s.

### Invoke: `OneShot`, `Invoke`

Attempts arrive with any headers and go through steps 3 to 6 of `handle_service_invoke` over the
operators of three stores. `AnswerFromRecord`, `RefuseClearance`, `Unapprovable`,
`AskForApproval`, `PresentApproval`, `CommitAtOnce` are the ways on from arrival, in the order of the
code's early returns; `Verified` and `Unverified` end the await of ssh-keygen, `Completed`, `Lost` and
`Rejected` the await of the call, which includes what the pool awaits around it: closing a stale client and connecting before,
and closing the client after a timeout or an error. There is no clock here: ageing is in the components' own modules.
`OneShot` is CO-1: the credentials of a call are unspent before the step that starts it and spent by
it, and no other step spends any.

### Routes: `Contracts`, `Routes`

`Contracts` is `methods.py` as operators. In `Routes`, `Receive` reads the entry, `Listed` observes
the contracts and refreshes the map after the await, `ListFailed` drops the request, and
`Reconfigure` may come at any moment in between. `MovedIn` is the loop of `RouteMap.build`, round by round: `Movable` are the tools
that share a key and have not moved, and each round moves them all. Names with slashes are left out: two that differ
only in the slashes around them share a key that no move can part. `Assemble`
decides open keys and pins. The verb table is the constant `Candidate`; `served` remembers which tool
each key last served. Because an entry can be older than the configuration when it is used, a binding
that the operator has just withdrawn may be confirmed once more: `NoTakeover` takes the
entry used as the confirmation.

### Registry and pool: `ServiceRegistry`, `Pool`

`Write` is any other process; `CheckReload` takes the signature, `Parse` reads the file later and may
find a newer one. The two `stat` calls of a poll are one step. In `Pool`, a worker's `at` is the await
it is in: closing a stale client, queued for the init lock, connecting, waiting for the client's lock,
listing, calling, pinging, closing after a failure. `Break` disconnects a client at any moment.
`Drop` is `_teardown`: it takes whatever client is pooled *now*, which need not be the one that
failed. `TOOL_CACHE_TTL` is the action `Expire`. One service suffices: clients and locks are per
name. `close_all` is not modelled; it runs once, as the process ends.

### Audit: `Audit`

`Chain` takes the lock and finds what to follow; `Open` or `OpenFailed` is `_append_fd`; `Write`
appends, perhaps short; `WriteFailed` is an `OSError`. `Rotate`, `Reuse` (another part of the gateway
gets a freed descriptor number) and `Restart` may come in between. A line is the number of its entry,
whether it is whole and ended, and its `prev`. `rotated` remembers how many entries had been begun at the last renaming, for
`RotationTakes` alone. `verify_chain` is what `ChainHolds` states: each whole line follows the one before it (`Follows`), in its file or, if it is
the first of one, in the last file before that has lines (`Precedes`).

### Configuration and Caddy's files: `ConfigFile`, `SiteFiles`, `Sites`

`ConfigFile` is an edit by one process, call by call: `BeginEdit`, `ReadConfig`, `UnlinkTmp`, `CreateTmp`, `FillTmp`,
`ReplaceConfig`. A file is its content and the process that still has to write it, since a file keeps its
writer when another process renames it or unlinks its name. `SiteFiles` is `apply_site_changes`: `TakeLock` compares and keeps under the
lock, `Validate` or `Reject` is the staged copy, `WriteFile` writes one file, `Reload` or `ReloadFails` is Caddy, `RestoreFile`
puts one file back or cannot. An error is `refused` (a `CaddyError`) or `raised` (an `OSError`, Ctrl-C), as the
commands tell these apart. A reload that times out or is interrupted may have happened. A
block is its kind and the domain it serves, which decide its text.

`Sites` composes them: `Add`, `AddDirect`, `Rm`, `CaddySync` read the services; `Look` reads Caddy's files and decides; `Put`, `Applied` and
`Edited` go on from the end of an edit or of a transaction; `Kill` ends a command anywhere after its first write.
`torn` says what a crash, a file that could not be put back or a reload that was taken for failed leaves out of step, until the next
reload that succeeds (`"running"`) or the next complete `caddy-sync` (`"files"`); `overlapped` whether two commands ever ran at once.
The files of one look are read in one step, and a killed command's reload happens at its death or never.
Files that webspec did not write, raw names that normalize to one name, the backup of the configuration and the environment
file are left out.

What a command decided before it took the lock may be out of date when it is applied, and the configuration has no lock at all. So when
commands overlap, an edit can be lost, an entry that `rm` removed can come back, a direct site can shadow a
service that was added meanwhile, and an old domain can be recorded over a newer one. Only `RunningIsDisk` is claimed of such behaviours.
And an `rm` whose transaction fails with an `OSError` leaves the entry where it is, although `cmd_rm` says it goes
"even when Caddy's site block cannot".

### Start, stop and who holds the port: `Activation`, `Drain`, `Container`

`Activation` has the decisions as operators over an environment: `SessionKey` and `EnvGuardKey` (the guard key), `InheritedSocket`
with `FromSystemd`, `FromLaunchd` and `Checked`, `GatewayAddress` (the init's reading of `WEBSPEC_HOST`) and `Named` (the gateway's).
`Start` is `main` up to serving.

`Drain` is the process that serves. uvicorn is external: what `__main__.py` says of it and sets. A connection
is queued, open, closed by the gateway but not yet known to the client (`"fin"`), or closed; a request is on the wire, here, or running. `Shutdown`
starts the drain on a socket that was passed, and uvicorn's own stop on one of its own; `SaysClose` is `Draining`; `GraceOver`, `LimitOver` and `Exit` end it.
Time is in units that keep the order of the limits: a request is on the wire for less than `ACCEPTED_GRACE_SECONDS`,
and a call ends within `DEFAULT_TIMEOUT`, before `GRACEFUL_SHUTDOWN_SECONDS`. That leaves 5 s for everything else, which a level-4 request's
verification (up to 20 s) or the pool's untimed connect and close can exceed: such a request counts as one that never ends (`endless`), and
nothing is claimed of it. What the kernel has received is read before a timer that is due at the same moment.

`Container` composes the gateway with whoever runs it. For `docker/init.py`: `Boot` is `main` and `start` up to the fork,
`TakeSignal` is `sigwait`, `Reap` the loop over `waitpid` (one report a step), `EndEveryoneElse` a round of it, `Release` and `Gone` the end
of the init and, if it was PID 1, of the container. Processes left behind appear, fork, listen at any address that is free, are killed, and may
finish a system call while they die (`Steal`). Two sockets conflict at one port as the kernel has it: in one family, at one address or a wildcard. A
process of another user (`root`) cannot be killed. `Signal` sends SIGTERM, SIGHUP, SIGSTOP or SIGKILL. Each deployment says which of these there are.

### Caddy's files and their setup: `CaddyFiles`, `Setup`

`CaddyFiles` describes a disk (the Caddyfile and an entry for each name of `conf.d`) and a host (IPv6, the loaded unit, an
earlier drop-in, `gateway.env`), and has the decisions as operators: `PlanSites`, `ServedToday` and `Refused` (what may be dropped), `RecordedDomain` and
`ResolveDomain`, `InstalledListeners`, `ListenerMismatch` and `UnheldListeners` (`webspec-ctl health`), `CaddyStatus`. An entry
is who wrote it, what it serves, for which domain and on which sockets; that is all that these decisions read.

`Setup` is `setup-caddy.sh`, one action for each of its steps: `Begin`, `Look` (plan, and stage), `KeepPrevious`, `Apply` with its second look,
`WriteOne` file by file, `Install`, `Units`, then `RunCutover`, `Restart` or `Reload`. `Stop` ends it anywhere, as its traps have it: refused, put back, torn (SIGKILL, or files that cannot be
moved back, also after a unit that could not be copied or a reload that failed) or late. The switch is a process of its own (`StopTunnel` to `StartUnit`), which goes on without the script. `Begin` leaves one case out: a run that is started while a dead run's switch still goes on.
The script tells the operator to wait (`setup-caddy.sh:986`, 995 and 1003), and nothing in it enforces that: what such a run may do to the tunnel no property says. `CaddySync`, `AddDirect`, `Edit`,
`CaddyRestarts`, `Foreign` and `Reboot` are the others. Here a command of `webspec-ctl` is one step, as `SiteFiles` has its steps.

`torn` is set by what leaves a mixture on disk, until a run ends well. `due` are the hosts that nobody has asked to drop. A command of
`webspec-ctl` that falls between two writes of a run (`crossed`) mixes their layouts, and is undone if the run puts its files back; a domain that it is given during a run is
overwritten by the one that the run resolved before (`overtaken`). The script and the commands share no lock, so no property claims otherwise.

## 3. What the runs check

| run | states | what it asks |
|---|---|---|
| `idempotency` | 109 k | six properties of the store, and `ImplementsAtMostOnce` |
| `levels` | 212 k | one call per approval, as signed; marks; no live challenge lost; single use of nonces, of clearances in time; none lost or kept for ever; the audit log's chain and rotation |
| `invoke` | 12 k | atomic commit, replay without credentials, settlement (liveness), `ImplementsOneShot` |
| `routes` | 61 k | no takeover; no loosening but of an unmarked tool; the first map serves every tool |
| `pool` | 126 k | no stray connection, the file applies, requests end (liveness) |
| `sites` | 1,020 k | Caddy runs the files on disk; blocks match entries and the recorded domain; the configuration file stays whole |
| `container` | 308 k | the port is never anybody else's; no call that came in time is lost; starts; the container ends (liveness) |
| `setup` | 3,329 k | hosts and domain kept; files put back; misfits told; the tunnel safe |
| `guard_late` | 83 k | **violated**: a clearance pays twice, the second time after a wait of two seconds |
| `routes_unmarked` | 0.01 k | **violated**: a listing loosens the contract of a tool that the operator unmarked |
| `audit_reopen` | 0.9 k | **violated**: the log closes a descriptor that is no longer its own |
| `sites_torn` | 8 k | **violated**: two writers at once leave a part of a file where the configuration was |

The four violations are disagreements between the code and its documentation or comments. `findings`
in `PROJECT.json` quotes each:

* `guard_late`: a spent clearance is remembered for `2 * CLEARANCE_TTL + 1` seconds from when it was spent (`guard.py:272`), but a level-4 request asks
  whether its clearance is in time before it awaits ssh-keygen, up to 20 s, and whether it is unspent only after. `docs/spec/levels.md:175` says it "can be spent once". What the code
  does keep is `PaysAgainOnlyLate`: it pays again only for a request that waited for more than a second.
* `routes_unmarked`: `apply_override` starts from the strict defaults only while the pinned contract is read-only (`methods.py:188`), so once the server lists the tool as one that changes something,
  its own hints count, which may be looser. `docs/spec/methods.md:52` says a server "can never loosen it". What the code does keep is `LoosenedOnlyUnmarked`.
* `audit_reopen`: a descriptor number that was closed stays cached when the log cannot be opened again.
* `sites_torn`: the writers of the configuration share one temporary name, and no lock.

`MCLevels` composes `Guard`, `Approval` and `Audit` for one run. They share nothing, so the state `explored` says which of them moves, and the
others stay in their initial states: the run explores each by itself.

### Bounds, and why they are enough

* `idempotency`: three keys over two records, so that the store is full with a key left over; two callers and
  two tools under one fingerprint, so that mismatches, overlapping calls and evictions of either meet.
  `InFlightTTL = 0`, `TTL = 1` and `CallLimit = 2` put the ageing of a record and the end of an aged one within a
  call's life, on both sides of each comparison.
* `levels`, approvals: two requests of one destination and one of another, one approver and one stranger, two challenges, a queue of
  one, two failures. A verification can outlive a challenge (`VerifyLimit = 2 > ApprovalTTL = 1`).
* `levels`, nonces and clearances: two nonces, two destinations, and one token of every lead. `ClearanceTTL = 2` gives all
  positions inside, at and beyond each limit; `CleanupInterval = 2 > NonceTTL` lets a nonce
  outlive its TTL before a cleanup. `WaitLimit = 2` is on the far side of the one second by which the memory of a spent token exceeds its two-sided
  validity, so a token does pay twice in this run and in `guard_late`, which has the same bounds.
* `levels`, audit: four entries over three files leave room for one torn line between two whole ones, twice rotated.
* `invoke`: two attempts, a keyed and an un-keyed tool, two challenges, three tokens (two for one
  request, so that a retry can bring a fresh one), one record.
* `routes`: three tools whose candidates contend for two keys, one of which is another tool's full name; four configurations: none,
  a tool returned to its key, another with a tool marked read-only, and that tool unmarked. `routes_unmarked` lists one tool, as read-only and as additive.
  One handler is enough: `Reconfigure` may come between its two steps, and the listing is one step.
* `pool`: two requests, a third client for a reconnection, two writes of the file. The run stops at those
  bounds, so deadlock is not checked; `RequestsEnd` is what no deadlock means here.
* `sites`: two names, two commands, at once or one after the other, on hosts with a guarded service, anything under the other
  name and a public domain. Two commands are a failure and what repairs it, or any two that meet; processes and names are symmetric. A
  third would only repeat what one of two can do to the files. Deadlock is checked: the system may rest only when no command is under way.
* `container`: 700 deployments. Six are busy: two connections are one that is idle or in the queue and one that is not; one process left
  behind forks no other but takes every address; two signals are a stop and what crosses it. `Transit = 1 < Grace = 2 = CallLimit < StopLimit = 3` keep the order of
  0.25 s, 30 s and 35 s where it matters. The others only start: every combination of `WEBSPEC_HOST`, families, addresses taken, keys and passed sockets that the code tells apart.
* `setup`: twelve hosts (fresh, of an earlier setup, of an older script, of today's on either kernel, with a drop-in), two names (a service, a direct site), two
  domains. Two runs are one that fails anywhere and one that must mend it, or finds nothing to do; one event of the others falls anywhere. A process takes and leaves ports without a bound.

### Fairness

`Invoke` assumes that a verification ends: each ssh-keygen has a timeout of 10 s. Of a call the code justifies less. `call_tool_mcp` has a timeout of
30 s, but `call_tool` also awaits the pool, which closes a stale client and connects (`pool.py:151-161`), and closes the client
after a timeout or an error (`pool.py:201-229`), all without one. So `EverythingSettles` says that no challenge stays marked, and that no key stays in flight
if those awaits end (`PoolAnswers`, a premise of the property and not part of `Fairness`). If one does not end, its key stays in flight until the record's age turns it unknown, after
`IN_FLIGHT_TTL`. `Pool` assumes of every await that it ends (weak fairness per worker), that the
poll loop keeps polling, and strong fairness of taking a lock, as `asyncio.Lock` is first in, first out.
The pool sets no timeout on connecting, listing and closing: there the assumption is about the server
and the transport, not about the code, and a server that never answers would hold its lock. No
fairness is assumed of requests, writes, failures or breaks.

`Container` assumes weak fairness of the init and of the gateway, which run when they can, of each connection that the event loop serves, of the network, of
time, and of the death of a process that was sent SIGKILL; of clients, of processes left behind and of signals nothing. `Setup` has safety properties only, and no fairness.

### Types

Each module states its type invariant, `TypeOK`. All of them are proved (`TypeCorrect`, `GuardTypeCorrect`, `AuditTypeCorrect`), so
the runs spend their time on the other properties. To check one with TLC too, add it to the run's `INVARIANTS`.

## 4. What is proved

All theorems are safety properties, for all values of the constants that the assumptions allow.

**`IdempotencyProofs`**, from `StoreAssumption` and `CallAssumption` (the limits are naturals, and a call ends
before `InFlightTTL + TTL + 1` seconds; the code has 900 s + 24 h against a call of 30 s and the pool's
connect and close, which have no timeout: the assumption is that they end within that day). None of the safety properties is inductive alone:
that a key is not granted twice needs that the record of an open call cannot expire, which needs
to know how old it is. `IInv` adds: `ClaimsBacked` (an open call's record is its own, and either in flight
and as old as the call, or `unknown` and younger than the call by more than `InFlightTTL`), `SettledOnly` (a
record without a call is settled, and its call ended no longer ago than its age),
`UnknownKept` (a key that ended `unknown` keeps its record for `TTL`) and `DoneIsAnswered`. `Invariance` proves `IInv`;
`TypeCorrect`, `MutualExclusion`, `CallsProtected`, `UnknownBlocks`, `ReplayCorrect` and `RefusalsJustified` follow from it.
So does the refinement, `AtMostOnceImplemented`: in a state with `IInv`, a lookup changes no phase (`LookedPhases`: `Current` is idempotent),
a granted claim is a `Grant` (`GrantedRoom`: one completed record at most is gone, and no open call's), a settlement is an `End`,
and a second is a `Lapse` (by `SettledOnly`, what can expire without a call is settled).
`NeverOverfull` bounds the store (`_make_room` drops one record when the store is full, so a claim adds none: a cardinality argument);
`RecordsKept` says of every step which record it may drop, and why.

**`LevelsProofs`** has the theorems of three components that share nothing, `Guard`, `Approval` and `Audit`, which is why the first and the last name
their own `GuardInit`, `AuditInit`, `GuardNext`, `AuditNext` and so on.

Of `Approval`, from `ApprovalAssumption`, for any number of handlers, challenges and requests, and for every TTL, time a verification takes, size of the
queue and number of failures. Three of its properties are part of the inductive invariant, `IInv`, and need what it adds: challenges not issued
yet are nowhere (`NotIssued`), an approved one carries an approver's signature of its own request (`ApprovedGenuine`), one
that is being verified, if it is still known, is marked, for its own request, by that verification alone (`OwnMark`), and a mark has a verification
(`MarkHasVerifier`). The last two are `MarkedWhileVerified` without `Cardinality`. `OneCallEach`, `CallsWitnessed`, `MarkIsOneVerification`,
and the action property `LiveKept` follow.

Of `Guard`, from the assumptions of `GuardNonces`, `Clearances` and `Guard`, for any `WaitLimit`. `PaysOnceInTime` is `PaysAgainOnlyLate`: a request that pays with a token which has paid
already waited for more than a second. Its invariant `PaidRemembered` says that a token which has paid is remembered as long as
it is in time, or a request that validated it has waited for a second at most. The run `guard_late` shows that the second time is possible. The
nonces' invariant is that those not issued yet are absent, fresh ones unused, and none older than `NonceTTL` and the time since the last cleanup (`AgesBounded`). `NoncesOnce`, `NoncesBounded`
and `NoncesKept` follow; `NoncesBounded` also needs that an operation finds less than `CleanupInterval` gone since a cleanup, its own at the latest.

Of `Audit`, from `AuditAssumption`, for any number of entries and files. `ChainHolds` is about the lines on disk, and a line is appended two steps after its `prev` was
taken, with renamings, failures and other parts' descriptors in between. So its invariant, `ChainInv`, says where the log's last line is at each moment: the file at the path is the newest (`PathNewest`);
the file that is open for an entry has no lines after it, though it may be no longer at the path (`OpenNewest`); the hash kept in `_state` is the
last line's (`StateIsLast`); and the entry being recorded follows the last line, unless its process has written none, and it begins a chain at the head
of a file (`PrevFollows`). A short write leaves a last line whose hash is not the entry's: what follows it follows nothing that `ChainHolds` asks about, which is why `PrevFollows` says
so of whole lines only. `ChainKept` is `ChainHolds`; `WrittenInOrder` gives `RotationTakes` (no entry begun after a rotation goes to a file that is no longer at the path: while an entry is written, the open file is
the one at the path, or the path was renamed since the entry was begun) and `AppendedLast` (no line is put before one that is there).

**`InvokeProofs`**, from `InvokeAssumption` and those of the stores, for any attempts, tools, tokens and challenges. Its invariant adds to the
types that each attempt is itself once (`OneEach`) and brings what its tool asks for (`AllBring`), that an attempt which verifies has marked its own
challenge (`Marked`), that an approved challenge is signed for its own request (`Signed`), and that ages are zero, as no clock runs. The steps are of
three kinds: those that touch no credential (`Passive`), those that end a call (`Ending`) and those that start one (`Starting`). So `CallsHoldAll` and
`OneShotImplemented`, the refinement of `OneShot`, need one lemma for each kind, and one lemma for each step says of which kind it is.
`ReplaysNeedNothing` is the action property on the early look.

**`RoutesProofs`**, from `RoutesAssumption` (finitely many tools; candidates, listings and overrides of their types). Lemmas on the operators of `Contracts` come first:
`Join` is stricter than both (`Tighter`), and an override that does not unmark keeps the order. `MapNarrows` and `ServedKeysKept`
rest on `IInv`: every map in force is `Sound` (each tool is where the route rule puts it under its contract, or at its full name; each open key is pinned to its one tool), its
contracts are the pins under the overrides of the last listing (`FromPins`), and what was served is pinned. Those two hold whatever `MovedIn` computes: wherever it
moves a tool, `Assemble` keeps its contract. `MapNarrows` states `RoutesAdmissible`, which no run asks, since it holds of every map that `Assemble` can make.

`FirstMapServesAll` (`FirstMapServes`) does need what the loop of `build` computes. It is a recursive function, and the library's induction theorems cannot be used here, so the
module proves its own, for sets in place of predicates: a set of naturals has a least element (`LeastNatural`, from the library's well-foundedness of `<`), hence `Induction`, hence that a
function can be iterated for ever (`Iterates`), hence that `MovedIn` is its rounds (`Rounds`). Each round but the last moves a tool that had not moved, so nothing
is left to move after as many rounds as there are tools (`GrowthEnds`, `MovesEnd`), and then no two tools share a key (`MovesPart`: of two that do,
one is not at its full name and could still move). `AllOpen` and `FirstRebuild` take that through `Assemble` and the rebuild that follows. `TypeCorrect` adds that a map's keys are
those the route rule can give.

`NoRugPull` is false of the code as it stands (`routes_unmarked`). What is true of it for all listings and overrides is `ListingsTighten`: `LoosenedOnlyUnmarked`, that
a listing loosens a contract only when its override unmarks the tool and its pin ceases to be read-only with this listing, and `MarksStayOff`, that a pin which is not
read-only never is again. So it happens once for each tool. `ListingTightens` brings the order on contracts through `Observe` and `Overridden`.

**`PoolProofs`**, `NothingStray`, for any number of requests, clients and writes. `NoStray` is inductive only with: one request connects at a time, and only
while nothing that is connected is pooled (`ConnectsAlone`, the init lock with its second look), which is why a new client never displaces
a live one; what a request has taken out of the pool, it is closing (`VictimsClosed`); and who awaits has read an entry (`EntryRead`).
`LastWriteApplies` is the safety half of `FileApplied`: once the last write has been looked at and read (`signature = writes`, and no reading under way), what applies is what the file says, if it can be
loaded. It would fail if `reload` took the signature after reading. `TypeCorrect` has one part that is more than a type: the clients that connected and the requests that
may still connect one (`MayConnect`) stay within `MaxClients`, so the bound never stops a request under way (`InBounds`, a cardinality argument).

**`SitesProofs`**, for any number of processes, services, domains and commands. Three layers:

* `SInv`, from `CtlAssumption` alone: `RunningIsDiskHolds`. `RunningIsDisk` speaks of the free lock only, so the invariant says what holds while a process
  has it: nobody else is inside (`LockHeld`), and Caddy runs each file as it was kept, if it was kept and not put back yet, and as it is on disk otherwise
  (`RunsWas`). That a write touches kept files only (`WritesKept`) and a restore puts all of them back (`LeftKept`) keeps it so. It needs no type
  invariant beyond the shape of the records (`Shape`).
* `TInv`, with the assumptions of `ConfigFile`, `SiteFiles` and `Sites`: `TypeCorrect`.
* `Alone`: as long as no two commands have overlapped, one runs at most, the file at the configuration's path is whole and says what the stage of the command's edit
  says it does (`EditAlone`), the files are as the command found them until its transaction (`CommandAlone`), and what the transaction has kept, has written and
  has yet to put back adds up to files that fit the services, those before or those to be (`TxAlone`, `Sound`). `WholeWhenAlone`, `OneDomainHolds` and
  `EntryHasBlockHolds` follow. What commands that overlap do to the first of them, the run `sites_torn` shows.

Each layer has a lemma for the steps outside the lock, those of its holder, and those that release it, then one for each step.

**`ContainerProofs`**, from `ContainerAssumption` and `ActivationAssumption` (what the text of `WEBSPEC_HOST` may be, which addresses there are), for any set of deployments. `DeployedStart`:
what the gateway found is always `Start` of its environment and of some free addresses (`Found`), and lemmas on the operators of
`Activation` say what `Start` can be. `PortIsHeld`: the invariant `Held` says that the port is bound before anything runs and until the gateway
is reaped, that nothing may be running when it is released, unless the init gave up, and that no socket of anyone else is where Caddy dials. Its key is
`HoldingKeeps`: with a socket at its address and one at the other family's wildcard, the init leaves no
address free that takes what Caddy sends. That needs no bound on the processes left behind, their forks or the signals.

`CallsKeptByStops`, from `DrainAssumption` too (the order of the limits: a call is on the wire for less than the grace, the grace and any call that ends take less
than the limit): `NoLostCall` is inductive with three facts about each connection. What is on its way will arrive within what is left of the grace, unless it is
late (`Arrives`: its age and the time left add up to more than `Transit`); what is open once the server closes is running and, if it ends at all and nobody paused the
gateway, is as old as the closing (`Outruns`: its age and the time left reach `StopLimit`); what is lost was lost fairly (`LostFairly`). The fourth, `SocketHeld`, is that a
service manager never gives its socket up; it needs that the unit of the gateway passes one (`ContainerAssumption`; `webspec-gateway.service` requires its socket).
`TypeCorrect` proves the types of both modules first, for the arithmetic.

**`SetupProofs`**, from `SetupAssumption` (what a host may look like when the first run begins) and `CaddyFilesAssumption`, for any machines, names, domains and
configurations, and any number of runs and of events beside them. The properties speak of the end of a run, or of the time between two, so none is inductive. Its invariant, `Inv`,
says what holds in between. The first five parts are of the files, the last two of the host:

* `StageInv`: up to the copy, `base` is what is on disk; a run that is under way is crossed only if files are torn; one that refused or put back left `base`.
* `WritesInv`: as long as no command came between, the files on disk are those of `base` with exactly the blocks that are written so far and without the entries that
  are gone so far (`Midway`), and from the check on all that the run was to write, and no other (`Written`). The set that each stage still has to go through (`LeftPlanned`) is what makes it inductive.
* `HostsInv`: the hosts that are owed are served by what is on disk, or by what would be put back, and by what will be written. `HostsKept` is its first line. The second
  look of `Apply` is what keeps it: without it, a service added since the plan is owed and not planned (the mutant `ApplyUnasked`).
* `DomainInv`: a run that was given no domain has the one recorded in `base`, unless a command gave another meanwhile. With `Written`, `DomainIsKept`.
* `UniformInv`, for `MisfitIsTold` alone, see below.
* `SocketsInv` and `UnitsInv`: who holds the ports at each stage of the switch, and that the tunnel is down while nobody does; that the switch runs only once the shipped
  unit is in place. `TunnelIsSafe` follows; a switch whose script has died goes on, so nothing in it may depend on the run.
* `RunsInv`: a run keeps the layout that it planned for this host, since a reboot ends it; what a good run left is running, and every file of it binds what systemd holds. `RunsEndWell`.

`MisfitIsTold` has a hypothesis on the first files, `Uniform`: beside the Caddyfile's own sockets no block binds any other. Nothing in `webspec-ctl` or the script breaks it, and the machines
of the run have it; but a block that somebody edited by hand for other sockets is neither refused nor reported, for `CaddyStatus` and the health check read the Caddyfile's only.

Only model-checked: liveness under fairness (`EverythingSettles`, `RequestsEnd`, `FileApplied`, `ContainerEnds`), which TLAPS cannot prove here. And
the four properties that the code violates have counterexamples, not proofs. No module uses RECURSIVE operators: what is recursive in the code is a recursive function, a fold or a step of its own.

## 5. What is not modelled

Cryptography (an HMAC or a signature is valid for what it was computed over), parsing and formatting,
sizes of bodies and of stored responses, CORS and response headers, the read-only handlers, the tool registry, the
gateway's own installers, building Caddy. Of the container: a connection that asyncio accepts while the drain closes its listener, a second SIGINT, docker's SIGKILL
after its stop timeout, and orphans that are only stopped. Of the setup: a unit file that is only half installed, a host without `ss`, and errors of the file system
while `webspec-ctl` runs (`Sites` has those). Reasons are in `PROJECT.json` under `components`. Known consequences of
the code that no property states, since nothing promises otherwise:

* A concurrent duplicate whose key completes while it verifies its approval is refused for its
  spent clearance (403) rather than replayed; its next retry is replayed.
* A client of a removed service can come back into the pool when the removal falls into its connecting; it stays, unused, until the
  process ends or the service is added again.
* A request that fails late closes the client that is pooled by then, and so the calls of other requests on it.
* A challenge is looked at for its age before its verification only, and so can be spent up to 20 s after its 300 s.
* The pool keeps a connected client whatever entry it was made from: a modified entry applies once the old connection fails. The comment at `app.py:74` says otherwise.
* After a rotation and a restart the chain starts again at GENESIS (AU-4 allows it).

## 6. Plan

Done, in this order: idempotency (store, refinement, proofs), approval (proofs), guard (proofs), the commit (proofs), routes (proofs), registry and pool (proofs), audit (proofs),
configuration and sites (proofs), start, stop and the container's init (proofs), the setup of Caddy (proofs).

What is left:

1. `Setup` and `Sites` composed: the script's writes among the steps of a transaction, once the two share a lock.
2. `Catalog`: the tool registry's cached catalog, if its time to live turns out to hold more than one question.
