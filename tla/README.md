# dnsvard in TLA+

A verification project for `dnsvard`: TLA+ modules translated from the Go
source, TLC configurations that check them on small instances, and TLAPS proofs
that hold for every value of the constants.  `src/README.md` says what the
program does for its users; this file says how its parts work together, what of
them is modelled, and what has been checked and proved.

    cd tla
    tlc -workers 4 -config LifecycleSafe.cfg MCLifecycle.tla
    tlapm LifecycleProofs.tla

`PROJECT.json` lists the components, runs, mutants (a faulty version of a
definition for every property, which the run must refute), the source lines of
every definition, findings, hazards and theorems.

## 1. The system

`dnsvard` gives every development workspace (a git worktree with its
containers and processes) stable host names.  A daemon answers DNS queries for
the managed suffixes, proxies HTTP by host name and TCP by loopback address, and
rebuilds its tables whenever docker, a config or a lease changes.

| Component (files) | State | Operations | Meets |
|---|---|---|---|
| Daemon process (`cmd_daemon.go`, `daemon/lock.go`, `daemon/state.go`) | flock on `daemon.lock`, `daemon.pid`, the signal channel | start, bind, publish, SIGHUP, SIGTERM, unwind | commands through the PID file and signals; other daemons through the lock |
| Commands `daemon start/stop/restart`, `run` (`cmd_daemon.go`, `runtime_helpers.go`, `cmd_bootstrap.go`) | their reading of the PID file and of `ps` | list, signal, probe the lock, spawn, wait | the daemon; launchd or systemd |
| Service manager (`macos/launchd.go`, `linux/systemd_user.go`) | the unit and its process | install, bootout, respawn | daemon processes |
| Reconcile loop (`cmd_daemon.go`) | `effectiveCfg`, failure streak, health cache, last targets, state file | one pass per trigger | every other part of the daemon |
| Triggers (ticker, `docker events`, config watchers, SIGHUP, proxy errors) | bounded channels | send unless full | reconcile loop |
| Route build (`routes_build.go`, `routes/merge.go`) | none | discover, read leases, load configs, merge | docker, leases, allocator, configs |
| Docker provider (`docker/provider.go`) | watch statistics | `Discover` (ps, inspect), `Watch` | the docker CLI |
| DNS server (`dnsserver/`) | zones, records | `Set`, `SetManagedZones`, answer | loop, resolvers |
| HTTP router (`httprouter/`) | routes, breaker, server | `SetRoutes`, `Start`, `Stop`, serve | loop, self-healing, requests |
| TCP proxy (`tcpproxy/`) | listeners | `SetRoutes`, `Stop`, copy | loop |
| Self-healing (`cmd_daemon.go`) | cooldowns, failures and blocks per action, quarantine, burst counter | emit, mark, attempt; reset, repair, heal | router, service manager, resolver files |
| Resolver files (`resolver_state.go`, `loopback_sync.go`, `macos/resolver.go`, `linux/resolver_*.go`) | `/etc/resolver/*` or drop-ins, `resolver-sync-state.json` | ensure, match, remove, sync | loop, root helper, bootstrap |
| Leases (`runtimeprovider/`) | one JSON file | `Upsert`, `Remove`, `Active` | `run` processes, loop |
| Allocator (`allocator/`) | one JSON file, a cooldown per address | `Allocate`, `Release` | loop, root helper, commands |
| `dnsvard run` (`cmd_run*.go`) | child process group, lease | start, notify, escalate, remove | leases, daemon |
| Workspace commands (`cmd_process.go`) | none | select, signal, stop, remove, wait | docker, leases |
| Config (`config/`), watchers | files, fingerprints | `Load`, `Update` | loop |
| Bootstrap, uninstall, upgrade, doctor, completion | files they install | sequential commands | all of the above |

Hard behaviours, and the properties that make each part correct:

- **Daemon process.**  Any number of commands and daemons run at once, and every
  command decides on what it read a moment ago.  Correct: one daemon serves;
  `daemon.pid` names that one and no other; a command that reports a running
  daemon has found one in `daemon.pid` that served; nobody waits for the lock for
  ever.
- **Reconcile loop.**  The world changes while a pass reads it, triggers are
  dropped when a channel is full, docker events are lost while the stream is
  down, a pass can fail after it has changed some of the tables.  Correct: a
  workload that stays available stays reachable; the tables agree; they reach
  the state of the world; a daemon that cannot get there says so.
- **Resolver files.**  Three writers (daemon, root helper, bootstrap) share two
  kinds of files without a lock, and each decides on a cached view.  Correct: a
  needed file is not removed, drift is healed, files lead to the listener.
- **Self-healing.**  Counters with windows and cooldowns decide when to repair;
  a repair can fail half way.  Correct: an action is tried again in the end and
  not too often; a failed reset does not leave HTTP stopped.
- **Data plane (route build, docker, DNS, HTTP).**  Containers move between
  addresses while `docker ps` and `docker inspect` list them, maps are iterated
  in any order, requests and queries run across the replacement of the tables,
  and errors of former targets count later.  Correct: names lead to the workspace
  they stand for, whatever the order; a query is not refused half-way through a
  replacement; a target that answers is served again in the end.
- **Leases, allocator.**  Several processes rewrite one file.  Correct: no lease
  of a live process is lost, no address has two owners.
- **`dnsvard run`.**  Signals escalate while the child exits, starts others or is
  not yet known.  Correct: no child is left without anyone who knows of it, and a
  shutdown ends whatever the child ignores.
- **Workspace commands.**  What they chose was listed two docker calls before.
  Correct: they end what their target means and nothing that came since.
- **Bootstrap, uninstall, upgrade.**  Long sequences of steps on the system, of
  which each may fail, be cut off or meet another command.  Correct: what they
  report when they end well is true, whatever was left before; the executable is
  always a whole one.

Every place in the code where one of these can go wrong is a hazard in
`PROJECT.json`, with the properties that cover it or the module planned for it.

## 2. Modules

### Lifecycle (`Lifecycle.tla`, `LifecycleProofs.tla`)

One process per `p \in Pid`, one command at a time per `c \in Cli`.  `phase[p]`
is the position of a process in `runDaemonStartTo` / `runDaemonForegroundTo`:
listing and signalling other daemons (`booting`, `cleaning`), blocked in flock
(`waiting`), before and after the listeners are bound (`starting`, `bound`),
after `WritePID` (`published`), after `signal.Notify` (`serving`), then the
deferred calls from the last one back (`stopping`: `RemovePID`; `draining`: the
listeners and `ReleaseLock`).  A signal before `serving` kills the process
without its deferred calls; later it goes to a channel of one and is lost when
that is full.  A command is a record whose `step` names its next call; `restart`
runs the managed restart, then `directRestartPlan`, then the background start.
To read the PID file (`ReadPID`, or the end of a step that meets no other process)
and to ask whether the process in `cmd.pid` is alive (`Alive`) are different steps,
so that a daemon may end in between; so are readings of `ps` and of the lock.  A
process that has ended is `gone`, but the child of a background start is a zombie
as long as its command runs (`Unreaped`, by `cmd.child`), as nobody waits for it: it
is not in `ps`, and is `Alive` all the same.

`Patient` says whether the 2 s polls of a restart outlast a shutdown.  Safety is
checked with `Patient = FALSE`, where they give up at any time; the liveness runs
assume `TRUE`, as nothing can be promised when a shutdown takes longer than any
bound: there a poll ends (`PollEnds`) when its process has ended, or is not ending
at all.  `ServerOwnsPidFile` and `LivePidServes` do not depend on it.  `RestartVerified`
says what a restart that reports success knows (`FoundDaemon`): the process it read
had bound its servers.  That it still has is not so (section 4).

### Reconcile (`Reconcile.tla`, `ReconcileProofs.tla`)

The reconcile goroutine, with a step (`pc`) for every point at which the world
may have changed since: reload, build, DNS, HTTP, TCP, record.  Triggers are
counters bounded by `Capacity`, as sends to a full channel are dropped.  The
health cache holds probe results until they expire; `preserveLastHealthyHTTPRoutes`
is `Doubtful` and `Kept`.  `lasting` is a history variable: the hosts that a pass
has published and whose workload has been available ever since.

A service without a host name (`world.nameless`) makes `router.SetRoutes` refuse
every route: `RefuseHTTP` ends the pass with DNS changed and the router not, and
`refused` is a history variable of it, until the router has taken the routes of a
later pass (`Publish`).  What makes such a name is in Serving.  The error of
`table.Set` is left out, as `routes.Merge` has removed duplicate records.  Records of
the daemon's own workspace never change, and discovery reads the world in one step;
Serving has the two steps of it.

### ResolverSync (`ResolverSync.tla`, `ResolverProofs.tla`)

The world (configs and workloads), `effectiveCfg`, the sync file and its cached
signature, the resolver files, the helper between reading and applying, and
bootstrap's fast path between writing the sync file and touching the resolver
files.  The order of `Domain` is the order in which names sort, which decides
which domains a failing `EnsureResolver` leaves behind.  `cfg.domains` is reduced
to the config's own domain by `Begin`, as `config.Load` does, until `Build`.
Writing the sync file is one step; a reader of a half-written file gets a parse
error and skips its round.  `Platforms` says who applies the files: the root
helper (`macos`), or the Linux daemon itself with (`root`) or without (`user`)
the permission to write them.

### SelfHeal (`SelfHeal.tla`, `SelfHealProofs.tla`)

The proxy error handler (throttle, burst window, hold between escalations), the
reset of the HTTP router (cooldown, suppression after `MaxFails` failures, the tries
to listen) and as much of a pass as a reset depends on: the port of the reloaded
config and the routes published last.  Each limit of the code is a number of ticks
left, so `time.Now()` needs no absolute value; the constants `Throttle`,
`BurstWindow`, `BurstLimit`, `Cooldown`, `Block` and `Tries` keep the code's order
(2 s, 30 s, 6, 2 min, 5 min, 20).  The router is one that could start with the
daemon; otherwise `httpRouterEnabled` is false and no reset happens.  A port is
free, in use (`busy`), or one that the daemon may not have (`denied`: a privileged
one, an address that is not there).  A reset tries a busy port again and gives up on
a denied one at once (`StartFails`); it also ends where `router.Stop` fails
(`StopFails`).  The routes it restores are ones that the router has taken before, so
there `SetRoutes` does not fail, while in a pass it may (`Refuse`). Requests
accepted before `Stop` may still fail afterwards (`lingering`).  `Routes` are
opaque: which they are is the subject of Reconcile.

### Leases (`Leases.tla`, `LeasesProofs.tla`)

Every process that touches `runtime-leases.json`: `dnsvard run` commands (`Run`:
upsert when the child has started, remove after it has ended), the daemon's
route build (`Daemon`: `Active`), and `doctor`, `env` and `kill` (`Tool`).  A
writer loads, edits its copy, opens, writes and renames in steps of its own; all
share one temporary file, so `fd` says where a descriptor leads after renames,
and two writes into one file may leave it `Torn`.  A run stands for the command,
its child, its lease and the lease's id, and is used once.  `hosts` chooses
whether two runs claim the same name.  `BeginPass` is the part of a pass that
concerns leases; `Failed` is a parse error or a rename that another one came
before, as other disk errors are left out.  A child that ended is waited for in
the same step, since until then signal 0 reaches it as before.  `kill` chooses a
lease (`Kill`), whose process may have ended, signals it and removes the lease in
steps of their own.

`raced` is TRUE while rewritings under way have overlapped; `owed` are the leases
saved without an overlap since and not claimed by another run.

### RouteBuild and Serving (`RouteBuild.tla`, `Serving.tla`, `ServingProofs.tla`)

`RouteBuild` is what `buildRoutes` computes, as operators on a record of all it
reads (`view`): the config of every workspace, running services with their
addresses, quarantined targets, leases, addresses that accept connections.  A
host name is the sequence of its labels, so a pattern is a sequence of tokens and
a zone a suffix.  Where the code ranges over a map, the order is a parameter, and
the module that builds chooses any.  `Records` makes the DNS list and folds it
with `Merge`, `Build` adds HTTP routes, TCP routes and zones.  `Refused` says that
some route has no host name; `SetRoutes` then takes none of them.

`Serving` runs it.  A pass is `Begin` (reload, snapshot of the quarantine,
`docker ps`), `Inspect` (or `Removed`, where a listed container is gone and the
listing fails), then `SetZones`, `SetRecords` and `SetRoutes`, which apply the
health cache and `preserveLastHealthyHTTPRoutes`.  Beside it a client takes one
step of a query (`Ask`, `Allows`, `Lookup`) or of a request (`Admit`, `Forward`,
`Succeed`, `Fail`, `Report`) at a time; each of the router's and the table's
locks is held for one of these steps.  Breakers count by host and quarantines by
host and target, as in the code.  `steady` is a history variable of a query: its
name has had a record throughout.

The allocator is external to it: every workspace has an address of its own.  A
lease stands for its process, which listens as long as the lease is there.

### Commands (`Commands.tla`, `CommandsProofs.tla`)

`dnsvard run` from the start of its child to its return, with the steps at which
a signal, a crash or an error makes a difference: before `signal.Notify`, before
the lease is saved, during the waits for DNS, in the loop.  `phase` and `timer`
are `shutdownPhase` and `escalationTimer`; a group is the child and at most one
helper, which may leave it, and `doomed` says that SIGKILL has been sent to it.
A command reads the leases, lists ids, inspects, chooses, signals one lease and
one container after the other, each in a step of its own, while containers start,
stop, go, and come anew under a name that has become free.  `Filtered` (ps, rm)
and `ToSignal` (stop, kill) are the two functions that choose; `Means` is what
the help text promises, and `MayMean` adds what `rm container/<name>` takes as well,
the containers whose name begins with it.  Names and ids are sequences, as prefixes count.

### Executable, Upgrade and Install (`Executable.tla`, `Upgrade.tla`, `Install.tla`, `InstallProofs.tla`)

`Executable` is the abstract specification: the installed executable is a whole
release, `Replace` puts another release in its place in one step, an older one
only for a user who agreed, and only upgrades that overlap one another, or a
removal, may leave anything else.  `Upgrade` has the steps of `runUpgrade` and
`installBinary`: resolve, download, verify, open `dnsvard.new`, write, rename,
clean up.  `at` follows the file that a descriptor leads to when another upgrade
renames or removes it.  `Replaced` is the refinement, with

    installed <- exe, running <- Upgrading, mixed <- shared,
    willing <- the upgrades whose user agrees.

`Install` composes it with bootstrap and uninstall, one step per thing changed:
`Check` (the four indicators of the fast path), `StopExisting`, `Ensure` once per
domain, then the capability and its marker on Linux, the unit, the root helper on
macOS and the version file; uninstall takes them back in `uninstall`'s order.
Every step may fail, and then has done all, part or none of its effect; a command
may be killed between steps; the machine may reboot.  `root` is `sudo`, `flag` is
`-f` of bootstrap and `--remove` of uninstall.  The daemon is off, on, or on again
after a failure; only then does `AutoRepairDaemon` see that launchd has restarted
it, and repairs (`DaemonRepairs`).  `last` is what the last command reported, if it
ended well, without a warning and without having met another, or that the daemon
has repaired a complete installation.

## 3. Runs

| Run | Shows | Bounds |
|---|---|---|
| lifecycle_safe | one server, a PID file that names it, restart reports only of a process found alive that had bound its servers | 3 processes, 2 commands (start, restart, notify), a service manager, 1 fault |
| lifecycle_live | waiters are served, SIGTERM ends a daemon, a successful restart lasts | 3 processes, 1 command (start, stop, restart, abort), 1 fault |
| lifecycle_start | *violation*: `daemon start` stops the running daemon and refuses | 3 processes, 1 command |
| reconcile_safe | availability and health of the tables, agreement of DNS and router unless it refuses | 2 hosts, 2 upstreams, 2 changes of 8 kinds |
| reconcile_live | convergence with the ticker, convergence by notices alone, degradation that is reported | 1 host, 2 upstreams, 2 changes of 8 kinds |
| resolver_sync | macOS: files kept and converging; Linux with the daemon as root, not as a user: its own domain is healed | 2 domains, 2 addresses, 3 changes of 9 kinds |
| self_heal | a reset keeps the routes, survives a port in use for a moment, comes again while errors do | 2 route sets, 2 ports of 3 states, 2 changes, limits of 1 to 4 ticks |
| leases | one lease per name, no route after a return, nothing lost without an overlap | 2 runs of one or two workspaces, daemon, 1 tool, 1 kill of a run or use of a tool |
| serving | precedence of sources, names that lead to their workspace, answers during a replacement, a way back from quarantine | 2 worktrees with a service each (one with 2 addresses, one of them shared in time), 2 configs (one with another domain and without names for services), 1 client, 2 changes of 4 kinds, breaker at 1, quarantine at 2 |
| commands | nothing is ended but what is listed and the target may mean, no child is lost, a shutdown ends | 1 run, 1 command of 8 targets, 3 containers of which one takes another's name, 3 signals, 2 changes |
| install | reports are true; upgrade implements Executable | 3 commands or repairs, 2 at a time, 2 domains, versions 0 to 2, macOS and Linux, low port or not |
| install_repair | *violation*: the daemon's repair of its registration ends it for good | macOS, 1 command and its repair, 1 domain |

Why the bounds are enough: three processes are an old daemon, a new one and a third
that waits, and process ids are used again; two commands show every race between two
of them, and a daemon race needs no more than the two that want the lock.  Two hosts
and two upstreams let routes swap, and a second change can fall into every step of
the pass the first one caused; a service without a host name comes and goes, or
comes with another change of the routes.  `Capacity` is one for every channel, the
hardest value for coalescing.  Two domains are the one that is kept and the one that
comes or goes.  In SelfHeal a burst takes two counted errors, windows overlap in
every order the code allows (a burst window longer than the throttle, a cooldown
longer than a burst window, a suppression longer than the cooldown), and two changes
take a port and give it up again, or move to one that is denied.  Two runs, the
daemon and a tool are four writers of one file, more than the three that a torn file
or a stale rewriting needs.  In Serving a service with two addresses and one that
may take the first of them show stale targets and quarantines that hit the wrong
container; two configs move hosts and zones and name services or do not; one client
suffices since queries and requests only meet the pass and the counters, and a
breaker that opens at once and a quarantine after two errors show both ends of a
counter. In Commands a container, its successor under the same name and one whose
name begins with that name are what choosing and acting can confuse; three signals
pass through every phase, one of them when the channel is full.  In Install two
commands overlap and a third follows what they left; two domains let one resolver
file be missing; versions 0, 1 and 2 are a development build, an older and a newer
release.  Every pair of commands that follow one another, with an interruption at
any step of the first, is within the bound.  Symmetry is used only in runs without
liveness.

Fairness: every goroutine and process is scheduled (weak fairness of its steps);
a process blocked in flock is woken at some release (strong fairness of
`AcquireLock`); `select` picks among ready channels at random (strong fairness
of the receipts in `ResolverSync` and `SelfHeal`); expiry of caches and blocks is
the clock.  The 15 s ticker of the reconcile loop is a hypothesis of the
properties that need it (`WF_vars(Tick) /\ ...`), so that `NoticesSuffice` can do
without.  Users, containers, configs and docker owe nothing: a liveness property
says in its hypothesis what must not stay broken.  In Serving the ticker asks for
passes and every pass ends, the latter as `[]<>(pc = "idle")`; caches and
quarantines run out with the clock, while a breaker and clients owe nothing.  In
Commands the loop of a run goes on, its timer runs out, and a process that has been
sent SIGKILL ends.  Deadlock is checked except in commands, install and
install_repair, where all commands may be over.

## 4. Disagreements found

Shown by a run:

1. `daemon start` with a daemon running ends with none (`cmd_daemon.go:50`,
   `2126`): lifecycle_start.
2. The daemon's repair of its registration boots out the service it runs in, and
   may end before it has loaded it again (`platform/darwin.go:239`;
   `src/README.md:184`): install_repair.

Shown by TLC with other constants than those of the runs:

3. `docker_discovery_mode: optional` drops the routes of leases
   (`routes_build.go:174`; `src/README.md:376`): `LeasesServed` in Reconcile with
   `Modes = {"optional"}`.
4. Linux drift healing has no permission as a normal user, which the README says
   the daemon is there (`resolver_systemd.go:59`; `src/README.md:163`, `406`):
   `BaseHealed` in ResolverSync with `Platforms = {"user"}`.  The run has only the
   daemon of root, for which it holds.
5. A reset of the HTTP router that cannot listen leaves HTTP stopped, and no
   reset follows, as only requests ask for one (`cmd_daemon.go:1253`, `1867`;
   `src/README.md:188`): `HTTPReturns` in SelfHeal.  For a port in use that takes all
   20 tries.  Any other error, such as that of a privileged `http_port` in a reloaded
   config, ends the reset at the first one (`cmd_daemon.go:1880`), and an error of
   `Stop` before it (`cmd_daemon.go:1868`); hence the hypotheses of `HTTPRecovers`,
   which speaks of resets that have come to the start.
6. A pattern without `service` gives services an empty host name.  The README only
   says that such hosts are disabled (`src/README.md:243`), but the router refuses
   every list with one (`routes_build.go:289`, `router.go:55`), and neither HTTP nor
   TCP follows any change until the container is gone: `Reached` in Serving without
   `Named` in its hypothesis (`RoutesRefused`).  DNS follows meanwhile, so that the
   two differ: `RoutedResolves` in Reconcile without `~refused`.
7. `rm container/<name>` also removes containers whose name begins with it
   (`cmd_process.go:195`, `417`), though prefixes are for workspaces and have a flag
   (`cmd_process.go:547`, `630`): `EndsAsHelped` in Commands, which the run's
   `Invocations` violate by `RemoveByName`; `Meant` has the exception in its words.

Met while modelling:

Daemon and resolver files

- A restart may report success with no daemon left: the daemon it has read from
  `daemon.pid` may end before the report, and a daemon it has started itself and
  that has written its PID and ended answers `kill(0)` as a zombie, as nobody waits
  for it (`cmd_daemon.go:2157`, `runtime_helpers.go:31`); hence `FoundDaemon` in
  `RestartVerified`.
- The PID is published before signals are handled, so an early SIGHUP kills the
  daemon (`cmd_daemon.go:941`, `1271`); `lifecycle_live` leaves `notify` out.
- Linux drift healing knows the daemon's own domain only (`cmd_daemon.go:1135`);
  hence `BaseHealed` speaks of that domain.
- Bootstrap in another workspace replaces the sync file and the daemon does not
  notice (`cmd_bootstrap.go:121`, `cmd_daemon.go:964`); hence `Converges` excludes
  it and `lasting` is narrowed by it.
- Resolver files follow a `dns_listen` that needs a restart
  (`cmd_daemon.go:1175`); hence `Rebound` in `Converges` and `BaseHealed`.
- A reset listens on the reloaded `http_port`, although the log asks for a
  restart (`cmd_daemon.go:1114`, `1253`).

Routing

- Every pass forgets the failures counted so far (`cmd_daemon.go:1803`) and
  every counted proxy error asks for a pass, so a target that fails three times
  more than 2 s apart may never be quarantined.
- Hosts of a lease resolve to the daemon's own workspace address, whichever
  workspace the run is in (`routes_build.go:235`); hence `WorkspacesKept` leaves
  them out.
- Where a lease and a container claim one name, DNS prefers the lease by
  priority, while HTTP keeps the route that was appended last, the container's.
- `routes.Merge` lets an entry with an equal address keep the priority of the
  first one (`merge.go:40`).
- A project host without a workspace `master` or `main` goes to whichever comes out
  of a map first (`identity.go:212`); it may move at every pass.
- `preserveLastHealthyHTTPRoutes` may keep a name on an address which another
  container has taken (`cmd_daemon.go:1597`).
- The breaker counts by host: failures of requests to a former target, and of
  clients that went away, cut off a healthy one (`router.go:76`).
- Zones match by string suffix, without a dot before it (`table.go:142`).

Leases and commands

- Overlapping rewritings of the lease file lose leases: the later rename undoes
  the earlier change, and a `run` whose lease is lost never saves it again
  (`runtimeprovider/provider.go:33`); hence `owed` in `LeaseKept`.
- Two writers of the shared temporary file can leave it unparsable; from then
  on every load fails, no one saves, and route builds fail until the file is
  removed by hand (`runtimeprovider/provider.go:145`, `routes_build.go:226`).
- A `run` that loses the race for the rename kills its child although the other
  writer may have published its lease (`runtimeprovider/provider.go:149`,
  `cmd_run.go:162`).
- A signal between the start of the child and `signal.Notify` ends `run` and
  leaves the child without a lease; hence the exception in `Accounted`.
- A process that the child has left in its group outlives a return of `run`, and
  one that has left the group and kept an adapter's pipe keeps `run` from
  returning; hence the exception in `ShutdownEnds`.
- `rm ""`, `rm container/` and `rm workspace` select every container without
  `--yes`, which `all` asks for (`cmd_process.go:195`).
- For `stop` and `kill` a name and the prefix of an id count alike, and the first
  match in the listing wins.
- `stop` and `kill` signal the ids of stale leases, whose processes have ended.
- A failure of `docker stop` or `docker kill` returns before the daemon is
  notified, and an error of docker while waiting counts as "gone".

Bootstrap, uninstall and upgrade

- `EnsureSystemdResolvedResolver` writes the file and then restarts
  systemd-resolved.  If the restart fails or is cut off, every later call finds
  the file in order and restarts nothing, `bootstrap -f` and drift healing
  included (`resolver_systemd.go:37`); hence `active` is in `InstalledHolds` for
  macOS only.
- On Linux, bootstrap as root returns before the version is written, and so never
  takes the fast path (`cmd_bootstrap.go:27`).
- A crash between `setcap` and the marker, or an uninstall without root, which
  removes the marker with the state directory, leaves the capability for good.
- An upgrade loses the capability with the rename; the fast path does not look at
  it, and the marker, which names the old file, only draws a warning from
  uninstall; hence `CheckedHolds` says nothing of it.
- Upgrades at the same time share `dnsvard.new`: they may install a torn file,
  or the older of two releases; hence `mixed` in Executable.
- Uninstall ignores a `bootout` or `disable` that fails; the fast path of the next
  bootstrap looks at what is loaded, not at the files.  Hence `RemovedHolds` speaks
  of files, and `CheckedHolds` of what is loaded.
- An error of `UninstallDaemon` ends uninstall before everything else is removed,
  and every "removed ..." is printed whatever the step did.

## 5. Proofs

All theorems hold for every value of the constants that satisfies the modules'
assumptions; none bounds the number of processes, hosts, domains or changes.
Each rests on an inductive invariant and one lemma per action or group of
actions.

**Lifecycle.**  The safety properties are not inductive: that a published daemon
owns the file needs that nobody else is in a phase that writes or removes it,
hence that phases from `starting` on hold the lock, hence that a command's probe
and a daemon never hold it together.  `IInv` is `TypeOK` with `LockInv` (a process
in a holding phase has the lock, a command at `release` has it), `PidFileInv`
(`ServerOwnsPidFile`, and a process the file names is published or was killed),
`ReadInv` (a process that a command has read from the file had bound its servers, and
is past that or gone: ids are not reused while remembered) and `OpInv` (the steps of
stop belong to stop).  `OneServer`, `PidFileKept` and `PidFileTrusted` follow from it,
and `RestartChecked` from it and a case analysis of the steps that lead to `ok`.

**Reconcile.**  `IInv` is `TypeOK` with `TablesInv`, which relates `built`, `dns`
and `http` by the position of the pass: unless the router has refused, the tables
agree except at `http`, where `dns` already is the hosts of `built`;
`RoutedIffResolved` follows.
`LastingReached` (for `Modes = {"required"}`, where a build never returns fewer
routes than the world has) needs `LastingInv` as well: `lasting` is within `dns`
and the hosts of `http`, available in the world and, while a build waits to be
applied, within its hosts; so it also survives a refusal, which leaves `http` alone.
`SwitchedForBetter` is an action property that needs `TypeOK`
only: the one step that moves a host to another target applies
`preserveLastHealthyHTTPRoutes`, and what is not `Kept` had an old target that
was found failing or has a new one that was found answering.

**ResolverSync.**  `LastingInv`: `lasting` is within `kept`, which is within the
sync file and what the world needs, and within whatever the helper has read but
not applied.  It holds with bootstrap, since `kept` and `lasting` are what
bootstrap left.  `LastingKept` follows.

**SelfHeal.**  `IInv` is `TypeOK` with `ResetInv` and `RoutesKept`.  That failures
stay within their limit needs that a reset begins only with fewer than `MaxFails`
behind it, i.e. that `Remembered` forgets those of a suppression that is over; the
burst counter stays within its limit by `DetectedType`.  `RoutesKept` is kept by
every end of a reset, at `Stop`, at a try to listen or with success, and by a refusal.

**Leases.**  `OneLeasePerHost` needs that not only the file but the temporary file
and every copy in memory is disjoint (`DisjointInv`), since each may become the
file; a torn file is read by no one.  `ReturnHeeded` rests on `ReturnInv`: once a
run has given notice its child is gone, so `Active` drops its lease; until a pass
has succeeded, either a trigger is pending, or a pass is under way that does not
hold the lease, or the last one failed.  Both rest on `TypeInv`, which says what
each kind of writer may be doing. `LeaseKept` is not inductive.  `KeptInv` adds
`RaceInv` (unless rewritings have overlapped, at most one is under way), `ChildInv`
(whose lease is removed has lost its child, once kill has sent its signal),
`StartedInv` (nobody knows of a lease before its run has started) and `CopyInv` (the
copy in memory, the temporary file and the file of the one rewriting that is under
way hold every lease that is owed, but for those whose names it claims itself).
`OwedLeaseKept` and, with a case for the daemon's rename, `PassLeavesRouted` follow.

**Install.**  `UpgradeRefines` says that upgrades implement `Executable` whatever is
installed, removed, killed or rebooted beside them: every step is a step of the
abstract specification or changes nothing there.  The steps that matter are
`Write` and `Rename`.  The writing changes the executable only where another upgrade
has renamed the file being written, and a rename may put there what another has
written, so both need `UpgradeInv`: unless upgrades have met (`shared`), at most
one is under way, the executable is a release, the release it wants is one its
user agreed to or a newer one than the executable, it writes `dnsvard.new`
(`OnItsWay`), and that file holds the release when it is renamed.

`ReportsTruthful` is about the last step of a long procedure, so its invariant says
what the earlier ones have left.  `SetupInv` is types with three parts.
`CommandInv`: a process runs one command; one that is `alone` has met no other;
nothing counts as reported while a command runs.  `AchievedInv`: before each step
an alone command that has not warned finds done what its earlier steps promise
(`Installed(step)`, `Removed(step)`): nobody else acts beside it, as a repair of the
daemon, which boots its service out, ends `alone` like another command.
`SystemInv`: on macOS every resolver file is active, and only macOS has a root
helper.  A failure that is not fatal sets `warned`, a fatal one ends the command
without a report, a crash of the daemon changes nothing that a report is about,
and a reboot only what the fast path of bootstrap has checked.

**Commands.**  `AccountInv` is `Accounted` with the types of a run (`RunType`):
whoever leaves a run's lease behind or takes it away has sent SIGKILL to the group
first (`GroupKilled`) or has seen the child end, whatever has happened since it
was listed.  `ActInv` follows a command: what it has listed docker has known, what
it has chosen is among that and its target may mean it (`ChosenWell`), what it has
acted on was chosen.  As ids are never used again, a container that has taken the
name of a listed one has another id and is not acted on.  `LoopInv`: the escalation
timer runs exactly while there is a signal left to send.  `EndsWhatIsMeant` is
`Meant`: every command acts on listed containers only, and on those that its target
may mean (`MayMean`).  `EndsAsHelpSays` is `EndsAsHelped`, the help text alone, under
the hypothesis that nobody gives `rm` a single container without its prefix flag;
otherwise it is false (disagreement 7).

**Serving.**  `IInv` has a part for each piece of the data plane.  `BuiltInv` and
`TableInv`: the zones cover every name that has a record, those of the new build
from the moment its zones are published, so that a query that reads zones and
records across a replacement is not refused as long as its name keeps its record
(`SteadyInv`); `SteadyNamesAnswered` follows.  That a build's zones cover its records
(`RecordsCovered`) is a fact about patterns: every name they render is a suffix of
labels in front of the domain of its scope, and the domains of all scopes and leases
are zones.

`StrongestDecides` and `WorkspacesKeptApart` are about what a build computes, for
every order of the maps.  `Merge` is a fold that keeps what it has unless a rival
for another address has a higher priority, and it need not pick the strongest in
general: from a weak entry, a strong one for the same address (whose priority is not
taken over) and a strong one for another address, it picks the last.  That takes
three entries of which the second is stronger than the first.  A build has none
(`PartsNoComeback`): its strong entries stand before all weak ones, but for the
project hosts at the end, of which each occurs once. `MergeDecides` is the
induction.  `WorkspacesKeptApart` compares the two lists: an HTTP route that is not
a lease's goes to a container of the scope for which it was made, and there is a DNS
record of that name and scope; if the name has no other record, this is its record.

The model's lists come out of `FlattenSeq` and `SetToSeq` of the community modules
and its choices out of `Min` and `Max`.  Their definitions recur, so the file first
proves what is needed of them: that a definition by recursion over a number has the
values its equation gives (`RecursionExists`), by induction over sets of numbers
(`SetInduction`), which needs no operator parameter; what flattening a list contains
(`FlattenRange`); that `SetToSeq` lists a finite set.

Only model-checked: the liveness properties, as TLAPS proves neither liveness under
fairness nor ENABLED, and the two runs that show a violation.  Every invariant and
every safety action property that a run checks is a theorem.

## 6. Not modelled

- *Loopback allocator*: its addresses are given, one per workspace.  Its hazard
  (several processes with views of their own) is listed and planned.
- *Config files*: precedence, parsing, editing and the fingerprint watcher; a
  config loads or does not, and has the fields on which the other parts depend.
- *TCP connections*: listeners open and close, what is copied is not modelled.
- *dnsmasq*, the second resolver of Linux.
- Reuse of a process id that a file, lease or command still remembers; torn
  writes of state files other than leases and the executable; disk errors.
- The contents of unit files and of what adapters rewrite, record types and TTLs,
  what the normalisation of labels does to characters, doctor, status and env
  reports, completion, ownership under sudo: text or reads without a state.

## 7. Plan

1. *Lifecycle*, *Reconcile*, *ResolverSync*, *SelfHeal*, *Leases* with their
   proofs; *RouteBuild* and *Serving*, *Commands*, *Upgrade*, *Executable* and
   *Install* with their runs: done.
2. Proofs of every invariant and action property of the runs, Serving and Commands
   included: done.
3. `Allocator` over several processes, with an abstract `Ownership` (one owner per
   address), and `ConfigWatcher`.
4. Abstract `RouteView` (hosts served as a function of the world), with
   *Reconcile* shown to implement it.
