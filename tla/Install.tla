------------------------------ MODULE Install -------------------------------
(***************************************************************************)
(* The installation: `dnsvard bootstrap` on macOS and Linux, as root and   *)
(* not, `dnsvard uninstall`, and upgrades beside them.  Each is a sequence *)
(* of steps on the service manager, the resolver files, the capability of  *)
(* the executable and the state directory; any step may fail, and any      *)
(* command may be killed or meet others.                                   *)
(* Source: cmd/dnsvard/cmd_bootstrap.go, internal/macos/launchd.go,        *)
(* internal/linux/systemd_user.go, internal/platform.                      *)
(*                                                                         *)
(* What the daemon does with its lock and PID file is in Lifecycle, and    *)
(* resolver files of changing domains are in ResolverSync: here a daemon   *)
(* is up or not, and the domains stay.                                     *)
(***************************************************************************)
EXTENDS Upgrade

CONSTANTS Domains,     \* cfg.Domains
          Systems,     \* the operating systems considered
          MaxBegun     \* bound: commands that begin, and repairs

ASSUME SystemsAssumption ==
  Systems \subseteq {"macOS", "Linux"} /\ MaxBegun \in Nat

VARIABLES os, lowPort, \* the system, and whether http_port needs a capability
          unit,        \* the file of the daemon's launch agent or unit
          service,     \* it is loaded by launchd, or enabled
          daemon,      \* the daemon is "off", "on", or "on again" after it failed
          agent,       \* the root helper, macOS: its file, and whether loaded
          files,       \* domains with a resolver file
          active,      \* those the system's resolver has read
          version,     \* the file with the version of the bootstrap
          cmd,         \* a bootstrap or an uninstall
          begun,       \* commands and repairs so far, for the bound
          last         \* what a command has reported since which no other has
                       \* begun, or that the daemon has repaired, history only

platform == <<os, lowPort>>
managed == <<unit, service, daemon>>
resolver == <<files, active>>
setup == <<managed, agent, resolver, version>>
history == <<begun, last>>
vars == <<platform, setup, upgradeVars, cmd, history>>

NoCommand == [step |-> "none", root |-> FALSE, flag |-> FALSE,
              warned |-> FALSE, alone |-> FALSE]

MacOS == os = "macOS"
Linux == os = "Linux"
Up == daemon # "off"

Init ==
  /\ UpgradeInit
  /\ os \in Systems /\ lowPort \in {FALSE} \cup (IF Linux THEN {TRUE} ELSE {})
  /\ unit = FALSE /\ service = FALSE /\ daemon = "off"
  /\ agent = [file |-> FALSE, loaded |-> FALSE]
  /\ files = {} /\ active = {}
  /\ version = FALSE
  /\ cmd = [p \in Command |-> NoCommand]
  /\ begun = 0 /\ last = "none"

-----------------------------------------------------------------------------
(* Steps of commands                                                       *)

Idle(p) == cmd[p].step = "none" /\ upg[p].step = "none"
At(p, step) == cmd[p].step = step

Set(p, c) == cmd' = [cmd EXCEPT ![p] = c]
Goto(p, step) == Set(p, [cmd[p] EXCEPT !.step = step])
GotoWarned(p, step) == Set(p, [cmd[p] EXCEPT !.step = step, !.warned = TRUE])

(* The command ends with an error. *)
Fail(p) == Set(p, NoCommand)

(* The command ends well. *)
Report(p, what) ==
  /\ Set(p, NoCommand)
  /\ UNCHANGED begun
  /\ last' = IF cmd[p].alone /\ ~cmd[p].warned THEN what ELSE "none"

NewCommand(p) ==
  /\ Idle(p)
  /\ begun < MaxBegun /\ begun' = begun + 1
  /\ last' = "none"

(* No other command counts as alone any more.  An executable that is torn runs no
   command. *)
Begin(p) ==
  /\ NewCommand(p) /\ exe \in Release
  /\ \E op \in {"bootstrap", "uninstall"}, root, flag \in BOOLEAN :
       LET alone == \A q \in Command : Idle(q)
       IN  cmd' = [q \in Command |->
                    IF q # p THEN [cmd[q] EXCEPT !.alone = FALSE]
                    ELSE [NoCommand EXCEPT !.step = IF op = "bootstrap" THEN "check" ELSE "end",
                                           !.root = root, !.flag = flag, !.alone = alone]]
  /\ UNCHANGED <<platform, setup, upgradeVars>>

Upgrades(p) ==
  \/ /\ NewCommand(p) /\ BeginUpgrade(p)
     /\ cmd' = [q \in Command |-> [cmd[q] EXCEPT !.alone = FALSE]]
     /\ UNCHANGED <<platform, setup>>
  \/ UpgradeStep(p) /\ UNCHANGED <<platform, setup, cmd, history>>

Killed(p) ==
  /\ ~At(p, "none")
  /\ Set(p, NoCommand)
  /\ UNCHANGED <<platform, setup, upgradeVars, history>>

-----------------------------------------------------------------------------
(* The daemon and the system                                               *)

(* It listens on http_port or ends at once. *)
MayServe == exe \in Release /\ (Linux /\ lowPort => capable)

DaemonStarts ==
  /\ service /\ ~Up
  /\ MacOS \/ unit
  /\ MayServe
  /\ daemon' \in {"on"} \cup (IF MacOS THEN {"on again"} ELSE {})
  /\ UNCHANGED <<platform, unit, service, agent, resolver, version, upgradeVars, cmd, history>>

DaemonDies ==
  /\ Up
  /\ daemon' = "off"
  /\ UNCHANGED <<platform, unit, service, agent, resolver, version, upgradeVars, cmd, history>>

(* AutoRepairDaemon, every 15 s: launchd shows that the service has failed before,
   and the daemon boots itself out to install itself again, if it still can. *)
DaemonRepairs ==
  /\ daemon = "on again" /\ service
  /\ daemon' = "off"
  /\ \/ service' = FALSE /\ UNCHANGED unit
     \/ UNCHANGED service /\ unit' = TRUE
  /\ cmd' = [p \in Command |-> [cmd[p] EXCEPT !.alone = FALSE]]
  /\ begun < MaxBegun /\ begun' = begun + 1
  /\ last' = IF last \in {"installed", "checked"} THEN "repaired" ELSE "none"
  /\ UNCHANGED <<platform, agent, resolver, version, upgradeVars>>

(* Commands are gone, and the files that are there count. *)
Reboot ==
  /\ daemon' = "off"
  /\ service' = (unit /\ (MacOS \/ service))
  /\ agent' = [agent EXCEPT !.loaded = agent.file]
  /\ active' = files
  /\ cmd' = [p \in Command |-> NoCommand]
  /\ upg' = [p \in Command |-> NoUpgrade]
  /\ last' = IF last = "checked" THEN "none" ELSE last
  /\ UNCHANGED <<platform, unit, files, version, binary, shared, begun>>

-----------------------------------------------------------------------------
(* bootstrap                                                               *)

(* Mutation: the root helper is not looked at. *)
HealthyDaemon(p) ==
  /\ version
  /\ IF MacOS THEN service ELSE ~cmd[p].root /\ service
  /\ Up

(* bootstrapHammerReason.  As root, `systemctl --user status` asks the wrong
   user's manager. *)
Healthy(p) ==
  /\ version
  /\ MacOS => agent.loaded
  /\ IF MacOS THEN service ELSE ~cmd[p].root /\ service
  /\ Up

(* On Linux the daemon that runs may not be the unit's, which then is not active. *)
Check(p) ==
  /\ At(p, "check")
  /\ \/ ~cmd[p].flag /\ Healthy(p) /\ Goto(p, "fast")
     \/ (cmd[p].flag \/ ~Healthy(p) \/ Linux) /\ Goto(p, "stop")
  /\ UNCHANGED <<platform, setup, upgradeVars, history>>

(* The DNS port is taken while a daemon runs.  StopDaemon is a best effort: launchd
   starts again what it still has loaded, and after 3 s bootstrap gives up. *)
StopExisting(p) ==
  /\ At(p, "stop")
  /\ \/ ~Up /\ Goto(p, "resolve") /\ UNCHANGED managed
     \/ /\ Up
        /\ daemon' = "off"
        /\ service' = (service /\ Linux)
        /\ Goto(p, "resolve")
        /\ UNCHANGED unit
     \/ /\ Up
        /\ service' \in {service, service /\ Linux}
        /\ Fail(p)
        /\ UNCHANGED <<unit, daemon>>
  /\ UNCHANGED <<platform, agent, resolver, version, upgradeVars, history>>

(* reconcileResolvers, one domain at a time.  On Linux systemd-resolved is restarted
   only after a file has been written: if that fails, the file stays. *)
Ensure(p) ==
  /\ cmd[p].step \in {"fast", "resolve"}
  /\ cmd[p].root
  /\ \E d \in Domains \ files :
       \/ /\ files' = files \cup {d}
          /\ active' = IF Linux THEN files' ELSE active \cup {d}
          /\ UNCHANGED cmd
       \/ /\ files' \in {files, IF Linux THEN files \cup {d} ELSE files}
          /\ UNCHANGED active
          /\ Fail(p)
  /\ UNCHANGED <<platform, managed, agent, version, upgradeVars, history>>

(* Without root a missing file is an error, only a warning on Linux. *)
Resolved(p) ==
  /\ At(p, "resolve")
  /\ files = Domains \/ ~cmd[p].root
  /\ IF files = Domains THEN Goto(p, IF MacOS THEN "unit" ELSE "capability")
     ELSE IF Linux THEN Set(p, [cmd[p] EXCEPT !.step = "capability", !.warned = TRUE])
     ELSE Fail(p)
  /\ UNCHANGED <<platform, setup, upgradeVars, history>>

(* The fast path ends here. *)
FastReport(p) ==
  /\ At(p, "fast")
  /\ files = Domains \/ ~cmd[p].root
  /\ \/ files = Domains /\ Report(p, "checked")
     \/ files # Domains /\ Fail(p) /\ UNCHANGED history
  /\ UNCHANGED <<platform, setup, upgradeVars>>

AfterCapability(p) == IF cmd[p].root THEN "user" ELSE "unit"

(* ensurePrivilegedHTTPBindCapability up to setcap: a capability that is there is
   taken as it is, with or without a marker. *)
SetCapability(p) ==
  /\ At(p, "capability")
  /\ \/ (lowPort => capable) /\ Goto(p, AfterCapability(p)) /\ UNCHANGED capable
     \/ lowPort /\ ~capable /\ Fail(p) /\ UNCHANGED capable
     \/ /\ lowPort /\ ~capable /\ cmd[p].root /\ exe # Gone
        /\ capable' = TRUE
        /\ Goto(p, "marker")
  /\ UNCHANGED <<platform, setup, exe, new, marker, upg, shared, history>>

WriteMarker(p) ==
  /\ At(p, "marker")
  /\ \/ exe # Gone /\ marker' = "holds" /\ Goto(p, AfterCapability(p))
     \/ Fail(p) /\ UNCHANGED marker
  /\ UNCHANGED <<platform, setup, exe, new, capable, upg, shared, history>>

(* Linux as root: `daemon stop` and `daemon restart` as the user.  If systemd
   fails, the restart starts a daemon itself and warns.  No version is written. *)
UserPass(p) ==
  /\ At(p, "user")
  /\ \/ /\ MayServe
        /\ unit' = TRUE /\ service' = TRUE /\ daemon' = "on"
        /\ Report(p, "installed")
     \/ /\ MayServe
        /\ unit' \in {unit, TRUE} /\ daemon' = "on"
        /\ Fail(p)
        /\ UNCHANGED <<service, history>>
     \/ /\ unit' \in {unit, TRUE} /\ daemon' = "off"
        /\ Fail(p)
        /\ UNCHANGED <<service, history>>
  /\ UNCHANGED <<platform, agent, resolver, version, upgradeVars>>

InstallUnit(p) ==
  /\ At(p, "unit")
  /\ \/ unit' = TRUE /\ Goto(p, "load")
     \/ Fail(p) /\ UNCHANGED unit
  /\ UNCHANGED <<platform, service, daemon, agent, resolver, version, upgradeVars, history>>

(* launchctl bootout if it is loaded, bootstrap, kickstart; or systemctl enable --now. *)
LoadUnit(p) ==
  /\ At(p, "load")
  /\ \/ /\ service' = TRUE
        /\ IF MacOS THEN daemon' = "off" ELSE UNCHANGED daemon
        /\ Goto(p, IF MacOS THEN "agent" ELSE "version")
     \/ /\ Fail(p)
        /\ \/ UNCHANGED <<service, daemon>>
           \/ MacOS /\ service' \in BOOLEAN /\ daemon' = "off"
  /\ UNCHANGED <<platform, unit, agent, resolver, version, upgradeVars, history>>

InstallAgent(p) ==
  /\ At(p, "agent")
  /\ \/ cmd[p].root /\ agent' = [agent EXCEPT !.file = TRUE] /\ Goto(p, "loadagent")
     \/ cmd[p].root /\ Fail(p) /\ UNCHANGED agent
     \/ ~cmd[p].root /\ Fail(p) /\ UNCHANGED agent
  /\ UNCHANGED <<platform, managed, resolver, version, upgradeVars, history>>

LoadAgent(p) ==
  /\ At(p, "loadagent")
  /\ \/ agent' = [agent EXCEPT !.loaded = TRUE] /\ Goto(p, "version")
     \/ agent' \in {[agent EXCEPT !.loaded = l] : l \in BOOLEAN} /\ Fail(p)
  /\ UNCHANGED <<platform, managed, resolver, version, upgradeVars, history>>

(* Whether the daemon comes up within 2 s makes no difference. *)
WriteVersion(p) ==
  /\ At(p, "version")
  /\ version' \in {version, TRUE}
  /\ Report(p, "installed")
  /\ UNCHANGED <<platform, managed, agent, resolver, upgradeVars>>

-----------------------------------------------------------------------------
(* uninstall                                                               *)

EndDaemon(p) ==
  /\ At(p, "end")
  /\ \/ /\ daemon' = "off"
        /\ service' = (service /\ Linux)
        /\ Goto(p, "rmunit")
        /\ UNCHANGED unit
     \/ /\ Up
        /\ service' \in {service, service /\ Linux}
        /\ GotoWarned(p, "rmunit")
        /\ UNCHANGED <<unit, daemon>>
  /\ UNCHANGED <<platform, agent, resolver, version, upgradeVars, history>>

(* UninstallDaemon, the one step whose failure ends the command.  Whether bootout
   or disable has worked is not looked at. *)
RemoveUnit(p) ==
  /\ At(p, "rmunit")
  /\ \/ service' = FALSE /\ daemon' = "off"
     \/ UNCHANGED <<service, daemon>>
  /\ \/ unit' = FALSE /\ Goto(p, "rmagent")
     \/ unit' \in (IF Linux THEN {unit, FALSE} ELSE {unit}) /\ Fail(p)
  /\ UNCHANGED <<platform, agent, resolver, version, upgradeVars, history>>

RemoveAgent(p) ==
  /\ At(p, "rmagent")
  /\ \/ Linux /\ Goto(p, "rmresolvers") /\ UNCHANGED agent
     \/ /\ MacOS /\ cmd[p].root
        /\ \/ agent' = [file |-> FALSE, loaded |-> FALSE] /\ Goto(p, "rmresolvers")
           \/ agent' = [agent EXCEPT !.file = FALSE] /\ Goto(p, "rmresolvers")
           \/ agent' = [agent EXCEPT !.loaded = FALSE] /\ GotoWarned(p, "rmresolvers")
     \/ /\ MacOS /\ ~cmd[p].root
        /\ GotoWarned(p, "rmresolvers")
        /\ UNCHANGED agent
  /\ UNCHANGED <<platform, managed, resolver, version, upgradeVars, history>>

(* Each managed file, and a warning for each that stays. *)
RemoveResolvers(p) ==
  /\ At(p, "rmresolvers")
  /\ \/ /\ cmd[p].root \/ files = {}
        /\ files' = {} /\ active' = {}
        /\ Goto(p, "rmversion")
     \/ /\ files' \in IF cmd[p].root THEN SUBSET files ELSE {files}
        /\ active' \in {active, active \cap files'}
        /\ GotoWarned(p, "rmversion")
  /\ UNCHANGED <<platform, managed, agent, version, upgradeVars, history>>

RemoveVersion(p) ==
  /\ At(p, "rmversion")
  /\ \/ version' = FALSE /\ Goto(p, "revoke")
     \/ GotoWarned(p, "revoke") /\ UNCHANGED version
  /\ UNCHANGED <<platform, managed, agent, resolver, upgradeVars, history>>

(* validatePrivilegedBindMarker: the inode and the digest are those at the path. *)
MarkerHolds == exe # Gone /\ marker = "holds"

(* maybeRevokePrivilegedHTTPBindCapability.  Without root, or without setcap, nothing
   happens, and nothing is said. *)
Revoke(p) ==
  /\ At(p, "revoke")
  /\ \/ /\ cmd[p].root /\ MarkerHolds
        /\ capable' \in {FALSE, capable}
        /\ Goto(p, "rmstate")
        /\ UNCHANGED marker
     \/ /\ ~cmd[p].root \/ marker = "none"
        /\ Goto(p, "rmstate")
        /\ UNCHANGED <<capable, marker>>
     \/ /\ cmd[p].root /\ exe = Gone
        /\ marker' = "none"
        /\ Goto(p, "rmstate")
        /\ UNCHANGED capable
     \/ /\ cmd[p].root /\ marker # "none"
        /\ GotoWarned(p, "rmstate")
        /\ UNCHANGED <<capable, marker>>
  /\ UNCHANGED <<platform, setup, exe, new, upg, shared, history>>

RemoveState(p) ==
  /\ At(p, "rmstate")
  /\ \/ version' = FALSE /\ marker' = "none" /\ Goto(p, "rmbinary")
     \/ version' \in {version, FALSE} /\ marker' \in {marker, "none"} /\ GotoWarned(p, "rmbinary")
  /\ UNCHANGED <<platform, managed, agent, resolver, exe, new, capable, upg, shared, history>>

(* --remove *)
RemoveBinary(p) ==
  /\ At(p, "rmbinary")
  /\ \/ /\ cmd[p].flag
        /\ exe' = Gone /\ capable' = FALSE
        /\ shared' = (shared \/ Upgrading # {})
        /\ upg' = [q \in Command |-> [upg[q] EXCEPT !.at = IF @ = "exe" THEN Gone ELSE @]]
     \/ UNCHANGED <<exe, capable, upg, shared>>
  /\ Report(p, "removed")
  /\ UNCHANGED <<platform, setup, new, marker>>

-----------------------------------------------------------------------------

Bootstrap(p) ==
  \/ Check(p) \/ StopExisting(p) \/ Ensure(p) \/ Resolved(p) \/ FastReport(p)
  \/ SetCapability(p) \/ WriteMarker(p) \/ UserPass(p) \/ InstallUnit(p)
  \/ LoadUnit(p) \/ InstallAgent(p) \/ LoadAgent(p) \/ WriteVersion(p)

Uninstall(p) ==
  \/ EndDaemon(p) \/ RemoveUnit(p) \/ RemoveAgent(p) \/ RemoveResolvers(p)
  \/ RemoveVersion(p) \/ Revoke(p) \/ RemoveState(p) \/ RemoveBinary(p)

Next ==
  \/ \E p \in Command :
       \/ Begin(p) \/ Upgrades(p) \/ Bootstrap(p) \/ Uninstall(p) \/ Killed(p)
  \/ DaemonStarts \/ DaemonDies \/ DaemonRepairs
  \/ Reboot

Spec == Init /\ [][Next]_vars

-----------------------------------------------------------------------------

(* Every variable has its type, and a command is at a step of its operation. *)
TypeOK ==
  /\ UpgradeTypeOK
  /\ os \in Systems /\ {lowPort, unit, service, version} \subseteq BOOLEAN
  /\ daemon \in {"off", "on", "on again"}
  /\ agent \in [file : BOOLEAN, loaded : BOOLEAN]
  /\ active \subseteq Domains /\ files \subseteq Domains
  /\ \A p \in Command :
       /\ {cmd[p].root, cmd[p].flag, cmd[p].warned, cmd[p].alone} \subseteq BOOLEAN
       /\ upg[p].step # "none" => cmd[p] = NoCommand
  /\ \A p, q \in Command : cmd[p].alone => p = q \/ Idle(q)
  /\ begun \in 0..MaxBegun
  /\ last \in {"none", "installed", "checked", "removed", "repaired"}

(* "bootstrap complete", after a full one: whatever an earlier command that has
   failed, been killed or met an upgrade has left, everything is installed. *)
InstalledHolds ==
  last = "installed" =>
    /\ unit /\ service
    /\ files = Domains
    /\ MacOS => agent.file /\ agent.loaded /\ active = Domains
    /\ Linux /\ lowPort => capable

(* "bootstrap complete", where bootstrap has found a healthy installation and has
   installed nothing. *)
CheckedHolds ==
  last = "checked" => service /\ files = Domains /\ (MacOS => agent.loaded)

(* "uninstall complete", without a warning. *)
RemovedHolds ==
  last = "removed" => ~unit /\ ~agent.file /\ files = {} /\ ~version /\ marker = "none"

(* What bootstrap and uninstall report when they end well, and have been alone, holds
   until the next command or repair, also over crashes of the daemon and reboots. *)
Truthful == InstalledHolds /\ CheckedHolds /\ RemovedHolds

(* upgrade implements the abstract specification: the executable is whole and is
   replaced at once, by an older release only where a user agrees. *)
Promised == INSTANCE Executable WITH
  installed <- exe,
  running <- Upgrading,
  willing <- {p \in Upgrading : upg[p].agrees},
  mixed <- shared

Replaced == Promised!Spec

(* Violated (install_repair).  `dnsvard` heals issues by component and always reports
   an explicit repair path, README.md:184: where the daemon of a complete
   installation has repaired its registration, the service is loaded.  The repair
   unloads it, and itself. *)
Supervised == last = "repaired" => service

=============================================================================
