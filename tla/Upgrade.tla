------------------------------ MODULE Upgrade -------------------------------
(***************************************************************************)
(* `dnsvard upgrade`: it resolves a release, downloads and verifies it,    *)
(* writes it beside the executable, as dnsvard.new, and renames it.  There *)
(* is no lock, and all upgrades use the same dnsvard.new.                  *)
(* Source: cmd/dnsvard/cmd_upgrade.go.                                     *)
(*                                                                         *)
(* A file capability is lost when the file is written, and is not there on *)
(* a new one; bootstrap's marker of it names the inode and the digest.     *)
(***************************************************************************)
EXTENDS Naturals

CONSTANTS Release,   \* versions in their order; 0 is a build that has none
          Torn,      \* what is not a whole executable
          Gone,      \* no file
          Command

ASSUME ReleaseAssumption == Release \subseteq Nat /\ 0 \in Release
ASSUME TornAssumption ==
  /\ {Torn, Gone} \cap Release = {} /\ Torn # Gone
  /\ Gone \notin {"new", "exe"}

VARIABLES exe,       \* what is at the executable's path
          new,       \* what is at dnsvard.new
          capable,   \* the executable has cap_net_bind_service
          marker,    \* the marker of bootstrap: "none", it "holds" for this
                     \* very executable, or is one of "another"
          upg,       \* an upgrade: its step, whether its user agrees to an
                     \* older release, the release (it runs as, then
                     \* wants, then has), where the file is that it writes
          shared     \* the upgrades under way have met, history only

binary == <<exe, new, capable, marker>>
upgradeVars == <<binary, upg, shared>>

NoUpgrade == [step |-> "none", agrees |-> FALSE, rel |-> 0, at |-> Gone]

Upgrading == {p \in Command : upg[p].step # "none"}

UpgradeInit ==
  /\ exe \in Release
  /\ new = Gone
  /\ capable = FALSE
  /\ marker = "none"
  /\ upg = [p \in Command |-> NoUpgrade]
  /\ shared = FALSE

Do(p, u) == upg' = [upg EXCEPT ![p] = u]
EndUpgrade(p) == Do(p, NoUpgrade)
UpgradeGoto(p, step) == Do(p, [upg[p] EXCEPT !.step = step])

-----------------------------------------------------------------------------

(* A user agrees to an older release by naming it, or with --allow-downgrade. *)
BeginUpgrade(p) ==
  /\ exe \in Release
  /\ \E agrees \in BOOLEAN :
       Do(p, [NoUpgrade EXCEPT !.step = "resolve", !.agrees = agrees, !.rel = exe])
  /\ shared' = (Upgrading # {})
  /\ UNCHANGED binary

(* compareSemver; everything is newer than a build without a version. *)
Older(r, s) == r < s

(* enforceLatestDowngradePolicy *)
Accepts(p, r) == upg[p].agrees \/ ~Older(r, upg[p].rel)

(* The latest may be any release. *)
Resolve(p) ==
  /\ upg[p].step = "resolve"
  /\ \E r \in Release \ {0} :
       IF r = upg[p].rel \/ ~Accepts(p, r)
       THEN EndUpgrade(p)
       ELSE Do(p, [upg[p] EXCEPT !.step = "download", !.rel = r])
  /\ UNCHANGED <<binary, shared>>

Download(p) ==
  /\ upg[p].step = "download"
  /\ \E got \in {upg[p].rel, Torn} : Do(p, [upg[p] EXCEPT !.step = "verify", !.rel = got])
  /\ UNCHANGED <<binary, shared>>

(* The checksum, and the executable out of the archive. *)
Verify(p) ==
  /\ upg[p].step = "verify"
  /\ IF upg[p].rel # Torn THEN UpgradeGoto(p, "open") ELSE EndUpgrade(p)
  /\ UNCHANGED <<binary, shared>>

(* Mutation: the executable itself is written. *)
OpenInPlace(p) ==
  /\ upg[p].step = "open"
  /\ exe' = Torn /\ capable' = FALSE
  /\ Do(p, [upg[p] EXCEPT !.step = "write", !.at = "exe"])
  /\ UNCHANGED <<new, marker, shared>>

(* os.WriteFile creates dnsvard.new, or empties the one it finds. *)
Open(p) ==
  /\ upg[p].step = "open"
  /\ new' = Torn
  /\ Do(p, [upg[p] EXCEPT !.step = "write", !.at = "new"])
  /\ UNCHANGED <<exe, capable, marker, shared>>

Unmarked == IF marker = "none" THEN "none" ELSE "another"

(* Mutation: the file is not closed before it is renamed. *)
WriteUnclosed(p) ==
  /\ upg[p].step = "write"
  /\ LET at == upg[p].at
         alone == \A q \in Command : upg[q].at = at => q = p
     IN  \E d \in {upg[p].rel} \cup (IF alone THEN {} ELSE {Torn}) :
           \/ at = "new" /\ new' = d /\ UNCHANGED <<exe, capable, marker>>
           \/ at = "exe" /\ exe' = d /\ capable' = FALSE /\ marker' = Unmarked
              /\ UNCHANGED new
           \/ at = Gone /\ d # Torn /\ UNCHANGED binary
  /\ Do(p, [upg[p] EXCEPT !.step = "rename"])
  /\ UNCHANGED shared

(* Two that write one file at once may leave a mixture.  The file may have been
   renamed by the other one, or removed. *)
Write(p) ==
  /\ upg[p].step = "write"
  /\ LET at == upg[p].at
         alone == \A q \in Command : upg[q].at = at => q = p
     IN  \E d \in {upg[p].rel} \cup (IF alone THEN {} ELSE {Torn}) :
           \/ at = "new" /\ new' = d /\ UNCHANGED <<exe, capable, marker>>
           \/ at = "exe" /\ exe' = d /\ capable' = FALSE /\ marker' = Unmarked
              /\ UNCHANGED new
           \/ at = Gone /\ d # Torn /\ UNCHANGED binary
  /\ Do(p, [upg[p] EXCEPT !.step = "rename", !.at = Gone])
  /\ UNCHANGED shared

(* Whatever dnsvard.new is now.  The rename of no file, or without permission, fails. *)
Rename(p) ==
  /\ upg[p].step = "rename"
  /\ \/ /\ new # Gone
        /\ exe' = new /\ new' = Gone
        /\ capable' = FALSE /\ marker' = Unmarked
        /\ upg' = [q \in Command |->
                    IF q = p THEN [upg[q] EXCEPT !.step = "clean"]
                    ELSE [upg[q] EXCEPT !.at = IF @ = "new" THEN "exe" ELSE Gone]]
     \/ UpgradeGoto(p, "clean") /\ UNCHANGED binary
  /\ UNCHANGED shared

(* The deferred removal. *)
Clean(p) ==
  /\ upg[p].step = "clean"
  /\ new' = Gone
  /\ upg' = [q \in Command |->
              IF q = p THEN NoUpgrade
              ELSE [upg[q] EXCEPT !.at = IF @ = "new" THEN Gone ELSE @]]
  /\ UNCHANGED <<exe, capable, marker, shared>>

(* A download, a check or the writing fails, or the process is killed: what has been
   written stays. *)
UpgradeFails(p) ==
  /\ upg[p].step # "none"
  /\ EndUpgrade(p)
  /\ UNCHANGED <<binary, shared>>

UpgradeStep(p) ==
  \/ Resolve(p) \/ Download(p) \/ Verify(p) \/ Open(p)
  \/ Write(p) \/ Rename(p) \/ Clean(p) \/ UpgradeFails(p)

-----------------------------------------------------------------------------

File == Release \cup {Torn, Gone}

UpgradeTypeOK ==
  /\ {exe, new} \subseteq File
  /\ capable \in BOOLEAN /\ shared \in BOOLEAN
  /\ marker \in {"none", "holds", "another"}
  /\ upg \in [Command -> [step : {"none", "resolve", "download", "verify", "open", "write",
                                  "rename", "clean"},
                          agrees : BOOLEAN, rel : Release \cup {Torn},
                          at : {"new", "exe", Gone}]]
  /\ \A p \in Command : upg[p].at # Gone => upg[p].step = "write"
  /\ exe = Gone => ~capable

=============================================================================
