---------------------------- MODULE InstallProofs ----------------------------
(***************************************************************************)
(* Installation for any commands, domains and releases: types, that upgrade*)
(* implements Executable, and what bootstrap and uninstall report.         *)
(***************************************************************************)
EXTENDS Install, TLAPS

(* What the steps of upgrades rely on: an upgrade that has met no other one and no
   removal has the executable to itself, its dnsvard.new holds what it has
   downloaded when it renames it, and the release it wants is one it may install. *)
Wanted(p) ==
  /\ upg[p].rel \in Release
  /\ upg[p].agrees \/ upg[p].rel > exe

OnItsWay(p) ==
  /\ upg[p].step = "resolve" => upg[p].rel = exe
  /\ upg[p].step \in {"download", "open", "write", "rename"} => Wanted(p)
  /\ upg[p].step = "verify" /\ upg[p].rel # Torn => Wanted(p)
  /\ upg[p].step = "write" => upg[p].at = "new"
  /\ upg[p].step = "rename" => new = upg[p].rel

UpgradeInv ==
  /\ UpgradeTypeOK
  /\ ~shared => /\ \A p, q \in Upgrading : p = q
                /\ \A p \in Upgrading : exe \in Release /\ OnItsWay(p)

LEMMA InitUpgradeInv == Init => UpgradeInv
<1> SUFFICES ASSUME Init PROVE UpgradeInv
  OBVIOUS
<1>1. UpgradeTypeOK
  BY ReleaseAssumption, TornAssumption
  DEF Init, UpgradeInit, UpgradeTypeOK, File, NoUpgrade
<1>2. Upgrading = {}
  BY DEF Init, UpgradeInit, Upgrading, NoUpgrade
<1>3. QED
  BY <1>1, <1>2 DEF UpgradeInv

LEMMA BeginUpgradeInv ==
  ASSUME UpgradeInv, NEW p \in Command, upg[p].step = "none", BeginUpgrade(p)
  PROVE  UpgradeInv'
<1>1. PICK agrees \in BOOLEAN :
        upg' = [upg EXCEPT ![p] = [step |-> "resolve", agrees |-> agrees, rel |-> exe, at |-> Gone]]
  BY DEF BeginUpgrade, Do, NoUpgrade
<1>2. UpgradeTypeOK'
  BY <1>1, TornAssumption DEF UpgradeInv, UpgradeTypeOK, BeginUpgrade, binary
<1>3. Upgrading' = Upgrading \cup {p}
  BY <1>1 DEF Upgrading, UpgradeInv, UpgradeTypeOK
<1>4. ASSUME ~shared'
      PROVE  Upgrading' = {p} /\ exe' \in Release /\ OnItsWay(p)'
  BY <1>1, <1>3, <1>4 DEF BeginUpgrade, binary, OnItsWay, UpgradeInv, UpgradeTypeOK
<1>5. QED
  BY <1>2, <1>4 DEF UpgradeInv

UpgradeRecord ==
  [step : {"none", "resolve", "download", "verify", "open", "write", "rename", "clean"},
   agrees : BOOLEAN, rel : Release \cup {Torn}, at : {"new", "exe", Gone}]

UpgradesType ==
  /\ upg \in [Command -> UpgradeRecord]
  /\ \A p \in Command : upg[p].at # Gone => upg[p].step = "write"

FilesType ==
  /\ {exe, new} \subseteq File
  /\ capable \in BOOLEAN /\ shared \in BOOLEAN
  /\ marker \in {"none", "holds", "another"}
  /\ exe = Gone => ~capable

LEMMA UpgradeTypes == UpgradeTypeOK <=> FilesType /\ UpgradesType
  BY DEF UpgradeTypeOK, FilesType, UpgradesType, UpgradeRecord

LEMMA DoType ==
  ASSUME UpgradesType, NEW p \in Command, NEW u \in UpgradeRecord,
         u.at # Gone => u.step = "write", Do(p, u)
  PROVE  UpgradesType'
  BY DEF UpgradesType, Do

LEMMA NoUpgradeType == NoUpgrade \in UpgradeRecord /\ NoUpgrade.at = Gone
  BY ReleaseAssumption DEF NoUpgrade, UpgradeRecord

LEMMA UpgradeStepType ==
  ASSUME UpgradeTypeOK, NEW p \in Command, UpgradeStep(p)
  PROVE  UpgradeTypeOK'
<1> USE ReleaseAssumption, TornAssumption
<1>0. UpgradesType /\ FilesType /\ upg[p] \in UpgradeRecord
      /\ (upg[p].at # Gone => upg[p].step = "write")
  BY UpgradeTypes DEF UpgradesType
<1>u. SUFFICES FilesType' /\ UpgradesType'
  BY UpgradeTypes DEF UpgradeTypeOK, FilesType, UpgradesType, UpgradeRecord
<1>e. ASSUME EndUpgrade(p) PROVE UpgradesType'
  BY <1>0, <1>e, NoUpgradeType, DoType DEF EndUpgrade
<1>g. ASSUME NEW step \in {"none", "resolve", "download", "verify", "open", "rename", "clean"},
             upg[p].at = Gone, UpgradeGoto(p, step)
      PROVE  UpgradesType'
  <2>1. [upg[p] EXCEPT !.step = step] \in UpgradeRecord
        /\ [upg[p] EXCEPT !.step = step].at = Gone
    BY <1>0, <1>g DEF UpgradeRecord
  <2>2. QED
    BY <1>0, <1>g, <2>1, DoType DEF UpgradeGoto
<1>n. ASSUME upg[p].at = Gone,
             NEW step \in {"download", "verify"}, NEW r \in Release \cup {Torn},
             Do(p, [upg[p] EXCEPT !.step = step, !.rel = r])
      PROVE  UpgradesType'
  <2>1. [upg[p] EXCEPT !.step = step, !.rel = r] \in UpgradeRecord
        /\ [upg[p] EXCEPT !.step = step, !.rel = r].at = Gone
    BY <1>0, <1>n DEF UpgradeRecord
  <2>2. QED
    BY <1>0, <1>n, <2>1, DoType
<1>1. CASE Resolve(p)
  <2>1. FilesType'
    BY <1>0, <1>1 DEF Resolve, FilesType, binary
  <2>2. PICK r \in Release : EndUpgrade(p) \/ Do(p, [upg[p] EXCEPT !.step = "download", !.rel = r])
    BY <1>1 DEF Resolve
  <2>3. upg[p].at = Gone
    BY <1>0, <1>1 DEF Resolve
  <2>4. QED
    BY <1>e, <1>n, <2>1, <2>2, <2>3
<1>2. CASE Download(p)
  <2>1. FilesType'
    BY <1>0, <1>2 DEF Download, FilesType, binary
  <2>2. upg[p].at = Gone /\ upg[p].rel \in Release \cup {Torn}
    BY <1>0, <1>2 DEF Download, UpgradeRecord
  <2>3. PICK r \in Release \cup {Torn} : Do(p, [upg[p] EXCEPT !.step = "verify", !.rel = r])
    BY <1>2, <2>2 DEF Download
  <2>4. QED
    BY <1>n, <2>1, <2>2, <2>3
<1>3. CASE Verify(p)
  <2>1. FilesType'
    BY <1>0, <1>3 DEF Verify, FilesType, binary
  <2>2. upg[p].at = Gone
    BY <1>0, <1>3 DEF Verify
  <2>3. EndUpgrade(p) \/ UpgradeGoto(p, "open")
    BY <1>3 DEF Verify
  <2>4. QED
    BY <1>e, <1>g, <2>1, <2>2, <2>3
<1>4. CASE Open(p)
  <2>1. FilesType'
    BY <1>0, <1>4 DEF Open, FilesType, File
  <2>2. [upg[p] EXCEPT !.step = "write", !.at = "new"] \in UpgradeRecord
        /\ [upg[p] EXCEPT !.step = "write", !.at = "new"].step = "write"
    BY <1>0 DEF UpgradeRecord
  <2>3. QED
    BY <1>0, <1>4, <2>1, <2>2, DoType DEF Open
<1>5. CASE Write(p)
  <2>1. upg[p].rel \in Release \cup {Torn}
    BY <1>0 DEF UpgradeRecord
  <2>2. PICK d \in Release \cup {Torn} :
          \/ new' = d /\ UNCHANGED <<exe, capable, marker>>
          \/ exe' = d /\ capable' = FALSE /\ marker' = Unmarked /\ UNCHANGED new
          \/ UNCHANGED binary
    BY <1>5, <2>1 DEF Write
  <2>3. FilesType'
    <3>1. exe' \in {exe} \cup Release \cup {Torn} /\ new' \in {new} \cup Release \cup {Torn}
      BY <2>2 DEF binary
    <3>2. marker' \in {"none", "holds", "another"}
      BY <1>0, <2>2 DEF FilesType, Unmarked, binary
    <3>3. (exe' = exe /\ capable' = capable) \/ (capable' = FALSE)
      BY <2>2 DEF binary
    <3>4. shared' = shared
      BY <1>5 DEF Write
    <3>5. {exe', new'} \subseteq File
      BY <1>0, <3>1 DEF FilesType, File
    <3>6. capable' \in BOOLEAN /\ (exe' = Gone => ~capable')
      <4>1. CASE exe' = exe /\ capable' = capable
        BY <1>0, <4>1 DEF FilesType
      <4>2. CASE capable' = FALSE
        BY <4>2
      <4>3. QED
        BY <3>3, <4>1, <4>2, Zenon
    <3>7. QED
      BY <1>0, <3>2, <3>4, <3>5, <3>6, Zenon DEF FilesType, File
  <2>4. [upg[p] EXCEPT !.step = "rename", !.at = Gone] \in UpgradeRecord
        /\ [upg[p] EXCEPT !.step = "rename", !.at = Gone].at = Gone
    BY <1>0 DEF UpgradeRecord
  <2>5. QED
    BY <1>0, <1>5, <2>3, <2>4, DoType DEF Write
<1>6. CASE Rename(p)
  <2>1. FilesType'
    <3>1. exe' \in {exe, new} /\ new' \in {new, Gone} /\ shared' = shared
      BY <1>6 DEF Rename, binary
    <3>2. marker' \in {"none", "holds", "another"}
      BY <1>0, <1>6 DEF Rename, FilesType, Unmarked, binary
    <3>3. (exe' = exe /\ capable' = capable) \/ (capable' = FALSE)
      BY <1>6 DEF Rename, binary
    <3>4. {exe', new'} \subseteq File
      BY <1>0, <3>1 DEF FilesType, File
    <3>5. capable' \in BOOLEAN /\ (exe' = Gone => ~capable')
      <4>1. CASE exe' = exe /\ capable' = capable
        BY <1>0, <4>1 DEF FilesType
      <4>2. CASE capable' = FALSE
        BY <4>2
      <4>3. QED
        BY <3>3, <4>1, <4>2, Zenon
    <3>6. QED
      BY <1>0, <3>1, <3>2, <3>4, <3>5, Zenon DEF FilesType, File
  <2>2. upg[p].at = Gone
    BY <1>0, <1>6 DEF Rename
  <2>3. CASE UpgradeGoto(p, "clean")
    BY <1>g, <2>1, <2>2, <2>3
  <2>4. CASE ~UpgradeGoto(p, "clean")
    <3>1. upg' = [q \in Command |->
                   IF q = p THEN [upg[q] EXCEPT !.step = "clean"]
                   ELSE [upg[q] EXCEPT !.at = IF @ = "new" THEN "exe" ELSE Gone]]
      BY <1>6, <2>4 DEF Rename
    <3>2. ASSUME NEW q \in Command
          PROVE  upg'[q] \in UpgradeRecord /\ (upg'[q].at # Gone => upg'[q].step = "write")
      <4>1. upg[q] \in UpgradeRecord /\ (upg[q].at # Gone => upg[q].step = "write")
        BY <1>0 DEF UpgradesType
      <4>2. CASE q = p
        <5>1. upg'[q] = [upg[q] EXCEPT !.step = "clean"]
          BY <3>1, <4>2
        <5>2. QED
          BY <2>2, <4>1, <4>2, <5>1 DEF UpgradeRecord
      <4>3. CASE q # p
        <5>1. upg'[q] = [upg[q] EXCEPT !.at = IF @ = "new" THEN "exe" ELSE Gone]
          BY <3>1, <4>3
        <5>2. upg'[q] \in UpgradeRecord /\ upg'[q].step = upg[q].step
          BY <4>1, <5>1 DEF UpgradeRecord
        <5>3. upg'[q].at # Gone => upg[q].at # Gone
          BY <4>1, <5>1 DEF UpgradeRecord
        <5>4. QED
          BY <4>1, <5>2, <5>3
      <4>4. QED
        BY <4>2, <4>3
    <3>3. QED
      BY <2>1, <3>1, <3>2 DEF UpgradesType
  <2>5. QED
    BY <2>3, <2>4
<1>7. CASE Clean(p)
  <2>1. FilesType'
    BY <1>0, <1>7 DEF Clean, FilesType, File
  <2>2. upg' = [q \in Command |->
                 IF q = p THEN NoUpgrade
                 ELSE [upg[q] EXCEPT !.at = IF @ = "new" THEN Gone ELSE @]]
    BY <1>7 DEF Clean
  <2>3. ASSUME NEW q \in Command
        PROVE  upg'[q] \in UpgradeRecord /\ (upg'[q].at # Gone => upg'[q].step = "write")
    BY <1>0, <2>2, NoUpgradeType DEF UpgradesType, UpgradeRecord
  <2>4. QED
    BY <2>1, <2>2, <2>3 DEF UpgradesType
<1>8. CASE UpgradeFails(p)
  BY <1>0, <1>e, <1>8 DEF UpgradeFails, FilesType, binary
<1>9. QED
  BY <1>1, <1>2, <1>3, <1>4, <1>5, <1>6, <1>7, <1>8 DEF UpgradeStep

(* No step of an upgrade lets another one begin or end. *)
LEMMA OthersGoOn ==
  ASSUME UpgradeTypeOK, NEW p \in Command, UpgradeStep(p)
  PROVE  /\ shared' = shared
         /\ p \in Upgrading
         /\ \A q \in Command \ {p} : upg'[q].step = upg[q].step /\ upg'[q].agrees = upg[q].agrees
         /\ Upgrading' \in {Upgrading, Upgrading \ {p}}
<1>1. shared' = shared /\ p \in Upgrading
  BY DEF UpgradeStep, Resolve, Download, Verify, Open, Write, Rename, Clean, UpgradeFails, Upgrading
<1>2. ASSUME NEW q \in Command \ {p}
      PROVE  upg'[q].step = upg[q].step /\ upg'[q].agrees = upg[q].agrees
  <2>1. upg \in [Command -> UpgradeRecord]
    BY UpgradeTypes DEF UpgradesType
  <2>2. \/ \E u : Do(p, u)
        \/ upg'[q] = [upg[q] EXCEPT !.at = IF @ = "new" THEN "exe" ELSE Gone]
        \/ upg'[q] = [upg[q] EXCEPT !.at = IF @ = "new" THEN Gone ELSE @]
    <3>1. CASE Resolve(p) \/ Download(p) \/ Verify(p) \/ Open(p) \/ Write(p) \/ UpgradeFails(p)
      BY <3>1 DEF Resolve, Download, Verify, Open, Write, UpgradeFails, UpgradeGoto, EndUpgrade
    <3>2. CASE Rename(p)
      BY <1>2, <3>2 DEF Rename, UpgradeGoto
    <3>3. CASE Clean(p)
      BY <1>2, <3>3 DEF Clean
    <3>4. QED
      BY <3>1, <3>2, <3>3 DEF UpgradeStep
  <2>3. CASE \E u : Do(p, u)
    BY <1>2, <2>1, <2>3 DEF Do
  <2>4. CASE ~\E u : Do(p, u)
    BY <1>2, <2>1, <2>2, <2>4 DEF UpgradeRecord
  <2>5. QED
    BY <2>3, <2>4
<1>3. QED
  BY <1>1, <1>2 DEF Upgrading

(* The release a step goes on with is the one it may install, and it stays so. *)
LEMMA StaysOnItsWay ==
  ASSUME UpgradeInv, NEW p \in Command, UpgradeStep(p), ~shared
  PROVE  p \in Upgrading' => exe' \in Release /\ OnItsWay(p)'
<1> USE ReleaseAssumption, TornAssumption
<1> SUFFICES ASSUME p \in Upgrading' PROVE exe' \in Release /\ OnItsWay(p)'
  OBVIOUS
<1>1. upg \in [Command -> [step : {"none", "resolve", "download", "verify", "open", "write",
                                   "rename", "clean"},
                           agrees : BOOLEAN, rel : Release \cup {Torn},
                           at : {"new", "exe", Gone}]]
  BY DEF UpgradeInv, UpgradeTypeOK
<1>2. upg'[p].step # "none"
  BY DEF Upgrading
<1>3. p \in Upgrading /\ Upgrading = {p} /\ exe \in Release /\ OnItsWay(p)
  BY OthersGoOn DEF UpgradeInv
<1>4. CASE Resolve(p)
  <2>1. PICK r \in Release \ {0} :
          /\ r # upg[p].rel /\ Accepts(p, r)
          /\ upg' = [upg EXCEPT ![p] = [upg[p] EXCEPT !.step = "download", !.rel = r]]
    <3>1. ~EndUpgrade(p)
      BY <1>1, <1>2 DEF EndUpgrade, Do, NoUpgrade
    <3>2. QED
      BY <1>4, <3>1 DEF Resolve, Do
  <2>2. upg[p].rel = exe
    BY <1>3, <1>4 DEF Resolve, OnItsWay
  <2>3. upg[p].agrees \/ r > exe
    BY <1>3, <2>1, <2>2 DEF Accepts, Older
  <2>4. exe' = exe /\ upg'[p].step = "download" /\ upg'[p].rel = r /\ upg'[p].agrees = upg[p].agrees
    BY <1>1, <1>4, <2>1 DEF Resolve, binary
  <2>5. QED
    BY <1>3, <2>3, <2>4 DEF OnItsWay, Wanted
<1>5. CASE Download(p)
  BY <1>1, <1>3, <1>5 DEF Download, Do, OnItsWay, Wanted, binary
<1>6. CASE Verify(p)
  BY <1>1, <1>2, <1>3, <1>6 DEF Verify, UpgradeGoto, EndUpgrade, NoUpgrade, Do, OnItsWay, Wanted, binary
<1>7. CASE Open(p)
  BY <1>1, <1>3, <1>7 DEF Open, Do, OnItsWay, Wanted
<1>8. CASE Write(p)
  <2>1. upg[p].at = "new" /\ Wanted(p)
    BY <1>3, <1>8 DEF Write, OnItsWay
  <2>2. \A q \in Command : upg[q].at = upg[p].at => q = p
    <3>1. \A q \in Command : upg[q].at # Gone => q \in Upgrading
      BY DEF UpgradeInv, UpgradeTypeOK, Upgrading
    <3>2. Gone # "new"
      OBVIOUS
    <3>3. QED
      BY <1>3, <2>1, <3>1, <3>2
  <2>3. new' = upg[p].rel /\ exe' = exe
    BY <1>8, <2>1, <2>2 DEF Write
  <2>4. upg'[p].step = "rename" /\ upg'[p].rel = upg[p].rel /\ upg'[p].agrees = upg[p].agrees
    BY <1>1, <1>8 DEF Write, Do
  <2>5. QED
    BY <1>3, <2>1, <2>3, <2>4 DEF OnItsWay, Wanted
<1>9. CASE Rename(p)
  <2>1. upg'[p].step = "clean"
    BY <1>1, <1>9 DEF Rename, UpgradeGoto, Do
  <2>2. exe' \in Release
    BY <1>3, <1>9 DEF Rename, OnItsWay, Wanted, binary
  <2>3. QED
    BY <2>1, <2>2 DEF OnItsWay
<1>10. CASE Clean(p)
  BY <1>1, <1>2, <1>10 DEF Clean, NoUpgrade
<1>11. CASE UpgradeFails(p)
  BY <1>1, <1>2, <1>11 DEF UpgradeFails, EndUpgrade, Do, NoUpgrade
<1>12. QED
  BY <1>4, <1>5, <1>6, <1>7, <1>8, <1>9, <1>10, <1>11 DEF UpgradeStep

LEMMA UpgradeStepInv ==
  ASSUME UpgradeInv, NEW p \in Command, UpgradeStep(p)
  PROVE  UpgradeInv'
<1>1. UpgradeTypeOK'
  BY UpgradeStepType DEF UpgradeInv
<1>2. ASSUME ~shared'
      PROVE  Upgrading' \subseteq {p}
  BY <1>2, OthersGoOn DEF UpgradeInv
<1>3. QED
  BY <1>1, <1>2, OthersGoOn, StaysOnItsWay DEF UpgradeInv

-----------------------------------------------------------------------------
(* The other commands                                                      *)

(* What bootstrap and uninstall change of the executable is its capability. *)
LEMMA CapabilityInv ==
  ASSUME UpgradeInv, UNCHANGED <<exe, new, upg, shared>>, FilesType'
  PROVE  UpgradeInv'
<1>1. UpgradesType'
  BY UpgradeTypes DEF UpgradeInv, UpgradesType
<1>2. UpgradeTypeOK'
  BY <1>1 DEF UpgradeTypeOK, FilesType, UpgradesType, UpgradeRecord
<1>3. QED
  BY <1>2 DEF UpgradeInv, Upgrading, OnItsWay, Wanted

LEMMA UnchangedInv ==
  ASSUME UpgradeInv, UNCHANGED upgradeVars
  PROVE  UpgradeInv'
<1>1. FilesType'
  BY UpgradeTypes DEF UpgradeInv, FilesType, upgradeVars, binary
<1>2. QED
  BY <1>1, CapabilityInv DEF upgradeVars, binary

LEMMA MarkingInv ==
  ASSUME UpgradeInv, NEW p \in Command,
         SetCapability(p) \/ WriteMarker(p) \/ Revoke(p) \/ RemoveState(p)
  PROVE  UpgradeInv' /\ UNCHANGED <<exe, upg, shared>>
<1>1. UNCHANGED <<exe, new, upg, shared>>
  BY DEF SetCapability, WriteMarker, Revoke, RemoveState
<1>2. FilesType
  BY UpgradeTypes DEF UpgradeInv
<1>3. marker' \in {"none", "holds", "another"}
  BY <1>2 DEF FilesType, SetCapability, WriteMarker, Revoke, RemoveState
<1>4. \/ capable' = capable
      \/ capable' = FALSE
      \/ capable' = TRUE /\ exe # Gone
  BY DEF SetCapability, WriteMarker, Revoke, RemoveState
<1>5. capable' \in BOOLEAN /\ (exe = Gone => ~capable')
  <2>1. CASE capable' = capable
    BY <1>2, <2>1 DEF FilesType
  <2>2. CASE capable' = FALSE
    BY <2>2
  <2>3. CASE capable' = TRUE /\ exe # Gone
    BY <2>3
  <2>4. QED
    BY <1>4, <2>1, <2>2, <2>3, Zenon
<1>6. {exe', new'} \subseteq File
  BY <1>1, <1>2 DEF FilesType, File
<1>7. exe' = exe /\ shared' = shared /\ shared \in BOOLEAN
  BY <1>1, <1>2 DEF FilesType
<1>8. FilesType'
  BY <1>3, <1>5, <1>6, <1>7, Zenon DEF FilesType, File
<1>9. QED
  BY <1>1, <1>8, CapabilityInv

LEMMA RemovingInv ==
  ASSUME UpgradeInv, NEW p \in Command, RemoveBinary(p)
  PROVE  /\ UpgradeInv' /\ Upgrading' = Upgrading
         /\ \A q \in Command : upg'[q].agrees = upg[q].agrees
         /\ \/ UNCHANGED <<exe, shared>>
            \/ exe' = Gone /\ shared' = (shared \/ Upgrading # {})
<1>0. UpgradesType /\ FilesType
  BY UpgradeTypes DEF UpgradeInv
<1>1. CASE UNCHANGED <<exe, capable, upg, shared>>
  <2>1. UNCHANGED upgradeVars
    BY <1>1 DEF RemoveBinary, upgradeVars, binary
  <2>2. QED
    BY <1>1, <2>1, UnchangedInv DEF Upgrading
<1>2. CASE ~UNCHANGED <<exe, capable, upg, shared>>
  <2>1. /\ exe' = Gone /\ capable' = FALSE
        /\ UNCHANGED <<new, marker>>
        /\ shared' = (shared \/ Upgrading # {})
        /\ upg' = [q \in Command |-> [upg[q] EXCEPT !.at = IF @ = "exe" THEN Gone ELSE @]]
    BY <1>2 DEF RemoveBinary
  <2>2. ASSUME NEW q \in Command
        PROVE  /\ upg'[q] \in UpgradeRecord /\ (upg'[q].at # Gone => upg'[q].step = "write")
               /\ upg'[q].step = upg[q].step /\ upg'[q].agrees = upg[q].agrees
    <3>1. upg[q] \in UpgradeRecord /\ (upg[q].at # Gone => upg[q].step = "write")
      BY <1>0 DEF UpgradesType
    <3>2. upg'[q] = [upg[q] EXCEPT !.at = IF @ = "exe" THEN Gone ELSE @]
      BY <2>1
    <3>3. QED
      BY <3>1, <3>2 DEF UpgradeRecord
  <2>3. UpgradesType'
    BY <2>1, <2>2 DEF UpgradesType
  <2>4. FilesType'
    <3>1. {exe', new'} \subseteq File
      BY <1>0, <2>1 DEF FilesType, File
    <3>2. capable' \in BOOLEAN /\ ~capable' /\ shared' \in BOOLEAN
      BY <2>1
    <3>3. marker' \in {"none", "holds", "another"}
      BY <1>0, <2>1 DEF FilesType
    <3>4. QED
      BY <3>1, <3>2, <3>3, Zenon DEF FilesType, File
  <2>5. UpgradeTypeOK'
    BY <2>3, <2>4 DEF UpgradeTypeOK, FilesType, UpgradesType, UpgradeRecord
  <2>6. Upgrading' = Upgrading
    BY <2>2 DEF Upgrading
  <2>7. ~shared' => Upgrading' = {}
    BY <2>1, <2>6
  <2>8. QED
    BY <2>1, <2>2, <2>5, <2>6, <2>7 DEF UpgradeInv
<1>3. QED
  BY <1>1, <1>2

LEMMA RebootInv ==
  ASSUME UpgradeInv, Reboot
  PROVE  UpgradeInv' /\ Upgrading' = {} /\ UNCHANGED <<exe, shared>>
<1>1. upg' = [p \in Command |-> NoUpgrade] /\ UNCHANGED <<exe, new, capable, marker, shared>>
  BY DEF Reboot, binary
<1>2. UpgradesType'
  BY <1>1, NoUpgradeType DEF UpgradesType
<1>3. FilesType'
  BY <1>1, UpgradeTypes DEF UpgradeInv, FilesType
<1>4. UpgradeTypeOK'
  BY <1>2, <1>3 DEF UpgradeTypeOK, FilesType, UpgradesType, UpgradeRecord
<1>5. Upgrading' = {}
  BY <1>1 DEF Upgrading, NoUpgrade
<1>6. QED
  BY <1>1, <1>4, <1>5 DEF UpgradeInv

(* A step of the installation: one of an upgrade, one of those above, or one that
   leaves the executable and the upgrades alone. *)
LEMMA Steps ==
  ASSUME [Next]_vars
  PROVE  \/ UNCHANGED upgradeVars
         \/ Reboot
         \/ \E p \in Command :
              \/ upg[p].step = "none" /\ BeginUpgrade(p)
              \/ UpgradeStep(p)
              \/ SetCapability(p) \/ WriteMarker(p) \/ Revoke(p) \/ RemoveState(p)
              \/ RemoveBinary(p)
<1>1. CASE UNCHANGED vars
  BY <1>1 DEF vars
<1>2. ASSUME NEW p \in Command, Upgrades(p)
      PROVE  (upg[p].step = "none" /\ BeginUpgrade(p)) \/ UpgradeStep(p)
  BY <1>2 DEF Upgrades, NewCommand, Idle
<1>3. ASSUME NEW p \in Command, Begin(p) \/ Killed(p)
      PROVE  UNCHANGED upgradeVars
  BY <1>3 DEF Begin, Killed
<1>4. ASSUME NEW p \in Command, Bootstrap(p)
      PROVE  UNCHANGED upgradeVars \/ SetCapability(p) \/ WriteMarker(p)
  BY <1>4 DEF Bootstrap, Check, StopExisting, Ensure, Resolved, FastReport, UserPass, InstallUnit,
     LoadUnit, InstallAgent, LoadAgent, WriteVersion
<1>5. ASSUME NEW p \in Command, Uninstall(p)
      PROVE  UNCHANGED upgradeVars \/ Revoke(p) \/ RemoveState(p) \/ RemoveBinary(p)
  BY <1>5 DEF Uninstall, EndDaemon, RemoveUnit, RemoveAgent, RemoveResolvers, RemoveVersion
<1>6. ASSUME DaemonStarts \/ DaemonDies \/ DaemonRepairs
      PROVE  UNCHANGED upgradeVars
  BY <1>6 DEF DaemonStarts, DaemonDies, DaemonRepairs
<1>7. QED
  BY <1>1, <1>2, <1>3, <1>4, <1>5, <1>6 DEF Next

LEMMA UpgradeInvStep ==
  ASSUME UpgradeInv, [Next]_vars
  PROVE  UpgradeInv'
BY Steps, UnchangedInv, RebootInv, BeginUpgradeInv, UpgradeStepInv, MarkingInv, RemovingInv

(* What is installed is whole while upgrades keep out of each other's way, and
   each of them is on its way from an agreed release to a complete file. *)
THEOREM UpgradeInvariance == Spec => []UpgradeInv
<1>1. QED
  BY InitUpgradeInv, UpgradeInvStep, PTL DEF Spec

-----------------------------------------------------------------------------
(* Refinement                                                              *)

Willing == {p \in Upgrading : upg[p].agrees}

LEMMA BeginUpgradeStarts ==
  ASSUME UpgradeInv, NEW p \in Command, upg[p].step = "none", BeginUpgrade(p)
  PROVE  Promised!Start(p)
<1>1. PICK agrees \in BOOLEAN :
        upg' = [upg EXCEPT ![p] = [step |-> "resolve", agrees |-> agrees, rel |-> exe, at |-> Gone]]
  BY DEF BeginUpgrade, Do, NoUpgrade
<1>2. upg \in [Command -> UpgradeRecord]
  BY UpgradeTypes DEF UpgradeInv, UpgradesType
<1>3. Upgrading' = Upgrading \cup {p} /\ p \notin Upgrading
  BY <1>1, <1>2 DEF Upgrading
<1>4. Willing' \in {Willing, Willing \cup {p}}
  <2>1. \A q \in Command \ {p} : upg'[q] = upg[q]
    BY <1>1, <1>2
  <2>2. upg'[p].agrees = agrees
    BY <1>1, <1>2
  <2>3. CASE agrees
    BY <1>3, <2>1, <2>2, <2>3 DEF Willing, Upgrading
  <2>4. CASE ~agrees
    BY <1>3, <2>1, <2>2, <2>4 DEF Willing, Upgrading
  <2>5. QED
    BY <2>3, <2>4
<1>5. QED
  BY <1>3, <1>4 DEF BeginUpgrade, Promised!Start, Willing, binary

LEMMA AgreementLasts ==
  ASSUME UpgradeTypeOK, NEW p \in Command, UpgradeStep(p), p \in Upgrading'
  PROVE  upg'[p].agrees = upg[p].agrees
<1>1. upg \in [Command -> UpgradeRecord] /\ upg[p] \in UpgradeRecord
  BY UpgradeTypes DEF UpgradesType
<1>2. upg'[p].step # "none"
  BY DEF Upgrading
<1>3. ~EndUpgrade(p)
  BY <1>1, <1>2 DEF EndUpgrade, Do, NoUpgrade
<1>4. ~Clean(p)
  BY <1>2 DEF Clean, NoUpgrade
<1>5. CASE Resolve(p)
  <2>1. PICK r \in Release : Do(p, [upg[p] EXCEPT !.step = "download", !.rel = r])
    BY <1>3, <1>5 DEF Resolve
  <2>2. QED
    BY <1>1, <2>1 DEF Do, UpgradeRecord
<1>6. CASE Download(p)
  <2>1. PICK got : Do(p, [upg[p] EXCEPT !.step = "verify", !.rel = got])
    BY <1>6 DEF Download
  <2>2. QED
    BY <1>1, <2>1 DEF Do, UpgradeRecord
<1>7. CASE Verify(p)
  BY <1>1, <1>3, <1>7 DEF Verify, UpgradeGoto, Do, UpgradeRecord
<1>8. CASE Open(p)
  BY <1>1, <1>8 DEF Open, Do, UpgradeRecord
<1>9. CASE Write(p)
  BY <1>1, <1>9 DEF Write, Do, UpgradeRecord
<1>10. CASE Rename(p)
  <2>1. upg'[p] = [upg[p] EXCEPT !.step = "clean"]
    BY <1>1, <1>10 DEF Rename, UpgradeGoto, Do
  <2>2. QED
    BY <1>1, <2>1 DEF UpgradeRecord
<1>11. CASE UpgradeFails(p)
  BY <1>3, <1>11 DEF UpgradeFails
<1>12. QED
  BY <1>4, <1>5, <1>6, <1>7, <1>8, <1>9, <1>10, <1>11 DEF UpgradeStep

(* Only the writing into a file that another upgrade has renamed, and the rename
   itself, change the executable. *)
LEMMA ExecutableChanges ==
  ASSUME UpgradeInv, NEW p \in Command, UpgradeStep(p), exe' # exe
  PROVE  /\ Upgrading' = Upgrading
         /\ exe' \in Release \cup {Torn}
         /\ ~shared => exe' \in {r \in Release : p \in Willing \/ r > exe} /\ exe \in Release
<1>1. upg \in [Command -> UpgradeRecord] /\ upg[p] \in UpgradeRecord /\ p \in Upgrading
  BY UpgradeTypes, OthersGoOn DEF UpgradeInv, UpgradesType
<1>2. Write(p) \/ Rename(p)
  BY DEF UpgradeStep, Resolve, Download, Verify, Open, Clean, UpgradeFails, binary
<1>3. upg'[p].step # "none"
  <2>1. CASE Write(p)
    <3>1. upg'[p] = [upg[p] EXCEPT !.step = "rename", !.at = Gone]
      BY <1>1, <2>1 DEF Write, Do
    <3>2. QED
      BY <1>1, <3>1 DEF UpgradeRecord
  <2>2. CASE Rename(p)
    <3>1. upg'[p] = [upg[p] EXCEPT !.step = "clean"]
      BY <1>1, <2>2 DEF Rename, UpgradeGoto, Do
    <3>2. QED
      BY <1>1, <3>1 DEF UpgradeRecord
  <2>3. QED
    BY <1>2, <2>1, <2>2
<1>4. Upgrading' = Upgrading
  BY <1>1, <1>3, OthersGoOn DEF UpgradeInv, Upgrading
<1>5. CASE Write(p)
  <2>1. exe' \in Release \cup {Torn}
    BY <1>1, <1>5 DEF Write, UpgradeRecord, binary
  <2>2. upg[p].at = "exe"
    BY <1>5 DEF Write, binary
  <2>3. shared
    BY <1>1, <1>5, <2>2 DEF UpgradeInv, OnItsWay, Write
  <2>4. QED
    BY <1>4, <2>1, <2>3
<1>6. CASE Rename(p)
  <2>1. exe' = new /\ new # Gone
    BY <1>6 DEF Rename, binary
  <2>2. exe' \in Release \cup {Torn}
    BY <2>1, UpgradeTypes DEF UpgradeInv, FilesType, File
  <2>3. ASSUME ~shared
        PROVE  exe' \in {r \in Release : p \in Willing \/ r > exe} /\ exe \in Release
    <3>1. Wanted(p) /\ new = upg[p].rel /\ exe \in Release
      BY <1>1, <1>6, <2>3 DEF UpgradeInv, OnItsWay, Rename
    <3>2. QED
      BY <1>1, <2>1, <3>1 DEF Wanted, Willing
  <2>4. QED
    BY <1>4, <2>2, <2>3
<1>7. QED
  BY <1>2, <1>5, <1>6

LEMMA UpgradeStepRefines ==
  ASSUME UpgradeInv, NEW p \in Command, UpgradeStep(p)
  PROVE  Promised!Next \/ UNCHANGED Promised!vars
<1>0. UpgradeTypeOK
  BY DEF UpgradeInv
<1>1. shared' = shared /\ p \in Upgrading
  BY <1>0, OthersGoOn
<1>2. CASE Upgrading' = Upgrading
  <2>1. Willing' = Willing
    BY <1>0, <1>1, <1>2, OthersGoOn, AgreementLasts DEF Willing, Upgrading
  <2>2. CASE exe' = exe
    BY <1>1, <1>2, <2>1, <2>2 DEF Promised!vars, Willing
  <2>3. CASE exe' # exe /\ shared
    <3>1. Promised!Meddle
      BY <1>1, <1>2, <2>1, <2>3, ExecutableChanges DEF Promised!Meddle, Willing
    <3>2. QED
      BY <3>1 DEF Promised!Next
  <2>4. CASE exe' # exe /\ ~shared
    <3>1. Promised!Replace(p)
      BY <1>1, <1>2, <2>1, <2>4, ExecutableChanges DEF Promised!Replace, Willing
    <3>2. QED
      BY <3>1 DEF Promised!Next
  <2>5. QED
    BY <2>2, <2>3, <2>4
<1>3. CASE Upgrading' = Upgrading \ {p}
  <2>1. exe' = exe
    BY <1>1, <1>3, ExecutableChanges
  <2>2. Willing' = Willing \ {p}
    BY <1>0, <1>3, OthersGoOn DEF Willing, Upgrading
  <2>3. Promised!End({p})
    BY <1>1, <1>3, <2>1, <2>2 DEF Promised!End, Willing
  <2>4. QED
    BY <2>3 DEF Promised!Next
<1>4. QED
  BY <1>0, <1>2, <1>3, OthersGoOn

LEMMA NextRefines ==
  ASSUME UpgradeInv, [Next]_vars
  PROVE  Promised!Next \/ UNCHANGED Promised!vars
<1>1. CASE UNCHANGED upgradeVars
  BY <1>1 DEF upgradeVars, binary, Promised!vars, Upgrading
<1>2. CASE Reboot
  <2>1. PICK gone \in SUBSET Command : gone = Upgrading
    BY DEF Upgrading
  <2>2. Promised!End(gone)
    BY <1>2, <2>1, RebootInv DEF Promised!End, Upgrading
  <2>3. QED
    BY <2>2 DEF Promised!Next
<1>3. ASSUME NEW p \in Command, upg[p].step = "none", BeginUpgrade(p)
      PROVE  Promised!Next
  BY <1>3, BeginUpgradeStarts DEF Promised!Next
<1>4. ASSUME NEW p \in Command,
             SetCapability(p) \/ WriteMarker(p) \/ Revoke(p) \/ RemoveState(p)
      PROVE  UNCHANGED Promised!vars
  BY <1>4, MarkingInv DEF Promised!vars, Upgrading
<1>5. ASSUME NEW p \in Command, RemoveBinary(p)
      PROVE  Promised!Next \/ UNCHANGED Promised!vars
  <2>1. Upgrading' = Upgrading /\ Willing' = Willing
    BY <1>5, RemovingInv DEF Willing, Upgrading
  <2>2. CASE UNCHANGED <<exe, shared>>
    BY <2>1, <2>2 DEF Promised!vars, Willing
  <2>3. CASE exe' = Gone /\ shared' = (shared \/ Upgrading # {})
    BY <2>1, <2>3 DEF Promised!Remove, Promised!Next, Willing
  <2>4. QED
    BY <1>5, <2>2, <2>3, RemovingInv
<1>6. QED
  BY <1>1, <1>2, <1>3, <1>4, <1>5, Steps, UpgradeStepRefines

(* Whatever else is installed, removed, killed or rebooted, upgrade implements
   Executable: the executable is whole, and replaced at once by a release that is
   newer or that the user has agreed to, unless upgrades or a removal overlap. *)
THEOREM UpgradeRefines == Spec => Replaced
<1>1. Init => Promised!Init
  BY DEF Init, UpgradeInit, NoUpgrade, Upgrading, Promised!Init
<1>2. UpgradeInv /\ [Next]_vars => [Promised!Next]_(Promised!vars)
  BY NextRefines
<1>3. QED
  BY <1>1, <1>2, UpgradeInvariance, PTL DEF Spec, Replaced, Promised!Spec

-----------------------------------------------------------------------------
(* What bootstrap and uninstall report *)


CommandStep ==
  {"check", "fast", "stop", "resolve", "capability", "marker", "user", "unit", "load",
   "agent", "loadagent", "version",
   "end", "rmunit", "rmagent", "rmresolvers", "rmversion", "revoke", "rmstate", "rmbinary"}

CommandRecord ==
  [step : CommandStep \cup {"none"}, root : BOOLEAN, flag : BOOLEAN,
   warned : BOOLEAN, alone : BOOLEAN]

SetupType ==
  /\ os \in Systems
  /\ lowPort \in BOOLEAN /\ unit \in BOOLEAN /\ service \in BOOLEAN /\ version \in BOOLEAN
  /\ daemon \in {"off", "on", "on again"}
  /\ agent \in [file : BOOLEAN, loaded : BOOLEAN]
  /\ files \subseteq Domains /\ active \subseteq Domains

HistoryType ==
  /\ begun \in 0..MaxBegun
  /\ last \in {"none", "installed", "checked", "removed", "repaired"}

(* Resolver files of macOS are read at once, and only macOS has a root helper. *)
SystemInv ==
  /\ MacOS => files \subseteq active
  /\ ~MacOS => ~agent.file

(* Some steps are those of one system. *)
OnSystem(step) ==
  /\ step \in {"agent", "loadagent"} => MacOS
  /\ step \in {"capability", "marker", "user"} => Linux

(* A process runs one command.  One that is alone has met no other, and what has
   been reported counts until a command begins. *)
CommandInv ==
  /\ cmd \in [Command -> CommandRecord]
  /\ \A p \in Command :
       /\ cmd[p].step = "none" => cmd[p] = NoCommand
       /\ upg[p].step # "none" => cmd[p].step = "none"
       /\ cmd[p].alone => \A q \in Command \ {p} : Idle(q)
       /\ OnSystem(cmd[p].step)
  /\ last # "none" => \A p \in Command : Idle(p)

(* What a command that is alone and has not warned has done before a step. *)
Installed(step) ==
  /\ step = "fast" => service /\ (MacOS => agent.loaded)
  /\ step \in {"capability", "marker", "user", "unit", "load", "agent", "loadagent", "version"} =>
       files = Domains
  /\ step \in {"marker", "user", "unit", "load", "agent", "loadagent", "version"} =>
       (Linux /\ lowPort => capable)
  /\ step \in {"load", "agent", "loadagent", "version"} => unit
  /\ step \in {"agent", "loadagent", "version"} => service
  /\ step = "loadagent" => agent.file
  /\ step = "version" => (MacOS => agent.file /\ agent.loaded)

Removed(step) ==
  /\ step \in {"rmagent", "rmresolvers", "rmversion", "revoke", "rmstate", "rmbinary"} => ~unit
  /\ step \in {"rmresolvers", "rmversion", "revoke", "rmstate", "rmbinary"} => ~agent.file
  /\ step \in {"rmversion", "revoke", "rmstate", "rmbinary"} => files = {}
  /\ step \in {"revoke", "rmstate", "rmbinary"} => ~version
  /\ step = "rmbinary" => marker = "none"

Achieved(step) == Installed(step) /\ Removed(step)

Counts(p) == cmd[p].alone /\ ~cmd[p].warned

AchievedInv == \A p \in Command : Counts(p) => Achieved(cmd[p].step)

SetupInv == SetupType /\ HistoryType /\ SystemInv /\ CommandInv /\ AchievedInv /\ Truthful

-----------------------------------------------------------------------------
(* The steps of a command                                                  *)

SameUpgrades == \A q \in Command : upg'[q].step = upg[q].step

LEMMA StepRecord ==
  ASSUME NEW c \in CommandRecord, NEW step \in CommandStep
  PROVE  /\ [c EXCEPT !.step = step] \in CommandRecord
         /\ [c EXCEPT !.step = step].step = step /\ step # "none"
         /\ [c EXCEPT !.step = step].alone <=> c.alone
         /\ [c EXCEPT !.step = step].warned <=> c.warned
<1>1. step \in CommandStep \cup {"none"} /\ step # "none"
  BY DEF CommandStep
<1>2. QED
  BY <1>1 DEF CommandRecord

LEMMA WarnedRecord ==
  ASSUME NEW c \in CommandRecord, NEW step \in CommandStep
  PROVE  /\ [c EXCEPT !.step = step, !.warned = TRUE] \in CommandRecord
         /\ [c EXCEPT !.step = step, !.warned = TRUE].step = step /\ step # "none"
         /\ [c EXCEPT !.step = step, !.warned = TRUE].alone <=> c.alone
         /\ [c EXCEPT !.step = step, !.warned = TRUE].warned
<1>1. step \in CommandStep \cup {"none"} /\ step # "none"
  BY DEF CommandStep
<1>2. QED
  BY <1>1 DEF CommandRecord

LEMMA GoesOn ==
  ASSUME CommandInv, AchievedInv, NEW p \in Command, cmd[p].step # "none",
         NEW c \in CommandRecord, c.step # "none", c.alone => cmd[p].alone,
         cmd' = [cmd EXCEPT ![p] = c],
         SameUpgrades, last' = last, os' = os, OnSystem(c.step),
         c.alone /\ ~c.warned => Achieved(c.step)'
  PROVE  CommandInv' /\ AchievedInv'
<1>1. /\ last = "none"
      /\ \A q \in Command \ {p} : ~cmd[q].alone /\ cmd'[q] = cmd[q]
      /\ cmd'[p] = c
  BY DEF CommandInv, Idle
<1>2. cmd' \in [Command -> CommandRecord]
  BY DEF CommandInv
<1>3. \A q \in Command \ {p} : Idle(q)' <=> Idle(q)
  BY <1>1 DEF Idle, SameUpgrades
<1>4. ASSUME NEW q \in Command
      PROVE  /\ cmd'[q].step = "none" => cmd'[q] = NoCommand
             /\ upg'[q].step # "none" => cmd'[q].step = "none"
             /\ cmd'[q].alone => \A r \in Command \ {q} : Idle(r)'
             /\ OnSystem(cmd[q].step)'
  BY <1>1, <1>3 DEF CommandInv, SameUpgrades, OnSystem, MacOS, Linux
<1>5. CommandInv'
  BY <1>1, <1>2, <1>4 DEF CommandInv
<1>6. AchievedInv'
  BY <1>1 DEF AchievedInv, Counts
<1>7. QED
  BY <1>5, <1>6

LEMMA GotoInv ==
  ASSUME CommandInv, AchievedInv, NEW p \in Command, cmd[p].step # "none",
         NEW step \in CommandStep, Goto(p, step),
         SameUpgrades, last' = last, os' = os, OnSystem(step),
         Counts(p) => Achieved(step)'
  PROVE  CommandInv' /\ AchievedInv'
<1>1. cmd[p] \in CommandRecord
  BY DEF CommandInv
<1>2. PICK c : c = [cmd[p] EXCEPT !.step = step]
  OBVIOUS
<1>3. c \in CommandRecord /\ c.step = step /\ step # "none"
  BY <1>1, <1>2, StepRecord
<1>4. (c.alone <=> cmd[p].alone) /\ (c.warned <=> cmd[p].warned)
  BY <1>1, <1>2, StepRecord
<1>5. cmd' = [cmd EXCEPT ![p] = c]
  BY <1>2 DEF Goto, Set
<1>6. QED
  BY <1>3, <1>4, <1>5, GoesOn DEF Counts

LEMMA GotoWarnedInv ==
  ASSUME CommandInv, AchievedInv, NEW p \in Command, cmd[p].step # "none",
         NEW step \in CommandStep, GotoWarned(p, step),
         SameUpgrades, last' = last, os' = os, OnSystem(step)
  PROVE  CommandInv' /\ AchievedInv'
<1>1. cmd[p] \in CommandRecord
  BY DEF CommandInv
<1>2. PICK c : c = [cmd[p] EXCEPT !.step = step, !.warned = TRUE]
  OBVIOUS
<1>3. c \in CommandRecord /\ c.step = step /\ step # "none"
  BY <1>1, <1>2, WarnedRecord
<1>4. (c.alone <=> cmd[p].alone) /\ c.warned
  BY <1>1, <1>2, WarnedRecord
<1>5. cmd' = [cmd EXCEPT ![p] = c]
  BY <1>2 DEF GotoWarned, Set
<1>6. QED
  BY <1>3, <1>4, <1>5, GoesOn

LEMMA NoCommandType ==
  /\ NoCommand \in CommandRecord
  /\ NoCommand.step = "none" /\ ~NoCommand.alone
BY DEF NoCommand, CommandRecord

LEMMA EndsInv ==
  ASSUME CommandInv, NEW p \in Command, cmd[p].step # "none",
         Set(p, NoCommand), SameUpgrades, os' = os,
         last' = last \/ last' = "none" \/ cmd[p].alone
  PROVE  CommandInv' /\ AchievedInv'
<1>1. /\ upg[p].step = "none" /\ last = "none"
      /\ \A q \in Command \ {p} : ~cmd[q].alone /\ cmd'[q] = cmd[q]
      /\ cmd'[p] = NoCommand
  BY DEF CommandInv, Idle, Set
<1>2. cmd' \in [Command -> CommandRecord]
  BY NoCommandType DEF CommandInv, Set
<1>3. Idle(p)' /\ \A q \in Command \ {p} : Idle(q)' <=> Idle(q)
  BY <1>1, NoCommandType DEF Idle, SameUpgrades
<1>4. ASSUME NEW q \in Command
      PROVE  /\ cmd'[q].step = "none" => cmd'[q] = NoCommand
             /\ upg'[q].step # "none" => cmd'[q].step = "none"
             /\ ~cmd'[q].alone
             /\ OnSystem(cmd[q].step)'
  BY <1>1, NoCommandType DEF CommandInv, SameUpgrades, OnSystem, MacOS, Linux
<1>5. last' # "none" => \A q \in Command : Idle(q)'
  BY <1>1, <1>3 DEF CommandInv
<1>6. CommandInv'
  BY <1>2, <1>4, <1>5 DEF CommandInv
<1>7. AchievedInv'
  BY <1>4 DEF AchievedInv, Counts
<1>8. QED
  BY <1>6, <1>7

LEMMA ReportInv ==
  ASSUME CommandInv, NEW p \in Command, cmd[p].step # "none",
         NEW what \in {"installed", "checked", "removed"},
         Report(p, what), SameUpgrades, os' = os
  PROVE  /\ CommandInv' /\ AchievedInv'
         /\ begun' = begun
         /\ \/ last' = "none"
            \/ last' = what /\ Counts(p)
BY EndsInv DEF Report, Counts

(* While a command runs nothing that has been reported counts. *)
LEMMA NothingReported ==
  ASSUME CommandInv, NEW p \in Command, ~Idle(p)
  PROVE  last = "none"
BY DEF CommandInv

LEMMA Unreported ==
  ASSUME last' = "none" \/ last' = "repaired"
  PROVE  Truthful'
BY DEF Truthful, InstalledHolds, CheckedHolds, RemovedHolds

(* How a step leaves its command when it reports nothing. *)
GoesTo(p, step) ==
  /\ OnSystem(step) /\ step \in CommandStep
  /\ \/ GotoWarned(p, step)
     \/ Goto(p, step) /\ (Counts(p) => Achieved(step)')

Proceeds(p) ==
  /\ UNCHANGED history
  /\ Fail(p) \/ \E step \in CommandStep : GoesTo(p, step)

LEMMA ProceedsInv ==
  ASSUME SetupInv, NEW p \in Command, cmd[p].step # "none",
         SetupType', SystemInv', SameUpgrades, os' = os, Proceeds(p)
  PROVE  SetupInv'
<1>1. last' = last /\ last' = "none" /\ HistoryType'
  BY NothingReported DEF Proceeds, history, SetupInv, HistoryType, Idle
<1>2. Truthful'
  BY <1>1, Unreported
<1>3. CASE Fail(p)
  BY <1>1, <1>2, <1>3, EndsInv DEF SetupInv, Fail
<1>4. ASSUME NEW step \in CommandStep, GoesTo(p, step)
      PROVE  SetupInv'
  <2>1. CASE Goto(p, step) /\ (Counts(p) => Achieved(step)')
    BY <1>1, <1>2, <1>4, <2>1, GotoInv DEF SetupInv, GoesTo
  <2>2. CASE GotoWarned(p, step)
    BY <1>1, <1>2, <1>4, <2>2, GotoWarnedInv DEF SetupInv, GoesTo
  <2>3. QED
    BY <1>4, <2>1, <2>2 DEF GoesTo
<1>5. QED
  BY <1>3, <1>4 DEF Proceeds

Reported(p, what) == last' = what /\ Counts(p) => Truthful'

LEMMA ReportsInv ==
  ASSUME SetupInv, NEW p \in Command, cmd[p].step # "none",
         SetupType', SystemInv', SameUpgrades, os' = os,
         NEW what \in {"installed", "checked", "removed"}, Report(p, what),
         Reported(p, what)
  PROVE  SetupInv'
<1>1. CommandInv' /\ AchievedInv' /\ begun' = begun /\ (last' = "none" \/ (last' = what /\ Counts(p)))
  <2>1. CommandInv
    BY DEF SetupInv
  <2>2. QED
    BY <2>1, ReportInv
<1>2. HistoryType'
  BY <1>1 DEF SetupInv, HistoryType
<1>3. Truthful'
  BY <1>1, Unreported DEF Reported
<1>4. QED
  BY <1>1, <1>2, <1>3 DEF SetupInv

LEMMA OneSystem ==
  ASSUME SetupInv
  PROVE  (MacOS /\ ~Linux) \/ (Linux /\ ~MacOS)
BY SystemsAssumption DEF SetupInv, SetupType, MacOS, Linux

(* What is known of a command before one of its steps. *)
LEMMA Before ==
  ASSUME SetupInv, NEW p \in Command, NEW step \in CommandStep, At(p, step)
  PROVE  cmd[p].step # "none" /\ OnSystem(step) /\ (Counts(p) => Achieved(step))
<1>1. step # "none"
  BY DEF CommandStep
<1>2. QED
  BY <1>1 DEF SetupInv, CommandInv, AchievedInv, At

-----------------------------------------------------------------------------
(* bootstrap                                                               *)

LEMMA CheckInv ==
  ASSUME SetupInv, NEW p \in Command, Check(p)
  PROVE  SetupInv'
<1>1. SetupType' /\ SystemInv' /\ SameUpgrades /\ os' = os
  BY DEF Check, SetupInv, SetupType, SystemInv, SameUpgrades, MacOS,
     platform, setup, managed, resolver, upgradeVars
<1>2. CASE Healthy(p) /\ Goto(p, "fast")
  <2>1. Achieved("fast")'
    BY <1>2 DEF Check, Healthy, Achieved, Installed, Removed, MacOS,
       platform, setup, managed
  <2>2. GoesTo(p, "fast")
    BY <1>2, <2>1 DEF GoesTo, OnSystem, CommandStep
  <2>3. Proceeds(p)
    BY <2>2 DEF Proceeds, Check, GoesTo
  <2>4. QED
    BY <1>1, <2>3, Before, ProceedsInv DEF Check, At, CommandStep
<1>3. CASE Goto(p, "stop")
  <2>1. Achieved("stop")'
    BY DEF Achieved, Installed, Removed
  <2>2. GoesTo(p, "stop")
    BY <1>3, <2>1 DEF GoesTo, OnSystem, CommandStep
  <2>3. Proceeds(p)
    BY <2>2 DEF Proceeds, Check, GoesTo
  <2>4. QED
    BY <1>1, <2>3, Before, ProceedsInv DEF Check, At, CommandStep
<1>4. QED
  BY <1>2, <1>3 DEF Check

LEMMA StopExistingInv ==
  ASSUME SetupInv, NEW p \in Command, StopExisting(p)
  PROVE  SetupInv'
<1>1. SetupType' /\ SystemInv' /\ SameUpgrades /\ os' = os
  BY DEF StopExisting, SetupInv, SetupType, SystemInv, SameUpgrades, MacOS,
     platform, managed, resolver, upgradeVars
<1>2. GoesTo(p, "resolve") \/ Fail(p)
  <2>1. Achieved("resolve")'
    BY DEF Achieved, Installed, Removed
  <2>2. QED
    BY <2>1 DEF StopExisting, GoesTo, OnSystem, CommandStep
<1>3. Proceeds(p)
  BY <1>2 DEF Proceeds, StopExisting, GoesTo
<1>4. cmd[p].step # "none"
  BY DEF StopExisting, At
<1>5. QED
  BY <1>1, <1>3, <1>4, ProceedsInv

LEMMA EnsureInv ==
  ASSUME SetupInv, NEW p \in Command, Ensure(p)
  PROVE  SetupInv'
<1>1. SetupType' /\ SystemInv' /\ SameUpgrades /\ os' = os
  BY OneSystem DEF Ensure, SetupInv, SetupType, SystemInv, SameUpgrades, MacOS,
     platform, managed, upgradeVars
<1>2. PICK step \in {"fast", "resolve"} : cmd[p].step = step
  BY DEF Ensure
<1>3. step \in CommandStep /\ cmd[p].step # "none" /\ At(p, step)
  BY <1>2 DEF CommandStep, At
<1>4. OnSystem(step) /\ (Counts(p) => Achieved(step)')
  BY <1>2, <1>3, Before DEF OnSystem, Achieved, Installed, Removed, Ensure, managed, platform, MacOS
<1>5. ASSUME cmd' = cmd
      PROVE  Proceeds(p)
  <2>1. cmd[p] \in CommandRecord /\ cmd \in [Command -> CommandRecord]
    BY DEF SetupInv, CommandInv
  <2>2. [cmd[p] EXCEPT !.step = step] = cmd[p]
    BY <1>2, <2>1 DEF CommandRecord
  <2>3. Goto(p, step)
    BY <1>5, <2>1, <2>2 DEF Goto, Set
  <2>4. GoesTo(p, step)
    BY <1>3, <1>4, <2>3 DEF GoesTo
  <2>5. QED
    BY <1>3, <2>4 DEF Proceeds, Ensure, history
<1>6. Proceeds(p)
  BY <1>5 DEF Proceeds, Ensure, history
<1>7. QED
  BY <1>1, <1>3, <1>6, ProceedsInv

LEMMA ResolvedInv ==
  ASSUME SetupInv, NEW p \in Command, Resolved(p)
  PROVE  SetupInv'
<1>1. SetupType' /\ SystemInv' /\ SameUpgrades /\ os' = os
  BY DEF Resolved, SetupInv, SetupType, SystemInv, SameUpgrades, MacOS,
     platform, setup, managed, resolver, upgradeVars
<1>2. cmd[p].step # "none"
  BY DEF Resolved, At
<1>3. CASE files = Domains
  <2>1. PICK step \in {"unit", "capability"} :
          Goto(p, step) /\ (step = "unit" <=> MacOS)
    BY <1>3 DEF Resolved
  <2>2. OnSystem(step) /\ Achieved(step)'
    BY <1>3, <2>1, OneSystem DEF OnSystem, Achieved, Installed, Removed, Resolved, Linux, MacOS,
       platform, setup, resolver
  <2>3. GoesTo(p, step)
    BY <2>1, <2>2 DEF GoesTo, CommandStep
  <2>4. Proceeds(p)
    BY <2>3 DEF Proceeds, GoesTo, Resolved
  <2>5. QED
    BY <1>1, <1>2, <2>4, ProceedsInv
<1>4. CASE files # Domains
  <2>1. Fail(p) \/ (GotoWarned(p, "capability") /\ Linux)
    BY <1>4 DEF Resolved, GotoWarned
  <2>2. Fail(p) \/ GoesTo(p, "capability")
    BY <2>1 DEF GoesTo, OnSystem, CommandStep
  <2>3. Proceeds(p)
    BY <2>2 DEF Proceeds, GoesTo, Resolved
  <2>4. QED
    BY <1>1, <1>2, <2>3, ProceedsInv
<1>5. QED
  BY <1>3, <1>4

LEMMA FastReportInv ==
  ASSUME SetupInv, NEW p \in Command, FastReport(p)
  PROVE  SetupInv'
<1>1. SetupType' /\ SystemInv' /\ SameUpgrades /\ os' = os
  BY DEF FastReport, SetupInv, SetupType, SystemInv, SameUpgrades, MacOS,
     platform, setup, managed, resolver, upgradeVars
<1>2. cmd[p].step # "none" /\ (Counts(p) => Achieved("fast"))
  BY Before DEF FastReport, At, CommandStep
<1>3. CASE files = Domains /\ Report(p, "checked")
  <2>1. Reported(p, "checked")
    BY <1>2, <1>3 DEF Reported, Truthful, InstalledHolds, CheckedHolds, RemovedHolds,
       Achieved, Installed, FastReport, MacOS, platform, setup, managed, resolver
  <2>2. QED
    BY <1>1, <1>2, <1>3, <2>1, ReportsInv
<1>4. CASE Fail(p) /\ UNCHANGED history
  BY <1>1, <1>2, <1>4, ProceedsInv DEF Proceeds
<1>5. QED
  BY <1>3, <1>4 DEF FastReport

LEMMA SetCapabilityInv ==
  ASSUME SetupInv, NEW p \in Command, SetCapability(p)
  PROVE  SetupInv'
<1>1. SetupType' /\ SystemInv' /\ SameUpgrades /\ os' = os
  BY DEF SetCapability, SetupInv, SetupType, SystemInv, SameUpgrades, MacOS,
     platform, setup, managed, resolver
<1>2. /\ cmd[p].step # "none" /\ Linux
      /\ Counts(p) => files = Domains
  BY Before DEF SetCapability, At, CommandStep, OnSystem, Achieved, Installed
<1>3. PICK step \in {"user", "unit", "marker"} :
        \/ Goto(p, step) /\ (lowPort => capable)'
        \/ Fail(p)
  BY DEF SetCapability, AfterCapability, platform
<1>4. CASE Goto(p, step) /\ (lowPort => capable)'
  <2>1. OnSystem(step) /\ (Counts(p) => Achieved(step)')
    BY <1>2, <1>4, OneSystem DEF OnSystem, Achieved, Installed, Removed, SetCapability, setup, resolver
  <2>2. GoesTo(p, step)
    BY <1>4, <2>1 DEF GoesTo, CommandStep
  <2>3. Proceeds(p)
    BY <2>2 DEF Proceeds, GoesTo, SetCapability
  <2>4. QED
    BY <1>1, <1>2, <2>3, ProceedsInv
<1>5. CASE Fail(p)
  BY <1>1, <1>2, <1>5, ProceedsInv DEF Proceeds, SetCapability
<1>6. QED
  BY <1>3, <1>4, <1>5

LEMMA WriteMarkerInv ==
  ASSUME SetupInv, NEW p \in Command, WriteMarker(p)
  PROVE  SetupInv'
<1>1. SetupType' /\ SystemInv' /\ SameUpgrades /\ os' = os
  BY DEF WriteMarker, SetupInv, SetupType, SystemInv, SameUpgrades, MacOS,
     platform, setup, managed, resolver
<1>2. /\ cmd[p].step # "none" /\ Linux
      /\ Counts(p) => files = Domains /\ (lowPort => capable)
  BY Before DEF WriteMarker, At, CommandStep, OnSystem, Achieved, Installed
<1>3. PICK step \in {"user", "unit"} : Goto(p, step) \/ Fail(p)
  BY DEF WriteMarker, AfterCapability
<1>4. CASE Goto(p, step)
  <2>1. OnSystem(step) /\ (Counts(p) => Achieved(step)')
    BY <1>2, OneSystem DEF OnSystem, Achieved, Installed, Removed, WriteMarker,
       platform, setup, resolver
  <2>2. GoesTo(p, step)
    BY <1>4, <2>1 DEF GoesTo, CommandStep
  <2>3. Proceeds(p)
    BY <2>2 DEF Proceeds, GoesTo, WriteMarker
  <2>4. QED
    BY <1>1, <1>2, <2>3, ProceedsInv
<1>5. CASE Fail(p)
  BY <1>1, <1>2, <1>5, ProceedsInv DEF Proceeds, WriteMarker
<1>6. QED
  BY <1>3, <1>4, <1>5

LEMMA UserPassInv ==
  ASSUME SetupInv, NEW p \in Command, UserPass(p)
  PROVE  SetupInv'
<1>1. SetupType' /\ SystemInv' /\ SameUpgrades /\ os' = os
  BY DEF UserPass, SetupInv, SetupType, SystemInv, SameUpgrades, MacOS,
     platform, resolver, upgradeVars
<1>2. /\ cmd[p].step # "none" /\ Linux
      /\ Counts(p) => files = Domains /\ (lowPort => capable)
  BY Before DEF UserPass, At, CommandStep, OnSystem, Achieved, Installed
<1>3. CASE unit' = TRUE /\ service' = TRUE /\ Report(p, "installed")
  <2>1. Reported(p, "installed")
    BY <1>2, <1>3, OneSystem DEF Reported, Truthful, InstalledHolds, CheckedHolds, RemovedHolds,
       UserPass, MacOS, Linux, platform, resolver, upgradeVars, binary
  <2>2. QED
    BY <1>1, <1>2, <1>3, <2>1, ReportsInv
<1>4. CASE Fail(p) /\ UNCHANGED history
  BY <1>1, <1>2, <1>4, ProceedsInv DEF Proceeds
<1>5. QED
  BY <1>3, <1>4 DEF UserPass

LEMMA InstallUnitInv ==
  ASSUME SetupInv, NEW p \in Command, InstallUnit(p)
  PROVE  SetupInv'
<1>1. SetupType' /\ SystemInv' /\ SameUpgrades /\ os' = os
  BY DEF InstallUnit, SetupInv, SetupType, SystemInv, SameUpgrades, MacOS,
     platform, resolver, upgradeVars
<1>2. cmd[p].step # "none" /\ (Counts(p) => Achieved("unit"))
  BY Before DEF InstallUnit, At, CommandStep
<1>3. CASE unit' = TRUE /\ Goto(p, "load")
  <2>1. OnSystem("load") /\ (Counts(p) => Achieved("load")')
    BY <1>2, <1>3 DEF OnSystem, Achieved, Installed, Removed, InstallUnit, Linux,
       platform, resolver, upgradeVars, binary
  <2>2. GoesTo(p, "load")
    BY <1>3, <2>1 DEF GoesTo, CommandStep
  <2>3. Proceeds(p)
    BY <2>2 DEF Proceeds, GoesTo, InstallUnit
  <2>4. QED
    BY <1>1, <1>2, <2>3, ProceedsInv
<1>4. CASE Fail(p)
  BY <1>1, <1>2, <1>4, ProceedsInv DEF Proceeds, InstallUnit
<1>5. QED
  BY <1>3, <1>4 DEF InstallUnit

LEMMA LoadUnitInv ==
  ASSUME SetupInv, NEW p \in Command, LoadUnit(p)
  PROVE  SetupInv'
<1>1. SetupType' /\ SystemInv' /\ SameUpgrades /\ os' = os
  BY DEF LoadUnit, SetupInv, SetupType, SystemInv, SameUpgrades, MacOS,
     platform, resolver, upgradeVars
<1>2. cmd[p].step # "none" /\ (Counts(p) => Achieved("load"))
  BY Before DEF LoadUnit, At, CommandStep
<1>3. CASE service' = TRUE /\ Goto(p, IF MacOS THEN "agent" ELSE "version")
  <2>1. PICK step \in {"agent", "version"} : Goto(p, step) /\ (step = "agent" <=> MacOS)
    BY <1>3
  <2>2. OnSystem(step) /\ (Counts(p) => Achieved(step)')
    BY <1>2, <1>3, <2>1 DEF OnSystem, Achieved, Installed, Removed, LoadUnit, Linux, MacOS,
       platform, resolver, upgradeVars, binary
  <2>3. GoesTo(p, step)
    BY <2>1, <2>2 DEF GoesTo, CommandStep
  <2>4. Proceeds(p)
    BY <2>3 DEF Proceeds, GoesTo, LoadUnit
  <2>5. QED
    BY <1>1, <1>2, <2>4, ProceedsInv
<1>4. CASE Fail(p)
  BY <1>1, <1>2, <1>4, ProceedsInv DEF Proceeds, LoadUnit
<1>5. QED
  BY <1>3, <1>4 DEF LoadUnit

LEMMA InstallAgentInv ==
  ASSUME SetupInv, NEW p \in Command, InstallAgent(p)
  PROVE  SetupInv'
<1>1. cmd[p].step # "none" /\ MacOS /\ (Counts(p) => Achieved("agent"))
  BY Before DEF InstallAgent, At, CommandStep, OnSystem
<1>2. SetupType' /\ SystemInv' /\ SameUpgrades /\ os' = os
  BY <1>1 DEF InstallAgent, SetupInv, SetupType, SystemInv, SameUpgrades, MacOS,
     platform, managed, resolver, upgradeVars
<1>3. CASE agent' = [agent EXCEPT !.file = TRUE] /\ Goto(p, "loadagent")
  <2>1. agent'.file
    BY <1>3 DEF SetupInv, SetupType
  <2>2. OnSystem("loadagent") /\ (Counts(p) => Achieved("loadagent")')
    BY <1>1, <1>3, <2>1 DEF OnSystem, Achieved, Installed, Removed, InstallAgent, Linux, MacOS,
       platform, managed, resolver, upgradeVars, binary
  <2>3. GoesTo(p, "loadagent")
    BY <1>3, <2>2 DEF GoesTo, CommandStep
  <2>4. Proceeds(p)
    BY <2>3 DEF Proceeds, GoesTo, InstallAgent
  <2>5. QED
    BY <1>1, <1>2, <2>4, ProceedsInv
<1>4. CASE Fail(p)
  BY <1>1, <1>2, <1>4, ProceedsInv DEF Proceeds, InstallAgent
<1>5. QED
  BY <1>3, <1>4 DEF InstallAgent

LEMMA LoadAgentInv ==
  ASSUME SetupInv, NEW p \in Command, LoadAgent(p)
  PROVE  SetupInv'
<1>1. cmd[p].step # "none" /\ MacOS /\ (Counts(p) => Achieved("loadagent"))
  BY Before DEF LoadAgent, At, CommandStep, OnSystem
<1>2. PICK l \in BOOLEAN : agent' = [agent EXCEPT !.loaded = l]
  BY DEF LoadAgent
<1>3. agent' \in [file : BOOLEAN, loaded : BOOLEAN] /\ agent'.file = agent.file
  BY <1>2 DEF SetupInv, SetupType
<1>4. SetupType' /\ SystemInv' /\ SameUpgrades /\ os' = os
  BY <1>1, <1>3 DEF LoadAgent, SetupInv, SetupType, SystemInv, SameUpgrades, MacOS,
     platform, managed, resolver, upgradeVars
<1>5. CASE agent' = [agent EXCEPT !.loaded = TRUE] /\ Goto(p, "version")
  <2>1. agent'.loaded /\ agent'.file = agent.file
    BY <1>5 DEF SetupInv, SetupType
  <2>2. OnSystem("version") /\ (Counts(p) => Achieved("version")')
    BY <1>1, <1>5, <2>1 DEF OnSystem, Achieved, Installed, Removed, LoadAgent, Linux, MacOS,
       platform, managed, resolver, upgradeVars, binary
  <2>3. GoesTo(p, "version")
    BY <1>5, <2>2 DEF GoesTo, CommandStep
  <2>4. Proceeds(p)
    BY <2>3 DEF Proceeds, GoesTo, LoadAgent
  <2>5. QED
    BY <1>1, <1>4, <2>4, ProceedsInv
<1>6. CASE Fail(p)
  BY <1>1, <1>4, <1>6, ProceedsInv DEF Proceeds, LoadAgent
<1>7. QED
  BY <1>5, <1>6 DEF LoadAgent

LEMMA WriteVersionInv ==
  ASSUME SetupInv, NEW p \in Command, WriteVersion(p)
  PROVE  SetupInv'
<1>1. SetupType' /\ SystemInv' /\ SameUpgrades /\ os' = os
  BY DEF WriteVersion, SetupInv, SetupType, SystemInv, SameUpgrades, MacOS,
     platform, managed, resolver, upgradeVars
<1>2. cmd[p].step # "none" /\ (Counts(p) => Achieved("version"))
  BY Before DEF WriteVersion, At, CommandStep
<1>3. files = Domains /\ MacOS => active = Domains
  BY DEF SetupInv, SetupType, SystemInv
<1>4. Reported(p, "installed")
  BY <1>2, <1>3 DEF Reported, Truthful, InstalledHolds, CheckedHolds, RemovedHolds,
     Achieved, Installed, WriteVersion, MacOS, Linux, platform, managed, resolver, upgradeVars, binary
<1>5. QED
  BY <1>1, <1>2, <1>4, ReportsInv DEF WriteVersion

-----------------------------------------------------------------------------
(* uninstall                                                               *)

LEMMA EndDaemonInv ==
  ASSUME SetupInv, NEW p \in Command, EndDaemon(p)
  PROVE  SetupInv'
<1>1. SetupType' /\ SystemInv' /\ SameUpgrades /\ os' = os
  BY DEF EndDaemon, SetupInv, SetupType, SystemInv, SameUpgrades, MacOS,
     platform, managed, resolver, upgradeVars
<1>2. cmd[p].step # "none"
  BY DEF EndDaemon, At
<1>3. GoesTo(p, "rmunit")
  <2>1. OnSystem("rmunit") /\ Achieved("rmunit")'
    BY DEF OnSystem, Achieved, Installed, Removed
  <2>2. QED
    BY <2>1 DEF GoesTo, CommandStep, EndDaemon
<1>4. Proceeds(p)
  BY <1>3 DEF Proceeds, GoesTo, EndDaemon
<1>5. QED
  BY <1>1, <1>2, <1>4, ProceedsInv

LEMMA RemoveUnitInv ==
  ASSUME SetupInv, NEW p \in Command, RemoveUnit(p)
  PROVE  SetupInv'
<1>1. SetupType' /\ SystemInv' /\ SameUpgrades /\ os' = os
  BY DEF RemoveUnit, SetupInv, SetupType, SystemInv, SameUpgrades, MacOS,
     platform, resolver, upgradeVars
<1>2. cmd[p].step # "none"
  BY DEF RemoveUnit, At
<1>3. CASE unit' = FALSE /\ Goto(p, "rmagent")
  <2>1. OnSystem("rmagent") /\ Achieved("rmagent")'
    BY <1>3 DEF OnSystem, Achieved, Installed, Removed
  <2>2. GoesTo(p, "rmagent")
    BY <1>3, <2>1 DEF GoesTo, CommandStep
  <2>3. Proceeds(p)
    BY <2>2 DEF Proceeds, GoesTo, RemoveUnit
  <2>4. QED
    BY <1>1, <1>2, <2>3, ProceedsInv
<1>4. CASE Fail(p)
  BY <1>1, <1>2, <1>4, ProceedsInv DEF Proceeds, RemoveUnit
<1>5. QED
  BY <1>3, <1>4 DEF RemoveUnit

LEMMA RemoveAgentInv ==
  ASSUME SetupInv, NEW p \in Command, RemoveAgent(p)
  PROVE  SetupInv'
<1>1. cmd[p].step # "none" /\ (Counts(p) => Achieved("rmagent"))
  BY Before DEF RemoveAgent, At, CommandStep
<1>2. agent' \in [file : BOOLEAN, loaded : BOOLEAN] /\ (Linux => agent' = agent)
  <2>1. agent \in [file : BOOLEAN, loaded : BOOLEAN]
    BY DEF SetupInv, SetupType
  <2>2. CASE Linux
    BY <2>1, <2>2, OneSystem DEF RemoveAgent
  <2>3. CASE ~Linux
    <3>1. \/ agent' = [file |-> FALSE, loaded |-> FALSE] \/ agent' = agent
          \/ agent' = [agent EXCEPT !.file = FALSE] \/ agent' = [agent EXCEPT !.loaded = FALSE]
      BY DEF RemoveAgent
    <3>2. \A a \in [file : BOOLEAN, loaded : BOOLEAN] :
            /\ [a EXCEPT !.file = FALSE] \in [file : BOOLEAN, loaded : BOOLEAN]
            /\ [a EXCEPT !.loaded = FALSE] \in [file : BOOLEAN, loaded : BOOLEAN]
            /\ [file |-> FALSE, loaded |-> FALSE] \in [file : BOOLEAN, loaded : BOOLEAN]
      OBVIOUS
    <3>3. QED
      BY <2>1, <2>3, <3>1, <3>2
  <2>4. QED
    BY <2>2, <2>3
<1>3. SetupType' /\ SystemInv' /\ SameUpgrades /\ os' = os
  BY <1>2, OneSystem DEF RemoveAgent, SetupInv, SetupType, SystemInv, SameUpgrades, MacOS,
     platform, managed, resolver, upgradeVars
<1>4. CASE Goto(p, "rmresolvers") /\ ~agent'.file
  <2>1. OnSystem("rmresolvers") /\ (Counts(p) => Achieved("rmresolvers")')
    BY <1>1, <1>4 DEF OnSystem, Achieved, Installed, Removed, RemoveAgent, managed
  <2>2. GoesTo(p, "rmresolvers")
    BY <1>4, <2>1 DEF GoesTo, CommandStep
  <2>3. Proceeds(p)
    BY <2>2 DEF Proceeds, GoesTo, RemoveAgent
  <2>4. QED
    BY <1>1, <1>3, <2>3, ProceedsInv
<1>5. CASE GotoWarned(p, "rmresolvers")
  <2>1. GoesTo(p, "rmresolvers")
    BY <1>5 DEF GoesTo, OnSystem, CommandStep
  <2>2. Proceeds(p)
    BY <2>1 DEF Proceeds, GoesTo, RemoveAgent
  <2>3. QED
    BY <1>1, <1>3, <2>2, ProceedsInv
<1>6. GotoWarned(p, "rmresolvers") \/ (Goto(p, "rmresolvers") /\ ~agent'.file)
  <2>1. Linux => ~agent.file
    BY OneSystem DEF SetupInv, SystemInv
  <2>2. agent' = [agent EXCEPT !.file = FALSE] => ~agent'.file
    BY DEF SetupInv, SetupType
  <2>3. QED
    BY <1>2, <2>1, <2>2 DEF RemoveAgent
<1>7. QED
  BY <1>4, <1>5, <1>6

LEMMA RemoveResolversInv ==
  ASSUME SetupInv, NEW p \in Command, RemoveResolvers(p)
  PROVE  SetupInv'
<1>1. cmd[p].step # "none" /\ (Counts(p) => Achieved("rmresolvers"))
  BY Before DEF RemoveResolvers, At, CommandStep
<1>2. files' \subseteq files /\ active' \subseteq active /\ (files \subseteq active => files' \subseteq active')
  BY DEF RemoveResolvers
<1>3. SetupType' /\ SystemInv' /\ SameUpgrades /\ os' = os
  BY <1>2 DEF RemoveResolvers, SetupInv, SetupType, SystemInv, SameUpgrades, MacOS,
     platform, managed, upgradeVars
<1>4. CASE files' = {} /\ Goto(p, "rmversion")
  <2>1. OnSystem("rmversion") /\ (Counts(p) => Achieved("rmversion")')
    BY <1>1, <1>4 DEF OnSystem, Achieved, Installed, Removed, RemoveResolvers, managed
  <2>2. GoesTo(p, "rmversion")
    BY <1>4, <2>1 DEF GoesTo, CommandStep
  <2>3. Proceeds(p)
    BY <2>2 DEF Proceeds, GoesTo, RemoveResolvers
  <2>4. QED
    BY <1>1, <1>3, <2>3, ProceedsInv
<1>5. CASE GotoWarned(p, "rmversion")
  <2>1. GoesTo(p, "rmversion")
    BY <1>5 DEF GoesTo, OnSystem, CommandStep
  <2>2. Proceeds(p)
    BY <2>1 DEF Proceeds, GoesTo, RemoveResolvers
  <2>3. QED
    BY <1>1, <1>3, <2>2, ProceedsInv
<1>6. QED
  BY <1>4, <1>5 DEF RemoveResolvers

LEMMA RemoveVersionInv ==
  ASSUME SetupInv, NEW p \in Command, RemoveVersion(p)
  PROVE  SetupInv'
<1>1. cmd[p].step # "none" /\ (Counts(p) => Achieved("rmversion"))
  BY Before DEF RemoveVersion, At, CommandStep
<1>2. SetupType' /\ SystemInv' /\ SameUpgrades /\ os' = os
  BY DEF RemoveVersion, SetupInv, SetupType, SystemInv, SameUpgrades, MacOS,
     platform, managed, resolver, upgradeVars
<1>3. CASE version' = FALSE /\ Goto(p, "revoke")
  <2>1. OnSystem("revoke") /\ (Counts(p) => Achieved("revoke")')
    BY <1>1, <1>3 DEF OnSystem, Achieved, Installed, Removed, RemoveVersion, managed, resolver
  <2>2. GoesTo(p, "revoke")
    BY <1>3, <2>1 DEF GoesTo, CommandStep
  <2>3. Proceeds(p)
    BY <2>2 DEF Proceeds, GoesTo, RemoveVersion
  <2>4. QED
    BY <1>1, <1>2, <2>3, ProceedsInv
<1>4. CASE GotoWarned(p, "revoke")
  <2>1. GoesTo(p, "revoke")
    BY <1>4 DEF GoesTo, OnSystem, CommandStep
  <2>2. Proceeds(p)
    BY <2>1 DEF Proceeds, GoesTo, RemoveVersion
  <2>3. QED
    BY <1>1, <1>2, <2>2, ProceedsInv
<1>5. QED
  BY <1>3, <1>4 DEF RemoveVersion

LEMMA RevokeInv ==
  ASSUME SetupInv, NEW p \in Command, Revoke(p)
  PROVE  SetupInv'
<1>1. cmd[p].step # "none" /\ (Counts(p) => Achieved("revoke"))
  BY Before DEF Revoke, At, CommandStep
<1>2. SetupType' /\ SystemInv' /\ SameUpgrades /\ os' = os
  BY DEF Revoke, SetupInv, SetupType, SystemInv, SameUpgrades, MacOS,
     platform, setup, managed, resolver
<1>3. CASE Goto(p, "rmstate")
  <2>1. OnSystem("rmstate") /\ (Counts(p) => Achieved("rmstate")')
    BY <1>1, <1>3 DEF OnSystem, Achieved, Installed, Removed, Revoke, setup, managed, resolver
  <2>2. GoesTo(p, "rmstate")
    BY <1>3, <2>1 DEF GoesTo, CommandStep
  <2>3. Proceeds(p)
    BY <2>2 DEF Proceeds, GoesTo, Revoke
  <2>4. QED
    BY <1>1, <1>2, <2>3, ProceedsInv
<1>4. CASE GotoWarned(p, "rmstate")
  <2>1. GoesTo(p, "rmstate")
    BY <1>4 DEF GoesTo, OnSystem, CommandStep
  <2>2. Proceeds(p)
    BY <2>1 DEF Proceeds, GoesTo, Revoke
  <2>3. QED
    BY <1>1, <1>2, <2>2, ProceedsInv
<1>5. QED
  BY <1>3, <1>4 DEF Revoke

LEMMA RemoveStateInv ==
  ASSUME SetupInv, NEW p \in Command, RemoveState(p)
  PROVE  SetupInv'
<1>1. cmd[p].step # "none" /\ (Counts(p) => Achieved("rmstate"))
  BY Before DEF RemoveState, At, CommandStep
<1>2. SetupType' /\ SystemInv' /\ SameUpgrades /\ os' = os
  BY DEF RemoveState, SetupInv, SetupType, SystemInv, SameUpgrades, MacOS,
     platform, managed, resolver
<1>3. CASE version' = FALSE /\ marker' = "none" /\ Goto(p, "rmbinary")
  <2>1. OnSystem("rmbinary") /\ (Counts(p) => Achieved("rmbinary")')
    BY <1>1, <1>3 DEF OnSystem, Achieved, Installed, Removed, RemoveState, managed, resolver
  <2>2. GoesTo(p, "rmbinary")
    BY <1>3, <2>1 DEF GoesTo, CommandStep
  <2>3. Proceeds(p)
    BY <2>2 DEF Proceeds, GoesTo, RemoveState
  <2>4. QED
    BY <1>1, <1>2, <2>3, ProceedsInv
<1>4. CASE GotoWarned(p, "rmbinary")
  <2>1. GoesTo(p, "rmbinary")
    BY <1>4 DEF GoesTo, OnSystem, CommandStep
  <2>2. Proceeds(p)
    BY <2>1 DEF Proceeds, GoesTo, RemoveState
  <2>3. QED
    BY <1>1, <1>2, <2>2, ProceedsInv
<1>5. QED
  BY <1>3, <1>4 DEF RemoveState

LEMMA RemoveBinaryInv ==
  ASSUME UpgradeInv, SetupInv, NEW p \in Command, RemoveBinary(p)
  PROVE  SetupInv'
<1>1. cmd[p].step # "none" /\ (Counts(p) => Achieved("rmbinary"))
  BY Before DEF RemoveBinary, At, CommandStep
<1>2. SameUpgrades
  <2>1. CASE UNCHANGED upg
    BY <2>1 DEF SameUpgrades
  <2>2. CASE upg' = [q \in Command |-> [upg[q] EXCEPT !.at = IF @ = "exe" THEN Gone ELSE @]]
    <3>1. ASSUME NEW q \in Command
          PROVE  upg'[q].step = upg[q].step
      <4>1. upg[q] \in UpgradeRecord /\ upg'[q] = [upg[q] EXCEPT !.at = IF @ = "exe" THEN Gone ELSE @]
        BY <2>2, UpgradeTypes DEF UpgradeInv, UpgradesType
      <4>2. QED
        BY <4>1 DEF UpgradeRecord
    <3>2. QED
      BY <3>1 DEF SameUpgrades
  <2>3. QED
    BY <2>1, <2>2 DEF RemoveBinary
<1>3. SetupType' /\ SystemInv' /\ os' = os
  BY DEF RemoveBinary, SetupInv, SetupType, SystemInv, MacOS,
     platform, setup, managed, resolver
<1>4. Reported(p, "removed")
  BY <1>1 DEF Reported, Truthful, InstalledHolds, CheckedHolds, RemovedHolds,
     Achieved, Removed, RemoveBinary, setup, managed, resolver
<1>5. QED
  BY <1>1, <1>2, <1>3, <1>4, ReportsInv DEF RemoveBinary

-----------------------------------------------------------------------------
(* Commands that begin and end, the daemon, the system                     *)

LEMMA KilledInv ==
  ASSUME SetupInv, NEW p \in Command, Killed(p)
  PROVE  SetupInv'
<1>1. SetupType' /\ SystemInv' /\ SameUpgrades /\ os' = os
  BY DEF Killed, SetupInv, SetupType, SystemInv, SameUpgrades, MacOS,
     platform, setup, managed, resolver, upgradeVars
<1>2. Proceeds(p) /\ cmd[p].step # "none"
  BY DEF Proceeds, Killed, Fail, At
<1>3. QED
  BY <1>1, <1>2, ProceedsInv

(* No other command is alone once one has begun. *)
LEMMA AloneRecord ==
  ASSUME NEW c \in CommandRecord
  PROVE  /\ [c EXCEPT !.alone = FALSE] \in CommandRecord
         /\ [c EXCEPT !.alone = FALSE].step = c.step
         /\ ~[c EXCEPT !.alone = FALSE].alone
         /\ c = NoCommand => [c EXCEPT !.alone = FALSE] = NoCommand
<1>1. [c EXCEPT !.alone = FALSE] \in CommandRecord /\ [c EXCEPT !.alone = FALSE].step = c.step
  BY DEF CommandRecord
<1>2. ~[c EXCEPT !.alone = FALSE].alone
  BY DEF CommandRecord
<1>3. c = NoCommand => [c EXCEPT !.alone = FALSE] = NoCommand
  <2>1. ~c.alone => [c EXCEPT !.alone = FALSE] = c
    BY DEF CommandRecord
  <2>2. QED
    BY <2>1, NoCommandType
<1>4. QED
  BY <1>1, <1>2, <1>3

LEMMA BeginInv ==
  ASSUME SetupInv, NEW p \in Command, Begin(p)
  PROVE  SetupInv'
<1>1. SetupType' /\ SystemInv' /\ os' = os /\ upg' = upg
  BY DEF Begin, SetupInv, SetupType, SystemInv, MacOS,
     platform, setup, managed, resolver, upgradeVars
<1>2. HistoryType' /\ last' = "none"
  <2>1. NewCommand(p)
    BY DEF Begin
  <2>2. QED
    BY <2>1, SystemsAssumption DEF NewCommand, SetupInv, HistoryType
<1>3. Truthful'
  BY <1>2, Unreported
<1>4. PICK step \in {"check", "end"}, root \in BOOLEAN, flag \in BOOLEAN :
        cmd' = [q \in Command |-> IF q # p THEN [cmd[q] EXCEPT !.alone = FALSE]
                 ELSE [NoCommand EXCEPT !.step = step, !.root = root, !.flag = flag,
                                        !.alone = \A r \in Command : Idle(r)]]
  <2>1. PICK op \in {"bootstrap", "uninstall"}, root \in BOOLEAN, flag \in BOOLEAN :
          LET alone == \A q \in Command : Idle(q)
          IN  cmd' = [q \in Command |->
                       IF q # p THEN [cmd[q] EXCEPT !.alone = FALSE]
                       ELSE [NoCommand EXCEPT !.step = IF op = "bootstrap" THEN "check" ELSE "end",
                                              !.root = root, !.flag = flag, !.alone = alone]]
    BY DEF Begin
  <2>2. PICK step \in {"check", "end"} : step = IF op = "bootstrap" THEN "check" ELSE "end"
    OBVIOUS
  <2>3. cmd' = [q \in Command |-> IF q # p THEN [cmd[q] EXCEPT !.alone = FALSE]
                 ELSE [NoCommand EXCEPT !.step = step, !.root = root, !.flag = flag,
                                        !.alone = \A r \in Command : Idle(r)]]
    BY <2>1, <2>2, Zenon
  <2> QED
    BY <2>3
<1>5. /\ cmd'[p] \in CommandRecord /\ cmd'[p].step = step
      /\ cmd'[p].alone => \A q \in Command : Idle(q)
  <2>1. PICK alone \in BOOLEAN : alone <=> \A q \in Command : Idle(q)
    OBVIOUS
  <2>2. cmd'[p] = [step |-> step, root |-> root, flag |-> flag, warned |-> FALSE, alone |-> alone]
    BY <1>4, <2>1 DEF NoCommand
  <2>3. QED
    BY <2>1, <2>2 DEF CommandRecord, CommandStep
<1>6. ASSUME NEW q \in Command \ {p}
      PROVE  /\ cmd'[q] \in CommandRecord /\ cmd'[q].step = cmd[q].step /\ ~cmd'[q].alone
             /\ cmd[q] = NoCommand => cmd'[q] = NoCommand
  <2>1. cmd[q] \in CommandRecord /\ cmd'[q] = [cmd[q] EXCEPT !.alone = FALSE]
    BY <1>4 DEF SetupInv, CommandInv
  <2>2. QED
    BY <2>1, AloneRecord
<1>7. cmd' \in [Command -> CommandRecord]
  BY <1>4, <1>5, <1>6
<1>8. ASSUME NEW q \in Command
      PROVE  /\ cmd'[q].step = "none" => cmd'[q] = NoCommand
             /\ upg'[q].step # "none" => cmd'[q].step = "none"
             /\ cmd'[q].alone => \A r \in Command \ {q} : Idle(r)'
             /\ OnSystem(cmd[q].step)'
  BY <1>1, <1>5, <1>6 DEF SetupInv, CommandInv, OnSystem, MacOS, Linux, Idle, Begin, NewCommand
<1>9. CommandInv'
  BY <1>2, <1>7, <1>8 DEF CommandInv
<1>10. Achieved(step)'
  BY DEF Achieved, Installed, Removed
<1>11. AchievedInv'
  BY <1>5, <1>6, <1>10 DEF AchievedInv, Counts
<1>12. QED
  BY <1>1, <1>2, <1>3, <1>9, <1>11 DEF SetupInv

LEMMA UpgradesInv ==
  ASSUME UpgradeInv, SetupInv, NEW p \in Command, Upgrades(p)
  PROVE  SetupInv'
<1>1. SetupType' /\ SystemInv' /\ os' = os
  BY DEF Upgrades, SetupInv, SetupType, SystemInv, MacOS,
     platform, setup, managed, resolver
<1>2. CASE NewCommand(p) /\ BeginUpgrade(p)
                /\ cmd' = [q \in Command |-> [cmd[q] EXCEPT !.alone = FALSE]]
  <2>1. HistoryType' /\ last' = "none"
    BY <1>2, SystemsAssumption DEF NewCommand, SetupInv, HistoryType
  <2>2. Truthful'
    BY <2>1, Unreported
  <2>3. ASSUME NEW q \in Command
        PROVE  /\ cmd'[q] \in CommandRecord /\ cmd'[q].step = cmd[q].step /\ ~cmd'[q].alone
               /\ cmd[q] = NoCommand => cmd'[q] = NoCommand
    <3>1. cmd[q] \in CommandRecord /\ cmd'[q] = [cmd[q] EXCEPT !.alone = FALSE]
      BY <1>2 DEF SetupInv, CommandInv
    <3>2. QED
      BY <3>1, AloneRecord
  <2>4. cmd' \in [Command -> CommandRecord]
    BY <1>2, <2>3
  <2>5. \A q \in Command \ {p} : upg'[q].step = upg[q].step
    BY <1>2, UpgradeTypes DEF BeginUpgrade, Do, UpgradeInv, UpgradesType
  <2>6. cmd[p].step = "none"
    BY <1>2 DEF NewCommand, Idle
  <2>7. CommandInv'
    BY <1>1, <2>1, <2>3, <2>4, <2>5, <2>6 DEF SetupInv, CommandInv, OnSystem, MacOS, Linux
  <2>8. AchievedInv'
    BY <2>3 DEF AchievedInv, Counts
  <2>9. QED
    BY <1>1, <2>1, <2>2, <2>7, <2>8 DEF SetupInv
<1>3. CASE UpgradeStep(p) /\ UNCHANGED <<cmd, history>>
  <2>1. p \in Upgrading /\ \A q \in Command \ {p} : upg'[q].step = upg[q].step
    BY <1>3, OthersGoOn DEF UpgradeInv
  <2>2. ~Idle(p) /\ cmd[p].step = "none"
    BY <2>1 DEF Upgrading, Idle, SetupInv, CommandInv
  <2>3. last' = "none" /\ \A q \in Command : ~cmd[q].alone
    <3>1. last = "none" /\ \A q \in Command \ {p} : ~cmd[q].alone
      BY <2>2 DEF SetupInv, CommandInv
    <3>2. ~cmd[p].alone
      BY <2>2, NoCommandType DEF SetupInv, CommandInv
    <3>3. QED
      BY <1>3, <3>1, <3>2 DEF history
  <2>4. HistoryType' /\ Truthful'
    BY <1>3, <2>3, Unreported DEF SetupInv, HistoryType, history
  <2>5. CommandInv'
    BY <1>1, <1>3, <2>1, <2>2, <2>3 DEF SetupInv, CommandInv, OnSystem, MacOS, Linux
  <2>6. AchievedInv'
    BY <1>3, <2>3 DEF AchievedInv, Counts
  <2>7. QED
    BY <1>1, <2>4, <2>5, <2>6 DEF SetupInv
<1>4. QED
  BY <1>2, <1>3 DEF Upgrades

LEMMA DaemonChangesInv ==
  ASSUME SetupInv, DaemonStarts \/ DaemonDies \/ UNCHANGED vars
  PROVE  SetupInv'
<1>1. UNCHANGED <<platform, unit, service, agent, resolver, version, upgradeVars, cmd, history>>
  BY DEF DaemonStarts, DaemonDies, vars, setup, managed
<1>2. SetupType' /\ SystemInv' /\ HistoryType'
  <2>1. daemon' \in {"off", "on", "on again"}
    BY DEF SetupInv, SetupType, DaemonStarts, DaemonDies, vars, setup, managed
  <2>2. UNCHANGED <<os, lowPort, unit, service, agent, files, active, version, begun, last>>
    BY <1>1 DEF platform, resolver, history
  <2>3. SetupType' /\ HistoryType'
    BY <2>1, <2>2 DEF SetupInv, SetupType, HistoryType
  <2>4. SystemInv'
    BY <2>2 DEF SetupInv, SystemInv, MacOS
  <2> QED
    BY <2>3, <2>4
<1>3. CommandInv'
  BY <1>1 DEF SetupInv, CommandInv, OnSystem, Idle, MacOS, Linux, platform, upgradeVars, history
<1>4. AchievedInv'
  BY <1>1 DEF SetupInv, AchievedInv, Counts, Achieved, Installed, Removed, MacOS, Linux,
     platform, resolver, upgradeVars, binary
<1>5. Truthful'
  BY <1>1 DEF SetupInv, Truthful, InstalledHolds, CheckedHolds, RemovedHolds, MacOS, Linux,
     platform, resolver, upgradeVars, binary, history
<1>6. QED
  BY <1>2, <1>3, <1>4, <1>5 DEF SetupInv

LEMMA DaemonRepairsInv ==
  ASSUME SetupInv, DaemonRepairs
  PROVE  SetupInv'
<1>1. SetupType' /\ SystemInv' /\ os' = os /\ upg' = upg
  BY DEF DaemonRepairs, SetupInv, SetupType, SystemInv, MacOS, platform, resolver, upgradeVars
<1>2. /\ HistoryType' /\ (last' = "none" \/ last' = "repaired")
      /\ last' # "none" => last # "none"
  <2>1. begun' \in 0..MaxBegun
    <3>1. begun < MaxBegun /\ begun' = begun + 1
      BY DEF DaemonRepairs
    <3>2. QED
      BY <3>1, SystemsAssumption DEF SetupInv, HistoryType
  <2>2. (last' = "repaired" /\ last # "none") \/ last' = "none"
    BY DEF DaemonRepairs
  <2>3. QED
    BY <2>1, <2>2 DEF HistoryType
<1>3. Truthful'
  BY <1>2, Unreported
<1>4. ASSUME NEW q \in Command
      PROVE  /\ cmd'[q] \in CommandRecord /\ cmd'[q].step = cmd[q].step /\ ~cmd'[q].alone
             /\ cmd[q] = NoCommand => cmd'[q] = NoCommand
  <2>1. cmd[q] \in CommandRecord /\ cmd'[q] = [cmd[q] EXCEPT !.alone = FALSE]
    BY DEF DaemonRepairs, SetupInv, CommandInv
  <2>2. QED
    BY <2>1, AloneRecord
<1>5. cmd' \in [Command -> CommandRecord]
  BY <1>4 DEF DaemonRepairs
<1>6. CommandInv'
  BY <1>1, <1>2, <1>4, <1>5 DEF SetupInv, CommandInv, OnSystem, Idle, MacOS, Linux
<1>7. AchievedInv'
  BY <1>4 DEF AchievedInv, Counts
<1>8. QED
  BY <1>1, <1>2, <1>3, <1>6, <1>7 DEF SetupInv

LEMMA RebootKeeps ==
  ASSUME SetupInv, Reboot
  PROVE  SetupInv'
<1>1. agent' \in [file : BOOLEAN, loaded : BOOLEAN] /\ agent'.file = agent.file /\ agent'.loaded = agent.file
  BY DEF Reboot, SetupInv, SetupType
<1>2. SetupType' /\ SystemInv' /\ HistoryType' /\ os' = os
  BY <1>1 DEF Reboot, SetupInv, SetupType, SystemInv, HistoryType, MacOS, platform
<1>3. \A p \in Command : cmd'[p] = NoCommand /\ upg'[p] = NoUpgrade
  BY DEF Reboot
<1>4. cmd' \in [Command -> CommandRecord]
  BY NoCommandType DEF Reboot
<1>5. \A p \in Command : Idle(p)' /\ ~cmd'[p].alone /\ cmd'[p].step = "none" /\ upg'[p].step = "none"
  BY <1>3, NoCommandType DEF Idle, NoUpgrade
<1>6. CommandInv'
  BY <1>3, <1>4, <1>5 DEF CommandInv, OnSystem
<1>7. AchievedInv'
  BY <1>5 DEF AchievedInv, Counts
<1>8. Truthful'
  BY <1>1 DEF Reboot, SetupInv, Truthful, InstalledHolds, CheckedHolds, RemovedHolds, MacOS, Linux,
     platform, binary
<1>9. QED
  BY <1>2, <1>6, <1>7, <1>8 DEF SetupInv

-----------------------------------------------------------------------------

LEMMA InitSetupInv == Init => SetupInv
<1> SUFFICES ASSUME Init PROVE SetupInv
  OBVIOUS
<1>1. SetupType /\ HistoryType /\ SystemInv
  <2>1. SystemInv /\ HistoryType
    BY SystemsAssumption DEF Init, HistoryType, SystemInv
  <2>2. os \in Systems /\ lowPort \in BOOLEAN
    BY DEF Init
  <2>3. agent \in [file : BOOLEAN, loaded : BOOLEAN] /\ files \subseteq Domains /\ active \subseteq Domains
    BY DEF Init
  <2>4. QED
    BY <2>1, <2>2, <2>3 DEF Init, SetupType
<1>2. \A p \in Command : cmd[p] = NoCommand /\ upg[p].step = "none"
  BY DEF Init, UpgradeInit, NoUpgrade
<1>3. CommandInv
  BY <1>2, NoCommandType DEF Init, CommandInv, OnSystem
<1>4. AchievedInv
  BY <1>2, NoCommandType DEF AchievedInv, Counts
<1>5. Truthful
  BY DEF Init, Truthful, InstalledHolds, CheckedHolds, RemovedHolds
<1>6. QED
  BY <1>1, <1>3, <1>4, <1>5 DEF SetupInv

LEMMA SetupInvStep ==
  ASSUME UpgradeInv, SetupInv, [Next]_vars
  PROVE  SetupInv'
<1>1. ASSUME NEW p \in Command, Bootstrap(p)
      PROVE  SetupInv'
  BY <1>1, CheckInv, StopExistingInv, EnsureInv, ResolvedInv, FastReportInv, SetCapabilityInv,
     WriteMarkerInv, UserPassInv, InstallUnitInv, LoadUnitInv, InstallAgentInv, LoadAgentInv,
     WriteVersionInv DEF Bootstrap
<1>2. ASSUME NEW p \in Command, Uninstall(p)
      PROVE  SetupInv'
  BY <1>2, EndDaemonInv, RemoveUnitInv, RemoveAgentInv, RemoveResolversInv, RemoveVersionInv,
     RevokeInv, RemoveStateInv, RemoveBinaryInv DEF Uninstall
<1>3. ASSUME NEW p \in Command, Begin(p) \/ Upgrades(p) \/ Killed(p)
      PROVE  SetupInv'
  BY <1>3, BeginInv, UpgradesInv, KilledInv
<1>4. QED
  BY <1>1, <1>2, <1>3, DaemonChangesInv, DaemonRepairsInv, RebootKeeps DEF Next

(* What a command that is alone has achieved step by step, and what has been
   reported, stays true. *)
THEOREM SetupInvariance == Spec => []SetupInv
<1>1. UpgradeInv /\ SetupInv /\ [Next]_vars => SetupInv'
  BY SetupInvStep
<1>2. QED
  BY <1>1, InitSetupInv, UpgradeInvariance, PTL DEF Spec

(* Every variable of the installation keeps its type, and an upgrade is no other
   command. *)
THEOREM TypeCorrect == Spec => []TypeOK
<1>1. ASSUME UpgradeInv, SetupInv
      PROVE  TypeOK
  <2>1. \A p \in Command :
          /\ {cmd[p].root, cmd[p].flag, cmd[p].warned, cmd[p].alone} \subseteq BOOLEAN
          /\ upg[p].step # "none" => cmd[p] = NoCommand
    BY <1>1 DEF SetupInv, CommandInv, CommandRecord
  <2>2. \A p, q \in Command : cmd[p].alone => p = q \/ Idle(q)
    BY <1>1 DEF SetupInv, CommandInv
  <2>3. UpgradeTypeOK
    BY <1>1 DEF UpgradeInv
  <2>4. QED
    BY <1>1, <2>1, <2>2, <2>3 DEF TypeOK, SetupInv, SetupType, HistoryType
<1>2. QED
  BY <1>1, SetupInvariance, UpgradeInvariance, PTL

(* What bootstrap and uninstall report when they have ended well, and have met no
   other command, holds until the next command or repair: for any commands,
   domains and releases, whatever failed, was killed or was rebooted before. *)
THEOREM ReportsTruthful == Spec => []Truthful
<1>1. SetupInv => Truthful
  BY DEF SetupInv
<1>2. QED
  BY <1>1, SetupInvariance, PTL

=============================================================================
