----------------------------- MODULE Executable -----------------------------
(***************************************************************************)
(* What `dnsvard upgrade` promises of the installed executable.  It is a   *)
(* whole release at any time and is replaced in one step, by an older one  *)
(* only if a user has agreed.  The promise holds for one upgrade after the *)
(* other: upgrades that overlap may leave anything.                        *)
(* Source: runUpgrade and installBinary in cmd/dnsvard/cmd_upgrade.go, and *)
(* src/README.md, section Upgrade.                                         *)
(***************************************************************************)
EXTENDS Naturals

CONSTANTS Release,   \* versions in their order; 0 is a build that has none
          Torn, Gone,
          Command

VARIABLES installed, \* a release, Torn or Gone
          running,   \* upgrades under way
          willing,   \* those whose user accepts an older release
          mixed      \* the upgrades under way have met another one, or a removal

vars == <<installed, running, willing, mixed>>

Init ==
  /\ installed \in Release
  /\ running = {} /\ willing = {}
  /\ mixed = FALSE

Start(p) ==
  /\ installed \in Release
  /\ p \notin running
  /\ running' = running \cup {p}
  /\ willing' \in {willing, willing \cup {p}}
  /\ mixed' = (running # {})
  /\ UNCHANGED installed

Replace(p) ==
  /\ p \in running
  /\ installed \in Release /\ ~mixed
  /\ installed' \in {r \in Release : p \in willing \/ r > installed}
  /\ UNCHANGED <<running, willing, mixed>>

(* A reboot ends all. *)
End(gone) ==
  /\ gone \subseteq running
  /\ running' = running \ gone
  /\ willing' = willing \ gone
  /\ UNCHANGED <<installed, mixed>>

(* What upgrades that have met may do to the executable. *)
Meddle ==
  /\ running # {} /\ mixed
  /\ installed' \in Release \cup {Torn}
  /\ UNCHANGED <<running, willing, mixed>>

(* uninstall --remove *)
Remove ==
  /\ installed' = Gone
  /\ mixed' = (mixed \/ running # {})
  /\ UNCHANGED <<running, willing>>

Next ==
  \/ \E p \in Command : Start(p) \/ Replace(p)
  \/ \E gone \in SUBSET Command : End(gone)
  \/ Meddle
  \/ Remove

Spec == Init /\ [][Next]_vars

=============================================================================
