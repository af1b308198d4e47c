------------------------------- MODULE Switch -------------------------------
(***************************************************************************)
(* What the kill-switch promises its users: an atomic on/off state whose   *)
(* transitions alternate.  LiveLoop reasons with exactly this; KillSwitch  *)
(* implements it with threads, a lock and field-by-field writes.           *)
(***************************************************************************)
EXTENDS Naturals

VARIABLES ks, engagements

SwitchVars == <<ks, engagements>>

SwitchInit == ks = "disengaged" /\ engagements = 0

SwitchEngage ==
    /\ ks = "disengaged"
    /\ ks' = "engaged"
    /\ engagements' = engagements + 1

SwitchDisengage ==
    /\ ks = "engaged"
    /\ ks' = "disengaged"
    /\ UNCHANGED engagements

SwitchSpec == SwitchInit /\ [][SwitchEngage \/ SwitchDisengage]_SwitchVars
=============================================================================
