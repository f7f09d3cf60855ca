----------------------------- MODULE HomeGuard -----------------------------
(* What every tree of cod_behavior/cod_bt promises about low hit points:   *)
(* going home starts at one threshold, ends at another, and the robot is   *)
(* sent nowhere else in between.  The thresholds are those condition.h     *)
(* tests (:24, :77), neither those it logs, 150 and 300, nor the 30% of    *)
(* cod_behavior/README.md:38.                                              *)
EXTENDS Naturals, Sequences

VARIABLES
  hp,           \* the hit points read last
  retreating,   \* the robot is on its way home, or recovering there
  goals         \* the poses the tree published in its last tick

guardVars == <<hp, retreating, goals>>

GuardInit == hp = 400 /\ retreating = FALSE /\ goals = <<>>

\* Low hit points start the way home, restored ones end it.
Decided == retreating' = (hp' < IF retreating THEN 350 ELSE 210)

\* While the robot retreats, the last pose sent in a tick is home; otherwise
\* it is another place, except when the retreat has just ended.
Sends ==
  goals' # <<>> =>
    /\ retreating' => goals'[Len(goals')] = "home"
    /\ goals'[Len(goals')] = "home" => retreating \/ retreating'

GuardNext == Decided /\ Sends

GuardSpec == GuardInit /\ [][GuardNext]_guardVars
=============================================================================
