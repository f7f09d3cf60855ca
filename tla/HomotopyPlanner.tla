---------------------------- MODULE HomotopyPlanner ----------------------------
(***************************************************************************)
(* teb_local_planner's HomotopyClassPlanner, the local planner of Nav2     *)
(* that keeps several candidate trajectories (tebs), one per homotopy      *)
(* class, and drives along the best: one call of computeVelocityCommands   *)
(* is a cycle of the actions below, from "idle" to "idle".                 *)
(*                                                                         *)
(* tebs_ and equivalence_classes_ are two parallel containers.  A teb is   *)
(* an identity; its path is the class that is calculated for it once a     *)
(* cycle, since obstacles and robot move.  Costs are abstracted to which   *)
(* tebs have one: whether the hysteresis and the initial plan make a teb   *)
(* the cheapest is left open.  The classes' locks are read nowhere.        *)
(***************************************************************************)
EXTENDS Integers, Sequences, SequencesExt, FiniteSetsExt

CONSTANTS
  Classes,              \* classes a path may have, Invalid apart
  max_number_classes,
  max_number_plans_in_current_class,
  Invalid,              \* a signature that is not finite
  None                  \* a null pointer

ASSUME ClassesAssumption == Invalid \notin Classes /\ None \notin Classes \cup {Invalid}
ASSUME NumbersAssumption ==
  /\ max_number_classes \in Nat \ {0}
  /\ max_number_plans_in_current_class \in Nat \ {0}

\* Identities: the tebs of a cycle and the ones three pointers may keep alive.
Tebs == 1 .. max_number_classes + 4

ASSUME PointerAssumption == None \notin Tebs

VARIABLES
  pc,
  tebs_, equivalence_classes_,
  best_teb_, last_best_teb_, best_teb_eq_class_,
  initial_plan_teb_, initial_plan_eq_class_,
  class,       \* the class calculated last for the path of each teb in tebs_
  costed,      \* the tebs in tebs_ with a finite cost
  infeasible,  \* tebs this cycle's check found in collision
  command      \* the teb the last velocity was taken from

tebVars == <<tebs_, equivalence_classes_, class, costed>>
bestVars == <<best_teb_, last_best_teb_, best_teb_eq_class_>>
planVars == <<initial_plan_teb_, initial_plan_eq_class_>>
vars == <<pc, tebVars, bestVars, planVars, infeasible, command>>

Init ==
  /\ pc = "idle"
  /\ tebs_ = <<>> /\ equivalence_classes_ = <<>>
  /\ best_teb_ = None /\ last_best_teb_ = None /\ best_teb_eq_class_ = None
  /\ initial_plan_teb_ = None /\ initial_plan_eq_class_ = None
  /\ class = [t \in {} |-> None]
  /\ costed = {} /\ infeasible = {} /\ command = None

-----------------------------------------------------------------------------
(* The containers.                                                         *)

IsIn(t) == t \in ToSet(tebs_)

\* A signature that is not a number equals none.
IsEqual(c, d) == c = d /\ c \notin {Invalid, None}

NumTebsInClass(c, classes) == Cardinality({i \in DOMAIN classes : IsEqual(c, classes[i])})

\* Mutant: any class may have several tebs.
MutantIsNew(c, best_class, listed) == c # Invalid /\ listed < max_number_plans_in_current_class

\* addEquivalenceClassIfNew adds a class that is valid, and is not listed yet or the
\* best teb's with room for one more.
IsNew(c, best_class, listed) ==
  /\ c # Invalid
  /\ listed > 0 => IsEqual(best_class, c) /\ listed < max_number_plans_in_current_class

\* The address of a new teb: any that no pointer holds.
Fresh == Min(Tebs \ (ToSet(tebs_) \cup {best_teb_, last_best_teb_, initial_plan_teb_}))

SizesMatch == Len(equivalence_classes_) = Len(tebs_)

\* Mutant: the class of the last teb is removed.
MutantWithout(i, classes) == Front(classes)

\* classes without the one at i.
Without(i, classes) == RemoveAt(classes, i)

\* What is known of a teb goes with it.
ForgetOthers ==
  /\ class' = [t \in ToSet(tebs_') |-> class[t]]
  /\ costed' = costed \cap ToSet(tebs_')

\* removeTeb.
RemoveTeb(t) ==
  IF SizesMatch /\ IsIn(t)
  THEN LET i == CHOOSE j \in DOMAIN tebs_ : tebs_[j] = t
       IN  /\ tebs_' = RemoveAt(tebs_, i)
           /\ equivalence_classes_' = Without(i, equivalence_classes_)
           /\ ForgetOthers
  ELSE UNCHANGED tebVars

\* clearPlanner leaves the pointers to the best and the initial plan's teb.
ClearPlanner == tebs_' = <<>> /\ equivalence_classes_' = <<>> /\ ForgetOthers

-----------------------------------------------------------------------------
(* plan: the cycle's candidates.                                           *)

\* updateAllTEBs: tebs whose goal has moved too far are given up.
UpdateAllTEBs ==
  /\ pc = "idle" /\ pc' = "renew"
  /\ ClearPlanner \/ UNCHANGED tebVars
  /\ infeasible' = {} /\ command' = None
  /\ UNCHANGED <<bestVars, planVars>>

\* The last best teb goes to the front.
BestFirst ==
  IF IsIn(best_teb_)
  THEN LET i == CHOOSE j \in DOMAIN tebs_ : tebs_[j] = best_teb_
       IN  [tebs_ EXCEPT ![1] = best_teb_, ![i] = tebs_[1]]
  ELSE tebs_

\* The elements of seq at the positions kept.
Picked(seq, kept) ==
  LET stay == kept \cap DOMAIN seq
      At(i) == CHOOSE j \in stay : Cardinality({k \in stay : k <= j}) = i
  IN  [i \in 1 .. Cardinality(stay) |-> seq[At(i)]]

\* The places in BestFirst whose class is added; of each class the first are.
Added(paths, best_class) ==
  {i \in DOMAIN tebs_ :
     LET c == paths[BestFirst[i]]
     IN  IsNew(c, best_class, Cardinality({j \in 1 .. i - 1 : IsEqual(c, paths[BestFirst[j]])}))}

\* renewAndAnalyzeOldTebs without the detours: paths are the new classes.  The best
\* teb stays whatever its class, another only if its class is added.
RenewOldTebs ==
  /\ pc = "renew" /\ pc' = "detours"
  /\ \E paths \in [ToSet(tebs_) -> Classes \cup {Invalid}] :
       /\ best_teb_eq_class_' = IF IsIn(best_teb_) THEN paths[best_teb_] ELSE best_teb_eq_class_
       /\ LET new == Added(paths, best_teb_eq_class_')
              best == {i \in DOMAIN tebs_ : BestFirst[i] = best_teb_}
              classes == [i \in DOMAIN tebs_ |-> paths[BestFirst[i]]]
          IN  /\ tebs_' = Picked(BestFirst, new \cup best)
              /\ equivalence_classes_' = Picked(classes, new)
       /\ class' = [t \in ToSet(tebs_') |-> paths[t]]
       /\ costed' = costed \cap ToSet(tebs_')
  /\ UNCHANGED <<best_teb_, last_best_teb_, planVars, infeasible, command>>

\* The best teb stays.
MayKeep(kept) == \A i \in DOMAIN tebs_ : tebs_[i] = best_teb_ => i \in kept

\* deletePlansDetouringBackwards and randomlyDropTebs: any teb but the best may go.
\* The second walks through both containers at once, whatever their sizes, and may
\* (its probability is a parameter) drop every set that both together may: the
\* first, which removes nothing when the sizes differ (removeTeb), adds no outcome.
DropTebs ==
  /\ pc = "detours" /\ pc' = "initial"
  /\ \E kept \in SUBSET DOMAIN tebs_ :
       /\ MayKeep(kept)
       /\ DOMAIN tebs_ \ DOMAIN equivalence_classes_ \subseteq kept
       /\ tebs_' = Picked(tebs_, kept)
       /\ equivalence_classes_' = Picked(equivalence_classes_, kept)
       /\ ForgetOthers
  /\ UNCHANGED <<bestVars, planVars, infeasible, command>>

\* addAndInitNewTeb, with a path of class c.
AddAndInitNewTeb(c) ==
  IF IsNew(c, best_teb_eq_class_, NumTebsInClass(c, equivalence_classes_))
  THEN /\ equivalence_classes_' = Append(equivalence_classes_, c)
       /\ tebs_' = Append(tebs_, Fresh)
       /\ class' = [t \in ToSet(tebs_') |-> IF t = Fresh THEN c ELSE class[t]]
       /\ UNCHANGED costed
  ELSE UNCHANGED tebVars

\* The initial plan is injected.  The only caller (teb_local_planner_ros.cpp:353)
\* always passes one, so that plan's branch without it is never taken.
InjectInitialPlan ==
  /\ pc = "initial" /\ pc' = "explore"
  /\ \/ /\ Len(tebs_) >= max_number_classes
        /\ initial_plan_teb_' = None
        /\ UNCHANGED <<tebVars, initial_plan_eq_class_>>
     \/ /\ Len(tebs_) < max_number_classes
        /\ \E c \in Classes \cup {Invalid} :
             /\ AddAndInitNewTeb(c)
             /\ initial_plan_eq_class_' = c
             /\ initial_plan_teb_' = IF tebs_' # tebs_ THEN Last(tebs_') ELSE None
  /\ UNCHANGED <<bestVars, infeasible, command>>

\* createGraph and DepthFirst: a path from start to goal becomes a candidate.
ExplorePath ==
  /\ pc = "explore"
  /\ Len(tebs_) < max_number_classes
  /\ \E c \in Classes \cup {Invalid} : AddAndInitNewTeb(c)
  /\ UNCHANGED <<pc, bestVars, planVars, infeasible, command>>

\* The graph's paths are finitely many.  The threads of optimizeAllTEBs have one
\* teb each; a teb whose optimisation fails keeps the cost it had.
OptimizeAllTEBs ==
  /\ pc = "explore" /\ pc' = "select"
  /\ \E succeed \in SUBSET ToSet(tebs_) : costed' = costed \cup succeed
  /\ UNCHANGED <<tebs_, equivalence_classes_, bestVars, planVars, class, infeasible, command>>

-----------------------------------------------------------------------------
(* Selection.                                                              *)

\* Mutant: the sizes of the containers are not compared.
MutantInitialPlanTEB ==
  LET same == {i \in DOMAIN equivalence_classes_ :
                 IsEqual(equivalence_classes_[i], initial_plan_eq_class_)}
  IN  IF same # {} THEN tebs_[Min(same)] ELSE None

\* getInitialPlanTEB finds the teb of the initial plan, or the first of its class.
InitialPlanTEB ==
  IF IsIn(initial_plan_teb_) THEN initial_plan_teb_
  ELSE LET same == {i \in DOMAIN equivalence_classes_ :
                      IsEqual(equivalence_classes_[i], initial_plan_eq_class_)}
       IN  IF SizesMatch /\ same # {} THEN tebs_[Min(same)] ELSE None

\* selectBestTeb: the cheapest, unless switching away from the last is blocked.
SelectBestTeb ==
  /\ last_best_teb_' = IF IsIn(best_teb_) THEN best_teb_ ELSE None
  /\ \/ best_teb_' \in costed
     \/ costed = {} /\ best_teb_' = None
     \/ last_best_teb_' # None /\ best_teb_' = last_best_teb_'
  /\ initial_plan_teb_' = IF IsIn(initial_plan_teb_) THEN initial_plan_teb_ ELSE None
  /\ UNCHANGED <<best_teb_eq_class_, initial_plan_eq_class_>>

Select ==
  /\ pc = "select" /\ pc' = "check"
  /\ SelectBestTeb
  /\ UNCHANGED <<tebVars, infeasible, command>>

-----------------------------------------------------------------------------
(* computeVelocityCommands after plan.                                     *)

\* A cycle without a command starts again from nothing.
Fail ==
  /\ pc' = "idle" /\ ClearPlanner /\ command' = None

\* hasDiverged looks at the best teb.
Diverged ==
  /\ pc = "check" /\ best_teb_ # None /\ infeasible = {}
  /\ Fail
  /\ UNCHANGED <<bestVars, planVars, infeasible>>

\* Mutant: the best teb is never selected again.
MutantFindBestTeb == UNCHANGED <<bestVars, planVars>>

\* findBestTeb selects again when the best teb is gone.
FindBestTeb ==
  IF IsIn(best_teb_) THEN UNCHANGED <<bestVars, planVars>> ELSE SelectBestTeb

\* Mutant: the first teb is driven.
MutantBestTeb == Head(tebs_)

\* bestTeb.
BestTeb == IF Len(tebs_) = 1 THEN Head(tebs_) ELSE best_teb_'

\* isTrajectoryFeasible finds the best teb free of collisions; a velocity is taken
\* from it, unless it has none that is valid.
FeasibleTeb ==
  /\ pc = "check" /\ tebs_ # <<>>
  /\ FindBestTeb
  /\ best_teb_' \notin infeasible \cup {None}
  /\ \/ Fail
     \/ pc' = "idle" /\ command' = BestTeb /\ UNCHANGED tebVars
  /\ UNCHANGED infeasible

\* An infeasible teb is removed and the next best is tried, unless it was the last
\* cycle's best as well.
InfeasibleTeb ==
  /\ pc = "check" /\ tebs_ # <<>>
  /\ FindBestTeb
  /\ best_teb_' # None
  /\ infeasible' = infeasible \cup {best_teb_'}
  /\ IF last_best_teb_' = best_teb_' THEN Fail
     ELSE RemoveTeb(best_teb_') /\ UNCHANGED <<pc, command>>

NoTeb ==
  /\ pc = "check"
  /\ IF tebs_ = <<>> THEN UNCHANGED <<bestVars, planVars>>
     ELSE FindBestTeb /\ best_teb_' = None
  /\ Fail
  /\ UNCHANGED infeasible

-----------------------------------------------------------------------------
Cycle ==
  \/ RenewOldTebs \/ DropTebs \/ InjectInitialPlan
  \/ OptimizeAllTEBs \/ Select \/ FeasibleTeb \/ InfeasibleTeb \/ NoTeb

Next == UpdateAllTEBs \/ Cycle \/ ExplorePath \/ Diverged

Spec == Init /\ [][Next]_vars

\* One thread runs the cycle to its end; the controller need not start another.
FairSpec == Spec /\ WF_vars(Cycle)

-----------------------------------------------------------------------------
(* What the planner promises.                                              *)

\* homotopy_class_planner.cpp:220-262, 531-545, 731-751: the two containers stay
\* parallel, whatever was erased from them: each class is that of the teb at its
\* place, unless the best teb has an invalid one, which is not listed.
ClassesAreAligned ==
  \/ SizesMatch /\ \A i \in DOMAIN tebs_ : equivalence_classes_[i] = class[tebs_[i]]
  \/ /\ Len(tebs_) = Len(equivalence_classes_) + 1
     /\ class[Head(tebs_)] = Invalid
     /\ best_teb_ = Head(tebs_) \/ last_best_teb_ = Head(tebs_)

\* homotopy_class_planner.cpp:506-549, 595-603: the teb whose cost is lowered for the
\* sake of the initial plan is of the class last calculated for such a plan.
PrefersPlansClass ==
  pc \in {"explore", "select", "check"} /\ InitialPlanTEB # None =>
    class[InitialPlanTEB] = initial_plan_eq_class_

\* homotopy_class_planner.cpp:195-217: the candidates are at most as many as
\* configured, and two of a class only in the best teb's, within its own limit.
\* (With an invalid class, dropping a teb drops another's class, which may then be
\* taken for new.)
CandidatesAreDistinct ==
  /\ Len(tebs_) <= max_number_classes
  /\ SizesMatch => \A c \in Classes :
       LET same == {t \in ToSet(tebs_) : class[t] = c}
       IN  Cardinality(same) <= IF c = best_teb_eq_class_
                                THEN max_number_plans_in_current_class ELSE 1

\* homotopy_class_planner.cpp:699-729, homotopy_class_planner.h:210: the velocity
\* is taken from the teb that was checked, after any number of others was removed.
CommandIsFeasible ==
  command # None => command = best_teb_ /\ IsIn(command) /\ command \notin infeasible

\* homotopy_class_planner.cpp:699-751: the search for a feasible teb ends, since
\* every infeasible one is removed, as long as no path was invalid.
CycleEnds ==
  pc = "check" ~> pc = "idle" \/ ~SizesMatch

\* homotopy_class_planner.h:237, "Removes the specified teb and the corresponding
\* homotopy class from the list of available ones": an infeasible teb is gone.
InfeasibleIsRemoved == \A t \in infeasible : ~IsIn(t)
=============================================================================
