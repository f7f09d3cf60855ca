---------------------------- MODULE BehaviorTree ----------------------------
(***************************************************************************)
(* How BehaviorTree.CPP v4 ticks the control nodes and decorators that the *)
(* trees of cod_behavior/cod_bt use.  The library is external: this is the *)
(* part of its behaviour cod_behavior.cpp:146 relies on.                   *)
(*                                                                         *)
(* Ticking a node takes a world w to a result: the node's status s and the *)
(* world w after it.  A world is a record with at least the field memory:  *)
(* for the name of a node that keeps something while its last status is    *)
(* RUNNING, the child a Sequence stopped at, or 1 for a leaf; 0 when the   *)
(* node is not running.                                                    *)
(*                                                                         *)
(* A control node is a chain of results, one for each child, in which at   *)
(* is the child that was ticked last.                                      *)
(***************************************************************************)
EXTENDS Naturals

Result(s, w) == [s |-> s, w |-> w, at |-> 0]
Success(w) == Result("SUCCESS", w)
Failure(w) == Result("FAILURE", w)
Running(w) == Result("RUNNING", w)

Test(b, w) == IF b THEN Success(w) ELSE Failure(w)

Remember(n, i, w) == [w EXCEPT !.memory[n] = i]

\* The nodes in names are halted: what they kept is forgotten.
Halt(names, w) ==
  [w EXCEPT !.memory = [n \in DOMAIN @ |-> IF n \in names THEN 0 ELSE @[n]]]

Child(i, result) == [result EXCEPT !.at = i]

\* Sequence n: children in order from the one it stopped at, until one does not
\* succeed.  below are the nodes below n.
ResumesAt(n, w) == IF w.memory[n] = 0 THEN 1 ELSE w.memory[n]

InOrder(n, w, i, before, result) ==
  IF before.s = "SUCCESS" /\ i >= ResumesAt(n, w) THEN Child(i, result) ELSE before

SequenceEnds(n, below, r) ==
  IF r.s = "RUNNING" THEN Running(Remember(n, r.at, r.w))
  ELSE Result(r.s, Halt({n} \cup below, r.w))

\* ReactiveSequence and ReactiveFallback: every tick starts at the first child
\* and goes on while a child returns status go; the child that runs is the only
\* one left running.  below[n] is the child that node n is below.
Then(i, go, before, result) == IF before.s = go THEN Child(i, result) ELSE before

ReactiveEnds(below, r) ==
  Result(r.s, Halt({n \in DOMAIN below : r.s # "RUNNING" \/ below[n] # r.at}, r.w))

Inverter(r) ==
  [r EXCEPT !.s = CASE @ = "SUCCESS" -> "FAILURE" [] @ = "FAILURE" -> "SUCCESS" [] OTHER -> @]

KeepRunningUntilFailure(r) == [r EXCEPT !.s = IF @ = "FAILURE" THEN @ ELSE "RUNNING"]
=============================================================================
