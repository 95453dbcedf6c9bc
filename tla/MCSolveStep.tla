---------------------------- MODULE MCSolveStep ----------------------------
(***************************************************************************)
(* One solver at a time with the cached matrices, for an elastic material; *)
(* all kinds of solvers together, on the shared matrices, for one whose    *)
(* stiffness is assembled anew each time.                                  *)
(***************************************************************************)
EXTENDS SolveStep, TLC

CONSTANTS d1, d2

Solve(type, convergence, scheme) ==
  [type |-> type, convergence |-> convergence, scheme |-> scheme]

Static == Solve("newton_raphson", "solution", "pseudo_time")
StaticOnResidual == Solve("newton_raphson", "residual", "pseudo_time")
Modified == Solve("newton_raphson_modified", "solution", "pseudo_time")
Linear == Solve("linear", "solution", "pseudo_time")
Implicit == Solve("newton_raphson", "solution", "newmark_beta")
Explicit == Solve("lumped", "solution", "central_difference")

Elastic(solve) ==
  [elastic |-> TRUE, timeStepChanges |-> FALSE, solvers |-> [only |-> solve]]

MCModel ==
  {Elastic(solve) : solve \in {Static, Modified, Linear, Implicit}} \cup
  {[elastic |-> FALSE, timeStepChanges |-> FALSE,
    solvers |-> [only |-> Modified]],
   [elastic |-> FALSE, timeStepChanges |-> TRUE,
    solvers |-> [static |-> StaticOnResidual, implicit |-> Implicit, explicit |-> Explicit]]}

(* The documented way to solve a static problem: the iteration ends on the *)
(* residual.                                                               *)
MCDocumented == {Elastic(StaticOnResidual)}

ASSUME MCModelAssumption ==
  /\ \A m \in MCModel : ReleasesSuffice(m)
  /\ \A m \in MCDocumented : ~ReleasesSuffice(m)

MCDof == {d1, d2}
DofSymmetry == Permutations(MCDof)
============================================================================
