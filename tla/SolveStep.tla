----------------------------- MODULE SolveStep -----------------------------
(***************************************************************************)
(* A model's solveStep and what it caches.  The matrix J is filled from K  *)
(* by the integration scheme of the solver, gets the blocked dofs applied, *)
(* and is factorised by the sparse solver.  Each of the three is skipped   *)
(* when release numbers say that nothing has changed: K has one, J has     *)
(* one, and so has the list of blocked dofs; each user keeps a copy of     *)
(* those it has last seen.  All solvers of a model share K and J.          *)
(*                                                                         *)
(* A system is what a matrix was filled from: the scheme and its time      *)
(* step, the tangent, and the dofs whose rows are blocked.  Displacements, *)
(* tangents and stresses are named by the displacement they belong to; two *)
(* displacements are never the same.                                       *)
(***************************************************************************)
EXTENDS Integers

CONSTANTS
  Dof,        \* the degrees of freedom that may be blocked
  Parameter,  \* the values of the material's parameters
  TimeStep,   \* the time steps the program may set
  Model,      \* the models a run may have: materials, and solvers by name
  MaxIter,    \* max_iterations
  MaxSteps,   \* bound: the number of solve steps
  MaxMoves    \* bound: displacements up to which the program imposes another

(* A solver has a type (newton_raphson, newton_raphson_modified, linear or *)
(* lumped), a convergence_type, and an integration scheme; a material is   *)
(* elastic when its tangent does not depend on the displacement.           *)
ASSUME MaxIterAssumption == MaxIter \in Nat
ASSUME ModelAssumption ==
  \A m \in Model : m.elastic \in BOOLEAN /\ DOMAIN m.solvers # {}

VARIABLES
  model,      \* the model, chosen once
  blocked,    \* the blocked_dofs array the program sets
  parameter,  \* the parameters of the material
  dt,         \* the time step of the dynamic solvers
  u, moves,   \* the displacement, and how many there have been
  stress,     \* the displacement the stresses were computed for
  assembled,  \* was_stiffness_assembled
  K,          \* the stiffness: of what, and its release
  J,          \* the Jacobian: its system and its release
  jacobian_release,
  indexes,    \* global_blocked_dofs_indexes, with its release and the last
  k_release,  \* per solver, what its scheme has seen of K
  factor,     \* per solver, what is factorised and which release it was
  pc, solver, \* where the step is, and the solver that makes it
  n_iter,
  u_store, stress_store,  \* what beforeSolveStep has stored
  before,     \* history: displacement and stresses before the step
  predicted,  \* history: the displacement after the predictor
  outcome,    \* how the last step ended
  steps       \* the number of steps begun

program == <<blocked, parameter, dt>>
state == <<u, moves, stress>>
matrices == <<assembled, K, J, jacobian_release, indexes, k_release>>
control == <<pc, solver, n_iter, u_store, stress_store, before, predicted, outcome, steps>>
vars == <<model, program, state, matrices, factor, control>>

Solver == DOMAIN model.solvers
Type(s) == model.solvers[s].type
Residual(s) == model.solvers[s].convergence = "residual"
NewtonRaphson == {"newton_raphson", "newton_raphson_modified"}

NoSystem == [scheme |-> "none", dt |-> 0, tangent |-> <<>>, blocked |-> {}]

(* What the material's tangent is a tangent of.                            *)
Tangent(v) == IF model.elastic THEN <<parameter>> ELSE <<parameter, v>>

Init ==
  /\ model \in Model
  /\ blocked \in SUBSET Dof
  /\ parameter \in Parameter
  /\ dt \in TimeStep
  /\ u = 0 /\ moves = 0 /\ stress = 0
  /\ assembled = FALSE
  /\ K = [tangent |-> <<>>, release |-> 1]
  /\ J = [system |-> NoSystem, release |-> 1]
  /\ jacobian_release = 0
  /\ indexes = [dofs |-> {}, release |-> 0, previous |-> 0]
  /\ k_release = [s \in DOMAIN model.solvers |-> -1]
  /\ factor = [s \in DOMAIN model.solvers |-> [system |-> NoSystem, release |-> -1]]
  /\ pc = "out" /\ solver = CHOOSE s \in DOMAIN model.solvers : TRUE
  /\ n_iter = 0
  /\ u_store = 0 /\ stress_store = 0 /\ before = <<0, 0>> /\ predicted = 0
  /\ outcome = "none"
  /\ steps = 0

(* A definition named after a mistake is a wrong version of the next one.  *)
-----------------------------------------------------------------------------
(* What the program does between two steps.                                *)
SetBlocked(dofs) ==
  /\ pc = "out" /\ steps < MaxSteps
  /\ dofs # blocked
  /\ blocked' = dofs
  /\ UNCHANGED <<model, parameter, dt, state, matrices, factor, control>>

(* setParam, and the updateInternalParameters of the material.             *)
SetParameter(x) ==
  /\ pc = "out" /\ steps < MaxSteps
  /\ x # parameter
  /\ parameter' = x
  /\ assembled' = FALSE
  /\ UNCHANGED <<model, blocked, dt, state, K, J, jacobian_release, indexes, k_release,
                 factor, control>>

SetTimeStep(x) ==
  /\ pc = "out" /\ steps < MaxSteps
  /\ model.timeStepChanges
  /\ x # dt
  /\ dt' = x
  /\ UNCHANGED <<model, blocked, parameter, state, matrices, factor, control>>

ImposeDisplacement ==
  /\ pc = "out" /\ steps < MaxSteps
  /\ moves < MaxMoves
  /\ u' = moves + 1 /\ moves' = moves + 1
  /\ UNCHANGED <<model, program, stress, matrices, factor, control>>

(* The mistake of leaving the release as it is when a dof is unblocked.    *)
CountsBlockings(dofs) ==
  [dofs |-> dofs,
   release |-> indexes.release + (IF dofs \subseteq indexes.dofs THEN 0 ELSE 1),
   previous |-> indexes.release]

(* updateGlobalBlockedDofs: the list and its release, and the last release.*)
UpdateGlobalBlockedDofs(dofs) ==
  [dofs |-> dofs,
   release |-> indexes.release + (IF dofs = indexes.dofs THEN 0 ELSE 1),
   previous |-> indexes.release]

HasBlockedDOFsChanged == indexes.release # indexes.previous

(* The schemes that move the displacement before the step is solved.       *)
Predicts(s) == model.solvers[s].scheme # "pseudo_time"

(* beforeSolveStep, updateGlobalBlockedDofs and predictor.                 *)
BeginStep(s) ==
  /\ pc = "out" /\ steps < MaxSteps
  /\ steps' = steps + 1
  /\ solver' = s
  /\ before' = <<u, stress>>
  /\ u_store' = u /\ stress_store' = stress
  /\ indexes' = UpdateGlobalBlockedDofs(blocked)
  /\ moves' = IF Predicts(s) THEN moves + 1 ELSE moves
  /\ u' = IF Predicts(s) THEN moves + 1 ELSE u
  /\ predicted' = u'
  /\ n_iter' = 0
  /\ outcome' = "none"
  /\ pc' = IF Type(s) = "linear" THEN "assembleMatrix" ELSE "assembleResidual"
  /\ UNCHANGED <<model, program, stress, assembled, K, J, jacobian_release, k_release, factor>>

(* assembleStiffnessMatrix: K anew if the material says that it changed.   *)
AssembledK ==
  IF assembled /\ model.elastic THEN K
  ELSE [tangent |-> Tangent(u), release |-> K.release + 1]

(* The mistake of refilling J only for a new K.                            *)
NewStiffnessOnly(k) == k.release # k_release[solver]

(* does_j_need_update of the integration schemes.                          *)
DoesJNeedUpdate(k) == k.release # k_release[solver] \/ HasBlockedDOFsChanged

(* assembleJacobian: copyProfile and add.                                  *)
AssembledJacobian(k) ==
  IF ~DoesJNeedUpdate(k) THEN J
  ELSE [system |-> [scheme |-> model.solvers[solver].scheme,
                    dt |-> IF Predicts(solver) THEN dt ELSE 0,
                    tangent |-> k.tangent, blocked |-> {}],
        release |-> J.release + 1]

(* applyBoundary: the rows of the blocked dofs are overwritten, and those  *)
(* of dofs that were blocked before are lost already.                      *)
BoundaryApplied(j) ==
  IF j.release = jacobian_release /\ ~HasBlockedDOFsChanged THEN j
  ELSE [system |-> [j.system EXCEPT !.blocked = @ \cup indexes.dofs],
        release |-> j.release + 1]

(* assembleMatrix("J") of TimeStepSolverDefault.                           *)
AssembleMatrix ==
  LET k == AssembledK
  IN /\ K' = k
     /\ assembled' = TRUE
     /\ k_release' = [k_release EXCEPT ![solver] = IF DoesJNeedUpdate(k) THEN k.release ELSE @]
     /\ J' = BoundaryApplied(AssembledJacobian(k))
     /\ jacobian_release' = J'.release
     /\ indexes' = [indexes EXCEPT !.previous = indexes.release]

(* The first residual of the step computes the stresses; the modified      *)
(* iteration assembles its matrix here, once.                              *)
FirstResidual ==
  /\ pc = "assembleResidual"
  /\ stress' = u
  /\ IF Type(solver) = "newton_raphson_modified"
     THEN AssembleMatrix
     ELSE UNCHANGED matrices
  /\ pc' = IF Type(solver) = "lumped" THEN "lumped"
           ELSE IF Residual(solver) THEN "testResidual" ELSE "assembleMatrix"
  /\ UNCHANGED <<model, program, u, moves, factor, solver, n_iter, u_store, stress_store,
                 before, predicted, outcome, steps>>

(* The residual is small enough from the start, or it is not.              *)
ConvergedAtOnce ==
  /\ pc = "testResidual"
  /\ outcome' = "converged"
  /\ pc' = "out"
  /\ UNCHANGED <<model, program, state, matrices, factor, solver, n_iter, u_store,
                 stress_store, before, predicted, steps>>

NotConvergedAtOnce ==
  /\ pc = "testResidual"
  /\ pc' = "assembleMatrix"
  /\ UNCHANGED <<model, program, state, matrices, factor, solver, n_iter, u_store,
                 stress_store, before, predicted, outcome, steps>>

(* The body of the loop up to the sparse solver; solve_linear likewise,    *)
(* whose first residual comes after the matrix and, as solid mechanics     *)
(* can split it, takes K for the internal forces and computes no stresses. *)
IterationMatrix ==
  /\ pc = "assembleMatrix"
  /\ IF Type(solver) = "newton_raphson_modified"
     THEN UNCHANGED matrices
     ELSE AssembleMatrix
  /\ pc' = "solve"
  /\ UNCHANGED <<model, program, state, factor, solver, n_iter, u_store, stress_store,
                 before, predicted, outcome, steps>>

Factorises == factor[solver].release # J.release

(* SparseSolver::solve: factorise what has changed, and solve.             *)
SparseSolve ==
  /\ pc = "solve"
  /\ factor' = IF Factorises THEN [factor EXCEPT ![solver] = J] ELSE factor
  /\ pc' = "corrector"
  /\ UNCHANGED <<model, program, state, matrices, solver, n_iter, u_store, stress_store,
                 before, predicted, outcome, steps>>

(* The mistake of noting the release before the factorisation succeeds.    *)
NotedRelease == J.release

(* What last_value_release is when the factorisation throws.               *)
ReleaseAfterFailure == factor[solver].release

(* The factorisation finds the matrix singular and throws: the step ends   *)
(* here, and what was factorised before is gone.                           *)
SingularMatrix ==
  /\ pc = "solve"
  /\ Factorises
  /\ factor' = [factor EXCEPT ![solver] =
                  [system |-> NoSystem, release |-> ReleaseAfterFailure]]
  /\ outcome' = "singular"
  /\ pc' = "out"
  /\ UNCHANGED <<model, program, state, matrices, solver, n_iter, u_store, stress_store,
                 before, predicted, steps>>

(* The last residual: always, but for an iteration on the residual it is   *)
(* the one of the test.                                                    *)
EndOfStep(converged, stressNow, uNow) ==
  IF converged
  THEN outcome' = "converged" /\ u' = uNow /\ stress' = stressNow
  ELSE outcome' = "not_converged" /\ u' = u_store /\ stress' = stress_store

(* The mistake of a residual only for the next iteration.                  *)
StressIfNotConverged(converged, uNow) == IF converged /\ ~Residual(solver) THEN stress ELSE uNow

(* The displacement the stresses belong to after the residuals of an       *)
(* iteration, with the one at the end of the step.                         *)
StressAfter(converged, uNow) == uNow

(* corrector, residual and test: the loop goes on, or the step ends with   *)
(* afterSolveStep, which restores what was stored if it has failed.        *)
Corrector(converged) ==
  LET uNow == moves + 1
      ends == converged \/ n_iter + 1 >= MaxIter \/ Type(solver) = "linear"
      succeeds == Type(solver) = "linear" \/ (converged /\ n_iter + 1 <= MaxIter)
  IN /\ pc = "corrector"
     /\ moves' = uNow
     /\ n_iter' = n_iter + 1
     /\ IF ends
        THEN EndOfStep(succeeds, StressAfter(converged, uNow), uNow) /\ pc' = "out"
        ELSE u' = uNow /\ stress' = uNow /\ pc' = "assembleMatrix" /\ UNCHANGED outcome
     /\ UNCHANGED <<model, program, matrices, factor, solver, u_store, stress_store,
                    before, predicted, steps>>

(* NonLinearSolverLumped: no Jacobian, and the corrector of an explicit    *)
(* scheme leaves the displacement alone.                                   *)
LumpedSolve ==
  /\ pc = "lumped"
  /\ outcome' = "converged"
  /\ pc' = "out"
  /\ UNCHANGED <<model, program, state, matrices, factor, solver, n_iter, u_store,
                 stress_store, before, predicted, steps>>

Terminated == pc = "out" /\ steps = MaxSteps /\ UNCHANGED vars

Next ==
  \/ \E dofs \in SUBSET Dof : SetBlocked(dofs)
  \/ \E x \in Parameter : SetParameter(x)
  \/ \E x \in TimeStep : SetTimeStep(x)
  \/ ImposeDisplacement
  \/ \E s \in Solver : BeginStep(s)
  \/ FirstResidual
  \/ ConvergedAtOnce
  \/ NotConvergedAtOnce
  \/ IterationMatrix
  \/ SparseSolve
  \/ SingularMatrix
  \/ \E converged \in BOOLEAN : Corrector(converged)
  \/ LumpedSolve
  \/ Terminated

Spec == Init /\ [][Next]_vars

(* A model whose releases are enough: its stiffness is assembled anew each *)
(* time, or it has one solver, which assembles J in each of its steps and  *)
(* always with the same time step.                                         *)
ReleasesSuffice(m) ==
  m.elastic =>
    /\ ~m.timeStepChanges
    /\ \E s \in DOMAIN m.solvers :
         /\ DOMAIN m.solvers = {s}
         /\ \/ m.solvers[s].type \in {"linear", "newton_raphson_modified"}
            \/ m.solvers[s].type = "newton_raphson" /\ m.solvers[s].convergence = "solution"
-----------------------------------------------------------------------------
(* The releases tell what they are for: equal releases of J and of a       *)
(* factorisation mean that it is J which is factorised, nobody has seen a  *)
(* release that has not been, and J has had the boundary applied since it  *)
(* was filled.                                                             *)
SolverInv ==
  /\ model \in Model /\ solver \in Solver
  /\ blocked \in SUBSET Dof /\ parameter \in Parameter /\ dt \in TimeStep
  /\ pc \in {"out", "assembleResidual", "testResidual", "assembleMatrix", "solve",
             "corrector", "lumped"}
  /\ outcome \in {"none", "converged", "not_converged", "singular"}
  /\ u <= moves /\ stress <= moves /\ n_iter <= MaxIter + 1
  /\ \A s \in Solver :
       /\ factor[s].release <= J.release
       /\ factor[s].release = J.release => factor[s].system = J.system
       /\ k_release[s] <= K.release
  /\ indexes.previous \in {indexes.release - 1, indexes.release}
  /\ jacobian_release \in {0, J.release}

(* The system a solver has to solve: that of its own scheme and time step, *)
(* of the material as it is, for the displacement its type asks for, and   *)
(* with the dofs blocked that the program has blocked.                     *)
SystemToSolve ==
  [scheme |-> model.solvers[solver].scheme,
   dt |-> IF Predicts(solver) THEN dt ELSE 0,
   tangent |-> Tangent(IF Type(solver) = "newton_raphson_modified" THEN predicted ELSE u),
   blocked |-> blocked]

(* What has been solved is the system of this step, however long K, J and  *)
(* the factorisation have been kept: the displacements of all dofs that    *)
(* are not blocked are computed, those of the others are not.              *)
SolvesCurrentSystem ==
  pc = "corrector" => factor[solver].system = SystemToSolve

(* A step that has converged leaves the stresses of its displacement (as   *)
(* the comment on the last residual says), and one that has not leaves     *)
(* both as they were before it.                                            *)
StateAfterStep ==
  [][pc # "out" /\ pc' = "out" =>
       /\ outcome' = "converged" => stress' = u'
       /\ outcome' = "not_converged" => <<u', stress'>> = before]_vars
=============================================================================
