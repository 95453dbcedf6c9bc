-------------------------- MODULE SolveStepProofs --------------------------
(***************************************************************************)
(* Proofs about SolveStep for any models, dofs, parameters and time steps  *)
(* and any number of steps.                                                *)
(***************************************************************************)
EXTENDS SolveStep, TLAPS

Places == {"out", "assembleResidual", "testResidual", "assembleMatrix", "solve",
           "corrector", "lumped"}
Outcomes == {"none", "converged", "not_converged", "singular"}

(* The types of what is counted and of what is updated in place.           *)
TypeInv ==
  /\ model \in Model /\ solver \in Solver
  /\ blocked \in SUBSET Dof /\ parameter \in Parameter /\ dt \in TimeStep
  /\ pc \in Places /\ outcome \in Outcomes
  /\ u \in Nat /\ moves \in Nat /\ stress \in Nat /\ u_store \in Nat /\ stress_store \in Nat
  /\ u <= moves /\ stress <= moves /\ u_store <= moves /\ stress_store <= moves
  /\ n_iter \in Nat /\ n_iter <= MaxIter + 1
  /\ pc # "out" => n_iter = 0 \/ n_iter < MaxIter
  /\ K.release \in Nat /\ J.release \in Nat \ {0}
  /\ factor = [s \in Solver |-> factor[s]]
  /\ \A s \in Solver : factor[s].release \in Int
  /\ k_release \in [Solver -> Int]
  /\ indexes = [dofs |-> indexes.dofs, release |-> indexes.release,
                previous |-> indexes.previous]
  /\ indexes.release \in Int /\ indexes.previous \in Int

(* What the releases say of factorisations, stiffness and boundary.        *)
ReleaseInv ==
  /\ \A s \in Solver :
       /\ factor[s].release <= J.release
       /\ factor[s].release = J.release => factor[s].system = J.system
       /\ k_release[s] <= K.release
  /\ indexes.previous \in {indexes.release - 1, indexes.release}
  /\ jacobian_release \in {0, J.release}

IInv == TypeInv /\ ReleaseInv

LEMMA InitIInv == Init => IInv
<1> SUFFICES ASSUME Init PROVE IInv
  OBVIOUS
<1> model \in Model /\ DOMAIN model.solvers # {}
  BY ModelAssumption DEF Init
<1>1. TypeInv
  BY MaxIterAssumption DEF Init, TypeInv, Solver, Places, Outcomes
<1>2. ReleaseInv
  BY DEF Init, ReleaseInv, Solver
<1> QED BY <1>1, <1>2 DEF IInv

(* assembleMatrix gives K and J new releases when it changes them.         *)
LEMMA AssembleReleases ==
  ASSUME IInv, AssembleMatrix
  PROVE  /\ K' = K \/ K'.release = K.release + 1
         /\ K'.release \in Nat /\ K.release <= K'.release
         /\ J' = J \/ J.release < J'.release
         /\ J'.release \in Nat \ {0} /\ J.release <= J'.release
         /\ jacobian_release' = J'.release
<1> USE DEF IInv, TypeInv, ReleaseInv
<1>1. K' = K \/ K'.release = K.release + 1
  BY DEF AssembleMatrix, AssembledK
<1> DEFINE j == AssembledJacobian(AssembledK)
<1>2. j = J \/ j.release = J.release + 1
  BY DEF AssembledJacobian
<1>3. J' = BoundaryApplied(j) /\ jacobian_release' = J'.release
  BY DEF AssembleMatrix
<1> HIDE DEF j
<1>4. J' = j \/ J'.release = j.release + 1
  BY <1>3 DEF BoundaryApplied
<1> QED BY <1>1, <1>2, <1>3, <1>4

LEMMA AssembleInv ==
  ASSUME IInv, AssembleMatrix, UNCHANGED <<model, factor, solver>>
  PROVE  /\ ReleaseInv'
         /\ K'.release \in Nat /\ J'.release \in Nat \ {0}
         /\ k_release' \in [Solver' -> Int]
         /\ indexes' = [dofs |-> indexes'.dofs, release |-> indexes'.release,
                        previous |-> indexes'.previous]
         /\ indexes'.release \in Int /\ indexes'.previous \in Int
<1> USE AssembleReleases
<1>1. Solver' = Solver /\ solver \in Solver
  BY DEF Solver, IInv, TypeInv
<1>2. k_release' = [k_release EXCEPT ![solver] = k_release'[solver]]
      /\ k_release'[solver] \in {k_release[solver], K'.release}
  BY <1>1 DEF AssembleMatrix, IInv, TypeInv
<1>3. k_release' \in [Solver' -> Int]
  BY <1>1, <1>2 DEF IInv, TypeInv
<1>4. \A s \in Solver : k_release'[s] <= K'.release
  BY <1>1, <1>2 DEF IInv, TypeInv, ReleaseInv
<1>5. indexes' = [dofs |-> indexes.dofs, release |-> indexes.release,
                  previous |-> indexes.release]
  BY DEF AssembleMatrix, IInv, TypeInv
<1>6. \A s \in Solver : /\ factor'[s].release <= J'.release
                        /\ factor'[s].release = J'.release => factor'[s].system = J'.system
  BY DEF IInv, TypeInv, ReleaseInv
<1>7. ReleaseInv'
  BY <1>1, <1>4, <1>5, <1>6 DEF ReleaseInv, IInv, TypeInv
<1> QED BY <1>3, <1>5, <1>7 DEF IInv, TypeInv

LEMMA NextIInv == IInv /\ [Next]_vars => IInv'
<1> SUFFICES ASSUME IInv, [Next]_vars PROVE IInv'
  OBVIOUS
<1> USE DEF program, state, matrices, control
<1>1. ASSUME NEW dofs \in SUBSET Dof, SetBlocked(dofs) PROVE IInv'
  BY <1>1 DEF SetBlocked, IInv, TypeInv, ReleaseInv, Solver
<1>2. ASSUME NEW x \in Parameter, SetParameter(x) PROVE IInv'
  BY <1>2 DEF SetParameter, IInv, TypeInv, ReleaseInv, Solver
<1>3. ASSUME NEW x \in TimeStep, SetTimeStep(x) PROVE IInv'
  BY <1>3 DEF SetTimeStep, IInv, TypeInv, ReleaseInv, Solver
<1>4. CASE ImposeDisplacement
  BY <1>4 DEF ImposeDisplacement, IInv, TypeInv, ReleaseInv, Solver
<1>5. ASSUME NEW s \in Solver, BeginStep(s) PROVE IInv'
  <2>1. TypeInv'
    BY <1>5, MaxIterAssumption
    DEF BeginStep, IInv, TypeInv, Solver, UpdateGlobalBlockedDofs, Places, Outcomes
  <2>2. ReleaseInv'
    BY <1>5 DEF BeginStep, IInv, TypeInv, ReleaseInv, Solver, UpdateGlobalBlockedDofs
  <2> QED BY <2>1, <2>2 DEF IInv
<1>6. CASE FirstResidual
  <2>1. CASE Type(solver) = "newton_raphson_modified"
    <3>1. AssembleMatrix /\ UNCHANGED <<model, factor, solver>>
      BY <1>6, <2>1 DEF FirstResidual
    <3> QED BY <1>6, <3>1, AssembleInv DEF FirstResidual, IInv, TypeInv, Solver, Places
  <2>2. CASE Type(solver) # "newton_raphson_modified"
    <3>1. TypeInv'
      BY <1>6, <2>2 DEF FirstResidual, IInv, TypeInv, Solver, Places
    <3>2. ReleaseInv'
      BY <1>6, <2>2 DEF FirstResidual, IInv, ReleaseInv, Solver
    <3> QED BY <3>1, <3>2 DEF IInv
  <2> QED BY <2>1, <2>2
<1>7. CASE ConvergedAtOnce
  BY <1>7 DEF ConvergedAtOnce, IInv, TypeInv, ReleaseInv, Solver, Places, Outcomes
<1>8. CASE NotConvergedAtOnce
  BY <1>8 DEF NotConvergedAtOnce, IInv, TypeInv, ReleaseInv, Solver, Places
<1>9. CASE IterationMatrix
  <2>1. CASE Type(solver) # "newton_raphson_modified"
    <3>1. AssembleMatrix /\ UNCHANGED <<model, factor, solver>>
      BY <1>9, <2>1 DEF IterationMatrix
    <3> QED BY <1>9, <3>1, AssembleInv DEF IterationMatrix, IInv, TypeInv, Solver, Places
  <2>2. CASE Type(solver) = "newton_raphson_modified"
    <3>1. TypeInv'
      BY <1>9, <2>2 DEF IterationMatrix, IInv, TypeInv, Solver, Places
    <3>2. ReleaseInv'
      BY <1>9, <2>2 DEF IterationMatrix, IInv, ReleaseInv, Solver
    <3> QED BY <3>1, <3>2 DEF IInv
  <2> QED BY <2>1, <2>2
<1>10. CASE SparseSolve
  <2>1. Solver' = Solver /\ solver \in Solver /\ UNCHANGED J
    BY <1>10 DEF SparseSolve, Solver, IInv, TypeInv
  <2>2. factor' = factor \/ factor' = [factor EXCEPT ![solver] = J]
    BY <1>10 DEF SparseSolve
  <2>3. /\ factor' = [s \in Solver |-> factor'[s]]
        /\ \A s \in Solver : factor'[s] \in {factor[s], J}
    BY <2>1, <2>2 DEF IInv, TypeInv
  <2>4. TypeInv'
    BY <1>10, <2>1, <2>3 DEF SparseSolve, IInv, TypeInv, Places
  <2>5. ReleaseInv'
    BY <1>10, <2>1, <2>3 DEF SparseSolve, IInv, TypeInv, ReleaseInv
  <2> QED BY <2>4, <2>5 DEF IInv
<1>11. CASE SingularMatrix
  BY <1>11 DEF SingularMatrix, Factorises, ReleaseAfterFailure, IInv, TypeInv, ReleaseInv,
               Solver, Places, Outcomes
<1>12. ASSUME NEW converged \in BOOLEAN, Corrector(converged) PROVE IInv'
  <2>1. ReleaseInv'
    BY <1>12 DEF Corrector, IInv, ReleaseInv, Solver
  <2>2. TypeInv'
    BY <1>12, MaxIterAssumption
    DEF Corrector, EndOfStep, StressAfter, IInv, TypeInv, Solver, Places, Outcomes
  <2> QED BY <2>1, <2>2 DEF IInv
<1>13. CASE LumpedSolve
  BY <1>13 DEF LumpedSolve, IInv, TypeInv, ReleaseInv, Solver, Places, Outcomes
<1>14. CASE UNCHANGED vars
  BY <1>14 DEF vars, IInv, TypeInv, ReleaseInv, Solver
<1> QED
  BY <1>1, <1>2, <1>3, <1>4, <1>5, <1>6, <1>7, <1>8, <1>9, <1>10, <1>11, <1>12, <1>13, <1>14
  DEF Next, Terminated

LEMMA IInvIsSolverInv == IInv => SolverInv
  BY DEF IInv, TypeInv, ReleaseInv, SolverInv, Places, Outcomes

(* A release that a solver has factorised, or has seen of K, tells whether *)
(* it is what there is now: lastValueRelease and k_release can be trusted. *)
THEOREM SolverInvariant == Spec => []SolverInv
<1>1. Spec => []IInv
  BY InitIInv, NextIInv, PTL DEF Spec
<1> QED BY <1>1, IInvIsSolverInv, PTL
-----------------------------------------------------------------------------
(* The places between the assembly of J and the end of an iteration.       *)
Assembled ==
  \/ pc \in {"solve", "corrector"}
  \/ Type(solver) = "newton_raphson_modified" /\ pc \in {"testResidual", "assembleMatrix"}

StepInv ==
  /\ pc # "out" => indexes.dofs = blocked
  /\ pc = "assembleResidual" => u = predicted /\ Type(solver) # "linear"
  /\ pc = "testResidual" => Residual(solver) /\ Type(solver) \notin {"linear", "lumped"}
  /\ pc = "lumped" => Type(solver) = "lumped"
  /\ Assembled => J.system = SystemToSolve /\ ~HasBlockedDOFsChanged
  /\ pc = "corrector" => factor[solver].system = J.system

(* What is kept from step to step when the tangent does not change.        *)
KeptInv ==
  model.elastic =>
    /\ assembled => K.tangent = <<parameter>>
    /\ k_release[solver] = K.release =>
         /\ J.system = [scheme |-> model.solvers[solver].scheme,
                        dt |-> IF Predicts(solver) THEN dt ELSE 0,
                        tangent |-> K.tangent, blocked |-> J.system.blocked]
         /\ ~HasBlockedDOFsChanged => J.system.blocked = indexes.dofs
    /\ pc = "out" => ~HasBlockedDOFsChanged

SystemInv == IInv /\ ReleasesSuffice(model) /\ StepInv /\ KeptInv

LEMMA OneSolver ==
  ASSUME ReleasesSuffice(model), model.elastic, IInv
  PROVE  /\ ~model.timeStepChanges
         /\ \A s \in Solver : s = solver
         /\ Type(solver) \in {"linear", "newton_raphson_modified", "newton_raphson"}
         /\ Residual(solver) => Type(solver) # "newton_raphson"
  BY DEF ReleasesSuffice, IInv, TypeInv, Solver, Type, Residual

LEMMA InitSystemInv ==
  ASSUME \A m \in Model : ReleasesSuffice(m)
  PROVE  Init => SystemInv
<1> SUFFICES ASSUME Init PROVE SystemInv
  OBVIOUS
<1>1. IInv /\ ReleasesSuffice(model)
  BY InitIInv DEF IInv, TypeInv
<1>2. StepInv
  BY DEF Init, StepInv, Assembled
<1>3. KeptInv
  BY <1>1 DEF Init, KeptInv, HasBlockedDOFsChanged, IInv, TypeInv, Solver
<1> QED BY <1>1, <1>2, <1>3 DEF SystemInv

(* Whatever assembleMatrix skips, it leaves the system of the step in J.   *)
LEMMA AssembledSystem ==
  ASSUME SystemInv, AssembleMatrix, indexes.dofs = blocked
  PROVE  /\ J'.system = [scheme |-> model.solvers[solver].scheme,
                         dt |-> IF Predicts(solver) THEN dt ELSE 0,
                         tangent |-> Tangent(u), blocked |-> blocked]
         /\ indexes'.dofs = indexes.dofs
         /\ indexes'.release = indexes'.previous
         /\ assembled'
         /\ model.elastic => K'.tangent = <<parameter>>
<1> DEFINE k == AssembledK
           filled == [system |-> [scheme |-> model.solvers[solver].scheme,
                                  dt |-> IF Predicts(solver) THEN dt ELSE 0,
                                  tangent |-> k.tangent, blocked |-> {}],
                      release |-> J.release + 1]
           j == AssembledJacobian(k)
<1>1. k.tangent = Tangent(u) /\ K' = k /\ J' = BoundaryApplied(j)
  BY DEF AssembleMatrix, AssembledK, SystemInv, KeptInv, Tangent
<1>2. indexes' = [dofs |-> indexes.dofs, release |-> indexes.release,
                  previous |-> indexes.release]
  BY DEF AssembleMatrix, SystemInv, IInv, TypeInv
<1>3. CASE DoesJNeedUpdate(k)
  <2>1. j = filled
    BY <1>3 DEF AssembledJacobian
  <2>2. filled.release # jacobian_release
    BY DEF SystemInv, IInv, TypeInv, ReleaseInv
  <2>3. J'.system = [filled.system EXCEPT !.blocked = @ \cup indexes.dofs]
    BY <1>1, <2>1, <2>2 DEF BoundaryApplied
  <2>4. J'.system = [scheme |-> model.solvers[solver].scheme,
                     dt |-> IF Predicts(solver) THEN dt ELSE 0,
                     tangent |-> Tangent(u), blocked |-> blocked]
    BY <1>1, <2>3
  <2> QED BY <1>1, <1>2, <2>4 DEF AssembleMatrix, Tangent
<1>4. CASE ~DoesJNeedUpdate(k)
  <2>1. k.release = k_release[solver] /\ ~HasBlockedDOFsChanged /\ j = J
    BY <1>4 DEF DoesJNeedUpdate, AssembledJacobian
  <2>2. k = K /\ model.elastic
    BY <2>1 DEF AssembledK, SystemInv, IInv, TypeInv, ReleaseInv
  <2>3. J.system = [scheme |-> model.solvers[solver].scheme,
                    dt |-> IF Predicts(solver) THEN dt ELSE 0,
                    tangent |-> Tangent(u), blocked |-> blocked]
    BY <1>1, <2>1, <2>2 DEF SystemInv, KeptInv
  <2>4. J'.system = J.system \/ J'.system = [J.system EXCEPT !.blocked = @ \cup indexes.dofs]
    BY <1>1, <2>1 DEF BoundaryApplied
  <2>5. J.system.blocked \cup indexes.dofs = blocked /\ J.system.blocked = blocked
    BY <2>3
  <2>6. [J.system EXCEPT !.blocked = blocked] = J.system
    BY <2>3
  <2>7. J'.system = J.system
    BY <2>4, <2>5, <2>6
  <2> QED BY <1>1, <1>2, <2>3, <2>7 DEF AssembleMatrix, Tangent
<1> QED BY <1>3, <1>4

LEMMA AssembleKeeps ==
  ASSUME SystemInv, AssembleMatrix, indexes.dofs = blocked,
         UNCHANGED <<model, program, solver, u, predicted>>, pc' # "out",
         Type(solver) = "newton_raphson_modified" => u = predicted
  PROVE  /\ KeptInv'
         /\ J'.system = SystemToSolve'
         /\ ~HasBlockedDOFsChanged'
         /\ indexes'.dofs = blocked'
<1> USE AssembledSystem DEF program
<1>1. J'.system = SystemToSolve'
  BY DEF SystemToSolve, Type, Predicts, Tangent
<1>2. indexes'.release = indexes'.previous
  OBVIOUS
<1>3. KeptInv'
  BY <1>2 DEF KeptInv, HasBlockedDOFsChanged, Predicts, Tangent
<1> QED BY <1>1, <1>2, <1>3 DEF HasBlockedDOFsChanged

LEMMA NextSystemInv == SystemInv /\ [Next]_vars => SystemInv'
<1> SUFFICES ASSUME SystemInv, [Next]_vars PROVE SystemInv'
  OBVIOUS
<1> USE DEF program, state, matrices, control
<1>a. IInv' /\ model' = model /\ ReleasesSuffice(model)'
  <2>1. IInv'
    BY NextIInv DEF SystemInv
  <2>2. model' = model
    BY DEF Next, vars, SetBlocked, SetParameter, SetTimeStep, ImposeDisplacement, BeginStep,
           FirstResidual, ConvergedAtOnce, NotConvergedAtOnce, IterationMatrix, SparseSolve,
           SingularMatrix, Corrector, LumpedSolve, Terminated
  <2> QED BY <2>1, <2>2 DEF SystemInv, ReleasesSuffice
<1>b. SUFFICES StepInv' /\ KeptInv'
  BY <1>a DEF SystemInv
<1> USE DEF SystemInv
<1>1. ASSUME NEW dofs \in SUBSET Dof, SetBlocked(dofs) PROVE StepInv' /\ KeptInv'
  BY <1>1 DEF SetBlocked, StepInv, KeptInv, Assembled, HasBlockedDOFsChanged, Predicts
<1>2. ASSUME NEW x \in Parameter, SetParameter(x) PROVE StepInv' /\ KeptInv'
  BY <1>2 DEF SetParameter, StepInv, KeptInv, Assembled, HasBlockedDOFsChanged, Predicts
<1>3. ASSUME NEW x \in TimeStep, SetTimeStep(x) PROVE StepInv' /\ KeptInv'
  BY <1>3, OneSolver DEF SetTimeStep, StepInv, KeptInv, Assembled, HasBlockedDOFsChanged
<1>4. CASE ImposeDisplacement
  BY <1>4 DEF ImposeDisplacement, StepInv, KeptInv, Assembled, HasBlockedDOFsChanged, Predicts
<1>5. ASSUME NEW s \in Solver, BeginStep(s) PROVE StepInv' /\ KeptInv'
  <2>1. StepInv'
    BY <1>5 DEF BeginStep, StepInv, Assembled, UpdateGlobalBlockedDofs, Type
  <2>2. CASE model.elastic
    <3>1. s = solver
      BY <1>5, <2>2, OneSolver
    <3>2. /\ indexes'.release = indexes'.previous => indexes'.dofs = indexes.dofs
          /\ ~HasBlockedDOFsChanged
      BY <1>5, <2>2
      DEF BeginStep, UpdateGlobalBlockedDofs, KeptInv, HasBlockedDOFsChanged, IInv, TypeInv
    <3> QED BY <1>5, <2>1, <3>1, <3>2 DEF BeginStep, KeptInv, HasBlockedDOFsChanged, Predicts
  <2>3. CASE ~model.elastic
    BY <1>a, <2>1, <2>3 DEF KeptInv
  <2> QED BY <2>2, <2>3, <1>a, <2>1 DEF KeptInv
<1>6. CASE FirstResidual
  <2>1. CASE Type(solver) = "newton_raphson_modified"
    <3>1. /\ AssembleMatrix /\ UNCHANGED <<model, program, solver, u, predicted>>
          /\ pc' \in {"testResidual", "assembleMatrix"} /\ indexes.dofs = blocked
          /\ u = predicted /\ (pc' = "testResidual" => Residual(solver))
      BY <1>6, <2>1 DEF FirstResidual, StepInv
    <3> QED BY <2>1, <3>1, AssembleKeeps DEF StepInv, Assembled, Type, Residual
  <2>2. CASE Type(solver) # "newton_raphson_modified"
    <3>1. UNCHANGED <<model, program, u, matrices, solver, predicted>> /\ ~Assembled'
          /\ pc' \in {"lumped", "testResidual", "assembleMatrix"}
      BY <1>6, <2>2 DEF FirstResidual, Assembled, Type
    <3>2. StepInv'
      BY <1>6, <2>2, <3>1 DEF FirstResidual, StepInv, Type, Residual
    <3>3. KeptInv'
      BY <3>1 DEF KeptInv, HasBlockedDOFsChanged, Predicts
    <3> QED BY <3>2, <3>3
  <2> QED BY <2>1, <2>2
<1>7. CASE ConvergedAtOnce
  <2>1. StepInv'
    BY <1>7 DEF ConvergedAtOnce, StepInv, Assembled
  <2>2. model.elastic => ~HasBlockedDOFsChanged
    BY <1>7, OneSolver DEF ConvergedAtOnce, StepInv, Assembled
  <2> QED BY <1>7, <2>1, <2>2 DEF ConvergedAtOnce, KeptInv, HasBlockedDOFsChanged, Predicts
<1>8. CASE NotConvergedAtOnce
  <2>1. KeptInv'
    BY <1>8 DEF NotConvergedAtOnce, KeptInv, HasBlockedDOFsChanged, Predicts
  <2>2. StepInv'
    BY <1>8 DEF NotConvergedAtOnce, StepInv, Assembled, HasBlockedDOFsChanged, Predicts, Type,
                SystemToSolve, Tangent
  <2> QED BY <2>1, <2>2
<1>9. CASE IterationMatrix
  <2>1. CASE Type(solver) # "newton_raphson_modified"
    <3>1. /\ AssembleMatrix /\ UNCHANGED <<model, program, solver, u, predicted>>
          /\ pc' = "solve" /\ indexes.dofs = blocked
      BY <1>9, <2>1 DEF IterationMatrix, StepInv
    <3> QED BY <2>1, <3>1, AssembleKeeps DEF StepInv, Assembled
  <2>2. CASE Type(solver) = "newton_raphson_modified"
    <3>1. /\ UNCHANGED <<model, program, solver, u, predicted, matrices>>
          /\ pc = "assembleMatrix" /\ pc' = "solve"
      BY <1>9, <2>2 DEF IterationMatrix
    <3>2. KeptInv'
      BY <3>1 DEF KeptInv, HasBlockedDOFsChanged, Predicts
    <3>3. StepInv'
      BY <2>2, <3>1 DEF StepInv, Assembled, HasBlockedDOFsChanged, SystemToSolve, Type,
                        Predicts, Tangent
    <3> QED BY <3>2, <3>3
  <2> QED BY <2>1, <2>2
<1>10. CASE SparseSolve
  <2>1. KeptInv'
    BY <1>10 DEF SparseSolve, KeptInv, HasBlockedDOFsChanged, Predicts
  <2>2. factor'[solver].system = J.system
    BY <1>10 DEF SparseSolve, Factorises, IInv, TypeInv, ReleaseInv
  <2>3. StepInv'
    BY <1>10, <2>2 DEF SparseSolve, StepInv, Assembled, HasBlockedDOFsChanged, SystemToSolve,
                       Type, Predicts, Tangent
  <2> QED BY <2>1, <2>3
<1>11. CASE SingularMatrix
  BY <1>11 DEF SingularMatrix, StepInv, KeptInv, Assembled, HasBlockedDOFsChanged, Predicts
<1>12. ASSUME NEW converged \in BOOLEAN, Corrector(converged) PROVE StepInv' /\ KeptInv'
  <2>1. /\ UNCHANGED <<model, program, matrices, factor, solver, predicted>>
        /\ pc = "corrector" /\ pc' \in {"out", "assembleMatrix"}
    BY <1>12 DEF Corrector
  <2>2. KeptInv'
    BY <2>1 DEF KeptInv, HasBlockedDOFsChanged, Predicts, StepInv, Assembled
  <2>3. StepInv'
    BY <2>1 DEF StepInv, Assembled, HasBlockedDOFsChanged, SystemToSolve, Type, Predicts,
                Tangent
  <2> QED BY <2>2, <2>3
<1>13. CASE LumpedSolve
  <2>1. ~model.elastic
    BY <1>13, OneSolver DEF LumpedSolve, StepInv
  <2> QED BY <1>13, <2>1 DEF LumpedSolve, StepInv, KeptInv, Assembled
<1>14. CASE UNCHANGED vars
  BY <1>14 DEF vars, StepInv, KeptInv, Assembled, HasBlockedDOFsChanged, SystemToSolve, Type,
               Residual, Predicts, Tangent
<1> QED
  BY <1>1, <1>2, <1>3, <1>4, <1>5, <1>6, <1>7, <1>8, <1>9, <1>10, <1>11, <1>12, <1>13, <1>14
  DEF Next, Terminated

(* Whatever is kept of K, J and their factorisation, what is solved is the *)
(* system of the step: in all models in which K is assembled anew, and in  *)
(* elastic ones with one solver that assembles J in each step.             *)
THEOREM SolverSolvesCurrentSystem ==
  ASSUME \A m \in Model : ReleasesSuffice(m)
  PROVE  Spec => []SolvesCurrentSystem
<1>1. Init => SystemInv
  BY InitSystemInv
<1>2. SystemInv => SolvesCurrentSystem
  BY DEF SystemInv, StepInv, Assembled, SolvesCurrentSystem
<1> QED BY <1>1, <1>2, NextSystemInv, PTL DEF Spec
-----------------------------------------------------------------------------
(* What has been stored, and what the stresses belong to, in a step.       *)
StoredInv ==
  /\ pc # "out" => <<u_store, stress_store>> = before
  /\ pc \in {"testResidual", "lumped"} => stress = u

LEMMA NextStoredInv == StoredInv /\ [Next]_vars => StoredInv'
  BY DEF StoredInv, program, state, matrices, control, Next, vars, SetBlocked, SetParameter,
         SetTimeStep, ImposeDisplacement, BeginStep, FirstResidual, ConvergedAtOnce,
         NotConvergedAtOnce, IterationMatrix, SparseSolve, SingularMatrix, Corrector,
         LumpedSolve, Terminated

(* A step that has converged ends with the stresses of its displacement,   *)
(* and one that has not with what was there before it.                     *)
THEOREM StepRestoresOrConverges == Spec => StateAfterStep
<1> DEFINE Ends == pc # "out" /\ pc' = "out" =>
                     /\ outcome' = "converged" => stress' = u'
                     /\ outcome' = "not_converged" => <<u', stress'>> = before
<1>1. Init => StoredInv
  BY DEF Init, StoredInv
<1>2. StoredInv /\ [Next]_vars => [Ends]_vars
  <2> SUFFICES ASSUME StoredInv, Next PROVE Ends
    OBVIOUS
  <2>1. CASE ConvergedAtOnce \/ LumpedSolve
    BY <2>1 DEF ConvergedAtOnce, LumpedSolve, StoredInv, state
  <2>2. ASSUME NEW converged \in BOOLEAN, Corrector(converged) PROVE Ends
    BY <2>2 DEF Corrector, EndOfStep, StressAfter, StoredInv
  <2>3. CASE SingularMatrix
    BY <2>3 DEF SingularMatrix
  <2>4. CASE /\ ~(ConvergedAtOnce \/ LumpedSolve \/ SingularMatrix)
             /\ \A converged \in BOOLEAN : ~Corrector(converged)
    BY <2>4 DEF Next, SetBlocked, SetParameter, SetTimeStep, ImposeDisplacement, BeginStep,
                FirstResidual, NotConvergedAtOnce, IterationMatrix, SparseSolve, Terminated,
                vars, control
  <2> QED BY <2>1, <2>2, <2>3, <2>4
<1> QED BY <1>1, <1>2, NextStoredInv, PTL DEF Spec, StateAfterStep
=============================================================================
