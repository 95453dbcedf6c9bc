SPECIFICATION Spec

CONSTANTS
  d1 = d1
  d2 = d2
  Dof <- MCDof
  Parameter = {1, 2}
  TimeStep = {1, 2}
  Model <- MCModel
  MaxIter = 2
  MaxSteps = 3
  MaxMoves = 1

SYMMETRY DofSymmetry

INVARIANTS
  SolverInv
  SolvesCurrentSystem

PROPERTIES
  StateAfterStep
