SPECIFICATION Spec

CONSTANTS
  d1 = d1
  d2 = d2
  Dof <- MCDof
  Parameter = {1, 2}
  TimeStep = {1}
  Model <- MCDocumented
  MaxIter = 1
  MaxSteps = 3
  MaxMoves = 1

INVARIANT
  SolvesCurrentSystem
