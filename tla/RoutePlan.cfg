\* Every mesh of three sites, and a ring of four.
SPECIFICATION RefreshSpec
CONSTANTS
  Site = {0, 1, 2, 3}
  Measured <- SmallMeshes
INVARIANTS RefreshTypeOK PlanForwards
