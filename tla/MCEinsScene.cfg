SPECIFICATION Spec
CONSTANTS
  Machines <- SomeMachines
INVARIANTS
  FitsTheMachine
  ResourcesFit
  DrawsAreWhole
  PipelinesFit
  TexturesAreTheirOwn
PROPERTY
  SceneIsDrawn
CHECK_DEADLOCK FALSE
