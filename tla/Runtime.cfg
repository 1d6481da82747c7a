SPECIFICATION Spec
CONSTANTS
  Handlers = {h1, h2}
  Main = main
  Names = {"fork", "sink", "prep"}
  Inputs <- MCInputs
  Outputs <- MCOutputs
  Finite = {"prep"}
  Metered = {"sink"}
  BindingConfigs <- MCBindings
  ConfigFiles <- MCFiles
  MaxObjects = 2
  MaxQueues = 2
SYMMETRY Symmetry
CONSTRAINT Followed
INVARIANTS CountsAreLinks BindingsAreComplete ExistingIsListed
CHECK_DEADLOCK FALSE
