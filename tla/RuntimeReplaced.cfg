SPECIFICATION Spec
CONSTANTS
  Handlers = {h1, h2}
  Main = main
  Names = {"fork", "sink"}
  Inputs <- MCInputs
  Outputs <- MCOutputs
  Finite = {"prep"}
  Metered = {"sink"}
  BindingConfigs <- MCBindings
  ConfigFiles <- NoFile
  MaxObjects = 2
  MaxQueues = 2
SYMMETRY Symmetry
CONSTRAINT NoneStarted
INVARIANT NoQueueIsReplaced
CHECK_DEADLOCK FALSE
