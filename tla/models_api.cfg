CONSTANTS
  Handlers = {h1, h2}
  Providers = {"p", "q"}
  Channels = {"c"}
  Bodies <- MCBodies
SPECIFICATION Spec
INVARIANTS
  TypeOK
  CreateIsAllOrNothing
PROPERTIES
  RollbackSparesTheUnwritten
  EveryRequestIsAnswered
