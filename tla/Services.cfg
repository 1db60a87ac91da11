SPECIFICATION PartSpec
CONSTANTS
  Configs = {a, b}
  Units = {u, v}
  Clients = {c}
  question = question
  approval = approval
  Settings <- MCSettings
SYMMETRY Symmetry
CHECK_DEADLOCK FALSE
INVARIANTS
  ClosedMeansReleased
  AnswerIsRecorded
  ViewsAreTrue
  ClientsAreTold
  WorkspacesAreTrue
PROPERTIES
  CancelStopsGeneration
