SPECIFICATION Spec
CONSTANTS
  IntText <- IntTexts
  FloatText <- FloatTexts
  Rank <- Ranks
  InternalDomain <- Domain
  NoRule = NoRule
  Names = {"database", "email", "file", "log"}
  PluginFiles <- Directories
  NoPlugin = NoPlugin
  RuleFiles <- Files
  Torn = Torn
  Scenarios <- TheScenarios
  Requests <- Asked
  MaxEdits = 1
  NoRun = NoRun
INVARIANTS
  FirstMatchDecides
  NumbersAsText
  SimulationTrue
  EveryToolFound
\* the simulation has ended
CHECK_DEADLOCK FALSE
