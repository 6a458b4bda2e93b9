\* Bridges and integrations over a server that restarts.
CONSTANTS
  Names <- MCNames
  Definitions <- MCDefinitions
  Safe <- MCSafe
  Requests = {a1, a2}
  Configs <- MCConfigs
  Frameworks = {"langchain", "vercel-ai", "openai-agents", "llamaindex"}
  MaxRegister = 2
  MaxRestarts = 1
  None = None
SYMMETRY Symmetry
SPECIFICATION Spec
CHECK_DEADLOCK FALSE
INVARIANT OnlyApprovedRuns
INVARIANT ListsAreRight
