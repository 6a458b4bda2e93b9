\* The integrations with the client that the repository ships.
CONSTANTS
  Names <- MCNames
  Definitions <- MCDefinitions
  Safe <- MCSafe
  Requests = {a1, a2}
  Configs <- RealClient
  Frameworks = {"langchain", "vercel-ai", "openai-agents", "llamaindex"}
  MaxRegister = 3
  MaxRestarts = 1
  None = None
SYMMETRY Symmetry
SPECIFICATION Spec
CHECK_DEADLOCK FALSE
INVARIANT HookAsked
