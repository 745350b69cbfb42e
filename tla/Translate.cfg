CONSTANTS
  Clients = {"chat", "messages", "gemini", "responses"}
  Upstreams = {"chat", "messages", "gemini", "responses"}
  MaxTurns = 3
  MaxSettings = 2
  ToolChoices = {"auto", "none_", "required", "function"}
SPECIFICATION Spec
CHECK_DEADLOCK FALSE
INVARIANTS HistoryArrives PairingHolds AnswersArrive 
