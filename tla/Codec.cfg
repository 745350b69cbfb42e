CONSTANTS
  Calls = {"c1", "c2"}
  CustomCalls = {"c2"}
  MaxTokens = 4
SPECIFICATION TSpec
CHECK_DEADLOCK FALSE
INVARIANTS ClientsUnderstand TokensAreConserved
 
