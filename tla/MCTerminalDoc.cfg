SPECIFICATION CommandSpec
CONSTANTS
  Lower <- MCLower
  Name = {"a", "A", "b", "s:"}
  ColonName = {"s:"}
  Param <- MCParam
  Encode <- MCEncode
  Nested = {"url", "http://"}
  Tracking = {"utm", "fbclid"}
  Malformed = {"bad"}
  Calls <- MCCalls
  Lines <- MCLines
INVARIANTS
  ZeroArgumentsReadStdin
