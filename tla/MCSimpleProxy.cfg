CONSTANTS
  Clients = {c1, c2}
  Regexes = {"all", "miss", "bad"}
  Malformed = {"bad"}
  Hosts = {"h"}
  Ports = {"80"}
  Matching <- MCMatching
  Numbers = {1, 9}
  IntSpan = 8
  MaxRequests = 3
  MaxChecks = 1
SPECIFICATION Spec
PROPERTIES EditsAsShown InterceptsAsFiltered StopEndsProcess
CHECK_DEADLOCK FALSE
