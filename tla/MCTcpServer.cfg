SPECIFICATION Spec
CONSTANTS
  Handlers = {h1, h2, h3}
  Fds = {f1, f2, f3}
  MaxConnections = 2
  NoFd = NoFd
INVARIANTS
  ConnectionLimit
  AcceptBaton
  DeferredHasWaker
  TablesAgree
PROPERTIES
  AcceptResumes
  TerminateSeen
  ImplementsAdmission
