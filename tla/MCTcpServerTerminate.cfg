SPECIFICATION BusySpec
CONSTANTS
  Handlers = {h1, h2}
  Fds = {f1, f2}
  MaxConnections = 1
  NoFd = NoFd
PROPERTIES
  HeartbeatTerminates
