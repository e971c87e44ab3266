SPECIFICATION McpSpec
CONSTANTS
  srv = srv
  c1 = c1
  c2 = c2
  Servers = {srv}
  Calls = {c1, c2}
  Server <- ToSrv
  Conns = {o1, o2, o3}
  MaxCommands = 1
  None = None
INVARIANTS NoServerOrphaned NoPhantomCalls
PROPERTIES IdleServersClose CallsSettle
CHECK_DEADLOCK FALSE
