CONSTANTS
  Conns = {c1, c2}
  NoConn = NoConn
  schema = schema
  t1 = t1
  Tables = {schema, t1}
  Schema = schema
  Handles = {h1, h2}
  NoHandle = NoHandle
  NoTable = NoTable
  NoRequest = NoRequest
  Requests <- ReqAll
  MaxRows = 2
SPECIFICATION FairSpec
PROPERTIES
  WaiterWakes
  GraphSpec
  ClosedIsForgotten
INVARIANTS
  TablesIsolated
  NoWaitCycle
  BlockerWillAnnounce
  NoLostWakeup
  CallbackNeverStuck
