CONSTANTS
  Conns = {c1, c2, c3}
  NoConn = NoConn
  schema = schema
  t1 = t1
  Tables = {schema, t1}
  Schema = schema
  Handles = {h1, h2, h3}
  NoHandle = NoHandle
  NoTable = NoTable
  NoRequest = NoRequest
  Requests <- ReqAll
  MaxRows = 1
SPECIFICATION Spec
SYMMETRY Interchangeable
INVARIANTS
  TypeOK
  TablesIsolated
  WriterKnown
  PendingHasReaders
  NoWaitCycle
  BlockerWillAnnounce
  NoLostWakeup
  CallbackNeverStuck
  BlockedListOK
