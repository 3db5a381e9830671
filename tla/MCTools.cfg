CONSTANTS
  None = None
  Inbox = Inbox
  TaskIds = {"t1", "t2", "t3", "t4", "t5", "t6", "t7", "t8", "t9"}
  ProjectIds = {"p1", "p2", "p3", "p4", "p9"}
  TagIds = {"g1", "g2", "g3", "g4", "g5", "g6", "g9"}
  FolderIds = {"f1", "f2", "f3", "f4", "f9"}
  PerspectiveIds = {"v1", "v2", "v3", "v9"}
  AttachmentIds = {"a1", "a2", "a3", "a4"}
  Today = 2
  WaitingTag = "waiting"
  MaxIds = 4
  HardCap = 2
  TemplatesFolder = "Templates"
  Builtins = {"inbox", "flagged", "forecast", "projects", "tags"}
  Documents <- MCDocuments
  Keys <- MCKeys
  Callers = {"main", "rival"}
  Requests <- MCRequests
  MaxLost = 1
SPECIFICATION Spec
CHECK_DEADLOCK FALSE
INVARIANTS
  ListingsSettle
  DeclinedWroteNothing
PROPERTIES
  AnsweredIsDone
