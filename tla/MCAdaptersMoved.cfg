CONSTANTS
  None = None
  Inbox = Inbox
  TaskIds = {"t1", "t2", "t3", "t4", "t5", "t6", "t9"}
  ProjectIds = {"p1", "p2", "p3", "p9"}
  TagIds = {"g1", "g2", "g3", "g4", "g9"}
  FolderIds = {"f1", "f2", "f3", "f4", "f9"}
  PerspectiveIds = {"v1", "v2", "v3"}
  AttachmentIds = {"a1", "a2", "a3"}
  Today = 2
  Starts <- MCDocuments
  TaskArgs = {"t1", "t2", "t9"}
  ProjectArgs = {"p1", "p9"}
  TagArgs = {"g1", "g9"}
  FolderArgs = {"f1", "f2", "f9"}
  TaskLists <- MCTaskLists
  ProjectLists <- MCProjectLists
  MaxCalls = 1
SPECIFICATION AdapterSpec
CHECK_DEADLOCK FALSE
PROPERTIES
  MovedWhereAsked
