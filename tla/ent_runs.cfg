\* Two schemas, every fault, two edits or interruptions. The developer may stop.
CONSTANTS
  order = order
  user = user
  update = update
  Model = {order, user}
  Rank <- TheRank
  MaxSegment = 4
  Method = {update}
  MaxEvents = 2
  Faults = {"io", "kill"}
SPECIFICATION Spec
INVARIANTS WiredCompiles OverwriteRepairs ProtoOnlyLostToCut MessagesFollowCodes
PROPERTY RunsKeepProtos
CHECK_DEADLOCK FALSE
