\* A proto that the developer writes during a run whose commit fails.
CONSTANTS
  order = order
  user = user
  update = update
  Model = {order, user}
  Rank <- TheRank
  MaxSegment = 4
  Method = {update}
  MaxEvents = 2
  Faults = {"io", "kill"}
SPECIFICATION Spec
INVARIANT UserProtosSurvive
CHECK_DEADLOCK FALSE
