CONSTANTS
  Names <- MCNames
  Requests <- MCRequests
  MaxArguments = 3
SPECIFICATION Spec
INVARIANTS TypeOK ObjectsDenote OneObject ComparisonOrders
CHECK_DEADLOCK FALSE
