CONSTANTS
  Width = 5
  Height = 3
  Maps <- MCMaps
  MaxRadius = 3
SPECIFICATION Spec
INVARIANTS
  RouteIsDrivable
  RouteIsShortest
  NoneIsUnreachable
