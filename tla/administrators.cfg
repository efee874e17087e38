SPECIFICATION Spec
CONSTANTS
  Users = {admin, ann}
  Default = admin
  Changes <- MCChanges
  MaxRequests = 3
INVARIANT SignedOutStays
PROPERTIES AdministratorStays
CHECK_DEADLOCK FALSE
