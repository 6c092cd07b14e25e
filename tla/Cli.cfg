SPECIFICATION Spec
CONSTANTS
  Users = {alice, bob, long}
  LongNames = {long}
  NoUser = NoUser
INVARIANTS TypeOK NoInvalidState SessionFitsPage
