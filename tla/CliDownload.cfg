SPECIFICATION FairSpec
CONSTANTS
  Users = {alice, bob, long}
  LongNames = {long}
  NoUser = NoUser
PROPERTY MenuAfterDownload
