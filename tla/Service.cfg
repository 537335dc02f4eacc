\* Three requests to one endpoint around one tick: overlapping verifications,
\* deletes, purges, crashes, refused addresses and another claimant.
SPECIFICATION SilenceSpec
CONSTANTS
  i1 = i1
  i2 = i2
  i6 = i6
  name = name
  bad = bad
  IP = {i1, i2}
  Port = {30000}
  Address = {name, bad}
  Fold <- MCFold
  Request = {r1, r2, r3}
  FromDisk = FromDisk
  NoServer = NoServer
  NoFile = NoFile
  NoError = NoError
  Announcement <- TwoClaimants
  ValidAddress = {name}
  Family <- MCFamily
  Answers <- SureAnswer
  AllowUpdateWithoutOld = TRUE
  PurgeTime = 0
  Validity = 1
  CleanupInterval = 1
  MaxTime = 1
SYMMETRY MCSymmetry
INVARIANTS
  TypeOK
  AddressAlwaysChecked
  ListedAreVerified
  NoForeignComplaints
  UpdatesNotCountedTwice
  AverageBelowTop
 
