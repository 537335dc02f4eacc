\* Two IPs announce one name.
SPECIFICATION Spec
CONSTANTS
  i1 = i1
  i2 = i2
  i6 = i6
  name = name
  bad = bad
  IP = {i1, i2, i6}
  Port = {30000}
  Address = {name}
  Fold <- MCFold
  Request = {r1, r2}
  FromDisk = FromDisk
  NoServer = NoServer
  NoFile = NoFile
  NoError = NoError
  Announcement <- TwoServers
  ValidAddress = {name}
  Family <- MCFamily
  Answers <- MCAnswers
  AllowUpdateWithoutOld = TRUE
  PurgeTime = 0
  Validity = 1
  CleanupInterval = 1
  MaxTime = 0
INVARIANT OnlyTheMoreTrustedStays
