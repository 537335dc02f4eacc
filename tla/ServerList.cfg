\* The list, its two files and their recovery; Save is retried until both
\* files are written.
SPECIFICATION FairSpec
CONSTANTS
  i1 = i1
  i2 = i2
  r1 = r1
  r2 = r2
  name = name
  IP = {i1, i2}
  Port = {30000}
  Address = {name}
  Fold <- MCFold
  Request = {r1, r2}
  FromDisk = FromDisk
  NoServer = NoServer
  NoFile = NoFile
  None = None
  Submitted <- MCSubmitted
  Cutoffs <- MCCutoffs
INVARIANTS
  TypeOK
  UniqueKey
  CleanMeansSaved
PROPERTIES
  PublishOnlyStored
  PeakServersNeverFall
  PeakClientsNeverFall
  ImplementsTable
  ChangesAreSaved
