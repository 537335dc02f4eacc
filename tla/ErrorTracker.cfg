\* Two servers, both kinds of complaint, a few validity periods.
SPECIFICATION Spec
CONSTANTS
  ErrorKey = {k1, k2}
  ErrorInfo = {"warning", "error"}
  NoError = NoError
  Validity = 2
  MaxTime = 6
INVARIANT TypeOK
PROPERTY ImplementsBoard
