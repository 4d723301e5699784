SPECIFICATION Spec
CONSTANTS
  Uids = {products}
  BadUids = {badUid}
  Keys = {id}
  None = None
  MaxFields = 3
INVARIANTS Inv AcceptsExactlyRequests CommandSaysWhatWasSent FirstBadFieldIsReported
CHECK_DEADLOCK FALSE
