SPECIFICATION Spec
CONSTANTS
  GoodIds = {good, fresh1, fresh2}
  BadIds = {noHeader, forged}
  FreshIds = {fresh1, fresh2}
  NoId = NoId
  NoRequest = NoRequest
  LibraryStatuses = {400, 404, 413, 414, 500}
INVARIANTS LoggedUnderTheId
