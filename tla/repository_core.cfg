SPECIFICATION Safety
CONSTANTS
  w1 = w1 w2 = w2 w3 = w3 u1 = u1 u2 = u2 k1 = k1
  d1 = d1 d2 = d2 d3 = d3 alpha = alpha beta = beta
  Workers = {w1, w2, w3}
  Uids = {u1, u2}
  Keys = {k1}
  NoKey = NoKey
  Documents = {d1, d2, d3}
  Words = {alpha, beta}
  WordsIn <- MCWordsIn
  Batches <- MCBatches
  Times = {1, 2}
  NoIndex = NoIndex NoRequest = NoRequest NoAnswer = NoAnswer
  NoWorker = NoWorker NoStamp = NoStamp
  DocIdModulus = 6
  MaxDocuments = 6
  MayFail = FALSE
  MaxRequests = 3
SYMMETRY WorkerSymmetry
INVARIANTS InvNoFailure FindableExactly CreatedOnce AnswersReportStored
PROPERTY ImplementsIndexStore
