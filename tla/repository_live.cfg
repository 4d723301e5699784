SPECIFICATION Spec
CONSTANTS
  w1 = w1 w2 = w2 w3 = w3 u1 = u1 u2 = u2 k1 = k1
  d1 = d1 d2 = d2 d3 = d3 alpha = alpha beta = beta
  Workers = {w1, w2}
  Uids = {u1}
  Keys = {}
  NoKey = NoKey
  Documents = {d1, d2, d3}
  Words = {alpha, beta}
  WordsIn <- MCWordsIn
  Batches <- MCBatches
  Times = {1}
  NoIndex = NoIndex NoRequest = NoRequest NoAnswer = NoAnswer
  NoWorker = NoWorker NoStamp = NoStamp
  DocIdModulus = 16
  MaxDocuments = 8
  MayFail = TRUE
  MaxRequests = 3
PROPERTY EveryRequestAnswered
