SPECIFICATION LetaSpec
CONSTANTS
  c1 = c1 c2 = c2 w1 = w1 w2 = w2 u1 = u1 u2 = u2 k1 = k1
  d1 = d1 d2 = d2 alpha = alpha
  Clients = {c1, c2}
  Wanted <- MCWanted
  NoSend = NoSend
  MaxSends = 2
  Workers = {w1, w2}
  Uids = {u1, u2}
  Keys = {k1}
  NoKey = NoKey
  Documents = {d1, d2}
  Words = {alpha}
  WordsIn <- MCWordsIn
  Batches <- MCBatches
  Times = {1, 2}
  NoIndex = NoIndex NoRequest = NoRequest NoAnswer = NoAnswer
  NoWorker = NoWorker NoStamp = NoStamp
  DocIdModulus = 16
  MaxDocuments = 8
  MayFail = TRUE
  MaxRequests = 4
SYMMETRY WorkerSymmetry
INVARIANTS OneCopyPerSend RetriedCreateIsOwn
