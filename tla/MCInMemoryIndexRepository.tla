---------------------- MODULE MCInMemoryIndexRepository ----------------------
(* Instances of InMemoryIndexRepository for TLC.                           *)
EXTENDS InMemoryIndexRepository, TLC

CONSTANTS w1, w2, w3, u1, u2, k1, d1, d2, d3, alpha, beta

(* d1 repeats a word after another one, d2 shares one word with d1, and d3 *)
(* has no searchable text at all.                                          *)
MCWordsIn == d1 :> <<alpha, beta, alpha>> @@ d2 :> <<alpha>> @@ d3 :> <<>>

(* Two batches of different length that begin with the same document.      *)
MCBatches == {<<d1, d2>>, <<d1>>}

(* A batch whose documents share no word with each other.                  *)
MCFailingBatches == {<<d1, d3>>, <<d2>>}

WorkerSymmetry == Permutations(Workers)
==============================================================================
