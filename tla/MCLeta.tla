-------------------------------- MODULE MCLeta --------------------------------
(* An instance of Leta for TLC: one client ingests into an index, and the  *)
(* other creates one.                                                      *)
EXTENDS Leta, TLC

CONSTANTS c1, c2, w1, w2, u1, u2, k1, d1, d2, alpha

MCWordsIn == d1 :> <<alpha>> @@ d2 :> <<>>

MCBatches == {<<d1, d2>>}

MCWanted ==
    c1 :> [op |-> "ingest", uid |-> u1, batch |-> <<d1, d2>>]
      @@ c2 :> [op |-> "create", uid |-> u2, primaryKey |-> k1]

WorkerSymmetry == Permutations(Workers)
==============================================================================
