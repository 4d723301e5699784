SPECIFICATION Spec
CONSTANTS
  Threads = {t1, t2}
  Connections = {c1, c2, c3}
  NoConnection = NoConnection
  MaxExchanges = 2
INVARIANTS Inv HealthNeverStarting ObjectsOutliveRequests ExitStatusTells
PROPERTIES BacklogIsServed EveryAcceptedConnectionServed StopMakesRunReturn
