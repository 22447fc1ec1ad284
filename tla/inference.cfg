SPECIFICATION InferenceSpec
CONSTANTS
  Workers = {w1, w2, w3, w4}
  Sessions = {s1, s2, s3}
  NoSession = NoSession
  Callers = {c1, c2, c3}
  Threads = {t1, t2}
  NumPairs = 2
  NoThing = NoThing
  MaxReloads = 1
INVARIANTS SessionsSafe ServiceSound
PROPERTIES SessionsAllocated ImplementsAllocator CallsEnd
CHECK_DEADLOCK FALSE
