SPECIFICATION FairSpec
CONSTANTS
  Threads = {t1, t2}
  Dynamic = {d}
  Settings = {s}
  Buffered = {b1, b2}
  Unknown = nowhere
  MaxWorld = 4
  MaxPosts = 2
INVARIANTS BufferedSnapshot BufferedFilled StreamComplete
PROPERTIES BufferReleased
