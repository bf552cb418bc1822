CONSTANTS
  Host = {h1}
  Work = {w1, w2}
  Conn = {k1}
  Depth = 1
  Slots = 1
  MaxRequests = 3
  MaxPeer = 1
  Cap <- Places
SPECIFICATION FairSpec
INVARIANTS CapacitySound OneRecordPerNumber AnswersSound
PROPERTIES WorkIsOver StopCompletes
