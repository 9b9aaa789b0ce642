SPECIFICATION SerialSpec
CONSTANTS
  Threads = {t1, t2}
  Pages = {p1, p2, p3}
  MaxPc = 3
  NoThread = NoThread
  NoPage = NoPage
SYMMETRY Symmetry
CHECK_DEADLOCK FALSE
INVARIANTS EventIsTheTrap ServicedInOrder
