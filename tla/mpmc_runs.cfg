SPECIFICATION FairSpec
CONSTANTS
  Capacity = 2
  Threads = {t1, t2}
  Items = {x, y}
  NoItem = NoItem
  WeakCas = TRUE
  MaxPush = 3
  t1 = t1
  t2 = t2
  x = x
  y = y
INVARIANTS SlotExclusive PopsItsTicket
PROPERTIES AnswersHonest ImplementsChannel 
