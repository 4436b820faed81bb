CONSTANTS
  t1 = t1  t2 = t2  u1 = u1  u2 = u2
  m1 = m1  m2 = m2  c1 = c1  s2 = s2
  Threads = {t1, t2}
  Turns = {u1, u2}
  Items = {m1, m2, c1, s2}
  ThreadOf <- MCThreadOf
  TurnOf <- MCTurnOf
  TypeOf <- MCTypeOf
  NoThread = NoThread
  TurnHints <- NamesThread
  ItemHints <- NamesTurn
  DeltaHints <- NamesAny
  MaxFeed = 3
  MaxReloads = 1
SPECIFICATION ViewsSpec
INVARIANTS
  NothingLost
  CachesDrain
  ViewsTrue
CHECK_DEADLOCK FALSE
