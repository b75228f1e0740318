SPECIFICATION FairSpec
CONSTANTS
  t1 = t1  t2 = t2  t3 = t3  NoTxn = NoTxn
  Txn = {t1, t2, t3}
  Batches <- Pairs
  Awaitable = {"NONE", "ENQUEUE"}
  MaxResets = 1
INVARIANTS DrivenInOrder EventTruthful
PROPERTIES AllDriven
CHECK_DEADLOCK FALSE
