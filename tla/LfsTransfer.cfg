\* Two transfers of one object in every interleaving, with every failure; both
\* ends keep running.
CONSTANTS
  o1 = o1  t1 = t1  t2 = t2
  Other = Other  Absent = Absent  NoOid = NoOid
  Oid = {o1}
  Transfer = {t1, t2}
SPECIFICATION FairSpec
INVARIANTS TypeOK OutcomesTrue OrphansExplained
PROPERTIES OnlyWholeObjects ImplementsObjectExchange EveryTransferEnds
CHECK_DEADLOCK FALSE
