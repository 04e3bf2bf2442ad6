\* A command and two agents on one clone with two objects, one transfer at a
\* time.
CONSTANTS
  o1 = o1  o2 = o2  p1 = p1  a1 = a1  a2 = a2
  NoOid = NoOid
  Oid = {o1, o2}
  Process = {p1}
  Agent = {a1, a2}
  PARALLEL = 1
  Refs <- Everything
  Wanted = {o1}
SPECIFICATION FairSpec
INVARIANTS Complete FanOutContained ReportedIsThere
PROPERTIES ImplementsObjectExchange CommandEnds RequestAnswered
CHECK_DEADLOCK FALSE
