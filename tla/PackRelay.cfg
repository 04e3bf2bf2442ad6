\* A fetch, with either way its daemon-side git ends, and a push.
CONSTANT Session <- Sessions
SPECIFICATION FairSpec
INVARIANTS TypeOK SuccessIsComplete FaultlessFetchesSucceed FaultlessPushesTakeEffect
PROPERTY SessionEnds
CHECK_DEADLOCK FALSE
