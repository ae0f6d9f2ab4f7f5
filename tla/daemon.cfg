SPECIFICATION FairSpec
CONSTANTS
  MaxTid = 2
  MaxWorld = 2
CHECK_DEADLOCK FALSE
INVARIANTS TypeOK NumbersAreNew ChangeHasTimer CacheIsCurrent NotifyBeforeLeaving
PROPERTIES ChangesAreTold SuggestedQuitHappens
