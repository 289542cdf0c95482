\* Two files, two edits of one and one of the other, and a shutdown at any time.
CONSTANTS
  Files = {"f", "g"}
  Timers = {1, 2, 3}
  Contents <- MCContents
  Unreadable = Unreadable
  NilId = 0
  NewIds = {11, 12, 13, 14, 15}
  Nobody = Nobody
  Initial = Initial
  MaxEdits <- MCMaxEdits
SPECIFICATION FairSpec
INVARIANTS
  NoSendAfterClose
  WholeContents
PROPERTIES
  UpdatedInPlace
  ShutdownEnds
  EventsLoaded
\* The bound on edits runs out.
CHECK_DEADLOCK FALSE
