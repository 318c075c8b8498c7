SPECIFICATION Spec
CHECK_DEADLOCK FALSE
CONSTANTS
  None = None
  NaN = NaN
  Today = 9
  Feeds <- MCFeeds
  Submissions <- MCSubmissions
  Pages <- MCPages
  ClaimReplies <- MCClaimReplies
  EventReplies <- MCEventReplies
  AutoRun = TRUE
  MaxStarts = 2
  MaxFaults = 1
INVARIANTS
  ReadOnce
  EventsFollowClaims
  RegistryIsTrue
PROPERTIES
  EventsAreNeverRewritten
  JobsFinish
