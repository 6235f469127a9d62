SPECIFICATION Spec
CONSTANTS
  Versions <- MCVersions
  InitialVersion = 2
  PreReleases <- MCPreReleases
  Bundles = {1, 3}
  Images = {web, db}
  WebImage = web
  Uploaders = {u1, u2}
  MaxAttempts = 2
  NONE = NONE
  MaxCuts = 2
  MaxFails = 2
  MaxBookings = 1
  MaxUploads = 2
INVARIANTS TypeOK OneVersion KeptBookings BundleKept AttemptsBounded
PROPERTY PromiseKept
CHECK_DEADLOCK FALSE
