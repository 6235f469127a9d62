SPECIFICATION FairSpec
CONSTANTS
  Versions <- MCVersions
  InitialVersion = 2
  PreReleases <- MCPreReleases
  Bundles = {1, 3}
  Images = {web, db}
  WebImage = web
  Uploaders = {u1}
  MaxAttempts = 2
  NONE = NONE
  MaxCuts = 2
  MaxFails = 1
  MaxBookings = 0
  MaxUploads = 1
PROPERTY Recovers BundlesSettle
CHECK_DEADLOCK FALSE
