SPECIFICATION PlatformSpec
CONSTANTS
  i1 = i1
  i2 = i2
  traefik = traefik
  iam = iam
  portal = portal
  MaxCA = 2
  MaxFaults = 1
  Images = {i1, i2}
  Defaults = {i2}
  Unsuspending = {i2}
  Digested = {1}
  MaxVersion = 2
  Latest <- MCLatest
  MaxImageFaults = 1
  InfraReleases = {traefik}
  ServiceReleases = {iam, portal}
  Requires <- MCRequires
  MaxToggles = 2
  MaxFailures = 1
  q1 = q1
  q2 = q2
  r1 = r1
  Request = {q1, q2}
  MaxRetries = 2
  MaxExpiries = 1
  MaxMishaps = 1
  Resource = {r1}
  MaxEdition = 2
  MaxTroubles = 1
INVARIANTS GoneIsNotFound
PROPERTIES PlatformInstalls PlatformTrustsTheIssuer ImagesConverge NoDependencyDeleted RequestsAreDecided Indexed
CHECK_DEADLOCK FALSE
