SPECIFICATION MCSpec
CONSTANTS
  h1 = h1
  h2 = h2
  Hosts = {h1, h2}
  Schemes = {"http", "https", "ftp"}
  Statuses = {200, 301, 302, 303, 404}
  OptionValues <- ClientOptions
  DefaultMaxRedirs = 2
  RequestCap = 5
INVARIANTS CTTypeOK BodyOnce RequestBound
PROPERTIES SuccessIsFinal RequestTurnsOnce Terminates
