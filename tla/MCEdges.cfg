SPECIFICATION EdgesSpec
CONSTANTS
  Parts = {"wrappers", "cli", "requests"}
  Strategies = {"redact", "remove"}
  Files = {f1, f2}
  FileSecrets = {"url", "pw", "key"}
  Within <- WithinUrl
  Rest <- RestOf
  Texts <- SomeTexts
  MatchOrder <- ByPattern
  MaxEdits = 1
  Requests = {r1, r2, r3}
  Callers = {a1}
  Anonymous = Anonymous
  Endpoints = {"usage", "quotas"}
  StatusCodes = {200, 401}
  TopEndpoints = 1
  MaxReports = 1
INVARIANTS
  WrapsTight
  ExitMeansClean
  BooksKept
CHECK_DEADLOCK FALSE
