SPECIFICATION GuardSpec
CONSTANTS
  Events <- SomeEvents
  MaxEntries = 3
  Production = FALSE
  ClockMayGoBack = TRUE
  MaxTime = 2
  MaxLogged = 5
  Checks = {c1, c2, c3}
  NoToken = NoToken
  MaxTTL = 3
  DefaultTTL = 1
  Lifetimes <- TTLs
  MaxAccessTime = 8
  Streams = {s1, s2}
  Symbols = {"k", "y", "x"}
  Secret <- SecretText
  Window = 3
  Chunks <- ChunkTexts
  MaxCalls = 5
  Values = {v1, v2, v3, v4}
  Secrets = {a, b}
  MaxTaints = 3
  MaxTaintOps = 7
  Registries = {r1, r2}
  Patterns <- SomePatterns
  Keyword <- KeywordOf
  BuiltIns <- BuiltIn
  Null = Null
  NoName = NoName
  HostLists <- SomeHostLists
  Remotes <- Answers
  MaxRegistryOps = 4
  Units = {"a", "b", "u"}
  Astral = {"A"}
  Dictionaries <- Keywordings
  NoNode = NoNode
  MaxText = 6
  Shields = {g1, g2}
  DefaultRules <- Defaults
  CustomRules <- Customs
  Blocking = {"jailbreak_attempt", "company_secret"}
  Global = {"company_secret", "company_name"}
  Prompts <- SomePrompts
  Objects = {1, 2, 3}
  Top = 1
  States <- SomeStates
  MaxScanDepth = 2
  MaxScanSize = 3
INVARIANTS
  LogSound
  TamperEvident
  NothingMissed
  ExactWithinLimit
  RegistryCurrent
  MatchingExact
  PassesOnlyAfterFound
  WalkSound
PROPERTIES
  TokenKept
  NewestSurvive
CHECK_DEADLOCK FALSE
