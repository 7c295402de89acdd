SPECIFICATION MCSpec
CONSTANTS
  Chunks <- MCChunks
  Tokens <- MCTokens
  MaxRequestTokens = 4
  MaxInputs = 2
  MaxInputTokens = 3
  BatchSize = 3
  MaxConcurrent = 2
  MaxRetries = 1
  MaxCalls = 2
  None = None
  Ids = {s, u}
  Names = {0, 2}
  Files <- MCFiles
  FolderPaths <- MCFolderPaths
  TopicNames = {"t"}
  TopicTexts = {1, 2}
  MaxChanges = 3
  Docs <- MCDocs
  Points <- MCPoints
  Existing <- MCExisting
  Topics <- MCTopics
  Knn = 1
  RebalanceThreshold = 1
  HierarchyMin = 3
  Floor = 10
  MaxUpdates = 3
  Processes = {"p", "q"}
  Keys = {"k", "l"}
  Values = {1}
  LegacySettings <- MCLegacySettings
  LegacySecrets = {"a"}
  Secrets = {"a", "b"}
  Default = 0
  Broken = Broken
  MaxCommands = 4
  Paths <- MCPaths
  Contents <- MCContents
  Overlays <- MCOverlays
  MaxEdits = 3
  s = s
  u = u
  Malformed = Malformed
INVARIANTS VectorsAreOfTheirTexts ReadsAreCurrent  DocumentsAreOnce TopicsAreCurrent  PopulateMatchesBacklinks WalksAreExact
PROPERTY CallsEnd IdsAreStable
CHECK_DEADLOCK FALSE
