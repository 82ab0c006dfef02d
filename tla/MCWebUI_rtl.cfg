CONSTANTS
  Slots = {1, 2}
  MaxTokens = 2
  MaxTickers = 2
  MaxPolls = 2
  Ranges = {7, 30}
  Checks = {"link"}
  DiagRecords = {"d1", "d2"}
  FixRecords = {}
  PageSize = 1
  MaxSamples = 1
  MaxSnapshots = 2
  Scenes = {"language"}
  Wishes <- MCWishes
  Codes = {"en", "de", "fr"}
  Keys = {"nav", "compliance"}
  ToolKeys = {"compliance"}
  PackCount = 2
  Addresses <- MCAddresses
  Prefixes <- MCPrefixes
  Samples <- MCSamples
SPECIFICATION Spec
INVARIANTS DirFollowsLang
CHECK_DEADLOCK FALSE
