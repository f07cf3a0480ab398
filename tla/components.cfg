CONSTANTS
  Ids = {r1, r2, r3}
  Budget = 20
  HighPct = 90
  ShedPct = 95
  Estimates <- MCEstimates
  MaxNativeBytes = 40
  Models = {m1, m2, m3}
  VramBudget = 3
  VramSizes = {1, 2}
  DefaultVram = 2
  MaxVram = 5
  PagedSeqs = {s1, s2}
  TierSize <- MCTierSize
  TierBlocks <- MCTierBlocks
  MaxPrompt = 5
  NativeBuilds = {FALSE, TRUE}
  BudgetSlotBytes = 3
  BudgetPageBytes = 2
  FewestSlots = 1
  MostSlots = 4
  FewestPages = 1
  MostPages = 6
  SurplusStep = 2
  IntRange = 9
  FloatRange = 6
  MostNeeded = 5
  LfruKeys = {k1, k2, k3}
  LfruSlots = 2
  CandidateHeats = {1, 6}
  MaxLfruHeat = 7
  NoKey = NoKey
  RoutedExperts = {e1, e2}
  MaxCount = 4
  HistoryBuilds = {FALSE, TRUE}
  NoFile = NoFile
  PrefixTokens = {1, 2}
  MaxPrefix = 3
  MaxInserted = 3
  AnchorTags = {a1}
  TrieTokens = {1, 2}
  MaxTrieLength = 3
  MaxTrieNodes = 4
  TrieKeys = {a1}
  Publishers = {u1, u2}
  ReplayBufferSize = 2
  MaxEvents = 4
  TaskRequests <- MCTaskRequests
  MaxArrived = 4
  HiddenDim = 2
  MaxBatchCost = 12
  MaxBatchSize = 3
  TolerancePct = 50
  Branches = {b1, b2}
  Prompts = {"p"}
  Drafts = {"good", "cut"}
  DraftScore <- MCDraftScore
  Truncated = {"cut"}
  Whole = Whole
  JoinedText = JoinedText
  MaxHistory = 2
  TokenShapes <- MCTokenShapes
  MaxStreamed = 6
  JsonSymbols = {"{", "[", "}", "]", "quote", "escape", "comma", "colon", "x"}
  MaxText = 5
  BlockWidth = 2
  SpecTokens = {1, 2}
  MaxDrafted = 3
  MaxDecoded = 4
  CompareWidth = 2
  NumLayers = 3
  StageCounts = {0, 1, 2, 3, 4, 5, 6}
  MaxPass = 3
  MaxFed = 5
  caller1 = caller1
  caller2 = caller2
  task1 = task1
  task2 = task2
  task3 = task3
  Workers = {w1, w2}
  Callers = {caller1, caller2}
  Owner = caller1
  Tasks = {task1, task2, task3}
  Roots <- MCRoots
  Spawns <- MCSpawns
  NoTask = NoTask
  MaxAsked = 2
  DefaultTokens = 3
  Pods = {p1, p2}
  Completions = {r1, r2}
  NoPod = NoPod
  NoJob = NoJob
SPECIFICATION ComponentsSpec
INVARIANTS
  TotalIsSum
  NativeSumCovers
  PagesExact
  PinsStayWithExperts
  RankingIsTheCounts
  BatchesSound
  TextIsTokens
  WordsKeepTheirSide
  RepairCloses
  SpecIsGreedy
  ForestExact
  IdsKeepTheirSequence
  NoEventIsMissed
  CachesExact
  SleepersAreSeen
  ResponseComplete
PROPERTIES
  BookSpec
  LoadsStayInBudget
  HeldBytesAreTraded
  WaitAllMeansDone
  ExecutorSpec
  CallsReturn
  ResponsesEnd
  RequestsEnd
CHECK_DEADLOCK FALSE
