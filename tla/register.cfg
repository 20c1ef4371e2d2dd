SPECIFICATION RegisterSpec
CONSTANTS
  BlockSize = 2
  BlockNos = {0, 1, 2, 4}
  HashSize = 2
  HashRun = 2
  MaxInMemory = 1
  FlatSize = 2
  Setups <- MCSetups
  Reads = {0, 4}
  Writes <- MCWrites
  MaxWrites = 3
  MaxReads = 3
  MaxOpens = 3
  MaxExits = 1
  Infos <- MCInfos
  NoInfo = 2
  Methods = {"none", "bzip2"}
  CacheMax = 3
  ChunkSize = 3
  BlockRoom <- MCRoom
  BlockMove = 9
  MaxRecords = 3
  MaxRecOps = 6
  MaxRecOpens = 2
  Strings <- MCStrings
  DelPrefixes <- MCPrefixes
  DictPairs <- MCPairs
  DictFirst <- MCDictFirst
  PageSize = 16
  PtrBytes = 1
  DirBytes = 1
  DictCache = 2
  MaxDictOps = 3
  MaxDictReads = 1
  MaxDictOpens = 2
  IsamStreams <- MCRuns
  BlockMaxes <- MCMaxes
  LastSize = 13
  Probes <- MCProbes
  MaxMerges = 3
  IscStreams <- MCIscRuns
  FileCat <- MCFileCat
  Off1 = 2
  OffN = 1
  MaxBlocksMem = 2
  MaxIscMerges = 4
  SLists <- MCSLists
  SBlock = 5
  IntSize = 3
  MaxSLists = 4
  MaxSOpens = 2
  SortTypes = {"flat", "isamb", "multi"}
  SortRecords = {1, 2, 3}
  SortKeySets <- MCSortKeys
  EntrySize = 3
  MaxTerm = 3
  MaxSortOps = 6
  Contents <- MCContents
  FirstFiles <- MCFirstFiles
  FilePaths <- MCFilePaths
  DirPaths <- MCDirPaths
  Unknown <- MCUnknown
  BadTypes <- MCBadTypes
  RecordIds = {"file", "id", "none"}
  MatchIds = {0, 1}
  DirBatch = 2
  MaxTime = 3
  MaxUpdates = 3
  MaxSteps = 4
  Databases = {"A", "B"}
  Explain = "IR-Explain-1"
  XDocs <- MCXDocs
  ExplainKeys <- MCExplainKeys
  MaxXOps = 3
  MaxXOpens = 3
INVARIANT TypeOK
INVARIANT ReadsBack
INVARIANT CommitsAll
INVARIANT OneHome
INVARIANT PositionsKept
INVARIANT RecordsSound
INVARIANT DictSound
INVARIANT IsamBSound
INVARIANT OlderLists
INVARIANT SortExact
INVARIANT UpdatesExact
INVARIANT ExplainExact
CHECK_DEADLOCK FALSE
