SPECIFICATION QuerySpec
CONSTANTS
  RsTrees <- MCTrees
  TruncLists <- MCLists
  TruncChunk = 2
  TempKey = 2
  TempBuf = 5
  TempHandles = {1, 2}
  ZNames = {"x", "y"}
  ZQueries <- MCZQueries
  ZRegisters <- MCZRegisters
  ZRanked = {1}
  ZSortKeys <- MCZSortKeys
  ZSpecs <- MCZSpecs
  ZRanges <- MCZRanges
  SortMax = 2
  ApproxLimit = 3
  TermMax = 2
  ZRankName = "rank-1"
  MaxZOps = 5
  MaxChar <- MCMaxChar
  Cmap <- MCCmap
  ZMap <- MCZMap
  SuRadix = 4
  GrepAsks <- MCGrepAsks
  GrepPages <- MCGrepPages
  RpnWords <- MCRpnWords
  RpnIndexes <- MCRpnIndexes
  RpnBases = {"one", "two"}
  RpnAttset <- MCRpnAttset
  RpnRefs <- MCRpnRefs
  FirstMaps = {"w"}
  RpnSysnos <- MCRpnSysnos
  TruncLimit = 6
  MaxSteps = 10
  RpnRecords <- MCRpnRecords
  RpnQueries <- MCRpnQueries
  ScanAsks <- MCScanAsks
  MaxOrds = 2
  ChrBytes <- MCChrBytes
  ChrFiles <- MCChrFiles
  MaxEquiv = 32
  MaxWord = 5
  MatchMax = 3
  IdxFiles <- MCIdxFiles
  TkDocs <- MCTkDocs
  TkKnown <- MCTkKnown
  TkSpecs <- MCTkSpecs
  TkAsks <- MCTkAsks
  RtIdx <- MCRtIdx
  RtDocs <- MCRtDocs
  RtKept = {1}
  RtTypes <- MCRtTypes
  RtFilters = {"dom"}
  RtAsks <- MCRtAsks
  RtElems <- MCRtElems
  RtSpans <- MCRtSpans
  FacetRecs = 2
  FacetMax = 3
  RtApprox = 9
  RegxSpecs <- MCRegxSpecs
  RegxDocs <- MCRegxDocs
  RegxWindow = 4
  RegxDocNo = 2
INVARIANT SetsExact
INVARIANT ZSetsExact
INVARIANT GrepExact
INVARIANT SearchExact
INVARIANT ScanExact
INVARIANT RecordsRead
INVARIANT FetchExact
CHECK_DEADLOCK FALSE
