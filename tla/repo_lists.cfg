SPECIFICATION FairSpec
CONSTANTS
  Keywords = {k1}
  Users <- MCUsers
  Segments <- MCSegments
  UrlLists <- CallerLists
  MaxUrls = 3
  NoKeyword = NoKeyword
  NoPair = NoPair
INVARIANTS
  ReferencesValid
PROPERTIES
  RecordsExactlyTheClones
  DownloadReturns
