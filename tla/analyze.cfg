SPECIFICATION FairSpec
CONSTANTS
  MaxRepos = 3
  MaxRows = 5
  PeerLists <- MCPeerLists
  RefLists <- MCRefLists
  Signature <- MCSignature
INVARIANTS
  TypeOK
  NoSharedResults
  
  LogSorted
PROPERTIES
  Terminates
CHECK_DEADLOCK FALSE
