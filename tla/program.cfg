SPECIFICATION Spec
CONSTANTS
  Pairs <- MCPairs
  Sources <- MCSources
  MaxRepos = 3
  MaxRows = 6
  PeerLists <- MCPeerLists
  RefLists <- MCRefLists
  Signature <- MCSignature
INVARIANTS
  LogCoversStore
  NothingForgotten
