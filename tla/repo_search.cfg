SPECIFICATION Spec
CONSTANTS
  Keywords = {k1, k2}
  Users <- MCUsers
  Segments <- MCSegments
  UrlLists <- SearchLists
  MaxUrls = 3
  NoKeyword = NoKeyword
  NoPair = NoPair
INVARIANTS
  TypeOK
  CatalogueMatchesDisk
  IncompleteOnlyAfterDeath
PROPERTIES
  ImplementsCatalogue
  WholeStaysWhole
