CONSTANTS
  Order <- MCOrder
  Refs <- MCRefs
  RefKind <- MCRefKind
  RefKey <- MCRefKey
  RefPtr <- MCRefPtr
  HasBase = FALSE
  HasFetch = FALSE
  Fetch <- MCFetch
  ArrIndex <- MCArrIndex
  MaxDepth <- MCMaxDepth
  Docs <- MCDocsAllOfLoop
  MergeBranch <- MergeAllOfBranch
  SortVariants <- SortByCanon
INIT Init
NEXT Next
INVARIANT
  NoRecursionLoop
