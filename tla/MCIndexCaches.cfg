\* Lexical: two threads, a cache of two corpora, two datasets with common ids.
\* Dense: cells over four events, a cache of two, one failed rebuild.
CONSTANTS
  Workers = {w1, w2}
  Users = {"ann", "bob"}
  Corpora <- MCCorpora
  CacheMax = 2
  Dataset <- MCDataset
  Owner <- MCOwner
  IndexCacheMax = 2
  AnnThreshold = 2
  MaxFaults = 1
SPECIFICATION CachesSpec
INVARIANTS
  NoKeyErrorNoOverflow
  OwnMemoriesAnswer
  OrderedCache
  EntriesUnlessSpoilt
  AnswersUnlessSpoilt
