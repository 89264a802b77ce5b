\* Two datasets with common ids share an entry of the lexical cache.
CONSTANTS
  Workers = {w1, w2}
  Users = {"ann", "bob"}
  Corpora <- MCCorpora
  CacheMax = 2
  Dataset <- MCDataset
  Owner <- MCOwner
  IndexCacheMax = 2
  AnnThreshold = 2
  MaxFaults = 1
SPECIFICATION CachesSpec
INVARIANT DatasetsIndependent
