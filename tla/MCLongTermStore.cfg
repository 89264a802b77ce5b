\* Two readers, with and without fallback, while memories come and go.
CONSTANTS
  m1 = m1  m2 = m2  u1 = u1  u2 = u2  r1 = r1  r2 = r2
  Ids = {m1, m2}
  Users = {u1, u2}
  OwnerOf <- MCOwnerOf
  Contents = {"old", "new"}
  Days = {0}
  Readers = {r1, r2}
  MaxChanges = 2
SPECIFICATION FairSpec
INVARIANTS
  UserIndexExact
  OneIndexer
  FreshIndex
  NoSilentFallback
PROPERTY ReadEnds
