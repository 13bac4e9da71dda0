CONSTANTS
  None = None
  Zero = Zero
  Depth = 2
  i1 = i1
  i2 = i2
  i3 = i3
  o1 = o1
  o2 = o2
  l1 = l1
  l2 = l2
  Intent = {i1, i2, i3}
  Owner = {o1, o2}
  Lookup = {l1, l2}
  Blob <- Blobs
  OwnerOf <- Owners
  LookupOf <- Lookups
  ExpiryOf <- Expiries
  TimeBound = 1
  ChunksOf <- Chunks
  Before = {0, 2}
  Cranker = {c1, c2}
  Oversize = {i1}
  AdriftBound = 1
SPECIFICATION Spec
SYMMETRY Symmetry
INVARIANTS
  
  CreatedTogether
  RootCommitsRoutes
  ConfirmedIsCreated

  
CHECK_DEADLOCK FALSE
