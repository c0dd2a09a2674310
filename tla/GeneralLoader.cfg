CONSTANTS
  Ids = {i1, i2}
  Rows = {r1, r2}
  MaxRows = 2
  item_cache_capacity = 1
  bundle_cache_capacity = 1
  Kinds = {"GeneralLoader", "UnitGIRLoader"}
  MaxBundles = 2
SPECIFICATION Spec
INVARIANT TypeOK
INVARIANT StaleOnlyAfterSave
PROPERTY StoreSpec
CHECK_DEADLOCK FALSE
