SPECIFICATION Spec
CONSTANTS
  ruu_ifq_size = 4  ruu_decode_width = 2  fetch_speed = 1
  ruu_branch_penalty = 2
  pred_perfect = FALSE  macro_fusion_active = FALSE  FuseMore = {}
  MissLat = {3}
  MaxFetch = 6
INVARIANTS FetchNumCountsEntries
