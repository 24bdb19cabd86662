SPECIFICATION Spec
CONSTANTS
  ruu_ifq_size = 4  ruu_decode_width = 2  fetch_speed = 2
  ruu_branch_penalty = 2
  pred_perfect = FALSE  macro_fusion_active = TRUE  FuseMore = {1, 2}
  MissLat = {3}
  MaxFetch = 8
INVARIANTS FetchIsSettled FusedSetsAreWhole
