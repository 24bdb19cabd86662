SPECIFICATION Spec
CONSTANTS
  r1 = r1  r2 = r2  dtmp = dtmp  a = a  b = b
  alu1 = alu1  mul1 = mul1  port1 = port1  port2 = port2
  RUU_size = 4  LSQ_size = 2
  ruu_decode_width = 2  ruu_issue_width = 2  ruu_commit_width = 2
  ruu_inorder_issue = FALSE  ruu_include_spec = TRUE  bugcompat_mode = FALSE
  Reg <- MCReg  DTMP = dtmp  NA = NA  None = None  Addr = {a, b}
  Inst <- InstDeps
  Unit = {alu1, mul1, port1}
  FuTable <- OneEach
  LoadLat = {1, 3}  TlbLat = {1}
  MAX_RS_LINKS = 40
  MaxInsts = 4
INVARIANTS OldestFirst
