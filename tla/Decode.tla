------------------------------- MODULE Decode -------------------------------
(***************************************************************************)
(* The instruction decoder: the tables md_init_decoder() lays out from     *)
(* riscv.def, the walk of MD_SET_OPCODE through them, the immediate fields *)
(* of riscv.h and what each compressed instruction stands for.             *)
(*                                                                         *)
(* An instruction is its bits as a signed 32-bit number, a compressed one  *)
(* its 16 bits.  Rows that are repeated for each register number in        *)
(* riscv.def (C_LUI_01 ..) have one name.                                  *)
(***************************************************************************)
EXTENDS Integers, FiniteSetsExt, SequencesExt, Bitwise

CONSTANTS
  Encodings,     \* the instructions to decode
  MD_MAX_MASK    \* length of md_mask2op (2048)

VARIABLES
  inst,          \* the instruction
  opcode         \* what MD_SET_OPCODE has found so far

decodeVars == <<inst, opcode>>

Compressed(i) == i % 4 # 3
Field(i, shift, size) == (i \div 2 ^ shift) % 2 ^ size

\* DEFLINK: the field a link looks at.
F3 == <<12, 3>>
F7 == <<25, 7>>
F5 == <<27, 5>>
F2 == <<25, 2>>
R5 == <<20, 5>>
C3 == <<13, 3>>
LinkField ==
  [BRANCH_LINK |-> F3, LOAD_LINK |-> F3, SAVE_LINK |-> F3, INTI_LINK |-> F3,
   INTIW_LINK |-> F3, FENCE_LINK |-> F3, ENV_AND_CSR_LINK |-> F3, INTR_LINK |-> F7,
   INTRW_LINK |-> F7, A_EXTENSION_LINK |-> F3, FL_LINK |-> F3, FS_LINK |-> F3,
   FMADD_LINK |-> F2, FMSUB_LINK |-> F2, FNMSUB_LINK |-> F2, FNMADD_LINK |-> F2,
   FLOATS_LINK |-> F7, C0_LINK |-> C3, C1_LINK |-> C3, C2_LINK |-> C3,
   I_INTR_LINK_0 |-> F3, RV64M_LINK |-> F3, I_INTR_LINK_64 |-> F3,
   I_INTRW_LINK_0 |-> F3, RV64MW_LINK |-> F3, I_INTRW_LINK_64 |-> F3,
   SHIFT_RIGHTW_I_LINK |-> <<30, 2>>, SHIFT_RIGHT_I_LINK |-> <<30, 2>>,
   ENV_LINK |-> <<20, 12>>, RVA_W_LINK |-> F5, RVA_D_LINK |-> F5,
   FSGNJ_S_LINK |-> F3, FMIN_MAX_S_LINK |-> F3, FCVT__S_LINK |-> R5,
   FMVCLASS_LINK |-> F3, FCOMPARE_S_LINK |-> F3, FCVT_S__LINK |-> R5,
   FSGNJ_D_LINK |-> F3, FMIN_MAX_D_LINK |-> F3, FCVT_SD_LINK |-> R5,
   FCVT_DS_LINK |-> R5, FCOMPARE_D_LINK |-> F3, FMVCLASS_D_LINK |-> F3,
   FCVT__D_LINK |-> R5, FCVT_D__LINK |-> R5,
   C1_16SP_LINK |-> <<7, 5>>, C1_LOGI_LINK |-> <<10, 2>>, C1_LOGI_C_LINK |-> <<12, 1>>,
   C1_LOGI_C_0_LINK |-> <<5, 2>>, C1_LOGI_C_1_LINK |-> <<5, 2>>,
   C2_JMP_LINK |-> <<12, 1>>, C2_JMP_0_LINK |-> <<2, 5>>, C2_JMP_1_LINK |-> <<2, 5>>,
   C2_JMP_1_EBRK_LINK |-> <<9, 5>>, C2_JMP_1_EB_JL_LINK |-> <<7, 5>>]
Links == DOMAIN LinkField

\* A table: rows 0, 1, 2 .. of a link, "-" where riscv.def has none.
Rows(s) == {<<k - 1, s[k]>> : k \in {j \in DOMAIN s : s[j] # "-"}}
Same(name, first) == {<<k, name>> : k \in first .. 31}

\* The opcodes of the first table.
TopRows ==
  {<<55, "LUI">>, <<23, "AUIPC">>, <<111, "JAL">>, <<103, "JALR">>,
   <<99, "BRANCH_LINK">>, <<3, "LOAD_LINK">>, <<35, "SAVE_LINK">>, <<19, "INTI_LINK">>,
   <<27, "INTIW_LINK">>, <<15, "FENCE_LINK">>, <<115, "ENV_AND_CSR_LINK">>,
   <<51, "INTR_LINK">>, <<59, "INTRW_LINK">>, <<47, "A_EXTENSION_LINK">>,
   <<7, "FL_LINK">>, <<39, "FS_LINK">>, <<67, "FMADD_LINK">>, <<71, "FMSUB_LINK">>,
   <<75, "FNMSUB_LINK">>, <<79, "FNMADD_LINK">>, <<83, "FLOATS_LINK">>,
   <<0, "C0_LINK">>, <<1, "C1_LINK">>, <<2, "C2_LINK">>}

\* The floating-point operations, by funct7.
FloatRows ==
  {<<0, "FADD_S">>, <<4, "FSUB_S">>, <<8, "FMUL_S">>, <<12, "FDIV_S">>, <<44, "FSQRT_S">>,
   <<16, "FSGNJ_S_LINK">>, <<20, "FMIN_MAX_S_LINK">>, <<96, "FCVT__S_LINK">>,
   <<112, "FMVCLASS_LINK">>, <<80, "FCOMPARE_S_LINK">>, <<104, "FCVT_S__LINK">>,
   <<120, "FMV_W_X">>, <<121, "FMV_D_X">>,
   <<1, "FADD_D">>, <<5, "FSUB_D">>, <<9, "FMUL_D">>, <<13, "FDIV_D">>, <<45, "FSQRT_D">>,
   <<17, "FSGNJ_D_LINK">>, <<21, "FMIN_MAX_D_LINK">>, <<32, "FCVT_SD_LINK">>,
   <<33, "FCVT_DS_LINK">>, <<81, "FCOMPARE_D_LINK">>, <<113, "FMVCLASS_D_LINK">>,
   <<97, "FCVT__D_LINK">>, <<105, "FCVT_D__LINK">>}

AmoRows(LR, SC, SWAP, ADD, XOR, OR, AND, MIN, MAX, MINU, MAXU) ==
  {<<2, LR>>, <<3, SC>>, <<1, SWAP>>, <<0, ADD>>, <<4, XOR>>, <<12, AND>>, <<8, OR>>,
   <<16, MIN>>, <<20, MAX>>, <<24, MINU>>, <<28, MAXU>>}

\* CONNECT: the tables in the order of riscv.def.
IntegerTables ==
  << <<"INTR_LINK", {<<0, "I_INTR_LINK_0">>, <<1, "RV64M_LINK">>, <<32, "I_INTR_LINK_64">>}>>,
     <<"INTRW_LINK", {<<0, "I_INTRW_LINK_0">>, <<1, "RV64MW_LINK">>, <<32, "I_INTRW_LINK_64">>}>>,
     <<"BRANCH_LINK", Rows(<<"BEQ", "BNE", "-", "-", "BLT", "BGE", "BLTU", "BGEU">>)>>,
     <<"LOAD_LINK", Rows(<<"LB", "LH", "LW", "LD", "LBU", "LHU", "LWU">>)>>,
     <<"SAVE_LINK", Rows(<<"SB", "SH", "SW", "SD">>)>>,
     <<"INTIW_LINK", Rows(<<"ADDIW", "SLLIW", "-", "-", "-", "SHIFT_RIGHTW_I_LINK">>)>>,
     <<"SHIFT_RIGHTW_I_LINK", Rows(<<"SRLIW", "SRAIW">>)>>,
     <<"INTI_LINK", Rows(<<"ADDI", "SLLI", "SLTI", "SLTIU", "XORI", "SHIFT_RIGHT_I_LINK",
                           "ORI", "ANDI">>)>>,
     <<"SHIFT_RIGHT_I_LINK", Rows(<<"SRLI", "SRAI">>)>>,
     <<"I_INTR_LINK_0", Rows(<<"ADD", "SLL", "SLT", "SLTU", "XOR", "SRL", "OR", "AND">>)>>,
     <<"I_INTR_LINK_64", Rows(<<"SUB", "-", "-", "-", "-", "SRA">>)>>,
     <<"I_INTRW_LINK_0", Rows(<<"ADDW", "SLLW", "-", "-", "-", "SRLW">>)>>,
     <<"I_INTRW_LINK_64", Rows(<<"SUBW", "-", "-", "-", "-", "SRAW">>)>>,
     <<"FENCE_LINK", Rows(<<"FENCE", "FENCE_I">>)>>,
     <<"ENV_AND_CSR_LINK", Rows(<<"ENV_LINK", "CSRRW", "CSRRS", "CSRRC", "-", "CSRRWI",
                                  "CSRRSI", "CSRRCI">>)>>,
     <<"ENV_LINK", {<<0, "ECALL">>, <<1, "EBREAK">>, <<258, "SRET">>, <<770, "MRET">>}>>,
     <<"RV64MW_LINK", Rows(<<"MULW", "-", "-", "-", "DIVW", "DIVUW", "REMW", "REMUW">>)>>,
     <<"RV64M_LINK", Rows(<<"MUL", "MULH", "MULHSU", "MULHU", "DIV", "DIVU", "REM", "REMU">>)>>,
     <<"A_EXTENSION_LINK", {<<2, "RVA_W_LINK">>, <<3, "RVA_D_LINK">>}>>,
     <<"RVA_W_LINK", AmoRows("LR_W", "SC_W", "AMOSWAP_W", "AMOADD_W", "AMOXOR_W", "AMOOR_W",
                             "AMOAND_W", "AMOMIN_W", "AMOMAX_W", "AMOMINU_W", "AMOMAXU_W")>>,
     <<"RVA_D_LINK", AmoRows("LR_D", "SC_D", "AMOSWAP_D", "AMOADD_D", "AMOXOR_D", "AMOOR_D",
                             "AMOAND_D", "AMOMIN_D", "AMOMAX_D", "AMOMINU_D", "AMOMAXU_D")>> >>

FloatTables ==
  << <<"FL_LINK", {<<2, "FLW">>, <<3, "FLD">>}>>,
     <<"FS_LINK", {<<2, "FSW">>, <<3, "FSD">>}>>,
     <<"FMADD_LINK", Rows(<<"FMADD_S", "FMADD_D">>)>>,
     <<"FMSUB_LINK", Rows(<<"FMSUB_S", "FMSUB_D">>)>>,
     <<"FNMSUB_LINK", Rows(<<"FNMSUB_S", "FNMSUB_D">>)>>,
     <<"FNMADD_LINK", Rows(<<"FNMADD_S", "FNMADD_D">>)>>,
     <<"FLOATS_LINK", FloatRows>>,
     <<"FSGNJ_D_LINK", Rows(<<"FSGNJ_D", "FSGNJN_D", "FSGNJX_D">>)>>,
     <<"FMIN_MAX_D_LINK", Rows(<<"FMIN_D", "FMAX_D">>)>>,
     <<"FCVT_SD_LINK", Rows(<<"-", "FCVT_S_D">>)>>,
     <<"FCVT_DS_LINK", Rows(<<"FCVT_D_S">>)>>,
     <<"FCOMPARE_D_LINK", Rows(<<"FLE_D", "FLT_D", "FEQ_D">>)>>,
     <<"FMVCLASS_D_LINK", Rows(<<"FMV_X_D", "FCLASS_D">>)>>,
     <<"FCVT__D_LINK", Rows(<<"FCVT_W_D", "FCVT_WU_D", "FCVT_L_D", "FCVT_LU_D">>)>>,
     <<"FCVT_D__LINK", Rows(<<"FCVT_D_W", "FCVT_D_WU", "FCVT_D_L", "FCVT_D_LU">>)>>,
     <<"FSGNJ_S_LINK", Rows(<<"FSGNJ_S", "FSGNJN_S", "FSGNJX_S">>)>>,
     <<"FMIN_MAX_S_LINK", Rows(<<"FMIN_S", "FMAX_S">>)>>,
     <<"FCVT__S_LINK", Rows(<<"FCVT_W_S", "FCVT_WU_S", "FCVT_L_S", "FCVT_LU_S">>)>>,
     <<"FMVCLASS_LINK", Rows(<<"FMV_X_W", "FCLASS_S">>)>>,
     <<"FCOMPARE_S_LINK", Rows(<<"FLE_S", "FLT_S", "FEQ_S">>)>>,
     <<"FCVT_S__LINK", Rows(<<"FCVT_S_W", "FCVT_S_WU", "FCVT_S_L", "FCVT_S_LU">>)>> >>

CompressedTables ==
  << <<"C0_LINK", Rows(<<"C_ADDI4SPN", "C_FLD", "C_LW", "C_LD", "-", "C_FSD", "C_SW", "C_SD">>)>>,
     <<"C1_LINK", Rows(<<"C_ADDI", "C_ADDIW", "C_LI", "C1_16SP_LINK", "C1_LOGI_LINK", "C_J",
                         "C_BEQZ", "C_BNEZ">>)>>,
     <<"C1_16SP_LINK", {<<0, "C_LUI">>, <<1, "C_LUI">>, <<2, "C_ADDI16SP">>} \cup Same("C_LUI", 3)>>,
     <<"C1_LOGI_LINK", Rows(<<"C_SRLI64", "C_SRAI64", "C_ANDI", "C1_LOGI_C_LINK">>)>>,
     <<"C1_LOGI_C_LINK", Rows(<<"C1_LOGI_C_0_LINK", "C1_LOGI_C_1_LINK">>)>>,
     <<"C1_LOGI_C_0_LINK", Rows(<<"C_SUB", "C_XOR", "C_OR", "C_AND">>)>>,
     <<"C1_LOGI_C_1_LINK", Rows(<<"C_SUBW", "C_ADDW">>)>>,
     <<"C2_LINK", Rows(<<"C_SLLI64", "C_FLDSP", "C_LWSP", "C_LDSP", "C2_JMP_LINK", "C_FSDSP",
                         "C_SWSP", "C_SDSP">>)>>,
     <<"C2_JMP_LINK", Rows(<<"C2_JMP_0_LINK", "C2_JMP_1_LINK">>)>>,
     <<"C2_JMP_0_LINK", {<<0, "C_JR">>} \cup Same("C_MV", 1)>>,
     <<"C2_JMP_1_LINK", {<<0, "C2_JMP_1_EBRK_LINK">>} \cup Same("C_ADD", 1)>>,
     <<"C2_JMP_1_EBRK_LINK", {<<0, "C2_JMP_1_EB_JL_LINK">>}>>,
     <<"C2_JMP_1_EB_JL_LINK", {<<0, "C_EBREAK">>} \cup Same("C_JALR", 1)>> >>

Tables == << <<"NONE", TopRows>> >> \o IntegerTables \o FloatTables \o CompressedTables

\* md_init_decoder(): a table starts behind the last row defined so far, so it
\* takes the room of its rows and not of its field.
Room(k) == Max({r[1] : r \in Tables[k][2]}) + 1
Offset[k \in DOMAIN Tables] == IF k = 1 THEN 0 ELSE Offset[k - 1] + Room(k - 1)
Placed == {<<Tables[k][1], Offset[k]>> : k \in DOMAIN Tables}
md_opoffset == [l \in Links |-> (CHOOSE p \in Placed : p[1] = l)[2]]

Slots == UNION {{<<Offset[k] + r[1], r[2]>> : r \in Tables[k][2]} : k \in DOMAIN Tables}
md_mask2op == [n \in {s[1] : s \in Slots} |-> (CHOOSE s \in Slots : s[1] = n)[2]]

\* Reading past the end of md_mask2op gives whatever lies there.
At(k) == IF k >= MD_MAX_MASK THEN "outside"
         ELSE IF k \in DOMAIN md_mask2op THEN md_mask2op[k] ELSE "NA"
FieldOf(i, link) == Field(i, LinkField[link][1], LinkField[link][2])

\* MD_SET_OPCODE: the top field, then link by link.
DecodeInit ==
  /\ inst \in Encodings
  /\ opcode = At(IF Compressed(inst) THEN inst % 4 ELSE inst % 128)

DecodeLink ==
  /\ opcode \in Links
  /\ opcode' = At(FieldOf(inst, opcode) + md_opoffset[opcode])
  /\ UNCHANGED inst

DecodeNext == DecodeLink
DecodeSpec == DecodeInit /\ [][DecodeNext]_decodeVars

-----------------------------------------------------------------------------
(* The immediates of riscv.h.                                              *)

RS1 == Field(inst, 15, 5)
RS2 == Field(inst, 20, 5)
RD == Field(inst, 7, 5)
IMM == inst \div 2 ^ 20
SIMM == IMM - (IMM % 32) + RD
UIMM == (inst \div 2 ^ 12) * 2 ^ 12
BIMM_NoBit11 == SIMM - (SIMM % 2)
BIMM == SIMM - (SIMM % 2) - (Field(SIMM, 11, 1) * 2048) + (Field(inst, 7, 1) * 2048)
JIMM == IMM - (IMM % 2 ^ 20) + (IMM & 2046) + (UIMM & 1044480)
        + (Field(inst, 20, 1) * 2048)

\* SEXT_TO.
SextTo(n, bits) == IF n >= 2 ^ (bits - 1) THEN n - 2 ^ bits ELSE n

RD_C_x8 == Field(inst, 2, 3) + 8
RD_C_x32 == RD
RS1_RD_C_x8 == Field(inst, 7, 3) + 8
RS2_C_x8 == RD_C_x8
RS2_C_x32 == Field(inst, 2, 5)
IMM_C_R == inst & 124
IMM_C_L == inst & 8064
IMM_C_5 == Field(inst, 12, 1) * 32
IMM_C_5_4_0 == (IMM_C_R \div 4) | IMM_C_5
SHAMT_C == IMM_C_5_4_0
WIMM_C_R == ((IMM_C_R & 112) \div 4) | ((IMM_C_R & 12) * 16) | IMM_C_5
WIMM_C_L == ((IMM_C_L & 7680) \div 128) | ((IMM_C_L & 384) \div 2)
DIMM_C_R == ((IMM_C_R & 96) \div 4) | ((IMM_C_R & 28) * 16) | IMM_C_5
DIMM_C_L == ((IMM_C_L & 7168) \div 128) | ((IMM_C_L & 896) \div 2)
WIMM_C_BRLS == ((inst & 64) \div 16) | ((inst & 32) * 2) | (Field(inst, 10, 3) * 8)
DIMM_C_BRLS == ((inst & 96) * 2) | (Field(inst, 10, 3) * 8)
JIMM_C ==
  ((inst & 4) * 8) | ((inst & 56) \div 4) | ((inst & 64) * 2) | ((inst & 128) \div 2)
  | ((inst & 256) * 4) | ((inst & 1536) \div 2) | (Field(inst, 11, 1) * 16)
  | (Field(inst, 12, 1) * 2048)
BIMM_C ==
  ((IMM_C_R & 4) * 8) | ((IMM_C_R & 24) \div 4) | ((IMM_C_R & 96) * 2)
  | ((inst & 3072) \div 128) | ((inst & 4096) \div 16)
UIMM_C == (IMM_C_R * 1024) | (IMM_C_5 * 4096)
IMM_C_4SPN == ((inst & 32) \div 4) | ((inst & 64) \div 16) | ((inst & 1920) \div 2)
              | ((inst & 6144) \div 128)
IMM_C_16SP == ((IMM_C_R & 4) * 8) | ((IMM_C_R & 24) * 16) | ((IMM_C_R & 32) * 2)
              | ((IMM_C_R & 64) \div 4) | (IMM_C_5 * 16)

-----------------------------------------------------------------------------
(* What each compressed instruction does: the instruction it stands for    *)
(* and the registers its DEFINST row declares.  MD_REG_RA is 1, _SP is 2.  *)

X(o, rd, rs1, rs2, imm) == [op |-> o, rd |-> rd, rs1 |-> rs1, rs2 |-> rs2, imm |-> imm]
Faults == X("fault", 0, 0, 0, 0)
Nothing == X("nothing", 0, 0, 0, 0)
\* One outcome; a fault when the macro declares it first.
Does(x, fault) == {IF fault THEN Faults ELSE x}
\* Outcomes, declared outputs and inputs.
Row(outcomes, outs, ins) == [does |-> outcomes, outs |-> outs, ins |-> ins]

C0Row ==
  LET rd == RD_C_x8   rs1 == RS1_RD_C_x8   rs2 == RS2_C_x8
  IN  CASE opcode = "C_ADDI4SPN" -> Row(Does(X("ADDI", rd, 2, 0, IMM_C_4SPN), IMM_C_4SPN = 0), {rd}, {2})
        [] opcode = "C_FLD" -> Row({X("FLD", rd, rs1, 0, DIMM_C_BRLS)}, {rd}, {rs1})
        [] opcode = "C_LW"  -> Row({X("LW", rd, rs1, 0, WIMM_C_BRLS)}, {rd}, {rs1})
        [] opcode = "C_LD"  -> Row({X("LD", rd, rs1, 0, DIMM_C_BRLS)}, {rd}, {rs1})
        [] opcode = "C_FSD" -> Row({X("FSD", 0, rs1, rs2, DIMM_C_BRLS)}, {}, {RS1, RS2})
        [] opcode = "C_SW"  -> Row({X("SW", 0, rs1, rs2, WIMM_C_BRLS)}, {}, {rs1, rs2})
        [] opcode = "C_SD"  -> Row({X("SD", 0, rs1, rs2, DIMM_C_BRLS)}, {}, {rs1, rs2})
C0Ops == {"C_ADDI4SPN", "C_FLD", "C_LW", "C_LD", "C_FSD", "C_SW", "C_SD"}

\* C_LI declares a fault it never set: whatever its stack slot holds.
C1Row ==
  LET rd == RD_C_x32   s == RS1_RD_C_x8   imm == SextTo(IMM_C_5_4_0, 6)
  IN  CASE opcode = "C_ADDI"  -> Row(Does(X("ADDI", rd, rd, 0, imm), rd = 0 \/ imm = 0), {rd}, {rd})
        [] opcode = "C_ADDIW" -> Row(Does(X("ADDIW", rd, rd, 0, imm), rd = 0), {rd}, {rd})
        [] opcode = "C_LI" -> Row(IF rd = 0 THEN {Faults, Nothing} ELSE {X("ADDI", rd, 0, 0, imm)},
                              {rd}, {})
        [] opcode = "C_J"  -> Row({X("JAL", 0, 0, 0, SextTo(JIMM_C, 12))}, {}, {})
        [] opcode = "C_BEQZ" -> Row({X("BEQ", 0, s, 0, SextTo(BIMM_C, 9))}, {}, {s})
        [] opcode = "C_BNEZ" -> Row({X("BNE", 0, s, 0, SextTo(BIMM_C, 9))}, {}, {s})
C1Ops == {"C_ADDI", "C_ADDIW", "C_LI", "C_J", "C_BEQZ", "C_BNEZ"}

C16SPRow ==
  LET rd == RD_C_x32
  IN  CASE opcode = "C_ADDI16SP" ->
             Row(Does(X("ADDI", 2, 2, 0, SextTo(IMM_C_16SP, 10)), IMM_C_16SP = 0), {2}, {2})
        [] opcode = "C_LUI" ->
             Row(Does(X("LUI", rd, 0, 0, SextTo(UIMM_C, 18)), rd \in {0, 2} \/ UIMM_C = 0), {rd}, {})

CLogicRow ==
  LET d == RS1_RD_C_x8
      t == RS2_C_x8
      Two(o) == Row({X(o, d, d, t, 0)}, {d}, {d, t})
  IN  CASE opcode = "C_SRLI64" -> Row(Does(X("SRLI", d, d, 0, SHAMT_C), SHAMT_C = 0), {d}, {d})
        [] opcode = "C_SRAI64" -> Row(Does(X("SRAI", d, d, 0, SHAMT_C), SHAMT_C = 0), {d}, {d})
        [] opcode = "C_ANDI" -> Row({X("ANDI", d, d, 0, SextTo(IMM_C_5_4_0, 6))}, {d}, {d})
        [] opcode = "C_SUB"  -> Two("SUB")    [] opcode = "C_XOR"  -> Two("XOR")
        [] opcode = "C_OR"   -> Two("OR")     [] opcode = "C_AND"  -> Two("AND")
        [] opcode = "C_SUBW" -> Two("SUBW")   [] opcode = "C_ADDW" -> Two("ADDW")
CLogicOps == {"C_SRLI64", "C_SRAI64", "C_ANDI", "C_SUB", "C_XOR", "C_OR", "C_AND",
              "C_SUBW", "C_ADDW"}

C2Row ==
  LET rd == RD_C_x32   rs2 == RS2_C_x32
  IN  CASE opcode = "C_SLLI64" -> Row(Does(X("SLLI", rd, rd, 0, SHAMT_C), rd = 0 \/ SHAMT_C = 0), {rd}, {rd})
        [] opcode = "C_FLDSP" -> Row({X("FLD", rd, 2, 0, DIMM_C_R)}, {rd}, {2})
        [] opcode = "C_LWSP"  -> Row(Does(X("LW", rd, 2, 0, WIMM_C_R), rd = 0), {rd}, {2})
        [] opcode = "C_LDSP"  -> Row(Does(X("LD", rd, 2, 0, DIMM_C_R), rd = 0), {rd}, {2})
        [] opcode = "C_FSDSP" -> Row({X("FSD", 0, 2, rs2, DIMM_C_L)}, {}, {2, rs2})
        [] opcode = "C_SWSP"  -> Row({X("SW", 0, 2, rs2, WIMM_C_L)}, {}, {2, rs2})
        [] opcode = "C_SDSP"  -> Row({X("SD", 0, 2, rs2, DIMM_C_L)}, {}, {2, rs2})
C2Ops == {"C_SLLI64", "C_FLDSP", "C_LWSP", "C_LDSP", "C_FSDSP", "C_SWSP", "C_SDSP"}

CMoveRow ==
  IF opcode = "C_JR"
  THEN Row(Does(X("JALR", 0, RD_C_x32, 0, 0), RS2_C_x32 # 0), {}, {RD_C_x32, RS2_C_x32})
  ELSE Row({X("ADD", RD_C_x32, 0, RS2_C_x32, 0)}, {RD_C_x32}, {RS2_C_x32})

CAddRow ==
  LET rd == RD_C_x32
  IN  Row(Does(X("ADD", rd, rd, RS2_C_x32, 0), rd = 0 \/ RS2_C_x32 = 0), {rd}, {rd, RS2_C_x32})

\* C_EBREAK is system call 93, exit.
CLinkRow ==
  IF opcode = "C_EBREAK" THEN Row({X("EBREAK", 0, 0, 0, 0)}, {}, {})
  ELSE Row(Does(X("JALR", 1, RD_C_x32, 0, 0), RS2_C_x32 # 0), {1}, {RD_C_x32})

CRow ==
  CASE opcode \in C0Ops -> C0Row            [] opcode \in C1Ops -> C1Row
    [] opcode \in {"C_ADDI16SP", "C_LUI"} -> C16SPRow
    [] opcode \in CLogicOps -> CLogicRow    [] opcode \in C2Ops -> C2Row
    [] opcode \in {"C_JR", "C_MV"} -> CMoveRow
    [] opcode = "C_ADD" -> CAddRow          [] opcode \in {"C_JALR", "C_EBREAK"} -> CLinkRow
    [] OTHER -> Row({Nothing}, {}, {})

-----------------------------------------------------------------------------
(* What the instruction set manual says.                                   *)

\* The bits of inst from hi down, each with the place the manual gives it.
Gathered(hi, places) ==
  LET sum[k \in 0 .. Len(places)] ==
        IF k = 0 THEN 0 ELSE sum[k - 1] + (Field(inst, hi - k + 1, 1) * 2 ^ places[k])
  IN  sum[Len(places)]
Sign(hi, bits) == IF hi = 31 THEN (IF inst < 0 THEN -1 * 2 ^ bits ELSE 0)
                  ELSE -1 * Field(inst, hi, 1) * 2 ^ bits

\* The fields of the compressed formats: bit 12 (or 12:10, 12:7) and 6:2.
TwelveAnd(top, low) == Gathered(12, top) + Gathered(6, low)
CImm == Sign(12, 5) + TwelveAnd(<<>>, <<4, 3, 2, 1, 0>>)

RefCompressed ==
  LET f == Field(inst, 13, 3)
      d == RD   t == Field(inst, 2, 5)
      a == Field(inst, 7, 3) + 8   b == Field(inst, 2, 3) + 8
      lw == TwelveAnd(<<5, 4, 3>>, <<2, 6>>)
      ld == TwelveAnd(<<5, 4, 3>>, <<7, 6>>)
      shamt == TwelveAnd(<<5>>, <<4, 3, 2, 1, 0>>)
      br == Sign(12, 8) + Gathered(11, <<4, 3>>) + Gathered(6, <<7, 6, 2, 1, 5>>)
  IN  CASE inst % 4 = 0 /\ f = 0 -> X("ADDI", b, 2, 0, Gathered(12, <<5, 4, 9, 8, 7, 6, 2, 3>>))
        [] inst % 4 = 0 /\ f = 1 -> X("FLD", b, a, 0, ld)
        [] inst % 4 = 0 /\ f = 2 -> X("LW", b, a, 0, lw)
        [] inst % 4 = 0 /\ f = 3 -> X("LD", b, a, 0, ld)
        [] inst % 4 = 0 /\ f = 5 -> X("FSD", 0, a, b, ld)
        [] inst % 4 = 0 /\ f = 6 -> X("SW", 0, a, b, lw)
        [] inst % 4 = 0 /\ f = 7 -> X("SD", 0, a, b, ld)
        [] inst % 4 = 1 /\ f = 0 -> X("ADDI", d, d, 0, CImm)
        [] inst % 4 = 1 /\ f = 1 -> X("ADDIW", d, d, 0, CImm)
        [] inst % 4 = 1 /\ f = 2 -> X("ADDI", d, 0, 0, CImm)
        [] inst % 4 = 1 /\ f = 3 /\ d = 2 ->
             X("ADDI", 2, 2, 0, Sign(12, 9) + Gathered(6, <<4, 6, 8, 7, 5>>))
        [] inst % 4 = 1 /\ f = 3 -> X("LUI", d, 0, 0, CImm * 4096)
        [] inst % 4 = 1 /\ f = 4 ->
             (CASE Field(inst, 10, 2) = 0 -> X("SRLI", a, a, 0, shamt)
                [] Field(inst, 10, 2) = 1 -> X("SRAI", a, a, 0, shamt)
                [] Field(inst, 10, 2) = 2 -> X("ANDI", a, a, 0, CImm)
                [] OTHER -> LET k == (Field(inst, 12, 1) * 4) + Field(inst, 5, 2)
                            IN  X(<<"SUB", "XOR", "OR", "AND", "SUBW", "ADDW", "NA", "NA">>[k + 1],
                                  a, a, b, 0))
        [] inst % 4 = 1 /\ f = 5 ->
             X("JAL", 0, 0, 0, Sign(12, 11) + Gathered(11, <<4, 9, 8, 10, 6, 7, 3, 2, 1, 5>>))
        [] inst % 4 = 1 /\ f = 6 -> X("BEQ", 0, a, 0, br)
        [] inst % 4 = 1 /\ f = 7 -> X("BNE", 0, a, 0, br)
        [] inst % 4 = 2 /\ f = 0 -> X("SLLI", d, d, 0, shamt)
        [] inst % 4 = 2 /\ f = 1 -> X("FLD", d, 2, 0, TwelveAnd(<<5>>, <<4, 3, 8, 7, 6>>))
        [] inst % 4 = 2 /\ f = 2 -> X("LW", d, 2, 0, TwelveAnd(<<5>>, <<4, 3, 2, 7, 6>>))
        [] inst % 4 = 2 /\ f = 3 -> X("LD", d, 2, 0, TwelveAnd(<<5>>, <<4, 3, 8, 7, 6>>))
        [] inst % 4 = 2 /\ f = 4 ->
             (CASE t # 0 -> X("ADD", d, IF Field(inst, 12, 1) = 0 THEN 0 ELSE d, t, 0)
                [] t = 0 /\ d = 0 -> X("EBREAK", 0, 0, 0, 0)
                [] OTHER -> X("JALR", Field(inst, 12, 1), d, 0, 0))
        [] inst % 4 = 2 /\ f = 5 -> X("FSD", 0, 2, t, Gathered(12, <<5, 4, 3, 8, 7, 6>>))
        [] inst % 4 = 2 /\ f = 6 -> X("SW", 0, 2, t, Gathered(12, <<5, 4, 3, 2, 7, 6>>))
        [] inst % 4 = 2 /\ f = 7 -> X("SD", 0, 2, t, Gathered(12, <<5, 4, 3, 8, 7, 6>>))
        [] OTHER -> X("NA", 0, 0, 0, 0)

\* Encodings the manual reserves, and the hints, which change nothing: an
\* operation on x0, or by an immediate that leaves the register as it is.
Reserved(x) ==
  \/ x.op = "NA"
  \/ inst % 4 = 0 /\ x.op = "ADDI" /\ x.imm = 0
  \/ inst % 4 = 1 /\ x.op = "ADDIW" /\ x.rd = 0
  \/ inst % 4 = 1 /\ x.op = "LUI" /\ x.imm = 0
  \/ inst % 4 = 1 /\ x.op = "ADDI" /\ x.rd = 2 /\ x.rs1 = 2 /\ x.imm = 0
  \/ inst % 4 = 2 /\ x.op \in {"LW", "LD"} /\ x.rd = 0
  \/ inst % 4 = 2 /\ Field(inst, 13, 3) = 4 /\ RS2_C_x32 = 0 /\ RD = 0
       /\ Field(inst, 12, 1) = 0
Hint(x) ==
  \/ x.op \in {"ADDI", "LUI", "SLLI"} /\ x.rd = 0
  \/ x.op = "ADD" /\ x.rd = 0 /\ Field(inst, 12, 1) = 1
  \/ x.op \in {"SLLI", "SRLI", "SRAI"} /\ x.imm = 0
  \/ x.op = "ADDI" /\ inst % 4 = 1 /\ Field(inst, 13, 3) = 0 /\ x.imm = 0

Settled == opcode \notin Links

\* The tables are packed: each begins behind the last row of the one before, so
\* a field above a table's last row reads the next.  No two tables overlap:
\* a row that is defined is found, and a hole inside a table is no instruction.
TablesArePacked ==
  ~Settled =>
    LET t == CHOOSE u \in {Tables[k] : k \in DOMAIN Tables} : u[1] = opcode
        f == FieldOf(inst, opcode)
        row == {r \in t[2] : r[1] = f}
        found == At(f + md_opoffset[opcode])
    IN  /\ \A r \in row : found = r[2]
        /\ row = {} /\ f < Max({r[1] : r \in t[2]}) => found = "NA"

\* The immediate fields, gathered by masks and shifts, are those of the manual.
ImmediatesAreRight ==
  ~Compressed(inst) =>
    /\ IMM = Sign(31, 11) + Gathered(30, <<10, 9, 8, 7, 6, 5, 4, 3, 2, 1, 0>>)
    /\ SIMM = Sign(31, 11) + Gathered(30, <<10, 9, 8, 7, 6, 5>>) + Gathered(11, <<4, 3, 2, 1, 0>>)
    /\ BIMM = Sign(31, 12) + Gathered(30, <<10, 9, 8, 7, 6, 5>>) + Gathered(11, <<4, 3, 2, 1, 11>>)
    /\ JIMM = Sign(31, 20) + Gathered(30, <<10, 9, 8, 7, 6, 5, 4, 3, 2, 1, 11>>)
              + Gathered(19, <<19, 18, 17, 16, 15, 14, 13, 12>>)

\* A compressed instruction does what the one it stands for does, and declares
\* the registers that one uses.  Not so for the hints, c.nop among them, which
\* the code faults; for c.ebreak, whose link reads bits 13:9 and so is found
\* in the next table, as a c.jalr; and C_FSD declares fields it does not have.
CompressedExpandsRight ==
  Settled /\ Compressed(inst) =>
    LET x == RefCompressed
        odd == Hint(x) \/ x.op = "EBREAK"
    IN  ~Reserved(x) =>
          /\ IF odd THEN CRow.does # {x} ELSE CRow.does = {x}
          /\ ~odd /\ opcode # "C_FSD" => /\ CRow.outs \ {0} = {x.rd} \ {0}
                                     /\ CRow.ins \ {0} = {x.rs1, x.rs2} \ {0}

\* The walk ends, whatever bits are fetched: a link leads only to links of later
\* tables, also when the index leaves its own.
LinksLeadOn ==
  ~Settled =>
    LET Place(l) == CHOOSE k \in DOMAIN Tables : Tables[k][1] = l
        next == At(FieldOf(inst, opcode) + md_opoffset[opcode])
    IN  next \in Links => Place(opcode) < Place(next)

\* Every encoding is decoded, and a compressed one expanded, as the manual says.
DecodingIsRight == TablesArePacked /\ LinksLeadOn /\ ImmediatesAreRight /\ CompressedExpandsRight
=============================================================================
