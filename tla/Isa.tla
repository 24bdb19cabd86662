-------------------------------- MODULE Isa --------------------------------
(***************************************************************************)
(* What an instruction of riscv.def does: the integer, memory, atomic and  *)
(* control-register instructions, on words scaled down from 64 bits to     *)
(* XLEN (a byte is an eighth of it).  An instruction is decoded: its       *)
(* opcode, register numbers and sign-extended immediate.                   *)
(*                                                                         *)
(* A view V is the state an instruction reads: registers x, program        *)
(* counter, control registers csr, reservation lr, memory mem, and, when   *)
(* spec is set, the wrong-path stores ent.  Its effect is a record of what *)
(* it writes; Tracer applies it.                                           *)
(***************************************************************************)
EXTENDS Integers, FiniteSetsExt, TLC

CONSTANTS
  BitAnd(_, _), BitOr(_, _), BitXor(_, _),   \* C's &, | and ^
  XLEN,       \* bits in a register (64 in riscv.h)
  FlagBits,   \* bits of fflags, below frm in fcsr (5)
  Status,     \* the bits of mstatus: SIE, MIE, SPIE, MPIE, SPP, MPP
  Segment     \* the addresses MD_VALID_ADDR accepts

ASSUME IsaAssumption ==
  /\ XLEN \in Nat \ {0} /\ XLEN % 8 = 0 /\ FlagBits \in Nat /\ Segment \subseteq Nat
  /\ \A b \in DOMAIN Status : Status[b] \in 0 .. 2 ^ XLEN - 1

W == XLEN \div 2
BYTE == XLEN \div 8
MinInt(bits) == -(2 ^ (bits - 1))
MaxInt(bits) == 2 ^ (bits - 1) - 1

\* Conversions to qword_t, word_t, sqword_t and sword_t.
Wrap(n) == n % 2 ^ XLEN
Word(n) == n % 2 ^ W
SignedOf(n, bits) == LET u == n % 2 ^ bits
                     IN  IF u >= 2 ^ (bits - 1) THEN u - 2 ^ bits ELSE u
Signed(n) == SignedOf(n, XLEN)
SWord(n) == SignedOf(n, W)

\* SEXT: sets the upper half when the word is negative and clears nothing.
SEXT(n) == IF Word(n) >= 2 ^ (W - 1) THEN BitOr(Wrap(n), 2 ^ XLEN - 2 ^ W) ELSE Wrap(n)

Truth(b) == IF b THEN 1 ELSE 0

\* Division in C truncates.
Abs(n) == IF n < 0 THEN -n ELSE n
Quot(a, b) == LET q == Abs(a) \div Abs(b) IN IF (a < 0) = (b < 0) THEN q ELSE -q
Rest(a, b) == a - b * Quot(a, b)

Sar_Logical(n, s) == Wrap(n) \div 2 ^ s

\* Logical and arithmetic shifts.
Shl(n, s) == Wrap(n * 2 ^ s)
Shr(n, s) == n \div 2 ^ s
Sar(n, s) == Wrap(Signed(n) \div 2 ^ s)

-----------------------------------------------------------------------------
(* Register and immediate arithmetic: the value written to rd.             *)

ImmValue(op, a, imm) ==
  LET sh == Wrap(imm) % XLEN
  IN  CASE op = "ADDI"  -> Wrap(a + imm)
        [] op = "SLTI"  -> Truth(Signed(a) < imm)
        [] op = "SLTIU" -> Truth(a < Wrap(imm))
        [] op = "XORI"  -> BitXor(a, Wrap(imm))
        [] op = "ORI"   -> BitOr(a, Wrap(imm))
        [] op = "ANDI"  -> BitAnd(a, Wrap(imm))
        [] op = "SLLI"  -> Shl(a, sh)
        [] op = "SRLI"  -> Shr(a, sh)
        [] op = "SRAI"  -> Sar(a, sh)

ImmWValue(op, a, imm) ==
  LET sh == Wrap(imm) % W
  IN  CASE op = "ADDIW" -> SEXT(Word(Word(a) + Word(imm)))
        [] op = "SLLIW" -> SEXT(Word(Shl(a, sh)))
        [] op = "SRLIW" -> SEXT(Shr(Word(a), sh))
        [] op = "SRAIW" -> SEXT(Shr(SEXT(Word(a)), sh))   \* SEXT is unsigned

RegValue(op, a, b) ==
  LET sh == b % XLEN
  IN  CASE op = "ADD"  -> Wrap(a + b)
        [] op = "SUB"  -> Wrap(a - b)
        [] op = "SLL"  -> Shl(a, sh)
        [] op = "SLT"  -> Truth(Signed(a) < Signed(b))
        [] op = "SLTU" -> Truth(a < b)
        [] op = "XOR"  -> BitXor(a, b)
        [] op = "SRL"  -> Shr(a, sh)
        [] op = "SRA"  -> Sar(a, sh)
        [] op = "OR"   -> BitOr(a, b)
        [] op = "AND"  -> BitAnd(a, b)

RegWValue(op, a, b) ==
  LET sh == b % W
  IN  CASE op = "ADDW" -> SEXT(Word(a + b))
        [] op = "SUBW" -> SEXT(Word(a - Word(b)))
        [] op = "SLLW" -> SEXT(Word(Shl(a, sh)))
        [] op = "SRLW" -> SEXT(Shr(Word(a), sh))
        [] op = "SRAW" -> SEXT(Shr(SEXT(Word(a)), sh))

\* MULH: the four half products in signed registers, then the upper half of
\* the result masked away.
MULH(a, b) ==
  LET h1 == Signed(a) \div 2 ^ W   l1 == Word(a)
      h2 == Signed(b) \div 2 ^ W   l2 == Word(b)
      low == Signed(l1 * l2)       hl == Signed(h1 * l2)
      lh == Signed(l1 * h2)        mid == Signed(hl + lh)
      mid2 == Signed(mid + (low \div 2 ^ W))
      carry == Truth(mid < hl \/ mid < lh) + Truth(mid2 < mid)
  IN  Word(h1 * h2 + carry * 2 ^ W + Word(mid2 \div 2 ^ W))

\* MULHSU: the middle sum is signed, the shifted low product unsigned.
MULHSU(a, b) ==
  LET h1 == Signed(a) \div 2 ^ W   l1 == Word(a)
      h2 == b \div 2 ^ W           l2 == Word(b)
      low == Wrap(l1 * l2) \div 2 ^ W
      hl == Signed(h1 * l2)
      mid == Signed(hl + l1 * h2)
      mid2 == Signed(mid + low)
      carry == Truth(mid < hl) + Truth(Wrap(mid2) < low)
  IN  Wrap(h1 * h2 + carry * 2 ^ W + (mid2 \div 2 ^ W))

MULHU(a, b) ==
  LET h1 == a \div 2 ^ W    l1 == Word(a)
      h2 == b \div 2 ^ W    l2 == Word(b)
      hl == h1 * l2         mid == Wrap(hl + l1 * h2)
      mid2 == Wrap(mid + ((l1 * l2) \div 2 ^ W))
      carry == Truth(mid < hl \/ mid < l1 * h2) + Truth(mid2 < mid)
  IN  Wrap(h1 * h2 + carry * 2 ^ W + Word(mid2 \div 2 ^ W))

MulValue(op, a, b) ==
  CASE op = "MUL"    -> Wrap(a * b)
    [] op = "MULW"   -> SEXT(Word(Word(a) * Word(b)))
    [] op = "MULH"   -> MULH(a, b)
    [] op = "MULHSU" -> MULHSU(a, b)
    [] op = "MULHU"  -> MULHU(a, b)

\* DIVW: a dividend of INT32_MIN gives INT32_MIN whatever divides it.
DIVW(a, b) ==
  IF SWord(b) = 0 THEN Wrap(-1)
  ELSE IF SWord(a) = MinInt(W) THEN SEXT(Word(MinInt(W)))
  ELSE SEXT(Quot(SWord(a), SWord(b)))

\* DIV: the overflow case is looked for at UINT64_MIN, which is zero.
DIV(a, b) ==
  IF b = 0 THEN Wrap(-1)
  ELSE IF a = 0 /\ Signed(b) = -1 THEN 0
  ELSE Wrap(Quot(Signed(a), Signed(b)))

DivValue(op, a, b) ==
  CASE op = "DIVW"  -> DIVW(a, b)
    [] op = "DIVUW" -> IF Word(b) = 0 THEN Wrap(-1) ELSE SEXT(Word(a) \div Word(b))
    [] op = "REMW"  -> IF SWord(b) = -1 THEN 0
                       ELSE SEXT(IF SWord(b) = 0 THEN SWord(a) ELSE Rest(SWord(a), SWord(b)))
    [] op = "REMUW" -> SEXT(IF Word(b) = 0 THEN Word(a) ELSE Word(a) % Word(b))
    [] op = "DIV"   -> DIV(a, b)
    [] op = "DIVU"  -> IF b = 0 THEN Wrap(-1) ELSE a \div b
    [] op = "REM"   -> IF Signed(b) = -1 THEN 0
                       ELSE IF b = 0 THEN a ELSE Wrap(Rest(Signed(a), Signed(b)))
    [] op = "REMU"  -> IF b = 0 THEN a ELSE a % b

\* INT64_MIN / -1 is left to the host's divide instruction, which traps.
HostTraps(op, a, b) == op = "DIV" /\ Signed(a) = MinInt(XLEN) /\ Signed(b) = -1

Taken(op, a, b) ==
  CASE op = "BEQ"  -> a = b
    [] op = "BNE"  -> a # b
    [] op = "BLT"  -> Signed(a) < Signed(b)
    [] op = "BGE"  -> Signed(a) >= Signed(b)
    [] op = "BLTU" -> a < b
    [] op = "BGEU" -> a >= b

ImmOps == {"ADDI", "SLTI", "SLTIU", "XORI", "ORI", "ANDI", "SLLI", "SRLI", "SRAI"}
ImmWOps == {"ADDIW", "SLLIW", "SRLIW", "SRAIW"}
RegOps == {"ADD", "SUB", "SLL", "SLT", "SLTU", "XOR", "SRL", "SRA", "OR", "AND"}
RegWOps == {"ADDW", "SUBW", "SLLW", "SRLW", "SRAW"}
MulOps == {"MUL", "MULW", "MULH", "MULHSU", "MULHU"}
DivOps == {"DIVW", "DIVUW", "REMW", "REMUW", "DIV", "DIVU", "REM", "REMU"}
BranchOps == {"BEQ", "BNE", "BLT", "BGE", "BLTU", "BGEU"}

-----------------------------------------------------------------------------
(* Memory.                                                                 *)

MemValue(store, a, n) ==
  MapThenSumSet(LAMBDA k : (IF a + k \in DOMAIN store THEN store[a + k] ELSE 0)
                           * 2 ^ (BYTE * k), 0 .. n - 1)
PutMem(store, a, n, v) ==
  [b \in a .. a + n - 1 |-> (v \div 2 ^ (BYTE * (b - a))) % 2 ^ BYTE] @@ store

Aligned(a, n) == a % n = 0

\* spec_mem_access, a read: the buffered store of this very address, else
\* memory; nothing faults.
SpecRead(V, a, n) ==
  CASE ~Aligned(a, n) \/ a \notin Segment -> 0
    [] a \in DOMAIN V.ent -> IF n = 8 THEN V.ent[a][1] + V.ent[a][2] * 2 ^ W
                             ELSE V.ent[a][1] % 2 ^ (BYTE * n)
    [] OTHER -> MemValue(V.mem, a, n)

\* READ_BYTE .. READ_QWORD: the value and the fault.
Read(V, a, n) ==
  IF V.spec THEN [val |-> SpecRead(V, a, n), fault |-> FALSE]
  ELSE [val |-> IF Aligned(a, n) THEN MemValue(V.mem, a, n) ELSE 0,
        fault |-> ~Aligned(a, n)]

\* One register, or control register, and what is written to it.
Sets(r, v) == [n \in {r} |-> v]

\* An instruction that does nothing but go to the next.
NoEffect(V) ==
  [x |-> <<>>, csr |-> <<>>, lr |-> V.lr, store |-> <<>>, npc |-> Wrap(V.pc + 4),
   fault |-> "none"]

\* DECLARE_FAULT ends the instruction where it stands.
Faulted(V, f) == [NoEffect(V) EXCEPT !.fault = f]
Store(a, n, v) == [addr |-> a, size |-> n, val |-> v]

\* A store faults when mem_access() does.
WithStore(V, e, st) ==
  IF ~V.spec /\ ~Aligned(st.addr, st.size) THEN Faulted(V, "md") ELSE [e EXCEPT !.store = st]

Size(op) == CASE op \in {"LB", "LBU", "SB"} -> 1
              [] op \in {"LH", "LHU", "SH"} -> 2
              [] op \in {"LW", "LWU", "SW"} -> 4
              [] op \in {"LD", "SD"} -> 8
LoadOps == {"LB", "LH", "LW", "LD", "LBU", "LHU", "LWU"}
StoreOps == {"SB", "SH", "SW", "SD"}

LoadEffect(V, i) ==
  LET r == Read(V, Wrap(V.x[i.rs1] + i.imm), Size(i.op))
      v == IF i.op \in {"LB", "LH", "LW"} THEN Wrap(SignedOf(r.val, BYTE * Size(i.op)))
           ELSE r.val
  IN  IF r.fault THEN Faulted(V, "md") ELSE [NoEffect(V) EXCEPT !.x = Sets(i.rd, v)]

StoreEffect(V, i) ==
  LET n == Size(i.op)
  IN  WithStore(V, NoEffect(V),
                Store(Wrap(V.x[i.rs1] + i.imm), n, V.x[i.rs2] % 2 ^ (BYTE * n)))

-----------------------------------------------------------------------------
(* The A extension.  lrsc holds an address and a value, not a reservation. *)

lrsc_init == [addr |-> 0, val |-> 0]

LR_W(V, i) ==
  LET a == V.x[i.rs1]
      r == Read(V, a, 4)
  IN  IF r.fault THEN Faulted(V, "md")
      ELSE [NoEffect(V) EXCEPT !.x = Sets(i.rd, SEXT(r.val)),
                               !.lr = [addr |-> a, val |-> Wrap(SWord(r.val))]]

LR_D(V, i) ==
  LET a == V.x[i.rs1]
      r == Read(V, a, 8)
  IN  IF r.fault THEN Faulted(V, "md")
      ELSE [NoEffect(V) EXCEPT !.x = Sets(i.rd, r.val), !.lr = [addr |-> a, val |-> r.val]]

\* SC_W and SC_D: the word read is compared zero-extended; the value stored is
\* the lower word of rs2 for both.
SC(V, i) ==
  LET a == V.x[i.rs1]
      n == IF i.op = "SC_W" THEN 4 ELSE 8
      wins == a = V.lr.addr /\ Read(V, a, n).val = V.lr.val
      e == [NoEffect(V) EXCEPT !.x = Sets(i.rd, Truth(~wins)), !.lr = lrsc_init]
  IN  IF wins THEN WithStore(V, e, Store(a, n, Word(V.x[i.rs2]))) ELSE e

AmoWOps == {"AMOSWAP_W", "AMOADD_W", "AMOXOR_W", "AMOAND_W", "AMOOR_W",
            "AMOMIN_W", "AMOMAX_W", "AMOMINU_W", "AMOMAXU_W"}
AmoDOps == {"AMOSWAP_D", "AMOADD_D", "AMOXOR_D", "AMOAND_D", "AMOOR_D",
            "AMOMIN_D", "AMOMAX_D", "AMOMINU_D", "AMOMAXU_D"}

\* What is written back; the minima and maxima write only on a change.
AmoNew(op, old, v, bits) ==
  LET s(n) == SignedOf(n, bits)
      opIn(S) == op \in S
  IN  CASE opIn({"AMOSWAP_W", "AMOSWAP_D"}) -> v
        [] opIn({"AMOADD_W", "AMOADD_D"})   -> (old + v) % 2 ^ bits
        [] opIn({"AMOXOR_W", "AMOXOR_D"})   -> BitXor(old, v)
        [] opIn({"AMOAND_W", "AMOAND_D"})   -> BitAnd(old, v)
        [] opIn({"AMOOR_W", "AMOOR_D"})     -> BitOr(old, v)
        [] opIn({"AMOMIN_W", "AMOMIN_D"})   -> IF s(v) < s(old) THEN v ELSE old
        [] opIn({"AMOMAX_W", "AMOMAX_D"})   -> IF s(v) > s(old) THEN v ELSE old
        [] opIn({"AMOMINU_W", "AMOMINU_D"}) -> IF v < old THEN v ELSE old
        [] opIn({"AMOMAXU_W", "AMOMAXU_D"}) -> IF v > old THEN v ELSE old

\* Three of the word forms write through a 32-bit copy of the address.
AmoAddr(op, a) ==
  CASE op \in {"AMOSWAP_W", "AMOMINU_W"} -> Word(a)
    [] op = "AMOAND_W" -> Wrap(SWord(a))
    [] OTHER -> a

AmoEffect(V, i) ==
  LET n == IF i.op \in AmoWOps THEN 4 ELSE 8
      bits == BYTE * n
      a == V.x[i.rs1]
      r == Read(V, a, n)
      new == AmoNew(i.op, r.val, V.x[i.rs2] % 2 ^ bits, bits)
      keeps == new = r.val /\ i.op \in {"AMOMIN_W", "AMOMAX_W", "AMOMINU_W", "AMOMAXU_W",
                                        "AMOMIN_D", "AMOMAX_D", "AMOMINU_D", "AMOMAXU_D"}
      e == [NoEffect(V) EXCEPT !.x = Sets(i.rd, IF n = 4 THEN SEXT(r.val) ELSE r.val)]
  IN  IF r.fault THEN Faulted(V, "md")
      ELSE IF keeps THEN e ELSE WithStore(V, e, Store(AmoAddr(i.op, a), n, new))

-----------------------------------------------------------------------------
(* Control registers.                                                      *)

\* SYNC_FCSR(CSR, 1): fcsr back into frm and fflags; frm keeps two bits.
Spread(csrs) ==
  [csrs EXCEPT !["FRM"] = (csrs["FCSR"] \div 2 ^ FlagBits) % 4,
               !["FFLAGS"] = csrs["FCSR"] % 2 ^ FlagBits]
\* SYNC_FCSR(CSR, 0).
Gather(csrs) == [csrs EXCEPT !["FCSR"] = BitOr(csrs["FRM"] * 2 ^ FlagBits, csrs["FFLAGS"])]

CsrOps == {"CSRRW", "CSRRS", "CSRRC", "CSRRWI", "CSRRSI", "CSRRCI"}

\* The six forms: what is written to the register, if anything, and to rd.
\* All but the writes go through a word_t.
CsrEffect(V, i) ==
  LET isF == i.csr = "FCSR"
      before == IF isF THEN Gather(V.csr) ELSE V.csr
      old == before[i.csr]
      src == IF i.op \in {"CSRRW", "CSRRS", "CSRRC"} THEN V.x[i.rs1] ELSE i.rs1
      writes == i.op \in {"CSRRW", "CSRRWI"} \/ i.rs1 # 0
      new == CASE i.op \in {"CSRRW", "CSRRWI"} -> src
               [] i.op \in {"CSRRS", "CSRRSI"} -> BitOr(src, old)
               [] i.op \in {"CSRRC", "CSRRCI"} -> BitAnd(2 ^ XLEN - 1 - src, old)
      put == IF writes THEN [before EXCEPT ![i.csr] = new] ELSE before
      after == IF isF THEN Spread(put) ELSE put
      narrow == \/ i.op \in {"CSRRSI", "CSRRCI"}
                \/ i.op \in {"CSRRS", "CSRRC"} /\ i.rs1 # 0
      changed == IF isF THEN {"FCSR", "FRM", "FFLAGS"}
                 ELSE IF writes THEN {i.csr} ELSE {}
  IN  [NoEffect(V) EXCEPT
         !.csr = [c \in changed |-> after[c]],
         !.x = IF i.op \in {"CSRRW", "CSRRWI"} /\ i.rd = 0 THEN <<>>
               ELSE Sets(i.rd, IF narrow THEN Word(old) ELSE old)]

\* SRET and MRET: interrupt enable from its saved copy, which is then set.
XRet(V, enable, saved, previous, epc) ==
  LET kept == BitAnd(V.csr["MSTATUS"], 2 ^ XLEN - 1 - BitOr(enable, previous))
      raised == IF BitAnd(kept, saved) # 0 THEN BitOr(kept, enable) ELSE kept
  IN  [NoEffect(V) EXCEPT !.csr = Sets("MSTATUS", BitOr(raised, saved)), !.npc = V.csr[epc]]

-----------------------------------------------------------------------------
\* The instructions above and the ones that follow.
Ops == ImmOps \cup ImmWOps \cup RegOps \cup RegWOps \cup MulOps \cup DivOps \cup BranchOps
       \cup LoadOps \cup StoreOps \cup AmoWOps \cup AmoDOps \cup CsrOps
       \cup {"LUI", "AUIPC", "JAL", "JALR", "LR_W", "LR_D", "SC_W", "SC_D",
             "SRET", "MRET", "FENCE", "FENCE_I"}

\* The effect of instruction i on what it sees.
Effect(V, i) ==
  LET a == V.x[i.rs1]
      b == V.x[i.rs2]
      toRd(v) == [NoEffect(V) EXCEPT !.x = Sets(i.rd, v)]
      link == Sets(i.rd, Wrap(V.pc + 4))
  IN  CASE i.op = "LUI"   -> toRd(SEXT(i.imm))
        [] i.op = "AUIPC" -> toRd(Wrap(SEXT(i.imm) + V.pc))
        [] i.op = "JAL"   -> [toRd(0) EXCEPT !.x = link, !.npc = Wrap(V.pc + i.imm)]
        [] i.op = "JALR"  -> [toRd(0) EXCEPT !.x = link, !.npc = Wrap(a + i.imm)]
        [] i.op \in BranchOps -> IF Taken(i.op, a, b)
                                 THEN [NoEffect(V) EXCEPT !.npc = Wrap(V.pc + i.imm)]
                                 ELSE NoEffect(V)
        [] i.op \in ImmOps  -> toRd(ImmValue(i.op, a, i.imm))
        [] i.op \in ImmWOps -> toRd(ImmWValue(i.op, a, i.imm))
        [] i.op \in RegOps  -> toRd(RegValue(i.op, a, b))
        [] i.op \in RegWOps -> toRd(RegWValue(i.op, a, b))
        [] i.op \in MulOps  -> toRd(MulValue(i.op, a, b))
        [] i.op \in DivOps  -> IF HostTraps(i.op, a, b) THEN Faulted(V, "host")
                               ELSE toRd(DivValue(i.op, a, b))
        [] i.op \in LoadOps  -> LoadEffect(V, i)
        [] i.op \in StoreOps -> StoreEffect(V, i)
        [] i.op = "LR_W" -> LR_W(V, i)
        [] i.op = "LR_D" -> LR_D(V, i)
        [] i.op \in {"SC_W", "SC_D"} -> SC(V, i)
        [] i.op \in AmoWOps \cup AmoDOps -> AmoEffect(V, i)
        [] i.op \in CsrOps -> CsrEffect(V, i)
        [] i.op = "SRET" -> XRet(V, Status.SIE, Status.SPIE, Status.SPP, "SEPC")
        [] i.op = "MRET" -> XRet(V, Status.MIE, Status.MPIE, Status.MPP, "MEPC")
        [] i.op \in {"FENCE", "FENCE_I"} -> NoEffect(V)

-----------------------------------------------------------------------------
(* The operands the DEFINST rows declare, by which dispatch renames.       *)

RegOuts(i) ==
  CASE i.op \in BranchOps \cup StoreOps \cup {"FENCE", "FENCE_I", "SRET", "MRET",
                                              "SC_W", "AMOSWAP_W"} -> {}
    [] i.op = "AMOSWAP_D" -> {i.rs1}
    [] OTHER -> {i.rd}

RegIns_StoreHasNoData(i) == IF i.op \in StoreOps THEN {i.rs1} ELSE {i.rs1, i.rs2}
RegIns(i) ==
  CASE i.op \in {"LUI", "AUIPC", "JAL", "FENCE", "FENCE_I", "SRET", "MRET",
                 "CSRRWI", "CSRRSI", "CSRRCI"} -> {}
    [] i.op \in {"JALR", "LR_W", "LR_D", "CSRRW", "CSRRS", "CSRRC"}
                \cup ImmOps \cup ImmWOps \cup LoadOps -> {i.rs1}
    [] OTHER -> {i.rs1, i.rs2}

\* DCSR is one name for all of them.
CsrOuts(i) == i.op \in CsrOps
CsrIns(i) == i.op \in CsrOps
=============================================================================
