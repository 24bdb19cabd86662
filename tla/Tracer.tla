------------------------------- MODULE Tracer -------------------------------
(***************************************************************************)
(* The functional half of sim-outorder: dispatch executes every fetched    *)
(* instruction at once, on the architected state, or, behind a mispredicted *)
(* branch, on a copy-on-write layer over it that tracer_recover() drops.   *)
(*                                                                         *)
(* "golden" runs the instructions of the right path alone.  "truth" is the *)
(* memory the wrong path would see had it a byte-exact copy of its own.    *)
(***************************************************************************)
EXTENDS Isa

CONSTANTS
  Programs    \* what may run: its instructions, the registers it may start
              \* from, and bounds on the right and on the wrong path

IntRegs == 0 .. 2

\* Decoded instructions name registers there are.
ASSUME ProgramAssumption ==
  \A p \in Programs : \A i \in p.code :
    i.op \in Ops /\ i.rs1 \in IntRegs /\ i.rs2 \in IntRegs

VARIABLES
  program,        \* the program of this run
  regs,           \* x and csr of struct regs_t
  lrsc,           \* the load-reserved recorder
  mem,            \* simulated memory, bytes by address
  pc,             \* the instruction dispatched next
  spec_mode, recover_PC,
  spec_regs, use_spec_R, use_spec_C,   \* the copies and which are in use
  store_htable,   \* wrong-path stores: two words by address
  fatal,          \* the simulator has died: "none", "md" or "host"
  golden, truth, wrote, leaked,
  steps

tracerVars == <<program, regs, lrsc, mem, pc, spec_mode, recover_PC, spec_regs,
                use_spec_R, use_spec_C, store_htable, fatal, golden, truth,
                wrote, leaked, steps>>

CSRs == {"FCSR", "FRM", "FFLAGS", "MSTATUS", "MEPC", "SEPC"}
Zeros == [c \in CSRs |-> 0]

\* GPR, CSRS and the memory macros read through the layer.  Register 0 is
\* cleared before each instruction.
Cleared(x) == [x EXCEPT ![0] = 0]
View ==
  [x |-> [n \in IntRegs |-> IF n \in use_spec_R THEN Cleared(spec_regs.x)[n]
                            ELSE Cleared(regs.x)[n]],
   csr |-> IF use_spec_C THEN spec_regs.csr ELSE regs.csr,
   lr |-> lrsc, pc |-> pc, mem |-> mem, ent |-> store_htable, spec |-> spec_mode]
GoldenView ==
  [x |-> [n \in IntRegs |-> Cleared(golden.x)[n]], csr |-> golden.csr, lr |-> golden.lr,
   pc |-> golden.pc, mem |-> golden.mem, ent |-> <<>>, spec |-> FALSE]

Written(m, st) == IF st = <<>> THEN m ELSE PutMem(m, st.addr, st.size, st.val)

SpecWrite_Forgets(tab, st) ==
  IF st = <<>> \/ ~Aligned(st.addr, st.size) \/ st.addr \notin Segment THEN tab
  ELSE (st.addr :> <<st.val % 2 ^ W, st.val \div 2 ^ W>>) @@ tab

\* spec_mem_access, a write: one entry per address, its other bytes zero when
\* it is new.  Under -bugcompat a new entry is never linked in.
SpecWrite(tab, st) ==
  LET old == IF st.addr \in DOMAIN tab THEN tab[st.addr] ELSE <<0, 0>>
      low == 2 ^ (BYTE * st.size)
      new == IF st.size = 8 THEN <<st.val % 2 ^ W, st.val \div 2 ^ W>>
             ELSE <<st.val + old[1] - (old[1] % low), old[2]>>
  IN  IF \/ st = <<>> \/ ~Aligned(st.addr, st.size) \/ st.addr \notin Segment
         \/ program.bugcompat /\ st.addr \notin DOMAIN tab
      THEN tab ELSE (st.addr :> new) @@ tab

TracerInit ==
  /\ program \in Programs
  /\ \E x1 \in program.values, x2 \in program.values, w \in program.words :
       /\ regs = [x |-> 0 :> 0 @@ 1 :> x1 @@ 2 :> x2, csr |-> Zeros]
       /\ mem = PutMem(<<>>, 8, 8, w)
  /\ lrsc = lrsc_init
  /\ pc = 16
  /\ spec_mode = FALSE /\ recover_PC = 0
  /\ spec_regs = [x |-> [n \in IntRegs |-> 0], csr |-> Zeros]
  /\ use_spec_R = {} /\ use_spec_C = FALSE
  /\ store_htable = <<>>
  /\ fatal = "none"
  /\ golden = [x |-> regs.x, csr |-> regs.csr, lr |-> lrsc, mem |-> mem, pc |-> pc]
  /\ truth = mem /\ wrote = <<>> /\ leaked = FALSE
  /\ steps = 0

\* ruu_dispatch on the right path.  A wrong prediction of the next PC starts
\* the wrong path, wherever it points.
ExecuteRight(i, mispredicted) ==
  /\ ~spec_mode /\ fatal = "none" /\ steps < program.steps
  /\ \E e \in {Effect(View, i)}, g \in {Effect(GoldenView, i)} :
      /\ fatal' = e.fault
      /\ regs' = [x |-> e.x @@ Cleared(regs.x), csr |-> e.csr @@ regs.csr]
      /\ lrsc' = e.lr
      /\ mem' = Written(mem, e.store)
      /\ spec_mode' = (mispredicted /\ e.fault = "none")
      /\ recover_PC' = IF spec_mode' THEN e.npc ELSE recover_PC
      /\ pc' = IF spec_mode' THEN Wrap(e.npc + 4) ELSE e.npc
      /\ spec_regs' = [spec_regs EXCEPT !.x = Cleared(@)]
      /\ golden' = [x |-> g.x @@ Cleared(golden.x), csr |-> g.csr @@ golden.csr,
                    lr |-> g.lr, mem |-> Written(golden.mem, g.store), pc |-> g.npc]
      /\ truth' = mem'
      /\ steps' = steps + 1
      /\ UNCHANGED <<program, use_spec_R, use_spec_C, store_htable, wrote, leaked>>

\* The first and the largest size stored at each address of the wrong path.
Noted(st) ==
  LET seen == st.addr \in DOMAIN wrote
  IN  (st.addr :> [first |-> IF seen THEN wrote[st.addr].first ELSE st.size,
                   most |-> IF seen /\ wrote[st.addr].most > st.size
                            THEN wrote[st.addr].most ELSE st.size]) @@ wrote

\* ruu_dispatch on the wrong path: faults are ignored, the state is copied on
\* write.  The recorder has no copy.  No system call or trap gets here.
ExecuteWrong(i) ==
  /\ spec_mode /\ fatal = "none" /\ steps < program.steps
  /\ i.op \notin {"SRET", "MRET"}
  /\ \E e \in {Effect(View, i)} :
      /\ fatal' = IF e.fault = "host" THEN "host" ELSE "none"
      /\ spec_regs' = [x |-> e.x @@ Cleared(spec_regs.x), csr |-> e.csr @@ spec_regs.csr]
      /\ use_spec_R' = use_spec_R \cup DOMAIN e.x
      /\ use_spec_C' = (use_spec_C \/ DOMAIN e.csr # {})
      /\ regs' = [regs EXCEPT !.x = Cleared(@)]
      /\ lrsc' = e.lr
      /\ leaked' = (leaked \/ e.lr # lrsc)
      /\ store_htable' = SpecWrite(store_htable, e.store)
      /\ truth' = IF store_htable' = store_htable THEN truth ELSE Written(truth, e.store)
      /\ wrote' = IF e.store = <<>> THEN wrote ELSE Noted(e.store)
      /\ pc' = e.npc
      /\ steps' = steps + 1
      /\ UNCHANGED <<program, mem, spec_mode, recover_PC, golden>>

TracerRecover_KeepsRegisters ==
  /\ spec_mode /\ fatal = "none"
  /\ spec_mode' = FALSE
  /\ use_spec_C' = FALSE
  /\ store_htable' = <<>>
  /\ pc' = recover_PC
  /\ truth' = mem /\ wrote' = <<>>
  /\ UNCHANGED <<program, regs, lrsc, mem, recover_PC, spec_regs, use_spec_R, fatal,
                 golden, leaked, steps>>

\* tracer_recover().
TracerRecover ==
  /\ spec_mode /\ fatal = "none"
  /\ spec_mode' = FALSE
  /\ use_spec_R' = {} /\ use_spec_C' = FALSE
  /\ store_htable' = <<>>
  /\ pc' = recover_PC
  /\ truth' = mem /\ wrote' = <<>>
  /\ UNCHANGED <<program, regs, lrsc, mem, recover_PC, spec_regs, fatal, golden,
                 leaked, steps>>

TracerNext ==
  \/ \E i \in program.code : \/ \E m \in BOOLEAN : ExecuteRight(i, m)
                             \/ ExecuteWrong(i)
  \/ TracerRecover

TracerSpec == TracerInit /\ [][TracerNext]_tracerVars

-----------------------------------------------------------------------------
(* What the instruction set manual says of the integer instructions.       *)

RefImm(op, a, imm) ==
  LET s == Signed(a)
      sh == Wrap(imm)
  IN  CASE op = "ADDI"  -> Wrap(s + imm)
        [] op = "SLTI"  -> Truth(s < imm)
        [] op = "SLTIU" -> Truth(a < Wrap(imm))
        [] op = "XORI"  -> BitXor(a, Wrap(imm))
        [] op = "ORI"   -> BitOr(a, Wrap(imm))
        [] op = "ANDI"  -> BitAnd(a, Wrap(imm))
        [] op = "SLLI"  -> Wrap(s * 2 ^ (sh % XLEN))
        [] op = "SRLI"  -> a \div 2 ^ (sh % XLEN)
        [] op = "SRAI"  -> Wrap(s \div 2 ^ (sh % XLEN))
        [] op = "ADDIW" -> Wrap(SWord(s + imm))
        [] op = "SLLIW" -> Wrap(SWord(s * 2 ^ (sh % W)))
        [] op = "SRLIW" -> Wrap(SWord(Word(a) \div 2 ^ (sh % W)))
        [] op = "SRAIW" -> Wrap(SWord(a) \div 2 ^ (sh % W))

RefReg(op, a, b) ==
  LET s == Signed(a)       t == Signed(b)
      sw == SWord(a)       tw == SWord(b)
      x == b % XLEN        y == b % W
  IN  CASE op = "ADD"  -> Wrap(s + t)
        [] op = "SUB"  -> Wrap(s - t)
        [] op = "SLL"  -> Wrap(s * 2 ^ x)
        [] op = "SLT"  -> Truth(s < t)
        [] op = "SLTU" -> Truth(a < b)
        [] op = "XOR"  -> BitXor(a, b)
        [] op = "SRL"  -> a \div 2 ^ x
        [] op = "SRA"  -> Wrap(s \div 2 ^ x)
        [] op = "OR"   -> BitOr(a, b)
        [] op = "AND"  -> BitAnd(a, b)
        [] op = "ADDW" -> Wrap(SWord(s + t))
        [] op = "SUBW" -> Wrap(SWord(s - t))
        [] op = "SLLW" -> Wrap(SWord(s * 2 ^ y))
        [] op = "SRLW" -> Wrap(SWord(Word(a) \div 2 ^ y))
        [] op = "SRAW" -> Wrap(sw \div 2 ^ y)
        [] op = "MUL"  -> Wrap(s * t)
        [] op = "MULW" -> Wrap(SWord(sw * tw))
        [] op = "MULH" -> Wrap((s * t) \div 2 ^ XLEN)
        [] op = "MULHSU" -> Wrap((s * b) \div 2 ^ XLEN)
        [] op = "MULHU"  -> (a * b) \div 2 ^ XLEN
        [] op = "DIV"  -> Wrap(IF t = 0 THEN -1 ELSE Quot(s, t))
        [] op = "REM"  -> Wrap(IF t = 0 THEN s ELSE Rest(s, t))
        [] op = "DIVU" -> IF b = 0 THEN Wrap(-1) ELSE a \div b
        [] op = "REMU" -> IF b = 0 THEN a ELSE a % b
        [] op = "DIVW" -> Wrap(SWord(IF tw = 0 THEN -1 ELSE Quot(sw, tw)))
        [] op = "REMW" -> Wrap(SWord(IF tw = 0 THEN sw ELSE Rest(sw, tw)))
        [] op = "DIVUW" -> Wrap(SWord(IF tw = 0 THEN -1 ELSE Word(a) \div Word(b)))
        [] op = "REMUW" -> Wrap(SWord(IF tw = 0 THEN a ELSE Word(a) % Word(b)))

\* Where the code is known to depart from it: MULH keeps only the lower half of
\* its result and signs the low product, MULHSU mistakes a sum that returns
\* from below zero for a carry, DIVW answers INT32_MIN for INT32_MIN over
\* anything, DIV does not survive its overflow.
Deviates(op, a, b) ==
  CASE op = "MULH" -> \/ Word(a) * Word(b) >= 2 ^ (XLEN - 1)
                      \/ RefReg(op, a, b) >= 2 ^ W
    [] op = "MULHSU" -> \/ Signed(a) < 0
                        \/ Signed(a) * b >= 2 ^ (XLEN + W - 1) - 2 ^ XLEN
    [] op = "DIVW" -> SWord(a) = MinInt(W) /\ SWord(b) \notin {-1, 0, 1}
    [] op = "DIV"  -> HostTraps(op, a, b)
    [] OTHER -> FALSE

\* riscv.def splits, masks, shifts and special-cases the operands by hand; the
\* result is the one the instruction set asks for, and is not exactly where
\* Deviates says (for MULHSU: may not be).
IntegerResultsAreRight ==
  \A i \in program.code : \A e \in {Effect(View, i)} :
    LET a == View.x[i.rs1]
        b == View.x[i.rs2]
        got == IF i.rd \in DOMAIN e.x THEN e.x[i.rd] ELSE -1
    IN  /\ i.op \in ImmOps \cup ImmWOps => got = RefImm(i.op, a, i.imm)
        /\ i.op \in RegOps \cup RegWOps \cup MulOps \cup DivOps =>
             LET right == got = RefReg(i.op, a, b)
             IN  IF i.op = "MULHSU" THEN right \/ Deviates(i.op, a, b)
                 ELSE right <=> ~Deviates(i.op, a, b)

\* The core renames by the operands a DEFINST row declares, while the semantics
\* are a separate macro: what an instruction writes is declared, and what is
\* not declared cannot change its effect; but for the rows of SC_W, AMOSWAP_W
\* and AMOSWAP_D, which leave rd out.
OperandsAreDeclared ==
  \A i \in program.code : \A e \in {Effect(View, i)} :
    LET outs == RegOuts(i) \cup (IF i.op \in {"SC_W", "AMOSWAP_W", "AMOSWAP_D"}
                                 THEN {i.rd} ELSE {})
    IN  /\ e.fault = "none" => DOMAIN e.x \subseteq outs
        /\ i.op \notin {"SRET", "MRET"} /\ ~CsrOuts(i) => DOMAIN e.csr = {}
        /\ \A n \in {1, 2} \ RegIns(i) : \A v \in {0, 2 ^ XLEN - 1} :
             Effect([View EXCEPT !.x[n] = v], i) = e

\* Dispatch executes the wrong path on a layer it then drops: whatever ran
\* there, the right path computes what it would have alone, as long as no
\* wrong-path LR or SC has touched the recorder, which has no layer.
RightPathIsSequential ==
  ~leaked => /\ Cleared(regs.x) = Cleared(golden.x) /\ regs.csr = golden.csr
             /\ mem = golden.mem /\ lrsc = golden.lr
             /\ golden.pc = IF spec_mode THEN recover_PC ELSE pc

\* The layer keeps wrong-path stores by address, not by byte: a load sees every
\* older store when the stores that reach into it start where it starts and
\* the first of them covers it.
WrongPathReadsItsStores ==
  spec_mode /\ ~program.bugcompat =>
    \A n \in {1, 2, 4, 8} : \A a \in {b \in Segment : Aligned(b, n)} :
      (\A b \in DOMAIN wrote :
         b < a + n /\ a < b + wrote[b].most => b = a /\ wrote[b].first >= n)
      => SpecRead(View, a, n) = MemValue(truth, a, n)

\* An SC right after its LR, the word untouched, succeeds: unless the word is
\* negative, which LR_W records sign-extended and SC_W compares zero-extended.
ScAfterLrSucceeds ==
  \A i \in program.code : i.op \in {"LR_W", "LR_D"} =>
    \A e \in {Effect(View, i)} :
      LET sc == [i EXCEPT !.op = IF @ = "LR_W" THEN "SC_W" ELSE "SC_D", !.rd = 2]
          after == Effect([View EXCEPT !.x = e.x @@ @, !.lr = e.lr], sc)
      IN  e.fault = "none" /\ i.rd # i.rs1 =>
            (after.x[2] = 0 <=> ~(i.op = "LR_W" /\ SWord(e.x[i.rd]) < 0))

\* What an instruction leaves in a register, alone or after another, is what the
\* manual says but for what is listed.
ResultsAreRight == IntegerResultsAreRight /\ ScAfterLrSucceeds
=============================================================================
