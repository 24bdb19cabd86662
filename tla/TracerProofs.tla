----------------------------- MODULE TracerProofs -----------------------------
(***************************************************************************)
(* What dispatch relies on when it executes an instruction before the      *)
(* pipeline times it: the wrong path leaves the right one alone, and an    *)
(* instruction reads and writes no register but those it declares.         *)
(*                                                                         *)
(* Nothing is used of what the arithmetic, C's bit operators included,     *)
(* computes.                                                               *)
(***************************************************************************)
EXTENDS Tracer, TLAPS

-----------------------------------------------------------------------------
(* The right path is the architected state.                                *)

\* On the right path no copy is in use, so View is the architected state; on
\* the wrong path nothing of it is written but register 0 and the recorder.
Layered == ~spec_mode => use_spec_R = {} /\ ~use_spec_C /\ store_htable = <<>>
TwoFields == regs = [x |-> regs.x, csr |-> regs.csr]
RightInv == Layered /\ TwoFields /\ spec_mode \in BOOLEAN /\ RightPathIsSequential

LEMMA ClearedTwice == \A f : Cleared(Cleared(f)) = Cleared(f)
BY DEF Cleared

LEMMA RightView ==
  ASSUME RightInv, ~spec_mode, ~leaked
  PROVE  View = GoldenView
<1>1. /\ use_spec_R = {} /\ ~use_spec_C /\ store_htable = <<>>
      /\ Cleared(regs.x) = Cleared(golden.x) /\ regs.csr = golden.csr
      /\ mem = golden.mem /\ lrsc = golden.lr /\ golden.pc = pc
  BY DEF RightInv, Layered, RightPathIsSequential
<1>2. [n \in IntRegs |-> IF n \in use_spec_R THEN Cleared(spec_regs.x)[n]
                         ELSE Cleared(regs.x)[n]] = [n \in IntRegs |-> Cleared(golden.x)[n]]
  BY <1>1
<1>3. spec_mode = FALSE /\ (IF use_spec_C THEN spec_regs.csr ELSE regs.csr) = golden.csr
  BY <1>1 DEF RightInv
<1> QED BY <1>1, <1>2, <1>3, Zenon DEF View, GoldenView

LEMMA InitRight == TracerInit => RightInv
<1> SUFFICES ASSUME TracerInit PROVE RightInv
  OBVIOUS
<1>1. PICK r, c : regs = [x |-> r, csr |-> c]
  BY DEF TracerInit
<1>2. TwoFields
  BY <1>1 DEF TwoFields
<1>3. /\ ~spec_mode /\ use_spec_R = {} /\ ~use_spec_C /\ store_htable = <<>>
      /\ golden = [x |-> regs.x, csr |-> regs.csr, lr |-> lrsc, mem |-> mem, pc |-> pc]
      /\ spec_mode \in BOOLEAN
  BY DEF TracerInit
<1> QED BY <1>2, <1>3 DEF RightInv, Layered, RightPathIsSequential

LEMMA ExecuteRightKeeps ==
  ASSUME RightInv, NEW i, NEW m \in BOOLEAN, ExecuteRight(i, m)
  PROVE  RightInv'
<1> DEFINE e == Effect(View, i)
           g == Effect(GoldenView, i)
<1>1. /\ ~spec_mode
      /\ regs' = [x |-> e.x @@ Cleared(regs.x), csr |-> e.csr @@ regs.csr]
      /\ lrsc' = e.lr
      /\ mem' = Written(mem, e.store)
      /\ spec_mode' = (m /\ e.fault = "none")
      /\ recover_PC' = IF spec_mode' THEN e.npc ELSE recover_PC
      /\ pc' = IF spec_mode' THEN Wrap(e.npc + 4) ELSE e.npc
      /\ golden' = [x |-> g.x @@ Cleared(golden.x), csr |-> g.csr @@ golden.csr,
                    lr |-> g.lr, mem |-> Written(golden.mem, g.store), pc |-> g.npc]
      /\ UNCHANGED <<use_spec_R, use_spec_C, store_htable, leaked>>
  BY DEF ExecuteRight
<1>2. ~leaked => e = g
  BY <1>1, RightView
<1> HIDE DEF e, g
<1>3. ~leaked => /\ Cleared(regs.x) = Cleared(golden.x) /\ regs.csr = golden.csr
                 /\ mem = golden.mem
  BY DEF RightInv, RightPathIsSequential
<1>4. TwoFields' /\ Layered' /\ spec_mode' \in BOOLEAN
  BY <1>1 DEF TwoFields, Layered, RightInv
<1>5. RightPathIsSequential'
  BY <1>1, <1>2, <1>3 DEF RightPathIsSequential
<1> QED BY <1>4, <1>5 DEF RightInv

LEMMA ExecuteWrongKeeps ==
  ASSUME RightInv, NEW i, ExecuteWrong(i)
  PROVE  RightInv'
<1>1. /\ spec_mode
      /\ regs' = [regs EXCEPT !.x = Cleared(@)]
      /\ leaked' = (leaked \/ lrsc' # lrsc)
      /\ UNCHANGED <<mem, spec_mode, recover_PC, golden>>
  BY DEF ExecuteWrong
<1>2. regs' = [x |-> Cleared(regs.x), csr |-> regs.csr]
  BY <1>1 DEF RightInv, TwoFields
<1>3. TwoFields' /\ Layered' /\ spec_mode' \in BOOLEAN
  BY <1>1, <1>2 DEF TwoFields, Layered, RightInv
<1>4. Cleared(regs'.x) = Cleared(regs.x) /\ regs'.csr = regs.csr
  BY <1>2, ClearedTwice
<1>5. RightPathIsSequential'
  BY <1>1, <1>4 DEF RightPathIsSequential, RightInv
<1> QED BY <1>3, <1>5 DEF RightInv

LEMMA RecoverKeeps ==
  ASSUME RightInv, TracerRecover
  PROVE  RightInv'
<1>1. /\ spec_mode /\ ~spec_mode' /\ spec_mode' \in BOOLEAN
      /\ use_spec_R' = {} /\ ~use_spec_C' /\ store_htable' = <<>> /\ pc' = recover_PC
      /\ UNCHANGED <<regs, lrsc, mem, golden, leaked>>
  BY DEF TracerRecover
<1> QED BY <1>1 DEF RightInv, TwoFields, Layered, RightPathIsSequential

THEOREM RightPathInvariant == TracerSpec => []RightInv
<1>1. TracerInit => RightInv
  BY InitRight
<1>2. RightInv /\ [TracerNext]_tracerVars => RightInv'
  <2> SUFFICES ASSUME RightInv, [TracerNext]_tracerVars PROVE RightInv'
    OBVIOUS
  <2>1. CASE UNCHANGED tracerVars
    BY <2>1 DEF tracerVars, RightInv, TwoFields, Layered, RightPathIsSequential
  <2>2. CASE TracerNext
    BY <2>2, ExecuteRightKeeps, ExecuteWrongKeeps, RecoverKeeps DEF TracerNext
  <2> QED BY <2>1, <2>2
<1> QED BY <1>1, <1>2, PTL DEF TracerSpec

\* Whatever ran on wrong paths, ruu_dispatch computes on the right path what the
\* program computes alone, and tracer_recover goes back to its next
\* instruction, unless a wrong-path LR or SC has touched the recorder: for
\* every program, every length of wrong path and every word size.
THEOREM RightPathAlone == TracerSpec => []RightPathIsSequential
<1>1. RightInv => RightPathIsSequential
  BY DEF RightInv
<1> QED BY <1>1, RightPathInvariant, PTL

-----------------------------------------------------------------------------
(* The declared operands are the ones used.                                *)

\* Two views that differ in registers an instruction does not declare.
AgreeFor(i, U, V) ==
  /\ U.csr = V.csr /\ U.lr = V.lr /\ U.pc = V.pc /\ U.mem = V.mem /\ U.ent = V.ent
  /\ U.spec = V.spec
  /\ \A r \in RegIns(i) : U.x[r] = V.x[r]

LEMMA SameReads ==
  ASSUME NEW i, NEW U, NEW V, AgreeFor(i, U, V)
  PROVE  /\ NoEffect(U) = NoEffect(V)
         /\ \A f : Faulted(U, f) = Faulted(V, f)
         /\ \A a, n : Read(U, a, n) = Read(V, a, n)
         /\ \A e, st : WithStore(U, e, st) = WithStore(V, e, st)
<1>1. U.csr = V.csr /\ U.lr = V.lr /\ U.pc = V.pc /\ U.mem = V.mem /\ U.ent = V.ent
      /\ U.spec = V.spec
  BY DEF AgreeFor
<1>2. NoEffect(U) = NoEffect(V)
  BY <1>1, Zenon DEF NoEffect
<1>3. \A f : Faulted(U, f) = Faulted(V, f)
  BY <1>2, Zenon DEF Faulted
<1>4. \A a, n : Read(U, a, n) = Read(V, a, n)
  BY <1>1, Zenon DEF Read, SpecRead
<1>5. \A e, st : WithStore(U, e, st) = WithStore(V, e, st)
  BY <1>1, <1>3, Zenon DEF WithStore
<1> QED BY <1>2, <1>3, <1>4, <1>5

LEMMA Declared ==
  ASSUME NEW i
  PROVE  /\ i.op \notin {"LUI", "AUIPC", "JAL", "FENCE", "FENCE_I", "SRET", "MRET",
                         "CSRRWI", "CSRRSI", "CSRRCI"} => i.rs1 \in RegIns(i)
         /\ i.op \in BranchOps \cup RegOps \cup RegWOps \cup MulOps \cup DivOps
                     \cup StoreOps \cup {"SC_W", "SC_D"} \cup AmoWOps \cup AmoDOps
              => i.rs1 \in RegIns(i) /\ i.rs2 \in RegIns(i)
<1>1. i.op \notin {"LUI", "AUIPC", "JAL", "FENCE", "FENCE_I", "SRET", "MRET",
                   "CSRRWI", "CSRRSI", "CSRRCI"} => i.rs1 \in RegIns(i)
  BY DEF RegIns
<1>2. i.op \in BranchOps \cup RegOps \cup RegWOps \cup MulOps \cup DivOps
                     \cup StoreOps \cup {"SC_W", "SC_D"} \cup AmoWOps \cup AmoDOps
        => RegIns(i) = {i.rs1, i.rs2}
  BY DEF RegIns, BranchOps, RegOps, RegWOps, MulOps, DivOps, StoreOps, AmoWOps, AmoDOps,
         ImmOps, ImmWOps, LoadOps
<1> QED BY <1>1, <1>2

LEMMA ReadsDeclared ==
  ASSUME NEW i, NEW U, NEW V, AgreeFor(i, U, V)
  PROVE  Effect(U, i) = Effect(V, i)
<1>0. U.csr = V.csr /\ U.lr = V.lr /\ U.pc = V.pc /\ U.mem = V.mem /\ U.ent = V.ent
      /\ U.spec = V.spec
  BY DEF AgreeFor
<1>1. /\ NoEffect(U) = NoEffect(V)
      /\ \A f : Faulted(U, f) = Faulted(V, f)
      /\ \A a, n : Read(U, a, n) = Read(V, a, n)
      /\ \A e, st : WithStore(U, e, st) = WithStore(V, e, st)
  BY SameReads
<1>2. i.op \in ImmOps \cup ImmWOps \cup LoadOps \cup {"JALR", "LR_W", "LR_D",
                     "CSRRW", "CSRRS", "CSRRC"}
        => U.x[i.rs1] = V.x[i.rs1]
  BY Declared DEF AgreeFor, ImmOps, ImmWOps, LoadOps
<1>3. i.op \in BranchOps \cup RegOps \cup RegWOps \cup MulOps \cup DivOps
               \cup StoreOps \cup {"SC_W", "SC_D"} \cup AmoWOps \cup AmoDOps
        => U.x[i.rs1] = V.x[i.rs1] /\ U.x[i.rs2] = V.x[i.rs2]
  BY Declared DEF AgreeFor
<1>4. i.op \in LoadOps => LoadEffect(U, i) = LoadEffect(V, i)
  BY <1>1, <1>2, Zenon DEF LoadEffect
<1>5. i.op \in StoreOps => StoreEffect(U, i) = StoreEffect(V, i)
  BY <1>1, <1>3 DEF StoreEffect
<1>6. /\ i.op = "LR_W" => LR_W(U, i) = LR_W(V, i)
      /\ i.op = "LR_D" => LR_D(U, i) = LR_D(V, i)
  <2> SUFFICES ASSUME i.op \in {"LR_W", "LR_D"}
               PROVE  LR_W(U, i) = LR_W(V, i) /\ LR_D(U, i) = LR_D(V, i)
    OBVIOUS
  <2>1. U.x[i.rs1] = V.x[i.rs1]
    BY <1>2
  <2>2. /\ Read(U, U.x[i.rs1], 4) = Read(V, V.x[i.rs1], 4)
        /\ Read(U, U.x[i.rs1], 8) = Read(V, V.x[i.rs1], 8)
        /\ NoEffect(U) = NoEffect(V) /\ Faulted(U, "md") = Faulted(V, "md")
    BY <1>1, <2>1, Zenon
  <2>3. LR_D(U, i) = LR_D(V, i)
    BY <2>1, <2>2, Zenon DEF LR_D
  <2>4. LR_W(U, i) = LR_W(V, i)
    BY <2>1, <2>2, Zenon DEF LR_W
  <2> QED BY <2>3, <2>4
<1>7. i.op \in {"SC_W", "SC_D"} => SC(U, i) = SC(V, i)
  <2> SUFFICES ASSUME i.op \in {"SC_W", "SC_D"} PROVE SC(U, i) = SC(V, i)
    OBVIOUS
  <2>1. U.x[i.rs1] = V.x[i.rs1] /\ U.x[i.rs2] = V.x[i.rs2]
    BY <1>3
  <2>2. /\ Read(U, U.x[i.rs1], 4) = Read(V, V.x[i.rs1], 4)
        /\ Read(U, U.x[i.rs1], 8) = Read(V, V.x[i.rs1], 8)
        /\ NoEffect(U) = NoEffect(V) /\ U.lr = V.lr
    BY <1>0, <1>1, <2>1, Zenon
  <2> DEFINE n == IF i.op = "SC_W" THEN 4 ELSE 8
             wins == V.x[i.rs1] = V.lr.addr /\ Read(V, V.x[i.rs1], n).val = V.lr.val
             e == [NoEffect(V) EXCEPT !.x = Sets(i.rd, Truth(~wins)), !.lr = lrsc_init]
             st == Store(V.x[i.rs1], n, Word(V.x[i.rs2]))
  <2>3. Read(U, U.x[i.rs1], n) = Read(V, V.x[i.rs1], n)
    BY <1>1, <2>1, Zenon
  <2>4. SC(V, i) = IF wins THEN WithStore(V, e, st) ELSE e
    BY Zenon DEF SC
  <2>5. SC(U, i) = IF wins THEN WithStore(U, e, st) ELSE e
    BY <2>1, <2>2, <2>3, Zenon DEF SC
  <2> HIDE DEF e, st, wins
  <2>6. WithStore(U, e, st) = WithStore(V, e, st)
    BY <1>1, Zenon
  <2> QED BY <2>4, <2>5, <2>6
<1>8. i.op \in AmoWOps \cup AmoDOps => AmoEffect(U, i) = AmoEffect(V, i)
  BY <1>1, <1>3 DEF AmoEffect
<1>9. i.op \in CsrOps => CsrEffect(U, i) = CsrEffect(V, i)
  <2> SUFFICES ASSUME i.op \in CsrOps PROVE CsrEffect(U, i) = CsrEffect(V, i)
    OBVIOUS
  <2>1. U.csr = V.csr /\ NoEffect(U) = NoEffect(V)
    BY <1>0, <1>1
  <2>2. CASE i.op \in {"CSRRW", "CSRRS", "CSRRC"}
    <3>1. U.x[i.rs1] = V.x[i.rs1]
      BY <1>2, <2>2
    <3> QED BY <2>1, <3>1, SMTT(30) DEF CsrEffect
  <2>3. CASE ~(i.op \in {"CSRRW", "CSRRS", "CSRRC"})
    <3>1. CASE i.op = "CSRRWI"
      BY <2>1, <3>1, SMTT(30) DEF CsrEffect
    <3>2. CASE i.op = "CSRRSI"
      BY <2>1, <3>2, SMTT(30) DEF CsrEffect
    <3>3. CASE i.op = "CSRRCI"
      BY <2>1, <3>3, SMTT(30) DEF CsrEffect
    <3> QED BY <2>3, <3>1, <3>2, <3>3 DEF CsrOps
  <2> QED BY <2>2, <2>3
<1>10. /\ \A a, b, c, d : XRet(U, a, b, c, d) = XRet(V, a, b, c, d)
  BY <1>0, <1>1, Zenon DEF XRet
<1> QED BY <1>0, <1>1, <1>2, <1>3, <1>4, <1>5, <1>6, <1>7, <1>8, <1>9, <1>10 DEF Effect

\* What an effect writes: nothing but at most rd, and no control register.
IsEffect(e) == DOMAIN e = {"x", "csr", "lr", "store", "npc", "fault"}
WritesNone(e) == IsEffect(e) /\ DOMAIN e.x = {} /\ DOMAIN e.csr = {}
WritesRd(e, i) == DOMAIN e.x \subseteq {i.rd} /\ DOMAIN e.csr = {}

LEMMA NoEffectWrites ==
  \A V : WritesNone(NoEffect(V)) /\ \A f : WritesNone(Faulted(V, f))
<1>1. DOMAIN <<>> = {}
  OBVIOUS
<1>2. \A V : WritesNone(NoEffect(V))
  BY <1>1 DEF WritesNone, IsEffect, NoEffect
<1>3. \A V, f : WritesNone(Faulted(V, f))
  BY <1>2 DEF WritesNone, IsEffect, Faulted
<1> QED BY <1>2, <1>3

LEMMA SetsRd ==
  ASSUME NEW i, NEW e, WritesNone(e), NEW v
  PROVE  /\ WritesRd([e EXCEPT !.x = Sets(i.rd, v)], i)
         /\ \A n : WritesRd([e EXCEPT !.x = Sets(i.rd, v), !.npc = n], i)
         /\ \A l : WritesRd([e EXCEPT !.x = Sets(i.rd, v), !.lr = l], i)
<1> DEFINE r == Sets(i.rd, v)
<1>1. DOMAIN r = {i.rd}
  BY DEF Sets
<1> HIDE DEF r
<1>2. /\ WritesRd([e EXCEPT !.x = r], i)
      /\ \A n : WritesRd([e EXCEPT !.x = r, !.npc = n], i)
      /\ \A l : WritesRd([e EXCEPT !.x = r, !.lr = l], i)
  BY <1>1 DEF WritesNone, WritesRd, IsEffect
<1> QED BY <1>2 DEF r

LEMMA StoreKeeps ==
  ASSUME NEW i, NEW V, NEW e, NEW st
  PROVE  /\ WritesNone(e) => WritesNone(WithStore(V, e, st))
         /\ WritesRd(e, i) /\ IsEffect(e) => WritesRd(WithStore(V, e, st), i)
<1>1. /\ WritesNone(e) => WritesNone([e EXCEPT !.store = st])
      /\ WritesRd(e, i) /\ IsEffect(e) => WritesRd([e EXCEPT !.store = st], i)
  BY DEF WritesNone, WritesRd, IsEffect
<1>2. WritesNone(Faulted(V, "md")) /\ WritesRd(Faulted(V, "md"), i)
  BY NoEffectWrites DEF WritesNone, WritesRd
<1> QED BY <1>1, <1>2 DEF WithStore

\* The destinations OperandsAreDeclared allows.
Outs(i) == RegOuts(i) \cup (IF i.op \in {"SC_W", "AMOSWAP_W", "AMOSWAP_D"}
                            THEN {i.rd} ELSE {})
Within(e, i) ==
  /\ e.fault = "none" => DOMAIN e.x \subseteq Outs(i)
  /\ i.op \notin {"SRET", "MRET"} /\ ~CsrOuts(i) => DOMAIN e.csr = {}

LEMMA OutsCases ==
  ASSUME NEW i
  PROVE  i.op \notin BranchOps \cup StoreOps \cup {"FENCE", "FENCE_I", "SRET", "MRET"}
           => i.rd \in Outs(i)
BY DEF Outs, RegOuts

LEMMA NoneIsWithin == \A e, i : WritesNone(e) => Within(e, i)
BY DEF WritesNone, Within

LEMMA RdIsWithin ==
  ASSUME NEW e, NEW i, WritesRd(e, i),
         i.op \notin BranchOps \cup StoreOps \cup {"FENCE", "FENCE_I", "SRET", "MRET"}
  PROVE  Within(e, i)
BY OutsCases DEF WritesRd, Within

LEMMA PlainArms ==
  ASSUME NEW i, NEW V, i.op \notin BranchOps \cup StoreOps \cup {"FENCE", "FENCE_I", "SRET", "MRET"}
  PROVE  /\ \A v : Within([NoEffect(V) EXCEPT !.x = Sets(i.rd, v)], i)
         /\ \A v, n : Within([[NoEffect(V) EXCEPT !.x = Sets(i.rd, 0)]
                               EXCEPT !.x = Sets(i.rd, v), !.npc = n], i)
<1>1. WritesNone(NoEffect(V))
  BY NoEffectWrites
<1>2. \A v : WritesRd([NoEffect(V) EXCEPT !.x = Sets(i.rd, v)], i)
  BY <1>1, SetsRd
<1>3. ASSUME NEW v, NEW n
      PROVE  WritesRd([[NoEffect(V) EXCEPT !.x = Sets(i.rd, 0)]
                        EXCEPT !.x = Sets(i.rd, v), !.npc = n], i)
  <2>1. [[NoEffect(V) EXCEPT !.x = Sets(i.rd, 0)] EXCEPT !.x = Sets(i.rd, v), !.npc = n]
          = [NoEffect(V) EXCEPT !.x = Sets(i.rd, v), !.npc = n]
    BY <1>1 DEF WritesNone, IsEffect
  <2> QED BY <1>1, <2>1, SetsRd
<1> QED BY <1>2, <1>3, RdIsWithin

LEMMA AccessArms ==
  ASSUME NEW i, NEW V
  PROVE  /\ i.op \in LoadOps => Within(LoadEffect(V, i), i)
         /\ i.op \in StoreOps => Within(StoreEffect(V, i), i)
         /\ i.op = "LR_W" => Within(LR_W(V, i), i)
         /\ i.op = "LR_D" => Within(LR_D(V, i), i)
         /\ i.op \in {"SC_W", "SC_D"} => Within(SC(V, i), i)
         /\ i.op \in AmoWOps \cup AmoDOps => Within(AmoEffect(V, i), i)
<1>1. WritesNone(NoEffect(V)) /\ \A f : WritesNone(Faulted(V, f))
  BY NoEffectWrites
<1>2. i.op \in LoadOps \cup {"LR_W", "LR_D", "SC_W", "SC_D"} \cup AmoWOps \cup AmoDOps
        => i.op \notin BranchOps \cup StoreOps \cup {"FENCE", "FENCE_I", "SRET", "MRET"}
  BY DEF LoadOps, AmoWOps, AmoDOps, BranchOps, StoreOps
<1>3. \A v : WritesRd([NoEffect(V) EXCEPT !.x = Sets(i.rd, v)], i)
  BY <1>1, SetsRd
<1>4. \A v, l : WritesRd([NoEffect(V) EXCEPT !.x = Sets(i.rd, v), !.lr = l], i)
  BY <1>1, SetsRd
<1>5. /\ \A v : IsEffect([NoEffect(V) EXCEPT !.x = Sets(i.rd, v)])
      /\ \A v, l : IsEffect([NoEffect(V) EXCEPT !.x = Sets(i.rd, v), !.lr = l])
  BY <1>1 DEF WritesNone, IsEffect
<1>6. i.op \in LoadOps => Within(LoadEffect(V, i), i)
  <2>1. WritesNone(LoadEffect(V, i)) \/ WritesRd(LoadEffect(V, i), i)
    BY <1>1, <1>3, Zenon DEF LoadEffect
  <2> QED BY <1>2, <2>1, NoneIsWithin, RdIsWithin
<1>7. i.op \in StoreOps => Within(StoreEffect(V, i), i)
  <2>1. WritesNone(StoreEffect(V, i))
    BY <1>1, StoreKeeps, Zenon DEF StoreEffect
  <2> QED BY <2>1, NoneIsWithin
<1>8. /\ i.op = "LR_W" => Within(LR_W(V, i), i)
      /\ i.op = "LR_D" => Within(LR_D(V, i), i)
  <2>1. WritesNone(LR_W(V, i)) \/ WritesRd(LR_W(V, i), i)
    BY <1>1, <1>4, Zenon DEF LR_W
  <2>2. WritesNone(LR_D(V, i)) \/ WritesRd(LR_D(V, i), i)
    BY <1>1, <1>4, Zenon DEF LR_D
  <2> QED BY <1>2, <2>1, <2>2, NoneIsWithin, RdIsWithin
<1>9. i.op \in {"SC_W", "SC_D"} => Within(SC(V, i), i)
  <2>1. WritesRd(SC(V, i), i)
    BY <1>4, <1>5, StoreKeeps, Zenon DEF SC
  <2> QED BY <1>2, <2>1, RdIsWithin
<1>10. i.op \in AmoWOps \cup AmoDOps => Within(AmoEffect(V, i), i)
  <2>1. WritesNone(AmoEffect(V, i)) \/ WritesRd(AmoEffect(V, i), i)
    BY <1>1, <1>3, <1>5, StoreKeeps, Zenon DEF AmoEffect
  <2> QED BY <1>2, <2>1, NoneIsWithin, RdIsWithin
<1> QED BY <1>6, <1>7, <1>8, <1>9, <1>10

LEMMA ControlArms ==
  ASSUME NEW i, NEW V
  PROVE  /\ i.op \in CsrOps => Within(CsrEffect(V, i), i)
         /\ i.op \in {"SRET", "MRET"} =>
              \A a, b, c, d : Within(XRet(V, a, b, c, d), i)
<1>1. WritesNone(NoEffect(V))
  BY NoEffectWrites
<1>2. i.op \in CsrOps => Within(CsrEffect(V, i), i)
  <2> SUFFICES ASSUME i.op \in CsrOps PROVE Within(CsrEffect(V, i), i)
    OBVIOUS
  <2>1. i.rd \in Outs(i)
    BY OutsCases DEF CsrOps, BranchOps, StoreOps
  <2>2. \E c, x : /\ CsrEffect(V, i) = [NoEffect(V) EXCEPT !.csr = c, !.x = x]
                  /\ x = <<>> \/ \E v : x = Sets(i.rd, v)
    BY Zenon DEF CsrEffect
  <2>3. PICK c, x : /\ CsrEffect(V, i) = [NoEffect(V) EXCEPT !.csr = c, !.x = x]
                    /\ x = <<>> \/ \E v : x = Sets(i.rd, v)
    BY <2>2
  <2>4. DOMAIN x \subseteq {i.rd}
    BY <2>3 DEF Sets
  <2>5. CsrEffect(V, i).x = x
    BY <1>1, <2>3 DEF WritesNone, IsEffect
  <2> QED BY <2>1, <2>4, <2>5 DEF Within, CsrOuts
<1>3. i.op \in {"SRET", "MRET"} => \A a, b, c, d : Within(XRet(V, a, b, c, d), i)
  <2> SUFFICES ASSUME i.op \in {"SRET", "MRET"}, NEW a, NEW b, NEW c, NEW d
               PROVE  Within(XRet(V, a, b, c, d), i)
    OBVIOUS
  <2>1. DOMAIN XRet(V, a, b, c, d).x = {}
    BY <1>1 DEF XRet, WritesNone, IsEffect
  <2> QED BY <2>1 DEF Within
<1> QED BY <1>2, <1>3

LEMMA WritesDeclared ==
  ASSUME NEW i, NEW V, i.op \in Ops
  PROVE  Within(Effect(V, i), i)
<1>1. WritesNone(NoEffect(V)) /\ \A f : WritesNone(Faulted(V, f))
  BY NoEffectWrites
<1>2. Within(NoEffect(V), i) /\ \A f : Within(Faulted(V, f), i)
  BY <1>1, NoneIsWithin
<1>3. i.op \in BranchOps => \A n : Within([NoEffect(V) EXCEPT !.npc = n], i)
  <2>1. \A n : WritesNone([NoEffect(V) EXCEPT !.npc = n])
    BY <1>1 DEF WritesNone, IsEffect
  <2> QED BY <2>1, NoneIsWithin
<1>4. i.op \in {"LUI", "AUIPC", "JAL", "JALR"} \cup ImmOps \cup ImmWOps \cup RegOps
               \cup RegWOps \cup MulOps \cup DivOps
        => i.op \notin BranchOps \cup StoreOps \cup {"FENCE", "FENCE_I", "SRET", "MRET"}
  BY DEF BranchOps, StoreOps, ImmOps, ImmWOps, RegOps, RegWOps, MulOps, DivOps
<1>5. i.op \in {"LUI", "AUIPC", "JAL", "JALR"} \cup ImmOps \cup ImmWOps \cup RegOps
               \cup RegWOps \cup MulOps \cup DivOps
        => /\ \A v : Within([NoEffect(V) EXCEPT !.x = Sets(i.rd, v)], i)
           /\ \A v, n : Within([[NoEffect(V) EXCEPT !.x = Sets(i.rd, 0)]
                                 EXCEPT !.x = Sets(i.rd, v), !.npc = n], i)
  BY <1>4, PlainArms
<1> QED BY <1>2, <1>3, <1>5, AccessArms, ControlArms, Zenon DEF Effect, Ops

LEMMA OtherRegister ==
  ASSUME NEW i, i.rs1 \in IntRegs, i.rs2 \in IntRegs, NEW n \in {1, 2} \ RegIns(i), NEW v
  PROVE  AgreeFor(i, [View EXCEPT !.x[n] = v], View)
<1> DEFINE U == [View EXCEPT !.x[n] = v]
<1>1. U.x = [View.x EXCEPT ![n] = v] /\ \A r \in IntRegs \ {n} : U.x[r] = View.x[r]
  BY DEF View
<1>2. /\ U.csr = View.csr /\ U.lr = View.lr /\ U.pc = View.pc /\ U.mem = View.mem
      /\ U.ent = View.ent /\ U.spec = View.spec
  BY DEF View
<1>3. RegIns(i) \subseteq IntRegs \ {n}
  BY DEF RegIns
<1> QED BY <1>1, <1>2, <1>3 DEF AgreeFor

LEMMA DeclaredAlways == program \in Programs => OperandsAreDeclared
<1> SUFFICES ASSUME program \in Programs, NEW i \in program.code
             PROVE  /\ Within(Effect(View, i), i)
                    /\ \A n \in {1, 2} \ RegIns(i) : \A v \in {0, 2 ^ XLEN - 1} :
                         Effect([View EXCEPT !.x[n] = v], i) = Effect(View, i)
  BY Zenon DEF OperandsAreDeclared, Within, Outs
<1>1. i.op \in Ops /\ i.rs1 \in IntRegs /\ i.rs2 \in IntRegs
  BY ProgramAssumption
<1>2. Within(Effect(View, i), i)
  BY <1>1, WritesDeclared
<1>3. \A n \in {1, 2} \ RegIns(i) : \A v :
        Effect([View EXCEPT !.x[n] = v], i) = Effect(View, i)
  BY <1>1, OtherRegister, ReadsDeclared
<1> QED BY <1>2, <1>3

\* What the DEFINST rows declare is what the instructions use, in every state of
\* every program and for every word size, so ruu_dispatch renames by the right
\* operands; but for the destinations of SC_W, AMOSWAP_W and AMOSWAP_D.
THEOREM DeclaredIsUsed == TracerSpec => []OperandsAreDeclared
<1>1. TracerInit => program \in Programs
  BY DEF TracerInit
<1>2. program \in Programs /\ [TracerNext]_tracerVars => (program \in Programs)'
  BY DEF TracerNext, ExecuteRight, ExecuteWrong, TracerRecover, tracerVars
<1> QED BY <1>1, <1>2, DeclaredAlways, PTL DEF TracerSpec
=============================================================================
