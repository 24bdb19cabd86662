-------------------------------- MODULE MCIsa --------------------------------
(***************************************************************************)
(* Instance for TLC of the instruction set: what the tracer executes, what *)
(* the decoder finds, and floating point.  They share no state, so a       *)
(* behaviour exercises one of them.                                        *)
(***************************************************************************)
EXTENDS Tracer, Decode, IsaFloat

VARIABLE part

-----------------------------------------------------------------------------
(* Tracer: a byte is one bit, a word four, a register eight.               *)

I(o, d, s, t, k) == [op |-> o, rd |-> d, rs1 |-> s, rs2 |-> t, imm |-> k, csr |-> "FCSR"]
C(o, d, s, k) == [I(o, d, s, 0, 0) EXCEPT !.csr = k]

\* Every integer instruction, once, on chosen operands.
Integers8 == {0, 1, 7, 8, 15, 16, 63, 112, 127, 128, 136, 240, 248, 255}
Arithmetic ==
  [code |-> {I(o, 1, 1, 2, 0) : o \in RegOps \cup RegWOps \cup MulOps \cup DivOps}
            \cup {I(o, 1, 1, 0, k) : o \in ImmOps \cup ImmWOps, k \in {-2, 1, 5}}
            \cup {I(o, 1, 1, 2, 8) : o \in BranchOps}
            \cup {I("LUI", 1, 0, 0, -16), I("AUIPC", 1, 0, 0, 16),
                  I("JAL", 1, 0, 0, -8), I("JALR", 1, 1, 0, 4)},
   values |-> Integers8, words |-> {0}, steps |-> 1, bugcompat |-> FALSE]

\* Loads, stores and atomics, on the right path and on the wrong one.
Accesses(compat) ==
  [code |-> {I("SD", 0, 1, 2, 0), I("SW", 0, 1, 2, 4), I("SH", 0, 1, 2, 0),
             I("SB", 0, 1, 2, 1), I("LW", 2, 1, 0, 0), I("LD", 2, 1, 0, 0),
             I("LBU", 2, 1, 0, 1), I("LH", 2, 1, 0, 2), I("DIV", 2, 1, 2, 0),
             I("ADDI", 0, 1, 0, 1)},
   values |-> {8, 128, 255}, words |-> {165}, steps |-> 3, bugcompat |-> compat]
Atomics ==
  [code |-> {I("LR_W", 2, 1, 0, 0), I("LR_D", 2, 1, 0, 0), I("SC_W", 2, 1, 2, 0),
             I("SC_D", 2, 1, 2, 0)}
            \cup {I(o, 2, 1, 2, 0) : o \in AmoWOps \cup AmoDOps},
   values |-> {8, 12, 9, 24}, words |-> {5, 150}, steps |-> 2, bugcompat |-> FALSE]
Control ==
  [code |-> {C(o, 2, 1, c) : o \in CsrOps, c \in {"FCSR", "FRM", "MSTATUS"}}
            \cup {C("CSRRW", 0, 2, "FCSR"), I("SRET", 0, 0, 0, 0), I("MRET", 0, 0, 0, 0),
                  I("FENCE", 0, 0, 0, 0), I("FENCE_I", 0, 0, 0, 0)},
   values |-> {0, 11, 22}, words |-> {0}, steps |-> 2, bugcompat |-> FALSE]

\* One that has nothing to run.
Stopped == [code |-> {}, values |-> {0}, words |-> {0}, steps |-> 0, bugcompat |-> FALSE]

MCPrograms == {Arithmetic, Accesses(FALSE), Accesses(TRUE), Atomics, Control, Stopped}
\* C's operators on words.
MCAnd(a, b) == a & b
MCOr(a, b) == a | b
MCXor(a, b) == a ^^ b
MCStatus == [SIE |-> 1, MIE |-> 2, SPIE |-> 4, MPIE |-> 8, SPP |-> 16, MPP |-> 32]
MCSegment == 0 .. 31

-----------------------------------------------------------------------------
(* Decode: the 16-bit encodings with few bits set or few clear, and the    *)
(* 32-bit ones that reach every table, inside its rows and past them.      *)

Sum(bits) == FoldSet(LAMBDA b, n : n + (IF b = 31 THEN -2147483647 - 1 ELSE 2 ^ b), 0, bits)
Two(S) == {{a, b} : a \in S, b \in S} \cup {{}}
Three(S) == {a \cup b : a \in Two(S), b \in Two({2, 3, 5, 7, 10, 12})}

Halfwords ==
  {q + (f * 8192) + Sum(b) : q \in 0 .. 2, f \in 0 .. 7,
                             b \in Three(2 .. 12) \cup {(2 .. 12) \ c : c \in Two(2 .. 12)}}

\* funct7, rs2, funct3 and the opcode.
E(f7, r, f3, o) == (IF f7 >= 64 THEN f7 - 128 ELSE f7) * 2 ^ 25 + r * 2 ^ 20 + f3 * 2 ^ 12 + o
Words ==
  {E(0, 0, f, o) : f \in 0 .. 7, o \in {4 * k + 3 : k \in 0 .. 31}}
  \cup {E(g, 0, f, o) : g \in {1, 2, 3, 31, 32, 33, 64, 96, 127}, f \in 0 .. 7,
                        o \in {19, 27, 51, 59, 67, 71, 75, 79}}
  \cup {E(g, 0, f, 47) : g \in {4 * k : k \in 0 .. 31}, f \in {2, 3, 7}}
  \cup {E(g, r, 0, 83) : g \in 0 .. 127, r \in {0, 1, 2, 3, 9, 31}}
  \cup {E(g, 0, f, 83) : g \in 0 .. 127, f \in 1 .. 7}
  \cup {E(g, r, 0, 115) : g \in {0, 1, 8, 24, 60, 64, 127}, r \in {0, 1, 2, 31}}
  \cup {111 + Sum(b) : b \in Two(7 .. 31)}

MCEncodings == Halfwords \cup Words

-----------------------------------------------------------------------------
(* IsaFloat: singles of two significant bits, doubles of up to four, words *)
(* of four bits and longs of six.                                          *)

GridS == {0, 2, 4, 6, 8, 12, 16, 24, 32, 48, 64, 96, 128, 192, 256}
GridD == GridS \cup {1, 3, 5, 7, 10, 14, 20, 28, 36, 40, 56, 60, 112, 224}
MCGrid == [S |-> GridS, D |-> GridD]
MCBits == [WORD |-> 4, U_WORD |-> 4, LONG |-> 6, U_LONG |-> 6]
MCNormal == [S |-> 4, D |-> 4]

N(k) == Finite(k < 0, IF k < 0 THEN -k ELSE k, 1)
NegativeZero == Finite(TRUE, 0, 1)
Numbers(M) == {Finite(neg, m, 1) : neg \in BOOLEAN, m \in M}
Specials == {Inf(FALSE), Inf(TRUE), QNaN, [QNaN EXCEPT !.neg = TRUE], [QNaN EXCEPT !.kind = "snan"]}
Registers(A, B, D) == {<<Boxed(a), Boxed(b), Boxed(d)>> : a \in A, b \in B, d \in D}
Unboxed == [v |-> QNaN, boxed |-> FALSE]
MCOperands ==
  [S |-> {<<Unboxed, Unboxed, Unboxed>>} \cup Registers(Numbers(GridS), {NegativeZero, N(2), N(-6), N(24), N(-128)}, {N(0), N(-4), N(24)})
         \cup Registers(Numbers({0, 2, 8}) \cup Specials, {N(0), N(-4)} \cup Specials, {QNaN}),
   D |-> Registers(Numbers(GridD), {N(0), N(-1), N(5), N(24)}, {N(-5)})
         \cup Registers(Numbers({0, 1, 8}) \cup Specials, {N(0), N(-4)} \cup Specials, {N(5)})]

-----------------------------------------------------------------------------
\* A part that does not run has one initial state.
AnEncoding == CHOOSE e \in Encodings : e % 128 = 55
Idle(p) ==
  CASE p = "tracer" -> program = Stopped /\ regs = [x |-> 0 :> 0 @@ 1 :> 0 @@ 2 :> 0, csr |-> Zeros]
    [] p = "decode" -> inst = AnEncoding
    [] p = "float" -> freg = [p |-> "S", r |-> <<Unboxed, Unboxed, Unboxed>>]
Parts == {"tracer", "decode", "float"}
MCInit ==
  /\ part \in Parts /\ \A p \in Parts \ {part} : Idle(p)
  /\ TracerInit /\ DecodeInit /\ FloatInit
MCNext ==
  /\ UNCHANGED part
  /\ \/ part = "tracer" /\ TracerNext /\ UNCHANGED <<decodeVars, floatVars>>
     \/ part = "decode" /\ DecodeNext /\ UNCHANGED <<tracerVars, floatVars>>
     \/ part = "float" /\ FloatNext /\ UNCHANGED <<tracerVars, decodeVars>>
MCSpec == MCInit /\ [][MCNext]_<<part, tracerVars, decodeVars, floatVars>>
=============================================================================
