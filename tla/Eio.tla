---------------------------------- MODULE Eio ----------------------------------
(***************************************************************************)
(* External I/O traces (eio.c) as sim-eio makes them with -trace: every    *)
(* system call after the fast-forwarded part becomes a transaction of what *)
(* it read and wrote, and eio_read_trace() redoes a call from its          *)
(* transaction; and checkpoints, at the start of the trace and, with       *)
(* -perdump, every so many instructions.                                   *)
(*                                                                         *)
(* Terms of libexo are sequences and records.  An instruction is a call or *)
(* a store; those that are fast-forwarded are not counted.                 *)
(***************************************************************************)
EXTENDS Syscall

CONSTANTS
  BLOB_TAIL_SIZE,   \* 256
  FastForward,      \* how many instructions are not traced
  Interval          \* -perdump

VARIABLES
  other,            \* a register of R3 .. R7; the range kept is R2 .. R7
  freg,             \* a floating point register, <<low word, high word>>
  trace,            \* the last transaction, if any
  eio_trans_icnt,
  chkpt_file        \* the last checkpoint
eioVars == <<syscallVars, other, freg, trace, eio_trans_icnt, chkpt_file>>

-----------------------------------------------------------------------------
(* eio_write_trace(): my_mem_fn() gathers adjacent bytes into blobs.       *)

Joins(b, op) == b.addr + Len(b.bytes) = op.addr /\ Len(b.bytes) + 1 < b.max
RECURSIVE Blobs(_, _)
Blobs(blobs, ops) ==
  IF ops = <<>> THEN blobs
  ELSE LET op == Head(ops)
           n == Len(blobs)
       IN  Blobs(IF n > 0 /\ (n > 0 => Joins(blobs[n], op))
                 THEN [blobs EXCEPT ![n].bytes = Append(@, op.byte)]
                 ELSE Append(blobs, [addr |-> op.addr, bytes |-> <<op.byte>>, max |-> 1 + BLOB_TAIL_SIZE]),
                 Tail(ops))
Only(ops, kind) == SelectSeq(ops, LAMBDA op : op.cmd = kind)
ReadAfterWrite(ops) ==
  \E j, k \in DOMAIN ops : j < k /\ ops[j].cmd = "Write" /\ ops[k].cmd = "Read"
KeptRegs == <<SP, other>>
num_insn == IF calls < FastForward THEN 0 ELSE calls - FastForward
eio_write_trace(r) ==
  [icnt |-> num_insn + 1, inregs |-> KeptRegs, inmem |-> Blobs(<<>>, Only(r.ops, "Read")),
   brk |-> r.brk, outregs |-> KeptRegs, outmem |-> Blobs(<<>>, Only(r.ops, "Write"))]

\* eio_read_trace(): what comes of a call redone from its transaction.
RECURSIVE Replayed(_, _)
Replayed(m, blobs) ==
  IF blobs = <<>> THEN m ELSE Replayed(Stored(m, Head(blobs).addr, Head(blobs).bytes), Tail(blobs))
InputsMatch(m, blobs) ==
  \A k \in DOMAIN blobs : \A i \in DOMAIN blobs[k].bytes : At(m, blobs[k].addr + i - 1) = blobs[k].bytes[i]
eio_read_trace(t, icnt, m) ==
  IF t.icnt # icnt \/ t.inregs # KeptRegs \/ ~InputsMatch(m, t.inmem) THEN [fatal |-> TRUE]
  ELSE [fatal |-> FALSE, mem |-> Replayed(m, t.outmem), brk |-> t.brk, regs |-> t.outregs]

-----------------------------------------------------------------------------
(* Checkpoints.                                                            *)

Image(m) ==
  LET pages == {a \div PageSize : a \in DOMAIN m}
  IN  [p \in pages |-> [i \in 0 .. PageSize - 1 |-> At(m, p * PageSize + i)]]
\* Of a floating point register the low word; of the misc registers three.
eio_write_chkpt ==
  [icnt |-> eio_trans_icnt, misc |-> <<num_insn, "pc", "npc">>, iregs |-> <<SP, other, a0>>,
   fregs |-> freg[1], brk |-> brk_point, pages |-> Image(memory)]
\* Six are wanted.
MiscRegs == 6
eio_read_chkpt(c) ==
  IF Len(c.misc) # MiscRegs THEN [fatal |-> TRUE]
  ELSE [fatal |-> FALSE, icnt |-> c.icnt, iregs |-> c.iregs, fregs |-> <<c.fregs, 0>>, brk |-> c.brk,
        mem |-> [a \in {p * PageSize + i : p \in DOMAIN c.pages, i \in 0 .. PageSize - 1} |->
                   c.pages[a \div PageSize][a % PageSize]]]

EioInit ==
  /\ SyscallInit
  /\ other = 3 /\ freg = <<1, 2>>
  /\ trace = <<>> /\ eio_trans_icnt = -1
  /\ chkpt_file = <<>>

\* Between two instructions: the first of the trace, which must have seen no
\* transaction, and then every so often.
CheckpointDue ==
  /\ calls >= FastForward /\ num_insn % Interval = 0
  /\ chkpt_file # <<>> => chkpt_file[1].misc[1] # num_insn
\* SYSCALL of sim-eio: my_mem_fn() dies on a read after a write; a call that does
\* not come back leaves no transaction.
Tracing == calls >= FastForward
EioSyscall(c) ==
  /\ CallsGoOn /\ ~CheckpointDue /\ Legal(c)
  /\ \E h \in Answers(c) :
       LET r == sys_syscall(c, h)
           torn == Tracing /\ ReadAfterWrite(r.ops)
           done == r.how = "running" /\ ~torn
       IN  /\ Syscall(c, [r EXCEPT !.how = IF torn THEN "fatal" ELSE @], h)
           /\ trace' = IF Tracing /\ done THEN <<eio_write_trace(r)>> ELSE <<>>
           /\ eio_trans_icnt' = IF Tracing /\ done THEN num_insn + 1 ELSE eio_trans_icnt
  /\ UNCHANGED <<other, freg, chkpt_file>>
EioStore(addr, byte) ==
  /\ ~CheckpointDue /\ Store(addr, byte)
  /\ trace' = <<>> /\ UNCHANGED <<other, freg, eio_trans_icnt, chkpt_file>>
Checkpoint ==
  /\ outcome = "running" /\ CheckpointDue
  /\ chkpt_file' = <<eio_write_chkpt>>
  /\ UNCHANGED <<syscallVars, other, freg, trace, eio_trans_icnt>>

EioNext ==
  \/ \E c \in Calls : EioSyscall(c)
  \/ \E addr \in Stores, byte \in {1, 2} : EioStore(addr, byte)
  \/ Checkpoint
EioSpec == EioInit /\ [][EioNext]_eioVars

-----------------------------------------------------------------------------
\* A transaction is enough to redo the call: the check of its inputs passes, and
\* memory, the heap and the registers of the range are as the call left them.
\* The result, in R10, and mmap_brk_point are not among what is kept.
TransactionRedoesTheCall ==
  calls' # calls /\ trace' # <<>> =>
    LET again == eio_read_trace(trace'[1], num_insn + 1, memory)
    IN  /\ ~again.fatal /\ again.brk = brk_point' /\ again.regs = KeptRegs
        /\ \A a \in DOMAIN memory' : At(again.mem, a) = At(memory', a)
        /\ trace'[1].icnt = eio_trans_icnt'
\* A checkpoint holds what the program sees, but for the high word of a floating
\* point register, what the misc registers leave out and mmap_brk_point; and a
\* trace begins with one of no transaction.  As it is written it is refused.
CheckpointHoldsTheState ==
  chkpt_file' # chkpt_file =>
    LET c == chkpt_file'[1]
        back == eio_read_chkpt([c EXCEPT !.misc = @ \o <<0, 0, 0>>])
    IN  /\ eio_read_chkpt(c).fatal /\ ~back.fatal
        /\ back.iregs = <<SP, other, a0>> /\ back.brk = brk_point /\ back.fregs[1] = freg[1]
        /\ \A a \in DOMAIN memory \cup DOMAIN back.mem : At(back.mem, a) = At(memory, a)
        /\ num_insn = 0 => c.icnt = -1
=============================================================================
