------------------------------ MODULE Functional ------------------------------
(***************************************************************************)
(* The loops of the functional simulators, sim-fast, sim-safe, sim-profile *)
(* and sim-eio, and the one sim-outorder fast-forwards with: fetch an      *)
(* instruction, execute it, ask the debugger, go on to the next; sim-eio   *)
(* also writes checkpoints.  They differ in what they count, in whether    *)
(* they know that a compressed instruction is half as long, and in whether *)
(* they forget from one instruction to the next that a branch was taken.   *)
(***************************************************************************)
EXTENDS Dlite

CONSTANTS
  Program,      \* [pc -> [size, op, addr, bytes, target]]; op is "alu", "load",
                \* "store", "branch", "jump" or "fault"
  Entry,
  Simulators,   \* among "fast", "safe", "profile", "eio" and "ffwd"
  MaxInsts,     \* -max:inst, or the instructions to fast-forward
  Checkpoints   \* ranges that -chkpt may be given

VARIABLES
  sim, phase,        \* which loop; "fetch", "check", "advance" or how it ended
  IsCtrlInstTaken,
  executed, sim_num_refs,
  chkpt,             \* the range, and where the checkpoint was written
  due_PC,            \* what the program or the user asks to be executed next
  last_inst          \* history of the last instruction and of the check after it

loopVars == <<sim, phase, IsCtrlInstTaken, executed, sim_num_refs, chkpt, due_PC, last_inst>>
functionalVars == <<regs_PC, regs_NPC, sim_num_insn, dliteVars, loopVars>>

Counts == sim # "ffwd"            \* fast-forwarded instructions are not counted
HalfLengths == sim \in {"fast", "ffwd"}
I == Program[regs_PC]
Ctrl(op) == op \in {"branch", "jump"}
Mem(op) == op \in {"load", "store"}

FunctionalInit ==
  /\ dlite_init
  /\ sim \in Simulators /\ (sim = "fast" => ~dlite_active)
  /\ regs_PC = Entry /\ regs_NPC = Entry + InstSize /\ sim_num_insn = 0
  /\ phase = IF sim = "fast" THEN "fetch" ELSE "start"
  /\ IsCtrlInstTaken = FALSE /\ executed = 0 /\ sim_num_refs = 0
  /\ chkpt \in [range : IF sim = "eio" THEN Checkpoints ELSE {<<>>}, at : {<<>>}]
  /\ due_PC = Entry
  /\ last_inst = [pc |-> Entry, size |-> InstSize, op |-> "none", taken |-> FALSE, stale |-> FALSE,
                  cont |-> FALSE, wanted |-> FALSE, stopped |-> FALSE, excused |-> TRUE]

\* The debugger may be asked for before the first instruction.
Start ==
  /\ phase = "start"
  /\ dlite_check_break(regs_PC, "none", 0, 0)
  /\ phase' = "fetch"
  /\ UNCHANGED <<regs_PC, regs_NPC, sim_num_insn, bpVars, typed, viewVars, shown, given, sim,
                 IsCtrlInstTaken, executed, sim_num_refs, chkpt, due_PC, last_inst>>

\* sim-eio: one-shot, when what regs_NPC holds falls into the range; then it
\* ends.  It needs a loaded EIO file, which this build refuses unless another
\* program wrote it.
range_cmp_range1(r) == range_cmp_range(r, IF r.start.ptype = "addr" THEN regs_NPC ELSE sim_num_insn)
RangeReached == chkpt.range # <<>> /\ range_cmp_range1(chkpt.range[1]) = 0
WriteCheckpoint ==
  /\ phase = "fetch" /\ ~prompt /\ RangeReached
  /\ chkpt' = [chkpt EXCEPT !.at = <<[pc |-> regs_PC, n |-> sim_num_insn]>>]
  /\ phase' = "checkpointed"
  /\ UNCHANGED <<regs_PC, regs_NPC, sim_num_insn, dliteVars, sim, IsCtrlInstTaken, executed,
                 sim_num_refs, due_PC, last_inst>>

\* One instruction, whatever it does to registers and memory.
Execute ==
  /\ phase = "fetch" /\ ~prompt /\ ~RangeReached
  /\ regs_PC \in DOMAIN Program /\ executed < MaxInsts
  /\ sim_num_insn' = IF Counts THEN sim_num_insn + 1 ELSE sim_num_insn
  /\ IF I.op = "fault" /\ sim # "fast"
     THEN /\ phase' = "fatal"
          /\ UNCHANGED <<regs_NPC, IsCtrlInstTaken, executed, sim_num_refs, due_PC, last_inst>>
     ELSE \E taken \in (CASE I.op = "branch" -> BOOLEAN [] I.op = "jump" -> {TRUE} [] OTHER -> {FALSE}) :
          /\ regs_NPC' = IF taken THEN I.target ELSE regs_NPC
          /\ IsCtrlInstTaken' = ((taken /\ I.size < InstSize) \/ (IsCtrlInstTaken /\ sim # "fast"))
          /\ sim_num_refs' = IF Mem(I.op) /\ sim \in {"safe", "profile", "eio"} THEN sim_num_refs + 1
                             ELSE sim_num_refs
          /\ executed' = executed + 1
          /\ due_PC' = IF taken THEN I.target ELSE regs_PC + I.size
          /\ last_inst' = [pc |-> regs_PC, size |-> I.size, op |-> I.op, taken |-> taken,
                      stale |-> IsCtrlInstTaken, cont |-> last_inst.cont /\ executed = 0,
                      wanted |-> FALSE, stopped |-> FALSE, excused |-> FALSE]
          /\ phase' = IF sim = "fast" THEN "advance" ELSE "check"
  /\ UNCHANGED <<regs_PC, dliteVars, sim, chkpt>>

\* Where the user would have the program stop: before the next instruction, at
\* an access to any of the bytes watched, after so many instructions.
Wanted(pc, i) ==
  \E k \in DOMAIN dlite_bps :
    LET bp == dlite_bps[k]
        touched == {b \in i.addr .. i.addr + i.bytes - 1 : Within(bp.range, b)}
    IN  IF bp.range.start.ptype = "addr"
        THEN \/ "x" \in bp.class /\ Within(bp.range, pc)
             \/ i.op = "load" /\ "r" \in bp.class /\ touched # {}
             \/ i.op = "store" /\ "w" \in bp.class /\ touched # {}
        ELSE Within(bp.range, executed)
\* What it takes for what it is not: the other bytes of an access, an instruction
\* without one, which counts as a read of address 0, the next instruction after
\* a compressed one, and instructions that are not counted.
Excused(i) ==
  \/ Mem(i.op) /\ \E k \in DOMAIN dlite_bps :
       ~Within(dlite_bps[k].range, i.addr) /\ \E b \in i.addr .. i.addr + i.bytes - 1 : Within(dlite_bps[k].range, b)
  \/ ~Mem(i.op) /\ \E k \in DOMAIN dlite_bps : "r" \in dlite_bps[k].class /\ Within(dlite_bps[k].range, 0)
  \/ regs_NPC # due_PC
  \/ ~Counts /\ \E k \in DOMAIN dlite_bps : dlite_bps[k].range.start.ptype # "addr"

Check ==
  /\ phase = "check"
  /\ dlite_check_break(regs_NPC, IF I.op = "store" THEN "w" ELSE "r",
                       IF Mem(I.op) THEN I.addr ELSE 0, sim_num_insn)
  /\ last_inst' = [last_inst EXCEPT !.wanted = dlite_active \/ Wanted(due_PC, I), !.stopped = prompt', !.excused = Excused(I)]
  /\ phase' = "advance"
  /\ UNCHANGED <<regs_PC, regs_NPC, sim_num_insn, bpVars, typed, viewVars, shown, given, sim,
                 IsCtrlInstTaken, executed, sim_num_refs, chkpt, due_PC>>

Debug ==
  /\ Command
  /\ phase' = IF shown'.error \in {"exit", "panic"} THEN "exit" ELSE phase
  /\ LET asked == typed'.name = "cont" /\ shown'.error = "NOERR" /\ typed'.rest # <<>>
     IN  /\ due_PC' = IF asked THEN regs_PC' ELSE due_PC
         /\ last_inst' = [last_inst EXCEPT !.cont = @ \/ asked]
  /\ UNCHANGED <<sim, IsCtrlInstTaken, executed, sim_num_refs, chkpt>>

Advance_ForgetsTaken ==
  /\ phase = "advance" /\ ~prompt
  /\ LET back == IF HalfLengths THEN InstSize - last_inst.size ELSE 0
     IN  regs_PC' = regs_NPC - back /\ regs_NPC' = regs_NPC + InstSize - back
  /\ phase' = IF executed >= MaxInsts THEN "done" ELSE "fetch"
  /\ UNCHANGED <<sim_num_insn, dliteVars, sim, IsCtrlInstTaken, executed, sim_num_refs, chkpt, due_PC, last_inst>>
Advance ==
  /\ phase = "advance" /\ ~prompt
  /\ LET half == HalfLengths /\ last_inst.size < InstSize /\ ~(Ctrl(last_inst.op) /\ IsCtrlInstTaken)
         back == IF half THEN InstSize - last_inst.size ELSE 0
     IN  regs_PC' = regs_NPC - back /\ regs_NPC' = regs_NPC + InstSize - back
  /\ phase' = IF executed >= MaxInsts THEN "done" ELSE "fetch"
  /\ UNCHANGED <<sim_num_insn, dliteVars, sim, IsCtrlInstTaken, executed, sim_num_refs, chkpt, due_PC, last_inst>>

FunctionalNext == Start \/ WriteCheckpoint \/ Execute \/ Check \/ Debug \/ Advance
FunctionalSpec == FunctionalInit /\ [][FunctionalNext]_functionalVars

-----------------------------------------------------------------------------
\* The simulators run the program the instruction set defines, and from where
\* the user says.  They do not: where a loop takes a compressed instruction for
\* a full one; where it still holds the last taken branch against one that is
\* not; after "cont <addr>", which a running loop overwrites, and which leaves
\* the successor of the entry behind when given at the start.
RunsTheProgram ==
  phase = "fetch" /\ executed > 0 /\ ~prompt =>
    LET long == ~HalfLengths /\ last_inst.size < InstSize /\ ~last_inst.taken
        held == HalfLengths /\ last_inst.size < InstSize /\ Ctrl(last_inst.op) /\ ~last_inst.taken /\ last_inst.stale
    IN  last_inst.cont \/ ((regs_PC = due_PC) <=> ~(long \/ held))
\* The debugger stops where it is asked to and nowhere else.
StopsWhereAsked ==
  phase = "advance" /\ sim # "fast" /\ ~last_inst.excused => last_inst.stopped = last_inst.wanted
\* The next dump goes on where one ends, and one that starts at a line shows all
\* the bytes asked for; a single line off its start shows those before them.
DumpsAreContiguous ==
  prompt /\ "dump" \in DOMAIN shown =>
    LET end == shown.asked.at + shown.asked.n
        aligned == shown.asked.at % LineBytes = 0
    IN  \/ /\ \A b \in shown.dump : shown.asked.at <= b /\ b < dump_addr
           /\ dump_addr - 1 \in shown.dump
           /\ aligned => shown.asked.at .. end - 1 \subseteq shown.dump
        \/ shown.asked.n <= LineBytes /\ ~aligned /\ dump_addr = end

=============================================================================
