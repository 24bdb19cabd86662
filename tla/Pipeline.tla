------------------------------ MODULE Pipeline ------------------------------
(***************************************************************************)
(* The out-of-order back end of sim-outorder.c: the register update unit   *)
(* (RUU), the load/store queue (LSQ), the create vectors that rename        *)
(* registers to their producers, the event queue, the ready queue and the   *)
(* functional units, driven by the stages of sim_main's loop.               *)
(*                                                                         *)
(* The simulator is one thread.  A stage function is a loop; one step here  *)
(* is one iteration of such a loop, and "stage" says which function runs.   *)
(* What the program under simulation does is the environment: which         *)
(* instruction dispatch finds next, whether a branch was mispredicted, how  *)
(* long a memory access takes, and when the fetch queue is empty.           *)
(*                                                                         *)
(* Absolute time is abstracted: an event holds the number of cycles left    *)
(* until it is due (ev->x.when - sim_cycle), and Tick counts it down.       *)
(***************************************************************************)
EXTENDS Integers, Sequences, FiniteSets

CONSTANTS
  RUU_size, LSQ_size,          \* -ruu:size, -lsq:size
  ruu_decode_width,            \* -decode:width times -fetch:speed
  ruu_issue_width,             \* -issue:width
  ruu_commit_width,            \* -commit:width
  ruu_inorder_issue,           \* -issue:inorder
  ruu_include_spec,            \* -issue:wrongpath
  bugcompat_mode,              \* -bugcompat: issue after dispatch
  Reg,                         \* architected register names
  DTMP,                        \* the reserved name of an address computation
  NA,                          \* "no register"
  None,                        \* the NULL pointer
  Addr,                        \* effective addresses
  Inst,                        \* the instructions a program may contain
  Unit,                        \* functional units
  FuTable,                     \* per class, the unit templates in table order
  LoadLat, TlbLat,             \* latencies of the data cache and the D-TLB
  MAX_RS_LINKS,                \* size of the RS_link pool
  MaxInsts                     \* bound on sim_total_insn

\* The input operands a station may wait for, by their idep_ready[] index.
\* idep 0 (in1) and idep 3 (in4) name no register in the modelled classes.
Operand == 1 .. 2
STORE_ADDR_INDEX == 1

Kind == {"alu", "mul", "ctrl", "load", "store", "amo", "sync", "trap"}
Op   == Kind \cup {"agen"}
FuClass == {"IntALU", "IntMULT", "RdPort", "WrPort", "AMOPort"}

InstType == [kind : Kind, ins : [Operand -> Reg \cup {NA}],
             out : Reg \cup {NA}, addr : Addr]
FuTemplate == [unit : Unit, oplat : Nat \ {0}, issuelat : Nat]

ASSUME SizeAssumption ==
  /\ RUU_size \in Nat \ {0} /\ LSQ_size \in Nat \ {0}
  /\ ruu_decode_width \in Nat \ {0} /\ ruu_issue_width \in Nat \ {0}
  /\ ruu_commit_width \in Nat \ {0}
  /\ ruu_inorder_issue \in BOOLEAN /\ ruu_include_spec \in BOOLEAN
  /\ bugcompat_mode \in BOOLEAN
  /\ MAX_RS_LINKS \in Nat /\ MaxInsts \in Nat

\* MD_OP_FLAGS: which operations access memory, store, and need the machine
\* drained first.  SC is an "amo" without an output register.
IsMem(k)    == k \in {"load", "store", "amo"}
IsStore(k)  == k \in {"store", "amo"}
IsAtomic(k) == k \in {"amo", "sync"}
Drains_Never(k) == FALSE
Drains(k) == k \in {"trap", "sync"}

\* MD_OP_FUCLASS; FENCE and ECALL need no functional unit.
FuClassOf(op) ==
  CASE op \in {"alu", "ctrl", "agen"} -> "IntALU"
    [] op = "mul"   -> "IntMULT"
    [] op = "load"  -> "RdPort"
    [] op = "store" -> "WrPort"
    [] op = "amo"   -> "AMOPort"
    [] OTHER        -> NA

ASSUME InstAssumption ==
  /\ DTMP \in Reg /\ NA \notin Reg /\ NA \notin FuClass /\ Addr # {}
  /\ Inst \subseteq InstType
  /\ \A i \in Inst : /\ i.kind = "store" => i.out = NA
                     /\ DTMP \notin {i.out, i.ins[1], i.ins[2]}
  /\ FuTable \in [FuClass -> Seq(FuTemplate)]
  /\ LoadLat \subseteq Nat \ {0} /\ TlbLat \subseteq Nat

RUU(i) == <<"RUU", i>>
LSQ(i) == <<"LSQ", i>>
Station == {RUU(i) : i \in 0 .. RUU_size - 1}
             \cup {LSQ(i) : i \in 0 .. LSQ_size - 1}
InLSQ(s) == s[1] = "LSQ"

ASSUME NoneAssumption == None \notin Station \cup [rs : Station, tag : Nat]

VARIABLES
  stage,         \* the stage function that is running
  count,         \* its loop counter
  wb,            \* the station ruu_writeback is working on
  node,          \* the ready list ruu_issue has detached
  std_unknowns,  \* lsq_refresh: addresses of stores whose data is unknown
  RUU_head, RUU_tail, RUU_num, LSQ_head, LSQ_tail, LSQ_num,
  ent,           \* what dispatch writes into a station
  tag,           \* instance tags
  idep_ready,    \* per station, the operands that are ready
  odep_list,     \* per station, the links to the consumers of its result
  queued, issued, completed,
  create_vector, spec_create_vector, use_spec_cv,
  event_queue, ready_queue,
  busy,          \* per functional unit, cycles until it is free
  nfree,         \* length of rslink_free_list
  last_op,       \* the op an in-order machine waits for
  spec_mode, inst_seq, sim_total_insn, sim_num_insn, sim_ret_insn

windowVars  == <<RUU_head, RUU_tail, RUU_num, LSQ_head, LSQ_tail, LSQ_num>>
statusVars  == <<queued, issued, completed>>
cvVars      == <<create_vector, spec_create_vector, use_spec_cv>>
countVars   == <<inst_seq, sim_total_insn, sim_num_insn>>
vars == <<stage, count, wb, node, std_unknowns, windowVars, ent, tag,
          idep_ready, odep_list, statusVars, cvVars, event_queue, ready_queue,
          busy, nfree, last_op, spec_mode, countVars, sim_ret_insn>>

-----------------------------------------------------------------------------
(* Stations, links and lists.                                              *)

Inc_Unwrapped(i, size) == i + 1
Inc(i, size) == (i + 1) % size
Dec(i, size) == (i + (size - 1)) % size

\* The stations between head and tail, oldest first.
RUU_slot(k) == RUU((RUU_head + k) % RUU_size)
LSQ_slot(k) == LSQ((LSQ_head + k) % LSQ_size)

OperandsReady(s) == idep_ready[s] = Operand

\* The tag of a station's next instruction.
NextTag_Same(t) == t
NextTag(t) == t + 1

\* RSLINK_INIT, RSLINK_VALID: a link is dead once its station's tag moved on.
Link(s)  == [rs |-> s, tag |-> tag[s]]
Valid(l) == l.tag = tag[l.rs]

\* The list q with e put before its first element in "hits", else at its end.
InsertBefore(q, e, hits) ==
  LET p == IF hits = {} THEN Len(q) + 1
           ELSE CHOOSE i \in hits : \A j \in hits : i <= j
  IN  SubSeq(q, 1, p - 1) \o <<e>> \o SubSeq(q, p, Len(q))

eventq_queue_event_Last(q, s, lat) ==
  Append(q, [rs |-> s, tag |-> tag[s], when |-> lat])

\* eventq_queue_event: sorted by time, before the events of the same cycle.
eventq_queue_event(q, s, lat) ==
  InsertBefore(q, [rs |-> s, tag |-> tag[s], when |-> lat],
               {i \in 1 .. Len(q) : ~(q[i].when < lat)})

\* readyq_enqueue: everything goes to the head of the list, except an atomic
\* operation of the RUU, which is put in program order.
readyq_enqueue(q, s, op, seq) ==
  LET e == [rs |-> s, tag |-> tag[s], seq |-> seq]
  IN  IF ~IsAtomic(op) \/ InLSQ(s)
      THEN <<e>> \o q
      ELSE InsertBefore(q, e, {i \in 1 .. Len(q) : ~(q[i].seq < seq)})

CREATE_VECTOR(r) ==
  IF r \in use_spec_cv THEN spec_create_vector[r] ELSE create_vector[r]
Creator(r) == IF r = NA THEN None ELSE CREATE_VECTOR(r)

\* res_get: the first template of the class whose unit is not busy.
FreeTemplates(c) == {i \in 1 .. Len(FuTable[c]) : busy[FuTable[c][i].unit] = 0}
res_get(c) ==
  FuTable[c][CHOOSE i \in FreeTemplates(c) : \A j \in FreeTemplates(c) : i <= j]

-----------------------------------------------------------------------------
Idle == [op |-> "alu", ins |-> [k \in Operand |-> NA], out |-> NA,
         addr |-> CHOOSE a \in Addr : TRUE, ea_comp |-> FALSE, spec |-> FALSE,
         recover_inst |-> FALSE, seq |-> 0, num |-> 0]

Init ==
  /\ stage = "commit" /\ count = 0 /\ wb = None /\ node = <<>>
  /\ std_unknowns = {}
  /\ RUU_head = 0 /\ RUU_tail = 0 /\ RUU_num = 0
  /\ LSQ_head = 0 /\ LSQ_tail = 0 /\ LSQ_num = 0
  /\ ent = [s \in Station |-> Idle]
  /\ tag = [s \in Station |-> 0]
  /\ idep_ready = [s \in Station |-> {}]
  /\ odep_list = [s \in Station |-> <<>>]
  /\ queued = {} /\ issued = {} /\ completed = {}
  /\ create_vector = [r \in Reg |-> None]
  /\ spec_create_vector = [r \in Reg |-> None]
  /\ use_spec_cv = {}
  /\ event_queue = <<>> /\ ready_queue = <<>>
  /\ busy = [u \in Unit |-> 0]
  /\ nfree = MAX_RS_LINKS
  /\ last_op = None
  /\ spec_mode = FALSE
  /\ inst_seq = 0 /\ sim_total_insn = 0 /\ sim_num_insn = 0 /\ sim_ret_insn = 0

-----------------------------------------------------------------------------
(* ruu_commit: retire from the head of the RUU, in program order.          *)

CommitHead == RUU(RUU_head)
CommitMem  == LSQ(LSQ_head)

\* A load or store retires with its LSQ entry; a store needs a store port.
MemCanRetire ==
  /\ CommitMem \in completed
  /\ IsStore(ent[CommitMem].op) => FreeTemplates(FuClassOf(ent[CommitMem].op)) # {}

CanRetire ==
  /\ RUU_num > 0
  /\ count < ruu_commit_width
  /\ CommitHead \in completed
  /\ ent[CommitHead].ea_comp => MemCanRetire

\* One iteration of ruu_commit's loop that retires an entry.
Commit ==
  /\ stage = "commit"
  /\ CanRetire
  /\ LET mem == ent[CommitHead].ea_comp IN
     /\ IF mem /\ IsStore(ent[CommitMem].op)
        THEN LET fu == res_get(FuClassOf(ent[CommitMem].op))
             IN  busy' = [busy EXCEPT ![fu.unit] = fu.issuelat]
        ELSE UNCHANGED busy
     /\ tag' = [s \in Station |->
                  IF s = CommitHead \/ (mem /\ s = CommitMem)
                  THEN NextTag(tag[s]) ELSE tag[s]]
     /\ LSQ_head' = IF mem THEN Inc(LSQ_head, LSQ_size) ELSE LSQ_head
     /\ LSQ_num' = IF mem THEN LSQ_num - 1 ELSE LSQ_num
  /\ RUU_head' = Inc(RUU_head, RUU_size)
  /\ RUU_num' = RUU_num - 1
  /\ count' = count + 1
  /\ sim_ret_insn' = sim_ret_insn + 1
  /\ UNCHANGED <<stage, wb, node, std_unknowns, RUU_tail, LSQ_tail, ent,
                 idep_ready, odep_list, statusVars, cvVars, event_queue,
                 ready_queue, nfree, last_op, spec_mode, countVars>>

\* The loop ends; ruu_release_fu then counts every busy unit down.
CommitEnd ==
  /\ stage = "commit"
  /\ ~CanRetire
  /\ busy' = [u \in Unit |-> IF busy[u] > 0 THEN busy[u] - 1 ELSE 0]
  /\ stage' = "writeback"
  /\ count' = 0
  /\ UNCHANGED <<wb, node, std_unknowns, windowVars, ent, tag, idep_ready,
                 odep_list, statusVars, cvVars, event_queue, ready_queue,
                 nfree, last_op, spec_mode, countVars, sim_ret_insn>>

-----------------------------------------------------------------------------
(* ruu_writeback, ruu_recover, tracer_recover.                             *)

\* eventq_next_event: the first event, if it is due.
Due == event_queue # <<>> /\ Head(event_queue).when <= 0

ClearCreator_Never(s) == UNCHANGED <<spec_create_vector, create_vector>>

\* The result of s can be read from the register file from now on.
ClearCreator(s) ==
  LET r == ent[s].out
      cleared(cv) == IF r # NA /\ cv[r] = s THEN [cv EXCEPT ![r] = None] ELSE cv
  IN  /\ spec_create_vector' = IF ent[s].spec THEN cleared(spec_create_vector)
                               ELSE spec_create_vector
      /\ create_vector' = IF ent[s].spec THEN create_vector
                          ELSE cleared(create_vector)

PopEvent_Leaks ==
  /\ event_queue' = Tail(event_queue)
  /\ nfree' = nfree

PopEvent ==
  /\ event_queue' = Tail(event_queue)
  /\ nfree' = nfree + 1

\* The event belongs to a squashed instruction: only its link is reclaimed.
SkipEvent ==
  /\ stage = "writeback"
  /\ Due
  /\ ~Valid(Head(event_queue))
  /\ PopEvent
  /\ UNCHANGED <<stage, count, wb, node, std_unknowns, windowVars, ent, tag,
                 idep_ready, odep_list, statusVars, cvVars, ready_queue, busy,
                 last_op, spec_mode, countVars, sim_ret_insn>>

Complete_Unrecovered ==
  /\ stage = "writeback"
  /\ Due
  /\ Valid(Head(event_queue))
  /\ LET s == Head(event_queue).rs IN
     /\ wb' = s
     /\ completed' = completed \cup {s}
     /\ ClearCreator(s)
  /\ PopEvent
  /\ stage' = "broadcast"
  /\ UNCHANGED <<count, node, std_unknowns, windowVars, ent, tag, idep_ready,
                 odep_list, queued, issued, use_spec_cv, ready_queue, busy,
                 last_op, spec_mode, countVars, sim_ret_insn>>

\* An operation completes; its result is broadcast next.
Complete ==
  /\ stage = "writeback"
  /\ Due
  /\ Valid(Head(event_queue))
  /\ LET s == Head(event_queue).rs IN
     /\ ~ent[s].recover_inst
     /\ wb' = s
     /\ completed' = completed \cup {s}
     /\ ClearCreator(s)
  /\ PopEvent
  /\ stage' = "broadcast"
  /\ UNCHANGED <<count, node, std_unknowns, windowVars, ent, tag, idep_ready,
                 odep_list, queued, issued, use_spec_cv, ready_queue, busy,
                 last_op, spec_mode, countVars, sim_ret_insn>>

\* A mispredicted branch completes: ruu_recover squashes before the broadcast.
CompleteMispredicted ==
  /\ stage = "writeback"
  /\ Due
  /\ Valid(Head(event_queue))
  /\ LET s == Head(event_queue).rs IN
     /\ ent[s].recover_inst
     /\ wb' = s
     /\ completed' = completed \cup {s}
  /\ PopEvent
  /\ stage' = "recover"
  /\ UNCHANGED <<count, node, std_unknowns, windowVars, ent, tag, idep_ready,
                 odep_list, queued, issued, cvVars, ready_queue, busy,
                 last_op, spec_mode, countVars, sim_ret_insn>>

\* The address computation r takes its load or store with it.
SquashesLSQ_Never(r) == FALSE
SquashesLSQ(r) == ent[r].ea_comp

\* One iteration of ruu_recover: the youngest RUU entry goes, and its LSQ
\* entry with it.  RUU_tail and LSQ_tail stand for the function's locals
\* RUU_prev_tail and LSQ_prev_tail, which it stores into them at the end.
Squash ==
  /\ stage = "recover"
  /\ LET r == RUU(Dec(RUU_tail, RUU_size))
         l == LSQ(Dec(LSQ_tail, LSQ_size))
         gone == {r} \cup (IF SquashesLSQ(r) THEN {l} ELSE {})
     IN  /\ r # wb
         /\ tag' = [s \in Station |-> IF s \in gone THEN NextTag(tag[s])
                                  ELSE tag[s]]
         /\ odep_list' = [s \in Station |->
                            IF s \in gone THEN <<>> ELSE odep_list[s]]
         /\ nfree' = nfree + Len(odep_list[r])
                       + (IF SquashesLSQ(r) THEN Len(odep_list[l]) ELSE 0)
         /\ RUU_tail' = r[2]
         /\ LSQ_tail' = IF SquashesLSQ(r) THEN l[2] ELSE LSQ_tail
         /\ LSQ_num' = IF SquashesLSQ(r) THEN LSQ_num - 1 ELSE LSQ_num
         /\ RUU_num' = RUU_num - 1
  /\ UNCHANGED <<stage, count, wb, node, std_unknowns, RUU_head, LSQ_head, ent,
                 idep_ready, statusVars, cvVars, event_queue, ready_queue,
                 busy, last_op, spec_mode, countVars, sim_ret_insn>>

RecoverEnd_StaysSpec ==
  /\ stage = "recover"
  /\ RUU(Dec(RUU_tail, RUU_size)) = wb
  /\ use_spec_cv' = {}
  /\ ClearCreator(wb)
  /\ stage' = "broadcast"
  /\ UNCHANGED <<count, wb, node, std_unknowns, windowVars, ent, tag,
                 idep_ready, odep_list, statusVars, event_queue, ready_queue,
                 busy, nfree, last_op, spec_mode, countVars, sim_ret_insn>>

RecoverEnd_KeepsCV ==
  /\ stage = "recover"
  /\ RUU(Dec(RUU_tail, RUU_size)) = wb
  /\ use_spec_cv' = use_spec_cv
  /\ spec_mode' = FALSE
  /\ ClearCreator(wb)
  /\ stage' = "broadcast"
  /\ UNCHANGED <<count, wb, node, std_unknowns, windowVars, ent, tag,
                 idep_ready, odep_list, statusVars, event_queue, ready_queue,
                 busy, nfree, last_op, countVars, sim_ret_insn>>

\* The branch is reached: forget the speculative create vector, leave
\* speculation (tracer_recover), and go on with the writeback of the branch.
RecoverEnd ==
  /\ stage = "recover"
  /\ RUU(Dec(RUU_tail, RUU_size)) = wb
  /\ use_spec_cv' = {}
  /\ spec_mode' = FALSE
  /\ ClearCreator(wb)
  /\ stage' = "broadcast"
  /\ UNCHANGED <<count, wb, node, std_unknowns, windowVars, ent, tag,
                 idep_ready, odep_list, statusVars, event_queue, ready_queue,
                 busy, nfree, last_op, countVars, sim_ret_insn>>

\* One link of the completed operation's consumer list: mark the operand, and
\* queue the consumer when it has them all.  A load waits for lsq_refresh.
Broadcast ==
  /\ stage = "broadcast"
  /\ odep_list[wb] # <<>>
  /\ LET l == Head(odep_list[wb])
         c == l.rs
         wakes == /\ Valid(l)
                  /\ idep_ready[c] \cup {l.opnum} = Operand
                  /\ InLSQ(c) => IsStore(ent[c].op)
     IN  /\ idep_ready' = IF Valid(l)
                          THEN [idep_ready EXCEPT ![c] = @ \cup {l.opnum}]
                          ELSE idep_ready
         /\ ready_queue' = IF wakes
                           THEN readyq_enqueue(ready_queue, c, ent[c].op, ent[c].seq)
                           ELSE ready_queue
         /\ queued' = IF wakes THEN queued \cup {c} ELSE queued
         /\ nfree' = IF wakes THEN nfree ELSE nfree + 1
  /\ odep_list' = [odep_list EXCEPT ![wb] = Tail(@)]
  /\ UNCHANGED <<stage, count, wb, node, std_unknowns, windowVars, ent, tag,
                 issued, completed, cvVars, event_queue, busy, last_op,
                 spec_mode, countVars, sim_ret_insn>>

BroadcastEnd ==
  /\ stage = "broadcast"
  /\ odep_list[wb] = <<>>
  /\ wb' = None
  /\ stage' = "writeback"
  /\ UNCHANGED <<count, node, std_unknowns, windowVars, ent, tag, idep_ready,
                 odep_list, statusVars, cvVars, event_queue, ready_queue, busy,
                 nfree, last_op, spec_mode, countVars, sim_ret_insn>>

\* No event is due any more.
WritebackEnd ==
  /\ stage = "writeback"
  /\ ~Due
  /\ stage' = IF bugcompat_mode THEN "dispatch" ELSE "refresh"
  /\ UNCHANGED <<count, wb, node, std_unknowns, windowVars, ent, tag,
                 idep_ready, odep_list, statusVars, cvVars, event_queue,
                 ready_queue, busy, nfree, last_op, spec_mode, countVars,
                 sim_ret_insn>>

-----------------------------------------------------------------------------
(* lsq_refresh: put the loads that no earlier store blocks on the ready    *)
(* queue, from the oldest on.                                              *)

Scanned == LSQ_slot(count)

BlocksScan_Never == FALSE

\* A store whose address is unknown ends the scan.
BlocksScan == /\ IsStore(ent[Scanned].op)
              /\ STORE_ADDR_INDEX \notin idep_ready[Scanned]

Refresh ==
  /\ stage = "refresh"
  /\ count < LSQ_num
  /\ ~BlocksScan
  /\ LET s == Scanned
         addr == ent[s].addr
         ready == /\ ent[s].op = "load"
                  /\ s \notin queued \cup issued \cup completed
                  /\ OperandsReady(s)
                  /\ addr \notin std_unknowns
     IN  /\ std_unknowns' =
              IF ~IsStore(ent[s].op) THEN std_unknowns
              ELSE IF OperandsReady(s) THEN std_unknowns \ {addr}
              ELSE std_unknowns \cup {addr}
         /\ ready_queue' = IF ready
                           THEN readyq_enqueue(ready_queue, s, "load", ent[s].seq)
                           ELSE ready_queue
         /\ queued' = IF ready THEN queued \cup {s} ELSE queued
         /\ nfree' = IF ready THEN nfree - 1 ELSE nfree
  /\ count' = count + 1
  /\ UNCHANGED <<stage, wb, node, windowVars, ent, tag, idep_ready, odep_list,
                 issued, completed, cvVars, event_queue, busy, last_op,
                 spec_mode, countVars, sim_ret_insn>>

\* The scan ends, and ruu_issue detaches the ready queue.
RefreshEnd ==
  /\ stage = "refresh"
  /\ count >= LSQ_num \/ BlocksScan
  /\ std_unknowns' = {}
  /\ node' = ready_queue
  /\ ready_queue' = <<>>
  /\ count' = 0
  /\ stage' = "issue"
  /\ UNCHANGED <<wb, windowVars, ent, tag, idep_ready, odep_list, statusVars,
                 cvVars, event_queue, busy, nfree, last_op, spec_mode,
                 countVars, sim_ret_insn>>

-----------------------------------------------------------------------------
(* ruu_issue: one node of the detached ready list per step.                *)

IssueNext(s) == /\ stage = "issue"
                /\ node # <<>>
                /\ Valid(Head(node))
                /\ s = Head(node).rs

StoreInLSQ(s) == InLSQ(s) /\ IsStore(ent[s].op) /\ ~IsAtomic(ent[s].op)

\* A link to a squashed entry is reclaimed.
IssueSkip ==
  /\ stage = "issue"
  /\ node # <<>>
  /\ ~Valid(Head(node))
  /\ node' = Tail(node)
  /\ nfree' = nfree + 1
  /\ UNCHANGED <<stage, count, wb, std_unknowns, windowVars, ent, tag,
                 idep_ready, odep_list, statusVars, cvVars, event_queue,
                 ready_queue, busy, last_op, spec_mode, countVars, sim_ret_insn>>

\* A store completes at once; it writes the cache when it commits.
IssueStore(s) ==
  /\ IssueNext(s)
  /\ count < ruu_issue_width
  /\ StoreInLSQ(s)
  /\ queued' = queued \ {s}
  /\ issued' = issued \cup {s}
  /\ completed' = completed \cup {s}
  /\ count' = count + 1
  /\ node' = Tail(node)
  /\ nfree' = nfree + 1
  /\ UNCHANGED <<stage, wb, std_unknowns, windowVars, ent, tag, idep_ready,
                 odep_list, cvVars, event_queue, ready_queue, busy, last_op,
                 spec_mode, countVars, sim_ret_insn>>

\* The LSQ entries older than s, down to LSQ_head, that forward to a load.
Forwards(s) ==
  \E k \in 0 .. LSQ_num - 1 :
    /\ \E j \in k + 1 .. LSQ_num - 1 : LSQ_slot(j) = s
    /\ IsStore(ent[LSQ_slot(k)].op)
    /\ ent[LSQ_slot(k)].addr = ent[s].addr

\* The latency of s on template fu: a load takes one cycle when a store in
\* the LSQ forwards to it, else the data cache's time; the D-TLB is accessed
\* in parallel.
Latency(s, fu) ==
  IF InLSQ(s) /\ ent[s].op = "load"
  THEN {IF t > l THEN t ELSE l : l \in IF Forwards(s) THEN {1} ELSE LoadLat,
                                 t \in TlbLat}
  ELSE {fu.oplat}

Execute(s, lat) ==
  /\ queued' = queued \ {s}
  /\ issued' = issued \cup {s}
  /\ event_queue' = eventq_queue_event(event_queue, s, lat)
  /\ count' = count + 1
  /\ node' = Tail(node)
  /\ UNCHANGED <<stage, wb, std_unknowns, windowVars, ent, tag, idep_ready,
                 odep_list, completed, cvVars, ready_queue, nfree, last_op,
                 spec_mode, countVars, sim_ret_insn>>

\* A functional unit is free: start the operation, schedule its completion.
IssueToUnit(s) ==
  /\ IssueNext(s)
  /\ count < ruu_issue_width
  /\ ~StoreInLSQ(s)
  /\ FuClassOf(ent[s].op) # NA
  /\ FreeTemplates(FuClassOf(ent[s].op)) # {}
  /\ LET fu == res_get(FuClassOf(ent[s].op)) IN
     /\ busy' = [busy EXCEPT ![fu.unit] = fu.issuelat]
     /\ \E lat \in Latency(s, fu) : Execute(s, lat)

\* The operation needs no functional unit.
IssueUnitless(s) ==
  /\ IssueNext(s)
  /\ count < ruu_issue_width
  /\ FuClassOf(ent[s].op) = NA
  /\ Execute(s, 1)
  /\ UNCHANGED busy

Requeue_Drops(s) ==
  /\ IssueNext(s)
  /\ \/ count >= ruu_issue_width
     \/ /\ ~StoreInLSQ(s)
        /\ FuClassOf(ent[s].op) # NA
        /\ FreeTemplates(FuClassOf(ent[s].op)) = {}
  /\ ready_queue' = ready_queue
  /\ node' = Tail(node)
  /\ UNCHANGED <<stage, count, wb, std_unknowns, windowVars, ent, tag,
                 idep_ready, odep_list, statusVars, cvVars, event_queue, busy,
                 nfree, last_op, spec_mode, countVars, sim_ret_insn>>

\* No unit is free, or the issue bandwidth is used up: back onto the queue.
Requeue(s) ==
  /\ IssueNext(s)
  /\ \/ count >= ruu_issue_width
     \/ /\ ~StoreInLSQ(s)
        /\ FuClassOf(ent[s].op) # NA
        /\ FreeTemplates(FuClassOf(ent[s].op)) = {}
  /\ ready_queue' = readyq_enqueue(ready_queue, s, ent[s].op, ent[s].seq)
  /\ node' = Tail(node)
  /\ UNCHANGED <<stage, count, wb, std_unknowns, windowVars, ent, tag,
                 idep_ready, odep_list, statusVars, cvVars, event_queue, busy,
                 nfree, last_op, spec_mode, countVars, sim_ret_insn>>

\* One cycle is over: every pending event is a cycle nearer.
Tick(q) == [i \in 1 .. Len(q) |-> [q[i] EXCEPT !.when = @ - 1]]

IssueEnd ==
  /\ stage = "issue"
  /\ node = <<>>
  /\ count' = 0
  /\ stage' = IF bugcompat_mode THEN "commit" ELSE "dispatch"
  /\ event_queue' = IF bugcompat_mode THEN Tick(event_queue) ELSE event_queue
  /\ UNCHANGED <<wb, node, std_unknowns, windowVars, ent, tag, idep_ready,
                 odep_list, statusVars, cvVars, ready_queue, busy, nfree,
                 last_op, spec_mode, countVars, sim_ret_insn>>

-----------------------------------------------------------------------------
(* ruu_dispatch: one instruction of the fetch queue per step.              *)

InorderStall_Never == FALSE

InorderStall == /\ ruu_inorder_issue
                /\ last_op # None
                /\ Valid(last_op)
                /\ ~OperandsReady(last_op.rs)

\* ruu_link_idep: the operands in "ins" that need not wait for a producer.
ReadyIdeps(ins) == {k \in Operand : Creator(ins[k]) = None}

LinksTo_OneOperand(p, s, ins) ==
  IF Creator(ins[1]) = p
  THEN <<[rs |-> s, tag |-> tag[s], opnum |-> 1]>> ELSE <<>>

\* The links station s puts in front of producer p's list, last operand first.
LinksTo(p, s, ins) ==
  LET link(k) == IF Creator(ins[k]) = p
                 THEN <<[rs |-> s, tag |-> tag[s], opnum |-> k]>> ELSE <<>>
  IN  link(2) \o link(1)

\* The LSQ half of a load or store is linked to the base register only.
LsqIns(i) == [k \in Operand |-> IF k = STORE_ADDR_INDEX THEN i.ins[k] ELSE NA]

Waiting(ins) == Cardinality(Operand \ ReadyIdeps(ins))

\* ruu_install_odep / SET_CREATE_VECTOR for every register in the domain of
\* the function "creates".
InstallOdeps(creates) ==
  LET regs == DOMAIN creates
      set(cv) == [r \in Reg |-> IF r \in regs THEN creates[r] ELSE cv[r]]
  IN  IF spec_mode
      THEN /\ use_spec_cv' = use_spec_cv \cup regs
           /\ spec_create_vector' = set(spec_create_vector)
           /\ UNCHANGED create_vector
      ELSE /\ create_vector' = set(create_vector)
           /\ UNCHANGED <<use_spec_cv, spec_create_vector>>

\* Dispatch instruction i, mispredicted if mp, as RUU entry rs and, for a
\* load or store, LSQ entry l.
Dispatch(i, mp) ==
  LET rs  == RUU(RUU_tail)
      l   == LSQ(LSQ_tail)
      mem == IsMem(i.kind)
      new == {rs} \cup (IF mem THEN {l} ELSE {})
      op(s)  == IF s = rs /\ mem THEN "agen" ELSE i.kind
      ins(s) == IF s = rs THEN i.ins ELSE LsqIns(i)
      out(s) == IF s = rs /\ mem THEN DTMP ELSE i.out
      seq(s) == IF s = rs THEN inst_seq + 1 ELSE inst_seq + 2
      ready  == {s \in new : ReadyIdeps(ins(s)) = Operand}
      \* loads are queued by lsq_refresh
      queue  == {s \in ready : s = rs \/ IsStore(i.kind)}
      q1 == IF rs \in queue
            THEN readyq_enqueue(ready_queue, rs, op(rs), seq(rs)) ELSE ready_queue
      q2 == IF l \in queue
            THEN readyq_enqueue(q1, l, op(l), seq(l)) ELSE q1
      links(p) == (IF mem THEN LinksTo(p, l, ins(l)) ELSE <<>>)
                    \o LinksTo(p, rs, ins(rs))
  IN
  /\ stage = "dispatch"
  /\ sim_total_insn < MaxInsts
  /\ count < ruu_decode_width
  /\ RUU_num < RUU_size /\ LSQ_num < LSQ_size
  /\ ruu_include_spec \/ ~spec_mode
  /\ ~InorderStall
  /\ Drains(i.kind) => RUU_num = 0
  /\ ent' = [s \in Station |->
               IF s \in new
               THEN [op |-> op(s), ins |-> ins(s), out |-> out(s),
                     addr |-> i.addr, ea_comp |-> mem /\ s = rs,
                     spec |-> spec_mode, recover_inst |-> mp /\ s = rs,
                     seq |-> seq(s),
                     num |-> IF spec_mode THEN 0 ELSE sim_num_insn + 1]
               ELSE ent[s]]
  /\ idep_ready' = [s \in Station |->
                      IF s \in new THEN ReadyIdeps(ins(s)) ELSE idep_ready[s]]
  /\ odep_list' = [s \in Station |->
                     IF s \in new /\ out(s) # NA THEN <<>>
                     ELSE links(s) \o odep_list[s]]
  /\ queued' = (queued \ new) \cup queue
  /\ issued' = issued \ new
  /\ completed' = completed \ new
  /\ InstallOdeps([r \in {out(s) : s \in new} \ {NA} |->
                     IF mem /\ r # DTMP THEN l ELSE rs])
  /\ ready_queue' = q2
  /\ nfree' = nfree - Waiting(ins(rs))
                    - (IF mem THEN Waiting(ins(l)) ELSE 0) - Cardinality(queue)
  /\ RUU_tail' = Inc(RUU_tail, RUU_size) /\ RUU_num' = RUU_num + 1
  /\ LSQ_tail' = IF mem THEN Inc(LSQ_tail, LSQ_size) ELSE LSQ_tail
  /\ LSQ_num' = IF mem THEN LSQ_num + 1 ELSE LSQ_num
  /\ inst_seq' = IF mem THEN inst_seq + 2 ELSE inst_seq + 1
  \* read by an in-order machine only
  /\ last_op' = IF ~ruu_inorder_issue THEN None
                ELSE IF mem THEN Link(l)
                ELSE IF rs \in ready THEN None ELSE Link(rs)
  /\ count' = count + 1
  /\ sim_total_insn' = sim_total_insn + 1
  /\ sim_num_insn' = IF spec_mode THEN sim_num_insn ELSE sim_num_insn + 1
  /\ spec_mode' = (spec_mode \/ mp)
  /\ UNCHANGED <<stage, wb, node, std_unknowns, RUU_head, LSQ_head, tag,
                 event_queue, busy, sim_ret_insn>>

\* Only a control instruction on the correct path opens a mis-speculation.
DispatchInst ==
  \E i \in Inst, mp \in BOOLEAN :
    /\ mp => i.kind = "ctrl" /\ ~spec_mode
    /\ Dispatch(i, mp)

\* Dispatch stops: its bandwidth, the RUU or the LSQ is exhausted, the machine
\* must drain, or the fetch queue is empty.
DispatchEnd ==
  /\ stage = "dispatch"
  /\ count' = 0
  /\ stage' = IF bugcompat_mode THEN "refresh" ELSE "commit"
  /\ event_queue' = IF bugcompat_mode THEN event_queue ELSE Tick(event_queue)
  /\ UNCHANGED <<wb, node, std_unknowns, windowVars, ent, tag, idep_ready,
                 odep_list, statusVars, cvVars, ready_queue, busy, nfree,
                 last_op, spec_mode, countVars, sim_ret_insn>>

-----------------------------------------------------------------------------
Next ==
  \/ Commit \/ CommitEnd
  \/ SkipEvent \/ Complete \/ CompleteMispredicted \/ WritebackEnd
  \/ Squash \/ RecoverEnd
  \/ Broadcast \/ BroadcastEnd
  \/ Refresh \/ RefreshEnd
  \/ IssueSkip \/ IssueEnd
  \/ \E s \in Station : IssueStore(s) \/ IssueToUnit(s) \/ IssueUnitless(s)
                          \/ Requeue(s)
  \/ DispatchInst \/ DispatchEnd

Spec == Init /\ [][Next]_vars

\* The main loop never stops: some stage can always take a step.
FairSpec == Spec /\ WF_vars(Next)
=============================================================================
