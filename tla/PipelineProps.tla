---------------------------- MODULE PipelineProps ----------------------------
(* Correctness properties of the out-of-order core of sim-outorder.c.      *)
EXTENDS Pipeline, FiniteSetsExt

Event     == [rs : Station, tag : Nat, when : Int]
ReadyNode == [rs : Station, tag : Nat, seq : Nat]
OdepLink  == [rs : Station, tag : Nat, opnum : Operand]
Entry     == [op : Op, ins : [Operand -> Reg \cup {NA}], out : Reg \cup {NA},
              addr : Addr, ea_comp : BOOLEAN, spec : BOOLEAN,
              recover_inst : BOOLEAN, seq : Nat, num : Nat]
Stage     == {"commit", "writeback", "recover", "broadcast", "refresh",
              "issue", "dispatch"}

\* Every variable of the core stays in its type.
TypeOK ==
  /\ stage \in Stage /\ count \in Nat /\ wb \in Station \cup {None}
  /\ node \in Seq(ReadyNode) /\ std_unknowns \subseteq Addr
  /\ RUU_head \in 0 .. RUU_size - 1 /\ RUU_tail \in 0 .. RUU_size - 1
  /\ LSQ_head \in 0 .. LSQ_size - 1 /\ LSQ_tail \in 0 .. LSQ_size - 1
  /\ RUU_num \in Int /\ LSQ_num \in Int
  /\ ent \in [Station -> Entry]
  /\ tag \in [Station -> Nat]
  /\ idep_ready \in [Station -> SUBSET Operand]
  /\ odep_list \in [Station -> Seq(OdepLink)]
  /\ queued \subseteq Station /\ issued \subseteq Station
  /\ completed \subseteq Station
  /\ create_vector \in [Reg -> Station \cup {None}]
  /\ spec_create_vector \in [Reg -> Station \cup {None}]
  /\ use_spec_cv \subseteq Reg
  /\ event_queue \in Seq(Event) /\ ready_queue \in Seq(ReadyNode)
  /\ busy \in [Unit -> Nat] /\ nfree \in Int
  /\ last_op \in [rs : Station, tag : Nat] \cup {None}
  /\ spec_mode \in BOOLEAN
  /\ inst_seq \in Nat /\ sim_total_insn \in Nat /\ sim_num_insn \in Nat
  /\ sim_ret_insn \in Nat

LiveRUU == {RUU_slot(k) : k \in 0 .. RUU_num - 1}
LiveLSQ == {LSQ_slot(k) : k \in 0 .. LSQ_num - 1}
Live    == LiveRUU \cup LiveLSQ

\* A loop that takes wake-up links apart is in progress.
MidWriteback == stage \in {"recover", "broadcast"}

-----------------------------------------------------------------------------
(* The panic() calls of the core, each as the state in which it is made.   *)

WedgedWindow ==
  /\ stage = "commit" /\ count = 0
  /\ \/ RUU_num < LSQ_num
     \/ (RUU_head + RUU_num) % RUU_size # RUU_tail
     \/ (LSQ_head + LSQ_num) % LSQ_size # LSQ_tail

CommitOutOfSync ==
  /\ stage = "commit" /\ RUU_num > 0 /\ CommitHead \in completed
  /\ \/ ent[CommitHead].ea_comp /\ LSQ_num <= 0
     \/ odep_list[CommitHead] # <<>>

BadCompletion ==
  /\ stage = "writeback" /\ Due /\ Valid(Head(event_queue))
  /\ LET s == Head(event_queue).rs IN
     \/ ~OperandsReady(s) \/ s \in queued \cup completed \/ s \notin issued
     \/ ent[s].recover_inst /\ (InLSQ(s) \/ ~spec_mode)

BadSquash ==
  /\ stage = "recover" /\ RUU(Dec(RUU_tail, RUU_size)) # wb
  /\ \/ RUU_num = 0
     \/ Dec(RUU_tail, RUU_size) = RUU_head
     \/ ent[RUU(Dec(RUU_tail, RUU_size))].ea_comp /\ LSQ_num = 0

BadWakeup ==
  /\ stage = "broadcast" /\ odep_list[wb] # <<>>
  /\ LET l == Head(odep_list[wb]) IN
     /\ Valid(l)
     /\ \/ l.opnum \in idep_ready[l.rs]
        \/ l.rs \in queued

BadIssue ==
  /\ stage = "issue" /\ node # <<>> /\ Valid(Head(node))
  /\ LET s == Head(node).rs IN
     \/ ~OperandsReady(s) \/ s \notin queued \/ s \in issued \cup completed
     \/ StoreInLSQ(s) /\ (ent[s].out # NA \/ ent[s].recover_inst)

DrainedSpeculative == stage = "dispatch" /\ RUU_num = 0 /\ spec_mode

\* No sequence of dispatches, latencies and mispredictions reaches one of the
\* core's panic() calls: the sanity checks of sim_main, "RUU out of sync with
\* LSQ" and "retired instruction has odeps" in ruu_commit, the checks of
\* ruu_writeback, ruu_recover, readyq_enqueue and ruu_issue, and "drained and
\* speculative" in ruu_dispatch.
NoPanic == ~(\/ WedgedWindow \/ CommitOutOfSync \/ BadCompletion \/ BadSquash
             \/ BadWakeup \/ BadIssue \/ DrainedSpeculative)

-----------------------------------------------------------------------------
(* Register dependences.                                                   *)

\* The entries before s, in program order, that write its operand k.
Writers(s, k) == {w \in Live : /\ ent[s].ins[k] # NA
                               /\ ent[w].out = ent[s].ins[k]
                               /\ ent[w].seq < ent[s].seq}
Producer(s, k) == CHOOSE w \in Writers(s, k) :
                    \A v \in Writers(s, k) : ent[v].seq <= ent[w].seq

\* The reference definition of renaming: an operand waits exactly as long as
\* the youngest older writer of its register in the window has not completed.
\* The create vectors, with their speculative copy, the consumer lists and the
\* instance tags of the code must come to the same, across mispredictions.
TrueDependences ==
  MidWriteback \/
    \A s \in Live, k \in Operand :
      k \notin idep_ready[s] <=>
        /\ Writers(s, k) # {}
        /\ Producer(s, k) \notin completed

\* How many elements of the list q are valid links to s that pass the test P.
Hits(q, s, P(_)) ==
  Cardinality({i \in 1 .. Len(q) : q[i].rs = s /\ Valid(q[i]) /\ P(q[i])})

\* No wake-up is lost or delivered twice: an operand that waits is on its
\* producer's consumer list once, and on no other live list.
WakeupsPending ==
  MidWriteback \/
    \A s \in Live, k \in Operand, p \in Live :
      LET onOperand(l) == l.opnum = k
      IN  Hits(odep_list[p], s, onOperand) =
            IF /\ k \notin idep_ready[s]
               /\ Writers(s, k) # {} /\ p = Producer(s, k)
            THEN 1 ELSE 0

\* No instruction is lost between the queues: one that has not completed
\* waits for an operand, is on the ready list once, has one completion event,
\* or is a load that lsq_refresh will look at.
NoLostInstruction ==
  LET any(l) == TRUE IN
  MidWriteback \/
    \A s \in Live :
      LET ready  == Hits(ready_queue \o node, s, any)
          events == Hits(event_queue, s, any)
      IN  /\ ready = IF s \in queued THEN 1 ELSE 0
          /\ events = IF s \in issued \ completed THEN 1 ELSE 0
          /\ s \notin queued \cup issued \cup completed =>
               ~OperandsReady(s) \/ (InLSQ(s) /\ ent[s].op = "load")

\* Every completion is written back in the cycle it is due: once
\* ruu_writeback has returned, the (sorted) event queue holds only the future.
NoLateEvent ==
  stage \notin {"commit", "writeback", "recover", "broadcast"} =>
    \A i \in 1 .. Len(event_queue) : event_queue[i].when >= 1

\* The RS_link pool leaks nothing: the free list and the links in the event
\* queue, the ready queue and the consumer lists add up to the pool.
LinkConservation ==
  LET consumers(s) == Len(odep_list[s])
  IN  nfree + Len(event_queue) + Len(ready_queue) + Len(node)
        + MapThenSumSet(consumers, Station) = MAX_RS_LINKS

-----------------------------------------------------------------------------
(* Memory order and speculation.                                           *)

\* A load that was let go has no older store with an unknown address before
\* it in the LSQ (lsq_refresh's "no earlier unresolved store").
LoadsAfterKnownStores ==
  \A j \in 0 .. LSQ_num - 1 : \A k \in 0 .. j - 1 :
    ( /\ ent[LSQ_slot(j)].op = "load"
      /\ LSQ_slot(j) \in queued \cup issued \cup completed
      /\ IsStore(ent[LSQ_slot(k)].op) )
    => STORE_ADDR_INDEX \in idep_ready[LSQ_slot(k)]

\* The branches whose misprediction is not repaired yet.
OpenBranches == {s \in LiveRUU : /\ ent[s].recover_inst
                                 /\ \/ s \notin completed
                                    \/ stage = "recover" /\ s = wb}

\* The machine speculates exactly while one mispredicted branch is in the
\* RUU, and exactly the entries younger than that branch are marked
\* speculative: what recovery squashes is the wrong path, all of it.
SpeculationIsBehindOneBranch ==
  /\ spec_mode <=> OpenBranches # {}
  /\ Cardinality(OpenBranches) <= 1
  /\ \A s \in Live : ent[s].spec <=>
       \E b \in OpenBranches : ent[b].seq < ent[s].seq

\* A system call or fence is carried out alone and never down a wrong path: it
\* entered an empty machine, so nothing older is in the RUU and no branch is
\* open before it.
DrainedInstructionIsFirst ==
  \A s \in LiveRUU :
    ent[s].op \in {"trap", "sync"} => s = CommitHead /\ ~ent[s].spec

\* An in-order machine lets no instruction pass one that waits for operands:
\* only the youngest may wait (a store only for its data).
InOrderReady ==
  ruu_inorder_issue =>
    \A k \in 0 .. RUU_num - 2 :
      \/ OperandsReady(RUU_slot(k))
      \/ ent[RUU_slot(k)].ea_comp /\ 1 \in idep_ready[RUU_slot(k)]

\* The RUU and the LSQ never get out of sync, over any sequence of dispatches,
\* commits and squashes: each is a circular queue in program order whose head,
\* tail and count agree, and every address computation in the RUU has its load
\* or store in the LSQ and the other way round.
RUUQueue ==
  /\ RUU_num \in 0 .. RUU_size
  /\ RUU_tail = (RUU_head + RUU_num) % RUU_size
  /\ \A j, k \in 0 .. RUU_num - 1 :
       j < k => ent[RUU_slot(j)].seq < ent[RUU_slot(k)].seq
LSQQueue ==
  /\ LSQ_num \in 0 .. LSQ_size
  /\ LSQ_tail = (LSQ_head + LSQ_num) % LSQ_size
  /\ \A j, k \in 0 .. LSQ_num - 1 :
       j < k => ent[LSQ_slot(j)].seq < ent[LSQ_slot(k)].seq
Paired ==
  /\ \A k \in 0 .. RUU_num - 1 : ent[RUU_slot(k)].ea_comp =>
       \E j \in 0 .. LSQ_num - 1 :
         ent[LSQ_slot(j)].seq = ent[RUU_slot(k)].seq + 1
  /\ \A j \in 0 .. LSQ_num - 1 :
       \E k \in 0 .. RUU_num - 1 :
         /\ ent[RUU_slot(k)].ea_comp
         /\ ent[LSQ_slot(j)].seq = ent[RUU_slot(k)].seq + 1
WindowInSync == RUUQueue /\ LSQQueue /\ Paired

\* The links of the event queue, the ready lists and the consumer lists.
Elements(q) == {q[k] : k \in 1 .. Len(q)}
Links == Elements(event_queue) \cup Elements(ready_queue) \cup Elements(node)
           \cup UNION {Elements(odep_list[s]) : s \in Station}

\* A link that passes RSLINK_VALID leads to the instruction it was made for:
\* stations are reused, links to their former instructions stay behind in the
\* queues, and only the instance tag tells them apart.
NoStaleLink == \A l \in Links : Valid(l) => l.rs \in Live

-----------------------------------------------------------------------------
(* The core implements the reorder window.                                 *)

WindowEntry(k) ==
  LET s == RUU_slot(k - 1)
  IN  [num |-> ent[s].num, spec |-> ent[s].spec, done |-> s \in completed]

Window == INSTANCE ReorderWindow
            WITH Width <- RUU_size,
                 window <- [k \in 1 .. RUU_num |-> WindowEntry(k)],
                 fetched <- sim_num_insn,
                 retired <- sim_ret_insn

\* Instructions of the correct path retire exactly once, in program order and
\* complete; instructions of a wrong path never do.
RetiresInOrder == Window!WinSpec

-----------------------------------------------------------------------------
(* Progress.                                                               *)

\* Whatever enters the RUU leaves it, retired or squashed: no instruction
\* waits for ever for an operand, a unit, a store port or a drain.
EveryInstructionLeaves ==
  \A q \in 1 .. 2 * MaxInsts :
    (\E s \in LiveRUU : ent[s].seq = q) ~> ~(\E s \in LiveRUU : ent[s].seq = q)

-----------------------------------------------------------------------------
(* What the comments of the source say and the code does not do.           *)

\* "completed: memory access has completed, stored value available" (the LSQ's
\* comment): a completed store has the value it stores.  The value is operand
\* 2 of the address computation dispatched with it.
StoredValueAvailable ==
  \A l \in LiveLSQ, r \in LiveRUU :
    /\ l \in completed /\ ent[l].op = "store"
    /\ ent[r].ea_comp /\ ent[r].seq + 1 = ent[l].seq
    => 2 \in idep_ready[r]

\* "all other instructions, oldest instructions first" (readyq_enqueue's
\* comment): operations that are neither memory nor long-latency operations
\* nor branches are ordered by age on the ready queue.
OldestFirst ==
  \A i, j \in 1 .. Len(ready_queue) :
    LET ahead == ready_queue[i]
        behind == ready_queue[j]
        plain(e) == Valid(e) /\ ent[e.rs].op = "alu"
    IN  i < j /\ plain(ahead) /\ plain(behind) => ahead.seq < behind.seq
=============================================================================
