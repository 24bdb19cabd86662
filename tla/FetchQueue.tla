----------------------------- MODULE FetchQueue -----------------------------
(***************************************************************************)
(* The front end of sim-outorder.c: the IFETCH -> DISPATCH queue between    *)
(* ruu_fetch and ruu_dispatch, its flushes by a misfetch redirect and by    *)
(* tracer_recover, and the counting of macro-fused instructions.            *)
(*                                                                         *)
(* An instruction is the number under which it was fetched (1, 2, ...); 0   *)
(* is a queue slot that was never written (fetch_data is calloc'ed).  What  *)
(* the back end does is the environment: when dispatch must stop (RUU or    *)
(* LSQ full), and when a mispredicted branch completes.                     *)
(***************************************************************************)
EXTENDS Integers, Sequences

CONSTANTS
  ruu_ifq_size,          \* -fetch:ifqsize, a power of two
  ruu_decode_width,      \* -decode:width
  fetch_speed,           \* -fetch:speed
  ruu_branch_penalty,    \* -fetch:mplat
  pred_perfect,          \* -bpred perfect
  macro_fusion_active,   \* macro fusion switched on
  FuseMore,              \* further instructions a fused set may have: {1,2}
  MissLat,               \* latencies of an I-cache or I-TLB miss
  MaxFetch               \* bound on the number of fetched instructions

ASSUME FetchAssumption ==
  /\ ruu_ifq_size \in Nat \ {0} /\ ruu_decode_width \in Nat \ {0}
  /\ fetch_speed \in Nat \ {0} /\ ruu_branch_penalty \in Nat \ {0}
  /\ pred_perfect \in BOOLEAN /\ macro_fusion_active \in BOOLEAN
  /\ FuseMore \subseteq {1, 2}
  /\ MissLat \subseteq {n \in Nat : n > 1}
  /\ MaxFetch \in Nat

VARIABLES
  stage,                 \* "writeback", "dispatch" or "fetch"
  count,                 \* loop counter of that stage
  branch_cnt,            \* predicted-taken branches fetched in this cycle
  fetch_data, fetch_head, fetch_tail, fetch_num,
  macro_total_count,     \* queue entries the instruction in hand stands for
  remaining_macro_inst,  \* fused instructions still to be collected
  macro_fusion_order,    \* how many it has recorded of a set in hand
  fetch_redirected,      \* this call of ruu_dispatch redirected fetch
  ruu_fetch_issue_delay, \* cycles fetch is still blocked
  spec_mode,             \* dispatch runs down a mispredicted path
  fetched,               \* number of instructions fetched so far
  fifo,                  \* history: fetched, not flushed, not yet dispatched
  settled                \* history: flushed with macro_total_count = 1, and
                         \* no set has reached beyond the queue since

macroVars == <<macro_total_count, remaining_macro_inst, macro_fusion_order>>
vars == <<stage, count, branch_cnt, fetch_data, fetch_head, fetch_tail,
          fetch_num, macroVars, fetch_redirected, ruu_fetch_issue_delay,
          spec_mode, fetched, fifo, settled>>

Width == ruu_decode_width * fetch_speed

\* x & (ruu_ifq_size - 1), for a power of two
Wrap(x) == x % ruu_ifq_size

Init ==
  /\ stage = "writeback" /\ count = 0 /\ branch_cnt = 0
  /\ fetch_data = [i \in 0 .. ruu_ifq_size - 1 |-> 0]
  /\ fetch_head = 0 /\ fetch_tail = 0 /\ fetch_num = 0
  /\ macro_total_count = 0 /\ remaining_macro_inst = 0
  /\ macro_fusion_order = 0
  /\ fetch_redirected = FALSE
  /\ ruu_fetch_issue_delay = 0
  /\ spec_mode = FALSE
  /\ fetched = 0 /\ fifo = <<>> /\ settled = FALSE

-----------------------------------------------------------------------------
Recover_KeepsTail ==
  /\ stage = "writeback"
  /\ spec_mode
  /\ spec_mode' = FALSE
  /\ fetch_num' = 0 /\ fetch_head' = 0 /\ fetch_tail' = fetch_tail
  /\ ruu_fetch_issue_delay' = ruu_branch_penalty
  /\ fifo' = <<>>
  /\ settled' = TRUE
  /\ stage' = "dispatch"
  /\ UNCHANGED <<count, branch_cnt, fetch_data, macroVars, fetch_redirected,
                 fetched>>

\* The mispredicted branch completes in ruu_writeback: tracer_recover empties
\* the queue and fetch is stalled.
Recover ==
  /\ stage = "writeback"
  /\ spec_mode
  /\ spec_mode' = FALSE
  /\ fetch_num' = 0 /\ fetch_head' = 0 /\ fetch_tail' = 0
  /\ ruu_fetch_issue_delay' = ruu_branch_penalty
  /\ fifo' = <<>>
  /\ settled' = TRUE
  /\ stage' = "dispatch"
  /\ UNCHANGED <<count, branch_cnt, fetch_data, macroVars, fetch_redirected,
                 fetched>>

NoRecover ==
  /\ stage = "writeback"
  /\ stage' = "dispatch"
  /\ UNCHANGED <<count, branch_cnt, fetch_data, fetch_head, fetch_tail,
                 fetch_num, macroVars, fetch_redirected,
                 ruu_fetch_issue_delay, spec_mode, fetched, fifo, settled>>

-----------------------------------------------------------------------------
\* Bound: a miscounted fetch_num that has passed 0 falls without end, as
\* dispatch keeps handing out leftovers; the model stops it here.
MinFetchNum == -ruu_ifq_size

CanDispatch ==
  /\ stage = "dispatch"
  /\ count < Width
  /\ fetch_num # 0
  /\ fetch_num > MinFetchNum

\* What an ideal queue hands out: one entry, if there is one.
Pop(q) == IF q = <<>> THEN <<>> ELSE Tail(q)

\* The entry ends an instruction: it is dispatched, as a NOP or into the RUU,
\* and all entries of its fused set are taken off the count.  A correct-path
\* branch may turn out mispredicted.
DispatchInst(nop, mispredicted) ==
  /\ CanDispatch
  /\ remaining_macro_inst = 0
  /\ mispredicted => ~spec_mode /\ ~nop /\ ~pred_perfect /\ ~fetch_redirected
  /\ fetch_head' = Wrap(fetch_head + 1)
  /\ fetch_num' = fetch_num - macro_total_count
  /\ macro_total_count' = 1 /\ macro_fusion_order' = 0
  /\ spec_mode' = (spec_mode \/ mispredicted)
  /\ count' = IF nop THEN count ELSE count + 1
  /\ fifo' = Pop(fifo)
  /\ UNCHANGED <<stage, branch_cnt, fetch_data, fetch_tail,
                 remaining_macro_inst, fetch_redirected, ruu_fetch_issue_delay,
                 fetched, settled>>

\* The instruction jumps elsewhere than predicted, which dispatch can tell:
\* always with perfect prediction, and for a direct jump (never part of a
\* fused set) whose predicted target is wrong.  The rest of the queue is
\* dropped; fetch_head and fetch_num are set so that the end of the iteration
\* brings them to 0, if the instruction is not the end of a fused set (with
\* perfect prediction the jalr of auipc, jalr may be).
DispatchRedirect ==
  /\ CanDispatch
  /\ remaining_macro_inst = 0
  /\ pred_perfect \/ macro_total_count <= 1
  /\ fetch_head' = Wrap(ruu_ifq_size - 1 + 1)
  /\ fetch_num' = 1 - macro_total_count
  /\ fetch_tail' = 0
  /\ ruu_fetch_issue_delay' = IF pred_perfect THEN ruu_fetch_issue_delay
                              ELSE ruu_branch_penalty
  /\ fetch_redirected' = TRUE
  /\ macro_total_count' = 1 /\ macro_fusion_order' = 0
  /\ count' = count + 1
  /\ fifo' = <<>>
  /\ settled' = (macro_total_count = 1)
  /\ UNCHANGED <<stage, branch_cnt, fetch_data, remaining_macro_inst,
                 spec_mode, fetched>>

FuseFirst_Counted(more) ==
  /\ CanDispatch
  /\ macro_fusion_active
  /\ remaining_macro_inst = 0
  /\ Wrap(fetch_head + 1) # fetch_tail
  /\ more = 2 => ~(ruu_ifq_size - 1 = fetch_tail /\ (fetch_head + 2) % 2 = 1)
  /\ macro_total_count + more <= 3          \* the longest pattern
  /\ macro_total_count' = macro_total_count + more
  /\ remaining_macro_inst' = more - 1
  /\ macro_fusion_order' = macro_fusion_order + 1
  /\ fetch_head' = Wrap(fetch_head + 1)
  /\ fetch_num' = fetch_num - 1
  /\ fifo' = Pop(fifo)
  /\ settled' = (settled /\ more < Len(fifo))
  /\ UNCHANGED <<stage, count, branch_cnt, fetch_data, fetch_tail,
                 fetch_redirected, ruu_fetch_issue_delay, spec_mode, fetched>>

\* The entry and the "more" instructions after it match a fusion pattern; the
\* second of a pair may open another pair (slli, add, ld).  The code checks
\* that a next entry exists; its check for a third one is
\* "(fetch_head + 2) & (ruu_ifq_size - 1) == fetch_tail", in which == binds
\* tighter than &.
FuseFirst(more) ==
  /\ CanDispatch
  /\ macro_fusion_active
  /\ remaining_macro_inst = 0
  /\ Wrap(fetch_head + 1) # fetch_tail
  /\ more = 2 => ~(ruu_ifq_size - 1 = fetch_tail /\ (fetch_head + 2) % 2 = 1)
  /\ macro_total_count + more <= 3          \* the longest pattern
  /\ macro_total_count' = macro_total_count + more
  /\ remaining_macro_inst' = more - 1
  /\ macro_fusion_order' = macro_fusion_order + 1
  /\ fetch_head' = Wrap(fetch_head + 1)
  /\ fifo' = Pop(fifo)
  /\ settled' = (settled /\ more < Len(fifo))
  /\ UNCHANGED <<stage, count, branch_cnt, fetch_data, fetch_tail, fetch_num,
                 fetch_redirected, ruu_fetch_issue_delay, spec_mode, fetched>>

\* A middle instruction of a fused set is only collected.
FuseNext ==
  /\ CanDispatch
  /\ remaining_macro_inst > 0
  /\ remaining_macro_inst' = remaining_macro_inst - 1
  /\ macro_fusion_order' = macro_fusion_order + 1
  /\ fetch_head' = Wrap(fetch_head + 1)
  /\ fifo' = Pop(fifo)
  /\ UNCHANGED <<stage, count, branch_cnt, fetch_data, fetch_tail, fetch_num,
                 macro_total_count, fetch_redirected, ruu_fetch_issue_delay,
                 spec_mode, fetched, settled>>

\* Dispatch stops.  Inside a fused set nothing that it waits for has changed
\* since the set's first instruction, so it does not stop there.
DispatchEnd ==
  /\ stage = "dispatch"
  /\ macro_fusion_order > 0 => ~CanDispatch
  /\ stage' = "fetch"
  /\ count' = 0
  /\ branch_cnt' = 0
  /\ fetch_redirected' = FALSE
  /\ UNCHANGED <<fetch_data, fetch_head, fetch_tail, fetch_num,
                 macroVars, ruu_fetch_issue_delay, spec_mode, fetched, fifo,
                 settled>>

-----------------------------------------------------------------------------
\* MATCH_MAX_IFQ_SIZE: an integer division
FetchBound == Width * (ruu_ifq_size \div Width)

\* ruu_fetch's loop condition; fetch_speed predicted-taken branches end it.
CanFetch ==
  /\ stage = "fetch"
  /\ ruu_fetch_issue_delay = 0
  /\ count < FetchBound
  /\ fetch_num < ruu_ifq_size
  /\ branch_cnt < fetch_speed

Fetch(predicted_taken) ==
  /\ CanFetch
  /\ fetched < MaxFetch
  /\ predicted_taken => ~pred_perfect      \* no predictor, then
  /\ fetch_data' = [fetch_data EXCEPT ![fetch_tail] = fetched + 1]
  /\ fetch_tail' = Wrap(fetch_tail + 1)
  /\ fetch_num' = fetch_num + 1
  /\ fetched' = fetched + 1
  /\ fifo' = Append(fifo, fetched + 1)
  /\ count' = count + 1
  /\ branch_cnt' = IF predicted_taken THEN branch_cnt + 1 ELSE branch_cnt
  /\ UNCHANGED <<stage, fetch_head, macroVars, fetch_redirected,
                 ruu_fetch_issue_delay, spec_mode, settled>>

\* An I-cache or I-TLB miss blocks fetch until the line is there.
FetchMiss(lat) ==
  /\ CanFetch
  /\ ruu_fetch_issue_delay' = ruu_fetch_issue_delay + lat - 1
  /\ stage' = "writeback"
  /\ count' = 0
  /\ UNCHANGED <<branch_cnt, fetch_data, fetch_head, fetch_tail, fetch_num,
                 macroVars, fetch_redirected, spec_mode, fetched, fifo,
                 settled>>

\* The loop is done, or fetch is blocked and the block a cycle shorter.
FetchEnd ==
  /\ stage = "fetch"
  /\ ~CanFetch \/ fetched = MaxFetch
  /\ ruu_fetch_issue_delay' = IF ruu_fetch_issue_delay > 0
                              THEN ruu_fetch_issue_delay - 1 ELSE 0
  /\ stage' = "writeback"
  /\ count' = 0
  /\ UNCHANGED <<branch_cnt, fetch_data, fetch_head, fetch_tail, fetch_num,
                 macroVars, fetch_redirected, spec_mode, fetched, fifo,
                 settled>>

-----------------------------------------------------------------------------
Next ==
  \/ Recover \/ NoRecover
  \/ \E nop, mispredicted \in BOOLEAN : DispatchInst(nop, mispredicted)
  \/ DispatchRedirect
  \/ \E more \in FuseMore : FuseFirst(more)
  \/ FuseNext
  \/ DispatchEnd
  \/ \E predicted_taken \in BOOLEAN : Fetch(predicted_taken)
  \/ \E lat \in MissLat : FetchMiss(lat)
  \/ FetchEnd

Spec == Init /\ [][Next]_vars

\* sim_main's loop never stops, and a line that missed is in the I-cache when
\* fetch tries again.
FairSpec == /\ Spec /\ WF_vars(Next)
            /\ SF_vars(\E predicted_taken \in BOOLEAN : Fetch(predicted_taken))
-----------------------------------------------------------------------------
\* Every variable of the front end stays in its type.
FetchTypeOK ==
  /\ stage \in {"writeback", "dispatch", "fetch"}
  /\ count \in Nat /\ branch_cnt \in Nat
  /\ fetch_data \in [0 .. ruu_ifq_size - 1 -> Nat]
  /\ fetch_head \in 0 .. ruu_ifq_size - 1
  /\ fetch_tail \in 0 .. ruu_ifq_size - 1
  /\ fetch_num \in Int
  /\ macro_total_count \in 0 .. 3 /\ remaining_macro_inst \in 0 .. 1
  /\ macro_fusion_order \in 0 .. 3
  /\ fetch_redirected \in BOOLEAN /\ spec_mode \in BOOLEAN
  /\ ruu_fetch_issue_delay \in Nat
  /\ fetched \in Nat /\ fifo \in Seq(Nat) /\ settled \in BOOLEAN

\* "num entries in IF -> DIS queue" (the comment of fetch_num): the counter
\* says how many fetched instructions wait for dispatch.  It still counts the
\* ones dispatch has collected for a fused set.
FetchNumCountsEntries == fetch_num = Len(fifo) + macro_fusion_order

\* Once a redirect or a recovery has flushed the queue, the counter is exact.
SettledFetchNum == settled => FetchNumCountsEntries

\* Once the queue was flushed, it is a FIFO: dispatch reads the fetched
\* instructions in order, each once, and never a slot that holds a leftover or
\* was written over (the circular array, the masks and the bound of ruu_fetch,
\* the resets of redirect and recovery).
SettledFifo ==
  settled => \A k \in 1 .. Len(fifo) :
               fetch_data[Wrap(fetch_head + k - 1)] = fifo[k]

\* The front end stays in its type; and once the queue was flushed its counter
\* is exact and it is a FIFO.
FetchIsSettled == FetchTypeOK /\ SettledFetchNum /\ SettledFifo

\* A fused set is never split over two calls of ruu_dispatch: tracer_recover,
\* which flushes the queue and leaves the static counters of the fusion alone,
\* finds them at rest.
FusedSetsAreWhole ==
  stage # "dispatch" =>
    macro_fusion_order = 0 /\ remaining_macro_inst = 0 /\ macro_total_count <= 1

\* "fetch up to as many instruction as the DISPATCH stage can decode" (the
\* comment in ruu_fetch): the machine gets an instruction to decode.
FetchesSomething == <>(fetched > 0)
=============================================================================
