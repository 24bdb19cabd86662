---------------------------- MODULE FetchProofs -----------------------------
(***************************************************************************)
(* The fetch queue of every size, width and set of fusion patterns: once a  *)
(* flush has brought its counter into order it is an exact FIFO, and fused  *)
(* sets are taken whole.                                                   *)
(***************************************************************************)
EXTENDS FetchQueue, TLAPS

-----------------------------------------------------------------------------
(* The circular array.                                                     *)

\* The slot k places after h.
Place(h, k) == IF h + k < ruu_ifq_size THEN h + k ELSE h + k - ruu_ifq_size

LEMMA WrapPlace ==
  ASSUME NEW h \in 0 .. ruu_ifq_size - 1, NEW k \in 0 .. ruu_ifq_size
  PROVE  /\ Wrap(h + k) = Place(h, k)
         /\ Place(h, k) \in 0 .. ruu_ifq_size - 1
<1>1. ruu_ifq_size \in Int /\ ruu_ifq_size > 0
  BY FetchAssumption
<1>2. \A x \in Int : 0 <= x /\ x < ruu_ifq_size => x % ruu_ifq_size = x
  BY <1>1
<1>3. \A x \in Int : ruu_ifq_size <= x /\ x < ruu_ifq_size + ruu_ifq_size
                       => x % ruu_ifq_size = x - ruu_ifq_size
  BY <1>1
<1> QED BY <1>1, <1>2, <1>3 DEF Wrap, Place

\* The head moves on.
LEMMA PlaceShift ==
  ASSUME NEW h \in 0 .. ruu_ifq_size - 1
  PROVE  /\ Wrap(h + 1) \in 0 .. ruu_ifq_size - 1
         /\ \A k \in 0 .. ruu_ifq_size - 1 : Place(Wrap(h + 1), k) = Place(h, k + 1)
<1>1. ruu_ifq_size \in Int /\ ruu_ifq_size > 0 /\ 1 \in 0 .. ruu_ifq_size
  BY FetchAssumption
<1>2. Wrap(h + 1) = Place(h, 1) /\ Place(h, 1) \in 0 .. ruu_ifq_size - 1
  BY <1>1, WrapPlace
<1> QED BY <1>1, <1>2 DEF Place

\* Different places are different slots.
LEMMA PlaceInj ==
  ASSUME NEW h \in 0 .. ruu_ifq_size - 1, NEW j \in 0 .. ruu_ifq_size - 1,
         NEW k \in 0 .. ruu_ifq_size - 1, Place(h, j) = Place(h, k)
  PROVE  j = k
<1>1. ruu_ifq_size \in Int
  BY FetchAssumption
<1> QED BY <1>1 DEF Place

-----------------------------------------------------------------------------
(* The invariant.                                                          *)

\* macro_total_count is what the set in hand stands for; it is one short until
\* the first instruction has been dispatched.  A set in hand is never left.
MacroInv ==
  /\ \/ macro_total_count = macro_fusion_order + remaining_macro_inst + 1
     \/ /\ macro_total_count = macro_fusion_order + remaining_macro_inst
        /\ ~settled /\ ~spec_mode
  /\ remaining_macro_inst > 0 => macro_fusion_order > 0
  /\ macro_fusion_order > 0 => CanDispatch

\* The n entries of the queue q are in the slots from the head to the tail.
Holds(data, head, tail, q) ==
  /\ Len(q) <= ruu_ifq_size
  /\ tail = Place(head, Len(q))
  /\ \A k \in 1 .. Len(q) : data[Place(head, k - 1)] = q[k]

\* After a flush the counter is exact, and what is left of a set is there.
QueueInv ==
  settled =>
    /\ fetch_num = Len(fifo) + macro_fusion_order
    /\ Holds(fetch_data, fetch_head, fetch_tail, fifo)
    /\ macro_fusion_order > 0 => remaining_macro_inst < Len(fifo)

FetchInv == FetchTypeOK /\ MacroInv /\ QueueInv

LEMMA InitFetch == Init => FetchInv
<1> SUFFICES ASSUME Init PROVE FetchInv
  OBVIOUS
<1>1. FetchTypeOK
  <2>1. 0 \in 0 .. ruu_ifq_size - 1
    BY FetchAssumption
  <2>2. fetch_data \in [0 .. ruu_ifq_size - 1 -> Nat]
    BY DEF Init
  <2>3. fifo \in Seq(Nat)
    BY DEF Init
  <2>4. fetch_redirected \in BOOLEAN /\ spec_mode \in BOOLEAN /\ settled \in BOOLEAN
    BY DEF Init
  <2> QED BY <2>1, <2>2, <2>3, <2>4 DEF Init, FetchTypeOK
<1> QED BY <1>1 DEF Init, FetchInv, MacroInv, QueueInv

-----------------------------------------------------------------------------
(* Taking and putting one entry.                                           *)

LEMMA PopHolds ==
  ASSUME FetchTypeOK, Holds(fetch_data, fetch_head, fetch_tail, fifo), fifo # <<>>
  PROVE  /\ Pop(fifo) = Tail(fifo) /\ Len(Tail(fifo)) = Len(fifo) - 1
         /\ Holds(fetch_data, Wrap(fetch_head + 1), fetch_tail, Tail(fifo))
<1> DEFINE n == Len(fifo)
<1>1. /\ fifo \in Seq(Nat) /\ n \in Nat /\ n > 0 /\ n <= ruu_ifq_size
      /\ ruu_ifq_size \in Nat /\ fetch_head \in 0 .. ruu_ifq_size - 1
  BY FetchAssumption DEF FetchTypeOK, Holds
<1>2. /\ Pop(fifo) = Tail(fifo) /\ Len(Tail(fifo)) = n - 1
      /\ \A k \in 1 .. n - 1 : Tail(fifo)[k] = fifo[k + 1]
  BY <1>1 DEF Pop
<1>3. \A k \in 0 .. ruu_ifq_size - 1 :
        Place(Wrap(fetch_head + 1), k) = Place(fetch_head, k + 1)
  BY <1>1, PlaceShift
<1> HIDE DEF n
<1>4. fetch_tail = Place(Wrap(fetch_head + 1), n - 1)
  <2>1. n - 1 \in 0 .. ruu_ifq_size - 1 /\ (n - 1) + 1 = n
    BY <1>1
  <2>2. fetch_tail = Place(fetch_head, n)
    BY DEF Holds, n
  <2> QED BY <1>3, <2>1, <2>2
<1>5. ASSUME NEW k \in 1 .. n - 1
      PROVE  fetch_data[Place(Wrap(fetch_head + 1), k - 1)] = Tail(fifo)[k]
  <2>1. k - 1 \in 0 .. ruu_ifq_size - 1 /\ k + 1 \in 1 .. n /\ (k - 1) + 1 = k
        /\ (k + 1) - 1 = k
    BY <1>1, <1>5
  <2>2. Place(Wrap(fetch_head + 1), k - 1) = Place(fetch_head, k)
    BY <1>3, <2>1
  <2>3. fetch_data[Place(fetch_head, (k + 1) - 1)] = fifo[k + 1]
    BY <2>1 DEF Holds, n
  <2> QED BY <1>2, <1>5, <2>1, <2>2, <2>3
<1>6. n - 1 <= ruu_ifq_size
  BY <1>1
<1> QED BY <1>2, <1>4, <1>5, <1>6 DEF Holds, n

LEMMA PutHolds ==
  ASSUME FetchTypeOK, Holds(fetch_data, fetch_head, fetch_tail, fifo),
         Len(fifo) < ruu_ifq_size, NEW e \in Nat
  PROVE  Holds([fetch_data EXCEPT ![fetch_tail] = e], fetch_head,
               Wrap(fetch_tail + 1), Append(fifo, e))
<1> DEFINE n == Len(fifo)
           d == [fetch_data EXCEPT ![fetch_tail] = e]
           q == Append(fifo, e)
<1>1. /\ fifo \in Seq(Nat) /\ n \in Nat /\ n < ruu_ifq_size /\ ruu_ifq_size \in Nat
      /\ fetch_head \in 0 .. ruu_ifq_size - 1 /\ fetch_tail \in 0 .. ruu_ifq_size - 1
      /\ fetch_data \in [0 .. ruu_ifq_size - 1 -> Nat] /\ 1 \in 0 .. ruu_ifq_size
  BY FetchAssumption DEF FetchTypeOK
<1>2. Len(q) = n + 1 /\ q[n + 1] = e /\ \A k \in 1 .. n : q[k] = fifo[k]
  BY <1>1
<1>3. /\ d[fetch_tail] = e
      /\ \A x \in 0 .. ruu_ifq_size - 1 : x # fetch_tail => d[x] = fetch_data[x]
  BY <1>1
<1> HIDE DEF n, d, q
<1>4. fetch_tail = Place(fetch_head, n)
  BY DEF Holds, n
<1>5. Wrap(fetch_tail + 1) = Place(fetch_head, n + 1)
  <2>1. Wrap(fetch_tail + 1) = Place(fetch_tail, 1)
    BY <1>1, WrapPlace
  <2> QED BY <1>1, <1>4, <2>1 DEF Place
<1>6. ASSUME NEW k \in 1 .. n + 1 PROVE d[Place(fetch_head, k - 1)] = q[k]
  <2>1. CASE k = n + 1
    <3>1. k - 1 = n
      BY <1>1, <2>1
    <3> QED BY <1>2, <1>3, <1>4, <2>1, <3>1
  <2>2. CASE k # n + 1
    <3>1. k \in 1 .. n /\ k - 1 \in 0 .. ruu_ifq_size - 1 /\ k - 1 # n
          /\ n \in 0 .. ruu_ifq_size - 1 /\ k - 1 \in 0 .. ruu_ifq_size
      BY <1>1, <1>6, <2>2
    <3>2. Place(fetch_head, k - 1) # fetch_tail
      BY <1>1, <1>4, <3>1, PlaceInj
    <3>3. Place(fetch_head, k - 1) \in 0 .. ruu_ifq_size - 1
      BY <1>1, <3>1, WrapPlace
    <3>4. fetch_data[Place(fetch_head, k - 1)] = fifo[k]
      BY <3>1 DEF Holds, n
    <3> QED BY <1>2, <1>3, <3>1, <3>2, <3>3, <3>4
  <2> QED BY <2>1, <2>2
<1>7. n + 1 <= ruu_ifq_size
  BY <1>1
<1>8. Holds(d, fetch_head, Wrap(fetch_tail + 1), q)
  BY <1>2, <1>5, <1>6, <1>7 DEF Holds
<1> QED BY <1>8 DEF d, q

\* An empty queue whose head and tail are at 0.
LEMMA EmptyHolds == \A d : Holds(d, 0, 0, <<>>)
<1>1. ruu_ifq_size \in Nat /\ ruu_ifq_size > 0
  BY FetchAssumption
<1> QED BY <1>1 DEF Holds, Place

LEMMA PopType == ASSUME NEW q \in Seq(Nat) PROVE Pop(q) \in Seq(Nat)
BY DEF Pop

-----------------------------------------------------------------------------
(* The stages.                                                             *)

LEMMA RecoverFetch ==
  ASSUME FetchInv, Recover
  PROVE  FetchInv'
<1>1. /\ FetchTypeOK /\ MacroInv /\ stage = "writeback" /\ spec_mode
      /\ fetch_head' = 0 /\ fetch_tail' = 0 /\ fetch_num' = 0 /\ fifo' = <<>>
      /\ UNCHANGED <<macro_total_count, remaining_macro_inst, macro_fusion_order>>
  BY DEF FetchInv, Recover, macroVars
<1>2. /\ macro_fusion_order = 0 /\ remaining_macro_inst = 0
      /\ macro_total_count = macro_fusion_order + remaining_macro_inst + 1
  BY <1>1 DEF MacroInv, CanDispatch, FetchTypeOK
<1>3. FetchTypeOK'
  <2>1. 0 \in 0 .. ruu_ifq_size - 1 /\ ruu_branch_penalty \in Nat
    BY FetchAssumption
  <2>2. spec_mode' \in BOOLEAN /\ settled' \in BOOLEAN
    BY DEF Recover
  <2>3. fifo' \in Seq(Nat)
    BY <1>1
  <2> QED BY <1>1, <2>1, <2>2, <2>3 DEF Recover, FetchTypeOK
<1>4. MacroInv'
  BY <1>1, <1>2 DEF MacroInv
<1>5. QueueInv'
  BY <1>1, <1>2, EmptyHolds DEF QueueInv
<1> QED BY <1>3, <1>4, <1>5 DEF FetchInv

\* Steps that leave the queue and the fused set alone.
LEMMA QuietFetch ==
  ASSUME FetchInv, FetchTypeOK', macro_fusion_order = 0,
         UNCHANGED <<fetch_data, fetch_head, fetch_tail, fetch_num, macroVars,
                     spec_mode, fifo, settled>>
  PROVE  FetchInv'
<1>1. MacroInv'
  BY DEF FetchInv, MacroInv, macroVars, FetchTypeOK
<1>2. QueueInv'
  BY DEF FetchInv, QueueInv, macroVars
<1> QED BY <1>1, <1>2 DEF FetchInv

\* Outside ruu_dispatch no set is in hand.
LEMMA AtRest ==
  ASSUME FetchInv, stage # "dispatch" \/ ~CanDispatch
  PROVE  /\ macro_fusion_order = 0 /\ remaining_macro_inst = 0
         /\ macro_total_count <= 1
BY DEF FetchInv, MacroInv, FetchTypeOK, CanDispatch

LEMMA NoRecoverFetch ==
  ASSUME FetchInv, NoRecover PROVE FetchInv'
<1>1. macro_fusion_order = 0
  BY AtRest DEF NoRecover
<1>2. FetchTypeOK'
  BY DEF FetchInv, NoRecover, FetchTypeOK, macroVars
<1> QED BY <1>1, <1>2, QuietFetch DEF NoRecover

LEMMA DispatchEndFetch ==
  ASSUME FetchInv, DispatchEnd PROVE FetchInv'
<1>1. macro_fusion_order = 0
  <2>1. macro_fusion_order > 0 => ~CanDispatch
    BY DEF DispatchEnd
  <2> QED BY <2>1 DEF FetchInv, MacroInv, FetchTypeOK
<1>2. FetchTypeOK'
  BY DEF FetchInv, DispatchEnd, FetchTypeOK, macroVars
<1> QED BY <1>1, <1>2, QuietFetch DEF DispatchEnd

LEMMA FetchEndFetch ==
  ASSUME FetchInv, FetchEnd PROVE FetchInv'
<1>1. macro_fusion_order = 0
  BY AtRest DEF FetchEnd
<1>2. FetchTypeOK'
  BY DEF FetchInv, FetchEnd, FetchTypeOK, macroVars
<1> QED BY <1>1, <1>2, QuietFetch DEF FetchEnd

LEMMA FetchMissFetch ==
  ASSUME FetchInv, NEW lat \in MissLat, FetchMiss(lat) PROVE FetchInv'
<1>1. macro_fusion_order = 0
  BY AtRest DEF FetchMiss, CanFetch
<1>2. FetchTypeOK'
  <2>1. lat \in Nat /\ lat > 1
    BY FetchAssumption
  <2> QED BY <2>1 DEF FetchInv, FetchMiss, FetchTypeOK, macroVars
<1> QED BY <1>1, <1>2, QuietFetch DEF FetchMiss

LEMMA FetchFetch ==
  ASSUME FetchInv, NEW taken \in BOOLEAN, Fetch(taken) PROVE FetchInv'
<1>1. /\ FetchTypeOK /\ MacroInv /\ QueueInv /\ fetch_num < ruu_ifq_size
      /\ macro_fusion_order = 0 /\ remaining_macro_inst = 0
  BY AtRest DEF FetchInv, Fetch, CanFetch
<1>2. /\ fetch_data' = [fetch_data EXCEPT ![fetch_tail] = fetched + 1]
      /\ fetch_tail' = Wrap(fetch_tail + 1) /\ fetch_num' = fetch_num + 1
      /\ fifo' = Append(fifo, fetched + 1) /\ fetch_head' = fetch_head
      /\ UNCHANGED <<macro_total_count, remaining_macro_inst, macro_fusion_order,
                     spec_mode, settled>>
  BY DEF Fetch, macroVars
<1>3. fetched + 1 \in Nat /\ fetch_tail \in 0 .. ruu_ifq_size - 1 /\ fifo \in Seq(Nat)
  BY <1>1 DEF FetchTypeOK
<1>4. FetchTypeOK'
  <2>1. fetch_tail' \in 0 .. ruu_ifq_size - 1
    BY <1>2, <1>3, PlaceShift
  <2>2. fetch_data' \in [0 .. ruu_ifq_size - 1 -> Nat] /\ fifo' \in Seq(Nat)
    BY <1>1, <1>2, <1>3 DEF FetchTypeOK
  <2>3. count' \in Nat /\ branch_cnt' \in Nat
    BY <1>1 DEF Fetch, FetchTypeOK
  <2> QED BY <1>1, <1>2, <2>1, <2>2, <2>3 DEF Fetch, FetchTypeOK
<1>5. MacroInv'
  BY <1>1, <1>2 DEF MacroInv
<1>6. QueueInv'
  <2> SUFFICES ASSUME settled
               PROVE  /\ fetch_num' = Len(fifo') + macro_fusion_order'
                      /\ Holds(fetch_data', fetch_head', fetch_tail', fifo')
    BY <1>1, <1>2 DEF QueueInv
  <2>1. fetch_num = Len(fifo) + 0 /\ Holds(fetch_data, fetch_head, fetch_tail, fifo)
    BY <1>1 DEF QueueInv
  <2>2. Len(fifo) \in Nat /\ Len(fifo') = Len(fifo) + 1
    BY <1>2, <1>3
  <2>3. Len(fifo) < ruu_ifq_size
    BY <1>1, <2>1, <2>2
  <2>4. Holds(fetch_data', fetch_head', fetch_tail', fifo')
    BY <1>1, <1>2, <1>3, <2>1, <2>3, PutHolds
  <2> QED BY <1>1, <1>2, <2>1, <2>2, <2>4
<1> QED BY <1>4, <1>5, <1>6 DEF FetchInv

\* The queue holds what dispatch takes.
LEMMA NotEmpty ==
  ASSUME FetchInv, CanDispatch, settled
  PROVE  fifo # <<>> /\ Len(fifo) \in Nat /\ Len(fifo) > 0
<1>1. /\ fifo \in Seq(Nat) /\ macro_fusion_order \in Nat /\ remaining_macro_inst \in Nat
      /\ fetch_num # 0 /\ fetch_num = Len(fifo) + macro_fusion_order
      /\ macro_fusion_order > 0 => remaining_macro_inst < Len(fifo)
  BY DEF FetchInv, FetchTypeOK, QueueInv, CanDispatch
<1>2. Len(fifo) \in Nat /\ (fifo = <<>> => Len(fifo) = 0)
  BY <1>1
<1> QED BY <1>1, <1>2

LEMMA DispatchInstFetch ==
  ASSUME FetchInv, NEW nop \in BOOLEAN, NEW mp \in BOOLEAN, DispatchInst(nop, mp)
  PROVE  FetchInv'
<1>1. /\ FetchTypeOK /\ MacroInv /\ QueueInv /\ CanDispatch /\ remaining_macro_inst = 0
      /\ fetch_head' = Wrap(fetch_head + 1) /\ fetch_num' = fetch_num - macro_total_count
      /\ macro_total_count' = 1 /\ macro_fusion_order' = 0 /\ fifo' = Pop(fifo)
      /\ UNCHANGED <<fetch_data, fetch_tail, remaining_macro_inst, settled>>
  BY DEF FetchInv, DispatchInst
<1>2. FetchTypeOK'
  <2>1. fetch_head' \in 0 .. ruu_ifq_size - 1
    BY <1>1, PlaceShift DEF FetchTypeOK
  <2>2. fifo' \in Seq(Nat)
    BY <1>1, PopType DEF FetchTypeOK
  <2>3. count' \in Nat /\ spec_mode' \in BOOLEAN
    BY <1>1 DEF DispatchInst, FetchTypeOK
  <2> QED BY <1>1, <2>1, <2>2, <2>3 DEF DispatchInst, FetchTypeOK
<1>3. MacroInv'
  BY <1>1 DEF MacroInv
<1>4. QueueInv'
  <2> SUFFICES ASSUME settled
               PROVE  /\ fetch_num' = Len(fifo') + macro_fusion_order'
                      /\ Holds(fetch_data', fetch_head', fetch_tail', fifo')
    BY <1>1 DEF QueueInv
  <2>1. /\ fetch_num = Len(fifo) + macro_fusion_order
        /\ Holds(fetch_data, fetch_head, fetch_tail, fifo)
        /\ macro_total_count = macro_fusion_order + 1 /\ macro_fusion_order \in Nat
    BY <1>1 DEF QueueInv, MacroInv, FetchTypeOK
  <2>2. fifo # <<>> /\ Len(fifo) \in Nat
    BY <1>1, NotEmpty
  <2>3. /\ fifo' = Tail(fifo) /\ Len(fifo') = Len(fifo) - 1
        /\ Holds(fetch_data', fetch_head', fetch_tail', fifo')
    BY <1>1, <2>1, <2>2, PopHolds
  <2> QED BY <1>1, <2>1, <2>2, <2>3
<1> QED BY <1>2, <1>3, <1>4 DEF FetchInv

LEMMA DispatchRedirectFetch ==
  ASSUME FetchInv, DispatchRedirect
  PROVE  FetchInv'
<1>1. /\ FetchTypeOK /\ remaining_macro_inst = 0
      /\ fetch_head' = Wrap(ruu_ifq_size - 1 + 1) /\ fetch_num' = 1 - macro_total_count
      /\ fetch_tail' = 0 /\ macro_total_count' = 1 /\ macro_fusion_order' = 0
      /\ fifo' = <<>> /\ settled' = (macro_total_count = 1)
      /\ UNCHANGED <<fetch_data, remaining_macro_inst>>
  BY DEF FetchInv, DispatchRedirect
<1>2. fetch_head' = 0 /\ 0 \in 0 .. ruu_ifq_size - 1
  <2>1. /\ ruu_ifq_size - 1 \in 0 .. ruu_ifq_size - 1 /\ 1 \in 0 .. ruu_ifq_size
        /\ 0 \in 0 .. ruu_ifq_size - 1
    BY FetchAssumption
  <2>2. Wrap(ruu_ifq_size - 1 + 1) = Place(ruu_ifq_size - 1, 1)
    BY <2>1, WrapPlace
  <2>3. Place(ruu_ifq_size - 1, 1) = 0
    BY FetchAssumption DEF Place
  <2> QED BY <1>1, <2>1, <2>2, <2>3
<1>3. FetchTypeOK'
  <2>1. fifo' \in Seq(Nat) /\ settled' \in BOOLEAN /\ fetch_redirected' \in BOOLEAN
    BY <1>1 DEF DispatchRedirect
  <2>2. ruu_fetch_issue_delay' \in Nat /\ count' \in Nat /\ fetch_num' \in Int
    BY <1>1, FetchAssumption DEF DispatchRedirect, FetchTypeOK
  <2> QED BY <1>1, <1>2, <2>1, <2>2 DEF DispatchRedirect, FetchTypeOK
<1>4. MacroInv'
  BY <1>1 DEF MacroInv
<1>5. QueueInv'
  <2>1. settled' => macro_total_count = 1
    BY <1>1
  <2>2. /\ macro_total_count = 1 => fetch_num' = 0
        /\ Len(fifo') = 0 /\ fifo' = <<>>
    BY <1>1
  <2>3. Holds(fetch_data', fetch_head', fetch_tail', fifo')
    BY <1>1, <1>2, <2>2, EmptyHolds
  <2> QED BY <1>1, <2>1, <2>2, <2>3 DEF QueueInv
<1> QED BY <1>3, <1>4, <1>5 DEF FetchInv

LEMMA FuseFirstFetch ==
  ASSUME FetchInv, NEW more \in FuseMore, FuseFirst(more)
  PROVE  FetchInv'
<1>1. /\ FetchTypeOK /\ MacroInv /\ QueueInv /\ CanDispatch /\ remaining_macro_inst = 0
      /\ macro_total_count + more <= 3
      /\ macro_total_count' = macro_total_count + more
      /\ remaining_macro_inst' = more - 1
      /\ macro_fusion_order' = macro_fusion_order + 1
      /\ fetch_head' = Wrap(fetch_head + 1) /\ fifo' = Pop(fifo)
      /\ settled' = (settled /\ more < Len(fifo))
      /\ UNCHANGED <<fetch_data, fetch_tail, fetch_num, count, stage, spec_mode>>
  BY DEF FetchInv, FuseFirst
<1>2. more \in {1, 2}
  BY FetchAssumption
<1>3. /\ macro_total_count \in 0 .. 3 /\ macro_fusion_order \in 0 .. 3
      /\ fetch_num \in Int
  BY <1>1 DEF FetchTypeOK
<1>4. FetchTypeOK'
  <2>1. fetch_head' \in 0 .. ruu_ifq_size - 1
    BY <1>1, PlaceShift DEF FetchTypeOK
  <2>2. fifo' \in Seq(Nat) /\ settled' \in BOOLEAN
    BY <1>1, PopType DEF FetchTypeOK
  <2>3. /\ macro_total_count' \in 0 .. 3 /\ remaining_macro_inst' \in 0 .. 1
        /\ macro_fusion_order' \in 0 .. 3
    BY <1>1, <1>2, <1>3 DEF MacroInv
  <2> QED BY <1>1, <2>1, <2>2, <2>3 DEF FuseFirst, FetchTypeOK
<1>5. MacroInv'
  <2>1. CanDispatch'
    BY <1>1 DEF CanDispatch
  <2>2. settled' => settled
    BY <1>1
  <2> QED BY <1>1, <1>2, <1>3, <2>1, <2>2 DEF MacroInv
<1>6. QueueInv'
  <2> SUFFICES ASSUME settled, more < Len(fifo)
               PROVE  /\ fetch_num' = Len(fifo') + macro_fusion_order'
                      /\ Holds(fetch_data', fetch_head', fetch_tail', fifo')
                      /\ remaining_macro_inst' < Len(fifo')
    BY <1>1 DEF QueueInv
  <2>1. /\ fetch_num = Len(fifo) + macro_fusion_order
        /\ Holds(fetch_data, fetch_head, fetch_tail, fifo)
    BY <1>1 DEF QueueInv
  <2>2. fifo # <<>> /\ Len(fifo) \in Nat
    BY <1>1, NotEmpty
  <2>3. /\ Len(fifo') = Len(fifo) - 1
        /\ Holds(fetch_data', fetch_head', fetch_tail', fifo')
    BY <1>1, <2>1, <2>2, PopHolds
  <2> QED BY <1>1, <1>2, <1>3, <2>1, <2>2, <2>3
<1> QED BY <1>4, <1>5, <1>6 DEF FetchInv

LEMMA FuseNextFetch ==
  ASSUME FetchInv, FuseNext
  PROVE  FetchInv'
<1>1. /\ FetchTypeOK /\ MacroInv /\ QueueInv /\ CanDispatch /\ remaining_macro_inst > 0
      /\ remaining_macro_inst' = remaining_macro_inst - 1
      /\ macro_fusion_order' = macro_fusion_order + 1
      /\ fetch_head' = Wrap(fetch_head + 1) /\ fifo' = Pop(fifo)
      /\ UNCHANGED <<fetch_data, fetch_tail, fetch_num, count, stage, spec_mode,
                     macro_total_count, settled>>
  BY DEF FetchInv, FuseNext
<1>2. /\ macro_total_count \in 0 .. 3 /\ macro_fusion_order \in 0 .. 3
      /\ remaining_macro_inst \in 0 .. 1 /\ fetch_num \in Int
  BY <1>1 DEF FetchTypeOK
<1>3. FetchTypeOK'
  <2>1. fetch_head' \in 0 .. ruu_ifq_size - 1
    BY <1>1, PlaceShift DEF FetchTypeOK
  <2>2. fifo' \in Seq(Nat)
    BY <1>1, PopType DEF FetchTypeOK
  <2>3. remaining_macro_inst' \in 0 .. 1 /\ macro_fusion_order' \in 0 .. 3
    BY <1>1, <1>2 DEF MacroInv
  <2> QED BY <1>1, <2>1, <2>2, <2>3 DEF FuseNext, FetchTypeOK
<1>4. MacroInv'
  <2>1. CanDispatch'
    BY <1>1 DEF CanDispatch
  <2> QED BY <1>1, <1>2, <2>1 DEF MacroInv
<1>5. QueueInv'
  <2> SUFFICES ASSUME settled
               PROVE  /\ fetch_num' = Len(fifo') + macro_fusion_order'
                      /\ Holds(fetch_data', fetch_head', fetch_tail', fifo')
                      /\ remaining_macro_inst' < Len(fifo')
    BY <1>1 DEF QueueInv
  <2>1. /\ fetch_num = Len(fifo) + macro_fusion_order
        /\ Holds(fetch_data, fetch_head, fetch_tail, fifo)
        /\ remaining_macro_inst < Len(fifo)
    BY <1>1, <1>2 DEF QueueInv, MacroInv
  <2>2. fifo # <<>> /\ Len(fifo) \in Nat
    BY <1>1, NotEmpty
  <2>3. /\ Len(fifo') = Len(fifo) - 1
        /\ Holds(fetch_data', fetch_head', fetch_tail', fifo')
    BY <1>1, <2>1, <2>2, PopHolds
  <2> QED BY <1>1, <1>2, <2>1, <2>2, <2>3
<1> QED BY <1>3, <1>4, <1>5 DEF FetchInv

LEMMA StutterFetch ==
  ASSUME FetchInv, UNCHANGED vars PROVE FetchInv'
<1>1. FetchTypeOK'
  BY DEF FetchInv, FetchTypeOK, vars, macroVars
<1>2. MacroInv'
  BY DEF FetchInv, MacroInv, CanDispatch, vars, macroVars
<1>3. QueueInv'
  BY DEF FetchInv, QueueInv, vars, macroVars
<1> QED BY <1>1, <1>2, <1>3 DEF FetchInv

-----------------------------------------------------------------------------
(* Every step.                                                             *)

LEMMA NextFetch == FetchInv /\ [Next]_vars => FetchInv'
<1> SUFFICES ASSUME FetchInv, [Next]_vars PROVE FetchInv'
  OBVIOUS
<1>1. CASE Recover
  BY <1>1, RecoverFetch
<1>2. CASE NoRecover
  BY <1>2, NoRecoverFetch
<1>3. CASE \E nop, mispredicted \in BOOLEAN : DispatchInst(nop, mispredicted)
  BY <1>3, DispatchInstFetch
<1>4. CASE DispatchRedirect
  BY <1>4, DispatchRedirectFetch
<1>5. CASE \E more \in FuseMore : FuseFirst(more)
  BY <1>5, FuseFirstFetch
<1>6. CASE FuseNext
  BY <1>6, FuseNextFetch
<1>7. CASE DispatchEnd
  BY <1>7, DispatchEndFetch
<1>8. CASE \E predicted_taken \in BOOLEAN : Fetch(predicted_taken)
  BY <1>8, FetchFetch
<1>9. CASE \E lat \in MissLat : FetchMiss(lat)
  BY <1>9, FetchMissFetch
<1>10. CASE FetchEnd
  BY <1>10, FetchEndFetch
<1>11. CASE UNCHANGED vars
  BY <1>11, StutterFetch
<1> QED BY <1>1, <1>2, <1>3, <1>4, <1>5, <1>6, <1>7, <1>8, <1>9, <1>10, <1>11
        DEF Next

\* In every state of the front end the count of a fused set is right, and after
\* a flush (tracer_recover, a redirect in ruu_dispatch) the slots from
\* fetch_head to fetch_tail hold what was fetched and not yet dispatched.
THEOREM FetchInvariant == Spec => []FetchInv
<1>1. Init => FetchInv
  BY InitFetch
<1>2. FetchInv /\ [Next]_vars => FetchInv'
  BY NextFetch
<1> QED BY <1>1, <1>2, PTL DEF Spec

\* After a flush fetch_num counts the entries of the queue and ruu_dispatch
\* reads them in the order ruu_fetch wrote them, for every queue size, decode
\* width, fetch speed and pattern of fusion.
THEOREM FetchSettles == Spec => []FetchIsSettled
<1>1. FetchInv => FetchIsSettled
  <2> SUFFICES ASSUME FetchInv PROVE FetchIsSettled
    OBVIOUS
  <2>1. FetchTypeOK /\ SettledFetchNum
    BY DEF FetchInv, QueueInv, SettledFetchNum, FetchNumCountsEntries
  <2>2. ASSUME settled, NEW k \in 1 .. Len(fifo)
        PROVE  fetch_data[Wrap(fetch_head + k - 1)] = fifo[k]
    <3> DEFINE n == Len(fifo)
    <3> Holds(fetch_data, fetch_head, fetch_tail, fifo)
      BY <2>2 DEF FetchInv, QueueInv
    <3>1. /\ n \in Nat /\ n <= ruu_ifq_size /\ ruu_ifq_size \in Nat
          /\ fetch_head \in 0 .. ruu_ifq_size - 1
      BY FetchAssumption DEF FetchInv, Holds, FetchTypeOK
    <3> HIDE DEF n
    <3>2. k \in 1 .. n /\ k - 1 \in 0 .. ruu_ifq_size
          /\ fetch_head + k - 1 = fetch_head + (k - 1)
      BY <3>1, <2>2 DEF n
    <3>3. Wrap(fetch_head + (k - 1)) = Place(fetch_head, k - 1)
      BY <3>1, <3>2, WrapPlace
    <3>4. fetch_data[Place(fetch_head, k - 1)] = fifo[k]
      BY <3>2 DEF Holds, n
    <3> QED BY <3>2, <3>3, <3>4
  <2> QED BY <2>1, <2>2 DEF FetchIsSettled, SettledFifo
<1> QED BY <1>1, FetchInvariant, PTL

\* A fused set is never split over two calls of ruu_dispatch: its static
\* counters are at rest whenever tracer_recover flushes the queue.
THEOREM FusedSetsStayWhole == Spec => []FusedSetsAreWhole
<1>1. FetchInv => FusedSetsAreWhole
  BY AtRest DEF FusedSetsAreWhole
<1> QED BY <1>1, FetchInvariant, PTL
=============================================================================
