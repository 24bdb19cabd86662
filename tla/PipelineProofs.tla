--------------------------- MODULE PipelineProofs ---------------------------
(***************************************************************************)
(* For machines of every size and every program: the variables of the core *)
(* keep their types, the RUU and the LSQ stay in sync, and a link that      *)
(* passes the instance-tag check is never stale.                            *)
(***************************************************************************)
EXTENDS PipelineProps, SequenceTheorems, FiniteSetTheorems,
        WellFoundedInduction, TLAPS

-----------------------------------------------------------------------------
(* Circular queues.                                                        *)

\* An index below twice the size wraps once.
LEMMA WrapOnce ==
  \A N, x \in Int : N > 0 /\ 0 <= x /\ x < N + N =>
                      x % N = IF x < N THEN x ELSE x - N
OBVIOUS

\* The slot k places after head h in a queue of N slots.
At(h, k, N) == IF h + k < N THEN h + k ELSE h + k - N

LEMMA AtMod ==
  ASSUME NEW N \in Int, N > 0, NEW h \in 0 .. N - 1, NEW k \in 0 .. N
  PROVE  (h + k) % N = At(h, k, N) /\ At(h, k, N) \in 0 .. N - 1
<1>1. (h + k) % N = IF h + k < N THEN h + k ELSE h + k - N
  BY WrapOnce
<1> QED BY <1>1 DEF At

\* Advancing the head: the slots keep their order.
LEMMA AtInc ==
  ASSUME NEW N \in Int, N > 0, NEW h \in 0 .. N - 1
  PROVE  /\ Inc(h, N) \in 0 .. N - 1
         /\ \A k \in 0 .. N - 1 : At(Inc(h, N), k, N) = At(h, k + 1, N)
<1>1. Inc(h, N) = IF h + 1 < N THEN h + 1 ELSE h + 1 - N
  BY WrapOnce DEF Inc
<1> QED BY <1>1 DEF At

\* Stepping the tail back: it reaches the last slot in use.
LEMMA AtDec ==
  ASSUME NEW N \in Int, N > 0, NEW h \in 0 .. N - 1, NEW n \in 1 .. N
  PROVE  Dec(At(h, n, N), N) = At(h, n - 1, N)
<1>1. At(h, n, N) \in 0 .. N - 1
  BY DEF At
<1> DEFINE x == At(h, n, N) + (N - 1)
<1>2. x \in Int /\ 0 <= x /\ x < N + N
  BY <1>1
<1>3. x % N = IF x < N THEN x ELSE x - N
  <2> HIDE DEF x
  <2> QED BY <1>2, WrapOnce
<1>4. Dec(At(h, n, N), N) = IF x < N THEN x ELSE x - N
  BY <1>3 DEF Dec
<1> QED BY <1>4 DEF At

\* Different places are different slots.
LEMMA AtInj ==
  ASSUME NEW N \in Int, N > 0, NEW h \in 0 .. N - 1,
         NEW j \in 0 .. N - 1, NEW k \in 0 .. N - 1,
         At(h, j, N) = At(h, k, N)
  PROVE  j = k
BY DEF At
-----------------------------------------------------------------------------
(* Lists.                                                                  *)

\* The least element that InsertBefore and res_get choose exists.
LEMMA LeastExists ==
  ASSUME NEW T \in SUBSET Nat, T # {}
  PROVE  \E x \in T : \A y \in T : x <= y
<1> DEFINE less == OpToRel(<, Nat)
<1>1. less = {ss \in Nat \X Nat : ss[1] < ss[2]}
  BY DEF OpToRel
<1>2. IsWellFoundedOn(less, Nat)
  BY NatLessThanWellFounded
<1> HIDE DEF less
<1>3. PICK x \in T : \A y \in T : ~(<<y, x>> \in less)
  BY <1>2, WFMin
<1>4. \A y \in T : ~(y < x)
  BY <1>1, <1>3
<1> QED BY <1>4

\* Both sorted insertions keep the elements in the set they come from.
LEMMA InsertSeq ==
  ASSUME NEW S, NEW q \in Seq(S), NEW e \in S,
         NEW hits \in SUBSET (1 .. Len(q))
  PROVE  InsertBefore(q, e, hits) \in Seq(S)
<1> DEFINE p == IF hits = {} THEN Len(q) + 1
                ELSE CHOOSE i \in hits : \A j \in hits : i <= j
<1>1. Len(q) \in Nat
  OBVIOUS
<1>2. p \in 1 .. Len(q) + 1
  <2>1. CASE hits = {}
    BY <1>1, <2>1
  <2>2. CASE hits # {}
    <3>1. hits \in SUBSET Nat
      BY <1>1
    <3>2. \E i \in hits : \A j \in hits : i <= j
      BY <2>2, <3>1, LeastExists
    <3>3. p \in hits
      BY <2>2, <3>2
    <3> HIDE DEF p
    <3> QED BY <1>1, <3>3
  <2> QED BY <2>1, <2>2
<1>3. InsertBefore(q, e, hits) = SubSeq(q, 1, p - 1) \o <<e>> \o SubSeq(q, p, Len(q))
  BY DEF InsertBefore
<1> HIDE DEF p
<1>4. \A i \in 1 .. Len(q) : q[i] \in S
  BY ElementOfSeq
<1>5. SubSeq(q, 1, p - 1) \in Seq(S) /\ SubSeq(q, p, Len(q)) \in Seq(S)
  <2>1. \A i \in 1 .. p - 1 : q[i] \in S
    BY <1>1, <1>2, <1>4
  <2>2. \A i \in p .. Len(q) : q[i] \in S
    BY <1>1, <1>2, <1>4
  <2>3. p - 1 \in Int /\ p \in Int /\ 1 \in Int /\ Len(q) \in Int
    BY <1>1, <1>2
  <2> QED BY <2>1, <2>2, <2>3, SubSeqProperties
<1>6. <<e>> \in Seq(S)
  OBVIOUS
<1>7. SubSeq(q, 1, p - 1) \o <<e>> \in Seq(S)
  BY <1>5, <1>6, ConcatProperties
<1> QED BY <1>3, <1>5, <1>7, ConcatProperties
-----------------------------------------------------------------------------
(* The inductive invariant.                                                *)

CtlType == /\ stage \in Stage /\ count \in Nat
           /\ wb \in Station \cup {None} /\ std_unknowns \subseteq Addr

WinType == /\ RUU_head \in 0 .. RUU_size - 1 /\ RUU_tail \in 0 .. RUU_size - 1
           /\ LSQ_head \in 0 .. LSQ_size - 1 /\ LSQ_tail \in 0 .. LSQ_size - 1
           /\ RUU_num \in Int /\ LSQ_num \in Int

EntType == /\ ent \in [Station -> Entry] /\ tag \in [Station -> Nat]
           /\ inst_seq \in Nat

StatType == /\ queued \subseteq Station /\ issued \subseteq Station
            /\ completed \subseteq Station
            /\ idep_ready \in [Station -> SUBSET Operand]

CvType == /\ create_vector \in [Reg -> Station \cup {None}]
          /\ spec_create_vector \in [Reg -> Station \cup {None}]
          /\ use_spec_cv \subseteq Reg

CntType == /\ busy \in [Unit -> Nat] /\ nfree \in Int
           /\ last_op \in [rs : Station, tag : Nat] \cup {None}
           /\ spec_mode \in BOOLEAN
           /\ sim_total_insn \in Nat /\ sim_num_insn \in Nat
           /\ sim_ret_insn \in Nat

\* A link is good if its tag is not from the future and, as long as it is
\* valid, its station is in the window.
GoodLink(l) == /\ l.tag <= tag[l.rs]
               /\ l.tag = tag[l.rs] => l.rs \in Live
Good(T) == {l \in T : GoodLink(l)}

LinksInv == /\ event_queue \in Seq(Good(Event))
            /\ ready_queue \in Seq(Good(ReadyNode))
            /\ node \in Seq(Good(ReadyNode))
            /\ odep_list \in [Station -> Seq(Good(OdepLink))]

\* The window and what dispatch wrote into it.
SeqBound == \A s \in Live : ent[s].seq <= inst_seq
BranchesInRUU ==
  \A s \in Station : ent[s].recover_inst =>
                       s \in {RUU(i) : i \in 0 .. RUU_size - 1}
FixInv == WinType /\ EntType /\ WindowInSync /\ SeqBound /\ BranchesInRUU

\* The station that is written back; during a recovery it is in the RUU.
WbInv == /\ stage \in {"recover", "broadcast"} => wb \in Station
         /\ stage = "recover" => wb \in LiveRUU

CoreInv == /\ CtlType /\ StatType /\ CvType /\ CntType
           /\ FixInv /\ LinksInv /\ WbInv

-----------------------------------------------------------------------------
(* Stations and slots.                                                     *)

LEMMA Sizes == /\ RUU_size \in Int /\ RUU_size > 0
               /\ LSQ_size \in Int /\ LSQ_size > 0
BY SizeAssumption

LEMMA Stations ==
  /\ \A i \in 0 .. RUU_size - 1 : RUU(i) \in Station
  /\ \A i \in 0 .. LSQ_size - 1 : LSQ(i) \in Station
  /\ \A i, j : RUU(i) # LSQ(j)
  /\ \A i, j : RUU(i) = RUU(j) => i = j
  /\ \A i, j : LSQ(i) = LSQ(j) => i = j
BY DEF Station, RUU, LSQ

LEMMA Slots ==
  ASSUME WinType
  PROVE  /\ \A k \in 0 .. RUU_size :
              /\ RUU_slot(k) = RUU(At(RUU_head, k, RUU_size))
              /\ RUU_slot(k) \in Station
         /\ \A k \in 0 .. LSQ_size :
              /\ LSQ_slot(k) = LSQ(At(LSQ_head, k, LSQ_size))
              /\ LSQ_slot(k) \in Station
<1>1. ASSUME NEW k \in 0 .. RUU_size
      PROVE  RUU_slot(k) = RUU(At(RUU_head, k, RUU_size)) /\ RUU_slot(k) \in Station
  <2>1. (RUU_head + k) % RUU_size = At(RUU_head, k, RUU_size)
        /\ At(RUU_head, k, RUU_size) \in 0 .. RUU_size - 1
    BY Sizes, AtMod DEF WinType
  <2> QED BY <2>1, Stations DEF RUU_slot
<1>2. ASSUME NEW k \in 0 .. LSQ_size
      PROVE  LSQ_slot(k) = LSQ(At(LSQ_head, k, LSQ_size)) /\ LSQ_slot(k) \in Station
  <2>1. (LSQ_head + k) % LSQ_size = At(LSQ_head, k, LSQ_size)
        /\ At(LSQ_head, k, LSQ_size) \in 0 .. LSQ_size - 1
    BY Sizes, AtMod DEF WinType
  <2> QED BY <2>1, Stations DEF LSQ_slot
<1> QED BY <1>1, <1>2

\* What is in the window is a station.
LEMMA LiveStations ==
  ASSUME FixInv
  PROVE  Live \subseteq Station /\ LiveRUU \subseteq Station
<1>1. RUU_num - 1 <= RUU_size /\ LSQ_num - 1 <= LSQ_size
      /\ RUU_num \in Int /\ LSQ_num \in Int
  BY Sizes DEF FixInv, WindowInSync, RUUQueue, LSQQueue
<1>2. \A k \in 0 .. RUU_num - 1 : RUU_slot(k) \in Station
  BY <1>1, Sizes, Slots DEF FixInv
<1>3. \A k \in 0 .. LSQ_num - 1 : LSQ_slot(k) \in Station
  BY <1>1, Sizes, Slots DEF FixInv
<1> QED BY <1>2, <1>3 DEF Live, LiveRUU, LiveLSQ

\* Every slot holds a well-formed entry.
LEMMA EntryFields ==
  ASSUME EntType, NEW s \in Station
  PROVE  /\ ent[s].seq \in Nat /\ ent[s].out \in Reg \cup {NA}
         /\ ent[s].op \in Op /\ ent[s].addr \in Addr
         /\ ent[s].ins \in [Operand -> Reg \cup {NA}]
         /\ tag[s] \in Nat
BY DEF EntType, Entry
-----------------------------------------------------------------------------
(* The initial state.                                                      *)

LEMMA InitCore == Init => CoreInv
<1> SUFFICES ASSUME Init PROVE CoreInv
  OBVIOUS
<1> USE DEF Init
<1>1. CtlType
  BY DEF CtlType, Stage
<1>2. StatType
  BY DEF StatType
<1>3. CvType
  BY DEF CvType
<1>4. CntType
  <2>1. spec_mode \in BOOLEAN
    BY Zenon
  <2>2. busy \in [Unit -> Nat]
    OBVIOUS
  <2>3. nfree \in Int
    BY SizeAssumption
  <2>4. last_op \in [rs : Station, tag : Nat] \cup {None}
    OBVIOUS
  <2>5. sim_total_insn \in Nat /\ sim_num_insn \in Nat /\ sim_ret_insn \in Nat
    OBVIOUS
  <2> QED BY <2>1, <2>2, <2>3, <2>4, <2>5 DEF CntType
<1>5. WinType
  BY SizeAssumption DEF WinType
<1>6. EntType
  <2>1. (CHOOSE x \in Addr : TRUE) \in Addr
    BY InstAssumption
  <2>2. Idle \in Entry
    BY <2>1 DEF Idle, Entry, Op, Kind
  <2> QED BY <2>2 DEF EntType
<1>7. Live = {}
  BY DEF Live, LiveRUU, LiveLSQ
<1>8. WindowInSync
  <2>1. RUUQueue
    BY SizeAssumption, Sizes, WrapOnce DEF RUUQueue
  <2>2. LSQQueue
    BY SizeAssumption, Sizes, WrapOnce DEF LSQQueue
  <2>3. Paired
    BY DEF Paired
  <2> QED BY <2>1, <2>2, <2>3 DEF WindowInSync
<1>9. SeqBound /\ BranchesInRUU
  BY <1>7 DEF SeqBound, BranchesInRUU, Idle
<1>10. LinksInv
  BY DEF LinksInv
<1>11. WbInv
  BY DEF WbInv
<1> QED BY <1>1, <1>2, <1>3, <1>4, <1>5, <1>6, <1>8, <1>9, <1>10, <1>11
        DEF CoreInv, FixInv

-----------------------------------------------------------------------------
(* Steps that leave the window alone.                                      *)

Still == UNCHANGED <<windowVars, ent, tag, inst_seq>>

LEMMA StillWindow ==
  ASSUME FixInv, Still
  PROVE  /\ FixInv' /\ Live' = Live /\ LiveRUU' = LiveRUU
         /\ Good(Event)' = Good(Event)
         /\ Good(ReadyNode)' = Good(ReadyNode)
         /\ Good(OdepLink)' = Good(OdepLink)
<1> USE DEF Still, windowVars
<1>1. Live' = Live /\ LiveRUU' = LiveRUU
  BY DEF Live, LiveRUU, LiveLSQ, RUU_slot, LSQ_slot
<1>2. \A l : GoodLink(l)' <=> GoodLink(l)
  BY <1>1 DEF GoodLink
<1>3. /\ Good(Event)' = Good(Event)
      /\ Good(ReadyNode)' = Good(ReadyNode)
      /\ Good(OdepLink)' = Good(OdepLink)
  BY <1>2 DEF Good
<1>4. WinType' /\ EntType'
  BY DEF FixInv, WinType, EntType
<1>5. WindowInSync'
  BY DEF FixInv, WindowInSync, RUUQueue, LSQQueue, Paired, RUU_slot, LSQ_slot
<1>6. SeqBound' /\ BranchesInRUU'
  BY <1>1 DEF FixInv, SeqBound, BranchesInRUU
<1> QED BY <1>1, <1>3, <1>4, <1>5, <1>6 DEF FixInv

\* What is left to show of such a step.
LEMMA StillCore ==
  ASSUME CoreInv, Still, CtlType', StatType', CvType', CntType',
         stage' \in {"recover", "broadcast"} => wb' \in Station,
         stage' = "recover" => wb' \in LiveRUU,
         event_queue' \in Seq(Good(Event)),
         ready_queue' \in Seq(Good(ReadyNode)),
         node' \in Seq(Good(ReadyNode)),
         odep_list' \in [Station -> Seq(Good(OdepLink))]
  PROVE  CoreInv'
<1>1. FixInv
  BY DEF CoreInv
<1>2. /\ FixInv' /\ LiveRUU' = LiveRUU
      /\ Good(Event)' = Good(Event)
      /\ Good(ReadyNode)' = Good(ReadyNode)
      /\ Good(OdepLink)' = Good(OdepLink)
  BY <1>1, StillWindow
<1>3. LinksInv'
  BY <1>2 DEF LinksInv
<1>4. WbInv'
  BY <1>2 DEF WbInv
<1> QED BY <1>2, <1>3, <1>4 DEF CoreInv

-----------------------------------------------------------------------------
(* Links and queues.                                                       *)

LEMMA HeadTailSeq ==
  ASSUME NEW S, NEW q \in Seq(S), q # <<>>
  PROVE  Head(q) \in S /\ Tail(q) \in Seq(S)
BY HeadTailProperties

\* RSLINK_VALID on a good link finds an entry of the window.
LEMMA ValidIsLive ==
  ASSUME NEW T, NEW l \in Good(T), Valid(l)
  PROVE  l.rs \in Live
BY DEF Good, GoodLink, Valid

LEMMA NewReady ==
  ASSUME FixInv, NEW s \in Live, NEW seq \in Nat
  PROVE  [rs |-> s, tag |-> tag[s], seq |-> seq] \in Good(ReadyNode)
<1>1. s \in Station /\ tag[s] \in Nat
  BY LiveStations, EntryFields DEF FixInv
<1> QED BY <1>1 DEF Good, GoodLink, ReadyNode

LEMMA EnqueueSeq ==
  ASSUME NEW S, NEW q \in Seq(S), NEW s, NEW op, NEW seq,
         [rs |-> s, tag |-> tag[s], seq |-> seq] \in S
  PROVE  readyq_enqueue(q, s, op, seq) \in Seq(S)
<1> DEFINE e == [rs |-> s, tag |-> tag[s], seq |-> seq]
           hits == {i \in 1 .. Len(q) : ~(q[i].seq < seq)}
<1>1. e \in S
  OBVIOUS
<1>2. hits \in SUBSET (1 .. Len(q))
  OBVIOUS
<1>3. readyq_enqueue(q, s, op, seq) \in {<<e>> \o q, InsertBefore(q, e, hits)}
  BY DEF readyq_enqueue
<1> HIDE DEF e, hits
<1>4. InsertBefore(q, e, hits) \in Seq(S)
  BY <1>1, <1>2, InsertSeq
<1>5. <<e>> \o q \in Seq(S)
  <2>1. <<e>> \in Seq(S)
    BY <1>1
  <2> QED BY <2>1, ConcatProperties
<1> QED BY <1>3, <1>4, <1>5

LEMMA EnqueueReady ==
  ASSUME FixInv, NEW q \in Seq(Good(ReadyNode)), NEW s \in Live, NEW op,
         NEW seq \in Nat
  PROVE  readyq_enqueue(q, s, op, seq) \in Seq(Good(ReadyNode))
BY NewReady, EnqueueSeq

LEMMA EnqueueEvent ==
  ASSUME FixInv, NEW q \in Seq(Good(Event)), NEW s \in Live, NEW lat \in Int
  PROVE  eventq_queue_event(q, s, lat) \in Seq(Good(Event))
<1> DEFINE e == [rs |-> s, tag |-> tag[s], when |-> lat]
           hits == {i \in 1 .. Len(q) : ~(q[i].when < lat)}
<1>1. e \in Good(Event)
  <2>1. s \in Station /\ tag[s] \in Nat
    BY LiveStations, EntryFields DEF FixInv
  <2> QED BY <2>1 DEF Good, GoodLink, Event
<1>2. hits \in SUBSET (1 .. Len(q))
  OBVIOUS
<1>3. eventq_queue_event(q, s, lat) = InsertBefore(q, e, hits)
  BY DEF eventq_queue_event
<1> HIDE DEF e, hits
<1> QED BY <1>1, <1>2, <1>3, InsertSeq

\* Counting a cycle off the events keeps their links.
LEMMA TickEvents ==
  ASSUME NEW q \in Seq(Good(Event))
  PROVE  Tick(q) \in Seq(Good(Event))
<1>1. ASSUME NEW i \in 1 .. Len(q)
      PROVE  [q[i] EXCEPT !.when = @ - 1] \in Good(Event)
  <2> DEFINE e == q[i]
  <2>1. e \in Good(Event)
    BY ElementOfSeq
  <2> HIDE DEF e
  <2>2. e \in Event /\ GoodLink(e)
    BY <2>1 DEF Good
  <2>3. /\ [e EXCEPT !.when = @ - 1] \in Event
        /\ [e EXCEPT !.when = @ - 1].rs = e.rs
        /\ [e EXCEPT !.when = @ - 1].tag = e.tag
    BY <2>2 DEF Event
  <2>4. [e EXCEPT !.when = @ - 1] \in Good(Event)
    BY <2>2, <2>3 DEF Good, GoodLink
  <2> QED BY <2>4 DEF e
<1>2. Len(q) \in Nat
  OBVIOUS
<1>3. [i \in 1 .. Len(q) |-> [q[i] EXCEPT !.when = @ - 1]]
        \in [1 .. Len(q) -> Good(Event)]
  BY <1>1
<1> QED BY <1>2, <1>3, SeqDef DEF Tick

-----------------------------------------------------------------------------
(* Functional units.                                                       *)

LEMMA ClassOf ==
  /\ \A op \in Op : FuClassOf(op) # NA => FuClassOf(op) \in FuClass
  /\ \A op \in Op : IsStore(op) => FuClassOf(op) \in FuClass
BY DEF Op, Kind, FuClassOf, FuClass, IsStore

\* res_get returns a template of the table.
LEMMA GetUnit ==
  ASSUME NEW c \in FuClass, FreeTemplates(c) # {}
  PROVE  /\ res_get(c).unit \in Unit
         /\ res_get(c).oplat \in Nat \ {0} /\ res_get(c).issuelat \in Nat
<1>1. FuTable[c] \in Seq(FuTemplate)
  BY InstAssumption
<1>2. FreeTemplates(c) \subseteq 1 .. Len(FuTable[c]) /\ Len(FuTable[c]) \in Nat
  BY <1>1 DEF FreeTemplates
<1>3. \E i \in FreeTemplates(c) : \A j \in FreeTemplates(c) : i <= j
  <2>1. FreeTemplates(c) \in SUBSET Nat
    BY <1>2
  <2> QED BY <2>1, LeastExists
<1>4. PICK n \in 1 .. Len(FuTable[c]) : res_get(c) = FuTable[c][n]
  BY <1>2, <1>3 DEF res_get
<1>5. res_get(c) \in FuTemplate
  BY <1>1, <1>4, ElementOfSeq
<1> QED BY <1>5 DEF FuTemplate
-----------------------------------------------------------------------------
(* The steps of the stage functions that leave the window alone.           *)

LEMMA CommitEndCore ==
  ASSUME CoreInv, CommitEnd
  PROVE  CoreInv'
<1>1. Still
  BY DEF CommitEnd, Still, countVars
<1>2. CtlType'
  BY DEF CommitEnd, CoreInv, CtlType, Stage
<1>3. StatType'
  BY DEF CommitEnd, CoreInv, StatType, statusVars
<1>4. CvType'
  BY DEF CommitEnd, CoreInv, CvType, cvVars
<1>5. CntType'
  BY DEF CommitEnd, CoreInv, CntType, countVars
<1>6. /\ stage' \in {"recover", "broadcast"} => wb' \in Station
      /\ stage' = "recover" => wb' \in LiveRUU
  BY DEF CommitEnd, CoreInv, WbInv
<1>7. /\ event_queue' \in Seq(Good(Event))
      /\ ready_queue' \in Seq(Good(ReadyNode))
      /\ node' \in Seq(Good(ReadyNode))
      /\ odep_list' \in [Station -> Seq(Good(OdepLink))]
  BY DEF CommitEnd, CoreInv, LinksInv
<1> QED BY <1>1, <1>2, <1>3, <1>4, <1>5, <1>6, <1>7, StillCore

LEMMA SkipEventCore ==
  ASSUME CoreInv, SkipEvent
  PROVE  CoreInv'
<1>1. Still
  BY DEF SkipEvent, PopEvent, Still, countVars
<1>2. CtlType'
  BY DEF SkipEvent, CoreInv, CtlType, Stage
<1>3. StatType'
  BY DEF SkipEvent, CoreInv, StatType, statusVars
<1>4. CvType'
  BY DEF SkipEvent, CoreInv, CvType, cvVars
<1>5. CntType'
  BY DEF SkipEvent, PopEvent, CoreInv, CntType, countVars
<1>6. /\ stage' \in {"recover", "broadcast"} => wb' \in Station
      /\ stage' = "recover" => wb' \in LiveRUU
  BY DEF SkipEvent, CoreInv, WbInv
<1>7. /\ event_queue' \in Seq(Good(Event))
      /\ ready_queue' \in Seq(Good(ReadyNode))
      /\ node' \in Seq(Good(ReadyNode))
      /\ odep_list' \in [Station -> Seq(Good(OdepLink))]
  BY HeadTailSeq DEF SkipEvent, PopEvent, Due, CoreInv, LinksInv
<1> QED BY <1>1, <1>2, <1>3, <1>4, <1>5, <1>6, <1>7, StillCore

LEMMA ClearCreatorType ==
  ASSUME CvType, EntType, NEW s \in Station, ClearCreator(s)
  PROVE  /\ create_vector' \in [Reg -> Station \cup {None}]
         /\ spec_create_vector' \in [Reg -> Station \cup {None}]
BY EntryFields DEF ClearCreator, CvType

LEMMA CompleteCore ==
  ASSUME CoreInv, Complete
  PROVE  CoreInv'
<1> DEFINE s == Head(event_queue).rs
<1>a. event_queue # <<>> /\ event_queue \in Seq(Good(Event))
  BY DEF Complete, Due, CoreInv, LinksInv
<1>b. Head(event_queue) \in Good(Event) /\ Tail(event_queue) \in Seq(Good(Event))
  BY <1>a, HeadTailSeq
<1>c. s \in Live
  BY <1>b, ValidIsLive DEF Complete
<1>d. s \in Station
  BY <1>c, LiveStations DEF CoreInv
<1>1. Still
  BY DEF Complete, PopEvent, Still, countVars
<1>2. CtlType'
  BY <1>d DEF Complete, CoreInv, CtlType, Stage
<1>3. StatType'
  BY <1>d DEF Complete, CoreInv, StatType, statusVars
<1>4. CvType'
  BY <1>d, ClearCreatorType DEF Complete, CoreInv, CvType, FixInv
<1>5. CntType'
  BY DEF Complete, PopEvent, CoreInv, CntType, countVars
<1>6. /\ stage' \in {"recover", "broadcast"} => wb' \in Station
      /\ stage' = "recover" => wb' \in LiveRUU
  BY <1>d DEF Complete, CoreInv, WbInv
<1>7. /\ event_queue' \in Seq(Good(Event))
      /\ ready_queue' \in Seq(Good(ReadyNode))
      /\ node' \in Seq(Good(ReadyNode))
      /\ odep_list' \in [Station -> Seq(Good(OdepLink))]
  BY <1>b DEF Complete, PopEvent, CoreInv, LinksInv
<1> QED BY <1>1, <1>2, <1>3, <1>4, <1>5, <1>6, <1>7, StillCore

LEMMA CompleteMispredictedCore ==
  ASSUME CoreInv, CompleteMispredicted
  PROVE  CoreInv'
<1> DEFINE s == Head(event_queue).rs
<1>a. event_queue # <<>> /\ event_queue \in Seq(Good(Event))
  BY DEF CompleteMispredicted, Due, CoreInv, LinksInv
<1>b. Head(event_queue) \in Good(Event) /\ Tail(event_queue) \in Seq(Good(Event))
  BY <1>a, HeadTailSeq
<1>c. s \in Live
  BY <1>b, ValidIsLive DEF CompleteMispredicted
<1>d. s \in Station
  BY <1>c, LiveStations DEF CoreInv
<1>1. Still
  BY DEF CompleteMispredicted, PopEvent, Still, countVars
<1>2. CtlType'
  BY <1>d DEF CompleteMispredicted, CoreInv, CtlType, Stage
<1>3. StatType'
  BY <1>d DEF CompleteMispredicted, CoreInv, StatType, statusVars
<1>4. CvType'
  BY DEF CompleteMispredicted, CoreInv, CvType, cvVars
<1>5. CntType'
  BY DEF CompleteMispredicted, PopEvent, CoreInv, CntType, countVars
<1>6. /\ stage' \in {"recover", "broadcast"} => wb' \in Station
      /\ stage' = "recover" => wb' \in LiveRUU
  <2>1. s \in {RUU(i) : i \in 0 .. RUU_size - 1}
    BY <1>d DEF CompleteMispredicted, CoreInv, FixInv, BranchesInRUU
  <2>2. s \in LiveRUU
    BY <1>c, <2>1, Stations DEF Live, LiveLSQ, LSQ_slot
  <2> QED BY <1>d, <2>2 DEF CompleteMispredicted
<1>7. /\ event_queue' \in Seq(Good(Event))
      /\ ready_queue' \in Seq(Good(ReadyNode))
      /\ node' \in Seq(Good(ReadyNode))
      /\ odep_list' \in [Station -> Seq(Good(OdepLink))]
  BY <1>b DEF CompleteMispredicted, PopEvent, CoreInv, LinksInv
<1> QED BY <1>1, <1>2, <1>3, <1>4, <1>5, <1>6, <1>7, StillCore

LEMMA RecoverEndCore ==
  ASSUME CoreInv, RecoverEnd
  PROVE  CoreInv'
<1>1. Still
  BY DEF RecoverEnd, Still, countVars
<1>2. CtlType'
  BY DEF RecoverEnd, CoreInv, CtlType, Stage
<1>3. StatType'
  BY DEF RecoverEnd, CoreInv, StatType, statusVars
<1>4. CvType'
  <2>1. wb \in Station
    BY DEF RecoverEnd, CoreInv, WbInv
  <2>2. /\ create_vector' \in [Reg -> Station \cup {None}]
        /\ spec_create_vector' \in [Reg -> Station \cup {None}]
    BY <2>1, ClearCreatorType DEF RecoverEnd, CoreInv, FixInv
  <2> QED BY <2>2 DEF RecoverEnd, CvType
<1>5. CntType'
  BY DEF RecoverEnd, CoreInv, CntType, countVars
<1>6. /\ stage' \in {"recover", "broadcast"} => wb' \in Station
      /\ stage' = "recover" => wb' \in LiveRUU
  BY DEF RecoverEnd, CoreInv, WbInv
<1>7. /\ event_queue' \in Seq(Good(Event))
      /\ ready_queue' \in Seq(Good(ReadyNode))
      /\ node' \in Seq(Good(ReadyNode))
      /\ odep_list' \in [Station -> Seq(Good(OdepLink))]
  BY DEF RecoverEnd, CoreInv, LinksInv
<1> QED BY <1>1, <1>2, <1>3, <1>4, <1>5, <1>6, <1>7, StillCore

LEMMA BroadcastEndCore ==
  ASSUME CoreInv, BroadcastEnd
  PROVE  CoreInv'
<1>1. Still
  BY DEF BroadcastEnd, Still, countVars
<1>2. CtlType'
  BY DEF BroadcastEnd, CoreInv, CtlType, Stage
<1>3. StatType'
  BY DEF BroadcastEnd, CoreInv, StatType, statusVars
<1>4. CvType'
  BY DEF BroadcastEnd, CoreInv, CvType, cvVars
<1>5. CntType'
  BY DEF BroadcastEnd, CoreInv, CntType, countVars
<1>6. /\ stage' \in {"recover", "broadcast"} => wb' \in Station
      /\ stage' = "recover" => wb' \in LiveRUU
  BY DEF BroadcastEnd, CoreInv, WbInv
<1>7. /\ event_queue' \in Seq(Good(Event))
      /\ ready_queue' \in Seq(Good(ReadyNode))
      /\ node' \in Seq(Good(ReadyNode))
      /\ odep_list' \in [Station -> Seq(Good(OdepLink))]
  BY DEF BroadcastEnd, CoreInv, LinksInv
<1> QED BY <1>1, <1>2, <1>3, <1>4, <1>5, <1>6, <1>7, StillCore

LEMMA WritebackEndCore ==
  ASSUME CoreInv, WritebackEnd
  PROVE  CoreInv'
<1>1. Still
  BY DEF WritebackEnd, Still, countVars
<1>2. CtlType'
  BY DEF WritebackEnd, CoreInv, CtlType, Stage
<1>3. StatType'
  BY DEF WritebackEnd, CoreInv, StatType, statusVars
<1>4. CvType'
  BY DEF WritebackEnd, CoreInv, CvType, cvVars
<1>5. CntType'
  BY DEF WritebackEnd, CoreInv, CntType, countVars
<1>6. /\ stage' \in {"recover", "broadcast"} => wb' \in Station
      /\ stage' = "recover" => wb' \in LiveRUU
  BY DEF WritebackEnd, CoreInv, WbInv
<1>7. /\ event_queue' \in Seq(Good(Event))
      /\ ready_queue' \in Seq(Good(ReadyNode))
      /\ node' \in Seq(Good(ReadyNode))
      /\ odep_list' \in [Station -> Seq(Good(OdepLink))]
  BY DEF WritebackEnd, CoreInv, LinksInv
<1> QED BY <1>1, <1>2, <1>3, <1>4, <1>5, <1>6, <1>7, StillCore

LEMMA RefreshEndCore ==
  ASSUME CoreInv, RefreshEnd
  PROVE  CoreInv'
<1>1. Still
  BY DEF RefreshEnd, Still, countVars
<1>2. CtlType'
  BY DEF RefreshEnd, CoreInv, CtlType, Stage
<1>3. StatType'
  BY DEF RefreshEnd, CoreInv, StatType, statusVars
<1>4. CvType'
  BY DEF RefreshEnd, CoreInv, CvType, cvVars
<1>5. CntType'
  BY DEF RefreshEnd, CoreInv, CntType, countVars
<1>6. /\ stage' \in {"recover", "broadcast"} => wb' \in Station
      /\ stage' = "recover" => wb' \in LiveRUU
  BY DEF RefreshEnd, CoreInv, WbInv
<1>7. /\ event_queue' \in Seq(Good(Event))
      /\ ready_queue' \in Seq(Good(ReadyNode))
      /\ node' \in Seq(Good(ReadyNode))
      /\ odep_list' \in [Station -> Seq(Good(OdepLink))]
  <2>1. <<>> \in Seq(Good(ReadyNode))
    OBVIOUS
  <2> QED BY <2>1 DEF RefreshEnd, CoreInv, LinksInv
<1> QED BY <1>1, <1>2, <1>3, <1>4, <1>5, <1>6, <1>7, StillCore

LEMMA IssueSkipCore ==
  ASSUME CoreInv, IssueSkip
  PROVE  CoreInv'
<1>1. Still
  BY DEF IssueSkip, Still, countVars
<1>2. CtlType'
  BY DEF IssueSkip, CoreInv, CtlType, Stage
<1>3. StatType'
  BY DEF IssueSkip, CoreInv, StatType, statusVars
<1>4. CvType'
  BY DEF IssueSkip, CoreInv, CvType, cvVars
<1>5. CntType'
  BY DEF IssueSkip, CoreInv, CntType, countVars
<1>6. /\ stage' \in {"recover", "broadcast"} => wb' \in Station
      /\ stage' = "recover" => wb' \in LiveRUU
  BY DEF IssueSkip, CoreInv, WbInv
<1>7. /\ event_queue' \in Seq(Good(Event))
      /\ ready_queue' \in Seq(Good(ReadyNode))
      /\ node' \in Seq(Good(ReadyNode))
      /\ odep_list' \in [Station -> Seq(Good(OdepLink))]
  BY HeadTailSeq DEF IssueSkip, CoreInv, LinksInv
<1> QED BY <1>1, <1>2, <1>3, <1>4, <1>5, <1>6, <1>7, StillCore

LEMMA IssueEndCore ==
  ASSUME CoreInv, IssueEnd
  PROVE  CoreInv'
<1>1. Still
  BY DEF IssueEnd, Still, countVars
<1>2. CtlType'
  BY DEF IssueEnd, CoreInv, CtlType, Stage
<1>3. StatType'
  BY DEF IssueEnd, CoreInv, StatType, statusVars
<1>4. CvType'
  BY DEF IssueEnd, CoreInv, CvType, cvVars
<1>5. CntType'
  BY DEF IssueEnd, CoreInv, CntType, countVars
<1>6. /\ stage' \in {"recover", "broadcast"} => wb' \in Station
      /\ stage' = "recover" => wb' \in LiveRUU
  BY DEF IssueEnd, CoreInv, WbInv
<1>7. /\ event_queue' \in Seq(Good(Event))
      /\ ready_queue' \in Seq(Good(ReadyNode))
      /\ node' \in Seq(Good(ReadyNode))
      /\ odep_list' \in [Station -> Seq(Good(OdepLink))]
  BY TickEvents DEF IssueEnd, CoreInv, LinksInv
<1> QED BY <1>1, <1>2, <1>3, <1>4, <1>5, <1>6, <1>7, StillCore

LEMMA DispatchEndCore ==
  ASSUME CoreInv, DispatchEnd
  PROVE  CoreInv'
<1>1. Still
  BY DEF DispatchEnd, Still, countVars
<1>2. CtlType'
  BY DEF DispatchEnd, CoreInv, CtlType, Stage
<1>3. StatType'
  BY DEF DispatchEnd, CoreInv, StatType, statusVars
<1>4. CvType'
  BY DEF DispatchEnd, CoreInv, CvType, cvVars
<1>5. CntType'
  BY DEF DispatchEnd, CoreInv, CntType, countVars
<1>6. /\ stage' \in {"recover", "broadcast"} => wb' \in Station
      /\ stage' = "recover" => wb' \in LiveRUU
  BY DEF DispatchEnd, CoreInv, WbInv
<1>7. /\ event_queue' \in Seq(Good(Event))
      /\ ready_queue' \in Seq(Good(ReadyNode))
      /\ node' \in Seq(Good(ReadyNode))
      /\ odep_list' \in [Station -> Seq(Good(OdepLink))]
  BY TickEvents DEF DispatchEnd, CoreInv, LinksInv
<1> QED BY <1>1, <1>2, <1>3, <1>4, <1>5, <1>6, <1>7, StillCore

LEMMA BroadcastCore ==
  ASSUME CoreInv, Broadcast
  PROVE  CoreInv'
<1> DEFINE l == Head(odep_list[wb])
           c == l.rs
           wakes == /\ Valid(l)
                    /\ idep_ready[c] \cup {l.opnum} = Operand
                    /\ InLSQ(c) => IsStore(ent[c].op)
<1>a. wb \in Station /\ odep_list[wb] \in Seq(Good(OdepLink)) /\ odep_list[wb] # <<>>
  BY DEF Broadcast, CoreInv, WbInv, LinksInv
<1>b. l \in Good(OdepLink) /\ Tail(odep_list[wb]) \in Seq(Good(OdepLink))
  BY <1>a, HeadTailSeq
<1>c. Valid(l) => c \in Live
  BY <1>b, ValidIsLive
<1>d. c \in Station /\ l.opnum \in Operand
  BY <1>b DEF Good, OdepLink
<1>e. /\ idep_ready' = IF Valid(l)
                       THEN [idep_ready EXCEPT ![c] = @ \cup {l.opnum}]
                       ELSE idep_ready
      /\ ready_queue' = IF wakes
                        THEN readyq_enqueue(ready_queue, c, ent[c].op, ent[c].seq)
                        ELSE ready_queue
      /\ queued' = IF wakes THEN queued \cup {c} ELSE queued
      /\ nfree' = IF wakes THEN nfree ELSE nfree + 1
      /\ odep_list' = [odep_list EXCEPT ![wb] = Tail(@)]
  BY DEF Broadcast
<1>f. wakes => Valid(l)
  OBVIOUS
<1> HIDE DEF wakes, l, c
<1>1. Still
  BY DEF Broadcast, Still, countVars
<1>2. CtlType'
  BY DEF Broadcast, CoreInv, CtlType, Stage
<1>3. StatType'
  <2>1. idep_ready' \in [Station -> SUBSET Operand]
    <3>1. idep_ready \in [Station -> SUBSET Operand]
      BY DEF CoreInv, StatType
    <3>2. [idep_ready EXCEPT ![c] = @ \cup {l.opnum}] \in [Station -> SUBSET Operand]
      BY <1>d, <3>1
    <3> QED BY <1>e, <3>1, <3>2
  <2>2. queued' \subseteq Station
    BY <1>d, <1>e DEF CoreInv, StatType
  <2> QED BY <2>1, <2>2 DEF Broadcast, CoreInv, StatType
<1>4. CvType'
  BY DEF Broadcast, CoreInv, CvType, cvVars
<1>5. CntType'
  <2>1. nfree' \in Int
    BY <1>e DEF CoreInv, CntType
  <2> QED BY <2>1 DEF Broadcast, CoreInv, CntType, countVars
<1>6. /\ stage' \in {"recover", "broadcast"} => wb' \in Station
      /\ stage' = "recover" => wb' \in LiveRUU
  BY DEF Broadcast, CoreInv, WbInv
<1>7. /\ event_queue' \in Seq(Good(Event))
      /\ ready_queue' \in Seq(Good(ReadyNode))
      /\ node' \in Seq(Good(ReadyNode))
      /\ odep_list' \in [Station -> Seq(Good(OdepLink))]
  <2>1. ready_queue' \in Seq(Good(ReadyNode))
    <3>1. CASE wakes
      <4>1. c \in Live /\ ent[c].seq \in Nat
        BY <1>c, <1>d, <1>f, <3>1, EntryFields DEF CoreInv, FixInv
      <4>2. readyq_enqueue(ready_queue, c, ent[c].op, ent[c].seq)
              \in Seq(Good(ReadyNode))
        BY <4>1, EnqueueReady DEF CoreInv, LinksInv
      <4> QED BY <1>e, <3>1, <4>2
    <3>2. CASE ~wakes
      BY <1>e, <3>2 DEF CoreInv, LinksInv
    <3> QED BY <3>1, <3>2
  <2>2. odep_list' \in [Station -> Seq(Good(OdepLink))]
    BY <1>a, <1>b, <1>e DEF CoreInv, LinksInv
  <2> QED BY <2>1, <2>2 DEF Broadcast, CoreInv, LinksInv
<1> QED BY <1>1, <1>2, <1>3, <1>4, <1>5, <1>6, <1>7, StillCore

LEMMA RefreshCore ==
  ASSUME CoreInv, Refresh
  PROVE  CoreInv'
<1> DEFINE s == Scanned
           ready == /\ ent[s].op = "load"
                    /\ s \notin queued \cup issued \cup completed
                    /\ OperandsReady(s)
                    /\ ent[s].addr \notin std_unknowns
<1>a. s \in Live
  <2>1. count \in 0 .. LSQ_num - 1
    BY DEF Refresh, CoreInv, CtlType, FixInv, WinType
  <2> QED BY <2>1 DEF Scanned, Live, LiveLSQ
<1>b. s \in Station /\ ent[s].addr \in Addr /\ ent[s].seq \in Nat
  BY <1>a, LiveStations, EntryFields DEF CoreInv, FixInv
<1>c. /\ std_unknowns' \in {std_unknowns, std_unknowns \ {ent[s].addr},
                            std_unknowns \cup {ent[s].addr}}
      /\ ready_queue' \in {ready_queue,
                           readyq_enqueue(ready_queue, s, "load", ent[s].seq)}
      /\ queued' \in {queued, queued \cup {s}}
      /\ nfree' \in {nfree, nfree - 1}
  BY DEF Refresh
<1> HIDE DEF s, ready
<1>1. Still
  BY DEF Refresh, Still, countVars
<1>2. CtlType'
  BY <1>b, <1>c DEF Refresh, CoreInv, CtlType, Stage
<1>3. StatType'
  BY <1>b, <1>c DEF Refresh, CoreInv, StatType
<1>4. CvType'
  BY DEF Refresh, CoreInv, CvType, cvVars
<1>5. CntType'
  <2>1. nfree' \in Int
    BY <1>c DEF CoreInv, CntType
  <2> QED BY <2>1 DEF Refresh, CoreInv, CntType, countVars
<1>6. /\ stage' \in {"recover", "broadcast"} => wb' \in Station
      /\ stage' = "recover" => wb' \in LiveRUU
  BY DEF Refresh, CoreInv, WbInv
<1>7. /\ event_queue' \in Seq(Good(Event))
      /\ ready_queue' \in Seq(Good(ReadyNode))
      /\ node' \in Seq(Good(ReadyNode))
      /\ odep_list' \in [Station -> Seq(Good(OdepLink))]
  <2>1. readyq_enqueue(ready_queue, s, "load", ent[s].seq) \in Seq(Good(ReadyNode))
    BY <1>a, <1>b, EnqueueReady DEF CoreInv, LinksInv
  <2> QED BY <1>c, <2>1 DEF Refresh, CoreInv, LinksInv
<1> QED BY <1>1, <1>2, <1>3, <1>4, <1>5, <1>6, <1>7, StillCore

LEMMA IssueStoreCore ==
  ASSUME CoreInv, NEW s \in Station, IssueStore(s)
  PROVE  CoreInv'
<1>a. /\ node \in Seq(Good(ReadyNode)) /\ node # <<>>
      /\ Valid(Head(node)) /\ s = Head(node).rs
  BY DEF IssueStore, IssueNext, CoreInv, LinksInv
<1>b. Head(node) \in Good(ReadyNode) /\ Tail(node) \in Seq(Good(ReadyNode))
  BY <1>a, HeadTailSeq
<1>c. s \in Live
  BY <1>a, <1>b, ValidIsLive
<1>d. ent[s].op \in Op /\ ent[s].seq \in Nat
  BY EntryFields DEF CoreInv, FixInv
<1>1. Still
  BY DEF IssueStore, Still, countVars
<1>2. CtlType'
  BY DEF IssueStore, IssueNext, CoreInv, CtlType, Stage
<1>3. StatType'
  BY DEF IssueStore, CoreInv, StatType, statusVars
<1>4. CvType'
  BY DEF IssueStore, CoreInv, CvType, cvVars
<1>5. CntType'
  BY DEF IssueStore, CoreInv, CntType, countVars
<1>6. /\ stage' \in {"recover", "broadcast"} => wb' \in Station
      /\ stage' = "recover" => wb' \in LiveRUU
  BY DEF IssueStore, IssueNext, CoreInv, WbInv
<1>7. /\ event_queue' \in Seq(Good(Event))
      /\ ready_queue' \in Seq(Good(ReadyNode))
      /\ node' \in Seq(Good(ReadyNode))
      /\ odep_list' \in [Station -> Seq(Good(OdepLink))]
  BY <1>b DEF IssueStore, CoreInv, LinksInv
<1> QED BY <1>1, <1>2, <1>3, <1>4, <1>5, <1>6, <1>7, StillCore

LEMMA RequeueCore ==
  ASSUME CoreInv, NEW s \in Station, Requeue(s)
  PROVE  CoreInv'
<1>a. /\ node \in Seq(Good(ReadyNode)) /\ node # <<>>
      /\ Valid(Head(node)) /\ s = Head(node).rs
  BY DEF Requeue, IssueNext, CoreInv, LinksInv
<1>b. Head(node) \in Good(ReadyNode) /\ Tail(node) \in Seq(Good(ReadyNode))
  BY <1>a, HeadTailSeq
<1>c. s \in Live
  BY <1>a, <1>b, ValidIsLive
<1>d. ent[s].op \in Op /\ ent[s].seq \in Nat
  BY EntryFields DEF CoreInv, FixInv
<1>1. Still
  BY DEF Requeue, Still, countVars
<1>2. CtlType'
  BY DEF Requeue, CoreInv, CtlType, Stage
<1>3. StatType'
  BY DEF Requeue, CoreInv, StatType, statusVars
<1>4. CvType'
  BY DEF Requeue, CoreInv, CvType, cvVars
<1>5. CntType'
  BY DEF Requeue, CoreInv, CntType, countVars
<1>6. /\ stage' \in {"recover", "broadcast"} => wb' \in Station
      /\ stage' = "recover" => wb' \in LiveRUU
  BY DEF Requeue, CoreInv, WbInv
<1>7. /\ event_queue' \in Seq(Good(Event))
      /\ ready_queue' \in Seq(Good(ReadyNode))
      /\ node' \in Seq(Good(ReadyNode))
      /\ odep_list' \in [Station -> Seq(Good(OdepLink))]
  <2>1. readyq_enqueue(ready_queue, s, ent[s].op, ent[s].seq)
          \in Seq(Good(ReadyNode))
    BY <1>c, <1>d, EnqueueReady DEF CoreInv, LinksInv
  <2> QED BY <1>b, <2>1 DEF Requeue, CoreInv, LinksInv
<1> QED BY <1>1, <1>2, <1>3, <1>4, <1>5, <1>6, <1>7, StillCore

\* Starting an operation of the window on a unit.
LEMMA ExecuteCore ==
  ASSUME CoreInv, NEW s \in Station, s \in Live, NEW lat \in Int,
         node \in Seq(Good(ReadyNode)), node # <<>>,
         Execute(s, lat), busy' \in [Unit -> Nat]
  PROVE  CoreInv'
<1>a. Tail(node) \in Seq(Good(ReadyNode))
  BY HeadTailSeq
<1>b. eventq_queue_event(event_queue, s, lat) \in Seq(Good(Event))
  BY EnqueueEvent DEF CoreInv, LinksInv
<1>1. Still
  BY DEF Execute, Still, countVars
<1>2. CtlType'
  BY DEF Execute, CoreInv, CtlType, Stage
<1>3. StatType'
  BY DEF Execute, CoreInv, StatType
<1>4. CvType'
  BY DEF Execute, CoreInv, CvType, cvVars
<1>5. CntType'
  BY DEF Execute, CoreInv, CntType, countVars
<1>6. /\ stage' \in {"recover", "broadcast"} => wb' \in Station
      /\ stage' = "recover" => wb' \in LiveRUU
  BY DEF Execute, CoreInv, WbInv
<1>7. /\ event_queue' \in Seq(Good(Event))
      /\ ready_queue' \in Seq(Good(ReadyNode))
      /\ node' \in Seq(Good(ReadyNode))
      /\ odep_list' \in [Station -> Seq(Good(OdepLink))]
  BY <1>a, <1>b DEF Execute, CoreInv, LinksInv
<1> QED BY <1>1, <1>2, <1>3, <1>4, <1>5, <1>6, <1>7, StillCore

LEMMA IssueToUnitCore ==
  ASSUME CoreInv, NEW s \in Station, IssueToUnit(s)
  PROVE  CoreInv'
<1>a. /\ node \in Seq(Good(ReadyNode)) /\ node # <<>>
      /\ Valid(Head(node)) /\ s = Head(node).rs
  BY DEF IssueToUnit, IssueNext, CoreInv, LinksInv
<1>b. Head(node) \in Good(ReadyNode) /\ Tail(node) \in Seq(Good(ReadyNode))
  BY <1>a, HeadTailSeq
<1>c. s \in Live
  BY <1>a, <1>b, ValidIsLive
<1>d. ent[s].op \in Op /\ ent[s].seq \in Nat
  BY EntryFields DEF CoreInv, FixInv
<1> DEFINE fu == res_get(FuClassOf(ent[s].op))
<1>1. /\ fu.unit \in Unit /\ fu.oplat \in Nat \ {0} /\ fu.issuelat \in Nat
  <2>1. FuClassOf(ent[s].op) \in FuClass
    BY <1>d, ClassOf DEF IssueToUnit
  <2>2. FreeTemplates(FuClassOf(ent[s].op)) # {}
    BY DEF IssueToUnit
  <2> QED BY <2>1, <2>2, GetUnit
<1>2. busy' = [busy EXCEPT ![fu.unit] = fu.issuelat]
  BY DEF IssueToUnit
<1>3. PICK lat \in Latency(s, fu) : Execute(s, lat)
  BY DEF IssueToUnit
<1> HIDE DEF fu
<1>4. busy' \in [Unit -> Nat]
  BY <1>1, <1>2 DEF CoreInv, CntType
<1>5. lat \in Int
  <2>1. LoadLat \subseteq Int /\ TlbLat \subseteq Int
    BY InstAssumption
  <2> QED BY <1>1, <1>3, <2>1 DEF Latency
<1> QED BY <1>a, <1>c, <1>3, <1>4, <1>5, ExecuteCore

LEMMA IssueUnitlessCore ==
  ASSUME CoreInv, NEW s \in Station, IssueUnitless(s)
  PROVE  CoreInv'
<1>a. /\ node \in Seq(Good(ReadyNode)) /\ node # <<>>
      /\ Valid(Head(node)) /\ s = Head(node).rs
  BY DEF IssueUnitless, IssueNext, CoreInv, LinksInv
<1>b. Head(node) \in Good(ReadyNode) /\ Tail(node) \in Seq(Good(ReadyNode))
  BY <1>a, HeadTailSeq
<1>c. s \in Live
  BY <1>a, <1>b, ValidIsLive
<1>d. ent[s].op \in Op /\ ent[s].seq \in Nat
  BY EntryFields DEF CoreInv, FixInv
<1>1. Execute(s, 1) /\ busy' = busy
  BY DEF IssueUnitless
<1>2. busy' \in [Unit -> Nat]
  BY <1>1 DEF CoreInv, CntType
<1> QED BY <1>a, <1>c, <1>1, <1>2, ExecuteCore
-----------------------------------------------------------------------------
(* The window as two ordered sequences that are paired.                    *)

\* Sequence numbers f[0] .. f[n - 1] grow with the place in the queue.
Ordered(f, n) == \A j, k \in 0 .. n - 1 : j < k => f[j] < f[k]

\* The places in E of the queue f have their partners in the queue g.
Partners(f, E, n, g, m) ==
  /\ \A k \in 0 .. n - 1 : k \in E => \E j \in 0 .. m - 1 : g[j] = f[k] + 1
  /\ \A j \in 0 .. m - 1 : \E k \in 0 .. n - 1 : k \in E /\ g[j] = f[k] + 1

Pairing(f, E, n, g, m) ==
  /\ n \in Nat /\ m \in Nat
  /\ \A k \in 0 .. n - 1 : f[k] \in Nat
  /\ \A j \in 0 .. m - 1 : g[j] \in Nat
  /\ Ordered(f, n) /\ Ordered(g, m) /\ Partners(f, E, n, g, m)

\* The partner of the oldest entry is the oldest, of the youngest the youngest.
LEMMA PairFirst ==
  ASSUME NEW f, NEW E, NEW n, NEW g, NEW m, Pairing(f, E, n, g, m), n > 0, 0 \in E
  PROVE  m > 0 /\ g[0] = f[0] + 1
<1>1. PICK j \in 0 .. m - 1 : g[j] = f[0] + 1
  BY DEF Pairing, Partners
<1>2. 0 \in 0 .. m - 1 /\ 0 \in 0 .. n - 1 /\ m > 0
  BY <1>1 DEF Pairing
<1>3. PICK k \in 0 .. n - 1 : g[0] = f[k] + 1
  BY <1>2 DEF Pairing, Partners
<1>4. f[0] <= f[k]
  BY <1>2, <1>3 DEF Pairing, Ordered
<1>5. g[0] <= g[j]
  BY <1>1, <1>2 DEF Pairing, Ordered
<1> QED BY <1>1, <1>2, <1>3, <1>4, <1>5 DEF Pairing

LEMMA PairLast ==
  ASSUME NEW f, NEW E, NEW n, NEW g, NEW m, Pairing(f, E, n, g, m), n > 0,
         n - 1 \in E
  PROVE  m > 0 /\ g[m - 1] = f[n - 1] + 1
<1>0. n - 1 \in 0 .. n - 1
  BY DEF Pairing
<1>1. PICK j \in 0 .. m - 1 : g[j] = f[n - 1] + 1
  BY <1>0 DEF Pairing, Partners
<1>2. m - 1 \in 0 .. m - 1 /\ m > 0
  BY <1>1 DEF Pairing
<1>3. PICK k \in 0 .. n - 1 : g[m - 1] = f[k] + 1
  BY <1>2 DEF Pairing, Partners
<1>4. f[k] <= f[n - 1]
  BY <1>0, <1>3 DEF Pairing, Ordered
<1>5. g[j] <= g[m - 1]
  BY <1>1, <1>2 DEF Pairing, Ordered
<1> QED BY <1>0, <1>1, <1>2, <1>3, <1>4, <1>5 DEF Pairing

\* The oldest entry leaves, with its partner if it has one.
LEMMA PopFirst ==
  ASSUME NEW f, NEW E, NEW n, NEW g, NEW m, Pairing(f, E, n, g, m), n > 0,
         NEW f2, NEW E2, NEW g2, NEW d \in {0, 1}, d = 1 <=> 0 \in E,
         \A k \in 0 .. n - 2 : f2[k] = f[k + 1] /\ (k \in E2 <=> k + 1 \in E),
         \A j \in 0 .. m - d - 1 : g2[j] = g[j + d]
  PROVE  Pairing(f2, E2, n - 1, g2, m - d)
<1>1. d = 1 => m > 0 /\ g[0] = f[0] + 1
  BY PairFirst
<1>2. n - 1 \in Nat /\ m - d \in Nat
  BY <1>1 DEF Pairing
<1>3. /\ \A k \in 0 .. n - 2 : f2[k] \in Nat
      /\ \A j \in 0 .. m - d - 1 : g2[j] \in Nat
  BY <1>2 DEF Pairing
<1>4. Ordered(f2, n - 1) /\ Ordered(g2, m - d)
  BY <1>2 DEF Pairing, Ordered
<1>5. ASSUME NEW k \in 0 .. n - 2, k \in E2
      PROVE  \E j \in 0 .. m - d - 1 : g2[j] = f2[k] + 1
  <2>1. PICK j \in 0 .. m - 1 : g[j] = f[k + 1] + 1
    BY <1>2, <1>5 DEF Pairing, Partners
  <2>2. f[0] < f[k + 1]
    BY <1>2 DEF Pairing, Ordered
  <2>3. j - d \in 0 .. m - d - 1
    BY <1>1, <2>1, <2>2 DEF Pairing
  <2>4. g2[j - d] = f2[k] + 1
    BY <2>1, <2>3
  <2> QED BY <2>3, <2>4
<1>6. ASSUME NEW j \in 0 .. m - d - 1
      PROVE  \E k \in 0 .. n - 2 : k \in E2 /\ g2[j] = f2[k] + 1
  <2>0. j + d \in 0 .. m - 1
    BY <1>2 DEF Pairing
  <2>1. PICK k \in 0 .. n - 1 : k \in E /\ g[j + d] = f[k] + 1
    BY <2>0 DEF Pairing, Partners
  <2>2. k # 0
    <3>1. CASE d = 1
      BY <1>1, <2>0, <2>1, <3>1 DEF Pairing, Ordered
    <3>2. CASE d = 0
      BY <2>1, <3>2
    <3> QED BY <3>1, <3>2
  <2>3. k - 1 \in 0 .. n - 2
    BY <2>2 DEF Pairing
  <2>4. k - 1 \in E2 /\ g2[j] = f2[k - 1] + 1
    BY <2>1, <2>3
  <2> QED BY <2>3, <2>4
<1>7. n - 1 - 1 = n - 2
  BY DEF Pairing
<1> QED BY <1>2, <1>3, <1>4, <1>5, <1>6, <1>7 DEF Pairing, Partners

\* The youngest entry leaves, with its partner if it has one.
LEMMA PopLast ==
  ASSUME NEW f, NEW E, NEW n, NEW g, NEW m, Pairing(f, E, n, g, m), n > 0,
         NEW f2, NEW E2, NEW g2, NEW d \in {0, 1}, d = 1 <=> n - 1 \in E,
         \A k \in 0 .. n - 2 : f2[k] = f[k] /\ (k \in E2 <=> k \in E),
         \A j \in 0 .. m - d - 1 : g2[j] = g[j]
  PROVE  Pairing(f2, E2, n - 1, g2, m - d)
<1>1. d = 1 => m > 0 /\ g[m - 1] = f[n - 1] + 1
  BY PairLast
<1>2. n - 1 \in Nat /\ m - d \in Nat
  BY <1>1 DEF Pairing
<1>3. /\ \A k \in 0 .. n - 2 : f2[k] \in Nat
      /\ \A j \in 0 .. m - d - 1 : g2[j] \in Nat
  BY <1>2 DEF Pairing
<1>4. Ordered(f2, n - 1) /\ Ordered(g2, m - d)
  BY <1>2 DEF Pairing, Ordered
<1>5. ASSUME NEW k \in 0 .. n - 2, k \in E2
      PROVE  \E j \in 0 .. m - d - 1 : g2[j] = f2[k] + 1
  <2>1. PICK j \in 0 .. m - 1 : g[j] = f[k] + 1
    BY <1>2, <1>5 DEF Pairing, Partners
  <2>2. f[k] < f[n - 1]
    BY <1>2 DEF Pairing, Ordered
  <2>3. j \in 0 .. m - d - 1
    BY <1>1, <2>1, <2>2 DEF Pairing
  <2>4. g2[j] = f2[k] + 1
    BY <2>1, <2>3
  <2> QED BY <2>3, <2>4
<1>6. ASSUME NEW j \in 0 .. m - d - 1
      PROVE  \E k \in 0 .. n - 2 : k \in E2 /\ g2[j] = f2[k] + 1
  <2>0. j \in 0 .. m - 1
    BY <1>2 DEF Pairing
  <2>1. PICK k \in 0 .. n - 1 : k \in E /\ g[j] = f[k] + 1
    BY <2>0 DEF Pairing, Partners
  <2>2. k # n - 1
    <3>1. CASE d = 1
      BY <1>1, <2>0, <2>1, <3>1 DEF Pairing, Ordered
    <3>2. CASE d = 0
      BY <2>1, <3>2
    <3> QED BY <3>1, <3>2
  <2>3. k \in 0 .. n - 2
    BY <2>2 DEF Pairing
  <2>4. k \in E2 /\ g2[j] = f2[k] + 1
    BY <2>1, <2>3
  <2> QED BY <2>3, <2>4
<1>7. n - 1 - 1 = n - 2
  BY DEF Pairing
<1> QED BY <1>2, <1>3, <1>4, <1>5, <1>6, <1>7 DEF Pairing, Partners

\* A younger entry joins, with a partner or without one.
Joined(f, E, n, g, m, q, f2, E2, g2, d) ==
  /\ \A k \in 0 .. n - 1 : f[k] <= q
  /\ \A j \in 0 .. m - 1 : g[j] <= q
  /\ d = 1 <=> n \in E2
  /\ \A k \in 0 .. n - 1 : f2[k] = f[k] /\ (k \in E2 <=> k \in E)
  /\ f2[n] = q + 1
  /\ \A j \in 0 .. m - 1 : g2[j] = g[j]
  /\ d = 1 => g2[m] = q + 2

LEMMA Push ==
  ASSUME NEW f, NEW E, NEW n, NEW g, NEW m, Pairing(f, E, n, g, m),
         NEW q \in Nat, NEW f2, NEW E2, NEW g2, NEW d \in {0, 1},
         Joined(f, E, n, g, m, q, f2, E2, g2, d)
  PROVE  Pairing(f2, E2, n + 1, g2, m + d)
<1> USE DEF Joined
<1>1. n \in Nat /\ m \in Nat /\ n + 1 \in Nat /\ m + d \in Nat
  BY DEF Pairing
<1>2. /\ \A k \in 0 .. n : k \in 0 .. n - 1 \/ k = n
      /\ \A j \in 0 .. m + d - 1 : j \in 0 .. m - 1 \/ (d = 1 /\ j = m)
  BY <1>1
<1>3. /\ \A k \in 0 .. n : f2[k] \in Nat
      /\ \A j \in 0 .. m + d - 1 : g2[j] \in Nat
  BY <1>1, <1>2 DEF Pairing
<1>4. Ordered(f2, n + 1)
  BY <1>1, <1>2 DEF Pairing, Ordered
<1>5. Ordered(g2, m + d)
  BY <1>1, <1>2 DEF Pairing, Ordered
<1>6. ASSUME NEW k \in 0 .. n, k \in E2
      PROVE  \E j \in 0 .. m + d - 1 : g2[j] = f2[k] + 1
  <2>1. CASE k = n
    <3>1. m \in 0 .. m + d - 1 /\ g2[m] = f2[k] + 1
      BY <1>1, <1>6, <2>1
    <3> QED BY <3>1
  <2>2. CASE k \in 0 .. n - 1
    <3>1. PICK j \in 0 .. m - 1 : g[j] = f[k] + 1
      BY <1>6, <2>2 DEF Pairing, Partners
    <3>2. j \in 0 .. m + d - 1 /\ g2[j] = f2[k] + 1
      BY <1>1, <2>2, <3>1
    <3> QED BY <3>2
  <2> QED BY <1>2, <2>1, <2>2
<1>7. ASSUME NEW j \in 0 .. m + d - 1
      PROVE  \E k \in 0 .. n : k \in E2 /\ g2[j] = f2[k] + 1
  <2>1. CASE d = 1 /\ j = m
    <3>1. n \in 0 .. n /\ n \in E2 /\ g2[j] = f2[n] + 1
      BY <1>1, <2>1
    <3> QED BY <3>1
  <2>2. CASE j \in 0 .. m - 1
    <3>1. PICK k \in 0 .. n - 1 : k \in E /\ g[j] = f[k] + 1
      BY <2>2 DEF Pairing, Partners
    <3>2. k \in 0 .. n /\ k \in E2 /\ g2[j] = f2[k] + 1
      BY <1>1, <2>2, <3>1
    <3> QED BY <3>2
  <2> QED BY <1>2, <2>1, <2>2
<1>8. n + 1 - 1 = n
  BY <1>1
<1> QED BY <1>1, <1>3, <1>4, <1>5, <1>6, <1>7, <1>8 DEF Pairing, Partners

-----------------------------------------------------------------------------
(* The window of the core in this form.                                    *)

RSeq(e, h) == [k \in 0 .. RUU_size - 1 |-> e[RUU(At(h, k, RUU_size))].seq]
LSeq(e, h) == [k \in 0 .. LSQ_size - 1 |-> e[LSQ(At(h, k, LSQ_size))].seq]
REa(e, h)  == {k \in 0 .. RUU_size - 1 : e[RUU(At(h, k, RUU_size))].ea_comp}
LiveR(h, n) == {RUU(At(h, k, RUU_size)) : k \in 0 .. n - 1}
LiveL(h, n) == {LSQ(At(h, k, LSQ_size)) : k \in 0 .. n - 1}

Win(e, rh, rt, rn, lh, lt, ln) ==
  /\ rn \in 0 .. RUU_size /\ rt = At(rh, rn, RUU_size)
  /\ ln \in 0 .. LSQ_size /\ lt = At(lh, ln, LSQ_size)
  /\ Pairing(RSeq(e, rh), REa(e, rh), rn, LSeq(e, lh), ln)

\* WindowInSync of any state, spelt out.
InSync(e, rh, rt, rn, lh, lt, ln) ==
  /\ rn \in 0 .. RUU_size
  /\ rt = (rh + rn) % RUU_size
  /\ \A j, k \in 0 .. rn - 1 : j < k =>
       e[RUU((rh + j) % RUU_size)].seq < e[RUU((rh + k) % RUU_size)].seq
  /\ ln \in 0 .. LSQ_size
  /\ lt = (lh + ln) % LSQ_size
  /\ \A j, k \in 0 .. ln - 1 : j < k =>
       e[LSQ((lh + j) % LSQ_size)].seq < e[LSQ((lh + k) % LSQ_size)].seq
  /\ \A k \in 0 .. rn - 1 : e[RUU((rh + k) % RUU_size)].ea_comp =>
       \E j \in 0 .. ln - 1 : e[LSQ((lh + j) % LSQ_size)].seq
                                = e[RUU((rh + k) % RUU_size)].seq + 1
  /\ \A j \in 0 .. ln - 1 : \E k \in 0 .. rn - 1 :
       /\ e[RUU((rh + k) % RUU_size)].ea_comp
       /\ e[LSQ((lh + j) % LSQ_size)].seq
            = e[RUU((rh + k) % RUU_size)].seq + 1

LEMMA InSyncIsWin ==
  ASSUME NEW e \in [Station -> Entry],
         NEW rh \in 0 .. RUU_size - 1, NEW rn \in Int, NEW rt,
         NEW lh \in 0 .. LSQ_size - 1, NEW ln \in Int, NEW lt
  PROVE  InSync(e, rh, rt, rn, lh, lt, ln) <=> Win(e, rh, rt, rn, lh, lt, ln)
<1> USE Sizes
<1>1. \A k \in 0 .. RUU_size : (rh + k) % RUU_size = At(rh, k, RUU_size)
  BY AtMod
<1>2. \A k \in 0 .. LSQ_size : (lh + k) % LSQ_size = At(lh, k, LSQ_size)
  BY AtMod
<1>3. ASSUME rn \in 0 .. RUU_size, ln \in 0 .. LSQ_size
      PROVE  InSync(e, rh, rt, rn, lh, lt, ln) <=> Win(e, rh, rt, rn, lh, lt, ln)
  <2> DEFINE f == RSeq(e, rh)
             g == LSeq(e, lh)
             E == REa(e, rh)
  <2>1. \A k \in 0 .. rn - 1 :
          /\ k \in 0 .. RUU_size - 1 /\ k \in 0 .. RUU_size
          /\ (rh + k) % RUU_size = At(rh, k, RUU_size)
    BY <1>1, <1>3
  <2>2. \A k \in 0 .. ln - 1 :
          /\ k \in 0 .. LSQ_size - 1 /\ k \in 0 .. LSQ_size
          /\ (lh + k) % LSQ_size = At(lh, k, LSQ_size)
    BY <1>2, <1>3
  <2>3. \A k \in 0 .. rn - 1 :
          /\ f[k] = e[RUU((rh + k) % RUU_size)].seq
          /\ k \in E <=> e[RUU((rh + k) % RUU_size)].ea_comp
          /\ f[k] \in Nat
    <3>1. \A k \in 0 .. rn - 1 : RUU(At(rh, k, RUU_size)) \in Station
      BY <1>3, <2>1, Stations, AtMod
    <3>2. \A k \in 0 .. rn - 1 : e[RUU(At(rh, k, RUU_size))].seq \in Nat
      BY <3>1 DEF Entry
    <3> QED BY <2>1, <3>2 DEF RSeq, REa
  <2>4. \A k \in 0 .. ln - 1 :
          /\ g[k] = e[LSQ((lh + k) % LSQ_size)].seq
          /\ g[k] \in Nat
    <3>1. \A k \in 0 .. ln - 1 : LSQ(At(lh, k, LSQ_size)) \in Station
      BY <1>3, <2>2, Stations, AtMod
    <3>2. \A k \in 0 .. ln - 1 : e[LSQ(At(lh, k, LSQ_size))].seq \in Nat
      BY <3>1 DEF Entry
    <3> QED BY <2>2, <3>2 DEF LSeq
  <2>5. rn \in Nat /\ ln \in Nat
    BY <1>3
  <2>6. Win(e, rh, rt, rn, lh, lt, ln) <=>
          /\ rt = (rh + rn) % RUU_size /\ lt = (lh + ln) % LSQ_size
          /\ Pairing(f, E, rn, g, ln)
    BY <1>1, <1>2, <1>3 DEF Win
  <2> HIDE DEF f, g, E
  <2>7. Pairing(f, E, rn, g, ln) <=>
          Ordered(f, rn) /\ Ordered(g, ln) /\ Partners(f, E, rn, g, ln)
    BY <2>3, <2>4, <2>5 DEF Pairing
  <2>8. Ordered(f, rn) <=> \A j, k \in 0 .. rn - 1 : j < k =>
          e[RUU((rh + j) % RUU_size)].seq < e[RUU((rh + k) % RUU_size)].seq
    BY <2>3 DEF Ordered
  <2>9. Ordered(g, ln) <=> \A j, k \in 0 .. ln - 1 : j < k =>
          e[LSQ((lh + j) % LSQ_size)].seq < e[LSQ((lh + k) % LSQ_size)].seq
    BY <2>4 DEF Ordered
  <2>10. Partners(f, E, rn, g, ln) <=>
          /\ \A k \in 0 .. rn - 1 : e[RUU((rh + k) % RUU_size)].ea_comp =>
               \E j \in 0 .. ln - 1 : e[LSQ((lh + j) % LSQ_size)].seq
                                        = e[RUU((rh + k) % RUU_size)].seq + 1
          /\ \A j \in 0 .. ln - 1 : \E k \in 0 .. rn - 1 :
               /\ e[RUU((rh + k) % RUU_size)].ea_comp
               /\ e[LSQ((lh + j) % LSQ_size)].seq
                    = e[RUU((rh + k) % RUU_size)].seq + 1
    <3> DEFINE F(k) == e[RUU((rh + k) % RUU_size)].seq
               G(j) == e[LSQ((lh + j) % LSQ_size)].seq
               P(k) == e[RUU((rh + k) % RUU_size)].ea_comp
    <3>1. /\ \A k \in 0 .. rn - 1 : f[k] = F(k) /\ (k \in E <=> P(k))
          /\ \A j \in 0 .. ln - 1 : g[j] = G(j)
      BY <2>3, <2>4
    <3> HIDE DEF F, G, P
    <3>2. (\A k \in 0 .. rn - 1 : k \in E => \E j \in 0 .. ln - 1 : g[j] = f[k] + 1)
            <=> \A k \in 0 .. rn - 1 : P(k) => \E j \in 0 .. ln - 1 : G(j) = F(k) + 1
      BY <3>1
    <3>3. (\A j \in 0 .. ln - 1 : \E k \in 0 .. rn - 1 : k \in E /\ g[j] = f[k] + 1)
            <=> \A j \in 0 .. ln - 1 : \E k \in 0 .. rn - 1 : P(k) /\ G(j) = F(k) + 1
      BY <3>1
    <3>4. Partners(f, E, rn, g, ln) <=>
            /\ \A k \in 0 .. rn - 1 : P(k) => \E j \in 0 .. ln - 1 : G(j) = F(k) + 1
            /\ \A j \in 0 .. ln - 1 : \E k \in 0 .. rn - 1 : P(k) /\ G(j) = F(k) + 1
      BY <3>2, <3>3 DEF Partners
    <3> QED BY <3>4 DEF F, G, P
  <2> QED BY <1>3, <2>6, <2>7, <2>8, <2>9, <2>10 DEF InSync
<1> QED BY <1>3 DEF InSync, Win

\* A slot of the queues by either formula.
LEMMA LiveForm ==
  ASSUME NEW rh \in 0 .. RUU_size - 1, NEW rn \in 0 .. RUU_size,
         NEW lh \in 0 .. LSQ_size - 1, NEW ln \in 0 .. LSQ_size
  PROVE  /\ {RUU((rh + k) % RUU_size) : k \in 0 .. rn - 1} = LiveR(rh, rn)
         /\ {LSQ((lh + k) % LSQ_size) : k \in 0 .. ln - 1} = LiveL(lh, ln)
<1>1. \A k \in 0 .. rn - 1 : (rh + k) % RUU_size = At(rh, k, RUU_size)
  BY Sizes, AtMod
<1>2. \A k \in 0 .. ln - 1 : (lh + k) % LSQ_size = At(lh, k, LSQ_size)
  BY Sizes, AtMod
<1> QED BY <1>1, <1>2 DEF LiveR, LiveL

LEMMA WindowForm ==
  ASSUME FixInv
  PROVE  /\ Win(ent, RUU_head, RUU_tail, RUU_num, LSQ_head, LSQ_tail, LSQ_num)
         /\ LiveRUU = LiveR(RUU_head, RUU_num)
         /\ LiveLSQ = LiveL(LSQ_head, LSQ_num)
<1>1. InSync(ent, RUU_head, RUU_tail, RUU_num, LSQ_head, LSQ_tail, LSQ_num)
  BY DEF FixInv, WindowInSync, RUUQueue, LSQQueue, Paired, RUU_slot, LSQ_slot,
         InSync
<1>2. Win(ent, RUU_head, RUU_tail, RUU_num, LSQ_head, LSQ_tail, LSQ_num)
  BY <1>1, InSyncIsWin DEF FixInv, WinType, EntType
<1>3. RUU_num \in 0 .. RUU_size /\ LSQ_num \in 0 .. LSQ_size
  BY <1>2 DEF Win
<1> QED BY <1>2, <1>3, LiveForm
        DEF FixInv, WinType, LiveRUU, LiveLSQ, RUU_slot, LSQ_slot

\* The same after a step.
LEMMA WindowFormNext ==
  ASSUME WinType', EntType',
         Win(ent', RUU_head', RUU_tail', RUU_num', LSQ_head', LSQ_tail', LSQ_num')
  PROVE  /\ WindowInSync'
         /\ LiveRUU' = LiveR(RUU_head', RUU_num')
         /\ LiveLSQ' = LiveL(LSQ_head', LSQ_num')
<1>1. InSync(ent', RUU_head', RUU_tail', RUU_num', LSQ_head', LSQ_tail', LSQ_num')
  BY InSyncIsWin DEF WinType, EntType
<1>2. WindowInSync'
  BY <1>1 DEF WindowInSync, RUUQueue, LSQQueue, Paired, RUU_slot, LSQ_slot,
              InSync
<1>3. RUU_num' \in 0 .. RUU_size /\ LSQ_num' \in 0 .. LSQ_size
  BY DEF Win
<1> QED BY <1>2, <1>3, LiveForm
        DEF WinType, LiveRUU, LiveLSQ, RUU_slot, LSQ_slot

-----------------------------------------------------------------------------
(* One entry leaves or joins a queue.                                      *)

Places(h, n, N) == {At(h, k, N) : k \in 0 .. n - 1}

LEMMA DropFirst ==
  ASSUME NEW N \in Int, N > 0, NEW h \in 0 .. N - 1, NEW n \in 1 .. N
  PROVE  /\ At(Inc(h, N), n - 1, N) = At(h, n, N)
         /\ Places(Inc(h, N), n - 1, N) = Places(h, n, N) \ {h}
<1>1. \A k \in 0 .. N - 1 : At(Inc(h, N), k, N) = At(h, k + 1, N)
  BY AtInc
<1>2. At(h, 0, N) = h
  BY DEF At
<1>3. ASSUME NEW i \in Places(Inc(h, N), n - 1, N)
      PROVE  i \in Places(h, n, N) /\ i # h
  <2>1. PICK k \in 0 .. n - 2 : i = At(Inc(h, N), k, N)
    BY DEF Places
  <2>2. i = At(h, k + 1, N) /\ k + 1 \in 0 .. n - 1 /\ k + 1 # 0
    BY <1>1, <2>1
  <2>3. i # h
    BY <2>2 DEF At
  <2> QED BY <2>2, <2>3 DEF Places
<1>4. ASSUME NEW i \in Places(h, n, N), i # h
      PROVE  i \in Places(Inc(h, N), n - 1, N)
  <2>1. PICK k \in 0 .. n - 1 : i = At(h, k, N)
    BY DEF Places
  <2>2. k - 1 \in 0 .. n - 1 - 1 /\ i = At(Inc(h, N), k - 1, N)
    BY <1>1, <1>2, <1>4, <2>1
  <2> QED BY <2>2 DEF Places
<1>5. At(Inc(h, N), n - 1, N) = At(h, n, N)
  BY <1>1
<1> QED BY <1>3, <1>4, <1>5

LEMMA DropLast ==
  ASSUME NEW N \in Int, N > 0, NEW h \in 0 .. N - 1, NEW n \in 1 .. N
  PROVE  /\ Dec(At(h, n, N), N) = At(h, n - 1, N)
         /\ At(h, n - 1, N) \in 0 .. N - 1
         /\ Places(h, n - 1, N) = Places(h, n, N) \ {At(h, n - 1, N)}
<1>1. Dec(At(h, n, N), N) = At(h, n - 1, N)
  BY AtDec
<1>2. At(h, n - 1, N) \in 0 .. N - 1
  BY DEF At
<1>3. ASSUME NEW i \in Places(h, n - 1, N)
      PROVE  i \in Places(h, n, N) /\ i # At(h, n - 1, N)
  <2>1. PICK k \in 0 .. n - 1 - 1 : i = At(h, k, N)
    BY DEF Places
  <2>2. k \in 0 .. n - 1 /\ k # n - 1
    BY <2>1
  <2>3. i # At(h, n - 1, N)
    BY <2>1, <2>2 DEF At
  <2> QED BY <2>1, <2>2, <2>3 DEF Places
<1>4. ASSUME NEW i \in Places(h, n, N), i # At(h, n - 1, N)
      PROVE  i \in Places(h, n - 1, N)
  <2>1. PICK k \in 0 .. n - 1 : i = At(h, k, N)
    BY DEF Places
  <2>2. k \in 0 .. n - 1 - 1
    BY <1>4, <2>1
  <2> QED BY <2>1, <2>2 DEF Places
<1> QED BY <1>1, <1>2, <1>3, <1>4

LEMMA AddLast ==
  ASSUME NEW N \in Int, N > 0, NEW h \in 0 .. N - 1, NEW n \in 0 .. N - 1
  PROVE  /\ Inc(At(h, n, N), N) = At(h, n + 1, N)
         /\ At(h, n, N) \notin Places(h, n, N)
         /\ Places(h, n + 1, N) = Places(h, n, N) \cup {At(h, n, N)}
<1>1. At(h, n, N) \in 0 .. N - 1
  BY DEF At
<1>2. Inc(At(h, n, N), N) = At(h, n + 1, N)
  <2> DEFINE t == At(h, n, N)
  <2>1. t \in 0 .. N - 1
    BY <1>1
  <2>2. Inc(t, N) = IF t + 1 < N THEN t + 1 ELSE t + 1 - N
    <3> HIDE DEF t
    <3> QED BY <2>1, WrapOnce DEF Inc
  <2> QED BY <2>1, <2>2 DEF At
<1>3. At(h, n, N) \notin Places(h, n, N)
  <2> SUFFICES ASSUME NEW k \in 0 .. n - 1, At(h, n, N) = At(h, k, N)
               PROVE  FALSE
    BY DEF Places
  <2> QED BY DEF At
<1>4. \A k : k \in 0 .. n + 1 - 1 <=> (k \in 0 .. n - 1 \/ k = n)
  OBVIOUS
<1>5. Places(h, n + 1, N) = Places(h, n, N) \cup {At(h, n, N)}
  BY <1>4 DEF Places
<1> QED BY <1>2, <1>3, <1>5

LEMMA LiveIsPlaces ==
  \A h, n : /\ LiveR(h, n) = {RUU(i) : i \in Places(h, n, RUU_size)}
            /\ LiveL(h, n) = {LSQ(i) : i \in Places(h, n, LSQ_size)}
BY DEF LiveR, LiveL, Places

-----------------------------------------------------------------------------
(* The window shrinks at either end or grows at its young end.             *)

LEMMA WinPopFirst ==
  ASSUME NEW e, NEW rh \in 0 .. RUU_size - 1, NEW rt, NEW rn,
         NEW lh \in 0 .. LSQ_size - 1, NEW lt, NEW ln,
         Win(e, rh, rt, rn, lh, lt, ln), rn > 0,
         NEW d \in {0, 1}, d = 1 <=> e[RUU(rh)].ea_comp,
         NEW lh2, lh2 = IF d = 1 THEN Inc(lh, LSQ_size) ELSE lh
  PROVE  /\ d = 1 => ln > 0
         /\ Win(e, Inc(rh, RUU_size), rt, rn - 1, lh2, lt, ln - d)
         /\ LiveR(Inc(rh, RUU_size), rn - 1) = LiveR(rh, rn) \ {RUU(rh)}
         /\ LiveL(lh2, ln - d) = LiveL(lh, ln) \ (IF d = 1 THEN {LSQ(lh)} ELSE {})
<1> USE Sizes
<1>1. /\ rn \in 1 .. RUU_size /\ rn \in Int /\ ln \in 0 .. LSQ_size /\ ln \in Int
      /\ rt = At(rh, rn, RUU_size) /\ lt = At(lh, ln, LSQ_size)
      /\ Pairing(RSeq(e, rh), REa(e, rh), rn, LSeq(e, lh), ln)
  BY DEF Win
<1>2. At(rh, 0, RUU_size) = rh /\ At(lh, 0, LSQ_size) = lh
  BY DEF At
<1>3. d = 1 <=> 0 \in REa(e, rh)
  BY <1>2 DEF REa
<1>4. d = 1 => ln > 0
  BY <1>1, <1>3, PairFirst
<1>5. \A k \in 0 .. rn - 2 :
        /\ RSeq(e, Inc(rh, RUU_size))[k] = RSeq(e, rh)[k + 1]
        /\ k \in REa(e, Inc(rh, RUU_size)) <=> k + 1 \in REa(e, rh)
  <2>1. \A k \in 0 .. rn - 2 :
          /\ k \in 0 .. RUU_size - 1 /\ k + 1 \in 0 .. RUU_size - 1
          /\ At(Inc(rh, RUU_size), k, RUU_size) = At(rh, k + 1, RUU_size)
    BY <1>1, AtInc
  <2> QED BY <2>1 DEF RSeq, REa
<1>6. \A j \in 0 .. ln - d - 1 : LSeq(e, lh2)[j] = LSeq(e, lh)[j + d]
  <2>1. CASE d = 1
    <3>1. \A k \in 0 .. ln - 2 :
            /\ k \in 0 .. LSQ_size - 1 /\ k + 1 \in 0 .. LSQ_size - 1
            /\ At(Inc(lh, LSQ_size), k, LSQ_size) = At(lh, k + 1, LSQ_size)
      BY <1>1, AtInc
    <3>2. \A k \in 0 .. ln - 2 :
            LSeq(e, Inc(lh, LSQ_size))[k] = LSeq(e, lh)[k + 1]
      BY <3>1 DEF LSeq
    <3>3. lh2 = Inc(lh, LSQ_size) /\ ln - d - 1 = ln - 2
      BY <1>1, <2>1
    <3> QED BY <2>1, <3>2, <3>3
  <2>2. CASE d = 0
    BY <1>1, <2>2
  <2> QED BY <2>1, <2>2
<1>7. Pairing(RSeq(e, Inc(rh, RUU_size)), REa(e, Inc(rh, RUU_size)), rn - 1,
              LSeq(e, lh2), ln - d)
  <2> QED BY <1>1, <1>3, <1>5, <1>6, PopFirst
<1>8. /\ At(Inc(rh, RUU_size), rn - 1, RUU_size) = rt
      /\ Places(Inc(rh, RUU_size), rn - 1, RUU_size)
           = Places(rh, rn, RUU_size) \ {rh}
  BY <1>1, DropFirst
<1>9. /\ At(lh2, ln - d, LSQ_size) = lt
      /\ Places(lh2, ln - d, LSQ_size)
           = Places(lh, ln, LSQ_size) \ (IF d = 1 THEN {lh} ELSE {})
  <2>1. CASE d = 1
    BY <1>1, <1>4, <2>1, DropFirst
  <2>2. CASE d = 0
    BY <1>1, <2>2
  <2> QED BY <2>1, <2>2
<1>10. Win(e, Inc(rh, RUU_size), rt, rn - 1, lh2, lt, ln - d)
  <2>1. rn - 1 \in 0 .. RUU_size /\ ln - d \in 0 .. LSQ_size
    BY <1>1, <1>4
  <2> QED BY <1>7, <1>8, <1>9, <2>1 DEF Win
<1>11. LiveR(Inc(rh, RUU_size), rn - 1) = LiveR(rh, rn) \ {RUU(rh)}
  BY <1>8, LiveIsPlaces, Stations
<1>12. LiveL(lh2, ln - d) = LiveL(lh, ln) \ (IF d = 1 THEN {LSQ(lh)} ELSE {})
  <2>1. CASE d = 1
    BY <1>9, <2>1, LiveIsPlaces, Stations
  <2>2. CASE d # 1
    BY <1>9, <2>2, LiveIsPlaces
  <2> QED BY <2>1, <2>2
<1> QED BY <1>4, <1>10, <1>11, <1>12

\* What the removal of the youngest entry leaves.
PoppedLast(e, rh, rt, rn, lh, lt, ln, d, lt2) ==
  /\ d = 1 => ln > 0
  /\ Dec(rt, RUU_size) \in 0 .. RUU_size - 1
  /\ d = 1 => lt2 \in 0 .. LSQ_size - 1
  /\ Win(e, rh, Dec(rt, RUU_size), rn - 1, lh, lt2, ln - d)
  /\ LiveR(rh, rn - 1) = LiveR(rh, rn) \ {RUU(Dec(rt, RUU_size))}
  /\ LiveL(lh, ln - d) = LiveL(lh, ln) \ (IF d = 1 THEN {LSQ(lt2)} ELSE {})

LEMMA WinPopLast ==
  ASSUME NEW e, NEW rh \in 0 .. RUU_size - 1, NEW rt, NEW rn,
         NEW lh \in 0 .. LSQ_size - 1, NEW lt, NEW ln,
         Win(e, rh, rt, rn, lh, lt, ln), rn > 0,
         NEW d \in {0, 1}, d = 1 <=> e[RUU(Dec(rt, RUU_size))].ea_comp,
         NEW lt2, lt2 = IF d = 1 THEN Dec(lt, LSQ_size) ELSE lt
  PROVE  PoppedLast(e, rh, rt, rn, lh, lt, ln, d, lt2)
<1> USE Sizes
<1>1. /\ rn \in 1 .. RUU_size /\ rn \in Int /\ ln \in 0 .. LSQ_size /\ ln \in Int
      /\ rt = At(rh, rn, RUU_size) /\ lt = At(lh, ln, LSQ_size)
      /\ Pairing(RSeq(e, rh), REa(e, rh), rn, LSeq(e, lh), ln)
  BY DEF Win
<1>2. /\ Dec(rt, RUU_size) = At(rh, rn - 1, RUU_size) /\ Dec(rt, RUU_size) \in 0 .. RUU_size - 1
      /\ Places(rh, rn - 1, RUU_size) = Places(rh, rn, RUU_size) \ {Dec(rt, RUU_size)}
  BY <1>1, DropLast
<1>3. d = 1 <=> rn - 1 \in REa(e, rh)
  <2>1. rn - 1 \in 0 .. RUU_size - 1
    BY <1>1
  <2> QED BY <1>2, <2>1 DEF REa
<1>4. d = 1 => ln > 0
  BY <1>1, <1>3, PairLast
<1>5. /\ lt2 = At(lh, ln - d, LSQ_size) /\ (d = 1 => lt2 \in 0 .. LSQ_size - 1)
      /\ Places(lh, ln - d, LSQ_size)
           = Places(lh, ln, LSQ_size) \ (IF d = 1 THEN {lt2} ELSE {})
  <2>1. CASE d = 1
    BY <1>1, <1>4, <2>1, DropLast
  <2>2. CASE d = 0
    BY <1>1, <2>2
  <2> QED BY <2>1, <2>2
<1>6. Pairing(RSeq(e, rh), REa(e, rh), rn - 1, LSeq(e, lh), ln - d)
  BY <1>1, <1>3, PopLast
<1>7. Win(e, rh, Dec(rt, RUU_size), rn - 1, lh, lt2, ln - d)
  <2>1. rn - 1 \in 0 .. RUU_size /\ ln - d \in 0 .. LSQ_size
    BY <1>1, <1>4
  <2> QED BY <1>2, <1>5, <1>6, <2>1 DEF Win
<1>8. LiveR(rh, rn - 1) = LiveR(rh, rn) \ {RUU(Dec(rt, RUU_size))}
  BY <1>2, LiveIsPlaces, Stations
<1>9. LiveL(lh, ln - d) = LiveL(lh, ln) \ (IF d = 1 THEN {LSQ(lt2)} ELSE {})
  <2>1. CASE d = 1
    BY <1>5, <2>1, LiveIsPlaces, Stations
  <2>2. CASE d # 1
    BY <1>5, <2>2, LiveIsPlaces
  <2> QED BY <2>1, <2>2
<1> QED BY <1>2, <1>4, <1>5, <1>7, <1>8, <1>9 DEF PoppedLast

-----------------------------------------------------------------------------
(* Links over a change of the window.                                      *)

LEMMA SeqMono ==
  ASSUME NEW S, NEW T, S \subseteq T, NEW q \in Seq(S)
  PROVE  q \in Seq(T)
<1>1. Len(q) \in Nat /\ q \in [1 .. Len(q) -> S]
  BY LenProperties
<1>2. q \in [1 .. Len(q) -> T]
  BY <1>1
<1> QED BY <1>1, <1>2, SeqDef

\* Tags never go back, and a station that left the window got a new one.
TagsFollow == \A s \in Station : /\ tag[s] <= tag'[s]
                                 /\ tag'[s] = tag[s] /\ s \in Live => s \in Live'

LEMMA GoodStaysGood ==
  ASSUME tag \in [Station -> Nat], tag' \in [Station -> Nat], TagsFollow
  PROVE  /\ Good(Event) \subseteq Good(Event)'
         /\ Good(ReadyNode) \subseteq Good(ReadyNode)'
         /\ Good(OdepLink) \subseteq Good(OdepLink)'
<1>1. ASSUME NEW l, l.rs \in Station, l.tag \in Nat, GoodLink(l)
      PROVE  GoodLink(l)'
  <2>1. tag[l.rs] \in Nat /\ tag'[l.rs] \in Nat /\ tag[l.rs] <= tag'[l.rs]
    BY <1>1 DEF TagsFollow
  <2> QED BY <1>1, <2>1 DEF GoodLink, TagsFollow
<1>2. Good(Event) \subseteq Good(Event)'
  BY <1>1 DEF Good, Event
<1>3. Good(ReadyNode) \subseteq Good(ReadyNode)'
  BY <1>1 DEF Good, ReadyNode
<1>4. Good(OdepLink) \subseteq Good(OdepLink)'
  BY <1>1 DEF Good, OdepLink
<1> QED BY <1>2, <1>3, <1>4

LEMMA LinksKept ==
  ASSUME LinksInv, tag \in [Station -> Nat], tag' \in [Station -> Nat], TagsFollow
  PROVE  /\ event_queue \in Seq(Good(Event)')
         /\ ready_queue \in Seq(Good(ReadyNode)')
         /\ node \in Seq(Good(ReadyNode)')
         /\ odep_list \in [Station -> Seq(Good(OdepLink)')]
<1>1. event_queue \in Seq(Good(Event)')
  BY GoodStaysGood, SeqMono DEF LinksInv
<1>2. ready_queue \in Seq(Good(ReadyNode)') /\ node \in Seq(Good(ReadyNode)')
  BY GoodStaysGood, SeqMono DEF LinksInv
<1>3. \A s \in Station : odep_list[s] \in Seq(Good(OdepLink)')
  BY GoodStaysGood, SeqMono DEF LinksInv
<1> QED BY <1>1, <1>2, <1>3 DEF LinksInv

-----------------------------------------------------------------------------
(* Retiring the oldest entry.                                              *)

\* The entry that ruu_commit retires, and its load or store.
Retired == {CommitHead} \cup (IF ent[CommitHead].ea_comp THEN {CommitMem} ELSE {})

\* What ruu_commit makes of the window.
LEMMA CommitWindow ==
  ASSUME CoreInv, Commit
  PROVE  /\ WinType' /\ EntType' /\ WindowInSync'
         /\ tag' = [s \in Station |-> IF s \in Retired THEN tag[s] + 1 ELSE tag[s]]
         /\ LiveRUU' = LiveRUU \ Retired /\ LiveLSQ' = LiveLSQ \ Retired
         /\ Live' = Live \ Retired
<1> DEFINE mem == ent[CommitHead].ea_comp
           d   == IF mem THEN 1 ELSE 0
           gone == Retired
<1>1. /\ stage = "commit" /\ RUU_num > 0
      /\ mem /\ IsStore(ent[CommitMem].op) =>
           /\ FreeTemplates(FuClassOf(ent[CommitMem].op)) # {}
           /\ LET fu == res_get(FuClassOf(ent[CommitMem].op))
              IN  busy' = [busy EXCEPT ![fu.unit] = fu.issuelat]
      /\ ~(mem /\ IsStore(ent[CommitMem].op)) => busy' = busy
      /\ LSQ_head' = IF mem THEN Inc(LSQ_head, LSQ_size) ELSE LSQ_head
      /\ LSQ_num' = IF mem THEN LSQ_num - 1 ELSE LSQ_num
      /\ RUU_head' = Inc(RUU_head, RUU_size) /\ RUU_num' = RUU_num - 1
      /\ RUU_tail' = RUU_tail /\ LSQ_tail' = LSQ_tail
  BY DEF Commit, CanRetire, MemCanRetire
<1>2. tag' = [s \in Station |-> IF s \in gone THEN tag[s] + 1 ELSE tag[s]]
  BY DEF Commit, NextTag, Retired
<1>3. /\ count' = count + 1 /\ sim_ret_insn' = sim_ret_insn + 1
      /\ UNCHANGED <<stage, wb, node, std_unknowns, ent, idep_ready, odep_list,
                     statusVars, cvVars, event_queue, ready_queue, nfree,
                     last_op, spec_mode, countVars>>
  BY DEF Commit
<1>4. /\ RUU_head \in 0 .. RUU_size - 1 /\ LSQ_head \in 0 .. LSQ_size - 1
      /\ RUU_num \in Int /\ LSQ_num \in Int
      /\ Win(ent, RUU_head, RUU_tail, RUU_num, LSQ_head, LSQ_tail, LSQ_num)
      /\ LiveRUU = LiveR(RUU_head, RUU_num) /\ LiveLSQ = LiveL(LSQ_head, LSQ_num)
  BY WindowForm DEF CoreInv, FixInv, WinType
<1>5. d \in {0, 1} /\ (d = 1 <=> ent[RUU(RUU_head)].ea_comp) /\ (d = 1 <=> mem)
  BY DEF CommitHead
<1> HIDE DEF d, gone, mem
<1>6. /\ LSQ_head' = IF d = 1 THEN Inc(LSQ_head, LSQ_size) ELSE LSQ_head
      /\ LSQ_num' = LSQ_num - d
  BY <1>1, <1>4, <1>5
<1>7. /\ Win(ent, RUU_head', RUU_tail, RUU_num', LSQ_head', LSQ_tail, LSQ_num')
      /\ LiveR(RUU_head', RUU_num') = LiveR(RUU_head, RUU_num) \ {RUU(RUU_head)}
      /\ LiveL(LSQ_head', LSQ_num') = LiveL(LSQ_head, LSQ_num)
                                        \ (IF d = 1 THEN {LSQ(LSQ_head)} ELSE {})
  <2>1. RUU_num > 0
    BY <1>1
  <2>2. /\ Win(ent, Inc(RUU_head, RUU_size), RUU_tail, RUU_num - 1, LSQ_head',
               LSQ_tail, LSQ_num - d)
        /\ LiveR(Inc(RUU_head, RUU_size), RUU_num - 1)
             = LiveR(RUU_head, RUU_num) \ {RUU(RUU_head)}
        /\ LiveL(LSQ_head', LSQ_num - d) = LiveL(LSQ_head, LSQ_num)
                                       \ (IF d = 1 THEN {LSQ(LSQ_head)} ELSE {})
    BY <1>4, <1>5, <1>6, <2>1, WinPopFirst
  <2> QED BY <1>1, <1>6, <2>2
<1>8. WinType'
  <2>1. RUU_head' \in 0 .. RUU_size - 1
    BY <1>1, <1>4, Sizes, AtInc
  <2>2. LSQ_head' \in 0 .. LSQ_size - 1
    BY <1>1, <1>4, Sizes, AtInc
  <2>3. RUU_num' \in Int /\ LSQ_num' \in Int
    BY <1>1, <1>4
  <2>4. RUU_tail' \in 0 .. RUU_size - 1 /\ LSQ_tail' \in 0 .. LSQ_size - 1
    BY <1>1 DEF CoreInv, FixInv, WinType
  <2> QED BY <2>1, <2>2, <2>3, <2>4 DEF WinType
<1>9. EntType'
  <2>1. tag' \in [Station -> Nat]
    BY <1>2 DEF CoreInv, FixInv, EntType
  <2> QED BY <1>3, <2>1 DEF CoreInv, FixInv, EntType, countVars
<1>10. /\ WindowInSync' /\ LiveRUU' = LiveR(RUU_head', RUU_num')
       /\ LiveLSQ' = LiveL(LSQ_head', LSQ_num')
  BY <1>1, <1>3, <1>7, <1>8, <1>9, WindowFormNext
<1>11. LiveRUU' = LiveRUU \ gone /\ LiveLSQ' = LiveLSQ \ gone
  <2>1. LiveRUU' = LiveRUU \ {RUU(RUU_head)}
    BY <1>4, <1>7, <1>10
  <2>2. LiveLSQ' = LiveLSQ \ (IF mem THEN {LSQ(LSQ_head)} ELSE {})
    BY <1>4, <1>5, <1>7, <1>10
  <2>3. RUU(RUU_head) \notin LiveLSQ /\ LSQ(LSQ_head) \notin LiveRUU
    BY Stations DEF LiveLSQ, LiveRUU, LSQ_slot, RUU_slot
  <2> QED BY <2>1, <2>2, <2>3 DEF gone, mem, Retired, CommitHead, CommitMem
<1>12. Live' = Live \ gone
  BY <1>11 DEF Live
<1> QED BY <1>2, <1>8, <1>9, <1>10, <1>11, <1>12 DEF gone

LEMMA CommitCore ==
  ASSUME CoreInv, Commit
  PROVE  CoreInv'
<1> DEFINE mem == ent[CommitHead].ea_comp
           gone == Retired
<1>1. /\ stage = "commit"
      /\ mem /\ IsStore(ent[CommitMem].op) =>
           /\ FreeTemplates(FuClassOf(ent[CommitMem].op)) # {}
           /\ LET fu == res_get(FuClassOf(ent[CommitMem].op))
              IN  busy' = [busy EXCEPT ![fu.unit] = fu.issuelat]
      /\ ~(mem /\ IsStore(ent[CommitMem].op)) => busy' = busy
  BY DEF Commit, CanRetire, MemCanRetire
<1>3. /\ count' = count + 1 /\ sim_ret_insn' = sim_ret_insn + 1
      /\ UNCHANGED <<stage, wb, node, std_unknowns, ent, idep_ready, odep_list,
                     statusVars, cvVars, event_queue, ready_queue, nfree,
                     last_op, spec_mode, countVars>>
  BY DEF Commit
<1>2. tag' = [s \in Station |-> IF s \in gone THEN tag[s] + 1 ELSE tag[s]]
  BY CommitWindow
<1>8. WinType' /\ WindowInSync'
  BY CommitWindow
<1>9. EntType'
  BY CommitWindow
<1>11. Live' = Live \ gone
  BY CommitWindow
<1>4. LSQ_head \in 0 .. LSQ_size - 1
  BY DEF CoreInv, FixInv, WinType
<1> HIDE DEF gone, mem
<1>12. SeqBound' /\ BranchesInRUU'
  BY <1>3, <1>11 DEF CoreInv, FixInv, SeqBound, BranchesInRUU, countVars
<1>13. TagsFollow
  <2>1. \A s \in Station : tag[s] \in Nat
    BY DEF CoreInv, FixInv, EntType
  <2> QED BY <1>2, <1>11, <2>1 DEF TagsFollow
<1>14. LinksInv'
  <2>1. tag \in [Station -> Nat] /\ tag' \in [Station -> Nat]
    BY <1>9 DEF CoreInv, FixInv, EntType
  <2>2. LinksInv
    BY DEF CoreInv
  <2> QED BY <1>3, <1>13, <2>1, <2>2, LinksKept DEF LinksInv
<1>15. busy' \in [Unit -> Nat]
  <2>1. busy \in [Unit -> Nat]
    BY DEF CoreInv, CntType
  <2>2. CASE mem /\ IsStore(ent[CommitMem].op)
    <3> DEFINE fu == res_get(FuClassOf(ent[CommitMem].op))
    <3>1. CommitMem \in Station
      BY <1>4, Stations DEF CommitMem
    <3>2. ent[CommitMem].op \in Op
      BY <3>1, EntryFields DEF CoreInv, FixInv
    <3>3. fu.unit \in Unit /\ fu.issuelat \in Nat
      BY <1>1, <2>2, <3>2, ClassOf, GetUnit
    <3>4. busy' = [busy EXCEPT ![fu.unit] = fu.issuelat]
      BY <1>1, <2>2
    <3> HIDE DEF fu
    <3> QED BY <2>1, <3>3, <3>4
  <2>3. CASE ~(mem /\ IsStore(ent[CommitMem].op))
    BY <1>1, <2>1, <2>3
  <2> QED BY <2>2, <2>3
<1>16. CtlType' /\ StatType' /\ CvType'
  <2>1. CtlType'
    BY <1>3 DEF CoreInv, CtlType
  <2>2. StatType'
    BY <1>3 DEF CoreInv, StatType, statusVars
  <2>3. CvType'
    BY <1>3 DEF CoreInv, CvType, cvVars
  <2> QED BY <2>1, <2>2, <2>3
<1>17. CntType'
  <2>1. sim_ret_insn' \in Nat
    BY <1>3 DEF CoreInv, CntType
  <2> QED BY <1>3, <1>15, <2>1 DEF CoreInv, CntType, countVars
<1>18. WbInv'
  BY <1>1, <1>3 DEF CoreInv, WbInv
<1> QED BY <1>8, <1>9, <1>12, <1>14, <1>16, <1>17, <1>18
        DEF CoreInv, FixInv

-----------------------------------------------------------------------------
(* Squashing the youngest entry.                                           *)

\* The youngest entries, and those that one iteration of ruu_recover removes.
LastRUU == RUU(Dec(RUU_tail, RUU_size))
LastLSQ == LSQ(Dec(LSQ_tail, LSQ_size))
Squashed == {LastRUU} \cup (IF ent[LastRUU].ea_comp THEN {LastLSQ} ELSE {})

\* What it makes of the window.
LEMMA SquashWindow ==
  ASSUME CoreInv, Squash
  PROVE  /\ WinType' /\ EntType' /\ WindowInSync' /\ Squashed \subseteq Station
         /\ tag' = [s \in Station |-> IF s \in Squashed THEN tag[s] + 1 ELSE tag[s]]
         /\ odep_list' = [s \in Station |->
                            IF s \in Squashed THEN <<>> ELSE odep_list[s]]
         /\ LiveRUU' = LiveRUU \ Squashed /\ LiveLSQ' = LiveLSQ \ Squashed
         /\ Live' = Live \ Squashed
<1> DEFINE r == LastRUU
           l == LastLSQ
           mem == ent[r].ea_comp
           d   == IF mem THEN 1 ELSE 0
           gone == Squashed
<1>1. /\ stage = "recover" /\ r # wb
      /\ RUU_tail' = Dec(RUU_tail, RUU_size)
      /\ LSQ_tail' = IF mem THEN Dec(LSQ_tail, LSQ_size) ELSE LSQ_tail
      /\ LSQ_num' = IF mem THEN LSQ_num - 1 ELSE LSQ_num
      /\ RUU_num' = RUU_num - 1
      /\ RUU_head' = RUU_head /\ LSQ_head' = LSQ_head
  BY DEF Squash, SquashesLSQ, RUU, LSQ, LastRUU, LastLSQ
<1>2. /\ tag' = [s \in Station |-> IF s \in gone THEN tag[s] + 1 ELSE tag[s]]
      /\ odep_list' = [s \in Station |->
                         IF s \in gone THEN <<>> ELSE odep_list[s]]
  BY DEF Squash, SquashesLSQ, NextTag, Squashed, LastRUU, LastLSQ
<1>4. UNCHANGED <<stage, count, wb, node, std_unknowns, ent, idep_ready,
                  statusVars, cvVars, event_queue, ready_queue, busy, last_op,
                  spec_mode, countVars, sim_ret_insn>>
  BY DEF Squash
<1>5. /\ RUU_head \in 0 .. RUU_size - 1 /\ LSQ_head \in 0 .. LSQ_size - 1
      /\ RUU_num \in Int /\ LSQ_num \in Int
      /\ Win(ent, RUU_head, RUU_tail, RUU_num, LSQ_head, LSQ_tail, LSQ_num)
      /\ LiveRUU = LiveR(RUU_head, RUU_num) /\ LiveLSQ = LiveL(LSQ_head, LSQ_num)
  BY WindowForm DEF CoreInv, FixInv, WinType
<1>6. RUU_num > 0
  <2>1. wb \in LiveRUU
    BY <1>1 DEF CoreInv, WbInv
  <2> QED BY <1>5, <2>1 DEF LiveRUU
<1>7. /\ d \in {0, 1} /\ (d = 1 <=> mem)
      /\ d = 1 <=> ent[RUU(Dec(RUU_tail, RUU_size))].ea_comp
  BY DEF LastRUU
<1>8. /\ RUU_tail' = r[2] /\ r = RUU(RUU_tail') /\ (mem => l = LSQ(LSQ_tail'))
  BY <1>1 DEF RUU, LastRUU, LastLSQ
<1> HIDE DEF d, gone, mem, r, l
<1>9. /\ LSQ_tail' = IF d = 1 THEN Dec(LSQ_tail, LSQ_size) ELSE LSQ_tail
      /\ LSQ_num' = LSQ_num - d
  BY <1>1, <1>5, <1>7
<1>10. /\ d = 1 => LSQ_num > 0
       /\ RUU_tail' \in 0 .. RUU_size - 1
       /\ d = 1 => LSQ_tail' \in 0 .. LSQ_size - 1
       /\ Win(ent, RUU_head, RUU_tail', RUU_num', LSQ_head, LSQ_tail', LSQ_num')
       /\ LiveR(RUU_head, RUU_num') = LiveR(RUU_head, RUU_num) \ {RUU(RUU_tail')}
       /\ LiveL(LSQ_head, LSQ_num') = LiveL(LSQ_head, LSQ_num)
                                        \ (IF d = 1 THEN {LSQ(LSQ_tail')} ELSE {})
  <2>1. RUU_tail' = Dec(RUU_tail, RUU_size)
    BY <1>1
  <2>a. d \in {0, 1} /\ (d = 1 <=> ent[RUU(Dec(RUU_tail, RUU_size))].ea_comp)
    BY <1>7
  <2>b. LSQ_tail' = IF d = 1 THEN Dec(LSQ_tail, LSQ_size) ELSE LSQ_tail
    BY <1>9
  <2>c. /\ RUU_head \in 0 .. RUU_size - 1 /\ LSQ_head \in 0 .. LSQ_size - 1
        /\ Win(ent, RUU_head, RUU_tail, RUU_num, LSQ_head, LSQ_tail, LSQ_num)
    BY <1>5
  <2>2. PoppedLast(ent, RUU_head, RUU_tail, RUU_num, LSQ_head, LSQ_tail, LSQ_num,
                   d, LSQ_tail')
    BY <1>6, <2>a, <2>b, <2>c, WinPopLast
  <2> QED BY <1>1, <1>9, <2>1, <2>2 DEF PoppedLast
<1>11. WinType'
  <2>1. LSQ_tail' \in 0 .. LSQ_size - 1
    <3>1. LSQ_tail \in 0 .. LSQ_size - 1
      BY DEF CoreInv, FixInv, WinType
    <3> QED BY <1>7, <1>9, <1>10, <3>1
  <2>2. RUU_num' \in Int /\ LSQ_num' \in Int
    BY <1>1, <1>5
  <2> QED BY <1>1, <1>5, <1>10, <2>1, <2>2 DEF WinType
<1>12. r \in Station /\ (mem => l \in Station)
  BY <1>7, <1>8, <1>10, Stations
<1>13. EntType'
  <2>1. tag' \in [Station -> Nat]
    BY <1>2 DEF CoreInv, FixInv, EntType
  <2> QED BY <1>4, <2>1 DEF CoreInv, FixInv, EntType, countVars
<1>14. /\ WindowInSync' /\ LiveRUU' = LiveR(RUU_head, RUU_num')
       /\ LiveLSQ' = LiveL(LSQ_head, LSQ_num')
  BY <1>1, <1>4, <1>10, <1>11, <1>13, WindowFormNext
<1>15. LiveRUU' = LiveRUU \ gone /\ LiveLSQ' = LiveLSQ \ gone
  <2>1. LiveRUU' = LiveRUU \ {r}
    BY <1>5, <1>8, <1>10, <1>14
  <2>2. LiveLSQ' = LiveLSQ \ (IF mem THEN {l} ELSE {})
    BY <1>5, <1>7, <1>8, <1>10, <1>14
  <2>3. r \notin LiveLSQ /\ (mem => l \notin LiveRUU)
    BY <1>8, Stations DEF LiveLSQ, LiveRUU, LSQ_slot, RUU_slot
  <2> QED BY <2>1, <2>2, <2>3 DEF gone, Squashed, mem, r, l
<1>16. Live' = Live \ gone
  BY <1>15 DEF Live
<1>17. gone \subseteq Station
  BY <1>12 DEF gone, Squashed, mem, r, l
<1> QED BY <1>2, <1>11, <1>13, <1>14, <1>15, <1>16, <1>17 DEF gone

LEMMA SquashCore ==
  ASSUME CoreInv, Squash
  PROVE  CoreInv'
<1> DEFINE r == LastRUU
           l == LastLSQ
           mem == ent[r].ea_comp
           gone == Squashed
<1>1. stage = "recover" /\ r # wb
  BY DEF Squash, LastRUU
<1>2. /\ tag' = [s \in Station |-> IF s \in gone THEN tag[s] + 1 ELSE tag[s]]
      /\ odep_list' = [s \in Station |->
                         IF s \in gone THEN <<>> ELSE odep_list[s]]
  BY SquashWindow
<1>3. nfree' = nfree + Len(odep_list[r]) + (IF mem THEN Len(odep_list[l]) ELSE 0)
  BY DEF Squash, SquashesLSQ, LastRUU, LastLSQ
<1>4. UNCHANGED <<stage, count, wb, node, std_unknowns, ent, idep_ready,
                  statusVars, cvVars, event_queue, ready_queue, busy, last_op,
                  spec_mode, countVars, sim_ret_insn>>
  BY DEF Squash
<1>11. WinType' /\ WindowInSync'
  BY SquashWindow
<1>12. r \in Station /\ (mem => l \in Station)
  BY SquashWindow DEF Squashed
<1>13. EntType'
  BY SquashWindow
<1>15. Live' = Live \ gone /\ LiveRUU' = LiveRUU \ gone
  BY SquashWindow
<1>14. wb \in LiveRUU'
  <2>1. wb \in LiveRUU
    BY <1>1 DEF CoreInv, WbInv
  <2>2. l \notin LiveRUU
    BY Stations DEF LiveRUU, RUU_slot, LastLSQ
  <2> QED BY <1>1, <1>15, <2>1, <2>2 DEF Squashed
<1> HIDE DEF gone, mem, r, l
<1>16. SeqBound' /\ BranchesInRUU'
  BY <1>4, <1>15 DEF CoreInv, FixInv, SeqBound, BranchesInRUU, countVars
<1>17. TagsFollow
  <2>1. \A s \in Station : tag[s] \in Nat
    BY DEF CoreInv, FixInv, EntType
  <2> QED BY <1>2, <1>15, <2>1 DEF TagsFollow
<1>18. LinksInv'
  <2>1. tag \in [Station -> Nat] /\ tag' \in [Station -> Nat] /\ LinksInv
    BY <1>13 DEF CoreInv, FixInv, EntType
  <2>2. /\ event_queue \in Seq(Good(Event)')
        /\ ready_queue \in Seq(Good(ReadyNode)')
        /\ node \in Seq(Good(ReadyNode)')
        /\ odep_list \in [Station -> Seq(Good(OdepLink)')]
    BY <1>17, <2>1, LinksKept
  <2>3. odep_list' \in [Station -> Seq(Good(OdepLink)')]
    <3>1. <<>> \in Seq(Good(OdepLink)')
      OBVIOUS
    <3> QED BY <1>2, <2>2, <3>1
  <2> QED BY <1>4, <2>2, <2>3 DEF LinksInv
<1>19. CtlType' /\ StatType' /\ CvType'
  <2>1. CtlType'
    BY <1>4 DEF CoreInv, CtlType
  <2>2. StatType'
    BY <1>4 DEF CoreInv, StatType, statusVars
  <2>3. CvType'
    BY <1>4 DEF CoreInv, CvType, cvVars
  <2> QED BY <2>1, <2>2, <2>3
<1>20. CntType'
  <2>1. nfree' \in Int
    <3>1. /\ Len(odep_list[r]) \in Nat
          /\ mem => Len(odep_list[l]) \in Nat
      BY <1>12, LenProperties DEF CoreInv, LinksInv
    <3>2. nfree \in Int
      BY DEF CoreInv, CntType
    <3>3. CASE mem
      BY <1>3, <3>1, <3>2, <3>3
    <3>4. CASE ~mem
      BY <1>3, <3>1, <3>2, <3>4
    <3> QED BY <3>3, <3>4
  <2> QED BY <1>4, <2>1 DEF CoreInv, CntType, countVars
<1>21. WbInv'
  BY <1>1, <1>4, <1>14 DEF CoreInv, WbInv
<1> QED BY <1>11, <1>13, <1>16, <1>18, <1>19, <1>20, <1>21
        DEF CoreInv, FixInv

-----------------------------------------------------------------------------
(* A new entry.                                                            *)

LEMMA Fresh ==
  ASSUME NEW e, NEW rh \in 0 .. RUU_size - 1, NEW rt, NEW rn,
         NEW lh \in 0 .. LSQ_size - 1, NEW lt, NEW ln,
         Win(e, rh, rt, rn, lh, lt, ln), rn < RUU_size, ln < LSQ_size
  PROVE  /\ RUU(rt) \notin LiveR(rh, rn) /\ LSQ(lt) \notin LiveL(lh, ln)
         /\ RUU(rt) \notin LiveL(lh, ln) /\ LSQ(lt) \notin LiveR(rh, rn)
<1>1. /\ rn \in 0 .. RUU_size - 1 /\ ln \in 0 .. LSQ_size - 1
      /\ rt = At(rh, rn, RUU_size) /\ lt = At(lh, ln, LSQ_size)
  BY Sizes DEF Win
<1>2. rt \notin Places(rh, rn, RUU_size) /\ lt \notin Places(lh, ln, LSQ_size)
  BY <1>1, Sizes, AddLast
<1>3. RUU(rt) \notin LiveR(rh, rn) /\ LSQ(lt) \notin LiveL(lh, ln)
  BY <1>2, LiveIsPlaces, Stations
<1>4. RUU(rt) \notin LiveL(lh, ln) /\ LSQ(lt) \notin LiveR(rh, rn)
  BY Stations DEF LiveL, LiveR
<1> QED BY <1>3, <1>4

\* What a new youngest entry makes of the window.
Pushed(e2, rh, rt, rn, lh, lt, ln, d, lt2) ==
  /\ Win(e2, rh, Inc(rt, RUU_size), rn + 1, lh, lt2, ln + d)
  /\ LiveR(rh, rn + 1) = LiveR(rh, rn) \cup {RUU(rt)}
  /\ LiveL(lh, ln + d) = LiveL(lh, ln) \cup (IF d = 1 THEN {LSQ(lt)} ELSE {})

\* e2 is e with a new entry that has the sequence number q + 1, its partner
\* q + 2.
Added(e, e2, rh, rt, rn, lh, lt, ln, q, d) ==
  /\ \A s \in LiveR(rh, rn) \cup LiveL(lh, ln) : e2[s] = e[s] /\ e[s].seq <= q
  /\ e2[RUU(rt)].seq = q + 1
  /\ d = 1 <=> e2[RUU(rt)].ea_comp
  /\ d = 1 => e2[LSQ(lt)].seq = q + 2

LEMMA WinPush ==
  ASSUME NEW e, NEW e2, NEW rh \in 0 .. RUU_size - 1, NEW rt, NEW rn,
         NEW lh \in 0 .. LSQ_size - 1, NEW lt, NEW ln,
         Win(e, rh, rt, rn, lh, lt, ln), rn < RUU_size, ln < LSQ_size,
         NEW q \in Nat, NEW d \in {0, 1},
         Added(e, e2, rh, rt, rn, lh, lt, ln, q, d),
         NEW lt2, lt2 = IF d = 1 THEN Inc(lt, LSQ_size) ELSE lt
  PROVE  Pushed(e2, rh, rt, rn, lh, lt, ln, d, lt2)
<1> USE Sizes
<1>1. /\ rn \in 0 .. RUU_size - 1 /\ ln \in 0 .. LSQ_size - 1
      /\ rt = At(rh, rn, RUU_size) /\ lt = At(lh, ln, LSQ_size)
      /\ Pairing(RSeq(e, rh), REa(e, rh), rn, LSeq(e, lh), ln)
  BY DEF Win
<1>2. \A k \in 0 .. rn - 1 : /\ k \in 0 .. RUU_size - 1
                             /\ RUU(At(rh, k, RUU_size)) \in LiveR(rh, rn)
  BY <1>1 DEF LiveR
<1>3. \A j \in 0 .. ln - 1 : /\ j \in 0 .. LSQ_size - 1
                             /\ LSQ(At(lh, j, LSQ_size)) \in LiveL(lh, ln)
  BY <1>1 DEF LiveL
<1>4. \A k \in 0 .. rn - 1 : /\ RSeq(e, rh)[k] <= q
                             /\ RSeq(e2, rh)[k] = RSeq(e, rh)[k]
                             /\ k \in REa(e2, rh) <=> k \in REa(e, rh)
  BY <1>2 DEF Added, RSeq, REa
<1>5. \A j \in 0 .. ln - 1 : /\ LSeq(e, lh)[j] <= q
                             /\ LSeq(e2, lh)[j] = LSeq(e, lh)[j]
  BY <1>3 DEF Added, LSeq
<1>6. RSeq(e2, rh)[rn] = q + 1 /\ (d = 1 <=> rn \in REa(e2, rh))
  BY <1>1 DEF Added, RSeq, REa
<1>7. d = 1 => LSeq(e2, lh)[ln] = q + 2
  BY <1>1 DEF Added, LSeq
<1>8. Pairing(RSeq(e2, rh), REa(e2, rh), rn + 1, LSeq(e2, lh), ln + d)
  <2>1. Joined(RSeq(e, rh), REa(e, rh), rn, LSeq(e, lh), ln, q,
               RSeq(e2, rh), REa(e2, rh), LSeq(e2, lh), d)
    BY <1>4, <1>5, <1>6, <1>7 DEF Joined
  <2> QED BY <1>1, <2>1, Push
<1>9. /\ Inc(rt, RUU_size) = At(rh, rn + 1, RUU_size)
      /\ Places(rh, rn + 1, RUU_size) = Places(rh, rn, RUU_size) \cup {rt}
  BY <1>1, AddLast
<1>10. /\ lt2 = At(lh, ln + d, LSQ_size)
       /\ Places(lh, ln + d, LSQ_size)
            = Places(lh, ln, LSQ_size) \cup (IF d = 1 THEN {lt} ELSE {})
  <2>1. CASE d = 1
    BY <1>1, <2>1, AddLast
  <2>2. CASE d = 0
    BY <1>1, <2>2
  <2> QED BY <2>1, <2>2
<1>11. Win(e2, rh, Inc(rt, RUU_size), rn + 1, lh, lt2, ln + d)
  <2>1. rn + 1 \in 0 .. RUU_size /\ ln + d \in 0 .. LSQ_size
    BY <1>1
  <2> QED BY <1>8, <1>9, <1>10, <2>1 DEF Win
<1>12. LiveR(rh, rn + 1) = LiveR(rh, rn) \cup {RUU(rt)}
  BY <1>9, LiveIsPlaces
<1>13. LiveL(lh, ln + d) = LiveL(lh, ln) \cup (IF d = 1 THEN {LSQ(lt)} ELSE {})
  <2>1. CASE d = 1
    BY <1>10, <2>1, LiveIsPlaces
  <2>2. CASE d # 1
    BY <1>10, <2>2, LiveIsPlaces
  <2> QED BY <2>1, <2>2
<1> QED BY <1>11, <1>12, <1>13 DEF Pushed

-----------------------------------------------------------------------------
(* Dispatch.                                                               *)

LEMMA WaitingNat == ASSUME NEW x PROVE Waiting(x) \in Nat
<1>1. IsFiniteSet(Operand)
  <2>1. Operand = {1} \cup {2}
    BY DEF Operand
  <2>2. IsFiniteSet({1}) /\ IsFiniteSet({2})
    BY FS_Singleton
  <2> QED BY <2>1, <2>2, FS_Union
<1>2. (Operand \ ReadyIdeps(x)) \in SUBSET Operand
  OBVIOUS
<1>3. IsFiniteSet(Operand \ ReadyIdeps(x))
  BY <1>1, <1>2, FS_Subset
<1> QED BY <1>3, FS_CardinalityType DEF Waiting

LEMMA LinksToSeq ==
  ASSUME NEW p, NEW s \in Station, NEW x, EntType, NEW S,
         \A k \in Operand : [rs |-> s, tag |-> tag[s], opnum |-> k] \in S
  PROVE  LinksTo(p, s, x) \in Seq(S)
<1> DEFINE link(k) == IF Creator(x[k]) = p
                      THEN <<[rs |-> s, tag |-> tag[s], opnum |-> k]>> ELSE <<>>
<1>1. \A k \in Operand : link(k) \in Seq(S)
  OBVIOUS
<1>2. 1 \in Operand /\ 2 \in Operand
  BY DEF Operand
<1>3. LinksTo(p, s, x) = link(2) \o link(1)
  BY DEF LinksTo
<1> HIDE DEF link
<1> QED BY <1>1, <1>2, <1>3, ConcatProperties

LEMMA InstallType ==
  ASSUME CvType, NEW creates, DOMAIN creates \subseteq Reg,
         \A r \in DOMAIN creates : creates[r] \in Station,
         InstallOdeps(creates)
  PROVE  CvType'
<1> DEFINE regs == DOMAIN creates
           set(cv) == [r \in Reg |-> IF r \in regs THEN creates[r] ELSE cv[r]]
<1>1. \A cv \in [Reg -> Station \cup {None}] :
        set(cv) \in [Reg -> Station \cup {None}]
  OBVIOUS
<1>2. \/ /\ use_spec_cv' = use_spec_cv \cup regs
         /\ spec_create_vector' = set(spec_create_vector)
         /\ create_vector' = create_vector
      \/ /\ create_vector' = set(create_vector)
         /\ use_spec_cv' = use_spec_cv
         /\ spec_create_vector' = spec_create_vector
  BY DEF InstallOdeps
<1> HIDE DEF set
<1> QED BY <1>1, <1>2 DEF CvType

\* The stations that instruction i takes, and what ruu_dispatch writes there.
NewRUU == RUU(RUU_tail)
NewLSQ == LSQ(LSQ_tail)
New(i) == {NewRUU} \cup (IF IsMem(i.kind) THEN {NewLSQ} ELSE {})
NewOp(i, s)  == IF s = NewRUU /\ IsMem(i.kind) THEN "agen" ELSE i.kind
NewIns(i, s) == IF s = NewRUU THEN i.ins ELSE LsqIns(i)
NewOut(i, s) == IF s = NewRUU /\ IsMem(i.kind) THEN DTMP ELSE i.out
NewSeq(s)    == IF s = NewRUU THEN inst_seq + 1 ELSE inst_seq + 2
NewEntry(i, mp, s) ==
  [op |-> NewOp(i, s), ins |-> NewIns(i, s), out |-> NewOut(i, s),
   addr |-> i.addr, ea_comp |-> IsMem(i.kind) /\ s = NewRUU,
   spec |-> spec_mode, recover_inst |-> mp /\ s = NewRUU,
   seq |-> NewSeq(s), num |-> IF spec_mode THEN 0 ELSE sim_num_insn + 1]

\* Those it puts on the ready queue, and the queue after that.
NewQueued(i) == {s \in New(i) : /\ ReadyIdeps(NewIns(i, s)) = Operand
                                /\ s = NewRUU \/ IsStore(i.kind)}
QueueRUU(i) ==
  IF NewRUU \in NewQueued(i)
  THEN readyq_enqueue(ready_queue, NewRUU, NewOp(i, NewRUU), NewSeq(NewRUU))
  ELSE ready_queue
QueueBoth(i) ==
  IF NewLSQ \in NewQueued(i)
  THEN readyq_enqueue(QueueRUU(i), NewLSQ, NewOp(i, NewLSQ), NewSeq(NewLSQ))
  ELSE QueueRUU(i)

\* The links it puts on p's consumer list, and the registers it renames.
NewLinks(i, p) ==
  (IF IsMem(i.kind) THEN LinksTo(p, NewLSQ, NewIns(i, NewLSQ)) ELSE <<>>)
    \o LinksTo(p, NewRUU, NewIns(i, NewRUU))
Creates(i) == [r \in {NewOut(i, s) : s \in New(i)} \ {NA} |->
                 IF IsMem(i.kind) /\ r # DTMP THEN NewLSQ ELSE NewRUU]

LEMMA DispatchParts ==
  ASSUME NEW i, NEW mp, Dispatch(i, mp)
  PROVE  /\ stage = "dispatch" /\ RUU_num < RUU_size /\ LSQ_num < LSQ_size
         /\ ent' = [s \in Station |-> IF s \in New(i) THEN NewEntry(i, mp, s)
                                      ELSE ent[s]]
         /\ idep_ready' = [s \in Station |->
              IF s \in New(i) THEN ReadyIdeps(NewIns(i, s)) ELSE idep_ready[s]]
         /\ odep_list' = [s \in Station |->
              IF s \in New(i) /\ NewOut(i, s) # NA THEN <<>>
              ELSE NewLinks(i, s) \o odep_list[s]]
         /\ queued' = (queued \ New(i)) \cup NewQueued(i)
         /\ issued' = issued \ New(i) /\ completed' = completed \ New(i)
         /\ ready_queue' = QueueBoth(i)
         /\ InstallOdeps(Creates(i))
         /\ Drains(i.kind) => RUU_num = 0
         /\ sim_num_insn' = IF spec_mode THEN sim_num_insn ELSE sim_num_insn + 1
         /\ count' = count + 1 /\ spec_mode' = (spec_mode \/ mp)
         /\ UNCHANGED <<stage, wb, node, std_unknowns, RUU_head, LSQ_head, tag,
                        event_queue, busy, sim_ret_insn>>
BY DEF Dispatch, NewRUU, NewLSQ, New, NewOp, NewIns, NewOut, NewSeq, NewEntry,
       NewQueued, QueueRUU, QueueBoth, NewLinks, Creates

\* What a dispatch makes of the window.
LEMMA DispatchWindow ==
  ASSUME CoreInv, NEW i \in Inst, NEW mp \in BOOLEAN, Dispatch(i, mp)
  PROVE  /\ WinType' /\ EntType' /\ WindowInSync'
         /\ NewRUU \in Station /\ NewLSQ \in Station /\ NewRUU # NewLSQ
         /\ NewRUU \notin Live /\ NewLSQ \notin Live
         /\ LiveRUU' = LiveRUU \cup {NewRUU}
         /\ LiveLSQ' = LiveLSQ \cup (IF IsMem(i.kind) THEN {NewLSQ} ELSE {})
         /\ Live' = Live \cup New(i)
<1> USE DEF NewRUU, NewLSQ, New, NewOp, NewIns, NewOut, NewSeq, NewEntry,
            NewQueued, QueueRUU, QueueBoth, NewLinks, Creates
<1> DEFINE rs  == NewRUU
           l   == NewLSQ
           mem == IsMem(i.kind)
           d   == IF mem THEN 1 ELSE 0
           new == New(i)
           op(s)  == NewOp(i, s)
           ins(s) == NewIns(i, s)
           out(s) == NewOut(i, s)
           seq(s) == NewSeq(s)
           rec(s) == NewEntry(i, mp, s)
<1>1. /\ stage = "dispatch" /\ RUU_num < RUU_size /\ LSQ_num < LSQ_size
      /\ ent' = [s \in Station |-> IF s \in new THEN rec(s) ELSE ent[s]]
  BY DEF Dispatch
<1>6. /\ RUU_tail' = Inc(RUU_tail, RUU_size) /\ RUU_num' = RUU_num + 1
      /\ LSQ_tail' = IF mem THEN Inc(LSQ_tail, LSQ_size) ELSE LSQ_tail
      /\ LSQ_num' = IF mem THEN LSQ_num + 1 ELSE LSQ_num
      /\ inst_seq' = IF mem THEN inst_seq + 2 ELSE inst_seq + 1
  BY DEF Dispatch
<1>8. UNCHANGED <<stage, wb, node, std_unknowns, RUU_head, LSQ_head, tag,
                  event_queue, busy, sim_ret_insn>>
  BY DEF Dispatch
\* The new stations.
<1>9. /\ RUU_head \in 0 .. RUU_size - 1 /\ LSQ_head \in 0 .. LSQ_size - 1
      /\ RUU_tail \in 0 .. RUU_size - 1 /\ LSQ_tail \in 0 .. LSQ_size - 1
      /\ RUU_num \in Int /\ LSQ_num \in Int
      /\ Win(ent, RUU_head, RUU_tail, RUU_num, LSQ_head, LSQ_tail, LSQ_num)
      /\ LiveRUU = LiveR(RUU_head, RUU_num) /\ LiveLSQ = LiveL(LSQ_head, LSQ_num)
  BY WindowForm DEF CoreInv, FixInv, WinType
<1>10. rs \in Station /\ l \in Station /\ rs # l
  BY <1>9, Stations
<1>11. rs \notin Live /\ l \notin Live
  BY <1>1, <1>9, Fresh DEF Live
<1>12. d \in {0, 1} /\ (d = 1 <=> mem) /\ new \subseteq Station /\ rs \in new
       /\ (mem => l \in new)
  BY <1>10
<1>13. /\ i.kind \in Kind /\ i.ins \in [Operand -> Reg \cup {NA}]
       /\ i.out \in Reg \cup {NA} /\ i.addr \in Addr
       /\ LsqIns(i) \in [Operand -> Reg \cup {NA}]
  BY InstAssumption DEF InstType, LsqIns
<1>14. /\ inst_seq \in Nat /\ sim_num_insn \in Nat /\ spec_mode \in BOOLEAN
       /\ tag \in [Station -> Nat] /\ ent \in [Station -> Entry]
  BY DEF CoreInv, FixInv, EntType, CntType
<1>15. \A s \in new : rec(s) \in Entry
  <2> SUFFICES ASSUME NEW s \in new PROVE rec(s) \in Entry
    OBVIOUS
  <2>1. op(s) \in Op /\ ins(s) \in [Operand -> Reg \cup {NA}] /\ seq(s) \in Nat
    BY <1>13, <1>14 DEF Op
  <2>2. out(s) \in Reg \cup {NA}
    BY <1>13, InstAssumption
  <2>3. /\ (mem /\ s = rs) \in BOOLEAN /\ (mp /\ s = rs) \in BOOLEAN
        /\ spec_mode \in BOOLEAN
    BY <1>14, Zenon
  <2>4. (IF spec_mode THEN 0 ELSE sim_num_insn + 1) \in Nat
    BY <1>14
  <2>5. i.addr \in Addr
    BY <1>13
  <2> HIDE DEF op, ins, seq, out, mem
  <2>6. [op |-> op(s), ins |-> ins(s), out |-> out(s), addr |-> i.addr,
         ea_comp |-> mem /\ s = rs, spec |-> spec_mode,
         recover_inst |-> mp /\ s = rs, seq |-> seq(s),
         num |-> IF spec_mode THEN 0 ELSE sim_num_insn + 1] \in Entry
    BY <2>1, <2>2, <2>3, <2>4, <2>5, Zenon DEF Entry
  <2> QED
    BY <2>6, Zenon DEF rec, op, ins, seq, out, mem
<1>16. \A s \in new : seq(s) \in {inst_seq + 1, inst_seq + 2}
  OBVIOUS
<1>17. /\ ent'[rs].seq = inst_seq + 1 /\ (d = 1 <=> ent'[rs].ea_comp)
       /\ d = 1 => ent'[l].seq = inst_seq + 2
  BY <1>1, <1>10, <1>12
<1>18. \A s \in Station : /\ s \in new => ent'[s].seq = seq(s)
                          /\ s \in new => (ent'[s].recover_inst <=> mp /\ s = rs)
                          /\ s \notin new => ent'[s] = ent[s]
  BY <1>1
<1>19. new \cap Live = {}
  BY <1>11
<1> HIDE DEF rec
<1>20. EntType'
  <2>1. ent' \in [Station -> Entry]
    BY <1>1, <1>14, <1>15
  <2>2. inst_seq' \in Nat
    BY <1>6, <1>14
  <2> QED BY <1>8, <1>14, <2>1, <2>2 DEF EntType
\* The window.
<1>21. LSQ_tail' = (IF d = 1 THEN Inc(LSQ_tail, LSQ_size) ELSE LSQ_tail)
       /\ LSQ_num' = LSQ_num + d
  BY <1>6, <1>9, <1>12
<1>22. Added(ent, ent', RUU_head, RUU_tail, RUU_num, LSQ_head, LSQ_tail, LSQ_num,
             inst_seq, d)
  <2>1. \A s \in Live : s \in Station /\ s \notin new /\ ent[s].seq <= inst_seq
    BY <1>19, LiveStations DEF CoreInv, FixInv, SeqBound
  <2>2. \A s \in Live : ent'[s] = ent[s] /\ ent[s].seq <= inst_seq
    BY <1>18, <2>1
  <2>3. Live = LiveR(RUU_head, RUU_num) \cup LiveL(LSQ_head, LSQ_num)
    BY <1>9 DEF Live
  <2> QED BY <1>17, <2>2, <2>3 DEF Added
<1>23. Pushed(ent', RUU_head, RUU_tail, RUU_num, LSQ_head, LSQ_tail, LSQ_num, d,
              LSQ_tail')
  BY <1>1, <1>9, <1>12, <1>14, <1>21, <1>22, WinPush
<1>24. WinType'
  <2>1. RUU_tail' \in 0 .. RUU_size - 1
    BY <1>6, <1>9, Sizes, AtInc
  <2>2. LSQ_tail' \in 0 .. LSQ_size - 1
    BY <1>6, <1>9, Sizes, AtInc
  <2>3. RUU_num' \in Int /\ LSQ_num' \in Int
    BY <1>6, <1>9, <1>12, <1>21
  <2> QED BY <1>8, <1>9, <2>1, <2>2, <2>3 DEF WinType
<1>25. /\ WindowInSync' /\ LiveRUU' = LiveR(RUU_head, RUU_num + 1)
       /\ LiveLSQ' = LiveL(LSQ_head, LSQ_num + d)
  <2>1. Win(ent', RUU_head', RUU_tail', RUU_num', LSQ_head', LSQ_tail', LSQ_num')
    BY <1>6, <1>8, <1>21, <1>23 DEF Pushed
  <2>2. /\ WindowInSync' /\ LiveRUU' = LiveR(RUU_head', RUU_num')
        /\ LiveLSQ' = LiveL(LSQ_head', LSQ_num')
    BY <1>20, <1>24, <2>1, WindowFormNext
  <2> QED BY <1>6, <1>8, <1>21, <2>2
<1>26. /\ LiveRUU' = LiveRUU \cup {rs}
       /\ LiveLSQ' = LiveLSQ \cup (IF mem THEN {l} ELSE {})
  <2>1. LiveRUU' = LiveRUU \cup {rs}
    BY <1>9, <1>23, <1>25 DEF Pushed
  <2>2. LiveLSQ' = LiveLSQ \cup (IF mem THEN {l} ELSE {})
    BY <1>9, <1>12, <1>23, <1>25 DEF Pushed
  <2> QED BY <2>1, <2>2
<1>27. Live' = Live \cup new
  BY <1>26 DEF Live
<1> QED BY <1>10, <1>11, <1>20, <1>24, <1>25, <1>26, <1>27

LEMMA DispatchCore ==
  ASSUME CoreInv, NEW i \in Inst, NEW mp \in BOOLEAN, Dispatch(i, mp)
  PROVE  CoreInv'
<1> USE DEF NewRUU, NewLSQ, New, NewOp, NewIns, NewOut, NewSeq, NewEntry,
            NewQueued, QueueRUU, QueueBoth, NewLinks, Creates
<1> DEFINE rs  == NewRUU
           l   == NewLSQ
           mem == IsMem(i.kind)
           d   == IF mem THEN 1 ELSE 0
           new == New(i)
           op(s)  == NewOp(i, s)
           ins(s) == NewIns(i, s)
           out(s) == NewOut(i, s)
           seq(s) == NewSeq(s)
           queue  == NewQueued(i)
           q1 == QueueRUU(i)
           q2 == QueueBoth(i)
           links(p) == NewLinks(i, p)
           creates == Creates(i)
           rec(s) == NewEntry(i, mp, s)
<1>1. /\ stage = "dispatch" /\ RUU_num < RUU_size /\ LSQ_num < LSQ_size
      /\ ent' = [s \in Station |-> IF s \in new THEN rec(s) ELSE ent[s]]
  BY DEF Dispatch
<1>2. /\ idep_ready' = [s \in Station |-> IF s \in new THEN ReadyIdeps(ins(s))
                                          ELSE idep_ready[s]]
      /\ odep_list' = [s \in Station |-> IF s \in new /\ out(s) # NA THEN <<>>
                                         ELSE links(s) \o odep_list[s]]
  BY DEF Dispatch
<1>3. /\ queued' = (queued \ new) \cup queue /\ issued' = issued \ new
      /\ completed' = completed \ new /\ ready_queue' = q2
  BY DEF Dispatch
<1>4. InstallOdeps(creates)
  BY DEF Dispatch
<1>5. nfree' = nfree - Waiting(ins(rs))
                  - (IF mem THEN Waiting(ins(l)) ELSE 0) - Cardinality(queue)
  BY DEF Dispatch
<1>6. /\ RUU_tail' = Inc(RUU_tail, RUU_size) /\ RUU_num' = RUU_num + 1
      /\ LSQ_tail' = IF mem THEN Inc(LSQ_tail, LSQ_size) ELSE LSQ_tail
      /\ LSQ_num' = IF mem THEN LSQ_num + 1 ELSE LSQ_num
      /\ inst_seq' = IF mem THEN inst_seq + 2 ELSE inst_seq + 1
      /\ count' = count + 1
      /\ sim_total_insn' = sim_total_insn + 1
      /\ sim_num_insn' = IF spec_mode THEN sim_num_insn ELSE sim_num_insn + 1
  BY DEF Dispatch
<1>7. last_op' \in {None, Link(l), Link(rs)} /\ spec_mode' = (spec_mode \/ mp)
  BY DEF Dispatch
<1>8. UNCHANGED <<stage, wb, node, std_unknowns, RUU_head, LSQ_head, tag,
                  event_queue, busy, sim_ret_insn>>
  BY DEF Dispatch
\* The new stations.
<1>9. RUU_tail \in 0 .. RUU_size - 1
  BY DEF CoreInv, FixInv, WinType
<1>10. rs \in Station /\ l \in Station /\ rs # l
  BY DispatchWindow
<1>11. rs \notin Live /\ l \notin Live
  BY DispatchWindow
<1>12. d \in {0, 1} /\ (d = 1 <=> mem) /\ new \subseteq Station /\ rs \in new
       /\ (mem => l \in new)
  BY <1>10
<1>13. /\ i.kind \in Kind /\ i.ins \in [Operand -> Reg \cup {NA}]
       /\ i.out \in Reg \cup {NA} /\ i.addr \in Addr
       /\ LsqIns(i) \in [Operand -> Reg \cup {NA}]
  BY InstAssumption DEF InstType, LsqIns
<1>14. /\ inst_seq \in Nat /\ sim_num_insn \in Nat /\ spec_mode \in BOOLEAN
       /\ tag \in [Station -> Nat] /\ ent \in [Station -> Entry]
  BY DEF CoreInv, FixInv, EntType, CntType
<1>17. /\ ent'[rs].seq = inst_seq + 1 /\ (d = 1 <=> ent'[rs].ea_comp)
       /\ d = 1 => ent'[l].seq = inst_seq + 2
  BY <1>1, <1>10, <1>12
<1>18. \A s \in Station : /\ s \in new => ent'[s].seq = seq(s)
                          /\ s \in new => (ent'[s].recover_inst <=> mp /\ s = rs)
                          /\ s \notin new => ent'[s] = ent[s]
  BY <1>1
<1>19. new \cap Live = {}
  BY <1>11
<1> HIDE DEF rec
<1>20. WinType' /\ EntType' /\ WindowInSync'
  BY DispatchWindow
<1>26. Live' = Live \cup new
  BY DispatchWindow
<1>27. SeqBound'
  <2> SUFFICES ASSUME NEW s \in Live'
               PROVE  ent'[s].seq <= inst_seq'
    BY DEF SeqBound
  <2>1. CASE s \in Live
    <3>1. s \in Station /\ s \notin new /\ ent[s].seq <= inst_seq
      BY <1>19, <2>1, LiveStations DEF CoreInv, FixInv, SeqBound
    <3>2. ent[s].seq \in Nat
      BY <3>1, EntryFields DEF CoreInv, FixInv
    <3> QED BY <1>6, <1>14, <1>18, <3>1, <3>2
  <2>2. CASE s \in new
    <3>1. s = rs \/ (mem /\ s = l)
      BY <2>2
    <3> QED BY <1>6, <1>12, <1>14, <1>17, <3>1
  <2> QED BY <1>26, <2>1, <2>2
<1>28. BranchesInRUU'
  <2> SUFFICES ASSUME NEW s \in Station, ent'[s].recover_inst
               PROVE  s \in {RUU(k) : k \in 0 .. RUU_size - 1}
    BY DEF BranchesInRUU
  <2>1. CASE s \in new
    BY <1>9, <1>18, <2>1
  <2>2. CASE s \notin new
    BY <1>18, <2>2 DEF CoreInv, FixInv, BranchesInRUU
  <2> QED BY <2>1, <2>2
<1>29. FixInv'
  BY <1>20, <1>27, <1>28 DEF FixInv
\* The links.
<1>30. TagsFollow
  BY <1>8, <1>14, <1>26 DEF TagsFollow
<1>31. /\ event_queue \in Seq(Good(Event)')
       /\ ready_queue \in Seq(Good(ReadyNode)')
       /\ node \in Seq(Good(ReadyNode)')
       /\ odep_list \in [Station -> Seq(Good(OdepLink)')]
  BY <1>8, <1>14, <1>30, LinksKept DEF CoreInv
<1>32. \A s \in new : /\ \A k \in Operand :
                           [rs |-> s, tag |-> tag[s], opnum |-> k] \in Good(OdepLink)'
                      /\ [rs |-> s, tag |-> tag[s], seq |-> seq(s)]
                           \in Good(ReadyNode)'
  <2> SUFFICES ASSUME NEW s \in new
               PROVE  /\ \A k \in Operand :
                           [rs |-> s, tag |-> tag[s], opnum |-> k] \in Good(OdepLink)'
                      /\ [rs |-> s, tag |-> tag[s], seq |-> seq(s)]
                           \in Good(ReadyNode)'
    OBVIOUS
  <2>1. s \in Station /\ tag[s] \in Nat /\ s \in Live' /\ tag' = tag
    BY <1>8, <1>12, <1>14, <1>26
  <2>2. seq(s) \in Nat
    BY <1>14
  <2> HIDE DEF seq, new
  <2>3. \A k \in Operand : [rs |-> s, tag |-> tag[s], opnum |-> k] \in Good(OdepLink)'
    BY <2>1 DEF Good, GoodLink, OdepLink
  <2>4. [rs |-> s, tag |-> tag[s], seq |-> seq(s)] \in Good(ReadyNode)'
    BY <2>1, <2>2 DEF Good, GoodLink, ReadyNode
  <2> QED BY <2>3, <2>4
<1>33. ready_queue' \in Seq(Good(ReadyNode)')
  <2> DEFINE S == Good(ReadyNode)'
  <2>1. rs \in queue => rs \in new
    OBVIOUS
  <2>2. l \in queue => l \in new
    OBVIOUS
  <2>3. ready_queue \in Seq(S)
    BY <1>31
  <2>4. \A s \in new : [rs |-> s, tag |-> tag[s], seq |-> seq(s)] \in S
    BY <1>32
  <2>5. /\ q1 = IF rs \in queue THEN readyq_enqueue(ready_queue, rs, op(rs), seq(rs))
               ELSE ready_queue
        /\ q2 = IF l \in queue THEN readyq_enqueue(q1, l, op(l), seq(l)) ELSE q1
    OBVIOUS
  <2> HIDE DEF S, queue, new, op, seq, q1, q2, NewOp, NewSeq, NewQueued, New
  <2>6. q1 \in Seq(S)
    <3>1. CASE rs \in queue
      <4>1. readyq_enqueue(ready_queue, rs, op(rs), seq(rs)) \in Seq(S)
        BY <2>1, <2>3, <2>4, <3>1, EnqueueSeq
      <4> QED BY <2>5, <3>1, <4>1
    <3>2. CASE rs \notin queue
      BY <2>3, <2>5, <3>2
    <3> QED BY <3>1, <3>2
  <2>7. q2 \in Seq(S)
    <3>1. CASE l \in queue
      <4>1. readyq_enqueue(q1, l, op(l), seq(l)) \in Seq(S)
        BY <2>2, <2>4, <2>6, <3>1, EnqueueSeq
      <4> QED BY <2>5, <3>1, <4>1
    <3>2. CASE l \notin queue
      BY <2>5, <2>6, <3>2
    <3> QED BY <3>1, <3>2
  <2> QED BY <1>3, <2>7 DEF S
<1>34. odep_list' \in [Station -> Seq(Good(OdepLink)')]
  <2> DEFINE S == Good(OdepLink)'
  <2>1. odep_list \in [Station -> Seq(S)]
    BY <1>31
  <2>2. \A s \in new : \A k \in Operand :
          [rs |-> s, tag |-> tag[s], opnum |-> k] \in S
    BY <1>32
  <2>3. EntType
    BY DEF CoreInv, FixInv
  <2> HIDE DEF S, ins, out
  <2>4. ASSUME NEW s \in Station
        PROVE  links(s) \in Seq(S)
    <3>1. LinksTo(s, rs, ins(rs)) \in Seq(S)
      BY <1>10, <1>12, <2>2, <2>3, LinksToSeq
    <3>2. mem => LinksTo(s, l, ins(l)) \in Seq(S)
      BY <1>10, <1>12, <2>2, <2>3, LinksToSeq
    <3>3. <<>> \in Seq(S)
      OBVIOUS
    <3> DEFINE a == IF mem THEN LinksTo(s, l, ins(l)) ELSE <<>>
               b == LinksTo(s, rs, ins(rs))
    <3>4. links(s) = a \o b
      BY DEF ins
    <3>5. a \in Seq(S)
      BY <3>2, <3>3
    <3> HIDE DEF a, b, links
    <3>6. b \in Seq(S)
      BY <3>1 DEF b
    <3> QED BY <3>4, <3>5, <3>6, ConcatProperties
  <2> HIDE DEF links, new
  <2>5. ASSUME NEW s \in Station
        PROVE  (IF s \in new /\ out(s) # NA THEN <<>> ELSE links(s) \o odep_list[s])
                 \in Seq(S)
    <3>1. links(s) \o odep_list[s] \in Seq(S)
      BY <2>1, <2>4, ConcatProperties
    <3>2. <<>> \in Seq(S)
      OBVIOUS
    <3> QED BY <3>1, <3>2
  <2>6. odep_list' \in [Station -> Seq(S)]
    BY <1>2, <2>5
  <2> QED BY <2>6 DEF S
<1>35. LinksInv'
  BY <1>8, <1>31, <1>33, <1>34 DEF LinksInv
\* The types of the rest.
<1>36. StatType'
  <2>1. \A s \in new : ReadyIdeps(ins(s)) \in SUBSET Operand
    BY DEF ReadyIdeps
  <2>2. idep_ready' \in [Station -> SUBSET Operand]
    <3> HIDE DEF ins, new
    <3>1. idep_ready \in [Station -> SUBSET Operand]
      BY DEF CoreInv, StatType
    <3> QED BY <1>2, <2>1, <3>1
  <2>3. queue \subseteq Station
    BY <1>12
  <2> HIDE DEF queue, new
  <2>4. queued' \subseteq Station /\ issued' \subseteq Station
        /\ completed' \subseteq Station
    BY <1>3, <2>3 DEF CoreInv, StatType
  <2> QED BY <2>2, <2>4 DEF StatType
<1>37. CvType'
  <2>1. DOMAIN creates \subseteq Reg
    BY <1>13, InstAssumption
  <2>2. \A r \in DOMAIN creates : creates[r] \in Station
    BY <1>10
  <2>3. CvType
    BY DEF CoreInv
  <2> HIDE DEF creates
  <2> QED BY <1>4, <2>1, <2>2, <2>3, InstallType
<1>38. nfree' \in Int
  <2>1. IsFiniteSet(new)
    <3>1. IsFiniteSet({rs}) /\ IsFiniteSet({l}) /\ IsFiniteSet({})
      BY FS_Singleton, FS_EmptySet
    <3> QED BY <3>1, FS_Union
  <2>2. queue \in SUBSET new
    OBVIOUS
  <2>3. Cardinality(queue) \in Nat
    <3> HIDE DEF queue, new
    <3>1. IsFiniteSet(queue)
      BY <2>1, <2>2, FS_Subset
    <3> QED BY <3>1, FS_CardinalityType
  <2>4. Waiting(ins(rs)) \in Nat /\ Waiting(ins(l)) \in Nat
    BY WaitingNat
  <2>5. nfree \in Int
    BY DEF CoreInv, CntType
  <2> HIDE DEF queue, ins
  <2> QED BY <1>5, <2>3, <2>4, <2>5
<1>39. last_op' \in [rs : Station, tag : Nat] \cup {None}
  BY <1>7, <1>10, <1>14 DEF Link
<1>40. spec_mode' \in BOOLEAN
  BY <1>7, Zenon
<1>41. CntType'
  <2>1. sim_total_insn' \in Nat /\ sim_num_insn' \in Nat
    BY <1>6, <1>14 DEF CoreInv, CntType
  <2> QED BY <1>8, <1>38, <1>39, <1>40, <2>1 DEF CoreInv, CntType
<1>42. CtlType'
  BY <1>6, <1>8 DEF CoreInv, CtlType
<1>43. WbInv'
  BY <1>1, <1>8 DEF CoreInv, WbInv
<1> QED BY <1>29, <1>35, <1>36, <1>37, <1>41, <1>42, <1>43 DEF CoreInv

-----------------------------------------------------------------------------
(* The invariant holds in every reachable state.                           *)

LEMMA StutterCore ==
  ASSUME CoreInv, UNCHANGED vars
  PROVE  CoreInv'
<1> USE DEF vars
<1>1. Still
  BY DEF Still, countVars
<1>2. CtlType'
  BY DEF CoreInv, CtlType
<1>3. StatType'
  BY DEF CoreInv, StatType, statusVars
<1>4. CvType'
  BY DEF CoreInv, CvType, cvVars
<1>5. CntType'
  BY DEF CoreInv, CntType, countVars
<1>6. /\ stage' \in {"recover", "broadcast"} => wb' \in Station
      /\ stage' = "recover" => wb' \in LiveRUU
  BY DEF CoreInv, WbInv
<1>7. /\ event_queue' \in Seq(Good(Event))
      /\ ready_queue' \in Seq(Good(ReadyNode))
      /\ node' \in Seq(Good(ReadyNode))
      /\ odep_list' \in [Station -> Seq(Good(OdepLink))]
  BY DEF CoreInv, LinksInv
<1> QED BY <1>1, <1>2, <1>3, <1>4, <1>5, <1>6, <1>7, StillCore

LEMMA NextCore == CoreInv /\ [Next]_vars => CoreInv'
<1> SUFFICES ASSUME CoreInv, [Next]_vars PROVE CoreInv'
  OBVIOUS
<1>1. CASE Commit BY <1>1, CommitCore
<1>2. CASE CommitEnd BY <1>2, CommitEndCore
<1>3. CASE SkipEvent BY <1>3, SkipEventCore
<1>4. CASE Complete BY <1>4, CompleteCore
<1>5. CASE CompleteMispredicted BY <1>5, CompleteMispredictedCore
<1>6. CASE WritebackEnd BY <1>6, WritebackEndCore
<1>7. CASE Squash BY <1>7, SquashCore
<1>8. CASE RecoverEnd BY <1>8, RecoverEndCore
<1>9. CASE Broadcast BY <1>9, BroadcastCore
<1>10. CASE BroadcastEnd BY <1>10, BroadcastEndCore
<1>11. CASE Refresh BY <1>11, RefreshCore
<1>12. CASE RefreshEnd BY <1>12, RefreshEndCore
<1>13. CASE IssueSkip BY <1>13, IssueSkipCore
<1>14. CASE IssueEnd BY <1>14, IssueEndCore
<1>15. ASSUME NEW s \in Station, IssueStore(s) PROVE CoreInv'
  BY <1>15, IssueStoreCore
<1>16. ASSUME NEW s \in Station, IssueToUnit(s) PROVE CoreInv'
  BY <1>16, IssueToUnitCore
<1>17. ASSUME NEW s \in Station, IssueUnitless(s) PROVE CoreInv'
  BY <1>17, IssueUnitlessCore
<1>18. ASSUME NEW s \in Station, Requeue(s) PROVE CoreInv'
  BY <1>18, RequeueCore
<1>19. CASE DispatchInst
  BY <1>19, DispatchCore DEF DispatchInst
<1>20. CASE DispatchEnd BY <1>20, DispatchEndCore
<1>21. CASE UNCHANGED vars BY <1>21, StutterCore
<1> QED BY <1>1, <1>2, <1>3, <1>4, <1>5, <1>6, <1>7, <1>8, <1>9, <1>10, <1>11,
           <1>12, <1>13, <1>14, <1>15, <1>16, <1>17, <1>18, <1>19, <1>20, <1>21
        DEF Next

\* The inductive invariant holds: the window is two ordered queues in step
\* with each other, and every link in the event queue, the ready lists and the
\* consumer lists is good.
THEOREM CoreInvariant == Spec => []CoreInv
<1> QED BY InitCore, NextCore, PTL DEF Spec

\* Every variable of the core stays in its type, whatever the sizes of the
\* machine, the program and the latencies.
THEOREM TypeCorrect == Spec => []TypeOK
<1>1. CoreInv => TypeOK
  <2> SUFFICES ASSUME CoreInv PROVE TypeOK
    OBVIOUS
  <2>1. /\ stage \in Stage /\ count \in Nat /\ wb \in Station \cup {None}
        /\ std_unknowns \subseteq Addr
    BY DEF CoreInv, CtlType
  <2>2. /\ event_queue \in Seq(Event) /\ ready_queue \in Seq(ReadyNode)
        /\ node \in Seq(ReadyNode) /\ odep_list \in [Station -> Seq(OdepLink)]
    <3>1. /\ Good(Event) \subseteq Event /\ Good(ReadyNode) \subseteq ReadyNode
          /\ Good(OdepLink) \subseteq OdepLink
      BY DEF Good
    <3>2. /\ event_queue \in Seq(Event) /\ ready_queue \in Seq(ReadyNode)
          /\ node \in Seq(ReadyNode)
      BY <3>1, SeqMono DEF CoreInv, LinksInv
    <3>3. \A s \in Station : odep_list[s] \in Seq(OdepLink)
      BY <3>1, SeqMono DEF CoreInv, LinksInv
    <3> QED BY <3>2, <3>3 DEF CoreInv, LinksInv
  <2>3. StatType /\ CvType /\ CntType /\ WinType /\ EntType
    BY DEF CoreInv, FixInv
  <2> QED BY <2>1, <2>2, <2>3
          DEF TypeOK, StatType, CvType, CntType, WinType, EntType
<1> QED BY <1>1, CoreInvariant, PTL

\* The RUU and the LSQ never get out of sync: ruu_dispatch, ruu_commit and
\* ruu_recover keep both queues in program order, their heads, tails and counts
\* in agreement, and every address computation paired with its load or store.
THEOREM WindowCorrect == Spec => []WindowInSync
<1>1. CoreInv => WindowInSync
  BY DEF CoreInv, FixInv
<1> QED BY <1>1, CoreInvariant, PTL

\* RSLINK_VALID is enough: a link whose tag is that of its station leads to an
\* instruction that is still in the window, however often the station was
\* reused by commits, squashes and dispatches in between.
THEOREM LinksCorrect == Spec => []NoStaleLink
<1>1. CoreInv => NoStaleLink
  <2> SUFFICES ASSUME CoreInv, NEW k \in Links, Valid(k) PROVE k.rs \in Live
    BY DEF NoStaleLink
  <2>1. ASSUME NEW T, NEW q \in Seq(Good(T)), k \in Elements(q)
        PROVE  k.rs \in Live
    <3>1. PICK j \in 1 .. Len(q) : k = q[j]
      BY <2>1 DEF Elements
    <3>2. k \in Good(T)
      BY <3>1, ElementOfSeq
    <3> QED BY <3>2, ValidIsLive
  <2>2. CASE k \in Elements(event_queue)
    BY <2>1, <2>2 DEF CoreInv, LinksInv
  <2>3. CASE k \in Elements(ready_queue) \cup Elements(node)
    BY <2>1, <2>3 DEF CoreInv, LinksInv
  <2>4. CASE k \in UNION {Elements(odep_list[s]) : s \in Station}
    <3>1. PICK s \in Station : k \in Elements(odep_list[s])
      BY <2>4
    <3>2. odep_list[s] \in Seq(Good(OdepLink))
      BY DEF CoreInv, LinksInv
    <3> QED BY <2>1, <3>1, <3>2
  <2> QED BY <2>2, <2>3, <2>4 DEF Links
<1> QED BY <1>1, CoreInvariant, PTL

\* ruu_recover squashes back to the branch and never past it: none of its
\* panics ("empty RUU", "RUU head and tail broken", "RUU and LSQ out of sync")
\* is reached.
THEOREM SquashCorrect == Spec => []~BadSquash
<1>1. CoreInv => ~BadSquash
  <2> SUFFICES ASSUME CoreInv, BadSquash PROVE FALSE
    OBVIOUS
  <2> DEFINE t == Dec(RUU_tail, RUU_size)
             d == IF ent[RUU(t)].ea_comp THEN 1 ELSE 0
             lt2 == IF d = 1 THEN Dec(LSQ_tail, LSQ_size) ELSE LSQ_tail
  <2>1. /\ RUU_head \in 0 .. RUU_size - 1 /\ LSQ_head \in 0 .. LSQ_size - 1
        /\ RUU_num \in Int /\ LSQ_num \in Int
        /\ Win(ent, RUU_head, RUU_tail, RUU_num, LSQ_head, LSQ_tail, LSQ_num)
        /\ LiveRUU = LiveR(RUU_head, RUU_num)
    BY WindowForm DEF CoreInv, FixInv, WinType
  <2>2. wb \in LiveRUU /\ RUU(t) # wb
    BY DEF BadSquash, CoreInv, WbInv
  <2>3. PICK k \in 0 .. RUU_num - 1 : wb = RUU(At(RUU_head, k, RUU_size))
    BY <2>1, <2>2 DEF LiveR
  <2>4. RUU_num \in 1 .. RUU_size /\ RUU_tail = At(RUU_head, RUU_num, RUU_size)
    BY <2>1, <2>3 DEF Win
  <2>5. t = At(RUU_head, RUU_num - 1, RUU_size)
    BY <2>1, <2>4, Sizes, AtDec
  <2>6. k # RUU_num - 1
    BY <2>2, <2>3, <2>5
  <2>7. t # RUU_head
    BY <2>1, <2>3, <2>4, <2>5, <2>6, Sizes DEF At
  <2>8. ent[RUU(t)].ea_comp /\ LSQ_num = 0
    BY <2>4, <2>7 DEF BadSquash
  <2>9. d \in {0, 1} /\ (d = 1 <=> ent[RUU(t)].ea_comp) /\ d = 1
    BY <2>8
  <2> HIDE DEF d, lt2
  <2>10. PoppedLast(ent, RUU_head, RUU_tail, RUU_num, LSQ_head, LSQ_tail, LSQ_num,
                    d, lt2)
    <3>1. lt2 = IF d = 1 THEN Dec(LSQ_tail, LSQ_size) ELSE LSQ_tail
      BY DEF lt2
    <3>2. RUU_num > 0
      BY <2>4
    <3> QED BY <2>1, <2>9, <3>1, <3>2, WinPopLast
  <2> QED BY <2>8, <2>9, <2>10 DEF PoppedLast
<1> QED BY <1>1, CoreInvariant, PTL
=============================================================================
