-------------------------------- MODULE Bpred --------------------------------
(***************************************************************************)
(* The branch predictor of bpred.c in the two programs that use it: between *)
(* fetch, dispatch, writeback and commit of sim-outorder.c, where lookups   *)
(* run ahead of updates and down wrong paths, and in the loop of            *)
(* sim-bpred.c, which looks up and updates each branch at once.             *)
(*                                                                         *)
(* A program is an instruction at every PC it names, a nop elsewhere; a     *)
(* conditional branch goes either way, an indirect jump to any of Targets.  *)
(***************************************************************************)
EXTENDS Integers, Sequences, FiniteSets

CONSTANTS
  Predictors,    \* the predictor configurations, see BpInit
  Code,          \* PC -> [op, target]
  Targets,       \* where an indirect jump may lead
  EntryPC,
  FetchSize, WindowSize, MaxLookups,
  AddrXor(_, _), AddrOr(_, _)   \* C's ^ and |

VARIABLES
  conf, pred,    \* the configuration; the state of struct bpred_t
  fetchPC, fq,   \* the fetch queue: pc, predicted PC, update record, TOS
  window,        \* dispatched instructions, oldest first
  regsPC,        \* regs.regs_PC: of the last dispatched instruction
  specMode, recoverPC,
  past           \* the control transfers of the right path, in program order

bpredVars == <<conf, pred, fetchPC, fq, window, regsPC, specMode, recoverPC, past>>

Compressed == {"C_J", "C_BEQZ", "C_JR", "C_JALR"}
Conditional == {"BEQ", "C_BEQZ"}
Direct == {"JAL", "BEQ", "C_J", "C_BEQZ", "C_JR"}
Control == Direct \cup {"JALR", "C_JALR"}
MD_IS_CALL(op) == FALSE                      \* no opcode has F_CALL
MD_IS_RETURN(op) == op \in {"JAL", "C_JR"}
MD_IS_INDIR(op) == op \in {"JAL", "C_JR"}
Nop == [op |-> "NOP", target |-> 0]
InstAt(pc) == IF pc \in DOMAIN Code THEN Code[pc] ELSE Nop
IsCompressed(op) == IF op \in Compressed THEN 2 ELSE 4
InstBytes == 4                                \* sizeof(md_inst_t)
BrShift(pc) == pc \div 4
Pow2[n \in Nat] == IF n = 0 THEN 1 ELSE 2 * Pow2[n - 1]

\* The sizes bpred_create() and bpred_dir_create() accept, one for a table that a
\* class has not (they also have to be powers of two, which nothing here needs);
\* and a program has no code and no target at address 0, an empty BTB entry's.
ASSUME BpredAssumption ==
  /\ EntryPC \in Nat \ {0} /\ Targets \subseteq Nat \ {0}
  /\ \A pc \in DOMAIN Code :
       /\ pc \in Nat
       /\ Code[pc].op \in Conditional \cup {"JAL", "C_J"} => Code[pc].target \in Nat \ {0}
  /\ \A c \in Predictors :
       /\ c.class \in {"comb", "2lev", "bimod", "taken", "nottaken"}
       /\ c.update \in {"ID", "WB", "CT", "each"}
       /\ {c.l1, c.sets, c.assoc} \subseteq Nat \ {0} /\ {c.width, c.ras} \subseteq Nat

-----------------------------------------------------------------------------
(* bpred_create, bpred_dir_create, bpred_after_priming.                     *)

FlipFlop(n) == [k \in 0 .. n - 1 |-> IF k % 2 = 0 THEN 1 ELSE 2]
NoEntry == [addr |-> 0, target |-> 0]
NoStats == [lookups |-> 0, addr_hits |-> 0, dir_hits |-> 0, misses |-> 0, used_ras |-> 0,
            used_bimod |-> 0, used_2lev |-> 0, jr_seen |-> 0, jr_hits |-> 0,
            jr_non_ras_seen |-> 0, jr_non_ras_hits |-> 0, pops |-> 0, pushes |-> 0]
Static(c) == c.class \in {"taken", "nottaken"}
Create(c) ==
  [ctr |-> [bimod |-> FlipFlop(c.bimod), twolev |-> FlipFlop(c.l2), meta |-> FlipFlop(c.meta)],
   shiftregs |-> [k \in 0 .. c.l1 - 1 |-> 0],
   btb |-> [s \in 0 .. c.sets - 1 |-> [k \in 1 .. c.assoc |-> NoEntry]],   \* MRU first
   stack |-> [k \in 0 .. c.ras - 1 |-> 0],
   tos |-> IF Static(c) THEN 0 ELSE c.ras - 1,
   st |-> NoStats]

\* bpred_dir_lookup, as the index of the counter.
BIMOD_HASH(n, pc) == AddrXor(pc \div 2 ^ 19, BrShift(pc)) % n
L1Index(pc) == BrShift(pc) % conf.l1
L2Index(p, pc) ==
  LET reg == p.shiftregs[L1Index(pc)]
      low == IF conf.xor THEN AddrXor(reg, BrShift(pc)) % Pow2[conf.width] ELSE reg
  IN  AddrOr(low, BrShift(pc) * Pow2[conf.width]) % conf.l2
DirLookup(p, dir, pc) ==
  [dir |-> dir, k |-> CASE dir = "bimod" -> BIMOD_HASH(conf.bimod, pc)
                        [] dir = "meta" -> BIMOD_HASH(conf.meta, pc)
                        [] dir = "twolev" -> L2Index(p, pc)]
Counter(p, at) == p.ctr[at.dir][at.k]

\* struct bpred_update_t.
NoCounter == [dir |-> "none", k |-> 0]
NoUpdate == [pdir1 |-> NoCounter, pdir2 |-> NoCounter, pmeta |-> NoCounter, ras |-> FALSE,
             bimod |-> FALSE, twolev |-> FALSE, meta |-> FALSE]
BtbSet(pc) == BrShift(pc) % conf.sets
BtbHits(p, pc) == {k \in 1 .. conf.assoc : p.btb[BtbSet(pc)][k].addr = pc}

\* The update record of a lookup.
Counters(p, op, pc) ==
  LET bimod == DirLookup(p, "bimod", pc)
      twolev == DirLookup(p, "twolev", pc)
      meta == DirLookup(p, "meta", pc)
      useTwolev == Counter(p, meta) >= 2
  IN  IF op \notin Conditional \/ Static(conf) THEN NoUpdate
      ELSE CASE conf.class = "comb" ->
                  [NoUpdate EXCEPT !.pmeta = meta, !.meta = useTwolev,
                                   !.bimod = Counter(p, bimod) >= 2,
                                   !.twolev = Counter(p, twolev) >= 2,
                                   !.pdir1 = IF useTwolev THEN twolev ELSE bimod,
                                   !.pdir2 = IF useTwolev THEN bimod ELSE twolev]
             [] conf.class = "2lev" -> [NoUpdate EXCEPT !.pdir1 = twolev]
             [] conf.class = "bimod" -> [NoUpdate EXCEPT !.pdir1 = bimod]

\* bpred_lookup of a control instruction: the predictor, the answer (a target, 0
\* for not taken, 1 for taken nobody knows where), the update record and the
\* top of the stack before.
Lookup(p0, op, pc, btarget) ==
  LET p == [p0 EXCEPT !.st.lookups = @ + 1]
      up == Counters(p, op, pc)
      below == (p.tos + conf.ras - 1) % conf.ras
      above == (p.tos + 1) % conf.ras
      pushed == IF MD_IS_CALL(op) /\ conf.ras > 0
                THEN [p EXCEPT !.tos = above, !.stack[above] = pc + InstBytes,
                               !.st.pushes = @ + 1]
                ELSE p
      target == IF BtbHits(p, pc) = {} THEN 1
                ELSE p.btb[BtbSet(pc)][CHOOSE k \in BtbHits(p, pc) : TRUE].target
      R(q, a, u, t) == [p |-> q, answer |-> a, update |-> u, idx |-> t]
  IN  CASE conf.class = "taken" -> R(p, btarget, up, 0)
        [] conf.class = "nottaken" ->
             R(p, IF op \in Conditional THEN pc + InstBytes ELSE btarget, up, 0)
        [] ~Static(conf) /\ MD_IS_RETURN(op) /\ conf.ras > 0 ->
             R([p EXCEPT !.tos = below, !.st.pops = @ + 1], p.stack[p.tos],
               [up EXCEPT !.ras = TRUE], p.tos)
        [] OTHER ->
             R(pushed,
               IF op \notin Conditional \/ Counter(p, up.pdir1) >= 2 THEN target ELSE 0,
               up, IF conf.ras > 0 THEN p.tos ELSE 0)

-----------------------------------------------------------------------------
(* bpred_update.                                                           *)

Saturate(n, up) == IF up THEN (IF n < 3 THEN n + 1 ELSE n) ELSE (IF n > 0 THEN n - 1 ELSE n)
Train(p, at, up) ==
  IF at = NoCounter THEN p ELSE [p EXCEPT !.ctr[at.dir][at.k] = Saturate(@, up)]

Account(p, op, u, taken, predTaken, correct) ==
  LET one(b) == IF b THEN 1 ELSE 0
      cond == ~u.ras /\ op \in Conditional
      jr == MD_IS_INDIR(op)
      st == p.st
  IN  [p EXCEPT !.st =
        [st EXCEPT !.addr_hits = @ + one(correct),
                   !.dir_hits = @ + one(predTaken = taken),
                   !.misses = @ + one(predTaken # taken),
                   !.used_ras = @ + one(u.ras),
                   !.used_2lev = @ + one(cond /\ u.meta),
                   !.used_bimod = @ + one(cond /\ ~u.meta),
                   !.jr_seen = @ + one(jr),
                   !.jr_hits = @ + one(jr /\ correct),
                   !.jr_non_ras_seen = @ + one(jr /\ ~u.ras),
                   !.jr_non_ras_hits = @ + one(jr /\ ~u.ras /\ correct)]]

\* The history register shifts the outcome in.
Shift(p, pc, taken) ==
  [p EXCEPT !.shiftregs[L1Index(pc)] =
     ((2 * @) + (IF taken THEN 1 ELSE 0)) % Pow2[conf.width]]

EnterBtb_Twice(p, pc, target, correct) ==
  [p EXCEPT !.btb[BtbSet(pc)] =
     <<[addr |-> pc, target |-> target]>> \o SubSeq(@, 1, conf.assoc - 1)]

\* A taken branch moves to the front of its set, over the least recent one.
EnterBtb(p, pc, target, correct) ==
  LET set == p.btb[BtbSet(pc)]
      at == IF BtbHits(p, pc) = {} THEN conf.assoc ELSE CHOOSE k \in BtbHits(p, pc) : TRUE
      entry == IF set[at].addr = pc /\ correct THEN set[at] ELSE [addr |-> pc, target |-> target]
      others == SubSeq(set, 1, at - 1) \o SubSeq(set, at + 1, conf.assoc)
  IN  [p EXCEPT !.btb[BtbSet(pc)] = <<entry>> \o others]

Update(p0, op, pc, target, taken, predTaken, correct, u) ==
  LET p1 == Account(p0, op, u, taken, predTaken, correct)
      p2 == IF op \in Conditional /\ conf.class \in {"2lev", "comb"}
            THEN Shift(p1, pc, taken) ELSE p1
      p3 == Train(Train(p2, u.pdir1, taken), u.pdir2, taken)
      p4 == IF u.bimod # u.twolev THEN Train(p3, u.pmeta, u.twolev = taken) ELSE p3
  IN  IF (MD_IS_INDIR(op) /\ u.ras) \/ Static(conf) THEN p1
      ELSE IF taken THEN EnterBtb(p4, pc, target, correct) ELSE p4

\* As its callers call it: every instruction counts as four bytes long, and the
\* branch is filed under the given address.
UpdateFor(p, e, address) ==
  Update(p, e.op, address, e.next, e.next # e.pc + InstBytes, e.pred # e.pc + InstBytes,
         e.pred = e.next, e.update)

-----------------------------------------------------------------------------
(* The stages of sim-outorder.c.                                           *)

BpInit ==
  /\ conf \in Predictors
  /\ pred = Create(conf)
  /\ fetchPC = EntryPC /\ regsPC = EntryPC
  /\ fq = <<>> /\ window = <<>> /\ past = <<>>
  /\ specMode = FALSE /\ recoverPC = 0

\* ruu_fetch, one instruction: the target of a branch is not known to it.
BpFetch ==
  LET op == InstAt(fetchPC).op
      look == IF op \in Control THEN Lookup(pred, op, fetchPC, 0)
              ELSE [p |-> pred, answer |-> 0, update |-> NoUpdate, idx |-> 0]
      next == IF look.answer = 0 THEN fetchPC + IsCompressed(op) ELSE look.answer
  IN  /\ conf.update # "each"
      /\ Len(fq) < FetchSize /\ pred.st.lookups < MaxLookups
      /\ fq' = Append(fq, [pc |-> fetchPC, op |-> op, pred |-> next,
                           update |-> look.update, idx |-> look.idx])
      /\ pred' = look.p
      /\ fetchPC' = next
      /\ UNCHANGED <<conf, window, regsPC, specMode, recoverPC, past>>

\* Where an instruction may go.
Nexts(pc) ==
  LET i == InstAt(pc)
      fall == pc + IsCompressed(i.op)
  IN  CASE i.op \in Conditional -> {fall, i.target}
        [] i.op \in {"JAL", "C_J"} -> {i.target}
        [] i.op \in {"JALR", "C_JALR", "C_JR"} -> Targets
        [] OTHER -> {fall}

\* ruu_dispatch of the oldest fetched instruction: a direct branch predicted
\* taken to the wrong place redirects fetch at once; any other wrong prediction
\* starts a wrong path.
BpDispatch ==
  /\ fq # <<>> /\ Len(window) < WindowSize
  /\ LET f == Head(fq) IN \E next \in Nexts(f.pc) :
       LET predTaken == f.pred # f.pc + IsCompressed(f.op)
           target == IF f.op = "C_JR" \/ f.op \notin Direct THEN next ELSE InstAt(f.pc).target
           redirected == f.op \in Direct /\ target # f.pred /\ predTaken
           wrong == ~specMode /\ f.pred # next /\ ~redirected
           e == [pc |-> f.pc, op |-> f.op, pred |-> f.pred, next |-> next, update |-> f.update,
                 idx |-> f.idx, recover |-> wrong, spec |-> specMode, done |-> FALSE]
           now == ~specMode /\ f.op \in Control
       IN  /\ window' = Append(window, e)
           /\ regsPC' = f.pc
           /\ fq' = IF redirected THEN <<>> ELSE Tail(fq)
           /\ fetchPC' = IF redirected THEN next ELSE fetchPC
           /\ pred' = IF now /\ conf.update = "ID" THEN UpdateFor(pred, e, f.pc) ELSE pred
           /\ past' = IF now THEN Append(past, [pc |-> f.pc, next |-> next]) ELSE past
           /\ specMode' = (specMode \/ wrong)
           /\ recoverPC' = IF wrong THEN next ELSE recoverPC
  /\ UNCHANGED conf

\* ruu_writeback of any instruction: the mispredicted one squashes the younger
\* ones and puts the stack's top back (bpred_recover), then may train.
BpWriteback ==
  \E k \in DOMAIN window :
    LET e == window[k]
        p1 == IF e.recover THEN [pred EXCEPT !.tos = e.idx] ELSE pred
        done == [window EXCEPT ![k].done = TRUE]
    IN  /\ ~e.done
        /\ window' = IF e.recover THEN SubSeq(done, 1, k) ELSE done
        /\ fq' = IF e.recover THEN <<>> ELSE fq
        /\ fetchPC' = IF e.recover THEN recoverPC ELSE fetchPC
        /\ specMode' = (specMode /\ ~e.recover)
        /\ pred' = IF conf.update = "WB" /\ e.op \in Control
                   THEN UpdateFor(p1, e, regsPC) ELSE p1
        /\ UNCHANGED <<conf, regsPC, recoverPC, past>>

\* ruu_commit: the address is that of the instruction dispatched last.
BpCommit ==
  /\ window # <<>> /\ Head(window).done
  /\ window' = Tail(window)
  /\ pred' = IF conf.update = "CT" /\ Head(window).op \in Control
             THEN UpdateFor(pred, Head(window), regsPC) ELSE pred
  /\ UNCHANGED <<conf, fetchPC, fq, regsPC, specMode, recoverPC, past>>

\* sim_main of sim-bpred.c: one instruction.
BpEach ==
  /\ conf.update = "each" /\ pred.st.lookups < MaxLookups
  /\ \E next \in Nexts(regsPC) :
       LET op == InstAt(regsPC).op
           look == Lookup(pred, op, regsPC, IF op \in Conditional THEN InstAt(regsPC).target ELSE next)
           e == [pc |-> regsPC, op |-> op, next |-> next, update |-> look.update,
                 pred |-> IF look.answer = 0 THEN regsPC + InstBytes ELSE look.answer]
       IN  /\ regsPC' = next
           /\ IF op \in Control
              THEN /\ pred' = UpdateFor(look.p, e, regsPC)
                   /\ past' = Append(past, [pc |-> regsPC, next |-> next])
              ELSE UNCHANGED <<pred, past>>
  /\ UNCHANGED <<conf, fetchPC, fq, window, specMode, recoverPC>>

BpNext == BpFetch \/ BpDispatch \/ BpWriteback \/ BpCommit \/ BpEach
BpSpec == BpInit /\ [][BpNext]_bpredVars

-----------------------------------------------------------------------------
(* Properties.                                                             *)

Entries == {p \in {<<s, k>> : s \in 0 .. conf.sets - 1, k \in 1 .. conf.assoc} :
              pred.btb[p[1]][p[2]] # NoEntry}
EntryAt(p) == pred.btb[p[1]][p[2]]
TakenAt(k) == past[k].next # past[k].pc + InstBytes
LastTaken(pc) ==
  LET ks == {k \in DOMAIN past : past[k].pc = pc /\ TakenAt(k)}
  IN  past[CHOOSE k \in ks : \A l \in ks : l <= k].next
UsesRas(op) == MD_IS_RETURN(op) /\ conf.ras > 0

\* A set of the BTB never holds a branch twice, each entry is in the set of its
\* address, and, when the predictor is trained at decode or at once, an entry is a
\* jump the right path made; in sim-bpred the last one from there.
BtbHoldsTakenBranches ==
  \A p \in Entries :
    /\ p[1] = BtbSet(EntryAt(p).addr)
    /\ \A q \in Entries : p # q => EntryAt(p).addr # EntryAt(q).addr
    /\ conf.update \in {"ID", "each"} =>
         /\ \E k \in DOMAIN past : TakenAt(k) /\ past[k].pc = EntryAt(p).addr
                                              /\ past[k].next = EntryAt(p).target
         /\ ~UsesRas(InstAt(EntryAt(p).addr).op)
    /\ conf.update = "each" => EntryAt(p).target = LastTaken(EntryAt(p).addr)

\* A history register holds the last outcomes of the right path's conditional
\* branches that map to it, whatever wrong paths have looked up in between.
HistoryOf(l) ==
  {k \in DOMAIN past : InstAt(past[k].pc).op \in Conditional /\ L1Index(past[k].pc) = l}
\* The outcome that n later ones follow; 0 when there were no more than n.
Outcome(l, n) ==
  IF \E k \in HistoryOf(l) : Cardinality({j \in HistoryOf(l) : j > k}) = n /\ TakenAt(k)
  THEN 1 ELSE 0
HistoryIsOfTheRightPath ==
  conf.update \in {"ID", "each"} /\ conf.class \in {"2lev", "comb"} =>
    \A l \in 0 .. conf.l1 - 1 : \A n \in 0 .. conf.width - 1 :
      (pred.shiftregs[l] \div Pow2[n]) % 2 = Outcome(l, n)

\* Every branch trains the predictor once: the statistics count each one as a hit
\* or a miss, an address hit is a direction hit, and jumps through the stack and
\* past it add up.  No wrong path trains it but at writeback.
Untrained == Cardinality({k \in DOMAIN fq : fq[k].op \in Control})
             + (CASE conf.update = "CT" -> Cardinality({k \in DOMAIN window : window[k].op \in Control})
                  [] conf.update = "WB" -> Cardinality({k \in DOMAIN window :
                                              window[k].op \in Control /\ ~window[k].done})
                  [] OTHER -> 0)
PredictorStatsAddUp ==
  LET st == pred.st
      updates == st.dir_hits + st.misses
      waiting == Cardinality({k \in DOMAIN window : ~window[k].spec /\ window[k].op \in Control})
  IN  /\ st.addr_hits <= st.dir_hits
      /\ updates + Untrained <= st.lookups
      /\ conf.update = "each" => updates = st.lookups
      /\ conf.update \in {"ID", "each"} => updates = Len(past)
      /\ conf.update = "CT" => updates + waiting = Len(past)
      /\ st.jr_seen = st.jr_non_ras_seen + st.used_ras
      /\ st.jr_hits >= st.jr_non_ras_hits
      /\ st.used_ras <= st.pops

\* The predictor learns from what was committed and counts each branch once.
PredictorIsSound == BtbHoldsTakenBranches /\ HistoryIsOfTheRightPath /\ PredictorStatsAddUp
=============================================================================
