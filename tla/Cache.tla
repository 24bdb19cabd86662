------------------------------- MODULE Cache -------------------------------
(***************************************************************************)
(* The cache library (cache.c) and the two-level hierarchy sim-outorder    *)
(* builds with it: a data and an instruction cache over one unified second *)
(* level, whose misses go to memory.                                       *)
(*                                                                         *)
(* An address counts units of eight bytes, the smallest block.  A block is *)
(* a way of its set; "order" is the way list and "chain" the hash buckets  *)
(* of a highly associative set.  The caches hold no data (balloc is FALSE): *)
(* "owed" remembers which units have been written and not yet arrived in   *)
(* memory.  Latencies and the bus are left out: they decide nothing about  *)
(* the contents, and Pipeline takes any latency.                           *)
(***************************************************************************)
EXTENDS Integers, FiniteSets, SequencesExt

CONSTANTS
  CacheAddr,     \* the units the program touches
  Configs,       \* the hierarchies: a geometry and a policy per cache
  HIGH_ASSOC,    \* more ways than this and the set is hashed (4 in cache.h)
  HASH_SHARE,    \* ways per hash bucket (4 in cache.c)
  CACHE_HASH(_), \* the key a tag is hashed by: its bytes, xored
  MaxAccesses    \* bound on the calls

Level == {"il1", "dl1", "ul2"}
Policy == {"LRU", "FIFO", "Random"}

PowerOfTwo(n) == n \in Nat \ {0} /\ \E k \in 0 .. n : n = 2 ^ k

\* What cache_create() accepts.
ValidGeometry(g) ==
  /\ PowerOfTwo(g.nsets)
  /\ PowerOfTwo(g.bsize)
  /\ PowerOfTwo(g.assoc)
  /\ g.policy \in Policy

\* The units up to the last the program touches.
Units == UNION {0 .. a : a \in CacheAddr \cup {0}}

\* A second level with the smaller blocks ends the program at the first miss:
\* the access of the first level spans a block.
ASSUME CacheAssumption ==
  /\ CacheAddr \subseteq Nat /\ MaxAccesses \in Nat
  /\ HIGH_ASSOC \in Nat /\ HASH_SHARE \in Nat \ {0}
  /\ \A t \in Units : CACHE_HASH(t) \in Nat
  /\ \A g \in Configs :
       /\ \A c \in Level : ValidGeometry(g[c])
       /\ \A c \in Level : g["ul2"].bsize % g[c].bsize = 0

VARIABLES
  geometry,      \* the hierarchy of this simulation
  sets,          \* [cache][set]: order, chain and blocks
  owed,          \* units whose last write has not reached memory
  ideal,         \* [cache][set]: the tags the policy should hold, in order
  accesses       \* calls so far

cacheVars == <<geometry, sets, owed, ideal, accesses>>

\* CACHE_TAG, CACHE_SET, CACHE_BADDR, CACHE_MK_BADDR and CACHE_HASH.
BlockNumber(c, a) == a \div geometry[c].bsize
CacheTag(c, a) == BlockNumber(c, a) \div geometry[c].nsets
CacheSet(c, a) == BlockNumber(c, a) % geometry[c].nsets
BlockAddr(c, a) == a - (a % geometry[c].bsize)
MkBlockAddr(c, t, s) == (t * geometry[c].nsets + s) * geometry[c].bsize
BlockUnits(c, b) == b .. (b + geometry[c].bsize - 1)
SetIndex(c) == 0 .. geometry[c].nsets - 1
Ways(c) == 1 .. geometry[c].assoc
hsize(g) == IF g.assoc > HIGH_ASSOC THEN g.assoc \div HASH_SHARE ELSE 0
Hashed(c) == hsize(geometry[c]) > 0
Bucket(c, t) == CACHE_HASH(t) % hsize(geometry[c])

\* A set as cache_create() leaves it: every block linked at the head.
EmptySet(c) ==
  LET n == geometry[c].assoc
      ways == [i \in Ways(c) |-> n + 1 - i]
  IN  [order |-> ways,
       chain |-> [h \in 0 .. hsize(geometry[c]) - 1 |-> IF h = Bucket(c, 0) THEN ways ELSE <<>>],
       blk   |-> [w \in Ways(c) |-> [tag |-> 0, valid |-> FALSE, dirty |-> FALSE]]]

\* A list with one element unlinked.
Without(s, x) == RemoveFirst(s, x)

\* update_way_list.
update_way_list(S, w, where) ==
  [S EXCEPT !.order = IF where = "Head" THEN <<w>> \o Without(@, w)
                                        ELSE Append(Without(@, w), w)]

\* unlink_htab_ent and link_htab_ent, under the tag the block has.
unlink_htab_ent(c, S, w) ==
  IF Hashed(c) THEN [S EXCEPT !.chain[Bucket(c, S.blk[w].tag)] = Without(@, w)]
               ELSE S
link_htab_ent(c, S, w) ==
  IF Hashed(c) THEN [S EXCEPT !.chain[Bucket(c, S.blk[w].tag)] = <<w>> \o @]
               ELSE S

\* Where the search for tag t ends, 0 when it finds no block, and its block.
Searched(c, S, t) == IF Hashed(c) THEN S.chain[Bucket(c, t)] ELSE S.order
HitAt(c, S, t) ==
  SelectInSeq(Searched(c, S, t), LAMBDA w : S.blk[w].tag = t /\ S.blk[w].valid)
HitBlock(c, S, t) == Searched(c, S, t)[HitAt(c, S, t)]

\* cache_probe.
cache_probe(H, c, a) == HitAt(c, H.sets[c][CacheSet(c, a)], CacheTag(c, a)) # 0

\* What a policy should hold after an access to tag t: the last "assoc"
\* distinct tags used (LRU) or brought in (FIFO), youngest first.
IdealAfter(g, held, t) ==
  LET news == <<t>> \o Without(held, t)
  IN  IF g.policy = "FIFO" /\ \E i \in DOMAIN held : held[i] = t THEN held
      ELSE SubSeq(news, 1, IF Len(news) < g.assoc THEN Len(news) ELSE g.assoc)

\* A hierarchy in the middle of a call: the caches, and the units that have
\* reached memory.
Hierarchy == [sets |-> sets, ideal |-> ideal, stored |-> {}]

PutSet(H, c, s, S) == [H EXCEPT !.sets[c][s] = S]

Hit_ForgetsDirty(H, c, cmd, a) ==
  LET s == CacheSet(c, a)
      w == HitBlock(c, H.sets[c][s], CacheTag(c, a))
      S == [H.sets[c][s] EXCEPT !.blk[w].dirty = (cmd = "Write")]
  IN  PutSet(H, c, s, IF geometry[c].policy = "LRU" THEN update_way_list(S, w, "Head") ELSE S)

\* The hit half of cache_access().
Hit(H, c, cmd, a) ==
  LET s == CacheSet(c, a)
      w == HitBlock(c, H.sets[c][s], CacheTag(c, a))
      S == IF cmd = "Write" THEN [H.sets[c][s] EXCEPT !.blk[w].dirty = TRUE]
                            ELSE H.sets[c][s]
  IN  PutSet(H, c, s, IF geometry[c].policy = "LRU" THEN update_way_list(S, w, "Head") ELSE S)

\* The block a miss replaces; "draw" is what myrand() gives.
Victim(H, c, s, draw) ==
  IF geometry[c].policy = "Random" THEN draw ELSE Last(H.sets[c][s].order)

\* The miss half: the victim leaves its bucket,
Evict(H, c, s, w) ==
  LET S == IF geometry[c].policy = "Random" THEN H.sets[c][s]
           ELSE update_way_list(H.sets[c][s], w, "Head")
  IN  PutSet(H, c, s, unlink_htab_ent(c, S, w))
\* goes to the next level when it is dirty,
Dirty(H, c, s, w) == H.sets[c][s].blk[w].valid /\ H.sets[c][s].blk[w].dirty
\* takes its new tag, upon which the block is read,
Retag(H, c, a, s, w) ==
  PutSet(H, c, s, [H.sets[c][s] EXCEPT !.blk[w] = [tag |-> CacheTag(c, a), valid |-> TRUE, dirty |-> FALSE]])
\* and is linked again.
Fill(H, c, cmd, s, w) ==
  PutSet(H, c, s, link_htab_ent(c, [H.sets[c][s] EXCEPT !.blk[w].dirty = (cmd = "Write")], w))
UsedNow(H, c, a) ==
  [H EXCEPT !.ideal[c][CacheSet(c, a)] = IdealAfter(geometry[c], @, CacheTag(c, a))]

\* dl2_access_fn: memory.
dl2_access_fn(H, cmd, baddr) ==
  IF cmd = "Read" THEN H
  ELSE [H EXCEPT !.stored = @ \cup BlockUnits("ul2", baddr)]

\* dl1_access_fn and il1_access_fn: cache_access() of the second level, which
\* turns to memory.
SecondLevel(H, cmd, a, draw) ==
  LET s == CacheSet("ul2", a)
      w == Victim(H, "ul2", s, draw)
      out == Evict(H, "ul2", s, w)
      back == IF Dirty(H, "ul2", s, w)
              THEN dl2_access_fn(out, "Write", MkBlockAddr("ul2", H.sets["ul2"][s].blk[w].tag, s))
              ELSE out
      fetched == dl2_access_fn(Retag(back, "ul2", a, s, w), "Read", BlockAddr("ul2", a))
  IN  UsedNow(IF cache_probe(H, "ul2", a) THEN Hit(H, "ul2", cmd, a)
              ELSE Fill(fetched, "ul2", cmd, s, w), "ul2", a)

\* cache_access() of a first-level cache; a draw for each random victim.
cache_access(H, c, cmd, a, draw) ==
  LET s == CacheSet(c, a)
      w == Victim(H, c, s, draw.own)
      out == Evict(H, c, s, w)
      back == IF Dirty(H, c, s, w)
              THEN SecondLevel(out, "Write", MkBlockAddr(c, H.sets[c][s].blk[w].tag, s), draw.write)
              ELSE out
      fetched == SecondLevel(Retag(back, c, a, s, w), "Read", BlockAddr(c, a), draw.read)
  IN  UsedNow(IF cache_probe(H, c, a) THEN Hit(H, c, cmd, a) ELSE Fill(fetched, c, cmd, s, w), c, a)

\* Evicting a dirty block and reading the new one may each draw a victim.
Draws(c) == IF geometry[c].policy = "Random" THEN Ways(c) ELSE {1}

CacheInit ==
  /\ geometry \in Configs
  /\ sets = [c \in Level |-> [s \in SetIndex(c) |-> EmptySet(c)]]
  /\ owed = {}
  /\ ideal = [c \in Level |-> [s \in SetIndex(c) |-> <<>>]]
  /\ accesses = 0

\* The outcome H of a call becomes the state.
Become(H) ==
  /\ sets' = H.sets
  /\ ideal' = H.ideal
  /\ accesses' = accesses + 1
  /\ UNCHANGED geometry

\* An access of the program: an instruction fetch, a load or a store.
CacheAccess(c, cmd, a) ==
  /\ accesses < MaxAccesses
  /\ \E draw \in [own : Draws(c), write : Draws("ul2"), read : Draws("ul2")] :
       LET H == cache_access(Hierarchy, c, cmd, a, draw)
       IN  /\ Become(H)
           /\ owed' = (owed \ H.stored) \cup (IF cmd = "Write" THEN {a} ELSE {})

\* What a flush does to a block it finds: a dirty one is written back.
FlushBlock(H, c, s, w, draw) ==
  LET b == H.sets[c][s].blk[w]
      invalid == PutSet(H, c, s, [H.sets[c][s] EXCEPT !.blk[w].valid = FALSE])
      baddr == MkBlockAddr(c, b.tag, s)
  IN  CASE ~b.valid -> H
        [] b.valid /\ ~b.dirty -> invalid
        [] b.valid /\ b.dirty /\ c = "ul2" -> dl2_access_fn(invalid, "Write", baddr)
        [] b.valid /\ b.dirty /\ c # "ul2" -> SecondLevel(invalid, "Write", baddr, draw)

\* cache_flush(): set by set, in way order; a draw for each block written back.
BlockCount(c) == geometry[c].nsets * geometry[c].assoc
Blocks(c) == 1 .. BlockCount(c)
SetOf(c, k) == (k - 1) \div geometry[c].assoc
WayOf(c, k) == ((k - 1) % geometry[c].assoc) + 1
cache_flush(H, c, draws) ==
  LET upTo[k \in 0 .. BlockCount(c)] ==
        IF k = 0 THEN H
        ELSE FlushBlock(upTo[k - 1], c, SetOf(c, k), H.sets[c][SetOf(c, k)].order[WayOf(c, k)], draws[k])
  IN  [upTo[BlockCount(c)] EXCEPT !.ideal[c] = [s \in SetIndex(c) |-> <<>>]]

\* A system call of sim-cache under -flush: the data side, top level first.
FlushOnSyscall ==
  /\ accesses < MaxAccesses
  /\ \E draws \in [Blocks("dl1") -> Draws("ul2")] :
       LET H == cache_flush(cache_flush(Hierarchy, "dl1", draws), "ul2", [k \in Blocks("ul2") |-> 1])
       IN  Become(H) /\ owed' = owed \ H.stored

\* cache_flush_addr(): the block goes to the tail, to be replaced first.
FlushAddr(c, a) ==
  LET s == CacheSet(c, a)
      w == HitBlock(c, sets[c][s], CacheTag(c, a))
  IN  /\ accesses < MaxAccesses
      /\ cache_probe(Hierarchy, c, a)
      /\ \E draw \in Draws("ul2") :
           LET H == FlushBlock(Hierarchy, c, s, w, draw)
               tailed == [PutSet(H, c, s, update_way_list(H.sets[c][s], w, "Tail"))
                            EXCEPT !.ideal[c][s] = Without(@, CacheTag(c, a))]
           IN  Become(tailed) /\ owed' = owed \ tailed.stored

CacheNext ==
  \/ \E a \in CacheAddr : \/ CacheAccess("il1", "Read", a)
                          \/ \E cmd \in {"Read", "Write"} : CacheAccess("dl1", cmd, a)
                          \/ \E c \in {"dl1", "ul2"} : FlushAddr(c, a)
  \/ FlushOnSyscall

CacheSpec == CacheInit /\ [][CacheNext]_cacheVars

-----------------------------------------------------------------------------
\* The way list and the hash buckets are two hand-linked views of one set,
\* updated at different moments of a miss: every block is once in the way list
\* and once in the bucket of its tag, and no tag is held twice.
SetsWellLinked ==
  \A c \in Level : \A s \in SetIndex(c) :
    LET S == sets[c][s]
    IN  /\ Len(S.order) = geometry[c].assoc /\ ToSet(S.order) = Ways(c)
        /\ Hashed(c) =>
             \A h \in 0 .. hsize(geometry[c]) - 1 :
               /\ IsInjective(S.chain[h])
               /\ ToSet(S.chain[h]) = {w \in Ways(c) : Bucket(c, S.blk[w].tag) = h}
        /\ \A v, w \in Ways(c) :
             v # w /\ S.blk[v].valid /\ S.blk[w].valid => S.blk[v].tag # S.blk[w].tag

\* Replacement writes dirty blocks back through both levels, and flushes go
\* top down: for a unit whose last write has not reached memory, the data cache or
\* the second level finds a block, and the block is dirty.
DirtyDataIsHeld ==
  \A a \in owed : \E c \in {"dl1", "ul2"} :
    LET S == sets[c][CacheSet(c, a)]
    IN  /\ cache_probe(Hierarchy, c, a)
        /\ S.blk[HitBlock(c, S, CacheTag(c, a))].dirty

\* The way list is reordered on hits, misses and flushes; after any of them the
\* valid blocks come first in it, and are those the policy should hold, in its
\* order of replacement.
HoldsWhatPolicySays ==
  \A c \in Level : geometry[c].policy # "Random" =>
    \A s \in SetIndex(c) : \A i \in Ways(c) :
      LET b == sets[c][s].blk[sets[c][s].order[i]]
          held == ideal[c][s]
      IN  IF i <= Len(held) THEN b.valid /\ b.tag = held[i] ELSE ~b.valid

\* A cache finds what it holds, holds what its policy says, and no dirty block is
\* dropped on the way to memory.
CacheIsSound == SetsWellLinked /\ DirtyDataIsHeld /\ HoldsWhatPolicySays
=============================================================================
