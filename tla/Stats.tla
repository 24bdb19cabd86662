-------------------------------- MODULE Stats ---------------------------------
(***************************************************************************)
(* The statistics database (stats.c): the simulator registers statistics   *)
(* over its own variables, distributions and formulas, adds samples while  *)
(* it runs and prints everything; and the -pcstat histograms, which charge *)
(* what a counter gained to the address of the instruction at hand.        *)
(*                                                                         *)
(* A counter of the distributions is as wide as an int (W bits), an index  *)
(* twice that.                                                             *)
(***************************************************************************)
EXTENDS Eval, SequencesExt

CONSTANTS
  Tables,        \* what a simulator registers, in order: a set of sequences of
                 \* [name, sc, init, arr_sz, bucket_sz], or of a formula its tree
                 \* and what may stand after it
  Tracked,       \* the names given to -pcstat, as a sequence
  Indices, TextAddrs, Deltas,   \* samples, addresses and what a counter gains
  HTAB_SZ, ADDR_SHARE,          \* the hash table, 1024 and 256 in the program
  MaxActs                       \* bound on the steps of the simulated program

VARIABLES
  table,         \* what is still to be registered
  sdb,           \* the registered statistics, in order
  stat_val,      \* [name -> value of the variable bound to it]
  lastvals,      \* pcstat_lastvals
  added,         \* history: the samples of each distribution
  acts

statVars == <<table, sdb, stat_val, lastvals, added, acts>>

Scalar == {"int", "uint", "qword", "sqword", "float", "double"}
Dists == {"dist", "sdist"}
UINT_MAX == Reg - 1

-----------------------------------------------------------------------------
(* Registering.                                                            *)

stat_find_stat(name) == {k \in DOMAIN sdb : sdb[k].name = name /\ \A j \in 1 .. k - 1 : sdb[j].name # name}
add_stat(s) == sdb' = Append(sdb, s)

\* The variable gets its initial value, whatever the program had put there.
RegScalar(r) ==
  /\ r.sc \in Scalar
  /\ add_stat([name |-> r.name, sc |-> r.sc, init |-> r.init])
  /\ stat_val' = [n \in DOMAIN stat_val \cup {r.name} |-> IF n = r.name THEN r.init ELSE stat_val[n]]
  /\ UNCHANGED lastvals
stat_reg_dist(r) ==
  /\ r.sc = "dist"
  /\ add_stat([name |-> r.name, sc |-> "dist", arr |-> [k \in 0 .. r.arr_sz - 1 |-> r.init],
               bucket_sz |-> r.bucket_sz, overflows |-> 0, init |-> r.init])
  /\ UNCHANGED <<stat_val, lastvals>>
stat_reg_sdist(r) ==
  /\ r.sc = "sdist"
  /\ add_stat([name |-> r.name, sc |-> "sdist", sarr |-> [h \in 0 .. HTAB_SZ - 1 |-> <<>>],
               init |-> r.init])
  /\ UNCHANGED <<stat_val, lastvals>>
stat_reg_formula(r) ==
  /\ r.sc = "formula"
  /\ add_stat([name |-> r.name, sc |-> "formula", tree |-> r.tree,
               formula |-> Text(r.tree) \o r.extra])
  /\ UNCHANGED <<stat_val, lastvals>>
Register ==
  /\ table # <<>>
  /\ LET r == Head(table)
     IN  RegScalar(r) \/ stat_reg_dist(r) \/ stat_reg_sdist(r) \/ stat_reg_formula(r)
  /\ added' = Append(added, <<>>)
  /\ table' = Tail(table) /\ UNCHANGED acts

\* sim_reg_stats(): -pcstat finds what is registered so far, wants an integer,
\* and registers a sparse distribution for it.
ByPC(name) == <<name, "by_pc">>
RegPcstat ==
  /\ table # <<>> /\ Head(table).sc = "pcstat"
  /\ IF \A i \in DOMAIN Tracked :
          \E k \in stat_find_stat(Tracked[i]) : sdb[k].sc \in {"int", "uint", "qword"}
     THEN /\ lastvals' = [i \in DOMAIN Tracked |-> stat_val[Tracked[i]]]
          /\ sdb' = sdb \o [i \in DOMAIN Tracked |->
                              [name |-> ByPC(Tracked[i]), sc |-> "sdist", init |-> 0,
                               sarr |-> [h \in 0 .. HTAB_SZ - 1 |-> <<>>]]]
          /\ added' = added \o [i \in DOMAIN Tracked |-> <<>>]
          /\ table' = Tail(table) /\ UNCHANGED <<stat_val, acts>>
     ELSE table' = <<[sc |-> "fatal"]>> /\ UNCHANGED <<sdb, stat_val, lastvals, added, acts>>

-----------------------------------------------------------------------------
(* Samples.                                                                *)

BitXor(x, y, n) ==
  FoldLeft(LAMBDA sum, k : sum + 2 ^ k * (((x \div 2 ^ k) + (y \div 2 ^ k)) % 2),
           0, [k \in 1 .. n |-> k - 1])
HTAB_HASH(i) == BitXor(i \div ADDR_SHARE, i, 2 * W) % HTAB_SZ

stat_add_samples(s, index, n) ==
  LET i == (index \div s.bucket_sz) % Reg
      h == HTAB_HASH(index)
      hit == {b \in DOMAIN s.sarr[h] : s.sarr[h][b].index = index}
  IN  IF s.sc = "dist"
      THEN IF i \in DOMAIN s.arr THEN [s EXCEPT !.arr[i] = (@ + n) % Reg]
           ELSE [s EXCEPT !.overflows = (@ + n) % Reg]
      ELSE IF hit = {}
           THEN [s EXCEPT !.sarr[h] = <<[index |-> index, count |-> (s.init + n) % Reg]>> \o @]
           ELSE [s EXCEPT !.sarr[h] = [b \in DOMAIN @ |->
                   IF b \in hit THEN [@[b] EXCEPT !.count = (@ + n) % Reg] ELSE @[b]]]

Runs == table = <<>> /\ acts < MaxActs
\* The simulator counts something.
CountTo(n) ==
  /\ Runs /\ n \in DOMAIN stat_val
  /\ \E k \in stat_find_stat(n) : sdb[k].sc \in {"int", "uint", "qword"}
  /\ \E d \in Deltas : stat_val' = [stat_val EXCEPT ![n] = @ + d]
  /\ acts' = acts + 1 /\ UNCHANGED <<table, sdb, lastvals, added>>
stat_add_sample(k) ==
  /\ Runs /\ sdb[k].sc \in Dists /\ ~ \E i \in DOMAIN Tracked : sdb[k].name = ByPC(Tracked[i])
  /\ \E index \in Indices :
       /\ sdb' = [sdb EXCEPT ![k] = stat_add_samples(@, index, 1)]
       /\ added' = [added EXCEPT ![k] = Append(@, <<index, 1>>)]
  /\ acts' = acts + 1 /\ UNCHANGED <<table, stat_val, lastvals>>

\* The end of an instruction: every tracked counter that changed is charged.
\* The difference is an int.
Delta(i) == Signed(stat_val[Tracked[i]] - lastvals[i], Reg)
Histogram(i) == CHOOSE k \in DOMAIN sdb : sdb[k].name = ByPC(Tracked[i])
UpdatePcstats(pc) ==
  /\ Runs /\ lastvals # <<>>
  /\ LET due == {i \in DOMAIN Tracked : Delta(i) # 0}
         i(k) == CHOOSE j \in due : Histogram(j) = k
         hists == {Histogram(j) : j \in due}
     IN  /\ sdb' = [k \in DOMAIN sdb |->
                      IF k \in hists THEN stat_add_samples(sdb[k], pc, Delta(i(k))) ELSE sdb[k]]
         /\ added' = [k \in DOMAIN added |->
                      IF k \in hists THEN Append(added[k], <<pc, Delta(i(k))>>) ELSE added[k]]
         /\ lastvals' = [j \in DOMAIN lastvals |-> IF j \in due THEN stat_val[Tracked[j]] ELSE lastvals[j]]
  /\ acts' = acts + 1 /\ UNCHANGED <<table, stat_val>>

StatInit ==
  /\ table \in Tables
  /\ sdb = <<>> /\ stat_val = <<>> /\ lastvals = <<>> /\ added = <<>> /\ acts = 0
StatNext ==
  \/ Register \/ RegPcstat
  \/ \E n \in DOMAIN stat_val : CountTo(n)
  \/ \E k \in DOMAIN sdb : stat_add_sample(k)
  \/ \E pc \in TextAddrs : UpdatePcstats(pc)
StatSpec == StatInit /\ [][StatNext]_statVars

-----------------------------------------------------------------------------
(* Printing.  stat_eval_ident(): a counter is a double in a formula, and a *)
(* formula in a formula is worth zero when it has something after it.      *)

RECURSIVE Leaves(_)
Leaves(t) ==
  CASE t.op = "leaf" -> {t.word} [] t.op = "neg" -> Leaves(t.r)
    [] OTHER -> Leaves(t.l) \cup Leaves(t.r)
Named(s) == Leaves(s.tree) \cap {sdb[k].name : k \in DOMAIN sdb}

RECURSIVE stat_eval_ident(_)
stat_eval_ident(name) ==
  LET s == sdb[CHOOSE k \in stat_find_stat(name) : TRUE]
      inner == eval_expr(s.formula, [n \in Named(s) |-> stat_eval_ident(n)])
      Is(t) == [val |-> Val(t, stat_val[name]), error |-> "NOERR"]
  IN  CASE s.sc \in {"qword", "sqword"} -> Is("double")
        [] s.sc \in Scalar \ {"qword", "sqword"} -> Is(s.sc)
        [] s.sc \in Dists -> [val |-> err_value, error |-> "fatal"]
        [] s.sc = "formula" ->
             IF inner.error = "NOERR" /\ inner.endp = Len(s.formula) + 1
             THEN [val |-> inner.val, error |-> "NOERR"]
             ELSE [val |-> err_value, error |-> inner.error]

Buckets(s) == IF s.sc = "dist" THEN {[index |-> i * s.bucket_sz, count |-> s.arr[i]] : i \in DOMAIN s.arr}
              ELSE UNION {Range(s.sarr[h]) : h \in DOMAIN s.sarr}
compare_fn(a, b) == a.index < b.index
Lines(s) == SetToSortSeq(Buckets(s), compare_fn)
SumOf(q) == FoldLeft(LAMBDA x, y : x + y, 0, q)
Cdf(s) == [k \in DOMAIN Lines(s) |-> SumOf([j \in 1 .. k |-> Lines(s)[j].count])]
print_dist(s) ==
  [total |-> SumOf([k \in 1 .. Cardinality(DOMAIN s.arr) |-> s.arr[k - 1]]),
   imin |-> 0, imax |-> Cardinality(DOMAIN s.arr), lines |-> Lines(s), cdf |-> Cdf(s)]
print_sdist(s) ==
  LET all == {b.index : b \in Buckets(s)}
      low == {UINT_MAX} \cup all
  IN  [total |-> SumOf([k \in DOMAIN Lines(s) |-> Lines(s)[k].count]),
       imin |-> IF all = {} THEN -1 ELSE CHOOSE i \in low : \A j \in low : i <= j,
       imax |-> IF all = {} THEN -1 ELSE CHOOSE i \in all : \A j \in all : i >= j,
       lines |-> Lines(s), cdf |-> Cdf(s)]
stat_print_stat(s) ==
  CASE s.sc = "dist" -> print_dist(s)
    [] s.sc = "sdist" -> print_sdist(s)
    [] s.sc = "formula" -> stat_eval_ident(s.name)
    [] OTHER -> stat_val[s.name]
stat_print_stats == [k \in DOMAIN sdb |-> stat_print_stat(sdb[k])]

-----------------------------------------------------------------------------
Charge(h, Mine(_)) == SumOf([j \in DOMAIN h |-> IF Mine(h[j][1]) THEN h[j][2] ELSE 0])
AnyIndex(x) == TRUE
Same(x, y) == (x - y) % Reg = 0

\* An index of 2^32 buckets or more is counted in the wrong one.
FarOut(s, h) == \E j \in DOMAIN h : h[j][1] \div s.bucket_sz >= Reg
DistAddsUp(s, h) ==
  LET printed == print_dist(s)
      n == Cardinality(DOMAIN s.arr)
      Due(i) == Charge(h, LAMBDA x : x \div s.bucket_sz = i)
  IN  /\ Same(printed.total + s.overflows, n * s.init + Charge(h, AnyIndex))
      /\ FarOut(s, h) \/ \A i \in DOMAIN s.arr : Same(s.arr[i], s.init + Due(i))
\* The lowest index is wrong when all are beyond the largest int.
SdistAddsUp(s, h) ==
  LET printed == print_sdist(s)
      hit == {h[j][1] : j \in DOMAIN h}
  IN  /\ {b.index : b \in Range(printed.lines)} = hit /\ Len(printed.lines) = Cardinality(hit)
      /\ \A b \in Range(printed.lines) :
           Same(b.count, s.init + Charge(h, LAMBDA x : x = b.index))
      /\ \A k \in 2 .. Len(printed.lines) : printed.lines[k - 1].index < printed.lines[k].index
      /\ hit # {} => printed.cdf[Len(printed.lines)] = printed.total
      /\ hit # {} => /\ printed.imax \in hit /\ \A x \in hit : x <= printed.imax
                     /\ (printed.imin \in hit /\ \A x \in hit : printed.imin <= x)
                          \/ \A x \in hit : x > UINT_MAX

RECURSIVE Worth(_)
\* What each name stands for in a formula.
Worth(name) ==
  LET s == sdb[CHOOSE k \in stat_find_stat(name) : TRUE]
  IN  CASE s.sc \in {"qword", "sqword"} -> Val("double", stat_val[name])
        [] s.sc = "formula" ->
             Meaning(s.tree, [n \in Named(s) |-> Worth(n)])
        [] OTHER -> Val(s.sc, stat_val[name])
FormulaIsRight(s) ==
  LET names == [n \in Named(s) |-> Worth(n)]
      v == Meaning(s.tree, names)
      w == stat_eval_ident(s.name)
      swallowed == \E k \in DOMAIN sdb : sdb[k].sc = "formula" /\ sdb[k].formula # Text(sdb[k].tree)
  IN  \/ swallowed \/ Wraps(s.tree, names) \/ Chains(s.tree, names)
      \/ IF v.d = 0 THEN w.error = "DIV0" ELSE w.error = "NOERR" /\ SameValue(v, w.val)

=============================================================================
