-------------------------------- MODULE MCLibs --------------------------------
(***************************************************************************)
(* Instance for TLC of the parts around the core that are sequential and   *)
(* share no state with it: caches, branch predictor, options, expressions, *)
(* statistics, the functional simulators with the debugger, event queue,   *)
(* loader and memory, system calls and their traces.  They share none with *)
(* each other, so a behaviour exercises one of them.                       *)
(***************************************************************************)
EXTENDS Cache, Bpred, Options, Stats, Functional, EventQ, Loader, Eio, Bitwise, TLC

VARIABLE part

-----------------------------------------------------------------------------
\* Small geometries: the same two ways that a set of four or more splits into
\* hash buckets, second levels with larger blocks, and every policy.
Geom(n, b, w, p) == [nsets |-> n, bsize |-> b, assoc |-> w, policy |-> p]
MCConfigs ==
  { [il1 |-> Geom(1, 1, 1, "LRU"), dl1 |-> Geom(1, 1, 2, "LRU"), ul2 |-> Geom(2, 2, 1, "FIFO")],
    [il1 |-> Geom(1, 1, 1, "LRU"), dl1 |-> Geom(2, 1, 1, "Random"), ul2 |-> Geom(1, 2, 2, "LRU")],
    [il1 |-> Geom(1, 1, 1, "LRU"), dl1 |-> Geom(1, 1, 2, "FIFO"), ul2 |-> Geom(1, 2, 2, "Random")] }

MCHash(t) == (((t \div 2 ^ 24) ^^ (t \div 2 ^ 16)) ^^ (t \div 2 ^ 8)) ^^ t

Pred(c, u, ways, depth, x) ==
  [class |-> c, update |-> u, bimod |-> 2, l1 |-> 2, l2 |-> 4, meta |-> 2, width |-> 2,
   xor |-> x, sets |-> 2, assoc |-> ways, ras |-> depth]
MCPredictors ==
  { Pred("comb", "ID", 2, 2, TRUE), Pred("2lev", "CT", 1, 0, FALSE), Pred("bimod", "WB", 2, 2, FALSE),
    Pred("taken", "ID", 1, 0, FALSE), Pred("nottaken", "each", 1, 0, FALSE),
    Pred("comb", "each", 2, 0, FALSE), Pred("2lev", "ID", 1, 0, TRUE) }

\* Two loops, one closed by a branch and one by indirect jumps, with compressed
\* and full-size branches in each.
Insn(o, t) == [op |-> o, target |-> t]
MCCode ==
  [pc \in {8, 12, 16, 18, 24} |->
     CASE pc = 8 -> Insn("BEQ", 24) [] pc = 12 -> Insn("JALR", 0) [] pc = 16 -> Insn("C_BEQZ", 8)
       [] pc = 18 -> Insn("C_JR", 0) [] pc = 24 -> Insn("JAL", 8)]
MCTargets == {8, 24}
MCXor(a, b) == a ^^ b
MCOr(a, b) == a | b

-----------------------------------------------------------------------------
\* Options: one of every class, lists of each kind, and two that accumulate.
Optn(oc, nvars, list, accrue, print, def) ==
  [oc |-> oc, nvars |-> nvars, list |-> list, accrue |-> accrue,
   print |-> print, def |-> def, emap |-> <<>>, eval |-> <<>>]
Flag(list, print, def) ==
  [Optn("flag", IF list THEN 2 ELSE 1, list, FALSE, print, def)
     EXCEPT !.emap = <<"true", "1", "false", "0">>, !.eval = <<1, 1, 0, 0>>]
One(oc, def) == Optn(oc, 1, FALSE, FALSE, TRUE, <<def>>)
MCOptions ==
  "-h" :> Flag(FALSE, FALSE, <<0>>) @@ "-mf" :> Flag(FALSE, TRUE, <<0>>) @@ "-fl" :> Flag(TRUE, TRUE, <<1>>)
  @@ "-seed" :> One("int", 1) @@ "-bimod" :> Optn("int", 2, TRUE, FALSE, TRUE, <<1>>)
  @@ "-max" :> One("uint", 0) @@ "-f" :> One("float", 15) @@ "-d" :> One("double", 0)
  @@ "-e" :> [One("enum", "b") EXCEPT !.emap = <<"a", "b">>, !.eval = <<3, 1>>]
  @@ "-chkpt" :> Optn("string", 1, FALSE, FALSE, FALSE, <<NULL>>) @@ "-il1" :> One("string", "x")
  @@ "-pcstat" :> Optn("string", 2, TRUE, TRUE, TRUE, <<>>)
  @@ "-ptrace" :> Optn("string", 2, TRUE, FALSE, TRUE, <<>>)
MCOrder == <<"-h", "-mf", "-fl", "-seed", "-bimod", "-max", "-f", "-d", "-e", "-chkpt", "-il1", "-pcstat", "-ptrace">>
Reals == "0" :> 0 @@ "1.5" :> 15 @@ "1.50001" :> 16
ShownReals == 0 :> "0" @@ 15 :> "1.5" @@ 16 :> "1.5"
MCParses == [int |-> "1" :> 1 @@ "2" :> 2 @@ "-1" :> -1, uint |-> "0" :> 0 @@ "1" :> 1 @@ "2" :> 2,
             float |-> Reals, double |-> Reals]
MCShows == [int |-> 1 :> "1" @@ 2 :> "2" @@ -1 :> "-1", uint |-> 0 :> "0" @@ 1 :> "1" @@ 2 :> "2",
            float |-> ShownReals, double |-> ShownReals]
MCPieces == "a b" :> <<"a", "b">> @@ "a #b" :> <<"a", "#">>
\* A file with a comment that names another, and one that names itself.
MCFiles == "cfg" :> <<<<"-seed", "2", "#", "-bad">>, <<>>, <<"-mf">>, <<"-config", "sub">>>>
           @@ "sub" :> <<<<"-pcstat", "x">>>> @@ "self" :> <<<<"-config", "self">>>>
MCDashed == {"-config", "-dumpconfig", "-", "-1", "-bad"} \cup DOMAIN MCOptions
Given ==
  { <<"-mf">>, <<"-mf", "0">>, <<"-fl">>, <<"-fl", "0", "1">>, <<"-fl", "0">>, <<"-h">>, <<"-seed", "-1">>,
    <<"-seed">>, <<"-bimod", "1", "2">>, <<"-bimod", "2">>, <<"-max", "2">>, <<"-max", "-1">>, <<"-f", "1.5">>,
    <<"-f", "0">>, <<"-f", "1.50001">>, <<"-d", "1.50001">>, <<"-e", "a">>, <<"-e", "x">>, <<"-chkpt", "c">>,
    <<"-il1", "a b">>, <<"-il1", "a #b">>, <<"-il1", "y">>, <<"-pcstat", "x">>, <<"-ptrace", "x">>,
    <<"-ptrace", "x", "y">>, <<"-config", "cfg">>, <<"-config", "self">>, <<"-config">>, <<"-bad">>, <<"prog">>,
    <<"-dumpconfig", "dumped">>, <<"-dumpconfig">>, <<"-dumpconfig", "-">> }
MCCommandLines == {<<>>} \cup Given \cup {a \o b \o <<"-dumpconfig", "dumped", "prog", "-mf">> : a, b \in Given}

-----------------------------------------------------------------------------
\* Expressions: an int is of six bits, so 150 is none, 2500 a uint and 5000 not
\* even that.
Num(w, n, d) == [whole |-> w, n |-> n, d |-> d]
MCNumerals ==
  <<"0">> :> Num(TRUE, 0, 1) @@ <<"1">> :> Num(TRUE, 1, 1) @@ <<"2">> :> Num(TRUE, 2, 1)
  @@ <<"4">> :> Num(TRUE, 4, 1) @@ <<"7">> :> Num(TRUE, 7, 1) @@ <<"8">> :> Num(TRUE, 8, 1)
  @@ <<"2", "4">> :> Num(TRUE, 24, 1) @@ <<"2", "6">> :> Num(TRUE, 26, 1) @@ <<"2", "9">> :> Num(TRUE, 29, 1)
  @@ <<"1", "5", "0">> :> Num(TRUE, 150, 1) @@ <<"2", "5", "0", "0">> :> Num(TRUE, 2500, 1)
  @@ <<"5", "0", "0", "0">> :> Num(TRUE, 5000, 1)
  @@ <<"1", ".", "5">> :> Num(FALSE, 3, 2) @@ <<"0", "x", "e">> :> Num(TRUE, 14, 1)
MCIdents ==
  <<"r", "1">> :> Val("qword", 3000) @@ <<"s", "q">> :> Val("sqword", -5) @@ <<"u">> :> Val("uint", 50)
  @@ <<"p", "c">> :> Val("addr", 30) @@ <<"f">> :> Val("float", 1) @@ <<"s", "y">> :> Val("symbol", 0)
MCLetters == {"a", "b", "c", "d", "e", "f", "g", "h", "n", "p", "q", "r", "s", "u", "w", "x", "y"}

Operand(w) == [op |-> "leaf", word |-> w]
Neg(S) == {[op |-> "neg", r |-> t] : t \in S}
Both(S, T) == {[op |-> k, l |-> a, r |-> b] : k \in {"+", "-", "*", "/"}, a \in S, b \in T}
Few == {Operand(<<"2">>), Operand(<<"7">>), Operand(<<"0">>), Operand(<<"1", ".", "5">>)}
Many ==
  {Operand(w) : w \in {<<"2">>, <<"0">>, <<"7">>, <<"1", "5", "0">>, <<"2", "5", "0", "0">>, <<"5", "0", "0", "0">>,
                       <<"1", ".", "5">>, <<"0", "x", "e">>} \cup (DOMAIN MCIdents \ {<<"s", "y">>})}
MCTrees ==
  Many \cup Neg(Many) \cup Neg(Neg(Few)) \cup Both(Many, Many \cup Neg(Few)) \cup Both(Neg(Few), Few)
  \cup Both(Both(Few, Few), Few) \cup Both(Few, Both(Few, Few)) \cup Neg(Both(Few, Few))

-----------------------------------------------------------------------------
\* Statistics: a counter and an int, distributions that overflow, a histogram,
\* a formula of a formula and one with something after it.
Scal(n, sc, i) == [name |-> <<n>>, sc |-> sc, init |-> i]
Dist(n, i, z, b) == [name |-> <<n>>, sc |-> "dist", init |-> i, arr_sz |-> z, bucket_sz |-> b]
Form(n, op, l, r, x) ==
  [name |-> <<n>>, sc |-> "formula", tree |-> [op |-> op, l |-> Operand(<<l>>), r |-> Operand(<<r>>)], extra |-> x]
Pc == [sc |-> "pcstat"]
MCTables ==
  { <<Scal("c", "qword", 0), Scal("u", "uint", 1), Dist("d", 0, 2, 1), Scal("s", "sdist", 0), Pc,
      Form("f", "/", "c", "u", <<>>), Form("g", "/", "f", "2", <<>>)>>,
    <<Scal("c", "int", 0), Scal("u", "uint", 1), Dist("d", 1, 2, 2), Scal("s", "sdist", 2), Pc,
      Form("f", "*", "c", "u", <<"@">>), Form("g", "-", "f", "2", <<>>)>>,
    <<Scal("c", "qword", 0), Pc, Scal("u", "int", 0)>> }
MCTracked == <<<<"c">>, <<"u">>>>

-----------------------------------------------------------------------------
\* The debugger on a program with compressed instructions, loops and accesses.
Do(n, r) == [name |-> n, rest |-> r]
MCRegisters == <<"a">> :> Val("sqword", 4) @@ <<"f">> :> Val("double", 1)
MCDebugCommands ==
  { Do("", <<>>), Do("cont", <<>>), Do("cont", <<" ", "a", "+", "4">>), Do("cont", <<" ", "f">>), Do("step", <<>>),
    Do("quit", <<>>), Do("print", <<"/", "x", " ", "p", "c">>), Do("print", <<"/", "b", "h", " ", "1">>),
    Do("print", <<>>), Do("whatis", <<" ", "n">>), Do("display", <<"/", "q", " ", "2", "4">>), Do("stat", <<" ", "n">>),
    Do("help", <<>>), Do("iregs", <<>>), Do("symbol", <<" ", "a">>),
    Do("dump", <<>>), Do("dump", <<" ", "7", " ", "2">>), Do("dump", <<" ", "2", "6", " ", "8">>),
    Do("dump", <<" ", "4", " ", "0">>), Do("dis", <<" ", "4", " ", "2">>), Do("dis", <<" ", "2">>),
    Do("break", <<" ", "8">>), Do("dbreak", <<" ", "2", "6">>), Do("dbreak", <<" ", "2", "4", " ", "w">>),
    Do("rbreak", <<" ", "2", ":">>), Do("rbreak", <<" ", "@", "2", "4", ":", "+", "2", " ", "r">>),
    Do("rbreak", <<" ", "#", "1", ":", "2">>), Do("rbreak", <<" ", "8", ":", "@", "2", "9">>), Do("breaks", <<>>),
    Do("delete", <<" ", "1">>), Do("clear", <<>>), Do("delete", <<" ", "1", " ", "2">>) }
Inst(z, o, a, b, t) == [size |-> z, op |-> o, addr |-> a, bytes |-> b, target |-> t]
MCProgram ==
  4 :> Inst(4, "load", 24, 4, 0) @@ 8 :> Inst(2, "alu", 0, 0, 0) @@ 10 :> Inst(2, "branch", 0, 0, 4)
  @@ 12 :> Inst(4, "store", 26, 1, 0) @@ 16 :> Inst(2, "jump", 0, 0, 8) @@ 18 :> Inst(4, "fault", 0, 0, 0)
Ends(t, s, e) == <<[start |-> [ptype |-> t, pos |-> s], end |-> [ptype |-> t, pos |-> e]]>>
MCCheckpoints == {<<>>, Ends("inst", 2, 3), Ends("addr", 12, 12)}
MCEntries == {<<"n">>}

-----------------------------------------------------------------------------
\* Executables: whole ones, and without sections, data or an entry point.
Seg(t, a, b, n) == [type |-> t, addr |-> a, bytes |-> b, memsz |-> n]
Sec(t, a, b, n, x, al) == [type |-> t, addr |-> a, bytes |-> b, size |-> n, exec |-> x, alloc |-> al]
Exe(g, c, e, v, p) == [segments |-> g, sections |-> c, entry |-> e, argv |-> v, envp |-> p]
TextSeg == Seg("LOAD", 4, <<1, 2, 3>>, 3)
DataSeg == Seg("LOAD", 10, <<4, 5>>, 5)
TextSec == Sec("PROGBITS", 4, <<1, 2, 3>>, 3, TRUE, TRUE)
DataSec == Sec("PROGBITS", 10, <<4, 5>>, 2, FALSE, TRUE)
BssSec == Sec("NOBITS", 12, <<>>, 3, FALSE, TRUE)
DebugSec == Sec("PROGBITS", 0, <<>>, 9, FALSE, FALSE)
Arg == <<<<5>>>>
MCExecutables ==
  { Exe(<<Seg("NOTE", 0, <<>>, 0), TextSeg, DataSeg>>, <<DebugSec, TextSec, DataSec, BssSec>>, 4,
        <<<<5>>, <<6, 7>>>>, <<<<8>>>>),
    Exe(<<TextSeg, DataSeg>>, <<TextSec, DataSec>>, 4, Arg, <<<<6, 7>>, <<8, 9>>>>),
    Exe(<<TextSeg, DataSeg>>, <<TextSec, DataSec>>, 4, Arg, <<<<6, 7, 8, 9>>, <<8, 9, 6>>>>),
    Exe(<<TextSeg, DataSeg>>, <<DataSec>>, 4, Arg, <<>>), Exe(<<TextSeg, DataSeg>>, <<TextSec>>, 4, Arg, <<>>),
    Exe(<<TextSeg, DataSeg>>, <<>>, 4, Arg, <<>>), Exe(<<TextSeg, DataSeg>>, <<TextSec, DataSec>>, 0, Arg, <<>>),
    Exe(<<TextSeg, DataSeg>>, <<TextSec, Sec("DYNAMIC", 4, <<>>, 4, FALSE, TRUE)>>, 4, Arg, <<>>),
    Exe(<<TextSeg, DataSeg, Seg("LOAD", 16, <<>>, 4)>>, <<TextSec, DataSec>>, 4, Arg, <<>>),
    Exe(<<Seg("LOAD", 20, <<1, 2>>, 2), DataSeg>>, <<Sec("PROGBITS", 20, <<1, 2>>, 2, TRUE, TRUE), DataSec>>,
        4, Arg, <<>>) }
Touch(c, a, b, m) == [cmd |-> c, addr |-> a, bytes |-> b, macro |-> m]
MCAccesses ==
  {Touch(c, a, b, FALSE) : c \in {"Read", "Write"}, a \in {4, 12, 28}, b \in {<<9>>, <<9, 8>>}}
  \cup {Touch("Read", 4, <<9, 8, 7>>, FALSE), Touch("Write", 29, <<9, 8>>, FALSE)}
  \cup {Touch(c, a, b, TRUE) : c \in {"Read", "Write"}, a \in {5, 29}, b \in {<<7, 6>>, <<7, 6, 5, 4>>}}

-----------------------------------------------------------------------------
\* System calls, one of each shape.
Ask(x, a, b, c) == [code |-> x, a0 |-> a, a1 |-> b, a2 |-> c]
MCCalls ==
  { Ask("exit", 0, 0, 0), Ask("brk", 0, 0, 0), Ask("brk", 12, 0, 0), Ask("brk", 24, 0, 0), Ask("mmap", 0, 4, 0),
    Ask("mmap", 0, 3, 0), Ask("mremap", 32, 4, 8), Ask("mremap", 36, 4, 8), Ask("mremap", 32, 3, 2),
    Ask("unlinkat", 0, 8, 0), Ask("openat", 0, 8, 0), Ask("open", 8, 0, 0), Ask("close", 1, 0, 0),
    Ask("close", 3, 0, 0), Ask("lseek", 3, 0, 0), Ask("write", 1, 8, 2), Ask("write", 3, 8, 1),
    Ask("writev", 1, 8, 2), Ask("read", 0, 8, 2), Ask("getpid", 0, 0, 0), Ask("fstat", 1, 10, 0),
    Ask("readlinkat", 0, 8, 10), Ask("gettimeofday", 8, 8, 0), Ask("clock_gettime", 0, 8, 0), Ask("getcwd", 8, 4, 0),
    Ask("futex", 8, 0, 10), Ask("rt_sigaction", 2, 8, 10), Ask("rt_sigprocmask", 0, 8, 9),
    Ask("riscv_hwprobe", 8, 1, 0), Ask("riscv_hwprobe", 8, 2, 0), Ask("riscv_hwprobe", 8, 2, 1),
    Ask("ioctl", 0, 0, 0), Ask("ioctl", 1, 0, 0), Ask("ioctl", 2, 0, 0), Ask("munmap", 32, 4, 0),
    Ask("statx", 0, 0, 0), Ask("getuid", 0, 0, 0), Ask("clone", 0, 0, 0) }
MCInput == <<1, 2, 1>>

-----------------------------------------------------------------------------
\* A part that does not run has one initial state; its properties hold there.
IdleCache == geometry = (CHOOSE g \in Configs : TRUE) /\ CacheInit
IdleBpred == conf = (CHOOSE c \in Predictors : c.class = "nottaken") /\ BpInit
IdleOptions ==
  /\ odb = <<>> /\ stack = <<>> /\ files = <<>> /\ exec_index = 0
  /\ verdict = "idle" /\ run = 0 /\ saved = <<>>
IdleEval == tree = 0 /\ noise = 0 /\ text = <<>> /\ result = [error |-> "none"]
IdleStats ==
  /\ table = <<[sc |-> "idle"]>> /\ sdb = <<>> /\ stat_val = <<>>
  /\ lastvals = <<>> /\ added = <<>> /\ acts = 0
IdleFunctional == sim = "fast" /\ dlite_active = FALSE /\ FunctionalInit
IdleLoader == file = (CHOOSE f \in Executables : TRUE) /\ LoaderInit
MCInit ==
  \/ /\ part = "cache" /\ CacheInit
     /\ IdleBpred /\ IdleOptions /\ IdleEval /\ IdleStats /\ IdleFunctional /\ EventqInit /\ IdleLoader /\ EioInit
  \/ /\ part = "bpred" /\ BpInit
     /\ IdleCache /\ IdleOptions /\ IdleEval /\ IdleStats /\ IdleFunctional /\ EventqInit /\ IdleLoader /\ EioInit
  \/ /\ part = "options" /\ OptInit
     /\ IdleCache /\ IdleBpred /\ IdleEval /\ IdleStats /\ IdleFunctional /\ EventqInit /\ IdleLoader /\ EioInit
  \/ /\ part = "eval" /\ EvalInit
     /\ IdleCache /\ IdleBpred /\ IdleOptions /\ IdleStats /\ IdleFunctional /\ EventqInit /\ IdleLoader /\ EioInit
  \/ /\ part = "stats" /\ StatInit
     /\ IdleCache /\ IdleBpred /\ IdleOptions /\ IdleEval /\ IdleFunctional /\ EventqInit /\ IdleLoader /\ EioInit
  \/ /\ part = "functional" /\ FunctionalInit
     /\ IdleCache /\ IdleBpred /\ IdleOptions /\ IdleEval /\ IdleStats /\ EventqInit /\ IdleLoader /\ EioInit
  \/ /\ part \in {"eventq", "eio"} /\ EventqInit /\ EioInit
     /\ IdleCache /\ IdleBpred /\ IdleOptions /\ IdleEval /\ IdleStats /\ IdleFunctional /\ IdleLoader
  \/ /\ part = "loader" /\ LoaderInit
     /\ IdleCache /\ IdleBpred /\ IdleOptions /\ IdleEval /\ IdleStats /\ IdleFunctional /\ EventqInit /\ EioInit

ButForCache == <<bpredVars, optVars, evalVars, statVars, functionalVars, eventqVars, loaderVars, eioVars>>
ButForBpred == <<cacheVars, optVars, evalVars, statVars, functionalVars, eventqVars, loaderVars, eioVars>>
ButForOptions == <<cacheVars, bpredVars, evalVars, statVars, functionalVars, eventqVars, loaderVars, eioVars>>
ButForEval == <<cacheVars, bpredVars, optVars, statVars, functionalVars, eventqVars, loaderVars, eioVars>>
ButForStats == <<cacheVars, bpredVars, optVars, evalVars, functionalVars, eventqVars, loaderVars, eioVars>>
ButForFunctional == <<cacheVars, bpredVars, optVars, evalVars, statVars, eventqVars, loaderVars, eioVars>>
ButForEventq == <<cacheVars, bpredVars, optVars, evalVars, statVars, functionalVars, loaderVars, eioVars>>
ButForLoader == <<cacheVars, bpredVars, optVars, evalVars, statVars, functionalVars, eventqVars, eioVars>>
ButForEio == <<cacheVars, bpredVars, optVars, evalVars, statVars, functionalVars, eventqVars, loaderVars>>
MCNext ==
  /\ UNCHANGED part
  /\ \/ part = "cache" /\ CacheNext /\ UNCHANGED ButForCache
     \/ part = "bpred" /\ BpNext /\ UNCHANGED ButForBpred
     \/ part = "options" /\ OptNext /\ UNCHANGED ButForOptions
     \/ part = "eval" /\ EvalNext /\ UNCHANGED ButForEval
     \/ part = "stats" /\ StatNext /\ UNCHANGED ButForStats
     \/ part = "functional" /\ FunctionalNext /\ UNCHANGED ButForFunctional
     \/ part = "eventq" /\ EventqNext /\ UNCHANGED ButForEventq
     \/ part = "loader" /\ LoaderNext /\ UNCHANGED ButForLoader
     \/ part = "eio" /\ EioNext /\ UNCHANGED ButForEio
MCSpec == MCInit /\ [][MCNext]_<<part, eventqVars, ButForEventq>>
=============================================================================
