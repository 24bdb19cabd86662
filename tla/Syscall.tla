-------------------------------- MODULE Syscall --------------------------------
(***************************************************************************)
(* System calls of the simulated program (syscall.c): most are passed on   *)
(* to the host with the registers as they are, buffers copied in and out   *)
(* of simulated memory a byte at a time; memory is granted by two break    *)
(* points and never taken back.                                            *)
(*                                                                         *)
(* A call is what it reads, asks the host and writes, in that order, and   *)
(* the value it leaves in a0.  The host, which may refuse any request, is  *)
(* modelled from what sys_syscall() does with its answers.  Calls of one   *)
(* shape have one representative per shape; structures are StructSize      *)
(* bytes, a string ends with 0, and memory is a flat array.                *)
(***************************************************************************)
EXTENDS Integers, Sequences, FiniteSets

CONSTANTS
  Calls,            \* [code, a0, a1, a2], what the program may ask for
  Stores,           \* addresses the program writes to
  SP, PageSize, StructSize,
  ld_brk_start,     \* where the loader put the heap
  MmapStart,        \* 0xd0000000
  Errno,            \* of a request the host refuses
  Input,            \* the bytes the host has for the program
  MaxSyscalls       \* bound on calls and stores

VARIABLES
  memory,           \* what was written, by address
  brk_point, mmap_brk_point,
  a0,               \* the result of the last call
  fds, input, out,  \* the host: open files, what is left to read, what was written
  last_call, host,  \* history: the last call and the host's answer
  outcome, calls,
  regions           \* history: the memory the program was granted, [at, len]

hostVars == <<fds, input, out>>
syscallVars == <<memory, brk_point, mmap_brk_point, a0, hostVars, last_call, host, outcome, calls, regions>>

At(m, a) == IF a \in DOMAIN m THEN m[a] ELSE 0
Stored(m, a, bytes) ==
  [b \in DOMAIN m \cup a .. a + Len(bytes) - 1 |->
     IF b \in a .. a + Len(bytes) - 1 THEN bytes[b - a + 1] ELSE m[b]]

\* mem_bcopy() and mem_strcpy() as sequences of accesses of a byte.
Op(cmd, a, bytes) == [k \in DOMAIN bytes |-> [cmd |-> cmd, addr |-> a + k - 1, byte |-> bytes[k]]]
Copied(m, a, n) == [k \in 1 .. n |-> At(m, a + k - 1)]
Reads(m, a, n) == Op("Read", a, Copied(m, a, n))
RECURSIVE StringLength(_, _)
StringLength(m, a) == IF At(m, a) = 0 THEN 1 ELSE 1 + StringLength(m, a + 1)
ReadsString(m, a) == Reads(m, a, StringLength(m, a))
Writes(a, bytes) == Op("Write", a, bytes)
RECURSIVE Performed(_, _)
Performed(m, ops) ==
  IF ops = <<>> THEN m
  ELSE Performed(IF Head(ops).cmd = "Write" THEN Stored(m, Head(ops).addr, <<Head(ops).byte>>) ELSE m, Tail(ops))

-----------------------------------------------------------------------------
(* sys_syscall(): the accesses, the result, and the break points.          *)

Result(ops, r) ==
  [ops |-> ops, a0 |-> r, brk |-> brk_point, mmap |-> mmap_brk_point, how |-> "running"]
\* What the host answers is the result, -1 when it refuses; or -errno, where the
\* call looks at it.
Answer(h, r) == IF h.ok THEN r ELSE -1
OrErrno(h, r) == IF h.ok THEN r ELSE -Errno
Filled(h, n) == [k \in 1 .. n |-> h.byte]

Brk(c) ==
  IF c.a0 = 0 THEN Result(<<>>, brk_point)
  ELSE [Result(<<>>, c.a0) EXCEPT !.brk = c.a0, !.how = IF c.a0 >= SP THEN "fatal" ELSE "running"]
Mmap(c) == [Result(<<>>, mmap_brk_point) EXCEPT !.mmap = @ + c.a1]
\* The last mapping grows where it is, and the result is 0; another moves.
Mremap(c) ==
  IF c.a2 <= c.a1 THEN Result(<<>>, c.a0)
  ELSE IF c.a0 + c.a1 = mmap_brk_point THEN [Result(<<>>, 0) EXCEPT !.mmap = @ + (c.a2 - c.a1)]
  ELSE [Result(Reads(memory, c.a0, c.a1) \o Writes(mmap_brk_point, Copied(memory, c.a0, c.a1)), mmap_brk_point)
          EXCEPT !.mmap = @ + c.a2]
\* link, unlink, unlinkat, openat, chdir, faccessat, renameat; open.
PathCall(c, h) == Result(ReadsString(memory, c.a1), Answer(h, IF c.code = "openat" THEN h.n ELSE 0))
Open(c, h) == Result(ReadsString(memory, c.a0), OrErrno(h, h.n))
\* getpid and the like, tgkill, ftruncate: the host's answer alone.
Host(c, h) == Result(<<>>, Answer(h, h.n))
Lseek(c, h) == Result(<<>>, OrErrno(h, h.n))
Close(c, h) == Result(<<>>, IF c.a0 \in 0 .. 2 THEN 0 ELSE OrErrno(h, 0))
Write(c, h) == Result(Reads(memory, c.a1, c.a2), Answer(h, h.n))
\* The vector, and with every entry of it what it points to; the host is called
\* once.  The result is not the number of bytes, nor is an error negative.
Vector(c) == [k \in 1 .. c.a2 |-> [base |-> At(memory, c.a1 + 2 * (k - 1)), len |-> At(memory, c.a1 + 2 * (k - 1) + 1)]]
RECURSIVE Gathered(_)
Gathered(v) == IF v = <<>> THEN <<>> ELSE Copied(memory, Head(v).base, Head(v).len) \o Gathered(Tail(v))
RECURSIVE VectorReads(_, _)
VectorReads(a, v) ==
  IF v = <<>> THEN <<>>
  ELSE Reads(memory, a, 2) \o Reads(memory, Head(v).base, Head(v).len) \o VectorReads(a + 2, Tail(v))
Writev(c, h) == Result(VectorReads(c.a1, Vector(c)), IF h.ok THEN 0 ELSE Errno)
Read(c, h) ==
  Result(IF h.ok THEN Writes(c.a1, SubSeq(input, 1, h.n)) ELSE <<>>, Answer(h, h.n))
\* fstat fills its buffer though the host refuses; readlinkat does not.
Fstat(c, h) == Result(Writes(c.a1, Filled(h, StructSize)), OrErrno(h, 0))
Readlinkat(c, h) ==
  Result(ReadsString(memory, c.a1) \o (IF h.ok THEN Writes(c.a2, Filled(h, h.n)) ELSE <<>>), Answer(h, h.n))
\* The time is read from the program, and never written to it; the zone is.
Gettimeofday(c, h) ==
  Result((IF c.a0 # 0 THEN Reads(memory, c.a0, StructSize) ELSE <<>>)
         \o (IF c.a1 # 0 THEN Reads(memory, c.a1, StructSize) \o Writes(c.a1, Filled(h, StructSize))
             ELSE <<>>), 0)
\* clock_gettime; uname and times alike, where their first argument says.
FillStruct(c, h) == Result(Writes(c.a1, Filled(h, StructSize)), 0)
Getcwd(c, h) == Result(Writes(c.a0, Append(Filled(h, h.n), 0)), h.n)
Futex(c, h) ==
  Result(Reads(memory, c.a0, StructSize) \o Reads(memory, c.a2, StructSize) \o Writes(c.a0, Copied(memory, c.a0, StructSize)),
         Answer(h, 0))
Sigaction(c, h) == Result(Reads(memory, c.a1, StructSize) \o Reads(memory, c.a2, StructSize), Answer(h, 0))
\* The new mask goes where the old one should.
Sigprocmask(c, h) ==
  LET set == Copied(memory, c.a1, StructSize)
  IN  Result(Reads(memory, c.a1, StructSize) \o Reads(memory, c.a2, StructSize) \o Writes(c.a1, set) \o Writes(c.a2, set),
             Answer(h, 0))
\* Every turn reads the first pair: 4 is the key that is known, 2 stands for none.
\* The result is left as it was, the address.
Probe(kv) == IF kv[1] = 4 THEN <<4, 3>> ELSE <<2, 0>>
RECURSIVE Probes(_, _, _)
Probes(a, kv, n) == IF n = 0 THEN <<>> ELSE Op("Read", a, kv) \o Writes(a, Probe(kv)) \o Probes(a, Probe(kv), n - 1)
Hwprobe(c) == IF c.a2 # 0 THEN Result(<<>>, -Errno) ELSE Result(Probes(c.a0, Copied(memory, c.a0, 2), c.a1), c.a0)
\* fcntl, ioctl.
Ioctl(c) == Result(<<>>, CASE c.a0 = 0 -> -1 [] c.a0 = 2 -> 0 [] OTHER -> c.a0)

\* munmap and mprotect, prlimit64, stat and others do nothing, getuid gives 1000.
Fixed(code) == CASE code = "getuid" -> 1000 [] code = "statx" -> -38 [] OTHER -> 0

sys_syscall(c, h) ==
  CASE c.code = "exit" -> [Result(<<>>, c.a0) EXCEPT !.how = "exit"]
    [] c.code = "brk" -> Brk(c) [] c.code = "mmap" -> Mmap(c) [] c.code = "mremap" -> Mremap(c)
    [] c.code \in {"unlinkat", "openat"} -> PathCall(c, h)
    [] c.code = "open" -> Open(c, h) [] c.code = "close" -> Close(c, h) [] c.code = "lseek" -> Lseek(c, h)
    [] c.code = "write" -> Write(c, h) [] c.code = "writev" -> Writev(c, h) [] c.code = "read" -> Read(c, h)
    [] c.code = "getpid" -> Host(c, h) [] c.code = "fstat" -> Fstat(c, h)
    [] c.code = "readlinkat" -> Readlinkat(c, h) [] c.code = "gettimeofday" -> Gettimeofday(c, h)
    [] c.code = "clock_gettime" -> FillStruct(c, h) [] c.code = "getcwd" -> Getcwd(c, h)
    [] c.code = "futex" -> Futex(c, h) [] c.code = "rt_sigaction" -> Sigaction(c, h)
    [] c.code = "rt_sigprocmask" -> Sigprocmask(c, h)
    [] c.code = "riscv_hwprobe" -> Hwprobe(c) [] c.code = "ioctl" -> Ioctl(c)
    [] c.code \in {"munmap", "mprotect", "prlimit64", "stat", "getuid", "statx"} -> Result(<<>>, Fixed(c.code))
    [] OTHER -> [Result(<<>>, c.a0) EXCEPT !.how = "panic"]

-----------------------------------------------------------------------------
(* The program and the host.                                               *)

\* The answers the host may give: it can write or read less than asked for.
Least(x, y) == IF x < y THEN x ELSE y
NewFd == CHOOSE n \in 3 .. 9 : n \notin fds /\ \A j \in 3 .. 9 \ fds : n <= j
Answers(c) ==
  LET Ok(ns) == {[ok |-> TRUE, n |-> n, byte |-> 1] : n \in ns}
      Refuse == {[ok |-> FALSE, n |-> 0, byte |-> 2]}
  IN  CASE c.code \in {"open", "openat"} -> Ok({NewFd}) \cup Refuse
        [] c.code = "close" -> IF c.a0 \in fds THEN Ok({0}) ELSE Refuse
        [] c.code = "write" -> (IF c.a0 \in fds THEN Ok(1 .. c.a2) ELSE {}) \cup Refuse
        [] c.code = "writev" -> (IF c.a0 \in fds THEN Ok({Len(Gathered(Vector(c)))}) ELSE {}) \cup Refuse
        [] c.code = "read" -> Ok(0 .. Least(c.a2, Len(input))) \cup Refuse
        [] c.code \in {"readlinkat", "getcwd"} -> Ok({2}) \cup (IF c.code = "getcwd" THEN {} ELSE Refuse)
        [] c.code \in {"unlinkat", "lseek", "getpid", "fstat", "futex", "rt_sigaction", "rt_sigprocmask"} ->
             Ok({0}) \cup Refuse
        [] OTHER -> Ok({0})

SyscallInit ==
  /\ memory = <<>> /\ brk_point = ld_brk_start /\ mmap_brk_point = MmapStart
  /\ a0 = 0 /\ fds = {0, 1, 2} /\ input = Input /\ out = <<>>
  /\ last_call = [code |-> "none"] /\ host = [ok |-> TRUE] /\ outcome = "running" /\ calls = 0 /\ regions = <<>>

CallsGoOn == outcome = "running" /\ calls < MaxSyscalls
Store(addr, byte) ==
  /\ CallsGoOn
  /\ memory' = Stored(memory, addr, <<byte>>)
  /\ calls' = calls + 1 /\ last_call' = [code |-> "none"]
  /\ UNCHANGED <<brk_point, mmap_brk_point, a0, hostVars, host, outcome, regions>>

\* The host's side of a call.
HostDoes(c, h) ==
  /\ fds' = IF h.ok /\ c.code \in {"open", "openat"} THEN fds \cup {h.n}
            ELSE IF h.ok /\ c.code = "close" /\ c.a0 \notin 0 .. 2 THEN fds \ {c.a0} ELSE fds
  /\ input' = IF c.code = "read" /\ h.ok THEN SubSeq(input, h.n + 1, Len(input)) ELSE input
  /\ out' = IF c.code = "write" /\ h.ok THEN out \o Copied(memory, c.a1, h.n)
            ELSE IF c.code = "writev" /\ h.ok THEN out \o Gathered(Vector(c)) ELSE out
\* What the program takes the result for.
Granted(c, r) ==
  CASE c.code = "mmap" -> Append(regions, [at |-> r.a0, len |-> c.a1])
    [] c.code = "mremap" ->
         [k \in DOMAIN regions |-> IF regions[k].at = c.a0 THEN [at |-> r.a0, len |-> c.a2] ELSE regions[k]]
    [] OTHER -> regions
\* A mapping is resized as the program was told it is.
Legal(c) == c.code = "mremap" => \E k \in DOMAIN regions : regions[k] = [at |-> c.a0, len |-> c.a1]

Syscall(c, r, h) ==
  /\ memory' = Performed(memory, r.ops) /\ a0' = r.a0 /\ outcome' = r.how
  /\ brk_point' = r.brk /\ mmap_brk_point' = r.mmap
  /\ HostDoes(c, h) /\ regions' = Granted(c, r)
  /\ last_call' = c /\ host' = h /\ calls' = calls + 1

-----------------------------------------------------------------------------
\* No byte is granted twice, nor one of the heap; as the host would, to the end of
\* a page, when all lengths are multiples of it.  A mapping that has grown where
\* it was is one the program was told starts at 0, and so is lost to it.
Disjoint(p, q, round) ==
  LET End(r) == r.at + ((r.len + round - 1) \div round) * round IN End(p) <= q.at \/ End(q) <= p.at
GrantsAreDisjoint ==
  LET known == {k \in DOMAIN regions : regions[k].at # 0}
      whole == \A k \in known : regions[k].len % PageSize = 0
  IN  /\ \A j, k \in known : j # k => Disjoint(regions[j], regions[k], IF whole THEN PageSize ELSE 1)
      /\ \A k \in known : brk_point <= regions[k].at /\ regions[k].at + regions[k].len <= mmap_brk_point
      /\ outcome = "running" => brk_point < SP

\* What a call says is what has happened: so many bytes went out or came in, a
\* mapping that was moved holds what it held, a refusal is a negative number.
\* writev says 0 for all it wrote, and a positive number when it could not.
CallsTellTheTruth(c, h) ==
  LET gone == Len(out') - Len(out)
  IN  /\ c.code = "write" => IF h.ok THEN a0' = gone ELSE a0' < 0 /\ gone = 0
      /\ c.code = "writev" => IF h.ok THEN a0' = 0 ELSE a0' > 0 /\ gone = 0
      /\ c.code = "read" => /\ (IF h.ok THEN a0' = Len(input) - Len(input') ELSE a0' < 0 /\ input' = input)
                            /\ \A k \in 1 .. a0' : At(memory', c.a1 + k - 1) = input[k]
      /\ c.code \in {"open", "openat"} => IF h.ok THEN fds' = fds \cup {a0'} /\ a0' \notin fds ELSE a0' < 0
      /\ c.code = "close" /\ c.a0 \notin 0 .. 2 => (a0' = 0) = (c.a0 \in fds)
      /\ c.code = "mremap" /\ a0' # 0 =>
           \A k \in 0 .. Least(c.a1, c.a2) - 1 : At(memory', a0' + k) = At(memory, c.a0 + k)
      /\ ~h.ok /\ c.code # "writev" /\ ~(c.code = "close" /\ c.a0 \in 0 .. 2) => a0' < 0
=============================================================================
