-------------------------------- MODULE Memory --------------------------------
(***************************************************************************)
(* Simulated memory (memory.c, memory.h): pages that exist from the first  *)
(* write to them, found through a hashed page table whose buckets move the *)
(* page they find to the front.  The operators take and return a memory,   *)
(* [ptab, page_count, ptab_misses, ptab_accesses]; a byte that was never   *)
(* written reads as 0.                                                     *)
(***************************************************************************)
EXTENDS Integers, Sequences, FiniteSets

CONSTANTS
  MD_PAGE_SIZE,     \* 4096 in the program
  MEM_PTAB_SIZE     \* 32 K buckets

ASSUME MemoryAssumption == {MD_PAGE_SIZE, MEM_PTAB_SIZE} \subseteq Nat \ {0}

mem_init == [ptab |-> [s \in 0 .. MEM_PTAB_SIZE - 1 |-> <<>>],
             page_count |-> 0, ptab_misses |-> 0, ptab_accesses |-> 0]

MEM_PTAB_SET(addr) == (addr \div MD_PAGE_SIZE) % MEM_PTAB_SIZE
MEM_PTAB_TAG(addr) == (addr \div MD_PAGE_SIZE) \div MEM_PTAB_SIZE
MEM_OFFSET(addr) == addr % MD_PAGE_SIZE

PageChain(m, addr) == m.ptab[MEM_PTAB_SET(addr)]
Placed(m, addr) == {k \in DOMAIN PageChain(m, addr) : PageChain(m, addr)[k].tag = MEM_PTAB_TAG(addr)}

\* An absent page is a miss, like one that is not at the front.
mem_translate(m, addr) ==
  LET b == PageChain(m, addr)
      k == CHOOSE j \in Placed(m, addr) : TRUE
      front == <<b[k]>> \o (SubSeq(b, 1, k - 1) \o SubSeq(b, k + 1, Len(b)))
      counted == [m EXCEPT !.ptab_misses = @ + 1, !.ptab_accesses = @ + 1]
  IN  IF Placed(m, addr) = {} THEN counted
      ELSE [counted EXCEPT !.ptab[MEM_PTAB_SET(addr)] = front]
MEM_PAGE(m, addr) ==
  IF 1 \in Placed(m, addr) THEN [m EXCEPT !.ptab_accesses = @ + 1] ELSE mem_translate(m, addr)
mem_newpage(m, addr) ==
  [m EXCEPT !.ptab[MEM_PTAB_SET(addr)] =
              <<[tag |-> MEM_PTAB_TAG(addr), page |-> [i \in 0 .. MD_PAGE_SIZE - 1 |-> 0]]>> \o @,
            !.page_count = @ + 1]

\* MEM_READ() and MEM_WRITE(): the page is looked up to see that it is there, and
\* again to use it.  An access of n bytes goes to the host page of its first
\* byte; what lies beyond the page is some other memory of the host.
MEM_READ(m, addr, n) ==
  LET seen == MEM_PAGE(m, addr)
      at == PageChain(seen, addr)[1].page
  IN  IF Placed(m, addr) = {} THEN [mem |-> seen, bytes |-> [i \in 1 .. n |-> 0]]
      ELSE [mem |-> MEM_PAGE(seen, addr), bytes |-> [i \in 1 .. n |-> at[MEM_OFFSET(addr) + i - 1]]]
MEM_WRITE(m, addr, bytes) ==
  LET seen == MEM_PAGE(m, addr)
      tickled == IF Placed(m, addr) = {} THEN mem_newpage(seen, addr) ELSE seen
      i(k) == k - MEM_OFFSET(addr) + 1
  IN  [MEM_PAGE(tickled, addr) EXCEPT
         !.ptab[MEM_PTAB_SET(addr)][1].page =
            [k \in DOMAIN @ |-> IF i(k) \in DOMAIN bytes THEN bytes[i(k)] ELSE @[k]]]

\* mem_access(): only powers of two, at a multiple of the size, byte by byte.
ReadBytes(m, addr, n) ==
  LET After(r, one) == [mem |-> one.mem, bytes |-> Append(r.bytes, one.bytes[1])]
      read[k \in 0 .. n] ==
        IF k = 0 THEN [mem |-> m, bytes |-> <<>>]
        ELSE LET r == read[k - 1] IN After(r, MEM_READ(r.mem, addr + k - 1, 1))
  IN  read[n]
WriteBytes(m, addr, bytes) ==
  LET written[k \in 0 .. Len(bytes)] ==
        IF k = 0 THEN m ELSE MEM_WRITE(written[k - 1], addr + k - 1, <<bytes[k]>>)
  IN  written[Len(bytes)]
Powers == {1, 2, 4, 8, 16} \cap 1 .. MD_PAGE_SIZE
Refused(addr, n) == n \notin Powers \/ (n \in Powers => addr % n # 0)
mem_access(m, cmd, addr, bytes) ==
  LET n == Len(bytes)
      read == ReadBytes(m, addr, n)
  IN  IF Refused(addr, n) THEN [mem |-> m, bytes |-> bytes, fault |-> TRUE]
      ELSE [mem |-> IF cmd = "Read" THEN read.mem ELSE WriteBytes(m, addr, bytes),
            bytes |-> IF cmd = "Read" THEN read.bytes ELSE bytes, fault |-> FALSE]

\* The copies go through mem_access() a byte at a time; a string ends with a 0.
mem_bcopy(m, addr, bytes) == WriteBytes(m, addr, bytes)
mem_strcpy(m, addr, s) == WriteBytes(m, addr, Append(s, 0))

\* What a memory holds at an address, and the addresses of its pages.
ByteAt(m, addr) ==
  IF Placed(m, addr) = {} THEN 0
  ELSE PageChain(m, addr)[CHOOSE k \in Placed(m, addr) : TRUE].page[MEM_OFFSET(addr)]
MEM_PTE_ADDR(m, s, k) == (m.ptab[s][k].tag * MEM_PTAB_SIZE + s) * MD_PAGE_SIZE
Pages(m) == UNION {{MEM_PTE_ADDR(m, s, k) : k \in DOMAIN m.ptab[s]} : s \in DOMAIN m.ptab}
=============================================================================
