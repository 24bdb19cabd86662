-------------------------------- MODULE Loader --------------------------------
(***************************************************************************)
(* The program loader (loader.c) on simulated memory: the segments and the *)
(* sections of an executable, the bounds of text and data, the stack with  *)
(* the arguments and the environment; and then the program's own accesses, *)
(* by mem_access() or, in the functional simulators, by the macros.        *)
(*                                                                         *)
(* A file is what its headers say, its segments and sections with their    *)
(* bytes; characters and bytes are numbers, a pointer is PtrSize bytes.    *)
(***************************************************************************)
EXTENDS Memory

CONSTANTS
  Executables,      \* [segments, sections, entry, argv, envp]
  ld_stack_base, MD_MAX_ENVIRON,
  PtrSize, ByteBase,    \* 8 and 256 in the program
  NoBase,           \* what ld_text_base and ld_data_base start as, 0xffffffff
  Accesses,         \* the program's: [cmd, addr, bytes, macro]
  MaxProgram        \* bound on them

\* Addresses and bytes are numbers, and an access is of at least one byte.  The
\* pointers on the stack are aligned, as mem_access() demands: its base is
\* 0xc0000000, and 16 K are left for them.
ASSUME LoaderAssumption ==
  /\ \A f \in Executables :
       /\ \A k \in DOMAIN f.segments : f.segments[k].addr \in Nat /\ f.segments[k].bytes \in Seq(Nat)
       /\ \A k \in DOMAIN f.sections : f.sections[k].addr \in Nat /\ f.sections[k].bytes \in Seq(Nat)
       /\ f.argv \in Seq(Seq(Nat)) /\ f.envp \in Seq(Seq(Nat))
  /\ \A a \in Accesses :
       a.cmd \in {"Read", "Write"} /\ a.addr \in Nat /\ a.bytes \in Seq(Nat) /\ a.bytes # <<>>
  /\ PtrSize \in Powers
  /\ ld_stack_base - MD_MAX_ENVIRON \in Nat /\ (ld_stack_base - MD_MAX_ENVIRON) % PtrSize = 0

VARIABLES
  file, loading,
  item,             \* the next segment, section or pointer, then the accesses made
  sp,               \* where the next string goes on the stack
  image,
  ld_text_base, ld_text_bound, ld_data_base, ld_data_bound,
  ld_text_size, ld_data_size, ld_brk_point,
  regs_SP,
  flat,             \* history: the last value written to each address
  got               \* what the last access read, and history: what it should have

boundVars == <<ld_text_base, ld_text_bound, ld_data_base, ld_data_bound, ld_text_size, ld_data_size>>
loaderVars == <<file, loading, item, sp, image, boundVars, ld_brk_point, regs_SP, flat, got>>

Pointer(p) == [k \in 1 .. PtrSize |-> (p \div ByteBase ^ (k - 1)) % ByteBase]
Overlaid(f, addr, bytes) ==
  [a \in DOMAIN f \cup addr .. addr + Len(bytes) - 1 |->
     IF a \in addr .. addr + Len(bytes) - 1 THEN bytes[a - addr + 1] ELSE f[a]]
Flat(a) == IF a \in DOMAIN flat THEN flat[a] ELSE 0

LoaderInit ==
  /\ file \in Executables /\ loading = "segments" /\ item = 1 /\ sp = 0
  /\ image = mem_init
  /\ ld_text_base = NoBase /\ ld_text_bound = 0 /\ ld_data_base = NoBase /\ ld_data_bound = 0
  /\ ld_text_size = 0 /\ ld_data_size = 0 /\ ld_brk_point = 0 /\ regs_SP = 0
  /\ flat = <<>> /\ got = [bytes |-> <<>>, due |-> <<>>]

\* What the file has of a segment is copied, of whatever use the segment is; one
\* of which it has nothing cannot be read.
LoadSegment ==
  /\ loading = "segments" /\ item \in DOMAIN file.segments
  /\ LET s == file.segments[item]
     IN  IF s.type \notin {"LOAD", "DYNAMIC", "INTERP", "PHDR"}
         THEN UNCHANGED <<image, flat, loading>>
         ELSE IF s.bytes = <<>> THEN loading' = "fatal" /\ UNCHANGED <<image, flat>>
         ELSE /\ image' = mem_bcopy(image, s.addr, s.bytes)
              /\ flat' = Overlaid(flat, s.addr, s.bytes)
              /\ UNCHANGED loading
  /\ item' = item + 1
  /\ UNCHANGED <<file, sp, boundVars, ld_brk_point, regs_SP, got>>
SegmentsEnd ==
  /\ loading = "segments" /\ item \notin DOMAIN file.segments
  /\ loading' = IF file.sections = <<>> THEN "fatal" ELSE "sections"
  /\ item' = 1
  /\ UNCHANGED <<file, sp, image, boundVars, ld_brk_point, regs_SP, flat, got>>

\* A section with an address is copied once more, and counted as text or data; the
\* sizes are ints, and those of nothing are one.
Counted(s) == s.addr # 0 /\ s.size # 0 /\ s.type \in {"PROGBITS", "NOBITS", "FINI_ARRAY", "INIT_ARRAY"}
LoadSection ==
  /\ loading = "sections" /\ item \in DOMAIN file.sections
  /\ LET s == file.sections[item]
         kept == Counted(s) /\ s.alloc /\ s.type # "NOBITS"
         low(b) == IF s.addr < b THEN s.addr ELSE b
         high(b) == IF s.addr + s.size > b THEN s.addr + s.size ELSE b
     IN  /\ loading' = IF s.type \in {"DYNAMIC", "DYNSYM"} THEN "fatal" ELSE loading
         /\ image' = IF kept THEN mem_bcopy(image, s.addr, s.bytes) ELSE image
         /\ flat' = IF kept THEN Overlaid(flat, s.addr, s.bytes) ELSE flat
         /\ IF ~Counted(s) THEN UNCHANGED boundVars
            ELSE /\ ld_text_base' = IF s.exec THEN low(ld_text_base) ELSE ld_text_base
                 /\ ld_text_bound' = IF s.exec THEN high(ld_text_bound) ELSE ld_text_bound
                 /\ ld_data_base' = IF s.exec THEN ld_data_base ELSE low(ld_data_base)
                 /\ ld_data_bound' = IF s.exec THEN ld_data_bound ELSE high(ld_data_bound)
                 /\ ld_text_size' = (ld_text_bound' - ld_text_base') % (NoBase + 1)
                 /\ ld_data_size' = (ld_data_bound' - ld_data_base') % (NoBase + 1)
  /\ item' = item + 1
  /\ UNCHANGED <<file, sp, ld_brk_point, regs_SP, got>>
CheckImage ==
  /\ loading = "sections" /\ item \notin DOMAIN file.sections
  /\ loading' = IF 0 \in {ld_text_base, ld_text_size, ld_data_base, ld_data_size, file.entry}
              THEN "fatal" ELSE "stack"
  /\ item' = 0
  /\ UNCHANGED <<file, sp, image, boundVars, ld_brk_point, regs_SP, flat, got>>

\* argc, the pointers to the arguments, 0, those to the environment, 0, and the
\* strings, one after the other behind the last pointer.
Environ == ld_stack_base - MD_MAX_ENVIRON
argv_addr == Environ + PtrSize
envp_addr == argv_addr + (Len(file.argv) + 1) * PtrSize
Pointers == Len(file.argv) + Len(file.envp) + 2
Null(k) == k \in {Len(file.argv) + 1, Pointers}
StringOf(k) == IF k <= Len(file.argv) THEN file.argv[k] ELSE file.envp[k - Len(file.argv) - 1]
Slot(k) == argv_addr + (k - 1) * PtrSize
PutPointer(m, a, p) == mem_access(m, "Write", a, Pointer(p)).mem
PushArgc ==
  /\ loading = "stack" /\ item = 0
  /\ image' = PutPointer(image, Environ, Len(file.argv))
  /\ flat' = Overlaid(flat, Environ, Pointer(Len(file.argv)))
  /\ sp' = envp_addr + (Len(file.envp) + 1) * PtrSize
  /\ item' = 1
  /\ UNCHANGED <<file, loading, boundVars, ld_brk_point, regs_SP, got>>
PushString ==
  /\ loading = "stack" /\ item \in 1 .. Pointers /\ ~Null(item)
  /\ image' = mem_strcpy(PutPointer(image, Slot(item), sp), sp, StringOf(item))
  /\ flat' = Overlaid(Overlaid(flat, Slot(item), Pointer(sp)), sp, Append(StringOf(item), 0))
  /\ sp' = sp + Len(StringOf(item)) + 1
  /\ item' = item + 1
  /\ UNCHANGED <<file, loading, boundVars, ld_brk_point, regs_SP, got>>
PushNull ==
  /\ loading = "stack" /\ item \in 1 .. Pointers /\ Null(item)
  /\ image' = PutPointer(image, Slot(item), 0)
  /\ flat' = Overlaid(flat, Slot(item), Pointer(0))
  /\ item' = item + 1
  /\ UNCHANGED <<file, loading, sp, boundVars, ld_brk_point, regs_SP, got>>
ROUND_UP_Truncates(n, align) == (n \div align) * align
ROUND_UP(n, align) == ((n + align - 1) \div align) * align
\* Whether it all fits is asked when it is written.
StackEnd ==
  /\ loading = "stack" /\ item > Pointers
  /\ IF sp > ld_stack_base
     THEN loading' = "fatal" /\ UNCHANGED <<ld_brk_point, regs_SP>>
     ELSE /\ loading' = "loaded"
          /\ ld_brk_point' = ROUND_UP(ld_data_base + ld_data_size, MD_PAGE_SIZE)
          /\ regs_SP' = Environ
  /\ item' = 0
  /\ UNCHANGED <<file, sp, image, flat, boundVars, got>>

\* The program.  A macro access that crosses a page reaches into host memory.
Crosses(a) == MEM_OFFSET(a.addr) + Len(a.bytes) > MD_PAGE_SIZE
ProgramAccess(a) ==
  /\ loading = "loaded" /\ item < MaxProgram
  /\ LET read == MEM_READ(image, a.addr, Len(a.bytes))
         done == mem_access(image, a.cmd, a.addr, a.bytes)
     IN  /\ loading' = IF a.macro /\ Crosses(a) THEN "outside"
                     ELSE IF ~a.macro /\ done.fault THEN "fault" ELSE loading
         /\ IF loading' # loading THEN UNCHANGED <<image, flat, got>>
            ELSE /\ image' = IF ~a.macro THEN done.mem
                           ELSE IF a.cmd = "Read" THEN read.mem ELSE MEM_WRITE(image, a.addr, a.bytes)
                 /\ flat' = IF a.cmd = "Read" THEN flat ELSE Overlaid(flat, a.addr, a.bytes)
                 /\ got' = IF a.cmd = "Write" THEN got
                           ELSE [bytes |-> IF a.macro THEN read.bytes ELSE done.bytes,
                                 due |-> [i \in DOMAIN a.bytes |-> Flat(a.addr + i - 1)]]
  /\ item' = item + 1
  /\ UNCHANGED <<file, sp, boundVars, ld_brk_point, regs_SP>>

LoaderNext ==
  \/ LoadSegment \/ SegmentsEnd \/ LoadSection \/ CheckImage
  \/ PushArgc \/ PushString \/ PushNull \/ StackEnd
  \/ \E a \in Accesses : ProgramAccess(a)
LoaderSpec == LoaderInit /\ [][LoaderNext]_loaderVars

-----------------------------------------------------------------------------
\* Memory is what a flat array would be, whatever order the buckets are in: each
\* page is there once, and the pages are those that were written to.
MemoryIsFlat ==
  /\ got.bytes = got.due
  /\ \A a \in DOMAIN flat : ByteAt(image, a) = flat[a]
  /\ \A a \in Pages(image) : \A i \in 0 .. MD_PAGE_SIZE - 1 : ByteAt(image, a + i) = Flat(a + i)
  /\ image.page_count = Cardinality({a \div MD_PAGE_SIZE : a \in DOMAIN flat})
  /\ \A s \in DOMAIN image.ptab : Len(image.ptab[s]) = Cardinality({image.ptab[s][k].tag : k \in DOMAIN image.ptab[s]})
  /\ Cardinality(Pages(image)) = image.page_count
  /\ image.page_count <= image.ptab_misses /\ image.ptab_misses <= image.ptab_accesses
PointerAt(a) == LET b == [k \in 1 .. PtrSize |-> Flat(a + k - 1)]
               Sum[k \in 0 .. PtrSize] == IF k = 0 THEN 0 ELSE Sum[k - 1] + b[k] * ByteBase ^ (k - 1)
           IN  Sum[PtrSize]
StringFrom(p, s) == \A k \in 1 .. Len(s) + 1 : Flat(p + k - 1) = IF k > Len(s) THEN 0 ELSE s[k]
HasText == \E k \in DOMAIN file.sections : Counted(file.sections[k]) /\ file.sections[k].exec
HasData == \E k \in DOMAIN file.sections : Counted(file.sections[k]) /\ ~file.sections[k].exec
\* A program finds its segments in memory, zeros where the file has nothing of
\* them, its arguments and environment below the stack base, and a heap that
\* begins on a page above its data, and above its text when that is below the
\* data.  A file without text or data is taken for complete; without data, the
\* heap begins at the end of the address space.
ProgramIsLoaded ==
  loading = "loaded" /\ item = 0 =>
    LET ends == {s.addr + s.size : s \in {file.sections[k] : k \in DOMAIN file.sections}}
        last == CHOOSE e \in ends : \A f \in ends : f <= e
    IN  /\ \A k \in DOMAIN file.segments :
             LET s == file.segments[k]
             IN  s.type = "LOAD" => \A i \in 1 .. s.memsz :
                   Flat(s.addr + i - 1) = IF i <= Len(s.bytes) THEN s.bytes[i] ELSE 0
        /\ PointerAt(regs_SP) = Len(file.argv)
        /\ \A k \in DOMAIN file.argv : StringFrom(PointerAt(regs_SP + k * PtrSize), file.argv[k])
        /\ LET null == regs_SP + (Len(file.argv) + 1) * PtrSize
           IN  /\ PointerAt(null) = 0 /\ PointerAt(null + (Len(file.envp) + 1) * PtrSize) = 0
               /\ \A k \in DOMAIN file.envp : StringFrom(PointerAt(null + k * PtrSize), file.envp[k])
        /\ \A a \in DOMAIN flat : a < ld_stack_base
        /\ ld_brk_point % MD_PAGE_SIZE = 0
        /\ IF HasData THEN ld_text_bound <= ld_data_bound => ld_brk_point >= last ELSE ld_brk_point > NoBase
\* The loaded program is in memory, and memory keeps what is written to it.
LoadingIsRight == MemoryIsFlat /\ ProgramIsLoaded
=============================================================================
