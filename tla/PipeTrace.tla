------------------------------ MODULE PipeTrace ------------------------------
(***************************************************************************)
(* The pipeline tracer: ring_buffer.c, capture_buf.c and the capture state  *)
(* machine of ptrace.c.  Every trace line goes into a ring of the most      *)
(* recent lines; a cache miss starts a capture, which takes over the     *)
(* ring's lines and mirrors the following ones until                        *)
(* cap_post_cycles_target cycles pass without another miss, when the        *)
(* segment is written to the ".ring" file.                                  *)
(*                                                                         *)
(* A line is the number under which it was logged: 1, 2, ...; 0 stands for  *)
(* a ring slot that is not valid.  The line "I", which is printed straight  *)
(* to the file, and the complete trace in the other two files are left out. *)
(***************************************************************************)
EXTENDS Integers, Sequences, FiniteSets

CONSTANTS
  RING_BUFFER_SIZE,
  cap_before_entries,      \* lines wanted from before the first miss
  cap_post_cycles_target,  \* quiet cycles that end a capture
  tmp_before_size,         \* capacity of the array the snapshot goes through
  MaxLines                 \* bound on the number of lines logged

ASSUME TraceAssumption ==
  /\ RING_BUFFER_SIZE \in Nat \ {0}
  /\ cap_before_entries \in Nat /\ tmp_before_size \in Nat
  /\ cap_post_cycles_target \in Nat \ {0}
  /\ MaxLines \in Nat

VARIABLES
  rb,                    \* the ring: buffer, head, tail, full
  cap_state,             \* "IDLE", "WITH_SNAPSHOT" or "POST_ONLY"
  cap_active,            \* lines are mirrored
  recent_dump,           \* a segment was dumped
  cap_post_cycles_seen,
  capbuf,                \* the lines captured
  ptrace_active, ptrace_oneshot,
  open,                  \* between ptrace_open and ptrace_close
  ring_konata,           \* the segments written to the file
  nlog,                  \* number of lines logged
  cleared,               \* history: nlog at the last rb_clear
  misses,                \* history: the lines that report a cache miss
  ticks                  \* history: the lines that start a cycle

vars == <<rb, cap_state, cap_active, recent_dump, cap_post_cycles_seen, capbuf,
          ptrace_active, ptrace_oneshot, open, ring_konata, nlog, cleared,
          misses, ticks>>

Slot == 0 .. RING_BUFFER_SIZE - 1

-----------------------------------------------------------------------------
(* ring_buffer.c *)

rb_next_Unwrapped(i) == i + 1
rb_next(i) == (i + 1) % RING_BUFFER_SIZE

rb_init == [buffer |-> [i \in Slot |-> 0],
            head |-> 0, tail |-> 0, full |-> FALSE]

rb_is_empty(r) == ~r.full /\ r.head = r.tail

rb_count(r) ==
  IF r.full THEN RING_BUFFER_SIZE
  ELSE IF r.head >= r.tail THEN r.head - r.tail
  ELSE RING_BUFFER_SIZE - (r.tail - r.head)

rb_advance_head_KeepsTail(r) ==
  LET head == rb_next(r.head)
  IN  [buffer |-> r.buffer, head |-> head, tail |-> r.tail,
       full |-> (head = r.tail)]

\* When the ring is full the oldest line is overwritten.
rb_advance_head(r) ==
  LET head == rb_next(r.head)
      tail == IF r.full THEN rb_next(r.tail) ELSE r.tail
  IN  [buffer |-> r.buffer, head |-> head, tail |-> tail,
       full |-> (head = tail)]

rb_push_raw(r, line) ==
  rb_advance_head([buffer |-> [r.buffer EXCEPT ![r.head] = line],
                   head |-> r.head, tail |-> r.tail, full |-> r.full])

AtMost(a, b) == IF a > b THEN b ELSE a

\* The last N lines, oldest first.  The code skips slots that are not valid;
\* here they would show as 0.
rb_copy_last(r, N, dst_cap) ==
  LET n     == IF rb_is_empty(r) THEN 0
               ELSE AtMost(AtMost(N, rb_count(r)), dst_cap)
      start == (r.head + RING_BUFFER_SIZE - n) % RING_BUFFER_SIZE
  IN  [k \in 1 .. n |-> r.buffer[(start + (k - 1)) % RING_BUFFER_SIZE]]

-----------------------------------------------------------------------------
(* ptrace.c *)

Init ==
  /\ rb = rb_init
  /\ cap_state = "IDLE" /\ cap_active = FALSE /\ recent_dump = FALSE
  /\ cap_post_cycles_seen = 0 /\ capbuf = <<>>
  /\ ptrace_active = FALSE /\ ptrace_oneshot = FALSE /\ open = TRUE
  /\ ring_konata = <<>>
  /\ nlog = 0 /\ cleared = 0 /\ misses = {} /\ ticks = {}

\* rb_logf of k lines in a row: into the ring, and into the capture if one is
\* running.
CanLog(k) == open /\ ptrace_active /\ nlog + k <= MaxLines

Pushed(k) == IF k = 1 THEN rb_push_raw(rb, nlog + 1)
             ELSE rb_push_raw(rb_push_raw(rb, nlog + 1), nlog + 2)

Logged(k) == [j \in 1 .. k |-> nlog + j]

Mirrored_Never(k) == capbuf
Mirrored(k) == IF cap_active THEN capbuf \o Logged(k) ELSE capbuf

rb_logf(k) ==
  /\ CanLog(k)
  /\ rb' = Pushed(k)
  /\ capbuf' = Mirrored(k)
  /\ nlog' = nlog + k

ptrace_check_active_Again(inrange) ==
  /\ open
  /\ ptrace_active' = inrange
  /\ ptrace_oneshot' = (ptrace_oneshot \/ inrange)
  /\ UNCHANGED <<rb, cap_state, cap_active, recent_dump, cap_post_cycles_seen,
                 capbuf, open, ring_konata, nlog, cleared, misses, ticks>>

\* ptrace_check_active, at the start of every simulated cycle: tracing goes on
\* when the range is entered, once, and off outside of it.
ptrace_check_active(inrange) ==
  /\ open
  /\ ptrace_active' = (inrange /\ (ptrace_active \/ ~ptrace_oneshot))
  /\ ptrace_oneshot' = (ptrace_oneshot \/ inrange)
  /\ UNCHANGED <<rb, cap_state, cap_active, recent_dump, cap_post_cycles_seen,
                 capbuf, open, ring_konata, nlog, cleared, misses, ticks>>

LogOnly(k) ==
  /\ rb_logf(k)
  /\ UNCHANGED <<cap_state, cap_active, recent_dump, cap_post_cycles_seen,
                 ptrace_active, ptrace_oneshot, open, ring_konata, cleared,
                 misses, ticks>>

newinst == LogOnly(1)

newuop == LogOnly(2)

endinst == LogOnly(1)

\* A cycle in which nothing is captured.
newcycle ==
  /\ cap_state = "IDLE"
  /\ rb_logf(1)
  /\ ticks' = ticks \cup {nlog + 1}
  /\ UNCHANGED <<cap_state, cap_active, recent_dump, cap_post_cycles_seen,
                 ptrace_active, ptrace_oneshot, open, ring_konata, cleared,
                 misses>>

\* INC_COUNTDOWN
newcycle_count ==
  /\ cap_state # "IDLE"
  /\ cap_post_cycles_seen + 1 < cap_post_cycles_target
  /\ rb_logf(1)
  /\ ticks' = ticks \cup {nlog + 1}
  /\ cap_post_cycles_seen' = cap_post_cycles_seen + 1
  /\ UNCHANGED <<cap_state, cap_active, recent_dump, ptrace_active,
                 ptrace_oneshot, open, ring_konata, cleared, misses>>

newcycle_dump_KeepsLines ==
  /\ cap_state # "IDLE"
  /\ cap_post_cycles_seen + 1 >= cap_post_cycles_target
  /\ CanLog(1)
  /\ nlog' = nlog + 1
  /\ ticks' = ticks \cup {nlog + 1}
  /\ cap_post_cycles_seen' = cap_post_cycles_seen + 1
  /\ ring_konata' = Append(ring_konata, Mirrored(1))
  /\ capbuf' = Mirrored(1)
  /\ cap_active' = FALSE
  /\ recent_dump' = TRUE
  /\ cap_state' = "IDLE"
  /\ rb' = rb_init
  /\ cleared' = nlog + 1
  /\ UNCHANGED <<ptrace_active, ptrace_oneshot, open, misses>>

\* The last cycle of the window: DUMP_AND_RESET.
newcycle_dump ==
  /\ cap_state # "IDLE"
  /\ cap_post_cycles_seen + 1 >= cap_post_cycles_target
  /\ CanLog(1)
  /\ nlog' = nlog + 1
  /\ ticks' = ticks \cup {nlog + 1}
  /\ cap_post_cycles_seen' = cap_post_cycles_seen + 1
  /\ ring_konata' = Append(ring_konata, Mirrored(1))
  /\ capbuf' = <<>>
  /\ cap_active' = FALSE
  /\ recent_dump' = TRUE
  /\ cap_state' = "IDLE"
  /\ rb' = rb_init
  /\ cleared' = nlog + 1
  /\ UNCHANGED <<ptrace_active, ptrace_oneshot, open, misses>>

\* An instruction enters a stage: one line, and one more for any event but
\* a cache miss.
newstage(event) == LogOnly(IF event THEN 2 ELSE 1)

newstage_miss_first_Before ==
  /\ cap_state = "IDLE"
  /\ CanLog(2)
  /\ rb' = Pushed(2)
  /\ nlog' = nlog + 2
  /\ misses' = misses \cup {nlog + 2}
  /\ capbuf' = Append(IF ~recent_dump
                      THEN rb_copy_last(rb, cap_before_entries,
                                        tmp_before_size)
                      ELSE Mirrored(1),
                      nlog + 2)
  /\ cap_state' = IF recent_dump THEN "POST_ONLY" ELSE "WITH_SNAPSHOT"
  /\ cap_active' = TRUE
  /\ cap_post_cycles_seen' = 0
  /\ UNCHANGED <<recent_dump, ptrace_active, ptrace_oneshot, open,
                 ring_konata, cleared, ticks>>

\* A cache miss while nothing is captured.  The first one ever takes a
\* snapshot of the ring (SNAPSHOT_BEFORE) between its two lines; later ones
\* only start the mirror.
newstage_miss_first ==
  /\ cap_state = "IDLE"
  /\ CanLog(2)
  /\ rb' = Pushed(2)
  /\ nlog' = nlog + 2
  /\ misses' = misses \cup {nlog + 2}
  /\ capbuf' = Append(IF ~recent_dump
                      THEN rb_copy_last(Pushed(1), cap_before_entries,
                                        tmp_before_size)
                      ELSE Mirrored(1),
                      nlog + 2)
  /\ cap_state' = IF recent_dump THEN "POST_ONLY" ELSE "WITH_SNAPSHOT"
  /\ cap_active' = TRUE
  /\ cap_post_cycles_seen' = 0
  /\ UNCHANGED <<recent_dump, ptrace_active, ptrace_oneshot, open,
                 ring_konata, cleared, ticks>>

newstage_miss_again_NoReset ==
  /\ cap_state # "IDLE"
  /\ rb_logf(2)
  /\ misses' = misses \cup {nlog + 2}
  /\ cap_post_cycles_seen' = cap_post_cycles_seen
  /\ UNCHANGED <<cap_state, cap_active, recent_dump, ptrace_active,
                 ptrace_oneshot, open, ring_konata, cleared, ticks>>

\* A further miss extends the window (RESET_COUNTDOWN).
newstage_miss_again ==
  /\ cap_state # "IDLE"
  /\ rb_logf(2)
  /\ misses' = misses \cup {nlog + 2}
  /\ cap_post_cycles_seen' = 0
  /\ UNCHANGED <<cap_state, cap_active, recent_dump, ptrace_active,
                 ptrace_oneshot, open, ring_konata, cleared, ticks>>

\* The file is closed, ring and capture are freed; what is captured is lost.
ptrace_close ==
  /\ open
  /\ open' = FALSE
  /\ capbuf' = <<>>
  /\ UNCHANGED <<rb, cap_state, cap_active, recent_dump, cap_post_cycles_seen,
                 ptrace_active, ptrace_oneshot, ring_konata, nlog, cleared,
                 misses, ticks>>

Next ==
  \/ \E inrange \in BOOLEAN : ptrace_check_active(inrange)
  \/ newinst \/ newuop \/ endinst
  \/ newcycle \/ newcycle_count \/ newcycle_dump
  \/ \E event \in BOOLEAN : newstage(event)
  \/ newstage_miss_first \/ newstage_miss_again
  \/ ptrace_close

Spec == Init /\ [][Next]_vars
-----------------------------------------------------------------------------
\* Every variable of the tracer stays in its type.
TraceTypeOK ==
  /\ rb \in [buffer : [Slot -> Nat], head : Slot, tail : Slot, full : BOOLEAN]
  /\ cap_state \in {"IDLE", "WITH_SNAPSHOT", "POST_ONLY"}
  /\ cap_active \in BOOLEAN /\ recent_dump \in BOOLEAN
  /\ cap_post_cycles_seen \in Nat
  /\ capbuf \in Seq(Nat) /\ ring_konata \in Seq(Seq(Nat))
  /\ ptrace_active \in BOOLEAN /\ ptrace_oneshot \in BOOLEAN
  /\ open \in BOOLEAN
  /\ nlog \in Nat /\ cleared \in 0 .. nlog
  /\ misses \in SUBSET (1 .. nlog) /\ ticks \in SUBSET (1 .. nlog)

\* Whatever number of lines the tracer asks the ring for, rb_copy_last gives it
\* that many of the most recent lines, in the order they were logged, or all
\* there are since the ring was cleared, or as many as it holds.
RingHoldsLast ==
  \A N \in 0 .. RING_BUFFER_SIZE + 1 :
    LET n == AtMost(AtMost(N, nlog - cleared), RING_BUFFER_SIZE)
    IN  rb_copy_last(rb, N, RING_BUFFER_SIZE) =
          [k \in 1 .. n |-> nlog - n + k]

\* A capture has no hole: it is a run of consecutive lines up to the last one
\* logged, whether it began with the ring's lines or not.
CaptureHasNoHole ==
  cap_active /\ open =>
    capbuf = [k \in 1 .. Len(capbuf) |-> nlog - Len(capbuf) + k]

Lines(segment) == {segment[k] : k \in 1 .. Len(segment)}

\* No cache miss is forgotten: until the trace is closed its line is in the
\* running capture or in a segment of the file.
MissesAreKept ==
  open => \A line \in misses :
            \/ line \in Lines(capbuf)
            \/ \E k \in 1 .. Len(ring_konata) : line \in Lines(ring_konata[k])

\* No line is written twice: segments do not overlap and follow one another in
\* the order of the trace, the lines of the running capture after them.
SegmentsApart ==
  /\ \A j, k \in 1 .. Len(ring_konata) :
       j < k => \A x \in Lines(ring_konata[j]), y \in Lines(ring_konata[k]) :
                  x < y
  /\ \A j \in 1 .. Len(ring_konata) :
       \A x \in Lines(ring_konata[j]), y \in Lines(capbuf) : x < y

\* Each segment shows the misses' consequences in full: exactly
\* cap_post_cycles_target cycles begin after its last miss.
SegmentsShowAftermath ==
  \A j \in 1 .. Len(ring_konata) :
    LET seg  == Lines(ring_konata[j])
        last == CHOOSE m \in seg \cap misses :
                  \A x \in seg \cap misses : x <= m
    IN  /\ seg \cap misses # {}
        /\ Cardinality({t \in seg \cap ticks : t > last}) =
             cap_post_cycles_target

\* "pipetracing is a one-shot switch" (NOTE in ptrace.h): once the trace has
\* gone off it never goes on again.
OneShot ==
  [][ptrace_oneshot /\ ~ptrace_active => ~ptrace_active']_vars
=============================================================================
