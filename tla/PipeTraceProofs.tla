--------------------------- MODULE PipeTraceProofs ---------------------------
(***************************************************************************)
(* The tracer's ring and capture are correct for every ring size, every     *)
(* snapshot size and every window.                                          *)
(***************************************************************************)
EXTENDS PipeTrace, SequenceTheorems, FiniteSetTheorems, TLAPS

\* The % of ring_buffer.c: an index below twice the ring size wraps once.
LEMMA WrapOnce ==
  \A N, x \in Int : N > 0 /\ 0 <= x /\ x < N + N =>
                      x % N = IF x < N THEN x ELSE x - N
OBVIOUS

-----------------------------------------------------------------------------
RingType == [buffer : [Slot -> Nat], head : Slot, tail : Slot, full : BOOLEAN]

\* The slot of the k-th last line when the next one goes to slot head.
Back(head, k) == IF head >= k THEN head - k ELSE head + RING_BUFFER_SIZE - k

\* Ring r holds the lines logged after line c up to line n, as far as it has
\* slots: until it is full it fills from slot 0 on.
RingInv(r, c, n) ==
  /\ r \in RingType
  /\ r.full <=> n - c >= RING_BUFFER_SIZE
  /\ r.full => r.tail = r.head
  /\ ~r.full => r.tail = 0 /\ r.head = n - c
  /\ \A k \in 1 .. RING_BUFFER_SIZE :
       k <= n - c => r.buffer[Back(r.head, k)] = n - k + 1

LEMMA SizePositive == RING_BUFFER_SIZE \in Int /\ RING_BUFFER_SIZE > 0
BY TraceAssumption

\* An empty ring, whatever was logged before.
LEMMA RingInit == ASSUME NEW n \in Nat PROVE RingInv(rb_init, n, n)
BY SizePositive DEF RingInv, RingType, rb_init, Slot

LEMMA RingNext ==
  ASSUME NEW i \in Slot
  PROVE  /\ rb_next(i) \in Slot
         /\ rb_next(i) = IF i = RING_BUFFER_SIZE - 1 THEN 0 ELSE i + 1
<1>1. (i + 1) % RING_BUFFER_SIZE =
        IF i + 1 < RING_BUFFER_SIZE THEN i + 1 ELSE i + 1 - RING_BUFFER_SIZE
  BY SizePositive, WrapOnce DEF Slot
<1> QED BY <1>1, SizePositive DEF rb_next, Slot

\* Advancing head moves every line one further back.
LEMMA BackNext ==
  ASSUME NEW hd \in Slot, NEW k \in 1 .. RING_BUFFER_SIZE, k # 1
  PROVE  /\ Back(rb_next(hd), k) = Back(hd, k - 1)
         /\ Back(hd, k - 1) # hd
         /\ Back(hd, k - 1) \in Slot
<1>1. rb_next(hd) = IF hd = RING_BUFFER_SIZE - 1 THEN 0 ELSE hd + 1
  BY RingNext
<1> QED BY <1>1, SizePositive DEF Back, Slot

\* The index arithmetic of rb_copy_last.
LEMMA BackOfCopy ==
  ASSUME NEW hd \in Slot, NEW m \in 0 .. RING_BUFFER_SIZE, NEW k \in 1 .. m
  PROVE  (((hd + RING_BUFFER_SIZE - m) % RING_BUFFER_SIZE) + (k - 1))
           % RING_BUFFER_SIZE = Back(hd, m - k + 1)
<1> DEFINE N == RING_BUFFER_SIZE
           start == (hd + N - m) % N
<1>1. start = IF hd + N - m < N THEN hd + N - m ELSE hd + N - m - N
  BY SizePositive, WrapOnce DEF Slot
<1> HIDE DEF start
<1>2. start \in Int /\ 0 <= start /\ start < N
  BY <1>1, SizePositive DEF Slot
<1>3. (start + (k - 1)) % N = IF start + (k - 1) < N THEN start + (k - 1)
                              ELSE start + (k - 1) - N
  BY <1>2, SizePositive, WrapOnce
<1>4. (start + (k - 1)) % N = Back(hd, m - k + 1)
  BY <1>1, <1>3, SizePositive DEF Back, Slot
<1> QED BY <1>4 DEF start

\* rb_push_raw keeps the ring's invariant: the one place where head, tail and
\* full have to move together.
LEMMA RingPush ==
  ASSUME NEW c \in Nat, NEW n \in Nat, c <= n, NEW r, RingInv(r, c, n)
  PROVE  RingInv(rb_push_raw(r, n + 1), c, n + 1)
<1> DEFINE N == RING_BUFFER_SIZE
           b == [r.buffer EXCEPT ![r.head] = n + 1]
           h == rb_next(r.head)
           t == IF r.full THEN rb_next(r.tail) ELSE r.tail
           s == [buffer |-> b, head |-> h, tail |-> t, full |-> (h = t)]
<1>1. /\ r.buffer \in [Slot -> Nat] /\ r.head \in Slot /\ r.tail \in Slot
      /\ r.full \in BOOLEAN
  BY DEF RingInv, RingType
<1>2. /\ r.full <=> n - c >= N
      /\ r.full => r.tail = r.head
      /\ ~r.full => r.tail = 0 /\ r.head = n - c
      /\ \A k \in 1 .. N : k <= n - c => r.buffer[Back(r.head, k)] = n - k + 1
  BY DEF RingInv
<1>3. rb_push_raw(r, n + 1) = s
  BY DEF rb_push_raw, rb_advance_head
<1>4. /\ h \in Slot
      /\ h = IF r.head = N - 1 THEN 0 ELSE r.head + 1
  BY <1>1, RingNext
<1>5. /\ t \in Slot
      /\ r.full => t = h
      /\ ~r.full => t = 0
  BY <1>1, <1>2, <1>4
<1>6. /\ b \in [Slot -> Nat] /\ b[r.head] = n + 1
      /\ \A i \in Slot : i # r.head => b[i] = r.buffer[i]
  BY <1>1
<1>7. ASSUME NEW k \in 1 .. N, k <= n + 1 - c
      PROVE  b[Back(h, k)] = (n + 1) - k + 1
  <2>1. CASE k = 1
    <3>1. Back(h, k) = r.head
      BY <1>1, <1>4, <2>1, SizePositive DEF Back, Slot
    <3> HIDE DEF b, h
    <3> QED BY <1>6, <2>1, <3>1
  <2>2. CASE k # 1
    <3>1. k - 1 \in 1 .. N /\ k - 1 <= n - c
      BY <1>7, <2>2, SizePositive
    <3>2. /\ Back(h, k) = Back(r.head, k - 1)
          /\ Back(h, k) # r.head
          /\ Back(h, k) \in Slot
      BY <1>1, <2>2, BackNext
    <3>3. r.buffer[Back(r.head, k - 1)] = n - (k - 1) + 1
      BY <1>2, <3>1
    <3> HIDE DEF b, h
    <3>4. b[Back(h, k)] = n - (k - 1) + 1
      BY <1>6, <3>2, <3>3
    <3> QED BY <3>4
  <2> QED BY <2>1, <2>2
<1> HIDE DEF b, h, t
<1>8. /\ (h = t) <=> (n + 1) - c >= N
      /\ h # t => t = 0 /\ h = (n + 1) - c
  <2>1. CASE r.full
    BY <1>1, <1>2, <1>4, <1>5, <2>1, SizePositive DEF Slot
  <2>2. CASE ~r.full
    BY <1>1, <1>2, <1>4, <1>5, <2>2, SizePositive DEF Slot
  <2> QED BY <1>1, <2>1, <2>2
<1>9. /\ s \in RingType
      /\ s.buffer = b /\ s.head = h /\ s.tail = t /\ s.full = (h = t)
  BY <1>4, <1>5, <1>6 DEF RingType
<1> HIDE DEF s
<1>10. /\ s.full <=> (n + 1) - c >= N
       /\ s.full => s.tail = s.head
       /\ ~s.full => s.tail = 0 /\ s.head = (n + 1) - c
  BY <1>8, <1>9
<1>11. \A k \in 1 .. N :
         k <= (n + 1) - c => s.buffer[Back(s.head, k)] = (n + 1) - k + 1
  BY <1>7, <1>9
<1>12. RingInv(s, c, n + 1)
  BY <1>9, <1>10, <1>11 DEF RingInv
<1> QED BY <1>3, <1>12

\* How many lines rb_copy_last returns when asked for some of d lines.
CopyLen(want, d, cap) ==
  AtMost(AtMost(AtMost(want, d), RING_BUFFER_SIZE), cap)

\* What it returns then: the last lines up to line n, oldest first.
CopyInv(r, c, n, want, cap) ==
  /\ CopyLen(want, n - c, cap) \in Nat
  /\ CopyLen(want, n - c, cap) <= n - c
  /\ rb_copy_last(r, want, cap) \in [1 .. CopyLen(want, n - c, cap) -> Nat]
  /\ \A k \in 1 .. CopyLen(want, n - c, cap) :
       rb_copy_last(r, want, cap)[k] = n - CopyLen(want, n - c, cap) + k

LEMMA RingCopy ==
  ASSUME NEW c \in Nat, NEW n \in Nat, c <= n, NEW r, RingInv(r, c, n),
         NEW want \in Nat, NEW cap \in Nat
  PROVE  CopyInv(r, c, n, want, cap)
<1> DEFINE N == RING_BUFFER_SIZE
           m == CopyLen(want, n - c, cap)
<1>0. N \in Int /\ N > 0 /\ n - c \in Nat
  BY SizePositive
<1>1. /\ r.buffer \in [Slot -> Nat] /\ r.head \in Slot /\ r.tail \in Slot
      /\ r.full \in BOOLEAN
  BY DEF RingInv, RingType
<1>2. rb_is_empty(r) <=> n = c
  BY <1>0, <1>1 DEF RingInv, rb_is_empty, Slot
<1>3. rb_count(r) = AtMost(n - c, N)
  BY <1>0, <1>1 DEF RingInv, rb_count, AtMost, Slot
<1>4. m \in Nat /\ m <= N /\ m <= n - c
  BY <1>0 DEF AtMost, CopyLen
<1>5. m = IF rb_is_empty(r) THEN 0 ELSE AtMost(AtMost(want, rb_count(r)), cap)
  BY <1>0, <1>2, <1>3 DEF AtMost, CopyLen
<1> HIDE DEF m
<1>6. rb_copy_last(r, want, cap) =
        [k \in 1 .. m |-> r.buffer[(((r.head + N - m) % N) + (k - 1)) % N]]
  BY <1>5 DEF rb_copy_last
<1>7. ASSUME NEW k \in 1 .. m
      PROVE  r.buffer[(((r.head + N - m) % N) + (k - 1)) % N] = n - m + k
  <2>1. (((r.head + N - m) % N) + (k - 1)) % N = Back(r.head, m - k + 1)
    BY <1>0, <1>1, <1>4, BackOfCopy
  <2>2. m - k + 1 \in 1 .. N /\ m - k + 1 <= n - c
    BY <1>0, <1>4
  <2>3. r.buffer[Back(r.head, m - k + 1)] = n - (m - k + 1) + 1
    BY <2>2 DEF RingInv
  <2>4. n - (m - k + 1) + 1 = n - m + k
    BY <1>4
  <2> QED BY <2>1, <2>3, <2>4
<1>8. ASSUME NEW k \in 1 .. m
      PROVE  n - m + k \in Nat
  BY <1>0, <1>4
<1>9. /\ rb_copy_last(r, want, cap) \in [1 .. m -> Nat]
      /\ \A k \in 1 .. m : rb_copy_last(r, want, cap)[k] = n - m + k
  BY <1>6, <1>7, <1>8, Zenon
<1> QED BY <1>4, <1>9, Zenon DEF m, CopyInv
-----------------------------------------------------------------------------
\* Capture s is a run of consecutive lines up to line n, none of them logged
\* before the ring was cleared at line c.
RunInv(s, c, n) ==
  /\ s \in Seq(Nat)
  /\ Len(s) <= n - c
  /\ \A k \in 1 .. Len(s) : s[k] = n - Len(s) + k

LEMMA FunctionIsSeq ==
  ASSUME NEW m \in Nat, NEW f \in [1 .. m -> Nat]
  PROVE  f \in Seq(Nat) /\ Len(f) = m
<1>1. f \in Seq(Nat)
  BY SeqDef
<1>2. 1 .. Len(f) = 1 .. m /\ Len(f) \in Nat
  BY <1>1, LenProperties
<1> QED BY <1>1, <1>2

\* The lines of a capture lie after c, and the last one logged is the last.
LEMMA RunLines ==
  ASSUME NEW c \in Nat, NEW n \in Nat, NEW s, RunInv(s, c, n)
  PROVE  \A x \in Lines(s) : x \in Nat /\ c < x /\ x <= n
BY DEF RunInv, Lines

\* Mirroring k more lines extends the run.
LEMMA RunExtend ==
  ASSUME NEW c \in Nat, NEW n \in Nat, NEW s, RunInv(s, c, n),
         NEW k \in Nat \ {0}
  PROVE  LET e == s \o [j \in 1 .. k |-> n + j]
         IN  /\ RunInv(e, c, n + k)
             /\ Lines(s) \subseteq Lines(e)
             /\ n + k \in Lines(e)
<1> DEFINE t == [j \in 1 .. k |-> n + j]
           e == s \o t
<1>1. s \in Seq(Nat) /\ Len(s) \in Nat
  BY DEF RunInv
<1>2. t \in [1 .. k -> Nat] /\ \A j \in 1 .. k : t[j] = n + j
  OBVIOUS
<1> HIDE DEF t
<1>2a. t \in Seq(Nat) /\ Len(t) = k
  BY <1>2, FunctionIsSeq
<1>3. /\ e \in Seq(Nat) /\ Len(e) = Len(s) + k
      /\ \A i \in 1 .. Len(s) + k :
           e[i] = IF i <= Len(s) THEN s[i] ELSE t[i - Len(s)]
  BY <1>1, <1>2a, ConcatProperties
<1> HIDE DEF e
<1>4. ASSUME NEW i \in 1 .. Len(e) PROVE e[i] = (n + k) - Len(e) + i
  <2>1. CASE i <= Len(s)
    <3>1. s[i] = n - Len(s) + i
      BY <1>1, <2>1 DEF RunInv
    <3> QED BY <1>1, <1>3, <2>1, <3>1
  <2>2. CASE i > Len(s)
    <3>1. t[i - Len(s)] = n + (i - Len(s))
      BY <1>1, <1>2, <1>3, <2>2
    <3> QED BY <1>1, <1>3, <2>2, <3>1
  <2> QED BY <1>1, <1>3, <2>1, <2>2
<1>5. RunInv(e, c, n + k)
  BY <1>1, <1>3, <1>4 DEF RunInv
<1>6. Lines(s) \subseteq Lines(e)
  <2> SUFFICES ASSUME NEW i \in 1 .. Len(s) PROVE s[i] \in Lines(e)
    BY DEF Lines
  <2>1. i \in 1 .. Len(e) /\ e[i] = s[i]
    BY <1>1, <1>3
  <2> QED BY <2>1 DEF Lines
<1>7. n + k \in Lines(e)
  <2>1. Len(e) \in 1 .. Len(e) /\ e[Len(e)] = n + k
    BY <1>1, <1>3, <1>4
  <2> QED BY <2>1 DEF Lines
<1> QED BY <1>5, <1>6, <1>7 DEF e, t

\* A snapshot of the ring is such a run.
LEMMA RunSnapshot ==
  ASSUME NEW c \in Nat, NEW n \in Nat, c <= n, NEW r, RingInv(r, c, n),
         NEW want \in Nat, NEW cap \in Nat
  PROVE  RunInv(rb_copy_last(r, want, cap), c, n)
<1> DEFINE m == CopyLen(want, n - c, cap)
<1>1. CopyInv(r, c, n, want, cap)
  BY RingCopy
<1>2. /\ m \in Nat /\ m <= n - c
      /\ rb_copy_last(r, want, cap) \in [1 .. m -> Nat]
      /\ \A k \in 1 .. m : rb_copy_last(r, want, cap)[k] = n - m + k
  BY <1>1, Zenon DEF CopyInv
<1> HIDE DEF m
<1>3. /\ rb_copy_last(r, want, cap) \in Seq(Nat)
      /\ Len(rb_copy_last(r, want, cap)) = m
  BY <1>2, FunctionIsSeq
<1> QED BY <1>2, <1>3 DEF RunInv

-----------------------------------------------------------------------------
\* The inductive invariant: the ring, the running capture and the segments in
\* the file each hold the lines they should, in this order.
CaptureInv ==
  /\ cap_active <=> cap_state # "IDLE"
  /\ ~cap_active \/ ~open => capbuf = <<>>
  /\ cap_active /\ open => RunInv(capbuf, cleared, nlog)

SegmentsInv ==
  /\ \A j \in 1 .. Len(ring_konata) :
       \A x \in Lines(ring_konata[j]) : x <= cleared
  /\ \A j, k \in 1 .. Len(ring_konata) :
       j < k => \A x \in Lines(ring_konata[j]), y \in Lines(ring_konata[k]) :
                  x < y

TraceInv ==
  /\ TraceTypeOK
  /\ RingInv(rb, cleared, nlog)
  /\ CaptureInv
  /\ SegmentsInv
  /\ MissesAreKept

\* k lines in a row leave the ring in order.
LEMMA PushedRing ==
  ASSUME TraceInv, NEW k \in {1, 2}
  PROVE  RingInv(Pushed(k), cleared, nlog + k)
<1>1. cleared \in Nat /\ nlog \in Nat /\ cleared <= nlog
  BY DEF TraceInv, TraceTypeOK
<1>2. RingInv(rb_push_raw(rb, nlog + 1), cleared, nlog + 1)
  BY <1>1, RingPush DEF TraceInv
<1>3. RingInv(rb_push_raw(rb_push_raw(rb, nlog + 1), (nlog + 1) + 1),
              cleared, (nlog + 1) + 1)
  BY <1>1, <1>2, RingPush
<1>4. (nlog + 1) + 1 = nlog + 2
  BY <1>1
<1>5. RingInv(rb_push_raw(rb_push_raw(rb, nlog + 1), nlog + 2),
              cleared, nlog + 2)
  BY <1>3, <1>4
<1> QED BY <1>2, <1>5 DEF Pushed

\* k lines in a row extend a running capture.
LEMMA MirroredRun ==
  ASSUME TraceInv, open, NEW k \in {1, 2}
  PROVE  /\ cap_active => /\ RunInv(Mirrored(k), cleared, nlog + k)
                          /\ nlog + k \in Lines(Mirrored(k))
         /\ ~cap_active => Mirrored(k) = <<>>
         /\ Lines(capbuf) \subseteq Lines(Mirrored(k))
<1>1. cleared \in Nat /\ nlog \in Nat
  BY DEF TraceInv, TraceTypeOK
<1>2. CASE cap_active
  <2>1. RunInv(capbuf, cleared, nlog)
    BY <1>2 DEF TraceInv, CaptureInv
  <2> QED BY <1>1, <1>2, <2>1, RunExtend DEF Mirrored, Logged
<1>3. CASE ~cap_active
  BY <1>3 DEF TraceInv, CaptureInv, Mirrored
<1> QED BY <1>2, <1>3

\* An action that only logs lines, and reports a miss only while a capture is
\* running.
LEMMA LogKeepsInv ==
  ASSUME TraceInv, NEW k \in {1, 2}, rb_logf(k),
         UNCHANGED <<cap_state, cap_active, ring_konata, cleared, open>>,
         misses' = misses \/ (cap_active /\ misses' = misses \cup {nlog + k})
  PROVE  /\ RingInv(rb, cleared, nlog)'
         /\ CaptureInv'
         /\ SegmentsInv'
         /\ MissesAreKept'
         /\ capbuf' \in Seq(Nat) /\ nlog' \in Nat /\ nlog <= nlog'
         /\ cleared' \in 0 .. nlog' /\ misses' \in SUBSET (1 .. nlog')
<1>1. open /\ rb' = Pushed(k) /\ capbuf' = Mirrored(k) /\ nlog' = nlog + k
  BY DEF rb_logf, CanLog
<1>2. cleared \in Nat /\ nlog \in Nat /\ cleared <= nlog
      /\ misses \in SUBSET (1 .. nlog)
  BY DEF TraceInv, TraceTypeOK
<1>3. RingInv(rb, cleared, nlog)'
  BY <1>1, PushedRing
<1>4. CaptureInv'
  BY <1>1, MirroredRun DEF CaptureInv, TraceInv
<1>5. SegmentsInv'
  BY DEF SegmentsInv, TraceInv
<1>6. Lines(capbuf) \subseteq Lines(capbuf') /\ (cap_active => nlog + k \in Lines(capbuf'))
  BY <1>1, MirroredRun
<1>7. MissesAreKept'
  BY <1>1, <1>6 DEF MissesAreKept, TraceInv
<1>8. capbuf' \in Seq(Nat)
  BY <1>1, MirroredRun, EmptySeq DEF RunInv, TraceInv, TraceTypeOK
<1>9. nlog' \in Nat /\ nlog <= nlog' /\ cleared' \in 0 .. nlog'
  BY <1>1, <1>2
<1>10. misses' \in SUBSET (1 .. nlog')
  <2>1. 1 .. nlog \subseteq 1 .. nlog' /\ nlog + k \in 1 .. nlog'
    BY <1>1, <1>2
  <2> QED BY <1>2, <2>1, Zenon
<1> QED BY <1>3, <1>4, <1>5, <1>7, <1>8, <1>9, <1>10
-----------------------------------------------------------------------------
LEMMA InitTraceInv == Init => TraceInv
<1> SUFFICES ASSUME Init PROVE TraceInv
  OBVIOUS
<1>1. RingInv(rb, cleared, nlog)
  BY RingInit DEF Init
<1>2. TraceTypeOK
  <2>1. rb \in RingType
    BY <1>1 DEF RingInv
  <2>2. capbuf \in Seq(Nat) /\ ring_konata \in Seq(Seq(Nat))
    BY EmptySeq DEF Init
  <2>3. /\ cap_state \in {"IDLE", "WITH_SNAPSHOT", "POST_ONLY"}
        /\ cap_post_cycles_seen \in Nat /\ nlog \in Nat /\ cleared \in 0 .. nlog
    BY DEF Init
  <2>4. /\ cap_active \in BOOLEAN /\ recent_dump \in BOOLEAN
        /\ ptrace_active \in BOOLEAN /\ ptrace_oneshot \in BOOLEAN
        /\ open \in BOOLEAN
        /\ misses \in SUBSET (1 .. nlog) /\ ticks \in SUBSET (1 .. nlog)
    BY Zenon DEF Init
  <2> QED BY <2>1, <2>2, <2>3, <2>4, Zenon DEF TraceTypeOK, RingType
<1>3. CaptureInv /\ SegmentsInv /\ MissesAreKept
  BY DEF Init, CaptureInv, SegmentsInv, MissesAreKept
<1> QED BY <1>1, <1>2, <1>3 DEF TraceInv

\* The dump of a segment: the capture becomes the last segment, and everything
\* logged so far is behind it.
LEMMA DumpKeepsInv == TraceInv /\ newcycle_dump => TraceInv'
<1> SUFFICES ASSUME TraceInv, newcycle_dump PROVE TraceInv'
  OBVIOUS
<1> DEFINE seg == Mirrored(1)
           L == Len(ring_konata)
<1>1. /\ cleared \in Nat /\ nlog \in Nat /\ cleared <= nlog
      /\ ring_konata \in Seq(Seq(Nat)) /\ L \in Nat
      /\ misses \in SUBSET (1 .. nlog) /\ ticks \in SUBSET (1 .. nlog)
  BY DEF TraceInv, TraceTypeOK
<1>2. open /\ cap_active /\ nlog' = nlog + 1 /\ cleared' = nlog + 1
  BY DEF newcycle_dump, CanLog, TraceInv, CaptureInv
<1>3. RunInv(seg, cleared, nlog + 1) /\ Lines(capbuf) \subseteq Lines(seg)
  BY <1>2, MirroredRun
<1> HIDE DEF seg
<1>4. \A x \in Lines(seg) : x \in Nat /\ cleared < x /\ x <= nlog + 1
  BY <1>1, <1>3, RunLines
<1>5. /\ ring_konata' \in Seq(Seq(Nat))
      /\ Len(ring_konata') = L + 1
      /\ \A j \in 1 .. L : ring_konata'[j] = ring_konata[j]
      /\ ring_konata'[L + 1] = seg
  BY <1>1, <1>3 DEF newcycle_dump, RunInv, seg
<1>6. RingInv(rb, cleared, nlog)'
  BY <1>1, <1>2, RingInit DEF newcycle_dump
<1>7. CaptureInv'
  BY DEF newcycle_dump, CaptureInv
<1>8. SegmentsInv'
  <2>1. ASSUME NEW j \in 1 .. L + 1, NEW x \in Lines(ring_konata'[j])
        PROVE  x <= nlog + 1 /\ (j <= L => x <= cleared)
    <3>1. CASE j = L + 1
      BY <1>1, <1>4, <1>5, <3>1
    <3>2. CASE j \in 1 .. L
      <4>1. x \in Lines(ring_konata[j])
        BY <1>5, <3>2
      <4>2. x <= cleared
        BY <3>2, <4>1 DEF TraceInv, SegmentsInv
      <4>3. ring_konata[j] \in Seq(Nat)
        BY <1>1, <3>2
      <4>4. x \in Nat
        BY <4>1, <4>3 DEF Lines
      <4> QED BY <1>1, <4>2, <4>4
    <3> QED BY <1>1, <3>1, <3>2
  <2>2. ASSUME NEW j \in 1 .. L + 1, NEW k \in 1 .. L + 1, j < k,
               NEW x \in Lines(ring_konata'[j]),
               NEW y \in Lines(ring_konata'[k])
        PROVE  x < y
    <3>1. CASE k = L + 1
      <4>1. x <= cleared /\ j \in 1 .. L
        BY <1>1, <2>1, <2>2, <3>1
      <4>2. ring_konata[j] \in Seq(Nat) /\ x \in Lines(ring_konata[j])
        BY <1>1, <1>5, <4>1
      <4>3. x \in Nat
        BY <4>2 DEF Lines
      <4>4. y \in Nat /\ cleared < y
        BY <1>4, <1>5, <3>1
      <4> QED BY <1>1, <4>1, <4>3, <4>4
    <3>2. CASE k \in 1 .. L
      <4>1. j \in 1 .. L
        BY <1>1, <2>2, <3>2
      <4> QED BY <1>5, <2>2, <3>2, <4>1 DEF TraceInv, SegmentsInv
    <3> QED BY <1>1, <3>1, <3>2
  <2> QED BY <1>2, <1>5, <2>1, <2>2 DEF SegmentsInv
<1>9. MissesAreKept'
  <2> SUFFICES ASSUME NEW line \in misses
               PROVE  \E k \in 1 .. L + 1 : line \in Lines(ring_konata'[k])
    BY <1>5 DEF MissesAreKept, newcycle_dump
  <2>1. CASE line \in Lines(capbuf)
    <3>1. line \in Lines(ring_konata'[L + 1])
      BY <1>3, <1>5, <2>1
    <3> QED BY <1>1, <3>1
  <2>2. CASE \E k \in 1 .. L : line \in Lines(ring_konata[k])
    BY <1>1, <1>5, <2>2
  <2> QED BY <1>2, <2>1, <2>2 DEF TraceInv, MissesAreKept
<1>10. TraceTypeOK'
  <2>1. rb' \in RingType
    BY <1>6 DEF RingInv
  <2>2. misses' \in SUBSET (1 .. nlog') /\ ticks' \in SUBSET (1 .. nlog')
    <3>1. 1 .. nlog \subseteq 1 .. nlog' /\ nlog + 1 \in 1 .. nlog'
      BY <1>1, <1>2
    <3> QED BY <1>1, <3>1, Zenon DEF newcycle_dump
  <2>3. capbuf' \in Seq(Nat)
    BY EmptySeq DEF newcycle_dump
  <2>4. nlog' \in Nat /\ cleared' \in 0 .. nlog'
    BY <1>1, <1>2
  <2>5. cap_post_cycles_seen' \in Nat
    BY DEF newcycle_dump, TraceInv, TraceTypeOK
  <2> QED BY <1>5, <2>1, <2>2, <2>3, <2>4, <2>5, Zenon
          DEF newcycle_dump, TraceInv, TraceTypeOK, RingType
<1> QED BY <1>6, <1>7, <1>8, <1>9, <1>10 DEF TraceInv
\* The first miss of a capture: the snapshot, if any, and the miss's own line.
LEMMA FirstMissKeepsInv == TraceInv /\ newstage_miss_first => TraceInv'
<1> SUFFICES ASSUME TraceInv, newstage_miss_first PROVE TraceInv'
  OBVIOUS
<1> DEFINE before == IF ~recent_dump
                     THEN rb_copy_last(Pushed(1), cap_before_entries,
                                       tmp_before_size)
                     ELSE Mirrored(1)
<1>1. /\ cleared \in Nat /\ nlog \in Nat /\ cleared <= nlog
      /\ misses \in SUBSET (1 .. nlog) /\ ticks \in SUBSET (1 .. nlog)
  BY DEF TraceInv, TraceTypeOK
<1>2. /\ open /\ ~cap_active /\ capbuf = <<>>
      /\ nlog' = nlog + 2 /\ cleared' = cleared /\ rb' = Pushed(2)
      /\ misses' = misses \cup {nlog + 2}
      /\ capbuf' = Append(before, nlog + 2)
  BY DEF newstage_miss_first, CanLog, TraceInv, CaptureInv
<1>3. RunInv(before, cleared, nlog + 1)
  <2>1. CASE recent_dump
    <3>1. before = <<>>
      BY <1>2, <2>1, MirroredRun
    <3>2. before \in Seq(Nat) /\ Len(before) = 0
      BY <3>1, EmptySeq
    <3> HIDE DEF before
    <3> QED BY <1>1, <3>2 DEF RunInv
  <2>2. CASE ~recent_dump
    <3>1. RingInv(Pushed(1), cleared, nlog + 1)
      BY PushedRing
    <3>2. cap_before_entries \in Nat /\ tmp_before_size \in Nat
      BY TraceAssumption
    <3>3. RunInv(rb_copy_last(Pushed(1), cap_before_entries, tmp_before_size),
                 cleared, nlog + 1)
      BY <1>1, <3>1, <3>2, RunSnapshot
    <3> QED BY <2>2, <3>3
  <2> QED BY <2>1, <2>2
<1> HIDE DEF before
<1>4. RunInv(capbuf', cleared, nlog + 2) /\ nlog + 2 \in Lines(capbuf')
  <2>1. before \in Seq(Nat) /\ Len(before) \in Nat
    BY <1>3 DEF RunInv
  <2>2. /\ capbuf' \in Seq(Nat) /\ Len(capbuf') = Len(before) + 1
        /\ \A k \in 1 .. Len(before) : capbuf'[k] = before[k]
        /\ capbuf'[Len(before) + 1] = nlog + 2
    BY <1>1, <1>2, <2>1
  <2>3. ASSUME NEW k \in 1 .. Len(capbuf')
        PROVE  capbuf'[k] = (nlog + 2) - Len(capbuf') + k
    <3>1. CASE k \in 1 .. Len(before)
      <4>1. before[k] = (nlog + 1) - Len(before) + k
        BY <1>3, <3>1 DEF RunInv
      <4> QED BY <1>1, <2>1, <2>2, <3>1, <4>1
    <3>2. CASE k = Len(before) + 1
      BY <1>1, <2>1, <2>2, <3>2
    <3> QED BY <2>1, <2>2, <3>1, <3>2
  <2>4. Len(capbuf') <= (nlog + 2) - cleared
    BY <1>1, <1>3, <2>1, <2>2 DEF RunInv
  <2>5. RunInv(capbuf', cleared, nlog + 2)
    BY <2>2, <2>3, <2>4 DEF RunInv
  <2>6. nlog + 2 \in Lines(capbuf')
    BY <2>1, <2>2 DEF Lines
  <2> QED BY <2>5, <2>6
<1>5. RingInv(rb, cleared, nlog)'
  BY <1>2, PushedRing
<1>6. CaptureInv'
  BY <1>2, <1>4 DEF newstage_miss_first, CaptureInv
<1>7. SegmentsInv'
  BY DEF newstage_miss_first, SegmentsInv, TraceInv
<1>8. MissesAreKept'
  <2>1. Lines(capbuf) = {}
    BY <1>2 DEF Lines
  <2> QED BY <1>2, <1>4, <2>1
          DEF newstage_miss_first, MissesAreKept, TraceInv
<1>9. TraceTypeOK'
  <2>1. rb' \in RingType
    BY <1>5 DEF RingInv
  <2>2. misses' \in SUBSET (1 .. nlog') /\ ticks' \in SUBSET (1 .. nlog')
    <3>1. 1 .. nlog \subseteq 1 .. nlog' /\ nlog + 2 \in 1 .. nlog'
      BY <1>1, <1>2
    <3> QED BY <1>1, <1>2, <3>1, Zenon DEF newstage_miss_first
  <2>3. capbuf' \in Seq(Nat) /\ nlog' \in Nat /\ cleared' \in 0 .. nlog'
    BY <1>1, <1>2, <1>4 DEF RunInv
  <2>4. /\ cap_post_cycles_seen' \in Nat
        /\ cap_state' \in {"IDLE", "WITH_SNAPSHOT", "POST_ONLY"}
    BY DEF newstage_miss_first
  <2> QED BY <2>1, <2>2, <2>3, <2>4, Zenon
          DEF newstage_miss_first, TraceInv, TraceTypeOK, RingType
<1> QED BY <1>5, <1>6, <1>7, <1>8, <1>9 DEF TraceInv

\* Every step of the tracer keeps the invariant.
LEMMA NextTraceInv == TraceInv /\ [Next]_vars => TraceInv'
<1> SUFFICES ASSUME TraceInv, [Next]_vars PROVE TraceInv'
  OBVIOUS
<1>1. ASSUME NEW inrange \in BOOLEAN, ptrace_check_active(inrange)
      PROVE  TraceInv'
  <2>1. /\ TraceTypeOK'
        /\ RingInv(rb, cleared, nlog)'
    BY <1>1, Zenon DEF ptrace_check_active, TraceInv, TraceTypeOK
  <2>2. CaptureInv' /\ SegmentsInv' /\ MissesAreKept'
    BY <1>1, Zenon
       DEF ptrace_check_active, TraceInv, CaptureInv, SegmentsInv, MissesAreKept
  <2> QED BY <2>1, <2>2 DEF TraceInv
<1>2. ASSUME NEW k \in {1, 2}, LogOnly(k)
      PROVE  TraceInv'
  <2>1. rb_logf(k) /\ misses' = misses /\ ticks' = ticks
        /\ UNCHANGED <<cap_state, cap_active, ring_konata, cleared, open>>
    BY <1>2 DEF LogOnly
  <2>2. /\ RingInv(rb, cleared, nlog)' /\ CaptureInv' /\ SegmentsInv'
        /\ MissesAreKept'
        /\ capbuf' \in Seq(Nat) /\ nlog' \in Nat /\ nlog <= nlog'
        /\ cleared' \in 0 .. nlog' /\ misses' \in SUBSET (1 .. nlog')
    BY <2>1, LogKeepsInv
  <2>3. ticks' \in SUBSET (1 .. nlog')
    <3>1. 1 .. nlog \subseteq 1 .. nlog' /\ ticks \in SUBSET (1 .. nlog)
      BY <2>2 DEF TraceInv, TraceTypeOK
    <3> QED BY <2>1, <3>1, Zenon
  <2>4. TraceTypeOK'
    <3>1. rb' \in RingType
      BY <2>2 DEF RingInv
    <3> QED BY <1>2, <2>2, <2>3, <3>1, Zenon
            DEF LogOnly, TraceInv, TraceTypeOK, RingType
  <2> QED BY <2>2, <2>4 DEF TraceInv
<1>3. CASE newcycle \/ newcycle_count
  <2>1. rb_logf(1) /\ misses' = misses /\ ticks' = ticks \cup {nlog + 1}
        /\ UNCHANGED <<cap_state, cap_active, ring_konata, cleared, open>>
    BY <1>3 DEF newcycle, newcycle_count
  <2>2. /\ RingInv(rb, cleared, nlog)' /\ CaptureInv' /\ SegmentsInv'
        /\ MissesAreKept'
        /\ capbuf' \in Seq(Nat) /\ nlog' \in Nat /\ nlog <= nlog'
        /\ cleared' \in 0 .. nlog' /\ misses' \in SUBSET (1 .. nlog')
    BY <2>1, LogKeepsInv
  <2>3. ticks' \in SUBSET (1 .. nlog')
    <3>1. nlog' = nlog + 1 /\ nlog \in Nat /\ ticks \in SUBSET (1 .. nlog)
      BY <2>1 DEF rb_logf, TraceInv, TraceTypeOK
    <3>2. 1 .. nlog \subseteq 1 .. nlog' /\ nlog + 1 \in 1 .. nlog'
      BY <3>1
    <3> QED BY <2>1, <3>1, <3>2, Zenon
  <2>4. TraceTypeOK'
    <3>1. rb' \in RingType
      BY <2>2 DEF RingInv
    <3>2. cap_post_cycles_seen' \in Nat
      BY <1>3 DEF newcycle, newcycle_count, TraceInv, TraceTypeOK
    <3> QED BY <1>3, <2>2, <2>3, <3>1, <3>2, Zenon
            DEF newcycle, newcycle_count, TraceInv, TraceTypeOK, RingType
  <2> QED BY <2>2, <2>4 DEF TraceInv
<1>4. CASE newcycle_dump
  BY <1>4, DumpKeepsInv
<1>5. CASE newstage_miss_first
  BY <1>5, FirstMissKeepsInv
<1>6. CASE newstage_miss_again
  <2>1. /\ rb_logf(2) /\ cap_active /\ misses' = misses \cup {nlog + 2}
        /\ UNCHANGED <<cap_state, cap_active, ring_konata, cleared, open>>
    BY <1>6 DEF newstage_miss_again, TraceInv, CaptureInv
  <2>2. /\ RingInv(rb, cleared, nlog)' /\ CaptureInv' /\ SegmentsInv'
        /\ MissesAreKept'
        /\ capbuf' \in Seq(Nat) /\ nlog' \in Nat /\ nlog <= nlog'
        /\ cleared' \in 0 .. nlog' /\ misses' \in SUBSET (1 .. nlog')
    BY <2>1, LogKeepsInv
  <2>3. ticks' \in SUBSET (1 .. nlog')
    <3>1. 1 .. nlog \subseteq 1 .. nlog' /\ ticks \in SUBSET (1 .. nlog)
      BY <2>2 DEF TraceInv, TraceTypeOK
    <3> QED BY <1>6, <3>1, Zenon DEF newstage_miss_again
  <2>4. TraceTypeOK'
    <3>1. rb' \in RingType
      BY <2>2 DEF RingInv
    <3>2. cap_post_cycles_seen' \in Nat
      BY <1>6 DEF newstage_miss_again
    <3> QED BY <1>6, <2>2, <2>3, <3>1, <3>2, Zenon
            DEF newstage_miss_again, TraceInv, TraceTypeOK, RingType
  <2> QED BY <2>2, <2>4 DEF TraceInv
<1>7. CASE ptrace_close
  <2>1. TraceTypeOK'
    BY <1>7, EmptySeq, Zenon DEF ptrace_close, TraceInv, TraceTypeOK
  <2>2. /\ RingInv(rb, cleared, nlog)'
        /\ CaptureInv' /\ SegmentsInv' /\ MissesAreKept'
    BY <1>7, Zenon
       DEF ptrace_close, TraceInv, CaptureInv, SegmentsInv, MissesAreKept
  <2> QED BY <2>1, <2>2 DEF TraceInv
<1>8. CASE UNCHANGED vars
  <2>1. TraceTypeOK' /\ RingInv(rb, cleared, nlog)'
    BY <1>8, Zenon DEF vars, TraceInv, TraceTypeOK
  <2>2. CaptureInv' /\ SegmentsInv' /\ MissesAreKept'
    BY <1>8, Zenon DEF vars, TraceInv, CaptureInv, SegmentsInv, MissesAreKept
  <2> QED BY <2>1, <2>2 DEF TraceInv
<1> QED
  BY <1>1, <1>2, <1>3, <1>4, <1>5, <1>6, <1>7, <1>8
     DEF Next, newinst, newuop, endinst, newstage
-----------------------------------------------------------------------------
(* The cycles after the last miss.                                         *)

\* Of the lines L, the last in M is followed by c lines in T.
Shows(L, M, T, c) ==
  \E m \in L \cap M :
    /\ \A x \in L \cap M : x <= m
    /\ IsFiniteSet({t \in L \cap T : t > m})
    /\ Cardinality({t \in L \cap T : t > m}) = c

\* The running capture has cap_post_cycles_seen cycles behind its last miss.
AftermathInv ==
  /\ cap_state # "IDLE" =>
       /\ cap_post_cycles_seen < cap_post_cycles_target
       /\ open => Shows(Lines(capbuf), misses, ticks, cap_post_cycles_seen)
  /\ \A j \in 1 .. Len(ring_konata) :
       Shows(Lines(ring_konata[j]), misses, ticks, cap_post_cycles_target)

\* Only lines in M and T count.
LEMMA ShowsSame ==
  ASSUME NEW L, NEW M, NEW T, NEW c, Shows(L, M, T, c), NEW K, NEW N, NEW U,
         K \cap N = L \cap M, K \cap U = L \cap T
  PROVE  Shows(K, N, U, c)
<1>1. PICK m \in L \cap M :
        /\ \A x \in L \cap M : x <= m
        /\ IsFiniteSet({t \in L \cap T : t > m})
        /\ Cardinality({t \in L \cap T : t > m}) = c
  BY Zenon DEF Shows
<1>2. {t \in K \cap U : t > m} = {t \in L \cap T : t > m}
  OBVIOUS
<1> QED BY <1>1, <1>2, Zenon DEF Shows

\* One more line that starts a cycle.
LEMMA ShowsTick ==
  ASSUME NEW n \in Nat, NEW L, NEW M \in SUBSET (1 .. n), NEW T \in SUBSET (1 .. n),
         NEW c \in Nat, Shows(L, M, T, c)
  PROVE  Shows(L \cup {n + 1}, M, T \cup {n + 1}, c + 1)
<1> DEFINE K == L \cup {n + 1}
           U == T \cup {n + 1}
<1>1. PICK m \in L \cap M :
        /\ \A x \in L \cap M : x <= m
        /\ IsFiniteSet({t \in L \cap T : t > m})
        /\ Cardinality({t \in L \cap T : t > m}) = c
  BY DEF Shows
<1>2. n + 1 \notin T /\ n + 1 \notin M /\ n + 1 > m
  <2>1. \A x \in 1 .. n : x # n + 1 /\ n + 1 > x
    OBVIOUS
  <2> QED BY <2>1, Zenon
<1>3. {t \in K \cap U : t > m} = {t \in L \cap T : t > m} \cup {n + 1}
  <2> DEFINE e == n + 1
  <2> HIDE DEF e
  <2>1. ASSUME NEW L2, NEW T2, e > m, e \notin T2
        PROVE  {t \in (L2 \cup {e}) \cap (T2 \cup {e}) : t > m} =
                 {t \in L2 \cap T2 : t > m} \cup {e}
    BY <2>1, Zenon
  <2> QED BY <1>2, <2>1 DEF e
<1>4. K \cap M = L \cap M
  BY <1>2
<1>5. /\ IsFiniteSet({t \in K \cap U : t > m})
      /\ Cardinality({t \in K \cap U : t > m}) = c + 1
  <2>1. n + 1 \notin {t \in L \cap T : t > m}
    BY <1>2
  <2> QED BY <1>1, <1>3, <2>1, FS_AddElement
<1> QED BY <1>1, <1>4, <1>5 DEF Shows

\* A miss starts the count anew.
LEMMA ShowsMiss ==
  ASSUME NEW n \in Nat, NEW L, NEW M \in SUBSET (1 .. n), NEW T \in SUBSET (1 .. n),
         n + 2 \in L
  PROVE  Shows(L, M \cup {n + 2}, T, 0)
<1>1. n + 2 \in L \cap (M \cup {n + 2})
  OBVIOUS
<1>2. \A x \in L \cap (M \cup {n + 2}) : x <= n + 2
  <2>1. \A x \in M : x <= n + 2
    OBVIOUS
  <2>2. n + 2 <= n + 2
    OBVIOUS
  <2> QED BY <2>1, <2>2, Zenon
<1>3. {t \in L \cap T : t > n + 2} = {}
  <2>1. \A t \in T : ~(t > n + 2)
    OBVIOUS
  <2> QED BY <2>1, Zenon
<1> QED BY <1>1, <1>2, <1>3, FS_EmptySet DEF Shows

\* The lines a mirror of k lines leaves in the capture.
LEMMA MirroredLines ==
  ASSUME TraceInv, cap_active, NEW k \in {1, 2}
  PROVE  Lines(Mirrored(k)) = Lines(capbuf) \cup {nlog + j : j \in 1 .. k}
<1> DEFINE t == Logged(k)
           e == capbuf \o t
<1>1. capbuf \in Seq(Nat) /\ nlog \in Nat /\ Len(capbuf) \in Nat
  BY DEF TraceInv, TraceTypeOK
<1>2. t \in [1 .. k -> Nat] /\ \A j \in 1 .. k : t[j] = nlog + j
  BY <1>1 DEF Logged
<1>3. Mirrored(k) = e
  BY DEF Mirrored
<1> HIDE DEF t
<1>4. t \in Seq(Nat) /\ Len(t) = k
  BY <1>2, FunctionIsSeq
<1>5. /\ Len(e) = Len(capbuf) + k
      /\ \A i \in 1 .. Len(capbuf) + k :
           e[i] = IF i <= Len(capbuf) THEN capbuf[i] ELSE t[i - Len(capbuf)]
  BY <1>1, <1>4, ConcatProperties
<1> HIDE DEF e
<1>6. ASSUME NEW i \in 1 .. Len(e)
      PROVE  e[i] \in Lines(capbuf) \cup {nlog + j : j \in 1 .. k}
  <2>1. CASE i <= Len(capbuf)
    BY <1>1, <1>5, <2>1 DEF Lines
  <2>2. CASE i > Len(capbuf)
    <3>1. i - Len(capbuf) \in 1 .. k /\ e[i] = t[i - Len(capbuf)]
      BY <1>1, <1>5, <2>2
    <3> QED BY <1>2, <3>1
  <2> QED BY <1>1, <1>5, <2>1, <2>2
<1>7. ASSUME NEW i \in 1 .. Len(capbuf) PROVE capbuf[i] \in Lines(e)
  <2>1. i \in 1 .. Len(e) /\ e[i] = capbuf[i]
    BY <1>1, <1>5
  <2> QED BY <2>1 DEF Lines
<1>8. ASSUME NEW j \in 1 .. k PROVE nlog + j \in Lines(e)
  <2>1. /\ Len(capbuf) + j \in 1 .. Len(e) /\ (Len(capbuf) + j) - Len(capbuf) = j
        /\ ~(Len(capbuf) + j <= Len(capbuf))
    BY <1>1, <1>5
  <2>2. e[Len(capbuf) + j] = nlog + j
    BY <1>2, <1>5, <2>1
  <2> QED BY <2>1, <2>2 DEF Lines
<1>9. Lines(e) \subseteq Lines(capbuf) \cup {nlog + j : j \in 1 .. k}
  BY <1>6 DEF Lines
<1>10. Lines(capbuf) \subseteq Lines(e)
  BY <1>7 DEF Lines
<1> QED BY <1>3, <1>8, <1>9, <1>10

\* New lines do not touch the segments in the file.
LEMMA SegmentsKeepShowing ==
  ASSUME TraceInv, AftermathInv,
         NEW M \in {misses, misses \cup {nlog + 2}},
         NEW T \in {ticks, ticks \cup {nlog + 1}}
  PROVE  \A j \in 1 .. Len(ring_konata) :
           Shows(Lines(ring_konata[j]), M, T, cap_post_cycles_target)
<1> TAKE j \in 1 .. Len(ring_konata)
<1>1. nlog \in Nat /\ cleared \in Nat /\ cleared <= nlog
      /\ ring_konata[j] \in Seq(Nat)
  BY DEF TraceInv, TraceTypeOK
<1>2. \A x \in Lines(ring_konata[j]) : x \in Nat /\ x <= nlog
  <2>1. \A x \in Lines(ring_konata[j]) : x <= cleared
    BY DEF TraceInv, SegmentsInv
  <2>2. \A x \in Lines(ring_konata[j]) : x \in Nat
    BY <1>1 DEF Lines
  <2> QED BY <1>1, <2>1, <2>2
<1>3. nlog + 1 \notin Lines(ring_konata[j]) /\ nlog + 2 \notin Lines(ring_konata[j])
  BY <1>1, <1>2
<1>4. /\ Lines(ring_konata[j]) \cap M = Lines(ring_konata[j]) \cap misses
      /\ Lines(ring_konata[j]) \cap T = Lines(ring_konata[j]) \cap ticks
  BY <1>3
<1> QED BY <1>4, ShowsSame DEF AftermathInv

\* Lines that report no miss and start no cycle.
LEMMA LogOnlyAftermath ==
  ASSUME TraceInv, AftermathInv, NEW k \in {1, 2}, LogOnly(k)
  PROVE  AftermathInv'
<1>1. /\ open /\ capbuf' = Mirrored(k) /\ nlog \in Nat
      /\ misses \in SUBSET (1 .. nlog) /\ ticks \in SUBSET (1 .. nlog)
      /\ UNCHANGED <<cap_state, cap_active, cap_post_cycles_seen, ring_konata,
                     misses, ticks, open>>
  BY DEF LogOnly, rb_logf, CanLog, TraceInv, TraceTypeOK
<1>2. ASSUME cap_state # "IDLE"
      PROVE  Shows(Lines(capbuf'), misses, ticks, cap_post_cycles_seen)
  <2>1. Lines(capbuf') = Lines(capbuf) \cup {nlog + j : j \in 1 .. k}
    BY <1>1, <1>2, MirroredLines DEF TraceInv, CaptureInv
  <2>2. \A j \in 1 .. k : nlog + j \notin misses /\ nlog + j \notin ticks
    BY <1>1
  <2>3. /\ Lines(capbuf') \cap misses = Lines(capbuf) \cap misses
        /\ Lines(capbuf') \cap ticks = Lines(capbuf) \cap ticks
    BY <2>1, <2>2
  <2>4. Shows(Lines(capbuf), misses, ticks, cap_post_cycles_seen)
    BY <1>1, <1>2 DEF AftermathInv
  <2> QED BY <2>3, <2>4, ShowsSame
<1> QED BY <1>1, <1>2 DEF AftermathInv

LEMMA CycleAftermath ==
  ASSUME TraceInv, AftermathInv, newcycle
  PROVE  AftermathInv'
<1>1. \A j \in 1 .. Len(ring_konata) :
        Shows(Lines(ring_konata[j]), misses, ticks \cup {nlog + 1},
              cap_post_cycles_target)
  BY SegmentsKeepShowing
<1> QED BY <1>1 DEF newcycle, AftermathInv

\* A line that starts a cycle counts for the running capture.
LEMMA TickAftermath ==
  ASSUME TraceInv, AftermathInv, cap_state # "IDLE"
  PROVE  Shows(Lines(Mirrored(1)), misses, ticks \cup {nlog + 1},
               cap_post_cycles_seen + 1) \/ ~open
<1> SUFFICES ASSUME open
             PROVE  Shows(Lines(Mirrored(1)), misses, ticks \cup {nlog + 1},
                          cap_post_cycles_seen + 1)
  OBVIOUS
<1>1. /\ nlog \in Nat /\ cap_post_cycles_seen \in Nat
      /\ misses \in SUBSET (1 .. nlog) /\ ticks \in SUBSET (1 .. nlog)
  BY DEF TraceInv, TraceTypeOK
<1>2. Lines(Mirrored(1)) = Lines(capbuf) \cup {nlog + j : j \in 1 .. 1}
  BY MirroredLines DEF TraceInv, CaptureInv
<1>3. {nlog + j : j \in 1 .. 1} = {nlog + 1}
  OBVIOUS
<1>4. Shows(Lines(capbuf), misses, ticks, cap_post_cycles_seen)
  BY DEF AftermathInv
<1>5. Shows(Lines(capbuf) \cup {nlog + 1}, misses, ticks \cup {nlog + 1},
            cap_post_cycles_seen + 1)
  BY <1>1, <1>4, ShowsTick
<1> QED BY <1>2, <1>3, <1>5

LEMMA CountAftermath ==
  ASSUME TraceInv, AftermathInv, newcycle_count
  PROVE  AftermathInv'
<1>1. \A j \in 1 .. Len(ring_konata) :
        Shows(Lines(ring_konata[j]), misses, ticks \cup {nlog + 1},
              cap_post_cycles_target)
  BY SegmentsKeepShowing
<1>2. Shows(Lines(Mirrored(1)), misses, ticks \cup {nlog + 1},
            cap_post_cycles_seen + 1)
  BY TickAftermath DEF newcycle_count, rb_logf, CanLog
<1> QED BY <1>1, <1>2 DEF newcycle_count, rb_logf, AftermathInv

\* The dump comes after exactly cap_post_cycles_target cycles: one less had
\* been counted.
LEMMA DumpAftermath ==
  ASSUME TraceInv, AftermathInv, newcycle_dump
  PROVE  AftermathInv'
<1> DEFINE L == Len(ring_konata)
<1>1. \A j \in 1 .. L :
        Shows(Lines(ring_konata[j]), misses, ticks \cup {nlog + 1},
              cap_post_cycles_target)
  BY SegmentsKeepShowing
<1>2. /\ ring_konata \in Seq(Seq(Nat)) /\ L \in Nat /\ capbuf \in Seq(Nat)
      /\ nlog \in Nat /\ cap_post_cycles_seen \in Nat
  BY DEF TraceInv, TraceTypeOK
<1>3. Mirrored(1) \in Seq(Nat)
  <2>1. open /\ cap_active
    BY DEF newcycle_dump, CanLog, TraceInv, CaptureInv
  <2> QED BY <2>1, MirroredRun DEF RunInv
<1>4. cap_post_cycles_seen + 1 = cap_post_cycles_target
  BY <1>2, TraceAssumption DEF newcycle_dump, AftermathInv
<1>5. Shows(Lines(Mirrored(1)), misses, ticks \cup {nlog + 1},
            cap_post_cycles_target)
  BY <1>4, TickAftermath DEF newcycle_dump, CanLog
<1>6. /\ Len(ring_konata') = L + 1 /\ ring_konata'[L + 1] = Mirrored(1)
      /\ \A j \in 1 .. L : ring_konata'[j] = ring_konata[j]
  BY <1>2, <1>3 DEF newcycle_dump
<1>7. misses' = misses /\ ticks' = ticks \cup {nlog + 1} /\ cap_state' = "IDLE"
  BY DEF newcycle_dump
<1>8. ASSUME NEW j \in 1 .. L + 1
      PROVE  Shows(Lines(ring_konata'[j]), misses', ticks', cap_post_cycles_target)
  <2>1. CASE j = L + 1
    BY <1>5, <1>6, <1>7, <2>1
  <2>2. CASE j \in 1 .. L
    BY <1>1, <1>6, <1>7, <2>2
  <2> QED BY <1>2, <2>1, <2>2
<1> QED BY <1>6, <1>7, <1>8 DEF AftermathInv

LEMMA MissAftermath ==
  ASSUME TraceInv, AftermathInv, newstage_miss_first \/ newstage_miss_again,
         nlog + 2 \in Lines(capbuf')
  PROVE  AftermathInv'
<1>1. /\ misses' = misses \cup {nlog + 2} /\ ticks' = ticks
      /\ cap_post_cycles_seen' = 0 /\ ring_konata' = ring_konata
  BY DEF newstage_miss_first, newstage_miss_again
<1>2. /\ nlog \in Nat /\ 0 < cap_post_cycles_target
      /\ misses \in SUBSET (1 .. nlog) /\ ticks \in SUBSET (1 .. nlog)
  BY TraceAssumption DEF TraceInv, TraceTypeOK
<1>3. Shows(Lines(capbuf'), misses', ticks', 0)
  BY <1>1, <1>2, ShowsMiss
<1>4. \A j \in 1 .. Len(ring_konata) :
        Shows(Lines(ring_konata[j]), misses', ticks', cap_post_cycles_target)
  BY <1>1, SegmentsKeepShowing
<1> QED BY <1>1, <1>2, <1>3, <1>4 DEF AftermathInv

LEMMA FirstMissLine ==
  ASSUME TraceInv, newstage_miss_first
  PROVE  nlog + 2 \in Lines(capbuf')
<1>1. TraceInv' /\ nlog' = nlog + 2 /\ misses' = misses \cup {nlog + 2}
      /\ ring_konata' = ring_konata /\ open' /\ nlog \in Nat /\ cleared \in Nat
      /\ cleared' = cleared /\ cleared <= nlog
  BY FirstMissKeepsInv
     DEF newstage_miss_first, CanLog, TraceInv, TraceTypeOK
<1>2. \/ nlog + 2 \in Lines(capbuf')
      \/ \E k \in 1 .. Len(ring_konata) : nlog + 2 \in Lines(ring_konata[k])
  BY <1>1 DEF TraceInv, MissesAreKept
<1>3. \A k \in 1 .. Len(ring_konata) : nlog + 2 \notin Lines(ring_konata[k])
  <2>1. \A k \in 1 .. Len(ring_konata) :
          \A x \in Lines(ring_konata[k]) : x <= cleared
    BY DEF TraceInv, SegmentsInv
  <2> QED BY <1>1, <2>1
<1> QED BY <1>2, <1>3

LEMMA NextAftermath ==
  TraceInv /\ AftermathInv /\ [Next]_vars => AftermathInv'
<1> SUFFICES ASSUME TraceInv, AftermathInv, [Next]_vars PROVE AftermathInv'
  OBVIOUS
<1>1. ASSUME NEW inrange \in BOOLEAN, ptrace_check_active(inrange)
      PROVE  AftermathInv'
  BY <1>1 DEF ptrace_check_active, AftermathInv
<1>2. ASSUME NEW k \in {1, 2}, LogOnly(k)
      PROVE  AftermathInv'
  BY <1>2, LogOnlyAftermath
<1>3. CASE newcycle
  BY <1>3, CycleAftermath
<1>4. CASE newcycle_count
  BY <1>4, CountAftermath
<1>5. CASE newcycle_dump
  BY <1>5, DumpAftermath
<1>6. CASE newstage_miss_first
  BY <1>6, FirstMissLine, MissAftermath
<1>7. CASE newstage_miss_again
  <2>1. open /\ cap_active /\ capbuf' = Mirrored(2)
    BY <1>7 DEF newstage_miss_again, rb_logf, CanLog, TraceInv, CaptureInv
  <2>2. nlog + 2 \in Lines(capbuf')
    BY <2>1, MirroredRun
  <2> QED BY <1>7, <2>2, MissAftermath
<1>8. CASE ptrace_close
  BY <1>8 DEF ptrace_close, AftermathInv
<1>9. CASE UNCHANGED vars
  BY <1>9 DEF vars, AftermathInv
<1> QED
  BY <1>1, <1>2, <1>3, <1>4, <1>5, <1>6, <1>7, <1>8, <1>9
     DEF Next, newinst, newuop, endinst, newstage

-----------------------------------------------------------------------------
\* The inductive invariant holds of every behaviour of the tracer.
THEOREM TraceInvariant == Spec => []TraceInv
BY InitTraceInv, NextTraceInv, PTL DEF Spec

\* The variables of ptrace.c and ring_buffer.c keep their types: head and tail
\* never leave the ring.
THEOREM TraceTypeCorrect == Spec => []TraceTypeOK
<1>1. TraceInv => TraceTypeOK
  BY DEF TraceInv
<1> QED BY <1>1, TraceInvariant, PTL

\* rb_copy_last returns the most recent lines in order, for every ring size.
THEOREM RingCorrect == Spec => []RingHoldsLast
<1>1. TraceInv => RingHoldsLast
  <2> SUFFICES ASSUME TraceInv, NEW N \in 0 .. RING_BUFFER_SIZE + 1
               PROVE  LET n == AtMost(AtMost(N, nlog - cleared),
                                      RING_BUFFER_SIZE)
                      IN  rb_copy_last(rb, N, RING_BUFFER_SIZE) =
                            [k \in 1 .. n |-> nlog - n + k]
    BY DEF RingHoldsLast
  <2> DEFINE n == AtMost(AtMost(N, nlog - cleared), RING_BUFFER_SIZE)
  <2>1. /\ cleared \in Nat /\ nlog \in Nat /\ cleared <= nlog
        /\ RingInv(rb, cleared, nlog)
    BY DEF TraceInv, TraceTypeOK
  <2>2. N \in Nat /\ RING_BUFFER_SIZE \in Nat
    BY SizePositive
  <2>3. CopyInv(rb, cleared, nlog, N, RING_BUFFER_SIZE)
    BY <2>1, <2>2, RingCopy
  <2>4. CopyLen(N, nlog - cleared, RING_BUFFER_SIZE) = n
    BY <2>1, <2>2 DEF CopyLen, AtMost
  <2> HIDE DEF n
  <2>5. /\ rb_copy_last(rb, N, RING_BUFFER_SIZE) \in [1 .. n -> Nat]
        /\ \A k \in 1 .. n :
             rb_copy_last(rb, N, RING_BUFFER_SIZE)[k] = nlog - n + k
    BY <2>3, <2>4, Zenon DEF CopyInv
  <2>6. rb_copy_last(rb, N, RING_BUFFER_SIZE) = [k \in 1 .. n |-> nlog - n + k]
    BY <2>5
  <2> QED BY <2>6 DEF n
<1> QED BY <1>1, TraceInvariant, PTL

\* A capture is a run of consecutive lines, whatever snapshot it began with.
THEOREM CaptureCorrect == Spec => []CaptureHasNoHole
<1>1. TraceInv => CaptureHasNoHole
  <2> SUFFICES ASSUME TraceInv, cap_active, open
               PROVE  capbuf = [k \in 1 .. Len(capbuf) |->
                                  nlog - Len(capbuf) + k]
    BY DEF CaptureHasNoHole
  <2>1. RunInv(capbuf, cleared, nlog)
    BY DEF TraceInv, CaptureInv
  <2>2. /\ capbuf \in [1 .. Len(capbuf) -> Nat]
        /\ \A k \in 1 .. Len(capbuf) : capbuf[k] = nlog - Len(capbuf) + k
    BY <2>1, LenProperties DEF RunInv
  <2> QED BY <2>2
<1> QED BY <1>1, TraceInvariant, PTL

\* No miss is forgotten while the trace is open.
THEOREM MissesCorrect == Spec => []MissesAreKept
<1>1. TraceInv => MissesAreKept
  BY DEF TraceInv
<1> QED BY <1>1, TraceInvariant, PTL

\* No line is written to the file twice, nor out of order.
THEOREM SegmentsCorrect == Spec => []SegmentsApart
<1>1. TraceInv => SegmentsApart
  <2> SUFFICES ASSUME TraceInv,
                      NEW j \in 1 .. Len(ring_konata),
                      NEW x \in Lines(ring_konata[j]), NEW y \in Lines(capbuf)
               PROVE  x < y
    BY DEF TraceInv, SegmentsInv, SegmentsApart
  <2>1. /\ cleared \in Nat /\ nlog \in Nat
        /\ ring_konata \in Seq(Seq(Nat))
    BY DEF TraceInv, TraceTypeOK
  <2>2. capbuf # <<>>
    BY DEF Lines
  <2>3. RunInv(capbuf, cleared, nlog)
    BY <2>2 DEF TraceInv, CaptureInv
  <2>4. y \in Nat /\ cleared < y
    BY <2>1, <2>3, RunLines
  <2>5. x <= cleared
    BY DEF TraceInv, SegmentsInv
  <2>6. x \in Nat
    <3>1. ring_konata[j] \in Seq(Nat)
      BY <2>1
    <3> QED BY <3>1 DEF Lines
  <2> QED BY <2>1, <2>4, <2>5, <2>6
<1> QED BY <1>1, TraceInvariant, PTL

\* Every segment in the file ends cap_post_cycles_target cycles after its last
\* miss: RESET_COUNTDOWN and INC_COUNTDOWN count from the last one, whatever
\* snapshot and whatever other lines the segment has.
THEOREM AftermathCorrect == Spec => []SegmentsShowAftermath
<1>1. Init => AftermathInv
  BY DEF Init, AftermathInv
<1>2. TraceInv /\ AftermathInv => SegmentsShowAftermath
  <2> SUFFICES ASSUME TraceInv, AftermathInv, NEW j \in 1 .. Len(ring_konata)
               PROVE  LET seg  == Lines(ring_konata[j])
                          last == CHOOSE m \in seg \cap misses :
                                    \A x \in seg \cap misses : x <= m
                      IN  /\ seg \cap misses # {}
                          /\ Cardinality({t \in seg \cap ticks : t > last}) =
                               cap_post_cycles_target
    BY DEF SegmentsShowAftermath
  <2> DEFINE seg == Lines(ring_konata[j])
             last == CHOOSE m \in seg \cap misses :
                       \A x \in seg \cap misses : x <= m
  <2>1. PICK m \in seg \cap misses :
          /\ \A x \in seg \cap misses : x <= m
          /\ Cardinality({t \in seg \cap ticks : t > m}) = cap_post_cycles_target
    BY DEF AftermathInv, Shows
  <2>2. last \in seg \cap misses /\ \A x \in seg \cap misses : x <= last
    BY <2>1
  <2>3. misses \in SUBSET (1 .. nlog) /\ nlog \in Nat
    BY DEF TraceInv, TraceTypeOK
  <2>4. \A x, y \in misses : x <= y /\ y <= x => x = y
    BY <2>3
  <2>5. last = m
    <3> HIDE DEF last
    <3> QED BY <2>1, <2>2, <2>4
  <2> HIDE DEF last
  <2>6. seg \cap misses # {}
    BY <2>1
  <2>7. Cardinality({t \in seg \cap ticks : t > last}) = cap_post_cycles_target
    BY <2>1, <2>5
  <2> QED BY <2>6, <2>7 DEF last
<1> QED BY <1>1, <1>2, NextAftermath, TraceInvariant, PTL DEF Spec

\* The trace is a one-shot switch.
THEOREM OneShotCorrect == Spec => OneShot
<1>1. [Next]_vars => [ptrace_oneshot /\ ~ptrace_active => ~ptrace_active']_vars
  BY Zenon DEF Next, vars, ptrace_check_active, newinst, newuop, endinst,
     LogOnly, newcycle, newcycle_count, newcycle_dump, newstage,
     newstage_miss_first, newstage_miss_again, ptrace_close
<1> QED BY <1>1, PTL DEF Spec, OneShot
=============================================================================
