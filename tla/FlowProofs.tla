----------------------------- MODULE FlowProofs -----------------------------
(***************************************************************************)
(* Instructions flow through the queues of the core without getting lost:  *)
(* whatever the machine and the program, an instruction of the window that  *)
(* has not completed waits for an operand, is on the ready list once, has   *)
(* one completion event, or is a load that lsq_refresh will look at; and no *)
(* wake-up is delivered twice.                                              *)
(*                                                                         *)
(* Instructions keep their order: the window is retired from its oldest    *)
(* and squashed from its youngest end, the machine speculates exactly      *)
(* behind one mispredicted branch, system calls and fences run alone, and  *)
(* what ruu_writeback finds on the event queue can be completed.           *)
(*                                                                         *)
(* And when it lets them happen: an event is written back in the cycle it  *)
(* is due, because eventq_queue_event keeps the event queue sorted; and a  *)
(* load starts only behind stores whose addresses are known, because       *)
(* lsq_refresh scans the LSQ from its oldest entry on.                     *)
(*                                                                         *)
(* The core therefore implements the reorder window: instructions of the   *)
(* correct path retire exactly once, complete and in program order, and    *)
(* those of a wrong path never retire.                                     *)
(***************************************************************************)
EXTENDS PipelineProofs

-----------------------------------------------------------------------------
(* The links of a list that RSLINK_VALID accepts.                          *)

HasTag(g, l) == l.tag = g[l.rs]
ValidAt(g, q) == {i \in 1 .. Len(q) : HasTag(g, q[i])}
Reached(g, q) == {q[i].rs : i \in ValidAt(g, q)}
Once(g, q) == \A i, j \in ValidAt(g, q) : q[i].rs = q[j].rs => i = j

\* r is the list q with e at some place.
Inserted(q, e, r) ==
  \E p \in 1 .. Len(q) + 1 :
    /\ Len(r) = Len(q) + 1
    /\ r[p] = e
    /\ \A i \in 1 .. p - 1 : r[i] = q[i]
    /\ \A i \in p + 1 .. Len(q) + 1 : r[i] = q[i - 1]

LEMMA ConsInserts ==
  ASSUME NEW S, NEW q \in Seq(S), NEW e \in S
  PROVE  Inserted(q, e, <<e>> \o q)
<1>1. Len(q) \in Nat /\ Len(<<e>>) = 1 /\ <<e>> \in Seq(S)
  OBVIOUS
<1>2. /\ Len(<<e>> \o q) = Len(q) + 1
      /\ \A i \in 1 .. 1 + Len(q) : (<<e>> \o q)[i] = IF i <= 1 THEN <<e>>[i] ELSE q[i - 1]
  BY <1>1, ConcatProperties
<1>3. /\ (<<e>> \o q)[1] = e
      /\ \A i \in 1 + 1 .. Len(q) + 1 : (<<e>> \o q)[i] = q[i - 1]
  BY <1>1, <1>2
<1>4. 1 \in 1 .. Len(q) + 1 /\ (\A i \in 1 .. 1 - 1 : (<<e>> \o q)[i] = q[i])
  BY <1>1
<1> QED BY <1>2, <1>3, <1>4 DEF Inserted

\* InsertBefore puts e in front of the first hit.
LEMMA InsertPlace ==
  ASSUME NEW S, NEW q \in Seq(S), NEW e \in S,
         NEW hits \in SUBSET (1 .. Len(q))
  PROVE  LET r == InsertBefore(q, e, hits)
         IN  \E p \in 1 .. Len(q) + 1 :
               /\ Len(r) = Len(q) + 1 /\ r[p] = e
               /\ \A i \in 1 .. p - 1 : r[i] = q[i] /\ i \notin hits
               /\ \A i \in p + 1 .. Len(q) + 1 : r[i] = q[i - 1]
               /\ p \in hits \/ p = Len(q) + 1
<1> DEFINE p == IF hits = {} THEN Len(q) + 1
                ELSE CHOOSE i \in hits : \A j \in hits : i <= j
           u == SubSeq(q, 1, p - 1)
           v == SubSeq(q, p, Len(q))
           r == InsertBefore(q, e, hits)
<1>1. Len(q) \in Nat
  OBVIOUS
<1>2. /\ p \in 1 .. Len(q) + 1 /\ (p \in hits \/ p = Len(q) + 1)
      /\ \A i \in 1 .. p - 1 : i \notin hits
  <2>1. CASE hits = {}
    BY <1>1, <2>1
  <2>2. CASE hits # {}
    <3>1. hits \in SUBSET Nat
      BY <1>1
    <3>2. \E i \in hits : \A j \in hits : i <= j
      BY <2>2, <3>1, LeastExists
    <3>3. p \in hits /\ \A j \in hits : p <= j
      BY <2>2, <3>2
    <3> HIDE DEF p
    <3> QED BY <1>1, <3>1, <3>3
  <2> QED BY <2>1, <2>2
<1>3. r = (u \o <<e>>) \o v
  BY DEF InsertBefore
<1> HIDE DEF p, r
<1>4. \A i \in 1 .. Len(q) : q[i] \in S
  BY ElementOfSeq
<1>5. /\ u \in Seq(S) /\ Len(u) = p - 1
      /\ \A i \in 1 .. p - 1 : u[i] = q[i]
  <2>1. \A i \in 1 .. p - 1 : q[i] \in S
    BY <1>1, <1>2, <1>4
  <2>2. 1 \in Int /\ p - 1 \in Int
    BY <1>2
  <2>3. /\ u \in Seq(S) /\ Len(u) = IF 1 <= p - 1 THEN p - 1 - 1 + 1 ELSE 0
        /\ \A i \in 1 .. p - 1 - 1 + 1 : u[i] = q[1 + i - 1]
    BY <2>1, <2>2, SubSeqProperties
  <2> QED BY <1>2, <2>3
<1>6. /\ v \in Seq(S) /\ Len(v) = Len(q) - p + 1
      /\ \A i \in 1 .. Len(q) - p + 1 : v[i] = q[p + i - 1]
  <2>1. \A i \in p .. Len(q) : q[i] \in S
    BY <1>1, <1>2, <1>4
  <2>2. p \in Int /\ Len(q) \in Int
    BY <1>1, <1>2
  <2>3. /\ v \in Seq(S) /\ Len(v) = IF p <= Len(q) THEN Len(q) - p + 1 ELSE 0
        /\ \A i \in 1 .. Len(q) - p + 1 : v[i] = q[p + i - 1]
    BY <2>1, <2>2, SubSeqProperties
  <2> QED BY <1>1, <1>2, <2>3
<1> HIDE DEF u, v
<1>7. <<e>> \in Seq(S) /\ Len(<<e>>) = 1 /\ <<e>>[1] = e
  OBVIOUS
<1>8. /\ u \o <<e>> \in Seq(S) /\ Len(u \o <<e>>) = p
      /\ \A i \in 1 .. p - 1 : (u \o <<e>>)[i] = q[i]
      /\ (u \o <<e>>)[p] = e
  <2>1. /\ u \o <<e>> \in Seq(S) /\ Len(u \o <<e>>) = Len(u) + Len(<<e>>)
        /\ \A i \in 1 .. Len(u) + Len(<<e>>) :
             (u \o <<e>>)[i] = IF i <= Len(u) THEN u[i] ELSE <<e>>[i - Len(u)]
    BY <1>5, <1>7, ConcatProperties
  <2>2. p \in Nat /\ Len(u) + Len(<<e>>) = p
    BY <1>1, <1>2, <1>5, <1>7
  <2>3. (u \o <<e>>)[p] = e
    <3>1. ~(p <= Len(u)) /\ p - Len(u) = 1 /\ p \in 1 .. p
      BY <1>1, <1>2, <1>5
    <3> QED BY <1>7, <2>1, <2>2, <3>1
  <2>4. \A i \in 1 .. p - 1 : (u \o <<e>>)[i] = q[i]
    BY <1>5, <2>1, <2>2
  <2> QED BY <2>1, <2>2, <2>3, <2>4
<1> DEFINE w == u \o <<e>>
<1> HIDE DEF w
<1>9. /\ Len(r) = Len(q) + 1
      /\ \A i \in 1 .. Len(q) + 1 : r[i] = IF i <= p THEN w[i] ELSE v[i - p]
  <2>1. w \in Seq(S) /\ Len(w) = p /\ r = w \o v
    BY <1>3, <1>8 DEF w
  <2>2. /\ Len(w \o v) = Len(w) + Len(v)
        /\ \A i \in 1 .. Len(w) + Len(v) :
             (w \o v)[i] = IF i <= Len(w) THEN w[i] ELSE v[i - Len(w)]
    BY <1>6, <2>1, ConcatProperties
  <2>3. /\ Len(r) = Len(w) + Len(v)
        /\ \A i \in 1 .. Len(w) + Len(v) :
             r[i] = IF i <= Len(w) THEN w[i] ELSE v[i - Len(w)]
    BY <2>1, <2>2, Zenon
  <2>4. Len(w) + Len(v) = Len(q) + 1
    BY <1>1, <1>2, <1>6, <2>1
  <2> QED BY <2>1, <2>3, <2>4
<1>10. /\ Len(r) = Len(q) + 1 /\ r[p] = e
       /\ \A i \in 1 .. p - 1 : r[i] = q[i]
  <2>1. p \in 1 .. Len(q) + 1 /\ p <= p /\ w[p] = e
    BY <1>1, <1>2, <1>8 DEF w
  <2>2. r[p] = w[p]
    BY <1>9, <2>1
  <2>3. \A i \in 1 .. p - 1 : w[i] = q[i]
    BY <1>8 DEF w
  <2>4. \A i \in 1 .. p - 1 : i \in 1 .. Len(q) + 1 /\ i <= p
    BY <1>1, <1>2
  <2>5. \A i \in 1 .. p - 1 : r[i] = w[i]
    BY <1>9, <2>4
  <2> QED BY <1>9, <2>1, <2>2, <2>3, <2>5
<1>11. \A i \in p + 1 .. Len(q) + 1 : r[i] = q[i - 1]
  <2> SUFFICES ASSUME NEW i \in p + 1 .. Len(q) + 1 PROVE r[i] = q[i - 1]
    OBVIOUS
  <2>1. i \in 1 .. Len(q) + 1 /\ ~(i <= p)
    BY <1>1, <1>2
  <2>2. r[i] = v[i - p]
    BY <1>9, <2>1
  <2>3. i - p \in 1 .. Len(q) - p + 1 /\ p + (i - p) - 1 = i - 1
    BY <1>1, <1>2
  <2>4. v[i - p] = q[p + (i - p) - 1]
    BY <1>6, <2>3
  <2> QED BY <2>2, <2>3, <2>4
<1> QED BY <1>2, <1>10, <1>11 DEF r

LEMMA InsertInserts ==
  ASSUME NEW S, NEW q \in Seq(S), NEW e \in S,
         NEW hits \in SUBSET (1 .. Len(q))
  PROVE  Inserted(q, e, InsertBefore(q, e, hits))
BY InsertPlace DEF Inserted

\* A valid link to a station the list does not reach yet.
LEMMA InsertedFlow ==
  ASSUME NEW g, NEW S, NEW q \in Seq(S), NEW e, NEW r, Inserted(q, e, r),
         HasTag(g, e), e.rs \notin Reached(g, q), Once(g, q)
  PROVE  Once(g, r) /\ Reached(g, r) = Reached(g, q) \cup {e.rs}
<1>1. Len(q) \in Nat
  OBVIOUS
<1>2. PICK p \in 1 .. Len(q) + 1 :
        /\ Len(r) = Len(q) + 1 /\ r[p] = e
        /\ \A i \in 1 .. p - 1 : r[i] = q[i]
        /\ \A i \in p + 1 .. Len(q) + 1 : r[i] = q[i - 1]
  BY DEF Inserted
\* Every other place of r holds a place of q.
<1> DEFINE from(i) == IF i < p THEN i ELSE i - 1
<1>3. \A i \in 1 .. Len(r) : i # p => from(i) \in 1 .. Len(q) /\ r[i] = q[from(i)]
  <2> SUFFICES ASSUME NEW i \in 1 .. Len(r), i # p
               PROVE  from(i) \in 1 .. Len(q) /\ r[i] = q[from(i)]
    OBVIOUS
  <2>1. CASE i < p
    BY <1>1, <1>2, <2>1
  <2>2. CASE i > p
    <3>1. i \in p + 1 .. Len(q) + 1 /\ i - 1 \in 1 .. Len(q)
      BY <1>1, <1>2, <2>2
    <3> QED BY <1>2, <2>2, <3>1
  <2> QED BY <1>1, <1>2, <2>1, <2>2
<1>4. \A i, j \in 1 .. Len(r) : i # p /\ j # p /\ from(i) = from(j) => i = j
  BY <1>1, <1>2
<1>5. \A i \in 1 .. Len(q) : \E j \in 1 .. Len(r) : j # p /\ r[j] = q[i]
  <2> SUFFICES ASSUME NEW i \in 1 .. Len(q)
               PROVE  \E j \in 1 .. Len(r) : j # p /\ r[j] = q[i]
    OBVIOUS
  <2>1. CASE i < p
    BY <1>1, <1>2, <2>1
  <2>2. CASE i >= p
    <3> DEFINE j == i + 1
    <3>1. j \in 1 .. Len(r) /\ j # p /\ j \in p + 1 .. Len(q) + 1 /\ j - 1 = i
      BY <1>1, <1>2, <2>2
    <3> HIDE DEF j
    <3>2. r[j] = q[i]
      BY <1>2, <3>1
    <3> QED BY <3>1, <3>2
  <2> QED BY <1>1, <1>2, <2>1, <2>2
<1>6. p \in 1 .. Len(r)
  BY <1>1, <1>2
<1> HIDE DEF from
<1>7. \A i \in ValidAt(g, r) : i # p => from(i) \in ValidAt(g, q) /\ r[i].rs = q[from(i)].rs
  BY <1>3 DEF ValidAt
<1>8. \A i \in ValidAt(g, r) : i # p => r[i].rs # e.rs
  BY <1>7 DEF Reached
<1>9. Once(g, r)
  <2> SUFFICES ASSUME NEW i \in ValidAt(g, r), NEW j \in ValidAt(g, r), r[i].rs = r[j].rs
               PROVE  i = j
    BY DEF Once
  <2>1. CASE i = p \/ j = p
    BY <1>2, <1>8, <2>1
  <2>2. CASE i # p /\ j # p
    <3>1. from(i) = from(j)
      BY <1>7, <2>2 DEF Once
    <3> QED BY <1>4, <2>2, <3>1 DEF ValidAt
  <2> QED BY <2>1, <2>2
<1>10. Reached(g, r) \subseteq Reached(g, q) \cup {e.rs}
  <2> SUFFICES ASSUME NEW i \in ValidAt(g, r) PROVE r[i].rs \in Reached(g, q) \cup {e.rs}
    BY DEF Reached
  <2>1. CASE i = p
    BY <1>2, <2>1
  <2>2. CASE i # p
    BY <1>7, <2>2 DEF Reached
  <2> QED BY <2>1, <2>2
<1>11. Reached(g, q) \cup {e.rs} \subseteq Reached(g, r)
  <2>1. e.rs \in Reached(g, r)
    BY <1>2, <1>6 DEF Reached, ValidAt
  <2>2. ASSUME NEW i \in ValidAt(g, q) PROVE q[i].rs \in Reached(g, r)
    <3>1. PICK j \in 1 .. Len(r) : r[j] = q[i]
      BY <1>5 DEF ValidAt
    <3>2. j \in ValidAt(g, r)
      BY <3>1 DEF ValidAt
    <3> QED BY <3>1, <3>2 DEF Reached
  <2> QED BY <2>1, <2>2 DEF Reached
<1> QED BY <1>9, <1>10, <1>11

\* The first link leaves the list.
LEMMA TailFlow ==
  ASSUME NEW g, NEW S, NEW q \in Seq(S), q # <<>>, Once(g, q)
  PROVE  /\ Once(g, Tail(q))
         /\ Reached(g, Tail(q)) = Reached(g, q) \ (IF HasTag(g, Head(q)) THEN {Head(q).rs} ELSE {})
<1> DEFINE t == Tail(q)
<1>1. /\ Len(q) \in Nat /\ Len(q) > 0 /\ Len(t) = Len(q) - 1 /\ Head(q) = q[1]
      /\ \A i \in 1 .. Len(t) : t[i] = q[i + 1]
  BY HeadTailProperties, EmptySeq
<1> HIDE DEF t
<1>2. \A i \in 1 .. Len(t) : i + 1 \in 1 .. Len(q)
  BY <1>1
<1>3. \A i \in ValidAt(g, t) : i + 1 \in ValidAt(g, q) /\ t[i] = q[i + 1] /\ i \in Nat
  BY <1>1, <1>2 DEF ValidAt
<1>4. Once(g, t)
  <2> SUFFICES ASSUME NEW i \in ValidAt(g, t), NEW j \in ValidAt(g, t), t[i].rs = t[j].rs
               PROVE  i = j
    BY DEF Once
  <2>1. i + 1 = j + 1
    BY <1>3 DEF Once
  <2> QED BY <1>3, <2>1
<1>5. 1 \in ValidAt(g, q) <=> HasTag(g, Head(q))
  BY <1>1 DEF ValidAt
<1>6. ASSUME NEW i \in ValidAt(g, t)
      PROVE  t[i].rs \in Reached(g, q) /\ (HasTag(g, Head(q)) => t[i].rs # Head(q).rs)
  <2>1. i + 1 \in ValidAt(g, q) /\ t[i] = q[i + 1] /\ i + 1 # 1
    BY <1>1, <1>3 DEF ValidAt
  <2>2. t[i].rs \in Reached(g, q)
    BY <2>1 DEF Reached
  <2>3. HasTag(g, Head(q)) => t[i].rs # Head(q).rs
    BY <1>1, <1>5, <2>1 DEF Once
  <2> QED BY <2>2, <2>3
<1>7. ASSUME NEW i \in ValidAt(g, q), i # 1
      PROVE  q[i].rs \in Reached(g, t)
  <2> DEFINE j == i - 1
  <2>1. j \in 1 .. Len(t) /\ j + 1 = i
    BY <1>1, <1>7 DEF ValidAt
  <2> HIDE DEF j
  <2>2. t[j] = q[i]
    BY <1>1, <2>1
  <2>3. j \in ValidAt(g, t)
    BY <2>1, <2>2 DEF ValidAt
  <2> QED BY <2>2, <2>3 DEF Reached
<1>8. Reached(g, t) = Reached(g, q) \ (IF HasTag(g, Head(q)) THEN {Head(q).rs} ELSE {})
  <2>1. CASE HasTag(g, Head(q))
    <3>1. \A i \in ValidAt(g, q) : q[i].rs # Head(q).rs => q[i].rs \in Reached(g, t)
      BY <1>1, <1>7
    <3> QED BY <1>6, <2>1, <3>1 DEF Reached
  <2>2. CASE ~HasTag(g, Head(q))
    <3>1. \A i \in ValidAt(g, q) : q[i].rs \in Reached(g, t)
      BY <1>5, <1>7, <2>2
    <3> QED BY <1>6, <2>2, <3>1 DEF Reached
  <2> QED BY <2>1, <2>2
<1> QED BY <1>4, <1>8 DEF t

\* A cycle passes.
LEMMA TickFlow ==
  ASSUME NEW g, NEW q \in Seq(Good(Event)), Once(g, q)
  PROVE  Once(g, Tick(q)) /\ Reached(g, Tick(q)) = Reached(g, q)
<1> DEFINE t == Tick(q)
<1>1. Len(q) \in Nat
  OBVIOUS
<1>2. Len(t) = Len(q) /\ \A i \in 1 .. Len(q) : t[i] = [q[i] EXCEPT !.when = @ - 1]
  <2>1. t \in Seq(Good(Event)) /\ DOMAIN t = 1 .. Len(q)
    BY TickEvents DEF Tick
  <2> QED BY <1>1, <2>1, LenProperties DEF Tick
<1> HIDE DEF t
<1>3. \A i \in 1 .. Len(q) : t[i].rs = q[i].rs /\ t[i].tag = q[i].tag
  <2> SUFFICES ASSUME NEW i \in 1 .. Len(q)
               PROVE  t[i].rs = q[i].rs /\ t[i].tag = q[i].tag
    OBVIOUS
  <2> DEFINE e == q[i]
  <2>1. e \in Event
    BY ElementOfSeq DEF Good
  <2>2. t[i] = [e EXCEPT !.when = @ - 1]
    BY <1>2
  <2> HIDE DEF e
  <2>3. t[i].rs = e.rs /\ t[i].tag = e.tag
    BY <2>1, <2>2 DEF Event
  <2> QED BY <2>3 DEF e
<1>4. ValidAt(g, t) = ValidAt(g, q)
  BY <1>2, <1>3 DEF ValidAt, HasTag
<1>5. \A i \in ValidAt(g, q) : t[i].rs = q[i].rs
  BY <1>3 DEF ValidAt
<1>6. Once(g, t)
  BY <1>4, <1>5 DEF Once
<1>7. Reached(g, t) = Reached(g, q)
  BY <1>4, <1>5 DEF Reached
<1> QED BY <1>6, <1>7 DEF t

\* The stations in gone get new instance tags: links to them die, no other
\* link does, and none comes back to life.
Bump(g, gone) == [s \in Station |-> IF s \in gone THEN g[s] + 1 ELSE g[s]]
OldLink(g, l) == l.rs \in Station /\ l.tag \in Nat /\ l.tag <= g[l.rs]

LEMMA BumpFlow ==
  ASSUME NEW g \in [Station -> Nat], NEW gone, NEW q,
         \A i \in 1 .. Len(q) : OldLink(g, q[i])
  PROVE  /\ ValidAt(Bump(g, gone), q) \subseteq ValidAt(g, q)
         /\ Reached(Bump(g, gone), q) = Reached(g, q) \ gone
         /\ Once(g, q) => Once(Bump(g, gone), q)
<1>1. ASSUME NEW i \in 1 .. Len(q)
      PROVE  HasTag(Bump(g, gone), q[i]) <=> HasTag(g, q[i]) /\ q[i].rs \notin gone
  <2>1. /\ q[i].tag \in Nat /\ g[q[i].rs] \in Nat /\ q[i].tag <= g[q[i].rs]
        /\ Bump(g, gone)[q[i].rs] = IF q[i].rs \in gone THEN g[q[i].rs] + 1
                                    ELSE g[q[i].rs]
    BY DEF OldLink, Bump
  <2> QED BY <2>1 DEF HasTag
<1>2. ValidAt(Bump(g, gone), q) = {i \in ValidAt(g, q) : q[i].rs \notin gone}
  BY <1>1 DEF ValidAt
<1> HIDE DEF Bump
<1>3. Reached(Bump(g, gone), q) = Reached(g, q) \ gone
  BY <1>2 DEF Reached
<1>4. Once(g, q) => Once(Bump(g, gone), q)
  BY <1>2 DEF Once
<1> QED BY <1>2, <1>3, <1>4

-----------------------------------------------------------------------------
(* The queues of the core.                                                 *)

LEMMA EnqueueFlow ==
  ASSUME NEW S, NEW q \in Seq(S), NEW s, NEW op, NEW seq,
         [rs |-> s, tag |-> tag[s], seq |-> seq] \in S,
         Once(tag, q), s \notin Reached(tag, q)
  PROVE  /\ Once(tag, readyq_enqueue(q, s, op, seq))
         /\ Reached(tag, readyq_enqueue(q, s, op, seq)) = Reached(tag, q) \cup {s}
<1> DEFINE e == [rs |-> s, tag |-> tag[s], seq |-> seq]
           hits == {i \in 1 .. Len(q) : ~(q[i].seq < seq)}
           r == readyq_enqueue(q, s, op, seq)
<1>1. r \in {<<e>> \o q, InsertBefore(q, e, hits)}
  BY DEF readyq_enqueue
<1>2. e \in S /\ e.rs = s /\ HasTag(tag, e)
  BY DEF HasTag
<1>3. hits \in SUBSET (1 .. Len(q))
  OBVIOUS
<1> HIDE DEF e, hits, r
<1>4. Inserted(q, e, r)
  BY <1>1, <1>2, <1>3, ConsInserts, InsertInserts
<1>5. Once(tag, r) /\ Reached(tag, r) = Reached(tag, q) \cup {e.rs}
  BY <1>2, <1>4, InsertedFlow
<1> QED BY <1>2, <1>5 DEF r

LEMMA ScheduleInserts ==
  ASSUME NEW S, NEW q \in Seq(S), NEW s, NEW lat,
         [rs |-> s, tag |-> tag[s], when |-> lat] \in S
  PROVE  Inserted(q, [rs |-> s, tag |-> tag[s], when |-> lat],
                  eventq_queue_event(q, s, lat))
<1> DEFINE hits == {i \in 1 .. Len(q) : ~(q[i].when < lat)}
<1>1. hits \in SUBSET (1 .. Len(q))
  OBVIOUS
<1>2. eventq_queue_event(q, s, lat)
        = InsertBefore(q, [rs |-> s, tag |-> tag[s], when |-> lat], hits)
  BY DEF eventq_queue_event
<1> HIDE DEF hits
<1> QED BY <1>1, <1>2, InsertInserts

LEMMA ScheduleFlow ==
  ASSUME NEW S, NEW q \in Seq(S), NEW s, NEW lat,
         [rs |-> s, tag |-> tag[s], when |-> lat] \in S,
         Once(tag, q), s \notin Reached(tag, q)
  PROVE  /\ Once(tag, eventq_queue_event(q, s, lat))
         /\ Reached(tag, eventq_queue_event(q, s, lat)) = Reached(tag, q) \cup {s}
<1> DEFINE e == [rs |-> s, tag |-> tag[s], when |-> lat]
           r == eventq_queue_event(q, s, lat)
<1>1. Inserted(q, e, r)
  BY ScheduleInserts
<1>2. e.rs = s /\ HasTag(tag, e)
  BY DEF HasTag
<1> HIDE DEF e, r
<1>3. Once(tag, r) /\ Reached(tag, r) = Reached(tag, q) \cup {e.rs}
  BY <1>1, <1>2, InsertedFlow
<1> QED BY <1>2, <1>3 DEF r

\* The links of the queues are old, and what they reach is in the window.
LEMMA GoodOld ==
  ASSUME NEW T \in {Event, ReadyNode, OdepLink}, NEW q \in Seq(Good(T))
  PROVE  /\ \A i \in 1 .. Len(q) : OldLink(tag, q[i])
         /\ \A i \in ValidAt(tag, q) : q[i].rs \in Live
         /\ Reached(tag, q) \subseteq Live
<1>1. ASSUME NEW i \in 1 .. Len(q)
      PROVE  OldLink(tag, q[i]) /\ (HasTag(tag, q[i]) => q[i].rs \in Live)
  <2> DEFINE e == q[i]
  <2>1. e \in Good(T)
    BY ElementOfSeq
  <2> HIDE DEF e
  <2>2. e \in T /\ GoodLink(e)
    BY <2>1 DEF Good
  <2>3. e.rs \in Station /\ e.tag \in Nat
    <3>1. CASE T = Event
      BY <2>2, <3>1 DEF Event
    <3>2. CASE T = ReadyNode
      BY <2>2, <3>2 DEF ReadyNode
    <3>3. CASE T = OdepLink
      BY <2>2, <3>3 DEF OdepLink
    <3> QED BY <3>1, <3>2, <3>3
  <2>4. OldLink(tag, e) /\ (HasTag(tag, e) => e.rs \in Live)
    BY <2>2, <2>3 DEF OldLink, HasTag, GoodLink
  <2> QED BY <2>4 DEF e
<1> QED BY <1>1 DEF ValidAt, Reached

LEMMA QueuesOld ==
  ASSUME LinksInv
  PROVE  /\ \A i \in 1 .. Len(event_queue) : OldLink(tag, event_queue[i])
         /\ \A i \in 1 .. Len(ready_queue) : OldLink(tag, ready_queue[i])
         /\ \A i \in 1 .. Len(node) : OldLink(tag, node[i])
         /\ \A p \in Station : \A i \in 1 .. Len(odep_list[p]) :
              OldLink(tag, odep_list[p][i])
         /\ \A p \in Station : \A i \in ValidAt(tag, odep_list[p]) :
              odep_list[p][i].rs \in Live
         /\ Reached(tag, event_queue) \subseteq Live
         /\ Reached(tag, ready_queue) \subseteq Live
         /\ Reached(tag, node) \subseteq Live
<1>1. /\ event_queue \in Seq(Good(Event)) /\ ready_queue \in Seq(Good(ReadyNode))
      /\ node \in Seq(Good(ReadyNode))
      /\ \A p \in Station : odep_list[p] \in Seq(Good(OdepLink))
  BY DEF LinksInv
<1> QED BY <1>1, GoodOld

-----------------------------------------------------------------------------
(* The invariant.                                                          *)

\* The live stations on the ready list, attached or detached, are the queued
\* ones, and each is there once.
ReadyInv ==
  /\ Once(tag, ready_queue) /\ Once(tag, node)
  /\ Reached(tag, ready_queue) \cap Reached(tag, node) = {}
  /\ Reached(tag, ready_queue) \cup Reached(tag, node) = queued \cap Live

\* Outside ruu_issue nothing is detached.
NodeInv == stage # "issue" => node = <<>>

\* The live stations with a completion event, each with one, are those that
\* are being executed.
EventInv ==
  /\ Once(tag, event_queue)
  /\ Reached(tag, event_queue) = (issued \ completed) \cap Live

\* queued, issued and completed go with the operands.
Started(s) == s \in queued \cup issued \cup completed
StatusInv ==
  \A s \in Live :
    /\ s \in queued => s \notin issued \cup completed
    /\ Started(s) => OperandsReady(s)
    /\ ~Started(s) => ~OperandsReady(s) \/ (InLSQ(s) /\ ent[s].op = "load")

\* What the stations of the window hold.
KindInv ==
  \A s \in Live :
    /\ InLSQ(s) => IsMem(ent[s].op)
    /\ ent[s].op = "store" => ent[s].out = NA
    /\ ent[s].recover_inst => ~ent[s].ea_comp

\* The live links on the consumer lists are for operands that are not ready,
\* and each operand has one at most.
WakeInv ==
  /\ \A p \in Station : \A i \in ValidAt(tag, odep_list[p]) :
       odep_list[p][i].opnum \notin idep_ready[odep_list[p][i].rs]
  /\ \A p, q \in Station :
       \A i \in ValidAt(tag, odep_list[p]), j \in ValidAt(tag, odep_list[q]) :
         /\ odep_list[p][i].rs = odep_list[q][j].rs
         /\ odep_list[p][i].opnum = odep_list[q][j].opnum
         => p = q /\ i = j

FlowInv == /\ ReadyInv /\ NodeInv /\ EventInv /\ StatusInv /\ KindInv /\ WakeInv

LEMMA InitFlow == Init => FlowInv
<1> SUFFICES ASSUME Init PROVE FlowInv
  OBVIOUS
<1> USE DEF Init
<1>1. Live = {}
  BY DEF Live, LiveRUU, LiveLSQ
<1>2. ValidAt(tag, <<>>) = {} /\ Reached(tag, <<>>) = {} /\ Once(tag, <<>>)
  BY DEF ValidAt, Reached, Once
<1>3. ReadyInv /\ NodeInv /\ EventInv
  BY <1>1, <1>2 DEF ReadyInv, NodeInv, EventInv
<1>4. StatusInv /\ KindInv
  BY <1>1 DEF StatusInv, KindInv
<1>5. WakeInv
  <2>1. \A p \in Station : ValidAt(tag, odep_list[p]) = {}
    BY <1>2
  <2> QED BY <2>1 DEF WakeInv
<1> QED BY <1>3, <1>4, <1>5 DEF FlowInv

-----------------------------------------------------------------------------
(* What a step leaves alone.                                               *)

LEMMA ReadyFrame ==
  ASSUME ReadyInv, UNCHANGED <<ready_queue, node, queued, tag>>, Live' = Live
  PROVE  ReadyInv'
BY DEF ReadyInv, Reached, Once, ValidAt, HasTag

LEMMA EventFrame ==
  ASSUME EventInv, LinksInv, event_queue' \in {event_queue, Tick(event_queue)},
         UNCHANGED <<issued, completed, tag>>, Live' = Live
  PROVE  EventInv'
<1>1. event_queue \in Seq(Good(Event)) /\ Once(tag, event_queue)
  BY DEF LinksInv, EventInv
<1>2. Once(tag, Tick(event_queue))
      /\ Reached(tag, Tick(event_queue)) = Reached(tag, event_queue)
  BY <1>1, TickFlow
<1>3. Once(tag, event_queue') /\ Reached(tag, event_queue') = Reached(tag, event_queue)
  BY <1>1, <1>2
<1>4. Once(tag', event_queue') /\ Reached(tag', event_queue') = Reached(tag, event_queue)
  BY <1>3
<1> QED BY <1>4 DEF EventInv

LEMMA StatusFrame ==
  ASSUME StatusInv, UNCHANGED <<queued, issued, completed, idep_ready, ent>>,
         Live' \subseteq Live
  PROVE  StatusInv'
BY DEF StatusInv, Started, OperandsReady

LEMMA KindFrame ==
  ASSUME KindInv, ent' = ent, Live' \subseteq Live
  PROVE  KindInv'
BY DEF KindInv

LEMMA WakeFrame ==
  ASSUME WakeInv, UNCHANGED <<odep_list, idep_ready, tag>>
  PROVE  WakeInv'
BY DEF WakeInv, ValidAt, HasTag

\* Steps that only move from stage to stage or let time pass.
Quiet == /\ Still
         /\ UNCHANGED <<node, queued, issued, completed, idep_ready, odep_list,
                        ready_queue>>
         /\ event_queue' \in {event_queue, Tick(event_queue)}
         /\ stage = "issue" => stage' = "issue" \/ node = <<>>

LEMMA QuietFlow ==
  ASSUME CoreInv, FlowInv, Quiet
  PROVE  FlowInv'
<1>1. Live' = Live /\ tag' = tag /\ ent' = ent
  BY StillWindow DEF Quiet, Still, CoreInv
<1>2. ReadyInv'
  BY <1>1, ReadyFrame DEF FlowInv, Quiet
<1>3. NodeInv'
  BY DEF FlowInv, NodeInv, Quiet
<1>4. EventInv'
  BY <1>1, EventFrame DEF FlowInv, Quiet, CoreInv
<1>5. StatusInv'
  BY <1>1, StatusFrame DEF FlowInv, Quiet
<1>6. KindInv'
  BY <1>1, KindFrame DEF FlowInv
<1>7. WakeInv'
  BY <1>1, WakeFrame DEF FlowInv, Quiet
<1> QED BY <1>2, <1>3, <1>4, <1>5, <1>6, <1>7 DEF FlowInv

LEMMA QuietSteps ==
  ASSUME CoreInv, FlowInv,
         CommitEnd \/ WritebackEnd \/ BroadcastEnd \/ RecoverEnd
           \/ IssueEnd \/ DispatchEnd \/ UNCHANGED vars
  PROVE  Quiet
<1>1. CASE CommitEnd
  BY <1>1 DEF CommitEnd, Quiet, Still, statusVars, countVars
<1>2. CASE WritebackEnd
  BY <1>2 DEF WritebackEnd, Quiet, Still, statusVars, countVars
<1>3. CASE BroadcastEnd
  BY <1>3 DEF BroadcastEnd, Quiet, Still, statusVars, countVars
<1>4. CASE RecoverEnd
  BY <1>4 DEF RecoverEnd, Quiet, Still, statusVars, countVars
<1>5. CASE IssueEnd
  BY <1>5 DEF IssueEnd, Quiet, Still, statusVars, countVars
<1>6. CASE DispatchEnd
  BY <1>6 DEF DispatchEnd, Quiet, Still, statusVars, countVars
<1>7. CASE UNCHANGED vars
  BY <1>7 DEF vars, Quiet, Still, statusVars, countVars
<1> QED BY <1>1, <1>2, <1>3, <1>4, <1>5, <1>6, <1>7

-----------------------------------------------------------------------------
(* Entries leave the window.                                               *)

LEMMA LeaveFlow ==
  ASSUME CoreInv, FlowInv, NEW gone, tag' = Bump(tag, gone), Live' = Live \ gone,
         UNCHANGED <<stage, ready_queue, node, event_queue, queued, issued,
                     completed, idep_ready, ent>>,
         \A s \in Station : odep_list'[s] \in {<<>>, odep_list[s]}
  PROVE  FlowInv'
<1> USE DEF FlowInv
<1>1. tag \in [Station -> Nat] /\ LinksInv
  BY DEF CoreInv, FixInv, EntType
<1>2. ReadyInv'
  <2>1. /\ Reached(tag', ready_queue) = Reached(tag, ready_queue) \ gone
        /\ Reached(tag', node) = Reached(tag, node) \ gone
        /\ Once(tag', ready_queue) /\ Once(tag', node)
    BY <1>1, QueuesOld, BumpFlow DEF ReadyInv
  <2> QED BY <2>1 DEF ReadyInv
<1>3. EventInv'
  <2>1. /\ Reached(tag', event_queue) = Reached(tag, event_queue) \ gone
        /\ Once(tag', event_queue)
    BY <1>1, QueuesOld, BumpFlow DEF EventInv
  <2> QED BY <2>1 DEF EventInv
<1>4. WakeInv'
  <2>1. ASSUME NEW p \in Station, NEW i \in ValidAt(tag', odep_list'[p])
        PROVE  i \in ValidAt(tag, odep_list[p]) /\ odep_list'[p] = odep_list[p]
    <3>1. odep_list'[p] = odep_list[p]
      BY <2>1 DEF ValidAt
    <3>2. ValidAt(tag', odep_list[p]) \subseteq ValidAt(tag, odep_list[p])
      BY <1>1, QueuesOld, BumpFlow
    <3> QED BY <2>1, <3>1, <3>2
  <2>2. ASSUME NEW p \in Station, NEW i \in ValidAt(tag', odep_list'[p])
        PROVE  odep_list'[p][i].opnum \notin idep_ready'[odep_list'[p][i].rs]
    BY <2>1 DEF WakeInv
  <2>3. ASSUME NEW p \in Station, NEW q \in Station,
               NEW i \in ValidAt(tag', odep_list'[p]),
               NEW j \in ValidAt(tag', odep_list'[q]),
               odep_list'[p][i].rs = odep_list'[q][j].rs,
               odep_list'[p][i].opnum = odep_list'[q][j].opnum
        PROVE  p = q /\ i = j
    <3>1. /\ i \in ValidAt(tag, odep_list[p]) /\ odep_list'[p] = odep_list[p]
          /\ j \in ValidAt(tag, odep_list[q]) /\ odep_list'[q] = odep_list[q]
      BY <2>1
    <3> QED BY <2>3, <3>1 DEF WakeInv
  <2> QED BY <2>2, <2>3 DEF WakeInv
<1>5. NodeInv' /\ StatusInv' /\ KindInv'
  BY StatusFrame, KindFrame DEF NodeInv
<1> QED BY <1>2, <1>3, <1>4, <1>5

LEMMA CommitFlow ==
  ASSUME CoreInv, FlowInv, Commit
  PROVE  FlowInv'
<1>1. Live' = Live \ Retired /\ tag' = Bump(tag, Retired)
  BY CommitWindow DEF Bump
<1>2. UNCHANGED <<stage, ready_queue, node, event_queue, queued, issued,
                  completed, idep_ready, ent, odep_list>>
  BY DEF Commit, statusVars
<1> QED BY <1>1, <1>2, LeaveFlow

LEMMA SquashFlow ==
  ASSUME CoreInv, FlowInv, Squash
  PROVE  FlowInv'
<1>1. /\ Live' = Live \ Squashed /\ tag' = Bump(tag, Squashed)
      /\ \A s \in Station : odep_list'[s] \in {<<>>, odep_list[s]}
  BY SquashWindow DEF Bump
<1>2. UNCHANGED <<stage, ready_queue, node, event_queue, queued, issued,
                  completed, idep_ready, ent>>
  BY DEF Squash, statusVars
<1> QED BY <1>1, <1>2, LeaveFlow

-----------------------------------------------------------------------------
(* Writeback.                                                              *)

\* The first event: what it is, and what is left when it is gone.
LEMMA FirstEvent ==
  ASSUME CoreInv, FlowInv, event_queue # <<>>
  PROVE  /\ Once(tag, Tail(event_queue))
         /\ Reached(tag, Tail(event_queue))
              = Reached(tag, event_queue)
                  \ (IF Valid(Head(event_queue)) THEN {Head(event_queue).rs} ELSE {})
         /\ Valid(Head(event_queue)) =>
              /\ Head(event_queue).rs \in Live
              /\ Head(event_queue).rs \in issued \ completed
              /\ Head(event_queue).rs \notin queued
              /\ OperandsReady(Head(event_queue).rs)
<1>1. event_queue \in Seq(Good(Event)) /\ Once(tag, event_queue)
  BY DEF CoreInv, LinksInv, FlowInv, EventInv
<1>2. HasTag(tag, Head(event_queue)) <=> Valid(Head(event_queue))
  BY DEF HasTag, Valid
<1>3. Valid(Head(event_queue)) => Head(event_queue).rs \in Reached(tag, event_queue)
  <2>1. 1 \in 1 .. Len(event_queue) /\ Head(event_queue) = event_queue[1]
    BY <1>1, HeadTailProperties, EmptySeq
  <2> QED BY <1>2, <2>1 DEF Reached, ValidAt
<1>4. Valid(Head(event_queue)) =>
        /\ Head(event_queue).rs \in Live
        /\ Head(event_queue).rs \in issued \ completed
  BY <1>3 DEF FlowInv, EventInv
<1>5. Valid(Head(event_queue)) =>
        /\ Head(event_queue).rs \notin queued
        /\ OperandsReady(Head(event_queue).rs)
  BY <1>4 DEF FlowInv, StatusInv, Started
<1> QED BY <1>1, <1>2, <1>4, <1>5, TailFlow

LEMMA SkipEventFlow ==
  ASSUME CoreInv, FlowInv, SkipEvent
  PROVE  FlowInv'
<1>1. /\ event_queue' = Tail(event_queue) /\ event_queue # <<>>
      /\ ~Valid(Head(event_queue))
      /\ UNCHANGED <<stage, ready_queue, node, queued, issued, completed,
                     idep_ready, odep_list, ent, tag>>
  BY DEF SkipEvent, PopEvent, Due, statusVars
<1>2. Live' = Live
  <2>1. Still
    BY DEF SkipEvent, Still, countVars
  <2> QED BY <2>1, StillWindow DEF CoreInv
<1>3. /\ Once(tag, Tail(event_queue))
      /\ Reached(tag, Tail(event_queue)) = Reached(tag, event_queue)
  BY <1>1, FirstEvent
<1>4. EventInv'
  BY <1>1, <1>2, <1>3 DEF FlowInv, EventInv
<1> QED BY <1>1, <1>2, <1>4, ReadyFrame, StatusFrame, KindFrame, WakeFrame
        DEF FlowInv, NodeInv

\* Both ways to complete an operation.
LEMMA CompletesFlow ==
  ASSUME CoreInv, FlowInv, Complete \/ CompleteMispredicted
  PROVE  FlowInv'
<1> DEFINE s == Head(event_queue).rs
<1>1. /\ event_queue' = Tail(event_queue) /\ event_queue # <<>>
      /\ Valid(Head(event_queue)) /\ completed' = completed \cup {s}
      /\ UNCHANGED <<ready_queue, node, queued, issued, idep_ready, odep_list,
                     ent, tag>>
      /\ stage # "issue" /\ stage' # "issue"
  BY DEF Complete, CompleteMispredicted, PopEvent, Due
<1>2. Live' = Live
  <2>1. Still
    BY DEF Complete, CompleteMispredicted, Still, countVars
  <2> QED BY <2>1, StillWindow DEF CoreInv
<1>3. /\ Once(tag, Tail(event_queue))
      /\ Reached(tag, Tail(event_queue)) = Reached(tag, event_queue) \ {s}
      /\ s \in Live /\ s \in issued /\ s \notin completed
      /\ s \notin queued /\ OperandsReady(s)
  BY <1>1, FirstEvent
<1> HIDE DEF s
<1>4. EventInv'
  BY <1>1, <1>2, <1>3 DEF FlowInv, EventInv
<1>5. StatusInv'
  BY <1>1, <1>2, <1>3 DEF FlowInv, StatusInv, Started, OperandsReady
<1> QED BY <1>1, <1>2, <1>4, <1>5, ReadyFrame, KindFrame, WakeFrame
        DEF FlowInv, NodeInv

\* The list that is being broadcast loses its first link.
LEMMA BroadcastLists ==
  ASSUME CoreInv, Broadcast,
         NEW p \in Station, NEW i \in ValidAt(tag, odep_list'[p])
  PROVE  \E k \in ValidAt(tag, odep_list[p]) :
           /\ odep_list'[p][i] = odep_list[p][k]
           /\ k = IF p = wb THEN i + 1 ELSE i
           /\ ~(p = wb /\ k = 1)
<1>1. /\ wb \in Station /\ odep_list[wb] \in Seq(Good(OdepLink))
      /\ odep_list[wb] # <<>>
      /\ odep_list' = [odep_list EXCEPT ![wb] = Tail(@)]
      /\ odep_list \in [Station -> Seq(Good(OdepLink))]
  BY DEF Broadcast, CoreInv, WbInv, LinksInv
<1>2. CASE p # wb
  BY <1>1, <1>2
<1>3. CASE p = wb
  <2>1. odep_list'[p] = Tail(odep_list[wb])
    BY <1>1, <1>3
  <2>2. /\ Len(odep_list[wb]) \in Nat
        /\ Len(Tail(odep_list[wb])) = Len(odep_list[wb]) - 1
        /\ \A j \in 1 .. Len(Tail(odep_list[wb])) :
             Tail(odep_list[wb])[j] = odep_list[wb][j + 1]
    BY <1>1, HeadTailProperties
  <2>3. i \in 1 .. Len(Tail(odep_list[wb])) /\ i + 1 \in 1 .. Len(odep_list[wb])
    BY <2>1, <2>2 DEF ValidAt
  <2>4. odep_list'[p][i] = odep_list[p][i + 1]
    BY <1>3, <2>1, <2>2, <2>3
  <2>5. i + 1 \in ValidAt(tag, odep_list[p]) /\ i + 1 # 1
    BY <1>3, <2>3, <2>4 DEF ValidAt
  <2> QED BY <1>3, <2>4, <2>5
<1> QED BY <1>2, <1>3

LEMMA BroadcastFlow ==
  ASSUME CoreInv, FlowInv, Broadcast
  PROVE  FlowInv'
<1> DEFINE l == Head(odep_list[wb])
           c == l.rs
           wakes == /\ Valid(l)
                    /\ idep_ready[c] \cup {l.opnum} = Operand
                    /\ InLSQ(c) => IsStore(ent[c].op)
<1>1. /\ idep_ready' = IF Valid(l)
                       THEN [idep_ready EXCEPT ![c] = @ \cup {l.opnum}]
                       ELSE idep_ready
      /\ ready_queue' = IF wakes
                        THEN readyq_enqueue(ready_queue, c, ent[c].op, ent[c].seq)
                        ELSE ready_queue
      /\ queued' = IF wakes THEN queued \cup {c} ELSE queued
      /\ UNCHANGED <<stage, node, issued, completed, event_queue, ent, tag>>
  BY DEF Broadcast
<1>2. /\ wb \in Station /\ odep_list[wb] \in Seq(Good(OdepLink)) /\ odep_list[wb] # <<>>
      /\ idep_ready \in [Station -> SUBSET Operand]
  BY DEF Broadcast, CoreInv, WbInv, LinksInv, StatType
<1>3. 1 \in 1 .. Len(odep_list[wb]) /\ l = odep_list[wb][1] /\ l \in Good(OdepLink)
  BY <1>2, HeadTailProperties, EmptySeq, ElementOfSeq
<1>4. Valid(l) <=> 1 \in ValidAt(tag, odep_list[wb])
  BY <1>3 DEF ValidAt, HasTag, Valid
<1>5. c \in Station /\ l.opnum \in Operand
  BY <1>3 DEF Good, OdepLink
<1>6. Valid(l) => c \in Live /\ l.opnum \notin idep_ready[c]
  BY <1>2, <1>3, <1>4, QueuesOld DEF CoreInv, FlowInv, WakeInv
<1>7. Live' = Live
  <2>1. Still
    BY DEF Broadcast, Still, countVars
  <2> QED BY <2>1, StillWindow DEF CoreInv
<1>8. Valid(l) => ~Started(c) /\ ~OperandsReady(c)
  <2>1. Valid(l) => ~OperandsReady(c)
    BY <1>5, <1>6 DEF OperandsReady
  <2> QED BY <1>6, <2>1 DEF FlowInv, StatusInv
<1>9. wakes => Valid(l)
  OBVIOUS
<1> HIDE DEF wakes, c, l
<1>10. \A s \in Station :
         idep_ready'[s] = IF Valid(l) /\ s = c THEN idep_ready[s] \cup {l.opnum}
                          ELSE idep_ready[s]
  BY <1>1, <1>2, <1>5
<1>11. ReadyInv'
  <2>1. CASE wakes
    <3>1. ready_queue \in Seq(Good(ReadyNode)) /\ ent[c].seq \in Nat
      BY <1>5, EntryFields DEF CoreInv, LinksInv, FixInv
    <3>2. c \notin Reached(tag, ready_queue) /\ c \notin Reached(tag, node) /\ c \in Live
      BY <1>6, <1>8, <1>9, <2>1 DEF FlowInv, ReadyInv, Started
    <3>3. [rs |-> c, tag |-> tag[c], seq |-> ent[c].seq] \in Good(ReadyNode)
      BY <3>1, <3>2, NewReady DEF CoreInv
    <3>4. Once(tag, ready_queue)
      BY DEF FlowInv, ReadyInv
    <3>5. Once(tag, ready_queue') /\ Reached(tag, ready_queue') = Reached(tag, ready_queue) \cup {c}
      BY <1>1, <2>1, <3>1, <3>2, <3>3, <3>4, EnqueueFlow
    <3> QED BY <1>1, <1>7, <2>1, <3>2, <3>5 DEF FlowInv, ReadyInv
  <2>2. CASE ~wakes
    BY <1>1, <1>7, <2>2, ReadyFrame DEF FlowInv
  <2> QED BY <2>1, <2>2
<1>12. EventInv' /\ NodeInv' /\ KindInv'
  BY <1>1, <1>7, EventFrame, KindFrame DEF FlowInv, CoreInv, NodeInv
<1>13. StatusInv'
  <2> SUFFICES ASSUME NEW s \in Live
               PROVE  /\ s \in queued' => s \notin issued \cup completed
                      /\ s \in queued' \cup issued \cup completed => idep_ready'[s] = Operand
                      /\ s \notin queued' \cup issued \cup completed =>
                           idep_ready'[s] # Operand \/ (InLSQ(s) /\ ent[s].op = "load")
    BY <1>1, <1>7 DEF StatusInv, Started, OperandsReady
  <2>0. s \in Station /\ idep_ready[s] \subseteq Operand
    BY <1>2, LiveStations DEF CoreInv
  <2>1. CASE s # c \/ ~Valid(l)
    <3>1. idep_ready'[s] = idep_ready[s] /\ (s \in queued' <=> s \in queued)
      BY <1>1, <1>9, <1>10, <2>0, <2>1
    <3> QED BY <3>1 DEF FlowInv, StatusInv, Started, OperandsReady
  <2>2. CASE s = c /\ Valid(l)
    <3>1. idep_ready'[s] = idep_ready[s] \cup {l.opnum} /\ ~Started(s)
      BY <1>8, <1>10, <2>0, <2>2
    <3>2. CASE wakes
      BY <1>1, <2>2, <3>1, <3>2 DEF Started, wakes
    <3>3. CASE ~wakes
      <4>1. s \notin queued' \cup issued \cup completed
        BY <1>1, <3>1, <3>3 DEF Started
      <4>2. idep_ready'[s] = Operand => InLSQ(s) /\ ent[s].op = "load"
        BY <2>2, <3>1, <3>3 DEF wakes, FlowInv, KindInv, IsMem, IsStore
      <4> QED BY <4>1, <4>2
    <3> QED BY <3>2, <3>3
  <2> QED BY <2>1, <2>2
<1>14. WakeInv'
  <2>1. ASSUME NEW p \in Station, NEW i \in ValidAt(tag, odep_list'[p])
        PROVE  odep_list'[p][i].opnum \notin idep_ready'[odep_list'[p][i].rs]
    <3>1. PICK k \in ValidAt(tag, odep_list[p]) :
            odep_list'[p][i] = odep_list[p][k] /\ ~(p = wb /\ k = 1)
      BY <2>1, BroadcastLists
    <3>2. odep_list[p][k].opnum \notin idep_ready[odep_list[p][k].rs]
          /\ odep_list[p][k].rs \in Station
      BY QueuesOld DEF FlowInv, WakeInv, CoreInv, ValidAt, OldLink
    <3>3. Valid(l) /\ odep_list[p][k].rs = c => odep_list[p][k].opnum # l.opnum
      BY <1>2, <1>3, <1>4, <3>1 DEF FlowInv, WakeInv, c
    <3> QED BY <1>10, <3>1, <3>2, <3>3
  <2>2. ASSUME NEW p \in Station, NEW q \in Station,
               NEW i \in ValidAt(tag, odep_list'[p]), NEW j \in ValidAt(tag, odep_list'[q]),
               odep_list'[p][i].rs = odep_list'[q][j].rs,
               odep_list'[p][i].opnum = odep_list'[q][j].opnum
        PROVE  p = q /\ i = j
    <3>1. PICK k \in ValidAt(tag, odep_list[p]) :
            odep_list'[p][i] = odep_list[p][k] /\ k = IF p = wb THEN i + 1 ELSE i
      BY <2>2, BroadcastLists
    <3>2. PICK m \in ValidAt(tag, odep_list[q]) :
            odep_list'[q][j] = odep_list[q][m] /\ m = IF q = wb THEN j + 1 ELSE j
      BY <2>2, BroadcastLists
    <3>3. p = q /\ k = m
      BY <2>2, <3>1, <3>2 DEF FlowInv, WakeInv
    <3>4. i \in Int /\ j \in Int
      BY DEF ValidAt
    <3> QED BY <3>1, <3>2, <3>3, <3>4
  <2> QED BY <1>1, <2>1, <2>2 DEF WakeInv
<1> QED BY <1>11, <1>12, <1>13, <1>14 DEF FlowInv

-----------------------------------------------------------------------------
(* Refresh and issue.                                                      *)

LEMMA RefreshFlow ==
  ASSUME CoreInv, FlowInv, Refresh
  PROVE  FlowInv'
<1> DEFINE s == Scanned
           ready == /\ ent[s].op = "load"
                    /\ s \notin queued \cup issued \cup completed
                    /\ OperandsReady(s)
                    /\ ent[s].addr \notin std_unknowns
<1>1. /\ ready_queue' = IF ready
                        THEN readyq_enqueue(ready_queue, s, "load", ent[s].seq)
                        ELSE ready_queue
      /\ queued' = IF ready THEN queued \cup {s} ELSE queued
      /\ UNCHANGED <<stage, node, issued, completed, event_queue, ent, tag,
                     idep_ready, odep_list>>
  BY DEF Refresh
<1>2. s \in Live
  <2>1. count \in 0 .. LSQ_num - 1
    BY DEF Refresh, CoreInv, CtlType, FixInv, WinType
  <2> QED BY <2>1 DEF Scanned, Live, LiveLSQ
<1>3. Live' = Live
  <2>1. Still
    BY DEF Refresh, Still, countVars
  <2> QED BY <2>1, StillWindow DEF CoreInv
<1>4. ready => ~Started(s) /\ OperandsReady(s)
  BY DEF Started
<1> HIDE DEF s, ready
<1>5. CASE ready
  <2>1. ready_queue \in Seq(Good(ReadyNode)) /\ ent[s].seq \in Nat
    BY <1>2, LiveStations, EntryFields DEF CoreInv, LinksInv, FixInv
  <2>2. /\ s \notin Reached(tag, ready_queue) /\ s \notin Reached(tag, node)
        /\ Once(tag, ready_queue)
    BY <1>4, <1>5 DEF FlowInv, ReadyInv, Started
  <2>3. [rs |-> s, tag |-> tag[s], seq |-> ent[s].seq] \in Good(ReadyNode)
    BY <1>2, <2>1, NewReady DEF CoreInv
  <2>4. Once(tag, ready_queue') /\ Reached(tag, ready_queue') = Reached(tag, ready_queue) \cup {s}
    BY <1>1, <1>5, <2>1, <2>2, <2>3, EnqueueFlow
  <2>5. ReadyInv'
    BY <1>1, <1>2, <1>3, <1>5, <2>2, <2>4 DEF FlowInv, ReadyInv
  <2>6. StatusInv'
    BY <1>1, <1>3, <1>4, <1>5 DEF FlowInv, StatusInv, Started, OperandsReady
  <2>7. EventInv' /\ NodeInv' /\ KindInv' /\ WakeInv'
    BY <1>1, <1>3, EventFrame, KindFrame, WakeFrame DEF FlowInv, CoreInv, NodeInv
  <2> QED BY <2>5, <2>6, <2>7 DEF FlowInv
<1>6. CASE ~ready
  BY <1>1, <1>3, <1>6, ReadyFrame, StatusFrame, EventFrame, KindFrame, WakeFrame
     DEF FlowInv, CoreInv, NodeInv
<1> QED BY <1>5, <1>6

LEMMA RefreshEndFlow ==
  ASSUME CoreInv, FlowInv, RefreshEnd
  PROVE  FlowInv'
<1>1. /\ node' = ready_queue /\ ready_queue' = <<>> /\ node = <<>> /\ stage' = "issue"
      /\ UNCHANGED <<queued, issued, completed, event_queue, ent, tag,
                     idep_ready, odep_list>>
  BY DEF RefreshEnd, FlowInv, NodeInv, statusVars
<1>2. Live' = Live
  <2>1. Still
    BY DEF RefreshEnd, Still, countVars
  <2> QED BY <2>1, StillWindow DEF CoreInv
<1>3. Reached(tag, <<>>) = {} /\ Once(tag, <<>>)
  BY DEF ValidAt, Reached, Once
<1>4. ReadyInv'
  <2>1. /\ Once(tag, ready_queue) /\ Reached(tag, ready_queue) = queued \cap Live
    BY <1>1, <1>3 DEF FlowInv, ReadyInv
  <2> QED BY <1>1, <1>2, <1>3, <2>1 DEF ReadyInv
<1> QED BY <1>1, <1>2, <1>4, StatusFrame, EventFrame, KindFrame, WakeFrame
        DEF FlowInv, CoreInv, NodeInv

\* The first node of the detached list.
LEMMA FirstNode ==
  ASSUME CoreInv, FlowInv, node # <<>>
  PROVE  /\ Once(tag, Tail(node))
         /\ Reached(tag, Tail(node))
              = Reached(tag, node) \ (IF Valid(Head(node)) THEN {Head(node).rs} ELSE {})
         /\ Valid(Head(node)) =>
              /\ Head(node).rs \in Live /\ Head(node).rs \in queued
              /\ Head(node).rs \in Reached(tag, node)
              /\ Head(node).rs \notin Reached(tag, ready_queue)
              /\ Head(node).rs \notin issued \cup completed
              /\ OperandsReady(Head(node).rs)
<1>1. node \in Seq(Good(ReadyNode)) /\ Once(tag, node)
  BY DEF CoreInv, LinksInv, FlowInv, ReadyInv
<1>2. HasTag(tag, Head(node)) <=> Valid(Head(node))
  BY DEF HasTag, Valid
<1>3. Valid(Head(node)) => Head(node).rs \in Reached(tag, node)
  <2>1. 1 \in 1 .. Len(node) /\ Head(node) = node[1]
    BY <1>1, HeadTailProperties, EmptySeq
  <2> QED BY <1>2, <2>1 DEF Reached, ValidAt
<1>4. Valid(Head(node)) =>
        /\ Head(node).rs \in Live /\ Head(node).rs \in queued
        /\ Head(node).rs \notin Reached(tag, ready_queue)
  BY <1>3 DEF FlowInv, ReadyInv
<1>5. Valid(Head(node)) =>
        /\ Head(node).rs \notin issued \cup completed
        /\ OperandsReady(Head(node).rs)
  BY <1>4 DEF FlowInv, StatusInv, Started
<1> QED BY <1>1, <1>2, <1>3, <1>4, <1>5, TailFlow

LEMMA IssueSkipFlow ==
  ASSUME CoreInv, FlowInv, IssueSkip
  PROVE  FlowInv'
<1>1. /\ node' = Tail(node) /\ node # <<>> /\ ~Valid(Head(node)) /\ stage = "issue"
      /\ UNCHANGED <<stage, ready_queue, queued, issued, completed, event_queue,
                     idep_ready, odep_list, ent, tag>>
  BY DEF IssueSkip, statusVars
<1>2. Live' = Live
  <2>1. Still
    BY DEF IssueSkip, Still, countVars
  <2> QED BY <2>1, StillWindow DEF CoreInv
<1>3. Once(tag, Tail(node)) /\ Reached(tag, Tail(node)) = Reached(tag, node)
  BY <1>1, FirstNode
<1>4. ReadyInv'
  BY <1>1, <1>2, <1>3 DEF FlowInv, ReadyInv
<1> QED BY <1>1, <1>2, <1>4, StatusFrame, EventFrame, KindFrame, WakeFrame
        DEF FlowInv, CoreInv, NodeInv

LEMMA IssueStoreFlow ==
  ASSUME CoreInv, FlowInv, NEW s \in Station, IssueStore(s)
  PROVE  FlowInv'
<1>1. /\ node' = Tail(node) /\ node # <<>> /\ Valid(Head(node)) /\ s = Head(node).rs
      /\ stage = "issue"
      /\ queued' = queued \ {s} /\ issued' = issued \cup {s}
      /\ completed' = completed \cup {s}
      /\ UNCHANGED <<stage, ready_queue, event_queue, idep_ready, odep_list, ent, tag>>
  BY DEF IssueStore, IssueNext
<1>2. Live' = Live
  <2>1. Still
    BY DEF IssueStore, Still, countVars
  <2> QED BY <2>1, StillWindow DEF CoreInv
<1>3. /\ Once(tag, Tail(node)) /\ Reached(tag, Tail(node)) = Reached(tag, node) \ {s}
      /\ s \in Live /\ s \in queued /\ s \in Reached(tag, node)
      /\ s \notin Reached(tag, ready_queue)
      /\ s \notin issued \cup completed /\ OperandsReady(s)
  BY <1>1, FirstNode
<1>4. ReadyInv'
  BY <1>1, <1>2, <1>3 DEF FlowInv, ReadyInv
<1>5. EventInv'
  BY <1>1, <1>2, <1>3 DEF FlowInv, EventInv
<1>6. StatusInv'
  BY <1>1, <1>2, <1>3 DEF FlowInv, StatusInv, Started, OperandsReady
<1> QED BY <1>1, <1>2, <1>4, <1>5, <1>6, KindFrame, WakeFrame DEF FlowInv, NodeInv

LEMMA ExecuteFlow ==
  ASSUME CoreInv, FlowInv, NEW s \in Station, NEW lat \in Int, IssueNext(s), Execute(s, lat)
  PROVE  FlowInv'
<1>1. /\ node' = Tail(node) /\ node # <<>> /\ Valid(Head(node)) /\ s = Head(node).rs
      /\ stage = "issue"
      /\ queued' = queued \ {s} /\ issued' = issued \cup {s}
      /\ event_queue' = eventq_queue_event(event_queue, s, lat)
      /\ UNCHANGED <<stage, ready_queue, completed, idep_ready, odep_list, ent, tag>>
  BY DEF Execute, IssueNext
<1>2. Live' = Live
  <2>1. Still
    BY DEF Execute, Still, countVars
  <2> QED BY <2>1, StillWindow DEF CoreInv
<1>3. /\ Once(tag, Tail(node)) /\ Reached(tag, Tail(node)) = Reached(tag, node) \ {s}
      /\ s \in Live /\ s \in queued /\ s \in Reached(tag, node)
      /\ s \notin Reached(tag, ready_queue)
      /\ s \notin issued \cup completed /\ OperandsReady(s)
  BY <1>1, FirstNode
<1>4. ReadyInv'
  BY <1>1, <1>2, <1>3 DEF FlowInv, ReadyInv
<1>5. EventInv'
  <2>1. event_queue \in Seq(Good(Event)) /\ tag[s] \in Nat
    BY EntryFields DEF CoreInv, LinksInv, FixInv
  <2>2. [rs |-> s, tag |-> tag[s], when |-> lat] \in Good(Event)
    BY <1>3, <2>1 DEF Good, GoodLink, Event
  <2>3. Once(tag, event_queue) /\ s \notin Reached(tag, event_queue)
    BY <1>3 DEF FlowInv, EventInv
  <2>4. /\ Once(tag, event_queue')
        /\ Reached(tag, event_queue') = Reached(tag, event_queue) \cup {s}
    BY <1>1, <2>1, <2>2, <2>3, ScheduleFlow
  <2> QED BY <1>1, <1>2, <1>3, <2>4 DEF FlowInv, EventInv
<1>6. StatusInv'
  BY <1>1, <1>2, <1>3 DEF FlowInv, StatusInv, Started, OperandsReady
<1> QED BY <1>1, <1>2, <1>4, <1>5, <1>6, KindFrame, WakeFrame DEF FlowInv, NodeInv

LEMMA RequeueFlow ==
  ASSUME CoreInv, FlowInv, NEW s \in Station, Requeue(s)
  PROVE  FlowInv'
<1>1. /\ node' = Tail(node) /\ node # <<>> /\ Valid(Head(node)) /\ s = Head(node).rs
      /\ stage = "issue"
      /\ ready_queue' = readyq_enqueue(ready_queue, s, ent[s].op, ent[s].seq)
      /\ UNCHANGED <<stage, queued, issued, completed, event_queue, idep_ready,
                     odep_list, ent, tag>>
  BY DEF Requeue, IssueNext, statusVars
<1>2. Live' = Live
  <2>1. Still
    BY DEF Requeue, Still, countVars
  <2> QED BY <2>1, StillWindow DEF CoreInv
<1>3. /\ Once(tag, Tail(node)) /\ Reached(tag, Tail(node)) = Reached(tag, node) \ {s}
      /\ s \in Live /\ s \in Reached(tag, node) /\ s \notin Reached(tag, ready_queue)
  BY <1>1, FirstNode
<1>4. /\ Once(tag, ready_queue')
      /\ Reached(tag, ready_queue') = Reached(tag, ready_queue) \cup {s}
  <2>1. ready_queue \in Seq(Good(ReadyNode)) /\ ent[s].seq \in Nat /\ Once(tag, ready_queue)
    BY EntryFields DEF CoreInv, LinksInv, FixInv, FlowInv, ReadyInv
  <2>2. [rs |-> s, tag |-> tag[s], seq |-> ent[s].seq] \in Good(ReadyNode)
    BY <1>3, <2>1, NewReady DEF CoreInv
  <2> QED BY <1>1, <1>3, <2>1, <2>2, EnqueueFlow
<1>5. ReadyInv'
  BY <1>1, <1>2, <1>3, <1>4 DEF FlowInv, ReadyInv
<1> QED BY <1>1, <1>2, <1>5, StatusFrame, EventFrame, KindFrame, WakeFrame
        DEF FlowInv, CoreInv, NodeInv

\* Both ways to start an operation schedule its completion for a later cycle.
LEMMA Starts ==
  ASSUME CoreInv, NEW s \in Station, IssueToUnit(s) \/ IssueUnitless(s)
  PROVE  IssueNext(s) /\ \E lat \in Nat \ {0} : Execute(s, lat)
<1>1. CASE IssueToUnit(s)
  <2> DEFINE fu == res_get(FuClassOf(ent[s].op))
  <2>1. ent[s].op \in Op
    BY EntryFields DEF CoreInv, FixInv
  <2>2. FuClassOf(ent[s].op) \in FuClass /\ FreeTemplates(FuClassOf(ent[s].op)) # {}
    BY <1>1, <2>1, ClassOf DEF IssueToUnit
  <2>3. fu.oplat \in Nat \ {0}
    BY <2>2, GetUnit
  <2>4. PICK lat \in Latency(s, fu) : Execute(s, lat)
    BY <1>1 DEF IssueToUnit
  <2> HIDE DEF fu
  <2>5. LoadLat \subseteq Nat \ {0} /\ TlbLat \subseteq Nat
    BY InstAssumption
  <2>6. lat \in Nat \ {0}
    BY <2>3, <2>4, <2>5 DEF Latency
  <2> QED BY <1>1, <2>4, <2>6 DEF IssueToUnit
<1>2. CASE IssueUnitless(s)
  BY <1>2 DEF IssueUnitless
<1> QED BY <1>1, <1>2

-----------------------------------------------------------------------------
(* Dispatch.                                                               *)

\* The links of one station to one producer.
LEMMA LinksToOnce ==
  ASSUME NEW p, NEW s, NEW x
  PROVE  LET q == LinksTo(p, s, x)
             link(k) == [rs |-> s, tag |-> tag[s], opnum |-> k]
         IN  /\ q \in Seq({link(k) : k \in Operand})
             /\ \A j \in 1 .. Len(q) : /\ q[j] = link(q[j].opnum) /\ q[j].opnum \in Operand
                                       /\ Creator(x[q[j].opnum]) = p
             /\ \A j, m \in 1 .. Len(q) : q[j].opnum = q[m].opnum => j = m
             /\ \A k \in Operand : Creator(x[k]) = p =>
                  \E j \in 1 .. Len(q) : q[j] = link(k)
<1> DEFINE link(k) == [rs |-> s, tag |-> tag[s], opnum |-> k]
           at(k) == IF Creator(x[k]) = p THEN <<link(k)>> ELSE <<>>
           q == LinksTo(p, s, x)
<1>1. q = at(2) \o at(1)
  BY DEF LinksTo
<1>2. Operand = {1, 2}
  BY DEF Operand
<1>3. \A k : link(k).opnum = k
  OBVIOUS
<1> DEFINE S == {link(k) : k \in Operand}
<1>4. link(1) \in S /\ link(2) \in S
  BY <1>2
<1> HIDE DEF link, q, S
<1>5. CASE Creator(x[1]) = p /\ Creator(x[2]) = p
  <2> DEFINE u == <<link(2)>>
             v == <<link(1)>>
  <2>1. q = u \o v
    BY <1>1, <1>5
  <2>4. /\ u \in Seq(S) /\ Len(u) = 1 /\ u[1] = link(2)
        /\ v \in Seq(S) /\ Len(v) = 1 /\ v[1] = link(1)
    BY <1>4
  <2> HIDE DEF u, v
  <2>5. q \in Seq(S) /\ Len(q) = 2
        /\ \A j \in 1 .. 2 : q[j] = IF j <= 1 THEN u[j] ELSE v[j - 1]
    BY <2>1, <2>4, ConcatProperties
  <2>2. Len(q) = 2 /\ q[1] = link(2) /\ q[2] = link(1) /\ q \in Seq(S)
    BY <2>4, <2>5
  <2>3. 1 .. Len(q) = {1, 2}
    BY <2>2
  <2> HIDE <2>1
  <2> QED BY <1>2, <1>3, <1>5, <2>2, <2>3 DEF q, S, link
<1>6. CASE Creator(x[1]) = p /\ Creator(x[2]) # p
  <2>1. q = <<link(1)>>
    BY <1>1, <1>6
  <2>2. Len(q) = 1 /\ q[1] = link(1) /\ q \in Seq(S)
    BY <1>4, <2>1
  <2>3. 1 .. Len(q) = {1}
    BY <2>2
  <2> QED BY <1>2, <1>3, <1>6, <2>2, <2>3 DEF q, S, link
<1>7. CASE Creator(x[1]) # p /\ Creator(x[2]) = p
  <2>1. q = <<link(2)>>
    BY <1>1, <1>7
  <2>2. Len(q) = 1 /\ q[1] = link(2) /\ q \in Seq(S)
    BY <1>4, <2>1
  <2>3. 1 .. Len(q) = {1}
    BY <2>2
  <2> QED BY <1>2, <1>3, <1>7, <2>2, <2>3 DEF q, S, link
<1>8. CASE Creator(x[1]) # p /\ Creator(x[2]) # p
  <2>1. q = <<>>
    BY <1>1, <1>8
  <2>2. Len(q) = 0 /\ q \in Seq(S)
    BY <2>1
  <2> QED BY <1>2, <1>8, <2>2 DEF q, S, link
<1> QED BY <1>5, <1>6, <1>7, <1>8

\* The links that dispatching i puts on p's list: one for each operand that
\* p creates.
NewLink(s, k) == [rs |-> s, tag |-> tag[s], opnum |-> k]
NewLinkSet(i) == UNION {{NewLink(s, k) : k \in Operand} : s \in New(i)}

LEMMA NewLinksOnce ==
  ASSUME NEW i \in Inst, NEW p \in Station, NewRUU # NewLSQ
  PROVE  /\ NewLinks(i, p) \in Seq(NewLinkSet(i))
         /\ \A j \in 1 .. Len(NewLinks(i, p)) :
              \E s \in New(i), k \in Operand :
                /\ NewLinks(i, p)[j] = NewLink(s, k)
                /\ Creator(NewIns(i, s)[k]) = p
         /\ \A j, m \in 1 .. Len(NewLinks(i, p)) :
              NewLinks(i, p)[j] = NewLinks(i, p)[m] => j = m
         /\ \A s \in New(i), k \in Operand : Creator(NewIns(i, s)[k]) = p =>
              \E j \in 1 .. Len(NewLinks(i, p)) : NewLinks(i, p)[j] = NewLink(s, k)
<1> DEFINE S == NewLinkSet(i)
           a == IF IsMem(i.kind) THEN LinksTo(p, NewLSQ, NewIns(i, NewLSQ)) ELSE <<>>
           b == LinksTo(p, NewRUU, NewIns(i, NewRUU))
           q == NewLinks(i, p)
<1>1. q = a \o b
  BY DEF NewLinks
<1>2. \A s, k : NewLink(s, k).rs = s /\ NewLink(s, k).opnum = k
  BY DEF NewLink
<1>3. /\ b \in Seq(S)
      /\ \A j \in 1 .. Len(b) : \E k \in Operand :
           b[j] = NewLink(NewRUU, k) /\ Creator(NewIns(i, NewRUU)[k]) = p
      /\ \A j, m \in 1 .. Len(b) : b[j] = b[m] => j = m
      /\ \A k \in Operand : Creator(NewIns(i, NewRUU)[k]) = p =>
           \E j \in 1 .. Len(b) : b[j] = NewLink(NewRUU, k)
  <2> DEFINE x == NewIns(i, NewRUU)
             T == {NewLink(NewRUU, k) : k \in Operand}
  <2>1. T \subseteq S
    BY DEF New, NewLinkSet
  <2> HIDE DEF x, S, T
  <2>2. /\ b \in Seq(T)
        /\ \A j \in 1 .. Len(b) : /\ b[j] = NewLink(NewRUU, b[j].opnum)
                                  /\ b[j].opnum \in Operand
                                  /\ Creator(x[b[j].opnum]) = p
        /\ \A j, m \in 1 .. Len(b) : b[j].opnum = b[m].opnum => j = m
        /\ \A k \in Operand : Creator(x[k]) = p =>
             \E j \in 1 .. Len(b) : b[j] = NewLink(NewRUU, k)
    BY LinksToOnce DEF NewLink, x, T
  <2>3. b \in Seq(S)
    BY <2>1, <2>2, SeqMono
  <2> QED BY <2>2, <2>3 DEF x
<1>4. /\ a \in Seq(S)
      /\ \A j \in 1 .. Len(a) : IsMem(i.kind) /\ \E k \in Operand :
           a[j] = NewLink(NewLSQ, k) /\ Creator(NewIns(i, NewLSQ)[k]) = p
      /\ \A j, m \in 1 .. Len(a) : a[j] = a[m] => j = m
      /\ IsMem(i.kind) =>
           \A k \in Operand : Creator(NewIns(i, NewLSQ)[k]) = p =>
             \E j \in 1 .. Len(a) : a[j] = NewLink(NewLSQ, k)
  <2> DEFINE x == NewIns(i, NewLSQ)
             T == {NewLink(NewLSQ, k) : k \in Operand}
  <2>1. CASE ~IsMem(i.kind)
    <3>1. a = <<>>
      BY <2>1
    <3> HIDE DEF a, S
    <3> QED BY <2>1, <3>1
  <2>2. CASE IsMem(i.kind)
    <3>1. T \subseteq S /\ a = LinksTo(p, NewLSQ, x)
      BY <2>2 DEF New, NewLinkSet
    <3> HIDE DEF x, S, a, T
    <3>2. /\ a \in Seq(T)
          /\ \A j \in 1 .. Len(a) : /\ a[j] = NewLink(NewLSQ, a[j].opnum)
                                    /\ a[j].opnum \in Operand
                                    /\ Creator(x[a[j].opnum]) = p
          /\ \A j, m \in 1 .. Len(a) : a[j].opnum = a[m].opnum => j = m
          /\ \A k \in Operand : Creator(x[k]) = p =>
               \E j \in 1 .. Len(a) : a[j] = NewLink(NewLSQ, k)
      BY <3>1, LinksToOnce DEF NewLink, T
    <3>3. a \in Seq(S)
      BY <3>1, <3>2, SeqMono
    <3> QED BY <2>2, <3>2, <3>3 DEF x
  <2> QED BY <2>1, <2>2
<1> HIDE DEF a, b, q, S
<1>5. /\ Len(a) \in Nat /\ Len(b) \in Nat /\ q \in Seq(S) /\ Len(q) = Len(a) + Len(b)
      /\ \A j \in 1 .. Len(a) : q[j] = a[j]
      /\ \A j \in 1 .. Len(b) : q[Len(a) + j] = b[j]
  <2>1. /\ Len(a) \in Nat /\ Len(b) \in Nat /\ q \in Seq(S) /\ Len(q) = Len(a) + Len(b)
        /\ \A j \in 1 .. Len(a) + Len(b) : q[j] = IF j <= Len(a) THEN a[j] ELSE b[j - Len(a)]
    BY <1>1, <1>3, <1>4, ConcatProperties
  <2>2. \A j \in 1 .. Len(a) : q[j] = a[j]
    BY <2>1
  <2>3. ASSUME NEW j \in 1 .. Len(b) PROVE q[Len(a) + j] = b[j]
    <3> DEFINE m == Len(a) + j
    <3>1. m \in 1 .. Len(a) + Len(b) /\ ~(m <= Len(a)) /\ m - Len(a) = j
      BY <2>1
    <3> HIDE DEF m
    <3>2. q[m] = b[j]
      BY <2>1, <3>1
    <3> QED BY <3>2 DEF m
  <2> QED BY <2>1, <2>2, <2>3
<1>6. ASSUME NEW j \in 1 .. Len(q)
      PROVE  \/ j \in 1 .. Len(a) /\ q[j] = a[j]
             \/ j - Len(a) \in 1 .. Len(b) /\ q[j] = b[j - Len(a)]
  <2>1. CASE j <= Len(a)
    BY <1>5, <2>1
  <2>2. CASE ~(j <= Len(a))
    <3> DEFINE m == j - Len(a)
    <3>1. m \in 1 .. Len(b) /\ Len(a) + m = j
      BY <1>5, <2>2
    <3> HIDE DEF m
    <3>2. q[j] = b[m]
      BY <1>5, <3>1
    <3> QED BY <3>1, <3>2 DEF m
  <2> QED BY <2>1, <2>2
<1>7. NewRUU \in New(i) /\ (IsMem(i.kind) => NewLSQ \in New(i))
      /\ \A s \in New(i) : s = NewRUU \/ (s = NewLSQ /\ IsMem(i.kind))
  BY DEF New
<1>8. ASSUME NEW j \in 1 .. Len(q)
      PROVE  \E s \in New(i), k \in Operand :
               q[j] = NewLink(s, k) /\ Creator(NewIns(i, s)[k]) = p
  <2>1. CASE j \in 1 .. Len(a) /\ q[j] = a[j]
    BY <1>4, <1>7, <2>1
  <2>2. CASE j - Len(a) \in 1 .. Len(b) /\ q[j] = b[j - Len(a)]
    BY <1>3, <1>7, <2>2
  <2> QED BY <1>6, <2>1, <2>2
<1>9. ASSUME NEW j \in 1 .. Len(q), NEW m \in 1 .. Len(q), q[j] = q[m]
      PROVE  j = m
  <2>1. \A jj \in 1 .. Len(a), mm \in 1 .. Len(b) : a[jj].rs = NewLSQ /\ b[mm].rs = NewRUU
    BY <1>2, <1>3, <1>4
  <2>2. CASE j \in 1 .. Len(a) /\ q[j] = a[j]
    <3>1. m \in 1 .. Len(a) /\ q[m] = a[m]
      BY <1>6, <1>9, <2>1, <2>2
    <3> QED BY <1>4, <1>9, <2>2, <3>1
  <2>3. CASE j - Len(a) \in 1 .. Len(b) /\ q[j] = b[j - Len(a)]
    <3>1. m - Len(a) \in 1 .. Len(b) /\ q[m] = b[m - Len(a)]
      BY <1>6, <1>9, <2>1, <2>3
    <3>2. j - Len(a) = m - Len(a)
      BY <1>3, <1>9, <2>3, <3>1
    <3> QED BY <1>5, <3>2
  <2> QED BY <1>6, <2>2, <2>3
<1>10. ASSUME NEW s \in New(i), NEW k \in Operand, Creator(NewIns(i, s)[k]) = p
       PROVE  \E j \in 1 .. Len(q) : q[j] = NewLink(s, k)
  <2>1. CASE s = NewRUU
    <3>1. PICK j \in 1 .. Len(b) : b[j] = NewLink(NewRUU, k)
      BY <1>3, <1>10, <2>1
    <3>2. Len(a) + j \in 1 .. Len(q) /\ q[Len(a) + j] = b[j]
      BY <1>5
    <3> QED BY <2>1, <3>1, <3>2
  <2>2. CASE s = NewLSQ /\ IsMem(i.kind)
    <3>1. PICK j \in 1 .. Len(a) : a[j] = NewLink(NewLSQ, k)
      BY <1>4, <1>10, <2>2
    <3>2. j \in 1 .. Len(q) /\ q[j] = a[j]
      BY <1>5
    <3> QED BY <2>2, <3>1, <3>2
  <2> QED BY <1>7, <2>1, <2>2
<1> QED BY <1>5, <1>8, <1>9, <1>10 DEF q, S

\* What is on p's consumer list after the dispatch of i: new links, then what
\* was there.
LEMMA DispatchLists ==
  ASSUME CoreInv, NEW i \in Inst, NEW mp \in BOOLEAN, Dispatch(i, mp),
         NEW p \in Station, NEW j \in ValidAt(tag, odep_list'[p])
  PROVE  LET n == Len(NewLinks(i, p)) IN
         /\ odep_list'[p] = NewLinks(i, p) \o odep_list[p]
         /\ n \in Nat
         /\ \/ j \in 1 .. n /\ odep_list'[p][j] = NewLinks(i, p)[j]
            \/ /\ j - n \in ValidAt(tag, odep_list[p])
               /\ odep_list'[p][j] = odep_list[p][j - n]
<1> DEFINE u == NewLinks(i, p)
           v == odep_list[p]
           q == odep_list'[p]
           n == Len(u)
<1>1. j \in 1 .. Len(q) /\ HasTag(tag, q[j])
  BY DEF ValidAt
<1>2. q = u \o v
  <2>1. q = IF p \in New(i) /\ NewOut(i, p) # NA THEN <<>> ELSE u \o v
    BY DispatchParts
  <2>2. q # <<>>
    BY <1>1
  <2> QED BY <2>1, <2>2
<1>3. v \in Seq(Good(OdepLink))
  BY DEF CoreInv, LinksInv
<1>4. u \in Seq(NewLinkSet(i))
  BY DispatchWindow, NewLinksOnce
<1> HIDE DEF u, v, q
<1>5. /\ Len(u) \in Nat /\ Len(v) \in Nat /\ Len(q) = Len(u) + Len(v)
      /\ \A m \in 1 .. Len(u) + Len(v) : q[m] = IF m <= Len(u) THEN u[m] ELSE v[m - Len(u)]
  <2> DEFINE A == NewLinkSet(i)
             B == Good(OdepLink)
             C == A \cup B
  <2>1. u \in Seq(C) /\ v \in Seq(C)
    <3>1. A \subseteq C /\ B \subseteq C
      OBVIOUS
    <3> HIDE DEF A, B, C
    <3> QED BY <1>3, <1>4, <3>1, SeqMono DEF A, B
  <2> HIDE DEF C
  <2> QED BY <1>2, <2>1, ConcatProperties
<1>6. CASE j <= Len(u)
  BY <1>1, <1>2, <1>5, <1>6 DEF u, q, v
<1>7. CASE ~(j <= Len(u))
  <2>1. j - n \in 1 .. Len(v) /\ q[j] = v[j - n]
    BY <1>1, <1>5, <1>7
  <2>2. j - n \in ValidAt(tag, v)
    BY <1>1, <2>1 DEF ValidAt
  <2> QED BY <1>2, <1>5, <2>1, <2>2 DEF u, q, v
<1> QED BY <1>6, <1>7

\* The links that were on the list stay behind the new ones.
LEMMA DispatchKeepsLinks ==
  ASSUME CoreInv, NEW i \in Inst, NEW mp \in BOOLEAN, Dispatch(i, mp),
         NEW p \in Station, ~(p \in New(i) /\ NewOut(i, p) # NA)
  PROVE  LET n == Len(NewLinks(i, p)) IN
         /\ \A j \in 1 .. n : /\ j \in 1 .. Len(odep_list'[p])
                              /\ odep_list'[p][j] = NewLinks(i, p)[j]
         /\ \A j \in 1 .. Len(odep_list[p]) :
              /\ j + n \in 1 .. Len(odep_list'[p])
              /\ odep_list'[p][j + n] = odep_list[p][j]
<1> DEFINE u == NewLinks(i, p)
           v == odep_list[p]
           q == odep_list'[p]
           n == Len(u)
<1>2. q = u \o v
  BY DispatchParts
<1>3. v \in Seq(Good(OdepLink))
  BY DEF CoreInv, LinksInv
<1>4. u \in Seq(NewLinkSet(i))
  BY DispatchWindow, NewLinksOnce
<1> HIDE DEF u, v, q
<1>5. /\ Len(u) \in Nat /\ Len(v) \in Nat /\ Len(q) = Len(u) + Len(v)
      /\ \A m \in 1 .. Len(u) + Len(v) : q[m] = IF m <= Len(u) THEN u[m] ELSE v[m - Len(u)]
  <2> DEFINE A == NewLinkSet(i)
             B == Good(OdepLink)
             C == A \cup B
  <2>1. u \in Seq(C) /\ v \in Seq(C)
    <3>1. A \subseteq C /\ B \subseteq C
      OBVIOUS
    <3> HIDE DEF A, B, C
    <3> QED BY <1>3, <1>4, <3>1, SeqMono DEF A, B
  <2> HIDE DEF C
  <2> QED BY <1>2, <2>1, ConcatProperties
<1>6. \A j \in 1 .. n : j \in 1 .. Len(q) /\ q[j] = u[j]
  BY <1>5
<1>7. ASSUME NEW j \in 1 .. Len(v) PROVE j + n \in 1 .. Len(q) /\ q[j + n] = v[j]
  <2> DEFINE m == j + n
  <2>1. m \in 1 .. Len(u) + Len(v) /\ ~(m <= Len(u)) /\ m - Len(u) = j
    BY <1>5
  <2> HIDE DEF m
  <2>2. q[m] = v[j] /\ m \in 1 .. Len(q)
    BY <1>5, <2>1
  <2> QED BY <2>2 DEF m
<1> QED BY <1>6, <1>7 DEF u, v, q

\* The new stations: what they hold, and that no list reaches them.
LEMMA DispatchNew ==
  ASSUME CoreInv, NEW i \in Inst, NEW mp \in BOOLEAN, Dispatch(i, mp)
  PROVE  /\ New(i) \subseteq Station /\ New(i) \cap Live = {} /\ NewRUU \in New(i)
         /\ Live' = Live \cup New(i) /\ tag' = tag
         /\ \A s \in New(i) : /\ ent'[s] = NewEntry(i, mp, s)
                              /\ idep_ready'[s] = ReadyIdeps(NewIns(i, s))
         /\ \A s \in Live : ent'[s] = ent[s] /\ idep_ready'[s] = idep_ready[s]
         /\ NewQueued(i) \subseteq New(i)
<1>1. /\ ent' = [s \in Station |-> IF s \in New(i) THEN NewEntry(i, mp, s) ELSE ent[s]]
      /\ idep_ready' = [s \in Station |->
           IF s \in New(i) THEN ReadyIdeps(NewIns(i, s)) ELSE idep_ready[s]]
      /\ tag' = tag
  BY DispatchParts
<1>2. /\ NewRUU \in Station /\ NewLSQ \in Station
      /\ NewRUU \notin Live /\ NewLSQ \notin Live /\ Live' = Live \cup New(i)
  BY DispatchWindow
<1>3. New(i) \subseteq Station /\ New(i) \cap Live = {} /\ NewRUU \in New(i)
  BY <1>2 DEF New
<1>4. Live \subseteq Station
  BY LiveStations DEF CoreInv
<1> HIDE DEF NewEntry
<1> QED BY <1>1, <1>2, <1>3, <1>4 DEF NewQueued

LEMMA DispatchReady ==
  ASSUME CoreInv, FlowInv, NEW i \in Inst, NEW mp \in BOOLEAN, Dispatch(i, mp)
  PROVE  ReadyInv'
<1>1. /\ ready_queue' = QueueBoth(i) /\ node' = node /\ tag' = tag
      /\ queued' = (queued \ New(i)) \cup NewQueued(i)
  BY DispatchParts
<1>2. /\ NewQueued(i) \subseteq New(i) /\ New(i) \cap Live = {}
      /\ Live' = Live \cup New(i) /\ NewRUU \in Station /\ NewLSQ \in Station
      /\ NewRUU # NewLSQ /\ NewRUU \notin Live /\ NewLSQ \notin Live
  BY DispatchNew, DispatchWindow
<1>3. tag \in [Station -> Nat] /\ inst_seq \in Nat /\ ready_queue \in Seq(ReadyNode)
  <2>1. Good(ReadyNode) \subseteq ReadyNode
    BY DEF Good
  <2>2. ready_queue \in Seq(ReadyNode)
    BY <2>1, SeqMono DEF CoreInv, LinksInv
  <2> QED BY <2>2 DEF CoreInv, FixInv, EntType
<1>4. \A s \in {NewRUU, NewLSQ} :
        [rs |-> s, tag |-> tag[s], seq |-> NewSeq(s)] \in ReadyNode
  BY <1>2, <1>3 DEF NewSeq, ReadyNode
<1>5. /\ Once(tag, ready_queue) /\ Once(tag, node)
      /\ Reached(tag, ready_queue) \subseteq Live /\ Reached(tag, node) \subseteq Live
      /\ Reached(tag, ready_queue) \cap Reached(tag, node) = {}
      /\ Reached(tag, ready_queue) \cup Reached(tag, node) = queued \cap Live
  BY QueuesOld DEF FlowInv, ReadyInv, CoreInv
<1>6. /\ QueueRUU(i) \in Seq(ReadyNode) /\ Once(tag, QueueRUU(i))
      /\ Reached(tag, QueueRUU(i)) = Reached(tag, ready_queue) \cup (NewQueued(i) \cap {NewRUU})
  <2>1. CASE NewRUU \in NewQueued(i)
    <3> DEFINE r == readyq_enqueue(ready_queue, NewRUU, NewOp(i, NewRUU), NewSeq(NewRUU))
    <3>1. NewRUU \notin Reached(tag, ready_queue)
      BY <1>2, <1>5
    <3>2. r \in Seq(ReadyNode)
      BY <1>3, <1>4, EnqueueSeq
    <3>3. Once(tag, r) /\ Reached(tag, r) = Reached(tag, ready_queue) \cup {NewRUU}
      BY <1>3, <1>4, <1>5, <3>1, EnqueueFlow
    <3> QED BY <2>1, <3>2, <3>3 DEF QueueRUU
  <2>2. CASE NewRUU \notin NewQueued(i)
    BY <1>3, <1>5, <2>2 DEF QueueRUU
  <2> QED BY <2>1, <2>2
<1>7. /\ Once(tag, QueueBoth(i))
      /\ Reached(tag, QueueBoth(i))
           = Reached(tag, QueueRUU(i)) \cup (NewQueued(i) \cap {NewLSQ})
  <2>1. CASE NewLSQ \in NewQueued(i)
    <3> DEFINE r == readyq_enqueue(QueueRUU(i), NewLSQ, NewOp(i, NewLSQ), NewSeq(NewLSQ))
    <3>1. NewLSQ \notin Reached(tag, QueueRUU(i))
      BY <1>2, <1>5, <1>6
    <3>2. Once(tag, r) /\ Reached(tag, r) = Reached(tag, QueueRUU(i)) \cup {NewLSQ}
      BY <1>4, <1>6, <3>1, EnqueueFlow
    <3> QED BY <2>1, <3>2 DEF QueueBoth
  <2>2. CASE NewLSQ \notin NewQueued(i)
    BY <1>6, <2>2 DEF QueueBoth
  <2> QED BY <2>1, <2>2
<1>8. NewQueued(i) \subseteq {NewRUU, NewLSQ}
  BY <1>2 DEF New
<1>9. /\ Once(tag, ready_queue')
      /\ Reached(tag, ready_queue') = Reached(tag, ready_queue) \cup NewQueued(i)
  BY <1>1, <1>6, <1>7, <1>8
<1>10. /\ Reached(tag, ready_queue') \cap Reached(tag, node) = {}
       /\ Reached(tag, ready_queue') \cup Reached(tag, node) = queued' \cap Live'
  BY <1>1, <1>2, <1>5, <1>9
<1> QED BY <1>1, <1>5, <1>9, <1>10 DEF ReadyInv

LEMMA DispatchStatus ==
  ASSUME CoreInv, FlowInv, NEW i \in Inst, NEW mp \in BOOLEAN, Dispatch(i, mp),
         mp => i.kind = "ctrl"
  PROVE  StatusInv' /\ KindInv'
<1>1. /\ queued' = (queued \ New(i)) \cup NewQueued(i)
      /\ issued' = issued \ New(i) /\ completed' = completed \ New(i)
  BY DispatchParts
<1>2. /\ NewQueued(i) \subseteq New(i) /\ New(i) \cap Live = {}
      /\ Live' = Live \cup New(i)
      /\ \A s \in New(i) : /\ ent'[s] = NewEntry(i, mp, s)
                           /\ idep_ready'[s] = ReadyIdeps(NewIns(i, s))
      /\ \A s \in Live : ent'[s] = ent[s] /\ idep_ready'[s] = idep_ready[s]
  BY DispatchNew
<1>3. \A s \in New(i) : /\ s = NewRUU \/ (s = NewLSQ /\ IsMem(i.kind))
                        /\ ent'[s].op = NewOp(i, s) /\ ent'[s].out = NewOut(i, s)
                        /\ ent'[s].ea_comp <=> (IsMem(i.kind) /\ s = NewRUU)
                        /\ ent'[s].recover_inst <=> (mp /\ s = NewRUU)
  <2> SUFFICES ASSUME NEW s \in New(i)
               PROVE  /\ s = NewRUU \/ (s = NewLSQ /\ IsMem(i.kind))
                      /\ ent'[s].op = NewOp(i, s) /\ ent'[s].out = NewOut(i, s)
                      /\ ent'[s].ea_comp <=> (IsMem(i.kind) /\ s = NewRUU)
                      /\ ent'[s].recover_inst <=> (mp /\ s = NewRUU)
    OBVIOUS
  <2>1. s = NewRUU \/ (s = NewLSQ /\ IsMem(i.kind))
    BY DEF New
  <2>2. ent'[s] = NewEntry(i, mp, s)
    BY <1>2
  <2>3. /\ NewEntry(i, mp, s).op = NewOp(i, s) /\ NewEntry(i, mp, s).out = NewOut(i, s)
        /\ NewEntry(i, mp, s).ea_comp <=> (IsMem(i.kind) /\ s = NewRUU)
        /\ NewEntry(i, mp, s).recover_inst <=> (mp /\ s = NewRUU)
    BY DEF NewEntry
  <2> QED BY <2>1, <2>2, <2>3
<1>4. ~InLSQ(NewRUU) /\ NewLSQ # NewRUU
  BY DispatchWindow DEF InLSQ, NewRUU, RUU
<1>5. i.kind = "store" => i.out = NA
  BY InstAssumption
<1>6. ASSUME NEW s \in New(i)
      PROVE  /\ s \in queued' => s \notin issued' \cup completed'
             /\ s \in queued' \cup issued' \cup completed' => idep_ready'[s] = Operand
             /\ s \notin queued' \cup issued' \cup completed' =>
                  idep_ready'[s] # Operand \/ (InLSQ(s) /\ ent'[s].op = "load")
  <2>1. s \notin issued' \cup completed' /\ (s \in queued' <=> s \in NewQueued(i))
    BY <1>1
  <2>2. s \in NewQueued(i) => idep_ready'[s] = Operand
    BY <1>2 DEF NewQueued
  <2>3. s \notin NewQueued(i) /\ idep_ready'[s] = Operand =>
          s # NewRUU /\ ~IsStore(i.kind)
    BY <1>2 DEF NewQueued
  <2>4. s = NewLSQ /\ IsMem(i.kind) /\ ~IsStore(i.kind) =>
          InLSQ(s) /\ ent'[s].op = "load"
    BY <1>3, <1>4 DEF NewOp, IsMem, IsStore, InLSQ, NewLSQ, LSQ
  <2> QED BY <1>3, <2>1, <2>2, <2>3, <2>4
<1>7. ASSUME NEW s \in New(i)
      PROVE  /\ InLSQ(s) => IsMem(ent'[s].op)
             /\ ent'[s].op = "store" => ent'[s].out = NA
             /\ ent'[s].recover_inst => ~ent'[s].ea_comp
  <2>1. InLSQ(s) => IsMem(ent'[s].op)
    BY <1>3, <1>4 DEF NewOp
  <2>2. ent'[s].op = "store" => ent'[s].out = NA
    BY <1>3, <1>4, <1>5 DEF NewOp, NewOut, IsMem
  <2>3. ent'[s].recover_inst => ~ent'[s].ea_comp
    BY <1>3, Zenon DEF IsMem
  <2> QED BY <2>1, <2>2, <2>3
<1>8. ASSUME NEW s \in Live
      PROVE  /\ s \notin New(i)
             /\ s \in queued' <=> s \in queued
             /\ s \in issued' <=> s \in issued
             /\ s \in completed' <=> s \in completed
             /\ ent'[s] = ent[s] /\ idep_ready'[s] = idep_ready[s]
  BY <1>1, <1>2
<1>9. StatusInv'
  <2>1. ASSUME NEW s \in Live'
        PROVE  /\ s \in queued' => s \notin issued' \cup completed'
               /\ s \in queued' \cup issued' \cup completed' => idep_ready'[s] = Operand
               /\ s \notin queued' \cup issued' \cup completed' =>
                    idep_ready'[s] # Operand \/ (InLSQ(s) /\ ent'[s].op = "load")
    <3>1. CASE s \in New(i)
      BY <1>6, <3>1
    <3>2. CASE s \in Live
      BY <1>8, <3>2 DEF FlowInv, StatusInv, Started, OperandsReady
    <3> QED BY <1>2, <3>1, <3>2
  <2> QED BY <2>1 DEF StatusInv, Started, OperandsReady
<1>10. KindInv'
  <2>1. ASSUME NEW s \in Live'
        PROVE  /\ InLSQ(s) => IsMem(ent'[s].op)
               /\ ent'[s].op = "store" => ent'[s].out = NA
               /\ ent'[s].recover_inst => ~ent'[s].ea_comp
    <3>1. CASE s \in New(i)
      BY <1>7, <3>1
    <3>2. CASE s \in Live
      BY <1>8, <3>2 DEF FlowInv, KindInv
    <3> QED BY <1>2, <3>1, <3>2
  <2> QED BY <2>1 DEF KindInv
<1> QED BY <1>9, <1>10

LEMMA DispatchWake ==
  ASSUME CoreInv, FlowInv, NEW i \in Inst, NEW mp \in BOOLEAN, Dispatch(i, mp)
  PROVE  WakeInv'
<1>1. /\ New(i) \subseteq Station /\ New(i) \cap Live = {} /\ tag' = tag
      /\ \A s \in New(i) : idep_ready'[s] = ReadyIdeps(NewIns(i, s))
      /\ \A s \in Live : idep_ready'[s] = idep_ready[s]
      /\ NewRUU # NewLSQ
  BY DispatchNew, DispatchWindow
<1>10. \A p \in Station : Len(NewLinks(i, p)) \in Nat
  <2> SUFFICES ASSUME NEW p \in Station PROVE Len(NewLinks(i, p)) \in Nat
    OBVIOUS
  <2>1. NewLinks(i, p) \in Seq(NewLinkSet(i))
    BY <1>1, NewLinksOnce
  <2> QED BY <2>1
<1>11. ASSUME NEW p \in Station
       PROVE  /\ \A j \in 1 .. Len(NewLinks(i, p)) : \E s \in New(i), k \in Operand :
                   /\ NewLinks(i, p)[j] = NewLink(s, k)
                   /\ Creator(NewIns(i, s)[k]) = p
              /\ \A j, m \in 1 .. Len(NewLinks(i, p)) :
                   NewLinks(i, p)[j] = NewLinks(i, p)[m] => j = m
  <2>1. i \in Inst /\ p \in Station /\ NewRUU # NewLSQ
    BY <1>1
  <2>2. \A j \in 1 .. Len(NewLinks(i, p)) : \E s \in New(i), k \in Operand :
          NewLinks(i, p)[j] = NewLink(s, k) /\ Creator(NewIns(i, s)[k]) = p
    BY ONLY <2>1, NewLinksOnce
  <2>3. \A j, m \in 1 .. Len(NewLinks(i, p)) :
          NewLinks(i, p)[j] = NewLinks(i, p)[m] => j = m
    BY ONLY <2>1, NewLinksOnce
  <2> QED BY <2>2, <2>3
\* A live link is new or was there before.
<1> DEFINE n(p) == Len(NewLinks(i, p))
           fresh(p, j) == \E s \in New(i), k \in Operand :
                            /\ odep_list'[p][j] = NewLink(s, k)
                            /\ Creator(NewIns(i, s)[k]) = p
                            /\ j \in 1 .. n(p)
                            /\ odep_list'[p][j] = NewLinks(i, p)[j]
           old(p, j) == /\ j - n(p) \in ValidAt(tag, odep_list[p])
                        /\ odep_list'[p][j] = odep_list[p][j - n(p)]
                        /\ odep_list'[p][j].rs \in Live
<1>2. ASSUME NEW p \in Station, NEW j \in ValidAt(tag, odep_list'[p])
      PROVE  fresh(p, j) \/ old(p, j)
  <2>1. CASE j \in 1 .. n(p) /\ odep_list'[p][j] = NewLinks(i, p)[j]
    <3>2. \A h \in 1 .. Len(NewLinks(i, p)) : \E s \in New(i), k \in Operand :
            NewLinks(i, p)[h] = NewLink(s, k) /\ Creator(NewIns(i, s)[k]) = p
      BY <1>11
    <3>1. PICK s \in New(i), k \in Operand :
            NewLinks(i, p)[j] = NewLink(s, k) /\ Creator(NewIns(i, s)[k]) = p
      BY <2>1, <3>2
    <3> QED BY <2>1, <3>1
  <2>2. CASE /\ j - n(p) \in ValidAt(tag, odep_list[p])
             /\ odep_list'[p][j] = odep_list[p][j - n(p)]
    <3>1. odep_list[p][j - n(p)].rs \in Live
      BY <2>2, QueuesOld DEF CoreInv
    <3> QED BY <2>2, <3>1
  <2> QED BY <2>1, <2>2, DispatchLists
<1>3. \A s, k : NewLink(s, k).rs = s /\ NewLink(s, k).opnum = k
  BY DEF NewLink
<1>4. \A p \in Station : n(p) \in Nat
  BY <1>10
<1>5. ASSUME NEW p \in Station, NEW j \in ValidAt(tag, odep_list'[p])
      PROVE  odep_list'[p][j].opnum \notin idep_ready'[odep_list'[p][j].rs]
  <2>1. CASE fresh(p, j)
    <3>1. PICK s \in New(i), k \in Operand :
            odep_list'[p][j] = NewLink(s, k) /\ Creator(NewIns(i, s)[k]) = p
      BY <2>1
    <3>2. k \notin ReadyIdeps(NewIns(i, s))
      BY <3>1, NoneAssumption DEF ReadyIdeps
    <3> QED BY <1>1, <1>3, <3>1, <3>2
  <2>2. CASE old(p, j)
    BY <1>1, <2>2 DEF FlowInv, WakeInv
  <2> QED BY <1>2, <2>1, <2>2
<1>6. ASSUME NEW p \in Station, NEW q \in Station,
             NEW j \in ValidAt(tag, odep_list'[p]), NEW m \in ValidAt(tag, odep_list'[q]),
             odep_list'[p][j].rs = odep_list'[q][m].rs,
             odep_list'[p][j].opnum = odep_list'[q][m].opnum
      PROVE  p = q /\ j = m
  <2>1. CASE fresh(p, j) /\ fresh(q, m)
    <3>1. PICK s \in New(i), k \in Operand :
            /\ odep_list'[p][j] = NewLink(s, k) /\ Creator(NewIns(i, s)[k]) = p
            /\ j \in 1 .. n(p) /\ odep_list'[p][j] = NewLinks(i, p)[j]
      BY <2>1
    <3>2. PICK t \in New(i), h \in Operand :
            /\ odep_list'[q][m] = NewLink(t, h) /\ Creator(NewIns(i, t)[h]) = q
            /\ m \in 1 .. n(q) /\ odep_list'[q][m] = NewLinks(i, q)[m]
      BY <2>1
    <3>3. s = t /\ k = h
      <4>1. NewLink(s, k).rs = NewLink(t, h).rs /\ NewLink(s, k).opnum = NewLink(t, h).opnum
        BY <1>6, <3>1, <3>2, Zenon
      <4> QED BY <1>3, <4>1
    <3>4. p = q
      BY <3>1, <3>2, <3>3, Zenon
    <3>5. NewLinks(i, p)[j] = NewLinks(i, p)[m] /\ m \in 1 .. n(p)
      BY <3>1, <3>2, <3>3, <3>4, Zenon
    <3>6. \A x, y \in 1 .. Len(NewLinks(i, p)) :
            NewLinks(i, p)[x] = NewLinks(i, p)[y] => x = y
      BY <1>11
    <3> QED BY <3>1, <3>4, <3>5, <3>6
  <2>2. CASE old(p, j) /\ old(q, m)
    <3>1. p = q /\ j - n(p) = m - n(q)
      BY <1>6, <2>2 DEF FlowInv, WakeInv
    <3>2. j \in Int /\ m \in Int
      BY DEF ValidAt
    <3> QED BY <1>4, <3>1, <3>2
  <2>3. CASE (fresh(p, j) /\ old(q, m)) \/ (old(p, j) /\ fresh(q, m))
    <3>1. \A pp, jj : fresh(pp, jj) => odep_list'[pp][jj].rs \in New(i)
      BY <1>3
    <3> QED BY <1>1, <1>6, <2>3, <3>1
  <2> QED BY <1>2, <2>1, <2>2, <2>3
<1> QED BY <1>1, <1>5, <1>6 DEF WakeInv

LEMMA DispatchFlow ==
  ASSUME CoreInv, FlowInv, NEW i \in Inst, NEW mp \in BOOLEAN, Dispatch(i, mp),
         mp => i.kind = "ctrl"
  PROVE  FlowInv'
<1>1. /\ issued' = issued \ New(i) /\ completed' = completed \ New(i)
      /\ UNCHANGED <<stage, node, event_queue, tag>>
  BY DispatchParts
<1>2. New(i) \cap Live = {} /\ Live' = Live \cup New(i)
  BY DispatchNew
<1>3. EventInv'
  BY <1>1, <1>2 DEF FlowInv, EventInv
<1>4. NodeInv'
  BY <1>1 DEF FlowInv, NodeInv
<1> QED BY <1>3, <1>4, DispatchReady, DispatchStatus, DispatchWake DEF FlowInv

-----------------------------------------------------------------------------
LEMMA NextFlow == CoreInv /\ FlowInv /\ [Next]_vars => FlowInv'
<1> SUFFICES ASSUME CoreInv, FlowInv, [Next]_vars PROVE FlowInv'
  OBVIOUS
<1>1. CASE Commit BY <1>1, CommitFlow
<1>2. CASE SkipEvent BY <1>2, SkipEventFlow
<1>3. CASE Complete \/ CompleteMispredicted BY <1>3, CompletesFlow
<1>4. CASE Squash BY <1>4, SquashFlow
<1>5. CASE Broadcast BY <1>5, BroadcastFlow
<1>6. CASE Refresh BY <1>6, RefreshFlow
<1>7. CASE RefreshEnd BY <1>7, RefreshEndFlow
<1>8. CASE IssueSkip BY <1>8, IssueSkipFlow
<1>9. ASSUME NEW s \in Station, IssueStore(s) PROVE FlowInv'
  BY <1>9, IssueStoreFlow
<1>10. ASSUME NEW s \in Station, IssueToUnit(s) \/ IssueUnitless(s) PROVE FlowInv'
  <2>1. PICK lat \in Nat \ {0} : Execute(s, lat)
    BY <1>10, Starts
  <2>2. IssueNext(s) /\ lat \in Int
    BY <1>10, Starts
  <2> QED BY <2>1, <2>2, ExecuteFlow
<1>11. ASSUME NEW s \in Station, Requeue(s) PROVE FlowInv'
  BY <1>11, RequeueFlow
<1>12. CASE DispatchInst
  BY <1>12, DispatchFlow DEF DispatchInst
<1>13. CASE CommitEnd \/ WritebackEnd \/ BroadcastEnd \/ RecoverEnd
              \/ IssueEnd \/ DispatchEnd \/ UNCHANGED vars
  BY <1>13, QuietSteps, QuietFlow
<1> QED BY <1>1, <1>2, <1>3, <1>4, <1>5, <1>6, <1>7, <1>8, <1>9, <1>10, <1>11,
           <1>12, <1>13 DEF Next

\* The live links of every queue lead to the instructions whose status asks
\* for them, one each: the ready lists to the queued ones, the event queue to
\* those in execution, the consumer lists to operands that are not ready.
THEOREM FlowInvariant == Spec => [](CoreInv /\ FlowInv)
<1>1. Init => CoreInv /\ FlowInv
  BY InitCore, InitFlow
<1>2. (CoreInv /\ FlowInv) /\ [Next]_vars => (CoreInv /\ FlowInv)'
  BY NextCore, NextFlow
<1> QED BY <1>1, <1>2, PTL DEF Spec

-----------------------------------------------------------------------------
(* What follows.                                                           *)

LEMMA ConcatFlow ==
  ASSUME NEW g, NEW S, NEW q \in Seq(S), NEW r \in Seq(S), Once(g, q), Once(g, r),
         Reached(g, q) \cap Reached(g, r) = {}
  PROVE  Once(g, q \o r) /\ Reached(g, q \o r) = Reached(g, q) \cup Reached(g, r)
<1> DEFINE t == q \o r
           n == Len(q)
<1>1. /\ n \in Nat /\ Len(r) \in Nat /\ Len(t) = n + Len(r)
      /\ \A i \in 1 .. n + Len(r) : t[i] = IF i <= n THEN q[i] ELSE r[i - n]
  BY ConcatProperties
<1> HIDE DEF t
<1>2. \A i \in ValidAt(g, q) : i \in ValidAt(g, t) /\ t[i] = q[i]
  BY <1>1 DEF ValidAt
<1>3. ASSUME NEW i \in ValidAt(g, r) PROVE i + n \in ValidAt(g, t) /\ t[i + n] = r[i]
  <2> DEFINE m == i + n
  <2>1. m \in 1 .. n + Len(r) /\ ~(m <= n) /\ m - n = i
    BY <1>1 DEF ValidAt
  <2> HIDE DEF m, n
  <2>2. t[m] = r[i]
    BY <1>1, <2>1
  <2>3. m \in ValidAt(g, t)
    BY <1>1, <2>1, <2>2 DEF ValidAt
  <2> QED BY <2>2, <2>3 DEF m, n
<1>4. ASSUME NEW i \in ValidAt(g, t)
      PROVE  \/ i \in ValidAt(g, q) /\ t[i] = q[i]
             \/ i - n \in ValidAt(g, r) /\ t[i] = r[i - n]
  BY <1>1 DEF ValidAt
<1>5. Reached(g, t) = Reached(g, q) \cup Reached(g, r)
  <2>1. \A i \in ValidAt(g, t) : t[i].rs \in Reached(g, q) \cup Reached(g, r)
    BY <1>4 DEF Reached
  <2>2. \A i \in ValidAt(g, q) : q[i].rs \in Reached(g, t)
    BY <1>2 DEF Reached
  <2>3. \A i \in ValidAt(g, r) : r[i].rs \in Reached(g, t)
    BY <1>3 DEF Reached
  <2> QED BY <2>1, <2>2, <2>3 DEF Reached
<1>6. ASSUME NEW i \in ValidAt(g, t), NEW j \in ValidAt(g, t), t[i].rs = t[j].rs
      PROVE  i = j
  <2>1. CASE /\ i \in ValidAt(g, q) /\ t[i] = q[i]
             /\ j \in ValidAt(g, q) /\ t[j] = q[j]
    BY <1>6, <2>1 DEF Once
  <2>2. CASE /\ i - n \in ValidAt(g, r) /\ t[i] = r[i - n]
             /\ j - n \in ValidAt(g, r) /\ t[j] = r[j - n]
    <3>1. i - n = j - n
      BY <1>6, <2>2 DEF Once
    <3>2. i \in Int /\ j \in Int
      BY DEF ValidAt
    <3> QED BY <1>1, <3>1, <3>2
  <2>3. \A x \in ValidAt(g, q), y \in ValidAt(g, r) : q[x].rs # r[y].rs
    BY DEF Reached
  <2> QED BY <1>4, <1>6, <2>1, <2>2, <2>3
<1> QED BY <1>5, <1>6 DEF Once, t

\* Counting the live links to s.
LEMMA CountOnce ==
  ASSUME NEW q, Once(tag, q), NEW s
  PROVE  LET any(l) == TRUE
         IN  Hits(q, s, any) = IF s \in Reached(tag, q) THEN 1 ELSE 0
<1> DEFINE H == {i \in 1 .. Len(q) : q[i].rs = s /\ Valid(q[i]) /\ TRUE}
<1>1. H = {i \in ValidAt(tag, q) : q[i].rs = s}
  BY DEF ValidAt, HasTag, Valid
<1> HIDE DEF H
<1>2. CASE s \in Reached(tag, q)
  <2>1. PICK i \in ValidAt(tag, q) : q[i].rs = s
    BY <1>2 DEF Reached
  <2>2. H = {i}
    BY <1>1, <2>1 DEF Once
  <2>3. Cardinality(H) = 1
    BY <2>2, FS_Singleton
  <2> QED BY <1>2, <2>3 DEF Hits, H
<1>3. CASE s \notin Reached(tag, q)
  <2>1. H = {}
    BY <1>1, <1>3 DEF Reached
  <2>2. Cardinality(H) = 0
    BY <2>1, FS_EmptySet
  <2> QED BY <1>3, <2>2 DEF Hits, H
<1> QED BY <1>2, <1>3

\* No instruction is lost between the queues of the core: whatever the
\* latencies, the requeueing for want of units, the recoveries and the reuse
\* of stations, each one in the window waits for an operand, is on the ready
\* list once, has one completion event, or is a load lsq_refresh looks at.
THEOREM NothingIsLost == Spec => []NoLostInstruction
<1>1. CoreInv /\ FlowInv => NoLostInstruction
  <2> SUFFICES ASSUME CoreInv, FlowInv, NEW s \in Live
               PROVE  LET any(l) == TRUE
                          ready  == Hits(ready_queue \o node, s, any)
                          events == Hits(event_queue, s, any)
                      IN  /\ ready = IF s \in queued THEN 1 ELSE 0
                          /\ events = IF s \in issued \ completed THEN 1 ELSE 0
                          /\ s \notin queued \cup issued \cup completed =>
                               ~OperandsReady(s) \/ (InLSQ(s) /\ ent[s].op = "load")
    BY DEF NoLostInstruction
  <2> DEFINE q == ready_queue \o node
  <2>1. Once(tag, q) /\ Reached(tag, q) = Reached(tag, ready_queue) \cup Reached(tag, node)
    <3>1. ready_queue \in Seq(Good(ReadyNode)) /\ node \in Seq(Good(ReadyNode))
      BY DEF CoreInv, LinksInv
    <3> QED BY <3>1, ConcatFlow DEF FlowInv, ReadyInv
  <2>2. s \in Reached(tag, q) <=> s \in queued
    BY <2>1 DEF FlowInv, ReadyInv
  <2>3. s \in Reached(tag, event_queue) <=> s \in issued \ completed
    BY DEF FlowInv, EventInv
  <2>4. Once(tag, event_queue)
    BY DEF FlowInv, EventInv
  <2>5. s \notin queued \cup issued \cup completed =>
          ~OperandsReady(s) \/ (InLSQ(s) /\ ent[s].op = "load")
    BY DEF FlowInv, StatusInv, Started
  <2> DEFINE any(l) == TRUE
  <2>6. Hits(q, s, any) = IF s \in queued THEN 1 ELSE 0
    BY <2>1, <2>2, CountOnce
  <2>7. Hits(event_queue, s, any) = IF s \in issued \ completed THEN 1 ELSE 0
    BY <2>3, <2>4, CountOnce
  <2> QED BY <2>5, <2>6, <2>7
<1> QED BY <1>1, FlowInvariant, PTL

\* readyq_enqueue and ruu_issue are never handed an operation that is queued,
\* issued, completed or without its operands, and no operand is woken twice:
\* none of their panics, nor ruu_writeback's, is reached.
THEOREM WakeupsAreFresh == Spec => []~(BadWakeup \/ BadIssue)
<1>1. CoreInv /\ FlowInv => ~BadWakeup
  <2> SUFFICES ASSUME CoreInv, FlowInv, BadWakeup PROVE FALSE
    OBVIOUS
  <2> DEFINE l == Head(odep_list[wb])
  <2>1. /\ wb \in Station /\ odep_list[wb] \in Seq(Good(OdepLink)) /\ odep_list[wb] # <<>>
        /\ Valid(l) /\ (l.opnum \in idep_ready[l.rs] \/ l.rs \in queued)
    BY DEF BadWakeup, CoreInv, WbInv, LinksInv
  <2>2. 1 \in 1 .. Len(odep_list[wb]) /\ l = odep_list[wb][1] /\ l \in Good(OdepLink)
    BY <2>1, HeadTailProperties, EmptySeq, ElementOfSeq
  <2> HIDE DEF l
  <2>3. 1 \in ValidAt(tag, odep_list[wb])
    BY <2>1, <2>2 DEF ValidAt, HasTag, Valid
  <2>4. l.rs \in Live /\ l.opnum \notin idep_ready[l.rs]
    BY <2>1, <2>2, <2>3, QueuesOld DEF CoreInv, FlowInv, WakeInv
  <2>5. l.opnum \in Operand
    BY <2>2 DEF Good, OdepLink
  <2>6. l.rs \notin queued
    BY <2>4, <2>5 DEF FlowInv, StatusInv, Started, OperandsReady
  <2> QED BY <2>1, <2>4, <2>6
<1>2. CoreInv /\ FlowInv => ~BadIssue
  <2> SUFFICES ASSUME CoreInv, FlowInv, BadIssue PROVE FALSE
    OBVIOUS
  <2> DEFINE s == Head(node).rs
  <2>1. /\ node # <<>> /\ Valid(Head(node))
        /\ \/ ~OperandsReady(s) \/ s \notin queued \/ s \in issued \cup completed
           \/ StoreInLSQ(s) /\ (ent[s].out # NA \/ ent[s].recover_inst)
    BY DEF BadIssue
  <2>2. /\ s \in Live /\ s \in queued /\ s \notin issued \cup completed
        /\ OperandsReady(s)
    BY <2>1, FirstNode
  <2> HIDE DEF s
  <2>3. StoreInLSQ(s) => ent[s].op = "store"
    BY DEF StoreInLSQ, IsStore, IsAtomic
  <2>4. StoreInLSQ(s) => ent[s].out = NA
    BY <2>2, <2>3 DEF FlowInv, KindInv
  <2>5. StoreInLSQ(s) => ~ent[s].recover_inst
    <3>1. s \in Station
      BY <2>2, LiveStations DEF CoreInv
    <3>2. InLSQ(s) => s \notin {RUU(i) : i \in 0 .. RUU_size - 1}
      BY DEF InLSQ, RUU
    <3> QED BY <3>1, <3>2 DEF StoreInLSQ, CoreInv, FixInv, BranchesInRUU
  <2> QED BY <2>1, <2>2, <2>4, <2>5
<1>3. CoreInv /\ FlowInv => ~(BadWakeup \/ BadIssue)
  BY <1>1, <1>2
<1> QED BY <1>3, FlowInvariant, PTL

-----------------------------------------------------------------------------
(* The two ends of the window.                                             *)

\* No two instructions of the window have the same sequence number.
SeqDistinct == \A s, t \in Live : ent[s].seq = ent[t].seq => s = t

LEMMA Ends ==
  ASSUME FixInv
  PROVE  /\ RUU_num \in 0 .. RUU_size /\ LSQ_num \in 0 .. LSQ_size
         /\ RUU_num > 0 => /\ CommitHead = RUU_slot(0)
                           /\ LastRUU = RUU_slot(RUU_num - 1)
         /\ LSQ_num > 0 => /\ CommitMem = LSQ_slot(0)
                           /\ LastLSQ = LSQ_slot(LSQ_num - 1)
         /\ RUU_num > 0 /\ ent[CommitHead].ea_comp =>
              LSQ_num > 0 /\ ent[CommitMem].seq = ent[CommitHead].seq + 1
         /\ RUU_num > 0 /\ ent[LastRUU].ea_comp =>
              LSQ_num > 0 /\ ent[LastLSQ].seq = ent[LastRUU].seq + 1
<1> USE Sizes
<1>1. /\ RUU_head \in 0 .. RUU_size - 1 /\ LSQ_head \in 0 .. LSQ_size - 1
      /\ Win(ent, RUU_head, RUU_tail, RUU_num, LSQ_head, LSQ_tail, LSQ_num)
  BY WindowForm DEF FixInv, WinType
<1>2. /\ RUU_num \in 0 .. RUU_size /\ RUU_tail = At(RUU_head, RUU_num, RUU_size)
      /\ LSQ_num \in 0 .. LSQ_size /\ LSQ_tail = At(LSQ_head, LSQ_num, LSQ_size)
      /\ Pairing(RSeq(ent, RUU_head), REa(ent, RUU_head), RUU_num,
                 LSeq(ent, LSQ_head), LSQ_num)
  BY <1>1 DEF Win
<1>3. At(RUU_head, 0, RUU_size) = RUU_head /\ At(LSQ_head, 0, LSQ_size) = LSQ_head
  BY <1>1 DEF At
<1>4. /\ \A k \in 0 .. RUU_size : RUU_slot(k) = RUU(At(RUU_head, k, RUU_size))
      /\ \A k \in 0 .. LSQ_size : LSQ_slot(k) = LSQ(At(LSQ_head, k, LSQ_size))
  BY Slots DEF FixInv
<1>5. ASSUME RUU_num > 0
      PROVE  CommitHead = RUU_slot(0) /\ LastRUU = RUU_slot(RUU_num - 1)
  <2>1. Dec(RUU_tail, RUU_size) = At(RUU_head, RUU_num - 1, RUU_size)
    <3>1. RUU_num \in 1 .. RUU_size
      BY <1>2, <1>5
    <3> QED BY <1>1, <1>2, <3>1, AtDec
  <2>2. 0 \in 0 .. RUU_size /\ RUU_num - 1 \in 0 .. RUU_size
    BY <1>2, <1>5
  <2> QED BY <1>3, <1>4, <2>1, <2>2 DEF CommitHead, LastRUU
<1>6. ASSUME LSQ_num > 0
      PROVE  CommitMem = LSQ_slot(0) /\ LastLSQ = LSQ_slot(LSQ_num - 1)
  <2>1. Dec(LSQ_tail, LSQ_size) = At(LSQ_head, LSQ_num - 1, LSQ_size)
    <3>1. LSQ_num \in 1 .. LSQ_size
      BY <1>2, <1>6
    <3> QED BY <1>1, <1>2, <3>1, AtDec
  <2>2. 0 \in 0 .. LSQ_size /\ LSQ_num - 1 \in 0 .. LSQ_size
    BY <1>2, <1>6
  <2> QED BY <1>3, <1>4, <2>1, <2>2 DEF CommitMem, LastLSQ
<1> DEFINE f == RSeq(ent, RUU_head)
           E == REa(ent, RUU_head)
           g == LSeq(ent, LSQ_head)
<1>7. /\ \A k \in 0 .. RUU_size - 1 : f[k] = ent[RUU_slot(k)].seq
      /\ \A k \in 0 .. RUU_size - 1 : k \in E <=> ent[RUU_slot(k)].ea_comp
      /\ \A k \in 0 .. LSQ_size - 1 : g[k] = ent[LSQ_slot(k)].seq
  <2>1. \A k \in 0 .. RUU_size - 1 : f[k] = ent[RUU(At(RUU_head, k, RUU_size))].seq
    BY DEF RSeq
  <2>2. \A k \in 0 .. RUU_size - 1 : k \in E <=> ent[RUU(At(RUU_head, k, RUU_size))].ea_comp
    BY DEF REa
  <2>3. \A k \in 0 .. LSQ_size - 1 : g[k] = ent[LSQ(At(LSQ_head, k, LSQ_size))].seq
    BY DEF LSeq
  <2>4. \A k \in 0 .. RUU_size - 1 : k \in 0 .. RUU_size
    OBVIOUS
  <2>5. \A k \in 0 .. LSQ_size - 1 : k \in 0 .. LSQ_size
    OBVIOUS
  <2> HIDE DEF f, E, g
  <2> QED BY <1>4, <2>1, <2>2, <2>3, <2>4, <2>5
<1> HIDE DEF f, E, g
<1>8. Pairing(f, E, RUU_num, g, LSQ_num)
  BY <1>2 DEF f, E, g
<1>9. ASSUME RUU_num > 0, ent[CommitHead].ea_comp
      PROVE  LSQ_num > 0 /\ ent[CommitMem].seq = ent[CommitHead].seq + 1
  <2>1. 0 \in 0 .. RUU_size - 1 /\ 0 \in 0 .. LSQ_size - 1 /\ 0 \in E
    BY <1>5, <1>7, <1>9
  <2>2. LSQ_num > 0 /\ g[0] = f[0] + 1
    BY <1>8, <1>9, <2>1, PairFirst
  <2> QED BY <1>5, <1>6, <1>7, <1>9, <2>1, <2>2
<1>10. ASSUME RUU_num > 0, ent[LastRUU].ea_comp
       PROVE  LSQ_num > 0 /\ ent[LastLSQ].seq = ent[LastRUU].seq + 1
  <2>1. RUU_num - 1 \in 0 .. RUU_size - 1
    BY <1>2, <1>10
  <2>2. RUU_num - 1 \in E
    BY <1>5, <1>7, <1>10, <2>1
  <2>3. LSQ_num > 0 /\ g[LSQ_num - 1] = f[RUU_num - 1] + 1
    BY <1>8, <1>10, <2>2, PairLast
  <2>4. LSQ_num - 1 \in 0 .. LSQ_size - 1
    BY <1>2, <2>3
  <2> QED BY <1>5, <1>6, <1>7, <1>10, <2>1, <2>3, <2>4
<1> QED BY <1>2, <1>5, <1>6, <1>9, <1>10

\* The sequence numbers of the window by place.
LEMMA WindowOrder ==
  ASSUME FixInv
  PROVE  /\ RUU_num \in 0 .. RUU_size /\ LSQ_num \in 0 .. LSQ_size
         /\ \A k \in 0 .. RUU_num - 1 : ent[RUU_slot(k)].seq \in Nat
         /\ \A k \in 0 .. LSQ_num - 1 : ent[LSQ_slot(k)].seq \in Nat
         /\ \A j, k \in 0 .. RUU_num - 1 :
              j < k => ent[RUU_slot(j)].seq < ent[RUU_slot(k)].seq
         /\ \A j, k \in 0 .. LSQ_num - 1 :
              j < k => ent[LSQ_slot(j)].seq < ent[LSQ_slot(k)].seq
         /\ \A j \in 0 .. LSQ_num - 1 :
              \E k \in 0 .. RUU_num - 1 :
                /\ ent[RUU_slot(k)].ea_comp
                /\ ent[LSQ_slot(j)].seq = ent[RUU_slot(k)].seq + 1
<1>1. /\ RUU_num \in 0 .. RUU_size /\ LSQ_num \in 0 .. LSQ_size
      /\ \A j, k \in 0 .. RUU_num - 1 :
              j < k => ent[RUU_slot(j)].seq < ent[RUU_slot(k)].seq
      /\ \A j, k \in 0 .. LSQ_num - 1 :
              j < k => ent[LSQ_slot(j)].seq < ent[LSQ_slot(k)].seq
      /\ \A j \in 0 .. LSQ_num - 1 :
              \E k \in 0 .. RUU_num - 1 :
                /\ ent[RUU_slot(k)].ea_comp
                /\ ent[LSQ_slot(j)].seq = ent[RUU_slot(k)].seq + 1
  BY DEF FixInv, WindowInSync, RUUQueue, LSQQueue, Paired
<1>2. \A s \in Live : ent[s].seq \in Nat
  BY LiveStations, EntryFields DEF FixInv
<1>3. /\ \A k \in 0 .. RUU_num - 1 : RUU_slot(k) \in Live
      /\ \A k \in 0 .. LSQ_num - 1 : LSQ_slot(k) \in Live
  BY DEF Live, LiveRUU, LiveLSQ
<1> QED BY <1>1, <1>2, <1>3

\* What ruu_commit retires is older than all the rest.
LEMMA HeadIsOldest ==
  ASSUME FixInv, SeqDistinct, RUU_num > 0
  PROVE  /\ Retired \subseteq Live
         /\ \A s \in Retired, t \in Live \ Retired : ent[s].seq < ent[t].seq
<1> DEFINE a == ent[CommitHead].seq
<1>1. /\ 0 \in 0 .. RUU_num - 1 /\ RUU_slot(0) = CommitHead
      /\ ent[CommitHead].ea_comp =>
           /\ 0 \in 0 .. LSQ_num - 1 /\ LSQ_slot(0) = CommitMem
           /\ ent[CommitMem].seq = a + 1
  BY Ends
<1>2. Retired \subseteq Live
  BY <1>1 DEF Retired, Live, LiveRUU, LiveLSQ
<1>3. a \in Nat
  BY <1>1, WindowOrder
<1> HIDE DEF a
<1>4. ASSUME NEW k \in 0 .. RUU_num - 1, RUU_slot(k) \notin Retired
      PROVE  /\ ent[RUU_slot(k)].seq \in Nat /\ a < ent[RUU_slot(k)].seq
             /\ ent[CommitHead].ea_comp => a + 1 < ent[RUU_slot(k)].seq
  <2>1. k # 0 /\ k > 0
    BY <1>1, <1>4 DEF Retired
  <2>2. a < ent[RUU_slot(k)].seq /\ ent[RUU_slot(k)].seq \in Nat
    BY <1>1, <2>1, WindowOrder DEF a
  <2>3. ent[CommitHead].ea_comp => ent[RUU_slot(k)].seq # a + 1
    <3>1. RUU_slot(k) \in Live
      BY DEF Live, LiveRUU
    <3>2. ent[CommitHead].ea_comp => CommitMem \in Live /\ RUU_slot(k) # CommitMem
      BY <1>1, <1>2, <1>4 DEF Retired
    <3> QED BY <1>1, <3>1, <3>2 DEF SeqDistinct
  <2> QED BY <1>3, <2>2, <2>3
<1>5. ASSUME NEW j \in 0 .. LSQ_num - 1, LSQ_slot(j) \notin Retired
      PROVE  /\ ent[LSQ_slot(j)].seq \in Nat /\ a < ent[LSQ_slot(j)].seq
             /\ ent[CommitHead].ea_comp => a + 1 < ent[LSQ_slot(j)].seq
  <2>1. PICK k \in 0 .. RUU_num - 1 : /\ ent[RUU_slot(k)].ea_comp
                                      /\ ent[LSQ_slot(j)].seq = ent[RUU_slot(k)].seq + 1
    BY WindowOrder
  <2>2. RUU_slot(k) = CommitHead => LSQ_slot(j) = CommitMem
    <3>1. LSQ_slot(j) \in Live
      BY DEF Live, LiveLSQ
    <3>2. ent[CommitHead].ea_comp => CommitMem \in Live
      BY <1>2 DEF Retired
    <3> QED BY <1>1, <2>1, <3>1, <3>2 DEF SeqDistinct, a
  <2>3. RUU_slot(k) \notin Retired
    <3>1. RUU_slot(k) # CommitMem
      BY Stations DEF RUU_slot, CommitMem
    <3>2. RUU_slot(k) # CommitHead
      BY <1>5, <2>1, <2>2 DEF Retired
    <3> QED BY <3>1, <3>2 DEF Retired
  <2> QED BY <1>3, <1>4, <2>1, <2>3
<1>6. ASSUME NEW s \in Retired, NEW t \in Live \ Retired
      PROVE  ent[s].seq < ent[t].seq
  <2>1. /\ ent[t].seq \in Nat /\ a < ent[t].seq
        /\ ent[CommitHead].ea_comp => a + 1 < ent[t].seq
    BY <1>4, <1>5 DEF Live, LiveRUU, LiveLSQ
  <2>2. ent[s].seq = a \/ (ent[CommitHead].ea_comp /\ ent[s].seq = a + 1)
    BY <1>1 DEF Retired, a
  <2> QED BY <2>1, <2>2
<1> QED BY <1>2, <1>6

\* What an iteration of ruu_recover squashes is younger than all the rest.
LEMMA LastIsYoungest ==
  ASSUME FixInv, SeqDistinct, RUU_num > 0
  PROVE  /\ Squashed \subseteq Live
         /\ \A s \in Squashed, t \in Live \ Squashed : ent[t].seq < ent[s].seq
<1> DEFINE b == ent[LastRUU].seq
<1>1. /\ RUU_num - 1 \in 0 .. RUU_num - 1 /\ RUU_slot(RUU_num - 1) = LastRUU
      /\ ent[LastRUU].ea_comp =>
           /\ LSQ_num - 1 \in 0 .. LSQ_num - 1 /\ LSQ_slot(LSQ_num - 1) = LastLSQ
           /\ ent[LastLSQ].seq = b + 1
  BY Ends
<1>2. Squashed \subseteq Live
  BY <1>1 DEF Squashed, Live, LiveRUU, LiveLSQ
<1>3. b \in Nat
  BY <1>1, WindowOrder
<1> HIDE DEF b
<1>4. ASSUME NEW k \in 0 .. RUU_num - 1, RUU_slot(k) \notin Squashed
      PROVE  ent[RUU_slot(k)].seq \in Nat /\ ent[RUU_slot(k)].seq < b
  <2>1. k < RUU_num - 1
    <3>1. k # RUU_num - 1
      BY <1>1, <1>4 DEF Squashed
    <3> QED BY <1>1, <3>1, Ends
  <2> QED BY <1>1, <2>1, WindowOrder DEF b
<1>5. ASSUME NEW j \in 0 .. LSQ_num - 1, LSQ_slot(j) \notin Squashed
      PROVE  ent[LSQ_slot(j)].seq \in Nat /\ ent[LSQ_slot(j)].seq < b
  <2>1. PICK k \in 0 .. RUU_num - 1 : /\ ent[RUU_slot(k)].ea_comp
                                      /\ ent[LSQ_slot(j)].seq = ent[RUU_slot(k)].seq + 1
    BY WindowOrder
  <2>0. LSQ_slot(j) \in Live
    BY DEF Live, LiveLSQ
  <2>2. RUU_slot(k) = LastRUU => LSQ_slot(j) = LastLSQ
    <3>2. ent[LastRUU].ea_comp => LastLSQ \in Live
      BY <1>2 DEF Squashed
    <3> QED BY <1>1, <2>0, <2>1, <3>2 DEF SeqDistinct, b
  <2>3. RUU_slot(k) \notin Squashed
    <3>1. RUU_slot(k) # LastLSQ
      BY Stations DEF RUU_slot, LastLSQ
    <3>2. RUU_slot(k) # LastRUU
      BY <1>5, <2>1, <2>2 DEF Squashed
    <3> QED BY <3>1, <3>2 DEF Squashed
  <2>4. ent[LSQ_slot(j)].seq # b
    <3>1. LastRUU \in Live /\ LastRUU \in Squashed
      BY <1>2 DEF Squashed
    <3> QED BY <1>5, <2>0, <3>1 DEF SeqDistinct, b
  <2> QED BY <1>3, <1>4, <2>1, <2>3, <2>4
<1>6. ASSUME NEW s \in Squashed, NEW t \in Live \ Squashed
      PROVE  ent[t].seq < ent[s].seq
  <2>1. ent[t].seq \in Nat /\ ent[t].seq < b
    BY <1>4, <1>5 DEF Live, LiveRUU, LiveLSQ
  <2>2. ent[s].seq = b \/ (ent[LastRUU].ea_comp /\ ent[s].seq = b + 1)
    BY <1>1 DEF Squashed, b
  <2> QED BY <1>3, <2>1, <2>2
<1> QED BY <1>2, <1>6

-----------------------------------------------------------------------------
(* Speculation.                                                            *)

\* A mispredicted branch that is not repaired yet.
Open(s) == /\ ent[s].recover_inst
           /\ s \notin completed \/ (stage = "recover" /\ s = wb)

\* The machine speculates exactly behind the one open branch; during a
\* recovery that is the branch being written back.
SpecInv ==
  /\ spec_mode <=> \E b \in LiveRUU : Open(b)
  /\ \A b, c \in LiveRUU : Open(b) /\ Open(c) => b = c
  /\ \A s \in Live : ent[s].spec <=>
       \E b \in LiveRUU : Open(b) /\ ent[b].seq < ent[s].seq
  /\ stage = "recover" => ent[wb].recover_inst /\ wb \in completed

\* What must enter a drained machine is the oldest in the RUU and not
\* speculative.
FirstInv == DrainedInstructionIsFirst

SpeculationInv == SeqDistinct /\ SpecInv /\ FirstInv

LEMMA InitSpeculation == Init => SpeculationInv
<1> SUFFICES ASSUME Init PROVE SpeculationInv
  OBVIOUS
<1>1. Live = {} /\ LiveRUU = {} /\ spec_mode = FALSE /\ stage = "commit"
  BY DEF Init, Live, LiveRUU, LiveLSQ
<1> QED BY <1>1 DEF SpeculationInv, SeqDistinct, SpecInv, FirstInv,
                    DrainedInstructionIsFirst

\* Steps that leave the window and the branches alone.
LEMMA SpeculationFrame ==
  ASSUME CoreInv, SpeculationInv, Still, spec_mode' = spec_mode,
         stage # "recover", stage' # "recover",
         \A b \in LiveRUU : ent[b].recover_inst => (b \in completed' <=> b \in completed)
  PROVE  SpeculationInv'
<1>1. /\ Live' = Live /\ LiveRUU' = LiveRUU /\ ent' = ent
      /\ RUU_head' = RUU_head
  BY StillWindow DEF CoreInv, Still, windowVars
<1>2. SeqDistinct'
  BY <1>1 DEF SpeculationInv, SeqDistinct
<1>3. \A b \in LiveRUU : Open(b)' <=> Open(b)
  BY <1>1 DEF Open
<1>4. SpecInv'
  BY <1>1, <1>3 DEF SpeculationInv, SpecInv
<1>5. FirstInv'
  BY <1>1 DEF SpeculationInv, FirstInv, DrainedInstructionIsFirst, CommitHead
<1> QED BY <1>2, <1>4, <1>5 DEF SpeculationInv

LEMMA CommitSpeculation ==
  ASSUME CoreInv, SpeculationInv, Commit
  PROVE  SpeculationInv'
<1>1. Live' = Live \ Retired /\ LiveRUU' = LiveRUU \ Retired
  BY CommitWindow
<1>2. /\ stage = "commit" /\ CommitHead \in completed
      /\ UNCHANGED <<stage, wb, ent, completed, spec_mode>>
  BY DEF Commit, CanRetire, statusVars
<1>3. SeqDistinct'
  BY <1>1, <1>2 DEF SpeculationInv, SeqDistinct
<1>4. \A b : Open(b)' <=> Open(b)
  BY <1>2 DEF Open
\* The open branch is not the one that retires.
<1>5. \A b \in LiveRUU : Open(b) => b \in LiveRUU'
  <2>1. CommitMem \notin LiveRUU
    BY Stations DEF CommitMem, LiveRUU, RUU_slot
  <2> QED BY <1>1, <1>2, <2>1 DEF Open, Retired
<1>6. LiveRUU' \subseteq LiveRUU /\ Live' \subseteq Live
  BY <1>1
<1>7. SpecInv'
  BY <1>2, <1>4, <1>5, <1>6 DEF SpeculationInv, SpecInv
<1>8. FirstInv'
  <2>1. \A s \in LiveRUU' : ent'[s] = ent[s] /\ s \in LiveRUU /\ s # CommitHead
    BY <1>1, <1>2 DEF Retired
  <2> QED BY <2>1 DEF SpeculationInv, FirstInv, DrainedInstructionIsFirst
<1> QED BY <1>3, <1>7, <1>8 DEF SpeculationInv

LEMMA CompleteSpeculation ==
  ASSUME CoreInv, SpeculationInv, Complete
  PROVE  SpeculationInv'
<1>1. /\ stage = "writeback" /\ stage' = "broadcast" /\ spec_mode' = spec_mode
      /\ completed' = completed \cup {Head(event_queue).rs}
      /\ ~ent[Head(event_queue).rs].recover_inst
      /\ Still
  BY DEF Complete, Still, countVars
<1> QED BY <1>1, SpeculationFrame

LEMMA CompleteMispredictedSpeculation ==
  ASSUME CoreInv, FlowInv, SpeculationInv, CompleteMispredicted
  PROVE  SpeculationInv'
<1> DEFINE s == Head(event_queue).rs
<1>1. /\ stage = "writeback" /\ stage' = "recover" /\ spec_mode' = spec_mode
      /\ event_queue # <<>> /\ Valid(Head(event_queue))
      /\ completed' = completed \cup {s} /\ wb' = s /\ ent[s].recover_inst
      /\ Still
  BY DEF CompleteMispredicted, Still, countVars, Due
<1>2. s \notin completed
  BY <1>1, FirstEvent
<1> HIDE DEF s
<1>3. /\ Live' = Live /\ LiveRUU' = LiveRUU /\ ent' = ent
      /\ RUU_head' = RUU_head
  BY <1>1, StillWindow DEF CoreInv, Still, windowVars
<1>4. SeqDistinct'
  BY <1>3 DEF SpeculationInv, SeqDistinct
<1>5. \A b : Open(b)' <=> Open(b)
  BY <1>1, <1>2, <1>3 DEF Open
<1>6. SpecInv'
  BY <1>1, <1>3, <1>5 DEF SpeculationInv, SpecInv
<1>7. FirstInv'
  BY <1>3 DEF SpeculationInv, FirstInv, DrainedInstructionIsFirst, CommitHead
<1> QED BY <1>4, <1>6, <1>7 DEF SpeculationInv

LEMMA SquashSpeculation ==
  ASSUME CoreInv, SpeculationInv, Squash
  PROVE  SpeculationInv'
<1>1. Live' = Live \ Squashed /\ LiveRUU' = LiveRUU \ Squashed
  BY SquashWindow
<1>2. /\ stage = "recover" /\ LastRUU # wb /\ wb \in LiveRUU
      /\ UNCHANGED <<stage, wb, ent, completed, spec_mode, RUU_head>>
  BY DEF Squash, statusVars, LastRUU, CoreInv, WbInv
<1>3. SeqDistinct'
  BY <1>1, <1>2 DEF SpeculationInv, SeqDistinct
<1>4. \A b : Open(b)' <=> Open(b)
  BY <1>2 DEF Open
<1>5. \A b \in LiveRUU : Open(b) => b \in LiveRUU'
  <2>1. LastLSQ \notin LiveRUU
    BY Stations DEF LastLSQ, LiveRUU, RUU_slot
  <2>2. Open(wb)
    BY <1>2 DEF SpeculationInv, SpecInv, Open
  <2> QED BY <1>1, <1>2, <2>1, <2>2 DEF SpeculationInv, SpecInv, Squashed
<1>6. LiveRUU' \subseteq LiveRUU /\ Live' \subseteq Live
  BY <1>1
<1>7. SpecInv'
  BY <1>2, <1>4, <1>5, <1>6 DEF SpeculationInv, SpecInv
<1>8. FirstInv'
  BY <1>2, <1>6 DEF SpeculationInv, FirstInv, DrainedInstructionIsFirst, CommitHead
<1> QED BY <1>3, <1>7, <1>8 DEF SpeculationInv

\* The branch is the youngest: nothing of its wrong path is left.
LEMMA RecoverEndSpeculation ==
  ASSUME CoreInv, FlowInv, SpeculationInv, RecoverEnd
  PROVE  /\ SpeculationInv'
         /\ \A s \in Live : ~ent[s].spec /\ ent[s].seq <= ent[wb].seq
<1>1. /\ stage = "recover" /\ stage' = "broadcast" /\ spec_mode' = FALSE
      /\ LastRUU = wb /\ wb \in LiveRUU /\ wb \in Live
      /\ UNCHANGED <<wb, ent, completed>> /\ Still
  BY DEF RecoverEnd, statusVars, countVars, Still, LastRUU, CoreInv, WbInv, Live
<1>2. /\ Live' = Live /\ LiveRUU' = LiveRUU /\ RUU_head' = RUU_head
  BY <1>1, StillWindow DEF CoreInv, Still, windowVars
<1>3. ent[wb].recover_inst /\ wb \in completed /\ Open(wb)
  BY <1>1 DEF SpeculationInv, SpecInv, Open
<1>4. Squashed = {wb}
  BY <1>1, <1>3 DEF Squashed, FlowInv, KindInv
<1>5. RUU_num > 0
  <2>1. RUU_num \in Int
    BY DEF CoreInv, FixInv, WinType
  <2> QED BY <1>1, <2>1 DEF LiveRUU
<1>6. \A s \in Live : ent[s].seq \in Nat
  BY LiveStations, EntryFields DEF CoreInv, FixInv
<1>7. \A s \in Live : s # wb => ent[s].seq < ent[wb].seq
  BY <1>4, <1>5, LastIsYoungest DEF CoreInv, SpeculationInv
<1>8. \A s \in Live : ent[s].seq <= ent[wb].seq
  BY <1>1, <1>6, <1>7
<1>9. \A s \in Live : ~ent[s].spec
  BY <1>1, <1>3, <1>6, <1>8 DEF SpeculationInv, SpecInv
<1>10. \A b \in LiveRUU : ~Open(b)'
  BY <1>1, <1>3 DEF SpeculationInv, SpecInv, Open
<1>11. SeqDistinct'
  BY <1>1, <1>2 DEF SpeculationInv, SeqDistinct
<1>12. SpecInv'
  BY <1>1, <1>2, <1>9, <1>10 DEF SpecInv
<1>13. FirstInv'
  BY <1>1, <1>2 DEF SpeculationInv, FirstInv, DrainedInstructionIsFirst, CommitHead
<1> QED BY <1>8, <1>9, <1>11, <1>12, <1>13 DEF SpeculationInv

LEMMA IssueStoreSpeculation ==
  ASSUME CoreInv, SpeculationInv, NEW s \in Station, IssueStore(s)
  PROVE  SpeculationInv'
<1>1. /\ stage = "issue" /\ stage' = "issue" /\ spec_mode' = spec_mode
      /\ completed' = completed \cup {s} /\ InLSQ(s) /\ Still
  BY DEF IssueStore, IssueNext, StoreInLSQ, Still, countVars
<1>2. s \notin LiveRUU
  BY <1>1 DEF InLSQ, LiveRUU, RUU_slot, RUU
<1> QED BY <1>1, <1>2, SpeculationFrame

LEMMA DispatchSpeculation ==
  ASSUME CoreInv, SpeculationInv, NEW i \in Inst, NEW mp \in BOOLEAN, Dispatch(i, mp),
         mp => i.kind = "ctrl" /\ ~spec_mode
  PROVE  SpeculationInv'
<1>1. /\ stage = "dispatch" /\ stage' = stage /\ wb' = wb /\ RUU_head' = RUU_head
      /\ completed' = completed \ New(i) /\ spec_mode' = (spec_mode \/ mp)
      /\ Drains(i.kind) => RUU_num = 0
  BY DispatchParts
<1>2. /\ New(i) \cap Live = {} /\ NewRUU \in New(i) /\ Live' = Live \cup New(i)
      /\ \A s \in New(i) : ent'[s] = NewEntry(i, mp, s)
      /\ \A s \in Live : ent'[s] = ent[s]
  BY DispatchNew
<1>3. /\ LiveRUU' = LiveRUU \cup {NewRUU} /\ NewRUU # NewLSQ
      /\ LiveRUU \subseteq Live
  BY DispatchWindow DEF Live
<1>4. \A s \in New(i) :
        /\ s = NewRUU \/ (s = NewLSQ /\ IsMem(i.kind))
        /\ ent'[s].op = NewOp(i, s) /\ ent'[s].seq = NewSeq(s)
        /\ ent'[s].spec <=> spec_mode
        /\ ent'[s].recover_inst <=> (mp /\ s = NewRUU)
  <2> SUFFICES ASSUME NEW s \in New(i)
               PROVE  /\ s = NewRUU \/ (s = NewLSQ /\ IsMem(i.kind))
                      /\ ent'[s].op = NewOp(i, s) /\ ent'[s].seq = NewSeq(s)
                      /\ ent'[s].spec <=> spec_mode
                      /\ ent'[s].recover_inst <=> (mp /\ s = NewRUU)
    OBVIOUS
  <2>1. s = NewRUU \/ (s = NewLSQ /\ IsMem(i.kind))
    BY DEF New
  <2>2. ent'[s] = NewEntry(i, mp, s)
    BY <1>2
  <2>3. /\ NewEntry(i, mp, s).op = NewOp(i, s) /\ NewEntry(i, mp, s).seq = NewSeq(s)
        /\ NewEntry(i, mp, s).spec <=> spec_mode
        /\ NewEntry(i, mp, s).recover_inst <=> (mp /\ s = NewRUU)
    BY DEF NewEntry
  <2> QED BY <2>1, <2>2, <2>3
<1>5. /\ inst_seq \in Nat /\ \A s \in Live : ent[s].seq \in Nat /\ ent[s].seq <= inst_seq
  BY LiveStations, EntryFields DEF CoreInv, FixInv, EntType, SeqBound
<1>6. /\ NewSeq(NewRUU) = inst_seq + 1 /\ NewSeq(NewLSQ) = inst_seq + 2
  BY <1>3 DEF NewSeq
<1>7. \A s \in New(i) : ent'[s].seq \in {inst_seq + 1, inst_seq + 2}
  BY <1>4, <1>6
<1>8. SeqDistinct'
  <2>1. ASSUME NEW s \in Live', NEW t \in Live', ent'[s].seq = ent'[t].seq PROVE s = t
    <3>1. CASE s \in Live /\ t \in Live
      BY <1>2, <2>1, <3>1 DEF SpeculationInv, SeqDistinct
    <3>2. CASE s \in New(i) /\ t \in New(i)
      BY <1>4, <1>5, <1>6, <2>1, <3>2
    <3>3. CASE (s \in Live /\ t \in New(i)) \/ (s \in New(i) /\ t \in Live)
      BY <1>2, <1>5, <1>7, <2>1, <3>3
    <3> QED BY <1>2, <3>1, <3>2, <3>3
  <2> QED BY <2>1 DEF SeqDistinct
<1>9. \A b \in LiveRUU : Open(b)' <=> Open(b)
  BY <1>1, <1>2, <1>3 DEF Open
<1> DEFINE O(b) == /\ ent'[b].recover_inst
                   /\ b \notin completed' \/ (stage' = "recover" /\ b = wb')
<1>15. \A b : Open(b)' <=> O(b)
  BY DEF Open
<1>10. O(NewRUU) <=> mp
  <2>1. ent'[NewRUU].recover_inst <=> mp
    BY <1>2, <1>4
  <2>2. NewRUU \notin completed'
    BY <1>1, <1>2
  <2> QED BY <2>1, <2>2
<1> HIDE DEF O
\* A mispredicted branch goes down the right path, and alone.
<1>11. mp => New(i) = {NewRUU} /\ ~spec_mode
  BY DEF New, IsMem
<1>12. spec_mode <=> \E b \in LiveRUU : Open(b)
  BY DEF SpeculationInv, SpecInv
<1>13. SpecInv'
  <2>5. \A b \in LiveRUU : O(b) <=> Open(b)
    BY <1>9, <1>15
  <2>6. O(NewRUU) <=> mp
    BY <1>10
  <2>7. \A b, c \in LiveRUU : Open(b) /\ Open(c) => b = c
    BY DEF SpeculationInv, SpecInv
  <2>8. spec_mode' <=> \E b \in LiveRUU' : O(b)
    <3>1. (\E b \in LiveRUU' : O(b)) <=> (mp \/ \E b \in LiveRUU : Open(b))
      BY <1>3, <2>5, <2>6
    <3> QED BY <1>1, <1>12, <3>1
  <2>1. spec_mode' <=> \E b \in LiveRUU' : Open(b)'
    BY <1>15, <2>8
  <2>9. \A b, c \in LiveRUU' : O(b) /\ O(c) => b = c
    <3>1. mp => \A b \in LiveRUU : ~Open(b)
      BY <1>11, <1>12
    <3> QED BY <1>3, <2>5, <2>6, <2>7, <3>1
  <2>2. \A b, c \in LiveRUU' : Open(b)' /\ Open(c)' => b = c
    BY <1>15, <2>9
  <2>3. ASSUME NEW s \in Live'
        PROVE  ent'[s].spec <=> \E b \in LiveRUU' : Open(b)' /\ ent'[b].seq < ent'[s].seq
    <3>1. CASE s \in Live
      <4>1. \A b \in LiveRUU : ent'[b].seq = ent[b].seq
        BY <1>2, <1>3
      <4>2. ~(ent'[NewRUU].seq < ent'[s].seq) /\ ent'[s] = ent[s]
        BY <1>2, <1>4, <1>5, <1>6, <3>1
      <4>3. ent[s].spec <=> \E b \in LiveRUU : Open(b) /\ ent[b].seq < ent[s].seq
        BY <3>1 DEF SpeculationInv, SpecInv
      <4> QED BY <1>3, <1>9, <4>1, <4>2, <4>3
    <3>2. CASE s \in New(i) /\ ~mp
      <4>1. \A b \in LiveRUU : ent'[b].seq < ent'[s].seq
        BY <1>2, <1>3, <1>5, <1>7, <3>2
      <4>2. ent'[s].spec <=> spec_mode
        BY <1>4, <3>2
      <4>3. (\E b \in LiveRUU' : O(b) /\ ent'[b].seq < ent'[s].seq)
              <=> \E b \in LiveRUU : Open(b)
        BY <1>3, <2>5, <2>6, <3>2, <4>1
      <4> QED BY <1>12, <1>15, <4>2, <4>3
    <3>3. CASE s \in New(i) /\ mp
      <4>1. s = NewRUU /\ ~ent'[s].spec
        BY <1>4, <1>11, <3>3
      <4>2. ~(ent'[NewRUU].seq < ent'[NewRUU].seq)
        BY <1>4, <1>2, <1>5, <1>6
      <4>3. \A b \in LiveRUU : ~Open(b)'
        BY <1>9, <1>11, <1>12, <3>3
      <4> QED BY <1>3, <4>1, <4>2, <4>3
    <3> QED BY <1>2, <3>1, <3>2, <3>3
  <2>4. stage' # "recover"
    BY <1>1
  <2> QED BY <2>1, <2>2, <2>3, <2>4 DEF SpecInv
<1>14. FirstInv'
  <2>1. CommitHead' = CommitHead
    BY <1>1 DEF CommitHead
  <2>2. ASSUME NEW s \in LiveRUU', ent'[s].op \in {"trap", "sync"}
        PROVE  s = CommitHead /\ ~ent'[s].spec
    <3>1. CASE s \in LiveRUU
      BY <1>2, <1>3, <2>2, <3>1 DEF SpeculationInv, FirstInv, DrainedInstructionIsFirst
    <3>2. CASE s = NewRUU
      <4>1. Drains(i.kind)
        BY <1>2, <1>4, <2>2, <3>2 DEF NewOp, Drains
      <4>2. RUU_num = 0
        BY <1>1, <4>1
      <4>3. LiveRUU = {}
        BY <4>2 DEF LiveRUU
      <4>4. ~ent'[s].spec
        BY <1>2, <1>4, <1>12, <3>2, <4>3
      <4>5. RUU_tail = RUU_head
        <5>1. /\ RUU_head \in 0 .. RUU_size - 1
              /\ RUU_tail = At(RUU_head, RUU_num, RUU_size)
          <6>1. /\ RUU_head \in 0 .. RUU_size - 1
                /\ Win(ent, RUU_head, RUU_tail, RUU_num, LSQ_head, LSQ_tail, LSQ_num)
            BY WindowForm DEF CoreInv, FixInv, WinType
          <6> QED BY <6>1 DEF Win
        <5> QED BY <4>2, <5>1, SizeAssumption DEF At
      <4> QED BY <3>2, <4>4, <4>5 DEF NewRUU, CommitHead
    <3> QED BY <1>3, <3>1, <3>2
  <2> QED BY <2>1, <2>2 DEF FirstInv, DrainedInstructionIsFirst
<1> QED BY <1>8, <1>13, <1>14 DEF SpeculationInv

LEMMA NextSpeculation ==
  CoreInv /\ FlowInv /\ SpeculationInv /\ [Next]_vars => SpeculationInv'
<1> SUFFICES ASSUME CoreInv, FlowInv, SpeculationInv, [Next]_vars PROVE SpeculationInv'
  OBVIOUS
<1>1. CASE Commit BY <1>1, CommitSpeculation
<1>2. CASE Complete BY <1>2, CompleteSpeculation
<1>3. CASE CompleteMispredicted BY <1>3, CompleteMispredictedSpeculation
<1>4. CASE Squash BY <1>4, SquashSpeculation
<1>5. CASE RecoverEnd BY <1>5, RecoverEndSpeculation
<1>6. ASSUME NEW s \in Station, IssueStore(s) PROVE SpeculationInv'
  BY <1>6, IssueStoreSpeculation
<1>7. CASE DispatchInst
  BY <1>7, DispatchSpeculation DEF DispatchInst
\* No other step touches the window, the branches or spec_mode.
<1>8. CASE CommitEnd
  BY <1>8, SpeculationFrame DEF CommitEnd, Still, statusVars, countVars
<1>9. CASE SkipEvent
  BY <1>9, SpeculationFrame DEF SkipEvent, Still, statusVars, countVars
<1>10. CASE WritebackEnd
  BY <1>10, SpeculationFrame DEF WritebackEnd, Still, statusVars, countVars
<1>11. CASE Broadcast
  BY <1>11, SpeculationFrame DEF Broadcast, Still, countVars
<1>12. CASE BroadcastEnd
  BY <1>12, SpeculationFrame DEF BroadcastEnd, Still, statusVars, countVars
<1>13. CASE Refresh
  BY <1>13, SpeculationFrame DEF Refresh, Still, countVars
<1>14. CASE RefreshEnd
  BY <1>14, SpeculationFrame DEF RefreshEnd, Still, statusVars, countVars
<1>15. CASE IssueSkip
  BY <1>15, SpeculationFrame DEF IssueSkip, Still, statusVars, countVars
<1>16. CASE IssueEnd
  BY <1>16, SpeculationFrame DEF IssueEnd, Still, statusVars, countVars
<1>17. ASSUME NEW s \in Station, IssueToUnit(s) \/ IssueUnitless(s) PROVE SpeculationInv'
  <2>1. PICK lat \in Nat \ {0} : Execute(s, lat)
    BY <1>17, Starts
  <2>2. stage = "issue"
    BY <1>17, Starts DEF IssueNext
  <2> QED BY <2>1, <2>2, SpeculationFrame DEF Execute, Still, countVars
<1>18. ASSUME NEW s \in Station, Requeue(s) PROVE SpeculationInv'
  BY <1>18, SpeculationFrame DEF Requeue, IssueNext, Still, statusVars, countVars
<1>19. CASE DispatchEnd
  BY <1>19, SpeculationFrame DEF DispatchEnd, Still, statusVars, countVars
<1>20. CASE UNCHANGED vars
  <2>1. /\ Still /\ UNCHANGED <<spec_mode, stage, wb, completed>>
    BY <1>20 DEF vars, Still, statusVars, countVars
  <2>2. /\ Live' = Live /\ LiveRUU' = LiveRUU /\ ent' = ent /\ RUU_head' = RUU_head
    BY <2>1, StillWindow DEF CoreInv, Still, windowVars
  <2>3. \A b : Open(b)' <=> Open(b)
    BY <2>1, <2>2 DEF Open
  <2>4. SeqDistinct' /\ SpecInv' /\ FirstInv'
    BY <2>1, <2>2, <2>3 DEF SpeculationInv, SeqDistinct, SpecInv, FirstInv,
       DrainedInstructionIsFirst, CommitHead
  <2> QED BY <2>4 DEF SpeculationInv
<1> QED BY <1>1, <1>2, <1>3, <1>4, <1>5, <1>6, <1>7, <1>8, <1>9, <1>10, <1>11,
           <1>12, <1>13, <1>14, <1>15, <1>16, <1>17, <1>18, <1>19, <1>20 DEF Next

\* The machine speculates behind one mispredicted branch, numbers its
\* instructions apart and drains before a system call or fence, in every
\* state (fetch's misprediction flag in ruu_dispatch, "completed out of sync"
\* in ruu_writeback, the squash of ruu_recover).
THEOREM SpeculationInvariant == Spec => [](CoreInv /\ FlowInv /\ SpeculationInv)
<1>1. Init => CoreInv /\ FlowInv /\ SpeculationInv
  BY InitCore, InitFlow, InitSpeculation
<1>2. (CoreInv /\ FlowInv /\ SpeculationInv) /\ [Next]_vars
        => (CoreInv /\ FlowInv /\ SpeculationInv)'
  BY NextCore, NextFlow, NextSpeculation
<1> QED BY <1>1, <1>2, PTL DEF Spec

-----------------------------------------------------------------------------
(* What follows.                                                           *)

\* What recovery squashes is the wrong path, all of it: the machine speculates
\* exactly while one mispredicted branch is in the RUU, and the speculative
\* entries are the ones younger than it (ruu_dispatch, ruu_recover).
THEOREM SpeculationIsRight == Spec => []SpeculationIsBehindOneBranch
<1>1. SpeculationInv => SpeculationIsBehindOneBranch
  <2> SUFFICES ASSUME SpeculationInv PROVE SpeculationIsBehindOneBranch
    OBVIOUS
  <2>1. OpenBranches = {s \in LiveRUU : Open(s)}
    BY DEF OpenBranches, Open
  <2>2. /\ spec_mode <=> \E b \in LiveRUU : Open(b)
        /\ \A b, c \in LiveRUU : Open(b) /\ Open(c) => b = c
        /\ \A s \in Live : ent[s].spec <=>
             \E b \in LiveRUU : Open(b) /\ ent[b].seq < ent[s].seq
    BY DEF SpeculationInv, SpecInv
  <2>3. Cardinality(OpenBranches) <= 1
    <3>1. CASE OpenBranches = {}
      BY <3>1, FS_EmptySet
    <3>2. CASE OpenBranches # {}
      <4>1. PICK b \in OpenBranches : TRUE
        BY <3>2
      <4>2. OpenBranches = {b}
        BY <2>1, <2>2, <4>1
      <4>3. Cardinality({b}) = 1
        BY FS_Singleton, Zenon
      <4> QED BY <4>2, <4>3
    <3> QED BY <3>1, <3>2
  <2> QED BY <2>1, <2>2, <2>3 DEF SpeculationIsBehindOneBranch
<1> QED BY <1>1, SpeculationInvariant, PTL

\* A system call or fence is alone and on the right path in the RUU (the drain
\* of ruu_dispatch).
THEOREM DrainsAlone == Spec => []DrainedInstructionIsFirst
<1>1. SpeculationInv => DrainedInstructionIsFirst
  BY DEF SpeculationInv, FirstInv
<1> QED BY <1>1, SpeculationInvariant, PTL

\* ruu_writeback's panics are never reached, and neither is ruu_dispatch's
\* "drained and speculative": what completes was issued and had its operands,
\* and only a mispredicted branch of a speculating machine is repaired.
THEOREM CompletionsAreRight == Spec => []~(BadCompletion \/ DrainedSpeculative)
<1>1. CoreInv /\ FlowInv /\ SpeculationInv => ~BadCompletion
  <2> SUFFICES ASSUME CoreInv, FlowInv, SpeculationInv, BadCompletion PROVE FALSE
    OBVIOUS
  <2> DEFINE s == Head(event_queue).rs
  <2>1. /\ Due /\ Valid(Head(event_queue))
        /\ \/ ~OperandsReady(s) \/ s \in queued \cup completed \/ s \notin issued
           \/ ent[s].recover_inst /\ (InLSQ(s) \/ ~spec_mode)
    BY DEF BadCompletion
  <2>2. /\ s \in Live /\ s \in issued \ completed /\ s \notin queued
        /\ OperandsReady(s)
    BY <2>1, FirstEvent DEF Due
  <2> HIDE DEF s
  <2>3. ent[s].recover_inst => ~InLSQ(s)
    <3>1. s \in Station
      BY <2>2, LiveStations DEF CoreInv
    <3>2. InLSQ(s) => s \notin {RUU(i) : i \in 0 .. RUU_size - 1}
      BY DEF InLSQ, RUU
    <3> QED BY <3>1, <3>2 DEF CoreInv, FixInv, BranchesInRUU
  <2>4. ~InLSQ(s) => s \in LiveRUU
    BY <2>2 DEF Live, LiveLSQ, LSQ_slot, LSQ, InLSQ
  <2>5. ent[s].recover_inst => spec_mode
    BY <2>2, <2>3, <2>4 DEF SpeculationInv, SpecInv, Open
  <2> QED BY <2>1, <2>2, <2>3, <2>5
<1>2. SpeculationInv => ~DrainedSpeculative
  <2> SUFFICES ASSUME SpeculationInv, DrainedSpeculative PROVE FALSE
    OBVIOUS
  <2>1. RUU_num = 0 /\ spec_mode
    BY DEF DrainedSpeculative
  <2>2. LiveRUU = {}
    BY <2>1 DEF LiveRUU
  <2> QED BY <2>1, <2>2 DEF SpeculationInv, SpecInv
<1>3. CoreInv /\ FlowInv /\ SpeculationInv => ~(BadCompletion \/ DrainedSpeculative)
  BY <1>1, <1>2
<1> QED BY <1>3, SpeculationInvariant, PTL

-----------------------------------------------------------------------------
(* The event queue is sorted by time.                                      *)

Sorted(q) == \A i, j \in 1 .. Len(q) : i < j => q[i].when <= q[j].when
Timed(q) == \A i \in 1 .. Len(q) : q[i].when \in Int
AtLeast(b, q) == \A i \in 1 .. Len(q) : q[i].when >= b

LEMMA EventTimes ==
  ASSUME CoreInv
  PROVE  event_queue \in Seq(Good(Event)) /\ Timed(event_queue)
<1>1. event_queue \in Seq(Good(Event))
  BY DEF CoreInv, LinksInv
<1>2. \A i \in 1 .. Len(event_queue) : event_queue[i] \in Event
  BY <1>1, ElementOfSeq DEF Good
<1> QED BY <1>1, <1>2 DEF Timed, Event

LEMMA TailSorted ==
  ASSUME NEW S, NEW q \in Seq(S), q # <<>>, Sorted(q), NEW b, AtLeast(b, q)
  PROVE  Sorted(Tail(q)) /\ AtLeast(b, Tail(q))
<1>1. /\ Len(q) \in Nat /\ Len(Tail(q)) = Len(q) - 1
      /\ \A i \in 1 .. Len(q) - 1 : Tail(q)[i] = q[i + 1]
  BY HeadTailProperties, LenProperties
<1> DEFINE t == Tail(q)
<1>2. ASSUME NEW i \in 1 .. Len(t)
      PROVE  i + 1 \in 1 .. Len(q) /\ t[i] = q[i + 1]
  BY <1>1
<1> HIDE DEF t
<1>3. ASSUME NEW i \in 1 .. Len(t), NEW j \in 1 .. Len(t), i < j
      PROVE  t[i].when <= t[j].when
  <2> DEFINE m == i + 1
             n == j + 1
  <2>1. m \in 1 .. Len(q) /\ n \in 1 .. Len(q) /\ m < n
    BY <1>2, <1>3
  <2>2. t[i] = q[m] /\ t[j] = q[n]
    BY <1>2
  <2> HIDE DEF m, n
  <2> QED BY <2>1, <2>2 DEF Sorted
<1>4. ASSUME NEW i \in 1 .. Len(t) PROVE t[i].when >= b
  <2> DEFINE m == i + 1
  <2>1. m \in 1 .. Len(q) /\ t[i] = q[m]
    BY <1>2
  <2> HIDE DEF m
  <2> QED BY <2>1 DEF AtLeast
<1>5. Sorted(t) /\ AtLeast(b, t)
  BY <1>3, <1>4 DEF Sorted, AtLeast
<1> QED BY <1>5 DEF t

\* eventq_queue_event puts the event before the first that is not earlier.
LEMMA ScheduleSorted ==
  ASSUME NEW S, NEW q \in Seq(S), NEW s, NEW lat \in Int,
         [rs |-> s, tag |-> tag[s], when |-> lat] \in S,
         Timed(q), Sorted(q), NEW b \in Int, AtLeast(b, q), lat >= b
  PROVE  Sorted(eventq_queue_event(q, s, lat)) /\ AtLeast(b, eventq_queue_event(q, s, lat))
<1> DEFINE e == [rs |-> s, tag |-> tag[s], when |-> lat]
           hits == {i \in 1 .. Len(q) : ~(q[i].when < lat)}
           r == eventq_queue_event(q, s, lat)
<1>1. r = InsertBefore(q, e, hits) /\ e.when = lat /\ e \in S
  BY DEF eventq_queue_event
<1>2. Len(q) \in Nat
  BY LenProperties
<1>3. hits \in SUBSET (1 .. Len(q)) /\ \A i \in 1 .. Len(q) : i \in hits <=> ~(q[i].when < lat)
  OBVIOUS
<1> HIDE DEF hits, r, e
<1>4. PICK p \in 1 .. Len(q) + 1 :
        /\ Len(r) = Len(q) + 1 /\ r[p] = e
        /\ \A i \in 1 .. p - 1 : r[i] = q[i] /\ i \notin hits
        /\ \A i \in p + 1 .. Len(q) + 1 : r[i] = q[i - 1]
        /\ p \in hits \/ p = Len(q) + 1
  BY <1>1, <1>3, InsertPlace
\* Each element is before p and earlier, at p, or behind p and not earlier.
<1>5. \A i \in 1 .. p - 1 : i \in 1 .. Len(q) /\ r[i] = q[i] /\ q[i].when < lat
  BY <1>2, <1>3, <1>4
<1>6. ASSUME NEW i \in p + 1 .. Len(q) + 1
      PROVE  i - 1 \in 1 .. Len(q) /\ r[i] = q[i - 1] /\ q[i - 1].when >= lat
  <2> DEFINE m == i - 1
  <2>1. m \in 1 .. Len(q) /\ r[i] = q[m] /\ p <= m
    BY <1>2, <1>4
  <2>2. p \in 1 .. Len(q) /\ p \in hits
    BY <1>2, <1>4, <2>1
  <2>3. q[p].when >= lat /\ q[p].when \in Int /\ q[m].when \in Int
    BY <1>3, <2>1, <2>2 DEF Timed
  <2>4. q[m].when >= q[p].when
    BY <2>1, <2>2, <2>3 DEF Sorted
  <2> HIDE DEF m
  <2>5. q[m].when >= lat
    BY <2>3, <2>4
  <2> QED BY <2>1, <2>5 DEF m
<1>7. ASSUME NEW i \in 1 .. Len(r), NEW j \in 1 .. Len(r), i < j
      PROVE  r[i].when <= r[j].when
  <2>1. CASE i < p /\ j < p
    <3>1. i \in 1 .. p - 1 /\ j \in 1 .. p - 1
      BY <1>4, <2>1
    <3>2. i \in 1 .. Len(q) /\ j \in 1 .. Len(q) /\ r[i] = q[i] /\ r[j] = q[j]
      BY <1>5, <3>1
    <3> QED BY <1>7, <3>2 DEF Sorted
  <2>2. CASE i < p /\ j = p
    <3>1. i \in 1 .. p - 1
      BY <1>4, <2>2
    <3>2. r[i].when < lat /\ r[i].when \in Int
      BY <1>5, <3>1 DEF Timed
    <3> QED BY <1>1, <1>4, <2>2, <3>2
  <2>3. CASE i < p /\ p < j
    <3>1. i \in 1 .. p - 1 /\ j \in p + 1 .. Len(q) + 1
      BY <1>4, <2>3
    <3>2. r[i].when < lat /\ r[i].when \in Int /\ r[j].when >= lat /\ r[j].when \in Int
      BY <1>5, <1>6, <3>1 DEF Timed
    <3> QED BY <3>2
  <2>4. CASE i = p /\ p < j
    <3>1. j \in p + 1 .. Len(q) + 1
      BY <1>4, <2>4
    <3>2. r[j].when >= lat /\ r[j].when \in Int
      BY <1>6, <3>1 DEF Timed
    <3> QED BY <1>1, <1>4, <2>4, <3>2
  <2>5. CASE p < i /\ p < j
    <3> DEFINE m == i - 1
               n == j - 1
    <3>1. i \in p + 1 .. Len(q) + 1 /\ j \in p + 1 .. Len(q) + 1
      BY <1>4, <2>5
    <3>2. m \in 1 .. Len(q) /\ n \in 1 .. Len(q) /\ m < n /\ r[i] = q[m] /\ r[j] = q[n]
      BY <1>6, <1>7, <3>1
    <3> HIDE DEF m, n
    <3> QED BY <3>2 DEF Sorted
  <2>6. i \in Int /\ j \in Int /\ p \in Int
    BY <1>4
  <2> QED BY <1>7, <2>1, <2>2, <2>3, <2>4, <2>5, <2>6
<1>8. ASSUME NEW i \in 1 .. Len(r) PROVE r[i].when >= b
  <2>1. CASE i < p
    <3>1. i \in 1 .. p - 1
      BY <1>4, <2>1
    <3> QED BY <1>5, <3>1 DEF AtLeast
  <2>2. CASE i = p
    BY <1>1, <1>4, <2>2
  <2>3. CASE p < i
    <3> DEFINE m == i - 1
    <3>1. i \in p + 1 .. Len(q) + 1
      BY <1>4, <2>3
    <3>2. m \in 1 .. Len(q) /\ r[i] = q[m]
      BY <1>6, <3>1
    <3> HIDE DEF m
    <3> QED BY <3>2 DEF AtLeast
  <2> QED BY <1>4, <2>1, <2>2, <2>3
<1>9. Sorted(r) /\ AtLeast(b, r)
  BY <1>7, <1>8 DEF Sorted, AtLeast
<1> QED BY <1>9 DEF r

LEMMA TickSorted ==
  ASSUME NEW q \in Seq(Good(Event)), Timed(q), Sorted(q), AtLeast(1, q)
  PROVE  Sorted(Tick(q)) /\ AtLeast(0, Tick(q))
<1> DEFINE t == Tick(q)
<1>1. Len(t) = Len(q) /\ \A i \in 1 .. Len(q) : t[i] = [q[i] EXCEPT !.when = @ - 1]
  <2>1. t \in Seq(Good(Event)) /\ DOMAIN t = 1 .. Len(q)
    BY TickEvents DEF Tick
  <2> QED BY <2>1, LenProperties DEF Tick
<1> HIDE DEF t
<1>2. ASSUME NEW i \in 1 .. Len(q) PROVE t[i].when = q[i].when - 1
  <2> DEFINE e == q[i]
  <2>1. e \in Event
    BY ElementOfSeq DEF Good
  <2>2. t[i] = [e EXCEPT !.when = @ - 1]
    BY <1>1
  <2> HIDE DEF e
  <2>3. t[i].when = e.when - 1
    BY <2>1, <2>2 DEF Event
  <2> QED BY <2>3 DEF e
<1>3. Sorted(t) /\ AtLeast(0, t)
  BY <1>1, <1>2 DEF Sorted, AtLeast, Timed
<1> QED BY <1>3 DEF t

-----------------------------------------------------------------------------
(* The invariant.                                                          *)

\* The event queue is in the order of time, and an event of the past waits in
\* ruu_commit and ruu_writeback only.
Early == stage \in {"commit", "writeback", "recover", "broadcast"}
LateInv == /\ Sorted(event_queue)
           /\ AtLeast(IF Early THEN 0 ELSE 1, event_queue)

\* lsq_refresh starts at LSQ_head, and the stores it has passed have addresses.
ScanInv ==
  /\ stage \in {"writeback", "recover", "broadcast"} => count = 0
  /\ stage = "refresh" =>
       /\ count <= LSQ_num
       /\ \A k \in 0 .. count - 1 :
            IsStore(ent[LSQ_slot(k)].op) => STORE_ADDR_INDEX \in idep_ready[LSQ_slot(k)]

\* A load that was let go has no store of unknown address before it.
StoreInv ==
  \A s, t \in LiveLSQ :
    /\ ent[s].op = "load" /\ Started(s)
    /\ IsStore(ent[t].op) /\ ent[t].seq < ent[s].seq
    => STORE_ADDR_INDEX \in idep_ready[t]

IssueInv == LateInv /\ ScanInv /\ StoreInv

LEMMA InitIssue == Init => IssueInv
<1> SUFFICES ASSUME Init PROVE IssueInv
  OBVIOUS
<1>1. event_queue = <<>> /\ stage = "commit" /\ LSQ_num = 0
  BY DEF Init
<1>2. LateInv
  BY <1>1 DEF LateInv, Sorted, AtLeast
<1>3. LiveLSQ = {}
  BY <1>1 DEF LiveLSQ
<1> QED BY <1>1, <1>2, <1>3 DEF IssueInv, ScanInv, StoreInv

-----------------------------------------------------------------------------
(* Steps and the event queue.                                              *)

LEMMA LateFrame ==
  ASSUME LateInv, event_queue' = event_queue, Early' <=> Early
  PROVE  LateInv'
BY DEF LateInv

LEMMA PopLate ==
  ASSUME CoreInv, LateInv, stage = "writeback", event_queue # <<>>,
         event_queue' = Tail(event_queue),
         stage' \in {"writeback", "recover", "broadcast"}
  PROVE  LateInv'
<1>1. AtLeast(0, event_queue) /\ Sorted(event_queue)
  BY DEF LateInv, Early
<1>2. Sorted(event_queue') /\ AtLeast(0, event_queue')
  BY <1>1, EventTimes, TailSorted
<1> QED BY <1>2 DEF LateInv, Early

LEMMA WritebackEndLate ==
  ASSUME CoreInv, LateInv, WritebackEnd
  PROVE  LateInv'
<1>1. /\ stage = "writeback" /\ ~Due /\ stage' \in {"dispatch", "refresh"}
      /\ event_queue' = event_queue
  BY DEF WritebackEnd
<1>2. AtLeast(1, event_queue)
  <2> SUFFICES ASSUME NEW i \in 1 .. Len(event_queue) PROVE event_queue[i].when >= 1
    BY DEF AtLeast
  <2>1. event_queue # <<>> /\ Len(event_queue) \in Nat /\ 1 \in 1 .. Len(event_queue)
    BY EventTimes, LenProperties
  <2>2. Head(event_queue) = event_queue[1]
    BY <2>1, EventTimes, HeadTailProperties
  <2>3. ~(event_queue[1].when <= 0)
    BY <1>1, <2>1, <2>2 DEF Due
  <2>4. event_queue[1].when \in Int /\ event_queue[i].when \in Int
    BY <2>1, EventTimes DEF Timed
  <2>5. event_queue[1].when <= event_queue[i].when
    BY <2>1, <2>4 DEF LateInv, Sorted
  <2> QED BY <2>3, <2>4, <2>5
<1> QED BY <1>1, <1>2 DEF LateInv, Early

LEMMA ExecuteLate ==
  ASSUME CoreInv, FlowInv, LateInv, NEW s \in Station,
         IssueToUnit(s) \/ IssueUnitless(s)
  PROVE  LateInv'
<1>1. IssueNext(s)
  BY Starts
<1>2. PICK lat \in Nat \ {0} : Execute(s, lat)
  BY Starts
<1>3. /\ event_queue' = eventq_queue_event(event_queue, s, lat)
      /\ stage' = "issue" /\ stage = "issue"
  BY <1>1, <1>2 DEF Execute, IssueNext
<1>4. AtLeast(1, event_queue) /\ Sorted(event_queue)
  BY <1>3 DEF LateInv, Early
<1>5. s \in Live
  BY <1>1, FirstNode DEF IssueNext
<1>6. tag[s] \in Nat
  BY EntryFields DEF CoreInv, FixInv
<1>7. [rs |-> s, tag |-> tag[s], when |-> lat] \in Event
  BY <1>6 DEF Event
<1>8. event_queue \in Seq(Event) /\ Timed(event_queue)
  <2>1. Good(Event) \subseteq Event
    BY DEF Good
  <2> QED BY <2>1, EventTimes, SeqMono
<1>9. Sorted(event_queue') /\ AtLeast(1, event_queue')
  <2>1. lat \in Int /\ lat >= 1 /\ 1 \in Int
    OBVIOUS
  <2> QED BY <1>3, <1>4, <1>7, <1>8, <2>1, ScheduleSorted
<1> QED BY <1>3, <1>9 DEF LateInv, Early

LEMMA TickLate ==
  ASSUME CoreInv, LateInv, IssueEnd \/ DispatchEnd
  PROVE  LateInv'
<1>1. /\ stage \in {"issue", "dispatch"}
      /\ \/ event_queue' = Tick(event_queue) /\ stage' = "commit"
         \/ event_queue' = event_queue /\ stage' \in {"dispatch", "refresh"}
  BY SizeAssumption DEF IssueEnd, DispatchEnd
<1>2. AtLeast(1, event_queue) /\ Sorted(event_queue)
  BY <1>1 DEF LateInv, Early
<1>3. CASE event_queue' = Tick(event_queue) /\ stage' = "commit"
  <2>1. Sorted(event_queue') /\ AtLeast(0, event_queue')
    BY <1>2, <1>3, EventTimes, TickSorted
  <2> QED BY <1>3, <2>1 DEF LateInv, Early
<1>4. CASE event_queue' = event_queue /\ stage' \in {"dispatch", "refresh"}
  BY <1>2, <1>4 DEF LateInv, Early
<1> QED BY <1>1, <1>3, <1>4

LEMMA NextLate ==
  CoreInv /\ FlowInv /\ LateInv /\ [Next]_vars => LateInv'
<1> SUFFICES ASSUME CoreInv, FlowInv, LateInv, [Next]_vars PROVE LateInv'
  OBVIOUS
<1>1. CASE SkipEvent \/ Complete \/ CompleteMispredicted
  BY <1>1, PopLate DEF SkipEvent, Complete, CompleteMispredicted, PopEvent, Due
<1>2. CASE WritebackEnd
  BY <1>2, WritebackEndLate
<1>3. ASSUME NEW s \in Station, IssueToUnit(s) \/ IssueUnitless(s) PROVE LateInv'
  BY <1>3, ExecuteLate
<1>4. CASE IssueEnd \/ DispatchEnd
  BY <1>4, TickLate
<1>5. CASE Commit \/ CommitEnd \/ Squash \/ RecoverEnd \/ Broadcast \/ BroadcastEnd
             \/ Refresh \/ RefreshEnd \/ IssueSkip
  BY <1>5, LateFrame DEF Commit, CommitEnd, Squash, RecoverEnd, Broadcast, BroadcastEnd,
     Refresh, RefreshEnd, IssueSkip, Early
<1>6. ASSUME NEW s \in Station, IssueStore(s) \/ Requeue(s) PROVE LateInv'
  BY <1>6, LateFrame DEF IssueStore, Requeue, Early
<1>7. CASE DispatchInst
  BY <1>7, LateFrame, DispatchParts DEF DispatchInst, Early
<1>8. CASE UNCHANGED vars
  BY <1>8, LateFrame DEF vars, Early
<1> QED BY <1>1, <1>2, <1>3, <1>4, <1>5, <1>6, <1>7, <1>8 DEF Next

-----------------------------------------------------------------------------
(* Steps and the scan of the LSQ.                                          *)

LEMMA StillLSQ ==
  ASSUME Still
  PROVE  /\ LiveLSQ' = LiveLSQ /\ LSQ_num' = LSQ_num /\ ent' = ent
         /\ \A k : LSQ_slot(k)' = LSQ_slot(k)
BY DEF Still, windowVars, LiveLSQ, LSQ_slot

\* A step that starts no load and takes no operand away.
LEMMA StoreFrame ==
  ASSUME StoreInv, Still,
         \A s \in LiveLSQ : ent[s].op = "load" /\ Started(s)' => Started(s),
         \A s \in LiveLSQ : idep_ready[s] \subseteq idep_ready'[s]
  PROVE  StoreInv'
BY StillLSQ DEF StoreInv, STORE_ADDR_INDEX

LEMMA StoreLeave ==
  ASSUME StoreInv, LiveLSQ' \subseteq LiveLSQ,
         UNCHANGED <<ent, idep_ready, queued, issued, completed>>
  PROVE  StoreInv'
BY DEF StoreInv, Started

LEMMA RefreshScan ==
  ASSUME CoreInv, FlowInv, IssueInv, Refresh
  PROVE  ScanInv' /\ StoreInv'
<1>1. /\ stage = "refresh" /\ stage' = "refresh" /\ count' = count + 1
      /\ count < LSQ_num /\ ~BlocksScan /\ Still
      /\ UNCHANGED <<idep_ready, issued, completed>>
      /\ queued' \subseteq queued \cup {Scanned}
  BY DEF Refresh, Still, countVars
<1>2. /\ count \in Nat /\ LSQ_num \in Nat
      /\ \A j, k \in 0 .. LSQ_num - 1 :
           j < k => ent[LSQ_slot(j)].seq < ent[LSQ_slot(k)].seq
      /\ \A k \in 0 .. LSQ_num - 1 : ent[LSQ_slot(k)].seq \in Nat
  BY WindowOrder DEF CoreInv, CtlType
<1>3. \A k \in 0 .. count :
        IsStore(ent[LSQ_slot(k)].op) => STORE_ADDR_INDEX \in idep_ready[LSQ_slot(k)]
  <2> SUFFICES ASSUME NEW k \in 0 .. count, IsStore(ent[LSQ_slot(k)].op)
               PROVE  STORE_ADDR_INDEX \in idep_ready[LSQ_slot(k)]
    OBVIOUS
  <2>1. CASE k = count
    BY <1>1, <2>1 DEF BlocksScan, Scanned
  <2>2. CASE k # count
    <3>1. k \in 0 .. count - 1
      BY <1>2, <2>2
    <3> QED BY <1>1, <3>1 DEF IssueInv, ScanInv
  <2> QED BY <2>1, <2>2
<1>4. ScanInv'
  <2>1. 0 .. count' - 1 = 0 .. count /\ count' <= LSQ_num
    BY <1>1, <1>2
  <2>2. LSQ_num' = LSQ_num /\ ent' = ent /\ \A k : LSQ_slot(k)' = LSQ_slot(k)
    BY <1>1, StillLSQ
  <2> QED BY <1>1, <1>3, <2>1, <2>2 DEF ScanInv
<1>5. StoreInv'
  <2>1. LiveLSQ' = LiveLSQ /\ ent' = ent
    BY <1>1, StillLSQ
  <2> SUFFICES ASSUME NEW s \in LiveLSQ, NEW t \in LiveLSQ,
                      ent[s].op = "load", Started(s)',
                      IsStore(ent[t].op), ent[t].seq < ent[s].seq
               PROVE  STORE_ADDR_INDEX \in idep_ready[t]
    BY <1>1, <2>1 DEF StoreInv
  <2>2. CASE Started(s)
    BY <2>2 DEF IssueInv, StoreInv
  \* The scan has reached s, so it has passed t.
  <2>3. CASE ~Started(s)
    <3>1. s = LSQ_slot(count)
      BY <1>1, <2>3 DEF Started, Scanned
    <3>2. PICK k \in 0 .. LSQ_num - 1 : t = LSQ_slot(k)
      BY DEF LiveLSQ
    <3>3. count \in 0 .. LSQ_num - 1
      BY <1>1, <1>2
    <3>4. ~(count < k)
      <4>1. CASE count < k
        <5>1. ent[s].seq < ent[t].seq
          BY <1>2, <3>1, <3>2, <3>3, <4>1
        <5>2. ent[s].seq \in Nat /\ ent[t].seq \in Nat
          BY <1>2, <3>1, <3>2, <3>3
        <5> QED BY <5>1, <5>2
      <4> QED BY <4>1
    <3>5. k \in 0 .. count
      BY <1>2, <3>2, <3>4
    <3> QED BY <1>3, <3>2, <3>5
  <2> QED BY <2>2, <2>3
<1> QED BY <1>4, <1>5

\* A step that stays within a stage, or that starts a scan.
LEMMA ScanFrame ==
  ASSUME CoreInv, ScanInv, stage # "refresh",
         \/ stage' \in {"commit", "issue", "dispatch"}
         \/ stage' \in {"writeback", "refresh"} /\ count' = 0 /\ Still
         \/ /\ stage \in {"writeback", "recover", "broadcast"}
            /\ stage' \in {"writeback", "recover", "broadcast"} /\ count' = count
  PROVE  ScanInv'
<1>1. CASE stage' \in {"commit", "issue", "dispatch"}
  BY <1>1 DEF ScanInv
<1>2. CASE stage' \in {"writeback", "refresh"} /\ count' = 0 /\ Still
  <2>1. LSQ_num' \in Nat
    BY <1>2, StillLSQ, WindowOrder DEF CoreInv
  <2>2. 0 .. count' - 1 = {}
    BY <1>2
  <2> QED BY <1>2, <2>1, <2>2 DEF ScanInv
<1>3. CASE /\ stage \in {"writeback", "recover", "broadcast"}
           /\ stage' \in {"writeback", "recover", "broadcast"} /\ count' = count
  BY <1>3 DEF ScanInv
<1> QED BY <1>1, <1>2, <1>3

\* The steps that take entries out of the window or leave it alone.
LEMMA NextScan ==
  ASSUME CoreInv, FlowInv, IssueInv, [Next]_vars
  PROVE  ScanInv'
<1>1. CASE Refresh
  BY <1>1, RefreshScan
<1>2. CASE RefreshEnd
  BY <1>2 DEF RefreshEnd, ScanInv
<1>3. CASE Commit \/ CommitEnd
  BY <1>3, ScanFrame DEF Commit, CommitEnd, IssueInv, Still, countVars
<1>4. CASE SkipEvent \/ Complete \/ CompleteMispredicted \/ Squash \/ RecoverEnd
             \/ Broadcast \/ BroadcastEnd
  BY <1>4, ScanFrame DEF SkipEvent, Complete, CompleteMispredicted, Squash, RecoverEnd,
     Broadcast, BroadcastEnd, IssueInv
<1>5. CASE WritebackEnd
  BY <1>5, ScanFrame DEF WritebackEnd, IssueInv, ScanInv, Still, countVars
<1>6. CASE IssueSkip \/ IssueEnd
  BY <1>6, ScanFrame DEF IssueSkip, IssueEnd, IssueInv
<1>7. ASSUME NEW s \in Station, IssueStore(s) \/ Requeue(s) PROVE ScanInv'
  BY <1>7, ScanFrame DEF IssueStore, Requeue, IssueNext, IssueInv
<1>8. ASSUME NEW s \in Station, IssueToUnit(s) \/ IssueUnitless(s) PROVE ScanInv'
  <2>1. IssueNext(s) /\ stage' = stage
    BY <1>8, Starts DEF Execute
  <2> QED BY <2>1, ScanFrame DEF IssueNext, IssueInv
<1>9. CASE DispatchInst
  BY <1>9, ScanFrame, DispatchParts DEF DispatchInst, IssueInv
<1>10. CASE DispatchEnd
  BY <1>10, ScanFrame DEF DispatchEnd, IssueInv, Still, countVars
<1>11. CASE UNCHANGED vars
  <2>1. Still /\ UNCHANGED <<stage, count, idep_ready>>
    BY <1>11 DEF vars, Still, countVars
  <2> QED BY <2>1, StillLSQ DEF IssueInv, ScanInv
<1> QED BY <1>1, <1>2, <1>3, <1>4, <1>5, <1>6, <1>7, <1>8, <1>9, <1>10, <1>11 DEF Next

-----------------------------------------------------------------------------
(* Steps and the loads that were let go.                                   *)

LEMMA DispatchStores ==
  ASSUME CoreInv, FlowInv, IssueInv, NEW i \in Inst, NEW mp \in BOOLEAN, Dispatch(i, mp)
  PROVE  StoreInv'
<1>1. /\ queued' = (queued \ New(i)) \cup NewQueued(i)
      /\ issued' = issued \ New(i) /\ completed' = completed \ New(i)
  BY DispatchParts
<1>2. /\ New(i) \cap Live = {} /\ NewQueued(i) \subseteq New(i)
      /\ \A s \in New(i) : ent'[s] = NewEntry(i, mp, s)
      /\ \A s \in Live : ent'[s] = ent[s] /\ idep_ready'[s] = idep_ready[s]
  BY DispatchNew
<1>3. /\ LiveLSQ' = LiveLSQ \cup (IF IsMem(i.kind) THEN {NewLSQ} ELSE {})
      /\ NewLSQ # NewRUU /\ LiveLSQ \subseteq Live
  BY DispatchWindow DEF Live
<1>4. inst_seq \in Nat /\ \A s \in Live : ent[s].seq \in Nat /\ ent[s].seq <= inst_seq
  BY LiveStations, EntryFields DEF CoreInv, FixInv, EntType, SeqBound
<1>5. ASSUME IsMem(i.kind)
      PROVE  /\ NewLSQ \in New(i) /\ ent'[NewLSQ].op = i.kind
             /\ ent'[NewLSQ].seq = inst_seq + 2
             /\ i.kind = "load" => ~(NewLSQ \in queued' \cup issued' \cup completed')
  <2>1. NewLSQ \in New(i)
    BY <1>5 DEF New
  <2>2. ent'[NewLSQ] = NewEntry(i, mp, NewLSQ)
    BY <1>2, <2>1
  <2>3. ent'[NewLSQ].op = i.kind /\ ent'[NewLSQ].seq = inst_seq + 2
    BY <1>3, <2>2 DEF NewEntry, NewOp, NewSeq
  <2>4. i.kind = "load" => NewLSQ \notin NewQueued(i)
    BY <1>3 DEF NewQueued, IsStore
  <2> QED BY <1>1, <2>1, <2>3, <2>4
<1>6. ASSUME NEW s \in LiveLSQ', NEW t \in LiveLSQ',
             ent'[s].op = "load", s \in queued' \cup issued' \cup completed',
             IsStore(ent'[t].op), ent'[t].seq < ent'[s].seq
      PROVE  STORE_ADDR_INDEX \in idep_ready'[t]
  <2>1. s \in LiveLSQ
    BY <1>3, <1>5, <1>6
  <2>2. t \in LiveLSQ
    <3>1. ent'[s].seq \in Nat /\ ent'[s].seq <= inst_seq
      BY <1>2, <1>3, <1>4, <2>1
    <3>2. CASE IsMem(i.kind) /\ t = NewLSQ
      BY <1>4, <1>5, <1>6, <3>1, <3>2
    <3> QED BY <1>3, <3>2
  <2>3. Started(s)
    BY <1>1, <1>2, <1>3, <1>6, <2>1 DEF Started
  <2> QED BY <1>2, <1>3, <1>6, <2>1, <2>2, <2>3 DEF IssueInv, StoreInv
<1> QED BY <1>6 DEF StoreInv, Started

LEMMA NextStores ==
  ASSUME CoreInv, FlowInv, IssueInv, [Next]_vars
  PROVE  StoreInv'
<1> USE DEF IssueInv
<1>1. CASE Commit
  BY <1>1, CommitWindow, StoreLeave DEF Commit, statusVars
<1>2. CASE Squash
  BY <1>2, SquashWindow, StoreLeave DEF Squash, statusVars
<1>3. CASE CommitEnd \/ WritebackEnd \/ BroadcastEnd \/ RecoverEnd \/ IssueEnd
             \/ DispatchEnd \/ UNCHANGED vars
  <2>1. Quiet
    BY <1>3, QuietSteps
  <2> QED BY <2>1, StoreFrame DEF Quiet, Started
<1>4. CASE SkipEvent
  BY <1>4, StoreFrame DEF SkipEvent, Still, statusVars, countVars, Started
<1>5. CASE Complete \/ CompleteMispredicted
  <2> DEFINE s == Head(event_queue).rs
  <2>1. /\ completed' = completed \cup {s} /\ Still
        /\ UNCHANGED <<queued, issued, idep_ready>>
        /\ event_queue # <<>> /\ Valid(Head(event_queue))
    BY <1>5 DEF Complete, CompleteMispredicted, Due, Still, countVars
  <2>2. s \in issued
    BY <2>1, FirstEvent
  <2> HIDE DEF s
  <2> QED BY <2>1, <2>2, StoreFrame DEF Started
<1>6. CASE Broadcast
  <2> DEFINE l == Head(odep_list[wb])
             c == l.rs
  <2>1. /\ Still /\ UNCHANGED <<issued, completed>>
        /\ idep_ready' = IF Valid(l) THEN [idep_ready EXCEPT ![c] = @ \cup {l.opnum}]
                         ELSE idep_ready
        /\ queued' # queued => queued' = queued \cup {c} /\ (InLSQ(c) => IsStore(ent[c].op))
    BY <1>6 DEF Broadcast, Still, countVars
  <2> HIDE DEF l, c
  <2>2. ASSUME NEW s \in LiveLSQ, ent[s].op = "load", Started(s)' PROVE Started(s)
    <3>1. InLSQ(s) /\ ~IsStore(ent[s].op)
      BY <2>2 DEF LiveLSQ, LSQ_slot, LSQ, InLSQ, IsStore
    <3>2. s \in queued' => s \in queued
      BY <2>1, <3>1
    <3> QED BY <2>1, <2>2, <3>2 DEF Started
  <2>3. ASSUME NEW s \in LiveLSQ PROVE idep_ready[s] \subseteq idep_ready'[s]
    <3>1. s \in Station /\ idep_ready \in [Station -> SUBSET Operand]
      BY LiveStations DEF CoreInv, StatType, Live
    <3> QED BY <2>1, <3>1
  <2> QED BY <2>1, <2>2, <2>3, StoreFrame
<1>7. CASE Refresh
  BY <1>7, RefreshScan
<1>8. CASE RefreshEnd
  BY <1>8, StoreFrame DEF RefreshEnd, Still, statusVars, countVars, Started
<1>9. CASE IssueSkip
  BY <1>9, StoreFrame DEF IssueSkip, Still, statusVars, countVars, Started
<1>10. ASSUME NEW s \in Station,
              IssueStore(s) \/ IssueToUnit(s) \/ IssueUnitless(s) \/ Requeue(s)
       PROVE StoreInv'
  <2>1. IssueNext(s)
    BY <1>10, Starts DEF IssueStore, Requeue
  <2>2. s \in queued
    BY <2>1, FirstNode DEF IssueNext
  <2>3. /\ Still /\ idep_ready' = idep_ready
        /\ queued' \subseteq queued /\ issued' \subseteq issued \cup {s}
        /\ completed' \subseteq completed \cup {s}
    <3>1. CASE IssueStore(s)
      BY <3>1 DEF IssueStore, Still, countVars
    <3>2. CASE IssueToUnit(s) \/ IssueUnitless(s)
      <4>1. PICK lat \in Nat \ {0} : Execute(s, lat)
        BY <3>2, Starts
      <4> QED BY <4>1 DEF Execute, Still, countVars
    <3>3. CASE Requeue(s)
      BY <3>3 DEF Requeue, Still, statusVars, countVars
    <3> QED BY <1>10, <3>1, <3>2, <3>3
  <2> QED BY <2>2, <2>3, StoreFrame DEF Started
<1>11. CASE DispatchInst
  BY <1>11, DispatchStores DEF DispatchInst
<1> QED BY <1>1, <1>2, <1>3, <1>4, <1>5, <1>6, <1>7, <1>8, <1>9, <1>10, <1>11 DEF Next

-----------------------------------------------------------------------------
(* The theorems.                                                           *)

\* The event queue stays sorted, and lsq_refresh's scan stays behind stores of
\* known address, in every state.
THEOREM IssueInvariant == Spec => [](CoreInv /\ FlowInv /\ IssueInv)
<1>1. Init => CoreInv /\ FlowInv /\ IssueInv
  BY InitCore, InitFlow, InitIssue
<1>2. (CoreInv /\ FlowInv /\ IssueInv) /\ [Next]_vars => (CoreInv /\ FlowInv /\ IssueInv)'
  <2>1. CoreInv /\ FlowInv /\ IssueInv /\ [Next]_vars => IssueInv'
    BY NextLate, NextScan, NextStores DEF IssueInv
  <2> QED BY <2>1, NextCore, NextFlow
<1> QED BY <1>1, <1>2, PTL DEF Spec

\* Every completion is written back in the cycle it is due: eventq_queue_event
\* and eventq_next_event never let a completion slip behind a later one.
THEOREM NothingIsLate == Spec => []NoLateEvent
<1>1. IssueInv => NoLateEvent
  BY DEF IssueInv, LateInv, Early, AtLeast, NoLateEvent
<1> QED BY <1>1, IssueInvariant, PTL

\* A load that was let go has no older store of unknown address before it in
\* the LSQ: lsq_refresh's scan decides right, and nothing that happens after it
\* (a squash, a commit, a new store) makes the decision wrong.
THEOREM LoadsWaitForStores == Spec => []LoadsAfterKnownStores
<1>1. CoreInv /\ IssueInv => LoadsAfterKnownStores
  <2> SUFFICES ASSUME CoreInv, IssueInv,
                      NEW j \in 0 .. LSQ_num - 1, NEW k \in 0 .. j - 1,
                      ent[LSQ_slot(j)].op = "load", Started(LSQ_slot(j)),
                      IsStore(ent[LSQ_slot(k)].op)
               PROVE  STORE_ADDR_INDEX \in idep_ready[LSQ_slot(k)]
    BY DEF LoadsAfterKnownStores, Started
  <2>1. LSQ_num \in Nat
    BY WindowOrder DEF CoreInv
  <2>2. k \in 0 .. LSQ_num - 1 /\ k < j
    BY <2>1
  <2>3. ent[LSQ_slot(k)].seq < ent[LSQ_slot(j)].seq
    BY <2>2, WindowOrder DEF CoreInv
  <2>4. LSQ_slot(k) \in LiveLSQ /\ LSQ_slot(j) \in LiveLSQ
    BY <2>2 DEF LiveLSQ
  <2> QED BY <2>3, <2>4 DEF IssueInv, StoreInv
<1> QED BY <1>1, IssueInvariant, PTL

-----------------------------------------------------------------------------
(* Functions on 1 .. n as sequences.                                       *)

IsFun(u, n) == u = [k \in 1 .. n |-> u[k]]

LEMMA FunIsSeq ==
  ASSUME NEW n \in Nat, NEW u, IsFun(u, n), NEW S, \A k \in 1 .. n : u[k] \in S
  PROVE  u \in Seq(S) /\ Len(u) = n
<1>1. u \in [1 .. n -> S]
  BY DEF IsFun
<1>2. u \in Seq(S)
  BY <1>1, SeqDef
<1> QED BY <1>1, <1>2, LenProperties

LEMMA FunAppend ==
  ASSUME NEW n \in Nat, NEW u, NEW v, NEW e, IsFun(u, n), IsFun(v, n + 1),
         \A k \in 1 .. n : v[k] = u[k], v[n + 1] = e
  PROVE  Len(u) = n /\ v = Append(u, e)
<1> DEFINE S == {v[k] : k \in 1 .. n + 1}
<1>1. /\ \A k \in 1 .. n + 1 : v[k] \in S
      /\ \A k \in 1 .. n : u[k] \in S
      /\ e \in S
  <2>1. n + 1 \in 1 .. n + 1 /\ \A k \in 1 .. n : k \in 1 .. n + 1
    OBVIOUS
  <2> QED BY <2>1
<1> HIDE DEF S
<1>2. u \in Seq(S) /\ Len(u) = n /\ v \in Seq(S) /\ Len(v) = n + 1
  <2>1. n + 1 \in Nat
    OBVIOUS
  <2> QED BY <1>1, <2>1, FunIsSeq
<1>3. /\ Append(u, e) \in Seq(S) /\ Len(Append(u, e)) = n + 1
      /\ \A k \in 1 .. n : Append(u, e)[k] = u[k]
      /\ Append(u, e)[n + 1] = e
  BY <1>1, <1>2, AppendProperties
<1>4. \A k \in 1 .. n + 1 : v[k] = Append(u, e)[k]
  BY <1>3
<1>5. v = Append(u, e)
  BY <1>2, <1>3, <1>4, SeqEqual
<1> QED BY <1>2, <1>5

LEMMA FunTail ==
  ASSUME NEW n \in Nat \ {0}, NEW u, NEW v, IsFun(u, n), IsFun(v, n - 1),
         \A k \in 1 .. n - 1 : v[k] = u[k + 1]
  PROVE  u # <<>> /\ Head(u) = u[1] /\ v = Tail(u)
<1> DEFINE S == {u[k] : k \in 1 .. n}
<1>1. /\ \A k \in 1 .. n : u[k] \in S
      /\ \A k \in 1 .. n - 1 : v[k] \in S
  <2>1. \A k \in 1 .. n - 1 : k + 1 \in 1 .. n
    OBVIOUS
  <2> QED BY <2>1
<1> HIDE DEF S
<1>2. u \in Seq(S) /\ Len(u) = n /\ v \in Seq(S) /\ Len(v) = n - 1
  <2>1. n - 1 \in Nat
    OBVIOUS
  <2> QED BY <1>1, <2>1, FunIsSeq
<1>3. u # <<>>
  BY <1>2
<1>4. /\ Head(u) = u[1] /\ Tail(u) \in Seq(S) /\ Len(Tail(u)) = n - 1
      /\ \A k \in 1 .. n - 1 : Tail(u)[k] = u[k + 1]
  BY <1>2, <1>3, HeadTailProperties
<1>5. \A k \in 1 .. n - 1 : v[k] = Tail(u)[k]
  BY <1>4
<1>6. v = Tail(u)
  BY <1>2, <1>4, <1>5, SeqEqual
<1> QED BY <1>3, <1>4, <1>6

LEMMA FunFront ==
  ASSUME NEW n \in Nat \ {0}, NEW u, NEW v, IsFun(u, n), IsFun(v, n - 1),
         \A k \in 1 .. n - 1 : v[k] = u[k]
  PROVE  u # <<>> /\ Len(u) = n /\ v = SubSeq(u, 1, Len(u) - 1)
<1> DEFINE S == {u[k] : k \in 1 .. n}
<1>1. /\ \A k \in 1 .. n : u[k] \in S
      /\ \A k \in 1 .. n - 1 : v[k] \in S
  <2>1. \A k \in 1 .. n - 1 : k \in 1 .. n
    OBVIOUS
  <2> QED BY <2>1
<1> HIDE DEF S
<1>2. u \in Seq(S) /\ Len(u) = n /\ v \in Seq(S) /\ Len(v) = n - 1
  <2>1. n - 1 \in Nat
    OBVIOUS
  <2> QED BY <1>1, <2>1, FunIsSeq
<1>3. u # <<>>
  BY <1>2
<1> DEFINE w == SubSeq(u, 1, n - 1)
<1>4. w \in Seq(S) /\ Len(w) = n - 1 /\ \A k \in 1 .. n - 1 : w[k] = u[k]
  <2>1. \A k \in 1 .. n - 1 : u[k] \in S
    BY <1>1
  <2>2. n - 1 \in Int /\ 1 \in Int
    OBVIOUS
  <2>3. /\ w \in Seq(S) /\ Len(w) = IF 1 <= n - 1 THEN n - 1 - 1 + 1 ELSE 0
        /\ \A k \in 1 .. n - 1 - 1 + 1 : w[k] = u[1 + k - 1]
    BY <2>1, <2>2, SubSeqProperties
  <2> HIDE DEF w
  <2>4. \A k \in 1 .. n - 1 : w[k] = u[k]
    <3> SUFFICES ASSUME NEW k \in 1 .. n - 1 PROVE w[k] = u[k]
      OBVIOUS
    <3>1. k \in 1 .. n - 1 - 1 + 1 /\ 1 + k - 1 = k
      OBVIOUS
    <3> QED BY <2>3, <3>1
  <2> QED BY <2>3, <2>4
<1> HIDE DEF w
<1>5. v = w
  BY <1>2, <1>4, SeqEqual
<1> QED BY <1>2, <1>3, <1>5 DEF w

-----------------------------------------------------------------------------
(* The slots of the RUU over a step.                                       *)

LEMMA SlotDistinct ==
  ASSUME FixInv, NEW j \in 0 .. RUU_num - 1, NEW k \in 0 .. RUU_num - 1,
         RUU_slot(j) = RUU_slot(k)
  PROVE  j = k
<1>1. RUU_num \in 0 .. RUU_size
  BY WindowOrder
<1>2. j \in 0 .. RUU_size - 1 /\ k \in 0 .. RUU_size - 1
  BY <1>1, Sizes
<1>3. RUU_head \in 0 .. RUU_size - 1
  BY DEF FixInv, WinType
<1>4. /\ RUU_slot(j) = RUU(At(RUU_head, j, RUU_size))
      /\ RUU_slot(k) = RUU(At(RUU_head, k, RUU_size))
  <2>1. j \in 0 .. RUU_size /\ k \in 0 .. RUU_size
    BY <1>2, Sizes
  <2> QED BY <2>1, Slots DEF FixInv
<1>5. At(RUU_head, j, RUU_size) = At(RUU_head, k, RUU_size)
  <2>1. RUU(At(RUU_head, j, RUU_size)) = RUU(At(RUU_head, k, RUU_size))
    BY <1>4
  <2> QED BY <2>1, Stations
<1> QED BY <1>2, <1>3, <1>5, AtInj, Sizes

LEMMA CommitSlots ==
  ASSUME CoreInv, Commit
  PROVE  /\ RUU_num \in 1 .. RUU_size /\ RUU_num' = RUU_num - 1
         /\ \A k \in 0 .. RUU_num - 2 : RUU_slot(k)' = RUU_slot(k + 1)
<1>1. RUU_head' = Inc(RUU_head, RUU_size) /\ RUU_num' = RUU_num - 1 /\ RUU_num > 0
  BY DEF Commit, CanRetire
<1>2. RUU_num \in 1 .. RUU_size
  BY <1>1, WindowOrder DEF CoreInv
<1>3. WinType' /\ WinType
  BY CommitWindow DEF CoreInv, FixInv
<1>4. ASSUME NEW k \in 0 .. RUU_num - 2 PROVE RUU_slot(k)' = RUU_slot(k + 1)
  <2>1. k \in 0 .. RUU_size - 1 /\ k + 1 \in 0 .. RUU_size
    BY <1>2, Sizes
  <2>2. RUU_slot(k + 1) = RUU(At(RUU_head, k + 1, RUU_size))
    BY <1>3, <2>1, Slots
  <2>3. At(RUU_head', k, RUU_size) = At(RUU_head, k + 1, RUU_size)
    BY <1>1, <1>3, <2>1, AtInc, Sizes DEF WinType
  <2>4. (RUU_head' + k) % RUU_size = At(RUU_head', k, RUU_size)
    BY <1>3, <2>1, AtMod, Sizes DEF WinType
  <2> QED BY <2>2, <2>3, <2>4 DEF RUU_slot
<1> QED BY <1>1, <1>2, <1>4

LEMMA SameSlots ==
  ASSUME RUU_head' = RUU_head
  PROVE  \A k : RUU_slot(k)' = RUU_slot(k)
BY DEF RUU_slot

LEMMA NewSlot ==
  ASSUME FixInv
  PROVE  RUU_slot(RUU_num) = NewRUU
<1>1. /\ Win(ent, RUU_head, RUU_tail, RUU_num, LSQ_head, LSQ_tail, LSQ_num)
  BY WindowForm
<1>2. RUU_num \in 0 .. RUU_size /\ RUU_tail = At(RUU_head, RUU_num, RUU_size)
  BY <1>1 DEF Win
<1> QED BY <1>2, Slots DEF FixInv, NewRUU

-----------------------------------------------------------------------------
(* The numbers of the instructions in the RUU.                             *)

\* The first m places hold the next m instructions of the correct path, the
\* rest is speculative.
Numbered(m) ==
  \A k \in 0 .. RUU_num - 1 :
    /\ k < m => /\ ~ent[RUU_slot(k)].spec
                /\ ent[RUU_slot(k)].num = sim_ret_insn + k + 1
    /\ ~(k < m) => /\ ent[RUU_slot(k)].spec
                   /\ ent[RUU_slot(k)].num = 0

NumInv == \E m \in 0 .. RUU_num : sim_num_insn = sim_ret_insn + m /\ Numbered(m)

LEMMA InitNum == Init => NumInv
<1> SUFFICES ASSUME Init PROVE NumInv
  OBVIOUS
<1>1. RUU_num = 0 /\ sim_num_insn = 0 /\ sim_ret_insn = 0
  BY DEF Init
<1>2. 0 \in 0 .. RUU_num /\ sim_num_insn = sim_ret_insn + 0 /\ Numbered(0)
  BY <1>1 DEF Numbered
<1> QED BY <1>2 DEF NumInv

LEMMA NumFrame ==
  ASSUME NumInv, Still, UNCHANGED <<sim_num_insn, sim_ret_insn>>
  PROVE  NumInv'
<1>1. /\ RUU_num' = RUU_num /\ ent' = ent /\ sim_num_insn' = sim_num_insn
      /\ sim_ret_insn' = sim_ret_insn /\ \A k : RUU_slot(k)' = RUU_slot(k)
  BY SameSlots DEF Still, windowVars
<1>2. PICK m \in 0 .. RUU_num : sim_num_insn = sim_ret_insn + m /\ Numbered(m)
  BY DEF NumInv
<1>3. Numbered(m)'
  BY <1>1, <1>2 DEF Numbered
<1>4. m \in 0 .. RUU_num' /\ sim_num_insn' = sim_ret_insn' + m
  BY <1>1, <1>2
<1> QED BY <1>3, <1>4 DEF NumInv

\* The oldest entry is on the correct path.
LEMMA HeadIsRight ==
  ASSUME CoreInv, SpeculationInv, Commit
  PROVE  ~ent[CommitHead].spec
<1> SUFFICES ASSUME ent[CommitHead].spec PROVE FALSE
  OBVIOUS
<1>1. stage = "commit" /\ RUU_num > 0 /\ CommitHead \in completed
  BY DEF Commit, CanRetire
<1>2. CommitHead \in Retired /\ CommitHead \in Live
  BY <1>1, HeadIsOldest DEF CoreInv, SpeculationInv, Retired
<1>3. PICK b \in LiveRUU : Open(b) /\ ent[b].seq < ent[CommitHead].seq
  BY <1>2 DEF SpeculationInv, SpecInv
<1>4. b # CommitHead
  BY <1>1, <1>3 DEF Open
<1>5. b \notin Retired
  BY <1>3, <1>4, Stations DEF Retired, CommitMem, LiveRUU, RUU_slot
<1>6. ent[CommitHead].seq < ent[b].seq
  BY <1>1, <1>2, <1>5, HeadIsOldest DEF CoreInv, SpeculationInv, Live
<1>7. ent[CommitHead].seq \in Nat /\ ent[b].seq \in Nat
  BY <1>2, LiveStations, EntryFields DEF CoreInv, FixInv, Live
<1> QED BY <1>3, <1>6, <1>7

LEMMA CommitNum ==
  ASSUME CoreInv, SpeculationInv, NumInv, Commit
  PROVE  /\ NumInv'
         /\ ent[RUU_slot(0)].num = sim_ret_insn + 1 /\ ~ent[RUU_slot(0)].spec
<1>1. PICK m \in 0 .. RUU_num : sim_num_insn = sim_ret_insn + m /\ Numbered(m)
  BY DEF NumInv
<1>2. /\ RUU_num \in 1 .. RUU_size /\ RUU_num' = RUU_num - 1
      /\ \A k \in 0 .. RUU_num - 2 : RUU_slot(k)' = RUU_slot(k + 1)
  BY CommitSlots
<1>3. RUU_slot(0) = CommitHead /\ 0 \in 0 .. RUU_num - 1
  BY <1>2, Ends DEF CoreInv
<1>4. ~ent[RUU_slot(0)].spec
  BY <1>3, HeadIsRight
<1>5. 0 < m
  BY <1>1, <1>3, <1>4 DEF Numbered
<1>6. ent[RUU_slot(0)].num = sim_ret_insn + 1
  <2>1. ent[RUU_slot(0)].num = sim_ret_insn + 0 + 1
    BY <1>1, <1>3, <1>5 DEF Numbered
  <2> QED BY <2>1 DEF CoreInv, CntType
<1>7. /\ ent' = ent /\ sim_num_insn' = sim_num_insn
      /\ sim_ret_insn' = sim_ret_insn + 1 /\ sim_ret_insn \in Nat
  BY DEF Commit, countVars, CoreInv, CntType
<1> DEFINE n == m - 1
<1>8. n \in 0 .. RUU_num' /\ sim_num_insn' = sim_ret_insn' + n
  BY <1>1, <1>2, <1>5, <1>7
<1>9. Numbered(n)'
  <2> SUFFICES ASSUME NEW k \in 0 .. RUU_num' - 1
               PROVE  /\ k < n => /\ ~ent'[RUU_slot(k)'].spec
                                  /\ ent'[RUU_slot(k)'].num = sim_ret_insn' + k + 1
                      /\ ~(k < n) => /\ ent'[RUU_slot(k)'].spec
                                     /\ ent'[RUU_slot(k)'].num = 0
    BY DEF Numbered
  <2> DEFINE j == k + 1
  <2>1. j \in 0 .. RUU_num - 1 /\ (j < m <=> k < n) /\ k \in 0 .. RUU_num - 2
        /\ sim_ret_insn' + k + 1 = sim_ret_insn + j + 1
    BY <1>1, <1>2, <1>7
  <2>2. ent'[RUU_slot(k)'] = ent[RUU_slot(j)]
    BY <1>2, <1>7, <2>1
  <2> HIDE DEF j, n
  <2> QED BY <1>1, <2>1, <2>2 DEF Numbered
<1> HIDE DEF n
<1>10. NumInv'
  BY <1>8, <1>9 DEF NumInv
<1> QED BY <1>4, <1>6, <1>10

\* The youngest entry is on the wrong path when ruu_recover squashes it.
LEMMA LastIsWrong ==
  ASSUME CoreInv, SpeculationInv, Squash
  PROVE  RUU_num > 0 /\ ent[LastRUU].spec
<1>1. stage = "recover" /\ LastRUU # wb /\ wb \in LiveRUU
  BY DEF Squash, LastRUU, CoreInv, WbInv
<1>2. RUU_num > 0
  <2>1. RUU_num \in Int
    BY DEF CoreInv, FixInv, WinType
  <2> QED BY <1>1, <2>1 DEF LiveRUU
<1>3. LastRUU \in Squashed /\ LastRUU \in Live
  BY <1>2, LastIsYoungest DEF CoreInv, SpeculationInv, Squashed
<1>4. wb \notin Squashed
  BY <1>1, Stations DEF Squashed, LastLSQ, LiveRUU, RUU_slot
<1>5. ent[wb].seq < ent[LastRUU].seq
  BY <1>1, <1>2, <1>3, <1>4, LastIsYoungest DEF CoreInv, SpeculationInv, Live
<1>6. Open(wb)
  BY <1>1 DEF SpeculationInv, SpecInv, Open
<1> QED BY <1>1, <1>2, <1>3, <1>5, <1>6 DEF SpeculationInv, SpecInv

LEMMA SquashNum ==
  ASSUME CoreInv, SpeculationInv, NumInv, Squash
  PROVE  NumInv'
<1>1. PICK m \in 0 .. RUU_num : sim_num_insn = sim_ret_insn + m /\ Numbered(m)
  BY DEF NumInv
<1>2. /\ RUU_num' = RUU_num - 1 /\ ent' = ent /\ sim_num_insn' = sim_num_insn
      /\ sim_ret_insn' = sim_ret_insn /\ RUU_num \in Nat
      /\ \A k : RUU_slot(k)' = RUU_slot(k)
  <2>1. RUU_num \in 0 .. RUU_size
    BY Ends DEF CoreInv
  <2> QED BY <2>1, SameSlots, Sizes DEF Squash, countVars
<1>3. RUU_num - 1 \in 0 .. RUU_num - 1 /\ ent[RUU_slot(RUU_num - 1)].spec
  BY <1>2, LastIsWrong, Ends DEF CoreInv
<1> DEFINE last == RUU_num - 1
<1>4. ~(last < m)
  <2>1. last \in 0 .. RUU_num - 1 /\ ent[RUU_slot(last)].spec
    BY <1>3
  <2> HIDE DEF last
  <2> QED BY <1>1, <2>1 DEF Numbered
<1>5. m \in 0 .. RUU_num' /\ sim_num_insn' = sim_ret_insn' + m
  BY <1>1, <1>2, <1>4
<1>6. Numbered(m)'
  <2>1. \A k \in 0 .. RUU_num' - 1 : k \in 0 .. RUU_num - 1
    BY <1>2
  <2> QED BY <1>1, <1>2, <2>1 DEF Numbered
<1> QED BY <1>5, <1>6 DEF NumInv

LEMMA DispatchNum ==
  ASSUME CoreInv, SpeculationInv, NumInv, NEW i \in Inst, NEW mp \in BOOLEAN,
         Dispatch(i, mp)
  PROVE  NumInv'
<1>1. PICK m \in 0 .. RUU_num : sim_num_insn = sim_ret_insn + m /\ Numbered(m)
  BY DEF NumInv
<1>2. /\ RUU_num' = RUU_num + 1 /\ RUU_num \in Nat /\ sim_ret_insn \in Nat
      /\ sim_num_insn' = IF spec_mode THEN sim_num_insn ELSE sim_num_insn + 1
      /\ sim_ret_insn' = sim_ret_insn
      /\ \A k : RUU_slot(k)' = RUU_slot(k)
  <2>1. RUU_num \in 0 .. RUU_size /\ RUU_num' = RUU_num + 1 /\ sim_ret_insn \in Nat
    BY Ends DEF CoreInv, CntType, Dispatch
  <2> QED BY <2>1, SameSlots, DispatchParts, Sizes
<1>3. /\ \A k \in 0 .. RUU_num - 1 :
            /\ RUU_slot(k) \in Live
            /\ ent'[RUU_slot(k)] = ent[RUU_slot(k)]
      /\ RUU_slot(RUU_num) = NewRUU /\ NewRUU \in New(i)
      /\ ent'[NewRUU] = NewEntry(i, mp, NewRUU)
  BY DispatchNew, NewSlot DEF CoreInv, Live, LiveRUU
<1>4. /\ ent'[NewRUU].spec <=> spec_mode
      /\ ent'[NewRUU].num = IF spec_mode THEN 0 ELSE sim_num_insn + 1
  BY <1>3 DEF NewEntry
<1>5. ~spec_mode => m = RUU_num
  <2> SUFFICES ASSUME ~spec_mode, m # RUU_num PROVE FALSE
    OBVIOUS
  <2>1. m \in 0 .. RUU_num - 1 /\ ~(m < m)
    BY <1>1, <1>2
  <2>2. ent[RUU_slot(m)].spec
    BY <1>1, <2>1 DEF Numbered
  <2>3. RUU_slot(m) \in Live
    BY <1>3, <2>1
  <2> QED BY <2>2, <2>3 DEF SpeculationInv, SpecInv
<1>6. PICK n \in 0 .. RUU_num' : n = IF spec_mode THEN m ELSE m + 1
  <2>1. (IF spec_mode THEN m ELSE m + 1) \in 0 .. RUU_num'
    BY <1>1, <1>2
  <2> QED BY <2>1
<1>9. sim_num_insn' = sim_ret_insn' + n
  BY <1>1, <1>2, <1>6
<1>7. ASSUME NEW k \in 0 .. RUU_num' - 1
      PROVE  /\ k < n => /\ ~ent'[RUU_slot(k)'].spec
                         /\ ent'[RUU_slot(k)'].num = sim_ret_insn' + k + 1
             /\ ~(k < n) => /\ ent'[RUU_slot(k)'].spec
                            /\ ent'[RUU_slot(k)'].num = 0
  <2>1. CASE k = RUU_num
    <3>1. ent'[RUU_slot(k)'] = ent'[NewRUU]
      BY <1>2, <1>3, <2>1
    <3>2. (k < n) <=> ~spec_mode
      BY <1>1, <1>2, <1>5, <1>6, <2>1
    <3>3. ~spec_mode => sim_num_insn + 1 = sim_ret_insn' + k + 1
      BY <1>1, <1>2, <1>5, <2>1
    <3> QED BY <1>4, <3>1, <3>2, <3>3
  <2>2. CASE k # RUU_num
    <3>1. k \in 0 .. RUU_num - 1
      BY <1>2, <2>2
    <3>2. ent'[RUU_slot(k)'] = ent[RUU_slot(k)]
      BY <1>2, <1>3, <3>1
    <3>3. (k < n) <=> (k < m)
      BY <1>1, <1>2, <1>5, <1>6, <3>1
    <3> QED BY <1>1, <1>2, <3>1, <3>2, <3>3 DEF Numbered
  <2> QED BY <2>1, <2>2
<1>8. Numbered(n)'
  BY <1>7 DEF Numbered
<1> QED BY <1>6, <1>8, <1>9 DEF NumInv

LEMMA NextNum ==
  CoreInv /\ FlowInv /\ SpeculationInv /\ NumInv /\ [Next]_vars => NumInv'
<1> SUFFICES ASSUME CoreInv, FlowInv, SpeculationInv, NumInv, [Next]_vars
             PROVE  NumInv'
  OBVIOUS
<1>1. CASE Commit
  BY <1>1, CommitNum
<1>2. CASE Squash
  BY <1>2, SquashNum
<1>3. CASE DispatchInst
  BY <1>3, DispatchNum DEF DispatchInst
\* No other step touches the window or the counts.
<1>4. CASE CommitEnd
  BY <1>4, NumFrame DEF CommitEnd, Still, countVars
<1>5. CASE SkipEvent
  BY <1>5, NumFrame DEF SkipEvent, Still, countVars
<1>6. CASE Complete
  BY <1>6, NumFrame DEF Complete, Still, countVars
<1>7. CASE CompleteMispredicted
  BY <1>7, NumFrame DEF CompleteMispredicted, Still, countVars
<1>8. CASE WritebackEnd
  BY <1>8, NumFrame DEF WritebackEnd, Still, countVars
<1>9. CASE RecoverEnd
  BY <1>9, NumFrame DEF RecoverEnd, Still, countVars
<1>10. CASE Broadcast
  BY <1>10, NumFrame DEF Broadcast, Still, countVars
<1>11. CASE BroadcastEnd
  BY <1>11, NumFrame DEF BroadcastEnd, Still, countVars
<1>12. CASE Refresh
  BY <1>12, NumFrame DEF Refresh, Still, countVars
<1>13. CASE RefreshEnd
  BY <1>13, NumFrame DEF RefreshEnd, Still, countVars
<1>14. CASE IssueSkip
  BY <1>14, NumFrame DEF IssueSkip, Still, countVars
<1>15. CASE IssueEnd
  BY <1>15, NumFrame DEF IssueEnd, Still, countVars
<1>16. ASSUME NEW s \in Station,
              IssueStore(s) \/ IssueToUnit(s) \/ IssueUnitless(s) \/ Requeue(s)
       PROVE  NumInv'
  <2>1. CASE IssueStore(s)
    BY <2>1, NumFrame DEF IssueStore, Still, countVars
  <2>2. CASE IssueToUnit(s) \/ IssueUnitless(s)
    <3>1. PICK lat \in Nat \ {0} : Execute(s, lat)
      BY <2>2, Starts
    <3> QED BY <3>1, NumFrame DEF Execute, Still, countVars
  <2>3. CASE Requeue(s)
    BY <2>3, NumFrame DEF Requeue, Still, countVars
  <2> QED BY <1>16, <2>1, <2>2, <2>3
<1>17. CASE DispatchEnd
  BY <1>17, NumFrame DEF DispatchEnd, Still, countVars
<1>18. CASE UNCHANGED vars
  BY <1>18, NumFrame DEF vars, Still, countVars
<1> QED BY <1>1, <1>2, <1>3, <1>4, <1>5, <1>6, <1>7, <1>8, <1>9, <1>10, <1>11,
           <1>12, <1>13, <1>14, <1>15, <1>16, <1>17, <1>18 DEF Next

-----------------------------------------------------------------------------
(* Every step is a step of the reorder window, or leaves it as it is.      *)

WinOf == [k \in 1 .. RUU_num |-> WindowEntry(k)]

LEMMA WinEntries ==
  ASSUME FixInv
  PROVE  /\ RUU_num \in Nat /\ IsFun(WinOf, RUU_num)
         /\ \A k \in 0 .. RUU_num - 1 :
              /\ RUU_slot(k) \in LiveRUU /\ RUU_slot(k) \in Live
              /\ k + 1 \in 1 .. RUU_num
              /\ WinOf[k + 1] = [num |-> ent[RUU_slot(k)].num,
                                 spec |-> ent[RUU_slot(k)].spec,
                                 done |-> RUU_slot(k) \in completed]
<1>1. RUU_num \in Nat
  BY WindowOrder, Sizes
<1>2. IsFun(WinOf, RUU_num)
  BY DEF IsFun, WinOf
<1>3. ASSUME NEW k \in 0 .. RUU_num - 1
      PROVE  /\ RUU_slot(k) \in LiveRUU /\ RUU_slot(k) \in Live
             /\ k + 1 \in 1 .. RUU_num
             /\ WinOf[k + 1] = [num |-> ent[RUU_slot(k)].num,
                                spec |-> ent[RUU_slot(k)].spec,
                                done |-> RUU_slot(k) \in completed]
  <2>1. k + 1 \in 1 .. RUU_num /\ k + 1 - 1 = k
    BY <1>1
  <2>2. RUU_slot(k) \in LiveRUU /\ RUU_slot(k) \in Live
    BY DEF LiveRUU, Live
  <2>3. WinOf[k + 1] = WindowEntry(k + 1)
    BY <2>1 DEF WinOf
  <2> QED BY <2>1, <2>2, <2>3 DEF WindowEntry
<1> QED BY <1>1, <1>2, <1>3

\* The same after a step.
LEMMA WinEntriesNext ==
  ASSUME CoreInv, [Next]_vars
  PROVE  /\ RUU_num' \in Nat /\ IsFun(WinOf', RUU_num')
         /\ \A k \in 0 .. RUU_num' - 1 :
              /\ k + 1 \in 1 .. RUU_num'
              /\ WinOf'[k + 1] = [num |-> ent'[RUU_slot(k)'].num,
                                  spec |-> ent'[RUU_slot(k)'].spec,
                                  done |-> RUU_slot(k)' \in completed']
<1>1. FixInv'
  BY NextCore DEF CoreInv
<1>2. RUU_num' \in Nat
  <2>1. RUU_num' \in 0 .. RUU_size
    BY <1>1 DEF FixInv, WindowInSync, RUUQueue
  <2> QED BY <2>1, Sizes
<1>3. WinOf' = [k \in 1 .. RUU_num' |-> WindowEntry(k)']
  BY DEF WinOf
<1>4. IsFun(WinOf', RUU_num')
  BY <1>3 DEF IsFun
<1>5. ASSUME NEW k \in 0 .. RUU_num' - 1
      PROVE  /\ k + 1 \in 1 .. RUU_num'
             /\ WinOf'[k + 1] = [num |-> ent'[RUU_slot(k)'].num,
                                 spec |-> ent'[RUU_slot(k)'].spec,
                                 done |-> RUU_slot(k)' \in completed']
  <2>5. \A n \in Nat : \A i \in 0 .. n - 1 : i + 1 \in 1 .. n /\ i + 1 - 1 = i
    OBVIOUS
  <2>4. k + 1 \in 1 .. RUU_num' /\ k + 1 - 1 = k
    BY <1>2, <2>5
  <2> DEFINE j == k + 1
  <2>1. j \in 1 .. RUU_num' /\ j - 1 = k
    BY <2>4
  <2> HIDE DEF j
  <2>2. WinOf'[j] = WindowEntry(j)'
    BY <1>3, <2>1
  <2>3. WindowEntry(j)' = [num |-> ent'[RUU_slot(k)'].num,
                           spec |-> ent'[RUU_slot(k)'].spec,
                           done |-> RUU_slot(k)' \in completed']
    BY <2>1 DEF WindowEntry, RUU_slot
  <2> QED BY <2>1, <2>2, <2>3 DEF j
<1> QED BY <1>2, <1>4, <1>5

\* Nothing retires, enters, leaves or completes in the RUU.
LEMMA StutterStep ==
  ASSUME CoreInv, [Next]_vars, Still, UNCHANGED <<sim_num_insn, sim_ret_insn>>,
         \A s \in LiveRUU : s \in completed' <=> s \in completed
  PROVE  UNCHANGED Window!winVars
<1>1. /\ RUU_num' = RUU_num /\ ent' = ent /\ \A k : RUU_slot(k)' = RUU_slot(k)
  BY SameSlots DEF Still, windowVars
<1>2. ASSUME NEW k \in 1 .. RUU_num PROVE WindowEntry(k)' = WindowEntry(k)
  <2>1. k - 1 \in 0 .. RUU_num - 1
    BY Ends DEF CoreInv
  <2>2. RUU_slot(k - 1) \in LiveRUU
    BY <2>1 DEF LiveRUU
  <2>3. RUU_slot(k - 1) \in completed' <=> RUU_slot(k - 1) \in completed
    BY <2>2
  <2> QED BY <1>1, <2>3 DEF WindowEntry
<1>3. [k \in 1 .. RUU_num' |-> WindowEntry(k)'] = [k \in 1 .. RUU_num |-> WindowEntry(k)]
  BY <1>1, <1>2
<1> QED BY <1>3 DEF Window!winVars

LEMMA SetDone ==
  \A a, b, c, d : [[num |-> a, spec |-> b, done |-> c] EXCEPT !.done = d]
                    = [num |-> a, spec |-> b, done |-> d]
<1> SUFFICES ASSUME NEW a, NEW b, NEW c, NEW d
             PROVE  [[num |-> a, spec |-> b, done |-> c] EXCEPT !.done = d]
                      = [num |-> a, spec |-> b, done |-> d]
  OBVIOUS
<1>1. [[num |-> a, spec |-> b, done |-> c] EXCEPT !.done = d]
        = [x \in {"num", "spec", "done"} |->
             IF x = "num" THEN a ELSE IF x = "spec" THEN b ELSE d]
  OBVIOUS
<1>2. [num |-> a, spec |-> b, done |-> d]
        = [x \in {"num", "spec", "done"} |->
             IF x = "num" THEN a ELSE IF x = "spec" THEN b ELSE d]
  OBVIOUS
<1> QED BY <1>1, <1>2

\* An operation of the RUU completes.
LEMMA FinishStep ==
  ASSUME CoreInv, [Next]_vars, Still, UNCHANGED <<sim_num_insn, sim_ret_insn>>,
         NEW s \in LiveRUU, s \notin completed, completed' = completed \cup {s}
  PROVE  Window!WinNext
<1>1. /\ RUU_num' = RUU_num /\ ent' = ent /\ \A k : RUU_slot(k)' = RUU_slot(k)
      /\ RUU_num \in Nat
  BY SameSlots, WinEntries DEF Still, windowVars, CoreInv
<1>2. PICK k \in 0 .. RUU_num - 1 : s = RUU_slot(k)
  BY DEF LiveRUU
<1> DEFINE p == k + 1
<1>3. p \in 1 .. RUU_num
  BY <1>1, <1>2
<1>4. WinOf[p] = [num |-> ent[s].num, spec |-> ent[s].spec, done |-> FALSE]
  <2>1. (RUU_slot(k) \in completed) = FALSE
    BY <1>2
  <2>2. WinOf[p] = [num |-> ent[RUU_slot(k)].num, spec |-> ent[RUU_slot(k)].spec,
                    done |-> RUU_slot(k) \in completed]
    BY <1>2, WinEntries DEF CoreInv
  <2> HIDE DEF p
  <2> QED BY <1>2, <2>1, <2>2, Zenon
<1>5. ASSUME NEW j \in 1 .. RUU_num
      PROVE  WinOf'[j] = IF j = p THEN [WinOf[p] EXCEPT !.done = TRUE] ELSE WinOf[j]
  <2>1. PICK i \in 0 .. RUU_num - 1 : j = i + 1
    <3>1. j - 1 \in 0 .. RUU_num - 1 /\ j = j - 1 + 1
      BY <1>1
    <3> QED BY <3>1
  <2>2. /\ WinOf[j] = [num |-> ent[RUU_slot(i)].num, spec |-> ent[RUU_slot(i)].spec,
                       done |-> RUU_slot(i) \in completed]
        /\ WinOf'[j] = [num |-> ent[RUU_slot(i)].num, spec |-> ent[RUU_slot(i)].spec,
                        done |-> RUU_slot(i) \in completed']
    BY <1>1, <2>1, WinEntries, WinEntriesNext DEF CoreInv
  <2>3. CASE i = k
    <3>1. j = p /\ RUU_slot(i) = s /\ (RUU_slot(i) \in completed') = TRUE
      BY <1>2, <2>1, <2>3
    <3> HIDE DEF p
    <3>2. WinOf'[j] = [num |-> ent[s].num, spec |-> ent[s].spec, done |-> TRUE]
      BY <2>2, <3>1, Zenon
    <3>3. [WinOf[p] EXCEPT !.done = TRUE]
            = [num |-> ent[s].num, spec |-> ent[s].spec, done |-> TRUE]
      <4>1. [[num |-> ent[s].num, spec |-> ent[s].spec, done |-> FALSE] EXCEPT !.done = TRUE]
              = [num |-> ent[s].num, spec |-> ent[s].spec, done |-> TRUE]
        BY SetDone, Zenon
      <4> QED BY <1>4, <4>1, Zenon
    <3>4. WinOf'[j] = [WinOf[p] EXCEPT !.done = TRUE]
      BY <3>2, <3>3, Zenon
    <3> QED BY <3>1, <3>4, Zenon
  <2>4. CASE i # k
    <3>1. j # p
      BY <1>1, <2>1, <2>4
    <3>2. RUU_slot(i) # s
      BY <1>2, <2>1, <2>4, SlotDistinct DEF CoreInv
    <3>3. (RUU_slot(i) \in completed') = (RUU_slot(i) \in completed)
      BY <3>2
    <3> HIDE DEF p
    <3> QED BY <2>2, <3>1, <3>3
  <2> QED BY <2>3, <2>4
<1> HIDE DEF p
<1>6. Len(WinOf) = RUU_num
  <2> DEFINE S == {WinOf[j] : j \in 1 .. RUU_num}
  <2>1. \A j \in 1 .. RUU_num : WinOf[j] \in S
    OBVIOUS
  <2> HIDE DEF S
  <2> QED BY <1>1, <2>1, WinEntries, FunIsSeq DEF CoreInv
<1>7. WinOf' = [WinOf EXCEPT ![p].done = TRUE]
  <2>1. WinOf = [j \in 1 .. RUU_num |-> WinOf[j]] /\ WinOf' = [j \in 1 .. RUU_num |-> WinOf'[j]]
    BY <1>1, WinEntries, WinEntriesNext DEF IsFun, CoreInv
  <2> QED BY <1>3, <1>5, <2>1
<1>8. ~WinOf[p].done
  BY <1>4
<1>9. Window!Finish(p)
  BY <1>7, <1>8 DEF Window!Finish, WinOf
<1>10. p \in 1 .. Len(WinOf)
  BY <1>3, <1>6
<1> QED BY <1>9, <1>10 DEF Window!WinNext, WinOf

\* The oldest instruction retires.
LEMMA RetireStep ==
  ASSUME CoreInv, SpeculationInv, NumInv, [Next]_vars, Commit
  PROVE  Window!WinNext
<1>1. /\ RUU_num \in 1 .. RUU_size /\ RUU_num' = RUU_num - 1
      /\ \A k \in 0 .. RUU_num - 2 : RUU_slot(k)' = RUU_slot(k + 1)
  BY CommitSlots
<1>2. /\ ent' = ent /\ completed' = completed /\ sim_num_insn' = sim_num_insn
      /\ sim_ret_insn' = sim_ret_insn + 1 /\ CommitHead \in completed
  BY DEF Commit, CanRetire, countVars, statusVars
<1>3. 0 \in 0 .. RUU_num - 1 /\ RUU_slot(0) = CommitHead /\ RUU_num \in Nat \ {0}
  BY <1>1, Ends, Sizes DEF CoreInv
<1>4. WinOf[1] = [num |-> sim_ret_insn + 1, spec |-> FALSE, done |-> TRUE]
  <2>1. WinOf[0 + 1] = [num |-> ent[RUU_slot(0)].num, spec |-> ent[RUU_slot(0)].spec,
                        done |-> RUU_slot(0) \in completed]
    BY <1>3, WinEntries DEF CoreInv
  <2>2. ent[RUU_slot(0)].num = sim_ret_insn + 1 /\ ~ent[RUU_slot(0)].spec
    BY CommitNum
  <2>3. ent[RUU_slot(0)].spec = FALSE
    <3>1. ent[RUU_slot(0)] \in Entry
      BY <1>3, WinEntries, LiveStations DEF CoreInv, FixInv, EntType, Live
    <3>2. ent[RUU_slot(0)].spec \in BOOLEAN
      BY <3>1 DEF Entry
    <3> QED BY <2>2, <3>2
  <2>4. (RUU_slot(0) \in completed) = TRUE
    BY <1>2, <1>3
  <2>5. WinOf[0 + 1] = [num |-> sim_ret_insn + 1, spec |-> FALSE, done |-> TRUE]
    BY <2>1, <2>2, <2>3, <2>4, Zenon
  <2> QED BY <2>5
<1>5. IsFun(WinOf, RUU_num) /\ IsFun(WinOf', RUU_num - 1)
  BY <1>1, WinEntries, WinEntriesNext DEF CoreInv
<1>6. ASSUME NEW k \in 1 .. RUU_num - 1 PROVE WinOf'[k] = WinOf[k + 1]
  <2>1. PICK i \in 0 .. RUU_num - 2 : i + 1 = k
    <3>1. k - 1 \in 0 .. RUU_num - 2 /\ k - 1 + 1 = k
      BY <1>1, Sizes
    <3> QED BY <3>1
  <2>2. i \in 0 .. RUU_num' - 1 /\ k \in 0 .. RUU_num - 1
    BY <1>1, <2>1, Sizes
  <2>3. WinOf'[k] = [num |-> ent'[RUU_slot(i)'].num, spec |-> ent'[RUU_slot(i)'].spec,
                     done |-> RUU_slot(i)' \in completed']
    BY <2>1, <2>2, WinEntriesNext
  <2>4. WinOf[k + 1] = [num |-> ent[RUU_slot(k)].num, spec |-> ent[RUU_slot(k)].spec,
                        done |-> RUU_slot(k) \in completed]
    BY <2>2, WinEntries DEF CoreInv
  <2>5. RUU_slot(i)' = RUU_slot(k)
    BY <1>1, <2>1
  <2> QED BY <1>2, <2>3, <2>4, <2>5
<1>7. WinOf # <<>> /\ Head(WinOf) = WinOf[1] /\ WinOf' = Tail(WinOf)
  BY <1>3, <1>5, <1>6, FunTail
<1>8. Window!Retire
  BY <1>2, <1>4, <1>7 DEF Window!Retire, WinOf
<1> QED BY <1>8 DEF Window!WinNext

\* The youngest instruction is squashed.
LEMMA SquashStep ==
  ASSUME CoreInv, SpeculationInv, [Next]_vars, Squash
  PROVE  Window!WinNext
<1>1. /\ RUU_num' = RUU_num - 1 /\ ent' = ent /\ completed' = completed
      /\ sim_num_insn' = sim_num_insn /\ sim_ret_insn' = sim_ret_insn
      /\ \A k : RUU_slot(k)' = RUU_slot(k)
  BY SameSlots DEF Squash, countVars, statusVars
<1>2. /\ RUU_num \in Nat \ {0} /\ LastRUU = RUU_slot(RUU_num - 1)
      /\ ent[LastRUU].spec /\ RUU_num - 1 \in 0 .. RUU_num - 1
  <2>1. RUU_num > 0 /\ RUU_num \in 0 .. RUU_size
    BY LastIsWrong, Ends DEF CoreInv
  <2> QED BY <2>1, LastIsWrong, Ends, Sizes DEF CoreInv
<1>3. WinOf[RUU_num].spec
  <2> DEFINE s == RUU_slot(RUU_num - 1)
  <2>1. WinOf[RUU_num] = [num |-> ent[s].num, spec |-> ent[s].spec,
                          done |-> s \in completed]
    <3>1. RUU_num - 1 + 1 = RUU_num
      BY <1>2
    <3> QED BY <1>2, <3>1, WinEntries DEF CoreInv
  <2> HIDE DEF s
  <2> QED BY <1>2, <2>1 DEF s
<1>4. IsFun(WinOf, RUU_num) /\ IsFun(WinOf', RUU_num - 1)
  BY <1>1, WinEntries, WinEntriesNext DEF CoreInv
<1>5. ASSUME NEW k \in 1 .. RUU_num - 1 PROVE WinOf'[k] = WinOf[k]
  <2>1. PICK i \in 0 .. RUU_num - 2 : i + 1 = k
    <3>1. k - 1 \in 0 .. RUU_num - 2 /\ k - 1 + 1 = k
      BY <1>2
    <3> QED BY <3>1
  <2>2. i \in 0 .. RUU_num' - 1 /\ i \in 0 .. RUU_num - 1
    BY <1>1, <1>2, <2>1
  <2>3. WinOf'[k] = [num |-> ent'[RUU_slot(i)'].num, spec |-> ent'[RUU_slot(i)'].spec,
                     done |-> RUU_slot(i)' \in completed']
    BY <2>1, <2>2, WinEntriesNext
  <2>4. WinOf[k] = [num |-> ent[RUU_slot(i)].num, spec |-> ent[RUU_slot(i)].spec,
                    done |-> RUU_slot(i) \in completed]
    BY <2>1, <2>2, WinEntries DEF CoreInv
  <2> QED BY <1>1, <2>3, <2>4
<1>6. WinOf # <<>> /\ Len(WinOf) = RUU_num /\ WinOf' = SubSeq(WinOf, 1, Len(WinOf) - 1)
  BY <1>2, <1>4, <1>5, FunFront
<1>7. Window!Squash
  BY <1>1, <1>3, <1>6 DEF Window!Squash, WinOf
<1> QED BY <1>7 DEF Window!WinNext

\* An instruction enters.
LEMMA EnterStep ==
  ASSUME CoreInv, SpeculationInv, [Next]_vars, NEW i \in Inst, NEW mp \in BOOLEAN,
         Dispatch(i, mp)
  PROVE  Window!WinNext
<1>1. /\ RUU_num < RUU_size /\ completed' = completed \ New(i)
      /\ sim_num_insn' = IF spec_mode THEN sim_num_insn ELSE sim_num_insn + 1
      /\ sim_ret_insn' = sim_ret_insn
      /\ \A k : RUU_slot(k)' = RUU_slot(k)
  BY DispatchParts, SameSlots
<1>2. RUU_num' = RUU_num + 1 /\ RUU_num \in Nat
  BY WinEntries DEF Dispatch, CoreInv
<1>3. /\ \A k \in 0 .. RUU_num - 1 : RUU_slot(k) \in Live
      /\ \A s \in Live : ent'[s] = ent[s] /\ s \notin New(i)
      /\ RUU_slot(RUU_num) = NewRUU /\ NewRUU \in New(i)
      /\ ent'[NewRUU] = NewEntry(i, mp, NewRUU)
  BY DispatchNew, NewSlot, WinEntries DEF CoreInv
<1>4. IsFun(WinOf, RUU_num) /\ IsFun(WinOf', RUU_num + 1)
  BY <1>2, WinEntries, WinEntriesNext DEF CoreInv
<1>5. ASSUME NEW k \in 1 .. RUU_num PROVE WinOf'[k] = WinOf[k]
  <2>1. PICK j \in 0 .. RUU_num - 1 : j + 1 = k
    <3>1. k - 1 \in 0 .. RUU_num - 1 /\ k - 1 + 1 = k
      BY <1>2
    <3> QED BY <3>1
  <2>2. j \in 0 .. RUU_num' - 1
    BY <1>2, <2>1
  <2>3. WinOf'[k] = [num |-> ent'[RUU_slot(j)'].num, spec |-> ent'[RUU_slot(j)'].spec,
                     done |-> RUU_slot(j)' \in completed']
    BY <2>1, <2>2, WinEntriesNext
  <2>4. WinOf[k] = [num |-> ent[RUU_slot(j)].num, spec |-> ent[RUU_slot(j)].spec,
                    done |-> RUU_slot(j) \in completed]
    BY <2>1, <2>2, WinEntries DEF CoreInv
  <2>5. RUU_slot(j)' = RUU_slot(j) /\ ent'[RUU_slot(j)] = ent[RUU_slot(j)]
    BY <1>1, <1>3, <2>1
  <2>6. (RUU_slot(j) \in completed') = (RUU_slot(j) \in completed)
    BY <1>1, <1>3, <2>1
  <2> QED BY <2>3, <2>4, <2>5, <2>6
<1> DEFINE e == [num |-> IF spec_mode THEN 0 ELSE sim_num_insn + 1,
                 spec |-> spec_mode, done |-> FALSE]
<1>6. WinOf'[RUU_num + 1] = e
  <2>1. RUU_num \in 0 .. RUU_num' - 1
    BY <1>2
  <2>2. WinOf'[RUU_num + 1]
          = [num |-> ent'[RUU_slot(RUU_num)].num, spec |-> ent'[RUU_slot(RUU_num)].spec,
             done |-> RUU_slot(RUU_num) \in completed']
    <3>1. \A k \in 0 .. RUU_num' - 1 :
            WinOf'[k + 1] = [num |-> ent'[RUU_slot(k)].num,
                             spec |-> ent'[RUU_slot(k)].spec,
                             done |-> RUU_slot(k) \in completed']
      BY <1>1, WinEntriesNext
    <3> QED BY <2>1, <3>1
  <2>3. /\ ent'[NewRUU].num = IF spec_mode THEN 0 ELSE sim_num_insn + 1
        /\ ent'[NewRUU].spec = spec_mode
    <3>1. /\ NewEntry(i, mp, NewRUU).num = IF spec_mode THEN 0 ELSE sim_num_insn + 1
          /\ NewEntry(i, mp, NewRUU).spec = spec_mode
      BY DEF NewEntry
    <3> QED BY <1>3, <3>1, Zenon
  <2>4. (NewRUU \in completed') = FALSE
    BY <1>1, <1>3
  <2> HIDE DEF e
  <2>5. WinOf'[RUU_num + 1]
          = [num |-> ent'[NewRUU].num, spec |-> ent'[NewRUU].spec,
             done |-> NewRUU \in completed']
    BY <1>3, <2>2, Zenon
  <2> QED BY <2>3, <2>4, <2>5, Zenon DEF e
<1> HIDE DEF e
<1>7. Len(WinOf) = RUU_num /\ WinOf' = Append(WinOf, e)
  BY <1>2, <1>4, <1>5, <1>6, FunAppend
<1>8. Window!Enter(spec_mode)
  BY <1>1, <1>7 DEF Window!Enter, WinOf, e
<1>9. spec_mode \in BOOLEAN
  BY DEF CoreInv, CntType
<1> QED BY <1>8, <1>9 DEF Window!WinNext

\* The window abstraction of every step.
LEMMA WindowStep ==
  CoreInv /\ FlowInv /\ SpeculationInv /\ NumInv /\ [Next]_vars
    => [Window!WinNext]_(Window!winVars)
<1> SUFFICES ASSUME CoreInv, FlowInv, SpeculationInv, NumInv, [Next]_vars
             PROVE  Window!WinNext \/ UNCHANGED Window!winVars
  OBVIOUS
<1>1. CASE Commit
  BY <1>1, RetireStep
<1>2. CASE Squash
  BY <1>2, SquashStep
<1>3. CASE DispatchInst
  BY <1>3, EnterStep DEF DispatchInst
<1>4. CASE Complete \/ CompleteMispredicted
  <2> DEFINE s == Head(event_queue).rs
  <2>1. /\ completed' = completed \cup {s} /\ event_queue # <<>>
        /\ Valid(Head(event_queue))
        /\ Still /\ UNCHANGED <<sim_num_insn, sim_ret_insn>>
    BY <1>4 DEF Complete, CompleteMispredicted, Due, Still, countVars
  <2>2. s \in Live /\ s \notin completed
    BY <2>1, FirstEvent
  <2> HIDE DEF s
  <2>3. CASE s \in LiveRUU
    BY <2>1, <2>2, <2>3, FinishStep
  <2>4. CASE s \notin LiveRUU
    BY <2>1, <2>4, StutterStep
  <2> QED BY <2>3, <2>4
\* The rest leaves the window as it is.
<1>5. CASE CommitEnd
  BY <1>5, StutterStep DEF CommitEnd, Still, countVars, statusVars
<1>6. CASE SkipEvent
  BY <1>6, StutterStep DEF SkipEvent, Still, countVars, statusVars
<1>7. CASE WritebackEnd
  BY <1>7, StutterStep DEF WritebackEnd, Still, countVars, statusVars
<1>8. CASE RecoverEnd
  BY <1>8, StutterStep DEF RecoverEnd, Still, countVars, statusVars
<1>9. CASE Broadcast
  BY <1>9, StutterStep DEF Broadcast, Still, countVars
<1>10. CASE BroadcastEnd
  BY <1>10, StutterStep DEF BroadcastEnd, Still, countVars, statusVars
<1>11. CASE Refresh
  BY <1>11, StutterStep DEF Refresh, Still, countVars
<1>12. CASE RefreshEnd
  BY <1>12, StutterStep DEF RefreshEnd, Still, countVars, statusVars
<1>13. CASE IssueSkip
  BY <1>13, StutterStep DEF IssueSkip, Still, countVars, statusVars
<1>14. CASE IssueEnd
  BY <1>14, StutterStep DEF IssueEnd, Still, countVars, statusVars
<1>15. ASSUME NEW s \in Station, IssueStore(s) PROVE UNCHANGED Window!winVars
  <2>1. /\ completed' = completed \cup {s} /\ InLSQ(s)
        /\ Still /\ UNCHANGED <<sim_num_insn, sim_ret_insn>>
    BY <1>15 DEF IssueStore, StoreInLSQ, Still, countVars
  <2>2. s \notin LiveRUU
    BY <2>1 DEF InLSQ, LiveRUU, RUU_slot, RUU
  <2> QED BY <2>1, <2>2, StutterStep
<1>16. ASSUME NEW s \in Station, IssueToUnit(s) \/ IssueUnitless(s) \/ Requeue(s)
       PROVE  UNCHANGED Window!winVars
  <2>1. CASE IssueToUnit(s) \/ IssueUnitless(s)
    <3>1. PICK lat \in Nat \ {0} : Execute(s, lat)
      BY <2>1, Starts
    <3> QED BY <3>1, StutterStep DEF Execute, Still, countVars
  <2>2. CASE Requeue(s)
    BY <2>2, StutterStep DEF Requeue, Still, countVars, statusVars
  <2> QED BY <1>16, <2>1, <2>2
<1>17. CASE DispatchEnd
  BY <1>17, StutterStep DEF DispatchEnd, Still, countVars, statusVars
<1>18. CASE UNCHANGED vars
  BY <1>18, StutterStep DEF vars, Still, countVars, statusVars
<1> QED BY <1>1, <1>2, <1>3, <1>4, <1>5, <1>6, <1>7, <1>8, <1>9, <1>10, <1>11,
           <1>12, <1>13, <1>14, <1>15, <1>16, <1>17, <1>18 DEF Next

-----------------------------------------------------------------------------
\* In every state the RUU holds, from its oldest entry on, the next
\* instructions of the correct path in program order and then the wrong path
\* (sim_num_insn, sim_ret_insn and the numbers ruu_dispatch gives out).
THEOREM NumberingInvariant ==
  Spec => [](CoreInv /\ FlowInv /\ SpeculationInv /\ NumInv)
<1>1. Init => CoreInv /\ FlowInv /\ SpeculationInv /\ NumInv
  BY InitCore, InitFlow, InitSpeculation, InitNum
<1>2. (CoreInv /\ FlowInv /\ SpeculationInv /\ NumInv) /\ [Next]_vars
        => (CoreInv /\ FlowInv /\ SpeculationInv /\ NumInv)'
  BY NextCore, NextFlow, NextSpeculation, NextNum
<1> QED BY <1>1, <1>2, PTL DEF Spec

\* The out-of-order core implements the reorder window: whatever it executes
\* ahead, each instruction of the correct path retires exactly once, complete
\* and in program order, and the wrong path only ever disappears from the
\* young end (ruu_dispatch, ruu_writeback, ruu_recover, ruu_commit).
THEOREM RetirementIsInOrder == Spec => RetiresInOrder
<1>1. Init => Window!WinInit
  <2> SUFFICES ASSUME Init PROVE Window!WinInit
    OBVIOUS
  <2>1. RUU_num = 0 /\ sim_num_insn = 0 /\ sim_ret_insn = 0
    BY DEF Init
  <2>2. WinOf = <<>>
    <3>1. IsFun(WinOf, 0) /\ \A k \in 1 .. 0 : WinOf[k] \in {}
      BY <2>1 DEF IsFun, WinOf
    <3>2. WinOf \in Seq({}) /\ Len(WinOf) = 0
      BY <3>1, FunIsSeq
    <3> QED BY <3>2
  <2> QED BY <2>1, <2>2 DEF Window!WinInit, WinOf
<1>2. (CoreInv /\ FlowInv /\ SpeculationInv /\ NumInv) /\ [Next]_vars
        => [Window!WinNext]_(Window!winVars)
  BY WindowStep
<1> QED BY <1>1, <1>2, NumberingInvariant, PTL DEF Spec, RetiresInOrder, Window!WinSpec
=============================================================================
