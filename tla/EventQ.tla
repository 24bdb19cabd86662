-------------------------------- MODULE EventQ --------------------------------
(***************************************************************************)
(* The event queue library (eventq.c): events sorted by time on a linked   *)
(* list, descriptors kept on a free list, and a service routine that       *)
(* performs what is due.  An event sets or adds to a variable of the       *)
(* client, or calls it back; a callback may queue, remove and execute      *)
(* events itself, and so may theirs, while the event that is serviced is   *)
(* still at its place on the list.                                         *)
(*                                                                         *)
(* eventq_event_count is never raised, so eventq_max_events limits nothing *)
(* and is left out; a descriptor is allocated when the free list is empty. *)
(* A callback that services the queue would perform its own event again,   *)
(* and is left out as well.                                                *)
(***************************************************************************)
EXTENDS Integers, Sequences, FiniteSets

CONSTANTS
  Times,         \* when an event may be due, and when the queue is serviced
  MaxEvents      \* bound on the events queued

ASSUME EventqAssumption == Times \subseteq Nat

\* "write" stands for the four kinds that set or add to a variable of the client.
Actions == {"write", "callback"}

VARIABLES
  desc,          \* the descriptors: [when, id, action, next], 0 is NULL
  eventq_pending, eventq_free,
  next_ID,
  servicing,     \* the time eventq_service_events() was called with, -1 outside
  performing,    \* the events being performed, the innermost last: [ev, since]
  alive,         \* history: what is queued and neither performed nor removed, [id -> when]
  performed,     \* history: the ids of the events performed, in order
  missed,        \* history: what was queued, while an event was serviced, for no later than it
  crossed        \* history: the event that is serviced was removed or executed

queueVars == <<desc, eventq_pending, eventq_free, next_ID>>
eventqVars == <<queueVars, servicing, performing, alive, performed, missed, crossed>>

\* The descriptors from one on, if there are no more than n.
Chain(d, p, n) ==
  LET at[k \in 1 .. n] == IF k = 1 THEN p ELSE IF at[k - 1] = 0 THEN 0 ELSE d[at[k - 1]].next
  IN  [k \in 1 .. Cardinality({j \in 1 .. n : at[j] # 0}) |-> at[k]]
Pending(q) == Chain(q.desc, q.pending, Len(q.desc))
Link(q, prev, p) ==
  IF prev = 0 THEN [q EXCEPT !.pending = p] ELSE [q EXCEPT !.desc[prev].next = p]
Queue == [desc |-> desc, pending |-> eventq_pending, free |-> eventq_free, id |-> next_ID]
SetQueue(q) ==
  /\ desc' = q.desc /\ eventq_pending' = q.pending /\ eventq_free' = q.free /\ next_ID' = q.id

\* In front of the first event that is not earlier.
QueueEvent(q, when, action) ==
  LET fresh == q.free = 0
      d == IF fresh THEN Append(q.desc, [when |-> 0, id |-> 0, action |-> "write", next |-> 0]) ELSE q.desc
      new == IF fresh THEN Len(d) ELSE q.free
      chain == Pending(q)
      k == Cardinality({i \in DOMAIN chain : \A j \in 1 .. i : d[chain[j]].when < when})
      prev == IF k = 0 THEN 0 ELSE chain[k]
      succ == IF k = 0 THEN q.pending ELSE d[prev].next
  IN  Link([q EXCEPT !.desc = [d EXCEPT ![new] = [when |-> when, id |-> q.id, action |-> action, next |-> succ]],
                     !.free = IF fresh THEN 0 ELSE d[new].next, !.id = @ + 1],
           prev, new)

\* The event of that id taken off the list, and given to the free list.
Found(q, id) == {i \in DOMAIN Pending(q) : q.desc[Pending(q)[i]].id = id}
Place(q, id) == CHOOSE i \in Found(q, id) : TRUE
Chosen(q, id) == Pending(q)[Place(q, id)]
Unlinked_FromHead(q, id) == Link(q, 0, q.desc[Chosen(q, id)].next)
Unlinked(q, id) ==
  LET i == Place(q, id)
  IN  Link(q, IF i = 1 THEN 0 ELSE Pending(q)[i - 1], q.desc[Chosen(q, id)].next)
Freed(q, p) == [q EXCEPT !.desc[p].next = q.free, !.free = p]

OthersThan(id) == [i \in DOMAIN alive \ {id} |-> alive[i]]

EventqInit ==
  /\ desc = <<>> /\ eventq_pending = 0 /\ eventq_free = 0 /\ next_ID = 1
  /\ servicing = -1 /\ performing = <<>>
  /\ alive = <<>> /\ performed = <<>> /\ missed = {} /\ crossed = FALSE

\* Who runs: the client, outside the library or in a callback, or the library.
Innermost == performing[Len(performing)]
Outside == performing = <<>> /\ servicing = -1
InCallback == performing # <<>> /\ (performing # <<>> => desc[Innermost.ev].action = "callback")
Client == ~crossed /\ (Outside \/ InCallback)
Serviced(id) == performing # <<>> /\ servicing # -1 /\ (performing # <<>> => id = desc[performing[1].ev].id)

eventq_queue(when, action) ==
  /\ Client /\ next_ID <= MaxEvents
  /\ SetQueue(QueueEvent(Queue, when, action))
  /\ alive' = [i \in DOMAIN alive \cup {next_ID} |-> IF i = next_ID THEN when ELSE alive[i]]
  /\ UNCHANGED <<servicing, performing, performed, missed, crossed>>
\* FALSE is returned, and nothing happens, when there is no such event.
eventq_remove(id) ==
  /\ Client /\ Found(Queue, id) # {}
  /\ SetQueue(Freed(Unlinked(Queue, id), Chosen(Queue, id)))
  /\ alive' = OthersThan(id) /\ crossed' = Serviced(id)
  /\ UNCHANGED <<servicing, performing, performed, missed>>

Performing(p) ==
  /\ performing' = Append(performing, [ev |-> p, since |-> next_ID])
  /\ performed' = Append(performed, desc[p].id) /\ alive' = OthersThan(desc[p].id)
\* Off the list first, then performed; the descriptor is free when that is done.
eventq_execute(id) ==
  /\ Client /\ Found(Queue, id) # {}
  /\ SetQueue(Unlinked(Queue, id)) /\ Performing(Chosen(Queue, id))
  /\ crossed' = Serviced(id)
  /\ UNCHANGED <<servicing, missed>>
ExecuteReturns ==
  /\ ~crossed /\ Len(performing) > IF servicing = -1 THEN 0 ELSE 1
  /\ SetQueue(Freed(Queue, Innermost.ev))
  /\ performing' = SubSeq(performing, 1, Len(performing) - 1)
  /\ UNCHANGED <<servicing, alive, performed, missed, crossed>>

eventq_service_events(now) ==
  /\ Outside /\ ~crossed /\ servicing' = now
  /\ UNCHANGED <<queueVars, performing, alive, performed, missed, crossed>>
Due == eventq_pending # 0 /\ (eventq_pending # 0 => desc[eventq_pending].when <= servicing)
\* Performed first, then the list goes on with what the event is followed by.
ServiceEvent ==
  /\ servicing # -1 /\ performing = <<>> /\ ~crossed /\ Due
  /\ Performing(eventq_pending)
  /\ UNCHANGED <<queueVars, servicing, missed, crossed>>
EventReturns ==
  /\ servicing # -1 /\ Len(performing) = 1 /\ ~crossed
  /\ SetQueue(Freed([Queue EXCEPT !.pending = desc[Innermost.ev].next], Innermost.ev))
  /\ missed' = missed \cup {i \in DOMAIN alive : Innermost.since <= i /\ alive[i] <= desc[Innermost.ev].when}
  /\ performing' = <<>>
  /\ UNCHANGED <<servicing, alive, performed, crossed>>
ServiceEnds ==
  /\ servicing # -1 /\ performing = <<>> /\ ~crossed /\ ~Due
  /\ servicing' = -1
  /\ UNCHANGED <<queueVars, performing, alive, performed, missed, crossed>>

EventqNext ==
  \/ \E when \in Times, action \in Actions : eventq_queue(when, action)
  \/ \E id \in 1 .. next_ID - 1 : eventq_remove(id) \/ eventq_execute(id)
  \/ \E now \in Times : eventq_service_events(now)
  \/ ExecuteReturns \/ ServiceEvent \/ EventReturns \/ ServiceEnds
EventqSpec == EventqInit /\ [][EventqNext]_eventqVars

-----------------------------------------------------------------------------
\* Every event queued is pending, in the order of time, until it is performed or
\* removed, and is performed once; no descriptor is on both lists or twice on
\* one.  The event that is serviced stays on the list until it has been performed.
\* An event is missed when it is queued meanwhile for no later: it is put in front,
\* and the list goes on behind.  All bets are off when a callback removes or
\* executes the event that is serviced.
NoEventLost ==
  ~crossed =>
    LET pending == Chain(desc, eventq_pending, Len(desc) + 1)
        free == Chain(desc, eventq_free, Len(desc) + 1)
        Ids(chain) == {desc[chain[k]].id : k \in DOMAIN chain}
        Members(chain) == {chain[k] : k \in DOMAIN chain}
        called == {performing[k].ev : k \in DOMAIN performing}
        serviced == IF servicing = -1 \/ performing = <<>> THEN {} ELSE {desc[performing[1].ev].id}
    IN  /\ Ids(pending) = (DOMAIN alive \ missed) \cup serviced
        /\ \A k \in DOMAIN pending :
             /\ desc[pending[k]].id \notin serviced => desc[pending[k]].when = alive[desc[pending[k]].id]
             /\ k > 1 => desc[pending[k - 1]].when <= desc[pending[k]].when
        /\ Cardinality(Members(pending)) = Len(pending) /\ Cardinality(Members(free)) = Len(free)
        /\ Members(pending) \cap Members(free) = {} /\ called \cap Members(free) = {}
        /\ Cardinality({performed[k] : k \in DOMAIN performed}) = Len(performed)
        /\ DOMAIN desc = Members(pending) \cup Members(free) \cup called \/ missed # {}
=============================================================================
