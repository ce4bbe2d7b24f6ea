------------------------------- MODULE ConnPool -------------------------------
(***************************************************************************)
(* The MySQL connection pool (backend/config/db.js) and the two ways       *)
(* handlers use it.  Most take one connection and give it back.  The order *)
(* handlers hold their transaction's connection and ask for another, to    *)
(* read the order back (orderController.js:123 and :333).  The pool has    *)
(* no acquire timeout: a request for a connection waits until one is free. *)
(***************************************************************************)
EXTENDS Integers, Sequences, FiniteSets

CONSTANTS
  Conns,       \* the pool's connections: connectionLimit of them
  Handlers,    \* requests that can be at work at once
  Readers,     \* those of them that read back while holding a connection
  QueueLimit,  \* how many may wait
  Nobody

PoolAssumption ==
  /\ IsFiniteSet(Conns) /\ Conns # {}
  /\ IsFiniteSet(Handlers) /\ Readers \subseteq Handlers
  /\ QueueLimit \in Nat
  /\ Nobody \notin Handlers

VARIABLES
  owner,   \* which handler has each connection
  queue,   \* the handlers waiting, first come first
  pc       \* where each handler stands

vars == <<owner, queue, pc>>

Steps == {"idle", "waiting", "working", "waitingAgain", "reading", "ending"}

InQueue == {queue[i] : i \in 1..Len(queue)}
Free    == {c \in Conns : owner[c] = Nobody}
Held(h) == {c \in Conns : owner[c] = h}

TypeOK ==
  /\ owner \in [Conns -> Handlers \cup {Nobody}]
  /\ queue \in Seq(Handlers)
  /\ Len(queue) <= QueueLimit
  /\ pc \in [Handlers -> Steps]

Init ==
  /\ owner = [c \in Conns |-> Nobody]
  /\ queue = <<>>
  /\ pc = [h \in Handlers |-> "idle"]

------------------------------------------------------------------------------
(* getConnection: a free connection, a place in the queue, or the error    *)
(* "Queue limit reached".  The handler goes to step got, wait or refused.  *)
GetConnection(h, got, wait, refused) ==
  \/ \E c \in Free : /\ owner' = [owner EXCEPT ![c] = h]
                      /\ pc' = [pc EXCEPT ![h] = got]
                      /\ UNCHANGED queue
  \/ /\ Free = {}
     /\ Len(queue) < QueueLimit
     /\ queue' = Append(queue, h)
     /\ pc' = [pc EXCEPT ![h] = wait]
     /\ UNCHANGED owner
  \/ /\ Free = {}
     /\ Len(queue) >= QueueLimit
     /\ pc' = [pc EXCEPT ![h] = refused]
     /\ UNCHANGED <<owner, queue>>

(* Where a waiter goes with the connection it is handed.                   *)
Onward(step) == IF step = "waiting" THEN "working" ELSE "reading"

(* release: straight to the first in the queue, or free.                   *)
WakeNobody(h, c, next) ==   \* mutant: the connection is freed, the queue left
  /\ owner[c] = h
  /\ owner' = [owner EXCEPT ![c] = Nobody]
  /\ pc' = [pc EXCEPT ![h] = next]
  /\ UNCHANGED queue

Release(h, c, next) ==
  /\ owner[c] = h
  /\ IF queue = <<>>
       THEN /\ owner' = [owner EXCEPT ![c] = Nobody]
            /\ pc' = [pc EXCEPT ![h] = next]
            /\ UNCHANGED queue
       ELSE /\ owner' = [owner EXCEPT ![c] = Head(queue)]
            /\ pc' = [pc EXCEPT ![h] = next, ![Head(queue)] = Onward(@)]
            /\ queue' = Tail(queue)

------------------------------------------------------------------------------
(* A request comes in and asks for its connection.                         *)
Arrive(h) ==
  /\ pc[h] = "idle"
  /\ GetConnection(h, "working", "waiting", "idle")

(* The order is committed; it is read back over a second connection.       *)
ReadBack(h) ==
  /\ h \in Readers
  /\ pc[h] = "working"
  /\ GetConnection(h, "reading", "waitingAgain", "ending")

EndRead(h) ==
  /\ pc[h] = "reading"
  /\ \E c \in Conns : Release(h, c, "ending")

(* The finally block: any other handler, or one whose statement failed.    *)
LeakOnError(h) ==   \* mutant: a handler that returns without its finally
  /\ pc[h] \in {"working", "ending"}
  /\ pc' = [pc EXCEPT ![h] = "idle"]
  /\ UNCHANGED <<owner, queue>>

Finish(h) ==
  /\ pc[h] \in {"working", "ending"}
  /\ \E c \in Conns : Release(h, c, "idle")

Step(h) == ReadBack(h) \/ EndRead(h) \/ Finish(h)

Next == \E h \in Handlers : Arrive(h) \/ ReadBack(h) \/ EndRead(h) \/ Finish(h)

Spec == Init /\ [][Next]_vars

(* Queries come back; clients need not send.                               *)
FairSpec == Spec /\ \A h \in Handlers : WF_vars(Step(h))

------------------------------------------------------------------------------
(***************************************************************************)
(* What a handler holds and waits for agrees with where it stands, and     *)
(* nobody waits while a connection is free: no release is lost and none    *)
(* is made twice.                                                          *)
(***************************************************************************)
Owns(h) == CASE pc[h] \in {"idle", "waiting"}                   -> 0
             [] pc[h] \in {"working", "waitingAgain", "ending"} -> 1
             [] OTHER                                           -> 2

PoolAccounted ==
  /\ \A h \in Handlers : Cardinality(Held(h)) = Owns(h)
  /\ InQueue = {h \in Handlers : pc[h] \in {"waiting", "waitingAgain"}}
  /\ Cardinality(InQueue) = Len(queue)
  /\ queue # <<>> => Free = {}

(* Every connection is with a handler that waits for its second one: none  *)
(* is ever given back, and nobody is answered any more.                    *)
Exhausted == \A c \in Conns : owner[c] # Nobody /\ pc[owner[c]] = "waitingAgain"

(***************************************************************************)
(* Every request for a connection is answered, with a connection or an     *)
(* error, and the handler ends, unless the pool is exhausted.  With as     *)
(* many readers at work as there are connections it can be, for good:      *)
(* DATABASE_AUDIT.md:53 says "unbounded queue with timeout handling", but  *)
(* no request times out.                                                   *)
(***************************************************************************)
RequestsEndOrExhaust == \A h \in Handlers : pc[h] # "idle" ~> pc[h] = "idle" \/ Exhausted
=============================================================================
