----------------------------- MODULE Inventory ------------------------------
(***************************************************************************)
(* Reservations against the ticket pools in PostgreSQL:                    *)
(* PostgresInventoryRepository.reserveAtomic and                           *)
(* ReservationExpiryService.expirePendingReservations.                     *)
(*                                                                         *)
(* A worker is a database connection that runs one transaction after the   *)
(* other; each action is one SQL statement of it.  The tables hold what is *)
(* committed.  A row that a transaction has locked is changed by nobody    *)
(* else, so its writes are applied when it commits and forgotten when it   *)
(* rolls back.  sold_qty is 0 throughout: no code writes it.               *)
(***************************************************************************)
EXTENDS Naturals, Sequences, FiniteSetsExt, SequencesExt

CONSTANTS
  Types,      \* ticket types, each with its inventory pool
  Rows,       \* ids of rows of the reservations table
  Buyers,     \* connections on which reserveAtomic runs
  Scanners,   \* connections on which expirePendingReservations runs
  Capacity,   \* Capacity[t] is the total_capacity of the pool of t
  Quantities, \* quantities a buyer may ask for
  Seed,       \* Seed[r] is the row r at the start, NoRow if there is none
  Batch,      \* batchSize of a scan
  TTL,        \* validity of a reservation
  MaxNow,     \* bound on the clock
  MaxFaults,  \* bound on failed statements and lost connections
  None        \* no ticket type, no row

Workers == Buyers \cup Scanners

VARIABLES
  now,     \* the clock
  pool,    \* inventory_pools: available_qty and reserved_qty of each type
  row,     \* reservations
  queue,   \* who holds, then who waits for, the row of a pool
  pc,      \* the statement connection w executes next
  tx,      \* its transaction: arguments, locked rows, pools left to update
  faults   \* failures so far

vars == <<now, pool, row, queue, pc, tx, faults>>
tables == <<pool, row>>

PC == {"idle", "lock", "insert", "update", "expire", "release", "commit",
       "rollback"}

RowStatus == {"NONE", "ACTIVE", "PENDING", "EXPIRED"}

NoRow == [status |-> "NONE", type |-> None, qty |-> 0, expires |-> 0]
NoTx == [type |-> None, qty |-> 0, id |-> None, expires |-> 0, rows |-> {},
         todo |-> << >>]

\* Rows that take up capacity of the pool of t.
Live(t) ==
  {r \in Rows : row[r].type = t /\ row[r].status \in {"ACTIVE", "PENDING"}}

Total(S) == MapThenSumSet(LAMBDA r : row[r].qty, S)

\* Locks on rows of reservations, and on the row of a pool: its queue is
\* served in order, the first in it holds the lock.
Unlocked(r) == \A w \in Workers : r \notin tx[w].rows
Holds(w, t) == queue[t] # << >> /\ Head(queue[t]) = w
Enqueue(w, t) == queue' = [queue EXCEPT ![t] = Append(@, w)]

\* The pools are filled in agreement with the reservations there are.
Init ==
  /\ now = 1
  /\ row = Seed
  /\ pool = [t \in Types |->
       LET q == Total(Live(t)) IN [available |-> Capacity[t] - q, reserved |-> q]]
  /\ queue = [t \in Types |-> << >>]
  /\ pc = [w \in Workers |-> "idle"]
  /\ tx = [w \in Workers |-> NoTx]
  /\ faults = 0

Goto(w, label) == pc' = [pc EXCEPT ![w] = label]

Tick ==
  /\ now < MaxNow
  /\ now' = now + 1
  /\ UNCHANGED <<tables, queue, pc, tx, faults>>

-----------------------------------------------------------------------------
(* reserveAtomic.                                                          *)

\* Rows bounds the ids: a buyer starts only if one is left for its INSERT.
Begin(w, t, q) ==
  /\ pc[w] = "idle"
  /\ Cardinality({v \in Buyers : pc[v] # "idle"})
       < Cardinality({r \in Rows : row[r] = NoRow})
  /\ tx' = [tx EXCEPT ![w].type = t, ![w].qty = q]
  /\ Enqueue(w, t)
  /\ Goto(w, "lock")
  /\ UNCHANGED <<now, tables, faults>>

\* Mutant: the SELECT takes no lock, as in NaiveInventoryRepository.
ReadPool(w) ==
  LET t == tx[w].type IN
  /\ pc[w] = "lock"
  /\ Goto(w, IF pool[t].available < tx[w].qty THEN "rollback" ELSE "insert")
  /\ UNCHANGED <<now, tables, queue, tx, faults>>

\* SELECT ... FOR UPDATE waits for the pool's row; SOLD_OUT ends the
\* transaction.
LockPool(w) ==
  LET t == tx[w].type IN
  /\ pc[w] = "lock"
  /\ Holds(w, t)
  /\ Goto(w, IF pool[t].available < tx[w].qty THEN "rollback" ELSE "insert")
  /\ UNCHANGED <<now, tables, queue, tx, faults>>

\* The new row, under a fresh id and valid from now on, is nobody else's to see
\* before the commit.
Insert(w, r) ==
  /\ pc[w] = "insert"
  /\ row[r] = NoRow
  /\ \A v \in Workers : tx[v].id # r
  /\ tx' = [tx EXCEPT ![w].id = r, ![w].expires = now + TTL]
  /\ Goto(w, "update")
  /\ UNCHANGED <<now, tables, queue, faults>>

\* The conditional UPDATE; no row updated means SOLD_OUT.
UpdatePool(w) ==
  /\ pc[w] = "update"
  /\ Goto(w, IF pool[tx[w].type].available >= tx[w].qty THEN "commit" ELSE "rollback")
  /\ UNCHANGED <<now, tables, queue, tx, faults>>

-----------------------------------------------------------------------------
(* expirePendingReservations.                                              *)

\* Mutant: the expiry instant is not looked at.
DueAnyTime(scope, at) ==
  {r \in Rows : row[r].status = "PENDING" /\ row[r].type \in scope /\ Unlocked(r)}

\* Mutant: the rows are selected without FOR UPDATE SKIP LOCKED, and the UPDATE
\* does not look at their status again.
DueIgnoringLocks(scope, at) ==
  {r \in Rows : /\ row[r].status = "PENDING"
                /\ row[r].expires < at
                /\ row[r].type \in scope}

\* WHERE status = 'PENDING' AND expires_at < at ... FOR UPDATE SKIP LOCKED.
Due(scope, at) ==
  {r \in Rows : /\ row[r].status = "PENDING"
                /\ row[r].expires < at
                /\ row[r].type \in scope
                /\ Unlocked(r)}

\* ORDER BY expires_at LIMIT Batch: S holds the first ones of the rows due.
FirstOf(S, due) ==
  /\ S \subseteq due
  /\ Cardinality(S) = Min({Batch, Cardinality(due)})
  /\ \A r \in S, s \in due \ S : row[r].expires <= row[s].expires

\* A scan of all types or of one; the clock was read before BEGIN, so the
\* instant may be a past one.  A scan that finds nothing changes nothing.
Scan(w, scope, at, S) ==
  /\ pc[w] = "idle"
  /\ at <= now
  /\ S # {}
  /\ FirstOf(S, Due(scope, at))
  /\ tx' = [tx EXCEPT ![w].rows = S]
  /\ Goto(w, "expire")
  /\ UNCHANGED <<now, tables, queue, faults>>

\* UPDATE ... SET status = 'EXPIRED' WHERE ... status = 'PENDING' RETURNING: the
\* rows are locked, so all of them still are.  The pools are then updated in the
\* order in which the types turn up among the returned rows.
Expire(w) ==
  /\ pc[w] = "expire"
  /\ \E todo \in SetToSeqs({row[r].type : r \in tx[w].rows}) :
       /\ tx' = [tx EXCEPT ![w].todo = todo]
       /\ Enqueue(w, Head(todo))
  /\ Goto(w, "release")
  /\ UNCHANGED <<now, tables, faults>>

\* One UPDATE of inventory_pools, which waits for the row of the pool; then
\* the next one, or COMMIT.
ReleasePool(w) ==
  LET rest == Tail(tx[w].todo) IN
  /\ pc[w] = "release"
  /\ Holds(w, Head(tx[w].todo))
  /\ tx' = [tx EXCEPT ![w].todo = rest]
  /\ IF rest = << >>
       THEN Goto(w, "commit") /\ UNCHANGED queue
       ELSE Enqueue(w, Head(rest)) /\ UNCHANGED pc
  /\ UNCHANGED <<now, tables, faults>>

-----------------------------------------------------------------------------
(* The end of a transaction.                                               *)

\* What w gives back to the pool of t.
Given(w, t) == Total({r \in tx[w].rows : row[r].type = t})

\* Mutant: reserved_qty is left as it is.
GiveBackHalf(t, q) ==
  [pool[t] EXCEPT !.available = Min({Capacity[t], @ + q})]

\* LEAST(total_capacity, available_qty + q), GREATEST(0, reserved_qty - q).
GiveBack(t, q) ==
  [available |-> Min({Capacity[t], pool[t].available + q}),
   reserved  |-> Max({0, pool[t].reserved - q})]

Take(t, q) ==
  [available |-> pool[t].available - q, reserved |-> pool[t].reserved + q]

\* The locks are given up.
End(w) ==
  /\ tx' = [tx EXCEPT ![w] = NoTx]
  /\ queue' = [t \in Types |-> Remove(queue[t], w)]
  /\ Goto(w, "idle")

CommitReservation(w) ==
  LET x == tx[w] IN
  /\ pc[w] = "commit"
  /\ x.id # None
  /\ row' = [row EXCEPT ![x.id] =
       [status |-> "ACTIVE", type |-> x.type, qty |-> x.qty, expires |-> x.expires]]
  /\ pool' = [pool EXCEPT ![x.type] = Take(x.type, x.qty)]
  /\ End(w)
  /\ UNCHANGED <<now, faults>>

CommitExpiry(w) ==
  LET x == tx[w] IN
  /\ pc[w] = "commit"
  /\ x.id = None
  /\ row' = [r \in Rows |->
       IF r \in x.rows THEN [row[r] EXCEPT !.status = "EXPIRED"] ELSE row[r]]
  /\ pool' = [t \in Types |->
       IF Holds(w, t) THEN GiveBack(t, Given(w, t)) ELSE pool[t]]
  /\ End(w)
  /\ UNCHANGED <<now, faults>>

\* Mutant: the connection goes back to the pool with its transaction open.
RollbackForgotten(w) ==
  /\ pc[w] = "rollback"
  /\ Goto(w, "idle")
  /\ UNCHANGED <<now, tables, queue, tx, faults>>

Rollback(w) ==
  /\ pc[w] = "rollback"
  /\ End(w)
  /\ UNCHANGED <<now, tables, faults>>

\* A statement fails, the process dies or the connection is lost: the catch
\* block, or the server, rolls back.
Fail(w) ==
  /\ pc[w] \notin {"idle", "rollback"}
  /\ faults < MaxFaults
  /\ faults' = faults + 1
  /\ Goto(w, "rollback")
  /\ UNCHANGED <<now, tables, queue, tx>>

\* v holds the pool that w waits for.
WaitsFor(w, v) ==
  /\ pc[w] \in {"lock", "release"}
  /\ \E t \in Types : v # w /\ Holds(v, t) /\ Contains(queue[t], w)

\* w is on a cycle of transactions that wait for each other.
Deadlocked(w) ==
  \E C \in SUBSET Workers :
    /\ w \in C
    /\ \A u \in C : (\E v \in C : WaitsFor(u, v)) /\ (\E v \in C : WaitsFor(v, u))

\* PostgreSQL's deadlock detector fails one of the statements (40P01).
DetectDeadlock(w) ==
  /\ Deadlocked(w)
  /\ Goto(w, "rollback")
  /\ UNCHANGED <<now, tables, queue, tx, faults>>

-----------------------------------------------------------------------------
Continue(w) ==
  \/ LockPool(w) \/ (\E r \in Rows : Insert(w, r)) \/ UpdatePool(w)
  \/ Expire(w) \/ ReleasePool(w)
  \/ CommitReservation(w) \/ CommitExpiry(w) \/ Rollback(w)

Scopes == {Types} \cup {{t} : t \in Types}

Next ==
  \/ Tick
  \/ \E w \in Buyers, t \in Types, q \in Quantities : Begin(w, t, q)
  \/ \E w \in Scanners, scope \in Scopes, at \in 1 .. MaxNow, S \in SUBSET Rows :
       Scan(w, scope, at, S)
  \/ \E w \in Workers : Continue(w) \/ Fail(w) \/ DetectDeadlock(w)

Spec == Init /\ [][Next]_vars

\* Statements are executed, and the queue of a row lock serves everybody in
\* turn; deadlocks are resolved, time passes, and the scheduler keeps scanning
\* all types.  Nobody has to buy.
FairSpec ==
  /\ Spec
  /\ WF_vars(Tick)
  /\ \A w \in Workers : WF_vars(Continue(w))
  /\ \A w \in Scanners : WF_vars(\E S \in SUBSET Rows : Scan(w, Types, now, S))
  /\ WF_vars(\E w \in Workers : DetectDeadlock(w))

-----------------------------------------------------------------------------
(* Properties.                                                             *)

\* The CHECK constraints of the tables, and what a connection remembers.
TypeOK ==
  /\ now \in 1 .. MaxNow
  /\ pool \in [Types -> [available : Nat, reserved : Nat]]
  /\ \A r \in Rows :
       /\ row[r].status \in RowStatus
       /\ row[r].type \in Types \cup {None}
       /\ row[r].qty \in Nat /\ row[r].expires \in Nat
  /\ queue \in [Types -> Seq(Workers)]
  /\ pc \in [Workers -> PC]
  /\ \A w \in Workers :
       /\ tx[w].type \in Types \cup {None}
       /\ tx[w].id \in Rows \cup {None}
       /\ tx[w].rows \subseteq Rows /\ tx[w].expires \in Nat
       /\ tx[w].todo \in Seq(Types)
  /\ faults \in 0 .. MaxFaults

\* Every ticket is available or belongs to exactly one live reservation: the
\* counters of a pool agree with the rows of the reservations table after any
\* interleaving of buyers, scanners, rollbacks and lost connections
\* (PostgresInventoryRepository.ts 32-76, ReservationExpiryService.ts 31-83).
TicketsAccountedFor ==
  \A t \in Types :
    /\ pool[t].reserved = Total(Live(t))
    /\ pool[t].available + pool[t].reserved = Capacity[t]

\* Once the availability check has passed it stays true up to the conditional
\* UPDATE, whose rowCount 0 branch (71-74) is therefore never taken.
CheckStillHolds ==
  \A w \in Workers : pc[w] \in {"insert", "update"} =>
    pool[tx[w].type].available >= tx[w].qty

\* A reservation is expired by a scanner only after its expiry instant, and an
\* expired reservation does not come back (SELECT 31-41, UPDATE 51-57).
ExpiryIsFinalAndDue ==
  [][\A r \in Rows :
       /\ row[r].status = "EXPIRED" => row'[r] = row[r]
       /\ row[r].status # "EXPIRED" /\ row'[r].status = "EXPIRED"
            => row[r].expires < now]_vars

\* The scanners get to every reservation that has the status they look for,
\* whatever fails in between and whoever is chosen to break a deadlock.
PendingAreReleased ==
  \A r \in Rows : row[r].status = "PENDING" ~> row[r].status = "EXPIRED"

Entities == INSTANCE InventoryPool WITH
  entity <- [t \in Types |-> [available |-> pool[t].available,
                              reserved |-> pool[t].reserved, sold |-> 0]]

\* The row of a pool behaves as the entity InventoryPool (InventoryPool.ts 36-58)
\* does: the transactions of buyers and scanners, statement by statement with
\* their failures, amount to reserve and release, each taking effect at once and
\* only where the entity would not throw.
PoolsAreEntities == Entities!LoadedSpec

-----------------------------------------------------------------------------
(* What the documents say and the code does not do.                        *)

\* scheduler-design-note.md 4: the capacity of every reservation that is not
\* paid within its validity goes back to the pool.
UnpaidAreReleased ==
  \A r \in Rows : r \in UNION {Live(t) : t \in Types} ~> row[r].status = "EXPIRED"
=============================================================================
