------------------------------- MODULE AuditLog -------------------------------
(***************************************************************************)
(* The audit repository of ai-wallet (src/src/audit.rs) and the handler    *)
(* that lists it (src/src/api.rs), with calls that overlap.                *)
(*                                                                         *)
(* record stamps the event, then waits: for the lock of the memory log, or *)
(* for a connection of the Postgres pool and the answer of the database.   *)
(* So the order of the stamps, of the events and of the answers need not   *)
(* be the same.  list returns the last events first: the memory log counts *)
(* back from the last push, Postgres sorts by the stamps.                  *)
(*                                                                         *)
(* A definition named Name_Fault is Name with a fault a programmer could   *)
(* make; no specification uses one.                                        *)
(***************************************************************************)
EXTENDS Integers, Sequences, FiniteSets

CONSTANTS
  Calls,         \* calls of record, and the events they bring (Uuid::new_v4)
  Connections,   \* max_connections of the pool, 5 in the code
  DefaultLimit,  \* page size without a limit in the query, 50 in the code
  MaxLimit,      \* largest page size, 200 in the code
  Limits,        \* the limits a query may ask for
  NoLimit,       \* a query without one
  MaxClock,      \* bound on the clock, in microseconds
  MaxRestarts    \* bound on the number of restarts explored

ASSUME AuditLogAssumption ==
  /\ Connections \in Nat \ {0}
  /\ DefaultLimit \in Nat
  /\ MaxLimit \in Nat
  /\ DefaultLimit <= MaxLimit
  /\ Limits \subseteq Nat
  /\ NoLimit \notin Nat
  /\ MaxClock \in Nat
  /\ MaxRestarts \in Nat

VARIABLES
  backend,     \* "memory" or "postgres", from DATABASE_URL
  clock,       \* Utc::now
  set_back,    \* the clock was set back once
  record,      \* where each call of record stands
  created_at,  \* the stamp of each event, once it has one
  sent,        \* inserts the database has been given and may still commit
  events,      \* the events in the repository, in the order they got there
  settled,     \* the calls that were told Ok before this call began
  list,        \* where the one client that lists stands
  limit,       \* the page size of its list
  seen,        \* the events that list must know of: told Ok, or listed before
  page,        \* the last page it was given
  restarts

callVars == <<record, created_at, sent, events, settled>>
listVars == <<list, limit, seen, page>>
clockVars == <<clock, set_back>>
vars == <<backend, clockVars, callVars, listVars, restarts>>

InFlight == {"stamped", "insert"}
Listing == {"waiting", "fetch"}
Elements(s) == {s[i] : i \in 1..Len(s)}

Init ==
  /\ backend \in {"memory", "postgres"}
  /\ clock = 0
  /\ set_back = FALSE
  /\ record = [c \in Calls |-> "idle"]
  /\ created_at = [c \in Calls |-> 0]
  /\ sent = {}
  /\ events = <<>>
  /\ settled = [c \in Calls |-> {}]
  /\ list = "none"
  /\ limit = 0
  /\ seen = {}
  /\ page = <<>>
  /\ restarts = 0

Advance(c, from, to) ==
  /\ record[c] = from
  /\ record' = [record EXCEPT ![c] = to]

-----------------------------------------------------------------------------
(* The clock                                                               *)

Tick ==
  /\ clock < MaxClock
  /\ clock' = clock + 1
  /\ UNCHANGED <<backend, set_back, callVars, listVars, restarts>>

\* The operator or NTP sets the wall clock back.
SetBack ==
  /\ ~set_back
  /\ clock > 0
  /\ set_back' = TRUE
  /\ clock' \in 0..(clock - 1)
  /\ UNCHANGED <<backend, callVars, listVars, restarts>>

-----------------------------------------------------------------------------
(* record                                                                  *)

\* Both repositories take Utc::now() before they wait for anything.
Stamp(c) ==
  /\ Advance(c, "idle", "stamped")
  /\ created_at' = [created_at EXCEPT ![c] = clock]
  /\ settled' = [settled EXCEPT ![c] = {k \in Calls : record[k] = "ok"}]
  /\ UNCHANGED <<backend, clockVars, sent, events, listVars, restarts>>

\* The memory log: lock, push, unlock and Ok, with no await after the lock.
Push(c) ==
  /\ backend = "memory"
  /\ Advance(c, "stamped", "ok")
  /\ events' = Append(events, c)
  /\ UNCHANGED <<backend, clockVars, created_at, sent, settled, listVars,
                 restarts>>

\* Fault: a call that fails keeps its connection.
InUse_Leaks ==
  Cardinality({c \in Calls : record[c] \in {"insert", "error"}})
    + (IF list = "fetch" THEN 1 ELSE 0)

\* Connections that are with a call or with the list.
InUse ==
  Cardinality({c \in Calls : record[c] = "insert"})
    + (IF list = "fetch" THEN 1 ELSE 0)

\* execute(&self.pool): a connection of the pool, and the insert is sent.
Acquire(c) ==
  /\ backend = "postgres"
  /\ InUse < Connections
  /\ Advance(c, "stamped", "insert")
  /\ sent' = sent \cup {c}
  /\ UNCHANGED <<backend, clockVars, created_at, events, settled, listVars,
                 restarts>>

\* No connection came free, or none could be opened, before the pool gave up.
AcquireTimeout(c) ==
  /\ backend = "postgres"
  /\ Advance(c, "stamped", "error")
  /\ UNCHANGED <<backend, clockVars, created_at, sent, events, settled,
                 listVars, restarts>>

\* The database commits an insert it was given, waited for or not.
Commit(c) ==
  /\ c \in sent
  /\ sent' = sent \ {c}
  /\ events' = Append(events, c)
  /\ UNCHANGED <<backend, clockVars, record, created_at, settled, listVars,
                 restarts>>

\* The database refuses an insert, or loses it with the connection.
Refuse(c) ==
  /\ c \in sent
  /\ sent' = sent \ {c}
  /\ UNCHANGED <<backend, clockVars, record, created_at, events, settled,
                 listVars, restarts>>

\* The answer to a committed insert arrives.  A round trip to the database
\* takes longer than the microsecond a timestamptz resolves.
Reply(c) ==
  /\ c \in Elements(events)
  /\ set_back \/ created_at[c] < clock
  /\ Advance(c, "insert", "ok")
  /\ UNCHANGED <<backend, clockVars, created_at, sent, events, settled,
                 listVars, restarts>>

\* Fault: a failed insert is tried again, for ever.
InsertFails_Retries(c) ==
  /\ Advance(c, "insert", "stamped")
  /\ c \notin Elements(events)
  /\ sent' = sent \ {c}
  /\ UNCHANGED <<backend, clockVars, created_at, events, settled, listVars,
                 restarts>>

\* Fault: the error of the insert is ignored.
InsertFails_Ignored(c) ==
  /\ Advance(c, "insert", "ok")
  /\ UNCHANGED <<backend, clockVars, created_at, sent, events, settled,
                 listVars, restarts>>

\* The connection breaks or the insert was refused: the caller gets an error,
\* whether or not the row is or will be in the table.
InsertFails(c) ==
  /\ Advance(c, "insert", "error")
  /\ UNCHANGED <<backend, clockVars, created_at, sent, events, settled,
                 listVars, restarts>>

\* The server drops the handler that waits for record.
Drop(c) ==
  /\ record[c] \in InFlight
  /\ record' = [record EXCEPT ![c] = "dropped"]
  /\ UNCHANGED <<backend, clockVars, created_at, sent, events, settled,
                 listVars, restarts>>

-----------------------------------------------------------------------------
(* GET /v1/audit-events                                                    *)

\* Fault: the limit of the query is taken as it comes.
PageLimit_Unclamped(query) == IF query = NoLimit THEN DefaultLimit ELSE query

\* query.limit.unwrap_or(50).min(200)
PageLimit(query) ==
  LET asked == IF query = NoLimit THEN DefaultLimit ELSE query
  IN  IF asked <= MaxLimit THEN asked ELSE MaxLimit

StartList(query) ==
  /\ list \notin Listing
  /\ list' = "waiting"
  /\ limit' = PageLimit(query)
  /\ seen' = Elements(page)
               \cup {c \in Calls : record[c] = "ok" /\ c \in Elements(events)}
  /\ UNCHANGED <<backend, clockVars, callVars, page, restarts>>

\* The number of events on a page.
PageSize == IF Len(events) <= limit THEN Len(events) ELSE limit

\* Fault: take(limit) comes before rev().
MemoryPage_TakesFirst == [i \in 1..PageSize |-> events[PageSize + 1 - i]]

\* Fault: without rev().
MemoryPage_OldestFirst ==
  [i \in 1..PageSize |-> events[Len(events) - PageSize + i]]

\* events.iter().rev().take(limit)
MemoryPage == [i \in 1..PageSize |-> events[Len(events) + 1 - i]]

\* Fault: without "order by".
Newer_Unordered(a, b) == TRUE

\* The order of the query: the stamps, and nothing among equal ones.
Newer(a, b) == created_at[a] >= created_at[b]

\* order by created_at desc limit $1: any page the query allows.
SortedPages ==
  {p \in [1..PageSize -> Elements(events)] :
     /\ \A i, k \in 1..PageSize : i < k => p[i] # p[k] /\ Newer(p[i], p[k])
     /\ \A c \in Elements(events) \ Elements(p), i \in 1..PageSize :
          Newer(p[i], c)}

ListMemory ==
  /\ backend = "memory"
  /\ list = "waiting"
  /\ list' = "page"
  /\ page' = MemoryPage
  /\ UNCHANGED <<backend, clockVars, callVars, limit, seen, restarts>>

ListAcquire ==
  /\ backend = "postgres"
  /\ list = "waiting"
  /\ InUse < Connections
  /\ list' = "fetch"
  /\ UNCHANGED <<backend, clockVars, callVars, limit, seen, page, restarts>>

Fetch ==
  /\ list = "fetch"
  /\ list' = "page"
  /\ page' \in SortedPages
  /\ UNCHANGED <<backend, clockVars, callVars, limit, seen, restarts>>

\* The pool gives up, the query fails, or the client goes away.
ListFails ==
  /\ list \in Listing
  /\ list' = "error"
  /\ UNCHANGED <<backend, clockVars, callVars, limit, seen, page, restarts>>

-----------------------------------------------------------------------------
(* Restarts and the specification                                          *)

\* The process ends and starts again with the same DATABASE_URL: the calls
\* under way are gone, the memory log is empty; an insert that the database
\* was given may still be committed.
Restart ==
  /\ restarts < MaxRestarts
  /\ restarts' = restarts + 1
  /\ record' = [c \in Calls |->
                  IF record[c] \in InFlight THEN "dropped" ELSE record[c]]
  /\ events' = IF backend = "memory" THEN <<>> ELSE events
  /\ list' = "none"
  /\ limit' = 0
  /\ seen' = {}
  /\ page' = <<>>
  /\ UNCHANGED <<backend, clockVars, created_at, sent, settled>>

Call(c) ==
  \/ Stamp(c) \/ Push(c) \/ Acquire(c) \/ AcquireTimeout(c) \/ Commit(c)
  \/ Refuse(c) \/ Reply(c) \/ InsertFails(c) \/ Drop(c)

List ==
  \/ \E query \in Limits \cup {NoLimit} : StartList(query)
  \/ ListMemory \/ ListAcquire \/ Fetch \/ ListFails

Next ==
  \/ \E c \in Calls : Call(c)
  \/ List
  \/ Tick
  \/ SetBack
  \/ Restart

Spec == Init /\ [][Next]_vars

\* The executor polls the tasks that are ready, and the database answers or
\* breaks the connection: the code sets no timeout on a statement.  The pool
\* serves those who wait for a connection in turn, so whoever finds one free
\* again and again gets it; that it may give up on a call (acquire_timeout) is
\* not counted on.
FairSpec ==
  /\ Spec
  /\ \A c \in Calls :
       /\ WF_vars(Push(c))
       /\ SF_vars(Acquire(c))
       /\ WF_vars(Reply(c) \/ InsertFails(c))
  /\ WF_vars(ListMemory)
  /\ SF_vars(ListAcquire)
  /\ WF_vars(Fetch)

-----------------------------------------------------------------------------
(* Properties                                                              *)

\* Every variable holds a value of its kind; the pool is never overdrawn and no
\* page is longer than the largest one allowed.
TypeOK ==
  /\ backend \in {"memory", "postgres"}
  /\ clock \in 0..MaxClock
  /\ set_back \in BOOLEAN
  /\ record \in [Calls -> {"idle", "ok", "error", "dropped"} \cup InFlight]
  /\ created_at \in [Calls -> 0..MaxClock]
  /\ sent \subseteq Calls
  /\ events \in Seq(Calls)
  /\ settled \in [Calls -> SUBSET Calls]
  /\ list \in {"none", "page", "error"} \cup Listing
  /\ limit \in 0..MaxLimit
  /\ seen \subseteq Calls
  /\ page \in Seq(Calls)
  /\ Len(page) <= MaxLimit
  /\ InUse <= Connections
  /\ restarts \in 0..MaxRestarts

\* The order of the answers can be relied on.
Orderly == backend = "memory" \/ ~set_back

\* A page shows two events in the order they happened: an event whose call was
\* answered before the other one's began comes after it (newest first).  The
\* memory log keeps this even when the clock is set back, Postgres does not.
RealTimeOrder ==
  Orderly => \A i, k \in 1..Len(page) : i < k => page[i] \notin settled[page[k]]

\* A page leaves out an event that its client can know of only when it is full,
\* and then not in favour of an event that is known to be older.
NothingKnownIsMissing ==
  list = "page" =>
    \A c \in seen \ Elements(page) :
      /\ Len(page) = limit
      /\ Orderly => Elements(page) \cap settled[c] = {}

Above(p, a, b) == \E i, k \in 1..Len(p) : i < k /\ p[i] = a /\ p[k] = b

\* Two lists never disagree about the order of two events, unless Postgres gave
\* them one stamp.
ListsAgree ==
  [][\A a, b \in Calls : Above(page, a, b) /\ Above(page', b, a) =>
       backend = "postgres" /\ created_at[a] = created_at[b]]_vars

\* Every call of record or list comes back, and none needs the pool to give up
\* for that: a connection that was lent is free again, whatever its call came to.
EveryCallEnds ==
  /\ \A c \in Calls : record[c] \in InFlight ~> record[c] \notin InFlight
  /\ list \in Listing ~> list \notin Listing

\* The state of a call as the promise knows it.
CallState(c) ==
  CASE record[c] = "idle" -> "idle"
    [] record[c] \in InFlight -> "begun"
    [] record[c] = "ok" -> "told"
    [] OTHER -> "over"

Promise == INSTANCE AuditPromise WITH
  call <- [c \in Calls |-> CallState(c)],
  kept <- Elements(events),
  shown <- Elements(page),
  durable <- backend = "postgres"

\* The repository with its clock, lock, pool, database and restarts keeps the
\* promise.
KeepsAuditPromise == Promise!Spec
=============================================================================
