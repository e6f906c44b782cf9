---------------------------- MODULE AuditLog_proofs ----------------------------
(***************************************************************************)
(* Theorems about the audit repository, for any number of calls and        *)
(* connections, any limits, and any number of restarts.                    *)
(***************************************************************************)
EXTENDS AuditLog, FiniteSetTheorems, FunctionTheorems, SequenceTheorems, TLAPS

-----------------------------------------------------------------------------
(* Sequences                                                               *)

\* What a push leaves.
LEMMA AppendFacts ==
  ASSUME NEW S, NEW s \in Seq(S), NEW x \in S
  PROVE  /\ Append(s, x) \in Seq(S)
         /\ Len(Append(s, x)) = Len(s) + 1
         /\ \A i \in 1..Len(s) : Append(s, x)[i] = s[i]
         /\ Append(s, x)[Len(s) + 1] = x
         /\ Elements(Append(s, x)) = Elements(s) \cup {x}
<1>1. /\ Append(s, x) \in Seq(S)
      /\ Len(Append(s, x)) = Len(s) + 1
      /\ \A i \in 1..Len(s) : Append(s, x)[i] = s[i]
      /\ Append(s, x)[Len(s) + 1] = x
  OBVIOUS
<1>2. Len(s) \in Nat
  OBVIOUS
<1>3. ASSUME NEW e \in Elements(Append(s, x)) PROVE e \in Elements(s) \cup {x}
  <2>1. PICK i \in 1..(Len(s) + 1) : e = Append(s, x)[i]
    BY <1>1, <1>3 DEF Elements
  <2>2. i = Len(s) + 1 \/ i \in 1..Len(s)
    BY <1>2
  <2> QED
    BY <1>1, <2>1, <2>2 DEF Elements
<1>4. ASSUME NEW e \in Elements(s) PROVE e \in Elements(Append(s, x))
  <2>1. PICK i \in 1..Len(s) : e = s[i]
    BY <1>4 DEF Elements
  <2>2. i \in 1..Len(Append(s, x)) /\ Append(s, x)[i] = e
    BY <1>1, <1>2, <2>1
  <2> QED
    BY <2>2 DEF Elements
<1>5. x \in Elements(Append(s, x))
  <2>1. Len(s) + 1 \in 1..Len(Append(s, x))
    BY <1>1, <1>2
  <2> QED
    BY <1>1, <2>1 DEF Elements
<1> QED
  BY <1>1, <1>3, <1>4, <1>5

\* A function on 1..n is a sequence of length n.
LEMMA FunctionIsSequence ==
  ASSUME NEW S, NEW n \in Nat, NEW s \in [1..n -> S]
  PROVE  /\ s \in Seq(S)
         /\ Len(s) = n
BY SeqDef

\* An empty log shows nothing.
LEMMA NoElements == Elements(<<>>) = {}
BY DEF Elements

\* What a sequence shows is in the set it draws from.
LEMMA ElementsType ==
  ASSUME NEW S, NEW s \in Seq(S)
  PROVE  Elements(s) \subseteq S
BY ElementOfSeq DEF Elements

-----------------------------------------------------------------------------
(* Types                                                                   *)

\* The calls that hold a connection.  There are finitely many, however many
\* calls there are.
Inserting == {c \in Calls : record[c] = "insert"}

Pool == IsFiniteSet(Inserting) /\ InUse <= Connections

\* A page is never longer than the largest one allowed, whatever is asked for.
LEMMA LimitType ==
  ASSUME NEW query \in Limits \cup {NoLimit}
  PROVE  PageLimit(query) \in 0..MaxLimit
BY AuditLogAssumption DEF PageLimit

\* A page is a sequence of events, no longer than the limit.
LEMMA PageType ==
  ASSUME TypeOK
  PROVE  /\ PageSize \in 0..limit
         /\ PageSize <= Len(events)
         /\ MemoryPage \in [1..PageSize -> Elements(events)]
         /\ \A p \in SortedPages \cup {MemoryPage} :
              /\ p \in Seq(Calls)
              /\ Len(p) = PageSize
              /\ Elements(p) \subseteq Elements(events)
<1>1. Len(events) \in Nat /\ limit \in Nat
  BY DEF TypeOK
<1>2. PageSize \in 0..limit /\ PageSize <= Len(events)
  BY <1>1 DEF PageSize
<1>3. MemoryPage \in [1..PageSize -> Elements(events)]
  <2>1. \A i \in 1..PageSize : Len(events) + 1 - i \in 1..Len(events)
    BY <1>1, <1>2
  <2> QED
    BY <2>1 DEF MemoryPage, Elements
<1>4. Elements(events) \subseteq Calls
  BY ElementsType DEF TypeOK
<1>5. ASSUME NEW p \in [1..PageSize -> Elements(events)]
      PROVE  /\ p \in Seq(Calls)
             /\ Len(p) = PageSize
             /\ Elements(p) \subseteq Elements(events)
  <2>1. p \in [1..PageSize -> Calls] /\ PageSize \in Nat
    BY <1>2, <1>4
  <2>2. p \in Seq(Calls) /\ Len(p) = PageSize
    BY <2>1, FunctionIsSequence
  <2> QED
    BY <2>2 DEF Elements
<1> QED
  BY <1>2, <1>3, <1>5 DEF SortedPages

\* Only Acquire and ListAcquire take a connection, and only a free one.
LEMMA PoolStep ==
  ASSUME TypeOK, Pool, [Next]_vars
  PROVE  Pool'
<1> USE AuditLogAssumption
<1> DEFINE Listed == IF list = "fetch" THEN 1 ELSE 0
<1>0. InUse = Cardinality(Inserting) + Listed /\ Cardinality(Inserting) \in Nat
  BY FS_CardinalityType DEF InUse, Inserting, Pool
<1>1. InUse' = Cardinality(Inserting') + Listed'
  BY DEF InUse, Inserting
<1>2. ASSUME Inserting' \subseteq Inserting, Listed' <= Listed PROVE Pool'
  <2>1. IsFiniteSet(Inserting') /\ Cardinality(Inserting') <= Cardinality(Inserting)
    BY <1>2, FS_Subset DEF Pool
  <2>2. Cardinality(Inserting') \in Nat
    BY <2>1, FS_CardinalityType
  <2> QED
    BY <1>0, <1>1, <1>2, <2>1, <2>2 DEF Pool
<1>3. ASSUME NEW c \in Calls, Acquire(c) PROVE Pool'
  <2>1. Inserting' = Inserting \cup {c} /\ c \notin Inserting
    BY <1>3 DEF Acquire, Advance, Inserting, TypeOK
  <2>2. IsFiniteSet(Inserting') /\ Cardinality(Inserting') = Cardinality(Inserting) + 1
    BY <2>1, FS_AddElement DEF Pool
  <2>3. InUse < Connections /\ list' = list
    BY <1>3 DEF Acquire, listVars
  <2> QED
    BY <1>0, <1>1, <2>2, <2>3 DEF Pool
<1>4. CASE ListAcquire
  <2>1. Inserting' = Inserting /\ InUse < Connections /\ Listed' = 1 /\ Listed = 0
    BY <1>4 DEF ListAcquire, Inserting, callVars
  <2> QED
    BY <1>0, <1>1, <2>1 DEF Pool
<1>5. ASSUME NEW c \in Calls, Call(c), ~Acquire(c) PROVE Pool'
  <2>1. Inserting' \subseteq Inserting /\ list' = list
    BY <1>5 DEF Call, Stamp, Push, AcquireTimeout, Commit, Refuse, Reply,
       InsertFails, Drop, Advance, Inserting, TypeOK, listVars
  <2> QED
    BY <1>2, <2>1
<1>6. CASE List /\ ~ListAcquire
  <2>1. record' = record /\ (list' = "fetch" => list = "fetch")
    BY <1>6 DEF List, StartList, ListMemory, Fetch, ListFails, callVars
  <2> QED
    BY <1>2, <2>1 DEF Inserting
<1>7. CASE Tick \/ SetBack \/ UNCHANGED vars
  <2>1. record' = record /\ list' = list
    BY <1>7 DEF Tick, SetBack, vars, callVars, listVars
  <2> QED
    BY <1>2, <2>1 DEF Inserting
<1>8. CASE Restart
  <2>1. Inserting' \subseteq Inserting /\ Listed' = 0
    BY <1>8 DEF Restart, Inserting, InFlight, TypeOK
  <2> QED
    BY <1>2, <2>1
<1> QED
  BY <1>3, <1>4, <1>5, <1>6, <1>7, <1>8 DEF Next

\* Every variable keeps a value of its kind, the pool is never overdrawn and no
\* page is longer than the largest one allowed.
THEOREM TypeCorrect == Spec => [](TypeOK /\ Pool)
<1>1. Init => TypeOK /\ Pool
  <2> SUFFICES ASSUME Init PROVE TypeOK /\ Pool
    OBVIOUS
  <2>1. Inserting = {}
    BY DEF Init, Inserting
  <2>2. Cardinality(Inserting) = 0 /\ IsFiniteSet(Inserting)
    BY <2>1, FS_EmptySet
  <2>3. InUse = 0
    BY <2>2 DEF Init, InUse, Inserting
  <2>4. Pool
    BY <2>2, <2>3, AuditLogAssumption DEF Pool
  <2>5. /\ events \in Seq(Calls) /\ page \in Seq(Calls) /\ Len(page) = 0
    BY EmptySeq DEF Init
  <2>6. /\ record \in [Calls -> {"idle", "ok", "error", "dropped"} \cup InFlight]
        /\ created_at \in [Calls -> 0..MaxClock]
        /\ settled \in [Calls -> SUBSET Calls]
    BY AuditLogAssumption DEF Init
  <2>7. /\ backend \in {"memory", "postgres"}
        /\ set_back \in BOOLEAN
        /\ sent \subseteq Calls
        /\ seen \subseteq Calls
    BY DEF Init
  <2>8. /\ clock \in 0..MaxClock
        /\ list \in {"none", "page", "error"} \cup Listing
        /\ limit \in 0..MaxLimit
        /\ Len(page) <= MaxLimit
        /\ InUse <= Connections
        /\ restarts \in 0..MaxRestarts
    BY <2>3, <2>5, AuditLogAssumption DEF Init
  <2> QED
    BY <2>4, <2>5, <2>6, <2>7, <2>8 DEF TypeOK
<1>2. TypeOK /\ Pool /\ [Next]_vars => TypeOK' /\ Pool'
  <2> SUFFICES ASSUME TypeOK, Pool, [Next]_vars
               PROVE  TypeOK'
    BY PoolStep
  <2> USE AuditLogAssumption DEF Listing, InFlight
  <2>0. InUse' <= Connections'
    BY PoolStep DEF Pool
  <2>1. ASSUME NEW c \in Calls, Call(c) PROVE TypeOK'
    <3> USE <2>0 DEF TypeOK, Advance, clockVars, listVars
    <3>1. CASE Stamp(c)
      BY <3>1 DEF Stamp
    <3>2. ASSUME Push(c) \/ Commit(c) PROVE TypeOK'
      <4>1. events' = Append(events, c) /\ events \in Seq(Calls)
        BY <3>2 DEF Push, Commit
      <4> HIDE DEF TypeOK
      <4>2. events' \in Seq(Calls)
        BY <4>1, AppendFacts
      <4>3. CASE Push(c)
        BY <4>2, <4>3 DEF Push, TypeOK
      <4>4. CASE Commit(c)
        BY <4>2, <4>4 DEF Commit, TypeOK
      <4> QED
        BY <3>2, <4>3, <4>4
    <3>3. CASE Acquire(c)
      BY <3>3 DEF Acquire
    <3>4. CASE AcquireTimeout(c)
      BY <3>4 DEF AcquireTimeout
    <3>5. CASE Refuse(c)
      BY <3>5 DEF Refuse
    <3>6. CASE Reply(c)
      BY <3>6 DEF Reply
    <3>7. CASE InsertFails(c)
      BY <3>7 DEF InsertFails
    <3>8. CASE Drop(c)
      BY <3>8 DEF Drop
    <3> QED
      BY <2>1, <3>1, <3>2, <3>3, <3>4, <3>5, <3>6, <3>7, <3>8 DEF Call
  <2>2. CASE List
    <3>1. UNCHANGED <<backend, clock, set_back, record, created_at, sent, events,
                      settled, restarts>>
      BY <2>2 DEF List, StartList, ListMemory, ListAcquire, Fetch, ListFails,
         clockVars, callVars
    <3>2. limit' \in 0..MaxLimit /\ list' \in {"none", "page", "error"} \cup Listing
      BY <2>2, LimitType DEF List, StartList, ListMemory, ListAcquire, Fetch,
         ListFails, TypeOK
    <3>3. seen' \subseteq Calls
      BY <2>2, ElementsType DEF List, StartList, ListMemory, ListAcquire, Fetch,
         ListFails, TypeOK
    <3>4. page' = page \/ page' \in SortedPages \cup {MemoryPage}
      BY <2>2 DEF List, StartList, ListMemory, ListAcquire, Fetch, ListFails
    <3>5. page' \in Seq(Calls) /\ Len(page') <= MaxLimit
      BY <3>4, PageType DEF TypeOK
    <3> QED
      BY <2>0, <3>1, <3>2, <3>3, <3>5 DEF TypeOK
  <2>3. CASE Tick \/ SetBack
    <3>1. clock' \in 0..MaxClock
      BY <2>3 DEF Tick, SetBack, TypeOK
    <3>2. set_back' \in BOOLEAN
      BY <2>3 DEF Tick, SetBack, TypeOK
    <3>3. UNCHANGED <<backend, callVars, listVars, restarts>>
      BY <2>3 DEF Tick, SetBack
    <3> QED
      BY <2>0, <3>1, <3>2, <3>3 DEF callVars, listVars, TypeOK
  <2>4. CASE Restart
    BY <2>0, <2>4 DEF Restart, clockVars, TypeOK
  <2>5. CASE UNCHANGED vars
    BY <2>0, <2>5 DEF vars, clockVars, callVars, listVars, TypeOK
  <2> QED
    BY <2>1, <2>2, <2>3, <2>4, <2>5 DEF Next
<1> QED
  BY <1>1, <1>2, PTL DEF Spec

-----------------------------------------------------------------------------
(* What a step can change                                                  *)

\* A call that has begun keeps its stamp and what it knew; Ok is never taken
\* back, and only Push and Reply say it.
LEMMA CallHistory ==
  ASSUME TypeOK, [Next]_vars, NEW c \in Calls
  PROVE  /\ record[c] # "idle" => /\ record'[c] # "idle"
                                  /\ created_at'[c] = created_at[c]
                                  /\ settled'[c] = settled[c]
         /\ \/ Stamp(c)
            \/ /\ created_at'[c] = created_at[c]
               /\ settled'[c] = settled[c]
               /\ record'[c] = "idle" <=> record[c] = "idle"
         /\ record[c] = "ok" => record'[c] = "ok"
         /\ record'[c] = "ok" => record[c] = "ok" \/ Push(c) \/ Reply(c)
         /\ record'[c] \in {"idle", "stamped"} =>
              record[c] \in {"idle", "stamped"}
<1> USE DEF Advance, InFlight
<1>1. ASSUME NEW d \in Calls, Stamp(d)
      PROVE  c = d \/ UNCHANGED <<record[c], created_at[c], settled[c]>>
  BY <1>1 DEF Stamp, TypeOK
<1>2. CASE Stamp(c)
  BY <1>2 DEF Stamp, TypeOK
<1>3. ASSUME NEW d \in Calls, Call(d), ~Stamp(d)
      PROVE  /\ UNCHANGED <<created_at, settled>>
             /\ c # d => record'[c] = record[c]
  BY <1>3 DEF Call, Push, Acquire, AcquireTimeout, Commit, Refuse, Reply,
     InsertFails, Drop, TypeOK
<1>4. CASE Call(c) /\ ~Stamp(c)
  <2>1. /\ record'[c] = "idle" <=> record[c] = "idle"
        /\ record[c] = "ok" => record'[c] = "ok"
        /\ record'[c] = "ok" => record[c] = "ok" \/ Push(c) \/ Reply(c)
        /\ record'[c] \in {"idle", "stamped"} => record[c] \in {"idle", "stamped"}
    BY <1>4 DEF Call, Push, Acquire, AcquireTimeout, Commit, Refuse, Reply,
       InsertFails, Drop, TypeOK
  <2> QED
    BY <1>3, <1>4, <2>1
<1>5. CASE List \/ Tick \/ SetBack \/ UNCHANGED vars
  <2>1. UNCHANGED <<record, created_at, settled>>
    BY <1>5 DEF List, StartList, ListMemory, ListAcquire, Fetch, ListFails, Tick,
       SetBack, vars, callVars
  <2> QED
    BY <2>1
<1>6. CASE Restart
  BY <1>6 DEF Restart, TypeOK
<1> QED
  BY <1>1, <1>2, <1>3, <1>4, <1>5, <1>6 DEF Next

\* The log changes by a push or a commit at its end, or is lost in a restart.
LEMMA LogHistory ==
  ASSUME TypeOK, [Next]_vars
  PROVE  /\ backend' = backend
         /\ \/ UNCHANGED <<events, sent>>
            \/ \E c \in Calls :
                 \/ Push(c) \/ Commit(c)
                 \/ Acquire(c) \/ Refuse(c)
            \/ Restart /\ events' = <<>> /\ sent' = sent /\ backend = "memory"
<1>1. ASSUME NEW c \in Calls, Call(c)
      PROVE  /\ backend' = backend
             /\ \/ UNCHANGED <<events, sent>>
                \/ Push(c) \/ Commit(c) \/ Acquire(c) \/ Refuse(c)
  BY <1>1 DEF Call, Stamp, Push, Acquire, AcquireTimeout, Commit, Refuse, Reply,
     InsertFails, Drop
<1>2. CASE List \/ Tick \/ SetBack \/ UNCHANGED vars
  BY <1>2 DEF List, StartList, ListMemory, ListAcquire, Fetch, ListFails, Tick,
     SetBack, vars, callVars
<1>3. CASE Restart
  BY <1>3 DEF Restart
<1> QED
  BY <1>1, <1>2, <1>3 DEF Next

\* The page is replaced by a list that ends, and forgotten in a restart.
LEMMA PageHistory ==
  ASSUME TypeOK, [Next]_vars
  PROVE  \/ /\ UNCHANGED <<page, seen, limit>>
            /\ list' = list \/ list' = "error" \/ (list' = "fetch" /\ backend = "postgres")
         \/ /\ \E query \in Limits \cup {NoLimit} : StartList(query)
            /\ page' = page /\ list' = "waiting"
         \/ ListMemory \/ Fetch
         \/ Restart /\ page' = <<>> /\ seen' = {} /\ list' = "none"
<1>1. CASE (\E c \in Calls : Call(c)) \/ Tick \/ SetBack \/ UNCHANGED vars
  BY <1>1 DEF Call, Stamp, Push, Acquire, AcquireTimeout, Commit, Refuse, Reply,
     InsertFails, Drop, Tick, SetBack, vars, listVars
<1>2. CASE List
  BY <1>2 DEF List, StartList, ListAcquire, ListFails
<1>3. CASE Restart
  BY <1>3 DEF Restart
<1> QED
  BY <1>1, <1>2, <1>3 DEF Next

-----------------------------------------------------------------------------
(* The inductive invariant                                                 *)

\* What a call knew to be answered is answered.
KnewAnswered ==
  \A c \in Calls :
    /\ \A k \in settled[c] : record[k] = "ok"
    /\ record[c] = "idle" => settled[c] = {}

\* An event gets into the log once, and not before its call sends it.
LandedOnce ==
  /\ \A c \in Elements(events) \cup sent : record[c] \notin {"idle", "stamped"}
  /\ \A c \in sent : c \notin Elements(events) /\ record[c] # "ok"
  /\ backend = "memory" => sent = {}
  /\ \A i, k \in 1..Len(events) : i < k => events[i] # events[k]

\* The memory log is in the order in which the calls were answered.
PushedInOrder ==
  backend = "memory" =>
    \A i, k \in 1..Len(events) : i < k => events[k] \notin settled[events[i]]

\* While the clock has not been set back, the stamps are in that order too.
StampedInOrder ==
  backend = "postgres" /\ ~set_back =>
    \A c \in Calls :
      /\ created_at[c] <= clock
      /\ record[c] = "ok" => created_at[c] < clock
      /\ \A k \in settled[c] : created_at[k] < created_at[c]

\* A page shows what is in the log, in the order of its repository.
PageIsOrdered ==
  /\ Elements(page) \cup seen \subseteq Elements(events)
  /\ list = "fetch" => backend = "postgres"
  /\ backend = "memory" =>
       \A i, k \in 1..Len(page) : i < k =>
         \E m, n \in 1..Len(events) :
           m < n /\ page[k] = events[m] /\ page[i] = events[n]
  /\ backend = "postgres" =>
       \A i, k \in 1..Len(page) : i < k => Newer(page[i], page[k])

IInv ==
  /\ KnewAnswered
  /\ LandedOnce
  /\ PushedInOrder
  /\ StampedInOrder
  /\ PageIsOrdered

\* Every step keeps it: a call that was answered stays answered.
LEMMA KnewAnsweredStep ==
  ASSUME TypeOK, TypeOK', [Next]_vars, KnewAnswered
  PROVE  KnewAnswered'
<1> SUFFICES ASSUME NEW c \in Calls
             PROVE  /\ \A k \in settled'[c] : record'[k] = "ok"
                    /\ record'[c] = "idle" => settled'[c] = {}
  BY DEF KnewAnswered
<1>1. CASE Stamp(c)
  BY <1>1 DEF Stamp, Advance, TypeOK
<1>2. CASE ~Stamp(c)
  <2>1. settled'[c] = settled[c] /\ (record'[c] = "idle" <=> record[c] = "idle")
    BY <1>2, CallHistory
  <2>2. settled[c] \subseteq Calls
    BY DEF TypeOK
  <2> QED
    BY <2>1, <2>2, CallHistory DEF KnewAnswered
<1> QED
  BY <1>1, <1>2

\* Every step keeps it: an insert leaves sent when it lands.
LEMMA LandedOnceStep ==
  ASSUME TypeOK, TypeOK', [Next]_vars, LandedOnce
  PROVE  LandedOnce'
<1>0. Elements(events) \subseteq Calls /\ sent \subseteq Calls
  BY ElementsType DEF TypeOK
<1>1. \A c \in Calls : record[c] \notin {"idle", "stamped"} => record'[c] \notin {"idle", "stamped"}
  BY CallHistory
<1>7. ASSUME NEW c \in sent PROVE record'[c] # "ok"
  BY <1>0, CallHistory DEF Push, Reply, Advance, LandedOnce
<1>2. CASE UNCHANGED <<events, sent>>
  BY <1>0, <1>1, <1>2, <1>7, LogHistory DEF LandedOnce
<1>3. ASSUME NEW c \in Calls, Push(c) \/ Commit(c) PROVE LandedOnce'
  <2>1. events' = Append(events, c) /\ events \in Seq(Calls)
    BY <1>3 DEF Push, Commit, TypeOK
  <2>2. c \notin Elements(events)
    BY <1>3 DEF Push, Commit, Advance, LandedOnce
  <2>3. c \notin sent' /\ sent' \subseteq sent
    BY <1>3 DEF Push, Commit, Advance, LandedOnce
  <2>4. record'[c] \notin {"idle", "stamped"}
    BY <1>0, <1>1, <1>3 DEF Push, Commit, Advance, LandedOnce, TypeOK
  <2>5. Elements(events') = Elements(events) \cup {c}
    BY <2>1, AppendFacts
  <2>6. \A i, k \in 1..Len(events') : i < k => events'[i] # events'[k]
    <3> SUFFICES ASSUME NEW i \in 1..Len(events'), NEW k \in 1..Len(events'), i < k
                 PROVE  events'[i] # events'[k]
      OBVIOUS
    <3>1. Len(events) \in Nat /\ Len(events') = Len(events) + 1
      BY <2>1
    <3>2. i \in 1..Len(events) /\ (k \in 1..Len(events) \/ k = Len(events) + 1)
      BY <3>1
    <3>3. events'[i] = events[i] /\ events[i] \in Elements(events)
      BY <2>1, <3>2, AppendFacts DEF Elements
    <3>4. k = Len(events) + 1 => events'[k] = c
      BY <2>1, AppendFacts
    <3>5. k \in 1..Len(events) => events'[k] = events[k]
      BY <2>1, AppendFacts
    <3> QED
      BY <2>2, <3>2, <3>3, <3>4, <3>5 DEF LandedOnce
  <2> QED
    BY <1>0, <1>1, <1>7, <2>2, <2>3, <2>4, <2>5, <2>6, LogHistory DEF LandedOnce
<1>4. ASSUME NEW c \in Calls, Acquire(c) \/ Refuse(c) PROVE LandedOnce'
  <2>1. events' = events
    BY <1>4 DEF Acquire, Refuse
  <2>2. \A k \in sent' : /\ record'[k] \notin {"idle", "stamped", "ok"}
                        /\ k \notin Elements(events)
    BY <1>0, <1>1, <1>4, <1>7 DEF Acquire, Refuse, Advance, LandedOnce, TypeOK
  <2>3. backend' = "memory" => sent' = {}
    BY <1>4, LogHistory DEF Acquire, Refuse, LandedOnce
  <2> QED
    BY <1>0, <1>1, <2>1, <2>2, <2>3 DEF LandedOnce
<1>5. CASE events' = <<>> /\ sent' = sent /\ backend = "memory"
  <2>1. sent' = {} /\ Elements(events') = {} /\ Len(events') = 0
    BY <1>5, NoElements, EmptySeq DEF LandedOnce
  <2> QED
    BY <2>1 DEF LandedOnce
<1> QED
  BY <1>2, <1>3, <1>4, <1>5, LogHistory

\* Every step keeps it: a call is answered in the step of its push.
LEMMA PushedInOrderStep ==
  ASSUME TypeOK, TypeOK', [Next]_vars, KnewAnswered, LandedOnce, PushedInOrder
  PROVE  PushedInOrder'
<1> SUFFICES ASSUME backend' = "memory",
                    NEW i \in 1..Len(events'), NEW k \in 1..Len(events'), i < k
             PROVE  events'[k] \notin settled'[events'[i]]
  BY DEF PushedInOrder
<1>0. backend = "memory" /\ sent = {}
  BY LogHistory DEF LandedOnce
<1>1. \A e \in Elements(events) : e \in Calls /\ settled'[e] = settled[e]
  BY ElementsType, CallHistory DEF LandedOnce, TypeOK
<1>2. CASE events' = events
  BY <1>0, <1>1, <1>2 DEF PushedInOrder, Elements
<1>3. ASSUME NEW c \in Calls, Push(c)
      PROVE  events'[k] \notin settled'[events'[i]]
  <2>1. events' = Append(events, c) /\ events \in Seq(Calls)
    BY <1>3 DEF Push, TypeOK
  <2>2. Len(events) \in Nat /\ Len(events') = Len(events) + 1
    BY <2>1
  <2>3. i \in 1..Len(events) /\ (k \in 1..Len(events) \/ k = Len(events) + 1)
    BY <2>2
  <2>4. events'[i] = events[i] /\ events[i] \in Elements(events)
    BY <2>1, <2>3, AppendFacts DEF Elements
  <2>5. CASE k \in 1..Len(events)
    BY <1>0, <1>1, <2>1, <2>3, <2>4, <2>5, AppendFacts DEF PushedInOrder
  <2>6. CASE k = Len(events) + 1
    <3>1. events'[k] = c /\ record[c] = "stamped"
      BY <1>3, <2>1, <2>6, AppendFacts DEF Push, Advance
    <3> QED
      BY <1>1, <2>4, <3>1 DEF KnewAnswered
  <2> QED
    BY <2>3, <2>5, <2>6
<1>4. CASE events' = <<>>
  BY <1>4, EmptySeq
<1> QED
  BY <1>0, <1>2, <1>3, <1>4, LogHistory DEF Acquire, Refuse, Commit

\* An answer takes longer than the tick of a stamp, so what was answered is
\* older than what is stamped next.
LEMMA StampedInOrderStep ==
  ASSUME TypeOK, TypeOK', [Next]_vars, KnewAnswered, StampedInOrder
  PROVE  StampedInOrder'
<1> SUFFICES ASSUME backend' = "postgres", ~set_back', NEW c \in Calls
             PROVE  /\ created_at'[c] <= clock'
                    /\ record'[c] = "ok" => created_at'[c] < clock'
                    /\ \A k \in settled'[c] : created_at'[k] < created_at'[c]
  BY DEF StampedInOrder
<1>0. backend = "postgres" /\ ~set_back /\ clock \in Nat /\ clock' \in Nat /\ clock <= clock'
  <2>1. ~set_back /\ (clock' = clock \/ clock' = clock + 1)
    BY DEF Next, Call, Stamp, Push, Acquire, AcquireTimeout, Commit, Refuse, Reply,
       InsertFails, Drop, List, StartList, ListMemory, ListAcquire, Fetch, ListFails,
       Tick, SetBack, Restart, vars, clockVars
  <2> QED
    BY <2>1, LogHistory DEF TypeOK
<1>1. \A k \in Calls : created_at[k] \in Nat
  BY DEF TypeOK
<1>2. \A k \in settled[c] : k \in Calls /\ created_at'[k] = created_at[k]
  BY CallHistory DEF KnewAnswered, TypeOK
<1>3. CASE Stamp(c)
  <2>1. created_at'[c] = clock /\ record'[c] # "ok" /\ clock' = clock
    BY <1>3 DEF Stamp, Advance, TypeOK, clockVars
  <2>2. settled'[c] = {k \in Calls : record[k] = "ok"}
    BY <1>3 DEF Stamp, TypeOK
  <2>3. ASSUME NEW k \in Calls, record[k] = "ok"
        PROVE  created_at'[k] < clock
    BY <1>0, <2>3, CallHistory DEF StampedInOrder
  <2> QED
    BY <1>0, <2>1, <2>2, <2>3
<1>4. CASE ~Stamp(c)
  <2>1. created_at'[c] = created_at[c] /\ settled'[c] = settled[c]
    BY <1>4, CallHistory
  <2>2. created_at[c] <= clock /\ \A k \in settled[c] : created_at[k] < created_at[c]
    BY <1>0 DEF StampedInOrder
  <2>3. record'[c] = "ok" => created_at[c] < clock
    <3>1. CASE record[c] = "ok"
      BY <1>0, <3>1 DEF StampedInOrder
    <3>2. CASE Push(c)
      BY <1>0, <3>2 DEF Push
    <3>3. CASE Reply(c)
      BY <1>0, <3>3 DEF Reply
    <3> QED
      BY <3>1, <3>2, <3>3, CallHistory
  <2> QED
    BY <1>0, <1>1, <1>2, <2>1, <2>2, <2>3
<1> QED
  BY <1>3, <1>4

\* The memory log only grows at its end, so what was before stays before.
LEMMA OrderInLogStays ==
  ASSUME TypeOK, [Next]_vars, LandedOnce, ~Restart
  PROVE  /\ Elements(events) \subseteq Elements(events')
         /\ Len(events) \in Nat /\ Len(events') \in Nat /\ Len(events) <= Len(events')
         /\ \A m \in 1..Len(events) : events'[m] = events[m]
<1>1. CASE events' = events
  BY <1>1 DEF TypeOK
<1>2. ASSUME NEW c \in Calls, events' = Append(events, c)
      PROVE  /\ Elements(events) \subseteq Elements(events')
             /\ Len(events) \in Nat /\ Len(events') \in Nat /\ Len(events) <= Len(events')
             /\ \A m \in 1..Len(events) : events'[m] = events[m]
  BY <1>2, AppendFacts DEF TypeOK
<1> QED
  BY <1>1, <1>2, LogHistory DEF Push, Commit, Acquire, Refuse

\* The memory log shows its events backwards.
LEMMA MemoryPageOrder ==
  ASSUME TypeOK, NEW i \in 1..PageSize, NEW k \in 1..PageSize, i < k
  PROVE  \E m, n \in 1..Len(events) :
           m < n /\ MemoryPage[k] = events[m] /\ MemoryPage[i] = events[n]
<1>1. Len(events) \in Nat /\ PageSize \in Nat /\ PageSize <= Len(events)
  BY PageType DEF TypeOK
<1> DEFINE m == Len(events) + 1 - k
           n == Len(events) + 1 - i
<1>2. m \in 1..Len(events) /\ n \in 1..Len(events) /\ m < n
  BY <1>1
<1>3. MemoryPage[k] = events[m] /\ MemoryPage[i] = events[n]
  BY DEF MemoryPage
<1> QED
  BY <1>2, <1>3

\* Every step keeps it: the log only grows while a page lives.
LEMMA PageIsOrderedStep ==
  ASSUME TypeOK, TypeOK', [Next]_vars, LandedOnce, PageIsOrdered
  PROVE  PageIsOrdered'
<1>0. backend' = backend
  BY LogHistory
<1>1. ASSUME NEW e \in Elements(events)
      PROVE  e \in Calls /\ created_at'[e] = created_at[e]
  BY ElementsType, CallHistory DEF LandedOnce, TypeOK
<1>2. CASE Restart
  <2>1. Elements(page') = {} /\ seen' = {} /\ list' = "none" /\ Len(page') = 0
    BY <1>2, NoElements, EmptySeq DEF Restart
  <2> QED
    BY <2>1 DEF PageIsOrdered
<1>3. CASE ~Restart /\ page' = page
  <2>1. Elements(page) \cup seen' \subseteq Elements(events)
    <3>1. seen' \subseteq seen \cup Elements(page) \cup Elements(events)
      BY <1>3, PageHistory DEF StartList, ListMemory, Fetch
    <3> QED
      BY <3>1 DEF PageIsOrdered
  <2>2. list' = "fetch" => backend = "postgres"
    BY <1>3, PageHistory DEF PageIsOrdered, ListMemory, Fetch
  <2>3. backend = "memory" =>
          \A i, k \in 1..Len(page) : i < k =>
            \E m, n \in 1..Len(events') :
              m < n /\ page[k] = events'[m] /\ page[i] = events'[n]
    <3> SUFFICES ASSUME backend = "memory",
                        NEW i \in 1..Len(page), NEW k \in 1..Len(page), i < k
                 PROVE  \E m, n \in 1..Len(events') :
                          m < n /\ page[k] = events'[m] /\ page[i] = events'[n]
      OBVIOUS
    <3>1. PICK m \in 1..Len(events), n \in 1..Len(events) :
            m < n /\ page[k] = events[m] /\ page[i] = events[n]
      BY DEF PageIsOrdered
    <3>2. m \in 1..Len(events') /\ n \in 1..Len(events')
      BY <1>3, <3>1, OrderInLogStays
    <3>3. events'[m] = events[m] /\ events'[n] = events[n]
      BY <1>3, <3>1, OrderInLogStays
    <3> QED
      BY <3>1, <3>2, <3>3
  <2>4. backend = "postgres" =>
          \A i, k \in 1..Len(page) : i < k => created_at'[page[i]] >= created_at'[page[k]]
    BY <1>1 DEF PageIsOrdered, Newer, Elements
  <2> QED
    BY <1>0, <1>3, <2>1, <2>2, <2>3, <2>4, OrderInLogStays DEF PageIsOrdered, Newer
<1>4. CASE ListMemory
  <2>1. page' = MemoryPage /\ events' = events /\ seen' = seen /\ list' = "page"
    BY <1>4 DEF ListMemory, callVars
  <2>2. Elements(page') \subseteq Elements(events) /\ Len(page') = PageSize
    BY <2>1, PageType
  <2> QED
    BY <1>0, <1>4, <2>1, <2>2, MemoryPageOrder DEF ListMemory, PageIsOrdered
<1>5. CASE Fetch
  <2>1. /\ page' \in SortedPages /\ events' = events /\ seen' = seen
        /\ created_at' = created_at /\ list' = "page" /\ backend = "postgres"
    BY <1>5 DEF Fetch, callVars, PageIsOrdered
  <2>2. Elements(page') \subseteq Elements(events) /\ Len(page') = PageSize
    BY <2>1, PageType
  <2>3. \A i, k \in 1..Len(page') : i < k => created_at'[page'[i]] >= created_at'[page'[k]]
    BY <2>1, <2>2 DEF SortedPages, Newer
  <2> QED
    BY <1>0, <2>1, <2>2, <2>3 DEF PageIsOrdered, Newer
<1> QED
  BY <1>2, <1>3, <1>4, <1>5, PageHistory

\* The invariant of stamps, answers, log and page holds in every reachable
\* state.
THEOREM InvariantHolds == Spec => [](TypeOK /\ IInv)
<1>1. Init => IInv
  <2> SUFFICES ASSUME Init PROVE IInv
    OBVIOUS
  <2>1. Elements(events) = {} /\ Elements(page) = {} /\ Len(events) = 0 /\ Len(page) = 0
    BY NoElements, EmptySeq DEF Init
  <2>2. KnewAnswered /\ StampedInOrder
    BY DEF Init, KnewAnswered, StampedInOrder
  <2> QED
    BY <2>1, <2>2 DEF Init, IInv, LandedOnce, PushedInOrder, PageIsOrdered
<1>2. TypeOK /\ TypeOK' /\ IInv /\ [Next]_vars => IInv'
  BY KnewAnsweredStep, LandedOnceStep, PushedInOrderStep, StampedInOrderStep,
     PageIsOrderedStep DEF IInv
<1> QED
  BY <1>1, <1>2, TypeCorrect, PTL DEF Spec

\* A page shows two events in the order they happened, whatever the repository,
\* unless Postgres has had its clock set back.
THEOREM PagesTellTheOrder == Spec => []RealTimeOrder
<1>1. TypeOK /\ IInv => RealTimeOrder
  <2> SUFFICES ASSUME TypeOK, IInv, Orderly,
                      NEW i \in 1..Len(page), NEW k \in 1..Len(page), i < k
               PROVE  page[i] \notin settled[page[k]]
    BY DEF RealTimeOrder
  <2>1. CASE backend = "memory"
    BY <2>1 DEF IInv, PageIsOrdered, PushedInOrder
  <2>2. CASE backend = "postgres"
    <3>1. page[k] \in Calls /\ page[i] \in Calls /\ ~set_back
      BY <2>2 DEF TypeOK, Orderly
    <3>2. created_at[page[i]] >= created_at[page[k]]
      BY <2>2 DEF IInv, PageIsOrdered, Newer
    <3>3. created_at[page[i]] \in Nat /\ created_at[page[k]] \in Nat
      BY <3>1 DEF TypeOK
    <3> QED
      BY <2>2, <3>1, <3>2, <3>3 DEF IInv, StampedInOrder
  <2> QED
    BY <2>1, <2>2 DEF TypeOK
<1> QED
  BY <1>1, InvariantHolds, PTL

\* Two lists never disagree about the order of two events with different
\* stamps, and in memory not about any.
THEOREM NoDisagreement == Spec => ListsAgree
<1>1. TypeOK /\ IInv /\ TypeOK' /\ IInv' /\ [Next]_vars =>
        \A a, b \in Calls : Above(page, a, b) /\ Above(page', b, a) =>
          backend = "postgres" /\ created_at[a] = created_at[b]
  <2> SUFFICES ASSUME TypeOK, IInv, TypeOK', IInv', [Next]_vars,
                      NEW a \in Calls, NEW b \in Calls,
                      Above(page, a, b), Above(page', b, a)
               PROVE  backend = "postgres" /\ created_at[a] = created_at[b]
    OBVIOUS
  <2>1. PICK i \in 1..Len(page), k \in 1..Len(page) : i < k /\ page[i] = a /\ page[k] = b
    BY DEF Above
  <2>2. PICK j \in 1..Len(page'), l \in 1..Len(page') : j < l /\ page'[j] = b /\ page'[l] = a
    BY DEF Above
  <2>3. ~Restart
    BY <2>2, EmptySeq DEF Restart
  <2>4. a \in Elements(events) /\ b \in Elements(events)
    BY <2>1 DEF Elements, IInv, PageIsOrdered
  <2>5. CASE backend = "memory"
    <3>1. PICK m \in 1..Len(events), n \in 1..Len(events) :
            m < n /\ b = events[m] /\ a = events[n]
      BY <2>1, <2>5 DEF IInv, PageIsOrdered
    <3>2. /\ m \in 1..Len(events') /\ n \in 1..Len(events')
          /\ events'[m] = b /\ events'[n] = a
      BY <2>3, <3>1, OrderInLogStays DEF IInv
    <3>3. PICK q \in 1..Len(events'), r \in 1..Len(events') :
            q < r /\ a = events'[q] /\ b = events'[r]
      <4>1. backend' = "memory"
        BY <2>5, LogHistory
      <4>2. \E q, r \in 1..Len(events') : q < r /\ page'[l] = events'[q] /\ page'[j] = events'[r]
        BY <2>2, <4>1 DEF IInv, PageIsOrdered
      <4> QED
        BY <2>2, <4>2
    <3>4. m = r /\ n = q
      <4>1. \A x, y \in 1..Len(events') : x < y => events'[x] # events'[y]
        BY DEF IInv, LandedOnce
      <4>2. \A x, y \in 1..Len(events') : events'[x] = events'[y] => x = y
        BY <4>1
      <4> QED
        BY <3>2, <3>3, <4>2
    <3> QED
      BY <3>1, <3>3, <3>4
  <2>6. CASE backend = "postgres"
    <3>1. created_at[a] >= created_at[b]
      BY <2>1, <2>6 DEF IInv, PageIsOrdered, Newer
    <3>2. created_at'[b] >= created_at'[a]
      BY <2>2, <2>6, LogHistory DEF IInv, PageIsOrdered, Newer
    <3>3. created_at'[a] = created_at[a] /\ created_at'[b] = created_at[b]
      BY <2>4, CallHistory DEF IInv, LandedOnce
    <3>4. created_at[a] \in Nat /\ created_at[b] \in Nat
      BY DEF TypeOK
    <3> QED
      BY <2>6, <3>1, <3>2, <3>3, <3>4
  <2> QED
    BY <2>5, <2>6 DEF TypeOK
<1> QED
  BY <1>1, InvariantHolds, PTL DEF Spec, ListsAgree

-----------------------------------------------------------------------------
(* Pages are complete                                                      *)

\* A page of Postgres without duplicates that is as long as the log shows all
\* of it.
LEMMA ShortLogIsShown ==
  ASSUME TypeOK, LandedOnce, PageSize = Len(events), NEW p \in SortedPages
  PROVE  Elements(events) \subseteq Elements(p)
<1> DEFINE I == 1..Len(events)
<1>1. Len(events) \in Nat /\ IsFiniteSet(I)
  BY FS_Interval DEF TypeOK
<1>2. events \in Bijection(I, Elements(events))
  <2>1. events \in [I -> Elements(events)]
    BY DEF TypeOK, Elements
  <2>2. \A i, k \in I : events[i] = events[k] => i = k
    <3>1. \A i, k \in I : i < k \/ k < i \/ i = k
      BY <1>1
    <3> QED
      BY <3>1 DEF LandedOnce
  <2>3. \A e \in Elements(events) : \E i \in I : events[i] = e
    BY DEF Elements
  <2> QED
    BY <2>1, <2>2, <2>3, Fun_IsBij
<1>3. IsFiniteSet(Elements(events)) /\ Cardinality(Elements(events)) = Cardinality(I)
  <2>1. ExistsBijection(I, Elements(events))
    BY <1>2 DEF ExistsBijection
  <2> QED
    BY <1>1, <2>1, FS_Bijection
<1>4. p \in Injection(I, Elements(events))
  <2>1. p \in [I -> Elements(events)]
    BY DEF SortedPages
  <2>2. \A i, k \in I : p[i] = p[k] => i = k
    <3>1. \A i, k \in I : i < k \/ k < i \/ i = k
      BY <1>1
    <3>2. \A i, k \in I : i < k => p[i] # p[k]
      BY DEF SortedPages
    <3> QED
      BY <3>1, <3>2
  <2> QED
    BY <2>1, <2>2, Fun_IsInj
<1>5. p \in Surjection(I, Elements(events))
  BY <1>3, <1>4, FS_Injection
<1>6. Len(p) = Len(events)
  BY PageType
<1>7. \A e \in Elements(events) : \E i \in I : p[i] = e
  BY <1>5, Fun_SurjectionProperties
<1>8. Elements(p) = {p[i] : i \in I}
  BY <1>6 DEF Elements
<1> QED
  BY <1>7, <1>8

\* An event in the log that a new page leaves out is there no longer than the
\* page is full, and everything on the page is at least as new.
LEMMA LeftOut ==
  ASSUME TypeOK, IInv, ListMemory \/ Fetch, NEW c \in Elements(events) \ Elements(page')
  PROVE  /\ Len(page') = limit
         /\ Orderly => Elements(page') \cap settled[c] = {}
<1>0. Len(events) \in Nat /\ limit \in Nat /\ c \in Calls
  BY ElementsType DEF TypeOK
<1>1. CASE ListMemory
  <2>1. page' = MemoryPage /\ backend = "memory"
    BY <1>1 DEF ListMemory
  <2>2. Len(page') = PageSize /\ PageSize \in 0..limit /\ PageSize <= Len(events)
    BY <2>1, PageType
  <2>3. PICK m \in 1..Len(events) : c = events[m]
    BY DEF Elements
  <2>4. m < Len(events) + 1 - PageSize
    <3> SUFFICES ASSUME m >= Len(events) + 1 - PageSize PROVE FALSE
      BY <1>0, <2>2
    <3>1. Len(events) + 1 - m \in 1..PageSize
      BY <1>0, <2>2
    <3>2. MemoryPage[Len(events) + 1 - m] = events[m]
      BY <1>0, <3>1 DEF MemoryPage
    <3> QED
      BY <2>1, <2>2, <2>3, <3>1, <3>2 DEF Elements
  <2>5. PageSize = limit
    <3>1. PageSize # Len(events)
      BY <1>0, <2>2, <2>4
    <3> QED
      BY <3>1 DEF PageSize
  <2>6. ASSUME NEW x \in Elements(page') PROVE x \notin settled[c]
    <3>1. PICK i \in 1..PageSize : x = events[Len(events) + 1 - i]
      BY <2>1, <2>2 DEF MemoryPage, Elements
    <3>2. Len(events) + 1 - i \in 1..Len(events) /\ m < Len(events) + 1 - i
      BY <1>0, <2>2, <2>4
    <3> QED
      BY <2>1, <2>3, <3>1, <3>2 DEF IInv, PushedInOrder
  <2> QED
    BY <2>2, <2>5, <2>6
<1>2. CASE Fetch
  <2>1. page' \in SortedPages /\ backend = "postgres"
    BY <1>2 DEF Fetch, IInv, PageIsOrdered
  <2>2. Len(page') = PageSize /\ Elements(page') \subseteq Calls
    BY <2>1, PageType, ElementsType
  <2>3. PageSize = limit
    BY <1>0, <2>1, ShortLogIsShown DEF PageSize, IInv
  <2>4. ASSUME NEW x \in Elements(page'), ~set_back PROVE x \notin settled[c]
    <3>1. created_at[x] >= created_at[c]
      BY <2>1, <2>2, <2>4 DEF SortedPages, Newer, Elements
    <3>2. created_at[x] \in Nat /\ created_at[c] \in Nat
      BY <1>0, <2>2 DEF TypeOK
    <3> QED
      BY <1>0, <2>1, <2>4, <3>1, <3>2 DEF IInv, StampedInOrder
  <2> QED
    BY <2>1, <2>2, <2>3, <2>4 DEF Orderly
<1> QED
  BY <1>1, <1>2

\* A page leaves out an event its client can know of only when it is full, and
\* then not in favour of one that is known to be older.
THEOREM PagesAreComplete == Spec => []NothingKnownIsMissing
<1>1. Init => NothingKnownIsMissing
  BY DEF Init, NothingKnownIsMissing
<1>2. TypeOK /\ IInv /\ NothingKnownIsMissing /\ [Next]_vars => NothingKnownIsMissing'
  <2> SUFFICES ASSUME TypeOK, IInv, NothingKnownIsMissing, [Next]_vars, list' = "page",
                      NEW c \in seen', c \notin Elements(page')
               PROVE  /\ Len(page') = limit'
                      /\ Orderly' => Elements(page') \cap settled'[c] = {}
    BY DEF NothingKnownIsMissing
  <2>1. Orderly' => Orderly
    <3>1. set_back => set_back'
      BY DEF Next, Call, Stamp, Push, Acquire, AcquireTimeout, Commit, Refuse, Reply,
         InsertFails, Drop, List, StartList, ListMemory, ListAcquire, Fetch, ListFails,
         Tick, SetBack, Restart, vars, clockVars
    <3> QED
      BY <3>1, LogHistory DEF Orderly
  <2>2. CASE UNCHANGED <<page, seen, limit>> /\ list' = list
    <3>1. c \in Elements(events)
      BY <2>2 DEF IInv, PageIsOrdered
    <3>2. settled'[c] = settled[c]
      BY <3>1, ElementsType, CallHistory DEF IInv, LandedOnce, TypeOK
    <3> QED
      BY <2>1, <2>2, <3>2 DEF NothingKnownIsMissing
  <2>3. CASE ListMemory \/ Fetch
    <3>1. UNCHANGED <<seen, limit, settled>>
      BY <2>3 DEF ListMemory, Fetch, callVars
    <3>2. c \in Elements(events)
      BY <3>1 DEF IInv, PageIsOrdered
    <3> QED
      BY <2>1, <2>3, <3>1, <3>2, LeftOut
  <2> QED
    BY <2>2, <2>3, PageHistory
<1> QED
  BY <1>1, <1>2, InvariantHolds, PTL DEF Spec

-----------------------------------------------------------------------------
(* Every step is progress                                                  *)

\* The steps that are left for a call, at most: of its caller, and of the
\* database for an insert it has been given.
RecordWork(c) ==
  CASE record[c] = "idle" -> 4
    [] record[c] = "stamped" -> 3
    [] record[c] = "insert" -> 1
    [] OTHER -> 0
SentWork(c) == IF c \in sent THEN 1 ELSE 0
CallWork(c) == RecordWork(c) + SentWork(c)

\* The steps that are left for the list.
ListWork == CASE list = "waiting" -> 2 [] list = "fetch" -> 1 [] OTHER -> 0

\* No step gives a call more to do, and every step of the repository leaves
\* less to do; only a new list, the clock and a restart need not.
Progress ==
  /\ \A c \in Calls : CallWork(c)' <= CallWork(c)
  /\ \/ /\ ListWork' <= ListWork
        /\ ListWork' < ListWork \/ \E c \in Calls : CallWork(c)' < CallWork(c)
     \/ \E query \in Limits \cup {NoLimit} : StartList(query)
     \/ Tick \/ SetBack \/ Restart

\* What is left to do is a number, before and after a step.
LEMMA WorkIsNat ==
  /\ ListWork \in 0..2 /\ ListWork' \in 0..2
  /\ \A c \in Calls : /\ RecordWork(c) \in 0..4 /\ RecordWork(c)' \in 0..4
                      /\ SentWork(c) \in 0..1 /\ SentWork(c)' \in 0..1
                      /\ CallWork(c) \in Nat /\ CallWork(c)' \in Nat
<1>1. ListWork \in 0..2 /\ ListWork' \in 0..2
  BY DEF ListWork
<1>2. ASSUME NEW c \in Calls
      PROVE  /\ RecordWork(c) \in 0..4 /\ RecordWork(c)' \in 0..4
             /\ SentWork(c) \in 0..1 /\ SentWork(c)' \in 0..1
  BY DEF RecordWork, SentWork
<1>3. \A c \in Calls : CallWork(c) \in Nat /\ CallWork(c)' \in Nat
  BY <1>2 DEF CallWork
<1> QED
  BY <1>1, <1>2, <1>3

\* Every step of a call takes a step away from it, and none from the others.
LEMMA CallProgress ==
  ASSUME TypeOK, NEW c \in Calls, Call(c)
  PROVE  /\ CallWork(c)' < CallWork(c)
         /\ \A k \in Calls \ {c} : CallWork(k)' = CallWork(k)
<1>1. CASE Commit(c) \/ Refuse(c)
  <2>1. c \in sent /\ sent' = sent \ {c} /\ record' = record
    BY <1>1 DEF Commit, Refuse
  <2>2. SentWork(c) = 1 /\ SentWork(c)' = 0
    BY <2>1 DEF SentWork
  <2>3. \A k \in Calls \ {c} : SentWork(k)' = SentWork(k)
    BY <2>1 DEF SentWork
  <2>4. \A k \in Calls : RecordWork(k)' = RecordWork(k)
    BY <2>1 DEF RecordWork
  <2>5. CallWork(c)' < CallWork(c)
    BY <2>2, <2>4, WorkIsNat DEF CallWork
  <2>6. \A k \in Calls \ {c} : CallWork(k)' = CallWork(k)
    BY <2>3, <2>4 DEF CallWork
  <2> QED
    BY <2>5, <2>6
<1>2. CASE Acquire(c)
  <2>1. record[c] = "stamped" /\ record' = [record EXCEPT ![c] = "insert"]
        /\ sent' = sent \cup {c}
    BY <1>2 DEF Acquire, Advance
  <2>2. RecordWork(c) = 3 /\ RecordWork(c)' = 1
    BY <2>1 DEF RecordWork, TypeOK
  <2>3. \A k \in Calls \ {c} : RecordWork(k)' = RecordWork(k) /\ SentWork(k)' = SentWork(k)
    BY <2>1 DEF RecordWork, SentWork, TypeOK
  <2>4. CallWork(c)' < CallWork(c)
    BY <2>2, WorkIsNat DEF CallWork
  <2>5. \A k \in Calls \ {c} : CallWork(k)' = CallWork(k)
    BY <2>3 DEF CallWork
  <2> QED
    BY <2>4, <2>5
<1>3. CASE Stamp(c) \/ Push(c) \/ AcquireTimeout(c) \/ Reply(c) \/ InsertFails(c) \/ Drop(c)
  <2>1. /\ RecordWork(c)' < RecordWork(c)
        /\ \A k \in Calls \ {c} : RecordWork(k)' = RecordWork(k)
    BY <1>3 DEF Stamp, Push, AcquireTimeout, Reply, InsertFails, Drop, Advance,
       InFlight, RecordWork, TypeOK
  <2>2. sent' = sent
    BY <1>3 DEF Stamp, Push, AcquireTimeout, Reply, InsertFails, Drop
  <2>3. \A k \in Calls : SentWork(k)' = SentWork(k)
    BY <2>2 DEF SentWork
  <2>4. CallWork(c)' < CallWork(c)
    BY <2>1, <2>3, WorkIsNat DEF CallWork
  <2>5. \A k \in Calls \ {c} : CallWork(k)' = CallWork(k)
    BY <2>1, <2>3 DEF CallWork
  <2> QED
    BY <2>4, <2>5
<1> QED
  BY <1>1, <1>2, <1>3 DEF Call

\* A call has at most four steps ahead of it.  No step adds one, and every step
\* of the repository takes one away from a call or from the list: a failed
\* insert is not tried again, and waiting for a connection or for the database
\* is never begun anew.
THEOREM EveryStepIsProgress == Spec => [][Progress]_vars
<1>1. TypeOK /\ [Next]_vars => [Progress]_vars
  <2> SUFFICES ASSUME TypeOK, Next PROVE Progress
    OBVIOUS
  <2>1. ASSUME NEW c \in Calls, Call(c) PROVE Progress
    <3>1. CallWork(c)' < CallWork(c)
      BY <2>1, CallProgress
    <3>2. \A k \in Calls : CallWork(k)' <= CallWork(k)
      BY <2>1, CallProgress, WorkIsNat
    <3>3. list' = list
      BY <2>1 DEF Call, Stamp, Push, Acquire, AcquireTimeout, Commit, Refuse, Reply,
         InsertFails, Drop, listVars
    <3>4. ListWork' <= ListWork
      BY <3>3, WorkIsNat DEF ListWork
    <3> QED
      BY <3>1, <3>2, <3>4 DEF Progress
  <2>2. CASE UNCHANGED <<record, sent>>
    <3>1. \A k \in Calls : CallWork(k)' <= CallWork(k)
      BY <2>2, WorkIsNat DEF CallWork, RecordWork, SentWork
    <3>2. CASE ListMemory \/ ListAcquire \/ Fetch \/ ListFails
      <4>1. ListWork' < ListWork
        BY <3>2 DEF ListMemory, ListAcquire, Fetch, ListFails, ListWork, Listing
      <4> QED
        BY <3>1, <4>1, WorkIsNat DEF Progress
    <3>3. CASE ~(ListMemory \/ ListAcquire \/ Fetch \/ ListFails)
      BY <2>1, <3>1, <3>3 DEF Next, List, Progress
    <3> QED
      BY <3>2, <3>3
  <2>3. CASE Restart
    <3>1. ASSUME NEW k \in Calls PROVE CallWork(k)' <= CallWork(k)
      <4>1. RecordWork(k)' <= RecordWork(k)
        BY <2>3 DEF Restart, InFlight, RecordWork, TypeOK
      <4>2. SentWork(k)' = SentWork(k)
        BY <2>3 DEF Restart, SentWork
      <4> QED
        BY <4>1, <4>2, WorkIsNat DEF CallWork
    <3> QED
      BY <2>3, <3>1 DEF Progress
  <2> QED
    BY <2>1, <2>2, <2>3 DEF Next, List, StartList, ListMemory, ListAcquire, Fetch,
       ListFails, Tick, SetBack, callVars
<1> QED
  BY <1>1, InvariantHolds, PTL DEF Spec

-----------------------------------------------------------------------------
(* The repository keeps the promise                                        *)

\* The state of every call, as the refinement mapping has it.
CallStates == [c \in Calls |-> CallState(c)]

\* A step that moves one call moves its state and no other.
LEMMA OneCallMoves ==
  ASSUME TypeOK, NEW c \in Calls, NEW from, NEW to, Advance(c, from, to)
  PROVE  /\ CallStates' = [CallStates EXCEPT ![c] = CallState(c)']
         /\ CallStates[c] = CallState(c)
         /\ CallState(c)' = CallState(c) => CallStates' = CallStates
         /\ record[c] = from /\ record'[c] = to
<1>1. /\ record' \in [Calls -> {record[k] : k \in Calls} \cup {to}]
      /\ record[c] = from /\ record'[c] = to
      /\ \A k \in Calls \ {c} : record'[k] = record[k]
  BY DEF Advance, TypeOK
<1>2. \A k \in Calls \ {c} : CallState(k)' = CallState(k)
  BY <1>1 DEF CallState
<1>3. CallStates' = [k \in Calls |-> IF k = c THEN CallState(c)' ELSE CallState(k)]
  BY <1>2 DEF CallStates
<1>4. [CallStates EXCEPT ![c] = CallState(c)']
        = [k \in Calls |-> IF k = c THEN CallState(c)' ELSE CallState(k)]
  BY DEF CallStates
<1>5. CallStates[c] = CallState(c)
  BY DEF CallStates
<1>6. CallState(c)' = CallState(c) => CallStates' = CallStates
  BY <1>3 DEF CallStates
<1> QED
  BY <1>1, <1>3, <1>4, <1>5, <1>6

\* Every step of a call of record is a step of the promise, or none.
LEMMA CallKeepsPromise ==
  ASSUME TypeOK, TypeOK', IInv, NEW c \in Calls, Call(c)
  PROVE  Promise!Next \/ UNCHANGED Promise!vars
<1> DEFINE Durable == backend = "postgres"
<1>0. UNCHANGED <<backend, page>>
  BY DEF Call, Stamp, Push, Acquire, AcquireTimeout, Commit, Refuse, Reply,
     InsertFails, Drop, listVars
<1>1. CASE Stamp(c)
  <2>1. UNCHANGED events /\ Advance(c, "idle", "stamped")
    BY <1>1 DEF Stamp
  <2>2. CallState(c) = "idle" /\ CallState(c)' = "begun"
    BY <2>1, OneCallMoves DEF CallState, InFlight
  <2>3. Promise!Begin(c)
    BY <1>0, <2>1, <2>2, OneCallMoves DEF Promise!Begin, CallStates
  <2> QED
    BY <2>3 DEF Promise!Next
<1>2. CASE Push(c)
  <2>1. events' = Append(events, c) /\ Advance(c, "stamped", "ok")
    BY <1>2 DEF Push
  <2>2. CallState(c) = "begun" /\ CallState(c)' = "told"
    BY <2>1, OneCallMoves DEF CallState, InFlight
  <2>3. Elements(events') = Elements(events) \cup {c}
    BY <2>1, AppendFacts DEF TypeOK
  <2>4. Promise!Confirm(c)
    BY <1>0, <2>1, <2>2, <2>3, OneCallMoves DEF Promise!Confirm, CallStates
  <2> QED
    BY <2>4 DEF Promise!Next
<1>3. CASE Acquire(c)
  <2>1. UNCHANGED events /\ Advance(c, "stamped", "insert")
    BY <1>3 DEF Acquire
  <2>2. CallState(c)' = CallState(c)
    BY <2>1, OneCallMoves DEF CallState, InFlight
  <2> QED
    BY <1>0, <2>1, <2>2, OneCallMoves DEF Promise!vars, CallStates
<1>4. CASE AcquireTimeout(c) \/ InsertFails(c) \/ Drop(c)
  <2>1. PICK from \in InFlight, to \in {"error", "dropped"} :
          UNCHANGED events /\ Advance(c, from, to)
    BY <1>4 DEF AcquireTimeout, InsertFails, Drop, Advance, InFlight
  <2>2. CallState(c) = "begun" /\ CallState(c)' = "over"
    BY <2>1, OneCallMoves DEF CallState, InFlight
  <2>3. Promise!GiveUp(c)
    BY <1>0, <2>1, <2>2, OneCallMoves DEF Promise!GiveUp, CallStates
  <2> QED
    BY <2>3 DEF Promise!Next
<1>5. CASE Commit(c)
  <2>1. events' = Append(events, c) /\ record' = record /\ c \in sent
    BY <1>5 DEF Commit
  <2>2. record[c] \in {"insert", "error", "dropped"}
    BY <2>1 DEF IInv, LandedOnce, TypeOK, InFlight
  <2>3. CallStates[c] \in {"begun", "over"} /\ CallStates' = CallStates
    BY <2>1, <2>2 DEF CallState, CallStates, InFlight
  <2>4. Elements(events') = Elements(events) \cup {c}
    BY <2>1, AppendFacts DEF TypeOK
  <2>5. Promise!Land(c)
    BY <1>0, <2>3, <2>4 DEF Promise!Land, CallStates
  <2> QED
    BY <2>5 DEF Promise!Next
<1>6. CASE Refuse(c)
  <2>1. UNCHANGED <<record, events>>
    BY <1>6 DEF Refuse
  <2> QED
    BY <1>0, <2>1 DEF Promise!vars, CallState
<1>7. CASE Reply(c)
  <2>1. UNCHANGED events /\ Advance(c, "insert", "ok") /\ c \in Elements(events)
    BY <1>7 DEF Reply
  <2>2. CallState(c) = "begun" /\ CallState(c)' = "told"
    BY <2>1, OneCallMoves DEF CallState, InFlight
  <2>3. Elements(events') = Elements(events) \cup {c}
    BY <2>1
  <2>4. Promise!Confirm(c)
    BY <1>0, <2>1, <2>2, <2>3, OneCallMoves DEF Promise!Confirm, CallStates
  <2> QED
    BY <2>4 DEF Promise!Next
<1> QED
  BY <1>1, <1>2, <1>3, <1>4, <1>5, <1>6, <1>7 DEF Call

\* The audit repository, with its clock, lock, pool, database and restarts,
\* implements AuditPromise: what was told Ok is kept, what is shown was kept,
\* and Postgres forgets nothing.
THEOREM Implements == Spec => KeepsAuditPromise
<1>1. Init => Promise!Init
  <2> SUFFICES ASSUME Init PROVE Promise!Init
    OBVIOUS
  <2>1. \A c \in Calls : CallState(c) = "idle"
    <3>1. \A c \in Calls : record[c] = "idle"
      BY DEF Init
    <3> QED
      BY <3>1 DEF CallState, InFlight
  <2>2. Elements(events) = {} /\ Elements(page) = {}
    BY NoElements DEF Init
  <2>3. (backend = "postgres") \in BOOLEAN
    OBVIOUS
  <2> QED
    BY <2>1, <2>2, <2>3 DEF Promise!Init
<1>2. TypeOK /\ IInv /\ TypeOK' /\ IInv' /\ [Next]_vars => [Promise!Next]_(Promise!vars)
  <2> SUFFICES ASSUME TypeOK, IInv, TypeOK', IInv', [Next]_vars
               PROVE  Promise!Next \/ UNCHANGED Promise!vars
    OBVIOUS
  <2>1. ASSUME NEW c \in Calls, Call(c)
        PROVE  Promise!Next \/ UNCHANGED Promise!vars
    BY <2>1, CallKeepsPromise
  <2>2. CASE ListMemory \/ Fetch
    <3>1. UNCHANGED <<backend, record, events>>
      BY <2>2 DEF ListMemory, Fetch, callVars
    <3>2. Elements(page') \subseteq Elements(events)
      BY <3>1 DEF IInv, PageIsOrdered
    <3>3. Promise!Read
      BY <3>1, <3>2 DEF Promise!Read, CallState
    <3> QED
      BY <3>3 DEF Promise!Next
  <2>3. CASE (List /\ ~ListMemory /\ ~Fetch) \/ Tick \/ SetBack \/ UNCHANGED vars
    <3>1. UNCHANGED <<backend, record, events, page>>
      BY <2>3 DEF List, StartList, ListAcquire, ListFails, Tick, SetBack, vars,
         callVars, listVars
    <3> QED
      BY <3>1 DEF Promise!vars, CallState
  <2>4. CASE Restart
    <3>1. \A c \in Calls :
            CallState(c)' = IF CallState(c) = "begun" THEN "over" ELSE CallState(c)
      BY <2>4 DEF Restart, CallState, InFlight, TypeOK
    <3>2. CallStates' = [c \in Calls |-> IF CallStates[c] = "begun" THEN "over" ELSE CallStates[c]]
      BY <3>1 DEF CallStates
    <3>3. Elements(events') = IF backend = "postgres" THEN Elements(events) ELSE {}
      BY <2>4, NoElements DEF Restart, TypeOK
    <3>4. Elements(page') = {} /\ backend' = backend
      BY <2>4, NoElements DEF Restart
    <3>5. Promise!End
      BY <3>2, <3>3, <3>4 DEF Promise!End, CallStates
    <3> QED
      BY <3>5 DEF Promise!Next
  <2> QED
    BY <2>1, <2>2, <2>3, <2>4 DEF Next, List
<1> QED
  BY <1>1, <1>2, InvariantHolds, PTL DEF Spec, KeepsAuditPromise, Promise!Spec
=============================================================================
