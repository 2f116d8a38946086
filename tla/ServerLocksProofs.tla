-------------------------- MODULE ServerLocksProofs --------------------------
(***************************************************************************)
(* Proofs about Transactions, for any set of calls smaller than the set of *)
(* transaction IDs, any addresses and any timeout; and about ServerLocks.  *)
(* The locks take nothing away from what is proved of the queries: with    *)
(* s.lock and rt.lock in the model every step is still a step of           *)
(* Transactions, or leaves its state alone, so the theorems about          *)
(* Transactions hold of the server as a whole.                             *)
(***************************************************************************)
EXTENDS ServerLocks, FiniteSetTheorems, TLAPS

-----------------------------------------------------------------------------
(***************************************************************************)
(* The queries, their answers and their timeouts                           *)
(***************************************************************************)
\* The server starts with no query and an empty network.
LEMMA InitTypes == Init => TypeOK
<1> SUFFICES ASSUME Init PROVE TypeOK
  OBVIOUS
<1>1. /\ tid \in 0..(TidMod - 1)
      /\ clock \in 0..Interval
      /\ 0 \in 0..(TidMod - 1)
      /\ 0 \in 0..(Interval + 1)
      /\ 0 \in 0..(2 * Interval + 1)
  BY ConstantsAssumption DEF Init
<1>2. /\ id \in [Call -> 0..(TidMod - 1)]
      /\ age \in [Call -> 0..(Interval + 1)]
      /\ since \in [Call -> 0..(2 * Interval + 1)]
  BY <1>1 DEF Init
<1>3. called \in [Call -> Nat]
  BY DEF Init
<1>4. pc \in [Call -> {"idle", "sending", "sent", "waiting", "failed"} \cup Done]
  BY DEF Init
<1>5. /\ trans \in SUBSET Call
      /\ net \in SUBSET (Call \X Kind)
      /\ sweeping \in BOOLEAN
      /\ stuck \in BOOLEAN
      /\ stopped \in BOOLEAN
  BY DEF Init
<1> QED
  BY <1>1, <1>2, <1>3, <1>4, <1>5 DEF TypeOK

\* Every variable keeps its type: tid wraps within uint32, and the ages stay
\* within their caps.
THEOREM TypeCorrect == Spec => []TypeOK
<1>1. TypeOK /\ [Next]_vars => TypeOK'
  <2> SUFFICES ASSUME TypeOK, [Next]_vars PROVE TypeOK'
    OBVIOUS
  <2> USE ConstantsAssumption DEF TypeOK, Done, Kind, timer
  <2>1. ASSUME NEW c \in Call, Refuse(c) PROVE TypeOK'
    BY <2>1 DEF Refuse
  <2>2. ASSUME NEW c \in Call, GetTransactionID(c) PROVE TypeOK'
    BY <2>2 DEF GetTransactionID
  <2>3. ASSUME NEW c \in Call, Send(c) PROVE TypeOK'
    BY <2>3 DEF Send
  <2>4. ASSUME NEW c \in Call, AddTransaction(c) PROVE TypeOK'
    BY <2>4 DEF AddTransaction
  <2>5. ASSUME NEW c \in Call, TimeOut(c) PROVE TypeOK'
    <3>1. stuck' \in BOOLEAN
      BY <2>5 DEF TimeOut
    <3>2. /\ trans' = trans \ {c} /\ Complete(c, "timeout")
          /\ UNCHANGED <<tid, id, age, since, net, clock, sweeping, stopped>>
      BY <2>5 DEF TimeOut
    <3> QED
      BY <3>1, <3>2 DEF Complete
  <2>6. ASSUME NEW c \in Call, NEW kind \in Kind, Answer(c, kind) PROVE TypeOK'
    BY <2>6 DEF Answer
  <2>7. ASSUME NEW c \in Call, NEW kind \in Kind, HandleMessage(c, kind) PROVE TypeOK'
    BY <2>7 DEF HandleMessage, PopTransaction, Complete
  <2>8. CASE BeginSweep
    BY <2>8 DEF BeginSweep
  <2>9. CASE EndSweep
    BY <2>9 DEF EndSweep
  <2>10. CASE Stop
    BY <2>10 DEF Stop
  <2>11. CASE Tick
    BY <2>11 DEF Tick, Older
  <2>12. CASE UNCHANGED vars
    BY <2>12 DEF vars
  <2> QED
    BY <2>1, <2>2, <2>3, <2>4, <2>5, <2>6, <2>7, <2>8, <2>9, <2>10, <2>11, <2>12
    DEF Next, Request
<1> QED
  BY InitTypes, <1>1, PTL DEF Spec

-----------------------------------------------------------------------------
\* What is in the map waits, and was not called back yet.
OnceInv ==
    /\ TypeOK
    /\ \A c \in trans : pc[c] = "waiting"
    /\ CalledOnce

\* No step calls a callback again or leaves a finished query in the map.
LEMMA OnceStep == OnceInv /\ TypeOK' /\ [Next]_vars => OnceInv'
<1> SUFFICES ASSUME OnceInv, TypeOK', [Next]_vars PROVE OnceInv'
  OBVIOUS
<1> USE DEF OnceInv, CalledOnce, TypeOK, Done, Kind, timer
<1>1. ASSUME NEW c \in Call, Refuse(c) PROVE OnceInv'
  BY <1>1 DEF Refuse
<1>2. ASSUME NEW c \in Call, GetTransactionID(c) PROVE OnceInv'
  BY <1>2 DEF GetTransactionID
<1>3. ASSUME NEW c \in Call, Send(c) PROVE OnceInv'
  BY <1>3 DEF Send
<1>4. ASSUME NEW c \in Call, AddTransaction(c) PROVE OnceInv'
  BY <1>4 DEF AddTransaction
<1>5. ASSUME NEW c \in Call, TimeOut(c) PROVE OnceInv'
  BY <1>5 DEF TimeOut, Complete, Expired
<1>6. ASSUME NEW c \in Call, NEW kind \in Kind, Answer(c, kind) PROVE OnceInv'
  BY <1>6 DEF Answer
<1>7. ASSUME NEW c \in Call, NEW kind \in Kind, HandleMessage(c, kind) PROVE OnceInv'
  BY <1>7 DEF HandleMessage, PopTransaction, Complete
<1>8. CASE BeginSweep
  BY <1>8 DEF BeginSweep
<1>9. CASE EndSweep
  BY <1>9 DEF EndSweep
<1>10. CASE Stop
  BY <1>10 DEF Stop
<1>11. CASE Tick
  BY <1>11 DEF Tick
<1>12. CASE UNCHANGED vars
  BY <1>12 DEF vars
<1> QED
  BY <1>1, <1>2, <1>3, <1>4, <1>5, <1>6, <1>7, <1>8, <1>9, <1>10, <1>11, <1>12
  DEF Next, Request

\* OnceInv holds in every state; the theorems below start from it.
LEMMA Once == Spec => []OnceInv
<1>1. Init => OnceInv
  BY InitTypes DEF Init, OnceInv, CalledOnce, Done
<1> QED
  BY <1>1, OnceStep, TypeCorrect, PTL DEF Spec, OnceInv

\* The callback of a query is called once, when it is done: handleMessage and
\* Start take a transaction out of the map before they call it.
THEOREM CallbackOnce == Spec => []CalledOnce
<1>1. OnceInv => CalledOnce
  BY DEF OnceInv
<1> QED
  BY <1>1, Once, PTL

-----------------------------------------------------------------------------
\* A transaction is at least as old as its stay in the map, as far as ages are
\* told apart; it has seen at most the ticks that its age allows.
TimeInv ==
    /\ OnceInv
    /\ \A c \in trans : since[c] <= age[c] \/ age[c] = Interval + 1
    /\ ~stopped /\ ~stuck =>
        \A c \in trans : since[c] <= IF sweeping THEN 2 * Interval ELSE Interval + clock

\* A query ages only while the sweep that will find it is to come.
LEMMA TimeStep == TimeInv /\ OnceInv' /\ [Next]_vars => TimeInv'
<1> SUFFICES ASSUME TimeInv, OnceInv', [Next]_vars PROVE TimeInv'
  OBVIOUS
<1>0. /\ Interval \in Nat
      /\ \A c \in Call : since[c] \in Nat /\ age[c] \in 0..(Interval + 1)
      /\ clock \in 0..Interval
      /\ trans \subseteq Call
      /\ since \in [Call -> Nat] /\ age \in [Call -> Nat]
      /\ sweeping \in BOOLEAN /\ stuck \in BOOLEAN /\ stopped \in BOOLEAN
  BY ConstantsAssumption DEF TimeInv, OnceInv, TypeOK
<1> USE <1>0 DEF TimeInv, timer
<1>1. ASSUME NEW c \in Call, Refuse(c) \/ Send(c) PROVE TimeInv'
  BY <1>1 DEF Refuse, Send
<1>2. ASSUME NEW c \in Call, GetTransactionID(c) PROVE TimeInv'
  <2>1. c \notin trans
    BY <1>2 DEF GetTransactionID, OnceInv
  <2> QED
    BY <1>2, <2>1 DEF GetTransactionID
<1>3. ASSUME NEW c \in Call, AddTransaction(c) PROVE TimeInv'
  BY <1>3 DEF AddTransaction
<1>4. ASSUME NEW c \in Call, TimeOut(c) PROVE TimeInv'
  BY <1>4 DEF TimeOut
<1>5. ASSUME NEW c \in Call, NEW kind \in Kind, Answer(c, kind) PROVE TimeInv'
  BY <1>5 DEF Answer
<1>6. ASSUME NEW c \in Call, NEW kind \in Kind, HandleMessage(c, kind) PROVE TimeInv'
  BY <1>6 DEF HandleMessage, PopTransaction
<1>7. CASE BeginSweep
  BY <1>7 DEF BeginSweep
<1>8. CASE EndSweep
  <2>1. \A c \in trans : age[c] <= Interval
    BY <1>8 DEF EndSweep, Expired
  <2> QED
    BY <1>8, <2>1 DEF EndSweep
<1>9. CASE Stop
  BY <1>9 DEF Stop
<1>10. CASE Tick
  BY <1>10 DEF Tick, Older, Pending
<1>11. CASE UNCHANGED vars
  BY <1>11 DEF vars
<1> QED
  BY <1>1, <1>2, <1>3, <1>4, <1>5, <1>6, <1>7, <1>8, <1>9, <1>10, <1>11 DEF Next, Request

\* While Start runs, a query stays in the map for at most two periods of its
\* ticker: the strict comparison with the timeout costs it at most one tick.
THEOREM TimeoutsAreInTime == Spec => []TimedOutInTime
<1>1. Init => TimeInv
  BY InitTypes DEF Init, TimeInv, OnceInv, CalledOnce, Done
<1>2. TimeInv => TimedOutInTime
  BY ConstantsAssumption DEF TimeInv, OnceInv, TypeOK, TimedOutInTime
<1> QED
  BY <1>1, <1>2, TimeStep, Once, PTL DEF Spec

-----------------------------------------------------------------------------
Numbered == {c \in Call : id[c] # 0}

\* The counter counts the calls that have an ID, so it never wraps and no two
\* calls have one ID; only calls that were sent are answered.
IdInv ==
    /\ OnceInv
    /\ tid = Cardinality(Numbered)
    /\ \A c \in Call : id[c] <= tid
    /\ \A c, d \in Call : id[c] # 0 /\ id[c] = id[d] => c = d
    /\ \A c \in Call : pc[c] = "idle" => id[c] = 0
    /\ \A c \in Call : pc[c] \notin {"idle", "failed"} => id[c] # 0
    /\ \A m \in net : pc[m[1]] \notin {"idle", "sending", "failed"}
    /\ NoneOverwritten

\* A call without an ID leaves room for another.
LEMMA RoomForAnother ==
    ASSUME IdInv, NEW c \in Call, id[c] = 0
    PROVE  /\ tid + 1 < TidMod
           /\ IsFiniteSet(Numbered)
           /\ Cardinality(Numbered \cup {c}) = tid + 1
<1>1. IsFiniteSet(Numbered) /\ Numbered \cup {c} \subseteq Call /\ c \notin Numbered
  BY FewCalls, FS_Subset DEF Numbered
<1>2. Cardinality(Numbered \cup {c}) = Cardinality(Numbered) + 1
  BY <1>1, FS_AddElement
<1>3. Cardinality(Numbered \cup {c}) <= Cardinality(Call)
  BY <1>1, FewCalls, FS_Subset
<1>4. Cardinality(Call) \in Nat /\ Cardinality(Numbered \cup {c}) \in Nat
  BY <1>1, FewCalls, FS_CardinalityType, FS_Subset
<1> QED
  BY <1>1, <1>2, <1>3, <1>4, FewCalls, ConstantsAssumption DEF IdInv

\* The counter comes round to an ID only after the query that had it is done.
LEMMA IdStep == IdInv /\ OnceInv' /\ [Next]_vars => IdInv'
<1> SUFFICES ASSUME IdInv, OnceInv', [Next]_vars PROVE IdInv'
  OBVIOUS
<1>0. /\ tid \in Nat /\ id \in [Call -> Nat]
      /\ pc \in [Call -> {"idle", "sending", "sent", "waiting", "failed"} \cup Done]
      /\ trans \subseteq Call /\ net \subseteq (Call \X Kind)
      /\ \A c \in trans : pc[c] = "waiting"
  BY ConstantsAssumption DEF IdInv, OnceInv, TypeOK
<1> USE <1>0 DEF timer
<1>1. ASSUME NEW c \in Call, Refuse(c) PROVE IdInv'
  BY <1>1 DEF Refuse, IdInv, Numbered, NoneOverwritten
<1>2. ASSUME NEW c \in Call, GetTransactionID(c) PROVE IdInv'
  <2>1. id[c] = 0 /\ pc[c] = "idle"
    BY <1>2 DEF GetTransactionID, IdInv
  <2>2. tid' = tid + 1 /\ id' = [id EXCEPT ![c] = tid + 1]
    <3>1. tid + 1 < TidMod
      BY <2>1, RoomForAnother
    <3>2. (tid + 1) % TidMod = tid + 1
      BY <1>0, <3>1, ConstantsAssumption
    <3> QED
      BY <1>2, <3>2 DEF GetTransactionID
  <2>3. Numbered' = Numbered \cup {c}
    BY <2>2 DEF Numbered
  <2>4. tid' = Cardinality(Numbered')
    BY <2>1, <2>2, <2>3, RoomForAnother
  <2> QED
    BY <1>2, <2>1, <2>2, <2>4 DEF GetTransactionID, IdInv, NoneOverwritten
<1>3. ASSUME NEW c \in Call, Send(c) PROVE IdInv'
  BY <1>3 DEF Send, IdInv, Numbered, NoneOverwritten
<1>4. ASSUME NEW c \in Call, AddTransaction(c) PROVE IdInv'
  <2>1. \A d \in trans : Key(d) # Key(c)
    BY <1>4 DEF AddTransaction, IdInv, Key
  <2>2. trans' = trans \cup {c}
    BY <1>4, <2>1 DEF AddTransaction
  <2> QED
    BY <1>4, <2>2 DEF AddTransaction, IdInv, Numbered, NoneOverwritten
<1>5. ASSUME NEW c \in Call, TimeOut(c) PROVE IdInv'
  BY <1>5 DEF TimeOut, Complete, Expired, IdInv, Numbered, NoneOverwritten
<1>6. ASSUME NEW c \in Call, NEW kind \in Kind, Answer(c, kind) PROVE IdInv'
  BY <1>6 DEF Answer, IdInv, Numbered, NoneOverwritten
<1>7. ASSUME NEW c \in Call, NEW kind \in Kind, HandleMessage(c, kind) PROVE IdInv'
  BY <1>7 DEF HandleMessage, PopTransaction, Complete, IdInv, Numbered, NoneOverwritten, Kind
<1>8. ASSUME BeginSweep \/ EndSweep \/ Stop \/ Tick \/ UNCHANGED vars PROVE IdInv'
  BY <1>8 DEF BeginSweep, EndSweep, Stop, Tick, vars, IdInv, Numbered, NoneOverwritten
<1> QED
  BY <1>1, <1>2, <1>3, <1>4, <1>5, <1>6, <1>7, <1>8 DEF Next, Request

\* IdInv holds in every state.
LEMMA Ids == Spec => []IdInv
<1>1. Init => IdInv
  <2> SUFFICES ASSUME Init PROVE IdInv
    OBVIOUS
  <2>1. Numbered = {}
    BY DEF Init, Numbered
  <2>2. tid = Cardinality(Numbered)
    BY <2>1, FS_EmptySet DEF Init
  <2>3. OnceInv
    BY InitTypes DEF Init, OnceInv, CalledOnce, Done
  <2> QED
    BY <2>2, <2>3 DEF Init, IdInv, NoneOverwritten
<1> QED
  BY <1>1, IdStep, Once, PTL DEF Spec

\* No transaction replaces another in the map: every query that waits can be
\* answered and timed out.
THEOREM NoTransactionIsOverwritten == Spec => []NoneOverwritten
<1>1. IdInv => NoneOverwritten
  BY DEF IdInv
<1> QED
  BY <1>1, Ids, PTL

-----------------------------------------------------------------------------
\* The queries of the server implement AsyncCalls: a call that is refused or
\* fails to be sent is never finished, an accepted one is finished once, and
\* with a response or an error only if the node it asked has sent one for it.
THEOREM QueriesImplementAsyncCalls == Spec => ImplementsAsyncCalls
<1>1. Init => Abstract!Init
  BY DEF Init, Abstract!Init, StatusOf
<1>2. IdInv /\ [Next]_vars => [Abstract!Next]_(Abstract!vars)
  <2> SUFFICES ASSUME IdInv, [Next]_vars PROVE [Abstract!Next]_(Abstract!vars)
    OBVIOUS
  <2> USE DEF timer
  <2>0. /\ pc \in [Call -> {"idle", "sending", "sent", "waiting", "failed"} \cup Done]
        /\ id \in [Call -> Nat]
        /\ trans \subseteq Call
        /\ \A c \in trans : pc[c] = "waiting"
    BY ConstantsAssumption DEF IdInv, OnceInv, TypeOK
  <2>1. ASSUME NEW c \in Call, Refuse(c) PROVE Abstract!Refuse(c)
    BY <2>0, <2>1 DEF Refuse, Abstract!Refuse, StatusOf
  <2>2. ASSUME NEW c \in Call, GetTransactionID(c) PROVE Abstract!Accept(c)
    BY <2>0, <2>2 DEF GetTransactionID, Abstract!Accept, StatusOf
  <2>3. ASSUME NEW c \in Call, Send(c) PROVE Abstract!Refuse(c) \/ UNCHANGED Abstract!vars
    BY <2>0, <2>3 DEF Send, Abstract!Refuse, Abstract!vars, StatusOf
  <2>4. ASSUME NEW c \in Call, AddTransaction(c) PROVE UNCHANGED Abstract!vars
    BY <2>0, <2>4 DEF AddTransaction, Abstract!vars, StatusOf
  <2>5. ASSUME NEW c \in Call, TimeOut(c) PROVE Abstract!TimeOut(c)
    BY <2>0, <2>5 DEF TimeOut, Expired, Complete, Abstract!TimeOut, StatusOf
  <2>6. ASSUME NEW c \in Call, NEW kind \in Kind, Answer(c, kind) PROVE Abstract!Answer(c, kind)
    BY <2>0, <2>6 DEF Answer, Abstract!Answer, StatusOf, Done
  <2>7. ASSUME NEW c \in Call, NEW kind \in Kind, HandleMessage(c, kind)
        PROVE  Abstract!Finish(c, kind) \/ UNCHANGED Abstract!vars
    <3>1. \A d \in trans : Key(d) = Key(c) => d = c
      BY <2>0 DEF IdInv, Key
    <3>2. CASE c \in trans /\ trans' = trans \ {c} /\ Complete(c, kind)
      BY <2>0, <2>7, <3>2 DEF HandleMessage, Complete, Abstract!Finish, StatusOf, Kind
    <3>3. CASE UNCHANGED pc
      BY <2>7, <3>3 DEF HandleMessage, Abstract!vars, StatusOf
    <3> QED
      BY <2>7, <3>1, <3>2, <3>3 DEF HandleMessage, PopTransaction
  <2>8. ASSUME BeginSweep \/ EndSweep \/ Stop \/ Tick \/ UNCHANGED vars
        PROVE  UNCHANGED Abstract!vars
    BY <2>8 DEF BeginSweep, EndSweep, Stop, Tick, vars, Abstract!vars, StatusOf
  <2> QED
    BY <2>1, <2>2, <2>3, <2>4, <2>5, <2>6, <2>7, <2>8 DEF Next, Request, Abstract!Next, Kind
<1> QED
  BY <1>1, <1>2, Ids, PTL DEF Spec, ImplementsAsyncCalls, Abstract!Spec

-----------------------------------------------------------------------------
(***************************************************************************)
(* The server with its locks                                               *)
(***************************************************************************)
\* Holding and waiting for locks, the check's PINGs and the user's functions
\* only order the steps of the queries.
THEOREM LocksKeepTransactions == LSpec => Spec
<1>1. LInit => Init
  BY DEF LInit
<1>2. [LNext]_lvars => [Next]_vars
  <2> SUFFICES ASSUME [LNext]_lvars PROVE [Next]_vars
    OBVIOUS
  <2>1. ASSUME NEW c \in Call, Begin(c) \/ CheckPing(c) \/ WriteTo(c) \/ AddTransactionLocked(c)
        PROVE  Next
    BY <2>1 DEF Begin, CheckPing, WriteTo, AddTransactionLocked, Next, Request
  <2>2. ASSUME NEW c \in Call, TimeOutLocked(c) PROVE Next
    BY <2>2 DEF TimeOutLocked, Next
  <2>3. ASSUME NEW c \in Call, NEW kind \in Kind, Message(c, kind) PROVE Next
    BY <2>3 DEF Message, Next
  <2>4. ASSUME BeginSweepLocked \/ EndSweepLocked \/ Close \/ LTick PROVE Next
    BY <2>4 DEF BeginSweepLocked, EndSweepLocked, Close, LTick, Next
  <2>5. ASSUME NEW c \in Call, LockServer(c) PROVE UNCHANGED vars
    BY <2>5 DEF LockServer
  <2>6. ASSUME NEW t \in Table, EndCheck(t) \/ ServeSync(t) \/ SyncExit(t) \/ ExitTable(t) PROVE UNCHANGED vars
    BY <2>6 DEF EndCheck, ServeSync, SyncExit, ExitTable
  <2>7. ASSUME Run \/ HookReads \/ CallbackReads \/ CallSync \/ UNCHANGED lvars
        PROVE  UNCHANGED vars
    BY <2>7 DEF Run, HookReads, CallbackReads, CallSync, lvars
  <2> QED
    BY <2>1, <2>2, <2>3, <2>4, <2>5, <2>6, <2>7 DEF LNext
<1> QED
  BY <1>1, <1>2, PTL DEF LSpec, Spec

\* With every lock in the model, a query stays in the map for at most two
\* periods of the ticker, as long as the server runs and no callback hangs.
THEOREM LockedTimeoutsAreInTime == LSpec => []TimedOutInTime
BY LocksKeepTransactions, TimeoutsAreInTime, PTL

\* With every lock in the model, each query is finished once and by no answer
\* to another query.
THEOREM LockedQueriesAreAsync == LSpec => ImplementsAsyncCalls
BY LocksKeepTransactions, QueriesImplementAsyncCalls, PTL

-----------------------------------------------------------------------------
\* The call that holds s.lock has its message to write, HandleOutMessage runs
\* under s.lock only and a callback of Start under tm.lock only.
LockInv ==
    /\ slock # None => slock \in Call /\ pc[slock] = "sending"
    /\ hook => slock # None
    /\ callback => sweeping

\* Who holds s.lock is sending, and a function of the user runs under one lock.
LEMMA LockStep == OnceInv /\ LockInv /\ [LNext]_lvars => LockInv'
<1> SUFFICES ASSUME OnceInv, LockInv, [LNext]_lvars PROVE LockInv'
  OBVIOUS
<1>0. /\ pc \in [Call -> {"idle", "sending", "sent", "waiting", "failed"} \cup Done]
      /\ trans \subseteq Call
      /\ \A c \in trans : pc[c] = "waiting"
  BY DEF OnceInv, TypeOK
<1> USE <1>0, LockAssumption DEF LockInv, locks, timer, Done, Kind
<1>1. ASSUME NEW c \in Call, Begin(c) \/ CheckPing(c) PROVE LockInv'
  <2>1. /\ pc[c] = "idle"
        /\ pc' = [pc EXCEPT ![c] = "failed"] \/ pc' = [pc EXCEPT ![c] = "sending"]
        /\ UNCHANGED <<slock, hook, callback, sweeping>>
    BY <1>1, Zenon DEF Begin, CheckPing, Refuse, GetTransactionID
  <2>2. \A d \in Call : pc[d] = "sending" => pc'[d] = "sending"
    BY <2>1
  <2> QED
    BY <2>1, <2>2, Zenon
<1>2. ASSUME NEW c \in Call, LockServer(c) PROVE LockInv'
  BY <1>2 DEF LockServer, vars
<1>3. ASSUME NEW c \in Call, WriteTo(c) PROVE LockInv'
  BY <1>3 DEF WriteTo, Send, UnlockServer
<1>4. ASSUME NEW c \in Call, AddTransactionLocked(c) PROVE LockInv'
  BY <1>4 DEF AddTransactionLocked, AddTransaction
<1>5. ASSUME NEW c \in Call, TimeOutLocked(c) PROVE LockInv'
  <2>1. c \in trans /\ sweeping' /\ pc' = [pc EXCEPT ![c] = "timeout"]
    BY <1>5 DEF TimeOutLocked, TimeOut, Complete, Expired
  <2> QED
    BY <1>5, <2>1 DEF TimeOutLocked
<1>6. ASSUME NEW c \in Call, NEW kind \in Kind, Message(c, kind) PROVE LockInv'
  <2>1. \/ UNCHANGED pc
        \/ \E d \in trans : pc' = [pc EXCEPT ![d] = kind]
    BY <1>6 DEF Message, Answer, HandleMessage, PopTransaction, Complete
  <2>2. UNCHANGED <<slock, hook, callback, sweeping>>
    BY <1>6 DEF Message, Answer, HandleMessage
  <2> QED
    BY <2>1, <2>2
<1>7. ASSUME NEW t \in Table, EndCheck(t) \/ ServeSync(t) \/ SyncExit(t) \/ ExitTable(t) PROVE LockInv'
  <2>1. UNCHANGED <<pc, slock, hook, callback, sweeping>>
    BY <1>7, Zenon DEF EndCheck, ServeSync, SyncExit, ExitTable, vars
  <2> QED
    BY <2>1, Zenon
<1>8. CASE Run \/ HookReads \/ CallbackReads \/ CallSync \/ UNCHANGED lvars
  <2>1. CASE Run \/ CallSync \/ UNCHANGED lvars
    <3>1. UNCHANGED <<pc, slock, hook, callback, sweeping>>
      BY <2>1, Zenon DEF Run, CallSync, lvars, vars
    <3> QED
      BY <3>1, Zenon
  <2>2. CASE HookReads
    <3>1. UNCHANGED <<pc, slock, callback, sweeping>> /\ ~hook'
      BY <2>2, Zenon DEF HookReads, vars
    <3> QED
      BY <3>1, Zenon
  <2>3. CASE CallbackReads
    <3>1. UNCHANGED <<pc, slock, hook, sweeping>> /\ ~callback'
      BY <2>3, Zenon DEF CallbackReads, vars
    <3> QED
      BY <3>1, Zenon
  <2> QED
    BY <1>8, <2>1, <2>2, <2>3, Zenon
<1>9. CASE BeginSweepLocked \/ EndSweepLocked
  BY <1>9 DEF BeginSweepLocked, EndSweepLocked, BeginSweep, EndSweep
<1>10. CASE Close \/ LTick
  BY <1>10 DEF Close, LTick, Stop, Tick
<1> QED
  BY <1>1, <1>2, <1>3, <1>4, <1>5, <1>6, <1>7, <1>8, <1>9, <1>10 DEF LNext

\* Whoever holds s.lock needs no other lock to go on once HandleOutMessage has
\* returned, and Start needs none under tm.lock once the callback has: a cycle
\* of locks has a function of the user in it.
THEOREM LockHoldersGoOn == LSpec => []LockInv
<1>1. LInit => LockInv
  BY DEF LInit, LockInv
<1> QED
  BY <1>1, LockStep, LocksKeepTransactions, Once, PTL DEF LSpec

=============================================================================
