---------------------------- MODULE Transactions ----------------------------
(***************************************************************************)
(* The queries of the DHT server: request of dht/dht_server.go, the        *)
(* transactionManager of dht/transaction_manager.go, and the part of       *)
(* handleMessage that completes a transaction.                             *)
(*                                                                         *)
(* A call is one transaction object.  The network may lose, delay, reorder *)
(* and repeat the answers: an answer that was sent stays in net and may be *)
(* handled any number of times, or never.                                  *)
(*                                                                         *)
(* Times are ages, saturated above the largest value that is compared.     *)
(***************************************************************************)
EXTENDS Integers, FiniteSets

CONSTANTS
    Call,       \* the calls of Ping, FindNode, getPeers and AnnouncePeer
    Addr,       \* addresses of remote nodes
    To,         \* t.Addr, the address each call is sent to
    Interval,   \* Config.RespTimeout: the ticker's period and the timeout
    TidMod,     \* transaction IDs are uint32: 2^32
    Moved,      \* the calls whose node answers under an ID known at another address
    Reentrant   \* the calls whose callback may make a new call to the server

ASSUME ConstantsAssumption ==
    /\ To \in [Call -> Addr]
    /\ Interval \in Nat \ {0}
    /\ TidMod \in Nat \ {0}
    /\ Moved \subseteq Call
    /\ Reentrant \subseteq Call

\* The calls of a behaviour are fewer than the transaction IDs: the counter
\* does not come round to an ID that is in use.
ASSUME FewCalls == IsFiniteSet(Call) /\ Cardinality(Call) < TidMod

VARIABLES
    tid,       \* tm.tid
    pc,        \* where each call is
    id,        \* t.ID
    age,       \* the age of t.Time
    since,     \* the time since AddTransaction (history)
    trans,     \* the calls in tm.trans, by their keys
    net,       \* the answers on the network
    called,    \* how often the callback of each call was called (history)
    clock,     \* the time since the last tick of Start
    sweeping,  \* Start holds tm.lock and walks over tm.trans
    stuck,     \* a callback run by Start waits for tm.lock, which Start holds
    stopped    \* tm.exit is closed

vars == <<tid, pc, id, age, since, trans, net, called, clock, sweeping, stuck, stopped>>

Done == {"response", "error", "timeout"}

Kind == {"response", "error"}

Init ==
    /\ tid = 0
    /\ pc = [c \in Call |-> "idle"]
    /\ id = [c \in Call |-> 0]
    /\ age = [c \in Call |-> 0]
    /\ since = [c \in Call |-> 0]
    /\ trans = {}
    /\ net = {}
    /\ called = [c \in Call |-> 0]
    /\ clock = 0
    /\ sweeping = FALSE
    /\ stuck = FALSE
    /\ stopped = FALSE

timer == <<clock, sweeping, stuck, stopped>>

\* transactionkey: the ID and the address.
Key(c) == <<id[c], To[c]>>

-----------------------------------------------------------------------------
(***************************************************************************)
(* request                                                                 *)
(***************************************************************************)

\* isDisabled(t.Addr): the query is refused before it has an ID.
Refuse(c) ==
    /\ pc[c] = "idle"
    /\ pc' = [pc EXCEPT ![c] = "failed"]
    /\ UNCHANGED <<tid, id, age, since, trans, net, called, timer>>

\* Mutant: the counter is read without being advanced.
SameTransactionID(c) ==
    /\ pc[c] = "idle"
    /\ id' = [id EXCEPT ![c] = tid]
    /\ age' = [age EXCEPT ![c] = 0]
    /\ pc' = [pc EXCEPT ![c] = "sending"]
    /\ UNCHANGED <<tid, since, trans, net, called, timer>>

\* newTransaction takes the time, GetTransactionID the next ID.
GetTransactionID(c) ==
    /\ pc[c] = "idle"
    /\ tid' = (tid + 1) % TidMod
    /\ id' = [id EXCEPT ![c] = tid']
    /\ age' = [age EXCEPT ![c] = 0]
    /\ pc' = [pc EXCEPT ![c] = "sending"]
    /\ UNCHANGED <<since, trans, net, called, timer>>

\* send succeeds, or fails and the transaction is dropped.
Send(c) ==
    /\ pc[c] = "sending"
    /\ pc' \in {[pc EXCEPT ![c] = "sent"], [pc EXCEPT ![c] = "failed"]}
    /\ UNCHANGED <<tid, id, age, since, trans, net, called, timer>>

\* Only now is the transaction known to handleMessage and to Start.  One with
\* the same key is overwritten.
AddTransaction(c) ==
    /\ pc[c] = "sent"
    /\ ~sweeping
    /\ trans' = {d \in trans : Key(d) # Key(c)} \cup {c}
    /\ since' = [since EXCEPT ![c] = 0]
    /\ pc' = [pc EXCEPT ![c] = "waiting"]
    /\ UNCHANGED <<tid, id, age, net, called, timer>>

-----------------------------------------------------------------------------
(***************************************************************************)
(* Answers                                                                 *)
(***************************************************************************)

\* External: the remote node answers a query that was sent.
Answer(c, kind) ==
    /\ pc[c] \notin {"idle", "sending", "failed"}
    /\ net' = net \cup {<<c, kind>>}
    /\ UNCHANGED <<tid, pc, id, age, since, trans, called, timer>>

\* OnResponse, OnError and OnTimeout call the callback through Done.
Complete(c, outcome) ==
    /\ pc' = [pc EXCEPT ![c] = outcome]
    /\ called' = [called EXCEPT ![c] = @ + 1]

\* Mutant: a transaction is looked up by its address alone.
PopByAddr(c, kind) ==
    \/ \E d \in trans :
        /\ To[d] = To[c]
        /\ trans' = trans \ {d}
        /\ Complete(d, kind)
    \/ /\ \A d \in trans : To[d] # To[c]
       /\ UNCHANGED <<trans, pc, called>>

\* PopTransaction and what handleMessage does with the transaction: the one
\* whose key the answer to c carries, if there is one.
PopTransaction(c, kind) ==
    \/ \E d \in trans :
        /\ Key(d) = Key(c)
        /\ trans' = trans \ {d}
        /\ Complete(d, kind)
    \/ /\ \A d \in trans : Key(d) # Key(c)
       /\ UNCHANGED <<trans, pc, called>>

\* handleMessage of an answer to c.  A response of a node whose ID is known at
\* another address is discarded before the transaction is looked up.
HandleMessage(c, kind) ==
    /\ <<c, kind>> \in net
    /\ \/ /\ kind = "response" /\ c \in Moved
          /\ UNCHANGED <<trans, pc, called>>
       \/ /\ ~(kind = "response" /\ c \in Moved)
          /\ ~sweeping
          /\ PopTransaction(c, kind)
    /\ UNCHANGED <<tid, id, age, since, net, timer>>

-----------------------------------------------------------------------------
(***************************************************************************)
(* Start: the ticker and the timeouts, under tm.lock                       *)
(***************************************************************************)

BeginSweep ==
    /\ clock = Interval
    /\ ~sweeping
    /\ sweeping' = TRUE
    /\ clock' = 0
    /\ UNCHANGED <<tid, pc, id, age, since, trans, net, called, stuck, stopped>>

\* Mutant: a timeout is due only after two periods.
ExpiredLate(c) == c \in trans /\ since[c] > 2 * Interval

Expired(c) == c \in trans /\ age[c] > Interval

\* OnTimeout, called with tm.lock held: a callback that makes a new call waits
\* in AddTransaction for the lock and never returns.
TimeOut(c) ==
    /\ sweeping
    /\ ~stuck
    /\ Expired(c)
    /\ trans' = trans \ {c}
    /\ Complete(c, "timeout")
    /\ stuck' \in (IF c \in Reentrant THEN BOOLEAN ELSE {FALSE})
    /\ UNCHANGED <<tid, id, age, since, net, clock, sweeping, stopped>>

EndSweep ==
    /\ sweeping
    /\ ~stuck
    /\ \A c \in Call : ~Expired(c)
    /\ sweeping' = FALSE
    /\ UNCHANGED <<tid, pc, id, age, since, trans, net, called, clock, stuck, stopped>>

Stop ==
    /\ ~stopped
    /\ stopped' = TRUE
    /\ UNCHANGED <<tid, pc, id, age, since, trans, net, called, clock, sweeping, stuck>>

Older(a, cap) == IF a < cap THEN a + 1 ELSE cap

\* The calls whose t.Time is still looked at; the others have the age 0.
Pending == trans \cup {c \in Call : pc[c] \in {"sending", "sent"}}

\* Time passes.  The ticker is served when it fires, unless Start has returned
\* or hangs.
Tick ==
    /\ stuck \/ (~sweeping /\ (clock < Interval \/ stopped))
    /\ clock' = Older(clock, Interval)
    /\ age' = [c \in Call |-> IF c \in Pending THEN Older(age[c], Interval + 1) ELSE 0]
    /\ since' = [c \in Call |-> IF c \in trans THEN Older(since[c], 2 * Interval + 1) ELSE 0]
    /\ UNCHANGED <<tid, pc, id, trans, net, called, sweeping, stuck, stopped>>

Request(c) == Refuse(c) \/ GetTransactionID(c) \/ Send(c) \/ AddTransaction(c)

Next ==
    \/ \E c \in Call :
        \/ Request(c)
        \/ TimeOut(c)
        \/ \E kind \in Kind : Answer(c, kind) \/ HandleMessage(c, kind)
    \/ BeginSweep
    \/ EndSweep
    \/ Stop
    \/ Tick

Spec == Init /\ [][Next]_vars

-----------------------------------------------------------------------------
(***************************************************************************)
(* Properties                                                              *)
(***************************************************************************)

TypeOK ==
    /\ tid \in 0..(TidMod - 1)
    /\ pc \in [Call -> {"idle", "sending", "sent", "waiting", "failed"} \cup Done]
    /\ id \in [Call -> 0..(TidMod - 1)]
    /\ age \in [Call -> 0..(Interval + 1)]
    /\ since \in [Call -> 0..(2 * Interval + 1)]
    /\ trans \in SUBSET Call
    /\ net \in SUBSET (Call \X Kind)
    /\ called \in [Call -> Nat]
    /\ clock \in 0..Interval
    /\ sweeping \in BOOLEAN
    /\ stuck \in BOOLEAN
    /\ stopped \in BOOLEAN

\* A callback is called exactly once for a call that is done and never for
\* another: a response and the timeout cannot both reach it, whatever the
\* interleaving of handleMessage and Start and however often an answer is
\* repeated.
CalledOnce == \A c \in Call : called[c] = IF pc[c] \in Done THEN 1 ELSE 0

\* A query that has been added is timed out, or answered, within two periods:
\* a transaction just too young at one tick is old enough at the next.
TimedOutInTime ==
    \A c \in trans : ~stopped /\ ~stuck => since[c] <= 2 * Interval

\* While at most 2^32 queries have been made since, no two queries in the map
\* have one key, so none is overwritten and lost.
NoneOverwritten == \A c \in Call : pc[c] = "waiting" => c \in trans

\* The server's queries are AsyncCalls: each is finished once, and never by an
\* answer to another query.
StatusOf(c) == IF pc[c] \in {"sending", "sent", "waiting"} THEN "pending" ELSE pc[c]

Abstract == INSTANCE AsyncCalls WITH status <- [c \in Call |-> StatusOf(c)], answered <- net

ImplementsAsyncCalls == Abstract!Spec

\* dht_server.go, Ping: "the callback function cb will be called when the
\* response or error is returned, or it's timeout."  The code does not keep this
\* promise to a callback that makes a query: TLC has a counterexample (README).
CallbackIsCalled == \A c \in Call : pc[c] = "sent" ~> (pc[c] \in Done \/ stopped)

=============================================================================
