----------------------------- MODULE ServerLocks -----------------------------
(***************************************************************************)
(* The locks of the DHT server: rt.lock of each routing table, s.lock and  *)
(* tm.lock, with the goroutines that hold one of them while they want      *)
(* another, in dht/routing_table.go, dht_server.go and                     *)
(* transaction_manager.go.                                                 *)
(*                                                                         *)
(* The check of a table PINGs under rt.lock, which takes s.lock and then   *)
(* tm.lock.  Two functions of the user run under a lock: HandleOutMessage  *)
(* under s.lock, and under tm.lock the callback of a query that is timed   *)
(* out.  Every other use of a lock ends before another lock is wanted, and *)
(* is part of the step that it belongs to.                                 *)
(*                                                                         *)
(* The queries themselves are those of Transactions: a step here is a step *)
(* there, or leaves the state of Transactions as it is.                    *)
(***************************************************************************)
EXTENDS Transactions

CONSTANTS
    NumTables,   \* the routing tables, one for IPv4 and one for IPv6
    Checking,    \* the calls that are PINGs of the check of a table,
    TableOf,     \* and the table of each
    Hooked,      \* the calls for which HandleOutMessage may read the first table
    Reading,     \* the calls whose callback may read the first table
    Answers,     \* Bound: the answers that remote nodes may give
    None

Table == 1..NumTables

ASSUME LockAssumption ==
    /\ NumTables \in Nat \ {0}
    /\ Checking \subseteq Call /\ TableOf \in [Checking -> Table]
    /\ Hooked \subseteq Call
    /\ Reading \subseteq Call
    /\ None \notin Call

VARIABLES
    running,    \* Run was called
    checking,   \* the tables whose Start holds rt.lock for a check that PINGs
    exited,     \* the tables whose Start has returned
    slock,      \* the call that holds s.lock
    hook,       \* HandleOutMessage, under s.lock, waits for a table
    callback,   \* a callback that Start runs under tm.lock waits for a table
    sync        \* the table Sync waits for; 0 before, NumTables + 1 after the call

locks == <<running, checking, exited, slock, hook, callback, sync>>
lvars == <<vars, locks>>

LInit ==
    /\ Init
    /\ running = FALSE
    /\ checking = {}
    /\ exited = {}
    /\ slock = None
    /\ hook = FALSE
    /\ callback = FALSE
    /\ sync = 0

\* Run starts a goroutine for each table and for the transaction manager.
Run ==
    /\ ~running
    /\ running' = TRUE
    /\ UNCHANGED <<vars, checking, exited, slock, hook, callback, sync>>

-----------------------------------------------------------------------------
(***************************************************************************)
(* Queries: request and send                                               *)
(***************************************************************************)

\* The calls that the check of t has begun and not finished.
Pinging(t) == {c \in Checking : TableOf[c] = t /\ pc[c] \in {"sending", "sent"}}

\* A call of the user begins at any time.
Begin(c) ==
    /\ running
    /\ c \notin Checking
    /\ Refuse(c) \/ GetTransactionID(c)
    /\ UNCHANGED locks

\* send takes s.lock and calls HandleOutMessage.
LockServer(c) ==
    /\ pc[c] = "sending"
    /\ slock = None
    /\ slock' = c
    /\ hook' \in (IF c \in Hooked THEN BOOLEAN ELSE {FALSE})
    /\ UNCHANGED <<vars, running, checking, exited, callback, sync>>

\* HandleOutMessage reads the table and returns.
HookReads ==
    /\ hook
    /\ 1 \notin checking
    /\ hook' = FALSE
    /\ UNCHANGED <<vars, running, checking, exited, slock, callback, sync>>

\* Mutant: s.lock is not released when the write fails.
KeepServerLocked(c) == IF pc'[c] = "failed" THEN UNCHANGED slock ELSE slock' = None

\* The deferred Unlock of send.
UnlockServer(c) == slock' = None

\* _send writes the message, and send returns.
WriteTo(c) ==
    /\ slock = c
    /\ ~hook
    /\ Send(c)
    /\ UnlockServer(c)
    /\ UNCHANGED <<running, checking, exited, hook, callback, sync>>

-----------------------------------------------------------------------------
(***************************************************************************)
(* Start of a routing table                                                *)
(***************************************************************************)

\* The ticker fires, rt.lock is taken and the first dubious node is sent a PING;
\* then the next.  A check that finds nobody to PING wants no other lock and
\* changes nothing here.  Start may serve a tick after Close, before rt.exit.
CheckPing(c) ==
    /\ running
    /\ c \in Checking
    /\ TableOf[c] \notin exited
    /\ TableOf[c] \in checking => Pinging(TableOf[c]) = {}
    /\ Refuse(c) \/ GetTransactionID(c)
    /\ checking' = checking \cup {TableOf[c]}
    /\ UNCHANGED <<running, exited, slock, hook, callback, sync>>

\* The dubious nodes have been sent a PING, and rt.lock is released.
EndCheck(t) ==
    /\ t \in checking
    /\ Pinging(t) = {}
    /\ checking' = checking \ {t}
    /\ UNCHANGED <<vars, running, exited, slock, hook, callback, sync>>

\* Sync of the server: the tables one after the other.
CallSync ==
    /\ sync = 0
    /\ sync' = 1
    /\ UNCHANGED <<vars, running, checking, exited, slock, hook, callback>>

\* Start receives from rt.sync and dumps the table.
ServeSync(t) ==
    /\ sync = t
    /\ running
    /\ t \notin checking \cup exited
    /\ sync' = t + 1
    /\ UNCHANGED <<vars, running, checking, exited, slock, hook, callback>>

\* Mutant: Sync does not look at rt.exit.
SyncIgnoresExit(t) == FALSE /\ UNCHANGED lvars

\* rt.exit is closed: there is no one to receive from rt.sync.
SyncExit(t) ==
    /\ sync = t
    /\ stopped
    /\ sync' = t + 1
    /\ UNCHANGED <<vars, running, checking, exited, slock, hook, callback>>

\* Start receives from rt.exit, dumps the table and returns.
ExitTable(t) ==
    /\ running
    /\ stopped
    /\ t \notin checking \cup exited
    /\ exited' = exited \cup {t}
    /\ UNCHANGED <<vars, running, checking, slock, hook, callback, sync>>

-----------------------------------------------------------------------------
(***************************************************************************)
(* Start of the transaction manager                                        *)
(***************************************************************************)

\* OnTimeout runs the callback under tm.lock.
TimeOutLocked(c) ==
    /\ ~callback
    /\ TimeOut(c)
    /\ callback' \in (IF c \in Reading THEN BOOLEAN ELSE {FALSE})
    /\ UNCHANGED <<running, checking, exited, slock, hook, sync>>

\* The callback reads the table and returns.
CallbackReads ==
    /\ callback
    /\ 1 \notin checking
    /\ callback' = FALSE
    /\ UNCHANGED <<vars, running, checking, exited, slock, hook, sync>>

\* The steps of Transactions that take no other lock than tm.lock.
BeginSweepLocked == running /\ BeginSweep /\ UNCHANGED locks

EndSweepLocked == ~callback /\ EndSweep /\ UNCHANGED locks

AddTransactionLocked(c) == AddTransaction(c) /\ UNCHANGED locks

Close == running /\ Stop /\ UNCHANGED locks

LTick == running /\ Tick /\ UNCHANGED locks

Message(c, kind) ==
    /\ \/ <<c, kind>> \in Answers /\ Answer(c, kind)
       \/ HandleMessage(c, kind)
    /\ UNCHANGED locks

LNext ==
    \/ Run
    \/ \E c \in Call :
        \/ Begin(c)
        \/ CheckPing(c)
        \/ LockServer(c)
        \/ WriteTo(c)
        \/ AddTransactionLocked(c)
        \/ TimeOutLocked(c)
        \/ \E kind \in Kind : Message(c, kind)
    \/ HookReads
    \/ CallbackReads
    \/ \E t \in Table : EndCheck(t) \/ ServeSync(t) \/ SyncExit(t) \/ ExitTable(t)
    \/ CallSync
    \/ BeginSweepLocked
    \/ EndSweepLocked
    \/ Close
    \/ LTick

LSpec == LInit /\ [][LNext]_lvars

\* A goroutine that can run does.  tm.lock, which Start takes again and again, is
\* given to AddTransaction at last: strong fairness.  The other locks are wanted a
\* bounded number of times, so that weak fairness is enough.  Nothing is assumed
\* of the user, who may never call Run, and of the remote nodes.
LFairSpec ==
    /\ LSpec
    /\ \A c \in Call :
        /\ WF_lvars(LockServer(c)) /\ WF_lvars(WriteTo(c))
        /\ SF_lvars(AddTransactionLocked(c)) /\ WF_lvars(TimeOutLocked(c))
    /\ WF_lvars(HookReads) /\ WF_lvars(CallbackReads)
    /\ \A t \in Table : WF_lvars(EndCheck(t)) /\ WF_lvars(ServeSync(t)) /\ WF_lvars(SyncExit(t))
    /\ WF_lvars(BeginSweepLocked) /\ WF_lvars(EndSweepLocked) /\ WF_lvars(LTick)

-----------------------------------------------------------------------------
(***************************************************************************)
(* Properties                                                              *)
(***************************************************************************)

LTypeOK ==
    /\ running \in BOOLEAN
    /\ checking \in SUBSET Table
    /\ exited \in SUBSET Table
    /\ slock \in Call \cup {None}
    /\ hook \in BOOLEAN
    /\ callback \in BOOLEAN
    /\ sync \in 0..(NumTables + 1)

\* A function of the user that runs under a lock waits for a lock.
UserWaits == stuck \/ hook \/ callback

\* Every lock is released again and again, unless a function of the user that
\* runs under one of them waits for another for ever: the order rt.lock, s.lock
\* and rt.lock, tm.lock in which the server itself takes them has no cycle.
LocksComeFree ==
    \/ <>[]UserWaits
    \/ /\ \A t \in Table : []<>(t \notin checking)
       /\ []<>(slock = None)
       /\ []<>(~sweeping)

\* Every query that was sent comes to an end, whatever the remote nodes and the
\* network do and whoever holds which lock, unless the server is closed or a
\* function of the user hangs under a lock.
QueriesReturn ==
    \/ <>[]UserWaits
    \/ \A c \in Call : pc[c] = "sent" ~> pc[c] \in Done \/ stopped

\* Sync returns once the server runs or is closed, in the middle of checks and
\* of Close too, unless a function of the user hangs under a lock.
SyncReturns ==
    \/ <>[]UserWaits
    \/ (running /\ sync \in Table) ~> sync = NumTables + 1

=============================================================================
