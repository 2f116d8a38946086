---------------------------- MODULE RoutingTable ----------------------------
(***************************************************************************)
(* One routing table of the DHT server, dht/routing_table.go: NumBuckets   *)
(* buckets of K nodes, the goroutine of Start (periodic check, Sync, exit) *)
(* and the storage the table is dumped to and loaded from.                 *)
(*                                                                         *)
(* A slot of a bucket is a pointer to a wrappedNode.  It is modelled by    *)
(* the record [id, addr, age] it points to.  Two slots may hold the same   *)
(* pointer; an object is created only for an ID no slot of the bucket has, *)
(* so slots with one ID are one object, and an update of it is an update   *)
(* of all of them.                                                         *)
(*                                                                         *)
(* Time is kept as ages: x.LastChanged is modelled by now - x.LastChanged, *)
(* saturated at Cap, above which no comparison of the code tells two ages  *)
(* apart.  A time taken before a lock or a channel is passed is up to      *)
(* MaxLag old when it is used.                                             *)
(***************************************************************************)
EXTENDS Integers, Sequences, FiniteSets

CONSTANTS
    ID,          \* node IDs
    Root,        \* the ID of this server
    Addr,        \* node addresses
    NumBuckets,  \* bktlen
    BucketOf,    \* bucketid(root, id), computed in module NodeDistance
    K,           \* Config.K
    Dubious,     \* dubiousTimeout
    Bad,         \* badTimeout
    MaxLag,      \* bound: the age of a time.Now() or a tick when it is used
    MaxSlots,    \* bound: the slots of a bucket that AddNode may reach
    Persistent   \* FALSE: the no-op storage, which is the default

Bucket == 1..NumBuckets

ASSUME ConstantsAssumption ==
    /\ Root \in ID
    /\ NumBuckets \in Nat \ {0}
    /\ BucketOf \in [ID -> Bucket]
    /\ K \in Nat \ {0}
    /\ Dubious \in Nat
    /\ Bad \in Nat
    /\ Dubious < Bad
    /\ MaxLag \in Nat
    /\ MaxSlots \in Nat
    /\ Persistent \in BOOLEAN

VARIABLES
    slots,    \* bkts[b].Nodes
    bktAge,   \* the age of bkts[b].LastChanged
    phase,    \* loading: newRoutingTable; exiting: rt.exit is closed; stopped: Start returned
    todo,     \* the stored nodes that newRoutingTable has still to add, by bucket
    storage,  \* the nodes in the RoutingTableStorage, by bucket
    cursor,   \* the bucket checkAllBuckets is at, rt.lock held; 0: rt.lock is free
    dels,     \* the positions CheckAllNodes has still to delete in that bucket
    lag,      \* the age of the tick that checkAllBuckets was given
    traffic   \* FALSE: the remote nodes have fallen silent

vars == <<slots, bktAge, phase, todo, storage, cursor, dels, lag, traffic>>

Cap == Bad + MaxLag + 1

Node == [id : ID, addr : Addr, age : 0..Cap]

Empty == [b \in Bucket |-> <<>>]

Init ==
    /\ slots = Empty
    /\ bktAge = [b \in Bucket |-> Cap]
    /\ phase = "loading"
    /\ todo = Empty
    /\ storage = Empty
    /\ cursor = 0
    /\ dels = {}
    /\ lag = 0
    /\ traffic = TRUE

-----------------------------------------------------------------------------
(***************************************************************************)
(* wrappedNode and bucket.AddNode                                          *)
(***************************************************************************)

\* Mutant: a node is bad as soon as it is dubious.
IsBadTooEarly(n, nowAge) == n.age - nowAge > Dubious

\* IsBad(now), where now is nowAge old.
IsBad(n, nowAge) == n.age - nowAge > Bad

Holds(b, id) == \E k \in DOMAIN slots[b] : slots[b][k].id = id

\* NodeExistAndUpdated: the ID is known with this address.  The object is
\* updated, and with it every slot that points to it.
UpdateNode(b, n) ==
    /\ \E k \in DOMAIN slots[b] : slots[b][k].id = n.id /\ slots[b][k].addr = n.addr
    /\ slots' = [slots EXCEPT ![b] =
                    [k \in DOMAIN slots[b] |->
                        IF slots[b][k].id = n.id THEN n ELSE slots[b][k]]]
    /\ bktAge' = [bktAge EXCEPT ![b] = n.age]

\* NodeExistAndChanged: the ID is known with another address; n is dropped.
KeepNode(b, n) ==
    /\ Holds(b, n.id)
    /\ \A k \in DOMAIN slots[b] : slots[b][k].id = n.id => slots[b][k].addr # n.addr
    /\ UNCHANGED <<slots, bktAge>>

\* NodeAdded to a bucket that is not full.
AppendNode(b, n) ==
    /\ ~Holds(b, n.id)
    /\ Len(slots[b]) < K
    /\ slots' = [slots EXCEPT ![b] = Append(slots[b], n)]
    /\ bktAge' = [bktAge EXCEPT ![b] = n.age]

\* Mutant: the last node is moved into the place of the bad one.
MoveLast(s, i) == [k \in DOMAIN s |-> IF k = i THEN s[Len(s)] ELSE s[k]]

\* copy(nodes[i:], nodes[i+1:]): the slots behind i move up, the last one stays.
CopyDown(s, i) ==
    [k \in DOMAIN s |-> IF i <= k /\ k < Len(s) THEN s[k + 1] ELSE s[k]]

\* NodeAdded to a full bucket that holds a bad node: the first bad slot is
\* copied over and n is appended, so the bucket grows by one.
ReplaceBadNode(b, n) ==
    /\ ~Holds(b, n.id)
    /\ Len(slots[b]) >= K
    /\ Len(slots[b]) < MaxSlots
    /\ \E i \in DOMAIN slots[b] :
        /\ IsBad(slots[b][i], n.age)
        /\ \A j \in DOMAIN slots[b] : j < i => ~IsBad(slots[b][j], n.age)
        /\ slots' = [slots EXCEPT ![b] = Append(CopyDown(slots[b], i), n)]
    /\ bktAge' = [bktAge EXCEPT ![b] = n.age]

\* NodeNotAdded: the bucket is full and has no bad node.
DiscardNode(b, n) ==
    /\ ~Holds(b, n.id)
    /\ Len(slots[b]) >= K
    /\ \A k \in DOMAIN slots[b] : ~IsBad(slots[b][k], n.age)
    /\ UNCHANGED <<slots, bktAge>>

\* bucket.AddNode(n, now); n.age is the age of now.
BucketAddNode(b, n) ==
    \/ UpdateNode(b, n)
    \/ KeepNode(b, n)
    \/ AppendNode(b, n)
    \/ ReplaceBadNode(b, n)
    \/ DiscardNode(b, n)

\* routingTable.AddNode, called for a message of the node id at address a
\* that was received stamp ago.
AddNode(id, a, stamp) ==
    /\ traffic
    /\ phase # "loading"
    /\ cursor = 0
    /\ id # Root
    /\ BucketAddNode(BucketOf[id], [id |-> id, addr |-> a, age |-> stamp])
    /\ UNCHANGED <<phase, todo, storage, cursor, dels, lag, traffic>>

-----------------------------------------------------------------------------
(***************************************************************************)
(* The periodic check.  It runs under rt.lock; its loops are steps, so     *)
(* that a panic ends it where the code ends it.                            *)
(***************************************************************************)

NextBucket == IF cursor = NumBuckets THEN 0 ELSE cursor + 1

\* A tick of Start: checkAllBuckets(now) begins; now is late old.
CheckAllBuckets(late) ==
    /\ phase \in {"running", "exiting"}
    /\ cursor = 0
    /\ cursor' = 1
    /\ lag' = late
    /\ UNCHANGED <<slots, bktAge, phase, todo, storage, dels, traffic>>

BadPositions(b) == {k \in DOMAIN slots[b] : IsBad(slots[b][k], lag)}

\* Mutant: a bucket is checked only while it has changed recently.
UncheckedIfIdle(b) == slots[b] = <<>> \/ bktAge[b] - lag >= Dubious

\* CheckAllNodes returns at once: the bucket is empty or changed recently.
Unchecked(b) == slots[b] = <<>> \/ bktAge[b] - lag < Dubious

\* CheckAllNodes of the bucket at the cursor up to its deletions.  The PING
\* to a dubious node changes no state of the table.
CheckAllNodes ==
    /\ cursor > 0
    /\ dels = {}
    /\ \/ /\ Unchecked(cursor) \/ BadPositions(cursor) = {}
          /\ cursor' = NextBucket
          /\ lag' = IF cursor' = 0 THEN 0 ELSE lag
          /\ UNCHANGED dels
       \/ /\ ~Unchecked(cursor)
          /\ BadPositions(cursor) # {}
          /\ dels' = BadPositions(cursor)
          /\ UNCHANGED <<cursor, lag>>
    /\ UNCHANGED <<slots, bktAge, phase, todo, storage, traffic>>

RemovePosition(s, i) ==
    [k \in 1..(Len(s) - 1) |-> IF k < i THEN s[k] ELSE s[k + 1]]

\* The next delNodeByIndex: the position was taken before the earlier
\* deletions moved the slots.  Beyond the end it panics; checkAllBuckets
\* recovers, leaving the later positions and buckets as they are.
DelNodeByIndex ==
    /\ cursor > 0
    /\ \E i \in dels :
        /\ \A j \in dels : i <= j
        /\ \/ /\ i <= Len(slots[cursor])
              /\ slots' = [slots EXCEPT ![cursor] = RemovePosition(slots[cursor], i)]
              /\ dels' = dels \ {i}
              /\ cursor' = IF dels' = {} THEN NextBucket ELSE cursor
           \/ /\ i > Len(slots[cursor])
              /\ dels' = {}
              /\ cursor' = 0
              /\ UNCHANGED slots
    /\ lag' = IF cursor' = 0 THEN 0 ELSE lag
    /\ UNCHANGED <<bktAge, phase, todo, storage, traffic>>

-----------------------------------------------------------------------------
(***************************************************************************)
(* Storage, stop and restart                                               *)
(***************************************************************************)

\* dump: nothing is stored for an empty table or when the storage fails.
Dump ==
    \/ /\ Persistent
       /\ slots # Empty
       /\ storage' = slots
    \/ UNCHANGED storage

\* Sync: the request reaches Start through rt.sync.
Sync ==
    /\ phase \in {"running", "exiting"}
    /\ cursor = 0
    /\ Dump
    /\ UNCHANGED <<slots, bktAge, phase, todo, cursor, dels, lag, traffic>>

\* Stop: rt.exit is closed.
Stop ==
    /\ phase = "running"
    /\ phase' = "exiting"
    /\ UNCHANGED <<slots, bktAge, todo, storage, cursor, dels, lag, traffic>>

\* Start sees rt.exit closed: the last dump.  The message handlers go on
\* calling AddNode.
Exit ==
    /\ phase = "exiting"
    /\ cursor = 0
    /\ Dump
    /\ phase' = "stopped"
    /\ UNCHANGED <<slots, bktAge, todo, cursor, dels, lag, traffic>>

\* The process ends, orderly or by a crash at any point, and a new one
\* enters newRoutingTable.  The Load may fail.
Restart ==
    /\ phase # "loading"
    /\ phase' = "loading"
    /\ slots' = Empty
    /\ bktAge' = [b \in Bucket |-> Cap]
    /\ todo' \in {storage, Empty}
    /\ cursor' = 0
    /\ dels' = {}
    /\ lag' = 0
    /\ UNCHANGED <<storage, traffic>>

\* Mutant: stored nodes are loaded whatever their age.
LoadOldNode(b) ==
    /\ phase = "loading"
    /\ todo[b] # <<>>
    /\ todo' = [todo EXCEPT ![b] = Tail(todo[b])]
    /\ BucketAddNode(BucketOf[Head(todo[b]).id], Head(todo[b]))
    /\ UNCHANGED <<phase, storage, cursor, dels, lag, traffic>>

\* newRoutingTable adds the next stored node of bucket b under its stored
\* LastChanged, unless it is too old.
LoadNode(b) ==
    /\ phase = "loading"
    /\ todo[b] # <<>>
    /\ todo' = [todo EXCEPT ![b] = Tail(todo[b])]
    /\ LET n == Head(todo[b]) IN
        \/ n.age < Dubious /\ BucketAddNode(BucketOf[n.id], n)
        \/ n.age >= Dubious /\ UNCHANGED <<slots, bktAge>>
    /\ UNCHANGED <<phase, storage, cursor, dels, lag, traffic>>

\* newRoutingTable returns and Start is run.
Started ==
    /\ phase = "loading"
    /\ todo = Empty
    /\ phase' = "running"
    /\ UNCHANGED <<slots, bktAge, todo, storage, cursor, dels, lag, traffic>>

-----------------------------------------------------------------------------
(***************************************************************************)
(* Time and the environment                                                *)
(***************************************************************************)

Older(age) == IF age < Cap THEN age + 1 ELSE Cap

Aged(s) == [k \in DOMAIN s |-> [s[k] EXCEPT !.age = Older(s[k].age)]]

\* Time passes, in the table and for the times in the storage; no time
\* passes during newRoutingTable, at most MaxLag during a check.
Tick ==
    /\ phase # "loading"
    /\ cursor > 0 => lag < MaxLag
    /\ slots' = [b \in Bucket |-> Aged(slots[b])]
    /\ storage' = [b \in Bucket |-> Aged(storage[b])]
    /\ bktAge' = [b \in Bucket |-> Older(bktAge[b])]
    /\ lag' = IF cursor > 0 THEN lag + 1 ELSE 0
    /\ UNCHANGED <<phase, todo, cursor, dels, traffic>>

\* No message of a remote node arrives any more.
Silence ==
    /\ traffic
    /\ traffic' = FALSE
    /\ UNCHANGED <<slots, bktAge, phase, todo, storage, cursor, dels, lag>>

Receive == \E id \in ID, a \in Addr, stamp \in 0..MaxLag : AddNode(id, a, stamp)

Check ==
    \/ \E late \in 0..MaxLag : CheckAllBuckets(late)
    \/ CheckAllNodes
    \/ DelNodeByIndex

Load == Started \/ \E b \in Bucket : LoadNode(b)

Next ==
    \/ Receive
    \/ Check
    \/ Load
    \/ Sync
    \/ Stop
    \/ Exit
    \/ Restart
    \/ Tick
    \/ Silence

Spec == Init /\ [][Next]_vars

\* Time passes between the checks, the constructor returns, and the ticker of
\* Start fires again and again; nothing is assumed of messages, Sync, Stop and
\* crashes.  Tick needs strong fairness: a check in progress disables it.
FairSpec == Spec /\ SF_vars(Tick) /\ WF_vars(Check) /\ WF_vars(Load)

-----------------------------------------------------------------------------
(***************************************************************************)
(* Properties                                                              *)
(***************************************************************************)

\* The values the variables take.
TypeOK ==
    /\ slots \in [Bucket -> Seq(Node)]
    /\ bktAge \in [Bucket -> 0..Cap]
    /\ phase \in {"loading", "running", "exiting", "stopped"}
    /\ todo \in [Bucket -> Seq(Node)]
    /\ storage \in [Bucket -> Seq(Node)]
    /\ cursor \in 0..NumBuckets
    /\ dels \in SUBSET (Nat \ {0})
    /\ lag \in 0..MaxLag
    /\ traffic \in BOOLEAN

\* AddNode refuses the server's own ID but addNode, which loads the stored
\* nodes, does not: the server must still never be a node of its own table,
\* nor be stored as one, over any sequence of dumps, crashes and loads.
RootNeverStored ==
    \A b \in Bucket :
        /\ \A k \in DOMAIN slots[b] : slots[b][k].id # Root
        /\ \A k \in DOMAIN storage[b] : storage[b][k].id # Root

\* Slots of one ID are one object: a duplicate made by ReplaceBadNode never
\* disagrees with the other about the address or the age, in the table and in
\* what a dump stores.
OneObjectPerID ==
    \A b \in Bucket : \A s \in {slots[b], storage[b]} :
        \A j, k \in DOMAIN s : s[j].id = s[k].id => s[j] = s[k]

\* Duplicates stay side by side, through every later replacement and deletion:
\* Closest, which walks the slots in order, meets them one after the other.
DuplicatesAreAdjacent ==
    \A b \in Bucket : \A i, j \in DOMAIN slots[b] :
        slots[b][i].id = slots[b][j].id => \A k \in i..j : slots[b][k].id = slots[b][i].id

\* newRoutingTable undoes what a faulty table has stored: whatever was dumped,
\* duplicates and overfull buckets included, the loaded table has at most K
\* nodes in a bucket, no node twice, and none that is dubious.
LoadedTableIsClean ==
    phase = "loading" =>
        \A b \in Bucket :
            /\ Len(slots[b]) <= K
            /\ \A k \in DOMAIN slots[b] : slots[b][k].age < Dubious
            /\ \A j, k \in DOMAIN slots[b] : slots[b][j].id = slots[b][k].id => j = k

\* A message of a remote node never makes the table forget a node that is not
\* bad: bucket.AddNode makes room only at the expense of a bad node.
AddNodeEvictsOnlyBad ==
    [][Receive =>
        \A b \in Bucket : \A k \in DOMAIN slots[b] :
            \/ slots[b][k].age > Bad
            \/ \E j \in DOMAIN slots'[b] : slots'[b][j].id = slots[b][k].id]_vars

\* While a node stays in the running table its address does not change: a
\* message with its ID from another address is discarded (NodeExistAndChanged).
AddressIsStable ==
    [][phase' # "loading" =>
        \A b \in Bucket : \A j \in DOMAIN slots[b] : \A k \in DOMAIN slots'[b] :
            slots[b][j].id = slots'[b][k].id => slots[b][j].addr = slots'[b][k].addr]_vars

\* Once the remote nodes are silent the table empties, unless Start has been
\* stopped: wrong positions and panics of CheckAllNodes delay the removal of
\* bad nodes, they do not prevent it.
SilentNodesAreForgotten ==
    ~traffic ~> (slots = Empty \/ phase = "stopped")

\* routing_table.go: "Remove all the bad nodes."  When the last deletion of a
\* bucket is done, or given up after a panic, the bucket holds no bad node.  TLC
\* refutes this: the positions are stale after the first deletion (README).
CheckRemovesTheBadNodes ==
    [][(cursor > 0 /\ dels # {} /\ dels' = {} /\ phase' # "loading") =>
        \A k \in DOMAIN slots'[cursor] : ~IsBad(slots'[cursor][k], lag)]_vars

=============================================================================
