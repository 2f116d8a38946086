---------------------------- MODULE TokenManager ----------------------------
(***************************************************************************)
(* The tokens that the DHT server hands out and checks: tokenManager of    *)
(* dht/token_manager.go, with the parts of handleQuery of                  *)
(* dht/dht_server.go that use it, get_peers and announce_peer.             *)
(*                                                                         *)
(* Tokens are random strings, taken to be distinct.  A token is told by    *)
(* the number of times tm.new was replaced since it was tm.new: 0 is       *)
(* tm.new, 1 is tm.last, and 2 is any older one, or none at all.           *)
(*                                                                         *)
(* Times are ages, saturated above the largest value that is compared.     *)
(* Time does not pass while a handler or a tick of Start is under way.     *)
(***************************************************************************)
EXTENDS Integers

CONSTANTS
    Addr,   \* addresses of remote nodes
    Half    \* half of the expiry of a token: the period of tick2

ASSUME HalfAssumption == Half \in Nat \ {0}

Expired == 2 * Half

VARIABLES
    addrs,     \* the keys of tm.addrs
    Time,      \* the age of the value of each key
    gen,       \* the token each node was sent last,
    issued,    \* and the time since then
    pc,        \* the handler of the query of each node
    read,      \* the token that handler has read from tm.new
    clock,     \* the time since tick1 fired
    due,       \* the tickers that have fired and are not served yet
    toVisit,   \* the keys clear has still to visit
    doomed,    \* the key clear has found expired and is about to delete
    raced,     \* the nodes sent a token while clear was about to delete them (history)
    stopped    \* tm.exit is closed

tokenVars == <<addrs, Time, gen, issued, pc, read, clock, due, toVisit, doomed, raced, stopped>>

\* The server starts: no node has a token.
TokenInit ==
    /\ addrs = {}
    /\ Time = [a \in Addr |-> 0]
    /\ gen = [a \in Addr |-> 2]
    /\ issued = [a \in Addr |-> Expired + 1]
    /\ pc = [a \in Addr |-> "idle"]
    /\ read = [a \in Addr |-> 2]
    /\ clock = 0
    /\ due = {}
    /\ toVisit = {}
    /\ doomed = {}
    /\ raced = {}
    /\ stopped = FALSE

start == <<clock, due, toVisit, doomed, stopped>>

-----------------------------------------------------------------------------
(***************************************************************************)
(* get_peers: Token reads tm.new under the lock, then stores the address   *)
(***************************************************************************)

TokenRead(a) ==
    /\ pc[a] = "idle"
    /\ pc' = [pc EXCEPT ![a] = "token"]
    /\ read' = [read EXCEPT ![a] = 0]
    /\ UNCHANGED <<addrs, Time, gen, issued, raced, start>>

\* Mutant: a node that is known keeps its old time.
TokenStoreOnce(a) ==
    /\ pc[a] = "token"
    /\ pc' = [pc EXCEPT ![a] = "idle"]
    /\ addrs' = addrs \cup {a}
    /\ Time' = [Time EXCEPT ![a] = IF a \in addrs THEN @ ELSE 0]
    /\ gen' = [gen EXCEPT ![a] = read[a]]
    /\ issued' = [issued EXCEPT ![a] = 0]
    /\ raced' = IF a \in doomed THEN raced \cup {a} ELSE raced \ {a}
    /\ UNCHANGED <<read, start>>

TokenStore(a) ==
    /\ pc[a] = "token"
    /\ pc' = [pc EXCEPT ![a] = "idle"]
    /\ addrs' = addrs \cup {a}
    /\ Time' = [Time EXCEPT ![a] = 0]
    /\ gen' = [gen EXCEPT ![a] = read[a]]
    /\ issued' = [issued EXCEPT ![a] = 0]
    /\ raced' = IF a \in doomed THEN raced \cup {a} ELSE raced \ {a}
    /\ UNCHANGED <<read, start>>

-----------------------------------------------------------------------------
(***************************************************************************)
(* announce_peer: Check compares the token with tm.last and tm.new, then   *)
(* looks the address up                                                    *)
(***************************************************************************)

CheckToken(a) ==
    /\ pc[a] = "idle"
    /\ pc' = [pc EXCEPT ![a] = IF gen[a] <= 1 THEN "match" ELSE "differ"]
    /\ UNCHANGED <<addrs, Time, gen, issued, read, raced, start>>

Check(a) == pc[a] = "match" /\ a \in addrs

\* When Check says yes the handler returns, otherwise it replies and reports the
\* torrent.
HandleAnnounce(a) ==
    /\ pc[a] \in {"match", "differ"}
    /\ pc' = [pc EXCEPT ![a] = IF Check(a) THEN "ignored" ELSE "announced"]
    /\ UNCHANGED <<addrs, Time, gen, issued, read, raced, start>>

HandlerReturns(a) ==
    /\ pc[a] \in {"ignored", "announced"}
    /\ pc' = [pc EXCEPT ![a] = "idle"]
    /\ UNCHANGED <<addrs, Time, gen, issued, read, raced, start>>

-----------------------------------------------------------------------------
(***************************************************************************)
(* Start: one goroutine serves both tickers                                *)
(***************************************************************************)

Idle == toVisit = {} /\ doomed = {}

\* Mutant: a token survives one rotation too many.
OlderTokenSlow(g) == IF g = 0 THEN 0 ELSE 2

OlderToken(g) == IF g < 2 THEN g + 1 ELSE 2

\* tm.last, tm.new = tm.new, token
UpdateToken ==
    /\ Idle
    /\ "rotate" \in due
    /\ due' = due \ {"rotate"}
    /\ gen' = [a \in Addr |-> OlderToken(gen[a])]
    /\ read' = [a \in Addr |-> OlderToken(read[a])]
    /\ UNCHANGED <<addrs, Time, issued, pc, clock, toVisit, doomed, raced, stopped>>

\* clear walks over the keys there are.
ClearRange ==
    /\ Idle
    /\ "clear" \in due
    /\ due' = due \ {"clear"}
    /\ toVisit' = addrs
    /\ UNCHANGED <<addrs, Time, gen, issued, pc, read, clock, doomed, raced, stopped>>

IsExpired(a) == Time[a] >= Expired

\* The callback of Range reads the time of a key ...
ClearRead(a) ==
    /\ a \in toVisit
    /\ doomed = {}
    /\ toVisit' = toVisit \ {a}
    /\ doomed' = IF IsExpired(a) THEN {a} ELSE {}
    /\ UNCHANGED <<addrs, Time, gen, issued, pc, read, clock, due, raced, stopped>>

\* ... and deletes the key, whatever its value is by then.
ClearDelete(a) ==
    /\ a \in doomed
    /\ addrs' = addrs \ {a}
    /\ doomed' = {}
    /\ UNCHANGED <<Time, gen, issued, pc, read, clock, due, toVisit, raced, stopped>>

Stop ==
    /\ ~stopped
    /\ stopped' = TRUE
    /\ UNCHANGED <<addrs, Time, gen, issued, pc, read, clock, due, toVisit, doomed, raced>>

Older(a, cap) == IF a < cap THEN a + 1 ELSE cap

\* Time passes when no handler is under way and the tickers are served, or
\* nobody serves them any more.
Tick ==
    /\ Idle
    /\ \A a \in Addr : pc[a] = "idle"
    /\ due = {} \/ stopped
    /\ clock' = IF clock + 1 < Expired THEN clock + 1 ELSE 0
    /\ due' = {t \in {"rotate", "clear"} : clock' = 0 \/ (t = "rotate" /\ clock' = Half)}
    /\ Time' = [a \in Addr |-> Older(Time[a], 2 * Expired)]
    /\ issued' = [a \in Addr |-> Older(issued[a], Expired + 1)]
    /\ UNCHANGED <<addrs, gen, pc, read, toVisit, doomed, raced, stopped>>

TokenNext ==
    \/ \E a \in Addr :
        \/ TokenRead(a)
        \/ TokenStore(a)
        \/ CheckToken(a)
        \/ HandleAnnounce(a)
        \/ HandlerReturns(a)
        \/ ClearRead(a)
        \/ ClearDelete(a)
    \/ UpdateToken
    \/ ClearRange
    \/ Stop
    \/ Tick

TokenSpec == TokenInit /\ [][TokenNext]_tokenVars

-----------------------------------------------------------------------------
(***************************************************************************)
(* Properties                                                              *)
(***************************************************************************)

TokenTypeOK ==
    /\ addrs \in SUBSET Addr
    /\ Time \in [Addr -> 0..(2 * Expired)]
    /\ gen \in [Addr -> 0..2]
    /\ issued \in [Addr -> 0..(Expired + 1)]
    /\ pc \in [Addr -> {"idle", "token", "match", "differ", "ignored", "announced"}]
    /\ read \in [Addr -> 0..2]
    /\ clock \in 0..(Expired - 1)
    /\ due \in SUBSET {"rotate", "clear"}
    /\ toVisit \in SUBSET Addr
    /\ doomed \in SUBSET Addr
    /\ raced \in SUBSET Addr
    /\ stopped \in BOOLEAN

\* A token is tm.new or tm.last for at least half of the expiry after it was
\* sent, even if updateToken runs between the two halves of Token, and its
\* address is known for the whole expiry, unless Token stored it between the
\* two halves of clear.
TokenLastsLongEnough ==
    \A a \in Addr :
        /\ issued[a] < Half => gen[a] <= 1
        /\ issued[a] < Expired /\ a \notin raced => a \in addrs

\* "it's not expired": while Start runs, Check says yes to no token that is
\* older than the expiry.
NoOldTokenPasses == \A a \in Addr : ~stopped /\ Check(a) => issued[a] <= Expired

\* tm.addrs does not grow for ever: an address that asks for no token again is
\* forgotten within two expiries.
AddressesAreForgotten ==
    ~stopped /\ Idle /\ due = {} => \A a \in addrs : Time[a] < 2 * Expired

\* krpc/message.go, ResponseResult: "Token is used for future announce_peer".
\* An announce_peer that carries a fresh token is not ignored.  TLC refutes this:
\* handleQuery takes the answer of Check the wrong way round (README).
FreshTokenAnnounces ==
    \A a \in Addr : issued[a] < Half /\ a \notin raced => pc[a] # "ignored"

=============================================================================
