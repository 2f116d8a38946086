------------------------------ MODULE Blacklist ------------------------------
(***************************************************************************)
(* The in-memory blacklist of dht/blacklist.go.  Every operation holds     *)
(* bl.lock from beginning to end, so each is one step; In is a read.       *)
(*                                                                         *)
(* Times are ages, saturated above the largest value that is compared.     *)
(***************************************************************************)
EXTENDS Integers, FiniteSets

CONSTANTS
    IP,        \* addr.IP.String()
    Port,      \* the ports of addresses; port 0 stands for all of them
    num,       \* bl.num, the largest number of IPs; 0 is no limit
    Interval   \* the period of loop, and how long an IP is kept

ASSUME ConstantsAssumption ==
    /\ IsFiniteSet(IP)
    /\ Port \subseteq Nat \ {0}
    /\ num \in Nat
    /\ Interval \in Nat \ {0}

VARIABLES
    listed,   \* the keys of bl.ips
    Time,     \* for each listed IP the age of its Time,
    Enable,   \* whether its Ports are used,
    Ports,    \* and its Ports, nil being the empty set
    clock,    \* the time since the last tick of loop
    closed    \* bl.exit is closed

vars == <<listed, Time, Enable, Ports, clock, closed>>

Init ==
    /\ listed = {}
    /\ Time = [ip \in IP |-> 0]
    /\ Enable = [ip \in IP |-> FALSE]
    /\ Ports = [ip \in IP |-> {}]
    /\ clock = 0
    /\ closed = FALSE

In(ip, port) == ip \in listed /\ (Enable[ip] => port \in Ports[ip])

HasRoom == num = 0 \/ Cardinality(listed) < num

\* Mutant: a port that is added turns the whole ban into a ban of ports.
AddEnablingPort(ip, port) ==
    /\ ip \in listed \/ HasRoom
    /\ listed' = listed \cup {ip}
    /\ Enable' = [Enable EXCEPT ![ip] = port # 0]
    /\ Ports' = [Ports EXCEPT ![ip] =
                    IF port = 0 THEN {} ELSE (IF ip \in listed THEN @ ELSE {}) \cup {port}]
    /\ Time' = [Time EXCEPT ![ip] = 0]
    /\ UNCHANGED <<clock, closed>>

\* An IP that is not listed is dropped when the list is full.  Port 0 bans the
\* IP and forgets its ports; a port that is added later does not undo it.
Add(ip, port) ==
    /\ ip \in listed \/ HasRoom
    /\ listed' = listed \cup {ip}
    /\ Enable' = [Enable EXCEPT ![ip] = port # 0 /\ (ip \in listed => @)]
    /\ Ports' = [Ports EXCEPT ![ip] =
                    IF port = 0 THEN {} ELSE (IF ip \in listed THEN @ ELSE {}) \cup {port}]
    /\ Time' = [Time EXCEPT ![ip] = 0]
    /\ UNCHANGED <<clock, closed>>

\* Deleting a port of an IP with one port or none removes the IP, whichever
\* port it is; deleting a port of a banned IP does nothing.
Del(ip, port) ==
    /\ ip \in listed
    /\ \/ /\ port = 0 \/ (Enable[ip] /\ Cardinality(Ports[ip]) <= 1)
          /\ listed' = listed \ {ip}
          /\ UNCHANGED <<Time, Ports>>
       \/ /\ port # 0 /\ Enable[ip] /\ Cardinality(Ports[ip]) > 1
          /\ Ports' = [Ports EXCEPT ![ip] = @ \ {port}]
          /\ Time' = [Time EXCEPT ![ip] = 0]
          /\ UNCHANGED listed
    /\ UNCHANGED <<Enable, clock, closed>>

\* Mutant: an IP is kept for two periods.
ExpiredLate(ip) == Time[ip] > 2 * Interval

Expired(ip) == Time[ip] > Interval

\* The ticker of loop fires.
Loop ==
    /\ clock = Interval
    /\ clock' = 0
    /\ listed' = {ip \in listed : ~Expired(ip)}
    /\ UNCHANGED <<Time, Enable, Ports, closed>>

Close ==
    /\ ~closed
    /\ closed' = TRUE
    /\ UNCHANGED <<listed, Time, Enable, Ports, clock>>

Older(a, cap) == IF a < cap THEN a + 1 ELSE cap

\* Time passes; the ticker is served when it fires, unless loop has returned.
Tick ==
    /\ clock < Interval \/ closed
    /\ clock' = Older(clock, Interval)
    /\ Time' = [ip \in IP |-> IF ip \in listed THEN Older(Time[ip], 2 * Interval + 1) ELSE 0]
    /\ UNCHANGED <<listed, Enable, Ports, closed>>

Next ==
    \/ \E ip \in IP, port \in Port \cup {0} : Add(ip, port) \/ Del(ip, port)
    \/ Loop
    \/ Close
    \/ Tick

Spec == Init /\ [][Next]_vars

-----------------------------------------------------------------------------
(***************************************************************************)
(* Properties                                                              *)
(***************************************************************************)

TypeOK ==
    /\ listed \in SUBSET IP
    /\ Time \in [IP -> 0..(2 * Interval + 1)]
    /\ Enable \in [IP -> BOOLEAN]
    /\ Ports \in [IP -> SUBSET Port]
    /\ clock \in 0..Interval
    /\ closed \in BOOLEAN

\* NewMemoryBlacklist: maxnum is the number of IPs that are kept, whatever is
\* added, deleted and expired.
AtMostNum == num > 0 => Cardinality(listed) <= num

\* A listed IP blocks something: Add and Del never leave an IP whose ports are
\* used and are none, which would take a place of the list until it expires.
ListedIPsBlock == \A ip \in listed : Enable[ip] => Ports[ip] # {}

\* While loop runs, an IP that is not added again is removed within two
\* periods ("the implementation should clear the address existed for long
\* time").
ClearedInTime == ~closed => \A ip \in listed : Time[ip] <= Interval + clock

Banned(ip) == ip \in listed /\ ~Enable[ip]

\* The ban of a whole IP (port 0) is not undone by adding or deleting its
\* ports: only Del with port 0 lifts it, or loop when it is older than a period.
BanLastsUntilLifted ==
    [][\A ip \in IP :
        Banned(ip) /\ ~Banned(ip)' => Del(ip, 0) \/ (Loop /\ Time[ip] > Interval)]_vars

=============================================================================
