----------------------------- MODULE AsyncCalls -----------------------------
(***************************************************************************)
(* What the DHT server promises of its queries (Ping, FindNode, GetPeers,  *)
(* AnnouncePeer): a call is refused at once or accepted; an accepted call  *)
(* is finished once, with a response or an error only if the remote node   *)
(* has sent one for this very query, or with a timeout.                    *)
(***************************************************************************)
CONSTANT Call

VARIABLES
    status,    \* of every call
    answered   \* the answers the remote nodes have sent: pairs of call and kind

vars == <<status, answered>>

Init ==
    /\ status = [c \in Call |-> "idle"]
    /\ answered = {}

Accept(c) ==
    /\ status[c] = "idle"
    /\ status' = [status EXCEPT ![c] = "pending"]
    /\ UNCHANGED answered

Refuse(c) ==
    /\ status[c] \in {"idle", "pending"}
    /\ status' = [status EXCEPT ![c] = "failed"]
    /\ UNCHANGED answered

\* A remote node can answer only a query that was really made.
Answer(c, kind) ==
    /\ status[c] \notin {"idle", "failed"}
    /\ answered' = answered \cup {<<c, kind>>}
    /\ UNCHANGED status

Finish(c, kind) ==
    /\ status[c] = "pending"
    /\ <<c, kind>> \in answered
    /\ status' = [status EXCEPT ![c] = kind]
    /\ UNCHANGED answered

TimeOut(c) ==
    /\ status[c] = "pending"
    /\ status' = [status EXCEPT ![c] = "timeout"]
    /\ UNCHANGED answered

Next ==
    \E c \in Call :
        \/ Accept(c)
        \/ Refuse(c)
        \/ TimeOut(c)
        \/ \E kind \in {"response", "error"} : Answer(c, kind) \/ Finish(c, kind)

Spec == Init /\ [][Next]_vars

=============================================================================
