------------------------------ MODULE HostCalls ------------------------------
(***************************************************************************)
(* Calls of a surface to its Host through the coordinator                   *)
(* (crates/renoa-control host_calls, host_control_rcp, host_control_http;   *)
(* crates/renoa-node session/host_calls): the call is registered for the    *)
(* node connection that will serve it, sent over it, and completed by an    *)
(* answer of that connection, its end, or a timeout.                        *)
(***************************************************************************)
EXTENDS Integers, Sequences, FiniteSets

CONSTANTS
    Calls,    \* calls of the surface connection, each made once
    Nodes,    \* the owner's nodes
    MaxConns, \* bound: connections of one node
    MaxSlots, \* MAX_CALLS_PER_CONNECTION
    None

HostCallsAssumption == MaxConns \in Nat /\ MaxSlots \in Nat \ {0}

VARIABLES
    conn,     \* CoordinatorState::nodes: the connection of each node (its count), or 0
    open,     \* connections not yet cleaned up; a newer one may have replaced it
    count,    \* connections of each node so far
    serves,   \* nodes that offer host control
    call,     \* per call: step, its connection, what it was told
    pending,  \* HostCalls::pending: call -> connection
    toNode,   \* HostCall messages on their way: call, connection
    running,  \* the node's JoinSet: call, connection
    toCoord,  \* CompleteHostCall messages on their way
    surface   \* the surface connection is open

vars == <<conn, open, count, serves, call, pending, toNode, running, toCoord, surface>>

Waiting == {c \in Calls : call[c].step \in {"admitted", "sending", "waiting"}}
Live(k) == k \in open
Serving == {n \in Nodes : conn[n] # 0 /\ n \in serves}

Init ==
    /\ conn = [n \in Nodes |-> 0] /\ open = {} /\ count = [n \in Nodes |-> 0] /\ serves \in SUBSET Nodes
    /\ call = [c \in Calls |-> [step |-> "new", on |-> None, told |-> None]] /\ pending = <<>>
    /\ toNode = {} /\ running = {} /\ toCoord = {} /\ surface = TRUE

Told(c, t) == [call EXCEPT ![c] = [step |-> "told", on |-> None, told |-> t]]
Unregistered(c) == [d \in DOMAIN pending \ {c} |-> pending[d]]
-----------------------------------------------------------------------------
(* The surface *)

(* admit: a signed-in session within its slots.                             *)
SlotFree == Cardinality(Waiting) < MaxSlots
CallHost(c) ==
    /\ surface /\ call[c].step = "new"
    /\ call' = IF SlotFree THEN [call EXCEPT ![c].step = "admitted"] ELSE Told(c, "busy")
    /\ UNCHANGED <<conn, open, count, serves, pending, toNode, running, toCoord, surface>>

(* dispatch: the one node that serves is chosen, and the call registered    *)
(* for its connection, under the lock of the nodes.                         *)
Dispatch(c) ==
    /\ call[c].step = "admitted"
    /\ IF Cardinality(Serving) # 1
       THEN call' = Told(c, IF Serving = {} THEN "offline" ELSE "ambiguous") /\ UNCHANGED pending
       ELSE \E n \in Serving :
              /\ pending' = [d \in DOMAIN pending \cup {c} |-> IF d = c THEN [node |-> n, n |-> conn[n]] ELSE pending[d]]
              /\ call' = [call EXCEPT ![c] = [step |-> "sending", on |-> [node |-> n, n |-> conn[n]], told |-> None]]
    /\ UNCHANGED <<conn, open, count, serves, toNode, running, toCoord, surface>>
SendCall(c) ==
    /\ call[c].step = "sending"
    /\ IF Live(call[c].on)
       THEN /\ toNode' = toNode \cup {[call |-> c, on |-> call[c].on]}
            /\ call' = [call EXCEPT ![c].step = "waiting"] /\ UNCHANGED pending
       ELSE call' = Told(c, "disconnected") /\ pending' = Unregistered(c) /\ UNCHANGED toNode
    /\ UNCHANGED <<conn, open, count, serves, running, toCoord, surface>>

(* The oneshot is dropped, or the time is over: the registration goes.      *)
Disconnected(c) ==
    /\ call[c].step = "waiting" /\ c \notin DOMAIN pending
    /\ call' = Told(c, "disconnected")
    /\ UNCHANGED <<conn, open, count, serves, pending, toNode, running, toCoord, surface>>
TimedOut(c) ==
    /\ call[c].step \in {"sending", "waiting"}
    /\ call' = Told(c, "timeout") /\ pending' = Unregistered(c)
    /\ UNCHANGED <<conn, open, count, serves, toNode, running, toCoord, surface>>
(* The surface connection is cancelled: nobody is told.                     *)
CloseSurface ==
    /\ surface /\ surface' = FALSE
    /\ call' = [c \in Calls |-> IF c \in Waiting THEN [step |-> "dropped", on |-> None, told |-> None] ELSE call[c]]
    /\ pending' = [d \in DOMAIN pending \ Waiting |-> pending[d]]
    /\ UNCHANGED <<conn, open, count, serves, toNode, running, toCoord>>
-----------------------------------------------------------------------------
(* The node *)

StartCall(m) ==
    /\ m \in toNode /\ Live(m.on) /\ toNode' = toNode \ {m} /\ running' = running \cup {m}
    /\ UNCHANGED <<conn, open, count, serves, call, pending, toCoord, surface>>
FinishCall(m) ==
    /\ m \in running /\ running' = running \ {m} /\ toCoord' = toCoord \cup {m}
    /\ UNCHANGED <<conn, open, count, serves, call, pending, toNode, surface>>

(* complete: only the connection the call was registered for.               *)
OfConnection(c, k) == c \in DOMAIN pending /\ pending[c] = k
Complete(m) ==
    /\ m \in toCoord /\ Live(m.on) /\ toCoord' = toCoord \ {m}
    /\ IF OfConnection(m.call, m.on)
       THEN call' = Told(m.call, "answer") /\ pending' = Unregistered(m.call)
       ELSE UNCHANGED <<call, pending>>
    /\ UNCHANGED <<conn, open, count, serves, toNode, running, surface>>
-----------------------------------------------------------------------------
(* Connections *)

(* A node that connects again replaces its older connection.                *)
Connect(n) ==
    /\ count[n] < MaxConns
    /\ count' = [count EXCEPT ![n] = @ + 1] /\ conn' = [conn EXCEPT ![n] = count[n] + 1]
    /\ open' = open \cup {[node |-> n, n |-> count[n] + 1]}
    /\ UNCHANGED <<serves, call, pending, toNode, running, toCoord, surface>>

(* cleanup_connection: the table entry goes if it is still this connection; *)
(* end_connection drops what waits for it in either case.                   *)
Ended(k) == [d \in {e \in DOMAIN pending : pending[e] # k} |-> pending[d]]
CleanupConnection(k) ==
    /\ k \in open /\ open' = open \ {k}
    /\ conn' = IF conn[k.node] = k.n THEN [conn EXCEPT ![k.node] = 0] ELSE conn
    /\ pending' = Ended(k)
    /\ toNode' = {m \in toNode : m.on # k} /\ running' = {m \in running : m.on # k}
    /\ toCoord' = {m \in toCoord : m.on # k}
    /\ UNCHANGED <<count, serves, call, surface>>

Next ==
    \/ \E c \in Calls : CallHost(c) \/ Dispatch(c) \/ SendCall(c) \/ Disconnected(c) \/ TimedOut(c)
    \/ CloseSurface
    \/ \E m \in toNode \cup running \cup toCoord : StartCall(m) \/ FinishCall(m) \/ Complete(m)
    \/ (\E n \in Nodes : Connect(n)) \/ \E k \in open : CleanupConnection(k)
Fairness == \A c \in Calls : WF_vars(Dispatch(c)) /\ WF_vars(SendCall(c)) /\ WF_vars(Disconnected(c)) /\ WF_vars(TimedOut(c))
Spec == Init /\ [][Next]_vars /\ Fairness
-----------------------------------------------------------------------------
(* Types; the slots bound the calls of a connection, and the table holds    *)
(* only calls somebody waits for: none is left behind by a timeout, an      *)
(* ended connection or a surface that went away.                            *)
TypeOK == Cardinality(Waiting) <= MaxSlots /\ DOMAIN pending \subseteq Waiting

(* A waiting call is registered for a connection that still lives: a call   *)
(* never waits for a connection that has ended.                             *)
WaitsForLive == \A c \in DOMAIN pending : Live(pending[c])

(* Every call is told an outcome or its surface is gone.                    *)
CallsEnd == Waiting = {}
==============================================================================
