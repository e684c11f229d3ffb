--------------------------- MODULE SessionContract --------------------------
(***************************************************************************)
(* What a session of the kernel promises to its Host, without leases,      *)
(* effects, snapshots or failures: operations run one at a time in the     *)
(* order of their admission, an operation blocked on an unknown effect     *)
(* stays so until it is cancelled or abandoned, a requested one ends only  *)
(* as cancelled, an outcome is final, and only the operation that runs     *)
(* appends to the session's history.  Statuses are OperationStatus.        *)
(***************************************************************************)
EXTENDS Naturals, Sequences, FiniteSets

CONSTANTS
    Sessions,
    Ops,
    MaxAppend, \* bound: events appended by one transition
    Null

VARIABLES
    session,   \* the session an operation was admitted to
    position,  \* its place in the order of admission
    status,    \* OperationStatus, or "absent"
    requested, \* operations whose cancellation is requested
    history    \* per session, the operation that appended each event

vars == <<session, position, status, requested, history>>

Holding == {"running", "outcome_unknown"}
Ended == {"waiting", "completed", "failed", "cancelled"}
Of(s) == {o \in Ops : session[o] = s}

Init ==
    /\ session = [o \in Ops |-> Null]
    /\ position = [o \in Ops |-> 0]
    /\ status = [o \in Ops |-> "absent"]
    /\ requested = {}
    /\ history = [s \in Sessions |-> <<>>]

(* Positions of a session are gapless.                                     *)
Admit(o, s) ==
    /\ status[o] = "absent"
    /\ session' = [session EXCEPT ![o] = s]
    /\ position' = [position EXCEPT ![o] = Cardinality(Of(s))]
    /\ status' = [status EXCEPT ![o] = "queued"]
    /\ UNCHANGED <<requested, history>>

Request(o) ==
    /\ status[o] \in {"queued"} \cup Holding
    /\ requested' = requested \cup {o}
    /\ UNCHANGED <<session, position, status, history>>

Appends(o, n) ==
    history' = [history EXCEPT ![session[o]] = @ \o [i \in 1..n |-> o]]

Becomes(o, st) ==
    /\ status' = [status EXCEPT ![o] = st]
    /\ UNCHANGED <<session, position, requested>>

Start(o) ==
    /\ status[o] = "queued"
    /\ \A p \in Of(session[o]) :
         IF position[p] < position[o] THEN status[p] \in Ended ELSE status[p] \notin Holding
    /\ Becomes(o, "running")
    /\ UNCHANGED history

Continue(o, n) ==
    /\ status[o] = "running" /\ o \notin requested
    /\ Appends(o, n)
    /\ UNCHANGED <<session, position, status, requested>>

Block(o) ==
    /\ status[o] = "running"
    /\ Becomes(o, "outcome_unknown")
    /\ UNCHANGED history

Finish(o, st, n) ==
    /\ status[o] = "running" /\ o \notin requested
    /\ Becomes(o, st)
    /\ Appends(o, n)

Abandon(o, n) ==
    /\ status[o] = "outcome_unknown" /\ o \notin requested
    /\ Becomes(o, "failed")
    /\ Appends(o, n)

Cancel(o, n) ==
    /\ status[o] \in Holding /\ o \in requested
    /\ Becomes(o, "cancelled")
    /\ Appends(o, n)

Next ==
    \E o \in Ops :
        \/ \E s \in Sessions : Admit(o, s)
        \/ Request(o) \/ Start(o) \/ Block(o)
        \/ \E n \in 0..MaxAppend :
              \/ Continue(o, n) \/ Abandon(o, n) \/ Cancel(o, n)
              \/ \E st \in Ended \ {"cancelled"} : Finish(o, st, n)

Spec == Init /\ [][Next]_vars
=============================================================================
