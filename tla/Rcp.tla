-------------------------------- MODULE Rcp --------------------------------
(***************************************************************************)
(* The coordinator's task journal, command admission, dispatch to the node, *)
(* acceptance of execution records, and stops.  Every store operation is    *)
(* one SQLite transaction.  A handler that admits a command or a stop sends *)
(* to the node after it has left the connection_lifecycle lock, so those    *)
(* sends are separate steps and may happen in another order.                *)
(*                                                                          *)
(* Then a node (crates/renoa-node): its durable ledger of executions,       *)
(* records and stops, the session with the coordinator that publishes them, *)
(* and the turns it drives, one per task.  The session is one task that     *)
(* handles one event at a time; turns run beside it.  What the Host does    *)
(* inside a turn is a choice of outcome.                                    *)
(*                                                                          *)
(* Then the two together.  They share identities, the records of one        *)
(* execution, and a WebSocket that delivers in order and, when it is lost,  *)
(* loses what was under way in both directions; either process may crash at *)
(* any point.                                                               *)
(***************************************************************************)
EXTENDS Integers, Sequences, FiniteSets, SequencesExt

CONSTANTS
    Tasks,        \* tasks of one principal, all bound to one node
    Commands,     \* command identities
    TaskOf,       \* the task each command identity is drawn for
    Stoppable,    \* bound: the commands a surface may ask to stop
    Linking,      \* bound: the commands whose turn shows a plugin setup link
    MaxProgress,  \* bound: live progress records per execution
    MaxBatch,     \* bound: records per publication (the 1 MiB message limit)
    MaxFaults,    \* bound: lost connections, crashes and drains
    MaxDeletes,   \* bound: deletions of tasks
    MaxSends,     \* bound: deliveries of one command or stop by retried requests
    None

RcpAssumption ==
    /\ TaskOf \in [Commands -> Tasks] /\ Stoppable \subseteq Commands
    /\ Linking \subseteq Commands
    /\ MaxProgress \in Nat /\ MaxBatch \in Nat \ {0} /\ MaxFaults \in Nat
    /\ MaxDeletes \in Nat /\ MaxSends \in Nat
    /\ None \notin Tasks \cup Commands

VARIABLES
    live,     \* the established connection (a number), or 0
    lastConn, \* connections established so far
    toNode,   \* messages on their way to the node
    toCoord,  \* messages on their way to the coordinator
    faults    \* faults so far

wire == <<live, lastConn, toNode, toCoord>>

Terminals == {"completed", "failed", "cancelled"}
IsTerminal(kind) == kind \in Terminals

Execute(c) == [type |-> "execute", cmd |-> c]
Stop(c) == [type |-> "stop", cmd |-> c]
Acknowledged(c) == [type |-> "acknowledged", cmd |-> c]
Accepted(c, through) == [type |-> "accepted", cmd |-> c, through |-> through]
Error == [type |-> "error"]

AckExecution(c) == [type |-> "ack_execution", cmd |-> c]
AckStop(c) == [type |-> "ack_stop", cmd |-> c]
Publish(c, from, events) == [type |-> "publish", cmd |-> c, from |-> from, events |-> events]

(* The transport fails: both ends lose what was not yet processed.          *)
LinkLost ==
    /\ live' = 0 /\ toNode' = <<>> /\ toCoord' = <<>>
    /\ UNCHANGED lastConn
-----------------------------------------------------------------------------
(* The coordinator *)

VARIABLES
    (* durable *)
    task,     \* tasks: new, open, deleted (an identity is not drawn twice)
    journal,  \* task_events, per task, in sequence
    cmd,      \* commands: new, admitted, deleted
    pending,  \* pending_executions
    stream,   \* execution_event_streams: next_sequence and terminal
    stops,    \* stop_requests: none, recorded, delivered
    deletes,  \* deletions so far
    (* volatile *)
    link,     \* connection_id of the node's entry in CoordinatorState.nodes, or 0
    sends,    \* messages a handler is about to send on the connection it read
    handling, \* node operations that passed the current-connection check
    resent    \* retried deliveries per command

coordDurable == <<task, journal, cmd, pending, stream, stops, deletes>>
coordVolatile == <<link, sends, handling>>

NoStream == [next |-> 0, terminal |-> FALSE]
Submitted(c) == [cmd |-> c, seq |-> 0, kind |-> "submitted"]
Record(c, n, kind) == [cmd |-> c, seq |-> n, kind |-> kind]
Settled(c) == stream[c].terminal
Admitted(c) == cmd[c] = "admitted"

CoordInit ==
    /\ task = [t \in Tasks |-> "new"]
    /\ journal = [t \in Tasks |-> <<>>]
    /\ cmd = [c \in Commands |-> "new"]
    /\ pending = {}
    /\ stream = [c \in Commands |-> NoStream]
    /\ stops = [c \in Commands |-> "none"]
    /\ deletes = 0
    /\ link = 0 /\ sends = {} /\ handling = {}
    /\ resent = [c \in Commands |-> 0]

(* Position of a command in its task: the order of pending_executions. How  *)
(* the commands of several tasks are interleaved is left open.              *)
Position(c) == CHOOSE i \in 1..Len(journal[TaskOf[c]]) : journal[TaskOf[c]][i] = Submitted(c)
InTaskOrder(S) ==
    LET Before(a, b) == TaskOf[a] = TaskOf[b] => Position(a) < Position(b)
    IN  {q \in SetToSeqs(S) : \A i, j \in DOMAIN q : i < j => Before(q[i], q[j])}

-----------------------------------------------------------------------------
(* Requests of surfaces *)

(* A principal opens a task at a target its connected node advertises;      *)
(* opening it again is answered without a change.                           *)
OpenTask(t) ==
    /\ link # 0 /\ task[t] = "new"
    /\ task' = [task EXCEPT ![t] = "open"]
    /\ UNCHANGED <<journal, cmd, pending, stream, stops, deletes, resent>>
    /\ UNCHANGED <<coordVolatile, wire, faults>>

(* A new command needs an entry for its node; command, journal record and   *)
(* pending execution commit together.                                       *)
InsertCommand(c) ==
    /\ cmd' = [cmd EXCEPT ![c] = "admitted"]
    /\ journal' = [journal EXCEPT ![TaskOf[c]] = Append(@, Submitted(c))]
    /\ pending' = pending \cup {c}

Submit(c) ==
    /\ task[TaskOf[c]] = "open" /\ cmd[c] = "new" /\ link # 0
    /\ InsertCommand(c)
    /\ sends' = sends \cup {[conn |-> link, msg |-> Execute(c)]}
    /\ UNCHANGED <<task, stream, stops, deletes, link, handling, resent, wire, faults>>

(* A retried submission of an admitted command is answered from the row and *)
(* dispatched again while it is pending and the node is connected.          *)
ResubmitExisting(c) ==
    /\ Admitted(c) /\ c \in pending /\ link # 0 /\ resent[c] < MaxSends
    /\ sends' = sends \cup {[conn |-> link, msg |-> Execute(c)]}
    /\ resent' = [resent EXCEPT ![c] = @ + 1]
    /\ UNCHANGED <<coordDurable, link, handling, wire, faults>>

(* stop_command: recorded unless the execution ended; a recorded stop is    *)
(* sent again until it is delivered, also for a settled command.            *)
AdmitStop(c) ==
    /\ c \in Stoppable /\ Admitted(c) /\ ~Settled(c) /\ stops[c] = "none"
    /\ stops' = [stops EXCEPT ![c] = "recorded"]
    /\ sends' = sends \cup (IF link = 0 THEN {} ELSE {[conn |-> link, msg |-> Stop(c)]})
    /\ UNCHANGED <<task, journal, cmd, pending, stream, deletes, link, handling, resent, wire, faults>>

RepeatStop(c) ==
    /\ Admitted(c) /\ stops[c] = "recorded" /\ link # 0 /\ resent[c] < MaxSends
    /\ sends' = sends \cup {[conn |-> link, msg |-> Stop(c)]}
    /\ resent' = [resent EXCEPT ![c] = @ + 1]
    /\ UNCHANGED <<coordDurable, link, handling, wire, faults>>

(* delete_task: refused while a command is unsettled; everything of the     *)
(* task goes in one transaction (pending and stop rows cascade).            *)
DeleteTask(t) ==
    LET mine == {c \in Commands : TaskOf[c] = t} IN
    /\ task[t] = "open" /\ deletes < MaxDeletes
    /\ \A c \in mine : Admitted(c) => Settled(c)
    /\ task' = [task EXCEPT ![t] = "deleted"]
    /\ journal' = [journal EXCEPT ![t] = <<>>]
    /\ cmd' = [c \in Commands |-> IF c \in mine /\ Admitted(c) THEN "deleted" ELSE cmd[c]]
    /\ pending' = pending \ mine
    /\ stream' = [c \in Commands |-> IF c \in mine THEN NoStream ELSE stream[c]]
    /\ stops' = [c \in Commands |-> IF c \in mine THEN "none" ELSE stops[c]]
    /\ deletes' = deletes + 1
    /\ UNCHANGED <<coordVolatile, resent, wire, faults>>

(* A handler's send reaches the connection it read, if that still exists.   *)
SendToNode ==
    \E s \in sends :
        /\ sends' = sends \ {s}
        /\ toNode' = IF s.conn = live THEN Append(toNode, s.msg) ELSE toNode
        /\ UNCHANGED <<coordDurable, link, handling, resent, live, lastConn, toCoord, faults>>
-----------------------------------------------------------------------------
(* Operations of the node *)

(* The reader takes the next message and checks that its connection is      *)
(* current; the transaction runs later, perhaps after a replacement.        *)
TakeOperation ==
    /\ toCoord # <<>> /\ link = live
    /\ \A h \in handling : h.conn # live
    /\ handling' = {[conn |-> live, msg |-> Head(toCoord)]} \cup handling
    /\ toCoord' = Tail(toCoord)
    /\ UNCHANGED <<coordDurable, link, sends, resent, live, lastConn, toNode, faults>>

Reply(h, m) == toNode' = IF h.conn = live THEN Append(toNode, m) ELSE toNode

AcknowledgeExecution(h) ==
    LET c == h.msg.cmd IN
    /\ h.msg.type = "ack_execution"
    /\ IF Admitted(c)
       THEN pending' = pending \ {c} /\ Reply(h, Acknowledged(c))
       ELSE Reply(h, Error) /\ UNCHANGED pending
    /\ UNCHANGED <<task, journal, cmd, stream, stops, deletes>>

AcknowledgeStop(h) ==
    LET c == h.msg.cmd IN
    /\ h.msg.type = "ack_stop"
    /\ stops' = [stops EXCEPT ![c] = IF @ = "recorded" THEN "delivered" ELSE @]
    /\ UNCHANGED <<task, journal, cmd, pending, stream, deletes, toNode>>

(* append_contiguous_execution_events: what overlaps the cursor must be     *)
(* known already and is skipped; the rest starts exactly at the cursor.     *)
Fits(c, from, events) ==
    /\ Admitted(c)
    /\ from <= stream[c].next
    /\ from + Len(events) > stream[c].next => ~stream[c].terminal
New(c, from, events) ==
    LET known == stream[c].next - from IN
    [i \in 1..(IF Len(events) > known THEN Len(events) - known ELSE 0) |->
        Record(c, stream[c].next + i - 1, events[known + i])]

AppendEvents(h) ==
    LET c == h.msg.cmd
        new == New(c, h.msg.from, h.msg.events)
        next == stream[c].next + Len(new)
    IN
    /\ h.msg.type = "publish"
    /\ IF Fits(c, h.msg.from, h.msg.events)
       THEN /\ journal' = [journal EXCEPT ![TaskOf[c]] = @ \o new]
            /\ stream' = [stream EXCEPT ![c] =
                   [next |-> next,
                    terminal |-> IF new = <<>> THEN @.terminal ELSE IsTerminal(Last(new).kind)]]
            /\ Reply(h, Accepted(c, next - 1))
       ELSE Reply(h, Error) /\ UNCHANGED <<journal, stream>>
    /\ UNCHANGED <<task, cmd, pending, stops, deletes>>

HandleOperation ==
    \E h \in handling :
        /\ AcknowledgeExecution(h) \/ AcknowledgeStop(h) \/ AppendEvents(h)
        /\ handling' = handling \ {h}
        /\ UNCHANGED <<link, sends, resent, live, lastConn, toCoord, faults>>

(* activate_device: under the lifecycle lock the old entry is replaced and  *)
(* the pending executions, then the pending stops, are sent first.          *)
PendingStops == {c \in Commands : Admitted(c) /\ stops[c] = "recorded"}
ActivationMessages(owed, cancelled) ==
    [i \in DOMAIN owed |-> Execute(owed[i])] \o [i \in DOMAIN cancelled |-> Stop(cancelled[i])]

(* cleanup_connection: the entry of a lost connection goes away.            *)
CleanupConnection ==
    /\ link # 0 /\ link # live
    /\ link' = 0
    /\ UNCHANGED <<coordDurable, sends, handling, resent, wire, faults>>
-----------------------------------------------------------------------------
(* The node *)

VARIABLES
    (* durable *)
    rec,      \* host_node_executions: order, admission_acked, terminal, records published
    ev,       \* host_node_events: the kinds recorded for a command, in sequence
    nstop,    \* host_node_stops
    (* volatile *)
    node,     \* the process: up, down, or failed (it ended with an error)
    pubs,     \* Publication of a command: admission and records in flight
    dirty,    \* the commit signal: something was recorded since the last refresh
    turn,     \* the turn of a task: its command, its step, its cancellation token
    stopping, \* the command whose stop is recorded and not yet passed to its turn
    draining, \* no command is admitted any more
    unlinked  \* a setup link of the turn reached nobody: the reason is held, or lost with its process

nodeDurable == <<rec, ev, nstop>>
nodeVolatile == <<node, pubs, dirty, turn, stopping, draining, unlinked>>
nodeVars == <<nodeDurable, nodeVolatile>>

Closed == [open |-> FALSE, admission |-> FALSE, flight |-> 0]
Opened == [open |-> TRUE, admission |-> FALSE, flight |-> 0]
NoTurn == [cmd |-> None, step |-> "none", cancelled |-> FALSE]
NoPublications == [c \in Commands |-> Closed]

NodeInit ==
    /\ rec = [c \in Commands |-> None] /\ ev = [c \in Commands |-> <<>>] /\ nstop = {}
    /\ node = "up" /\ pubs = NoPublications /\ dirty = FALSE
    /\ turn = [t \in Tasks |-> NoTurn]
    /\ stopping = None /\ draining = FALSE /\ unlinked = [c \in Commands |-> "no"]

(* insert_event at next_event_sequence.                                    *)
InsertEvent(c, kind) == [ev EXCEPT ![c] = Append(@, kind)]
Executions == [order : Nat, acked : BOOLEAN, terminal : BOOLEAN, pub : Nat]
LedgerAssumption == IsFiniteSet(Commands) /\ None \notin Executions
Known == {c \in Commands : rec[c] # None}
Ended(c) == rec[c] # None /\ rec[c].terminal
-----------------------------------------------------------------------------
(* Publication *)

(* load_pending_publications: unfinished, unacknowledged or unpublished.    *)
Owed(r, e) == {c \in Commands :
    r[c] # None /\ (~r[c].terminal \/ ~r[c].acked \/ r[c].pub < Len(e[c]))}
Refreshed(p, r, e) ==
    [c \in Commands |-> IF c \notin Owed(r, e) THEN Closed ELSE IF p[c].open THEN p[c] ELSE Opened]

(* send_pending: the first command of a task with records under way, to     *)
(* send or still to come keeps the later ones of the task back.             *)
Blocks(p, r, e, c) == p[c].flight # 0 \/ r[c].pub < Len(e[c]) \/ ~r[c].terminal
Publishes(p, r, e, c) ==
    /\ p[c].open /\ p[c].flight = 0 /\ r[c].pub < Len(e[c])
    /\ \A d \in Commands : (p[d].open /\ TaskOf[d] = TaskOf[c] /\ r[d].order < r[c].order)
                              => ~Blocks(p, r, e, d)
PublicationBatch(r, e, c) ==
    LET last == IF Len(e[c]) - r[c].pub > MaxBatch THEN r[c].pub + MaxBatch ELSE Len(e[c])
    IN  SubSeq(e[c], r[c].pub + 1, last)

Outgoing(p, r, e) ==
    {AckExecution(c) : c \in {d \in Owed(r, e) : p[d].open /\ ~r[d].acked /\ ~p[d].admission}}
    \cup {Publish(c, r[c].pub, PublicationBatch(r, e, c)) : c \in {d \in Owed(r, e) : Publishes(p, r, e, d)}}
SentPublication(p, r, e, c) ==
    [p[c] EXCEPT !.admission = @ \/ (p[c].open /\ ~r[c].acked),
                 !.flight = IF Publishes(p, r, e, c) THEN r[c].pub + Len(PublicationBatch(r, e, c)) ELSE @]
(* Task by task, in whichever order, and in the order of admission in each. *)
InSendOrder(S, r) ==
    LET Before(m, n) == r[m.cmd].order < r[n.cmd].order \/ (m.cmd = n.cmd /\ m.type = "ack_execution")
        T(m) == TaskOf[m.cmd]
    IN  {q \in SetToSeqs(S) : \A i, j \in DOMAIN q : (i < j /\ T(q[i]) = T(q[j])) =>
            Before(q[i], q[j]) /\ \A k \in i..j : T(q[k]) = T(q[i])}

(* refresh_publications and send_pending on the current connection.         *)
Resume(p, before, r, e) ==
    LET fresh == Refreshed(p, r, e)
    IN  /\ pubs' = [c \in Commands |-> SentPublication(fresh, r, e, c)]
        /\ \E q \in InSendOrder(Outgoing(fresh, r, e), r) : toCoord' = before \o q
-----------------------------------------------------------------------------
(* Scheduling *)

(* schedule_pending: a task without a turn starts its first unfinished      *)
(* command.                                                                 *)
ScheduledLatest(running, r) ==
    [t \in Tasks |->
        LET waiting == {c \in Commands : TaskOf[c] = t /\ r[c] # None /\ ~r[c].terminal} IN
        IF running[t] # NoTurn \/ waiting = {} THEN running[t]
        ELSE [NoTurn EXCEPT !.cmd = CHOOSE c \in waiting : \A d \in waiting : r[c].order >= r[d].order,
                            !.step = "spawned"]]
ScheduledEnded(running, r) ==
    [t \in Tasks |->
        LET waiting == {c \in Commands : TaskOf[c] = t /\ r[c] # None} IN
        IF running[t] # NoTurn \/ waiting = {} THEN running[t]
        ELSE [NoTurn EXCEPT !.cmd = CHOOSE c \in waiting : \A d \in waiting : r[c].order <= r[d].order,
                            !.step = "spawned"]]
Scheduled(running, r) ==
    [t \in Tasks |->
        LET waiting == {c \in Commands : TaskOf[c] = t /\ r[c] # None /\ ~r[c].terminal} IN
        IF running[t] # NoTurn \/ waiting = {} THEN running[t]
        ELSE [NoTurn EXCEPT !.cmd = CHOOSE c \in waiting : \A d \in waiting : r[c].order <= r[d].order,
                            !.step = "spawned"]]

(* finish_execution and schedule_pending, in a session or between two.      *)
Join(t) ==
    /\ node = "up" /\ stopping = None /\ turn[t].step = "done"
    /\ turn' = Scheduled([turn EXCEPT ![t] = NoTurn], rec)
    /\ UNCHANGED <<nodeDurable, node, pubs, dirty, stopping, draining, unlinked, wire, faults>>
-----------------------------------------------------------------------------
(* Messages of the coordinator *)

InSession == node = "up" /\ live # 0 /\ stopping = None
Receive(type) == InSession /\ toNode # <<>> /\ Head(toNode).type = type
Taken == toNode' = Tail(toNode) /\ UNCHANGED <<live, lastConn>>
(* SetupLinks keeps its reason in memory; what the Host made of the turn it *)
(* stopped stays.                                                           *)
ReasonsLost == [c \in Commands |-> IF unlinked[c] = "held" THEN "lost" ELSE unlinked[c]]
(* The session ends with an error: the process stops and its turns with it. *)
Fail ==
    /\ node' = "failed" /\ turn' = [t \in Tasks |-> NoTurn] /\ pubs' = NoPublications
    /\ live' = 0 /\ toNode' = <<>> /\ toCoord' = <<>>
    /\ unlinked' = ReasonsLost
    /\ UNCHANGED <<nodeDurable, dirty, stopping, draining, lastConn>>

NextOrder == 1 + Max({0} \cup {rec[d].order : d \in Known})
Admit(c) == [rec EXCEPT ![c] =
    IF @ = None THEN [order |-> NextOrder, acked |-> FALSE, terminal |-> FALSE, pub |-> 0]
    ELSE [@ EXCEPT !.acked = FALSE]]

HandleExecute ==
    LET c == Head(toNode).cmd IN
    /\ Receive("execute") /\ Taken
    /\ IF draining
       THEN UNCHANGED <<rec, ev, dirty, turn>> /\ Resume(pubs, toCoord, rec, ev)
       ELSE /\ rec' = Admit(c)
            /\ ev' = [ev EXCEPT ![c] = IF rec[c] = None THEN <<"started">> ELSE @]
            /\ dirty' = TRUE
            /\ turn' = Scheduled(turn, rec')
            /\ Resume(pubs, toCoord, rec', ev')
    /\ UNCHANGED <<nstop, node, stopping, draining, unlinked, faults>>

AcknowledgeAdmission ==
    LET c == Head(toNode).cmd
        r == [rec EXCEPT ![c].acked = TRUE]
    IN
    /\ Receive("acknowledged")
    /\ IF ~pubs[c].open \/ ~pubs[c].admission \/ rec[c] = None THEN Fail
       ELSE /\ rec' = r
            /\ pubs' = Refreshed([pubs EXCEPT ![c].admission = FALSE], r, ev)
            /\ Taken /\ UNCHANGED <<ev, nstop, node, dirty, turn, stopping, draining, unlinked, toCoord>>
    /\ UNCHANGED faults

EventsAccepted ==
    LET c == Head(toNode).cmd
        through == Head(toNode).through + 1
        r == [rec EXCEPT ![c].pub = IF @ < through THEN through ELSE @]
    IN
    /\ Receive("accepted")
    /\ IF ~pubs[c].open \/ pubs[c].flight # through \/ rec[c] = None THEN Fail
       ELSE /\ rec' = r
            /\ Resume([pubs EXCEPT ![c].flight = 0], toCoord, r, ev)
            /\ Taken /\ UNCHANGED <<ev, nstop, node, dirty, turn, stopping, draining, unlinked>>
    /\ UNCHANGED faults

(* An error that names no request ends the node.                            *)
Rejected == Receive("error") /\ Fail /\ UNCHANGED faults

(* record_stop; the turn learns of it in the next step.                     *)
RecordStop ==
    LET c == Head(toNode).cmd IN
    /\ Receive("stop") /\ Taken
    /\ IF Ended(c)
       THEN toCoord' = Append(toCoord, AckStop(c)) /\ UNCHANGED <<nstop, stopping>>
       ELSE nstop' = nstop \cup {c} /\ stopping' = c /\ UNCHANGED toCoord
    /\ UNCHANGED <<rec, ev, node, pubs, dirty, turn, draining, unlinked, faults>>

Registered(t) == turn[t].step \in {"registered", "checked", "started"}
CancelTurn ==
    /\ node = "up" /\ stopping # None
    /\ turn' = [t \in Tasks |-> IF turn[t].cmd = stopping /\ Registered(t)
                                THEN [turn[t] EXCEPT !.cancelled = TRUE] ELSE turn[t]]
    /\ toCoord' = IF live = 0 THEN toCoord ELSE Append(toCoord, AckStop(stopping))
    /\ stopping' = None
    /\ UNCHANGED <<nodeDurable, node, pubs, dirty, draining, unlinked, live, lastConn, toNode, faults>>

(* The commit signal: publication rereads the ledger.                       *)
CommitSignal ==
    /\ InSession /\ dirty
    /\ dirty' = FALSE
    /\ Resume(pubs, toCoord, rec, ev)
    /\ UNCHANGED <<nodeDurable, node, turn, stopping, draining, unlinked, live, lastConn, toNode, faults>>
-----------------------------------------------------------------------------
(* Turns *)

Step(t, from, to) == node = "up" /\ turn[t].step = from /\ turn' = [turn EXCEPT ![t].step = to]
TurnOnly == UNCHANGED <<node, pubs, stopping, draining, unlinked, wire, faults>>

Register(t) == Step(t, "spawned", "registered") /\ UNCHANGED <<nodeDurable, dirty>> /\ TurnOnly

CheckStop(t) ==
    /\ node = "up" /\ turn[t].step = "registered"
    /\ turn' = [turn EXCEPT ![t].step = "checked", ![t].cancelled = @ \/ turn[t].cmd \in nstop]
    /\ UNCHANGED <<nodeDurable, dirty>> /\ TurnOnly

(* A setup link that reaches nobody stops the turn.                         *)
LinkFails(t) ==
    /\ node = "up" /\ turn[t].step = "started" /\ turn[t].cmd \in Linking /\ unlinked[turn[t].cmd] # "held"
    /\ unlinked' = [unlinked EXCEPT ![turn[t].cmd] = "held"]
    /\ UNCHANGED <<nodeDurable, node, pubs, dirty, turn, stopping, draining, wire, faults>>

(* How the command of a turn ends: as failed with the link's reason while   *)
(* the process that saw it runs; otherwise as the Host ended the turn,      *)
(* which may have been stopped by a link of an earlier process.             *)
MayCancel(t) == IF turn[t].cancelled THEN {"cancelled"} ELSE {}
Outcomes(t) ==
    CASE unlinked[turn[t].cmd] = "held" -> {"failed"}
      [] unlinked[turn[t].cmd] = "lost" -> {"completed", "failed", "cancelled"}
      [] OTHER -> {"completed", "failed"} \cup MayCancel(t)
Finish(c, kind) ==
    /\ ev' = InsertEvent(c, kind)
    /\ rec' = [rec EXCEPT ![c].terminal = TRUE]
    /\ dirty' = TRUE /\ UNCHANGED nstop

(* A refused request or a session that cannot be prepared.                  *)
FinishUnstarted(t) ==
    /\ Step(t, "checked", "done")
    /\ \E kind \in {"failed"} \cup MayCancel(t) : Finish(turn[t].cmd, kind)
    /\ TurnOnly

AppendTurnStarted(t) ==
    /\ Step(t, "checked", "started")
    /\ ev' = [ev EXCEPT ![turn[t].cmd] = IF Len(@) = 1 THEN Append(@, "turn") ELSE @]
    /\ dirty' = TRUE
    /\ UNCHANGED <<rec, nstop>> /\ TurnOnly

AppendProgress(t) ==
    LET c == turn[t].cmd IN
    /\ node = "up" /\ turn[t].step = "started"
    /\ Cardinality({i \in DOMAIN ev[c] : ev[c][i] = "progress"}) < MaxProgress
    /\ ev' = InsertEvent(c, "progress")
    /\ dirty' = TRUE
    /\ UNCHANGED <<rec, nstop, turn>> /\ TurnOnly

FinishTurn(t) ==
    /\ Step(t, "started", "done")
    /\ \E kind \in Outcomes(t) : Finish(turn[t].cmd, kind)
    /\ TurnOnly
-----------------------------------------------------------------------------
(* The process *)

(* A new session: the ledger is published again from its cursors.           *)
OpenSession(messages) ==
    /\ node = "up" /\ live = 0 /\ stopping = None
    /\ live' = lastConn + 1 /\ lastConn' = lastConn + 1
    /\ toNode' = messages
    /\ Resume(NoPublications, <<>>, rec, ev)
    /\ UNCHANGED <<nodeDurable, node, dirty, turn, stopping, draining, unlinked>>

SessionLost == LinkLost /\ pubs' = NoPublications /\ UNCHANGED <<nodeDurable, node, dirty, turn, stopping, draining, unlinked>>

(* The process ends and every turn with it; the ledger stays.               *)
Exit ==
    /\ node' = "down" /\ LinkLost
    /\ turn' = [t \in Tasks |-> NoTurn] /\ pubs' = NoPublications
    /\ dirty' = FALSE /\ stopping' = None /\ draining' = FALSE /\ unlinked' = ReasonsLost
    /\ UNCHANGED nodeDurable

Drain ==
    /\ node = "up" /\ ~draining /\ faults < MaxFaults
    /\ draining' = TRUE /\ faults' = faults + 1
    /\ UNCHANGED <<nodeDurable, node, pubs, dirty, turn, stopping, unlinked, wire>>

Drained ==
    /\ node = "up" /\ draining /\ stopping = None /\ \A t \in Tasks : turn[t] = NoTurn
    /\ Exit /\ UNCHANGED faults

(* A new process drives every unfinished admission again.                   *)
Restart ==
    /\ node = "down"
    /\ node' = "up" /\ turn' = Scheduled(turn, rec)
    /\ UNCHANGED <<nodeDurable, pubs, dirty, stopping, draining, unlinked, wire, faults>>

(* automation_cleanup after the coordinator deleted the task: nothing of it *)
(* may be unfinished here.                                                  *)
ForgetTask(t) ==
    LET mine == {c \in Commands : TaskOf[c] = t} IN
    /\ node = "up" /\ \E c \in mine : rec[c] # None
    /\ \A c \in mine \cap Known : rec[c].terminal
    /\ rec' = [c \in Commands |-> IF c \in mine THEN None ELSE rec[c]]
    /\ ev' = [c \in Commands |-> IF c \in mine THEN <<>> ELSE ev[c]]
    /\ nstop' = nstop \ mine
    /\ UNCHANGED <<nodeVolatile, wire, faults>>
-----------------------------------------------------------------------------
(* The two processes and the connection between them *)

vars == <<coordDurable, coordVolatile, resent, nodeVars, wire, faults>>

Init ==
    /\ CoordInit /\ NodeInit
    /\ live = 0 /\ lastConn = 0 /\ toNode = <<>> /\ toCoord = <<>> /\ faults = 0

CoordIdle == UNCHANGED <<coordDurable, coordVolatile, resent>>
NodeIdle == UNCHANGED nodeVars
Fault == faults < MaxFaults /\ faults' = faults + 1

Connect ==
    /\ \E owed \in InTaskOrder(pending), cancelled \in SetToSeqs(PendingStops) :
         OpenSession(ActivationMessages(owed, cancelled))
    /\ link' = live'
    /\ UNCHANGED <<coordDurable, sends, handling, resent, faults>>

LoseLink ==
    /\ live # 0 /\ Fault /\ SessionLost
    /\ UNCHANGED <<coordDurable, coordVolatile, resent>>

NodeCrash ==
    /\ node = "up" /\ Fault /\ Exit
    /\ UNCHANGED <<coordDurable, coordVolatile, resent>>

(* The coordinator process ends: its journal stays, what it was about to    *)
(* send or to commit is gone.                                               *)
CoordinatorCrash ==
    /\ Fault /\ SessionLost
    /\ link' = 0 /\ sends' = {} /\ handling' = {}
    /\ UNCHANGED <<coordDurable, resent>>

Surface ==
    /\ NodeIdle
    /\ \/ \E t \in Tasks : OpenTask(t) \/ DeleteTask(t)
       \/ \E c \in Commands : Submit(c) \/ ResubmitExisting(c) \/ AdmitStop(c) \/ RepeatStop(c)

Coordinator == NodeIdle /\ (SendToNode \/ TakeOperation \/ HandleOperation \/ CleanupConnection)

Session ==
    /\ CoordIdle
    /\ \/ HandleExecute \/ AcknowledgeAdmission \/ EventsAccepted \/ Rejected
       \/ RecordStop \/ CancelTurn \/ CommitSignal
Turns(t) == Register(t) \/ CheckStop(t) \/ FinishUnstarted(t) \/ AppendTurnStarted(t) \/ FinishTurn(t)
Turn(t) == CoordIdle /\ (Turns(t) \/ AppendProgress(t) \/ LinkFails(t) \/ Join(t))
Process == CoordIdle /\ (Drain \/ Drained \/ Restart)
Forget(t) == task[t] = "deleted" /\ CoordIdle /\ ForgetTask(t)

Next ==
    \/ Surface \/ Coordinator \/ Session \/ Process
    \/ \E t \in Tasks : Turn(t) \/ Forget(t)
    \/ Connect \/ LoseLink \/ NodeCrash \/ CoordinatorCrash

(* Both processes keep running their loops, the service manager restarts    *)
(* them, the node reconnects with backoff, and a turn ends.                 *)
Fairness ==
    /\ WF_vars(Coordinator) /\ WF_vars(NodeIdle /\ SendToNode) /\ WF_vars(NodeIdle /\ HandleOperation)
    /\ WF_vars(Session) /\ WF_vars(Connect) /\ WF_vars(CoordIdle /\ Drained) /\ WF_vars(CoordIdle /\ Restart)
    /\ WF_vars(CoordIdle /\ CommitSignal)
    /\ \A t \in Tasks : WF_vars(CoordIdle /\ Turns(t)) /\ WF_vars(CoordIdle /\ Join(t))
Spec == Init /\ [][Next]_vars
FairSpec == Spec /\ Fairness
-----------------------------------------------------------------------------
(* Types of the coordinator's tables, the node's ledger and the connection. *)
Kinds == {"started", "turn", "progress"} \cup Terminals
Entries == [cmd : Commands, seq : Nat, kind : Kinds \cup {"submitted"}]
Publications == [open : BOOLEAN, admission : BOOLEAN, flight : Nat]
TurnsOf == [cmd : Commands \cup {None}, cancelled : BOOLEAN,
            step : {"none", "spawned", "registered", "checked", "started", "done"}]
Downward == [type : {"execute", "stop", "acknowledged"}, cmd : Commands]
            \cup [type : {"accepted"}, cmd : Commands, through : Int] \cup {Error}
Upward == [type : {"ack_execution", "ack_stop"}, cmd : Commands]
          \cup [type : {"publish"}, cmd : Commands, from : Nat, events : Seq(Kinds)]

TablesOK ==
    /\ task \in [Tasks -> {"new", "open", "deleted"}]
    /\ journal \in [Tasks -> Seq(Entries)]
    /\ cmd \in [Commands -> {"new", "admitted", "deleted"}]
    /\ pending \subseteq Commands
    /\ stream \in [Commands -> [next : Nat, terminal : BOOLEAN]]
    /\ stops \in [Commands -> {"none", "recorded", "delivered"}]
LedgerOK ==
    /\ rec \in [Commands -> Executions \cup {None}]
    /\ ev \in [Commands -> Seq(Kinds)]
    /\ nstop \subseteq Commands /\ node \in {"up", "down", "failed"}
    /\ pubs \in [Commands -> Publications]
    /\ turn \in [Tasks -> TurnsOf]
    /\ unlinked \in [Commands -> {"no", "held", "lost"}]
    /\ stopping \in Commands \cup {None} /\ dirty \in BOOLEAN /\ draining \in BOOLEAN
ConnectionOK ==
    /\ toNode \in Seq(Downward) /\ sends \subseteq [conn : Nat, msg : Downward]
    /\ toCoord \in Seq(Upward) /\ handling \subseteq [conn : Nat, msg : Upward]
    /\ lastConn \in Nat /\ link \in 0..lastConn /\ live \in {0, lastConn}
TypeOK == TablesOK /\ LedgerOK /\ ConnectionOK

(* The journal holds what a node recorded for a command once, in its        *)
(* order, without a gap and never beyond it, whatever was resent: a batch   *)
(* whose acknowledgement was lost is published again                        *)
(* (append_contiguous_execution_events).                                    *)
JournalIsPrefix ==
    \A c \in Commands : Admitted(c) =>
        LET j == journal[TaskOf[c]]
            recorded == {i \in DOMAIN j : j[i].cmd = c /\ j[i].kind # "submitted"}
        IN  /\ stream[c].next <= Len(ev[c])
            /\ \A n \in 1..stream[c].next : \E i \in recorded : j[i].seq = n - 1
            /\ \A i \in recorded :
                 /\ j[i].seq < stream[c].next /\ j[i] = Record(c, j[i].seq, ev[c][j[i].seq + 1])
                 /\ \A k \in recorded : i < k => j[i].seq < j[k].seq

(* An admitted command is never forgotten between the two ledgers: until a  *)
(* node holds its execution durably the coordinator owes it to the node     *)
(* (pending_executions), and the node advances its cursor only over what    *)
(* the coordinator committed.                                               *)
NothingForgotten ==
    \A c \in Commands : Admitted(c) =>
        /\ c \in pending \/ rec[c] # None
        /\ rec[c] # None => rec[c].pub <= stream[c].next

(* The records of one task reach the journal command after command: a later *)
(* command of a task appears only behind the terminal record of the earlier *)
(* one the node admitted (send_pending's blocked tasks).                    *)
PublishedInTurn ==
    \A c, d \in Commands :
        (TaskOf[c] = TaskOf[d] /\ Admitted(c) /\ Admitted(d) /\ rec[c] # None /\ rec[d] # None
            /\ rec[c].order < rec[d].order /\ stream[d].next > 0) => Settled(c)

(* A stop the node recorded reaches the turn: a turn that has read the      *)
(* ledger, or registered after it, holds a cancelled token, in every order  *)
(* of recording, registering and checking (RunningTurns, stop_requested).   *)
NoLostStop ==
    \A t \in Tasks :
        (turn[t].step \in {"checked", "started"} /\ turn[t].cmd \in nstop /\ stopping # turn[t].cmd)
            => turn[t].cancelled

(* The coordinator gives up a stop only when the node has it in its ledger  *)
(* or has ended the command.                                                *)
DeliveredStopIsHeld ==
    \A c \in Commands : (Admitted(c) /\ stops[c] = "delivered") => c \in nstop \/ Ended(c)

(* Turns of a task follow the order the node admitted its commands in:      *)
(* whatever crashed, no turn runs while an earlier command is unfinished.   *)
Running(t) == turn[t].step \in {"spawned", "registered", "checked", "started"}
TurnsInAdmissionOrder ==
    \A t \in Tasks : Running(t) =>
        \A c \in Known : (TaskOf[c] = t /\ rec[c].order < rec[turn[t].cmd].order) => Ended(c)

(* The coordinator answers what the node sent, and only that: no message on *)
(* its way can end the node with a protocol error.                          *)
NodeServes == node # "failed"

(* A command ends as cancelled only after a stop was recorded for it, or    *)
(* when a setup link of its turn reached nobody: the process that saw it    *)
(* says failed, a later one only knows that the Host stopped the turn       *)
(* (execute, SetupLinks::finish).                                           *)
CancelledOnlyWhenAsked ==
    \A c \in Known : (ev[c] # <<>> /\ Last(ev[c]) = "cancelled") => c \in nstop \/ unlinked[c] # "no"

(* Nothing of a deleted task comes back: no pending execution, stop, cursor *)
(* or journal record of its commands, although operations of the node that  *)
(* were taken before the deletion are committed after it.                   *)
NothingOutlivesTask ==
    \A c \in Commands : cmd[c] = "deleted" =>
        /\ c \notin pending /\ stops[c] = "none" /\ stream[c] = NoStream
        /\ journal[TaskOf[c]] = <<>>

(* What the owner of a task relies on, through lost connections, crashes    *)
(* and drains: the journal of an admitted command grows into what the node  *)
(* recorded, in turn; a stop is kept until the node holds it; nothing       *)
(* outlives a deleted task; and while no task is deleted the node serves.   *)
RcpSafe ==
    /\ TypeOK /\ JournalIsPrefix /\ NothingForgotten /\ PublishedInTurn
    /\ TurnsInAdmissionOrder /\ NoLostStop /\ DeliveredStopIsHeld
    /\ CancelledOnlyWhenAsked /\ NothingOutlivesTask
    /\ deletes = 0 => NodeServes

(* What a command's terminal record says never changes, and nothing follows *)
(* it, in the ledger and in the journal.                                    *)
TerminalIsFinal ==
    \A c \in Commands :
        /\ (Ended(c) /\ rec'[c] # None) => ev'[c] = ev[c]
        /\ (Settled(c) /\ cmd'[c] = "admitted") => stream'[c] = stream[c]

RcpSteps == [][TerminalIsFinal]_vars

(* Every admitted command is settled in the journal, through lost           *)
(* connections, restarts and drains.                                        *)
AdmittedSettles == \A c \in Commands : Admitted(c) => Settled(c)

(* Every recorded stop is delivered: it is sent again on each activation    *)
(* until the node acknowledges it.                                          *)
StopsAreDelivered == \A c \in Commands : stops[c] # "recorded"
=============================================================================
