------------------------------ MODULE AgentLink ------------------------------
(***************************************************************************)
(* The requests a node makes of its coordinator (crates/renoa-node          *)
(* agent_link): callers queue a request on the link of the current session, *)
(* the session numbers it and remembers who waits, the answer is handed to  *)
(* that caller.  A caller waits for a limited time; a session ends with its *)
(* queue and its waiters.                                                   *)
(***************************************************************************)
EXTENDS Integers, Sequences, FiniteSets

CONSTANTS
    Callers,
    Queue,             \* QUEUE: capacity of the channel
    MaxSessions, MaxCalls, \* bounds: sessions, one after the other; calls of one caller
    None

AgentLinkAssumption == Queue \in Nat \ {0} /\ MaxCalls \in Nat /\ MaxSessions \in Nat

VARIABLES
    current,  \* AgentLink::session: the open session, or 0
    opened,   \* sessions opened so far
    queue,    \* Request channel: the calls put into it
    waiting,  \* LinkSession::waiting: number -> call, of the current session
    next,     \* LinkSession::next
    toCoord, toNode, \* requests and answers of the connection; in order
    caller,   \* per caller: step, call, session it uses, answer got
    broken    \* answer() met a number nobody waits for: NodeError::Protocol

vars == <<current, opened, queue, waiting, next, toCoord, toNode, caller, broken>>
wire == <<queue, waiting, next, toCoord, toNode>>

Init ==
    /\ current = 0 /\ opened = 0 /\ queue = <<>> /\ waiting = <<>> /\ next = 1
    /\ toCoord = <<>> /\ toNode = <<>> /\ broken = FALSE
    /\ caller = [c \in Callers |-> [step |-> "idle", call |-> 0, session |-> 0, answer |-> None]]

Ident(c) == [by |-> c, call |-> caller[c].call]
Closed(r) == caller[r.by].call # r.call \/ caller[r.by].step # "waiting"

(* AgentLink::open: a session with an empty queue.                          *)
Open ==
    /\ current = 0 /\ opened < MaxSessions
    /\ opened' = opened + 1 /\ current' = opened + 1
    /\ queue' = <<>> /\ waiting' = <<>> /\ next' = 1 /\ toCoord' = <<>> /\ toNode' = <<>>
    /\ UNCHANGED <<caller, broken>>

(* call: take the sender, put the request in, wait.                         *)
Call(c) ==
    /\ caller[c].step = "idle" /\ caller[c].call < MaxCalls
    /\ caller' = [caller EXCEPT ![c] = [step |-> IF current = 0 THEN "idle" ELSE "sending", call |-> @.call + 1, session |-> current, answer |-> None]]
    /\ UNCHANGED <<current, opened, wire, broken>>
Enqueue(c) ==
    /\ caller[c].step = "sending" /\ caller[c].session = current /\ Len(queue) < Queue
    /\ queue' = Append(queue, Ident(c))
    /\ caller' = [caller EXCEPT ![c].step = "waiting"]
    /\ UNCHANGED <<current, opened, waiting, next, toCoord, toNode, broken>>
(* The channel or the answer's sender is gone with its session.             *)
Dropped(c) ==
    /\ caller[c].step \in {"sending", "waiting"} /\ caller[c].session # current
    /\ caller' = [caller EXCEPT ![c].step = "idle"]
    /\ UNCHANGED <<current, opened, wire, broken>>
TimedOut(c) ==
    /\ caller[c].step = "waiting"
    /\ caller' = [caller EXCEPT ![c].step = "idle"]
    /\ UNCHANGED <<current, opened, wire, broken>>

(* next_message: the requests of callers that gave up are skipped.          *)
NextMessage ==
    /\ current # 0 /\ queue # <<>> /\ queue' = Tail(queue)
    /\ IF Closed(Head(queue)) THEN UNCHANGED <<waiting, next, toCoord>>
       ELSE /\ waiting' = [n \in DOMAIN waiting \cup {next} |-> IF n = next THEN Head(queue) ELSE waiting[n]]
            /\ next' = next + 1
            /\ toCoord' = Append(toCoord, [number |-> next, asked |-> Head(queue)])
    /\ UNCHANGED <<current, opened, toNode, caller, broken>>

(* The coordinator answers each request of the connection once, in turn.    *)
Coordinator ==
    /\ toCoord # <<>> /\ toCoord' = Tail(toCoord) /\ toNode' = Append(toNode, Head(toCoord))
    /\ UNCHANGED <<current, opened, queue, waiting, next, caller, broken>>

(* answer: the waiter leaves the table, and gets the answer if it is still  *)
(* there.                                                                   *)
WaiterOfOldest(n) == CHOOSE k \in DOMAIN waiting : \A j \in DOMAIN waiting : j <= k
WaiterOf(n) == n
AnswerKnown(n) == n \in DOMAIN waiting /\ waiting' = [k \in DOMAIN waiting \ {n} |-> waiting[k]]
Answer ==
    /\ current # 0 /\ toNode # <<>> /\ toNode' = Tail(toNode)
    /\ LET n == Head(toNode).number IN
       IF n \in DOMAIN waiting
       THEN LET r == waiting[WaiterOf(n)] IN
            /\ AnswerKnown(n)
            /\ IF Closed(r) THEN UNCHANGED caller
               ELSE caller' = [caller EXCEPT ![r.by].step = "answered", ![r.by].answer = Head(toNode).asked]
            /\ UNCHANGED broken
       ELSE broken' = TRUE /\ UNCHANGED <<waiting, caller>>
    /\ UNCHANGED <<current, opened, queue, next, toCoord>>
Return(c) ==
    /\ caller[c].step = "answered" /\ caller' = [caller EXCEPT ![c].step = "idle", ![c].answer = None]
    /\ UNCHANGED <<current, opened, wire, broken>>

(* Drop of LinkSession, with the connection.                                *)
Close ==
    /\ current # 0 /\ current' = 0
    /\ queue' = <<>> /\ waiting' = <<>> /\ toCoord' = <<>> /\ toNode' = <<>>
    /\ UNCHANGED <<opened, next, caller, broken>>

Next ==
    \/ Open \/ NextMessage \/ Coordinator \/ Answer \/ Close
    \/ \E c \in Callers : Call(c) \/ Enqueue(c) \/ Dropped(c) \/ TimedOut(c) \/ Return(c)
Fairness ==
    /\ WF_vars(NextMessage)
    /\ \A c \in Callers : WF_vars(Enqueue(c)) /\ WF_vars(Dropped(c)) /\ WF_vars(TimedOut(c)) /\ WF_vars(Return(c))
Spec == Init /\ [][Next]_vars /\ Fairness
-----------------------------------------------------------------------------
(* The channel keeps its capacity, and a number is waited for at most once. *)
TypeOK == Len(queue) <= Queue /\ \A m, n \in DOMAIN waiting : waiting[m] = waiting[n] => m = n

(* A caller gets the answer to the request it waits for, although callers   *)
(* give up, ask again and answers come late.                                *)
OwnAnswer == \A c \in Callers : caller[c].step = "answered" => caller[c].answer = Ident(c)

(* A late answer is no protocol error: the node does not drop a healthy     *)
(* connection for it.                                                       *)
NeverBroken == ~broken

(* A caller is never left hanging.                                          *)
CallsEnd == \A c \in Callers : caller[c].step = "idle"
==============================================================================
