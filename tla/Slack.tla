-------------------------------- MODULE Slack --------------------------------
(***************************************************************************)
(* The Slack surface (crates/renoa-slack): Socket Mode envelopes that are   *)
(* admitted and acknowledged, the worker that posts a placeholder, runs     *)
(* the turn and delivers the result (the first chunk edits the placeholder),*)
(* and stops.  Messages are numbered in the order the operator wrote them.  *)
(***************************************************************************)
EXTENDS Integers, Sequences, FiniteSets, FiniteSetsExt

CONSTANTS
    Kinds,       \* what the operator writes: prompt, new, cancel
    MaxMessages, \* bound: messages
    MaxChunks,   \* bound: chunks of a result
    MaxFaults    \* bound: crashes, lost sockets and failed calls

SlackAssumption ==
    Kinds \subseteq {"prompt", "new", "cancel"} /\ MaxMessages \in Nat /\ MaxChunks \in Nat \ {0} /\ MaxFaults \in Nat

VARIABLES
    msg,      \* Slack: the kinds of the messages written
    acked,    \* Slack: messages whose envelope was acknowledged
    envelope, \* socket: the envelope being handled: message and admitted, or 0
    req,      \* requests in order: message, state, cancel, session, target, reply and its ts
    out,      \* deliveries of each request: chunks with state and ts
    target,   \* socket: the request whose stop is still to be applied, or 0
    work,     \* worker: what it does and with which request
    active,   \* Active: the request and its token
    wake,     \* Notify: a permit
    turn,     \* the Host: how far the turn of each request is
    posts,    \* Slack: how often each request's placeholder (0) and chunks were posted
    faults

vars == <<msg, acked, envelope, req, out, target, work, active, wake, turn, posts, faults>>
socket == <<msg, acked, envelope, target>>

Requests == 1..Len(req)
NoEnvelope == [m |-> 0, stored |-> FALSE]
Idle == [at |-> "idle", r |-> 0, c |-> 0]
Nobody == [r |-> 0, stop |-> FALSE]
Fault == faults < MaxFaults /\ faults' = faults + 1

Init ==
    /\ msg = <<>> /\ acked = {} /\ envelope = NoEnvelope /\ req = <<>> /\ out = <<>> /\ target = 0
    /\ work = Idle /\ active = Nobody /\ wake = FALSE /\ turn = <<>> /\ posts = <<>> /\ faults = 0

Write(k) ==
    /\ Len(msg) < MaxMessages /\ msg' = Append(msg, k)
    /\ UNCHANGED <<acked, envelope, req, out, target, work, active, wake, turn, posts, faults>>
-----------------------------------------------------------------------------
(* The socket: Slack sends what was not acknowledged, in any order.         *)
Receive(m) ==
    /\ envelope = NoEnvelope /\ m \notin acked /\ envelope' = [m |-> m, stored |-> FALSE]
    /\ UNCHANGED <<msg, acked, req, out, target, work, active, wake, turn, posts, faults>>

(* admit_with_agent: one transaction; a message is admitted once; a stop    *)
(* takes the first turn of the conversation nobody has stopped.             *)
Stored(m) == \E r \in Requests : req[r].m = m
Stoppable == {r \in Requests : msg[req[r].m] = "prompt" /\ req[r].state \in {"queued", "running"} /\ ~req[r].cancel}
SessionOf(m) ==
    LET last == IF req = <<>> THEN 0 ELSE req[Len(req)].session IN
    IF msg[m] = "new" \/ last = 0 THEN last + 1 ELSE last
Admit(m) ==
    LET stopped == IF msg[m] = "cancel" /\ Stoppable # {} THEN Min(Stoppable) ELSE 0 IN
    /\ req' = Append([r \in Requests |-> IF r = stopped THEN [req[r] EXCEPT !.cancel = TRUE] ELSE req[r]],
                     [m |-> m, state |-> "queued", cancel |-> FALSE, session |-> SessionOf(m), target |-> stopped,
                      reply |-> "pending", ts |-> FALSE])
    /\ out' = Append(out, <<>>) /\ turn' = Append(turn, "none") /\ posts' = Append(posts, [c \in 0..MaxChunks |-> 0])
    /\ target' = stopped /\ wake' = TRUE
AdmitEnvelope ==
    LET m == envelope.m IN
    /\ m # 0 /\ ~envelope.stored /\ envelope' = [envelope EXCEPT !.stored = TRUE]
    /\ IF Stored(m) THEN UNCHANGED <<req, out, turn, posts, target, wake>> ELSE Admit(m)
    /\ UNCHANGED <<msg, acked, work, active, faults>>
CancelActive ==
    /\ target # 0 /\ target' = 0 /\ active' = IF active.r = target THEN [active EXCEPT !.stop = TRUE] ELSE active
    /\ UNCHANGED <<msg, acked, envelope, req, out, work, wake, turn, posts, faults>>
Acknowledge ==
    /\ envelope.stored /\ target = 0 /\ acked' = acked \cup {envelope.m} /\ envelope' = NoEnvelope
    /\ UNCHANGED <<msg, req, out, target, work, active, wake, turn, posts, faults>>
LoseSocket ==
    /\ Fault /\ envelope # NoEnvelope /\ target = 0 /\ envelope' = NoEnvelope
    /\ UNCHANGED <<msg, acked, req, out, target, work, active, wake, turn, posts>>
-----------------------------------------------------------------------------
(* The worker *)

(* next_delivery marks the requests without open deliveries done, then      *)
(* takes the first pending chunk whose earlier chunks were sent.            *)
Open(r) == \E c \in 1..Len(out[r]) : out[r][c].state \in {"pending", "sending"}
Finished == [r \in Requests |-> IF req[r].state = "ready" /\ ~Open(r) THEN [req[r] EXCEPT !.state = "done"] ELSE req[r]]
Sendable == {d \in (Requests \X (1..MaxChunks)) :
    /\ d[2] <= Len(out[d[1]]) /\ out[d[1]][d[2]].state = "pending" /\ \A c \in 1..(d[2] - 1) : out[d[1]][c].state = "sent"}
QueuedWork == {r \in Requests : req[r].state = "queued"}
Mark(r, c, s) == [out EXCEPT ![r][c].state = s]

Run ==
    /\ work.at = "idle"
    /\ CASE Sendable # {} ->
              \E d \in Sendable : /\ \A e \in Sendable : d[1] <= e[1]
                                  /\ out' = Mark(d[1], d[2], "sending") /\ req' = Finished
                                  /\ work' = [at |-> "send", r |-> d[1], c |-> d[2]]
         [] Sendable = {} /\ QueuedWork # {} ->
              /\ req' = [Finished EXCEPT ![Min(QueuedWork)].state = "running"]
              /\ work' = [at |-> "begin", r |-> Min(QueuedWork), c |-> 0] /\ UNCHANGED out
         [] OTHER -> req' = Finished /\ work' = [Idle EXCEPT !.at = "asleep"] /\ UNCHANGED out
    /\ UNCHANGED <<socket, active, wake, turn, posts, faults>>
Awake ==
    /\ work.at = "asleep" /\ wake /\ wake' = FALSE /\ work' = Idle
    /\ UNCHANGED <<socket, req, out, active, turn, posts, faults>>

(* execute registers the token, then reads the stored request to stop; the  *)
(* Host cancels a turn that has not begun.                                  *)
Execute ==
    /\ work.at = "begin" /\ active' = [r |-> work.r, stop |-> FALSE] /\ work' = [work EXCEPT !.at = "registered"]
    /\ UNCHANGED <<socket, req, out, wake, turn, posts, faults>>
Cancelled == [active EXCEPT !.stop = @ \/ req[work.r].cancel]
IsPrompt == msg[req[work.r].m] = "prompt"
CancelBeforeStart == turn' = [turn EXCEPT ![work.r] = "stopped"] /\ work' = [work EXCEPT !.at = "ended"]
ExecuteRegistered ==
    /\ work.at = "registered" /\ active' = Cancelled
    /\ IF IsPrompt /\ Cancelled.stop /\ turn[work.r] = "none" THEN CancelBeforeStart
       ELSE work' = [work EXCEPT !.at = IF req[work.r].reply = "pending" THEN "reply" ELSE "replied"] /\ UNCHANGED turn
    /\ UNCHANGED <<socket, req, out, wake, posts, faults>>

(* start_reply posts the placeholder; sending is recorded first.            *)
Reply(s, known) == [req EXCEPT ![work.r].reply = s, ![work.r].ts = known]
PostedMessage(c) == [posts EXCEPT ![work.r][c] = @ + 1]
StartReply ==
    /\ work.at = "reply"
    /\ IF active.stop THEN work' = [work EXCEPT !.at = "replied"] /\ UNCHANGED req
       ELSE req' = Reply("sending", FALSE) /\ work' = [work EXCEPT !.at = "posting"]
    /\ UNCHANGED <<socket, out, active, wake, turn, posts, faults>>
ReplyEnds ==
    /\ work.at = "posting"
    /\ \/ req' = Reply("known", TRUE) /\ posts' = PostedMessage(0) /\ work' = [work EXCEPT !.at = "replied"] /\ UNCHANGED faults
       \/ req' = Reply("pending", FALSE) /\ work' = [work EXCEPT !.at = "reply"] /\ Fault /\ UNCHANGED posts
       \/ req' = Reply("failed", FALSE) /\ work' = [work EXCEPT !.at = "replied"] /\ Fault /\ UNCHANGED posts
       \/ req' = Reply("unknown", FALSE) /\ work' = [work EXCEPT !.at = "replied"] /\ Fault /\ posts' \in {posts, PostedMessage(0)}
    /\ UNCHANGED <<socket, out, active, wake, turn>>

ExecuteModel ==
    /\ work.at = "replied"
    /\ CASE ~IsPrompt -> work' = [work EXCEPT !.at = "ended"] /\ UNCHANGED turn
         [] IsPrompt /\ active.stop /\ turn[work.r] = "none" -> CancelBeforeStart
         [] IsPrompt /\ (~active.stop \/ turn[work.r] # "none") ->
              /\ turn' = [turn EXCEPT ![work.r] = IF @ = "none" THEN "started" ELSE @] /\ work' = [work EXCEPT !.at = "run"]
    /\ UNCHANGED <<socket, req, out, active, wake, posts, faults>>
(* A turn of the Host ends once, stopped when asked to.                     *)
TurnEnds ==
    /\ work.at = "run" /\ work' = [work EXCEPT !.at = "ended"]
    /\ turn' = [turn EXCEPT ![work.r] = CASE @ # "started" -> @ [] @ = "started" /\ active.stop -> "stopped" [] OTHER -> "completed"]
    /\ UNCHANGED <<socket, req, out, active, wake, posts, faults>>

(* finish: the first chunk edits the placeholder when it is known.          *)
FirstTs(c) == c = 1 /\ req[work.r].ts
Finish ==
    /\ work.at = "ended" /\ active' = Nobody /\ work' = Idle
    /\ \E n \in 1..MaxChunks : out' = [out EXCEPT ![work.r] = [c \in 1..n |-> [state |-> "pending", ts |-> FirstTs(c)]]]
    /\ req' = [req EXCEPT ![work.r].state = "ready"]
    /\ UNCHANGED <<socket, wake, turn, posts, faults>>

(* deliver: an edit whose answer is lost is repeated, a post is not.        *)
AfterLostPosted(ts) == "pending"
AfterLost(ts) == IF ts THEN "pending" ELSE "unknown"
Deliver ==
    LET r == work.r
        c == work.c
        ts == out[r][c].ts
        new == IF ts THEN posts ELSE PostedMessage(c) IN
    /\ work.at = "send" /\ work' = Idle
    /\ \/ out' = [out EXCEPT ![r][c] = [state |-> "sent", ts |-> TRUE]] /\ posts' = new /\ UNCHANGED faults
       \/ out' = Mark(r, c, "pending") /\ Fault /\ UNCHANGED posts
       \/ out' = Mark(r, c, "failed") /\ Fault /\ UNCHANGED posts
       \/ out' = Mark(r, c, AfterLost(ts)) /\ Fault /\ posts' \in {posts, new}
    /\ UNCHANGED <<socket, req, active, wake, turn>>

(* The service dies and opens its store again.                              *)
Reopened(r) ==
    [req[r] EXCEPT !.state = IF @ = "running" THEN "queued" ELSE @, !.reply = IF @ = "sending" THEN "unknown" ELSE @]
Restart ==
    /\ Fault
    /\ posts' \in {posts} \cup (CASE work.at = "posting" -> {PostedMessage(0)}
                              [] work.at = "send" /\ ~out[work.r][work.c].ts -> {PostedMessage(work.c)} [] OTHER -> {})
    /\ req' = [r \in Requests |-> Reopened(r)]
    /\ out' = [r \in Requests |-> [c \in 1..Len(out[r]) |->
                  IF out[r][c].state = "sending" THEN [out[r][c] EXCEPT !.state = AfterLost(out[r][c].ts)] ELSE out[r][c]]]
    /\ envelope' = NoEnvelope /\ target' = 0 /\ work' = Idle /\ active' = Nobody /\ wake' = FALSE
    /\ UNCHANGED <<msg, acked, turn>>

Worker ==
    \/ Run \/ Awake \/ Execute \/ ExecuteRegistered \/ StartReply \/ ReplyEnds \/ ExecuteModel \/ TurnEnds
    \/ Finish \/ Deliver
Socket == (\E m \in 1..Len(msg) : Receive(m)) \/ AdmitEnvelope \/ CancelActive \/ Acknowledge
Next == (\E k \in Kinds : Write(k)) \/ Socket \/ Worker \/ LoseSocket \/ Restart
(* The two tasks go on.                                                     *)
Spec == Init /\ [][Next]_vars /\ WF_vars(Worker) /\ WF_vars(Socket)
-----------------------------------------------------------------------------
(* Types; a message has one request, and the worker holds the running one.  *)
TypeOK ==
    /\ \A r, q \in Requests : req[r].m = req[q].m => r = q
    /\ \A r \in Requests : req[r].state = "running" => work.r = r

(* Slack forgets an acknowledged message: it is stored by then.             *)
AcknowledgedIsStored == \A m \in acked : Stored(m)

(* A turn whose stop was requested runs with a cancelled token once the     *)
(* socket has applied the request.                                          *)
StopReaches ==
    work.at = "run" /\ req[work.r].cancel /\ target # work.r => active = [r |-> work.r, stop |-> TRUE]

(* Every stop takes a turn of its own.                                      *)
StopsDiffer == \A r, q \in Requests : req[r].target # 0 /\ req[r].target = req[q].target => r = q

(* No message of the surface is posted twice, though edits are repeated.    *)
PostedOnce == \A r \in Requests, c \in 0..MaxChunks : posts[r][c] <= 1

(* Every message is answered, or a chunk of the answer is known to have     *)
(* failed or to be in doubt.                                                *)
EveryoneAnswered ==
    /\ \A m \in 1..Len(msg) : Stored(m)
    /\ \A r \in Requests :
         /\ req[r].state \in {"ready", "done"}
         /\ (req[r].state = "done" \/ \E c \in 1..Len(out[r]) : out[r][c].state \in {"failed", "unknown"})
==============================================================================
