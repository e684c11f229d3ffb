------------------------------- MODULE Discord -------------------------------
(***************************************************************************)
(* The Discord surface (crates/renoa-discord): the gateway session and its  *)
(* cursor, the turns admitted from messages, the RCP connection that opens  *)
(* tasks, submits turns and applies the task records, and the deliveries    *)
(* that post the replies.  Messages are numbered in the order of the        *)
(* gateway; the command of a turn is the number of its message.             *)
(***************************************************************************)
EXTENDS Integers, Sequences, FiniteSets, SequencesExt

CONSTANTS
    Channels, Agents, DefaultAgent,
    Kinds,     \* what users post: text, empty, new (the operator's /new), other
    MaxPosts,  \* bound: messages posted
    MaxPages,  \* bound: pages of one reply
    MaxFaults, \* bound: crashes, lost connections, lost gateway sessions, rebindings
    None

DiscordAssumption ==
    /\ Kinds \subseteq {"text", "empty", "new", "other"} /\ DefaultAgent \in Agents
    /\ MaxPosts \in Nat /\ MaxPages \in Nat \ {0} /\ MaxFaults \in Nat

VARIABLES
    post, gap,   \* Discord: messages posted; those of a gateway session that was lost
    valid,       \* Discord: the stored gateway session can be resumed
    gw, cursor,  \* SocketState: down or the sequence seen; gateway: the saved sequence or None
    bound,       \* channel_bindings
    turn,        \* turns: state and task of each message
    task,        \* tasks: channel, agent, opened, current, cursor
    out,         \* deliveries in order: command, page, text, state, times posted
    link, step,  \* the RCP connection; the turn being submitted and how far
    online,      \* agents whose node is connected
    journal,     \* coordinator: the records of each task it knows
    faults

vars == <<post, gap, valid, gw, cursor, bound, turn, task, out, link, step, online, journal, faults>>
gateway == <<post, gap, valid, gw, cursor>>
coordinator == <<online, journal>>

Tasks == 1..Len(task)
Posted == 1..Len(post)
Queued == {m \in Posted : turn[m].state = "queued"}
Admitted(m) == \E t \in DOMAIN journal : \E i \in 1..Len(journal[t]) : journal[t][i] = [cmd |-> m, kind |-> "submitted"]
Idle == [at |-> "none", m |-> 0]

Init ==
    /\ post = <<>> /\ gap = {} /\ valid = FALSE /\ gw = None /\ cursor = None
    /\ bound = [c \in Channels |-> DefaultAgent]
    /\ turn = <<>> /\ task = <<>> /\ out = <<>> /\ link = "down" /\ step = Idle
    /\ online = Agents /\ journal = <<>> /\ faults = 0

Fault == faults < MaxFaults /\ faults' = faults + 1
-----------------------------------------------------------------------------
(* The gateway *)

Post(c, k) ==
    /\ Len(post) < MaxPosts
    /\ post' = Append(post, [channel |-> c, kind |-> k]) /\ turn' = Append(turn, [state |-> "none", task |-> 0])
    /\ UNCHANGED <<gap, valid, gw, cursor, bound, task, out, link, step, coordinator, faults>>

(* maintain and connect: resume the saved session, or identify when there   *)
(* is none; a session Discord no longer knows is forgotten first.           *)
Connect ==
    /\ gw = None
    /\ CASE cursor # None /\ valid -> gw' = cursor /\ UNCHANGED <<gap, valid, cursor>>
         [] cursor # None /\ ~valid -> cursor' = None /\ UNCHANGED <<gap, valid, gw>>
         [] cursor = None -> /\ gw' = Len(post) /\ cursor' = Len(post) /\ valid' = TRUE
                             /\ gap' = gap \cup {m \in Posted : turn[m].state = "none"}
    /\ UNCHANGED <<post, bound, turn, task, out, link, step, coordinator, faults>>
Disconnect ==
    /\ Fault /\ gw # None /\ gw' = None /\ valid' \in {valid, FALSE}
    /\ UNCHANGED <<post, gap, cursor, bound, turn, task, out, link, step, coordinator>>

(* current_task, new_task: the channel's conversation, with its agent.      *)
Current(c) == {t \in Tasks : task[t].channel = c /\ task[t].current}
Opening(c) == [channel |-> c, agent |-> bound[c], opened |-> FALSE, current |-> TRUE, cursor |-> 0]
NewTask(c) == Append([t \in Tasks |-> IF t \in Current(c) THEN [task[t] EXCEPT !.current = FALSE] ELSE task[t]], Opening(c))
Page(m, n, text) == [cmd |-> m, page |-> n, text |-> text, state |-> "pending", posted |-> 0]
InsertPages(m, text, n) == out \o [i \in 1..n |-> Page(m, i, text)]

(* accept: a message in a conversation that is new to the store becomes a   *)
(* turn; /new starts a conversation unless the current one is unused.       *)
Enqueue(m) ==
    LET c == post[m].channel
        fits == {t \in Current(c) : task[t].agent = bound[c]} IN
    /\ task' = IF fits = {} THEN NewTask(c) ELSE task
    /\ turn' = [turn EXCEPT ![m] = [state |-> "queued", task |-> IF fits = {} THEN Len(task) + 1 ELSE CHOOSE t \in fits : TRUE]]
    /\ UNCHANGED out
StartConversation(m) ==
    LET c == post[m].channel
        used == \E t \in Current(c) : task[t].opened \/ \E o \in Posted : turn[o].task = t IN
    /\ task' = IF used \/ \A t \in Current(c) : task[t].agent # bound[c] THEN NewTask(c) ELSE task
    /\ turn' = [turn EXCEPT ![m].state = "answered"]
    /\ out' = InsertPages(m, "new", 1)
RecordedAlready(m) == turn[m].state # "none"
Receive ==
    LET m == gw + 1 IN
    /\ gw # None /\ gw = cursor /\ gw < Len(post) /\ gw' = m
    /\ CASE RecordedAlready(m) \/ post[m].kind = "other" -> UNCHANGED <<turn, task, out>>
         [] ~RecordedAlready(m) /\ post[m].kind = "new" -> StartConversation(m)
         [] ~RecordedAlready(m) /\ post[m].kind \in {"text", "empty"} -> Enqueue(m)
    /\ UNCHANGED <<post, gap, valid, cursor, bound, link, step, coordinator, faults>>
(* persist_cursor, after the message was handled.                           *)
SaveGateway ==
    /\ gw # None /\ gw # cursor /\ cursor' = gw
    /\ UNCHANGED <<post, gap, valid, gw, bound, turn, task, out, link, step, coordinator, faults>>
-----------------------------------------------------------------------------
(* The RCP connection *)

(* serve: attach the opened tasks, then submit what is queued.              *)
ConnectRcp == link = "down" /\ link' = "up" /\ UNCHANGED <<gateway, bound, turn, task, out, step, coordinator, faults>>
DropRcp == Fault /\ link = "up" /\ link' = "down" /\ step' = Idle /\ UNCHANGED <<gateway, bound, turn, task, out, coordinator>>

AnswerLocally(m, text) ==
    /\ turn' = [turn EXCEPT ![m].state = "answered"] /\ out' = InsertPages(m, text, 1)
    /\ step' = Idle /\ UNCHANGED <<task, journal>>

(* next_queued: by length and value of the message id, that is its number.  *)
NextQueued == CHOOSE m \in Queued : \A o \in Queued : m <= o
SubmitQueued ==
    /\ link = "up" /\ step.at = "none" /\ Queued # {}
    /\ LET m == NextQueued IN
       IF post[m].kind = "empty" THEN AnswerLocally(m, "empty")
       ELSE step' = [at |-> IF task[turn[m].task].opened THEN "submit" ELSE "open", m |-> m] /\ UNCHANGED <<turn, task, out, journal>>
    /\ UNCHANGED <<gateway, bound, link, online, faults>>

(* open: the agent must be listed; a task is opened again without harm.     *)
OpenTask ==
    LET t == turn[step.m].task IN
    /\ step.at = "open" /\ link = "up"
    /\ IF task[t].agent \in online
       THEN /\ journal' = [x \in DOMAIN journal \cup {t} |-> IF x \in DOMAIN journal THEN journal[x] ELSE <<>>]
            /\ step' = [step EXCEPT !.at = "opened"] /\ UNCHANGED <<turn, task, out>>
       ELSE AnswerLocally(step.m, "offline")
    /\ UNCHANGED <<gateway, bound, link, online, faults>>
MarkOpened ==
    /\ step.at = "opened" /\ task' = [task EXCEPT ![turn[step.m].task].opened = TRUE]
    /\ step' = [step EXCEPT !.at = "submit"]
    /\ UNCHANGED <<gateway, bound, turn, out, link, coordinator, faults>>

(* submit: the coordinator knows a command it admitted before; otherwise    *)
(* the node must be connected.                                              *)
Known(m) == Admitted(m)
Submit ==
    LET m == step.m
        t == turn[m].task IN
    /\ step.at = "submit" /\ link = "up"
    /\ CASE Known(m) -> step' = [step EXCEPT !.at = "accepted"] /\ UNCHANGED <<turn, task, out, journal>>
         [] ~Known(m) /\ task[t].agent \in online ->
              /\ journal' = [journal EXCEPT ![t] = Append(@, [cmd |-> m, kind |-> "submitted"])]
              /\ step' = [step EXCEPT !.at = "accepted"] /\ UNCHANGED <<turn, task, out>>
         [] ~Known(m) /\ task[t].agent \notin online -> AnswerLocally(m, "offline")
    /\ UNCHANGED <<gateway, bound, link, online, faults>>
(* refuse: a task or a command the coordinator refuses for another reason   *)
(* (a conflict, an invalid message) is answered with that reason; its       *)
(* storage failing on the retry of an admitted command is not modelled.     *)
Refuse ==
    /\ step.at \in {"open", "submit"} /\ link = "up" /\ ~Known(step.m) /\ Fault
    /\ AnswerLocally(step.m, "refused")
    /\ UNCHANGED <<gateway, bound, link, online>>
MarkSubmitted ==
    /\ step.at = "accepted" /\ turn' = [turn EXCEPT ![step.m].state = "submitted"] /\ step' = Idle
    /\ UNCHANGED <<gateway, bound, task, out, link, coordinator, faults>>

(* apply_event and finish_reply: in one transaction with the cursor of the  *)
(* task; the pages go to the channel of the task.                           *)
AppliedCursorKept(t) == IF journal[t][task[t].cursor + 1].kind = "ended" THEN task ELSE [task EXCEPT ![t].cursor = @ + 1]
AppliedCursor(t) == [task EXCEPT ![t].cursor = @ + 1]
ApplyEvent(t) ==
    LET e == journal[t][task[t].cursor + 1] IN
    /\ link = "up" /\ step.at = "none" /\ task[t].opened /\ task[t].cursor < Len(journal[t])
    /\ task' = AppliedCursor(t)
    /\ IF e.kind = "ended"
       THEN /\ turn' = [turn EXCEPT ![e.cmd].state = "answered"]
            /\ \E n \in 1..MaxPages : out' = InsertPages(e.cmd, "reply", n)
       ELSE UNCHANGED <<turn, out>>
    /\ UNCHANGED <<gateway, bound, link, step, coordinator, faults>>

(* The coordinator and the node: a command runs and ends once.              *)
End(m) ==
    LET t == turn[m].task IN
    /\ Admitted(m) /\ ~\E i \in 1..Len(journal[t]) : journal[t][i] = [cmd |-> m, kind |-> "ended"]
    /\ task[t].agent \in online
    /\ journal' = [journal EXCEPT ![t] = Append(@, [cmd |-> m, kind |-> "ended"])]
    /\ UNCHANGED <<gateway, bound, turn, task, out, link, step, online, faults>>
NodeLeaves(a) == Fault /\ a \in online /\ online' = online \ {a} /\ UNCHANGED <<gateway, bound, turn, task, out, link, step, journal>>
NodeReturns(a) == a \notin online /\ online' = online \cup {a} /\ UNCHANGED <<gateway, bound, turn, task, out, link, step, journal, faults>>
Rebind(c, a) == Fault /\ bound[c] # a /\ bound' = [bound EXCEPT ![c] = a] /\ UNCHANGED <<gateway, turn, task, out, link, step, coordinator>>
-----------------------------------------------------------------------------
(* Deliveries *)

Earlier(d) == {e \in 1..Len(out) : out[e].cmd = out[d].cmd /\ out[e].page < out[d].page}
Outbound == {d \in 1..Len(out) : out[d].state = "pending" /\ \A e \in Earlier(d) : out[e].state = "sent"}
MarkSending ==
    /\ Outbound # {} /\ \A d \in 1..Len(out) : out[d].state # "sending"
    /\ out' = [out EXCEPT ![CHOOSE d \in Outbound : \A e \in Outbound : d <= e].state = "sending"]
    /\ UNCHANGED <<gateway, bound, turn, task, link, step, coordinator, faults>>

(* finish_delivery strands the later pages; a rate limit leaves the page    *)
(* pending.                                                                 *)
Stranded(d, o) == [e \in 1..Len(o) |-> IF o[e].cmd = o[d].cmd /\ o[e].page > o[d].page /\ o[e].state = "pending"
                                        THEN [o[e] EXCEPT !.state = "failed"] ELSE o[e]]
Deliver(d) ==
    /\ out[d].state = "sending"
    /\ \/ out' = [out EXCEPT ![d].state = "sent", ![d].posted = @ + 1] /\ UNCHANGED faults
       \/ out' = [out EXCEPT ![d].state = "pending"] /\ Fault
       \/ \E n \in 0..1 : out' = Stranded(d, [out EXCEPT ![d].state = "unknown", ![d].posted = @ + n]) /\ Fault
       \/ out' = Stranded(d, [out EXCEPT ![d].state = "failed"]) /\ Fault
    /\ UNCHANGED <<gateway, bound, turn, task, link, step, coordinator>>

(* The service dies, perhaps while a page is on its way, and starts again:  *)
(* recover cannot tell whether that page was posted.                        *)
Recovered(o) ==
    LET u == [d \in 1..Len(o) |-> IF o[d].state = "sending" THEN [o[d] EXCEPT !.state = "unknown"] ELSE o[d]] IN
    [d \in 1..Len(u) |-> IF u[d].state = "pending" /\ \E e \in Earlier(d) : u[e].state \in {"unknown", "failed"}
                         THEN [u[d] EXCEPT !.state = "failed"] ELSE u[d]]
Restart ==
    /\ Fault /\ gw' = None /\ link' = "down" /\ step' = Idle
    /\ \E n \in 0..1 : out' = Recovered([d \in 1..Len(out) |-> IF out[d].state = "sending" THEN [out[d] EXCEPT !.posted = @ + n] ELSE out[d]])
    /\ UNCHANGED <<post, gap, valid, cursor, bound, turn, task, coordinator>>

Work ==
    \/ Connect \/ Receive \/ SaveGateway \/ ConnectRcp \/ SubmitQueued \/ OpenTask \/ MarkOpened \/ Submit \/ MarkSubmitted
    \/ (\E t \in Tasks \cap DOMAIN journal : ApplyEvent(t)) \/ (\E m \in Posted : End(m))
    \/ (\E a \in Agents : NodeReturns(a)) \/ MarkSending \/ \E d \in 1..Len(out) : Deliver(d)
Next ==
    \/ (\E c \in Channels, k \in Kinds : Post(c, k)) \/ Work \/ Refuse \/ Disconnect \/ DropRcp \/ Restart
    \/ \E a \in Agents : NodeLeaves(a) \/ \E c \in Channels : Rebind(c, a)
(* All loops of the service and of the coordinator go on.                   *)
Spec == Init /\ [][Next]_vars /\ WF_vars(Work)
-----------------------------------------------------------------------------
(* Types; a channel has one current conversation.                           *)
TypeOK ==
    /\ \A c \in Channels : Cardinality(Current(c)) <= 1
    /\ step.at \in {"none", "open", "opened", "submit", "accepted"} /\ gw \in 0..Len(post) \cup {None}

(* The saved cursor never passes a message for the agent that was not       *)
(* recorded, except one of a gateway session Discord gave up.               *)
NoneSkipped ==
    cursor # None => \A m \in 1..cursor : m \in gap \/ post[m].kind = "other" \/ turn[m].state # "none"

(* Every message is answered once, and every page posted at most once,      *)
(* through crashes, redelivered messages and redelivered records.           *)
AnsweredOnce ==
    \A d, e \in 1..Len(out) : /\ out[d].posted <= 1
                              /\ out[d].cmd = out[e].cmd /\ out[d].page = out[e].page => d = e

(* A page is posted after the page before it.                               *)
PagesInOrder == \A d \in 1..Len(out) : out[d].posted > 0 => \A e \in Earlier(d) : out[e].state = "sent"

(* A user told that the message was not sent, or not accepted, was told the *)
(* truth.                                                                   *)
OfflineMeansNotSent == \A d \in 1..Len(out) : out[d].text \in {"offline", "refused"} => ~Admitted(out[d].cmd)

(* The commands of a conversation reach the coordinator in the order of     *)
(* their messages.                                                          *)
InOrder ==
    \A t \in DOMAIN journal : \A i, j \in 1..Len(journal[t]) :
        i < j /\ journal[t][i].kind = "submitted" /\ journal[t][j].kind = "submitted" => journal[t][i].cmd < journal[t][j].cmd

(* Every recorded message gets an answer, and its pages are settled.        *)
EveryoneAnswered ==
    \A m \in Posted : m \in gap \/ post[m].kind = "other"
                      \/ (turn[m].state = "answered" /\ \E d \in 1..Len(out) : out[d].cmd = m)
Settles == \A d \in 1..Len(out) : out[d].state \in {"sent", "unknown", "failed"}
==============================================================================
