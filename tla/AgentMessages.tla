---------------------------- MODULE AgentMessages ----------------------------
(***************************************************************************)
(* Messages between the agents of one owner: the message_agent tool of a    *)
(* turn (crates/renoa-local host/peers), the call over the node's link      *)
(* (crates/renoa-node agent_link) and the coordinator's admission of the    *)
(* message and of the answer (crates/renoa-control agent_messages,          *)
(* agent_replies).  Identities are derived: a message's from the command    *)
(* that sends it and the tool call, an answer's from the message, so an id  *)
(* is the sequence of its derivation.                                       *)
(***************************************************************************)
EXTENDS Integers, Sequences, FiniteSets

CONSTANTS
    Agents, NodeOf, OwnerOf, \* the node of an agent, the owner of a node (None: nobody)
    Roots,      \* commands the owners submit
    Calls,      \* tool calls of a turn
    Names,      \* names agents go by
    MaxDepth,   \* MAX_CHAIN_DEPTH
    MaxFaults,  \* bound: crashes, disconnections, renamings and deletions
    None

AgentMessagesAssumption ==
    /\ MaxDepth \in Nat \ {0} /\ MaxFaults \in Nat
    /\ DOMAIN NodeOf = Agents /\ \A a \in Agents : NodeOf[a] \in DOMAIN OwnerOf
    /\ "reply" \notin Calls \* derived under different labels

VARIABLES
    commands,  \* commands: id -> agent, task, kind, depth
    unsettled, \* command_states: not settled
    started,   \* executions running at a node
    online,    \* CoordinatorState::nodes
    name,      \* the name on the card of each agent
    call,      \* tool calls: id -> step, name asked for, agent resolved
    ran,       \* host_node_executions that ended: the agent and the command
    reused,    \* history: identities admitted after their command was deleted
    faults

vars == <<commands, unsettled, started, online, name, call, ran, reused, faults>>

Nodes == DOMAIN OwnerOf
Ids == DOMAIN commands
Asker(id) == SubSeq(id, 1, Len(id) - 1)
ReplyId(id) == Append(id, "reply")
Ran(id) == \E a \in Agents : <<a, id>> \in ran
Anew(id) == IF Ran(id) THEN {id} ELSE {}
Thread(from, to) == <<"thread", from, to>>
With(f, id, v) == [x \in DOMAIN f \cup {id} |-> IF x = id THEN v ELSE f[x]]
Without(f, gone) == [x \in DOMAIN f \ gone |-> f[x]]

Init ==
    /\ commands = <<>> /\ call = <<>> /\ unsettled = {} /\ started = {} /\ online = Nodes
    /\ name \in [Agents -> Names] /\ ran = {} /\ reused = {} /\ faults = 0

Fault == faults < MaxFaults /\ faults' = faults + 1
-----------------------------------------------------------------------------
(* The owner's commands and the executions *)

Submit(r, a) ==
    /\ \A id \in Ids : id[1] # r
    /\ \A id \in DOMAIN call : id[1] # r \* a new command id
    /\ \A e \in ran : e[2][1] # r
    /\ commands' = With(commands, <<r>>, [agent |-> a, task |-> <<"owner", a>>, kind |-> "owner", depth |-> 0])
    /\ unsettled' = unsettled \cup {<<r>>}
    /\ UNCHANGED <<started, online, name, call, ran, reused, faults>>

(* NodeStore::admit: an execution the node already holds does not run       *)
(* again.                                                                   *)
Held(id) == \E a \in Agents : NodeOf[a] = NodeOf[commands[id].agent] /\ <<a, id>> \in ran
Start(id) ==
    /\ id \in unsettled \ started /\ NodeOf[commands[id].agent] \in online /\ ~Held(id)
    /\ started' = started \cup {id}
    /\ UNCHANGED <<commands, unsettled, online, name, call, ran, reused, faults>>

(* admit_reply, in the transaction of the terminal event: a request is      *)
(* answered in the conversation that asked, when that still exists; an      *)
(* answer is not.                                                           *)
ExpectsReply(id) == commands[id].kind = "request"
ReplyDepth(id) == commands[id].depth + 1
Answerable(id) == ExpectsReply(id) /\ Asker(id) \in Ids
AdmitReply(id, kind) ==
    IF Answerable(id)
    THEN LET asker == commands[Asker(id)] IN
         With(commands, ReplyId(id), [agent |-> asker.agent, task |-> asker.task, kind |-> kind, depth |-> ReplyDepth(id)])
    ELSE commands
Returned(id) ==
    \A k \in Calls : Append(id, k) \in DOMAIN call => call[Append(id, k)].step \in {"sent", "nothing", "unresolved", "unknown"}
Finish(id, kind) ==
    /\ id \in started /\ NodeOf[commands[id].agent] \in online /\ Returned(id)
    /\ Answerable(id) => ReplyId(id) \notin Ids
    /\ commands' = AdmitReply(id, kind)
    /\ unsettled' = (unsettled \ {id}) \cup (DOMAIN commands' \ Ids)
    /\ started' = started \ {id}
    /\ ran' = ran \cup {<<commands[id].agent, id>>}
    /\ reused' = IF Answerable(id) THEN reused \cup Anew(ReplyId(id)) ELSE reused
    /\ UNCHANGED <<online, name, call, faults>>
-----------------------------------------------------------------------------
(* The tool *)

(* roster and resolve: the connected agents of the owner, but not itself,   *)
(* by name.  A list that cannot be fetched, or a refusal, is reported as    *)
(* nothing sent.                                                            *)
Named(a, n) == {b \in Agents \ {a} : name[b] = n /\ NodeOf[b] \in online /\ OwnerOf[NodeOf[b]] = OwnerOf[NodeOf[a]]}

(* A call names an agent; after a crash the same call runs again.           *)
Resolve(id, k, n) ==
    LET m == Append(id, k)
        from == commands[id].agent
        found == Named(from, n) IN
    /\ id \in started
    /\ IF m \in DOMAIN call THEN call[m].step = "again" /\ n = call[m].name ELSE TRUE
    /\ IF NodeOf[from] \in online /\ Cardinality(found) = 1
       THEN \E to \in found : call' = With(call, m, [step |-> "resolved", name |-> n, to |-> to])
       ELSE call' = With(call, m, [step |-> IF NodeOf[from] \in online THEN "unresolved" ELSE "nothing", name |-> n, to |-> None])
    /\ UNCHANGED <<commands, unsettled, started, online, name, ran, reused, faults>>

(* admit_in: what the coordinator answers to a message, and the command it  *)
(* admits.  It knows a message by its command: once the thread is deleted,  *)
(* the same message is a new one.                                           *)
MessageDepth(m) == commands[Asker(m)].depth + 1
Allowed(m, to) ==
    LET from == commands[Asker(m)].agent IN
    /\ OwnerOf[NodeOf[from]] # None /\ OwnerOf[NodeOf[to]] = OwnerOf[NodeOf[from]]
    /\ from # to /\ MessageDepth(m) <= MaxDepth
SameMessage(m, to) == commands[m].agent = to /\ commands[m].task = Thread(commands[Asker(m)].agent, to)
Admit(m) ==
    LET to == call[m].to
        fresh == Allowed(m, to) /\ m \notin Ids /\ NodeOf[to] \in online IN
    /\ call[m].step = "resolved" /\ NodeOf[commands[Asker(m)].agent] \in online
    /\ IF fresh
       THEN /\ commands' = With(commands, m, [agent |-> to, task |-> Thread(commands[Asker(m)].agent, to),
                                                kind |-> "request", depth |-> MessageDepth(m)])
            /\ unsettled' = unsettled \cup {m} /\ reused' = reused \cup Anew(m)
       ELSE UNCHANGED <<commands, unsettled, reused>>
    /\ call' = [call EXCEPT ![m].step =
                    IF fresh \/ (Allowed(m, to) /\ m \in Ids /\ SameMessage(m, to)) THEN "accepted" ELSE "refused"]
    /\ UNCHANGED <<started, online, name, ran, faults>>

(* The answer arrives, or the tool stops waiting: it cannot tell whether    *)
(* the message was delivered.                                               *)
Answered(m) ==
    /\ call[m].step \in {"accepted", "refused"} /\ NodeOf[commands[Asker(m)].agent] \in online
    /\ call' = [call EXCEPT ![m].step = IF @ = "accepted" THEN "sent" ELSE "nothing"]
    /\ UNCHANGED <<commands, unsettled, started, online, name, ran, reused, faults>>
NoAnswer(m) ==
    /\ call[m].step \in {"resolved", "accepted", "refused"}
    /\ Fault /\ call' = [call EXCEPT ![m].step = "unknown"]
    /\ UNCHANGED <<commands, unsettled, started, online, name, ran, reused>>
-----------------------------------------------------------------------------
(* Faults *)

(* A node dies and comes back: calls without a result run again, and the    *)
(* requests it had under way are lost or were admitted.                     *)
Dies(n) ==
    call' = [m \in DOMAIN call |->
               IF Asker(m) \in started /\ NodeOf[commands[Asker(m)].agent] = n /\ call[m].step \in {"resolved", "accepted", "refused"}
               THEN [call[m] EXCEPT !.step = "again"] ELSE call[m]]
Crash(n) == Fault /\ n \in online /\ Dies(n) /\ UNCHANGED <<commands, unsettled, started, online, name, ran, reused>>

(* What stops a node that meets an identity again: a command that conflicts *)
(* with the execution it holds, or an ending the coordinator rejects        *)
(* because the answer's identity is taken.                                  *)
Refused(id) ==
    LET n == NodeOf[commands[id].agent] IN
    /\ n \in online
    /\ \/ id \in unsettled \ started /\ Held(id)
       \/ id \in started /\ Returned(id) /\ Answerable(id) /\ ReplyId(id) \in Ids
    /\ Dies(n) /\ online' = online \ {n}
    /\ UNCHANGED <<commands, unsettled, started, name, ran, reused, faults>>
Disconnect(n) ==
    Fault /\ n \in online /\ online' = online \ {n} /\ UNCHANGED <<commands, unsettled, started, name, call, ran, reused>>
Connect(n) ==
    n \notin online /\ online' = online \cup {n} /\ UNCHANGED <<commands, unsettled, started, name, call, ran, reused, faults>>
Rename(a, n) ==
    Fault /\ name[a] # n /\ name' = [name EXCEPT ![a] = n] /\ UNCHANGED <<commands, unsettled, started, online, call, ran, reused>>

(* An owner deletes a task that has nothing in flight: a conversation of    *)
(* theirs, or a thread between two agents.                                  *)
Tasks == {commands[id].task : id \in Ids}
DeleteTask(t) ==
    LET gone == {id \in Ids : commands[id].task = t} IN
    /\ Fault /\ gone \cap unsettled = {}
    /\ commands' = Without(commands, gone)
    /\ UNCHANGED <<unsettled, started, online, name, call, ran, reused>>

Next ==
    \/ \E a \in Agents : (\E r \in Roots : Submit(r, a)) \/ \E n \in Names : Rename(a, n)
    \/ \E t \in Tasks : DeleteTask(t)
    \/ \E id \in unsettled : Start(id) \/ Refused(id) \/ \E kind \in {"reply", "failure"} : Finish(id, kind)
    \/ \E id \in started, k \in Calls, n \in Names : Resolve(id, k, n)
    \/ \E m \in DOMAIN call : Admit(m) \/ Answered(m) \/ NoAnswer(m)
    \/ \E n \in Nodes : Crash(n) \/ Disconnect(n) \/ Connect(n)
(* Nodes reconnect with backoff, executions and calls go on.                *)
Progress ==
    \/ \E n \in Nodes : Connect(n)
    \/ \E id \in unsettled : Start(id) \/ \E kind \in {"reply", "failure"} : Finish(id, kind)
    \/ \E id \in started, k \in Calls, n \in Names : Append(id, k) \in DOMAIN call /\ Resolve(id, k, n)
    \/ \E m \in DOMAIN call : Admit(m) \/ Answered(m)
Spec == Init /\ [][Next]_vars /\ WF_vars(Progress)
-----------------------------------------------------------------------------
(* Types; only commands that are still to be settled run.                   *)
TypeOK ==
    /\ unsettled \subseteq Ids /\ started \subseteq unsettled
    /\ \A id \in Ids : commands[id].kind \in {"owner", "request", "reply", "failure"} /\ commands[id].agent \in Agents

(* One command of an owner sets off a bounded exchange: agents that answer  *)
(* and ask each other again run into the depth limit.                       *)
ChainEnds == \A id \in Ids : Len(id) <= MaxDepth + 2 /\ commands[id].depth = Len(id) - 1

(* A request that ended was answered in the conversation that asked, unless *)
(* that was deleted, also when it failed.                                   *)
RequestAnswered ==
    \A m \in Ids \ unsettled :
        commands[m].kind = "request" /\ Asker(m) \in Ids \ reused => ReplyId(m) \in Ids

(* A tool told that its message was sent knows who has it: over crashes,    *)
(* renamings, deletions and repetition, the command is there for that       *)
(* agent, or that agent has ended it.                                       *)
SentMeansDelivered ==
    \A m \in DOMAIN call : call[m].step = "sent" =>
        (m \in Ids /\ commands[m].agent = call[m].to) \/ <<call[m].to, m>> \in ran

MessagesSafe == TypeOK /\ ChainEnds /\ RequestAnswered /\ SentMeansDelivered

(* Everything the agents set off ends, unless a deleted message was sent    *)
(* again: its node holds it as ended, or its answer collides.               *)
ExchangeEnds == reused = {} => unsettled = {}
==============================================================================
