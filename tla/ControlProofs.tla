---------------------------- MODULE ControlProofs -----------------------------
(***************************************************************************)
(* Proofs about the control plane: the messages and calls that cross it,   *)
(* the access of browsers, devices and relays, and the wakes of phones.    *)
(* The components share neither constants nor variables, so each is an     *)
(* instance over its own.                                                  *)
(***************************************************************************)
EXTENDS Integers, Sequences, FiniteSets, FiniteSetTheorems, SequenceTheorems, TLAPS

CONSTANTS None,
    Agents, NodeOf, OwnerOf, Roots, MessageCalls, Names, MaxDepth, MessageMaxFaults, Callers,
    Queue, MaxSessions, MaxCalls, SurfaceCalls, HostNodes, MaxConns, MaxSlots, Boots, Clients,
    BrowserKeys, Pairs, Nonces, CeremonyLife, SessionLife, TicketLife, MaxCeremonies, MaxTickets,
    BrowserMaxTime, DeviceIds, DeviceKeys, Conns, Notices, MaxDevices, MaxCreds, RelayNodes,
    RelayIds, Secrets, Results, ByState, PerDevice, Total, Life, RelayMaxTime, Readers, ShareTickets,
    Parts, MaxVersion, Devices, Tokens, PushRequests, MaxInFlight, MaxGen, PushMaxFaults,
    MaxChanges, Senders, MaxAttempts, RejectionHold, UnavailableHold, FcmMaxTime, MaxIssued

VARIABLES
    commands, unsettled, started, online, name, messageCall, ran, reused, messageFaults, current, opened, queue,
    waiting, next, linkToCoord, linkToNode, caller, broken, hostConn, open, count, serves,
    hostCall, pending, hostToNode, running, hostToCoord, surface, browserNow, boot, cer, client,
    passkey, signed, session, pairing, browserTicket, browserAsking, browserIssued, entered, ended,
    used, grants, dev, creds, deviceConn, lock, sessions, ending, left, noticeKey, notice, relayNow,
    relayRevoked, relay, answered, seen, file, shareTicket, page, gen, ring, settled, token, known,
    feed, pc, arg, covered, sending, pace, notified, timer, pushAsking, pushFaults, changes, told,
    rung, since, fcmNow, fcmIssued, cached, fresh, failed, holder, send, fcmRevoked

Messages == INSTANCE AgentMessages WITH
    Calls <- MessageCalls, MaxFaults <- MessageMaxFaults, call <- messageCall,
    faults <- messageFaults
Link == INSTANCE AgentLink WITH
    toCoord <- linkToCoord, toNode <- linkToNode
HostLink == INSTANCE HostCalls WITH
    Calls <- SurfaceCalls, Nodes <- HostNodes, conn <- hostConn, call <- hostCall,
    toNode <- hostToNode, toCoord <- hostToCoord
Browsers == INSTANCE BrowserAccess WITH
    Keys <- BrowserKeys, MaxTime <- BrowserMaxTime, now <- browserNow, ticket <- browserTicket,
    asking <- browserAsking, issued <- browserIssued
Holders == INSTANCE Devices WITH
    Ids <- DeviceIds, Keys <- DeviceKeys, conn <- deviceConn
Relayed == INSTANCE Relays WITH
    Nodes <- RelayNodes, Ids <- RelayIds, MaxTime <- RelayMaxTime, now <- relayNow,
    revoked <- relayRevoked
Shares == INSTANCE SharePage WITH
    Tickets <- ShareTickets, ticket <- shareTicket
Wakes == INSTANCE Push WITH
    Requests <- PushRequests, MaxFaults <- PushMaxFaults, asking <- pushAsking,
    faults <- pushFaults
Fcm == INSTANCE FcmAccess WITH
    MaxTime <- FcmMaxTime, now <- fcmNow, issued <- fcmIssued, revoked <- fcmRevoked
-----------------------------------------------------------------------------
(* Proof that exchanges between agents end and are answered *)

(* What the module counts with is what the theorems about finite sets are  *)
(* about; so for each of the components below.                              *)
LEMMA MessageCounts == \A S : Cardinality(S) = Messages!Cardinality(S) /\ (IsFiniteSet(S) <=> Messages!IsFiniteSet(S))
  BY DEF Cardinality, Messages!Cardinality, IsFiniteSet, Messages!IsFiniteSet

Tags == Roots \cup MessageCalls \cup {"reply"}
Chains == {s \in Seq(Tags) : s # <<>>}
End(s) == s[Len(s)]

(* What a command is can be read from its identity.                         *)
Fits(id, c) ==
    /\ c.agent \in Agents /\ c.depth = Len(id) - 1 /\ c.kind \in {"owner", "request", "reply", "failure"}
    /\ c.kind = "owner" <=> Len(id) = 1
    /\ c.kind = "request" => End(id) \in MessageCalls /\ Len(id) <= MaxDepth + 1
    /\ c.kind \in {"reply", "failure"} => End(id) = "reply" /\ Len(id) <= MaxDepth + 2

(* What asked was a command once: it still is, or a node has ended it.  So  *)
(* an identity that comes to be a command under an older request or answer  *)
(* is one that is reused.                                                   *)
Ever(id) == id \in Messages!Ids \/ Messages!Ran(id)
IsRequest(id) == commands[id].kind = "request"
Answers(id) == commands[id].kind \in {"reply", "failure"}
Threads ==
    /\ unsettled \subseteq Messages!Ids /\ Messages!Ids \subseteq Chains
    /\ \A id \in Messages!Ids : Fits(id, commands[id])
    /\ \A id \in Messages!Ids \ unsettled : <<commands[id].agent, id>> \in ran
    /\ \A id \in Messages!Ids : IsRequest(id) => Ever(Messages!Asker(id))
    /\ \A id \in Messages!Ids : Answers(id) => Ever(Messages!Asker(Messages!Asker(id)))
    /\ \A id \in Messages!Ids : Answers(id) /\ Messages!Asker(Messages!Asker(id)) \in Messages!Ids \ reused
          => commands[id].task = commands[Messages!Asker(Messages!Asker(id))].task
    /\ Messages!RequestAnswered

(* A tool call that is under way is made by a running command, and a        *)
(* message that was accepted is with its agent or was ended by it.          *)
CallSteps == {"resolved", "unresolved", "nothing", "accepted", "refused", "sent", "unknown", "again"}
CallRows == [step : CallSteps, name : Names, to : Agents \cup {None}]
Delivered(m, to) == (m \in Messages!Ids /\ commands[m].agent = to) \/ <<to, m>> \in ran
MessageMade(m) ==
    /\ m \in Chains /\ Len(m) # 1 /\ End(m) \in MessageCalls /\ messageCall[m] \in CallRows
    /\ messageCall[m].step \in {"resolved", "accepted", "refused", "again"} => Messages!Asker(m) \in started
    /\ messageCall[m].step = "resolved" => messageCall[m].to \in Agents
    /\ messageCall[m].step \in {"accepted", "sent"} => Delivered(m, messageCall[m].to)
ToolCalls ==
    /\ started \subseteq unsettled
    /\ \A m \in DOMAIN messageCall : MessageMade(m)

MessagesInv == Threads /\ ToolCalls

LEMMA DerivedId ==
    ASSUME NEW id \in Chains, NEW k \in Tags
    PROVE  /\ Append(id, k) \in Chains /\ Len(Append(id, k)) = Len(id) + 1 /\ Messages!Asker(Append(id, k)) = id
           /\ End(Append(id, k)) = k /\ Append(id, k)[1] = id[1] /\ Len(id) \in Nat \ {0}
  <1>1. id \in Seq(Tags) /\ id # <<>> /\ Len(id) \in Nat /\ Len(id) # 0
    BY EmptySeq DEF Chains
  <1>2. /\ Append(id, k) \in Seq(Tags) /\ Append(id, k) # <<>> /\ Len(Append(id, k)) = Len(id) + 1
        /\ \A i \in 1..Len(id) : Append(id, k)[i] = id[i]
        /\ Append(id, k)[Len(id) + 1] = k
    BY <1>1, AppendProperties
  <1>3. SubSeq(Append(id, k), 1, Len(id)) = id
    BY <1>1, <1>2
  <1> QED BY <1>1, <1>2, <1>3 DEF Chains, Messages!Asker, End

LEMMA RootId == ASSUME NEW r \in Roots PROVE <<r>> \in Chains /\ Len(<<r>>) = 1 /\ <<r>>[1] = r
  BY DEF Chains, Tags

LEMMA AskerId ==
    ASSUME NEW m \in Chains, Len(m) # 1
    PROVE  /\ Messages!Asker(m) \in Chains /\ m = Append(Messages!Asker(m), End(m)) /\ Len(m) = Len(Messages!Asker(m)) + 1
           /\ m[1] = Messages!Asker(m)[1] /\ Len(m) \in Nat \ {0, 1}
  <1>1. m \in Seq(Tags) /\ m # <<>> /\ Len(m) \in Nat /\ Len(m) # 0 /\ Len(m) # 1
    BY EmptySeq DEF Chains
  <1>2. PICK n \in Nat : n = Len(m) - 1
    BY <1>1
  <1>3. n # 0 /\ n >= 1 /\ Len(m) = n + 1
    BY <1>1, <1>2
  <1> DEFINE a == SubSeq(m, 1, n)
             b == Append(a, m[Len(m)])
  <1>4. a \in Seq(Tags) /\ Len(a) = n /\ \A i \in 1..n : a[i] = m[i]
    BY <1>1, <1>3, SubSeqProperties
  <1>5. a # <<>> /\ a[1] = m[1]
    BY <1>3, <1>4
  <1>6. m[Len(m)] \in Tags
    BY <1>1, <1>3
  <1>7. b \in Seq(Tags) /\ Len(b) = n + 1 /\ (\A i \in 1..n : b[i] = a[i]) /\ b[n + 1] = m[Len(m)]
    BY <1>3, <1>4, <1>6, AppendProperties
  <1> HIDE DEF a, b
  <1>8. \A i \in 1..Len(m) : b[i] = m[i]
    <2>1. ASSUME NEW i \in 1..Len(m) PROVE b[i] = m[i]
      <3>1. i \in 1..n \/ i = n + 1
        BY <1>3
      <3> QED BY <1>3, <1>4, <1>7, <3>1
    <2> QED BY <2>1
  <1>9. b = m
    BY <1>1, <1>3, <1>7, <1>8, SeqEqual
  <1>10. Messages!Asker(m) = a /\ b = Append(a, End(m))
    BY <1>2 DEF Messages!Asker, End, a, b
  <1> QED BY <1>1, <1>3, <1>4, <1>5, <1>9, <1>10 DEF Chains

LEMMA InitMessages == ASSUME Messages!AgentMessagesAssumption, Messages!Init PROVE MessagesInv
  <1>1. Messages!Ids = {} /\ DOMAIN messageCall = {} /\ unsettled = {} /\ started = {}
    BY DEF Messages!Init, Messages!Ids
  <1> QED BY <1>1 DEF MessagesInv, Threads, ToolCalls, Messages!RequestAnswered

(* A new command.  If something had asked in its name before, the identity  *)
(* is reused.                                                               *)
LEMMA Admitted ==
    ASSUME Threads, NEW id \in Chains, id \notin Messages!Ids, NEW v, commands' = Messages!With(commands, id, v), Fits(id, v),
           ran \subseteq ran', reused \subseteq reused', Messages!Ran(id) => id \in reused',
           NEW G, \A m \in G : id = Messages!ReplyId(m) /\ <<commands[m].agent, m>> \in ran',
           unsettled' = (unsettled \ G) \cup {id},
           v.kind = "request" => Ever(Messages!Asker(id)),
           v.kind \in {"reply", "failure"} =>
              /\ Messages!Asker(Messages!Asker(id)) \in Messages!Ids
              /\ v.task = commands[Messages!Asker(Messages!Asker(id))].task
    PROVE  Threads'
  <1>1. /\ Messages!Ids' = Messages!Ids \cup {id} /\ commands'[id] = v
        /\ \A x \in Messages!Ids : commands'[x] = commands[x]
    <2>1. /\ DOMAIN commands' = DOMAIN commands \cup {id} /\ commands'[id] = v
          /\ \A x \in DOMAIN commands : x # id => commands'[x] = commands[x]
      BY DEF Messages!With
    <2> QED BY <2>1 DEF Messages!Ids
  <1>2. \A x : Ever(x) => Ever(x)'
    BY <1>1 DEF Ever, Messages!Ran
  <1>3. \A x : Ever(x) /\ x = id => x \in reused'
    BY DEF Ever
  <1>4. unsettled' \subseteq Messages!Ids' /\ Messages!Ids' \subseteq Chains
    BY <1>1 DEF Threads
  <1>5. \A x \in Messages!Ids' : Fits(x, commands[x])'
    <2>1. Fits(id, v)' /\ \A x \in Messages!Ids : Fits(x, commands[x])'
      BY <1>1 DEF Threads, Fits
    <2> QED BY <1>1, <2>1 DEF Fits
  <1>6. \A x \in Messages!Ids' \ unsettled' : <<commands'[x].agent, x>> \in ran'
    BY <1>1 DEF Threads
  <1>7. \A x \in Messages!Ids' : IsRequest(x)' => Ever(Messages!Asker(x))'
    BY <1>1, <1>2 DEF Threads, IsRequest
  <1>8. \A x \in Messages!Ids' : Answers(x)' => Ever(Messages!Asker(Messages!Asker(x)))'
    BY <1>1, <1>2 DEF Threads, Answers, Ever
  <1>9. ASSUME NEW x \in Messages!Ids', Answers(x)', Messages!Asker(Messages!Asker(x)) \in Messages!Ids' \ reused'
        PROVE  commands'[x].task = commands'[Messages!Asker(Messages!Asker(x))].task
    <2>1. CASE x = id
      BY <1>1, <1>9, <2>1 DEF Answers
    <2>2. CASE x # id
      <3>1. x \in Messages!Ids /\ Answers(x)
        BY <1>1, <1>9, <2>2 DEF Answers
      <3>2. Messages!Asker(Messages!Asker(x)) # id
        BY <1>3, <1>9, <3>1 DEF Threads
      <3> QED BY <1>1, <1>9, <3>1, <3>2 DEF Threads
    <2> QED BY <2>1, <2>2
  <1>10. Messages!RequestAnswered'
    <2> SUFFICES ASSUME NEW m \in Messages!Ids', m \notin unsettled', commands'[m].kind = "request", Messages!Asker(m) \in Messages!Ids' \ reused'
                 PROVE  Messages!ReplyId(m) \in Messages!Ids'
      BY DEF Messages!RequestAnswered
    <2>1. m \in Messages!Ids /\ m # id /\ commands[m].kind = "request"
      BY <1>1
    <2>2. Messages!Asker(m) \in Messages!Ids \ reused
      BY <1>1, <1>3, <2>1 DEF Threads, IsRequest
    <2>3. CASE m \in G
      BY <1>1, <2>3
    <2>4. CASE m \notin G
      BY <1>1, <2>1, <2>2, <2>4 DEF Threads, Messages!RequestAnswered
    <2> QED BY <2>3, <2>4
  <1> QED BY <1>4, <1>5, <1>6, <1>7, <1>8, <1>9, <1>10 DEF Threads, Answers

(* The calls are made by the commands that run; the other steps keep them.  *)
LEMMA CallsKept ==
    ASSUME ToolCalls, UNCHANGED messageCall, started \subseteq started', started' \subseteq unsettled',
           \A m, to : Delivered(m, to) => Delivered(m, to)'
    PROVE  ToolCalls'
  BY DEF ToolCalls, MessageMade

LEMMA SubmitKeeps ==
    ASSUME Messages!AgentMessagesAssumption, MessagesInv, NEW r \in Roots, NEW a \in Agents, Messages!Submit(r, a)
    PROVE  MessagesInv'
  <1> DEFINE v == [agent |-> a, task |-> <<"owner", a>>, kind |-> "owner", depth |-> 0]
  <1>1. /\ commands' = Messages!With(commands, <<r>>, v) /\ unsettled' = unsettled \cup {<<r>>}
        /\ UNCHANGED <<started, messageCall, ran, reused>> /\ \A id \in Messages!Ids : id[1] # r
        /\ \A e \in ran : e[2][1] # r
    BY DEF Messages!Submit
  <1>2. <<r>> \in Chains /\ Len(<<r>>) = 1 /\ <<r>>[1] = r /\ <<r>> \notin Messages!Ids
    BY <1>1, RootId
  <1>3. Fits(<<r>>, v)
    BY <1>2 DEF Fits
  <1>4. ~Messages!Ran(<<r>>)
    BY <1>1, <1>2 DEF Messages!Ran
  <1>5. Threads'
    <2> DEFINE id == <<r>>
               G == {}
    <2>1. id \in Chains /\ id \notin Messages!Ids /\ commands' = Messages!With(commands, id, v) /\ Fits(id, v)
      BY <1>1, <1>2, <1>3
    <2>2. unsettled' = (unsettled \ G) \cup {id} /\ \A m \in G : id = Messages!ReplyId(m) /\ <<commands[m].agent, m>> \in ran'
      BY <1>1
    <2>3. v.kind # "request" /\ v.kind \notin {"reply", "failure"} /\ ~Messages!Ran(id)
      BY <1>4
    <2> HIDE DEF v, id, G
    <2> QED BY <1>1, <2>1, <2>2, <2>3, Admitted DEF MessagesInv
  <1>6. \A m \in Messages!Ids : m \in Messages!Ids' /\ commands'[m] = commands[m]
    BY <1>1, <1>2 DEF Messages!Ids, Messages!With
  <1>7. ToolCalls'
    BY <1>1, <1>6, CallsKept DEF MessagesInv, ToolCalls, Delivered
  <1> QED BY <1>5, <1>7 DEF MessagesInv

LEMMA StartKeeps == ASSUME MessagesInv, NEW id \in unsettled, Messages!Start(id) PROVE MessagesInv'
  <1>1. started' = started \cup {id} /\ UNCHANGED <<commands, unsettled, messageCall, ran, reused>>
    BY DEF Messages!Start
  <1>2. Threads'
    BY <1>1 DEF MessagesInv, Threads, Messages!Ids, Fits, Ever, Messages!Ran, IsRequest, Answers, Messages!RequestAnswered
  <1>3. ToolCalls'
    BY <1>1, CallsKept DEF MessagesInv, ToolCalls, Delivered, Messages!Ids
  <1> QED BY <1>2, <1>3 DEF MessagesInv

(* A command ends: its calls have their results, and a request is answered. *)
LEMMA FinishKeeps ==
    ASSUME Messages!AgentMessagesAssumption, MessagesInv, NEW id \in unsettled, NEW kind \in {"reply", "failure"}, Messages!Finish(id, kind)
    PROVE  MessagesInv'
  <1>1. /\ id \in started /\ commands' = Messages!AdmitReply(id, kind) /\ started' = started \ {id} /\ UNCHANGED messageCall
        /\ unsettled' = (unsettled \ {id}) \cup (DOMAIN commands' \ Messages!Ids)
        /\ ran' = ran \cup {<<commands[id].agent, id>>}
        /\ Messages!Answerable(id) => Messages!ReplyId(id) \notin Messages!Ids /\ reused' = reused \cup Messages!Anew(Messages!ReplyId(id))
        /\ ~Messages!Answerable(id) => reused' = reused
        /\ \A k \in MessageCalls : Append(id, k) \in DOMAIN messageCall => messageCall[Append(id, k)].step \in {"sent", "nothing", "unresolved", "unknown"}
    BY DEF Messages!Finish, Messages!Returned
  <1>2. id \in Messages!Ids /\ id \in Chains /\ Fits(id, commands[id])
    BY DEF MessagesInv, Threads
  <1>3. Threads' /\ \A m \in Messages!Ids : m \in Messages!Ids' /\ commands'[m] = commands[m]
    <2>1. CASE Messages!Answerable(id)
      <3> DEFINE y == Messages!ReplyId(id)
                 v == [agent |-> commands[Messages!Asker(id)].agent, task |-> commands[Messages!Asker(id)].task, kind |-> kind, depth |-> Messages!ReplyDepth(id)]
      <3>1. commands' = Messages!With(commands, y, v) /\ y \notin Messages!Ids /\ Messages!Asker(id) \in Messages!Ids /\ commands[id].kind = "request"
        BY <1>1, <2>1 DEF Messages!AdmitReply, Messages!Answerable, Messages!ExpectsReply
      <3>2. y \in Chains /\ Len(y) = Len(id) + 1 /\ Messages!Asker(y) = id /\ End(y) = "reply" /\ Len(id) \in Nat \ {0}
        BY <1>2, DerivedId DEF Messages!ReplyId, Tags
      <3>3. Fits(y, v)
        BY <1>2, <3>1, <3>2 DEF Fits, MessagesInv, Threads, Messages!ReplyDepth, Messages!AgentMessagesAssumption
      <3>4. DOMAIN commands' = Messages!Ids \cup {y} /\ \A m \in Messages!Ids : commands'[m] = commands[m]
        <4>1. DOMAIN commands' = DOMAIN commands \cup {y} /\ \A x \in DOMAIN commands : x # y => commands'[x] = commands[x]
          BY <3>1 DEF Messages!With
        <4> QED BY <3>1, <4>1 DEF Messages!Ids
      <3>5. unsettled' = (unsettled \ {id}) \cup {y}
        BY <1>1, <1>2, <3>1, <3>4
      <3>6. v.kind \in {"reply", "failure"} /\ v.kind # "request" /\ v.task = commands[Messages!Asker(id)].task
        OBVIOUS
      <3>7. reused \subseteq reused' /\ (Messages!Ran(y) => y \in reused')
        BY <1>1, <2>1 DEF Messages!Anew
      <3> HIDE DEF v
      <3>8. Threads'
        <4>1. \A m \in {id} : y = Messages!ReplyId(m) /\ <<commands[m].agent, m>> \in ran'
          BY <1>1
        <4>2. ran \subseteq ran'
          BY <1>1
        <4>3. Messages!Asker(Messages!Asker(y)) \in Messages!Ids /\ v.task = commands[Messages!Asker(Messages!Asker(y))].task
          BY <3>1, <3>2, <3>6
        <4> DEFINE G == {id}
        <4>4. unsettled' = (unsettled \ G) \cup {y} /\ \A m \in G : y = Messages!ReplyId(m) /\ <<commands[m].agent, m>> \in ran'
          BY <3>5, <4>1
        <4> HIDE DEF y, G
        <4> QED BY <3>1, <3>2, <3>3, <3>6, <3>7, <4>2, <4>3, <4>4, Admitted DEF MessagesInv
      <3> QED BY <3>4, <3>8 DEF Messages!Ids
    <2>2. CASE ~Messages!Answerable(id)
      <3>1. commands' = commands /\ unsettled' = unsettled \ {id} /\ reused' = reused /\ ran' = ran \cup {<<commands[id].agent, id>>}
        BY <1>1, <1>2, <2>2 DEF Messages!AdmitReply, Messages!Ids
      <3>2. \A x : Ever(x) => Ever(x)'
        BY <3>1 DEF Ever, Messages!Ran, Messages!Ids
      <3>3. Messages!RequestAnswered'
        BY <2>2, <3>1 DEF MessagesInv, Threads, Messages!RequestAnswered, Messages!Answerable, Messages!ExpectsReply, Messages!Ids
      <3>4. Messages!Ids' = Messages!Ids /\ \A x \in Messages!Ids : Fits(x, commands[x])'
        BY <3>1 DEF MessagesInv, Threads, Messages!Ids, Fits
      <3> QED BY <3>1, <3>2, <3>3, <3>4 DEF MessagesInv, Threads, IsRequest, Answers
    <2> QED BY <2>1, <2>2
  <1>4. started' \subseteq unsettled'
    BY <1>1 DEF MessagesInv, ToolCalls
  <1>5. \A m, to : Delivered(m, to) => Delivered(m, to)'
    BY <1>1, <1>3 DEF Delivered
  <1>6. ASSUME NEW m \in DOMAIN messageCall PROVE MessageMade(m)'
    <2>1. MessageMade(m)
      BY DEF MessagesInv, ToolCalls
    <2>2. messageCall[m].step \in {"resolved", "accepted", "refused", "again"} => Messages!Asker(m) # id
      <3>1. m = Append(Messages!Asker(m), End(m)) /\ End(m) \in MessageCalls
        BY <2>1, AskerId DEF MessageMade
      <3> QED BY <1>1, <3>1
    <2> QED BY <1>1, <1>5, <2>1, <2>2 DEF MessageMade
  <1> QED BY <1>1, <1>3, <1>4, <1>6 DEF MessagesInv, ToolCalls

(* A step of a tool call keeps every command.                               *)
LEMMA MessageCallStep ==
    ASSUME MessagesInv, UNCHANGED <<commands, unsettled, started, ran, reused>>, \A m \in DOMAIN messageCall' : MessageMade(m)'
    PROVE  MessagesInv'
  <1>1. Threads'
    BY DEF MessagesInv, Threads, Messages!Ids, Fits, Ever, Messages!Ran, IsRequest, Answers, Messages!RequestAnswered
  <1> QED BY <1>1 DEF MessagesInv, ToolCalls

LEMMA MadeKept ==
    ASSUME UNCHANGED <<commands, unsettled, started, ran, reused>>, NEW m, MessageMade(m), messageCall'[m] = messageCall[m]
    PROVE  MessageMade(m)'
  BY DEF MessageMade, Delivered, Messages!Ids

LEMMA ResolveKeeps ==
    ASSUME MessagesInv, NEW id \in started, NEW k \in MessageCalls, NEW n \in Names, Messages!Resolve(id, k, n)
    PROVE  MessagesInv'
  <1> DEFINE m == Append(id, k)
  <1>1. UNCHANGED <<commands, unsettled, started, ran, reused>>
    BY DEF Messages!Resolve
  <1>2. id \in Chains
    BY DEF MessagesInv, Threads, ToolCalls
  <1>3. m \in Chains /\ Len(m) # 1 /\ End(m) \in MessageCalls /\ Messages!Asker(m) = id
    BY <1>2, DerivedId DEF Tags
  <1>4. PICK q \in CallRows : /\ messageCall' = Messages!With(messageCall, m, q) /\ q.step \in {"resolved", "unresolved", "nothing"}
                              /\ q.step = "resolved" => q.to \in Agents
    <2>1. CASE NodeOf[commands[id].agent] \in online /\ Cardinality(Messages!Named(commands[id].agent, n)) = 1
      <3>1. PICK to \in Messages!Named(commands[id].agent, n) : messageCall' = Messages!With(messageCall, m, [step |-> "resolved", name |-> n, to |-> to])
        BY <2>1, MessageCounts DEF Messages!Resolve
      <3>2. to \in Agents
        BY DEF Messages!Named
      <3> QED BY <3>1, <3>2 DEF CallRows, CallSteps
    <2>2. CASE ~(NodeOf[commands[id].agent] \in online /\ Cardinality(Messages!Named(commands[id].agent, n)) = 1)
      <3> DEFINE q == [step |-> IF NodeOf[commands[id].agent] \in online THEN "unresolved" ELSE "nothing", name |-> n, to |-> None]
      <3>1. messageCall' = Messages!With(messageCall, m, q)
        BY <2>2, MessageCounts DEF Messages!Resolve
      <3>2. q \in CallRows /\ q.step \in {"unresolved", "nothing"}
        BY DEF CallRows, CallSteps
      <3> QED BY <3>1, <3>2
    <2> QED BY <2>1, <2>2
  <1> HIDE DEF m
  <1>5. DOMAIN messageCall' = DOMAIN messageCall \cup {m} /\ messageCall'[m] = q /\ \A x \in DOMAIN messageCall : x # m => messageCall'[x] = messageCall[x]
    BY <1>4 DEF Messages!With
  <1>6. ASSUME NEW x \in DOMAIN messageCall' PROVE MessageMade(x)'
    <2>1. CASE x = m
      BY <1>1, <1>3, <1>4, <1>5, <2>1 DEF MessageMade
    <2>2. CASE x # m
      BY <1>1, <1>5, <2>2, MadeKept DEF MessagesInv, ToolCalls
    <2> QED BY <2>1, <2>2
  <1> QED BY <1>1, <1>6, MessageCallStep

LEMMA MoveFacts ==
    ASSUME ToolCalls, NEW m \in DOMAIN messageCall, NEW s \in CallSteps, messageCall' = [messageCall EXCEPT ![m].step = s]
    PROVE  /\ DOMAIN messageCall' = DOMAIN messageCall /\ messageCall'[m] \in CallRows /\ messageCall'[m].step = s /\ messageCall'[m].to = messageCall[m].to
           /\ \A x \in DOMAIN messageCall : x # m => messageCall'[x] = messageCall[x]
  <1>1. messageCall[m] \in CallRows
    BY DEF ToolCalls, MessageMade
  <1> DEFINE e == [messageCall[m] EXCEPT !.step = s]
  <1>2. e \in CallRows /\ e.step = s /\ e.to = messageCall[m].to
    BY <1>1 DEF CallRows
  <1>3. messageCall' = [messageCall EXCEPT ![m] = e]
    OBVIOUS
  <1> HIDE DEF e
  <1> QED BY <1>2, <1>3

LEMMA AnsweredKeeps == ASSUME MessagesInv, NEW m \in DOMAIN messageCall, Messages!Answered(m) PROVE MessagesInv'
  <1> DEFINE s == IF messageCall[m].step = "accepted" THEN "sent" ELSE "nothing"
  <1>1. UNCHANGED <<commands, unsettled, started, ran, reused>> /\ messageCall' = [messageCall EXCEPT ![m].step = s] /\ s \in CallSteps
    BY DEF Messages!Answered, CallSteps
  <1>2. (s = "sent" /\ messageCall[m].step = "accepted") \/ s = "nothing"
    OBVIOUS
  <1> HIDE DEF s
  <1>3. /\ DOMAIN messageCall' = DOMAIN messageCall /\ messageCall'[m] \in CallRows /\ messageCall'[m].step = s /\ messageCall'[m].to = messageCall[m].to
        /\ \A x \in DOMAIN messageCall : x # m => messageCall'[x] = messageCall[x]
    BY <1>1, MoveFacts DEF MessagesInv
  <1>4. MessageMade(m) /\ \A x \in DOMAIN messageCall : MessageMade(x)
    BY DEF MessagesInv, ToolCalls
  <1>5. MessageMade(m)'
    BY <1>1, <1>2, <1>3, <1>4 DEF MessageMade, Delivered, Messages!Ids
  <1>6. \A x \in DOMAIN messageCall' : MessageMade(x)'
    BY <1>1, <1>3, <1>4, <1>5, MadeKept
  <1> QED BY <1>1, <1>6, MessageCallStep

LEMMA NoAnswerKeeps == ASSUME MessagesInv, NEW m \in DOMAIN messageCall, Messages!NoAnswer(m) PROVE MessagesInv'
  <1>1. UNCHANGED <<commands, unsettled, started, ran, reused>> /\ messageCall' = [messageCall EXCEPT ![m].step = "unknown"] /\ "unknown" \in CallSteps
    BY DEF Messages!NoAnswer, CallSteps
  <1>2. /\ DOMAIN messageCall' = DOMAIN messageCall /\ messageCall'[m] \in CallRows /\ messageCall'[m].step = "unknown"
        /\ \A x \in DOMAIN messageCall : x # m => messageCall'[x] = messageCall[x]
    BY <1>1, MoveFacts DEF MessagesInv
  <1>3. MessageMade(m)'
    BY <1>2 DEF MessagesInv, ToolCalls, MessageMade
  <1>4. \A x \in DOMAIN messageCall' : MessageMade(x)'
    BY <1>1, <1>2, <1>3, MadeKept DEF MessagesInv, ToolCalls
  <1> QED BY <1>1, <1>4, MessageCallStep

LEMMA DiesKeeps == ASSUME MessagesInv, UNCHANGED <<commands, unsettled, started, ran, reused>>, NEW n, Messages!Dies(n) PROVE MessagesInv'
  <1>1. DOMAIN messageCall' = DOMAIN messageCall
    BY DEF Messages!Dies
  <1>2. ASSUME NEW x \in DOMAIN messageCall PROVE MessageMade(x)'
    <2>1. MessageMade(x) /\ (messageCall'[x] = messageCall[x] \/ (Messages!Asker(x) \in started /\ messageCall'[x] = [messageCall[x] EXCEPT !.step = "again"]))
      BY DEF Messages!Dies, MessagesInv, ToolCalls
    <2>2. CASE messageCall'[x] = messageCall[x]
      BY <2>1, <2>2, MadeKept
    <2>3. CASE Messages!Asker(x) \in started /\ messageCall'[x] = [messageCall[x] EXCEPT !.step = "again"]
      <3>1. messageCall'[x] \in CallRows /\ messageCall'[x].step = "again"
        BY <2>1, <2>3 DEF MessageMade, CallRows, CallSteps
      <3> QED BY <2>1, <2>3, <3>1 DEF MessageMade
    <2> QED BY <2>1, <2>2, <2>3
  <1> QED BY <1>1, <1>2, MessageCallStep

LEMMA CrashKeeps == ASSUME MessagesInv, NEW n, Messages!Crash(n) PROVE MessagesInv'
  <1>1. UNCHANGED <<commands, unsettled, started, ran, reused>> /\ Messages!Dies(n)
    BY DEF Messages!Crash
  <1> QED BY <1>1, DiesKeeps

LEMMA RefusedKeeps == ASSUME MessagesInv, NEW id, Messages!Refused(id) PROVE MessagesInv'
  <1>1. UNCHANGED <<commands, unsettled, started, ran, reused>> /\ Messages!Dies(NodeOf[commands[id].agent])
    BY DEF Messages!Refused
  <1> QED BY <1>1, DiesKeeps

(* A message is admitted behind the command that sent it.                   *)
LEMMA AdmitKeeps ==
    ASSUME Messages!AgentMessagesAssumption, MessagesInv, NEW m \in DOMAIN messageCall, Messages!Admit(m)
    PROVE  MessagesInv'
  <1> DEFINE to == messageCall[m].to
             fresh_ == Messages!Allowed(m, to) /\ m \notin Messages!Ids /\ NodeOf[to] \in online
             accepted == fresh_ \/ (Messages!Allowed(m, to) /\ m \in Messages!Ids /\ Messages!SameMessage(m, to))
             s == IF accepted THEN "accepted" ELSE "refused"
             from == commands[Messages!Asker(m)].agent
             v == [agent |-> to, task |-> Messages!Thread(from, to), kind |-> "request", depth |-> Messages!MessageDepth(m)]
  <1>1. /\ messageCall[m].step = "resolved" /\ UNCHANGED <<started, ran>> /\ messageCall' = [messageCall EXCEPT ![m].step = s]
        /\ fresh_ => commands' = Messages!With(commands, m, v) /\ unsettled' = unsettled \cup {m} /\ reused' = reused \cup Messages!Anew(m)
        /\ ~fresh_ => UNCHANGED <<commands, unsettled, reused>>
    BY DEF Messages!Admit
  <1>2. /\ MessageMade(m) /\ m \in Chains /\ Len(m) # 1 /\ End(m) \in MessageCalls /\ to \in Agents /\ Messages!Asker(m) \in started
        /\ Messages!Asker(m) \in Messages!Ids /\ Messages!Asker(m) \in Chains /\ Fits(Messages!Asker(m), commands[Messages!Asker(m)])
    BY <1>1 DEF MessagesInv, ToolCalls, MessageMade, Threads
  <1>3. Len(m) = Len(Messages!Asker(m)) + 1 /\ Len(Messages!Asker(m)) \in Nat
    BY <1>2, AskerId DEF Chains
  <1>4. s \in CallSteps /\ s \in {"accepted", "refused"} /\ (s = "accepted" <=> accepted)
    BY DEF CallSteps
  <1>5. /\ Threads' /\ started \subseteq unsettled'
        /\ \A x \in Messages!Ids : x \in Messages!Ids' /\ commands'[x] = commands[x]
    <2>1. CASE ~fresh_
      BY <1>1, <2>1 DEF MessagesInv, ToolCalls, Threads, Messages!Ids, Fits, Ever, Messages!Ran, IsRequest, Answers,
         Messages!RequestAnswered
    <2>2. CASE fresh_
      <3>1. Fits(m, v)
        <4>1. Messages!MessageDepth(m) = Len(m) - 1 /\ Len(m) <= MaxDepth + 1
          BY <1>2, <1>3, <2>2 DEF Fits, Messages!MessageDepth, Messages!Allowed,
             Messages!AgentMessagesAssumption
        <4> QED BY <1>2, <4>1 DEF Fits
      <3>2. v.kind = "request" /\ m \notin Messages!Ids /\ commands' = Messages!With(commands, m, v) /\ unsettled' = unsettled \cup {m}
        BY <1>1, <2>2
      <3>3. ran \subseteq ran' /\ reused \subseteq reused' /\ (Messages!Ran(m) => m \in reused') /\ Ever(Messages!Asker(m))
        BY <1>1, <1>2, <2>2 DEF Messages!Anew, Ever
      <3> HIDE DEF v, fresh_
      <3>4. Threads'
        <4> DEFINE G == {}
        <4>1. unsettled' = (unsettled \ G) \cup {m} /\ \A x \in G : m = Messages!ReplyId(x) /\ <<commands[x].agent, x>> \in ran'
          BY <3>2
        <4> HIDE DEF G
        <4> QED BY <1>2, <3>1, <3>2, <3>3, <4>1, Admitted DEF MessagesInv
      <3>5. \A x \in Messages!Ids : x \in Messages!Ids' /\ commands'[x] = commands[x]
        BY <3>2 DEF Messages!With, Messages!Ids
      <3> QED BY <3>2, <3>4, <3>5 DEF MessagesInv, ToolCalls
    <2> QED BY <2>1, <2>2
  <1>6. accepted => (m \in Messages!Ids' /\ commands'[m].agent = to)
    <2>1. CASE fresh_
      <3>1. commands' = Messages!With(commands, m, v) /\ v.agent = to
        BY <1>1, <2>1
      <3> HIDE DEF v
      <3>2. m \in DOMAIN commands' /\ commands'[m] = v
        BY <3>1 DEF Messages!With
      <3> QED BY <3>1, <3>2 DEF Messages!Ids
    <2>2. CASE ~fresh_ /\ accepted
      BY <1>1, <2>2 DEF Messages!SameMessage, Messages!Ids
    <2> QED BY <2>1, <2>2
  <1>7. \A x, y : Delivered(x, y) => Delivered(x, y)'
    BY <1>1, <1>5 DEF Delivered
  <1> HIDE DEF s, accepted, fresh_, v
  <1>8. /\ DOMAIN messageCall' = DOMAIN messageCall /\ messageCall'[m] \in CallRows /\ messageCall'[m].step = s /\ messageCall'[m].to = to
        /\ \A x \in DOMAIN messageCall : x # m => messageCall'[x] = messageCall[x]
    BY <1>1, <1>4, MoveFacts DEF MessagesInv
  <1>9. ASSUME NEW x \in DOMAIN messageCall' PROVE MessageMade(x)'
    <2>1. CASE x = m
      BY <1>1, <1>2, <1>4, <1>6, <1>8, <2>1 DEF MessageMade, Delivered
    <2>2. CASE x # m
      BY <1>1, <1>7, <1>8, <2>2 DEF MessagesInv, ToolCalls, MessageMade
    <2> QED BY <2>1, <2>2
  <1> QED BY <1>1, <1>5, <1>9 DEF MessagesInv, ToolCalls

(* A task goes with the answers in it; what it held was ended by a node.    *)
LEMMA DeleteKeeps ==
    ASSUME Messages!AgentMessagesAssumption, MessagesInv, NEW t, Messages!DeleteTask(t)
    PROVE  MessagesInv'
  <1> DEFINE gone == {id \in Messages!Ids : commands[id].task = t}
  <1>1. gone \cap unsettled = {} /\ commands' = Messages!Without(commands, gone) /\ UNCHANGED <<unsettled, started, messageCall, ran, reused>>
    BY DEF Messages!DeleteTask
  <1>2. \A id \in gone : id \notin unsettled /\ <<commands[id].agent, id>> \in ran /\ commands[id].agent \in Agents
    BY <1>1 DEF MessagesInv, Threads, Fits
  <1>3. \A id \in Messages!Ids : id \in gone <=> commands[id].task = t
    OBVIOUS
  <1> HIDE DEF gone
  <1>4. Messages!Ids' = Messages!Ids \ gone /\ \A id \in Messages!Ids' : commands'[id] = commands[id]
    BY <1>1 DEF Messages!Without, Messages!Ids
  <1>5. \A x : Ever(x) => Ever(x)'
    BY <1>1, <1>2, <1>4 DEF Ever, Messages!Ran
  <1>6. unsettled' \subseteq Messages!Ids' /\ Messages!Ids' \subseteq Chains
    BY <1>1, <1>2, <1>4 DEF MessagesInv, Threads
  <1>7. \A x \in Messages!Ids' : Fits(x, commands[x])' /\ (x \notin unsettled' => <<commands'[x].agent, x>> \in ran')
    BY <1>1, <1>4 DEF MessagesInv, Threads, Fits
  <1>8. \A x \in Messages!Ids' : (IsRequest(x)' => Ever(Messages!Asker(x))') /\ (Answers(x)' => Ever(Messages!Asker(Messages!Asker(x)))')
    BY <1>4, <1>5 DEF MessagesInv, Threads, IsRequest, Answers
  <1>9. \A x \in Messages!Ids' : Answers(x)' /\ Messages!Asker(Messages!Asker(x)) \in Messages!Ids' \ reused' => commands'[x].task = commands'[Messages!Asker(Messages!Asker(x))].task
    BY <1>1, <1>4 DEF MessagesInv, Threads, Answers
  <1>10. Messages!RequestAnswered'
    <2> SUFFICES ASSUME NEW m \in Messages!Ids', m \notin unsettled', commands'[m].kind = "request", Messages!Asker(m) \in Messages!Ids' \ reused'
                 PROVE  Messages!ReplyId(m) \in Messages!Ids'
      BY DEF Messages!RequestAnswered
    <2>1. m \in Messages!Ids /\ m \in Chains /\ Messages!Asker(m) \in Messages!Ids \ reused /\ Messages!Asker(m) \notin gone /\ Messages!ReplyId(m) \in Messages!Ids
      BY <1>1, <1>4 DEF MessagesInv, Threads, Messages!RequestAnswered
    <2>2. Messages!Asker(Messages!ReplyId(m)) = m /\ End(Messages!ReplyId(m)) = "reply" /\ Len(Messages!ReplyId(m)) # 1
      BY <2>1, DerivedId DEF Messages!ReplyId, Tags
    <2>3. Answers(Messages!ReplyId(m))
      BY <2>1, <2>2 DEF MessagesInv, Threads, Fits, Answers, Messages!AgentMessagesAssumption
    <2>4. commands[Messages!ReplyId(m)].task = commands[Messages!Asker(m)].task
      BY <2>1, <2>2, <2>3 DEF MessagesInv, Threads
    <2> QED BY <1>3, <1>4, <2>1, <2>4
  <1>11. Threads'
    BY <1>6, <1>7, <1>8, <1>9, <1>10 DEF Threads
  <1>12. \A m, to : Delivered(m, to) => Delivered(m, to)'
    BY <1>1, <1>2, <1>4 DEF Delivered
  <1>13. ToolCalls'
    BY <1>1, <1>12, CallsKept DEF MessagesInv, ToolCalls
  <1> QED BY <1>11, <1>13 DEF MessagesInv

LEMMA NextMessages ==
    ASSUME Messages!AgentMessagesAssumption, MessagesInv, [Messages!Next]_(Messages!vars)
    PROVE  MessagesInv'
  <1>1. ASSUME UNCHANGED <<commands, unsettled, started, messageCall, ran, reused>> PROVE MessagesInv'
    BY <1>1, MadeKept, MessageCallStep DEF MessagesInv, ToolCalls
  <1>2. ASSUME NEW a \in Agents, (\E r \in Roots : Messages!Submit(r, a)) \/ \E n \in Names : Messages!Rename(a, n)
        PROVE  MessagesInv'
    BY <1>1, <1>2, SubmitKeeps DEF Messages!Rename
  <1>3. ASSUME NEW id \in unsettled, Messages!Start(id) \/ Messages!Refused(id) \/ \E kind \in {"reply", "failure"} : Messages!Finish(id, kind)
        PROVE  MessagesInv'
    BY <1>3, StartKeeps, RefusedKeeps, FinishKeeps
  <1>4. ASSUME NEW id \in started, NEW k \in MessageCalls, NEW n \in Names, Messages!Resolve(id, k, n)
        PROVE  MessagesInv'
    BY <1>4, ResolveKeeps
  <1>5. ASSUME NEW m \in DOMAIN messageCall, Messages!Admit(m) \/ Messages!Answered(m) \/ Messages!NoAnswer(m)
        PROVE  MessagesInv'
    BY <1>5, AdmitKeeps, AnsweredKeeps, NoAnswerKeeps
  <1>6. ASSUME NEW n \in Messages!Nodes, Messages!Crash(n) \/ Messages!Disconnect(n) \/ Messages!Connect(n)
        PROVE  MessagesInv'
    BY <1>1, <1>6, CrashKeeps DEF Messages!Disconnect, Messages!Connect
  <1>7. ASSUME NEW t \in Messages!Tasks, Messages!DeleteTask(t) PROVE MessagesInv'
    BY <1>7, DeleteKeeps
  <1>8. CASE UNCHANGED Messages!vars
    BY <1>1, <1>8 DEF Messages!vars
  <1> QED BY <1>2, <1>3, <1>4, <1>5, <1>6, <1>7, <1>8 DEF Messages!Next

LEMMA InvMessages == ASSUME Messages!AgentMessagesAssumption, MessagesInv PROVE Messages!MessagesSafe
  <1>1. Messages!TypeOK
    BY DEF MessagesInv, Threads, ToolCalls, Fits, Messages!TypeOK
  <1>2. Messages!ChainEnds
    <2>1. ASSUME NEW id \in Messages!Ids PROVE Len(id) <= MaxDepth + 2 /\ commands[id].depth = Len(id) - 1
      <3>1. Fits(id, commands[id]) /\ id \in Chains
        BY DEF MessagesInv, Threads
      <3>2. Len(id) \in Nat
        BY <3>1 DEF Chains
      <3>3. MaxDepth \in Nat
        BY DEF Messages!AgentMessagesAssumption
      <3>4. Len(id) = 1 \/ Len(id) <= MaxDepth + 1 \/ Len(id) <= MaxDepth + 2
        BY <3>1 DEF Fits
      <3>5. Len(id) <= MaxDepth + 2
        BY <3>2, <3>3, <3>4
      <3> QED BY <3>1, <3>5 DEF Fits
    <2> QED BY <2>1 DEF Messages!ChainEnds
  <1>3. Messages!RequestAnswered /\ Messages!SentMeansDelivered
    BY DEF MessagesInv, Threads, ToolCalls, MessageMade, Delivered, Messages!SentMeansDelivered
  <1> QED BY <1>1, <1>2, <1>3 DEF Messages!MessagesSafe

(* Whatever crashes, repeats and deletions do, an exchange between agents   *)
(* stays within its depth, a request that ended was answered where it was   *)
(* asked, and a message said to be sent is with the agent that was named or *)
(* was ended by it.                                                         *)
THEOREM ExchangesAreSound ==
    ASSUME Messages!AgentMessagesAssumption
    PROVE  Messages!Spec => []Messages!MessagesSafe
  <1>1. Messages!Init => MessagesInv
    BY InitMessages
  <1>2. MessagesInv /\ [Messages!Next]_(Messages!vars) => MessagesInv'
    BY NextMessages
  <1>3. MessagesInv => Messages!MessagesSafe
    BY InvMessages
  <1> QED BY <1>1, <1>2, <1>3, PTL DEF Messages!Spec

-----------------------------------------------------------------------------
(* Proof that a caller gets its own answer *)

LinkRequests == [by : Callers, call : Nat]
Carried == [number : Nat, asked : LinkRequests]
LinkSteps == {"idle", "sending", "waiting", "answered"}
LinkStates == [step : LinkSteps, call : Nat, session : Nat, answer : LinkRequests \cup {None}]
LinkTypes ==
    /\ current \in Nat /\ opened \in Nat /\ next \in Nat /\ broken \in BOOLEAN
    /\ queue \in Seq(LinkRequests) /\ DOMAIN waiting \subseteq Nat /\ waiting \in [DOMAIN waiting -> LinkRequests]
    /\ linkToCoord \in Seq(Carried) /\ linkToNode \in Seq(Carried)
    /\ caller \in [Callers -> LinkStates]

(* A request or an answer on the connection is of a waiter in the table,    *)
(* and each number is under way once.                                       *)
Waited(m) == m.number \in DOMAIN waiting /\ waiting[m.number] = m.asked
Flights ==
    /\ \A n \in DOMAIN waiting : n < next
    /\ \A i \in 1..Len(linkToCoord) : Waited(linkToCoord[i])
    /\ \A i \in 1..Len(linkToNode) : Waited(linkToNode[i])
    /\ \A i, j \in 1..Len(linkToCoord) : linkToCoord[i].number = linkToCoord[j].number => i = j
    /\ \A i, j \in 1..Len(linkToNode) : linkToNode[i].number = linkToNode[j].number => i = j
    /\ \A i \in 1..Len(linkToNode), j \in 1..Len(linkToCoord) : linkToNode[i].number # linkToCoord[j].number

(* A caller that is about to put its request in has not done so before, and *)
(* no request is in the queue or in the table twice.                        *)
Asked(r, cs) == r.call < cs[r.by].call \/ (r.call = cs[r.by].call /\ cs[r.by].step # "sending")
Once ==
    /\ \A i \in 1..Len(queue) : Asked(queue[i], caller)
    /\ \A n \in DOMAIN waiting : Asked(waiting[n], caller)
    /\ \A i, j \in 1..Len(queue) : queue[i] = queue[j] => i = j
    /\ \A i \in 1..Len(queue), n \in DOMAIN waiting : queue[i] # waiting[n]

LinkInv == LinkTypes /\ Flights /\ Once /\ Link!TypeOK /\ Link!OwnAnswer /\ Link!NeverBroken

LEMMA InitLink == ASSUME Link!AgentLinkAssumption PROVE Link!Init => LinkInv
  <1> SUFFICES ASSUME Link!Init PROVE LinkInv
    OBVIOUS
  <1>1. DOMAIN waiting = {} /\ Len(queue) = 0 /\ Len(linkToCoord) = 0 /\ Len(linkToNode) = 0
    BY DEF Link!Init
  <1>2. LinkTypes
    <2>1. caller \in [Callers -> LinkStates]
      BY DEF Link!Init, LinkStates, LinkSteps
    <2>2. queue \in Seq(LinkRequests) /\ linkToCoord \in Seq(Carried) /\ linkToNode \in Seq(Carried)
      BY DEF Link!Init
    <2>3. waiting \in [DOMAIN waiting -> LinkRequests]
      BY DEF Link!Init
    <2> QED BY <1>1, <2>1, <2>2, <2>3 DEF Link!Init, LinkTypes
  <1>3. Flights /\ Once /\ Link!TypeOK
    BY <1>1 DEF Flights, Once, Link!TypeOK, Link!AgentLinkAssumption
  <1>4. Link!OwnAnswer /\ Link!NeverBroken
    BY DEF Link!Init, Link!OwnAnswer, Link!NeverBroken
  <1> QED BY <1>2, <1>3, <1>4 DEF LinkInv

(* A request stays one that was asked, whatever its caller does next.       *)
LEMMA AskedKept ==
    ASSUME caller \in [Callers -> LinkStates], caller' \in [Callers -> LinkStates], NEW c \in Callers,
           \A d \in Callers : d # c => caller'[d] = caller[d],
           \/ caller'[c].call = caller[c].call /\ (caller'[c].step = "sending" => caller[c].step = "sending")
           \/ caller'[c].call = caller[c].call + 1
    PROVE  \A r \in LinkRequests : Asked(r, caller) => Asked(r, caller')
  <1> SUFFICES ASSUME NEW r \in LinkRequests, Asked(r, caller) PROVE Asked(r, caller')
    OBVIOUS
  <1>1. r.by \in Callers /\ r.call \in Nat /\ caller[r.by].call \in Nat /\ caller'[r.by].call \in Nat
    BY DEF LinkRequests, LinkStates
  <1>2. CASE r.by # c
    BY <1>1, <1>2 DEF Asked
  <1>3. CASE r.by = c
    BY <1>1, <1>3 DEF Asked
  <1> QED BY <1>2, <1>3

(* What a caller does keeps the connection.                                 *)
LEMMA CallerStep ==
    ASSUME LinkInv, UNCHANGED <<waiting, next, linkToCoord, linkToNode, broken>>, NEW c \in Callers,
           \A d \in Callers : d # c => caller'[d] = caller[d],
           caller'[c].step = "answered" => caller'[c] = caller[c]
    PROVE  Flights' /\ Link!OwnAnswer' /\ Link!NeverBroken'
  <1>1. Flights' /\ Link!NeverBroken'
    BY DEF LinkInv, Flights, Waited, Link!NeverBroken
  <1>2. Link!OwnAnswer'
    BY DEF LinkInv, Link!OwnAnswer, Link!Ident
  <1> QED BY <1>1, <1>2

LEMMA CallersKeep ==
    ASSUME Link!AgentLinkAssumption, LinkInv, NEW c \in Callers,
           Link!Call(c) \/ Link!Enqueue(c) \/ Link!Dropped(c) \/ Link!TimedOut(c) \/ Link!Return(c)
    PROVE  LinkInv'
  <1>1. /\ caller \in [Callers -> LinkStates] /\ caller[c] \in LinkStates
        /\ current \in Nat /\ queue \in Seq(LinkRequests) /\ waiting \in [DOMAIN waiting -> LinkRequests]
    BY DEF LinkInv, LinkTypes
  <1>2. CASE Link!Call(c) \/ Link!Dropped(c) \/ Link!TimedOut(c) \/ Link!Return(c)
    <2>1. UNCHANGED <<current, opened, Link!wire, broken>>
      BY <1>2 DEF Link!Call, Link!Dropped, Link!TimedOut, Link!Return
    <2>2. LinkTypes'
      <3>1. PICK q \in LinkStates : caller' = [caller EXCEPT ![c] = q]
        <4>1. CASE Link!Call(c)
          <5> DEFINE q == [step |-> IF current = 0 THEN "idle" ELSE "sending", call |-> caller[c].call + 1,
                           session |-> current, answer |-> None]
          <5>1. q \in LinkStates
            BY <1>1 DEF LinkStates, LinkSteps
          <5> QED BY <4>1, <5>1 DEF Link!Call
        <4>2. CASE Link!Dropped(c) \/ Link!TimedOut(c) \/ Link!Return(c)
          BY <1>1, <4>2 DEF Link!Dropped, Link!TimedOut, Link!Return, LinkStates, LinkSteps
        <4> QED BY <1>2, <4>1, <4>2
      <3>2. caller' \in [Callers -> LinkStates]
        BY <1>1, <3>1
      <3> QED BY <2>1, <3>2 DEF LinkInv, LinkTypes, Link!wire
    <2>3. /\ \A d \in Callers : d # c => caller'[d] = caller[d]
          /\ caller'[c].step # "answered"
          /\ \/ caller'[c].call = caller[c].call /\ caller'[c].step # "sending"
             \/ caller'[c].call = caller[c].call + 1
      BY <1>1, <1>2 DEF Link!Call, Link!Dropped, Link!TimedOut, Link!Return, LinkStates
    <2>4. Flights' /\ Link!OwnAnswer' /\ Link!NeverBroken' /\ \A r \in LinkRequests : Asked(r, caller) => Asked(r, caller')
      BY <1>1, <2>1, <2>2, <2>3, CallerStep, AskedKept DEF Link!wire, LinkTypes
    <2>5. Once'
      <3>1. \A i \in 1..Len(queue) : queue[i] \in LinkRequests
        BY <1>1
      <3> QED BY <1>1, <2>1, <2>4, <3>1 DEF LinkInv, Once, Link!wire
    <2>6. Link!TypeOK'
      BY <2>1 DEF LinkInv, Link!TypeOK, Link!wire
    <2> QED BY <2>2, <2>4, <2>5, <2>6 DEF LinkInv
  <1>3. CASE Link!Enqueue(c)
    <2> DEFINE r == Link!Ident(c)
    <2>1. /\ caller[c].step = "sending" /\ Len(queue) < Queue /\ queue' = Append(queue, r)
          /\ caller' = [caller EXCEPT ![c].step = "waiting"]
          /\ UNCHANGED <<current, opened, waiting, next, linkToCoord, linkToNode, broken>>
      BY <1>3 DEF Link!Enqueue
    <2>2. r \in LinkRequests /\ r.by = c /\ r.call = caller[c].call
      BY <1>1 DEF Link!Ident, LinkRequests, LinkStates
    <2> HIDE DEF r
    <2>3. caller'[c].step = "waiting" /\ caller'[c].call = caller[c].call /\ \A d \in Callers : d # c => caller'[d] = caller[d]
      BY <1>1, <2>1 DEF LinkStates
    <2>4. LinkTypes'
      <3>1. caller' \in [Callers -> LinkStates]
        BY <1>1, <2>1 DEF LinkStates, LinkSteps
      <3>2. queue' \in Seq(LinkRequests)
        BY <1>1, <2>1, <2>2
      <3> QED BY <2>1, <3>1, <3>2 DEF LinkInv, LinkTypes
    <2>5. Flights' /\ Link!OwnAnswer' /\ Link!NeverBroken' /\ \A x \in LinkRequests : Asked(x, caller) => Asked(x, caller')
      BY <1>1, <2>1, <2>3, <2>4, CallerStep, AskedKept DEF LinkTypes
    <2>6. ~Asked(r, caller) /\ Asked(r, caller')
      <3>1. caller[c].call \in Nat
        BY <1>1 DEF LinkStates
      <3>2. ~Asked(r, caller)
        BY <2>1, <2>2, <3>1 DEF Asked
      <3>3. Asked(r, caller')
        BY <2>2, <2>3, <3>1 DEF Asked
      <3> QED BY <3>2, <3>3
    <2>7. Len(queue') = Len(queue) + 1 /\ Len(queue) \in Nat
          /\ \A i \in 1..Len(queue') : queue'[i] = IF i <= Len(queue) THEN queue[i] ELSE r
      BY <1>1, <2>1, <2>2
    <2>8. \A i \in 1..Len(queue) : queue[i] \in LinkRequests /\ queue[i] # r
      BY <1>1, <2>6 DEF LinkInv, Once
    <2>9. \A n \in DOMAIN waiting : waiting[n] \in LinkRequests /\ waiting[n] # r
      BY <1>1, <2>6 DEF LinkInv, Once
    <2>10. Once'
      <3>1. \A i \in 1..Len(queue') : Asked(queue'[i], caller')
        <4>1. \A i \in 1..Len(queue) : Asked(queue[i], caller')
          BY <2>5, <2>8 DEF LinkInv, Once
        <4>2. ASSUME NEW i \in 1..Len(queue') PROVE Asked(queue'[i], caller')
          <5>1. CASE i <= Len(queue)
            <6>1. i \in 1..Len(queue) /\ queue'[i] = queue[i]
              BY <2>7, <5>1
            <6> QED BY <4>1, <6>1
          <5>2. CASE ~(i <= Len(queue))
            BY <2>6, <2>7, <5>2
          <5> QED BY <5>1, <5>2
        <4> QED BY <4>2
      <3>2. \A n \in DOMAIN waiting' : Asked(waiting'[n], caller')
        BY <2>1, <2>5, <2>9 DEF LinkInv, Once
      <3>3. \A i, j \in 1..Len(queue') : queue'[i] = queue'[j] => i = j
        BY <2>7, <2>8 DEF LinkInv, Once
      <3>4. \A i \in 1..Len(queue'), n \in DOMAIN waiting' : queue'[i] # waiting'[n]
        BY <2>1, <2>7, <2>9 DEF LinkInv, Once
      <3> QED BY <3>1, <3>2, <3>3, <3>4 DEF Once
    <2>11. Link!TypeOK'
      BY <2>1, <2>7 DEF LinkInv, Link!TypeOK, Link!AgentLinkAssumption
    <2> QED BY <2>4, <2>5, <2>10, <2>11 DEF LinkInv
  <1> QED BY <1>2, <1>3

(* A session begins and ends with nothing under way.                        *)
LEMMA SessionsKeep == ASSUME Link!AgentLinkAssumption, LinkInv, Link!Open \/ Link!Close PROVE LinkInv'
  <1>1. /\ queue' = <<>> /\ waiting' = <<>> /\ linkToCoord' = <<>> /\ linkToNode' = <<>> /\ UNCHANGED <<caller, broken>>
        /\ current' \in {0, opened + 1} /\ opened' \in {opened, opened + 1} /\ next' \in {next, 1}
    BY DEF Link!Open, Link!Close
  <1>2. DOMAIN waiting' = {} /\ Len(queue') = 0 /\ Len(linkToCoord') = 0 /\ Len(linkToNode') = 0
    BY <1>1
  <1>3. LinkTypes'
    <2>1. opened \in Nat /\ next \in Nat /\ caller \in [Callers -> LinkStates] /\ broken \in BOOLEAN
      BY DEF LinkInv, LinkTypes
    <2>2. queue' \in Seq(LinkRequests) /\ linkToCoord' \in Seq(Carried) /\ linkToNode' \in Seq(Carried)
      BY <1>1
    <2>3. waiting' \in [DOMAIN waiting' -> LinkRequests]
      BY <1>1
    <2>4. current' \in Nat /\ opened' \in Nat /\ next' \in Nat
      BY <1>1, <2>1
    <2> QED BY <1>1, <1>2, <2>1, <2>2, <2>3, <2>4 DEF LinkTypes
  <1>4. Flights' /\ Once' /\ Link!TypeOK'
    BY <1>2 DEF Flights, Once, Link!TypeOK, Link!AgentLinkAssumption
  <1>5. Link!OwnAnswer' /\ Link!NeverBroken'
    BY <1>1 DEF LinkInv, Link!OwnAnswer, Link!NeverBroken, Link!Ident
  <1> QED BY <1>3, <1>4, <1>5 DEF LinkInv

(* next_message: a new number for a request that waited in the queue only.  *)
LEMMA NextMessageKeeps == ASSUME Link!AgentLinkAssumption, LinkInv, Link!NextMessage PROVE LinkInv'
  <1>1. /\ queue # <<>> /\ queue' = Tail(queue) /\ queue \in Seq(LinkRequests) /\ next \in Nat
        /\ DOMAIN waiting \subseteq Nat /\ waiting \in [DOMAIN waiting -> LinkRequests] /\ linkToCoord \in Seq(Carried)
        /\ UNCHANGED <<current, opened, linkToNode, caller, broken>>
    BY DEF Link!NextMessage, LinkInv, LinkTypes
  <1>2. /\ Head(queue) \in LinkRequests /\ Head(queue) = queue[1] /\ queue' \in Seq(LinkRequests)
        /\ Len(queue) \in Nat /\ 1 \in 1..Len(queue) /\ Len(queue') = Len(queue) - 1
        /\ \A i \in 1..Len(queue') : i + 1 \in 1..Len(queue) /\ queue'[i] = queue[i + 1]
    BY <1>1
  <1>3. Link!OwnAnswer' /\ Link!NeverBroken'
    BY <1>1 DEF LinkInv, Link!OwnAnswer, Link!NeverBroken, Link!Ident
  <1>4. Len(queue') <= Queue
    BY <1>2 DEF LinkInv, Link!TypeOK, Link!AgentLinkAssumption
  <1>5. /\ \A i \in 1..Len(queue') : Asked(queue'[i], caller') /\ queue'[i] # Head(queue)
        /\ \A i, j \in 1..Len(queue') : queue'[i] = queue'[j] => i = j
        /\ \A i \in 1..Len(queue'), n \in DOMAIN waiting : queue'[i] # waiting[n]
    <2>1. \A i \in 1..Len(queue') : Asked(queue'[i], caller')
      BY <1>1, <1>2 DEF LinkInv, Once
    <2>2. \A i \in 1..Len(queue') : queue'[i] # Head(queue)
      BY <1>2 DEF LinkInv, Once
    <2>3. ASSUME NEW i \in 1..Len(queue'), NEW j \in 1..Len(queue'), queue'[i] = queue'[j] PROVE i = j
      <3>1. i + 1 = j + 1
        BY <1>2, <2>3 DEF LinkInv, Once
      <3> QED BY <3>1
    <2>4. \A i \in 1..Len(queue'), n \in DOMAIN waiting : queue'[i] # waiting[n]
      BY <1>2 DEF LinkInv, Once
    <2> QED BY <2>1, <2>2, <2>3, <2>4
  <1>6. CASE Link!Closed(Head(queue))
    <2>1. UNCHANGED <<waiting, next, linkToCoord>>
      BY <1>6 DEF Link!NextMessage
    <2>2. LinkTypes' /\ Flights' /\ Once' /\ Link!TypeOK'
      BY <1>1, <1>2, <1>4, <1>5, <2>1 DEF LinkInv, LinkTypes, Flights, Waited, Once, Link!TypeOK
    <2> QED BY <1>3, <2>2 DEF LinkInv
  <1>7. CASE ~Link!Closed(Head(queue))
    <2> DEFINE r == Head(queue)
               m == [number |-> next, asked |-> r]
    <2>1. /\ waiting' = [n \in DOMAIN waiting \cup {next} |-> IF n = next THEN r ELSE waiting[n]]
          /\ next' = next + 1 /\ linkToCoord' = Append(linkToCoord, m)
      BY <1>7 DEF Link!NextMessage
    <2>2. next \notin DOMAIN waiting
      BY <1>1 DEF LinkInv, Flights
    <2>3. r \in LinkRequests /\ m \in Carried /\ m.number = next /\ m.asked = r /\ Asked(r, caller)
      BY <1>1, <1>2 DEF Carried, LinkInv, Once
    <2>4. \A i \in 1..Len(queue') : queue'[i] # r
      BY <1>5
    <2>5. \A n \in DOMAIN waiting : waiting[n] # r
      BY <1>2 DEF LinkInv, Once
    <2> HIDE DEF r, m
    <2>6. /\ DOMAIN waiting' = DOMAIN waiting \cup {next} /\ waiting'[next] = r
          /\ \A n \in DOMAIN waiting : waiting'[n] = waiting[n] /\ n # next
      BY <2>1, <2>2
    <2>7. LinkTypes'
      <3>1. waiting' \in [DOMAIN waiting' -> LinkRequests] /\ DOMAIN waiting' \subseteq Nat
        BY <1>1, <2>1, <2>3, <2>6
      <3>2. linkToCoord' \in Seq(Carried) /\ next' \in Nat
        BY <1>1, <2>1, <2>3
      <3> QED BY <1>1, <1>2, <3>1, <3>2 DEF LinkInv, LinkTypes
    <2>8. /\ Len(linkToCoord') = Len(linkToCoord) + 1 /\ Len(linkToCoord) \in Nat
          /\ \A i \in 1..Len(linkToCoord') : linkToCoord'[i] = IF i <= Len(linkToCoord) THEN linkToCoord[i] ELSE m
      BY <1>1, <2>1, <2>3
    <2>9. /\ \A i \in 1..Len(linkToCoord) : Waited(linkToCoord[i]) /\ linkToCoord[i].number # next
          /\ \A i \in 1..Len(linkToNode) : Waited(linkToNode[i]) /\ linkToNode[i].number # next
      BY <2>2 DEF LinkInv, Flights, Waited
    <2>10. Flights'
      <3>1. \A n \in DOMAIN waiting' : n < next'
        <4>1. \A n \in DOMAIN waiting : n \in Nat /\ n < next
          BY <1>1 DEF LinkInv, Flights
        <4> QED BY <1>1, <2>1, <2>6, <4>1
      <3>2. \A i \in 1..Len(linkToCoord') : linkToCoord'[i].number \in DOMAIN waiting' /\ waiting'[linkToCoord'[i].number] = linkToCoord'[i].asked
        BY <2>3, <2>6, <2>8, <2>9 DEF Waited
      <3>3. \A i \in 1..Len(linkToNode') : linkToNode'[i].number \in DOMAIN waiting' /\ waiting'[linkToNode'[i].number] = linkToNode'[i].asked
        BY <1>1, <2>6, <2>9 DEF Waited
      <3>4. \A i, j \in 1..Len(linkToCoord') : linkToCoord'[i].number = linkToCoord'[j].number => i = j
        BY <2>3, <2>8, <2>9 DEF LinkInv, Flights
      <3>5. \A i, j \in 1..Len(linkToNode') : linkToNode'[i].number = linkToNode'[j].number => i = j
        BY <1>1 DEF LinkInv, Flights
      <3>6. \A i \in 1..Len(linkToNode'), j \in 1..Len(linkToCoord') : linkToNode'[i].number # linkToCoord'[j].number
        BY <1>1, <2>3, <2>8, <2>9 DEF LinkInv, Flights
      <3> QED BY <3>1, <3>2, <3>3, <3>4, <3>5, <3>6 DEF Flights, Waited
    <2>11. Once'
      <3>1. \A n \in DOMAIN waiting' : Asked(waiting'[n], caller')
        BY <1>1, <2>3, <2>6 DEF LinkInv, Once
      <3>2. \A i \in 1..Len(queue'), n \in DOMAIN waiting' : queue'[i] # waiting'[n]
        BY <1>5, <2>4, <2>6
      <3> QED BY <1>5, <3>1, <3>2 DEF Once
    <2>12. Link!TypeOK'
      BY <1>4, <2>5, <2>6 DEF LinkInv, Link!TypeOK
    <2> QED BY <1>3, <2>7, <2>10, <2>11, <2>12 DEF LinkInv
  <1> QED BY <1>6, <1>7

(* The coordinator turns the oldest request into the newest answer.         *)
LEMMA CoordinatorKeeps == ASSUME Link!AgentLinkAssumption, LinkInv, Link!Coordinator PROVE LinkInv'
  <1> DEFINE m == Head(linkToCoord)
  <1>1. /\ linkToCoord # <<>> /\ linkToCoord' = Tail(linkToCoord) /\ linkToNode' = Append(linkToNode, m)
        /\ linkToCoord \in Seq(Carried) /\ linkToNode \in Seq(Carried)
        /\ UNCHANGED <<current, opened, queue, waiting, next, caller, broken>>
    BY DEF Link!Coordinator, LinkInv, LinkTypes
  <1>2. /\ m \in Carried /\ m = linkToCoord[1] /\ linkToCoord' \in Seq(Carried)
        /\ Len(linkToCoord) \in Nat /\ 1 \in 1..Len(linkToCoord) /\ Len(linkToCoord') = Len(linkToCoord) - 1
        /\ \A i \in 1..Len(linkToCoord') : i + 1 \in 1..Len(linkToCoord) /\ linkToCoord'[i] = linkToCoord[i + 1]
    BY <1>1
  <1> HIDE DEF m
  <1>3. /\ linkToNode' \in Seq(Carried) /\ Len(linkToNode') = Len(linkToNode) + 1 /\ Len(linkToNode) \in Nat
        /\ \A i \in 1..Len(linkToNode') : linkToNode'[i] = IF i <= Len(linkToNode) THEN linkToNode[i] ELSE m
    BY <1>1, <1>2
  <1>4. LinkTypes'
    BY <1>1, <1>2, <1>3 DEF LinkInv, LinkTypes
  <1>5. /\ \A i \in 1..Len(linkToNode) : linkToNode[i].number # m.number
        /\ \A i \in 1..Len(linkToCoord') : linkToCoord'[i].number # m.number
    BY <1>2 DEF LinkInv, Flights
  <1>6. Flights'
    <2>1. \A i \in 1..Len(linkToCoord') : Waited(linkToCoord[i + 1])
      BY <1>2 DEF LinkInv, Flights
    <2>2. Waited(m) /\ \A i \in 1..Len(linkToNode) : Waited(linkToNode[i])
      BY <1>2 DEF LinkInv, Flights
    <2>3. /\ \A i \in 1..Len(linkToCoord') : linkToCoord'[i].number \in DOMAIN waiting' /\ waiting'[linkToCoord'[i].number] = linkToCoord'[i].asked
          /\ \A i \in 1..Len(linkToNode') : linkToNode'[i].number \in DOMAIN waiting' /\ waiting'[linkToNode'[i].number] = linkToNode'[i].asked
      BY <1>1, <1>2, <1>3, <2>1, <2>2 DEF Waited
    <2>4. ASSUME NEW i \in 1..Len(linkToCoord'), NEW j \in 1..Len(linkToCoord'), linkToCoord'[i].number = linkToCoord'[j].number
          PROVE  i = j
      <3>1. i + 1 = j + 1
        BY <1>2, <2>4 DEF LinkInv, Flights
      <3> QED BY <3>1
    <2>5. \A i, j \in 1..Len(linkToNode') : linkToNode'[i].number = linkToNode'[j].number => i = j
      BY <1>3, <1>5 DEF LinkInv, Flights
    <2>6. \A i \in 1..Len(linkToNode'), j \in 1..Len(linkToCoord') : linkToNode'[i].number # linkToCoord'[j].number
      <3>1. \A i \in 1..Len(linkToNode), j \in 1..Len(linkToCoord') : linkToNode[i].number # linkToCoord'[j].number
        BY <1>2 DEF LinkInv, Flights
      <3> QED BY <1>3, <1>5, <3>1
    <2> QED BY <1>1, <2>3, <2>4, <2>5, <2>6 DEF LinkInv, Flights, Waited
  <1>7. Once' /\ Link!TypeOK' /\ Link!OwnAnswer' /\ Link!NeverBroken'
    BY <1>1 DEF LinkInv, Once, Link!TypeOK, Link!OwnAnswer, Link!NeverBroken, Link!Ident
  <1> QED BY <1>4, <1>6, <1>7 DEF LinkInv

(* answer: the number has its waiter, and leaves with it.                   *)
LEMMA AnswerKeeps == ASSUME Link!AgentLinkAssumption, LinkInv, Link!Answer PROVE LinkInv'
  <1> DEFINE m == Head(linkToNode)
             n == m.number
             r == waiting[n]
  <1>1. /\ linkToNode # <<>> /\ linkToNode' = Tail(linkToNode) /\ linkToNode \in Seq(Carried) /\ linkToCoord \in Seq(Carried)
        /\ waiting \in [DOMAIN waiting -> LinkRequests] /\ caller \in [Callers -> LinkStates]
        /\ UNCHANGED <<current, opened, queue, next, linkToCoord>>
    BY DEF Link!Answer, LinkInv, LinkTypes
  <1>2. /\ m = linkToNode[1] /\ linkToNode' \in Seq(Carried)
        /\ Len(linkToNode) \in Nat /\ 1 \in 1..Len(linkToNode) /\ Len(linkToNode') = Len(linkToNode) - 1
        /\ \A i \in 1..Len(linkToNode') : i + 1 \in 1..Len(linkToNode) /\ linkToNode'[i] = linkToNode[i + 1]
    BY <1>1
  <1>3. n \in DOMAIN waiting /\ r = m.asked
    BY <1>2 DEF LinkInv, Flights, Waited
  <1>4. /\ waiting' = [k \in DOMAIN waiting \ {n} |-> waiting[k]] /\ broken' = broken
        /\ IF Link!Closed(r) THEN UNCHANGED caller
           ELSE caller' = [caller EXCEPT ![r.by].step = "answered", ![r.by].answer = m.asked]
    BY <1>3 DEF Link!Answer, Link!AnswerKnown, Link!WaiterOf
  <1>5. r \in LinkRequests /\ r.by \in Callers
    BY <1>1, <1>3 DEF LinkRequests
  <1>6. /\ \A i \in 1..Len(linkToNode') : Waited(linkToNode'[i]) /\ linkToNode'[i].number # n
        /\ \A i \in 1..Len(linkToCoord) : Waited(linkToCoord[i]) /\ linkToCoord[i].number # n
    <2>1. ASSUME NEW i \in 1..Len(linkToNode') PROVE Waited(linkToNode'[i]) /\ linkToNode'[i].number # n
      <3>1. Waited(linkToNode[i + 1])
        BY <1>2 DEF LinkInv, Flights
      <3>2. linkToNode[i + 1].number = n => i + 1 = 1
        BY <1>2 DEF LinkInv, Flights
      <3> QED BY <1>2, <3>1, <3>2
    <2>2. \A i \in 1..Len(linkToCoord) : Waited(linkToCoord[i]) /\ linkToCoord[i].number # n
      BY <1>2 DEF LinkInv, Flights
    <2> QED BY <2>1, <2>2
  <1> HIDE DEF m, n, r
  <1>7. DOMAIN waiting' = DOMAIN waiting \ {n} /\ \A k \in DOMAIN waiting' : waiting'[k] = waiting[k]
    BY <1>4
  <1>8. /\ caller' \in [Callers -> LinkStates]
        /\ \A d \in Callers : d # r.by => caller'[d] = caller[d]
        /\ caller'[r.by].call = caller[r.by].call /\ (caller'[r.by].step = "sending" => caller[r.by].step = "sending")
    <2>1. CASE Link!Closed(r)
      BY <1>1, <1>4, <2>1
    <2>2. CASE ~Link!Closed(r)
      <3>1. caller' = [caller EXCEPT ![r.by].step = "answered", ![r.by].answer = r]
        BY <1>3, <1>4, <2>2
      <3>2. caller'[r.by] = [caller[r.by] EXCEPT !.step = "answered", !.answer = r]
            /\ \A d \in Callers : d # r.by => caller'[d] = caller[d]
        BY <1>1, <1>5, <3>1
      <3>3. caller[r.by] \in LinkStates /\ caller'[r.by] \in LinkStates
        <4>1. caller[r.by] \in LinkStates
          BY <1>1, <1>5
        <4>2. \A u \in LinkStates, x \in LinkRequests : [u EXCEPT !.step = "answered", !.answer = x] \in LinkStates
          BY DEF LinkStates, LinkSteps
        <4>3. [caller[r.by] EXCEPT !.step = "answered", !.answer = r] \in LinkStates
          BY <1>5, <4>1, <4>2, Zenon
        <4> QED BY <3>2, <4>1, <4>3, Zenon
      <3>4. caller' \in [Callers -> LinkStates]
        BY <1>1, <3>1, <3>2, <3>3
      <3> QED BY <3>2, <3>3, <3>4 DEF LinkStates
    <2> QED BY <2>1, <2>2
  <1>9. LinkTypes'
    <2>1. waiting' \in [DOMAIN waiting' -> LinkRequests]
      BY <1>1, <1>4, <1>7
    <2> QED BY <1>1, <1>2, <1>4, <1>7, <1>8, <2>1 DEF LinkInv, LinkTypes
  <1>10. Flights'
    <2>1. \A i \in 1..Len(linkToNode') : linkToNode'[i].number \in DOMAIN waiting' /\ waiting'[linkToNode'[i].number] = linkToNode'[i].asked
      BY <1>6, <1>7 DEF Waited
    <2>2. \A i \in 1..Len(linkToCoord') : linkToCoord'[i].number \in DOMAIN waiting' /\ waiting'[linkToCoord'[i].number] = linkToCoord'[i].asked
      BY <1>1, <1>6, <1>7 DEF Waited
    <2>3. ASSUME NEW i \in 1..Len(linkToNode'), NEW j \in 1..Len(linkToNode'), linkToNode'[i].number = linkToNode'[j].number
          PROVE  i = j
      <3>1. i + 1 = j + 1
        BY <1>2, <2>3 DEF LinkInv, Flights
      <3> QED BY <3>1
    <2>4. \A i \in 1..Len(linkToNode'), j \in 1..Len(linkToCoord') : linkToNode'[i].number # linkToCoord'[j].number
      BY <1>1, <1>2 DEF LinkInv, Flights
    <2> QED BY <1>1, <1>7, <2>1, <2>2, <2>3, <2>4 DEF LinkInv, Flights, Waited
  <1>11. Once'
    <2>1. \A x \in LinkRequests : Asked(x, caller) => Asked(x, caller')
      BY <1>1, <1>5, <1>8, AskedKept
    <2>2. /\ \A i \in 1..Len(queue') : queue'[i] \in LinkRequests
          /\ \A k \in DOMAIN waiting' : waiting'[k] \in LinkRequests
      BY <1>9 DEF LinkTypes
    <2> QED BY <1>1, <1>7, <2>1, <2>2 DEF LinkInv, Once
  <1>12. Link!TypeOK' /\ Link!NeverBroken'
    BY <1>1, <1>4, <1>7 DEF LinkInv, Link!TypeOK, Link!NeverBroken
  <1>13. Link!OwnAnswer'
    <2>1. ASSUME NEW c \in Callers, caller'[c].step = "answered"
          PROVE  caller'[c].answer = [by |-> c, call |-> caller'[c].call]
      <3>1. CASE c # r.by \/ Link!Closed(r)
        <4>1. caller'[c] = caller[c]
          BY <1>4, <1>8, <3>1
        <4> QED BY <2>1, <4>1 DEF LinkInv, Link!OwnAnswer, Link!Ident
      <3>2. CASE c = r.by /\ ~Link!Closed(r)
        <4>1. caller[c].call = r.call
          BY <3>2 DEF Link!Closed
        <4>2. caller' = [caller EXCEPT ![r.by].step = "answered", ![r.by].answer = r]
          BY <1>3, <1>4, <3>2
        <4>3. caller'[c].answer = r /\ caller'[c].call = r.call
          BY <1>1, <1>8, <3>2, <4>1, <4>2 DEF LinkStates
        <4>4. r = [by |-> c, call |-> r.call]
          BY <1>5, <3>2 DEF LinkRequests
        <4> QED BY <4>3, <4>4
      <3> QED BY <3>1, <3>2
    <2> QED BY <2>1 DEF Link!OwnAnswer, Link!Ident
  <1> QED BY <1>9, <1>10, <1>11, <1>12, <1>13 DEF LinkInv

LEMMA StutterLink == ASSUME LinkInv, UNCHANGED Link!vars PROVE LinkInv'
  BY DEF Link!vars, LinkInv, LinkTypes, Flights, Waited, Once, Link!TypeOK, Link!OwnAnswer, Link!NeverBroken,
     Link!Ident

(* For any callers, calls and sessions: a caller gets the answer to the     *)
(* request it waits for, although callers give up, ask again and answers    *)
(* come late, and a late answer never ends the session (next_message,       *)
(* answer).                                                                 *)
THEOREM CallersGetTheirAnswer ==
    ASSUME Link!AgentLinkAssumption PROVE Link!Spec => [](Link!TypeOK /\ Link!OwnAnswer /\ Link!NeverBroken)
  <1>1. Link!Init => LinkInv
    BY InitLink
  <1>2. LinkInv /\ [Link!Next]_(Link!vars) => LinkInv'
    BY CallersKeep, SessionsKeep, NextMessageKeeps, CoordinatorKeeps, AnswerKeeps, StutterLink DEF Link!Next
  <1>3. LinkInv => Link!TypeOK /\ Link!OwnAnswer /\ Link!NeverBroken
    BY DEF LinkInv
  <1> QED BY <1>1, <1>2, <1>3, PTL DEF Link!Spec

-----------------------------------------------------------------------------
(* Proof that nobody waits for a connection that has ended *)

LEMMA HostCounts == \A S : Cardinality(S) = HostLink!Cardinality(S) /\ (IsFiniteSet(S) <=> HostLink!IsFiniteSet(S))
  BY DEF Cardinality, HostLink!Cardinality, IsFiniteSet, HostLink!IsFiniteSet

Connections == [node : HostNodes, n : Nat]
HostSteps == {"new", "admitted", "sending", "waiting", "told", "dropped"}
Outcomes == {"busy", "offline", "ambiguous", "disconnected", "timeout", "answer"}
HostStates == [step : HostSteps, on : Connections \cup {None}, told : Outcomes \cup {None}]
HostTypes ==
    /\ hostConn \in [HostNodes -> Nat] /\ count \in [HostNodes -> Nat] /\ open \subseteq Connections /\ serves \subseteq HostNodes
    /\ hostCall \in [SurfaceCalls -> HostStates] /\ pending \in [DOMAIN pending -> Connections]

(* The connection in the table of nodes is one that was not cleaned up.     *)
Current == \A n \in HostNodes : hostConn[n] # 0 => [node |-> n, n |-> hostConn[n]] \in open

(* Only a dispatched call is registered.                                    *)
Registered == \A c \in DOMAIN pending : c \in SurfaceCalls /\ hostCall[c].step \in {"sending", "waiting"}

CallsInv == HostTypes /\ Current /\ Registered /\ IsFiniteSet(HostLink!Waiting) /\ HostLink!TypeOK /\ HostLink!WaitsForLive

LEMMA InitCalls == ASSUME HostLink!HostCallsAssumption PROVE HostLink!Init => CallsInv
  <1> SUFFICES ASSUME HostLink!Init PROVE CallsInv
    OBVIOUS
  <1>1. HostLink!Waiting = {} /\ DOMAIN pending = {}
    BY DEF HostLink!Init, HostLink!Waiting
  <1>2. HostTypes
    <2>1. hostCall \in [SurfaceCalls -> HostStates]
      BY DEF HostLink!Init, HostStates, HostSteps
    <2>2. pending \in [DOMAIN pending -> Connections]
      BY DEF HostLink!Init
    <2> QED BY <2>1, <2>2 DEF HostLink!Init, HostTypes
  <1>3. Current /\ Registered /\ HostLink!WaitsForLive
    BY <1>1 DEF HostLink!Init, Current, Registered, HostLink!WaitsForLive
  <1>4. IsFiniteSet(HostLink!Waiting) /\ HostLink!TypeOK
    BY <1>1, FS_EmptySet, HostCounts DEF HostLink!TypeOK, HostLink!HostCallsAssumption
  <1> QED BY <1>2, <1>3, <1>4 DEF CallsInv

(* Fewer calls wait: the slots suffice.                                     *)
LEMMA FewerWait ==
    ASSUME HostLink!HostCallsAssumption, CallsInv, HostLink!Waiting' \subseteq HostLink!Waiting
    PROVE  IsFiniteSet(HostLink!Waiting') /\ Cardinality(HostLink!Waiting') <= MaxSlots
  <1>1. IsFiniteSet(HostLink!Waiting') /\ Cardinality(HostLink!Waiting') <= Cardinality(HostLink!Waiting)
    BY FS_Subset DEF CallsInv
  <1>2. Cardinality(HostLink!Waiting) \in Nat /\ Cardinality(HostLink!Waiting') \in Nat
    BY <1>1, FS_CardinalityType DEF CallsInv
  <1> QED BY <1>1, <1>2, HostCounts DEF CallsInv, HostLink!TypeOK, HostLink!HostCallsAssumption

(* A call moves on; registrations of other calls stay or go.                *)
LEMMA HostCallStep ==
    ASSUME HostLink!HostCallsAssumption, CallsInv, NEW c \in SurfaceCalls, NEW u \in HostStates,
           hostCall' = [hostCall EXCEPT ![c] = u],
           c \in HostLink!Waiting \/ u.step = "told",
           u.step \in {"sending", "waiting"} \/ c \notin DOMAIN pending',
           UNCHANGED <<hostConn, open, count, serves>>,
           pending' \in [DOMAIN pending' -> Connections],
           DOMAIN pending' \subseteq DOMAIN pending \cup {c},
           \A d \in DOMAIN pending' : HostLink!Live(pending'[d])
    PROVE  CallsInv'
  <1>1. hostCall \in [SurfaceCalls -> HostStates] /\ hostCall' \in [SurfaceCalls -> HostStates] /\ hostCall'[c] = u
        /\ \A d \in SurfaceCalls : d # c => hostCall'[d] = hostCall[d]
    BY DEF CallsInv, HostTypes
  <1>2. HostTypes' /\ Current'
    BY <1>1 DEF CallsInv, HostTypes, Current
  <1>3. HostLink!Waiting' \subseteq HostLink!Waiting
    BY <1>1 DEF HostLink!Waiting
  <1>4. Registered' /\ DOMAIN pending' \subseteq HostLink!Waiting'
    BY <1>1 DEF CallsInv, Registered, HostLink!Waiting
  <1>5. HostLink!WaitsForLive'
    BY DEF HostLink!WaitsForLive, HostLink!Live
  <1> QED BY <1>2, <1>3, <1>4, <1>5, FewerWait, HostCounts DEF CallsInv, HostLink!TypeOK

LEMMA ToldOutcome == ASSUME NEW t \in Outcomes PROVE [step |-> "told", on |-> None, told |-> t] \in HostStates
  BY DEF HostStates, HostSteps

LEMMA UnregisteredFacts ==
    ASSUME CallsInv, NEW c
    PROVE  /\ HostLink!Unregistered(c) \in [DOMAIN HostLink!Unregistered(c) -> Connections]
           /\ DOMAIN HostLink!Unregistered(c) = DOMAIN pending \ {c}
           /\ \A d \in DOMAIN HostLink!Unregistered(c) : HostLink!Live(HostLink!Unregistered(c)[d])
  <1>1. pending \in [DOMAIN pending -> Connections] /\ \A d \in DOMAIN pending : HostLink!Live(pending[d])
    BY DEF CallsInv, HostTypes, HostLink!WaitsForLive
  <1>2. DOMAIN HostLink!Unregistered(c) = DOMAIN pending \ {c} /\ \A d \in DOMAIN pending \ {c} : HostLink!Unregistered(c)[d] = pending[d]
    BY DEF HostLink!Unregistered
  <1>3. HostLink!Unregistered(c) \in [DOMAIN pending \ {c} -> Connections]
    BY <1>1 DEF HostLink!Unregistered
  <1> QED BY <1>1, <1>2, <1>3

LEMMA CallHostKeeps ==
    ASSUME HostLink!HostCallsAssumption, CallsInv, NEW c \in SurfaceCalls, HostLink!CallHost(c)
    PROVE  CallsInv'
  <1>1. /\ hostCall \in [SurfaceCalls -> HostStates] /\ hostCall[c].step = "new" /\ pending \in [DOMAIN pending -> Connections]
        /\ UNCHANGED <<hostConn, open, count, serves, pending>>
    BY DEF HostLink!CallHost, CallsInv, HostTypes
  <1>2. c \notin HostLink!Waiting /\ c \notin DOMAIN pending /\ \A d \in DOMAIN pending : HostLink!Live(pending[d])
    BY <1>1 DEF HostLink!Waiting, CallsInv, HostLink!TypeOK, HostLink!WaitsForLive
  <1>3. CASE HostLink!SlotFree
    <2>1. hostCall' = [hostCall EXCEPT ![c].step = "admitted"]
      BY <1>3 DEF HostLink!CallHost
    <2>2. hostCall' \in [SurfaceCalls -> HostStates] /\ hostCall'[c].step = "admitted" /\ \A d \in SurfaceCalls : d # c => hostCall'[d] = hostCall[d]
      BY <1>1, <2>1 DEF HostStates, HostSteps
    <2>3. HostLink!Waiting' = HostLink!Waiting \cup {c}
      BY <2>2 DEF HostLink!Waiting
    <2>4. IsFiniteSet(HostLink!Waiting') /\ Cardinality(HostLink!Waiting') = Cardinality(HostLink!Waiting) + 1
      BY <1>2, <2>3, FS_AddElement DEF CallsInv
    <2>5. Cardinality(HostLink!Waiting) \in Nat /\ Cardinality(HostLink!Waiting) < MaxSlots
      BY <1>3, FS_CardinalityType, HostCounts DEF HostLink!SlotFree, CallsInv
    <2>6. Cardinality(HostLink!Waiting') <= MaxSlots
      BY <2>4, <2>5 DEF HostLink!HostCallsAssumption
    <2>7. Registered'
      BY <1>1, <1>2, <2>2 DEF CallsInv, Registered
    <2> QED BY <1>1, <2>2, <2>3, <2>4, <2>6, <2>7, HostCounts DEF CallsInv, HostTypes, Current, HostLink!TypeOK,
               HostLink!WaitsForLive, HostLink!Live
  <1>4. CASE ~HostLink!SlotFree
    <2>1. hostCall' = [hostCall EXCEPT ![c] = [step |-> "told", on |-> None, told |-> "busy"]]
      BY <1>4 DEF HostLink!CallHost, HostLink!Told
    <2>2. [step |-> "told", on |-> None, told |-> "busy"] \in HostStates
      BY ToldOutcome DEF Outcomes
    <2> QED BY <1>1, <1>2, <2>1, <2>2, HostCallStep
  <1> QED BY <1>3, <1>4

LEMMA DispatchKeeps ==
    ASSUME HostLink!HostCallsAssumption, CallsInv, NEW c \in SurfaceCalls, HostLink!Dispatch(c)
    PROVE  CallsInv'
  <1>1. /\ hostCall \in [SurfaceCalls -> HostStates] /\ hostCall[c].step = "admitted" /\ pending \in [DOMAIN pending -> Connections]
        /\ UNCHANGED <<hostConn, open, count, serves>>
    BY DEF HostLink!Dispatch, CallsInv, HostTypes
  <1>2. c \in HostLink!Waiting /\ \A d \in DOMAIN pending : HostLink!Live(pending[d])
    BY <1>1 DEF HostLink!Waiting, CallsInv, HostLink!WaitsForLive
  <1>3. CASE Cardinality(HostLink!Serving) # 1
    <2>1. PICK t \in Outcomes : hostCall' = [hostCall EXCEPT ![c] = [step |-> "told", on |-> None, told |-> t]]
      BY <1>3, HostCounts DEF HostLink!Dispatch, HostLink!Told, Outcomes
    <2>2. pending' = pending
      BY <1>3, HostCounts DEF HostLink!Dispatch
    <2>3. c \notin DOMAIN pending
      BY <1>1 DEF CallsInv, Registered
    <2>4. [step |-> "told", on |-> None, told |-> t] \in HostStates
      BY ToldOutcome
    <2> QED BY <1>1, <1>2, <2>1, <2>2, <2>3, <2>4, HostCallStep
  <1>4. CASE Cardinality(HostLink!Serving) = 1
    <2>1. PICK n \in HostLink!Serving :
            /\ pending' = [d \in DOMAIN pending \cup {c} |-> IF d = c THEN [node |-> n, n |-> hostConn[n]] ELSE pending[d]]
            /\ hostCall' = [hostCall EXCEPT ![c] = [step |-> "sending", on |-> [node |-> n, n |-> hostConn[n]], told |-> None]]
      BY <1>4, HostCounts DEF HostLink!Dispatch
    <2> DEFINE k == [node |-> n, n |-> hostConn[n]]
    <2>2. k \in Connections /\ HostLink!Live(k)
      BY DEF HostLink!Serving, CallsInv, HostTypes, Current, HostLink!Live, Connections
    <2> HIDE DEF k
    <2>3. [step |-> "sending", on |-> k, told |-> None] \in HostStates
      BY <2>2 DEF HostStates, HostSteps
    <2>4. DOMAIN pending' = DOMAIN pending \cup {c} /\ \A d \in DOMAIN pending' : pending'[d] = IF d = c THEN k ELSE pending[d]
      BY <2>1 DEF k
    <2>5. pending' \in [DOMAIN pending' -> Connections] /\ \A d \in DOMAIN pending' : HostLink!Live(pending'[d])
      BY <1>1, <1>2, <2>1, <2>2, <2>4 DEF k
    <2> QED BY <1>1, <1>2, <2>1, <2>3, <2>4, <2>5, HostCallStep DEF k
  <1> QED BY <1>3, <1>4

(* A call is told an outcome and its registration goes.                     *)
LEMMA ToldKeeps ==
    ASSUME HostLink!HostCallsAssumption, CallsInv, NEW c \in SurfaceCalls, NEW t \in Outcomes,
           hostCall' = HostLink!Told(c, t), pending' = HostLink!Unregistered(c), UNCHANGED <<hostConn, open, count, serves>>
    PROVE  CallsInv'
  <1>1. hostCall' = [hostCall EXCEPT ![c] = [step |-> "told", on |-> None, told |-> t]]
    BY DEF HostLink!Told
  <1>2. [step |-> "told", on |-> None, told |-> t] \in HostStates
    BY ToldOutcome
  <1>3. /\ pending' \in [DOMAIN pending' -> Connections] /\ DOMAIN pending' = DOMAIN pending \ {c}
        /\ \A d \in DOMAIN pending' : HostLink!Live(pending'[d])
    BY UnregisteredFacts
  <1> QED BY <1>1, <1>2, <1>3, HostCallStep

LEMMA SendCallKeeps ==
    ASSUME HostLink!HostCallsAssumption, CallsInv, NEW c \in SurfaceCalls, HostLink!SendCall(c)
    PROVE  CallsInv'
  <1>1. hostCall \in [SurfaceCalls -> HostStates] /\ hostCall[c].step = "sending" /\ UNCHANGED <<hostConn, open, count, serves>>
    BY DEF HostLink!SendCall, CallsInv, HostTypes
  <1>2. CASE HostLink!Live(hostCall[c].on)
    <2> DEFINE u == [hostCall[c] EXCEPT !.step = "waiting"]
    <2>1. hostCall' = [hostCall EXCEPT ![c] = u] /\ pending' = pending
      BY <1>2 DEF HostLink!SendCall
    <2>2. u \in HostStates /\ u.step = "waiting"
      BY <1>1 DEF HostStates, HostSteps
    <2>3. c \in HostLink!Waiting /\ pending \in [DOMAIN pending -> Connections] /\ \A d \in DOMAIN pending : HostLink!Live(pending[d])
      BY <1>1 DEF HostLink!Waiting, CallsInv, HostTypes, HostLink!WaitsForLive
    <2> HIDE DEF u
    <2> QED BY <1>1, <2>1, <2>2, <2>3, HostCallStep
  <1>3. CASE ~HostLink!Live(hostCall[c].on)
    BY <1>1, <1>3, ToldKeeps DEF HostLink!SendCall, Outcomes
  <1> QED BY <1>2, <1>3

LEMMA DisconnectedKeeps ==
    ASSUME HostLink!HostCallsAssumption, CallsInv, NEW c \in SurfaceCalls, HostLink!Disconnected(c)
    PROVE  CallsInv'
  <1>1. /\ c \notin DOMAIN pending /\ UNCHANGED <<hostConn, open, count, serves, pending>>
        /\ hostCall' = [hostCall EXCEPT ![c] = [step |-> "told", on |-> None, told |-> "disconnected"]]
        /\ pending \in [DOMAIN pending -> Connections] /\ \A d \in DOMAIN pending : HostLink!Live(pending[d])
    BY DEF HostLink!Disconnected, HostLink!Told, CallsInv, HostTypes, HostLink!WaitsForLive
  <1>2. [step |-> "told", on |-> None, told |-> "disconnected"] \in HostStates
    BY ToldOutcome DEF Outcomes
  <1> QED BY <1>1, <1>2, HostCallStep

LEMMA CloseSurfaceKeeps == ASSUME HostLink!HostCallsAssumption, CallsInv, HostLink!CloseSurface PROVE CallsInv'
  <1> DEFINE u == [step |-> "dropped", on |-> None, told |-> None]
  <1>1. /\ hostCall' = [c \in SurfaceCalls |-> IF c \in HostLink!Waiting THEN u ELSE hostCall[c]]
        /\ pending' = [d \in DOMAIN pending \ HostLink!Waiting |-> pending[d]]
        /\ UNCHANGED <<hostConn, open, count, serves>>
    BY DEF HostLink!CloseSurface
  <1>2. u \in HostStates /\ u.step = "dropped"
    BY DEF HostStates, HostSteps
  <1> HIDE DEF u
  <1>3. DOMAIN pending' = {}
    BY <1>1 DEF CallsInv, HostLink!TypeOK
  <1>4. HostTypes'
    <2>1. hostCall' \in [SurfaceCalls -> HostStates]
      BY <1>1, <1>2 DEF CallsInv, HostTypes
    <2>2. pending' \in [DOMAIN pending' -> Connections]
      BY <1>1, <1>3
    <2> QED BY <1>1, <2>1, <2>2 DEF CallsInv, HostTypes
  <1>5. HostLink!Waiting' \subseteq HostLink!Waiting
    BY <1>1, <1>2 DEF HostLink!Waiting
  <1>6. Current' /\ Registered' /\ HostLink!WaitsForLive'
    BY <1>1, <1>3 DEF CallsInv, Current, Registered, HostLink!WaitsForLive
  <1> QED BY <1>3, <1>4, <1>5, <1>6, FewerWait, HostCounts DEF CallsInv, HostLink!TypeOK

LEMMA CompleteKeeps ==
    ASSUME HostLink!HostCallsAssumption, CallsInv, NEW m, HostLink!Complete(m)
    PROVE  CallsInv'
  <1>1. UNCHANGED <<hostConn, open, count, serves>>
    BY DEF HostLink!Complete
  <1>2. CASE HostLink!OfConnection(m.call, m.on)
    <2>1. m.call \in SurfaceCalls
      BY <1>2 DEF HostLink!OfConnection, CallsInv, Registered
    <2> QED BY <1>1, <1>2, <2>1, ToldKeeps DEF HostLink!Complete, Outcomes
  <1>3. CASE ~HostLink!OfConnection(m.call, m.on)
    <2>1. UNCHANGED <<hostCall, pending>>
      BY <1>3 DEF HostLink!Complete
    <2> QED BY <1>1, <2>1 DEF CallsInv, HostTypes, Current, Registered, HostLink!TypeOK, HostLink!WaitsForLive,
               HostLink!Waiting, HostLink!Live
  <1> QED BY <1>2, <1>3

LEMMA ConnectKeeps ==
    ASSUME HostLink!HostCallsAssumption, CallsInv, NEW n \in HostNodes, HostLink!Connect(n)
    PROVE  CallsInv'
  <1> DEFINE k == [node |-> n, n |-> count[n] + 1]
  <1>1. /\ count' = [count EXCEPT ![n] = @ + 1] /\ hostConn' = [hostConn EXCEPT ![n] = count[n] + 1]
        /\ open' = open \cup {k} /\ UNCHANGED <<serves, hostCall, pending>>
    BY DEF HostLink!Connect
  <1>2. hostConn \in [HostNodes -> Nat] /\ count \in [HostNodes -> Nat] /\ open \subseteq Connections /\ k \in Connections
    BY DEF CallsInv, HostTypes, Connections
  <1>3. HostTypes'
    BY <1>1, <1>2 DEF CallsInv, HostTypes
  <1>4. Current'
    BY <1>1, <1>2 DEF CallsInv, Current
  <1>5. HostLink!WaitsForLive'
    BY <1>1 DEF CallsInv, HostLink!WaitsForLive, HostLink!Live
  <1> QED BY <1>1, <1>3, <1>4, <1>5 DEF CallsInv, Registered, HostLink!TypeOK, HostLink!Waiting

(* end_connection drops what waits for the connection, also when a newer    *)
(* one has replaced it in the table.                                        *)
LEMMA CleanupKeeps ==
    ASSUME HostLink!HostCallsAssumption, CallsInv, NEW k \in open, HostLink!CleanupConnection(k)
    PROVE  CallsInv'
  <1>1. /\ open' = open \ {k} /\ UNCHANGED <<count, serves, hostCall>>
        /\ hostConn' = IF hostConn[k.node] = k.n THEN [hostConn EXCEPT ![k.node] = 0] ELSE hostConn
        /\ pending' = [d \in {e \in DOMAIN pending : pending[e] # k} |-> pending[d]]
    BY DEF HostLink!CleanupConnection, HostLink!Ended
  <1>2. /\ hostConn \in [HostNodes -> Nat] /\ open \subseteq Connections /\ k.node \in HostNodes /\ k.n \in Nat
        /\ k = [node |-> k.node, n |-> k.n] /\ pending \in [DOMAIN pending -> Connections]
    BY DEF CallsInv, HostTypes, Connections
  <1>3. /\ DOMAIN pending' = {e \in DOMAIN pending : pending[e] # k}
        /\ \A d \in DOMAIN pending' : pending'[d] = pending[d] /\ pending[d] # k
    BY <1>1
  <1>4. HostTypes'
    <2>1. pending' \in [DOMAIN pending' -> Connections]
      BY <1>1, <1>2, <1>3
    <2>2. hostConn' \in [HostNodes -> Nat]
      BY <1>1, <1>2
    <2> QED BY <1>1, <2>1, <2>2 DEF CallsInv, HostTypes
  <1>5. Current'
    <2>1. ASSUME NEW n \in HostNodes, hostConn'[n] # 0 PROVE [node |-> n, n |-> hostConn'[n]] \in open'
      <3>1. hostConn'[n] = hostConn[n] /\ ~(n = k.node /\ hostConn[n] = k.n)
        BY <1>1, <1>2, <2>1
      <3>2. [node |-> n, n |-> hostConn[n]] \in open
        BY <2>1, <3>1 DEF CallsInv, Current
      <3>3. [node |-> n, n |-> hostConn[n]].node = n /\ [node |-> n, n |-> hostConn[n]].n = hostConn[n]
        OBVIOUS
      <3>4. [node |-> n, n |-> hostConn[n]] # k
        BY <3>1, <3>3
      <3> QED BY <1>1, <3>1, <3>2, <3>4
    <2> QED BY <2>1 DEF Current
  <1>6. HostLink!WaitsForLive' /\ Registered'
    BY <1>1, <1>3 DEF CallsInv, HostLink!WaitsForLive, HostLink!Live, Registered
  <1>7. HostLink!TypeOK' /\ IsFiniteSet(HostLink!Waiting')
    BY <1>1, <1>3 DEF CallsInv, HostLink!TypeOK, HostLink!Waiting
  <1> QED BY <1>4, <1>5, <1>6, <1>7 DEF CallsInv

(* A step that touches neither the table of calls nor the connections.      *)
LEMMA CallsStay ==
    ASSUME CallsInv, UNCHANGED <<hostConn, open, count, serves, hostCall, pending>>
    PROVE  CallsInv'
  BY DEF CallsInv, HostTypes, Current, Registered, HostLink!TypeOK, HostLink!WaitsForLive, HostLink!Waiting,
     HostLink!Live

(* For any calls, nodes and connections: the calls of a surface stay within *)
(* their slots, the table holds only calls somebody waits for, and no call  *)
(* waits for a connection that has ended, also when the node has replaced   *)
(* it (dispatch, complete, end_connection).                                 *)
THEOREM NobodyWaitsForTheDead ==
    ASSUME HostLink!HostCallsAssumption
    PROVE  HostLink!Spec => [](HostLink!TypeOK /\ HostLink!WaitsForLive)
  <1>1. HostLink!Init => CallsInv
    BY InitCalls
  <1>2. ASSUME CallsInv, NEW c \in SurfaceCalls, HostLink!TimedOut(c) PROVE CallsInv'
    BY <1>2, ToldKeeps DEF HostLink!TimedOut, Outcomes
  <1>3. ASSUME CallsInv, NEW m, HostLink!StartCall(m) \/ HostLink!FinishCall(m) PROVE CallsInv'
    BY <1>3, CallsStay DEF HostLink!StartCall, HostLink!FinishCall
  <1>4. CallsInv /\ HostLink!Next => CallsInv'
    BY <1>2, <1>3, CallHostKeeps, DispatchKeeps, SendCallKeeps, DisconnectedKeeps, CloseSurfaceKeeps,
       CompleteKeeps, ConnectKeeps, CleanupKeeps DEF HostLink!Next
  <1>5. CallsInv /\ [HostLink!Next]_(HostLink!vars) => CallsInv'
    BY <1>4, CallsStay DEF HostLink!vars
  <1>6. CallsInv => HostLink!TypeOK /\ HostLink!WaitsForLive
    BY DEF CallsInv
  <1> QED BY <1>1, <1>5, <1>6, PTL DEF HostLink!Spec

-----------------------------------------------------------------------------
(* Proof that a browser is granted access once *)

LEMMA BrowserCounts == \A S : Cardinality(S) = Browsers!Cardinality(S) /\ (IsFiniteSet(S) <=> Browsers!IsFiniteSet(S))
  BY DEF Cardinality, Browsers!Cardinality, IsFiniteSet, Browsers!IsFiniteSet

BrowserSteps == {"idle", "loaded", "sign", "signed", "claimed", "done", "refused"}
Past == {"sign", "signed", "claimed", "done"}
Ways == {"register", "authenticate"}
Browser == [step : BrowserSteps, kind : Ways \cup {None}, boot : Boots \cup {None}, key : BrowserKeys \cup {None}, counter : Nat]
Ceremony == [kind : Ways, expiry : Nat]
Pairing == [expiry : Nat, claimed : Nonces \cup {None}]
Grant == [client : Clients, boot : Boots \cup {None}, ticket : Browsers!Tickets]
BrowserTypes ==
    /\ client \in [Clients -> Browser] /\ boot \in [Boots -> Nat] /\ cer \in [Clients -> Ceremony \cup {None}]
    /\ passkey \in [BrowserKeys -> Nat \cup {None}] /\ signed \in [BrowserKeys -> Nat]
RowTypes ==
    /\ browserNow \in Nat \ {0} /\ browserIssued \in 0..MaxTickets
    /\ session \in [Browsers!Sess -> Nat] /\ used \in [Browsers!Sess -> Nat] /\ ended \subseteq Browsers!Sess /\ browserAsking \in Browsers!Sess \cup {None}
    /\ browserTicket \in [Browsers!Tickets -> Nat] /\ entered \in [Browsers!Tickets -> Nat]
    /\ pairing \in [Pairs -> Pairing \cup {None}] /\ grants \subseteq Grant

(* A ceremony's row, the bootstrap it took and the key it signed with, by   *)
(* the step its browser has reached.                                        *)
BrowserPhases == \A c \in Clients :
    /\ client[c].step = "idle" => client[c].boot = None
    /\ client[c].step = "loaded" => client[c].boot \in Boots /\ client[c].kind = "register"
    /\ cer[c] # None => client[c].step \in {"sign", "signed"}
    /\ client[c].step \in {"sign", "signed", "claimed"} => client[c].kind \in Ways
    /\ client[c].step \in {"signed", "claimed"} =>
         /\ client[c].key \in BrowserKeys /\ client[c].counter <= signed[client[c].key]
         /\ client[c].kind = "authenticate" => passkey[client[c].key] # None
    /\ client[c].step \in Past /\ client[c].boot # None => boot[client[c].boot] = 0
BootOnce == \A c, d \in Clients :
    client[c].step \in Past /\ client[d].step \in Past /\ client[c].boot # None /\ client[c].boot = client[d].boot => c = d
CountersKnown == \A k \in BrowserKeys : passkey[k] # None => passkey[k] <= signed[k]
CeremonyBound == Cardinality(Browsers!Active) <= MaxCeremonies
GrantsOfDone == \A g, h \in grants :
    client[g.client].step = "done" /\ g.boot = client[g.client].boot /\ (g.client = h.client => g = h)
TicketsOnce == \A t \in Browsers!Tickets :
    /\ t > browserIssued => browserTicket[t] = 0 /\ entered[t] = 0
    /\ browserTicket[t] # 0 => entered[t] = 0
    /\ entered[t] <= 1
BrowserMade(s) == session[s] # 0 \/ used[s] # 0 \/ s \in ended
MadeByDone == \A c \in Clients : BrowserMade(<<c, None>>) => client[c].step = "done"
MadeByPairing == \A p \in Pairs, n \in Nonces : BrowserMade(<<p, n>>) =>
    IF pairing[p] # None THEN pairing[p].claimed = n ELSE \A m \in Nonces : <<p, m>> \in ended
SessionsFollowUse == \A s \in Browsers!Sess :
    /\ s \in ended => session[s] = 0
    /\ session[s] # 0 => used[s] # 0
    /\ s \notin ended /\ used[s] # 0 => session[s] >= used[s] + SessionLife \div 2 \/ browserNow >= used[s] + SessionLife \div 2
AccessInv ==
    /\ BrowserTypes /\ RowTypes /\ BrowserPhases /\ BootOnce /\ CountersKnown /\ CeremonyBound /\ GrantsOfDone /\ TicketsOnce
    /\ MadeByDone /\ MadeByPairing /\ SessionsFollowUse /\ Browsers!PairsOneBrowser

LEMMA AccessBounds == ASSUME Browsers!AccessAssumption
    PROVE /\ CeremonyLife \in Nat \ {0} /\ SessionLife \in Nat \ {0} /\ TicketLife \in Nat \ {0}
          /\ MaxCeremonies \in Nat \ {0} /\ MaxTickets \in Nat \ {0} /\ BrowserMaxTime \in Nat \ {0}
          /\ SessionLife \div 2 \in Nat /\ SessionLife \div 2 <= SessionLife
  <1>1. {CeremonyLife, SessionLife, TicketLife, MaxCeremonies, MaxTickets, BrowserMaxTime} \subseteq Nat \ {0}
    BY DEF Browsers!AccessAssumption
  <1>2. SessionLife \in Nat
    BY <1>1
  <1>3. SessionLife \div 2 \in Nat /\ SessionLife \div 2 <= SessionLife
    BY <1>2
  <1> QED BY <1>1, <1>3

LEMMA SessKinds == ASSUME Browsers!AccessAssumption
    PROVE /\ \A c \in Clients : <<c, None>> \in Browsers!Sess
          /\ \A p \in Pairs, n \in Nonces : <<p, n>> \in Browsers!Sess
          /\ \A c \in Clients, p \in Pairs, n \in Nonces : <<c, None>> # <<p, n>>
          /\ \A s \in Browsers!Sess : (\E c \in Clients : s = <<c, None>>) \/ (\E p \in Pairs, n \in Nonces : s = <<p, n>>)
  BY DEF Browsers!Sess, Browsers!AccessAssumption

LEMMA InitAccess == ASSUME Browsers!AccessAssumption, Browsers!Init PROVE AccessInv
  <1>1. BrowserTypes
    BY DEF Browsers!Init, BrowserTypes, Browser, BrowserSteps, Ways
  <1>2. RowTypes
    BY AccessBounds DEF Browsers!Init, RowTypes
  <1>3. Browsers!Active = {}
    BY DEF Browsers!Init, Browsers!Active
  <1>4. CeremonyBound
    BY <1>3, FS_EmptySet, AccessBounds DEF CeremonyBound
  <1>5. BrowserPhases
    BY <1>1 DEF Browsers!Init, BrowserPhases, Past
  <1>6. BootOnce /\ CountersKnown /\ GrantsOfDone
    BY DEF Browsers!Init, BootOnce, CountersKnown, GrantsOfDone
  <1>7. TicketsOnce
    BY DEF Browsers!Init, TicketsOnce
  <1>8. \A s \in Browsers!Sess : ~BrowserMade(s)
    BY DEF Browsers!Init, BrowserMade
  <1>9. MadeByDone /\ MadeByPairing
    BY <1>8, SessKinds DEF MadeByDone, MadeByPairing
  <1>10. SessionsFollowUse /\ Browsers!PairsOneBrowser
    BY SessKinds DEF Browsers!Init, SessionsFollowUse, Browsers!PairsOneBrowser
  <1> QED BY <1>1, <1>2, <1>4, <1>5, <1>6, <1>7, <1>9, <1>10 DEF AccessInv

LEMMA PurgedFits ==
    ASSUME NEW S, NEW t \in [S -> Nat], browserNow \in Nat
    PROVE  /\ Browsers!Purged(t) \in [S -> Nat]
           /\ \A x \in S : Browsers!Purged(t)[x] = t[x] \/ (Browsers!Purged(t)[x] = 0 /\ t[x] <= browserNow)
           /\ \A x \in S : t[x] = 0 => Browsers!Purged(t)[x] = 0
  BY DEF Browsers!Purged, Browsers!Alive

ClientInv == BrowserTypes /\ BrowserPhases /\ BootOnce /\ CountersKnown

(* The ceremony's tables and its browsers.                                  *)
LEMMA ClientsKept ==
    ASSUME Browsers!AccessAssumption, ClientInv, boot' \in [Boots -> Nat], \A b \in Boots : boot[b] = 0 => boot'[b] = 0,
           UNCHANGED <<cer, client, passkey, signed>>
    PROVE  ClientInv'
  <1>1. \A c \in Clients : client[c].boot # None => client[c].boot \in Boots
    BY DEF ClientInv, BrowserTypes, Browser
  <1>2. BrowserPhases'
    BY <1>1 DEF ClientInv, BrowserPhases
  <1> QED BY <1>2 DEF ClientInv, BrowserTypes, BootOnce, CountersKnown

LEMMA ClientsCreateBootstrap ==
    ASSUME Browsers!AccessAssumption, ClientInv, browserNow \in Nat, NEW b \in Boots, Browsers!CreateBootstrap(b)
    PROVE  ClientInv'
  <1>1. UNCHANGED <<cer, client, passkey, signed>> /\ boot' = [boot EXCEPT ![b] = browserNow + CeremonyLife] /\ \A c \in Clients : client[c].boot # b
    BY DEF Browsers!CreateBootstrap
  <1>2. boot' \in [Boots -> Nat] /\ \A x \in Boots : x # b => boot'[x] = boot[x]
    BY <1>1, AccessBounds DEF ClientInv, BrowserTypes
  <1>3. BrowserTypes' /\ BootOnce' /\ CountersKnown'
    BY <1>1, <1>2 DEF ClientInv, BrowserTypes, BootOnce, CountersKnown
  <1>4. \A c \in Clients : client[c].boot # None => client[c].boot \in Boots /\ client[c].boot # b
    BY <1>1 DEF ClientInv, BrowserTypes, Browser
  <1>5. BrowserPhases'
    BY <1>1, <1>2, <1>4 DEF ClientInv, BrowserPhases
  <1> QED BY <1>3, <1>5 DEF ClientInv

(* One browser's row changes.                                               *)
LEMMA ClientRow ==
    ASSUME BrowserTypes, NEW c \in Clients, NEW e \in Browser, client' = [client EXCEPT ![c] = e]
    PROVE  client' \in [Clients -> Browser] /\ client'[c] = e /\ \A d \in Clients : d # c => client'[d] = client[d]
  BY DEF BrowserTypes

LEMMA ClientsLoad ==
    ASSUME Browsers!AccessAssumption, ClientInv, NEW c \in Clients, NEW b \in Boots, Browsers!LoadBootstrap(c, b)
    PROVE  ClientInv'
  <1> DEFINE e == [client[c] EXCEPT !.step = "loaded", !.kind = "register", !.boot = b]
  <1>1. e \in Browser /\ e.step = "loaded" /\ e.boot = b /\ e.kind = "register"
    BY DEF ClientInv, BrowserTypes, Browser, BrowserSteps, Ways
  <1>2. client' = [client EXCEPT ![c] = e] /\ client[c].step = "idle" /\ UNCHANGED <<boot, cer, passkey, signed>>
    BY DEF Browsers!LoadBootstrap, Browsers!tables, ClientInv, BrowserTypes, Browser
  <1> HIDE DEF e
  <1>3. client' \in [Clients -> Browser] /\ client'[c] = e /\ \A d \in Clients : d # c => client'[d] = client[d]
    BY <1>1, <1>2, ClientRow DEF ClientInv
  <1>4. BrowserTypes' /\ CountersKnown'
    BY <1>2, <1>3 DEF ClientInv, BrowserTypes, CountersKnown
  <1>5. BrowserPhases'
    BY <1>1, <1>2, <1>3 DEF ClientInv, BrowserPhases, Past
  <1>6. BootOnce'
    BY <1>1, <1>2, <1>3 DEF ClientInv, BootOnce, Past
  <1> QED BY <1>4, <1>5, <1>6 DEF ClientInv

(* A handler refuses: the ceremony never gets a grant.                      *)
LEMMA ClientsRefused ==
    ASSUME Browsers!AccessAssumption, ClientInv, NEW c \in Clients, cer[c] = None, client' = [client EXCEPT ![c].step = "refused"],
           UNCHANGED <<boot, cer, passkey, signed>>
    PROVE  ClientInv'
  <1> DEFINE e == [client[c] EXCEPT !.step = "refused"]
  <1>1. e \in Browser /\ e.step = "refused"
    BY DEF ClientInv, BrowserTypes, Browser, BrowserSteps
  <1>2. client' = [client EXCEPT ![c] = e]
    BY DEF ClientInv, BrowserTypes, Browser
  <1> HIDE DEF e
  <1>3. client' \in [Clients -> Browser] /\ client'[c] = e /\ \A d \in Clients : d # c => client'[d] = client[d]
    BY <1>1, <1>2, ClientRow DEF ClientInv
  <1>4. BrowserTypes' /\ CountersKnown'
    BY <1>3 DEF ClientInv, BrowserTypes, CountersKnown
  <1>5. BrowserPhases'
    BY <1>1, <1>3 DEF ClientInv, BrowserPhases, Past
  <1>6. BootOnce'
    BY <1>1, <1>3 DEF ClientInv, BootOnce, Past
  <1> QED BY <1>4, <1>5, <1>6 DEF ClientInv

(* The ceremony is saved: the bootstrap it took is gone, or it needs none.  *)
LEMMA ClientsSaved ==
    ASSUME Browsers!AccessAssumption, ClientInv, browserNow \in Nat, NEW c \in Clients, NEW e \in Browser, e.step = "sign", e.kind \in Ways,
           client[c].step \in {"idle", "loaded"}, client' = [client EXCEPT ![c] = e],
           boot' \in [Boots -> Nat], \A b \in Boots : boot[b] = 0 => boot'[b] = 0,
           e.boot = None \/ (e.boot \in Boots /\ boot[e.boot] # 0 /\ boot'[e.boot] = 0),
           cer' = [cer EXCEPT ![c] = [kind |-> e.kind, expiry |-> browserNow + CeremonyLife]], UNCHANGED <<passkey, signed>>
    PROVE  ClientInv'
  <1>1. client' \in [Clients -> Browser] /\ client'[c] = e /\ \A d \in Clients : d # c => client'[d] = client[d]
    BY ClientRow DEF ClientInv
  <1>2. [kind |-> e.kind, expiry |-> browserNow + CeremonyLife] \in Ceremony
    BY AccessBounds DEF Ceremony
  <1>3. cer' \in [Clients -> Ceremony \cup {None}] /\ \A d \in Clients : d # c => cer'[d] = cer[d]
    BY <1>2 DEF ClientInv, BrowserTypes
  <1>4. BrowserTypes' /\ CountersKnown'
    BY <1>1, <1>3 DEF ClientInv, BrowserTypes, CountersKnown
  <1>5. \A d \in Clients : client[d].boot # None => client[d].boot \in Boots
    BY DEF ClientInv, BrowserTypes, Browser
  <1>6. BrowserPhases'
    <2> SUFFICES ASSUME NEW d \in Clients
                 PROVE  /\ client'[d].step = "idle" => client'[d].boot = None
                        /\ client'[d].step = "loaded" => client'[d].boot \in Boots /\ client'[d].kind = "register"
                        /\ cer'[d] # None => client'[d].step \in {"sign", "signed"}
                        /\ client'[d].step \in {"sign", "signed", "claimed"} => client'[d].kind \in Ways
                        /\ client'[d].step \in {"signed", "claimed"} =>
                             /\ client'[d].key \in BrowserKeys /\ client'[d].counter <= signed'[client'[d].key]
                             /\ client'[d].kind = "authenticate" => passkey'[client'[d].key] # None
                        /\ client'[d].step \in Past /\ client'[d].boot # None => boot'[client'[d].boot] = 0
      BY DEF BrowserPhases
    <2>1. CASE d = c
      BY <1>1, <2>1
    <2>2. CASE d # c
      BY <1>1, <1>3, <1>5, <2>2 DEF ClientInv, BrowserPhases
    <2> QED BY <2>1, <2>2
  <1>7. BootOnce'
    <2>1. \A d \in Clients : client[d].step \in Past /\ client[d].boot # None => boot[client[d].boot] = 0
      BY DEF ClientInv, BrowserPhases
    <2> QED BY <1>1, <2>1 DEF ClientInv, BootOnce
  <1> QED BY <1>4, <1>6, <1>7 DEF ClientInv

LEMMA ClientsSaveRegistration ==
    ASSUME Browsers!AccessAssumption, ClientInv, browserNow \in Nat, NEW c \in Clients, Browsers!SaveRegistration(c)
    PROVE  ClientInv'
  <1> DEFINE b == client[c].boot
  <1>1. client[c].step = "loaded" /\ b \in Boots /\ cer[c] = None /\ client[c] \in Browser
    BY DEF Browsers!SaveRegistration, ClientInv, BrowserPhases, BrowserTypes
  <1>2. CASE Browsers!Room /\ Browsers!Alive(boot[b])
    <2>1. /\ boot' = Browsers!TakenBoot(b) /\ client' = [client EXCEPT ![c].step = "sign"] /\ UNCHANGED <<passkey, signed>>
          /\ cer' = [cer EXCEPT ![c] = [kind |-> "register", expiry |-> browserNow + CeremonyLife]]
      BY <1>2 DEF Browsers!SaveRegistration
    <2> DEFINE s == [client[c] EXCEPT !.step = "sign"]
    <2>2. s \in Browser /\ s.step = "sign" /\ s.boot = b /\ s.kind = client[c].kind
      BY <1>1 DEF Browser, BrowserSteps
    <2>3. client' = [client EXCEPT ![c] = s]
      BY <1>1, <2>1 DEF Browser, ClientInv, BrowserTypes
    <2>4. boot \in [Boots -> Nat] /\ boot[b] # 0
      BY <1>1, <1>2 DEF ClientInv, BrowserTypes, Browsers!Alive
    <2>5. boot' \in [Boots -> Nat] /\ boot'[b] = 0 /\ \A x \in Boots : boot[x] = 0 => boot'[x] = 0
      BY <1>1, <2>1, <2>4, PurgedFits DEF Browsers!TakenBoot
    <2>6. client[c].kind = "register"
      BY <1>1 DEF ClientInv, BrowserPhases
    <2>7. s.kind \in Ways /\ cer' = [cer EXCEPT ![c] = [kind |-> s.kind, expiry |-> browserNow + CeremonyLife]]
      BY <2>1, <2>2, <2>6 DEF Ways
    <2>8. s.boot = None \/ (s.boot \in Boots /\ boot[s.boot] # 0 /\ boot'[s.boot] = 0)
      BY <1>1, <2>2, <2>4, <2>5
    <2> HIDE DEF s, b
    <2> QED BY <1>1, <2>1, <2>2, <2>3, <2>5, <2>7, <2>8, ClientsSaved
  <1>3. CASE ~(Browsers!Room /\ Browsers!Alive(boot[b]))
    <2>1. client' = [client EXCEPT ![c].step = "refused"] /\ UNCHANGED <<boot, cer, passkey, signed>>
      BY <1>3 DEF Browsers!SaveRegistration
    <2> QED BY <1>1, <2>1, ClientsRefused
  <1> QED BY <1>2, <1>3

LEMMA ClientsStart ==
    ASSUME Browsers!AccessAssumption, ClientInv, browserNow \in Nat, NEW c \in Clients, Browsers!StartAuthentication(c)
    PROVE  ClientInv'
  <1>1. client[c].step = "idle" /\ client[c].boot = None /\ cer[c] = None /\ client[c] \in Browser
    BY DEF Browsers!StartAuthentication, ClientInv, BrowserPhases, BrowserTypes
  <1>2. CASE Browsers!Room
    <2> DEFINE s == [client[c] EXCEPT !.step = "sign", !.kind = "authenticate"]
    <2>1. /\ boot' = Browsers!Purged(boot) /\ UNCHANGED <<passkey, signed>>
          /\ cer' = [cer EXCEPT ![c] = [kind |-> "authenticate", expiry |-> browserNow + CeremonyLife]]
      BY <1>2 DEF Browsers!StartAuthentication
    <2>2. s \in Browser /\ s.step = "sign" /\ s.boot = None /\ s.kind = "authenticate"
      BY <1>1 DEF Browser, BrowserSteps, Ways
    <2>3. client' = [client EXCEPT ![c] = s]
      BY <1>1, <1>2 DEF Browser, ClientInv, BrowserTypes, Browsers!StartAuthentication
    <2>4. boot \in [Boots -> Nat]
      BY DEF ClientInv, BrowserTypes
    <2>5. boot' \in [Boots -> Nat] /\ \A x \in Boots : boot[x] = 0 => boot'[x] = 0
      BY <2>1, <2>4, PurgedFits
    <2> HIDE DEF s
    <2> QED BY <1>1, <2>1, <2>2, <2>3, <2>5, ClientsSaved DEF Ways
  <1>3. CASE ~Browsers!Room
    <2>1. client' = [client EXCEPT ![c].step = "refused"] /\ UNCHANGED <<boot, cer, passkey, signed>>
      BY <1>3 DEF Browsers!StartAuthentication
    <2> QED BY <1>1, <2>1, ClientsRefused
  <1> QED BY <1>2, <1>3

(* A browser moves on with the bootstrap it has; counters only grow.        *)
LEMMA ClientsMoved ==
    ASSUME Browsers!AccessAssumption, ClientInv, NEW c \in Clients, NEW e \in Browser, client' = [client EXCEPT ![c] = e],
           client[c].step \in Past, e.step \in {"signed", "claimed", "done"}, e.boot = client[c].boot,
           e.kind = client[c].kind, e.kind \in Ways,
           e.step # "done" =>
             /\ e.key \in BrowserKeys /\ e.counter <= signed'[e.key] /\ (e.kind = "authenticate" => passkey'[e.key] # None),
           cer' \in [Clients -> Ceremony \cup {None}], \A d \in Clients : d # c => cer'[d] = cer[d],
           cer'[c] # None => e.step = "signed",
           signed' \in [BrowserKeys -> Nat], \A k \in BrowserKeys : signed[k] <= signed'[k],
           passkey' \in [BrowserKeys -> Nat \cup {None}], \A k \in BrowserKeys : passkey[k] # None => passkey'[k] # None,
           \A k \in BrowserKeys : passkey'[k] # None => passkey'[k] <= signed'[k], UNCHANGED boot
    PROVE  ClientInv'
  <1>1. client' \in [Clients -> Browser] /\ client'[c] = e /\ \A d \in Clients : d # c => client'[d] = client[d]
    BY ClientRow DEF ClientInv
  <1>2. BrowserTypes' /\ CountersKnown'
    BY <1>1 DEF ClientInv, BrowserTypes, CountersKnown
  <1>3. \A d \in Clients : client[d].counter \in Nat /\ \A k \in BrowserKeys : signed[k] \in Nat /\ signed'[k] \in Nat
    BY DEF ClientInv, BrowserTypes, Browser
  <1>4. BrowserPhases'
    <2> SUFFICES ASSUME NEW d \in Clients
                 PROVE  /\ client'[d].step = "idle" => client'[d].boot = None
                        /\ client'[d].step = "loaded" => client'[d].boot \in Boots /\ client'[d].kind = "register"
                        /\ cer'[d] # None => client'[d].step \in {"sign", "signed"}
                        /\ client'[d].step \in {"sign", "signed", "claimed"} => client'[d].kind \in Ways
                        /\ client'[d].step \in {"signed", "claimed"} =>
                             /\ client'[d].key \in BrowserKeys /\ client'[d].counter <= signed'[client'[d].key]
                             /\ client'[d].kind = "authenticate" => passkey'[client'[d].key] # None
                        /\ client'[d].step \in Past /\ client'[d].boot # None => boot'[client'[d].boot] = 0
      BY DEF BrowserPhases
    <2>1. CASE d = c
      BY <1>1, <2>1 DEF ClientInv, BrowserPhases, Past
    <2>2. CASE d # c
      BY <1>1, <1>3, <2>2 DEF ClientInv, BrowserPhases
    <2> QED BY <2>1, <2>2
  <1>5. BootOnce'
    BY <1>1 DEF ClientInv, BootOnce
  <1> QED BY <1>2, <1>4, <1>5 DEF ClientInv

LEMMA ClientsSign ==
    ASSUME Browsers!AccessAssumption, ClientInv, NEW c \in Clients, NEW k \in BrowserKeys, Browsers!Sign(c, k)
    PROVE  ClientInv'
  <1> DEFINE e == [client[c] EXCEPT !.step = "signed", !.key = k, !.counter = signed'[k]]
  <1>1. /\ client[c].step = "sign" /\ client[c].kind \in Ways /\ client[c] \in Browser
        /\ ((client[c].kind = "authenticate") <=> (passkey[k] # None)) /\ UNCHANGED <<boot, cer, passkey>>
    BY DEF Browsers!Sign, ClientInv, BrowserPhases, BrowserTypes, Browsers!tables
  <1>2. signed \in [BrowserKeys -> Nat] /\ (signed' = signed \/ signed' = [signed EXCEPT ![k] = @ + 1])
    BY DEF Browsers!Sign, ClientInv, BrowserTypes
  <1>3. signed' \in [BrowserKeys -> Nat] /\ \A x \in BrowserKeys : signed[x] <= signed'[x]
    BY <1>2
  <1>4. /\ e \in Browser /\ e.step = "signed" /\ e.key = k /\ e.counter = signed'[k] /\ e.boot = client[c].boot
        /\ e.kind = client[c].kind
    BY <1>1, <1>3 DEF Browser, BrowserSteps
  <1>5. client' = [client EXCEPT ![c] = e]
    BY <1>1 DEF Browsers!Sign, ClientInv, BrowserTypes, Browser
  <1>6. passkey' \in [BrowserKeys -> Nat \cup {None}] /\ \A x \in BrowserKeys : passkey'[x] # None => passkey'[x] <= signed'[x]
    BY <1>1, <1>2, <1>3 DEF ClientInv, BrowserTypes, CountersKnown
  <1>7. cer' \in [Clients -> Ceremony \cup {None}]
    BY <1>1 DEF ClientInv, BrowserTypes
  <1>8. e.counter <= signed'[e.key]
    BY <1>3, <1>4
  <1> HIDE DEF e
  <1> QED BY <1>1, <1>3, <1>4, <1>5, <1>6, <1>7, <1>8, ClientsMoved DEF Past

LEMMA ClientsClaim ==
    ASSUME Browsers!AccessAssumption, ClientInv, NEW c \in Clients, Browsers!ClaimCeremony(c) PROVE ClientInv'
  <1> DEFINE e == [client[c] EXCEPT !.step = "claimed"]
  <1>1. /\ client[c].step = "signed" /\ client[c] \in Browser /\ cer' = [cer EXCEPT ![c] = None]
        /\ UNCHANGED <<boot, passkey, signed>>
    BY DEF Browsers!ClaimCeremony, Browsers!ClaimedCer, Browsers!Active, ClientInv, BrowserPhases, BrowserTypes
  <1>2. /\ client[c].kind \in Ways /\ client[c].key \in BrowserKeys /\ client[c].counter <= signed[client[c].key]
        /\ (client[c].kind = "authenticate" => passkey[client[c].key] # None)
    BY <1>1 DEF ClientInv, BrowserPhases
  <1>3. /\ e \in Browser /\ e.step = "claimed" /\ e.key = client[c].key /\ e.counter = client[c].counter
        /\ e.boot = client[c].boot /\ e.kind = client[c].kind
    BY <1>1 DEF Browser, BrowserSteps
  <1>4. client' = [client EXCEPT ![c] = e]
    BY <1>1 DEF Browsers!ClaimCeremony, ClientInv, BrowserTypes, Browser
  <1>5. /\ cer' \in [Clients -> Ceremony \cup {None}] /\ cer'[c] = None /\ \A d \in Clients : d # c => cer'[d] = cer[d]
        /\ signed' \in [BrowserKeys -> Nat] /\ \A x \in BrowserKeys : signed[x] <= signed'[x]
        /\ passkey' \in [BrowserKeys -> Nat \cup {None}] /\ \A x \in BrowserKeys : passkey'[x] # None => passkey'[x] <= signed'[x]
    BY <1>1 DEF ClientInv, BrowserTypes, CountersKnown
  <1> HIDE DEF e
  <1> QED BY <1>1, <1>2, <1>3, <1>4, <1>5, ClientsMoved DEF Past

LEMMA ClientsFinish ==
    ASSUME Browsers!AccessAssumption, ClientInv, NEW c \in Clients, Browsers!FinishCeremony(c)
    PROVE  ClientInv' /\ \A k \in BrowserKeys : passkey[k] # None => passkey'[k] >= passkey[k]
  <1> DEFINE r == client[c]
  <1>1. r.step = "claimed" /\ r \in Browser /\ cer[c] = None /\ UNCHANGED <<boot, cer, signed>>
    BY DEF Browsers!FinishCeremony, ClientInv, BrowserPhases, BrowserTypes
  <1>2. /\ r.kind \in Ways /\ r.key \in BrowserKeys /\ r.counter \in Nat /\ r.counter <= signed[r.key]
        /\ (r.kind = "authenticate" => passkey[r.key] # None)
    BY <1>1 DEF ClientInv, BrowserPhases, Browser
  <1>3. CASE IF r.kind = "register" THEN passkey[r.key] = None ELSE Browsers!Advances(r.key, r.counter)
    <2> DEFINE e == [client[c] EXCEPT !.step = "done"]
    <2>1. passkey' = [passkey EXCEPT ![r.key] = r.counter] /\ client' = [client EXCEPT ![c].step = "done"]
      BY <1>3 DEF Browsers!FinishCeremony
    <2>2. e \in Browser /\ e.step = "done" /\ e.boot = client[c].boot /\ e.kind = client[c].kind
      BY <1>1 DEF Browser, BrowserSteps
    <2>3. client' = [client EXCEPT ![c] = e]
      BY <1>1, <2>1 DEF ClientInv, BrowserTypes, Browser
    <2>4. /\ cer' \in [Clients -> Ceremony \cup {None}] /\ cer'[c] = None /\ signed' \in [BrowserKeys -> Nat]
          /\ passkey \in [BrowserKeys -> Nat \cup {None}] /\ \A x \in BrowserKeys : passkey[x] # None => passkey[x] <= signed[x]
          /\ \A x \in BrowserKeys : signed[x] <= signed'[x]
      BY <1>1 DEF ClientInv, BrowserTypes, CountersKnown
    <2>5. None \notin Nat
      BY DEF Browsers!AccessAssumption
    <2>6. /\ passkey' \in [BrowserKeys -> Nat \cup {None}] /\ \A x \in BrowserKeys : passkey[x] # None => passkey'[x] # None
          /\ \A x \in BrowserKeys : passkey'[x] # None => passkey'[x] <= signed'[x]
      BY <1>1, <1>2, <2>1, <2>4, <2>5
    <2>7. \A k \in BrowserKeys : passkey[k] # None => passkey'[k] >= passkey[k]
      BY <1>2, <1>3, <2>1, <2>4 DEF Browsers!Advances, Ways
    <2> HIDE DEF e, r
    <2> QED BY <1>1, <1>2, <2>2, <2>3, <2>4, <2>6, <2>7, ClientsMoved DEF Past, r
  <1>4. CASE ~IF r.kind = "register" THEN passkey[r.key] = None ELSE Browsers!Advances(r.key, r.counter)
    <2>1. client' = [client EXCEPT ![c].step = "refused"] /\ UNCHANGED passkey
      BY <1>4 DEF Browsers!FinishCeremony
    <2>2. \A k \in BrowserKeys : passkey[k] # None => passkey'[k] >= passkey[k]
      BY <2>1 DEF ClientInv, BrowserTypes
    <2> QED BY <1>1, <2>1, <2>2, ClientsRefused
  <1> QED BY <1>3, <1>4

(* The ceremonies that are open at one time.                                *)
LEMMA ActiveFinite ==
    ASSUME Browsers!AccessAssumption
    PROVE  IsFiniteSet(Browsers!Active) /\ Cardinality(Browsers!Active) \in Nat
  <1>1. Browsers!Active \subseteq Clients /\ IsFiniteSet(Clients)
    BY BrowserCounts DEF Browsers!Active, Browsers!AccessAssumption
  <1> QED BY <1>1, FS_Subset, FS_CardinalityType

LEMMA CeremoniesKept ==
    ASSUME Browsers!AccessAssumption, CeremonyBound, Browsers!Active' \subseteq Browsers!Active
    PROVE  CeremonyBound'
  <1>1. IsFiniteSet(Browsers!Active) /\ Cardinality(Browsers!Active) \in Nat /\ Cardinality(Browsers!Active) <= MaxCeremonies /\ MaxCeremonies \in Nat
    BY ActiveFinite, AccessBounds DEF CeremonyBound
  <1>2. IsFiniteSet(Browsers!Active') /\ Cardinality(Browsers!Active') <= Cardinality(Browsers!Active)
    BY <1>1, FS_Subset
  <1>3. Cardinality(Browsers!Active') \in Nat
    BY <1>2, FS_CardinalityType
  <1> QED BY <1>1, <1>2, <1>3 DEF CeremonyBound

LEMMA CeremoniesAdded ==
    ASSUME Browsers!AccessAssumption, CeremonyBound, Browsers!Room, NEW c \in Clients, Browsers!Active' \subseteq Browsers!Active \cup {c}
    PROVE  CeremonyBound'
  <1>1. IsFiniteSet(Browsers!Active) /\ Cardinality(Browsers!Active) \in Nat /\ Cardinality(Browsers!Active) < MaxCeremonies /\ MaxCeremonies \in Nat
    BY ActiveFinite, AccessBounds, BrowserCounts DEF Browsers!Room
  <1>2. IsFiniteSet(Browsers!Active \cup {c}) /\ Cardinality(Browsers!Active \cup {c}) <= Cardinality(Browsers!Active) + 1
    <2>1. CASE c \in Browsers!Active
      <3>1. Browsers!Active \cup {c} = Browsers!Active
        BY <2>1
      <3>2. IsFiniteSet(Browsers!Active \cup {c}) /\ Cardinality(Browsers!Active \cup {c}) = Cardinality(Browsers!Active)
        BY <1>1, <3>1, Zenon
      <3> QED BY <1>1, <3>2
    <2>2. CASE c \notin Browsers!Active
      <3>1. IsFiniteSet(Browsers!Active \cup {c}) /\ Cardinality(Browsers!Active \cup {c}) = Cardinality(Browsers!Active) + 1
        BY <1>1, <2>2, FS_AddElement
      <3> QED BY <1>1, <3>1
    <2> QED BY <2>1, <2>2
  <1>3. IsFiniteSet(Browsers!Active') /\ Cardinality(Browsers!Active') <= Cardinality(Browsers!Active \cup {c})
    BY <1>2, FS_Subset
  <1>4. Cardinality(Browsers!Active') \in Nat /\ Cardinality(Browsers!Active \cup {c}) \in Nat
    BY <1>2, <1>3, FS_CardinalityType
  <1> QED BY <1>1, <1>2, <1>3, <1>4 DEF CeremonyBound

LEMMA CeremonyStep == ASSUME Browsers!AccessAssumption, AccessInv, Browsers!Next PROVE CeremonyBound'
  <1>1. CeremonyBound /\ browserNow \in Nat /\ cer \in [Clients -> Ceremony \cup {None}]
    BY DEF AccessInv, RowTypes, BrowserTypes
  <1>2. CASE UNCHANGED cer /\ browserNow' \in Nat /\ browserNow' >= browserNow
    <2>1. \A c \in Clients : cer[c] # None => cer[c].expiry \in Nat
      BY <1>1 DEF Ceremony
    <2>2. Browsers!Active' \subseteq Browsers!Active
      BY <1>1, <1>2, <2>1 DEF Browsers!Active, Browsers!Alive
    <2> QED BY <1>1, <2>2, CeremoniesKept
  <1>3. ASSUME NEW c \in Clients, Browsers!Room, UNCHANGED browserNow, NEW x, cer' = [cer EXCEPT ![c] = x]
        PROVE  CeremonyBound'
    <2>1. Browsers!Active' \subseteq Browsers!Active \cup {c}
      BY <1>1, <1>3 DEF Browsers!Active, Browsers!Alive
    <2> QED BY <1>1, <1>3, <2>1, CeremoniesAdded
  <1>4. ASSUME NEW c \in Clients, Browsers!ClaimCeremony(c) PROVE CeremonyBound'
    <2>1. cer' = [cer EXCEPT ![c] = None] /\ UNCHANGED browserNow
      BY <1>4 DEF Browsers!ClaimCeremony, Browsers!ClaimedCer
    <2>2. Browsers!Active' \subseteq Browsers!Active
      BY <1>1, <2>1 DEF Browsers!Active, Browsers!Alive
    <2> QED BY <1>1, <2>2, CeremoniesKept
  <1>5. ASSUME NEW c \in Clients, Browsers!SaveRegistration(c) PROVE CeremonyBound'
    <2>1. UNCHANGED browserNow
      BY <1>5 DEF Browsers!SaveRegistration
    <2>2. CASE Browsers!Room /\ Browsers!Alive(boot[client[c].boot])
      <3>1. cer' = [cer EXCEPT ![c] = [kind |-> "register", expiry |-> browserNow + CeremonyLife]]
        BY <1>5, <2>2 DEF Browsers!SaveRegistration
      <3> QED BY <1>3, <2>1, <2>2, <3>1
    <2>3. CASE ~(Browsers!Room /\ Browsers!Alive(boot[client[c].boot]))
      <3>1. UNCHANGED cer
        BY <1>5, <2>3 DEF Browsers!SaveRegistration
      <3> QED BY <1>1, <1>2, <2>1, <3>1
    <2> QED BY <2>2, <2>3
  <1>6. ASSUME NEW c \in Clients, Browsers!StartAuthentication(c) PROVE CeremonyBound'
    <2>1. UNCHANGED browserNow
      BY <1>6 DEF Browsers!StartAuthentication
    <2>2. CASE Browsers!Room
      <3>1. cer' = [cer EXCEPT ![c] = [kind |-> "authenticate", expiry |-> browserNow + CeremonyLife]]
        BY <1>6, <2>2 DEF Browsers!StartAuthentication
      <3> QED BY <1>3, <2>1, <2>2, <3>1
    <2>3. CASE ~Browsers!Room
      <3>1. UNCHANGED cer
        BY <1>6, <2>3 DEF Browsers!StartAuthentication
      <3> QED BY <1>1, <1>2, <2>1, <3>1
    <2> QED BY <2>2, <2>3
  <1>7. CASE Browsers!Tick
    <2>1. UNCHANGED cer /\ browserNow' = browserNow + 1
      BY <1>7 DEF Browsers!Tick, Browsers!tables
    <2> QED BY <1>1, <1>2, <2>1
  <1>8. ASSUME UNCHANGED <<cer, browserNow>> PROVE CeremonyBound'
    BY <1>1, <1>2, <1>8
  <1>9. CASE Browsers!Revoke \/ Browsers!IssueTicket \/ \E t \in Browsers!Tickets : Browsers!ClaimTicket(t)
    BY <1>8, <1>9 DEF Browsers!Revoke, Browsers!IssueTicket, Browsers!ClaimTicket
  <1>10. CASE \E b \in Boots : Browsers!CreateBootstrap(b) \/ \E c \in Clients : Browsers!LoadBootstrap(c, b)
    <2>1. ASSUME NEW b \in Boots, Browsers!CreateBootstrap(b) PROVE CeremonyBound'
      BY <1>8, <2>1 DEF Browsers!CreateBootstrap
    <2>2. ASSUME NEW b \in Boots, NEW c \in Clients, Browsers!LoadBootstrap(c, b) PROVE CeremonyBound'
      BY <1>8, <2>2 DEF Browsers!LoadBootstrap, Browsers!tables
    <2> QED BY <1>10, <2>1, <2>2
  <1>11. CASE \E c \in Clients : Browsers!FinishCeremony(c)
    BY <1>8, <1>11 DEF Browsers!FinishCeremony
  <1>12. CASE \E c \in Clients, k \in BrowserKeys : Browsers!Sign(c, k)
    BY <1>8, <1>12 DEF Browsers!Sign, Browsers!tables
  <1>13. CASE \E p \in Pairs : Browsers!CreatePairing(p) \/ \E n \in Nonces : Browsers!Redeem(p, n)
    BY <1>8, <1>13 DEF Browsers!CreatePairing, Browsers!Redeem
  <1>14. CASE \E s \in Browsers!Sess : Browsers!Logout(s) \/ \E forTicket \in BOOLEAN : Browsers!Authenticate(s, forTicket)
    BY <1>8, <1>14 DEF Browsers!Logout, Browsers!Authenticate
  <1> QED BY <1>4, <1>5, <1>6, <1>7, <1>9, <1>10, <1>11, <1>12, <1>13, <1>14 DEF Browsers!Next

(* Tickets.                                                                 *)
TicketTypes == browserIssued \in 0..MaxTickets /\ browserTicket \in [Browsers!Tickets -> Nat] /\ entered \in [Browsers!Tickets -> Nat]
TicketInv == TicketTypes /\ TicketsOnce

LEMMA TicketsPurged ==
    ASSUME TicketInv, browserNow \in Nat, browserTicket' \in {browserTicket, Browsers!Purged(browserTicket)}, UNCHANGED <<browserIssued, entered>>
    PROVE  TicketInv'
  <1>1. browserTicket' \in [Browsers!Tickets -> Nat] /\ \A t \in Browsers!Tickets : browserTicket'[t] = browserTicket[t] \/ browserTicket'[t] = 0
    BY PurgedFits DEF TicketInv, TicketTypes
  <1> QED BY <1>1 DEF TicketInv, TicketTypes, TicketsOnce

LEMMA TicketInserted ==
    ASSUME Browsers!AccessAssumption, TicketInv, browserNow \in Nat, Browsers!InsertTicket, UNCHANGED entered
    PROVE  TicketInv' /\ browserIssued + 1 \in Browsers!Tickets
  <1>1. MaxTickets \in Nat /\ TicketLife \in Nat /\ browserIssued \in Nat /\ browserIssued < MaxTickets /\ browserIssued' = browserIssued + 1
    BY AccessBounds DEF TicketInv, TicketTypes, Browsers!InsertTicket
  <1>2. browserIssued + 1 \in Browsers!Tickets /\ \A t \in Browsers!Tickets : t \in Nat
    BY <1>1 DEF Browsers!Tickets
  <1>3. Browsers!Purged(browserTicket) \in [Browsers!Tickets -> Nat] /\ \A t \in Browsers!Tickets : Browsers!Purged(browserTicket)[t] = browserTicket[t] \/ Browsers!Purged(browserTicket)[t] = 0
    BY PurgedFits DEF TicketInv, TicketTypes
  <1>4. /\ browserTicket' \in [Browsers!Tickets -> Nat]
        /\ \A t \in Browsers!Tickets : t # browserIssued + 1 => browserTicket'[t] = browserTicket[t] \/ browserTicket'[t] = 0
    BY <1>1, <1>2, <1>3 DEF Browsers!InsertTicket
  <1>5. TicketTypes'
    BY <1>1, <1>4 DEF TicketInv, TicketTypes
  <1>6. TicketsOnce'
    BY <1>1, <1>2, <1>4 DEF TicketInv, TicketTypes, TicketsOnce
  <1> QED BY <1>2, <1>5, <1>6 DEF TicketInv

LEMMA TicketClaimed ==
    ASSUME TicketInv, browserNow \in Nat, NEW t \in Browsers!Tickets, Browsers!ClaimTicket(t) PROVE TicketInv'
  <1>1. /\ browserTicket[t] # 0 /\ browserTicket' = [Browsers!Purged(browserTicket) EXCEPT ![t] = 0] /\ entered' = [entered EXCEPT ![t] = @ + 1]
        /\ UNCHANGED browserIssued
    BY DEF Browsers!ClaimTicket, Browsers!SpentTicket, Browsers!Alive
  <1>2. Browsers!Purged(browserTicket) \in [Browsers!Tickets -> Nat] /\ \A x \in Browsers!Tickets : Browsers!Purged(browserTicket)[x] = browserTicket[x] \/ Browsers!Purged(browserTicket)[x] = 0
    BY PurgedFits DEF TicketInv, TicketTypes
  <1>3. browserTicket' \in [Browsers!Tickets -> Nat] /\ browserTicket'[t] = 0 /\ \A x \in Browsers!Tickets : browserTicket'[x] = browserTicket[x] \/ browserTicket'[x] = 0
    BY <1>1, <1>2
  <1>4. entered[t] = 0 /\ entered' \in [Browsers!Tickets -> Nat] /\ entered'[t] = 1 /\ \A x \in Browsers!Tickets : x # t => entered'[x] = entered[x]
    BY <1>1 DEF TicketInv, TicketTypes, TicketsOnce
  <1>5. ~(t > browserIssued)
    BY <1>1 DEF TicketInv, TicketsOnce
  <1> QED BY <1>1, <1>3, <1>4, <1>5 DEF TicketInv, TicketTypes, TicketsOnce

(* A ceremony that was granted stays as it is.                              *)
DoneStays == \A c \in Clients : client[c].step = "done" => client'[c].step = "done" /\ client'[c].boot = client[c].boot
LEMMA DoneStep == ASSUME ClientInv, Browsers!Next PROVE DoneStays
  <1>1. client \in [Clients -> Browser]
    BY DEF ClientInv, BrowserTypes
  <1>2. ASSUME NEW c \in Clients, client[c].step # "done", \A d \in Clients : d # c => client'[d] = client[d]
        PROVE  DoneStays
    BY <1>2 DEF DoneStays
  <1>3. ASSUME UNCHANGED client PROVE DoneStays
    BY <1>3 DEF DoneStays
  <1>4. CASE Browsers!Tick \/ Browsers!Revoke \/ Browsers!IssueTicket
    BY <1>3, <1>4 DEF Browsers!Tick, Browsers!Revoke, Browsers!IssueTicket
  <1>5. ASSUME NEW b \in Boots, Browsers!CreateBootstrap(b) PROVE DoneStays
    BY <1>3, <1>5 DEF Browsers!CreateBootstrap
  <1>6. ASSUME NEW b \in Boots, NEW c \in Clients, Browsers!LoadBootstrap(c, b) PROVE DoneStays
    BY <1>1, <1>2, <1>6 DEF Browsers!LoadBootstrap
  <1>7. ASSUME NEW c \in Clients, Browsers!SaveRegistration(c) PROVE DoneStays
    BY <1>1, <1>2, <1>7 DEF Browsers!SaveRegistration
  <1>8. ASSUME NEW c \in Clients, Browsers!StartAuthentication(c) PROVE DoneStays
    BY <1>1, <1>2, <1>8 DEF Browsers!StartAuthentication
  <1>9. ASSUME NEW c \in Clients, Browsers!ClaimCeremony(c) PROVE DoneStays
    <2>1. client[c].step # "done"
      BY <1>9 DEF Browsers!ClaimCeremony, Browsers!Active, ClientInv, BrowserPhases
    <2> QED BY <1>1, <1>2, <1>9, <2>1 DEF Browsers!ClaimCeremony
  <1>10. ASSUME NEW c \in Clients, Browsers!FinishCeremony(c) PROVE DoneStays
    BY <1>1, <1>2, <1>10 DEF Browsers!FinishCeremony
  <1>11. ASSUME NEW c \in Clients, NEW k \in BrowserKeys, Browsers!Sign(c, k) PROVE DoneStays
    BY <1>1, <1>2, <1>11 DEF Browsers!Sign
  <1>12. CASE \E p \in Pairs : Browsers!CreatePairing(p) \/ \E n \in Nonces : Browsers!Redeem(p, n)
    BY <1>3, <1>12 DEF Browsers!CreatePairing, Browsers!Redeem
  <1>13. CASE \E s \in Browsers!Sess : Browsers!Logout(s) \/ \E forTicket \in BOOLEAN : Browsers!Authenticate(s, forTicket)
    BY <1>3, <1>13 DEF Browsers!Logout, Browsers!Authenticate
  <1>14. CASE \E t \in Browsers!Tickets : Browsers!ClaimTicket(t)
    BY <1>3, <1>14 DEF Browsers!ClaimTicket
  <1> QED BY <1>4, <1>5, <1>6, <1>7, <1>8, <1>9, <1>10, <1>11, <1>12, <1>13, <1>14 DEF Browsers!Next

(* Sessions and pairings.                                                   *)
SessionTypes ==
    /\ browserNow \in Nat \ {0} /\ session \in [Browsers!Sess -> Nat] /\ used \in [Browsers!Sess -> Nat] /\ ended \subseteq Browsers!Sess
    /\ browserAsking \in Browsers!Sess \cup {None} /\ pairing \in [Pairs -> Pairing \cup {None}]
SessionInv == SessionTypes /\ MadeByDone /\ MadeByPairing /\ SessionsFollowUse /\ Browsers!PairsOneBrowser

LEMMA SessionsKept ==
    ASSUME Browsers!AccessAssumption, SessionInv, DoneStays, UNCHANGED <<session, used, ended, pairing>>, browserNow' \in Nat, browserNow' >= browserNow,
           browserAsking' \in Browsers!Sess \cup {None}
    PROVE  SessionInv'
  <1>1. SessionTypes' /\ Browsers!PairsOneBrowser'
    BY DEF SessionInv, SessionTypes, Browsers!PairsOneBrowser
  <1>2. MadeByDone' /\ MadeByPairing'
    BY DEF SessionInv, MadeByDone, MadeByPairing, BrowserMade, DoneStays
  <1>3. SessionsFollowUse'
    BY AccessBounds DEF SessionInv, SessionTypes, SessionsFollowUse
  <1> QED BY <1>1, <1>2, <1>3 DEF SessionInv

(* A session that is not ended begins, or is used again.                    *)
LEMMA SessionUsed ==
    ASSUME Browsers!AccessAssumption, SessionInv, NEW s \in Browsers!Sess, s \notin ended, NEW x \in Nat, x >= browserNow + SessionLife \div 2,
           session' \in [Browsers!Sess -> Nat], session'[s] = x,
           \A r \in Browsers!Sess : r # s => session'[r] = session[r] \/ (session'[r] = 0 /\ session[r] <= browserNow),
           used' = [used EXCEPT ![s] = browserNow], UNCHANGED <<ended, browserNow>>
    PROVE  SessionsFollowUse' /\ used' \in [Browsers!Sess -> Nat] /\ \A r \in Browsers!Sess : r # s /\ BrowserMade(r)' => BrowserMade(r)
  <1>1. used' \in [Browsers!Sess -> Nat] /\ used'[s] = browserNow /\ \A r \in Browsers!Sess : r # s => used'[r] = used[r]
    BY DEF SessionInv, SessionTypes
  <1>2. \A r \in Browsers!Sess : r # s /\ BrowserMade(r)' => BrowserMade(r)
    BY <1>1 DEF BrowserMade
  <1>3. SessionsFollowUse'
    BY <1>1, AccessBounds DEF SessionInv, SessionTypes, SessionsFollowUse
  <1> QED BY <1>1, <1>2, <1>3

LEMMA InsertedFits ==
    ASSUME Browsers!AccessAssumption, SessionInv, NEW s \in Browsers!Sess, Browsers!InsertSession(s)
    PROVE  /\ session' \in [Browsers!Sess -> Nat] /\ session'[s] = browserNow + SessionLife /\ used' = [used EXCEPT ![s] = browserNow]
           /\ browserNow + SessionLife \in Nat /\ browserNow + SessionLife >= browserNow + SessionLife \div 2
           /\ \A r \in Browsers!Sess : r # s => session'[r] = session[r] \/ (session'[r] = 0 /\ session[r] <= browserNow)
  <1>1. /\ Browsers!Purged(session) \in [Browsers!Sess -> Nat] /\ browserNow \in Nat
        /\ \A r \in Browsers!Sess : Browsers!Purged(session)[r] = session[r] \/ (Browsers!Purged(session)[r] = 0 /\ session[r] <= browserNow)
    BY PurgedFits DEF SessionInv, SessionTypes
  <1>2. browserNow + SessionLife \in Nat /\ browserNow + SessionLife >= browserNow + SessionLife \div 2
    BY <1>1, AccessBounds
  <1> QED BY <1>1, <1>2 DEF Browsers!InsertSession

LEMMA SessionsFinish ==
    ASSUME Browsers!AccessAssumption, SessionInv, DoneStays, NEW c \in Clients, client[c].step = "claimed", client'[c].step = "done",
           Browsers!InsertSession(<<c, None>>), UNCHANGED <<ended, browserNow, pairing, browserAsking>>
    PROVE  SessionInv'
  <1> DEFINE s == <<c, None>>
  <1>1. s \in Browsers!Sess /\ s \notin ended /\ \A p \in Pairs, n \in Nonces : s # <<p, n>>
    BY SessKinds DEF SessionInv, MadeByDone, BrowserMade
  <1>2. /\ session' \in [Browsers!Sess -> Nat] /\ session'[s] = browserNow + SessionLife /\ used' = [used EXCEPT ![s] = browserNow]
        /\ browserNow + SessionLife \in Nat /\ browserNow + SessionLife >= browserNow + SessionLife \div 2
        /\ \A r \in Browsers!Sess : r # s => session'[r] = session[r] \/ (session'[r] = 0 /\ session[r] <= browserNow)
    BY <1>1, InsertedFits
  <1> HIDE DEF s
  <1>3. SessionsFollowUse' /\ used' \in [Browsers!Sess -> Nat] /\ \A r \in Browsers!Sess : r # s /\ BrowserMade(r)' => BrowserMade(r)
    BY <1>1, <1>2, SessionUsed
  <1>4. SessionTypes'
    BY <1>2, <1>3 DEF SessionInv, SessionTypes
  <1>5. MadeByDone'
    <2> SUFFICES ASSUME NEW d \in Clients, BrowserMade(<<d, None>>)' PROVE client'[d].step = "done"
      BY DEF MadeByDone
    <2>1. CASE d = c
      BY <2>1
    <2>2. CASE d # c
      <3>1. <<d, None>> \in Browsers!Sess /\ <<d, None>> # s
        BY <2>2, SessKinds DEF s
      <3>2. BrowserMade(<<d, None>>)
        BY <1>3, <3>1
      <3> QED BY <3>2 DEF SessionInv, MadeByDone, DoneStays
    <2> QED BY <2>1, <2>2
  <1>6. MadeByPairing'
    <2> SUFFICES ASSUME NEW p \in Pairs, NEW n \in Nonces, BrowserMade(<<p, n>>)'
                 PROVE  IF pairing'[p] # None THEN pairing'[p].claimed = n ELSE \A m \in Nonces : <<p, m>> \in ended'
      BY DEF MadeByPairing
    <2>1. <<p, n>> \in Browsers!Sess /\ <<p, n>> # s
      BY <1>1, SessKinds
    <2>2. BrowserMade(<<p, n>>)
      BY <1>3, <2>1
    <2> QED BY <2>2 DEF SessionInv, MadeByPairing
  <1>7. Browsers!PairsOneBrowser'
    <2>1. \A p \in Pairs, n \in Nonces : used'[<<p, n>>] = used[<<p, n>>]
      <3>1. \A r \in Browsers!Sess : r # s => used'[r] = used[r]
        BY <1>2 DEF SessionInv, SessionTypes
      <3> QED BY <1>1, <3>1, SessKinds, Zenon
    <2> QED BY <2>1 DEF SessionInv, Browsers!PairsOneBrowser
  <1> QED BY <1>3, <1>4, <1>5, <1>6, <1>7 DEF SessionInv

LEMMA SessionsRedeem ==
    ASSUME Browsers!AccessAssumption, SessionInv, DoneStays, NEW p \in Pairs, NEW n \in Nonces, Browsers!Redeem(p, n)
    PROVE  SessionInv'
  <1> DEFINE s == <<p, n>>
  <1>1. /\ pairing[p] # None /\ pairing[p].claimed = None /\ Browsers!InsertSession(s)
        /\ pairing' = [pairing EXCEPT ![p].claimed = n] /\ UNCHANGED <<ended, browserNow, browserAsking>>
    BY DEF Browsers!Redeem, Browsers!MayRedeem
  <1>2. \A m \in Nonces : ~BrowserMade(<<p, m>>)
    BY <1>1 DEF SessionInv, MadeByPairing, Browsers!AccessAssumption
  <1>3. s \in Browsers!Sess /\ s \notin ended /\ \A c \in Clients : s # <<c, None>>
    BY <1>2, SessKinds DEF BrowserMade
  <1>4. /\ session' \in [Browsers!Sess -> Nat] /\ session'[s] = browserNow + SessionLife /\ used' = [used EXCEPT ![s] = browserNow]
        /\ browserNow + SessionLife \in Nat /\ browserNow + SessionLife >= browserNow + SessionLife \div 2
        /\ \A r \in Browsers!Sess : r # s => session'[r] = session[r] \/ (session'[r] = 0 /\ session[r] <= browserNow)
    BY <1>1, <1>3, InsertedFits
  <1> HIDE DEF s
  <1>5. SessionsFollowUse' /\ used' \in [Browsers!Sess -> Nat] /\ \A r \in Browsers!Sess : r # s /\ BrowserMade(r)' => BrowserMade(r)
    BY <1>1, <1>3, <1>4, SessionUsed
  <1> DEFINE e == [pairing[p] EXCEPT !.claimed = n]
  <1>6. e \in Pairing /\ e.claimed = n /\ e # None
    BY <1>1 DEF SessionInv, SessionTypes, Pairing, Browsers!AccessAssumption
  <1>7. pairing' = [pairing EXCEPT ![p] = e]
    BY <1>1 DEF SessionInv, SessionTypes, Pairing
  <1> HIDE DEF e
  <1>8. pairing' \in [Pairs -> Pairing \cup {None}] /\ pairing'[p] = e /\ \A q \in Pairs : q # p => pairing'[q] = pairing[q]
    BY <1>6, <1>7 DEF SessionInv, SessionTypes
  <1>9. SessionTypes'
    BY <1>1, <1>4, <1>5, <1>8 DEF SessionInv, SessionTypes
  <1>10. MadeByDone'
    <2> SUFFICES ASSUME NEW d \in Clients, BrowserMade(<<d, None>>)' PROVE client'[d].step = "done"
      BY DEF MadeByDone
    <2>1. BrowserMade(<<d, None>>)
      BY <1>3, <1>5, SessKinds
    <2> QED BY <2>1 DEF SessionInv, MadeByDone, DoneStays
  <1>11. MadeByPairing'
    <2> SUFFICES ASSUME NEW q \in Pairs, NEW m \in Nonces, BrowserMade(<<q, m>>)'
                 PROVE  IF pairing'[q] # None THEN pairing'[q].claimed = m ELSE \A o \in Nonces : <<q, o>> \in ended'
      BY DEF MadeByPairing
    <2>1. CASE <<q, m>> = s
      <3>1. q = p /\ m = n
        BY <2>1 DEF s
      <3> QED BY <1>6, <1>8, <3>1
    <2>2. CASE <<q, m>> # s
      <3>1. BrowserMade(<<q, m>>)
        BY <1>5, <2>2, SessKinds
      <3>2. q # p
        BY <1>2, <3>1
      <3> QED BY <1>1, <1>8, <3>1, <3>2 DEF SessionInv, MadeByPairing
    <2> QED BY <2>1, <2>2
  <1>12. Browsers!PairsOneBrowser'
    <2>1. \A q \in Pairs, m \in Nonces : <<q, m>> = s \/ used'[<<q, m>>] = used[<<q, m>>]
      <3>1. \A r \in Browsers!Sess : r # s => used'[r] = used[r]
        BY <1>4 DEF SessionInv, SessionTypes
      <3> QED BY <3>1, SessKinds, Zenon
    <2>2. \A m \in Nonces : used'[<<p, m>>] # 0 => <<p, m>> = s
      BY <1>2, <2>1 DEF BrowserMade
    <2>3. \A q \in Pairs, m \in Nonces : q # p => used'[<<q, m>>] = used[<<q, m>>]
      BY <2>1 DEF s
    <2>4. \A q \in Pairs, m, o \in Nonces : used'[<<q, m>>] # 0 /\ used'[<<q, o>>] # 0 => m = o
      <3> SUFFICES ASSUME NEW q \in Pairs, NEW m \in Nonces, NEW o \in Nonces, used'[<<q, m>>] # 0, used'[<<q, o>>] # 0
                   PROVE  m = o
        OBVIOUS
      <3>1. CASE q = p
        BY <2>2, <3>1 DEF s
      <3>2. CASE q # p
        BY <2>3, <3>2 DEF SessionInv, Browsers!PairsOneBrowser
      <3> QED BY <3>1, <3>2
    <2> QED BY <2>4 DEF Browsers!PairsOneBrowser
  <1> QED BY <1>5, <1>9, <1>10, <1>11, <1>12 DEF SessionInv

LEMMA SessionsAuthenticate ==
    ASSUME Browsers!AccessAssumption, SessionInv, DoneStays, NEW s \in Browsers!Sess, NEW forTicket \in BOOLEAN, Browsers!Authenticate(s, forTicket)
    PROVE  SessionInv'
  <1>1. /\ session[s] > browserNow /\ session' = [session EXCEPT ![s] = Browsers!Renewed(s)] /\ used' = [used EXCEPT ![s] = browserNow]
        /\ UNCHANGED <<browserNow, pairing, ended>> /\ browserAsking' \in Browsers!Sess \cup {None} /\ BrowserMade(s) /\ s \notin ended /\ used[s] # 0
    BY DEF Browsers!Authenticate, Browsers!Live, Browsers!Alive, BrowserMade, SessionInv, SessionTypes,
       SessionsFollowUse
  <1>2. Browsers!Renewed(s) \in Nat /\ Browsers!Renewed(s) >= browserNow + SessionLife \div 2
    BY <1>1, AccessBounds DEF Browsers!Renewed, SessionInv, SessionTypes
  <1>3. session' \in [Browsers!Sess -> Nat] /\ session'[s] = Browsers!Renewed(s) /\ \A r \in Browsers!Sess : r # s => session'[r] = session[r]
    BY <1>1, <1>2 DEF SessionInv, SessionTypes
  <1>4. SessionsFollowUse' /\ used' \in [Browsers!Sess -> Nat] /\ \A r \in Browsers!Sess : r # s /\ BrowserMade(r)' => BrowserMade(r)
    BY <1>1, <1>2, <1>3, SessionUsed
  <1>5. \A r \in Browsers!Sess : BrowserMade(r)' => BrowserMade(r)
    BY <1>1, <1>4
  <1>6. \A r \in Browsers!Sess : used'[r] # 0 => used[r] # 0
    BY <1>1 DEF SessionInv, SessionTypes
  <1>7. SessionTypes'
    BY <1>1, <1>3, <1>4 DEF SessionInv, SessionTypes
  <1>8. MadeByDone'
    BY <1>5, SessKinds DEF SessionInv, MadeByDone, DoneStays
  <1>9. MadeByPairing'
    BY <1>1, <1>5, SessKinds DEF SessionInv, MadeByPairing
  <1>10. Browsers!PairsOneBrowser'
    BY <1>6, SessKinds DEF SessionInv, Browsers!PairsOneBrowser
  <1> QED BY <1>4, <1>7, <1>8, <1>9, <1>10 DEF SessionInv

LEMMA SessionsLogout ==
    ASSUME Browsers!AccessAssumption, SessionInv, DoneStays, NEW s \in Browsers!Sess, Browsers!Logout(s)
    PROVE  SessionInv'
  <1>1. /\ session' = [session EXCEPT ![s] = 0] /\ ended' = ended \cup {s} /\ UNCHANGED <<browserNow, pairing, browserAsking, used>> /\ BrowserMade(s)
    BY DEF Browsers!Logout, BrowserMade
  <1>2. session' \in [Browsers!Sess -> Nat] /\ session'[s] = 0 /\ \A r \in Browsers!Sess : r # s => session'[r] = session[r]
    BY <1>1 DEF SessionInv, SessionTypes
  <1>3. \A r \in Browsers!Sess : BrowserMade(r)' => BrowserMade(r)
    BY <1>1, <1>2 DEF BrowserMade
  <1>4. SessionTypes' /\ Browsers!PairsOneBrowser'
    BY <1>1, <1>2 DEF SessionInv, SessionTypes, Browsers!PairsOneBrowser
  <1>5. SessionsFollowUse'
    BY <1>1, <1>2 DEF SessionInv, SessionsFollowUse
  <1>6. MadeByDone'
    BY <1>3, SessKinds DEF SessionInv, MadeByDone, DoneStays
  <1>7. MadeByPairing'
    BY <1>1, <1>3, SessKinds DEF SessionInv, MadeByPairing
  <1> QED BY <1>4, <1>5, <1>6, <1>7 DEF SessionInv

LEMMA SessionsRevoke ==
    ASSUME Browsers!AccessAssumption, SessionInv, DoneStays, Browsers!Revoke PROVE SessionInv'
  <1> DEFINE paired == {s \in Pairs \X Nonces : pairing[s[1]] # None}
  <1>1. /\ session' = [s \in Browsers!Sess |-> 0] /\ pairing' = [p \in Pairs |-> None] /\ UNCHANGED <<browserNow, browserAsking, used>>
        /\ ended' = ended \cup {s \in Browsers!Sess : Browsers!Live(s)} \cup paired
    BY DEF Browsers!Revoke, Browsers!RevokedPairings
  <1>2. paired \subseteq Browsers!Sess
    BY DEF Browsers!Sess
  <1>3. \A s \in Browsers!Sess : session'[s] = 0
    BY <1>1
  <1>4. SessionTypes' /\ Browsers!PairsOneBrowser'
    BY <1>1, <1>2 DEF SessionInv, SessionTypes, Browsers!PairsOneBrowser
  <1>5. SessionsFollowUse'
    <2> SUFFICES ASSUME NEW s \in Browsers!Sess, s \notin ended', used[s] # 0
                 PROVE  browserNow >= used[s] + SessionLife \div 2
      BY <1>1, <1>3 DEF SessionsFollowUse
    <2>1. s \notin ended /\ ~Browsers!Live(s)
      BY <1>1
    <2> QED BY <2>1, AccessBounds DEF SessionInv, SessionTypes, SessionsFollowUse, Browsers!Live, Browsers!Alive
  <1>6. \A s \in Browsers!Sess : BrowserMade(s)' => BrowserMade(s) \/ s \in paired
    BY <1>1, <1>3 DEF BrowserMade, Browsers!Live, Browsers!Alive, SessionInv, SessionTypes
  <1>7. \A c \in Clients : <<c, None>> \notin paired
    BY DEF Browsers!AccessAssumption
  <1>8. \A p \in Pairs, n \in Nonces : <<p, n>> \in paired <=> pairing[p] # None
    OBVIOUS
  <1> HIDE DEF paired
  <1>9. MadeByDone'
    BY <1>6, <1>7, SessKinds DEF SessionInv, MadeByDone, DoneStays
  <1>10. MadeByPairing'
    <2> SUFFICES ASSUME NEW p \in Pairs, NEW n \in Nonces, BrowserMade(<<p, n>>)'
                 PROVE  \A m \in Nonces : <<p, m>> \in ended'
      BY <1>1 DEF MadeByPairing
    <2>1. CASE pairing[p] # None
      BY <1>1, <1>8, <2>1
    <2>2. CASE pairing[p] = None
      <3>1. <<p, n>> \notin paired /\ <<p, n>> \in Browsers!Sess
        BY <1>8, <2>2, SessKinds
      <3>2. BrowserMade(<<p, n>>)
        BY <1>6, <3>1
      <3>3. \A m \in Nonces : <<p, m>> \in ended
        BY <2>2, <3>2 DEF SessionInv, MadeByPairing
      <3> QED BY <1>1, <3>3
    <2> QED BY <2>1, <2>2
  <1> QED BY <1>4, <1>5, <1>9, <1>10 DEF SessionInv

LEMMA SessionsPairing ==
    ASSUME Browsers!AccessAssumption, SessionInv, DoneStays, NEW p \in Pairs, Browsers!CreatePairing(p)
    PROVE  SessionInv'
  <1> DEFINE e == [expiry |-> browserNow + CeremonyLife, claimed |-> None]
  <1>1. /\ pairing[p] = None /\ \A n \in Nonces : <<p, n>> \notin ended
        /\ pairing' = [pairing EXCEPT ![p] = e] /\ UNCHANGED <<browserNow, session, used, ended, browserAsking>>
    BY DEF Browsers!CreatePairing
  <1>2. e \in Pairing
    BY AccessBounds DEF Pairing, SessionInv, SessionTypes
  <1> HIDE DEF e
  <1>3. pairing' \in [Pairs -> Pairing \cup {None}] /\ \A q \in Pairs : q # p => pairing'[q] = pairing[q]
    BY <1>1, <1>2 DEF SessionInv, SessionTypes
  <1>4. SessionTypes' /\ Browsers!PairsOneBrowser' /\ SessionsFollowUse'
    BY <1>1, <1>3 DEF SessionInv, SessionTypes, Browsers!PairsOneBrowser, SessionsFollowUse
  <1>5. MadeByDone'
    BY <1>1 DEF SessionInv, MadeByDone, DoneStays, BrowserMade
  <1>6. \A n \in Nonces : ~BrowserMade(<<p, n>>)
    BY <1>1 DEF SessionInv, MadeByPairing
  <1>7. MadeByPairing'
    BY <1>1, <1>3, <1>6 DEF SessionInv, MadeByPairing, BrowserMade
  <1> QED BY <1>4, <1>5, <1>7 DEF SessionInv

(* Grants.                                                                  *)
GrantInv == grants \subseteq Grant /\ GrantsOfDone

LEMMA GrantsKept == ASSUME GrantInv, DoneStays, UNCHANGED grants PROVE GrantInv'
  <1>1. \A g \in grants : g.client \in Clients
    BY DEF GrantInv, Grant
  <1> QED BY <1>1 DEF GrantInv, GrantsOfDone, DoneStays

LEMMA GrantsAdded ==
    ASSUME Browsers!AccessAssumption, GrantInv, ClientInv, DoneStays, NEW c \in Clients, client[c].step = "claimed",
           client'[c].step = "done", client'[c].boot = client[c].boot, browserIssued + 1 \in Browsers!Tickets,
           grants' = grants \cup {[client |-> c, boot |-> client[c].boot, ticket |-> browserIssued + 1]}
    PROVE  GrantInv'
  <1> DEFINE e == [client |-> c, boot |-> client[c].boot, ticket |-> browserIssued + 1]
  <1>1. e \in Grant /\ e.client = c /\ e.boot = client'[c].boot
    BY DEF Grant, ClientInv, BrowserTypes, Browser
  <1>2. grants' = grants \cup {e}
    OBVIOUS
  <1> HIDE DEF e
  <1>3. \A g \in grants : g.client \in Clients /\ g.client # c
    BY DEF GrantInv, Grant, GrantsOfDone
  <1> QED BY <1>1, <1>2, <1>3 DEF GrantInv, GrantsOfDone, DoneStays

(* The four groups of tables, step by step.                                 *)
Groups == ClientInv /\ CeremonyBound /\ TicketInv /\ SessionInv /\ GrantInv

LEMMA GroupsAre == AccessInv <=> Groups
  BY DEF AccessInv, Groups, ClientInv, TicketInv, SessionInv, GrantInv, RowTypes, TicketTypes, SessionTypes

LEMMA OthersKept ==
    ASSUME Browsers!AccessAssumption, Groups, DoneStays, UNCHANGED <<browserNow, session, used, ended, pairing, browserAsking, browserIssued, entered, grants>>,
           browserTicket' \in {browserTicket, Browsers!Purged(browserTicket)}
    PROVE  TicketInv' /\ SessionInv' /\ GrantInv'
  <1>1. browserNow \in Nat /\ browserNow' \in Nat /\ browserNow' >= browserNow /\ browserAsking' \in Browsers!Sess \cup {None}
    BY DEF Groups, SessionInv, SessionTypes
  <1> QED BY <1>1, TicketsPurged, SessionsKept, GrantsKept DEF Groups

LEMMA NextAccess == ASSUME Browsers!AccessAssumption, AccessInv, Browsers!Next PROVE AccessInv'
  <1>1. Groups /\ DoneStays /\ CeremonyBound' /\ browserNow \in Nat
    BY GroupsAre, DoneStep, CeremonyStep DEF Groups, SessionInv, SessionTypes
  <1>2. boot \in [Boots -> Nat] /\ Browsers!Purged(boot) \in [Boots -> Nat] /\ \A b \in Boots : boot[b] = 0 => Browsers!Purged(boot)[b] = 0
    BY <1>1, PurgedFits DEF Groups, ClientInv, BrowserTypes
  <1>3. SUFFICES ClientInv' /\ TicketInv' /\ SessionInv' /\ GrantInv'
    BY <1>1, GroupsAre DEF AccessInv, ClientInv, TicketInv, SessionInv, GrantInv, RowTypes, TicketTypes,
       SessionTypes
  <1>4. ASSUME UNCHANGED <<boot, cer, client, passkey, signed>> PROVE ClientInv'
    BY <1>1, <1>2, <1>4, ClientsKept DEF Groups
  <1>5. ASSUME UNCHANGED <<browserTicket, browserIssued, entered>> PROVE TicketInv'
    BY <1>1, <1>5, TicketsPurged DEF Groups
  <1>6. ASSUME UNCHANGED <<session, used, ended, pairing, browserNow>>, browserAsking' \in Browsers!Sess \cup {None}
        PROVE  SessionInv'
    <2>1. browserNow' \in Nat /\ browserNow' >= browserNow
      BY <1>1, <1>6
    <2> QED BY <1>1, <1>6, <2>1, SessionsKept DEF Groups
  <1>7. ASSUME UNCHANGED grants PROVE GrantInv'
    BY <1>1, <1>7, GrantsKept DEF Groups
  <1>8. browserAsking \in Browsers!Sess \cup {None}
    BY <1>1 DEF Groups, SessionInv, SessionTypes
  <1>9. CASE Browsers!Tick
    <2>1. /\ UNCHANGED <<boot, cer, client, passkey, signed, browserTicket, browserIssued, entered, session, used, ended, pairing, browserAsking, grants>>
          /\ browserNow' = browserNow + 1
      BY <1>9 DEF Browsers!Tick, Browsers!tables
    <2>2. browserNow' \in Nat /\ browserNow' >= browserNow
      BY <1>1, <2>1
    <2>3. SessionInv'
      BY <1>1, <1>8, <2>1, <2>2, SessionsKept DEF Groups
    <2> QED BY <1>4, <1>5, <1>7, <2>1, <2>3
  <1>10. CASE Browsers!Revoke
    <2>1. UNCHANGED <<boot, cer, client, passkey, signed, browserTicket, browserIssued, entered, grants>>
      BY <1>10 DEF Browsers!Revoke
    <2>2. SessionInv'
      BY <1>1, <1>10, SessionsRevoke DEF Groups
    <2> QED BY <1>4, <1>5, <1>7, <2>1, <2>2
  <1>11. CASE Browsers!IssueTicket
    <2>1. UNCHANGED <<boot, cer, client, passkey, signed, session, used, ended, pairing, browserNow, entered, grants>> /\ browserAsking' = None
      BY <1>11 DEF Browsers!IssueTicket
    <2>2. TicketInv'
      <3>1. CASE Browsers!Live(browserAsking)
        <4>1. Browsers!InsertTicket
          BY <1>11, <3>1 DEF Browsers!IssueTicket
        <4> QED BY <1>1, <2>1, <4>1, TicketInserted DEF Groups
      <3>2. CASE ~Browsers!Live(browserAsking)
        <4>1. UNCHANGED <<browserTicket, browserIssued>>
          BY <1>11, <3>2 DEF Browsers!IssueTicket
        <4> QED BY <1>5, <2>1, <4>1
      <3> QED BY <3>1, <3>2
    <2>3. ClientInv' /\ SessionInv' /\ GrantInv'
      BY <1>4, <1>6, <1>7, <2>1
    <2> QED BY <2>2, <2>3
  <1>12. ASSUME NEW b \in Boots, Browsers!CreateBootstrap(b)
         PROVE  ClientInv' /\ TicketInv' /\ SessionInv' /\ GrantInv'
    <2>1. UNCHANGED <<browserNow, session, used, ended, pairing, browserAsking, browserIssued, entered, grants, browserTicket>>
      BY <1>12 DEF Browsers!CreateBootstrap
    <2>2. ClientInv'
      BY <1>1, <1>12, ClientsCreateBootstrap DEF Groups
    <2> QED BY <1>1, <2>1, <2>2, OthersKept
  <1>13. ASSUME NEW b \in Boots, NEW c \in Clients, Browsers!LoadBootstrap(c, b)
         PROVE  ClientInv' /\ TicketInv' /\ SessionInv' /\ GrantInv'
    <2>1. UNCHANGED <<browserNow, session, used, ended, pairing, browserAsking, browserIssued, entered, grants, browserTicket>>
      BY <1>13 DEF Browsers!LoadBootstrap, Browsers!tables
    <2>2. ClientInv'
      BY <1>1, <1>13, ClientsLoad DEF Groups
    <2> QED BY <1>1, <2>1, <2>2, OthersKept
  <1>14. ASSUME NEW c \in Clients, Browsers!SaveRegistration(c)
         PROVE  ClientInv' /\ TicketInv' /\ SessionInv' /\ GrantInv'
    <2>1. UNCHANGED <<browserNow, session, used, ended, pairing, browserAsking, browserIssued, entered, grants>>
      BY <1>14 DEF Browsers!SaveRegistration
    <2>2. browserTicket' \in {browserTicket, Browsers!Purged(browserTicket)}
      BY <1>14 DEF Browsers!SaveRegistration
    <2>3. ClientInv'
      BY <1>1, <1>14, ClientsSaveRegistration DEF Groups
    <2> QED BY <1>1, <2>1, <2>2, <2>3, OthersKept
  <1>15. ASSUME NEW c \in Clients, Browsers!StartAuthentication(c)
         PROVE  ClientInv' /\ TicketInv' /\ SessionInv' /\ GrantInv'
    <2>1. UNCHANGED <<browserNow, session, used, ended, pairing, browserAsking, browserIssued, entered, grants>>
      BY <1>15 DEF Browsers!StartAuthentication
    <2>2. browserTicket' \in {browserTicket, Browsers!Purged(browserTicket)}
      BY <1>15 DEF Browsers!StartAuthentication
    <2>3. ClientInv'
      BY <1>1, <1>15, ClientsStart DEF Groups
    <2> QED BY <1>1, <2>1, <2>2, <2>3, OthersKept
  <1>16. ASSUME NEW c \in Clients, Browsers!ClaimCeremony(c)
         PROVE  ClientInv' /\ TicketInv' /\ SessionInv' /\ GrantInv'
    <2>1. UNCHANGED <<browserNow, session, used, ended, pairing, browserAsking, browserIssued, entered, grants, browserTicket>>
      BY <1>16 DEF Browsers!ClaimCeremony
    <2>2. ClientInv'
      BY <1>1, <1>16, ClientsClaim DEF Groups
    <2> QED BY <1>1, <2>1, <2>2, OthersKept
  <1>17. ASSUME NEW c \in Clients, Browsers!FinishCeremony(c)
         PROVE  ClientInv' /\ TicketInv' /\ SessionInv' /\ GrantInv'
    <2> DEFINE r == client[c]
    <2>1. ClientInv'
      BY <1>1, <1>17, ClientsFinish DEF Groups
    <2>2. UNCHANGED <<browserNow, pairing, browserAsking, entered, ended>> /\ r.step = "claimed" /\ r \in Browser
      BY <1>1, <1>17 DEF Browsers!FinishCeremony, Groups, ClientInv, BrowserTypes
    <2>3. CASE IF r.kind = "register" THEN passkey[r.key] = None ELSE Browsers!Advances(r.key, r.counter)
      <3>1. /\ Browsers!InsertTicket /\ Browsers!InsertSession(<<c, None>>) /\ client' = [client EXCEPT ![c].step = "done"]
            /\ grants' = grants \cup {[client |-> c, boot |-> client[c].boot, ticket |-> browserIssued + 1]}
        BY <1>17, <2>3 DEF Browsers!FinishCeremony
      <3>2. TicketInv' /\ browserIssued + 1 \in Browsers!Tickets
        BY <1>1, <2>2, <3>1, TicketInserted DEF Groups
      <3>3. client'[c].step = "done" /\ client'[c].boot = client[c].boot
        BY <1>1, <2>2, <3>1 DEF Groups, ClientInv, BrowserTypes, Browser
      <3>4. SessionInv'
        BY <1>1, <2>2, <3>1, <3>3, SessionsFinish DEF Groups
      <3>5. GrantInv'
        BY <1>1, <2>2, <3>1, <3>2, <3>3, GrantsAdded DEF Groups
      <3> QED BY <2>1, <3>2, <3>4, <3>5
    <2>4. CASE ~IF r.kind = "register" THEN passkey[r.key] = None ELSE Browsers!Advances(r.key, r.counter)
      <3>1. UNCHANGED <<browserTicket, session, browserIssued, used, grants>>
        BY <1>17, <2>4 DEF Browsers!FinishCeremony
      <3> QED BY <1>1, <2>1, <2>2, <3>1, OthersKept
    <2> QED BY <2>3, <2>4
  <1>18. ASSUME NEW c \in Clients, NEW k \in BrowserKeys, Browsers!Sign(c, k)
         PROVE  ClientInv' /\ TicketInv' /\ SessionInv' /\ GrantInv'
    <2>1. UNCHANGED <<browserNow, session, used, ended, pairing, browserAsking, browserIssued, entered, grants, browserTicket>>
      BY <1>18 DEF Browsers!Sign, Browsers!tables
    <2>2. ClientInv'
      BY <1>1, <1>18, ClientsSign DEF Groups
    <2> QED BY <1>1, <2>1, <2>2, OthersKept
  <1>19. ASSUME NEW p \in Pairs, Browsers!CreatePairing(p)
         PROVE  ClientInv' /\ TicketInv' /\ SessionInv' /\ GrantInv'
    <2>1. UNCHANGED <<boot, cer, client, passkey, signed, browserTicket, browserIssued, entered, grants>>
      BY <1>19 DEF Browsers!CreatePairing
    <2>2. SessionInv'
      BY <1>1, <1>19, SessionsPairing DEF Groups
    <2> QED BY <1>4, <1>5, <1>7, <2>1, <2>2
  <1>20. ASSUME NEW p \in Pairs, NEW n \in Nonces, Browsers!Redeem(p, n)
         PROVE  ClientInv' /\ TicketInv' /\ SessionInv' /\ GrantInv'
    <2>1. UNCHANGED <<boot, cer, client, passkey, signed, browserTicket, browserIssued, entered, grants>>
      BY <1>20 DEF Browsers!Redeem
    <2>2. SessionInv'
      BY <1>1, <1>20, SessionsRedeem DEF Groups
    <2> QED BY <1>4, <1>5, <1>7, <2>1, <2>2
  <1>21. ASSUME NEW s \in Browsers!Sess, Browsers!Logout(s)
         PROVE  ClientInv' /\ TicketInv' /\ SessionInv' /\ GrantInv'
    <2>1. UNCHANGED <<boot, cer, client, passkey, signed, browserTicket, browserIssued, entered, grants>>
      BY <1>21 DEF Browsers!Logout
    <2>2. SessionInv'
      BY <1>1, <1>21, SessionsLogout DEF Groups
    <2> QED BY <1>4, <1>5, <1>7, <2>1, <2>2
  <1>22. ASSUME NEW s \in Browsers!Sess, NEW f \in BOOLEAN, Browsers!Authenticate(s, f)
         PROVE  ClientInv' /\ TicketInv' /\ SessionInv' /\ GrantInv'
    <2>1. UNCHANGED <<boot, cer, client, passkey, signed, browserTicket, browserIssued, entered, grants>>
      BY <1>22 DEF Browsers!Authenticate
    <2>2. SessionInv'
      BY <1>1, <1>22, SessionsAuthenticate DEF Groups
    <2> QED BY <1>4, <1>5, <1>7, <2>1, <2>2
  <1>23. ASSUME NEW t \in Browsers!Tickets, Browsers!ClaimTicket(t)
         PROVE  ClientInv' /\ TicketInv' /\ SessionInv' /\ GrantInv'
    <2>1. UNCHANGED <<boot, cer, client, passkey, signed, session, used, ended, pairing, browserNow, browserAsking, grants>>
      BY <1>23 DEF Browsers!ClaimTicket
    <2>2. TicketInv'
      BY <1>1, <1>23, TicketClaimed DEF Groups
    <2> QED BY <1>4, <1>6, <1>7, <1>8, <2>1, <2>2
  <1> QED BY <1>9, <1>10, <1>11, <1>12, <1>13, <1>14, <1>15, <1>16, <1>17, <1>18, <1>19, <1>20, <1>21, <1>22,
             <1>23 DEF Browsers!Next

LEMMA InvAccess ==
    ASSUME Browsers!AccessAssumption, AccessInv
    PROVE  Browsers!TypeOK /\ Browsers!GrantsOnce /\ Browsers!EndedStaysEnded /\ Browsers!PairsOneBrowser /\ Browsers!UsedSessionLives
  <1>1. Browsers!TypeOK
    BY BrowserCounts DEF Browsers!TypeOK, AccessInv, CeremonyBound, RowTypes, CountersKnown
  <1>2. Browsers!GrantsOnce
    <2>1. \A g, h \in grants : g.client \in Clients /\ h.client \in Clients /\ client[g.client].step \in Past
      BY DEF AccessInv, RowTypes, Grant, GrantsOfDone, Past
    <2>2. \A g, h \in grants : g.boot # None /\ g.boot = h.boot => g.client = h.client
      BY <2>1 DEF AccessInv, GrantsOfDone, BootOnce
    <2>3. \A g, h \in grants : g.client = h.client => g = h
      BY DEF AccessInv, GrantsOfDone
    <2>4. \A t \in Browsers!Tickets : entered[t] <= 1
      BY DEF AccessInv, TicketsOnce
    <2> QED BY <2>2, <2>3, <2>4 DEF Browsers!GrantsOnce
  <1>3. Browsers!EndedStaysEnded
    BY DEF Browsers!EndedStaysEnded, AccessInv, RowTypes, SessionsFollowUse, Browsers!Live, Browsers!Alive
  <1>4. Browsers!UsedSessionLives
    BY AccessBounds DEF Browsers!UsedSessionLives, AccessInv, RowTypes, SessionsFollowUse, Browsers!Live,
       Browsers!Alive
  <1> QED BY <1>1, <1>2, <1>3, <1>4 DEF AccessInv

(* The counter of a passkey: only FinishCeremony writes it.                 *)
LEMMA CounterStep ==
    ASSUME Browsers!AccessAssumption, AccessInv, [Browsers!Next]_(Browsers!vars)
    PROVE  Browsers!CounterAscends
  <1>1. ClientInv /\ passkey \in [BrowserKeys -> Nat \cup {None}]
    BY DEF AccessInv, ClientInv, BrowserTypes
  <1>2. ASSUME UNCHANGED passkey PROVE Browsers!CounterAscends
    BY <1>1, <1>2 DEF Browsers!CounterAscends
  <1>3. ASSUME NEW c \in Clients, Browsers!FinishCeremony(c) PROVE Browsers!CounterAscends
    BY <1>1, <1>3, ClientsFinish DEF Browsers!CounterAscends
  <1>4. CASE UNCHANGED Browsers!vars \/ Browsers!Tick \/ Browsers!Revoke \/ Browsers!IssueTicket
    BY <1>2, <1>4 DEF Browsers!vars, Browsers!tables, Browsers!Tick, Browsers!Revoke, Browsers!IssueTicket
  <1>5. ASSUME NEW b \in Boots, Browsers!CreateBootstrap(b) PROVE Browsers!CounterAscends
    BY <1>2, <1>5 DEF Browsers!CreateBootstrap
  <1>6. ASSUME NEW b \in Boots, NEW c \in Clients, Browsers!LoadBootstrap(c, b) PROVE Browsers!CounterAscends
    BY <1>2, <1>6 DEF Browsers!LoadBootstrap, Browsers!tables
  <1>7. ASSUME NEW c \in Clients, Browsers!SaveRegistration(c) \/ Browsers!StartAuthentication(c) \/ Browsers!ClaimCeremony(c)
        PROVE  Browsers!CounterAscends
    BY <1>2, <1>7 DEF Browsers!SaveRegistration, Browsers!StartAuthentication, Browsers!ClaimCeremony
  <1>8. ASSUME NEW c \in Clients, NEW k \in BrowserKeys, Browsers!Sign(c, k) PROVE Browsers!CounterAscends
    BY <1>2, <1>8 DEF Browsers!Sign, Browsers!tables
  <1>9. CASE \E p \in Pairs : Browsers!CreatePairing(p) \/ \E n \in Nonces : Browsers!Redeem(p, n)
    BY <1>2, <1>9 DEF Browsers!CreatePairing, Browsers!Redeem
  <1>10. CASE \E s \in Browsers!Sess : Browsers!Logout(s) \/ \E f \in BOOLEAN : Browsers!Authenticate(s, f)
    BY <1>2, <1>10 DEF Browsers!Logout, Browsers!Authenticate
  <1>11. CASE \E t \in Browsers!Tickets : Browsers!ClaimTicket(t)
    BY <1>2, <1>11 DEF Browsers!ClaimTicket
  <1> QED BY <1>3, <1>4, <1>5, <1>6, <1>7, <1>8, <1>9, <1>10, <1>11 DEF Browsers!Next

LEMMA StutterAccess == ASSUME AccessInv, UNCHANGED Browsers!vars PROVE AccessInv'
  <1>1. UNCHANGED <<browserNow, boot, cer, client, passkey, signed, session, pairing, browserTicket, browserAsking, browserIssued, entered, ended, used, grants>>
    BY DEF Browsers!vars, Browsers!tables
  <1>2. (BrowserTypes /\ RowTypes)'
    BY <1>1 DEF AccessInv, BrowserTypes, RowTypes
  <1>3. (BrowserPhases /\ BootOnce /\ CountersKnown)'
    BY <1>1 DEF AccessInv, BrowserPhases, BootOnce, CountersKnown
  <1>4. (CeremonyBound /\ GrantsOfDone /\ TicketsOnce)'
    <2>1. Browsers!Active' = Browsers!Active
      BY <1>1 DEF Browsers!Active, Browsers!Alive
    <2>2. CeremonyBound'
      BY <2>1 DEF AccessInv, CeremonyBound
    <2> QED BY <1>1, <2>2 DEF AccessInv, GrantsOfDone, TicketsOnce
  <1>5. (MadeByDone /\ MadeByPairing /\ SessionsFollowUse /\ Browsers!PairsOneBrowser)'
    BY <1>1 DEF AccessInv, MadeByDone, MadeByPairing, BrowserMade, SessionsFollowUse, Browsers!PairsOneBrowser
  <1> QED BY <1>2, <1>3, <1>4, <1>5 DEF AccessInv

LEMMA AccessAlways == ASSUME Browsers!AccessAssumption PROVE Browsers!Spec => []AccessInv
  <1>1. Browsers!Init => AccessInv
    BY InitAccess
  <1>2. AccessInv /\ [Browsers!Next]_(Browsers!vars) => AccessInv'
    BY NextAccess, StutterAccess
  <1> QED BY <1>1, <1>2, PTL DEF Browsers!Spec

(* For any browsers, bootstraps, keys, pairings and tickets: a bootstrap or *)
(* a ticket grants once, a session that was ended stays ended, a pairing    *)
(* serves one browser and a session in use does not lapse (claim_bootstrap, *)
(* redeem, logout, authenticate).                                           *)
THEOREM BrowsersAreGrantedOnce ==
    ASSUME Browsers!AccessAssumption
    PROVE  Browsers!Spec => [](Browsers!TypeOK /\ Browsers!GrantsOnce /\ Browsers!EndedStaysEnded /\ Browsers!PairsOneBrowser /\ Browsers!UsedSessionLives)
  <1>1. AccessInv => Browsers!TypeOK /\ Browsers!GrantsOnce /\ Browsers!EndedStaysEnded /\ Browsers!PairsOneBrowser /\ Browsers!UsedSessionLives
    BY InvAccess
  <1> QED BY <1>1, AccessAlways, PTL

(* A passkey's stored counter never goes back, although ceremonies of the   *)
(* same key finish in any order (finish_authentication).                    *)
THEOREM CountersNeverGoBack ==
    ASSUME Browsers!AccessAssumption
    PROVE  Browsers!Spec => [][Browsers!CounterAscends]_(Browsers!vars)
  <1>1. AccessInv /\ [Browsers!Next]_(Browsers!vars) => [Browsers!CounterAscends]_(Browsers!vars)
    BY CounterStep
  <1> QED BY <1>1, AccessAlways, PTL DEF Browsers!Spec

-----------------------------------------------------------------------------
(* Proof that only accepted devices are served *)

LEMMA DeviceCounts == \A S : Cardinality(S) = Holders!Cardinality(S) /\ (IsFiniteSet(S) <=> Holders!IsFiniteSet(S))
  BY DEF Cardinality, Holders!Cardinality, IsFiniteSet, Holders!IsFiniteSet

(* A connection that holds the lifecycle lock was accepted, and whoever     *)
(* takes its credential away since then has yet to end its sessions, or was *)
(* a sign-in that was dropped.                                              *)
DeviceRows == [key : DeviceKeys \cup {None}, cred : Nat, revoked : BOOLEAN]
DevicePlaces == {"idle", "challenged", "ready", "accepted", "serving", "cancelled", "closed"}
ConnRows == [step : DevicePlaces, device : DeviceIds \cup {None}, cred : Nat]
Entitled(c) == deviceConn[c].device \in DeviceIds /\ (Holders!Accepts(deviceConn[c].device, deviceConn[c].cred) \/ Holders!Owing(deviceConn[c].device))
DeviceTypes ==
    /\ dev \in [DeviceIds -> DeviceRows \cup {None}] /\ creds \in Nat /\ deviceConn \in [Conns -> ConnRows]
    /\ lock \in Conns \cup {None} /\ ending \subseteq [device : DeviceIds, cred : Nat]
    /\ \A c \in Conns : deviceConn[c].step # "idle" => deviceConn[c].device \in DeviceIds
    /\ notice \in [Notices -> DeviceIds \cup {None}]
OneHolder == \A d, e \in Holders!Known : dev[d].key \in DeviceKeys /\ dev[d].key = dev[e].key => d = e
Lifecycle ==
    /\ sessions = {c \in Conns : deviceConn[c].step = "serving"}
    /\ \A c \in Conns : deviceConn[c].step = "accepted" <=> lock = c
    /\ \A c \in Conns : deviceConn[c].step \in {"accepted", "serving"} => Entitled(c)
DeviceInv == DeviceTypes /\ OneHolder /\ Lifecycle /\ Holders!DeviceBound /\ Holders!RevokedHoldsNothing

LEMMA InitDevices == ASSUME Holders!DevicesAssumption, Holders!Init PROVE DeviceInv
  <1>1. DeviceTypes
    BY DEF Holders!Init, DeviceTypes, ConnRows, DevicePlaces
  <1>2. Holders!Known = {} /\ Holders!Keyed = {}
    BY DEF Holders!Init, Holders!Known, Holders!Keyed
  <1>3. Holders!DeviceBound
    BY <1>2, FS_EmptySet, DeviceCounts DEF Holders!DeviceBound, Holders!DevicesAssumption
  <1>4. OneHolder /\ Holders!RevokedHoldsNothing
    BY <1>2 DEF OneHolder, Holders!RevokedHoldsNothing
  <1>5. Lifecycle
    BY DEF Holders!Init, Lifecycle, Holders!DevicesAssumption
  <1> QED BY <1>1, <1>3, <1>4, <1>5 DEF DeviceInv

LEMMA KeyedFinite ==
    ASSUME Holders!DevicesAssumption
    PROVE  Holders!Keyed \subseteq DeviceIds /\ IsFiniteSet(Holders!Keyed) /\ Cardinality(Holders!Keyed) \in Nat
  <1>1. Holders!Keyed \subseteq DeviceIds /\ IsFiniteSet(DeviceIds)
    BY DeviceCounts DEF Holders!Keyed, Holders!Known, Holders!DevicesAssumption
  <1> QED BY <1>1, FS_Subset, FS_CardinalityType

(* No new keyed device: the limit stays.                                    *)
LEMMA BoundKept ==
    ASSUME Holders!DevicesAssumption, Holders!DeviceBound, Holders!Keyed' \subseteq Holders!Keyed
    PROVE  Holders!DeviceBound'
  <1>1. IsFiniteSet(Holders!Keyed) /\ Cardinality(Holders!Keyed) \in Nat /\ Cardinality(Holders!Keyed) <= MaxDevices /\ MaxDevices \in Nat
    BY KeyedFinite, DeviceCounts DEF Holders!DeviceBound, Holders!DevicesAssumption
  <1>2. IsFiniteSet(Holders!Keyed') /\ Cardinality(Holders!Keyed') <= Cardinality(Holders!Keyed)
    BY <1>1, FS_Subset
  <1>3. Cardinality(Holders!Keyed') \in Nat
    BY <1>2, FS_CardinalityType
  <1> QED BY <1>1, <1>2, <1>3, DeviceCounts DEF Holders!DeviceBound

(* What the steps of connections leave alone.                               *)
LEMMA DevicesStay ==
    ASSUME DeviceInv, UNCHANGED <<dev, noticeKey, notice>>
    PROVE  OneHolder' /\ Holders!DeviceBound' /\ Holders!RevokedHoldsNothing'
  BY DEF DeviceInv, OneHolder, Holders!DeviceBound, Holders!RevokedHoldsNothing, Holders!Known, Holders!Keyed

(* A connection keeps what entitles it while devices only gain credentials  *)
(* or lose them to a handler that will end its sessions.                    *)
LEMMA EntitledKept ==
    ASSUME DeviceInv, UNCHANGED <<deviceConn, lock, sessions>>,
           \A d \in DeviceIds : Holders!Owing(d) => Holders!Owing(d)',
           \A d \in DeviceIds : \A x : Holders!Accepts(d, x) => Holders!Accepts(d, x)' \/ Holders!Owing(d)'
    PROVE  Lifecycle'
  BY DEF DeviceInv, Lifecycle, Entitled

LEMMA EnrolKeeps ==
    ASSUME Holders!DevicesAssumption, DeviceInv, NEW d \in DeviceIds, NEW k \in DeviceKeys \cup {None}, d \notin Holders!Known, creds' = creds + 1,
           dev' = [dev EXCEPT ![d] = [key |-> k, cred |-> creds + 1, revoked |-> FALSE]],
           k # None => Holders!Holder(k) = {} /\ Holders!HasRoom,
           UNCHANGED <<deviceConn, lock, sessions, ending, left, noticeKey, notice>>
    PROVE  DeviceInv'
  <1> DEFINE e == [key |-> k, cred |-> creds + 1, revoked |-> FALSE]
  <1>1. e \in DeviceRows /\ e.key = k /\ e.revoked = FALSE
    BY DEF DeviceInv, DeviceTypes, DeviceRows
  <1>2. dev' \in [DeviceIds -> DeviceRows \cup {None}] /\ dev'[d] = e /\ \A x \in DeviceIds : x # d => dev'[x] = dev[x]
    BY <1>1 DEF DeviceInv, DeviceTypes
  <1> HIDE DEF e
  <1>3. DeviceTypes'
    BY <1>2 DEF DeviceInv, DeviceTypes
  <1>4. \A x \in Holders!Known' : x = d \/ (x \in Holders!Known /\ dev'[x] = dev[x])
    BY <1>2 DEF Holders!Known
  <1>5. OneHolder'
    BY <1>1, <1>2, <1>4 DEF DeviceInv, OneHolder, Holders!Holder, Holders!DevicesAssumption
  <1>6. Lifecycle'
    <2>1. \A x \in DeviceIds : \A q : Holders!Accepts(x, q) => Holders!Accepts(x, q)'
      BY <1>2 DEF Holders!Accepts, Holders!Active, Holders!Known
    <2>2. \A x \in DeviceIds : Holders!Owing(x) => Holders!Owing(x)'
      BY <1>2 DEF Holders!Owing, Holders!Active, Holders!Known
    <2> QED BY <2>1, <2>2, EntitledKept
  <1>7. Holders!RevokedHoldsNothing'
    <2>1. \A x \in Holders!Known' : dev'[x].revoked => x \in Holders!Known /\ dev[x].revoked
      BY <1>1, <1>2, <1>4, Zenon
    <2> QED BY <2>1 DEF DeviceInv, Holders!RevokedHoldsNothing
  <1>8. Holders!DeviceBound'
    <2>1. Holders!Keyed' \subseteq Holders!Keyed \cup {d}
      BY <1>4 DEF Holders!Keyed
    <2>2. CASE k = None
      <3>1. Holders!Keyed' \subseteq Holders!Keyed
        BY <1>1, <1>2, <2>1, <2>2 DEF Holders!Keyed
      <3> QED BY <3>1, BoundKept DEF DeviceInv
    <2>3. CASE k # None
      <3>1. Cardinality(Holders!Keyed) < MaxDevices /\ IsFiniteSet(Holders!Keyed) /\ Cardinality(Holders!Keyed) \in Nat /\ d \notin Holders!Keyed
        BY <2>3, KeyedFinite, DeviceCounts DEF Holders!HasRoom, Holders!Keyed
      <3>2. IsFiniteSet(Holders!Keyed \cup {d}) /\ Cardinality(Holders!Keyed \cup {d}) = Cardinality(Holders!Keyed) + 1
        BY <3>1, FS_AddElement
      <3>3. IsFiniteSet(Holders!Keyed') /\ Cardinality(Holders!Keyed') <= Cardinality(Holders!Keyed) + 1
        BY <2>1, <3>2, FS_Subset
      <3>4. Cardinality(Holders!Keyed') \in Nat
        BY <3>3, FS_CardinalityType
      <3> QED BY <3>1, <3>3, <3>4, DeviceCounts DEF Holders!DeviceBound, Holders!DevicesAssumption
    <2> QED BY <2>2, <2>3
  <1> QED BY <1>3, <1>5, <1>6, <1>7, <1>8 DEF DeviceInv

(* A signed-in device gets a new credential, or a device is revoked: the    *)
(* handler that does it is left to end the sessions.                        *)
LEMMA TakenAway ==
    ASSUME Holders!DevicesAssumption, DeviceInv, NEW d \in DeviceIds, d \in Holders!Known, NEW e \in DeviceRows, dev' = [dev EXCEPT ![d] = e],
           e.key = dev[d].key, dev[d].revoked => e.revoked, creds' \in Nat,
           e.revoked => d \notin noticeKey' /\ \A n \in Notices : notice'[n] # d,
           noticeKey' \subseteq noticeKey, notice' \in [Notices -> DeviceIds \cup {None}],
           \A n \in Notices : notice'[n] = notice[n] \/ notice'[n] = None,
           NEW h \in [device : DeviceIds, cred : Nat], h.device = d, e.revoked => h = Holders!Revocation(d),
           ending' = ending \cup {h}, UNCHANGED <<deviceConn, lock, sessions, left>>
    PROVE  DeviceInv'
  <1>1. dev' \in [DeviceIds -> DeviceRows \cup {None}] /\ dev'[d] = e /\ \A x \in DeviceIds : x # d => dev'[x] = dev[x]
    BY DEF DeviceInv, DeviceTypes
  <1>2. DeviceTypes'
    BY <1>1 DEF DeviceInv, DeviceTypes
  <1>3. \A x \in Holders!Known' : x \in Holders!Known /\ dev'[x].key = dev[x].key
    BY <1>1 DEF Holders!Known
  <1>4. OneHolder'
    BY <1>3 DEF DeviceInv, OneHolder
  <1>5. Lifecycle'
    <2>1. Holders!Owing(d)'
      <3>1. CASE e.revoked
        BY <3>1 DEF Holders!Owing
      <3>2. CASE ~e.revoked
        <4>1. d \in Holders!Known' /\ ~dev'[d].revoked
          BY <1>1, <3>2 DEF Holders!Known, Holders!DevicesAssumption, DeviceRows
        <4>2. h \in ending' /\ h.device = d
          OBVIOUS
        <4> QED BY <4>1, <4>2 DEF Holders!Owing, Holders!Active
      <3> QED BY <3>1, <3>2
    <2>2. \A x \in DeviceIds : x # d => (Holders!Owing(x) => Holders!Owing(x)') /\ \A q : Holders!Accepts(x, q) => Holders!Accepts(x, q)'
      BY <1>1 DEF Holders!Accepts, Holders!Owing, Holders!Active, Holders!Known
    <2> QED BY <2>1, <2>2, EntitledKept
  <1>6. Holders!Keyed' \subseteq Holders!Keyed
    <2>1. \A x \in Holders!Known : dev[x].revoked => dev'[x].revoked
      BY <1>1 DEF Holders!Known
    <2> QED BY <1>3, <2>1 DEF Holders!Keyed
  <1>7. Holders!DeviceBound'
    BY <1>6, BoundKept DEF DeviceInv
  <1>8. Holders!RevokedHoldsNothing'
    <2> SUFFICES ASSUME NEW x \in Holders!Known', dev'[x].revoked
                 PROVE  x \notin noticeKey' /\ \A n \in Notices : notice'[n] # x
      BY DEF Holders!RevokedHoldsNothing
    <2>1. CASE x = d
      BY <1>1, <2>1
    <2>2. CASE x # d
      <3>1. x \in Holders!Known /\ dev[x].revoked /\ x \in DeviceIds
        BY <1>1, <1>3, <2>2 DEF Holders!Known
      <3> QED BY <3>1 DEF DeviceInv, Holders!RevokedHoldsNothing, Holders!DevicesAssumption
    <2> QED BY <2>1, <2>2
  <1> QED BY <1>2, <1>4, <1>5, <1>7, <1>8 DEF DeviceInv

LEMMA AdoptKeeps ==
    ASSUME Holders!DevicesAssumption, DeviceInv, NEW d \in DeviceIds, Holders!Adopt(d)
    PROVE  DeviceInv'
  <1> DEFINE e == [dev[d] EXCEPT !.cred = creds + 1]
  <1>1. d \in Holders!Known /\ dev[d] \in DeviceRows /\ creds \in Nat
    BY DEF Holders!Adopt, Holders!Keyed, Holders!Known, DeviceInv, DeviceTypes
  <1>2. e \in DeviceRows /\ e.key = dev[d].key /\ e.revoked = dev[d].revoked
    BY <1>1 DEF DeviceRows
  <1> DEFINE h == Holders!SignIn(d, creds + 1)
  <1>3. dev' = [dev EXCEPT ![d] = e] /\ ending' = ending \cup {h} /\ UNCHANGED <<deviceConn, lock, sessions, left, noticeKey, notice>> /\ creds' \in Nat
    BY <1>1 DEF Holders!Adopt
  <1> HIDE DEF e
  <1>4. e.revoked => d \notin noticeKey' /\ \A n \in Notices : notice'[n] # d
    BY <1>1, <1>2, <1>3 DEF DeviceInv, Holders!RevokedHoldsNothing
  <1>5. notice' \in [Notices -> DeviceIds \cup {None}]
    BY <1>3 DEF DeviceInv, DeviceTypes
  <1>6. h \in [device : DeviceIds, cred : Nat] /\ h.device = d /\ ~e.revoked
    BY <1>1, <1>2 DEF Holders!SignIn, Holders!Adopt, Holders!Keyed
  <1> HIDE DEF h
  <1> QED BY <1>1, <1>2, <1>3, <1>4, <1>5, <1>6, TakenAway

LEMMA RevokeKeeps ==
    ASSUME Holders!DevicesAssumption, DeviceInv, NEW d \in DeviceIds, Holders!RevokeDevice(d)
    PROVE  DeviceInv'
  <1> DEFINE e == [dev[d] EXCEPT !.revoked = TRUE]
  <1>1. d \in Holders!Known /\ dev[d] \in DeviceRows /\ creds \in Nat
    BY DEF Holders!RevokeDevice, Holders!Known, DeviceInv, DeviceTypes
  <1>2. e \in DeviceRows /\ e.key = dev[d].key /\ e.revoked = TRUE
    BY <1>1 DEF DeviceRows
  <1>3. /\ dev' = [dev EXCEPT ![d] = e] /\ ending' = ending \cup {Holders!Revocation(d)} /\ UNCHANGED <<deviceConn, lock, sessions, left, creds>>
        /\ noticeKey' = noticeKey \ {d} /\ notice' = [n \in Notices |-> IF notice[n] = d THEN None ELSE notice[n]]
    BY DEF Holders!RevokeDevice
  <1> HIDE DEF e
  <1>4. d \notin noticeKey' /\ noticeKey' \subseteq noticeKey /\ \A n \in Notices : notice'[n] # d /\ (notice'[n] = notice[n] \/ notice'[n] = None)
    BY <1>3 DEF Holders!DevicesAssumption
  <1>5. notice' \in [Notices -> DeviceIds \cup {None}]
    BY <1>3 DEF DeviceInv, DeviceTypes
  <1>6. dev[d].revoked => e.revoked
    BY <1>2, Zenon
  <1>7. Holders!Revocation(d) \in [device : DeviceIds, cred : Nat] /\ Holders!Revocation(d).device = d
    BY DEF Holders!Revocation
  <1> QED BY <1>1, <1>2, <1>3, <1>4, <1>5, <1>6, <1>7, TakenAway

(* The handler of a sign-in is dropped: its device is marked.               *)
LEMMA LeaveKeeps ==
    ASSUME Holders!DevicesAssumption, DeviceInv, NEW e \in ending, Holders!LeaveSignIn(e)
    PROVE  DeviceInv'
  <1>1. /\ e.cred # 0 /\ ending' = ending \ {e} /\ left' = left \cup {e.device}
        /\ UNCHANGED <<dev, creds, deviceConn, lock, sessions, noticeKey, notice>>
    BY DEF Holders!LeaveSignIn
  <1>2. \A d : Holders!Owing(d) => Holders!Owing(d)'
    BY <1>1 DEF Holders!Owing, Holders!Revocation, Holders!Active, Holders!Known
  <1>3. \A d, x : Holders!Accepts(d, x) => Holders!Accepts(d, x)'
    BY <1>1 DEF Holders!Accepts, Holders!Active, Holders!Known
  <1>4. DeviceTypes'
    BY <1>1 DEF DeviceInv, DeviceTypes
  <1> QED BY <1>1, <1>2, <1>3, <1>4, EntitledKept, DevicesStay DEF DeviceInv

LEMMA EndKeeps ==
    ASSUME Holders!DevicesAssumption, DeviceInv, NEW e \in ending, Holders!EndDeviceSessions(e)
    PROVE  DeviceInv'
  <1> DEFINE d == e.device
  <1> DEFINE gone == {c \in sessions : deviceConn[c].device = d}
  <1>1. /\ lock = None /\ ending' = ending \ {e} /\ left' = left \ {d} /\ sessions' = sessions \ gone
        /\ deviceConn' = [c \in Conns |-> IF c \in gone THEN [deviceConn[c] EXCEPT !.step = "cancelled"] ELSE deviceConn[c]]
        /\ UNCHANGED <<dev, creds, lock, noticeKey, notice>>
    BY DEF Holders!EndDeviceSessions
  <1>2. \A c \in Conns : deviceConn[c] \in ConnRows
    BY DEF DeviceInv, DeviceTypes
  <1>3. \A c \in Conns : c \in gone <=> deviceConn[c].step = "serving" /\ deviceConn[c].device = d
    BY DEF DeviceInv, Lifecycle
  <1> HIDE DEF gone
  <1>4. ASSUME NEW c \in Conns
        PROVE  /\ deviceConn'[c] \in ConnRows /\ deviceConn'[c].device = deviceConn[c].device /\ deviceConn'[c].cred = deviceConn[c].cred
               /\ c \in gone => deviceConn'[c].step = "cancelled"
               /\ c \notin gone => deviceConn'[c] = deviceConn[c]
    BY <1>1, <1>2 DEF ConnRows, DevicePlaces
  <1>5. deviceConn' \in [Conns -> ConnRows]
    BY <1>1, <1>4
  <1>6. DeviceTypes'
    BY <1>1, <1>3, <1>4, <1>5 DEF DeviceInv, DeviceTypes
  <1>7. ASSUME NEW c \in Conns, deviceConn'[c].step \in {"accepted", "serving"} PROVE Entitled(c)'
    <2>1. deviceConn'[c] = deviceConn[c] /\ deviceConn[c].device # d /\ Entitled(c)
      BY <1>1, <1>3, <1>4, <1>7 DEF DeviceInv, Lifecycle, Holders!DevicesAssumption
    <2>2. Holders!Owing(deviceConn[c].device) => Holders!Owing(deviceConn[c].device)'
      BY <1>1, <2>1 DEF Holders!Owing, Holders!Revocation, Holders!Active, Holders!Known
    <2> QED BY <1>1, <2>1, <2>2 DEF Entitled, Holders!Accepts, Holders!Active, Holders!Known
  <1>8. sessions' = {c \in Conns : deviceConn'[c].step = "serving"} /\ \A c \in Conns : deviceConn'[c].step = "accepted" <=> lock' = c
    BY <1>1, <1>3, <1>4 DEF DeviceInv, Lifecycle
  <1>9. Lifecycle'
    BY <1>7, <1>8 DEF Lifecycle
  <1> QED BY <1>1, <1>6, <1>9, DevicesStay DEF DeviceInv

(* One connection moves.                                                    *)
LEMMA ConnMoves ==
    ASSUME Holders!DevicesAssumption, DeviceInv, NEW c \in Conns, NEW n \in ConnRows, deviceConn' = [deviceConn EXCEPT ![c] = n],
           UNCHANGED <<dev, creds, ending, left, noticeKey, notice>>, n.step # "idle" => n.device \in DeviceIds,
           sessions' = IF n.step = "serving" THEN sessions \cup {c} ELSE sessions \ {c},
           n.step = "accepted" => lock = None /\ lock' = c /\ Holders!Accepts(n.device, n.cred),
           n.step # "accepted" => lock' = IF deviceConn[c].step = "accepted" THEN None ELSE lock,
           n.step = "serving" => deviceConn[c].step = "accepted" /\ n.device = deviceConn[c].device /\ n.cred = deviceConn[c].cred
    PROVE  DeviceInv'
  <1>1. deviceConn' \in [Conns -> ConnRows] /\ deviceConn'[c] = n /\ \A x \in Conns : x # c => deviceConn'[x] = deviceConn[x]
    BY DEF DeviceInv, DeviceTypes
  <1>2. DeviceTypes'
    BY <1>1 DEF DeviceInv, DeviceTypes
  <1>3. sessions' = {x \in Conns : deviceConn'[x].step = "serving"}
    BY <1>1 DEF DeviceInv, Lifecycle
  <1>4. \A x \in Conns : deviceConn'[x].step = "accepted" <=> lock' = x
    BY <1>1 DEF DeviceInv, Lifecycle, Holders!DevicesAssumption
  <1>5. ASSUME NEW x \in Conns, deviceConn'[x].step \in {"accepted", "serving"} PROVE Entitled(x)'
    <2>1. \A i, q : Holders!Accepts(i, q)' <=> Holders!Accepts(i, q)
      BY DEF Holders!Accepts, Holders!Active, Holders!Known
    <2>4. \A i : Holders!Owing(i)' <=> Holders!Owing(i)
      BY DEF Holders!Owing, Holders!Active, Holders!Known
    <2>2. CASE x = c
      BY <1>1, <1>5, <2>1, <2>2, <2>4 DEF Entitled, DeviceInv, Lifecycle
    <2>3. CASE x # c
      BY <1>1, <1>5, <2>1, <2>3, <2>4 DEF Entitled, DeviceInv, Lifecycle
    <2> QED BY <2>2, <2>3
  <1>6. Lifecycle'
    BY <1>3, <1>4, <1>5 DEF Lifecycle
  <1> QED BY <1>2, <1>6, DevicesStay DEF DeviceInv

LEMMA AuthenticateKeeps ==
    ASSUME Holders!DevicesAssumption, DeviceInv, NEW c \in Conns, NEW d \in DeviceIds, NEW cred \in 1..creds, Holders!Authenticate(c, d, cred)
    PROVE  DeviceInv'
  <1> DEFINE n == [step |-> IF dev[d].key = None THEN "ready" ELSE "challenged", device |-> d, cred |-> cred]
  <1>1. creds \in Nat /\ deviceConn[c].step = "idle" /\ deviceConn' = [deviceConn EXCEPT ![c] = n] /\ UNCHANGED <<dev, creds, lock, sessions, ending, left, noticeKey, notice>>
    BY DEF Holders!Authenticate, DeviceInv, DeviceTypes
  <1>2. cred \in Nat
    BY <1>1
  <1>3. n \in ConnRows /\ n.step \in {"ready", "challenged"} /\ n.device \in DeviceIds
    BY <1>2 DEF ConnRows, DevicePlaces
  <1>4. c \notin sessions
    BY <1>1 DEF DeviceInv, Lifecycle
  <1> HIDE DEF n
  <1> QED BY <1>1, <1>3, <1>4, ConnMoves

(* A connection goes on from its challenge, from its lookup under the lock, *)
(* or to its registration.                                                  *)
LEMMA ConnSteps ==
    ASSUME Holders!DevicesAssumption, DeviceInv, NEW c \in Conns,
           Holders!ProvePossession(c) \/ Holders!Activate(c) \/ Holders!RegisterSession(c) \/ Holders!CleanupSession(c)
    PROVE  DeviceInv'
  <1>1. deviceConn[c] \in ConnRows /\ (deviceConn[c].step # "idle" => deviceConn[c].device \in DeviceIds) /\ (c \in sessions <=> deviceConn[c].step = "serving")
    BY DEF DeviceInv, DeviceTypes, Lifecycle
  <1>2. CASE Holders!ProvePossession(c)
    <2>1. PICK s \in {"ready", "closed"} : deviceConn' = [deviceConn EXCEPT ![c].step = s]
      BY <1>2 DEF Holders!ProvePossession
    <2> DEFINE n == [deviceConn[c] EXCEPT !.step = s]
    <2>2. n \in ConnRows /\ n.step = s /\ n.device = deviceConn[c].device /\ deviceConn' = [deviceConn EXCEPT ![c] = n]
      BY <1>1, <2>1 DEF ConnRows, DevicePlaces
    <2> HIDE DEF n
    <2>3. deviceConn[c].step = "challenged" /\ UNCHANGED <<dev, creds, lock, sessions, ending, left, noticeKey, notice>>
      BY <1>2 DEF Holders!ProvePossession
    <2> QED BY <1>1, <2>2, <2>3, ConnMoves
  <1>3. CASE Holders!Activate(c)
    <2> DEFINE s == IF Holders!StillAccepted(c) THEN "accepted" ELSE "closed"
               n == [deviceConn[c] EXCEPT !.step = s]
    <2>1. /\ deviceConn[c].step = "ready" /\ lock = None /\ deviceConn' = [deviceConn EXCEPT ![c] = n]
          /\ UNCHANGED <<dev, creds, sessions, ending, left, noticeKey, notice>>
          /\ lock' = IF Holders!StillAccepted(c) THEN c ELSE None
      BY <1>3 DEF Holders!Activate
    <2>2. s \in DevicePlaces /\ (s = "accepted" <=> Holders!StillAccepted(c)) /\ s # "idle" /\ s # "serving"
      BY DEF DevicePlaces
    <2> HIDE DEF s
    <2>3. n \in ConnRows /\ n.step = s /\ n.device = deviceConn[c].device /\ n.cred = deviceConn[c].cred
      BY <1>1, <2>2 DEF ConnRows
    <2> HIDE DEF n
    <2> QED BY <1>1, <2>1, <2>2, <2>3, ConnMoves DEF Holders!StillAccepted
  <1>4. CASE Holders!RegisterSession(c)
    <2> DEFINE n == [deviceConn[c] EXCEPT !.step = "serving"]
    <2>1. /\ deviceConn[c].step = "accepted" /\ deviceConn' = [deviceConn EXCEPT ![c] = n] /\ sessions' = sessions \cup {c} /\ lock' = None
          /\ UNCHANGED <<dev, creds, ending, left, noticeKey, notice>>
      BY <1>4 DEF Holders!RegisterSession
    <2>2. n \in ConnRows /\ n.step = "serving" /\ n.device = deviceConn[c].device /\ n.cred = deviceConn[c].cred
      BY <1>1 DEF ConnRows, DevicePlaces
    <2> HIDE DEF n
    <2> QED BY <1>1, <2>1, <2>2, ConnMoves
  <1>5. CASE Holders!CleanupSession(c)
    <2> DEFINE n == [step |-> "idle", device |-> None, cred |-> 0]
    <2>1. /\ deviceConn[c].step # "accepted" /\ deviceConn' = [deviceConn EXCEPT ![c] = n] /\ sessions' = sessions \ {c}
          /\ UNCHANGED <<dev, creds, lock, ending, left, noticeKey, notice>>
      BY <1>5 DEF Holders!CleanupSession
    <2>2. n \in ConnRows /\ n.step = "idle"
      BY DEF ConnRows, DevicePlaces
    <2> HIDE DEF n
    <2> QED BY <1>1, <2>1, <2>2, ConnMoves
  <1> QED BY <1>2, <1>3, <1>4, <1>5

LEMMA NoticeSteps ==
    ASSUME Holders!DevicesAssumption, DeviceInv, UNCHANGED <<dev, creds, deviceConn, lock, sessions, ending, left>>,
           \/ \E c \in Conns : Holders!SetNoticeKey(c)
           \/ \E n \in Notices : Holders!DropNotice(n) \/ \E d \in DeviceIds : Holders!PutNotice(n, d)
           \/ UNCHANGED <<noticeKey, notice>>
    PROVE  DeviceInv'
  <1>1. notice' \in [Notices -> DeviceIds \cup {None}]
    BY DEF DeviceInv, DeviceTypes, Holders!SetNoticeKey, Holders!DropNotice, Holders!PutNotice
  <1>2. DeviceTypes'
    BY <1>1 DEF DeviceInv, DeviceTypes
  <1>3. OneHolder' /\ Holders!DeviceBound'
    BY DEF DeviceInv, OneHolder, Holders!DeviceBound, Holders!Known, Holders!Keyed
  <1>4. Lifecycle'
    BY DEF DeviceInv, Lifecycle, Entitled, Holders!Owing, Holders!Accepts, Holders!Active, Holders!Known
  <1>5. Holders!RevokedHoldsNothing'
    <2> SUFFICES ASSUME NEW d \in Holders!Known, dev[d].revoked
                 PROVE  d \notin noticeKey' /\ \A n \in Notices : notice'[n] # d
      BY DEF Holders!RevokedHoldsNothing, Holders!Known
    <2>1. d \notin noticeKey /\ \A n \in Notices : notice[n] # d
      BY DEF DeviceInv, Holders!RevokedHoldsNothing
    <2>2. d # None
      BY DEF Holders!Known, Holders!DevicesAssumption
    <2>3. \A n \in Notices : notice'[n] \in {notice[n], None} \/ Holders!Active(notice'[n])
      BY DEF DeviceInv, DeviceTypes, Holders!SetNoticeKey, Holders!DropNotice, Holders!PutNotice
    <2>4. \A x \in noticeKey' : x \in noticeKey \/ Holders!Active(x)
      BY DEF Holders!SetNoticeKey, Holders!DropNotice, Holders!PutNotice, Holders!MayHoldKey
    <2> QED BY <2>1, <2>2, <2>3, <2>4 DEF Holders!Active
  <1> QED BY <1>2, <1>3, <1>4, <1>5 DEF DeviceInv

LEMMA NextDevices == ASSUME Holders!DevicesAssumption, DeviceInv, [Holders!Next]_(Holders!vars) PROVE DeviceInv'
  <1>1. ASSUME NEW d \in DeviceIds, Holders!ClaimEnrollment(d) PROVE DeviceInv'
    BY <1>1, EnrolKeeps DEF Holders!ClaimEnrollment
  <1>2. ASSUME NEW d \in DeviceIds, NEW k \in DeviceKeys, Holders!SignInNew(d, k) PROVE DeviceInv'
    BY <1>2, EnrolKeeps DEF Holders!SignInNew
  <1>3. ASSUME NEW d \in DeviceIds, Holders!Adopt(d) \/ Holders!RevokeDevice(d)
        PROVE  DeviceInv'
    BY <1>3, AdoptKeeps, RevokeKeeps
  <1>7. ASSUME NEW e \in ending, Holders!LeaveSignIn(e) \/ Holders!EndDeviceSessions(e)
        PROVE  DeviceInv'
    BY <1>7, LeaveKeeps, EndKeeps
  <1>4. ASSUME NEW c \in Conns, Holders!SetNoticeKey(c) PROVE DeviceInv'
    BY <1>4, NoticeSteps DEF Holders!SetNoticeKey
  <1>5. ASSUME NEW n \in Notices, Holders!DropNotice(n) \/ \E d \in DeviceIds : Holders!PutNotice(n, d)
        PROVE  DeviceInv'
    BY <1>5, NoticeSteps DEF Holders!DropNotice, Holders!PutNotice
  <1>6. CASE UNCHANGED Holders!vars
    BY <1>6, NoticeSteps DEF Holders!vars
  <1> QED BY <1>1, <1>2, <1>3, <1>4, <1>5, <1>6, <1>7, AuthenticateKeeps, ConnSteps DEF Holders!Next

LEMMA InvDevices ==
    ASSUME Holders!DevicesAssumption, DeviceInv
    PROVE  Holders!TypeOK /\ Holders!DeviceBound /\ Holders!OnlyAcceptedServed /\ Holders!RevokedHoldsNothing
  <1>1. ASSUME NEW k \in DeviceKeys PROVE Cardinality(Holders!Holder(k)) <= 1
    <2>1. \A d, e \in Holders!Holder(k) : d = e
      BY DEF DeviceInv, OneHolder, Holders!Holder
    <2>2. CASE Holders!Holder(k) = {}
      BY <2>2, FS_EmptySet
    <2>3. CASE Holders!Holder(k) # {}
      <3>1. PICK d \in Holders!Holder(k) : TRUE
        BY <2>3
      <3>2. Holders!Holder(k) = {d}
        BY <2>1, <3>1
      <3>3. Cardinality({d}) = 1
        BY FS_Singleton, Zenon
      <3> QED BY <3>2, <3>3
    <2> QED BY <2>2, <2>3
  <1>2. Holders!TypeOK
    BY <1>1, DeviceCounts DEF DeviceInv, DeviceTypes, Lifecycle, Holders!TypeOK
  <1>3. Holders!OnlyAcceptedServed
    BY DEF DeviceInv, Lifecycle, Entitled, Holders!OnlyAcceptedServed
  <1> QED BY <1>2, <1>3 DEF DeviceInv

(* For any devices, keys and connections: the devices stay within their     *)
(* bound, a connection whose credential no longer counts is owed its end or *)
(* was left by a dropped sign-in, and a revoked device holds no notice key  *)
(* and no notice, however its revocation crosses a handshake (revoke_device,*)
(* sign_in_response, authenticate_device, register_session).                *)
THEOREM DevicesStayEntitled ==
    ASSUME Holders!DevicesAssumption
    PROVE  Holders!Spec => [](Holders!TypeOK /\ Holders!DeviceBound /\ Holders!OnlyAcceptedServed /\ Holders!RevokedHoldsNothing)
  <1>1. Holders!Init => DeviceInv
    BY InitDevices
  <1>2. DeviceInv /\ [Holders!Next]_(Holders!vars) => DeviceInv'
    BY NextDevices
  <1>3. DeviceInv => Holders!TypeOK /\ Holders!DeviceBound /\ Holders!OnlyAcceptedServed /\ Holders!RevokedHoldsNothing
    BY InvDevices
  <1> QED BY <1>1, <1>2, <1>3, PTL DEF Holders!Spec

-----------------------------------------------------------------------------
(* Proof that a relay keeps one result until it is acknowledged *)

LEMMA RelayCounts == \A S : Cardinality(S) = Relayed!Cardinality(S) /\ (IsFiniteSet(S) <=> Relayed!IsFiniteSet(S))
  BY DEF Cardinality, Relayed!Cardinality, IsFiniteSet, Relayed!IsFiniteSet

Parsed == [kind : {"authorized", "rejected"}, value : Results, iss : BOOLEAN]
Received == (Results \cup Parsed) \ {None}
RelayPhases == {"pending", "submitted", "acknowledged"}
Rows == [node : RelayNodes, secret : Secrets, phase : RelayPhases, result : Received \cup {None},
         digest : Received \cup {None}, expiry : Nat]
RelayTypes ==
    /\ relayNow \in Nat /\ relay \in [RelayIds -> Rows \cup {None}]
    /\ answered \in [RelayIds -> SUBSET Received] /\ seen \in [RelayIds -> SUBSET Received]

(* What the browser was told is what the row remembers.                     *)
Told(r) ==
    /\ seen[r] \subseteq answered[r] /\ \A x, y \in answered[r] : x = y
    /\ Relayed!Row(r) =>
         /\ relay[r].phase = "pending" => answered[r] = {}
         /\ relay[r].phase # "pending" => answered[r] = {relay[r].digest}
         /\ relay[r].phase = "submitted" => relay[r].result = relay[r].digest
         /\ relay[r].phase = "acknowledged" => relay[r].result = None

Limits == \A n \in RelayNodes \cup {None} :
    IsFiniteSet(Relayed!ActiveOf(n)) /\ Cardinality(Relayed!ActiveOf(n)) <= IF n = None THEN Total ELSE PerDevice

RelaysInv == RelayTypes /\ Limits /\ Relayed!StateNamesOne /\ \A r \in RelayIds : Told(r)

LEMMA InitRelays == ASSUME Relayed!RelaysAssumption PROVE Relayed!Init => RelaysInv
  <1> SUFFICES ASSUME Relayed!Init PROVE RelaysInv
    OBVIOUS
  <1>1. \A r \in RelayIds : relay[r] = None /\ answered[r] = {} /\ seen[r] = {}
    BY DEF Relayed!Init
  <1>2. \A n : Relayed!ActiveOf(n) = {}
    BY <1>1 DEF Relayed!ActiveOf, Relayed!Alive, Relayed!Row
  <1>3. Limits
    BY <1>2, FS_EmptySet DEF Limits, Relayed!RelaysAssumption
  <1>4. RelayTypes
    BY DEF Relayed!Init, RelayTypes
  <1> QED BY <1>1, <1>3, <1>4 DEF RelaysInv, Told, Relayed!Row, Relayed!Alive, Relayed!StateNamesOne

(* A relay that lives after a step lived before it, for the same node and   *)
(* with the same secret, and is not active again once it was acknowledged.  *)
Stays(q) ==
    Relayed!Alive(q)' =>
        /\ Relayed!Alive(q) /\ relay'[q].secret = relay[q].secret /\ relay'[q].node = relay[q].node
        /\ relay[q].phase = "acknowledged" => relay'[q].phase = "acknowledged"

LEMMA RelaysStay ==
    ASSUME Relayed!RelaysAssumption, RelaysInv, \A q \in RelayIds : Stays(q)
    PROVE  Limits' /\ Relayed!StateNamesOne'
  <1>1. ASSUME NEW n \in RelayNodes \cup {None}
        PROVE  IsFiniteSet(Relayed!ActiveOf(n)') /\ Cardinality(Relayed!ActiveOf(n)') <= IF n = None THEN Total ELSE PerDevice
    <2>1. Relayed!ActiveOf(n)' \subseteq Relayed!ActiveOf(n)
      BY DEF Relayed!ActiveOf, Stays
    <2>2. IsFiniteSet(Relayed!ActiveOf(n)) /\ Cardinality(Relayed!ActiveOf(n)) <= IF n = None THEN Total ELSE PerDevice
      BY DEF RelaysInv, Limits
    <2>3. IsFiniteSet(Relayed!ActiveOf(n)') /\ Cardinality(Relayed!ActiveOf(n)') <= Cardinality(Relayed!ActiveOf(n))
      BY <2>1, <2>2, FS_Subset
    <2>4. Cardinality(Relayed!ActiveOf(n)) \in Nat /\ Cardinality(Relayed!ActiveOf(n)') \in Nat /\ Total \in Nat /\ PerDevice \in Nat
      BY <2>2, <2>3, FS_CardinalityType DEF Relayed!RelaysAssumption
    <2> QED BY <2>2, <2>3, <2>4
  <1>2. Relayed!StateNamesOne'
    BY DEF RelaysInv, Relayed!StateNamesOne, Stays
  <1> QED BY <1>1, <1>2 DEF Limits

LEMMA KeptRows ==
    ASSUME RelayTypes, NEW q \in RelayIds
    PROVE  Relayed!Kept \in [RelayIds -> Rows \cup {None}] /\ Relayed!Kept[q] = IF Relayed!Alive(q) THEN relay[q] ELSE None
  BY DEF Relayed!Kept, RelayTypes

LEMMA AliveRow ==
    ASSUME RelayTypes, NEW r \in RelayIds, Relayed!Alive(r)
    PROVE  relay[r] \in Rows /\ Relayed!Row(r)
  BY DEF RelayTypes, Relayed!Alive, Relayed!Row

LEMMA CreateRelayKeeps ==
    ASSUME Relayed!RelaysAssumption, RelaysInv, NEW n \in RelayNodes, NEW r \in RelayIds, NEW s \in Secrets, Relayed!CreateRelay(n, r, s)
    PROVE  RelaysInv'
  <1> DEFINE row == [node |-> n, secret |-> s, phase |-> "pending", result |-> None, digest |-> None,
                     expiry |-> relayNow + Life]
  <1>1. /\ ~Relayed!Alive(r) /\ Relayed!Unused(s) /\ Relayed!HasRoom(n) /\ relay' = [Relayed!Kept EXCEPT ![r] = row]
        /\ answered' = [answered EXCEPT ![r] = {}] /\ seen' = [seen EXCEPT ![r] = {}] /\ relayNow' = relayNow
    BY DEF Relayed!CreateRelay
  <1>2. RelayTypes /\ relayNow + Life \in Nat
    BY DEF RelaysInv, RelayTypes, Relayed!RelaysAssumption
  <1>3. row \in Rows /\ row.phase = "pending" /\ row.node = n /\ row.secret = s
    BY <1>2 DEF Rows, RelayPhases
  <1> HIDE DEF row
  <1>4. /\ relay'[r] = row
        /\ \A q \in RelayIds : q # r => relay'[q] = IF Relayed!Alive(q) THEN relay[q] ELSE None
    BY <1>1, <1>2, KeptRows
  <1>5. RelayTypes'
    BY <1>1, <1>2, <1>3, KeptRows DEF RelayTypes
  <1>6. \A q \in RelayIds : Told(q)'
    BY <1>1, <1>2, <1>3, <1>4 DEF RelaysInv, RelayTypes, Told, Relayed!Row
  <1>7. \A q \in RelayIds : (q # r /\ Relayed!Alive(q)') => Relayed!Alive(q) /\ relay'[q] = relay[q]
    BY <1>1, <1>4 DEF Relayed!Alive, Relayed!Row
  <1>8. Limits'
    <2>1. ASSUME NEW k \in RelayNodes \cup {None}
          PROVE  IsFiniteSet(Relayed!ActiveOf(k)') /\ Cardinality(Relayed!ActiveOf(k)') <= IF k = None THEN Total ELSE PerDevice
      <3>1. IsFiniteSet(Relayed!ActiveOf(k)) /\ Cardinality(Relayed!ActiveOf(k)) <= IF k = None THEN Total ELSE PerDevice
        BY DEF RelaysInv, Limits
      <3>2. Total \in Nat /\ PerDevice \in Nat /\ Cardinality(Relayed!ActiveOf(k)) \in Nat /\ n # None
        BY <3>1, FS_CardinalityType DEF Relayed!RelaysAssumption
      <3>3. CASE k \in {n, None}
        <4>1. Relayed!ActiveOf(k)' \subseteq Relayed!ActiveOf(k) \cup {r}
          BY <1>7 DEF Relayed!ActiveOf
        <4>2. IsFiniteSet(Relayed!ActiveOf(k) \cup {r}) /\ Cardinality(Relayed!ActiveOf(k) \cup {r}) \in {Cardinality(Relayed!ActiveOf(k)), Cardinality(Relayed!ActiveOf(k)) + 1}
          BY <3>1, FS_AddElement
        <4>3. IsFiniteSet(Relayed!ActiveOf(k)') /\ Cardinality(Relayed!ActiveOf(k)') <= Cardinality(Relayed!ActiveOf(k) \cup {r})
          BY <4>1, <4>2, FS_Subset
        <4>4. Cardinality(Relayed!ActiveOf(k)) < IF k = None THEN Total ELSE PerDevice
          BY <1>1, <3>2, <3>3, RelayCounts DEF Relayed!HasRoom
        <4>5. Cardinality(Relayed!ActiveOf(k)') \in Nat
          BY <4>3, FS_CardinalityType
        <4> QED BY <3>2, <4>2, <4>3, <4>4, <4>5
      <3>4. CASE k \notin {n, None}
        <4>1. Relayed!ActiveOf(k)' \subseteq Relayed!ActiveOf(k)
          BY <1>3, <1>4, <1>7, <3>4 DEF Relayed!ActiveOf
        <4>2. IsFiniteSet(Relayed!ActiveOf(k)') /\ Cardinality(Relayed!ActiveOf(k)') <= Cardinality(Relayed!ActiveOf(k))
          BY <3>1, <4>1, FS_Subset
        <4>3. Cardinality(Relayed!ActiveOf(k)') \in Nat
          BY <4>2, FS_CardinalityType
        <4> QED BY <3>1, <3>2, <4>2, <4>3
      <3> QED BY <3>3, <3>4
    <2> QED BY <2>1 DEF Limits
  <1>9. Relayed!StateNamesOne'
    <2>1. ASSUME ByState, NEW p \in RelayIds, NEW q \in RelayIds, Relayed!Alive(p)', Relayed!Alive(q)', relay'[p].secret = relay'[q].secret
          PROVE  p = q
      <3>1. ASSUME NEW o \in RelayIds, o # r, Relayed!Alive(o)' PROVE relay'[o].secret # s
        BY <1>1, <1>7, <2>1, <3>1 DEF Relayed!Unused
      <3>2. CASE p # r /\ q # r
        BY <1>7, <2>1, <3>2 DEF RelaysInv, Relayed!StateNamesOne
      <3>3. CASE p = r \/ q = r
        BY <1>3, <1>4, <2>1, <3>1, <3>3
      <3> QED BY <3>2, <3>3
    <2> QED BY <2>1 DEF Relayed!StateNamesOne
  <1> QED BY <1>5, <1>6, <1>8, <1>9 DEF RelaysInv

(* The first result stays, and the row remembers what was answered.         *)
LEMMA ReceiveKeeps ==
    ASSUME Relayed!RelaysAssumption, RelaysInv, NEW r \in RelayIds, NEW x \in Received, Relayed!Open(r), Relayed!Accepts(r, x),
           NEW rows \in {relay, Relayed!Kept}, Relayed!Receive(r, x, rows)
    PROVE  RelaysInv'
  <1>1. RelayTypes /\ Relayed!Alive(r) /\ Told(r) /\ relayNow' = relayNow /\ seen' = seen /\ answered' = [answered EXCEPT ![r] = @ \cup {x}]
    BY DEF RelaysInv, Relayed!Open, Relayed!Receive
  <1>2. relay[r] \in Rows /\ Relayed!Row(r)
    BY <1>1, AliveRow
  <1>3. rows \in [RelayIds -> Rows \cup {None}] /\ rows[r] = relay[r]
        /\ \A q \in RelayIds : rows[q] \in {relay[q], None}
    BY <1>1, KeptRows DEF RelayTypes
  <1>4. answered'[r] = answered[r] \cup {x} /\ \A q \in RelayIds : q # r => answered'[q] = answered[q]
    BY <1>1 DEF RelayTypes
  <1>5. /\ answered' \in [RelayIds -> SUBSET Received] /\ seen' \in [RelayIds -> SUBSET Received] /\ relayNow' \in Nat
    BY <1>1 DEF RelayTypes
  <1>6. answered'[r] = {x} /\ (relay[r].phase # "pending" => relay[r].digest = x)
    BY <1>1, <1>2, <1>4 DEF Told, Relayed!Accepts
  <1>7. CASE relay[r].phase = "acknowledged"
    <2>1. relay' = rows
      BY <1>7 DEF Relayed!Receive
    <2>2. \A q \in RelayIds : relay'[q] \in {relay[q], None} /\ relay'[r] = relay[r]
      BY <1>3, <2>1
    <2>3. RelayTypes' /\ \A q \in RelayIds : Stays(q)
      BY <1>1, <1>3, <1>5, <2>1, <2>2 DEF RelayTypes, Stays, Relayed!Alive, Relayed!Row
    <2>4. \A q \in RelayIds : Told(q)'
      BY <1>1, <1>4, <1>6, <1>7, <2>2 DEF RelaysInv, Told, Relayed!Row
    <2> QED BY <2>3, <2>4, RelaysStay DEF RelaysInv
  <1>8. CASE relay[r].phase # "acknowledged"
    <2> DEFINE row == [relay[r] EXCEPT !.phase = "submitted", !.result = x, !.digest = x]
    <2>1. relay' = [rows EXCEPT ![r] = row]
      BY <1>3, <1>8 DEF Relayed!Receive
    <2>2. /\ row \in Rows /\ row.phase = "submitted" /\ row.result = x /\ row.digest = x
          /\ row.secret = relay[r].secret /\ row.node = relay[r].node /\ row.expiry = relay[r].expiry
      BY <1>2 DEF Rows, RelayPhases
    <2> HIDE DEF row
    <2>3. relay'[r] = row /\ \A q \in RelayIds : q # r => relay'[q] \in {relay[q], None}
      BY <1>3, <2>1
    <2>4. RelayTypes'
      BY <1>3, <1>5, <2>1, <2>2 DEF RelayTypes
    <2>5. \A q \in RelayIds : Stays(q)
      BY <1>1, <1>8, <2>2, <2>3 DEF Stays, Relayed!Alive, Relayed!Row
    <2>6. Told(r)'
      BY <1>1, <1>4, <1>6, <2>2, <2>3 DEF Told, Relayed!Row
    <2>7. \A q \in RelayIds : q # r => Told(q)'
      BY <1>1, <1>4, <2>3 DEF RelaysInv, Told, Relayed!Row
    <2> QED BY <2>4, <2>5, <2>6, <2>7, RelaysStay DEF RelaysInv
  <1> QED BY <1>7, <1>8

LEMMA ParsedReceived ==
    ASSUME Relayed!RelaysAssumption, NEW q \in Relayed!Queries, Relayed!ParsedCallback(q) # None
    PROVE  Relayed!ParsedCallback(q) \in Received
  <1>1. CASE q.code # None /\ q.error = None
    BY <1>1 DEF Relayed!ParsedCallback, Relayed!Queries, Parsed, Received
  <1>2. CASE q.code = None /\ q.error # None /\ ~q.iss
    BY <1>2 DEF Relayed!ParsedCallback, Relayed!Queries, Parsed, Received
  <1>3. CASE ~(q.code # None /\ q.error = None) /\ ~(q.code = None /\ q.error # None /\ ~q.iss)
    BY <1>3 DEF Relayed!ParsedCallback
  <1> QED BY <1>1, <1>2, <1>3

LEMMA AcknowledgeKeeps ==
    ASSUME Relayed!RelaysAssumption, RelaysInv, NEW n \in RelayNodes, NEW r \in RelayIds, Relayed!Acknowledge(n, r)
    PROVE  RelaysInv'
  <1> DEFINE row == [relay[r] EXCEPT !.phase = "acknowledged", !.result = None]
  <1>1. /\ RelayTypes /\ Relayed!Alive(r) /\ relay[r].phase # "pending" /\ relay' = [relay EXCEPT ![r] = row]
        /\ UNCHANGED <<relayNow, answered, seen>>
    BY DEF Relayed!Acknowledge, RelaysInv, Relayed!Open
  <1>2. relay[r] \in Rows /\ Relayed!Row(r)
    BY <1>1, AliveRow
  <1>3. /\ row \in Rows /\ row.phase = "acknowledged" /\ row.result = None /\ row.digest = relay[r].digest
        /\ row.secret = relay[r].secret /\ row.node = relay[r].node /\ row.expiry = relay[r].expiry
    BY <1>2 DEF Rows, RelayPhases
  <1> HIDE DEF row
  <1>4. relay'[r] = row /\ \A q \in RelayIds : q # r => relay'[q] = relay[q]
    BY <1>1 DEF RelayTypes
  <1>5. RelayTypes'
    BY <1>1, <1>3 DEF RelayTypes
  <1>6. \A q \in RelayIds : Stays(q)
    BY <1>1, <1>3, <1>4 DEF Stays, Relayed!Alive, Relayed!Row
  <1>7. \A q \in RelayIds : Told(q)'
    BY <1>1, <1>2, <1>3, <1>4 DEF RelaysInv, Told, Relayed!Row
  <1> QED BY <1>5, <1>6, <1>7, RelaysStay DEF RelaysInv

LEMMA ReadStatusKeeps ==
    ASSUME Relayed!RelaysAssumption, RelaysInv, NEW n \in RelayNodes, NEW r \in RelayIds, Relayed!ReadStatus(n, r)
    PROVE  RelaysInv'
  <1>1. /\ RelayTypes /\ Relayed!Alive(r) /\ relay[r].phase = "submitted" /\ seen' = [seen EXCEPT ![r] = @ \cup {relay[r].result}]
        /\ UNCHANGED <<relayNow, relay, answered>>
    BY DEF Relayed!ReadStatus, RelaysInv, Relayed!Open
  <1>2. Relayed!Row(r) /\ relay[r].result \in answered[r]
    BY <1>1, AliveRow DEF RelaysInv, Told
  <1>3. seen'[r] = seen[r] \cup {relay[r].result} /\ \A q \in RelayIds : q # r => seen'[q] = seen[q]
    BY <1>1 DEF RelayTypes
  <1>4. RelayTypes'
    BY <1>1, <1>2 DEF RelayTypes
  <1>5. \A q \in RelayIds : Stays(q) /\ Told(q)'
    BY <1>1, <1>2, <1>3 DEF RelaysInv, Stays, Relayed!Alive, Told, Relayed!Row
  <1> QED BY <1>4, <1>5, RelaysStay DEF RelaysInv

(* Time passes, a node is revoked, or nothing happens.                      *)
LEMMA RestKeeps ==
    ASSUME Relayed!RelaysAssumption, RelaysInv, UNCHANGED <<relay, answered, seen>>, relayNow' \in {relayNow, relayNow + 1}
    PROVE  RelaysInv'
  <1>1. RelayTypes /\ RelayTypes' /\ relayNow <= relayNow'
    BY DEF RelaysInv, RelayTypes
  <1>2. \A q \in RelayIds : Told(q)'
    BY DEF RelaysInv, Told, Relayed!Row
  <1>3. ASSUME NEW q \in RelayIds PROVE Stays(q)
    <2>1. ASSUME Relayed!Row(q), relay[q].expiry > relayNow' PROVE relay[q].expiry > relayNow
      <3>1. relay[q].expiry \in Nat /\ relayNow \in Nat /\ relayNow' \in Nat
        BY <1>1, <2>1 DEF RelayTypes, Relayed!Row, Rows
      <3> QED BY <1>1, <2>1, <3>1
    <2> QED BY <2>1 DEF Stays, Relayed!Alive, Relayed!Row
  <1> QED BY <1>1, <1>2, <1>3, RelaysStay DEF RelaysInv

LEMMA RelaysPromise ==
    ASSUME Relayed!RelaysAssumption, RelaysInv
    PROVE  Relayed!TypeOK /\ Relayed!OneResult /\ Relayed!StateNamesOne /\ Relayed!KeptUntilAcknowledged
  <1>1. Limits /\ Relayed!StateNamesOne /\ RelayTypes /\ \A r \in RelayIds : Told(r)
    BY DEF RelaysInv
  <1>2. Relayed!TypeOK
    <2>1. \A r \in RelayIds : Relayed!Row(r) => relay[r].phase \in {"pending", "submitted", "acknowledged"}
      BY <1>1 DEF RelayTypes, Relayed!Row, Rows, RelayPhases
    <2>2. Cardinality(Relayed!ActiveOf(None)) <= Total /\ \A n \in RelayNodes : Cardinality(Relayed!ActiveOf(n)) <= PerDevice
      BY <1>1 DEF Limits, Relayed!RelaysAssumption
    <2> QED BY <2>1, <2>2, RelayCounts DEF Relayed!TypeOK
  <1>3. Relayed!OneResult
    <2>1. ASSUME NEW r \in RelayIds PROVE Cardinality(answered[r]) <= 1
      <3>1. CASE answered[r] = {}
        <4>1. Cardinality(answered[r]) = 0
          BY <3>1, FS_EmptySet
        <4> QED BY <4>1
      <3>2. ASSUME NEW x \in answered[r] PROVE Cardinality(answered[r]) <= 1
        <4>1. answered[r] = {x}
          BY <1>1, <3>2 DEF Told
        <4>2. Cardinality(answered[r]) = 1
          BY <4>1, FS_Singleton
        <4> QED BY <4>2
      <3> QED BY <3>1, <3>2
    <2> QED BY <1>1, <2>1, RelayCounts DEF Relayed!OneResult, Told
  <1>4. Relayed!KeptUntilAcknowledged
    <2>1. ASSUME NEW r \in RelayIds, Relayed!Alive(r)
          PROVE  /\ relay[r].phase = "acknowledged" => relay[r].result = None /\ relay[r].digest # None
                 /\ (answered[r] # {} /\ relay[r].phase # "acknowledged") => relay[r].result \in answered[r]
      <3>1. Relayed!Row(r) /\ Told(r) /\ relay[r].phase \in RelayPhases /\ answered[r] \subseteq Received
        BY <1>1, <2>1, AliveRow DEF RelayTypes, Rows
      <3> QED BY <3>1 DEF Told, RelayPhases, Received
    <2> QED BY <2>1 DEF Relayed!KeptUntilAcknowledged
  <1> QED BY <1>1, <1>2, <1>3, <1>4

(* For any nodes, relays, secrets and results: a relay answers the browser  *)
(* for one result, which is the one its node reads and which stays until it *)
(* is acknowledged or expires, an OAuth state leads to one live relay, and  *)
(* the active relays stay within both limits (create_*_relay,               *)
(* provider_callback, submit_credential_relay).                             *)
THEOREM RelaysKeepOneResult ==
    ASSUME Relayed!RelaysAssumption
    PROVE  Relayed!Spec => [](Relayed!TypeOK /\ Relayed!OneResult /\ Relayed!StateNamesOne /\ Relayed!KeptUntilAcknowledged)
  <1>1. Relayed!Init => RelaysInv
    BY InitRelays
  <1>2. ASSUME RelaysInv, NEW s \in Secrets, NEW q \in Relayed!Queries, Relayed!RecordCallback(s, q)
        PROVE  RelaysInv'
    <2>1. PICK r \in RelayIds : /\ Relayed!ParsedCallback(q) # None /\ Relayed!Open(r) /\ Relayed!Accepts(r, Relayed!ParsedCallback(q))
                           /\ Relayed!Receive(r, Relayed!ParsedCallback(q), Relayed!Kept)
      BY <1>2 DEF Relayed!RecordCallback
    <2>2. Relayed!ParsedCallback(q) \in Received
      BY <2>1, ParsedReceived
    <2> QED BY <1>2, <2>1, <2>2, ReceiveKeeps
  <1>3. ASSUME RelaysInv, NEW r \in RelayIds, NEW s \in Secrets, NEW x \in Results, Relayed!SubmitCredential(r, s, x)
        PROVE  RelaysInv'
    <2>1. x \in Received
      BY DEF Relayed!RelaysAssumption, Received
    <2> QED BY <1>3, <2>1, ReceiveKeeps DEF Relayed!SubmitCredential
  <1>4. ASSUME RelaysInv, Relayed!Tick \/ (\E n \in RelayNodes : Relayed!RevokeNode(n)) \/ UNCHANGED Relayed!vars
        PROVE  RelaysInv'
    BY <1>4, RestKeeps DEF Relayed!Tick, Relayed!RevokeNode, Relayed!vars
  <1>5. RelaysInv /\ [Relayed!Next]_(Relayed!vars) => RelaysInv'
    BY <1>2, <1>3, <1>4, CreateRelayKeeps, ReadStatusKeeps, AcknowledgeKeeps DEF Relayed!Next
  <1> QED BY <1>1, <1>5, RelaysPromise, PTL DEF Relayed!Spec

-----------------------------------------------------------------------------
(* Proof that a shared file arrives whole or visibly cut *)

(* The parts of a page that is being served were read in turn, and the last *)
(* one was compared with the description.                                   *)
PageSteps == {"idle", "describe", "first", "redeem", "stream", "error", "cut"}
Pages == [step : PageSteps, ticket : ShareTickets \cup {None}, described : Nat, read : Seq(Nat), sent : Nat]
Reading(q) ==
    /\ q.sent <= Len(q.read) /\ Len(q.read) <= Parts
    /\ q.step \in {"idle", "describe", "first"} => q.read = <<>>
    /\ q.step = "first" => Parts # 0
    /\ Len(q.read) = Parts => \A i \in 1..Parts : q.read[i] = q.described
Served(r) == page[r].step \in {"stream", "cut"} /\ page[r].ticket # None
ShareInv ==
    /\ file \in Nat /\ page \in [Readers -> Pages]
    /\ \A r \in Readers : Reading(page[r])
    /\ \A r \in Readers : Served(r) => page[r].ticket \notin shareTicket
    /\ \A r, q \in Readers : Served(r) /\ Served(q) /\ page[r].ticket = page[q].ticket => r = q

LEMMA InitShare == ASSUME Shares!SharePageAssumption, Shares!Init PROVE ShareInv
  <1>1. Shares!Start \in Pages /\ Shares!Start.step = "idle" /\ Shares!Start.read = <<>> /\ Shares!Start.sent = 0
    BY DEF Shares!Start, Pages, PageSteps
  <1>2. page \in [Readers -> Pages] /\ \A r \in Readers : page[r] = Shares!Start
    BY <1>1 DEF Shares!Init
  <1>3. Reading(Shares!Start)
    <2>1. Len(Shares!Start.read) = 0 /\ Parts \in Nat
      BY <1>1 DEF Shares!SharePageAssumption
    <2> HIDE DEF Shares!Start
    <2> QED BY <1>1, <2>1 DEF Reading
  <1> QED BY <1>1, <1>2, <1>3 DEF Shares!Init, ShareInv, Served

(* A request moves on: it keeps its ticket, or takes one when it opens.     *)
LEMMA PageMoves ==
    ASSUME ShareInv, NEW r \in Readers, NEW n \in Pages, page' = [page EXCEPT ![r] = n], file' \in Nat,
           Reading(n), shareTicket' \subseteq shareTicket,
           n.step \in {"stream", "cut"} /\ n.ticket # None =>
              /\ n.ticket = page[r].ticket /\ n.ticket \notin shareTicket'
              /\ Served(r) \/ n.ticket \in shareTicket
    PROVE  ShareInv'
  <1>1. page' \in [Readers -> Pages] /\ page'[r] = n /\ \A q \in Readers : q # r => page'[q] = page[q]
    BY DEF ShareInv
  <1>2. \A q \in Readers : q # r => (Served(q)' <=> Served(q))
    BY <1>1 DEF Served
  <1>3. \A q \in Readers : Reading(page'[q])
    BY <1>1 DEF ShareInv
  <1>4. \A q \in Readers : Served(q)' => page'[q].ticket \notin shareTicket'
    BY <1>1, <1>2 DEF ShareInv, Served
  <1>5. \A x, q \in Readers : Served(x)' /\ Served(q)' /\ page'[x].ticket = page'[q].ticket => x = q
    BY <1>1, <1>2 DEF ShareInv, Served
  <1> QED BY <1>1, <1>3, <1>4, <1>5 DEF ShareInv

LEMMA TicketSteps ==
    ASSUME ShareInv, \/ \E t \in ShareTickets : Shares!IssueTicket(t) \/ Shares!Expire(t)
                     \/ Shares!Edit \/ Shares!Unshare \/ UNCHANGED Shares!vars
    PROVE  ShareInv'
  <1>1. file' \in Nat /\ UNCHANGED page
    BY DEF ShareInv, Shares!IssueTicket, Shares!Expire, Shares!Edit, Shares!Unshare, Shares!vars
  <1>2. \A r \in Readers : page[r].ticket \in shareTicket' => page[r].ticket \in shareTicket
    BY DEF Shares!IssueTicket, Shares!Expire, Shares!Edit, Shares!Unshare, Shares!vars
  <1> QED BY <1>1, <1>2 DEF ShareInv, Served

LEMMA OpenKeeps ==
    ASSUME ShareInv, NEW r \in Readers, NEW t \in ShareTickets \cup {None}, Shares!Open(r, t) PROVE ShareInv'
  <1> DEFINE n == [page[r] EXCEPT !.step = "describe", !.ticket = t]
  <1>1. page[r] \in Pages /\ Reading(page[r]) /\ page[r].step = "idle" /\ page' = [page EXCEPT ![r] = n] /\ UNCHANGED <<file, shareTicket>>
    BY DEF ShareInv, Shares!Open, Shares!Set
  <1>2. n \in Pages /\ n.step = "describe" /\ n.read = page[r].read /\ n.sent = page[r].sent /\ n.described = page[r].described
    BY <1>1 DEF Pages, PageSteps
  <1> HIDE DEF n
  <1>3. Reading(n)
    BY <1>1, <1>2 DEF Reading
  <1> QED BY <1>1, <1>2, <1>3, PageMoves DEF ShareInv

LEMMA DescribeKeeps ==
    ASSUME Shares!SharePageAssumption, ShareInv, NEW r \in Readers, NEW reached \in BOOLEAN, Shares!Describe(r, reached)
    PROVE  ShareInv'
  <1> DEFINE n == IF ~reached \/ file = 0 THEN [page[r] EXCEPT !.step = "error"]
                  ELSE [page[r] EXCEPT !.described = file, !.step = IF Parts = 0 THEN "redeem" ELSE "first"]
  <1>1. /\ page[r] \in Pages /\ Reading(page[r]) /\ page[r].step = "describe" /\ page' = [page EXCEPT ![r] = n]
        /\ UNCHANGED <<file, shareTicket>> /\ file \in Nat
    BY DEF ShareInv, Shares!Describe, Shares!Set
  <1>2. page[r].read = <<>> /\ Len(page[r].read) = 0 /\ Parts \in Nat
    BY <1>1 DEF Reading, Shares!SharePageAssumption
  <1>3. n \in Pages /\ n.step \in {"error", "redeem", "first"} /\ n.read = page[r].read /\ n.sent = page[r].sent /\ (n.step = "first" => Parts # 0)
    BY <1>1 DEF Pages, PageSteps
  <1> HIDE DEF n
  <1>4. Reading(n)
    BY <1>1, <1>2, <1>3 DEF Reading
  <1> QED BY <1>1, <1>3, <1>4, PageMoves

(* The last part is handed on only when all of them are of the version that *)
(* was described.                                                           *)
LEMMA PartKeeps ==
    ASSUME Shares!SharePageAssumption, ShareInv, NEW r \in Readers, NEW reached \in BOOLEAN, NEW sameSize \in BOOLEAN,
           Shares!Part(r, reached, sameSize)
    PROVE  ShareInv'
  <1> DEFINE q == page[r]
  <1>1. /\ q \in Pages /\ Reading(q) /\ UNCHANGED <<file, shareTicket>> /\ file \in Nat /\ Parts \in Nat
        /\ q.step = "first" \/ (q.step = "stream" /\ q.sent = Len(q.read) /\ q.sent < Parts)
    BY DEF ShareInv, Shares!Part, Shares!SharePageAssumption
  <1>2. q.read \in Seq(Nat) /\ q.sent \in Nat /\ Len(q.read) \in Nat
    BY <1>1 DEF Pages
  <1>3. Len(q.read) < Parts
    <2>1. CASE q.step = "first"
      <3>1. q.read = <<>> /\ Parts # 0
        BY <1>1, <2>1 DEF Reading
      <3> QED BY <1>1, <3>1
    <2>2. CASE q.step # "first"
      BY <1>1, <1>2, <2>2
    <2> QED BY <2>1, <2>2
  <1>4. CASE reached /\ Shares!Fits(q, sameSize)
    <2> DEFINE n == [q EXCEPT !.read = Append(@, file), !.step = IF q.step = "first" THEN "redeem" ELSE "stream"]
               s == Append(q.read, file)
    <2>1. page' = [page EXCEPT ![r] = n]
      BY <1>4 DEF Shares!Part, Shares!Set
    <2>2. /\ s \in Seq(Nat) /\ Len(s) = Len(q.read) + 1 /\ s[Len(q.read) + 1] = file
          /\ \A i \in 1..Len(q.read) : s[i] = q.read[i]
      BY <1>1, <1>2, AppendProperties
    <2> HIDE DEF s
    <2>3. n \in Pages /\ n.read = s /\ n.sent = q.sent /\ n.described = q.described /\ n.ticket = q.ticket
      BY <1>1, <2>2 DEF Pages, PageSteps, s
    <2>4. n.step \in {"redeem", "stream"} /\ (n.step = "stream" => q.step = "stream")
      BY <1>1 DEF Pages
    <2> HIDE DEF n
    <2>5. Reading(n)
      <3>1. n.sent <= Len(n.read) /\ Len(n.read) <= Parts
        <4>1. q.sent <= Len(q.read)
          BY <1>1 DEF Reading
        <4>2. Len(n.read) = Len(q.read) + 1 /\ n.sent = q.sent
          BY <2>2, <2>3
        <4> HIDE DEF q
        <4> QED BY <1>1, <1>2, <1>3, <4>1, <4>2
      <3>2. ASSUME Len(s) = Parts, NEW i \in 1..Parts PROVE s[i] = q.described
        <4>1. Len(q.read) + 1 = Parts
          BY <2>2, <3>2
        <4>2. file = q.described /\ \A j \in 1..Len(q.read) : q.read[j] = q.described
          BY <1>4, <4>1 DEF Shares!Fits
        <4>3. i \in 1..Len(q.read) \/ i = Len(q.read) + 1
          BY <1>2, <4>1
        <4> QED BY <2>2, <4>2, <4>3
      <3> QED BY <2>3, <2>4, <3>1, <3>2 DEF Reading
    <2>6. n.step = "stream" /\ n.ticket # None => Served(r) /\ n.ticket \notin shareTicket
      BY <2>3, <2>4 DEF Served, ShareInv
    <2> QED BY <1>1, <2>1, <2>3, <2>4, <2>5, <2>6, PageMoves
  <1>5. CASE ~(reached /\ Shares!Fits(q, sameSize))
    <2> DEFINE n == [q EXCEPT !.step = IF q.step = "first" THEN "error" ELSE "cut"]
    <2>1. page' = [page EXCEPT ![r] = n]
      BY <1>5 DEF Shares!Part, Shares!Set
    <2>2. /\ n \in Pages /\ n.read = q.read /\ n.sent = q.sent /\ n.described = q.described /\ n.ticket = q.ticket
          /\ n.step \in {"error", "cut"} /\ (n.step = "cut" => q.step = "stream")
      BY <1>1 DEF Pages, PageSteps
    <2> HIDE DEF n
    <2>3. Reading(n)
      BY <1>1, <2>2 DEF Reading
    <2>4. n.step = "cut" /\ n.ticket # None => Served(r) /\ n.ticket \notin shareTicket
      BY <2>2 DEF Served, ShareInv
    <2> QED BY <1>1, <2>1, <2>2, <2>3, <2>4, PageMoves
  <1> QED BY <1>4, <1>5

LEMMA RedeemKeeps == ASSUME ShareInv, NEW r \in Readers, Shares!Redeem(r) PROVE ShareInv'
  <1> DEFINE q == page[r]
             n == [q EXCEPT !.step = IF Shares!Redeems(q.ticket) THEN "stream" ELSE "error"]
  <1>1. q \in Pages /\ Reading(q) /\ q.step = "redeem" /\ page' = [page EXCEPT ![r] = n] /\ shareTicket' = shareTicket \ {q.ticket} /\ file' \in Nat
    BY DEF ShareInv, Shares!Redeem, Shares!Set
  <1>2. /\ n \in Pages /\ n.read = q.read /\ n.sent = q.sent /\ n.described = q.described /\ n.ticket = q.ticket
        /\ n.step \in {"error", "stream"} /\ (n.step = "stream" => Shares!Redeems(q.ticket))
    BY <1>1 DEF Pages, PageSteps
  <1> HIDE DEF n
  <1>3. Reading(n)
    BY <1>1, <1>2 DEF Reading
  <1>4. n.step = "stream" /\ n.ticket # None => n.ticket \in shareTicket
    BY <1>2 DEF Shares!Redeems
  <1> QED BY <1>1, <1>2, <1>3, <1>4, PageMoves

LEMMA SendKeeps == ASSUME ShareInv, NEW r \in Readers, Shares!Send(r) PROVE ShareInv'
  <1> DEFINE q == page[r]
             n == [q EXCEPT !.sent = @ + 1]
  <1>1. q \in Pages /\ Reading(q) /\ q.step = "stream" /\ q.sent < Len(q.read) /\ page' = [page EXCEPT ![r] = n] /\ UNCHANGED <<shareTicket, file>>
    BY DEF ShareInv, Shares!Send, Shares!Set
  <1>2. /\ n \in Pages /\ n.read = q.read /\ n.sent = q.sent + 1 /\ n.described = q.described /\ n.ticket = q.ticket
        /\ n.step = q.step /\ q.sent \in Nat /\ q.read \in Seq(Nat)
    BY <1>1 DEF Pages
  <1> HIDE DEF n
  <1>3. Reading(n)
    <2>1. n.sent <= Len(n.read)
      <3>1. Len(q.read) \in Nat /\ Len(n.read) = Len(q.read)
        BY <1>2
      <3> HIDE DEF q
      <3> QED BY <1>1, <1>2, <3>1
    <2> QED BY <1>1, <1>2, <2>1 DEF Reading
  <1>4. n.ticket # None => Served(r) /\ n.ticket \notin shareTicket
    BY <1>1, <1>2 DEF Served, ShareInv
  <1> QED BY <1>1, <1>2, <1>3, <1>4, PageMoves DEF ShareInv

LEMMA NextShare == ASSUME Shares!SharePageAssumption, ShareInv, [Shares!Next]_(Shares!vars) PROVE ShareInv'
  <1>1. CASE Shares!Edit \/ Shares!Unshare \/ UNCHANGED Shares!vars
    BY <1>1, TicketSteps
  <1>2. ASSUME NEW t \in ShareTickets, Shares!IssueTicket(t) \/ Shares!Expire(t) PROVE ShareInv'
    BY <1>2, TicketSteps
  <1>3. ASSUME NEW r \in Readers, Shares!Step(r) \/ \E t \in ShareTickets \cup {None} : Shares!Open(r, t)
        PROVE  ShareInv'
    BY <1>3, OpenKeeps, DescribeKeeps, RedeemKeeps, SendKeeps, PartKeeps DEF Shares!Step
  <1> QED BY <1>1, <1>2, <1>3 DEF Shares!Next

LEMMA InvShare ==
    ASSUME Shares!SharePageAssumption, ShareInv
    PROVE  Shares!TypeOK /\ Shares!WholeOrCut /\ Shares!TicketServesOnce
  <1>1. Shares!TypeOK
    BY DEF ShareInv, Reading, Shares!TypeOK
  <1>2. Shares!WholeOrCut
    <2>1. ASSUME NEW r \in Readers, Shares!Complete(r) PROVE Len(page[r].read) = Parts
      <3>1. Reading(page[r]) /\ page[r] \in Pages /\ page[r].sent = Parts
        BY <2>1 DEF ShareInv, Shares!Complete
      <3>2. Len(page[r].read) \in Nat /\ Parts \in Nat
        BY <3>1 DEF Pages, Shares!SharePageAssumption
      <3> QED BY <3>1, <3>2 DEF Reading
    <2> QED BY <2>1 DEF Shares!WholeOrCut, ShareInv, Reading
  <1>3. Shares!TicketServesOnce
    BY DEF ShareInv, Served, Shares!TicketServesOnce
  <1> QED BY <1>1, <1>2, <1>3

(* For any readers, tickets, parts and edits: a body sent to its full       *)
(* length is the version that was described, and a ticket serves one        *)
(* request (share page handler, redeem_share_ticket).                       *)
THEOREM SharedFilesAreWhole ==
    ASSUME Shares!SharePageAssumption
    PROVE  Shares!Spec => [](Shares!TypeOK /\ Shares!WholeOrCut /\ Shares!TicketServesOnce)
  <1>1. Shares!Init => ShareInv
    BY InitShare
  <1>2. ShareInv /\ [Shares!Next]_(Shares!vars) => ShareInv'
    BY NextShare
  <1>3. ShareInv => Shares!TypeOK /\ Shares!WholeOrCut /\ Shares!TicketServesOnce
    BY InvShare
  <1> QED BY <1>1, <1>2, <1>3, PTL DEF Shares!Spec

-----------------------------------------------------------------------------
(* Proof that a settled wake was sent *)

LEMMA PushCounts == \A S : Cardinality(S) = Wakes!Cardinality(S) /\ (IsFiniteSet(S) <=> Wakes!IsFiniteSet(S))
  BY DEF Cardinality, Wakes!Cardinality, IsFiniteSet, Wakes!IsFiniteSet

LEMMA MaxIs ==
    ASSUME NEW a \in Nat, NEW b \in Nat
    PROVE  Wakes!Max({a, b}) \in {a, b} /\ Wakes!Max({a, b}) >= a /\ Wakes!Max({a, b}) >= b
  <1> DEFINE T == {a, b}
  <1>1. \E x \in T : \A y \in T : x >= y
    OBVIOUS
  <1>2. (CHOOSE z \in T : \A y \in T : z >= y) \in T /\ \A y \in T : (CHOOSE z \in T : \A q \in T : z >= q) >= y
    BY <1>1, Zenon
  <1> QED BY <1>2 DEF Wakes!Max
LEMMA MinIs ==
    ASSUME NEW a \in Nat, NEW b \in Nat
    PROVE  Wakes!Min({a, b}) \in {a, b} /\ Wakes!Min({a, b}) <= a /\ Wakes!Min({a, b}) <= b
  <1> DEFINE T == {a, b}
  <1>1. \E x \in T : \A y \in T : x =< y
    OBVIOUS
  <1>2. (CHOOSE z \in T : \A y \in T : z =< y) \in T /\ \A y \in T : (CHOOSE z \in T : \A q \in T : z =< q) =< y
    BY <1>1, Zenon
  <1> QED BY <1>2 DEF Wakes!Min

PushPlaces == {"down", "pass", "wait", "finish", "settle", "settle_finish"}
Paces == {"ready", "inflight", "cooling"}
CoverRows == [gen : Nat, token : Tokens]
SentRows == [gen : Nat, token : Tokens, kind : {"ring", "changed"}]
WakeTypes ==
    /\ gen \in Nat /\ ring \in Nat /\ settled \in Nat /\ settled <= gen /\ ring <= gen /\ gen <= MaxGen
    /\ known \subseteq PushRequests /\ feed \subseteq PushRequests /\ pushAsking \in PushRequests \cup {None}
PushTypes ==
    /\ token \in [Devices -> Tokens \cup {None}] /\ pc \in PushPlaces /\ arg \in Nat /\ arg <= gen
    /\ covered \in [Devices -> CoverRows \cup {None}] /\ sending \in [Devices -> SentRows \cup {None}]
    /\ pace \in [Devices -> Paces]
    /\ told \in [Devices -> Nat] /\ rung \in [Devices -> Nat] /\ since \in [Devices -> Nat]
Recorded == \A d \in Devices :
    /\ since[d] <= gen /\ (covered[d] # None => covered[d].gen <= gen) /\ (sending[d] # None => sending[d].gen <= gen)
(* What a concluded send covers was told to the device, unless its token    *)
(* came back after it; and it rang if a ring is owed.                       *)
CoverTold == \A d \in Devices : covered[d] # None /\ covered[d].token = token[d] =>
    told[d] >= covered[d].gen \/ since[d] >= covered[d].gen
CoverRung == \A d \in Devices :
    covered[d] # None /\ covered[d].token = token[d] /\ ring > settled /\ covered[d].gen >= ring =>
        rung[d] >= ring \/ since[d] >= ring
SendRung == \A d \in Devices :
    sending[d] # None /\ sending[d].token = token[d] /\ ring > settled /\ sending[d].gen >= ring =>
        sending[d].kind = "ring" \/ rung[d] >= ring \/ since[d] >= ring
SettleReady == pc \in {"settle", "settle_finish"} =>
    \A d \in Wakes!Targets : since[d] >= arg \/ Wakes!Covers(covered[d], token[d], arg)
DownSendsNothing == pc = "down" => Wakes!InFlight = {}
PushInv ==
    /\ WakeTypes /\ PushTypes /\ Recorded /\ CoverTold /\ CoverRung /\ SendRung /\ SettleReady /\ DownSendsNothing
    /\ Wakes!SettledWasSent /\ Wakes!RingIsNotReplaced /\ Wakes!PacedSends

LEMMA InitPush == ASSUME Wakes!PushAssumption, Wakes!Init PROVE PushInv
  <1>1. WakeTypes /\ PushTypes /\ Recorded
    BY DEF Wakes!Init, WakeTypes, PushTypes, Recorded, PushPlaces, Paces, Wakes!PushAssumption
  <1>2. Wakes!InFlight = {} /\ settled = 0 /\ ring = 0 /\ pc = "pass"
    BY DEF Wakes!Init, Wakes!InFlight
  <1>3. Wakes!PacedSends
    BY <1>2, FS_EmptySet, PushCounts DEF Wakes!PacedSends, Wakes!PushAssumption
  <1>4. CoverTold /\ CoverRung /\ SendRung
    BY DEF Wakes!Init, CoverTold, CoverRung, SendRung
  <1>5. SettleReady /\ DownSendsNothing /\ Wakes!SettledWasSent /\ Wakes!RingIsNotReplaced
    BY <1>1, <1>2 DEF SettleReady, DownSendsNothing, Wakes!SettledWasSent, Wakes!RingIsNotReplaced,
       Wakes!Targets, PushTypes
  <1> QED BY <1>1, <1>3, <1>4, <1>5 DEF PushInv

LEMMA RecordStep ==
    ASSUME Wakes!PushAssumption, PushInv, NEW rings, Wakes!Record(rings), known' \subseteq PushRequests, pushAsking' \in PushRequests \cup {None},
           UNCHANGED <<settled, token, feed, pc, arg, covered, sending, pace, Wakes!history>>
    PROVE  PushInv'
  <1>1. /\ gen' = gen + 1 /\ gen' <= MaxGen /\ ring' \in {ring, gen + 1} /\ gen \in Nat /\ ring \in Nat /\ settled \in Nat
        /\ settled <= gen /\ ring <= gen /\ arg \in Nat /\ arg <= gen /\ UNCHANGED <<told, rung, since>>
    BY DEF Wakes!Record, PushInv, WakeTypes, PushTypes, Wakes!PushAssumption, Wakes!history
  <1>2. WakeTypes' /\ PushTypes'
    BY <1>1 DEF PushInv, WakeTypes, PushTypes
  <1>3. \A d \in Devices : /\ since[d] \in Nat /\ (covered[d] # None => covered[d].gen \in Nat)
                           /\ (sending[d] # None => sending[d].gen \in Nat)
    BY DEF PushInv, PushTypes, CoverRows, SentRows
  <1>4. Recorded'
    BY <1>1, <1>3 DEF PushInv, Recorded
  <1>5. CoverTold' /\ SettleReady' /\ DownSendsNothing' /\ Wakes!PacedSends'
    BY <1>1 DEF PushInv, CoverTold, SettleReady, Wakes!Covers, Wakes!Targets, DownSendsNothing,
       Wakes!PacedSends, Wakes!InFlight
  <1>6. CoverRung' /\ SendRung'
    BY <1>1, <1>3 DEF PushInv, Recorded, CoverRung, SendRung
  <1>7. Wakes!SettledWasSent' /\ Wakes!RingIsNotReplaced'
    BY <1>1 DEF PushInv, Wakes!SettledWasSent, Wakes!RingIsNotReplaced, Wakes!Targets
  <1> QED BY <1>2, <1>4, <1>5, <1>6, <1>7 DEF PushInv

(* Steps that only move the node's requests, the notification or a timer.   *)
LEMMA QuietStep ==
    ASSUME PushInv, feed' \subseteq PushRequests, known' \subseteq PushRequests, pushAsking' \in PushRequests \cup {None}, pc' \in PushPlaces,
           pc' \in {"settle", "settle_finish", "down"} => pc' = pc,
           UNCHANGED <<gen, ring, settled, token, arg, covered, sending, pace, told, rung, since>>
    PROVE  PushInv'
  <1>1. WakeTypes' /\ PushTypes' /\ Recorded' /\ CoverTold' /\ CoverRung' /\ SendRung'
    BY DEF PushInv, WakeTypes, PushTypes, Recorded, CoverTold, CoverRung, SendRung
  <1>2. SettleReady' /\ DownSendsNothing' /\ Wakes!PacedSends' /\ Wakes!SettledWasSent' /\ Wakes!RingIsNotReplaced'
    BY DEF PushInv, SettleReady, Wakes!Covers, Wakes!Targets, DownSendsNothing, Wakes!PacedSends,
       Wakes!InFlight, Wakes!SettledWasSent, Wakes!RingIsNotReplaced
  <1> QED BY <1>1, <1>2 DEF PushInv

LEMMA SetTokenStep ==
    ASSUME Wakes!PushAssumption, PushInv, NEW d \in Devices, NEW t \in Tokens, Wakes!SetPushToken(d, t)
    PROVE  PushInv'
  <1>1. /\ token' = [e \in Devices |-> IF e = d THEN t ELSE IF token[e] = t THEN None ELSE token[e]]
        /\ told' = [told EXCEPT ![d] = 0] /\ rung' = [rung EXCEPT ![d] = 0] /\ since' = [since EXCEPT ![d] = gen]
        /\ UNCHANGED <<gen, ring, settled, known, feed, pushAsking, pc, arg, covered, sending, pace>>
    BY DEF Wakes!SetPushToken, Wakes!dispatcher
  <1>2. token' \in [Devices -> Tokens \cup {None}] /\ \A e \in Devices : e # d => token'[e] \in {token[e], None}
    BY <1>1 DEF PushInv, PushTypes
  <1>3. /\ gen \in Nat /\ ring <= gen /\ settled <= gen /\ arg <= gen
        /\ told' \in [Devices -> Nat] /\ rung' \in [Devices -> Nat] /\ since' \in [Devices -> Nat] /\ since'[d] = gen
        /\ \A e \in Devices : e # d => told'[e] = told[e] /\ rung'[e] = rung[e] /\ since'[e] = since[e]
    BY <1>1 DEF PushInv, PushTypes, WakeTypes
  <1>4. /\ ring \in Nat /\ settled \in Nat /\ arg \in Nat
        /\ \A e \in Devices : /\ covered[e] # None => covered[e].token \in Tokens /\ covered[e].gen \in Nat /\ covered[e].gen <= gen
                              /\ sending[e] # None => sending[e].token \in Tokens
    BY DEF PushInv, PushTypes, WakeTypes, Recorded, CoverRows, SentRows
  <1>5. WakeTypes' /\ PushTypes' /\ Recorded'
    BY <1>1, <1>2, <1>3 DEF PushInv, WakeTypes, PushTypes, Recorded
  <1>6. CoverTold' /\ CoverRung' /\ SendRung'
    BY <1>1, <1>2, <1>3, <1>4 DEF PushInv, CoverTold, CoverRung, SendRung, Wakes!PushAssumption
  <1>7. \A e \in Wakes!Targets' : e = d \/ (e \in Wakes!Targets /\ token'[e] = token[e])
    BY <1>2 DEF Wakes!Targets
  <1>8. SettleReady'
    BY <1>1, <1>3, <1>4, <1>7 DEF PushInv, SettleReady, Wakes!Covers, Wakes!Targets
  <1>9. DownSendsNothing' /\ Wakes!PacedSends'
    BY <1>1 DEF PushInv, DownSendsNothing, Wakes!PacedSends, Wakes!InFlight
  <1>10. Wakes!SettledWasSent' /\ Wakes!RingIsNotReplaced'
    BY <1>1, <1>3, <1>4, <1>7 DEF PushInv, Wakes!SettledWasSent, Wakes!RingIsNotReplaced, Wakes!Targets
  <1> QED BY <1>5, <1>6, <1>8, <1>9, <1>10 DEF PushInv

LEMMA ClearTokenStep ==
    ASSUME Wakes!PushAssumption, PushInv, NEW d \in Devices, Wakes!ClearPushToken(d) PROVE PushInv'
  <1>1. /\ token' = [token EXCEPT ![d] = None]
        /\ UNCHANGED <<gen, ring, settled, known, feed, pushAsking, pc, arg, covered, sending, pace, told, rung, since>>
    BY DEF Wakes!ClearPushToken, Wakes!dispatcher, Wakes!history
  <1>2. token' \in [Devices -> Tokens \cup {None}] /\ \A e \in Devices : token'[e] \in {token[e], None}
    BY <1>1 DEF PushInv, PushTypes
  <1>3. \A e \in Devices : /\ covered[e] # None => covered[e].token \in Tokens
                           /\ sending[e] # None => sending[e].token \in Tokens
    BY DEF PushInv, PushTypes, CoverRows, SentRows
  <1>4. WakeTypes' /\ PushTypes' /\ Recorded'
    BY <1>1, <1>2 DEF PushInv, WakeTypes, PushTypes, Recorded
  <1>5. CoverTold' /\ CoverRung' /\ SendRung'
    BY <1>1, <1>2, <1>3 DEF PushInv, CoverTold, CoverRung, SendRung, Wakes!PushAssumption
  <1>6. \A e \in Wakes!Targets' : e \in Wakes!Targets /\ token'[e] = token[e]
    BY <1>2 DEF Wakes!Targets
  <1>7. SettleReady' /\ DownSendsNothing' /\ Wakes!PacedSends' /\ Wakes!SettledWasSent' /\ Wakes!RingIsNotReplaced'
    BY <1>1, <1>6 DEF PushInv, SettleReady, Wakes!Covers, DownSendsNothing, Wakes!PacedSends, Wakes!InFlight,
       Wakes!SettledWasSent, Wakes!RingIsNotReplaced
  <1> QED BY <1>4, <1>5, <1>7 DEF PushInv

(* The sends in flight, counted.                                            *)
LEMMA InFlightFinite ==
    ASSUME Wakes!PushAssumption
    PROVE  IsFiniteSet(Wakes!InFlight) /\ Cardinality(Wakes!InFlight) \in Nat
  <1>1. Wakes!InFlight \subseteq Devices /\ IsFiniteSet(Devices)
    BY PushCounts DEF Wakes!InFlight, Wakes!PushAssumption
  <1> QED BY <1>1, FS_Subset, FS_CardinalityType

LEMMA FewerInFlight ==
    ASSUME Wakes!PushAssumption, Wakes!PacedSends, Wakes!InFlight' \subseteq Wakes!InFlight, \A d \in Wakes!InFlight' : pace'[d] = "inflight"
    PROVE  Wakes!PacedSends'
  <1>1. IsFiniteSet(Wakes!InFlight) /\ Cardinality(Wakes!InFlight) \in Nat /\ Cardinality(Wakes!InFlight) <= MaxInFlight /\ MaxInFlight \in Nat
    BY InFlightFinite, PushCounts DEF Wakes!PacedSends, Wakes!PushAssumption
  <1>2. IsFiniteSet(Wakes!InFlight') /\ Cardinality(Wakes!InFlight') <= Cardinality(Wakes!InFlight)
    BY <1>1, FS_Subset
  <1>3. Cardinality(Wakes!InFlight') \in Nat
    BY <1>2, FS_CardinalityType
  <1> QED BY <1>1, <1>2, <1>3, PushCounts DEF Wakes!PacedSends

LEMMA MoreInFlight ==
    ASSUME Wakes!PushAssumption, Wakes!PacedSends, NEW start \in SUBSET Devices, Cardinality(start) <= Wakes!FreeSlots,
           Wakes!InFlight' \subseteq Wakes!InFlight \cup start, \A d \in Wakes!InFlight' : pace'[d] = "inflight"
    PROVE  Wakes!PacedSends'
  <1>1. IsFiniteSet(Wakes!InFlight) /\ Cardinality(Wakes!InFlight) \in Nat /\ Cardinality(Wakes!InFlight) <= MaxInFlight /\ MaxInFlight \in Nat
    BY InFlightFinite, PushCounts DEF Wakes!PacedSends, Wakes!PushAssumption
  <1>2. IsFiniteSet(start) /\ Cardinality(start) \in Nat
    BY FS_Subset, FS_CardinalityType, PushCounts DEF Wakes!PushAssumption
  <1>3. Wakes!Min({MaxInFlight, Cardinality(Wakes!InFlight)}) = Cardinality(Wakes!InFlight)
    BY <1>1, MinIs
  <1>4. Cardinality(start) <= MaxInFlight - Cardinality(Wakes!InFlight)
    BY <1>3, PushCounts DEF Wakes!FreeSlots
  <1>5. /\ IsFiniteSet(Wakes!InFlight \cup start) /\ Cardinality(Wakes!InFlight \cup start) \in Nat
        /\ Cardinality(Wakes!InFlight \cup start) <= Cardinality(Wakes!InFlight) + Cardinality(start)
    <2>1. IsFiniteSet(Wakes!InFlight \cup start) /\ Cardinality(Wakes!InFlight \cup start) =
              Cardinality(Wakes!InFlight) + Cardinality(start) - Cardinality(Wakes!InFlight \cap start)
      BY <1>1, <1>2, FS_Union
    <2>2. Cardinality(Wakes!InFlight \cap start) \in Nat
      BY <1>1, <1>2, FS_Intersection, FS_CardinalityType
    <2>3. Cardinality(Wakes!InFlight \cup start) \in Nat
      BY <2>1, FS_CardinalityType
    <2> QED BY <1>1, <1>2, <2>1, <2>2, <2>3
  <1>6. IsFiniteSet(Wakes!InFlight') /\ Cardinality(Wakes!InFlight') <= Cardinality(Wakes!InFlight \cup start)
    BY <1>5, FS_Subset
  <1>7. Cardinality(Wakes!InFlight') \in Nat
    BY <1>6, FS_CardinalityType
  <1> QED BY <1>1, <1>2, <1>4, <1>5, <1>6, <1>7, PushCounts DEF Wakes!PacedSends

(* What the rows of wakes and tokens promise, when they do not change.      *)
LEMMA RowsStay ==
    ASSUME PushInv, UNCHANGED <<gen, ring, settled, token, known, feed, pushAsking, told, rung, since>>
    PROVE  WakeTypes' /\ Wakes!SettledWasSent' /\ Wakes!RingIsNotReplaced'
  BY DEF PushInv, WakeTypes, Wakes!SettledWasSent, Wakes!RingIsNotReplaced, Wakes!Targets

(* Sends and what they covered are dropped.                                 *)
LEMMA CrashStep ==
    ASSUME Wakes!PushAssumption, PushInv, sending' = [d \in Devices |-> None], covered' = [d \in Devices |-> None],
           pc' \in {"down", "pass"}, pace' \in [Devices -> Paces],
           UNCHANGED <<gen, ring, settled, token, known, feed, pushAsking, told, rung, since, arg>>
    PROVE  PushInv'
  <1>1. PushTypes' /\ Recorded' /\ CoverTold' /\ CoverRung' /\ SendRung'
    BY DEF PushInv, PushTypes, Recorded, CoverTold, CoverRung, SendRung, PushPlaces
  <1>2. Wakes!InFlight' = {}
    BY DEF Wakes!InFlight
  <1>3. Wakes!PacedSends'
    BY <1>2, FewerInFlight DEF PushInv
  <1>4. SettleReady' /\ DownSendsNothing'
    BY <1>2 DEF SettleReady, DownSendsNothing
  <1> QED BY <1>1, <1>3, <1>4, RowsStay DEF PushInv

LEMMA StartStep == ASSUME Wakes!PushAssumption, PushInv, Wakes!DispatcherStart PROVE PushInv'
  <1>1. /\ pc = "down" /\ pc' = "pass" /\ UNCHANGED <<gen, ring, settled, token, known, feed, pushAsking, told, rung, since, arg, covered, sending>>
        /\ pace' = [d \in Devices |-> IF pace[d] = "inflight" THEN "cooling" ELSE pace[d]]
    BY DEF Wakes!DispatcherStart, Wakes!durable, Wakes!history
  <1>2. Wakes!InFlight' = {}
    BY <1>1 DEF PushInv, DownSendsNothing, Wakes!InFlight
  <1>3. PushTypes' /\ Recorded' /\ CoverTold' /\ CoverRung' /\ SendRung'
    BY <1>1 DEF PushInv, PushTypes, Recorded, CoverTold, CoverRung, SendRung, PushPlaces, Paces
  <1>4. Wakes!PacedSends'
    BY <1>2, FewerInFlight DEF PushInv
  <1>5. SettleReady' /\ DownSendsNothing'
    BY <1>1 DEF SettleReady, DownSendsNothing
  <1> QED BY <1>1, <1>3, <1>4, <1>5, RowsStay DEF PushInv

LEMMA CooledStep == ASSUME Wakes!PushAssumption, PushInv, NEW d \in Devices, Wakes!Cooled(d) PROVE PushInv'
  <1>1. /\ pace[d] = "cooling" /\ pace' = [pace EXCEPT ![d] = "ready"] /\ (pc' = pc \/ (pc = "wait" /\ pc' = "pass"))
        /\ UNCHANGED <<gen, ring, settled, token, known, feed, pushAsking, told, rung, since, arg, covered, sending>>
    BY DEF Wakes!Cooled, Wakes!durable, Wakes!history
  <1>2. Wakes!InFlight' = Wakes!InFlight /\ pace' \in [Devices -> Paces] /\ \A e \in Devices : e # d => pace'[e] = pace[e]
    BY <1>1 DEF Wakes!InFlight, PushInv, PushTypes, Paces
  <1>3. PushTypes' /\ Recorded' /\ CoverTold' /\ CoverRung' /\ SendRung'
    BY <1>1, <1>2 DEF PushInv, PushTypes, Recorded, CoverTold, CoverRung, SendRung, PushPlaces
  <1>4. \A e \in Wakes!InFlight' : pace'[e] = "inflight"
    BY <1>1, <1>2 DEF PushInv, Wakes!PacedSends, Wakes!InFlight
  <1>5. Wakes!PacedSends'
    BY <1>2, <1>4, FewerInFlight DEF PushInv
  <1>6. SettleReady' /\ DownSendsNothing'
    BY <1>1, <1>2 DEF PushInv, SettleReady, DownSendsNothing, Wakes!Covers, Wakes!Targets
  <1> QED BY <1>1, <1>3, <1>5, <1>6, RowsStay DEF PushInv

LEMMA ReadyStep == ASSUME Wakes!PushAssumption, PushInv, Wakes!SettleIfCovered PROVE PushInv'
  <1> DEFINE concluded == {arg} \cup {covered[d].gen : d \in Wakes!Targets}
  <1>1. /\ pc = "finish" /\ UNCHANGED <<gen, ring, settled, token, known, feed, pushAsking, told, rung, since, covered, sending, pace>>
    BY DEF Wakes!SettleIfCovered, Wakes!durable, Wakes!history
  <1>2. /\ pc' \in {"pass", "settle_finish"} /\ arg' \in Nat /\ arg' <= gen
        /\ pc' = "settle_finish" => \A d \in Wakes!Targets : Wakes!Covers(covered[d], token[d], arg')
    <2>1. CASE Wakes!InFlight = {} /\ \A d \in Wakes!Targets : covered[d] # None /\ covered[d].token = token[d]
      <3>1. pc' = "settle_finish" /\ arg' \in concluded /\ \A h \in concluded : arg' <= h
        BY <2>1 DEF Wakes!SettleIfCovered
      <3>2. \A d \in Wakes!Targets : covered[d].gen \in concluded /\ covered[d].gen \in Nat /\ arg \in concluded
        BY <2>1 DEF Wakes!Targets, PushInv, PushTypes, CoverRows
      <3>3. arg \in concluded /\ arg \in Nat /\ gen \in Nat /\ arg <= gen
        BY DEF PushInv, PushTypes, WakeTypes
      <3>4. arg' \in Nat
        BY <3>1, <3>2, <3>3
      <3>5. arg' <= arg /\ \A d \in Wakes!Targets : arg' <= covered[d].gen
        BY <3>1, <3>2, <3>3
      <3> HIDE DEF concluded
      <3> QED BY <2>1, <3>1, <3>2, <3>3, <3>4, <3>5 DEF Wakes!Covers
    <2>2. CASE ~(Wakes!InFlight = {} /\ \A d \in Wakes!Targets : covered[d] # None /\ covered[d].token = token[d])
      BY <2>2 DEF Wakes!SettleIfCovered, PushInv, PushTypes
    <2> QED BY <2>1, <2>2
  <1> HIDE DEF concluded
  <1>3. PushTypes' /\ Recorded' /\ CoverTold' /\ CoverRung' /\ SendRung'
    BY <1>1, <1>2 DEF PushInv, PushTypes, Recorded, CoverTold, CoverRung, SendRung, PushPlaces
  <1>4. Wakes!PacedSends'
    BY <1>1 DEF PushInv, Wakes!PacedSends, Wakes!InFlight
  <1>5. SettleReady' /\ DownSendsNothing'
    BY <1>1, <1>2 DEF SettleReady, DownSendsNothing, Wakes!Covers, Wakes!Targets
  <1> QED BY <1>1, <1>3, <1>4, <1>5, RowsStay DEF PushInv

LEMMA SettleStep == ASSUME Wakes!PushAssumption, PushInv, Wakes!Settle PROVE PushInv'
  <1>1. /\ pc \in {"settle", "settle_finish"} /\ pc' \in {"wait", "pass"}
        /\ UNCHANGED <<gen, ring, token, known, feed, arg, sending, pace, pushAsking, told, rung, since>>
    BY DEF Wakes!Settle, Wakes!history
  <1>2. SettleReady' /\ DownSendsNothing' /\ Wakes!PacedSends'
    BY <1>1 DEF PushInv, SettleReady, DownSendsNothing, Wakes!PacedSends, Wakes!InFlight
  <1>3. CASE arg = gen /\ Wakes!Owed
    <2>1. settled' = gen /\ covered' = [d \in Devices |-> None]
      BY <1>3 DEF Wakes!Settle
    <2>2. WakeTypes' /\ PushTypes' /\ Recorded' /\ CoverTold' /\ CoverRung'
      BY <1>1, <2>1 DEF PushInv, WakeTypes, PushTypes, Recorded, CoverTold, CoverRung, PushPlaces
    <2>3. gen \in Nat /\ ring \in Nat /\ settled \in Nat /\ ring <= gen
      BY DEF PushInv, WakeTypes
    <2>4. SendRung'
      BY <1>1, <2>1, <2>3 DEF PushInv, SendRung
    <2>5. ASSUME NEW d \in Wakes!Targets, since[d] < gen
          PROVE  covered[d] # None /\ covered[d].token = token[d] /\ covered[d].gen >= gen /\ covered[d].gen \in Nat /\ d \in Devices
      <3>1. d \in Devices /\ since[d] \in Nat
        BY DEF Wakes!Targets, PushInv, PushTypes
      <3>2. Wakes!Covers(covered[d], token[d], gen)
        BY <1>1, <1>3, <2>3, <2>5, <3>1 DEF PushInv, SettleReady
      <3> QED BY <3>1, <3>2 DEF Wakes!Covers, PushInv, PushTypes, CoverRows
    <2>6. \A d \in Wakes!Targets : since[d] \in Nat /\ told[d] \in Nat /\ rung[d] \in Nat
      BY DEF Wakes!Targets, PushInv, PushTypes
    <2>7. Wakes!SettledWasSent'
      <3> SUFFICES ASSUME NEW d \in Wakes!Targets, since[d] < gen PROVE told[d] >= gen
        BY <1>1, <2>1 DEF Wakes!SettledWasSent, Wakes!Targets
      <3>1. told[d] >= covered[d].gen \/ since[d] >= covered[d].gen
        BY <2>5 DEF PushInv, CoverTold
      <3> QED BY <2>3, <2>5, <2>6, <3>1
    <2>8. Wakes!RingIsNotReplaced'
      <3> SUFFICES ASSUME NEW d \in Wakes!Targets, ring > 0, since[d] < ring PROVE rung[d] >= ring
        BY <1>1, <2>1 DEF Wakes!RingIsNotReplaced, Wakes!Targets
      <3>1. CASE settled >= ring
        BY <3>1 DEF PushInv, Wakes!RingIsNotReplaced
      <3>2. CASE ring > settled
        <4>1. since[d] < gen
          BY <2>3, <2>6
        <4>2. covered[d].gen >= ring
          BY <2>3, <2>5, <4>1
        <4>3. rung[d] >= ring \/ since[d] >= ring
          BY <2>5, <3>2, <4>1, <4>2 DEF PushInv, CoverRung
        <4> QED BY <2>3, <2>6, <4>3
      <3> QED BY <2>3, <3>1, <3>2
    <2> QED BY <1>2, <2>2, <2>4, <2>7, <2>8 DEF PushInv
  <1>4. CASE ~(arg = gen /\ Wakes!Owed)
    <2>1. UNCHANGED <<settled, covered>>
      BY <1>4 DEF Wakes!Settle
    <2>2. PushTypes' /\ Recorded' /\ CoverTold' /\ CoverRung' /\ SendRung'
      BY <1>1, <2>1 DEF PushInv, PushTypes, Recorded, CoverTold, CoverRung, SendRung, PushPlaces
    <2> QED BY <1>1, <1>2, <2>1, <2>2, RowsStay DEF PushInv
  <1> QED BY <1>3, <1>4

LEMMA PassStep == ASSUME Wakes!PushAssumption, PushInv, Wakes!Pass PROVE PushInv'
  <1> DEFINE able == {d \in Wakes!Wanting : Wakes!Ready(d)}
  <1>1. /\ pc = "pass" /\ UNCHANGED <<gen, ring, settled, token, known, feed, pushAsking, told, rung, since>>
    BY DEF Wakes!Pass, Wakes!durable, Wakes!history
  <1>2. CASE ~Wakes!Owed
    <2>1. pc' = "wait" /\ UNCHANGED <<arg, sending, pace>> /\ covered' \in {covered, [d \in Devices |-> None]}
      BY <1>2 DEF Wakes!Pass
    <2>2. covered' \in [Devices -> CoverRows \cup {None}] /\ \A d \in Devices : covered'[d] \in {covered[d], None}
      BY <2>1 DEF PushInv, PushTypes
    <2>3. PushTypes' /\ Recorded' /\ CoverTold' /\ CoverRung' /\ SendRung'
      BY <1>1, <2>1, <2>2 DEF PushInv, PushTypes, Recorded, CoverTold, CoverRung, SendRung, PushPlaces
    <2>4. SettleReady' /\ DownSendsNothing' /\ Wakes!PacedSends'
      BY <2>1 DEF PushInv, SettleReady, DownSendsNothing, Wakes!PacedSends, Wakes!InFlight
    <2> QED BY <1>1, <2>3, <2>4, RowsStay DEF PushInv
  <1>3. CASE Wakes!Owed
    <2>1. PICK start \in SUBSET able :
            /\ Cardinality(start) = Wakes!Min({Cardinality(able), Wakes!FreeSlots})
            /\ sending' = [d \in Devices |-> IF d \in start
                              THEN [gen |-> gen, token |-> token[d], kind |-> Wakes!KindOf(d)] ELSE sending[d]]
            /\ pace' = [d \in Devices |-> IF d \in start THEN "inflight" ELSE pace[d]]
            /\ IF Wakes!Wanting = {} THEN pc' = "settle" /\ arg' = gen ELSE pc' = "wait" /\ UNCHANGED arg
      BY <1>3, PushCounts DEF Wakes!Pass
    <2>2. covered' = covered
      BY <1>3 DEF Wakes!Pass
    <2>3. start \subseteq Devices /\ \A d \in start : pace[d] = "ready" /\ token[d] \in Tokens /\ token[d] # None
      BY DEF Wakes!Wanting, Wakes!Targets, Wakes!Ready, PushInv, PushTypes
    <2>4. gen \in Nat /\ ring \in Nat /\ settled \in Nat /\ arg \in Nat /\ arg <= gen
      BY DEF PushInv, PushTypes, WakeTypes
    <2>5. ASSUME NEW d \in start PROVE
            /\ sending'[d] \in SentRows /\ sending'[d].gen = gen /\ sending'[d].token = token[d] /\ sending'[d].kind = Wakes!KindOf(d)
            /\ sending'[d] # None
      <3>1. Wakes!KindOf(d) \in {"ring", "changed"}
        BY DEF Wakes!KindOf
      <3>2. sending'[d] = [gen |-> gen, token |-> token[d], kind |-> Wakes!KindOf(d)]
        BY <2>1, <2>3
      <3>3. sending'[d] \in SentRows
        BY <2>3, <2>4, <3>1, <3>2 DEF SentRows
      <3>4. sending'[d] # None
        BY <3>3 DEF SentRows, Wakes!PushAssumption
      <3> QED BY <3>2, <3>3, <3>4
    <2>6. \A d \in Devices \ start : sending'[d] = sending[d] /\ pace'[d] = pace[d]
      BY <2>1
    <2>7. /\ DOMAIN sending' = Devices /\ sending' \in [Devices -> SentRows \cup {None}] /\ pace' \in [Devices -> Paces]
          /\ \A d \in start : pace'[d] = "inflight"
      <3>1. sending' = [d \in Devices |-> sending'[d]] /\ \A d \in Devices : sending'[d] \in SentRows \cup {None}
        BY <2>1, <2>5, <2>6 DEF PushInv, PushTypes
      <3>2. pace' \in [Devices -> Paces] /\ \A d \in start : pace'[d] = "inflight"
        BY <2>1, <2>3 DEF PushInv, PushTypes, Paces
      <3> QED BY <3>1, <3>2
    <2>8. pc' \in {"settle", "wait"} /\ arg' \in Nat /\ arg' <= gen /\ (pc' = "settle" => Wakes!Wanting = {} /\ arg' = gen)
      BY <2>1, <2>4
    <2>9. PushTypes' /\ CoverTold' /\ CoverRung'
      BY <1>1, <2>2, <2>7, <2>8 DEF PushInv, PushTypes, CoverTold, CoverRung, PushPlaces
    <2>10. Recorded'
      BY <1>1, <2>2, <2>4, <2>5, <2>6 DEF PushInv, Recorded
    <2>11. SendRung'
      <3> SUFFICES ASSUME NEW d \in Devices, sending'[d] # None, sending'[d].token = token[d], ring > settled, sending'[d].gen >= ring
                   PROVE  sending'[d].kind = "ring" \/ rung[d] >= ring \/ since[d] >= ring
        BY <1>1 DEF SendRung
      <3>1. CASE d \in start
        <4>1. Wakes!KindOf(d) = "ring" \/ Wakes!Covers(covered[d], token[d], ring)
          BY DEF Wakes!KindOf, Wakes!RingOwed
        <4> QED BY <2>5, <3>1, <4>1 DEF Wakes!Covers, PushInv, CoverRung
      <3>2. CASE d \notin start
        BY <2>6, <3>2 DEF PushInv, SendRung
      <3> QED BY <3>1, <3>2
    <2>12. Wakes!PacedSends'
      <3>1. Wakes!InFlight' \subseteq Wakes!InFlight \cup start /\ \A d \in Wakes!InFlight' : pace'[d] = "inflight"
        BY <2>5, <2>6, <2>7 DEF Wakes!InFlight, PushInv, Wakes!PacedSends
      <3>2. Cardinality(start) <= Wakes!FreeSlots
        <4>1. IsFiniteSet(able) /\ able \subseteq Devices
          BY FS_Subset, PushCounts DEF Wakes!PushAssumption, Wakes!Wanting, Wakes!Targets
        <4>2. Cardinality(able) \in Nat
          BY <4>1, FS_CardinalityType
        <4>3. Wakes!FreeSlots \in Nat
          <5>1. Cardinality(Wakes!InFlight) \in Nat /\ MaxInFlight \in Nat
            BY InFlightFinite DEF Wakes!PushAssumption
          <5> QED BY <5>1, MinIs, PushCounts DEF Wakes!FreeSlots
        <4> QED BY <2>1, <4>2, <4>3, MinIs
      <3> QED BY <2>3, <3>1, <3>2, MoreInFlight DEF PushInv
    <2>13. SettleReady' /\ DownSendsNothing'
      BY <1>1, <2>2, <2>8 DEF SettleReady, DownSendsNothing, Wakes!Wanting, Wakes!Targets, Wakes!Covers
    <2> QED BY <1>1, <2>9, <2>10, <2>11, <2>12, <2>13, RowsStay DEF PushInv
  <1> QED BY <1>2, <1>3

(* A send ended without a verdict: the device stays uncovered.              *)
LEMMA GaveUpStep ==
    ASSUME Wakes!PushAssumption, PushInv, NEW d \in Devices, Wakes!SendEnded(d, "gave_up")
    PROVE  PushInv'
  <1>1. /\ pc = "wait" /\ pc' = "pass" /\ sending' = [sending EXCEPT ![d] = None] /\ pace' = [pace EXCEPT ![d] = "cooling"]
        /\ UNCHANGED <<gen, ring, settled, token, known, feed, pushAsking, told, rung, since, arg, covered>>
    BY DEF Wakes!SendEnded
  <1>2. /\ sending' \in [Devices -> SentRows \cup {None}] /\ sending'[d] = None /\ pace' \in [Devices -> Paces]
        /\ \A e \in Devices : e # d => sending'[e] = sending[e] /\ pace'[e] = pace[e]
    BY <1>1 DEF PushInv, PushTypes, Paces
  <1>3. PushTypes' /\ Recorded' /\ CoverTold' /\ CoverRung' /\ SendRung'
    BY <1>1, <1>2 DEF PushInv, PushTypes, Recorded, CoverTold, CoverRung, SendRung, PushPlaces
  <1>4. Wakes!InFlight' \subseteq Wakes!InFlight /\ \A e \in Wakes!InFlight' : pace'[e] = "inflight"
    BY <1>2 DEF Wakes!InFlight, PushInv, Wakes!PacedSends
  <1>5. Wakes!PacedSends' /\ SettleReady' /\ DownSendsNothing'
    BY <1>1, <1>4, FewerInFlight DEF PushInv, SettleReady, DownSendsNothing
  <1> QED BY <1>1, <1>3, <1>5, RowsStay DEF PushInv

LEMMA ConcludedStep ==
    ASSUME Wakes!PushAssumption, PushInv, NEW d \in Devices, Wakes!Concluded(d)
    PROVE  PushInv'
  <1> DEFINE s == sending[d]
  <1> DEFINE c == covered[d]
  <1> DEFINE g == IF c # None /\ c.token = s.token THEN Wakes!Max({c.gen, s.gen}) ELSE s.gen
  <1> DEFINE e == [token |-> s.token, gen |-> g]
  <1>1. PICK outcome \in {"delivered", "dead_token", "refused"} : Wakes!SendEnded(d, outcome)
    BY DEF Wakes!Concluded
  <1>2. /\ pc = "wait" /\ s # None /\ sending' = [sending EXCEPT ![d] = None] /\ pace' = [pace EXCEPT ![d] = "cooling"]
        /\ token' = IF outcome = "dead_token" /\ token[d] = s.token THEN [token EXCEPT ![d] = None] ELSE token
        /\ pc' = "finish" /\ arg' = covered'[d].gen
        /\ told' = IF token[d] = s.token THEN [told EXCEPT ![d] = Wakes!Max({@, s.gen})] ELSE told
        /\ rung' = IF token[d] = s.token /\ s.kind = "ring" THEN [rung EXCEPT ![d] = Wakes!Max({@, s.gen})] ELSE rung
        /\ UNCHANGED <<gen, ring, settled, known, feed, pushAsking, since>>
    BY <1>1 DEF Wakes!SendEnded
  <1>3. covered' = [covered EXCEPT ![d] = e]
    BY <1>1 DEF Wakes!SendEnded, PushInv, PushTypes
  <1>4. /\ s.gen \in Nat /\ s.gen <= gen /\ s.token \in Tokens /\ gen \in Nat /\ ring \in Nat /\ settled \in Nat
        /\ (c # None => c.gen \in Nat /\ c.gen <= gen) /\ told[d] \in Nat /\ rung[d] \in Nat /\ since[d] \in Nat
    BY <1>2 DEF PushInv, PushTypes, WakeTypes, Recorded, SentRows, CoverRows
  <1>5. g \in Nat /\ g <= gen /\ g >= s.gen /\ (g = s.gen \/ (c # None /\ c.token = s.token /\ g = c.gen))
    BY <1>4, MaxIs
  <1>6. e \in CoverRows /\ e.token = s.token /\ e.gen = g
    BY <1>4, <1>5 DEF CoverRows
  <1> HIDE DEF e, g
  <1>7. covered' \in [Devices -> CoverRows \cup {None}] /\ covered'[d] = e /\ \A x \in Devices : x # d => covered'[x] = covered[x]
    BY <1>3, <1>6 DEF PushInv, PushTypes
  <1>8. /\ sending' \in [Devices -> SentRows \cup {None}] /\ sending'[d] = None /\ pace' \in [Devices -> Paces]
        /\ \A x \in Devices : x # d => sending'[x] = sending[x] /\ pace'[x] = pace[x]
    BY <1>2 DEF PushInv, PushTypes, Paces
  <1>9. token' \in [Devices -> Tokens \cup {None}] /\ \A x \in Devices : token'[x] \in {token[x], None} /\ (x # d => token'[x] = token[x])
    BY <1>2 DEF PushInv, PushTypes
  <1>10. /\ told' \in [Devices -> Nat] /\ told'[d] >= told[d] /\ (token[d] = s.token => told'[d] >= s.gen)
         /\ \A x \in Devices : x # d => told'[x] = told[x]
    <2>1. Wakes!Max({told[d], s.gen}) \in Nat /\ Wakes!Max({told[d], s.gen}) >= told[d] /\ Wakes!Max({told[d], s.gen}) >= s.gen
      BY <1>4, MaxIs
    <2> QED BY <1>2, <1>4, <2>1 DEF PushInv, PushTypes
  <1>11. /\ rung' \in [Devices -> Nat] /\ rung'[d] >= rung[d] /\ (token[d] = s.token /\ s.kind = "ring" => rung'[d] >= s.gen)
         /\ \A x \in Devices : x # d => rung'[x] = rung[x]
    <2>1. Wakes!Max({rung[d], s.gen}) \in Nat /\ Wakes!Max({rung[d], s.gen}) >= rung[d] /\ Wakes!Max({rung[d], s.gen}) >= s.gen
      BY <1>4, MaxIs
    <2> QED BY <1>2, <1>4, <2>1 DEF PushInv, PushTypes
  <1>12. told'[d] \in Nat /\ rung'[d] \in Nat
    BY <1>10, <1>11
  <1>13. PushTypes'
    BY <1>2, <1>5, <1>6, <1>7, <1>8, <1>9, <1>10, <1>11 DEF PushInv, PushTypes, PushPlaces
  <1>14. WakeTypes'
    BY <1>2 DEF PushInv, WakeTypes
  <1>15. Recorded'
    BY <1>2, <1>5, <1>6, <1>7, <1>8 DEF PushInv, Recorded
  <1>16. None \notin Tokens
    BY DEF Wakes!PushAssumption
  <1>17. CoverTold'
    <2> SUFFICES ASSUME NEW x \in Devices, covered'[x] # None, covered'[x].token = token'[x]
                 PROVE  told'[x] >= covered'[x].gen \/ since'[x] >= covered'[x].gen
      BY DEF CoverTold
    <2>1. CASE x # d
      BY <1>2, <1>7, <1>9, <1>10, <2>1 DEF PushInv, CoverTold
    <2>2. CASE x = d
      <3>1. token[d] = s.token
        BY <1>4, <1>6, <1>7, <1>9, <1>16, <2>2
      <3>2. CASE g = s.gen
        BY <1>6, <1>7, <1>10, <2>2, <3>1, <3>2
      <3>3. CASE c # None /\ c.token = s.token /\ g = c.gen
        <4>1. told[d] >= c.gen \/ since[d] >= c.gen
          BY <3>1, <3>3 DEF PushInv, CoverTold
        <4> QED BY <1>2, <1>4, <1>6, <1>7, <1>10, <1>12, <2>2, <3>3, <4>1
      <3> QED BY <1>5, <3>2, <3>3
    <2> QED BY <2>1, <2>2
  <1>18. CoverRung'
    <2> SUFFICES ASSUME NEW x \in Devices, covered'[x] # None, covered'[x].token = token'[x], ring > settled, covered'[x].gen >= ring
                 PROVE  rung'[x] >= ring \/ since'[x] >= ring
      BY <1>2 DEF CoverRung
    <2>1. CASE x # d
      BY <1>2, <1>7, <1>9, <1>11, <2>1 DEF PushInv, CoverRung
    <2>2. CASE x = d
      <3>1. token[d] = s.token /\ g >= ring
        BY <1>4, <1>6, <1>7, <1>9, <1>16, <2>2
      <3>2. CASE g = s.gen
        <4>1. s.kind = "ring" \/ rung[d] >= ring \/ since[d] >= ring
          BY <1>2, <3>1, <3>2 DEF PushInv, SendRung
        <4> QED BY <1>2, <1>4, <1>11, <1>12, <2>2, <3>1, <3>2, <4>1
      <3>3. CASE c # None /\ c.token = s.token /\ g = c.gen
        <4>1. rung[d] >= ring \/ since[d] >= ring
          BY <3>1, <3>3 DEF PushInv, CoverRung
        <4> QED BY <1>2, <1>4, <1>11, <1>12, <2>2, <4>1
      <3> QED BY <1>5, <3>2, <3>3
    <2> QED BY <2>1, <2>2
  <1>19. SendRung'
    BY <1>2, <1>8, <1>9, <1>11 DEF PushInv, SendRung
  <1>20. SettleReady' /\ DownSendsNothing'
    BY <1>2 DEF SettleReady, DownSendsNothing
  <1>21. Wakes!InFlight' \subseteq Wakes!InFlight /\ \A x \in Wakes!InFlight' : pace'[x] = "inflight"
    BY <1>8 DEF Wakes!InFlight, PushInv, Wakes!PacedSends
  <1>22. Wakes!PacedSends'
    BY <1>21, FewerInFlight DEF PushInv
  <1>23. \A x \in Wakes!Targets' : x \in Wakes!Targets /\ x \in Devices
    BY <1>9 DEF Wakes!Targets
  <1>24. \A x \in Devices : told'[x] >= told[x] /\ rung'[x] >= rung[x] /\ told[x] \in Nat /\ told'[x] \in Nat /\ rung[x] \in Nat /\ rung'[x] \in Nat
    BY <1>10, <1>11 DEF PushInv, PushTypes
  <1>25. Wakes!SettledWasSent' /\ Wakes!RingIsNotReplaced'
    <2>1. Wakes!SettledWasSent /\ Wakes!RingIsNotReplaced /\ UNCHANGED <<since, ring, settled>>
      BY <1>2 DEF PushInv
    <2> HIDE DEF PushInv
    <2>2. Wakes!SettledWasSent'
      BY <1>4, <1>23, <1>24, <2>1 DEF Wakes!SettledWasSent
    <2>3. Wakes!RingIsNotReplaced'
      BY <1>4, <1>23, <1>24, <2>1 DEF Wakes!RingIsNotReplaced
    <2> QED BY <2>2, <2>3
  <1> QED BY <1>13, <1>14, <1>15, <1>17, <1>18, <1>19, <1>20, <1>22, <1>25 DEF PushInv

LEMMA NextPush == ASSUME Wakes!PushAssumption, PushInv, Wakes!Next PROVE PushInv'
  <1>1. /\ feed \subseteq PushRequests /\ known \subseteq PushRequests /\ pushAsking \in PushRequests \cup {None} /\ pc \in PushPlaces
        /\ pace \in [Devices -> Paces]
    BY DEF PushInv, WakeTypes, PushTypes
  <1>2. CASE Wakes!JournalRecord
    BY <1>1, <1>2, RecordStep DEF Wakes!JournalRecord
  <1>3. CASE Wakes!WakeSent \/ Wakes!NodeCrash
    BY <1>1, <1>3, QuietStep DEF Wakes!WakeSent, Wakes!NodeCrash, Wakes!durable, Wakes!dispatcher, Wakes!history
  <1>4. CASE Wakes!Notified
    <2>1. pc' = "pass" /\ UNCHANGED <<gen, ring, settled, token, known, feed, pushAsking, told, rung, since, arg, covered, sending, pace>>
      BY <1>4 DEF Wakes!Notified, Wakes!durable, Wakes!history
    <2> QED BY <1>1, <2>1, QuietStep DEF PushPlaces
  <1>5. ASSUME NEW id \in PushRequests, NEW rings \in BOOLEAN, NEW answered_ \in BOOLEAN, Wakes!RequestWake(id, rings, answered_)
        PROVE  PushInv'
    <2>1. pushAsking' \in PushRequests \cup {None} /\ UNCHANGED <<settled, token, feed, pc, arg, covered, sending, pace, Wakes!history>>
      BY <1>5 DEF Wakes!RequestWake
    <2>2. CASE id \in known
      <3>1. UNCHANGED <<gen, ring, known>>
        BY <1>5, <2>2 DEF Wakes!RequestWake
      <3> QED BY <1>1, <2>1, <3>1, QuietStep DEF Wakes!history
    <2>3. CASE id \notin known
      <3>1. Wakes!Record(rings) /\ known' = known \cup {id}
        BY <1>5, <2>3 DEF Wakes!RequestWake
      <3>2. known' \subseteq PushRequests
        BY <1>1, <3>1
      <3> QED BY <2>1, <3>1, <3>2, RecordStep
    <2> QED BY <2>2, <2>3
  <1>6. CASE Wakes!DispatcherCrash
    BY <1>1, <1>6, CrashStep DEF Wakes!DispatcherCrash, Wakes!durable, Wakes!history
  <1>7. CASE Wakes!CoordinatorCrash
    <2>1. [d \in Devices |-> "ready"] \in [Devices -> Paces]
      BY DEF Paces
    <2> QED BY <1>7, <2>1, CrashStep DEF Wakes!CoordinatorCrash, Wakes!durable, Wakes!history
  <1>8. CASE Wakes!Dispatch
    BY <1>4, <1>8, PassStep, ReadyStep, SettleStep, StartStep DEF Wakes!Dispatch
  <1> QED BY <1>2, <1>3, <1>5, <1>6, <1>7, <1>8, SetTokenStep, ClearTokenStep, CooledStep, ConcludedStep,
             GaveUpStep DEF Wakes!Next

LEMMA InvPush ==
    ASSUME PushInv
    PROVE  Wakes!TypeOK /\ Wakes!SettledWasSent /\ Wakes!RingIsNotReplaced /\ Wakes!PacedSends
  BY DEF PushInv, Wakes!TypeOK, WakeTypes, PushTypes, PushPlaces, Paces

(* Starting a send, and a wake asked for again.                             *)
LEMMA PushSteps ==
    ASSUME Wakes!PushAssumption, PushInv, [Wakes!Next]_(Wakes!vars)
    PROVE  Wakes!NoOverlappingSend /\ Wakes!OneWakePerRequest
  <1>1. \A d \in Wakes!InFlight : pace[d] = "inflight"
    BY DEF PushInv, Wakes!PacedSends
  <1>2. sending \in [Devices -> SentRows \cup {None}] /\ pace \in [Devices -> Paces]
    BY DEF PushInv, PushTypes
  <1>3. Wakes!NoOverlappingSend
    <2> SUFFICES ASSUME NEW d \in Devices, sending[d] # None, sending'[d] # None PROVE sending'[d] = sending[d]
      BY DEF Wakes!NoOverlappingSend
    <2>1. CASE Wakes!Pass
      <3>1. CASE ~Wakes!Owed
        BY <2>1, <3>1 DEF Wakes!Pass
      <3>2. CASE Wakes!Owed
        <4>1. PICK start \in SUBSET {x \in Wakes!Wanting : Wakes!Ready(x)} :
                sending' = [x \in Devices |-> IF x \in start
                               THEN [gen |-> gen, token |-> token[x], kind |-> Wakes!KindOf(x)] ELSE sending[x]]
          BY <2>1, <3>2 DEF Wakes!Pass
        <4>2. d \notin start
          BY <1>1 DEF Wakes!InFlight, Wakes!Ready
        <4> QED BY <4>1, <4>2
      <3> QED BY <3>1, <3>2
    <2>2. ASSUME NEW e \in Devices, NEW outcome, Wakes!SendEnded(e, outcome) PROVE sending'[d] = sending[d]
      BY <1>2, <2>2 DEF Wakes!SendEnded
    <2>3. CASE Wakes!DispatcherCrash \/ Wakes!CoordinatorCrash
      BY <2>3 DEF Wakes!DispatcherCrash, Wakes!CoordinatorCrash
    <2>4. CASE UNCHANGED sending
      BY <2>4
    <2>5. CASE Wakes!JournalRecord \/ Wakes!WakeSent \/ Wakes!NodeCrash \/ Wakes!Notified \/ Wakes!SettleIfCovered \/ Wakes!Settle \/ Wakes!DispatcherStart \/ UNCHANGED Wakes!vars
      BY <2>4, <2>5 DEF Wakes!JournalRecord, Wakes!WakeSent, Wakes!NodeCrash, Wakes!Notified,
         Wakes!SettleIfCovered, Wakes!Settle, Wakes!DispatcherStart, Wakes!vars, Wakes!dispatcher
    <2>6. CASE \E id \in PushRequests, rings, answered_ \in BOOLEAN : Wakes!RequestWake(id, rings, answered_)
      BY <2>4, <2>6 DEF Wakes!RequestWake
    <2>7. CASE \E e \in Devices, t \in Tokens : Wakes!SetPushToken(e, t)
      BY <2>4, <2>7 DEF Wakes!SetPushToken, Wakes!dispatcher
    <2>8. CASE \E e \in Devices : Wakes!ClearPushToken(e) \/ Wakes!Cooled(e)
      BY <2>4, <2>8 DEF Wakes!ClearPushToken, Wakes!Cooled, Wakes!dispatcher
    <2> QED BY <2>1, <2>2, <2>3, <2>5, <2>6, <2>7, <2>8 DEF Wakes!Next, Wakes!Dispatch, Wakes!Concluded
  <1>4. Wakes!OneWakePerRequest
    <2> SUFFICES ASSUME known' = known, pushAsking' # pushAsking PROVE gen' = gen
      BY DEF Wakes!OneWakePerRequest
    <2>1. CASE \E id \in PushRequests, rings, answered_ \in BOOLEAN : Wakes!RequestWake(id, rings, answered_)
      <3>1. PICK id \in PushRequests, rings \in BOOLEAN, answered_ \in BOOLEAN : Wakes!RequestWake(id, rings, answered_)
        BY <2>1
      <3>2. id \in known
        BY <3>1 DEF Wakes!RequestWake
      <3> QED BY <3>1, <3>2 DEF Wakes!RequestWake
    <2>2. CASE UNCHANGED gen
      BY <2>2
    <2>3. CASE Wakes!JournalRecord
      BY <2>3 DEF Wakes!JournalRecord
    <2>4. CASE Wakes!WakeSent \/ Wakes!NodeCrash \/ Wakes!DispatcherCrash \/ Wakes!CoordinatorCrash \/ UNCHANGED Wakes!vars
      BY <2>2, <2>4 DEF Wakes!WakeSent, Wakes!NodeCrash, Wakes!DispatcherCrash, Wakes!CoordinatorCrash,
         Wakes!vars, Wakes!durable
    <2>5. CASE Wakes!Dispatch
      BY <2>2, <2>5 DEF Wakes!Dispatch, Wakes!Pass, Wakes!Notified, Wakes!SettleIfCovered, Wakes!Settle,
         Wakes!DispatcherStart, Wakes!durable
    <2>6. CASE \E e \in Devices, t \in Tokens : Wakes!SetPushToken(e, t)
      BY <2>2, <2>6 DEF Wakes!SetPushToken
    <2>7. CASE \E e \in Devices : Wakes!ClearPushToken(e) \/ Wakes!Cooled(e) \/ Wakes!Concluded(e) \/ Wakes!SendEnded(e, "gave_up")
      BY <2>2, <2>7 DEF Wakes!ClearPushToken, Wakes!Cooled, Wakes!Concluded, Wakes!SendEnded, Wakes!durable
    <2> QED BY <2>1, <2>3, <2>4, <2>5, <2>6, <2>7 DEF Wakes!Next
  <1> QED BY <1>3, <1>4

LEMMA StutterPush == ASSUME PushInv, UNCHANGED Wakes!vars PROVE PushInv'
  <1>1. UNCHANGED <<gen, ring, settled, token, known, feed, pushAsking, told, rung, since, pc, arg, covered, sending, pace>>
    BY DEF Wakes!vars, Wakes!durable, Wakes!dispatcher, Wakes!history
  <1>2. (WakeTypes /\ PushTypes /\ Recorded)'
    BY <1>1 DEF PushInv, WakeTypes, PushTypes, Recorded
  <1>3. Wakes!Targets' = Wakes!Targets /\ Wakes!InFlight' = Wakes!InFlight
    BY <1>1 DEF Wakes!Targets, Wakes!InFlight
  <1>4. (CoverTold /\ CoverRung /\ SendRung /\ SettleReady /\ DownSendsNothing)'
    BY <1>1, <1>3 DEF PushInv, CoverTold, CoverRung, SendRung, SettleReady, DownSendsNothing
  <1>5. (Wakes!SettledWasSent /\ Wakes!RingIsNotReplaced /\ Wakes!PacedSends)'
    BY <1>1, <1>3 DEF PushInv, Wakes!SettledWasSent, Wakes!RingIsNotReplaced, Wakes!PacedSends
  <1> QED BY <1>2, <1>4, <1>5 DEF PushInv

LEMMA PushAlways == ASSUME Wakes!PushAssumption PROVE Wakes!Spec => []PushInv
  <1>1. Wakes!Init => PushInv
    BY InitPush
  <1>2. PushInv /\ [Wakes!Next]_(Wakes!vars) => PushInv'
    BY NextPush, StutterPush
  <1> QED BY <1>1, <1>2, PTL DEF Wakes!Spec

(* For any devices, tokens and requests: a generation is settled only when  *)
(* a send told every phone that had a token, a ring is not replaced by a    *)
(* quiet wake, and sends to one phone are paced, through crashes of the     *)
(* dispatcher and of the coordinator (settle, dispatch).                    *)
THEOREM SettledWakesWereSent ==
    ASSUME Wakes!PushAssumption
    PROVE  Wakes!Spec => [](Wakes!TypeOK /\ Wakes!SettledWasSent /\ Wakes!RingIsNotReplaced /\ Wakes!PacedSends)
  <1>1. PushInv => Wakes!TypeOK /\ Wakes!SettledWasSent /\ Wakes!RingIsNotReplaced /\ Wakes!PacedSends
    BY InvPush
  <1> QED BY <1>1, PushAlways, PTL

(* A phone is not sent to while a send to it is under way, and a request    *)
(* that is known is not recorded again (dispatch, record).                  *)
THEOREM PhonesWakeOnce ==
    ASSUME Wakes!PushAssumption
    PROVE  Wakes!Spec => [][Wakes!NoOverlappingSend /\ Wakes!OneWakePerRequest]_(Wakes!vars)
  <1>1. PushInv /\ [Wakes!Next]_(Wakes!vars) => [Wakes!NoOverlappingSend /\ Wakes!OneWakePerRequest]_(Wakes!vars)
    BY PushSteps
  <1> QED BY <1>1, PushAlways, PTL DEF Wakes!Spec

-----------------------------------------------------------------------------
(* Proof that posts are bounded and failures shared *)

SendSteps == {"ask", "wait", "fetch", "post", "forget", "done"}
SendRows == [step : SendSteps, attempt : Nat, refreshed : BOOLEAN, asked : Nat, token : Nat, posts : Nat,
             outcome : Fcm!Outcomes \cup {None}]
Again(r) == IF r.refreshed THEN 1 ELSE 0
(* Posts are paid for by attempts and by the one renewal.                   *)
Paid(r) ==
    /\ 1 <= r.attempt /\ r.attempt <= MaxAttempts
    /\ r.step \in {"ask", "wait", "fetch", "post"} => r.posts <= r.attempt - 1 + Again(r)
    /\ r.posts <= r.attempt + Again(r)
FcmTypes ==
    /\ fcmNow \in Nat /\ fcmIssued \in Nat /\ cached \in 0..fcmIssued /\ holder \in Senders \cup {None}
    /\ send \in [Senders -> SendRows] /\ (failed # None => failed \in [at : Nat, error : Fcm!Errors])
FcmInv ==
    /\ FcmTypes /\ \A s \in Senders : Paid(send[s])
    /\ \A s \in Senders : send[s].token <= fcmIssued /\ (send[s].step = "fetch" <=> holder = s)
    /\ \A s \in Senders : send[s].step = "forget" => send[s].token \in fcmRevoked

LEMMA InitFcm == ASSUME Fcm!FcmAssumption, Fcm!Init PROVE FcmInv
  <1>1. Fcm!Start \in SendRows
    BY DEF Fcm!Start, SendRows, SendSteps
  <1>2. Paid(Fcm!Start) /\ Fcm!Start.token = 0 /\ Fcm!Start.step = "ask"
    BY DEF Fcm!FcmAssumption, Fcm!Start, Paid, Again
  <1> HIDE DEF Fcm!Start
  <1> QED BY <1>1, <1>2 DEF Fcm!Init, FcmInv, FcmTypes, Fcm!FcmAssumption

(* One sender's row changes.                                                *)
LEMMA RowStep ==
    ASSUME Fcm!FcmAssumption, FcmInv, NEW s \in Senders, NEW r \in SendRows, Fcm!Set(s, r), Paid(r),
           fcmNow' \in Nat, fcmIssued' \in Nat, fcmIssued <= fcmIssued', cached' \in 0..fcmIssued', r.token <= fcmIssued',
           failed' # None => failed' \in [at : Nat, error : Fcm!Errors],
           IF r.step = "fetch" THEN holder' = s /\ holder \in {None, s} ELSE holder' = IF holder = s THEN None ELSE holder,
           r.step = "forget" => r.token \in fcmRevoked', fcmRevoked \subseteq fcmRevoked'
    PROVE  FcmInv'
  <1>1. send' \in [Senders -> SendRows] /\ send'[s] = r /\ \A x \in Senders : x # s => send'[x] = send[x]
    BY DEF Fcm!Set, FcmInv, FcmTypes
  <1>2. holder' \in Senders \cup {None} /\ \A x \in Senders : x # s => (holder' = x <=> holder = x)
    BY DEF FcmInv, FcmTypes, Fcm!FcmAssumption
  <1>3. r.step = "fetch" <=> holder' = s
    BY <1>2 DEF Fcm!FcmAssumption
  <1>4. \A x \in Senders : send[x].token \in Nat
    BY DEF FcmInv, FcmTypes, SendRows
  <1>5. FcmTypes'
    BY <1>1, <1>2 DEF FcmInv, FcmTypes
  <1>6. \A x \in Senders : Paid(send'[x])
    BY <1>1 DEF FcmInv
  <1>7. \A x \in Senders : send'[x].token <= fcmIssued' /\ (send'[x].step = "fetch" <=> holder' = x)
    <2> SUFFICES ASSUME NEW x \in Senders
                 PROVE  send'[x].token <= fcmIssued' /\ (send'[x].step = "fetch" <=> holder' = x)
      OBVIOUS
    <2>1. CASE x = s
      BY <1>1, <1>3, <2>1
    <2>2. CASE x # s
      BY <1>1, <1>2, <1>4, <2>2 DEF FcmInv, FcmTypes
    <2> QED BY <2>1, <2>2
  <1>8. \A x \in Senders : send'[x].step = "forget" => send'[x].token \in fcmRevoked'
    BY <1>1 DEF FcmInv
  <1>9. (\A x \in Senders : Paid(send[x]))'
    BY <1>6 DEF Paid, Again
  <1> QED BY <1>5, <1>7, <1>8, <1>9 DEF FcmInv

(* An attempt failed, with or without a post of its own.                    *)
LEMMA RetryFits ==
    ASSUME Fcm!FcmAssumption, NEW s \in Senders, NEW r \in SendRows, Fcm!Retry(s, r), 1 <= r.attempt, r.attempt <= MaxAttempts,
           r.posts <= r.attempt + Again(r)
    PROVE  \E q \in SendRows : Fcm!Set(s, q) /\ Paid(q) /\ q.token = r.token /\ q.step \in {"ask", "done"}
  <1>1. r.attempt \in Nat /\ r.posts \in Nat /\ Again(r) \in {0, 1} /\ MaxAttempts \in Nat
    BY DEF SendRows, Again, Fcm!FcmAssumption
  <1>2. CASE r.attempt >= MaxAttempts
    <2> DEFINE q == [r EXCEPT !.step = "done", !.outcome = "gave_up"]
    <2>1. q \in SendRows /\ q.token = r.token /\ q.step = "done" /\ q.attempt = r.attempt /\ q.posts = r.posts
      BY DEF SendRows, SendSteps, Fcm!Outcomes
    <2>2. Again(q) = Again(r)
      BY DEF SendRows, Again
    <2>3. Fcm!Set(s, q)
      BY <1>2 DEF Fcm!Retry
    <2> HIDE DEF q
    <2>4. Paid(q)
      BY <1>1, <2>1, <2>2 DEF Paid
    <2> QED BY <2>1, <2>3, <2>4
  <1>3. CASE ~(r.attempt >= MaxAttempts)
    <2> DEFINE q == [r EXCEPT !.step = "ask", !.attempt = @ + 1]
    <2>0. r.attempt + 1 \in Nat
      BY <1>1
    <2>1. q \in SendRows /\ q.token = r.token /\ q.step = "ask" /\ q.attempt = r.attempt + 1 /\ q.posts = r.posts
      BY <2>0 DEF SendRows, SendSteps
    <2>2. Again(q) = Again(r)
      BY DEF SendRows, Again
    <2>3. Fcm!Set(s, q)
      BY <1>3 DEF Fcm!Retry, SendRows
    <2> HIDE DEF q
    <2>4. Paid(q)
      BY <1>1, <1>3, <2>1, <2>2 DEF Paid
    <2> QED BY <2>1, <2>3, <2>4
  <1> QED BY <1>2, <1>3

(* Only the step, the outcome, the token or the time it asked changes.      *)
LEMMA PaidMoves ==
    ASSUME Fcm!FcmAssumption, NEW r \in SendRows, Paid(r), NEW q \in SendRows, q.attempt = r.attempt, q.posts = r.posts,
           q.refreshed = r.refreshed,
           q.step \in {"ask", "wait", "fetch", "post"} => r.step \in {"ask", "wait", "fetch", "post"}
    PROVE  Paid(q)
  <1>1. r.attempt \in Nat /\ r.posts \in Nat
    BY DEF SendRows
  <1>2. Again(q) = Again(r)
    BY DEF Again
  <1> QED BY <1>1, <1>2 DEF Paid

LEMMA AskStep == ASSUME Fcm!FcmAssumption, FcmInv, NEW s \in Senders, Fcm!Ask(s) PROVE FcmInv'
  <1> DEFINE q == [send[s] EXCEPT !.step = "wait", !.asked = fcmNow]
  <1>1. /\ send[s] \in SendRows /\ Paid(send[s]) /\ send[s].step = "ask" /\ Fcm!Set(s, q) /\ send[s].token <= fcmIssued /\ holder # s
        /\ UNCHANGED <<fcmNow, fcmIssued, cached, fresh, failed, holder, fcmRevoked>>
    BY DEF FcmInv, FcmTypes, Fcm!Ask, Fcm!At
  <1>2. /\ q \in SendRows /\ q.step = "wait" /\ q.token = send[s].token /\ q.attempt = send[s].attempt
        /\ q.posts = send[s].posts
    BY <1>1 DEF SendRows, SendSteps, FcmInv, FcmTypes
  <1>3. q.refreshed = send[s].refreshed
    BY <1>1 DEF SendRows
  <1> HIDE DEF q
  <1>4. Paid(q)
    BY <1>1, <1>2, <1>3, PaidMoves
  <1>5. fcmNow \in Nat /\ fcmIssued \in Nat /\ cached \in 0..fcmIssued /\ (failed # None => failed \in [at : Nat, error : Fcm!Errors])
    BY DEF FcmInv, FcmTypes
  <1> QED BY <1>1, <1>2, <1>4, <1>5, RowStep

(* A sender goes on to a step without the mutex.                            *)
LEMMA FreeStep ==
    ASSUME Fcm!FcmAssumption, FcmInv, NEW s \in Senders, NEW q \in SendRows, Fcm!Set(s, q), Paid(q), q.step # "fetch",
           q.token <= fcmIssued', fcmIssued' \in {fcmIssued, fcmIssued + 1}, cached' \in 0..fcmIssued',
           failed' # None => failed' \in [at : Nat, error : Fcm!Errors],
           holder' = IF holder = s THEN None ELSE holder, q.step = "forget" => q.token \in fcmRevoked, UNCHANGED <<fcmNow, fcmRevoked>>
    PROVE  FcmInv'
  <1>1. fcmNow' \in Nat /\ fcmIssued' \in Nat /\ fcmIssued <= fcmIssued'
    BY DEF FcmInv, FcmTypes
  <1> QED BY <1>1, RowStep

(* The failure of a fetch, met by the one that fetched or by one that       *)
(* waited.                                                                  *)
LEMMA FailureStep ==
    ASSUME Fcm!FcmAssumption, FcmInv, NEW s \in Senders, send[s].step \in {"wait", "fetch"}, NEW error, Fcm!Failure(s, error),
           failed' # None => failed' \in [at : Nat, error : Fcm!Errors],
           holder' = IF holder = s THEN None ELSE holder, UNCHANGED <<fcmNow, fcmIssued, cached, fcmRevoked>>
    PROVE  FcmInv' /\ send'[s].step # "fetch" /\ \A x \in Senders : x # s => send'[x] = send[x]
  <1>1. /\ send[s] \in SendRows /\ Paid(send[s]) /\ send[s].token <= fcmIssued /\ fcmIssued \in Nat /\ cached \in 0..fcmIssued
        /\ send \in [Senders -> SendRows]
    BY DEF FcmInv, FcmTypes
  <1>2. \E q \in SendRows : Fcm!Set(s, q) /\ Paid(q) /\ q.token = send[s].token /\ q.step \in {"ask", "done"}
    <2>1. CASE error = "unavailable"
      <3>1. Fcm!Retry(s, send[s])
        BY <2>1 DEF Fcm!Failure
      <3>2. 1 <= send[s].attempt /\ send[s].attempt <= MaxAttempts /\ send[s].posts <= send[s].attempt + Again(send[s])
        BY <1>1 DEF Paid
      <3> QED BY <1>1, <3>1, <3>2, RetryFits
    <2>2. CASE error # "unavailable"
      <3> DEFINE q == [send[s] EXCEPT !.step = "done", !.outcome = "gave_up"]
      <3>1. Fcm!Set(s, q)
        BY <2>2 DEF Fcm!Failure, Fcm!End
      <3>2. /\ q \in SendRows /\ q.step = "done" /\ q.token = send[s].token /\ q.attempt = send[s].attempt
            /\ q.posts = send[s].posts
        BY <1>1 DEF SendRows, SendSteps, Fcm!Outcomes
      <3>3. q.refreshed = send[s].refreshed
        BY <1>1 DEF SendRows
      <3> HIDE DEF q
      <3>4. Paid(q)
        BY <1>1, <3>2, <3>3, PaidMoves
      <3> QED BY <3>1, <3>2, <3>4
    <2> QED BY <2>1, <2>2
  <1>3. PICK q \in SendRows : Fcm!Set(s, q) /\ Paid(q) /\ q.token = send[s].token /\ q.step \in {"ask", "done"}
    BY <1>2
  <1>4. FcmInv'
    BY <1>1, <1>3, FreeStep
  <1> QED BY <1>1, <1>3, <1>4 DEF Fcm!Set

LEMMA LockStep == ASSUME Fcm!FcmAssumption, FcmInv, NEW s \in Senders, Fcm!Lock(s) PROVE FcmInv'
  <1>1. /\ send[s] \in SendRows /\ Paid(send[s]) /\ send[s].step = "wait" /\ send[s].token <= fcmIssued /\ holder = None
        /\ holder # s /\ fcmIssued \in Nat /\ cached \in 0..fcmIssued /\ fcmNow \in Nat
        /\ UNCHANGED <<fcmNow, fcmIssued, cached, fresh, failed, fcmRevoked>>
    BY DEF FcmInv, FcmTypes, Fcm!Lock, Fcm!At, Fcm!FcmAssumption
  <1>2. failed' # None => failed' \in [at : Nat, error : Fcm!Errors]
    BY <1>1 DEF FcmInv, FcmTypes
  <1>3. CASE cached # 0 /\ fresh
    <2> DEFINE q == [send[s] EXCEPT !.step = "post", !.token = cached]
    <2>1. Fcm!Set(s, q) /\ UNCHANGED holder
      BY <1>3 DEF Fcm!Lock
    <2>0. cached \in Nat /\ send[s] \in SendRows
      BY <1>1
    <2>2. q \in SendRows /\ q.step = "post" /\ q.token = cached /\ q.attempt = send[s].attempt /\ q.posts = send[s].posts
      BY <2>0 DEF SendRows, SendSteps
    <2>3. q.refreshed = send[s].refreshed
      BY <1>1 DEF SendRows
    <2> HIDE DEF q
    <2>4. Paid(q)
      BY <1>1, <2>2, <2>3, PaidMoves
    <2>5. q.token <= fcmIssued'
      BY <1>1, <2>2
    <2> QED BY <1>1, <1>2, <2>1, <2>2, <2>4, <2>5, FreeStep
  <1>4. CASE ~(cached # 0 /\ fresh) /\ Fcm!Held(s)
    <2>1. Fcm!Failure(s, failed.error) /\ UNCHANGED holder
      BY <1>4 DEF Fcm!Lock
    <2> QED BY <1>1, <1>2, <2>1, FailureStep
  <1>5. CASE ~(cached # 0 /\ fresh) /\ ~Fcm!Held(s)
    <2> DEFINE q == [send[s] EXCEPT !.step = "fetch"]
    <2>1. Fcm!Set(s, q) /\ holder' = s
      BY <1>5 DEF Fcm!Lock
    <2>2. /\ q \in SendRows /\ q.step = "fetch" /\ q.token = send[s].token /\ q.attempt = send[s].attempt
          /\ q.posts = send[s].posts
      BY <1>1 DEF SendRows, SendSteps
    <2>3. q.refreshed = send[s].refreshed
      BY <1>1 DEF SendRows
    <2> HIDE DEF q
    <2>4. Paid(q)
      BY <1>1, <2>2, <2>3, PaidMoves
    <2> QED BY <1>1, <1>2, <2>1, <2>2, <2>4, RowStep
  <1> QED BY <1>3, <1>4, <1>5

LEMMA FetchedStep == ASSUME Fcm!FcmAssumption, FcmInv, NEW s \in Senders, Fcm!Fetched(s) PROVE FcmInv'
  <1> DEFINE q == [send[s] EXCEPT !.step = "post", !.token = fcmIssued + 1]
  <1>1. /\ send[s] \in SendRows /\ Paid(send[s]) /\ send[s].step = "fetch" /\ holder = s /\ fcmIssued \in Nat
        /\ Fcm!Set(s, q) /\ fcmIssued' = fcmIssued + 1 /\ cached' = fcmIssued + 1 /\ failed' = None /\ holder' = None
        /\ UNCHANGED <<fcmNow, fcmRevoked>>
    BY DEF FcmInv, FcmTypes, Fcm!Fetched, Fcm!At
  <1>0. fcmIssued + 1 \in Nat /\ send[s] \in SendRows
    BY <1>1
  <1>2. q \in SendRows /\ q.step = "post" /\ q.token = fcmIssued + 1 /\ q.attempt = send[s].attempt /\ q.posts = send[s].posts
    BY <1>0 DEF SendRows, SendSteps
  <1>3. q.refreshed = send[s].refreshed
    BY <1>1 DEF SendRows
  <1> HIDE DEF q
  <1>4. Paid(q)
    BY <1>1, <1>2, <1>3, PaidMoves
  <1>5. cached' \in 0..fcmIssued' /\ q.token <= fcmIssued'
    BY <1>1, <1>2
  <1> QED BY <1>1, <1>2, <1>4, <1>5, FreeStep

LEMMA FetchFailedStep == ASSUME Fcm!FcmAssumption, FcmInv, NEW s \in Senders, Fcm!FetchFailed(s) PROVE FcmInv'
  <1>1. PICK error \in Fcm!Errors : failed' = [at |-> fcmNow, error |-> error] /\ Fcm!Failure(s, error)
    BY DEF Fcm!FetchFailed
  <1>2. send[s].step = "fetch" /\ holder = s /\ holder' = None /\ UNCHANGED <<fcmNow, fcmIssued, cached, fcmRevoked>> /\ fcmNow \in Nat
    BY DEF Fcm!FetchFailed, Fcm!At, FcmInv, FcmTypes
  <1>3. failed' \in [at : Nat, error : Fcm!Errors]
    BY <1>1, <1>2
  <1> QED BY <1>1, <1>2, <1>3, FailureStep

LEMMA PostStep == ASSUME Fcm!FcmAssumption, FcmInv, NEW s \in Senders, Fcm!Post(s) PROVE FcmInv'
  <1> DEFINE r == [send[s] EXCEPT !.posts = @ + 1]
  <1>1. PICK answer \in Fcm!Answers :
        /\ Fcm!At(s, "post") /\ (answer = "unauthorized" <=> send[s].token \in fcmRevoked)
        /\ CASE Fcm!Classify(answer) \in Fcm!Outcomes -> Fcm!Set(s, [r EXCEPT !.step = "done", !.outcome = Fcm!Classify(answer)])
             [] Fcm!Classify(answer) = "retry" -> Fcm!Retry(s, r)
             [] OTHER -> Fcm!Set(s, [r EXCEPT !.step = "forget"])
        /\ UNCHANGED <<fcmNow, fcmIssued, cached, fresh, failed, holder, fcmRevoked>>
    BY Zenon DEF Fcm!Post
  <1>2. /\ send[s] \in SendRows /\ Paid(send[s]) /\ send[s].step = "post" /\ send[s].token <= fcmIssued
        /\ holder # s /\ fcmIssued \in Nat /\ cached \in 0..fcmIssued /\ fcmNow \in Nat
    BY <1>1 DEF FcmInv, FcmTypes, Fcm!At, Fcm!FcmAssumption
  <1>3. failed' # None => failed' \in [at : Nat, error : Fcm!Errors]
    BY <1>1 DEF FcmInv, FcmTypes
  <1>4. /\ r \in SendRows /\ r.token = send[s].token /\ r.attempt = send[s].attempt /\ r.posts = send[s].posts + 1
        /\ r.attempt \in Nat /\ r.posts \in Nat
    BY <1>2 DEF SendRows
  <1>5. r.refreshed = send[s].refreshed
    BY <1>2 DEF SendRows
  <1>6. Again(r) = Again(send[s]) /\ Again(r) \in {0, 1}
    BY <1>5 DEF Again
  <1>7. 1 <= r.attempt /\ r.attempt <= MaxAttempts /\ r.posts <= r.attempt + Again(r)
    BY <1>2, <1>4, <1>6 DEF Paid, SendRows
  <1>8. (Fcm!Classify(answer) \in Fcm!Outcomes \cup {"retry", "unauthorized"}) /\ (Fcm!Classify(answer) = "unauthorized" => answer = "unauthorized")
    BY DEF Fcm!Classify, Fcm!Answers, Fcm!Outcomes
  <1>9. "retry" \notin Fcm!Outcomes /\ "unauthorized" \notin Fcm!Outcomes /\ "retry" # "unauthorized"
    BY DEF Fcm!Outcomes
  <1> HIDE DEF r
  <1>10. ASSUME NEW q \in SendRows, Fcm!Set(s, q), q.token = r.token, q.attempt = r.attempt, q.posts = r.posts,
                q.refreshed = r.refreshed, q.step \in {"done", "forget"}, q.step = "forget" => q.token \in fcmRevoked
         PROVE  FcmInv'
    <2>1. Again(q) = Again(r)
      BY <1>10 DEF Again
    <2>2. Paid(q)
      BY <1>4, <1>7, <1>10, <2>1 DEF Paid
    <2> QED BY <1>1, <1>2, <1>3, <1>4, <1>10, <2>2, FreeStep
  <1>11. CASE Fcm!Classify(answer) \in Fcm!Outcomes
    <2> DEFINE q == [r EXCEPT !.step = "done", !.outcome = Fcm!Classify(answer)]
    <2>1. Fcm!Set(s, q)
      BY <1>1, <1>9, <1>11
    <2>2. q \in SendRows /\ q.step = "done" /\ q.token = r.token /\ q.attempt = r.attempt /\ q.posts = r.posts
      BY <1>4, <1>11 DEF SendRows, SendSteps
    <2>3. q.refreshed = r.refreshed
      BY <1>4 DEF SendRows
    <2> HIDE DEF q
    <2> QED BY <1>10, <2>1, <2>2, <2>3
  <1>12. CASE Fcm!Classify(answer) = "retry"
    <2>1. Fcm!Retry(s, r)
      BY <1>1, <1>9, <1>12
    <2>2. PICK q \in SendRows : Fcm!Set(s, q) /\ Paid(q) /\ q.token = r.token /\ q.step \in {"ask", "done"}
      BY <1>4, <1>7, <2>1, RetryFits
    <2> QED BY <1>1, <1>2, <1>3, <1>4, <2>2, FreeStep
  <1>13. CASE Fcm!Classify(answer) = "unauthorized"
    <2> DEFINE q == [r EXCEPT !.step = "forget"]
    <2>1. Fcm!Set(s, q)
      BY <1>1, <1>9, <1>13
    <2>2. q \in SendRows /\ q.step = "forget" /\ q.token = r.token /\ q.attempt = r.attempt /\ q.posts = r.posts
      BY <1>4 DEF SendRows, SendSteps
    <2>3. q.refreshed = r.refreshed
      BY <1>4 DEF SendRows
    <2>4. q.token \in fcmRevoked
      BY <1>1, <1>4, <1>8, <1>13, <2>2
    <2> HIDE DEF q
    <2> QED BY <1>10, <2>1, <2>2, <2>3, <2>4
  <1> QED BY <1>8, <1>11, <1>12, <1>13

LEMMA ForgetStep == ASSUME Fcm!FcmAssumption, FcmInv, NEW s \in Senders, Fcm!Forget(s) PROVE FcmInv'
  <1>1. /\ send[s] \in SendRows /\ Paid(send[s]) /\ send[s].step = "forget" /\ send[s].token <= fcmIssued
        /\ holder # s /\ fcmIssued \in Nat /\ cached \in 0..fcmIssued /\ fcmNow \in Nat /\ cached' = Fcm!Forgotten(s)
        /\ UNCHANGED <<fcmNow, fcmIssued, failed, holder, fcmRevoked>>
    BY DEF FcmInv, FcmTypes, Fcm!At, Fcm!FcmAssumption, Fcm!Forget
  <1>2. failed' # None => failed' \in [at : Nat, error : Fcm!Errors]
    BY <1>1 DEF FcmInv, FcmTypes
  <1>3. cached' \in 0..fcmIssued'
    BY <1>1 DEF Fcm!Forgotten
  <1>4. CASE send[s].refreshed
    <2> DEFINE q == [send[s] EXCEPT !.step = "done", !.outcome = "refused"]
    <2>1. Fcm!Set(s, q)
      BY <1>4 DEF Fcm!Forget, Fcm!End
    <2>2. q \in SendRows /\ q.step = "done" /\ q.token = send[s].token /\ q.attempt = send[s].attempt /\ q.posts = send[s].posts
      BY <1>1 DEF SendRows, SendSteps, Fcm!Outcomes
    <2>3. q.refreshed = send[s].refreshed
      BY <1>1 DEF SendRows
    <2> HIDE DEF q
    <2>4. Paid(q)
      BY <1>1, <2>2, <2>3, PaidMoves
    <2> QED BY <1>1, <1>2, <1>3, <2>1, <2>2, <2>4, FreeStep
  <1>5. CASE ~send[s].refreshed
    <2> DEFINE q == [send[s] EXCEPT !.step = "ask", !.refreshed = TRUE]
    <2>1. Fcm!Set(s, q)
      BY <1>5 DEF Fcm!Forget
    <2>2. /\ q \in SendRows /\ q.step = "ask" /\ q.token = send[s].token /\ q.attempt = send[s].attempt
          /\ q.posts = send[s].posts /\ q.attempt \in Nat /\ q.posts \in Nat
      BY <1>1 DEF SendRows, SendSteps
    <2>3. q.refreshed = TRUE
      BY <1>1 DEF SendRows
    <2> HIDE DEF q
    <2>4. Again(q) = 1 /\ Again(send[s]) = 0
      BY <1>5, <2>3 DEF Again
    <2>5. Paid(q)
      BY <1>1, <2>2, <2>4 DEF Paid
    <2> QED BY <1>1, <1>2, <1>3, <2>1, <2>2, <2>5, FreeStep
  <1> QED BY <1>4, <1>5

LEMMA NextFcm == ASSUME Fcm!FcmAssumption, FcmInv, Fcm!Next PROVE FcmInv'
  <1>1. CASE Fcm!Tick
    <2>1. UNCHANGED <<fcmIssued, cached, failed, holder, send, fcmRevoked>> /\ fcmNow' = fcmNow + 1
      BY <1>1 DEF Fcm!Tick
    <2>2. fcmNow' \in Nat
      BY <2>1 DEF FcmInv, FcmTypes
    <2> QED BY <2>1, <2>2 DEF FcmInv, FcmTypes, Paid, Again
  <1>2. CASE Fcm!Revoke
    <2>1. UNCHANGED <<fcmNow, fcmIssued, cached, failed, holder, send>> /\ fcmRevoked \subseteq fcmRevoked'
      BY <1>2 DEF Fcm!Revoke
    <2> QED BY <2>1 DEF FcmInv, FcmTypes, Paid, Again
  <1> QED BY <1>1, <1>2, AskStep, LockStep, FetchedStep, FetchFailedStep, PostStep, ForgetStep DEF Fcm!Next,
             Fcm!Attempt

LEMMA InvFcm == ASSUME Fcm!FcmAssumption, FcmInv PROVE Fcm!TypeOK /\ Fcm!BoundedPosts
  <1>1. \A s \in Senders : send[s].posts \in Nat /\ send[s].attempt \in Nat /\ send[s].outcome \in Fcm!Outcomes \cup {None}
    BY DEF FcmInv, FcmTypes, SendRows
  <1>2. \A s \in Senders : send[s].posts <= send[s].attempt + Again(send[s]) /\ send[s].attempt <= MaxAttempts /\ Again(send[s]) \in {0, 1}
    BY DEF FcmInv, Paid, Again
  <1>3. Fcm!BoundedPosts
    BY <1>1, <1>2 DEF Fcm!BoundedPosts, Fcm!FcmAssumption
  <1> QED BY <1>1, <1>3 DEF Fcm!TypeOK, FcmInv, FcmTypes, Fcm!At

(* The cache forgets a token, and a fetch begins.                           *)
LEMMA FcmSteps ==
    ASSUME Fcm!FcmAssumption, FcmInv, [Fcm!Next]_(Fcm!vars)
    PROVE  Fcm!OnlyRefusedForgotten /\ Fcm!FailureIsShared
  <1>1. send \in [Senders -> SendRows] /\ cached \in 0..fcmIssued /\ fcmIssued \in Nat /\ fcmNow \in Nat
    BY DEF FcmInv, FcmTypes
  <1>2. Fcm!OnlyRefusedForgotten
    <2>1. SUFFICES ASSUME cached # 0, cached' = 0 PROVE cached \in fcmRevoked
      BY DEF Fcm!OnlyRefusedForgotten
    <2>2. \/ \E s \in Senders : Fcm!Fetched(s) \/ Fcm!Forget(s)
          \/ UNCHANGED cached
      <3>1. ASSUME NEW s \in Senders, Fcm!Ask(s) \/ Fcm!Lock(s) \/ Fcm!FetchFailed(s) PROVE UNCHANGED cached
        BY <3>1 DEF Fcm!Ask, Fcm!Lock, Fcm!FetchFailed
      <3>2. ASSUME NEW s \in Senders, Fcm!Post(s) PROVE UNCHANGED cached
        BY <3>2 DEF Fcm!Post
      <3>3. CASE Fcm!Tick \/ Fcm!Revoke \/ UNCHANGED Fcm!vars
        BY <3>3 DEF Fcm!Tick, Fcm!Revoke, Fcm!vars
      <3> QED BY <3>1, <3>2, <3>3 DEF Fcm!Next, Fcm!Attempt
    <2>3. ~UNCHANGED cached
      BY <2>1
    <2>4. ASSUME NEW s \in Senders, Fcm!Fetched(s) PROVE FALSE
      BY <1>1, <2>1, <2>4 DEF Fcm!Fetched
    <2>5. ASSUME NEW s \in Senders, Fcm!Forget(s) PROVE cached \in fcmRevoked
      BY <2>1, <2>5 DEF Fcm!Forget, Fcm!Forgotten, Fcm!At, FcmInv
    <2> QED BY <2>2, <2>3, <2>4, <2>5
  <1>3. Fcm!FailureIsShared
    <2>1. SUFFICES ASSUME NEW s \in Senders, send[s].step # "fetch", send'[s].step = "fetch", failed # None
                   PROVE  send[s].asked > failed.at /\ fcmNow >= failed.at + Fcm!Hold(failed.error)
      BY DEF Fcm!FailureIsShared, Fcm!At
    <2>2. ASSUME NEW x \in Senders, Fcm!Lock(x) PROVE x = s /\ ~Fcm!Held(s)
      <3>1. x # s => send'[s] = send[s]
        BY <1>1, <2>2 DEF Fcm!Lock, Fcm!Set, Fcm!Failure, Fcm!Retry, Fcm!End
      <3>2. send[x].step = "wait" /\ send[x] \in SendRows
        BY <1>1, <2>2 DEF Fcm!Lock, Fcm!At
      <3>3. x = s
        BY <2>1, <3>1
      <3>4. CASE Fcm!Held(x)
        <4>1. (cached # 0 /\ fresh) \/ Fcm!Failure(x, failed.error)
          BY <2>2, <3>4 DEF Fcm!Lock
        <4>2. CASE cached # 0 /\ fresh
          BY <1>1, <2>1, <2>2, <3>2, <3>3, <4>2 DEF Fcm!Lock, Fcm!Set, SendRows
        <4>3. CASE Fcm!Failure(x, failed.error) /\ ~(cached # 0 /\ fresh)
          <5>1. /\ failed' # None => failed' \in [at : Nat, error : Fcm!Errors]
                /\ holder' = IF holder = x THEN None ELSE holder
                /\ UNCHANGED <<fcmNow, fcmIssued, cached, fcmRevoked>>
            BY <2>2, <3>4, <4>3 DEF Fcm!Lock, FcmInv, FcmTypes
          <5> QED BY <2>1, <3>2, <3>3, <4>3, <5>1, FailureStep
        <4> QED BY <4>1, <4>2, <4>3
      <3> QED BY <3>3, <3>4
    <2>3. ASSUME NEW x \in Senders, Fcm!Ask(x) \/ Fcm!Fetched(x) \/ Fcm!FetchFailed(x) \/ Fcm!Post(x) \/ Fcm!Forget(x)
          PROVE  FALSE
      <3>1. x # s => send'[s] = send[s]
        <4>1. ASSUME NEW q, Fcm!Set(x, q) PROVE x # s => send'[s] = send[s]
          BY <1>1, <4>1 DEF Fcm!Set
        <4>2. CASE Fcm!Ask(x) \/ Fcm!Fetched(x)
          BY <4>1, <4>2 DEF Fcm!Ask, Fcm!Fetched
        <4>3. CASE Fcm!FetchFailed(x)
          BY <4>1, <4>3 DEF Fcm!FetchFailed, Fcm!Failure, Fcm!Retry, Fcm!End
        <4>4. CASE Fcm!Forget(x)
          BY <4>1, <4>4 DEF Fcm!Forget, Fcm!End
        <4>5. CASE Fcm!Post(x)
          BY <4>1, <4>5, Zenon DEF Fcm!Post, Fcm!Retry
        <4> QED BY <2>3, <4>2, <4>3, <4>4, <4>5
      <3>2. x = s /\ send[s] \in SendRows
        BY <1>1, <2>1, <3>1
      <3>3. CASE Fcm!Ask(x) \/ Fcm!Forget(x)
        <4>1. FcmInv'
          BY <3>3, AskStep, ForgetStep
        <4>2. UNCHANGED holder
          BY <3>3 DEF Fcm!Ask, Fcm!Forget
        <4> QED BY <2>1, <4>1, <4>2 DEF FcmInv
      <3>4. CASE Fcm!Fetched(x) \/ Fcm!FetchFailed(x)
        BY <2>1, <3>2, <3>4 DEF Fcm!Fetched, Fcm!FetchFailed, Fcm!At
      <3>5. CASE Fcm!Post(x)
        <4>1. FcmInv'
          BY <3>5, PostStep
        <4>2. send[s].step = "post" /\ UNCHANGED holder
          BY <3>2, <3>5 DEF Fcm!Post, Fcm!At
        <4> QED BY <2>1, <4>1, <4>2 DEF FcmInv
      <3> QED BY <2>3, <3>3, <3>4, <3>5
    <2>4. \E x \in Senders : Fcm!Lock(x)
      <3>1. ~UNCHANGED send
        BY <2>1
      <3> QED BY <2>3, <3>1 DEF Fcm!Next, Fcm!vars, Fcm!Attempt, Fcm!Tick, Fcm!Revoke
    <2>5. ~Fcm!Held(s)
      BY <2>2, <2>4
    <2>6. failed.at \in Nat /\ send[s].asked \in Nat /\ failed.error \in Fcm!Errors
      BY <1>1, <2>1 DEF FcmInv, FcmTypes, SendRows
    <2>7. Fcm!Hold(failed.error) \in Nat
      BY <2>6 DEF Fcm!Hold, Fcm!FcmAssumption, Fcm!Errors
    <2> QED BY <1>1, <2>1, <2>5, <2>6, <2>7 DEF Fcm!Held
  <1> QED BY <1>2, <1>3

LEMMA StutterFcm == ASSUME FcmInv, UNCHANGED Fcm!vars PROVE FcmInv'
  BY DEF Fcm!vars, FcmInv, FcmTypes

LEMMA FcmAlways == ASSUME Fcm!FcmAssumption PROVE Fcm!Spec => []FcmInv
  <1>1. Fcm!Init => FcmInv
    BY InitFcm
  <1>2. FcmInv /\ [Fcm!Next]_(Fcm!vars) => FcmInv'
    BY NextFcm, StutterFcm
  <1> QED BY <1>1, <1>2, PTL DEF Fcm!Spec

(* For any senders, holds and attempts: one send posts at most once per     *)
(* attempt and once more after the token it renewed (send, post).           *)
THEOREM PostsAreBounded == ASSUME Fcm!FcmAssumption PROVE Fcm!Spec => [](Fcm!TypeOK /\ Fcm!BoundedPosts)
  <1>1. FcmInv => Fcm!TypeOK /\ Fcm!BoundedPosts
    BY InvFcm
  <1> QED BY <1>1, FcmAlways, PTL

(* Only a token Google refused is forgotten, never the one that another     *)
(* sender has fetched since, and while a failed fetch is held nobody        *)
(* fetches again (forget, access_token).                                    *)
THEOREM TokensAreShared ==
    ASSUME Fcm!FcmAssumption
    PROVE  Fcm!Spec => [][Fcm!OnlyRefusedForgotten /\ Fcm!FailureIsShared]_(Fcm!vars)
  <1>1. FcmInv /\ [Fcm!Next]_(Fcm!vars) => [Fcm!OnlyRefusedForgotten /\ Fcm!FailureIsShared]_(Fcm!vars)
    BY FcmSteps
  <1> QED BY <1>1, FcmAlways, PTL DEF Fcm!Spec

-----------------------------------------------------------------------------
(* What agents and surfaces rely on: exchanges between agents end and are   *)
(* answered, an answer goes to the call that asked, and a call waits only   *)
(* for a connection that lives.                                             *)
MessagesSafe ==
    /\ Messages!MessagesSafe
    /\ Link!TypeOK /\ Link!OwnAnswer /\ Link!NeverBroken
    /\ HostLink!TypeOK /\ HostLink!WaitsForLive

(* What the owner relies on: a bootstrap, a pairing, a ticket and a relay's *)
(* result are each used once, ended sessions and revoked devices are not    *)
(* served, and a shared file arrives whole or visibly cut.                  *)
AccessSafe ==
    /\ Browsers!TypeOK /\ Browsers!GrantsOnce /\ Browsers!EndedStaysEnded
    /\ Browsers!PairsOneBrowser /\ Browsers!UsedSessionLives
    /\ Holders!TypeOK /\ Holders!DeviceBound /\ Holders!OnlyAcceptedServed /\ Holders!RevokedHoldsNothing
    /\ Relayed!TypeOK /\ Relayed!OneResult /\ Relayed!StateNamesOne /\ Relayed!KeptUntilAcknowledged
    /\ Shares!TypeOK /\ Shares!WholeOrCut /\ Shares!TicketServesOnce

(* What a phone relies on: a wake is settled only when a send covered it, a *)
(* ring is not replaced and sends are paced, within the attempts of a token.*)
PushSafe ==
    /\ Wakes!TypeOK /\ Wakes!SettledWasSent /\ Wakes!RingIsNotReplaced /\ Wakes!PacedSends
    /\ Fcm!TypeOK /\ Fcm!BoundedPosts

(* For every number of agents, callers, calls, nodes and connections, and   *)
(* however the messages of the three components interleave, what crosses    *)
(* the control plane is answered to the one that asked.                     *)
THEOREM MessagesAreSafe ==
    ASSUME Messages!AgentMessagesAssumption, Link!AgentLinkAssumption, HostLink!HostCallsAssumption
    PROVE  Messages!Spec /\ Link!Spec /\ HostLink!Spec => []MessagesSafe
  <1>1. /\ Messages!MessagesSafe
        /\ Link!TypeOK /\ Link!OwnAnswer /\ Link!NeverBroken
        /\ HostLink!TypeOK /\ HostLink!WaitsForLive
        => MessagesSafe
    BY DEF MessagesSafe
  <1> QED BY <1>1, ExchangesAreSound, CallersGetTheirAnswer, NobodyWaitsForTheDead, PTL

(* For every number of browsers, keys, pairings, devices, relays, tickets   *)
(* and readers: access is granted once, to whom it was meant for, and what  *)
(* is ended or revoked stays so.                                            *)
THEOREM AccessIsSafe ==
    ASSUME Browsers!AccessAssumption, Holders!DevicesAssumption, Relayed!RelaysAssumption, Shares!SharePageAssumption
    PROVE  Browsers!Spec /\ Holders!Spec /\ Relayed!Spec /\ Shares!Spec => []AccessSafe
  <1>1. /\ Browsers!TypeOK /\ Browsers!GrantsOnce /\ Browsers!EndedStaysEnded
        /\ Browsers!PairsOneBrowser /\ Browsers!UsedSessionLives
        /\ Holders!TypeOK /\ Holders!DeviceBound /\ Holders!OnlyAcceptedServed /\ Holders!RevokedHoldsNothing
        /\ Relayed!TypeOK /\ Relayed!OneResult /\ Relayed!StateNamesOne /\ Relayed!KeptUntilAcknowledged
        /\ Shares!TypeOK /\ Shares!WholeOrCut /\ Shares!TicketServesOnce
        => AccessSafe
    BY DEF AccessSafe
  <1> QED BY <1>1, BrowsersAreGrantedOnce, DevicesStayEntitled, RelaysKeepOneResult, SharedFilesAreWhole, PTL

(* For every number of phones, tokens, requests and senders: what the       *)
(* dispatcher forgets was sent, and no send exceeds its attempts.           *)
THEOREM WakesAreSafe ==
    ASSUME Wakes!PushAssumption, Fcm!FcmAssumption PROVE Wakes!Spec /\ Fcm!Spec => []PushSafe
  <1>1. /\ Wakes!TypeOK /\ Wakes!SettledWasSent /\ Wakes!RingIsNotReplaced /\ Wakes!PacedSends
        /\ Fcm!TypeOK /\ Fcm!BoundedPosts
        => PushSafe
    BY DEF PushSafe
  <1> QED BY <1>1, SettledWakesWereSent, PostsAreBounded, PTL
=============================================================================
