----------------------------- MODULE AcpServer -----------------------------
(***************************************************************************)
(* The ACP surface: one process that owns at most one session at a time.   *)
(* The protocol library runs the handlers one after the other in the order *)
(* of arrival; a prompt's handler only starts a task, which looks for the  *)
(* active session when it runs.  An opened session is an instance that     *)
(* lives as long as somebody refers to it: the server, or a prompt's task. *)
(***************************************************************************)
EXTENDS Naturals, Sequences, FiniteSets, SequenceTheorems, TLAPS

CONSTANTS
  Sessions,   \* session identities
  Existing,   \* those stored when the process starts
  Foreign,    \* those of another agent
  Prompts,    \* prompts that may be in flight at once
  MaxInbox    \* bound: requests received and not handled

AcpAssumption == /\ Existing \subseteq Sessions /\ Foreign \subseteq Existing
                 /\ "none" \notin Sessions /\ Prompts \cap {"server", "config", "idle"} = {}

VARIABLES
  stored,   \* the sessions on disk
  used,     \* identities that were ever given out
  inst,     \* the instance of each session
  active,   \* Server.active
  inbox,    \* requests not handled yet
  cur,      \* the handler that waits: "none", "closing", "configuring"
  task,     \* the task of each prompt
  reply     \* the latest answer to a request other than a prompt

vars == <<stored, used, inst, active, inbox, cur, task, reply>>

NoSession == [s |-> "none", mode |-> "none"]
NoInstance == [holders |-> {}, accepting |-> FALSE, activity |-> "idle", history |-> FALSE]
NoTask == [pc |-> "none", s |-> "none", token |-> FALSE, outcome |-> "none"]

\* preflight_agent has found the agent.
Init ==
  /\ stored = Existing /\ used = Existing
  /\ inst = [s \in Sessions |-> NoInstance]
  /\ active = NoSession /\ inbox = <<>> /\ cur = "none"
  /\ task = [p \in Prompts |-> NoTask]
  /\ reply = [k |-> "none", a |-> "none"]

-----------------------------------------------------------------------------
(* The client.                                                             *)

Send(k, s) ==
  /\ Len(inbox) < MaxInbox
  /\ inbox' = Append(inbox, [k |-> k, s |-> s])
  /\ UNCHANGED <<stored, used, inst, active, cur, task, reply>>

-----------------------------------------------------------------------------
(* The handlers.                                                           *)

Handling(k) == cur = "none" /\ inbox # <<>> /\ Head(inbox).k = k
Asked == Head(inbox).s
Handled(k, a) == inbox' = Tail(inbox) /\ reply' = [k |-> k, a |-> a]
Fails(k, a) == Handled(k, a) /\ UNCHANGED <<stored, used, inst, active, cur, task>>

IsActive(s) == active.s = s
Executable(s) == IsActive(s) /\ active.mode = "executable"

Opened(holders, history) ==
  [holders |-> holders, accepting |-> ~history, activity |-> "idle", history |-> history]

\* An instance in this process refers to the session; the kernel would not
\* give it to a second one.
OpenElsewhere(s) == inst[s].holders # {}

\* A live instance is shared only while it accepts work.
OpenIn(s) == inst[s].holders # {} /\ inst[s].accepting

\* create_session, under the server's lock; opening may fail.
CreateSession ==
  /\ Handling("new")
  /\ \/ active # NoSession /\ Fails("new", "owned")
     \/ /\ active = NoSession
        /\ \E s \in Sessions \ used :
             /\ stored' = stored \cup {s} /\ used' = used \cup {s}
             /\ inst' = [inst EXCEPT ![s] = Opened({"server"}, FALSE)]
             /\ active' = [s |-> s, mode |-> "executable"]
        /\ Handled("new", "ok") /\ UNCHANGED <<cur, task>>
     \/ active = NoSession /\ Fails("new", "failed")

\* inspect_session: history alone, when executable loading failed.
InspectSession(s) ==
  /\ ~OpenElsewhere(s)
  /\ inst' = [inst EXCEPT ![s] = Opened({"server"}, TRUE)]
  /\ active' = [s |-> s, mode |-> "history"]

\* load_session_for_agent.
LoadExecutable(s) ==
  /\ OpenIn(s) \/ ~OpenElsewhere(s)
  /\ inst' = [inst EXCEPT ![s] = IF OpenIn(s) THEN [@ EXCEPT !.holders = @ \cup {"server"}]
                                 ELSE Opened({"server"}, FALSE)]
  /\ active' = [s |-> s, mode |-> "executable"]

\* load_session, under the server's lock.
LoadSession ==
  /\ Handling("load")
  /\ \/ active # NoSession /\ Fails("load", "owned")
     \/ /\ active = NoSession /\ Asked \in stored \ Foreign
        /\ LoadExecutable(Asked) \/ InspectSession(Asked)
        /\ Handled("load", "ok") /\ UNCHANGED <<stored, used, cur, task>>
     \/ active = NoSession /\ Fails("load", "failed")

Release(s, who) ==
  LET left == inst[s].holders \ {who} IN
  [inst EXCEPT ![s] = IF left = {} THEN NoInstance ELSE [@ EXCEPT !.holders = left]]

\* The cancellation tokens of some prompts are set.
Signalled(S) == [p \in Prompts |-> IF p \in S THEN [task[p] EXCEPT !.token = TRUE] ELSE task[p]]

CloseSessionBad ==
  /\ Handling("close")
  /\ \/ ~IsActive(Asked) /\ Fails("close", "unloaded")
     \/ /\ IsActive(Asked) /\ ~Executable(Asked)
        /\ inst' = Release(Asked, "server") /\ active' = NoSession
        /\ Handled("close", "ok") /\ UNCHANGED <<stored, used, cur, task>>
     \/ /\ Executable(Asked)
        /\ inst' = [inst EXCEPT ![Asked].accepting = FALSE]
        /\ cur' = "closing"
        /\ UNCHANGED <<stored, used, active, inbox, reply, task>>

\* close_and_wait_until_idle: no new work, and the current turn is cancelled.
CloseSession ==
  /\ Handling("close")
  /\ \/ ~IsActive(Asked) /\ Fails("close", "unloaded")
     \/ /\ IsActive(Asked) /\ ~Executable(Asked)
        /\ inst' = Release(Asked, "server") /\ active' = NoSession
        /\ Handled("close", "ok") /\ UNCHANGED <<stored, used, cur, task>>
     \/ /\ Executable(Asked)
        /\ inst' = [inst EXCEPT ![Asked].accepting = FALSE]
        /\ task' = Signalled({p \in Prompts : inst[Asked].activity = p})
        /\ cur' = "closing"
        /\ UNCHANGED <<stored, used, active, inbox, reply>>

CloseIdleBad ==
  /\ cur = "closing"
  /\ inst' = Release(Asked, "server") /\ active' = NoSession
  /\ cur' = "none" /\ Handled("close", "ok") /\ UNCHANGED <<stored, used, task>>

\* Idle: the server lets the session go.
CloseIdle ==
  /\ cur = "closing" /\ inst[Asked].activity = "idle"
  /\ inst' = Release(Asked, "server") /\ active' = NoSession
  /\ cur' = "none" /\ Handled("close", "ok") /\ UNCHANGED <<stored, used, task>>

\* delete_session: a session that is gone is deleted again.
DeleteSession ==
  /\ Handling("delete")
  /\ CASE IsActive(Asked) -> Fails("delete", "active")
       [] ~IsActive(Asked) /\ Asked \in stored \cap Foreign -> Fails("delete", "foreign")
       [] ~IsActive(Asked) /\ Asked \notin Foreign /\ OpenElsewhere(Asked) -> Fails("delete", "open")
       [] OTHER -> /\ stored' = stored \ {Asked}
                   /\ Handled("delete", "ok") /\ UNCHANGED <<used, inst, active, cur, task>>

\* cancel: the turn that runs and the prompts that wait for the session.
Cancel ==
  /\ Handling("cancel")
  /\ task' = Signalled({p \in Prompts : /\ Executable(Asked) /\ task[p].s = Asked
                                        /\ inst[Asked].activity = p \/ task[p].pc = "waiting"})
  /\ inbox' = Tail(inbox)
  /\ UNCHANGED <<stored, used, inst, active, cur, reply>>

\* set_config_option: refused while the session works or closes.
SetConfigOption ==
  /\ Handling("config")
  /\ IF Executable(Asked) /\ inst[Asked].accepting /\ inst[Asked].activity = "idle"
     THEN /\ inst' = [inst EXCEPT ![Asked].activity = "config"]
          /\ cur' = "configuring"
          /\ UNCHANGED <<stored, used, active, inbox, task, reply>>
     ELSE Fails("config", "refused")

Configured(a) ==
  /\ cur = "configuring"
  /\ inst' = [inst EXCEPT ![Asked].activity = "idle"]
  /\ cur' = "none" /\ Handled("config", a) /\ UNCHANGED <<stored, used, active, task>>

\* The handler of a prompt starts its task and is done.
SpawnPrompt(p) ==
  /\ Handling("prompt") /\ task[p].pc = "none"
  /\ task' = [task EXCEPT ![p] = [NoTask EXCEPT !.pc = "spawned", !.s = Asked]]
  /\ inbox' = Tail(inbox)
  /\ UNCHANGED <<stored, used, inst, active, cur, reply>>

-----------------------------------------------------------------------------
(* A prompt's task.                                                        *)

Server == UNCHANGED <<stored, used, active, inbox, cur, reply>>
Move(p, pc) == task' = [task EXCEPT ![p].pc = pc]

\* session(), the request's identity and its content.
Lookup(p) ==
  /\ task[p].pc = "spawned"
  /\ \/ /\ Executable(task[p].s)
        /\ inst' = [inst EXCEPT ![task[p].s].holders = @ \cup {p}] /\ Move(p, "waiting")
     \/ task' = [task EXCEPT ![p] = NoTask] /\ UNCHANGED inst      \* refused
  /\ Server

\* The task returns: its reference goes before its answer.
Leave(p) ==
  /\ inst' = Release(task[p].s, p)
  /\ task' = [task EXCEPT ![p] = NoTask]

\* surface_claim: a wait for a note pass.
Claimed(p) ==
  /\ task[p].pc = "waiting" /\ Move(p, "claimed")
  /\ UNCHANGED inst /\ Server

WaitCancelled(p) ==
  /\ task[p].pc = "waiting" /\ task[p].token
  /\ Leave(p) /\ Server

\* begin_prompt: refused while the session is busy or closing; a prompt
\* cancelled before it began has not run.
Begin(p) ==
  /\ task[p].pc = "claimed"
  /\ LET i == inst[task[p].s] IN
     IF i.accepting /\ i.activity = "idle" /\ ~task[p].token
     THEN inst' = [inst EXCEPT ![task[p].s].activity = p] /\ Move(p, "running")
     ELSE Leave(p)
  /\ Server

\* The turn or the compaction ends; the activity is given back.
Finish(p, outcome) ==
  /\ task[p].pc = "running" /\ (outcome = "cancelled" => task[p].token)
  /\ inst' = [inst EXCEPT ![task[p].s].activity = "idle"]
  /\ task' = [task EXCEPT ![p].pc = "ended", ![p].outcome = outcome]
  /\ Server

Return(p) ==
  /\ task[p].pc = "ended" /\ Leave(p) /\ Server

Handler ==
  \/ CreateSession \/ LoadSession \/ CloseSession \/ CloseIdle \/ DeleteSession
  \/ Cancel \/ SetConfigOption
  \/ \E a \in {"ok", "failed"} : Configured(a)
  \/ \E p \in Prompts : SpawnPrompt(p)
TaskStep(p) ==
  \/ Lookup(p) \/ Claimed(p) \/ WaitCancelled(p) \/ Begin(p) \/ Return(p)

Kinds == {"new", "load", "close", "delete", "cancel", "config", "prompt"}

Next ==
  \/ \E k \in Kinds, s \in Sessions : Send(k, s)
  \/ Handler
  \/ \E p \in Prompts :
       TaskStep(p) \/ \E o \in {"completed", "failed", "cancelled"} : Finish(p, o)

\* The runtime polls every task; a model may never answer, a cancelled turn
\* ends.
Fairness ==
  /\ WF_vars(Handler)
  /\ \A p \in Prompts : WF_vars(TaskStep(p)) /\ WF_vars(Finish(p, "cancelled"))

Spec == Init /\ [][Next]_vars
FairSpec == Spec /\ Fairness

-----------------------------------------------------------------------------
(* Properties.                                                             *)

\* The server refers to the session it says is active, which is stored.
TypeOK ==
  /\ active # NoSession => active.s \in stored /\ "server" \in inst[active.s].holders
  /\ stored \subseteq used /\ used \subseteq Sessions
  /\ active \in [s : Sessions, mode : {"executable", "history"}] \cup {NoSession}
  /\ \A s \in Sessions : inst[s].holders \subseteq Prompts \cup {"server"}
  /\ \A p \in Prompts : task[p].pc \in {"none", "spawned", "waiting", "claimed", "running", "ended"}

\* A turn or a configuration change runs only in the active, executable
\* session: once a close is answered nothing of that session runs, however
\* late the task of one of its prompts comes, and history mode executes
\* nothing.
WorkIsActive == \A s \in Sessions : inst[s].activity # "idle" => Executable(s)

\* The session a client was given takes its prompts: never an instance that
\* an earlier close has shut.
ActiveAccepts ==
  \A s \in Sessions : Executable(s) /\ cur # "closing" => inst[s].accepting

\* A session's data is never deleted while anything in the process still
\* refers to it, the task of a late prompt included.
DeletedUnheld ==
  \A s \in stored \ stored' : inst[s].holders = {}

\* A close is answered and a cancelled turn ends, also when the model never
\* answers.
CloseReturns == cur # "closing"
CancelEnds(p) == ~task[p].token

\* What the runs check of the server in one state.
AcpSafe == TypeOK /\ WorkIsActive /\ ActiveAccepts

-----------------------------------------------------------------------------
(* Proofs.  The holders of an instance are the server, while the session is *)
(* active, and the tasks that found it; its activity is the running task or *)
(* the configuration change being made; and it accepts work exactly while   *)
(* it is the active executable session and no close waits for it.           *)

Places == {"none", "spawned", "waiting", "claimed", "running", "ended"}
Joined == {"waiting", "claimed", "running", "ended"}
Instances == [holders : SUBSET (Prompts \cup {"server"}), accepting : BOOLEAN,
              activity : Prompts \cup {"idle", "config"}, history : BOOLEAN]
Tasks == [pc : Places, s : Sessions \cup {"none"}, token : BOOLEAN,
          outcome : {"none", "completed", "failed", "cancelled"}]

Types ==
  /\ stored \subseteq used /\ used \subseteq Sessions
  /\ inst \in [Sessions -> Instances] /\ task \in [Prompts -> Tasks]
  /\ active \in [s : Sessions, mode : {"executable", "history"}] \cup {NoSession}
  /\ inbox \in Seq([k : Kinds, s : Sessions])
  /\ cur \in {"none", "closing", "configuring"}
  /\ \A p \in Prompts : task[p].pc # "none" => task[p].s \in Sessions

\* The request that waits is still the first, for the active session.
Waits ==
  /\ cur # "none" => inbox # <<>> /\ Executable(Asked)
  /\ active # NoSession => active.s \in stored

\* Who refers to an instance, and what it does, session by session.
Referred(s) ==
  /\ "server" \in inst[s].holders <=> IsActive(s)
  /\ \A p \in Prompts : p \in inst[s].holders <=> task[p].s = s /\ task[p].pc \in Joined
  /\ inst[s].holders # {} => s \in used
Busy(s) ==
  /\ \A p \in Prompts : inst[s].activity = p <=> task[p].s = s /\ task[p].pc = "running"
  /\ inst[s].activity = "config" <=> cur = "configuring" /\ Asked = s
  /\ inst[s].activity # "idle" => Executable(s)
Accepts(s) == inst[s].accepting <=> Executable(s) /\ cur # "closing"

AcpInv == /\ Types /\ Waits
          /\ \A s \in Sessions : Referred(s) /\ Busy(s) /\ Accepts(s)

LEMMA NamesDiffer == ASSUME AcpAssumption
                     PROVE  "none" \notin Sessions /\ \A p \in Prompts : p # "server" /\ p # "config" /\ p # "idle"
  BY DEF AcpAssumption

\* A request that joins the inbox leaves the first one first.
LEMMA InboxGrows ==
    ASSUME Types, NEW m \in [k : Kinds, s : Sessions], inbox # <<>>
    PROVE  Head(Append(inbox, m)) = Head(inbox) /\ Append(inbox, m) # <<>>
  BY DEF Types

LEMMA AskedIsSession == ASSUME Types, inbox # <<>> PROVE Asked \in Sessions /\ Tail(inbox) \in Seq([k : Kinds, s : Sessions])
  <1>1. Head(inbox) \in [k : Kinds, s : Sessions] /\ Tail(inbox) \in Seq([k : Kinds, s : Sessions])
    BY HeadTailProperties DEF Types
  <1> QED BY <1>1 DEF Asked

LEMMA InitAcp == ASSUME AcpAssumption, Init PROVE AcpInv
  <1>1. Types /\ Waits
    BY NamesDiffer DEF Init, Types, Waits, NoInstance, NoTask, Instances, Tasks, Places, AcpAssumption, NoSession, Executable, IsActive
  <1>2. \A s \in Sessions : Referred(s) /\ Busy(s) /\ Accepts(s)
    BY NamesDiffer DEF Init, Referred, Busy, Accepts, NoInstance, NoTask, NoSession, IsActive, Executable, Joined
  <1> QED BY <1>1, <1>2 DEF AcpInv

LEMMA SendKeeps == ASSUME AcpInv, NEW k \in Kinds, NEW s \in Sessions, Send(k, s) PROVE AcpInv'
  <1>1. UNCHANGED <<stored, used, inst, active, cur, task, reply>> /\ inbox' = Append(inbox, [k |-> k, s |-> s])
    BY DEF Send
  <1>2. Types'
    BY <1>1 DEF AcpInv, Types
  <1>3. inbox # <<>> => inbox' # <<>> /\ Asked' = Asked
    BY <1>1, InboxGrows DEF AcpInv, Asked
  <1>4. Waits'
    BY <1>1, <1>3 DEF AcpInv, Waits, Executable, IsActive
  <1>5. \A x \in Sessions : Referred(x)' /\ Busy(x)' /\ Accepts(x)'
    BY <1>1, <1>3 DEF AcpInv, Waits, Referred, Busy, Accepts, Executable, IsActive
  <1> QED BY <1>2, <1>4, <1>5 DEF AcpInv

\* A handler that only answers.
LEMMA RefusedKeeps ==
    ASSUME AcpInv, cur = "none", inbox # <<>>, inbox' = Tail(inbox), UNCHANGED <<stored, used, inst, active, cur, task>>
    PROVE  AcpInv'
  <1>1. Types'
    BY AskedIsSession DEF AcpInv, Types
  <1>2. Waits'
    BY DEF AcpInv, Waits
  <1>3. \A s \in Sessions : Referred(s)' /\ Busy(s)' /\ Accepts(s)'
    BY DEF AcpInv, Referred, Busy, Accepts, Executable, IsActive
  <1> QED BY <1>1, <1>2, <1>3 DEF AcpInv

\* A handler that makes s active with a new instance of it, which nobody referred to.
LEMMA OpenKeeps ==
    ASSUME AcpAssumption, AcpInv, cur = "none", inbox # <<>>, inbox' = Tail(inbox), active = NoSession,
           NEW s \in Sessions, inst[s].holders = {}, NEW history \in BOOLEAN,
           inst' = [inst EXCEPT ![s] = Opened({"server"}, history)],
           active' = [s |-> s, mode |-> IF history THEN "history" ELSE "executable"],
           stored \subseteq stored', s \in stored', stored' \subseteq used', used \subseteq used', used' \subseteq Sessions,
           UNCHANGED <<cur, task>>
    PROVE  AcpInv'
  <1> DEFINE o == Opened({"server"}, history)
  <1>1. /\ o \in Instances /\ o.holders = {"server"} /\ o.activity = "idle" /\ o.accepting = ~history
        /\ inst'[s] = o /\ \A x \in Sessions : x # s => inst'[x] = inst[x]
    BY DEF Opened, Instances, AcpInv, Types
  <1>2. Types'
    BY <1>1, AskedIsSession DEF AcpInv, Types
  <1>3. Waits'
    BY DEF AcpInv, Waits, NoSession
  <1>4. ASSUME NEW x \in Sessions PROVE ~IsActive(x) /\ (IsActive(x)' <=> x = s) /\ (Executable(x)' <=> x = s /\ ~history)
    BY NamesDiffer DEF IsActive, Executable, NoSession
  <1>5. ASSUME NEW x \in Sessions PROVE Referred(x)' /\ Busy(x)' /\ Accepts(x)'
    <2>1. Referred(x) /\ Busy(x) /\ Accepts(x) /\ Referred(s) /\ Busy(s)
      BY DEF AcpInv
    <2>2. CASE x # s
      BY <1>1, <1>4, <2>1, <2>2 DEF Referred, Busy, Accepts, Executable
    <2>3. CASE x = s
      <3>1. \A p \in Prompts : p # "server" /\ p # "idle" /\ ~(task[p].s = s /\ task[p].pc \in Joined)
        BY <2>1, NamesDiffer DEF Referred
      <3>2. Referred(s)'
        BY <1>1, <1>4, <3>1 DEF Referred
      <3>3. Busy(s)'
        BY <1>1, <1>4, <3>1 DEF Busy, Joined
      <3>4. Accepts(s)'
        BY <1>1, <1>4 DEF Accepts
      <3> QED BY <2>3, <3>2, <3>3, <3>4
    <2> QED BY <2>2, <2>3
  <1> QED BY <1>2, <1>3, <1>5 DEF AcpInv

LEMMA CreateKeeps == ASSUME AcpAssumption, AcpInv, CreateSession PROVE AcpInv'
  <1>1. cur = "none" /\ inbox # <<>> /\ inbox' = Tail(inbox) /\ UNCHANGED <<cur, task>>
    BY DEF CreateSession, Handling, Fails, Handled
  <1>2. CASE UNCHANGED <<stored, used, inst, active>>
    BY <1>1, <1>2, RefusedKeeps
  <1>3. CASE ~UNCHANGED <<stored, used, inst, active>>
    <2>1. PICK s \in Sessions \ used :
             /\ stored' = stored \cup {s} /\ used' = used \cup {s} /\ active = NoSession
             /\ inst' = [inst EXCEPT ![s] = Opened({"server"}, FALSE)]
             /\ active' = [s |-> s, mode |-> "executable"]
      BY <1>3 DEF CreateSession, Fails
    <2>2. inst[s].holders = {}
      BY DEF AcpInv, Referred
    <2>3. stored' \subseteq used' /\ used' \subseteq Sessions
      BY <2>1 DEF AcpInv, Types
    <2> QED BY <1>1, <2>1, <2>2, <2>3, OpenKeeps
  <1> QED BY <1>2, <1>3

LEMMA LoadKeeps == ASSUME AcpAssumption, AcpInv, LoadSession PROVE AcpInv'
  <1>1. cur = "none" /\ inbox # <<>> /\ inbox' = Tail(inbox) /\ UNCHANGED <<stored, used, cur, task>>
    BY DEF LoadSession, Handling, Fails, Handled
  <1>2. CASE UNCHANGED <<inst, active>>
    BY <1>1, <1>2, RefusedKeeps
  <1>3. CASE ~UNCHANGED <<inst, active>>
    <2>1. active = NoSession /\ Asked \in stored /\ (LoadExecutable(Asked) \/ InspectSession(Asked))
      BY <1>3 DEF LoadSession, Fails
    <2>2. Asked \in Sessions /\ stored \subseteq used /\ used \subseteq Sessions
      BY <1>1, AskedIsSession DEF AcpInv, Types
    <2>3. ~OpenIn(Asked)
      BY <2>1, <2>2, NamesDiffer DEF OpenIn, AcpInv, Accepts, Executable, IsActive, NoSession
    <2>4. inst[Asked].holders = {}
      BY <2>1, <2>3 DEF LoadExecutable, InspectSession, OpenElsewhere
    <2>5. CASE LoadExecutable(Asked)
      <3>1. inst' = [inst EXCEPT ![Asked] = Opened({"server"}, FALSE)] /\ active' = [s |-> Asked, mode |-> "executable"]
        BY <2>3, <2>5 DEF LoadExecutable
      <3> QED BY <1>1, <2>1, <2>2, <2>4, <3>1, OpenKeeps
    <2>6. CASE InspectSession(Asked)
      <3>1. inst' = [inst EXCEPT ![Asked] = Opened({"server"}, TRUE)] /\ active' = [s |-> Asked, mode |-> "history"]
        BY <2>6 DEF InspectSession
      <3> QED BY <1>1, <2>1, <2>2, <2>4, <3>1, OpenKeeps
    <2> QED BY <2>1, <2>5, <2>6
  <1> QED BY <1>2, <1>3

LEMMA ReleaseType ==
    ASSUME Types, NEW s \in Sessions, NEW who
    PROVE  Release(s, who) \in [Sessions -> Instances] /\ \A x \in Sessions : x # s => Release(s, who)[x] = inst[x]
  <1> DEFINE left == inst[s].holders \ {who}
             e == IF left = {} THEN NoInstance ELSE [inst[s] EXCEPT !.holders = left]
  <1>1. inst \in [Sessions -> Instances] /\ inst[s] \in Instances
    BY DEF Types
  <1>2. e \in Instances
    BY <1>1 DEF NoInstance, Instances
  <1>3. Release(s, who) = [inst EXCEPT ![s] = e]
    BY DEF Release
  <1> HIDE DEF e
  <1> QED BY <1>1, <1>2, <1>3

\* One referrer goes; the last one takes the instance along.
LEMMA ReleaseFacts ==
    ASSUME AcpAssumption, Types, NEW s \in Sessions, NEW who
    PROVE  /\ Release(s, who)[s].holders = inst[s].holders \ {who}
           /\ Release(s, who)[s].activity \in {inst[s].activity, "idle"}
           /\ Release(s, who)[s].accepting \in {inst[s].accepting, FALSE}
           /\ inst[s].holders \ {who} # {} => /\ Release(s, who)[s].activity = inst[s].activity
                                              /\ Release(s, who)[s].accepting = inst[s].accepting
  <1> DEFINE left == inst[s].holders \ {who}
             e == IF left = {} THEN NoInstance ELSE [inst[s] EXCEPT !.holders = left]
  <1>1. inst \in [Sessions -> Instances] /\ inst[s] \in Instances
    BY DEF Types
  <1>2. /\ e \in Instances /\ e.holders = left
        /\ e.activity \in {inst[s].activity, "idle"} /\ e.accepting \in {inst[s].accepting, FALSE}
        /\ left # {} => e.activity = inst[s].activity /\ e.accepting = inst[s].accepting
    BY <1>1 DEF NoInstance, Instances
  <1>3. Release(s, who) = [inst EXCEPT ![s] = e]
    BY DEF Release
  <1> QED BY <1>1, <1>2, <1>3

\* The server lets an idle session go that takes no more work.
LEMMA ServerLeaves ==
    ASSUME AcpAssumption, AcpInv, cur \in {"none", "closing"}, inbox # <<>>, IsActive(Asked),
           inst[Asked].activity = "idle", ~inst[Asked].accepting,
           inst' = Release(Asked, "server"), active' = NoSession, cur' = "none", inbox' = Tail(inbox),
           UNCHANGED <<stored, used, task>>
    PROVE  AcpInv'
  <1> DEFINE a == Asked
  <1>1. Types /\ a \in Sessions /\ Tail(inbox) \in Seq([k : Kinds, s : Sessions])
    BY AskedIsSession DEF AcpInv
  <1>2. /\ inst' \in [Sessions -> Instances] /\ \A x \in Sessions : x # a => inst'[x] = inst[x]
        /\ inst'[a].holders = inst[a].holders \ {"server"} /\ inst'[a].activity = "idle" /\ ~inst'[a].accepting
    <2>1. inst' = Release(a, "server")
      OBVIOUS
    <2>2. inst[a].activity = "idle" /\ ~inst[a].accepting
      OBVIOUS
    <2> HIDE DEF a
    <2>3. Release(a, "server") \in [Sessions -> Instances] /\ \A x \in Sessions : x # a => Release(a, "server")[x] = inst[x]
      BY <1>1, ReleaseType, Zenon
    <2>4. Release(a, "server")[a].holders = inst[a].holders \ {"server"}
      BY AcpAssumption, <1>1, ReleaseFacts
    <2>5. Release(a, "server")[a].activity \in {inst[a].activity, "idle"}
      BY AcpAssumption, <1>1, ReleaseFacts
    <2>6. Release(a, "server")[a].accepting \in {inst[a].accepting, FALSE}
      BY AcpAssumption, <1>1, ReleaseFacts
    <2>7. Release(a, "server")[a].activity = "idle" /\ ~Release(a, "server")[a].accepting
      BY <2>2, <2>5, <2>6, Zenon
    <2> QED BY <2>1, <2>3, <2>4, <2>7, Zenon
  <1>3. Types' /\ Waits'
    BY <1>1, <1>2 DEF Types, Waits
  <1>4. ASSUME NEW x \in Sessions PROVE (IsActive(x) <=> x = a) /\ ~IsActive(x)' /\ ~Executable(x)'
    BY NamesDiffer DEF IsActive, Executable, NoSession
  <1>5. ASSUME NEW x \in Sessions PROVE Referred(x)' /\ Busy(x)' /\ Accepts(x)'
    <2>1. Referred(x) /\ Busy(x) /\ Accepts(x)
      BY DEF AcpInv
    <2>2. inst[x].activity = "idle" /\ inst'[x].activity = "idle"
      BY <1>2, <1>4, <2>1 DEF Busy, Executable
    <2>3. Referred(x)'
      BY <1>2, <1>4, <2>1, NamesDiffer DEF Referred
    <2>4. Busy(x)'
      BY <1>4, <2>1, <2>2 DEF Busy
    <2>5. Accepts(x)'
      BY <1>2, <1>4, <2>1 DEF Accepts, Executable
    <2> QED BY <2>3, <2>4, <2>5
  <1> QED BY <1>3, <1>5 DEF AcpInv

\* A task that does not run lets its session go.
LEMMA TaskLeaves ==
    ASSUME AcpAssumption, AcpInv, NEW p \in Prompts, task[p].pc \in {"waiting", "claimed", "ended"}, Leave(p), Server
    PROVE  AcpInv'
  <1> DEFINE s == task[p].s
  <1>1. Types /\ s \in Sessions /\ UNCHANGED <<stored, used, active, inbox, cur, reply>>
    BY DEF AcpInv, Types, Server
  <1>2. /\ inst' \in [Sessions -> Instances] /\ \A x \in Sessions : x # s => inst'[x] = inst[x]
        /\ inst'[s].holders = inst[s].holders \ {p}
        /\ inst'[s].activity \in {inst[s].activity, "idle"} /\ inst'[s].accepting \in {inst[s].accepting, FALSE}
        /\ inst'[s].holders # {} => inst'[s].activity = inst[s].activity /\ inst'[s].accepting = inst[s].accepting
    <2>1. inst' = Release(s, p)
      BY DEF Leave
    <2> HIDE DEF s
    <2>2. Release(s, p) \in [Sessions -> Instances] /\ \A x \in Sessions : x # s => Release(s, p)[x] = inst[x]
      BY <1>1, ReleaseType, Zenon
    <2>3. Release(s, p)[s].holders = inst[s].holders \ {p}
      BY AcpAssumption, <1>1, ReleaseFacts
    <2>4. Release(s, p)[s].activity \in {inst[s].activity, "idle"}
      BY AcpAssumption, <1>1, ReleaseFacts
    <2>5. Release(s, p)[s].accepting \in {inst[s].accepting, FALSE}
      BY AcpAssumption, <1>1, ReleaseFacts
    <2>6. inst[s].holders \ {p} # {} => Release(s, p)[s].activity = inst[s].activity
      BY AcpAssumption, <1>1, ReleaseFacts
    <2>7. inst[s].holders \ {p} # {} => Release(s, p)[s].accepting = inst[s].accepting
      BY AcpAssumption, <1>1, ReleaseFacts
    <2> QED BY <2>1, <2>2, <2>3, <2>4, <2>5, <2>6, <2>7, Zenon
  <1>3. task'[p].pc = "none" /\ task' \in [Prompts -> Tasks] /\ \A q \in Prompts : q # p => task'[q] = task[q]
    BY <1>1 DEF Leave, NoTask, Types, Tasks, Places
  <1>4. Types' /\ Waits'
    BY <1>1, <1>2, <1>3 DEF AcpInv, Types, Waits, Executable, IsActive, Asked
  <1>5. Referred(s) /\ Busy(s) /\ Accepts(s)
    BY <1>1 DEF AcpInv
  <1>6. inst[s].activity # "idle" \/ inst[s].accepting => "server" \in inst'[s].holders
    BY <1>2, <1>5, NamesDiffer DEF Referred, Busy, Accepts, Executable
  <1>7. inst'[s].activity = inst[s].activity /\ inst'[s].accepting = inst[s].accepting
    <2>1. inst[s].accepting \in BOOLEAN
      BY <1>1 DEF Types, Instances
    <2> QED BY <1>2, <1>6, <2>1
  <1>8. ASSUME NEW x \in Sessions PROVE Referred(x)' /\ Busy(x)' /\ Accepts(x)'
    <2>1. Referred(x) /\ Busy(x) /\ Accepts(x) /\ (Executable(x)' <=> Executable(x)) /\ (IsActive(x)' <=> IsActive(x)) /\ Asked' = Asked
      BY <1>1 DEF AcpInv, Executable, IsActive, Asked
    <2>2. Referred(x)'
      BY <1>1, <1>2, <1>3, <2>1, NamesDiffer DEF Referred, Joined
    <2>3. Busy(x)'
      BY <1>1, <1>2, <1>3, <1>7, <2>1 DEF Busy
    <2>4. Accepts(x)'
      BY <1>1, <1>2, <1>7, <2>1 DEF Accepts
    <2> QED BY <2>2, <2>3, <2>4
  <1> QED BY <1>4, <1>8 DEF AcpInv

LEMMA SignalFacts ==
    ASSUME Types, NEW S, task' = Signalled(S)
    PROVE  task' \in [Prompts -> Tasks] /\ \A p \in Prompts : task'[p].pc = task[p].pc /\ task'[p].s = task[p].s
  <1>1. \A p \in Prompts : task[p] \in Tasks
    BY DEF Types
  <1>2. \A p \in Prompts : [task[p] EXCEPT !.token = TRUE] \in Tasks
    BY <1>1 DEF Tasks
  <1>3. task' \in [Prompts -> Tasks]
    BY <1>1, <1>2 DEF Signalled
  <1>4. \A p \in Prompts : task'[p].pc = task[p].pc /\ task'[p].s = task[p].s
    BY <1>1 DEF Signalled, Tasks
  <1> QED BY <1>3, <1>4

LEMMA ShutFacts ==
    ASSUME Types, NEW s \in Sessions, inst' = [inst EXCEPT ![s].accepting = FALSE]
    PROVE  /\ inst' \in [Sessions -> Instances] /\ ~inst'[s].accepting
           /\ \A x \in Sessions : inst'[x].holders = inst[x].holders /\ inst'[x].activity = inst[x].activity
           /\ \A x \in Sessions : x # s => inst'[x] = inst[x]
  <1> DEFINE e == [inst[s] EXCEPT !.accepting = FALSE]
  <1>1. inst \in [Sessions -> Instances] /\ inst[s] \in Instances /\ inst' = [inst EXCEPT ![s] = e]
    BY DEF Types
  <1>2. e \in Instances /\ e.accepting = FALSE /\ e.holders = inst[s].holders /\ e.activity = inst[s].activity
    BY <1>1 DEF Instances
  <1> HIDE DEF e
  <1>3. inst' \in [Sessions -> Instances] /\ inst'[s] = e /\ \A x \in Sessions : x # s => inst'[x] = inst[x]
    BY <1>1, <1>2
  <1>4. ~inst'[s].accepting
    BY <1>2, <1>3, Zenon
  <1> QED BY <1>2, <1>3, <1>4

LEMMA CloseKeeps == ASSUME AcpAssumption, AcpInv, CloseSession PROVE AcpInv'
  <1> DEFINE a == Asked
  <1>1. cur = "none" /\ inbox # <<>> /\ Types /\ a \in Sessions /\ Referred(a) /\ Busy(a) /\ Accepts(a)
    BY AskedIsSession DEF CloseSession, Handling, AcpInv
  <1>2. CASE Fails("close", "unloaded")
    BY <1>1, <1>2, RefusedKeeps DEF Fails, Handled
  <1>3. CASE /\ IsActive(a) /\ ~Executable(a)
             /\ inst' = Release(a, "server") /\ active' = NoSession
             /\ Handled("close", "ok") /\ UNCHANGED <<stored, used, cur, task>>
    <2>1. inst[a].activity = "idle" /\ ~inst[a].accepting
      BY <1>1, <1>3 DEF Busy, Accepts
    <2> QED BY <1>1, <1>3, <2>1, ServerLeaves DEF Handled
  <1>4. CASE /\ Executable(a)
             /\ inst' = [inst EXCEPT ![a].accepting = FALSE]
             /\ task' = Signalled({p \in Prompts : inst[a].activity = p})
             /\ cur' = "closing"
             /\ UNCHANGED <<stored, used, active, inbox, reply>>
    <2>1. /\ inst' \in [Sessions -> Instances] /\ ~inst'[a].accepting
          /\ \A x \in Sessions : inst'[x].holders = inst[x].holders /\ inst'[x].activity = inst[x].activity
          /\ \A x \in Sessions : x # a => inst'[x] = inst[x]
      BY <1>1, <1>4, ShutFacts
    <2>2. task' \in [Prompts -> Tasks] /\ \A p \in Prompts : task'[p].pc = task[p].pc /\ task'[p].s = task[p].s
      BY <1>1, <1>4, SignalFacts
    <2>3. Types' /\ Waits'
      BY <1>1, <1>4, <2>1, <2>2 DEF AcpInv, Types, Waits, Executable, IsActive, Asked
    <2>4. ASSUME NEW x \in Sessions PROVE Referred(x)' /\ Busy(x)' /\ Accepts(x)'
      <3>1. Referred(x) /\ Busy(x) /\ Accepts(x) /\ (Executable(x)' <=> Executable(x)) /\ (IsActive(x)' <=> IsActive(x)) /\ (Executable(x) => x = a)
        BY <1>4 DEF AcpInv, Executable, IsActive
      <3>2. Referred(x)'
        BY <1>4, <2>1, <2>2, <3>1 DEF Referred
      <3>3. Busy(x)'
        BY <1>1, <1>4, <2>1, <2>2, <3>1 DEF Busy
      <3>4. Accepts(x)'
        BY <1>1, <1>4, <2>1, <3>1 DEF Accepts
      <3> QED BY <3>2, <3>3, <3>4
    <2> QED BY <2>3, <2>4 DEF AcpInv
  <1> QED BY <1>2, <1>3, <1>4 DEF CloseSession

LEMMA CloseIdleKeeps == ASSUME AcpAssumption, AcpInv, CloseIdle PROVE AcpInv'
  <1>1. inbox # <<>> /\ Executable(Asked) /\ cur = "closing"
    BY DEF CloseIdle, AcpInv, Waits
  <1>2. Asked \in Sessions
    BY <1>1, AskedIsSession DEF AcpInv
  <1>3. ~inst[Asked].accepting /\ IsActive(Asked)
    BY <1>1, <1>2 DEF AcpInv, Accepts, Executable
  <1> QED BY <1>1, <1>3, ServerLeaves DEF CloseIdle, Handled

LEMMA DeleteKeeps == ASSUME AcpInv, DeleteSession PROVE AcpInv' /\ DeletedUnheld
  <1>1. cur = "none" /\ inbox # <<>> /\ inbox' = Tail(inbox) /\ UNCHANGED <<used, inst, active, cur, task>>
    BY DEF DeleteSession, Handling, Fails, Handled
  <1>2. CASE stored' = stored
    BY <1>1, <1>2, RefusedKeeps DEF DeletedUnheld
  <1>3. CASE stored' # stored
    <2>1. stored' = stored \ {Asked} /\ Asked \in stored /\ ~IsActive(Asked) /\ inst[Asked].holders = {}
      BY <1>3 DEF DeleteSession, Fails, OpenElsewhere
    <2>2. Types'
      BY <1>1, <2>1, AskedIsSession DEF AcpInv, Types
    <2>3. Waits'
      BY <1>1, <2>1 DEF AcpInv, Waits, IsActive
    <2>4. \A s \in Sessions : Referred(s)' /\ Busy(s)' /\ Accepts(s)'
      BY <1>1 DEF AcpInv, Referred, Busy, Accepts, Executable, IsActive
    <2> QED BY <2>1, <2>2, <2>3, <2>4 DEF AcpInv, DeletedUnheld
  <1> QED BY <1>2, <1>3

LEMMA CancelKeeps == ASSUME AcpInv, Cancel PROVE AcpInv'
  <1>1. cur = "none" /\ inbox # <<>> /\ inbox' = Tail(inbox) /\ UNCHANGED <<stored, used, inst, active, cur>> /\ Types
    BY DEF Cancel, Handling, AcpInv
  <1>2. task' \in [Prompts -> Tasks] /\ \A p \in Prompts : task'[p].pc = task[p].pc /\ task'[p].s = task[p].s
    BY <1>1, SignalFacts DEF Cancel
  <1>3. Types' /\ Waits'
    BY <1>1, <1>2, AskedIsSession DEF AcpInv, Types, Waits
  <1>4. \A s \in Sessions : Referred(s)' /\ Busy(s)' /\ Accepts(s)'
    BY <1>1, <1>2 DEF AcpInv, Referred, Busy, Accepts, Executable, IsActive
  <1> QED BY <1>3, <1>4 DEF AcpInv

\* The activity of one session changes, and nothing else of any instance.
LEMMA ActivityFacts ==
    ASSUME Types, NEW s \in Sessions, NEW v \in Prompts \cup {"idle", "config"}, inst' = [inst EXCEPT ![s].activity = v]
    PROVE  /\ inst' \in [Sessions -> Instances] /\ inst'[s].activity = v
           /\ \A x \in Sessions : inst'[x].holders = inst[x].holders /\ inst'[x].accepting = inst[x].accepting
           /\ \A x \in Sessions : x # s => inst'[x] = inst[x]
  BY DEF Types, Instances

LEMMA ConfigKeeps == ASSUME AcpAssumption, AcpInv, SetConfigOption PROVE AcpInv'
  <1> DEFINE a == Asked
  <1>1. cur = "none" /\ inbox # <<>> /\ Types /\ a \in Sessions
    BY AskedIsSession DEF SetConfigOption, Handling, AcpInv
  <1>2. CASE Fails("config", "refused")
    BY <1>1, <1>2, RefusedKeeps DEF Fails, Handled
  <1>3. CASE /\ Executable(a) /\ inst[a].accepting /\ inst[a].activity = "idle"
             /\ inst' = [inst EXCEPT ![a].activity = "config"] /\ cur' = "configuring"
             /\ UNCHANGED <<stored, used, active, inbox, task, reply>>
    <2>1. /\ inst' \in [Sessions -> Instances] /\ inst'[a].activity = "config"
          /\ \A x \in Sessions : inst'[x].holders = inst[x].holders /\ inst'[x].accepting = inst[x].accepting
          /\ \A x \in Sessions : x # a => inst'[x] = inst[x]
      BY <1>1, <1>3, ActivityFacts
    <2>2. Types' /\ Waits'
      BY <1>1, <1>3, <2>1 DEF AcpInv, Types, Waits, Executable, IsActive, Asked
    <2>3. ASSUME NEW x \in Sessions PROVE Referred(x)' /\ Busy(x)' /\ Accepts(x)'
      <3>1. Referred(x) /\ Busy(x) /\ Accepts(x) /\ (Executable(x)' <=> Executable(x)) /\ (IsActive(x)' <=> IsActive(x)) /\ Asked' = a
        BY <1>3 DEF AcpInv, Executable, IsActive, Asked
      <3>2. Referred(x)'
        BY <1>3, <2>1, <3>1 DEF Referred
      <3>3. Busy(x)'
        BY <1>1, <1>3, <2>1, <3>1, NamesDiffer DEF Busy
      <3>4. Accepts(x)'
        BY <1>1, <1>3, <2>1, <3>1 DEF Accepts
      <3> QED BY <3>2, <3>3, <3>4
    <2> QED BY <2>2, <2>3 DEF AcpInv
  <1> QED BY <1>2, <1>3 DEF SetConfigOption

LEMMA ConfiguredKeeps == ASSUME AcpAssumption, AcpInv, NEW r, Configured(r) PROVE AcpInv'
  <1> DEFINE a == Asked
  <1>1. /\ cur = "configuring" /\ cur' = "none" /\ inbox # <<>> /\ Types /\ a \in Sessions /\ Executable(a)
        /\ inbox' = Tail(inbox) /\ UNCHANGED <<stored, used, active, task>> /\ Busy(a)
    BY AskedIsSession DEF Configured, Handled, AcpInv, Waits
  <1>2. /\ inst' \in [Sessions -> Instances] /\ inst'[a].activity = "idle"
        /\ \A x \in Sessions : inst'[x].holders = inst[x].holders /\ inst'[x].accepting = inst[x].accepting
        /\ \A x \in Sessions : x # a => inst'[x] = inst[x]
    BY <1>1, ActivityFacts DEF Configured
  <1>3. Types' /\ Waits'
    BY <1>1, <1>2, AskedIsSession DEF AcpInv, Types, Waits
  <1>4. ASSUME NEW x \in Sessions PROVE Referred(x)' /\ Busy(x)' /\ Accepts(x)'
    <2>1. Referred(x) /\ Busy(x) /\ Accepts(x) /\ (Executable(x)' <=> Executable(x)) /\ (IsActive(x)' <=> IsActive(x))
      BY <1>1 DEF AcpInv, Executable, IsActive
    <2>2. Referred(x)'
      BY <1>1, <1>2, <2>1 DEF Referred
    <2>3. Busy(x)'
      BY <1>1, <1>2, <2>1, NamesDiffer DEF Busy
    <2>4. Accepts(x)'
      BY <1>1, <1>2, <2>1 DEF Accepts
    <2> QED BY <2>2, <2>3, <2>4
  <1> QED BY <1>3, <1>4 DEF AcpInv

\* One task moves, within its session, without starting or ending a turn.
LEMMA SpawnKeeps == ASSUME AcpAssumption, AcpInv, NEW p \in Prompts, SpawnPrompt(p) PROVE AcpInv'
  <1>1. /\ cur = "none" /\ inbox # <<>> /\ Types /\ Asked \in Sessions /\ task[p].pc = "none"
        /\ inbox' = Tail(inbox) /\ UNCHANGED <<stored, used, inst, active, cur>>
    BY AskedIsSession DEF SpawnPrompt, Handling, AcpInv
  <1>2. /\ task' \in [Prompts -> Tasks] /\ task'[p].pc = "spawned" /\ task'[p].s \in Sessions
        /\ \A q \in Prompts : q # p => task'[q] = task[q]
    BY <1>1 DEF SpawnPrompt, NoTask, Types, Tasks, Places
  <1>3. Types' /\ Waits'
    BY <1>1, <1>2, AskedIsSession DEF AcpInv, Types, Waits
  <1>4. \A s \in Sessions : Referred(s)' /\ Busy(s)' /\ Accepts(s)'
    BY <1>1, <1>2 DEF AcpInv, Referred, Busy, Accepts, Executable, IsActive, Joined
  <1> QED BY <1>3, <1>4 DEF AcpInv

LEMMA LookupKeeps == ASSUME AcpAssumption, AcpInv, NEW p \in Prompts, Lookup(p) PROVE AcpInv'
  <1> DEFINE s == task[p].s
  <1>1. Types /\ s \in Sessions /\ task[p].pc = "spawned" /\ UNCHANGED <<stored, used, active, inbox, cur, reply>>
    BY DEF Lookup, AcpInv, Types, Server
  <1>2. ASSUME NEW x \in Sessions
        PROVE  /\ Referred(x) /\ Busy(x) /\ Accepts(x) /\ (Executable(x)' <=> Executable(x))
               /\ (IsActive(x)' <=> IsActive(x)) /\ Asked' = Asked
    BY <1>1 DEF AcpInv, Executable, IsActive, Asked
  <1>3. Waits'
    BY <1>1 DEF AcpInv, Waits, Executable, IsActive, Asked
  <1>4. CASE UNCHANGED inst /\ task' = [task EXCEPT ![p] = NoTask]
    <2>1. task' \in [Prompts -> Tasks] /\ task'[p].pc = "none" /\ \A q \in Prompts : q # p => task'[q] = task[q]
      BY <1>1, <1>4 DEF NoTask, Types, Tasks, Places
    <2>2. Types'
      BY <1>1, <1>4, <2>1 DEF Types
    <2>3. \A x \in Sessions : Referred(x)' /\ Busy(x)' /\ Accepts(x)'
      BY <1>1, <1>2, <1>4, <2>1 DEF Referred, Busy, Accepts, Joined
    <2> QED BY <1>3, <2>2, <2>3 DEF AcpInv
  <1>5. CASE Executable(s) /\ inst' = [inst EXCEPT ![s].holders = @ \cup {p}] /\ Move(p, "waiting")
    <2>1. /\ task' \in [Prompts -> Tasks] /\ task'[p].pc = "waiting" /\ task'[p].s = s
          /\ \A q \in Prompts : q # p => task'[q] = task[q]
      BY <1>1, <1>5 DEF Move, Types, Tasks, Places
    <2>2. /\ inst' \in [Sessions -> Instances] /\ inst'[s].holders = inst[s].holders \cup {p}
          /\ \A x \in Sessions : inst'[x].activity = inst[x].activity /\ inst'[x].accepting = inst[x].accepting
          /\ \A x \in Sessions : x # s => inst'[x] = inst[x]
      <3>1. s \in Sessions /\ inst' = [inst EXCEPT ![s].holders = @ \cup {p}]
        BY <1>1, <1>5
      <3> HIDE DEF s
      <3> QED BY <1>1, <3>1 DEF Types, Instances
    <2>3. Types'
      BY <1>1, <2>1, <2>2 DEF Types
    <2>4. s \in used
      BY <1>1, <1>2, <1>5 DEF Referred, Executable
    <2>5. ASSUME NEW x \in Sessions PROVE Referred(x)' /\ Busy(x)' /\ Accepts(x)'
      <3>1. Referred(x)'
        BY <1>1, <1>2, <2>1, <2>2, <2>4, NamesDiffer DEF Referred, Joined
      <3>2. Busy(x)'
        BY <1>1, <1>2, <2>1, <2>2 DEF Busy
      <3>3. Accepts(x)'
        BY <1>1, <1>2, <2>2 DEF Accepts
      <3> QED BY <3>1, <3>2, <3>3
    <2> QED BY <1>3, <2>3, <2>5 DEF AcpInv
  <1> QED BY <1>4, <1>5 DEF Lookup

\* A task moves inside its session and may take or give back its activity.
LEMMA TaskMoves ==
    ASSUME AcpAssumption, AcpInv, NEW p \in Prompts, task[p].pc \in Joined, Server,
           task' \in [Prompts -> Tasks], task'[p].s = task[p].s, task'[p].pc \in Joined,
           \A q \in Prompts : q # p => task'[q] = task[q],
           inst' \in [Sessions -> Instances],
           \A x \in Sessions : inst'[x].holders = inst[x].holders /\ inst'[x].accepting = inst[x].accepting,
           \A x \in Sessions : x # task[p].s => inst'[x] = inst[x],
           Busy(task[p].s)'
    PROVE  AcpInv'
  <1>1. Types /\ UNCHANGED <<stored, used, active, inbox, cur, reply>> /\ task[p].s \in Sessions
    BY DEF AcpInv, Types, Server, Joined
  <1>2. Types' /\ Waits'
    BY <1>1 DEF AcpInv, Types, Waits, Executable, IsActive, Asked
  <1>3. ASSUME NEW x \in Sessions PROVE Referred(x)' /\ Busy(x)' /\ Accepts(x)'
    <2>1. Referred(x) /\ Busy(x) /\ Accepts(x) /\ (Executable(x)' <=> Executable(x)) /\ (IsActive(x)' <=> IsActive(x)) /\ Asked' = Asked
      BY <1>1 DEF AcpInv, Executable, IsActive, Asked
    <2>2. Referred(x)'
      BY <1>1, <2>1 DEF Referred
    <2>3. Busy(x)'
      BY <1>1, <2>1 DEF Busy
    <2>4. Accepts(x)'
      BY <1>1, <2>1 DEF Accepts
    <2> QED BY <2>2, <2>3, <2>4
  <1> QED BY <1>2, <1>3 DEF AcpInv

LEMMA ClaimedKeeps == ASSUME AcpAssumption, AcpInv, NEW p \in Prompts, Claimed(p) PROVE AcpInv'
  <1>1. Types /\ task[p].pc = "waiting" /\ UNCHANGED inst /\ Server /\ task[p].s \in Sessions /\ Busy(task[p].s)
    BY DEF Claimed, AcpInv, Types
  <1>2. /\ task' \in [Prompts -> Tasks] /\ task'[p].pc = "claimed" /\ task'[p].s = task[p].s
        /\ \A q \in Prompts : q # p => task'[q] = task[q]
    BY <1>1 DEF Claimed, Move, Types, Tasks, Places
  <1>3. Busy(task[p].s)'
    BY <1>1, <1>2 DEF Busy, Server, Executable, IsActive, Asked
  <1> QED BY <1>1, <1>2, <1>3, TaskMoves DEF Types, Joined

LEMMA BeginKeeps == ASSUME AcpAssumption, AcpInv, NEW p \in Prompts, Begin(p) PROVE AcpInv'
  <1> DEFINE s == task[p].s
  <1>1. Types /\ task[p].pc = "claimed" /\ Server /\ s \in Sessions /\ Busy(s) /\ Accepts(s)
    BY DEF Begin, AcpInv, Types
  <1>2. CASE Leave(p)
    BY <1>1, <1>2, TaskLeaves
  <1>3. CASE inst[s].accepting /\ inst[s].activity = "idle" /\ inst' = [inst EXCEPT ![s].activity = p] /\ Move(p, "running")
    <2>1. /\ task' \in [Prompts -> Tasks] /\ task'[p].pc = "running" /\ task'[p].s = s
          /\ \A q \in Prompts : q # p => task'[q] = task[q]
      BY <1>1, <1>3 DEF Move, Types, Tasks, Places
    <2>2. /\ inst' \in [Sessions -> Instances] /\ inst'[s].activity = p
          /\ \A x \in Sessions : inst'[x].holders = inst[x].holders /\ inst'[x].accepting = inst[x].accepting
          /\ \A x \in Sessions : x # s => inst'[x] = inst[x]
      BY <1>1, <1>3, ActivityFacts
    <2>3. Executable(s) /\ Executable(s)' /\ Asked' = Asked /\ cur' = cur
      BY <1>1, <1>3, <2>1 DEF Accepts, Server, Executable, IsActive, Asked
    <2>4. Busy(s)'
      BY <1>1, <1>3, <2>1, <2>2, <2>3, NamesDiffer DEF Busy
    <2> QED BY <1>1, <2>1, <2>2, <2>4, TaskMoves DEF Joined
  <1> QED BY <1>2, <1>3 DEF Begin

LEMMA FinishKeeps ==
    ASSUME AcpAssumption, AcpInv, NEW p \in Prompts, NEW o \in {"completed", "failed", "cancelled"}, Finish(p, o)
    PROVE  AcpInv'
  <1> DEFINE s == task[p].s
  <1>1. Types /\ task[p].pc = "running" /\ Server /\ s \in Sessions /\ Busy(s)
    BY DEF Finish, AcpInv, Types
  <1>2. /\ task' \in [Prompts -> Tasks] /\ task'[p].pc = "ended" /\ task'[p].s = s
        /\ \A q \in Prompts : q # p => task'[q] = task[q]
    BY <1>1 DEF Finish, Types, Tasks, Places
  <1>3. /\ inst' \in [Sessions -> Instances] /\ inst'[s].activity = "idle"
        /\ \A x \in Sessions : inst'[x].holders = inst[x].holders /\ inst'[x].accepting = inst[x].accepting
        /\ \A x \in Sessions : x # s => inst'[x] = inst[x]
    BY <1>1, ActivityFacts DEF Finish
  <1>4. Busy(s)'
    BY <1>1, <1>2, <1>3, NamesDiffer DEF Busy, Server, Asked
  <1> QED BY <1>1, <1>2, <1>3, <1>4, TaskMoves DEF Joined

LEMMA NextAcp == ASSUME AcpAssumption, AcpInv, [Next]_vars PROVE AcpInv' /\ DeletedUnheld
  <1>1. ASSUME NEW k \in Kinds, NEW s \in Sessions, Send(k, s) PROVE AcpInv' /\ stored' = stored
    BY <1>1, SendKeeps DEF Send
  <1>2. CASE CreateSession
    BY <1>2, CreateKeeps DEF CreateSession, Fails, DeletedUnheld
  <1>3. CASE LoadSession
    BY <1>3, LoadKeeps DEF LoadSession, Fails, DeletedUnheld
  <1>4. CASE CloseSession
    BY <1>4, CloseKeeps DEF CloseSession, Fails, DeletedUnheld
  <1>5. CASE CloseIdle
    BY <1>5, CloseIdleKeeps DEF CloseIdle, DeletedUnheld
  <1>6. CASE DeleteSession
    BY <1>6, DeleteKeeps
  <1>7. CASE Cancel
    BY <1>7, CancelKeeps DEF Cancel, DeletedUnheld
  <1>8. CASE SetConfigOption
    BY <1>8, ConfigKeeps DEF SetConfigOption, Fails, DeletedUnheld
  <1>9. ASSUME NEW r, Configured(r) PROVE AcpInv' /\ stored' = stored
    BY <1>9, ConfiguredKeeps DEF Configured
  <1>10. ASSUME NEW p \in Prompts, SpawnPrompt(p) PROVE AcpInv' /\ stored' = stored
    BY <1>10, SpawnKeeps DEF SpawnPrompt
  <1>11. ASSUME NEW p \in Prompts, TaskStep(p) PROVE AcpInv' /\ stored' = stored
    <2>1. stored' = stored
      BY <1>11 DEF TaskStep, Lookup, Claimed, WaitCancelled, Begin, Return, Server
    <2>2. CASE Lookup(p)
      BY <2>1, <2>2, LookupKeeps
    <2>3. CASE Claimed(p)
      BY <2>1, <2>3, ClaimedKeeps
    <2>4. CASE WaitCancelled(p)
      BY <2>1, <2>4, TaskLeaves DEF WaitCancelled
    <2>5. CASE Begin(p)
      BY <2>1, <2>5, BeginKeeps
    <2>6. CASE Return(p)
      BY <2>1, <2>6, TaskLeaves DEF Return
    <2> QED BY <1>11, <2>2, <2>3, <2>4, <2>5, <2>6 DEF TaskStep
  <1>12. ASSUME NEW p \in Prompts, NEW o \in {"completed", "failed", "cancelled"}, Finish(p, o)
         PROVE  AcpInv' /\ stored' = stored
    BY <1>12, FinishKeeps DEF Finish, Server
  <1>13. CASE UNCHANGED vars
    <2>1. UNCHANGED <<stored, used, inst, active, inbox, cur, task, reply>>
      BY <1>13 DEF vars
    <2>2. Types' /\ Waits'
      BY <2>1 DEF AcpInv, Types, Waits, Executable, IsActive, Asked
    <2>3. \A s \in Sessions : Referred(s)' /\ Busy(s)' /\ Accepts(s)'
      BY <2>1 DEF AcpInv, Referred, Busy, Accepts, Executable, IsActive, Asked
    <2> QED BY <2>1, <2>2, <2>3 DEF AcpInv, DeletedUnheld
  <1>14. stored' = stored => DeletedUnheld
    BY DEF DeletedUnheld
  <1> QED BY <1>1, <1>2, <1>3, <1>4, <1>5, <1>6, <1>7, <1>8, <1>9, <1>10, <1>11, <1>12, <1>13, <1>14 DEF Next, Handler

LEMMA InvAcpSafe == ASSUME AcpAssumption, AcpInv PROVE AcpSafe
  <1>1. TypeOK
    <2>1. active # NoSession => active.s \in stored /\ "server" \in inst[active.s].holders
      BY DEF AcpInv, Types, Waits, Referred, IsActive
    <2>2. \A s \in Sessions : inst[s].holders \subseteq Prompts \cup {"server"}
      BY DEF AcpInv, Types, Instances
    <2>3. \A p \in Prompts : task[p].pc \in {"none", "spawned", "waiting", "claimed", "running", "ended"}
      BY DEF AcpInv, Types, Tasks, Places
    <2> QED BY <2>1, <2>2, <2>3 DEF AcpInv, Types, TypeOK
  <1>2. WorkIsActive
    BY DEF AcpInv, Busy, WorkIsActive
  <1>3. ActiveAccepts
    BY DEF AcpInv, Accepts, ActiveAccepts
  <1> QED BY <1>1, <1>2, <1>3 DEF AcpSafe

-----------------------------------------------------------------------------
(* Theorems.                                                               *)

\* Whatever a client asks and however late the tasks of its prompts run:
\* the session that is active is stored and the server refers to it, only
\* the active executable session works, and what a client was given to
\* prompt takes its prompts.
THEOREM TheActiveSessionWorks == ASSUME AcpAssumption PROVE Spec => []AcpSafe
  <1>1. Init => AcpInv
    BY InitAcp
  <1>2. AcpInv /\ [Next]_vars => AcpInv'
    BY NextAcp
  <1>3. AcpInv => AcpSafe
    BY InvAcpSafe
  <1> QED BY <1>1, <1>2, <1>3, PTL DEF Spec

\* No request deletes a session that the server or a prompt's task holds.
THEOREM HeldSessionsStay == ASSUME AcpAssumption PROVE Spec => [][DeletedUnheld]_vars
  <1>1. Init => AcpInv
    BY InitAcp
  <1>2. AcpInv /\ [Next]_vars => AcpInv' /\ DeletedUnheld
    BY NextAcp
  <1> QED BY <1>1, <1>2, PTL DEF Spec
=============================================================================
