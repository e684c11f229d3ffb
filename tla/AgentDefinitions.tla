-------------------------- MODULE AgentDefinitions --------------------------
(***************************************************************************)
(* The agents of a Host: their creation, with the SOUL.md published inside *)
(* the transaction that writes the row, their names, tools and presets,    *)
(* and the main agent.  Several processes work on one database, whose      *)
(* write transactions (SQLite, external) exclude each other; the file is   *)
(* outside them.  Every operation but a move leaves a receipt, which       *)
(* answers the same operation asked again.                                 *)
(***************************************************************************)
EXTENDS Naturals, FiniteSets, SequencesExt

CONSTANTS
  Workers,      \* calls that may run at one time, in any process
  Calls,        \* what is asked: op, kind and the kind's own fields
  Souls,        \* presets that come with a soul, whose text has their name
  Paged,        \* whether somebody lists the agents meanwhile
  MaxCrashes,   \* bound: processes that stop
  MaxFaults,    \* bound: commits that fail
  MaxEdits      \* bound: edits of souls

Nothing == "none"

\* derived_agent_id: an agent is named for the operation that creates it.
Agents == {c.op : c \in {d \in Calls : d.kind = "create"}}

VARIABLES
  agents,     \* the rows: name, preset, tools and their revision
  main,       \* the main agent and its revision
  receipts,   \* what each operation was asked and what it answered
  soul,       \* each agent's SOUL.md: its text and the identity of the file
  made,       \* files made so far, the identity of the next
  tx,         \* the worker in a write transaction
  work,       \* each worker: its place, its call and the file it made
  told,       \* history: answers given, by operation
  lister,     \* somebody paging through the agents
  faults

vars == <<agents, main, receipts, soul, made, tx, work, told, lister, faults>>
rows == <<agents, main, receipts>>

NoFile == [text |-> Nothing, id |-> 0]
NoMain == [agent |-> 0, revision |-> 0]
Idle == [pc |-> "idle", call |-> [kind |-> Nothing], file |-> 0]
NoAgents == [a \in {} |-> Nothing]

Init ==
  /\ agents = NoAgents /\ main = NoMain /\ receipts = NoAgents
  /\ soul = [a \in Agents |-> NoFile] /\ made = 0
  /\ tx = Nothing /\ work = [w \in Workers |-> Idle] /\ told = {}
  /\ lister = [on |-> Paged, after |-> 0, start |-> {}, seen |-> {}]
  /\ faults = [crash |-> 0, commit |-> 0, edit |-> 0]

With(f, k, v) == [x \in DOMAIN f \cup {k} |-> IF x = k THEN v ELSE f[x]]
Exists(a) == a \in DOMAIN agents
Call(w) == work[w].call
At(w, pc) == work[w].pc = pc
Go(w, pc) == work' = [work EXCEPT ![w].pc = pc]
End(w) == work' = [work EXCEPT ![w] = Idle]
Tell(c, answer) == told' = told \cup {<<c.op, answer>>}
Target(c) == IF c.kind = "create" THEN c.op ELSE c.agent

-----------------------------------------------------------------------------
(* Receipts.                                                               *)

\* The receipt of an operation, when what is asked is what was asked.
Replays(c) == c.op \in DOMAIN receipts /\ receipts[c.op].asked = c
\* The operation was used for something else: a conflict.
Reused(c) == c.op \in DOMAIN receipts /\ receipts[c.op].asked # c

ReplayBad(c) ==
  Tell(c, IF c.kind \in {"create", "rename"} THEN agents[Target(c)] ELSE receipts[c.op].answer)

\* replay: the answer that was stored, whatever the agent has become.
Replay(c) == Tell(c, receipts[c.op].answer)

Record(c, answer) == receipts' = With(receipts, c.op, [asked |-> c, answer |-> answer])

-----------------------------------------------------------------------------
(* Creation.                                                               *)

\* operational_definition, resolve_selection.
Definition(c) == [name |-> c.name, preset |-> c.preset, tools |-> {}, revision |-> 1]

Ask(w, c) ==
  /\ At(w, "idle") /\ c.kind \in {"create", "move"}
  /\ work' = [work EXCEPT ![w] = [pc |-> "asked", call |-> c, file |-> 0]]
  /\ UNCHANGED <<rows, soul, made, tx, told, lister, faults>>

\* create_agent: an operation known already is answered or refused at once;
\* a new one finds out about its model before it writes.
Look(w) ==
  /\ At(w, "asked") /\ Call(w).kind = "create"
  /\ IF Replays(Call(w)) THEN Replay(Call(w)) ELSE UNCHANGED told
  /\ IF Call(w).op \in DOMAIN receipts THEN End(w) ELSE Go(w, "looked")
  /\ UNCHANGED <<rows, soul, made, tx, lister, faults>>

\* check_cancellation, before the transaction and before the publication.
Cancelled(w) ==
  /\ Call(w).kind = "create" /\ (At(w, "looked") \/ At(w, "open"))
  /\ End(w) /\ tx' = IF tx = w THEN Nothing ELSE tx
  /\ UNCHANGED <<rows, soul, made, told, lister, faults>>

\* create_blocking, up to the publication.
BeginCreate(w) ==
  /\ At(w, "looked") /\ tx = Nothing
  /\ IF Replays(Call(w)) THEN Replay(Call(w)) ELSE UNCHANGED told
  /\ IF Call(w).op \in DOMAIN receipts
     THEN End(w) /\ UNCHANGED tx
     ELSE Go(w, "open") /\ tx' = w
  /\ UNCHANGED <<rows, soul, made, lister, faults>>

\* move_agent_to_preset, up to the publication.
BeginMove(w) ==
  /\ At(w, "asked") /\ Call(w).kind = "move" /\ tx = Nothing
  /\ IF Exists(Call(w).agent) THEN Go(w, "open") /\ tx' = w ELSE End(w) /\ UNCHANGED tx
  /\ UNCHANGED <<rows, soul, made, told, lister, faults>>

\* publication_state.
State(a, text) ==
  IF soul[a] = NoFile THEN "absent" ELSE IF soul[a].text = text THEN "identical" ELSE "conflicting"

Give(a, text) ==
  /\ made' = made + 1 /\ soul' = [soul EXCEPT ![a] = [text |-> text, id |-> made + 1]]

\* publish and publish_document: a missing soul is made, the very same one is
\* adopted, and another one refuses a creation and is kept by a move.
Publish(w) ==
  /\ At(w, "open")
  /\ LET a == Target(Call(w)) p == Call(w).preset s == State(a, p) IN
     IF p \in Souls /\ s = "absent"
     THEN /\ Give(a, p) /\ UNCHANGED tx
          /\ work' = [work EXCEPT ![w].pc = "published", ![w].file = made + 1]
     ELSE /\ UNCHANGED <<soul, made>>
          /\ IF p \in Souls /\ s = "conflicting" /\ Call(w).kind = "create"
             THEN End(w) /\ tx' = Nothing
             ELSE Go(w, "published") /\ UNCHANGED tx
  /\ UNCHANGED <<rows, told, lister, faults>>

\* mark_first_if_unmarked.
MarkFirst(a) == main' = IF main = NoMain THEN [agent |-> a, revision |-> 1] ELSE main

CommitCreate(w) ==
  /\ At(w, "published") /\ Call(w).kind = "create"
  /\ LET c == Call(w) IN
     /\ agents' = With(agents, c.op, Definition(c))
     /\ MarkFirst(c.op)
     /\ Record(c, Definition(c)) /\ Tell(c, Definition(c))
  /\ End(w) /\ tx' = Nothing /\ UNCHANGED <<soul, made, lister, faults>>

\* The row is left alone when the agent is on the preset already.
CommitMove(w) ==
  /\ At(w, "published") /\ Call(w).kind = "move"
  /\ agents' = [agents EXCEPT ![Call(w).agent].preset = Call(w).preset]
  /\ End(w) /\ tx' = Nothing /\ UNCHANGED <<main, receipts, soul, made, told, lister, faults>>

\* commit_or_withdraw: the failed transaction is undone and over before the
\* file goes.
CommitFails(w) ==
  /\ At(w, "published") /\ faults.commit < MaxFaults
  /\ Call(w).kind = "move" => agents[Call(w).agent].preset # Call(w).preset
  /\ Go(w, "failed") /\ tx' = Nothing /\ faults' = [faults EXCEPT !.commit = @ + 1]
  /\ UNCHANGED <<rows, soul, made, told, lister>>

WithdrawBad(w) ==
  /\ At(w, "failed") /\ End(w)
  /\ soul' = IF work[w].file # 0 THEN [soul EXCEPT ![Target(Call(w))] = NoFile] ELSE soul
  /\ UNCHANGED <<rows, made, tx, told, lister, faults>>

\* withdraw, remove_published: only the very file this attempt made.
Withdraw(w) ==
  /\ At(w, "failed") /\ End(w)
  /\ LET a == Target(Call(w)) IN
     soul' = IF work[w].file # 0 /\ soul[a].id = work[w].file THEN [soul EXCEPT ![a] = NoFile] ELSE soul
  /\ UNCHANGED <<rows, made, tx, told, lister, faults>>

-----------------------------------------------------------------------------
(* Edits of one transaction.                                               *)

Edit(c, a, row, answer) ==
  /\ agents' = [agents EXCEPT ![a] = row]
  /\ Record(c, answer) /\ Tell(c, answer) /\ UNCHANGED main

Replayed(c) == Replays(c) /\ Replay(c) /\ UNCHANGED rows
Alone == tx = Nothing /\ UNCHANGED <<soul, made, tx, work, lister, faults>>

\* rename_agent: from the name the caller saw.
RenameAgent(c) ==
  /\ c.kind = "rename" /\ Alone
  /\ \/ Replayed(c)
     \/ /\ c.op \notin DOMAIN receipts /\ Exists(c.agent) /\ Exists(c.actor)
        /\ agents[c.agent].name = c.expected
        /\ LET row == [agents[c.agent] EXCEPT !.name = c.name] IN Edit(c, c.agent, row, row)

\* set_agent_tools: from the revision the caller saw.
SetAgentTools(c) ==
  /\ c.kind = "tools" /\ Alone
  /\ \/ Replayed(c)
     \/ /\ c.op \notin DOMAIN receipts /\ Exists(c.agent) /\ agents[c.agent].revision = c.expected
        /\ LET row == [agents[c.agent] EXCEPT !.tools = c.tools, !.revision = @ + 1]
           IN  Edit(c, c.agent, row, [tools |-> row.tools, revision |-> row.revision])

\* Choosing the same agent again changes nothing.
NextMain(c) ==
  IF main.agent = c.agent THEN main ELSE [agent |-> c.agent, revision |-> main.revision + 1]

\* HostMainAgentControl::set and apply, for the owner.
SetMain(c) ==
  /\ c.kind = "main" /\ Alone
  /\ \/ Replayed(c)
     \/ /\ c.op \notin DOMAIN receipts /\ Exists(c.agent) /\ main.revision = c.expected
        /\ main' = NextMain(c) /\ Record(c, NextMain(c)) /\ Tell(c, NextMain(c))
        /\ UNCHANGED agents

\* What an edit expected to find is no longer there.
Stale(c) ==
  CASE c.kind = "rename" -> agents[c.agent].name # c.expected
    [] c.kind = "tools" -> agents[c.agent].revision # c.expected
    [] c.kind = "main" -> main.revision # c.expected

\* An operation used for something else, an unknown agent, a stale edit.
Refuse(c) ==
  /\ c.kind \in {"rename", "tools", "main"}
  /\ ~Replays(c)
  /\ Exists(c.agent) => Reused(c) \/ Stale(c)
  /\ Alone /\ UNCHANGED <<rows, told>>

-----------------------------------------------------------------------------
(* The soul's own editing, paging and failures.                            *)

\* agent_documents, or the owner: another file takes the soul's place.
EditSoul(a) ==
  /\ Exists(a) /\ soul[a] # NoFile /\ faults.edit < MaxEdits
  /\ Give(a, "edited") /\ faults' = [faults EXCEPT !.edit = @ + 1]
  /\ UNCHANGED <<rows, tx, work, told, lister>>

\* The agents behind a cursor, in the order of their names.
Page == {a \in DOMAIN agents : a > lister.after}

\* list_agent_definitions, one page of one agent at a time.
ListAgents ==
  /\ lister.on
  /\ lister' = IF lister.seen = {} /\ lister.after = 0 /\ Page # {}
               THEN LET a == Min(Page) IN [on |-> TRUE, after |-> a, start |-> DOMAIN agents, seen |-> {a}]
               ELSE IF Page # {}
                    THEN LET a == Min(Page) IN [lister EXCEPT !.after = a, !.seen = @ \cup {a}]
                    ELSE [lister EXCEPT !.on = FALSE]
  /\ UNCHANGED <<rows, soul, made, tx, work, told, faults>>

\* The process stops: its transaction is undone, its file stays.
Crash(w) ==
  /\ ~At(w, "idle") /\ faults.crash < MaxCrashes
  /\ End(w) /\ tx' = (IF tx = w THEN Nothing ELSE tx)
  /\ faults' = [faults EXCEPT !.crash = @ + 1]
  /\ UNCHANGED <<rows, soul, made, told, lister>>

Step(w) ==
  \/ Look(w) \/ BeginCreate(w) \/ BeginMove(w) \/ Publish(w)
  \/ CommitCreate(w) \/ CommitMove(w) \/ Withdraw(w)

Next ==
  \/ \E w \in Workers : Step(w) \/ Cancelled(w) \/ CommitFails(w) \/ Crash(w)
  \/ \E w \in Workers, c \in Calls : Ask(w, c)
  \/ \E c \in Calls : RenameAgent(c) \/ SetAgentTools(c) \/ SetMain(c) \/ Refuse(c)
  \/ \E a \in Agents : EditSoul(a)
  \/ ListAgents

Spec == Init /\ [][Next]_vars

\* What is asked is asked again until it is done, and is not cancelled for
\* ever.
Fairness ==
  \A w \in Workers :
    /\ SF_vars(BeginCreate(w)) /\ SF_vars(Publish(w)) /\ SF_vars(CommitCreate(w))
    /\ WF_vars(Step(w)) /\ WF_vars(\E c \in Calls : Ask(w, c))
FairSpec == Spec /\ Fairness

-----------------------------------------------------------------------------
(* Properties.                                                             *)

\* One worker at a time is in a write transaction, and it knows it.
TypeOK ==
  /\ DOMAIN agents \subseteq Agents
  /\ {w \in Workers : work[w].pc \in {"open", "published"}} = {tx} \ {Nothing}
  /\ \A a \in Agents : soul[a].text = Nothing <=> soul[a].id = 0

\* A Host with agents has a main agent, and it is one of them.
MainIsAgent == IF agents = NoAgents THEN main = NoMain ELSE Exists(main.agent)

\* An agent whose preset has a soul has a SOUL.md, also when processes stop
\* between its publication and the row.
SoulThere == \A a \in DOMAIN agents : agents[a].preset \in Souls => soul[a] # NoFile

\* An operation asked again, by anyone at any time, gets its first answer,
\* although names, tools and the main agent have changed since.
OneAnswer == \A s, t \in told : s[1] = t[1] => s = t

\* Two edits of an agent's tools never start from one revision.
NoLostTools ==
  \A o, p \in DOMAIN receipts :
    /\ o # p /\ receipts[o].asked.kind = "tools" /\ receipts[p].asked.kind = "tools"
    /\ receipts[o].asked.agent = receipts[p].asked.agent
    => receipts[o].answer.revision # receipts[p].answer.revision

\* A revision of the main agent names one agent, for every caller told it.
MainAgreed ==
  LET mains == {receipts[o].answer : o \in {p \in DOMAIN receipts : receipts[p].asked.kind = "main"}}
  IN  \A m, n \in mains : m.revision = n.revision => m = n

\* A creation refused or failed leaves no soul of an agent that is not there,
\* unless a process stopped.
NothingLeft ==
  \A a \in Agents \ DOMAIN agents :
    soul[a] # NoFile =>
      faults.crash > 0 \/ \E w \in Workers : work[w].pc \in {"published", "failed"} /\ Call(w).op = a

\* A soul somebody edited is not replaced or removed by a creation, a move or
\* the withdrawal of a failed one.
EditsKept ==
  \A a \in Agents : soul[a].text = "edited" => soul'[a].text = "edited"

\* Paging past creations misses no agent that was there at its start.
PagesAll == ~lister.on => lister.start \subseteq lister.seen

\* An agent is created in the end, although processes stop and commits fail.
Created == agents # NoAgents
=============================================================================
