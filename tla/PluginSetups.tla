---------------------------- MODULE PluginSetups ----------------------------
(***************************************************************************)
(* A plugin_manage call that needs a credential shows the person a setup   *)
(* link and ends its turn.  Four parts act on it at the same time: the     *)
(* tool call, which saves the call before it tells the agent to wait; the  *)
(* node, which carries the link to the person and stops the turn when it   *)
(* cannot; the Host's setup runner, which replays each saved call until    *)
(* the person answers or the link's time is over; and the person.          *)
(*                                                                         *)
(* All calls ask for one credential, so one call's setup may be finished   *)
(* by another's.  Every call is one operation: its setup state, its relay  *)
(* and its saved row have the operation's name.                            *)
(***************************************************************************)
EXTENDS Naturals, FiniteSets, Sequences

CONSTANTS Calls,        \* plugin_manage calls, each of a command of its own
          Devices,      \* the owner's signed-in apps
          MaxStops,     \* bound on process stops
          MaxReserves,  \* bound on the generations of one relay
          MaxFaults     \* bound on lost requests and failed writes

VARIABLES
  at,       \* where each call's tool execution stands
  link,     \* what became of the link the call showed
  stopped,  \* the call's turn was cancelled
  state,    \* the credential setup state saved for the operation, by its id
  ids,      \* setup states made for each operation
  relay,    \* the coordinator's relay of each operation
  grace,    \* the last generation of a relay whose expiry and grace are over
  secret,   \* the credential is in the private store
  row,      \* the saved call: 0, or the generation its deadline is taken from
  task,     \* the runner's wait for each saved call
  receipt,  \* the note whose receipt the operation holds
  notes,    \* the follow-ups sent for each call
  told,     \* the agent was told that this call waits for the person
  forgotten, \* what became of forgetting the saved call
  held,     \* notices the coordinator holds, by app and process that put them
  known,    \* apps whose notice the node recorded for the call
  up,       \* the process runs, and the runner in it is attached
  stops, faults

vars == <<at, link, stopped, state, ids, relay, grace, secret, row, task,
          receipt, notes, told, forgotten, held, known, up, stops, faults>>

toolVars == <<at, told>>
deliveryVars == <<link, stopped, held, known>>
relayVars == <<state, ids, relay, grace>>
rowVars == <<row, receipt, notes, forgotten>>
worldVars == <<up, stops, faults>>

\* Where the tool execution stands.  The turn waits itself ("turn") when the
\* process has no runner.
Steps == {"idle", "stated", "reserved", "shown", "recorded", "ended", "closed"}
Waits == {"none", "load", "reserve", "poll", "store", "acknowledge", "delete",
          "finished", "failed", "expired", "held"}
Results == {"finished", "failed", "expired"}

NoRelay == [id |-> 0, gen |-> 0, st |-> "none"]
Live(c) == relay[c].st \in {"pending", "submitted", "acknowledged"}

Init ==
  /\ at = [c \in Calls |-> "idle"]
  /\ link = [c \in Calls |-> "none"]
  /\ stopped = [c \in Calls |-> FALSE]
  /\ state = [c \in Calls |-> 0]
  /\ ids = [c \in Calls |-> 0]
  /\ relay = [c \in Calls |-> NoRelay]
  /\ grace = [c \in Calls |-> 0]
  /\ secret = FALSE
  /\ row = [c \in Calls |-> 0]
  /\ task = [c \in Calls |-> "none"]
  /\ receipt = [c \in Calls |-> "none"]
  /\ notes = [c \in Calls |-> <<>>]
  /\ told = [c \in Calls |-> FALSE]
  /\ forgotten = [c \in Calls |-> "no"]
  /\ held = [c \in Calls |-> {}]
  /\ known = [c \in Calls |-> {}]
  /\ up = TRUE
  /\ stops = 0
  /\ faults = 0

Fault == faults < MaxFaults /\ faults' = faults + 1

-----------------------------------------------------------------------------
(* The coordinator's relay, as the Host's client uses it.                  *)

\* A reservation is idempotent by the relay's id; an expired relay of the
\* same id is made again with a new expiry.
ReservedAt(c) ==
  IF Live(c) /\ relay[c].id = state[c] THEN relay[c]
  ELSE [id |-> state[c], gen |-> relay[c].gen + 1, st |-> "pending"]

MayReserve(c) == Live(c) \/ relay[c].gen < MaxReserves

\* The person opens the link in a browser and submits the sealed credential.
Submit(c) ==
  /\ relay[c].st = "pending" /\ held[c] # {}
  /\ relay' = [relay EXCEPT ![c].st = "submitted"]
  /\ UNCHANGED <<toolVars, deliveryVars, state, ids, grace, secret, rowVars, task, worldVars>>

\* The relay's 15 minutes are over.
Expire(c) ==
  /\ relay[c].st \in {"pending", "submitted"}
  /\ relay' = [relay EXCEPT ![c].st = "expired"]
  /\ UNCHANGED <<toolVars, deliveryVars, state, ids, grace, secret, rowVars, task, worldVars>>

\* Thirty seconds past the expiry a saved call was dated with.
GraceOver(c) ==
  /\ grace[c] < relay[c].gen
  /\ relay[c].st \in {"expired", "acknowledged"} \/ grace[c] + 1 < relay[c].gen
  /\ grace' = [grace EXCEPT ![c] = @ + 1]
  /\ UNCHANGED <<toolVars, deliveryVars, state, ids, relay, secret, rowVars, task, worldVars>>

\* finish_existing: another setup brought the credential, so an answer this
\* relay already has is acknowledged and the setup state is gone.
FinishExisting(c) ==
  /\ relay' = IF relay[c].st = "submitted"
              THEN [relay EXCEPT ![c].st = "acknowledged"] ELSE relay
  /\ state' = [state EXCEPT ![c] = 0]
  /\ UNCHANGED <<ids, grace>>

-----------------------------------------------------------------------------
(* The tool call, with someone to show a link to.                          *)

Move(c, step) == at' = [at EXCEPT ![c] = step]

\* ensure: a credential nobody is setting up for this operation is used as it
\* is; otherwise the operation's setup state is found, or made and saved
\* before the coordinator hears of it.
Begin(c) ==
  /\ up /\ at[c] = "idle"
  /\ IF state[c] = 0 /\ secret
     THEN Move(c, "ended") /\ UNCHANGED <<state, ids>>
     ELSE /\ Move(c, "stated")
          /\ IF state[c] # 0 THEN UNCHANGED <<state, ids>>
             ELSE /\ ids' = [ids EXCEPT ![c] = @ + 1]
                  /\ state' = [state EXCEPT ![c] = ids[c] + 1]
  /\ UNCHANGED <<told, deliveryVars, relay, grace, secret, rowVars, task, worldVars>>

\* The reservation, which survives the loss of its answer.
Reserve(c) ==
  /\ up /\ at[c] = "stated" /\ state[c] # 0 /\ MayReserve(c)
  /\ relay' = [relay EXCEPT ![c] = ReservedAt(c)]
  /\ Move(c, "reserved")
  /\ UNCHANGED <<told, deliveryVars, state, ids, grace, secret, rowVars, task, worldVars>>

\* A concurrent replay of the same operation finished and removed the state:
\* the reservation is of a relay that is over, and the credential is there.
ReserveFinished(c) ==
  /\ up /\ at[c] = "stated" /\ state[c] = 0 /\ Move(c, "ended")
  /\ UNCHANGED <<told, deliveryVars, relayVars, secret, rowVars, task, worldVars>>

\* The relay could not be asked: the call fails and its state stays.
ReserveFails(c) ==
  /\ up /\ at[c] = "stated" /\ Fault /\ Move(c, "ended")
  /\ UNCHANGED <<told, deliveryVars, relayVars, secret, rowVars, task, up, stops>>

\* The credential may have arrived meanwhile; else the link is shown and the
\* call stops with AwaitingPerson.
Show(c) ==
  /\ up /\ at[c] = "reserved"
  /\ IF secret
     THEN FinishExisting(c) /\ Move(c, "ended") /\ UNCHANGED link
     ELSE /\ link' = [link EXCEPT ![c] = "pending"]
          /\ Move(c, "shown")
          /\ UNCHANGED relayVars
  /\ UNCHANGED <<told, stopped, held, known, secret, rowVars, task, worldVars>>

\* hand_off: the call is saved under its operation, and an earlier row of the
\* same operation stays as it is.  A save that fails ends the call in error.
HandOff(c) ==
  /\ up /\ at[c] = "shown"
  /\ \/ /\ row' = [row EXCEPT ![c] = IF @ = 0 THEN relay[c].gen ELSE @]
        /\ UNCHANGED faults
     \/ Fault /\ UNCHANGED row
  /\ Move(c, "recorded")
  /\ UNCHANGED <<told, deliveryVars, relayVars, secret, receipt, notes, forgotten, task, up, stops>>

\* The tool runs to its end, its link delivered or refused, before the turn
\* settles; the agent hears that it waits only when the call is saved.
EndCall(c) ==
  /\ up /\ at[c] = "recorded" /\ link[c] # "pending"
  /\ Move(c, "ended")
  /\ told' = [told EXCEPT ![c] = row[c] # 0]
  /\ UNCHANGED <<deliveryVars, relayVars, secret, rowVars, task, worldVars>>

-----------------------------------------------------------------------------
(* The node's delivery of the link.                                        *)

\* put_notices: one notice for each app that could be listed and sealed to,
\* recorded before it is put, because the answer may be lost.  The link reached
\* the person when one put is known to be held, and stops the turn otherwise;
\* with no expiry, no list of apps or no route nothing is recorded at all.
\* (Discord's direct message has one recipient, is not withdrawn, and counts as
\* not delivered when a stop overtook it; only the app's route is modelled.)
Deliver(c, recorded, got, counted) ==
  /\ up /\ link[c] = "pending" /\ ~stopped[c]
  /\ held' = [held EXCEPT ![c] = {n \in @ : n[1] \notin got} \cup (got \X {stops})]
  /\ known' = [known EXCEPT ![c] = recorded]
  /\ link' = [link EXCEPT ![c] = IF counted = {} THEN "failed" ELSE "reached"]
  /\ stopped' = [stopped EXCEPT ![c] = counted = {}]
  /\ UNCHANGED <<toolVars, relayVars, secret, rowVars, task, worldVars>>

\* A turn stopped first sends nothing.
DeliverStopped(c) ==
  /\ up /\ link[c] = "pending" /\ stopped[c]
  /\ link' = [link EXCEPT ![c] = "stopped"]
  /\ UNCHANGED <<toolVars, stopped, held, known, relayVars, secret, rowVars, task, worldVars>>

\* The person stops the turn.
CancelTurn(c) ==
  /\ up /\ at[c] \notin {"idle", "ended", "closed"} /\ ~stopped[c]
  /\ stopped' = [stopped EXCEPT ![c] = TRUE]
  /\ UNCHANGED <<toolVars, link, held, known, relayVars, secret, rowVars, task, worldVars>>

\* SetupLinks.finish and Stopped.forget_setups, once the turn has settled: a
\* stopped turn withdraws the recorded notices of the call whose link did not
\* reach the person and forgets its setup.  Neither is tried again when it
\* fails: the notices are "kept", or the saved call stays.
Close(c) ==
  /\ up /\ at[c] = "ended"
  /\ Move(c, "closed")
  /\ LET lost == stopped[c] /\ link[c] # "reached" IN
     \E fails \in SUBSET {"withdraw", "forget"} :
       /\ fails # {} => lost
       /\ "withdraw" \in fails => known[c] # {}
       /\ faults' = faults + Cardinality(fails) /\ faults' <= MaxFaults
       /\ held' = [held EXCEPT ![c] = IF lost /\ "withdraw" \notin fails
                                     THEN {n \in @ : n[1] \notin known[c]} ELSE @]
       /\ link' = [link EXCEPT ![c] = IF "withdraw" \in fails THEN "kept" ELSE @]
       /\ row' = [row EXCEPT ![c] = IF lost /\ "forget" \notin fails THEN 0 ELSE @]
       /\ forgotten' = [forgotten EXCEPT ![c] = IF "forget" \in fails THEN "failed"
                                               ELSE IF lost THEN "yes" ELSE "no"]
  /\ UNCHANGED <<told, known, stopped, relayVars, secret, receipt, notes, task, up, stops>>

-----------------------------------------------------------------------------
(* The setup runner.                                                       *)

Wait(c, step) == task' = [task EXCEPT ![c] = step]
Due(c) == row[c] <= grace[c]
Outcome(c) == IF secret' THEN "finished" ELSE "failed"

\* run: a task of its own for each saved call no task waits on.  A deadline
\* already over leaves no time for the replay.
Spawn(c) ==
  /\ up /\ row[c] # 0 /\ task[c] = "none"
  /\ Wait(c, IF Due(c) THEN "expired" ELSE "load")
  /\ UNCHANGED <<toolVars, deliveryVars, relayVars, secret, rowVars, worldVars>>

\* ensure with nobody to show a link to waits only for a setup its operation
\* already showed.
ReplayLoad(c) ==
  /\ up /\ task[c] = "load"
  /\ UNCHANGED secret
  /\ Wait(c, IF state[c] = 0 THEN Outcome(c) ELSE "reserve")
  /\ UNCHANGED <<toolVars, deliveryVars, relayVars, rowVars, worldVars>>

ReplayReserve(c) ==
  /\ up /\ task[c] = "reserve"
  /\ UNCHANGED secret
  /\ IF state[c] = 0
     THEN Wait(c, Outcome(c)) /\ UNCHANGED relayVars
     ELSE IF secret
     THEN FinishExisting(c) /\ Wait(c, "finished")
     ELSE /\ MayReserve(c)
          /\ relay' = [relay EXCEPT ![c] = ReservedAt(c)]
          /\ UNCHANGED <<state, ids, grace>>
          /\ Wait(c, "poll")
  /\ UNCHANGED <<toolVars, deliveryVars, rowVars, worldVars>>

\* One poll of the relay: another setup may have finished, the person may
\* have answered, an earlier run may have acknowledged, and the time of the
\* relay may be over.
ReplayPoll(c) ==
  /\ up /\ task[c] = "poll"
  /\ UNCHANGED secret
  /\ \/ /\ relay[c].st = "pending" /\ secret
        /\ FinishExisting(c) /\ Wait(c, "finished")
     \/ /\ relay[c].st = "submitted" /\ UNCHANGED relayVars /\ Wait(c, "store")
     \/ /\ relay[c].st = "acknowledged" /\ UNCHANGED relayVars
        /\ Wait(c, IF secret THEN "delete" ELSE "failed")
     \/ /\ relay[c].st = "expired" /\ UNCHANGED relayVars /\ Wait(c, "failed")
  /\ UNCHANGED <<toolVars, deliveryVars, rowVars, worldVars>>

\* The opened credential is in the private store before the relay may drop
\* its ciphertext.  What the person typed may also be refused.
ReplayStore(c) ==
  /\ up /\ task[c] = "store"
  /\ \/ secret' = TRUE /\ Wait(c, "acknowledge") /\ UNCHANGED faults
     \/ Fault /\ UNCHANGED secret /\ Wait(c, "failed")
  /\ UNCHANGED <<toolVars, deliveryVars, relayVars, rowVars, up, stops>>

ReplayAcknowledge(c) ==
  /\ up /\ task[c] = "acknowledge"
  /\ IF relay[c].st = "expired"
     THEN Wait(c, "failed") /\ UNCHANGED relay
     ELSE Wait(c, "delete") /\ relay' = [relay EXCEPT ![c].st = "acknowledged"]
  /\ UNCHANGED <<toolVars, deliveryVars, state, ids, grace, secret, rowVars, worldVars>>

ReplayDelete(c) ==
  /\ up /\ task[c] = "delete"
  /\ state' = [state EXCEPT ![c] = 0]
  /\ Wait(c, "finished")
  /\ UNCHANGED <<toolVars, deliveryVars, ids, relay, grace, secret, rowVars, worldVars>>

\* Three attempts at one request of the relay failed.
ReplayFails(c) ==
  /\ up /\ task[c] \in {"reserve", "poll", "acknowledge"} /\ Fault
  /\ Wait(c, "failed")
  /\ UNCHANGED <<toolVars, deliveryVars, relayVars, secret, rowVars, up, stops>>

\* The deadline cuts the replay wherever it stands.
ReplayTimesOut(c) ==
  /\ up /\ task[c] \in {"load", "reserve", "poll", "store", "acknowledge", "delete"}
  /\ Due(c)
  /\ Wait(c, "expired")
  /\ UNCHANGED <<toolVars, deliveryVars, relayVars, secret, rowVars, worldVars>>

\* note_now: a follow-up with a receipt under the operation's name.  The same
\* note again is the one already sent; another note is a conflict.
Conflicts(c) == receipt[c] \notin {"none", task[c]}

SettleAgain(c) ==
  /\ up /\ task[c] \in Results /\ row[c] # 0
  /\ row' = [row EXCEPT ![c] = 0]
  /\ receipt' = [receipt EXCEPT ![c] = task[c]]
  /\ notes' = [notes EXCEPT ![c] = Append(@, task[c])]
  /\ Wait(c, "none")
  /\ UNCHANGED <<toolVars, deliveryVars, relayVars, secret, forgotten, worldVars>>

\* settle: one transaction sends the note and removes the row.
Settle(c) ==
  /\ up /\ task[c] \in Results /\ row[c] # 0 /\ ~Conflicts(c)
  /\ row' = [row EXCEPT ![c] = 0]
  /\ receipt' = [receipt EXCEPT ![c] = task[c]]
  /\ notes' = IF receipt[c] = "none"
              THEN [notes EXCEPT ![c] = Append(@, task[c])] ELSE notes
  /\ Wait(c, "none")
  /\ UNCHANGED <<toolVars, deliveryVars, relayVars, secret, forgotten, worldVars>>

\* A setup forgotten meanwhile says nothing.
SettleForgotten(c) ==
  /\ up /\ task[c] \in Results /\ row[c] = 0
  /\ Wait(c, "none")
  /\ UNCHANGED <<toolVars, deliveryVars, relayVars, secret, rowVars, worldVars>>

\* A transaction that fails keeps the row; the task holds it back for a
\* minute before the runner waits on it again.
SettleFails(c) ==
  /\ up /\ task[c] \in Results /\ row[c] # 0
  /\ \/ Conflicts(c) /\ UNCHANGED faults
     \/ Fault
  /\ Wait(c, "held")
  /\ UNCHANGED <<toolVars, deliveryVars, relayVars, secret, rowVars, up, stops>>

BackOff(c) ==
  /\ up /\ task[c] = "held" /\ Wait(c, "none")
  /\ UNCHANGED <<toolVars, deliveryVars, relayVars, secret, rowVars, worldVars>>

-----------------------------------------------------------------------------
(* The process stops: tasks and what the node remembered of the turn are   *)
(* gone, rows and setup states stay, and a call whose result was not yet   *)
(* committed is run again.                                                 *)

Stop ==
  /\ up /\ stops < MaxStops
  /\ up' = FALSE /\ stops' = stops + 1
  /\ task' = [c \in Calls |-> "none"]
  /\ at' = [c \in Calls |-> IF at[c] \in {"ended", "closed"} THEN "closed" ELSE "idle"]
  /\ link' = [c \in Calls |-> IF at[c] = "closed" THEN link[c] ELSE "none"]
  /\ stopped' = [c \in Calls |-> stopped[c] /\ at[c] = "closed"]
  /\ known' = [c \in Calls |-> {}]
  /\ UNCHANGED <<told, held, relayVars, secret, rowVars, faults>>

Start ==
  /\ ~up /\ up' = TRUE
  /\ UNCHANGED <<toolVars, deliveryVars, relayVars, secret, rowVars, task, stops, faults>>

Tool(c) == \/ Begin(c) \/ Reserve(c) \/ ReserveFinished(c) \/ ReserveFails(c)
           \/ Show(c) \/ HandOff(c) \/ EndCall(c)
Node(c) == \/ \E recorded \in SUBSET Devices : \E got \in SUBSET recorded :
              \E counted \in SUBSET got : Deliver(c, recorded, got, counted)
           \/ DeliverStopped(c) \/ CancelTurn(c) \/ Close(c)
Runner(c) == \/ Spawn(c) \/ ReplayLoad(c) \/ ReplayReserve(c) \/ ReplayPoll(c)
             \/ ReplayStore(c) \/ ReplayAcknowledge(c) \/ ReplayDelete(c)
             \/ ReplayTimesOut(c) \/ Settle(c) \/ SettleForgotten(c)
             \/ SettleFails(c) \/ BackOff(c)

Next ==
  \/ Stop \/ Start
  \/ \E c \in Calls : \/ Tool(c) \/ Node(c) \/ Runner(c) \/ ReplayFails(c)
                      \/ Submit(c) \/ Expire(c) \/ GraceOver(c)

\* The runner and time go on; nothing is assumed of the person, the tool call
\* or the delivery.
Fairness ==
  /\ WF_vars(Start)
  /\ \A c \in Calls : /\ WF_vars(Runner(c))
                      /\ WF_vars(Expire(c)) /\ WF_vars(GraceOver(c))

Spec == Init /\ [][Next]_vars
FairSpec == Spec /\ Fairness

-----------------------------------------------------------------------------
TypeOK ==
  /\ at \in [Calls -> Steps]
  /\ link \in [Calls -> {"none", "pending", "reached", "failed", "stopped", "kept"}]
  /\ task \in [Calls -> Waits]
  /\ receipt \in [Calls -> Results \cup {"none"}]
  /\ \A c \in Calls : /\ state[c] \in 0..ids[c]
                      /\ row[c] \in 0..MaxReserves
                      /\ relay[c].gen \in 0..MaxReserves
                      /\ grace[c] <= relay[c].gen
  /\ held \in [Calls -> SUBSET (Devices \X (0..MaxStops))]

\* docs: the Host stores the credential "and only then acknowledges the
\* relay", which clears the ciphertext: whatever a stop, a lost request or the
\* deadline cuts short, an acknowledged answer is in the private store.
AnswerKept == \A c \in Calls : relay[c].st = "acknowledged" => secret

\* docs: a restart "never creates a second secret prompt for the same tool
\* operation": its setup state is saved before the relay hears of it and lives
\* until the credential does.
OnePrompt == \A c \in Calls : ids[c] <= 1

\* A call whose agent was told to end its turn and wait is saved, answered or
\* forgotten with its stopped turn; it is never just lost.
WaitingIsOwed ==
  \A c \in Calls : told[c] => row[c] # 0 \/ notes[c] # <<>> \/ forgotten[c] = "yes"

\* Whatever is replayed and retried, a call comes back at most once.
OneFollowUp == \A c \in Calls : Len(notes[c]) <= 1

\* Once the turn is over, a link that did not reach the person leaves no saved
\* call, so nobody hears later about a link no one had, unless forgetting it
\* failed; whether its notices could be withdrawn makes no difference.
UndeliveredForgotten ==
  \A c \in Calls :
    at[c] = "closed" /\ link[c] \in {"failed", "stopped", "kept"} /\ stopped[c]
      => row[c] = 0 \/ forgotten[c] = "failed"

\* A delivered link's wait is only ever ended by what came of it: the saved
\* call of a link the person holds is not forgotten.
DeliveredKept == \A c \in Calls : told[c] /\ link[c] = "reached" => row[c] # 0 \/ notes[c] # <<>>

\* No app keeps a notice this process put, known to be held or not, for a call
\* that was stopped because the link reached nobody, unless withdrawing failed.
\* (What a process put before it stopped is recorded by nobody and expires.)
NoticesWithdrawn ==
  \A c \in Calls :
    at[c] = "closed" /\ link[c] = "failed" /\ stopped[c] =>
      \A n \in held[c] : n[2] < stops

\* docs: the runner waits "until 30 seconds past the link's expiry", and "one
\* transaction then removes the row and sends what came of it": a saved call
\* comes back.  A call run again after its follow-up was sent may save itself a
\* second time; that row stays when its note conflicts with the receipt of the
\* first, but its conversation was answered once.
SavedComesBack == \A c \in Calls : row[c] = 0 \/ receipt[c] # "none"
=============================================================================
