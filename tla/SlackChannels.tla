---------------------------- MODULE SlackChannels ----------------------------
(***************************************************************************)
(* The private channels of the agents in Slack (crates/renoa-slack,         *)
(* channels and automations): a channel is created, recovered when the      *)
(* answer was lost, opened to the operator and labelled with the agent's    *)
(* name; results of automations are posted there and quoted to the next     *)
(* prompts.                                                                 *)
(***************************************************************************)
EXTENDS Integers, Sequences, FiniteSets, FiniteSetsExt

CONSTANTS
    Agents, Names,
    MaxQuotes,  \* results a prompt quotes at most: the LIMIT of attach
    MaxRenames, \* bound: times an agent is given another name
    MaxRuns,    \* bound: automation runs
    MaxPrompts, \* bound: prompts in agents' channels
    MaxFaults   \* bound: crashes and failed calls

ChannelsAssumption == MaxQuotes \in Nat \ {0} /\ MaxRenames \in Nat /\ MaxRuns \in Nat /\ MaxPrompts \in Nat /\ MaxFaults \in Nat

VARIABLES
    name,    \* external, the Host: the name of each agent
    renames,
    slack,   \* Slack: per agent, whether its channel exists, is open to the operator, and its label
    chan,    \* bot_channels: pending, creating, inviting, ready
    label,   \* bot_channel_labels: base, suffix and applied, or none
    step,    \* the channels task: the agent it provisions and how far
    runs,    \* external, the Host: the agents of the completed automation runs, in order
    cursor,  \* automation_delivery_cursor
    out,     \* automation_deliveries: state and times posted
    busy,    \* the automations task: the delivery being posted, or 0
    prompt,  \* requests in the channels: agent, state, cancelled, quoted runs
    faults

vars == <<name, renames, slack, chan, label, step, runs, cursor, out, busy, prompt, faults>>
results == <<runs, cursor, out, busy, prompt>>
NoLabel == [base |-> "none", suffix |-> 0, applied |-> FALSE]
Idle == [at |-> "none", a |-> "none", l |-> NoLabel]
Fault == faults < MaxFaults /\ faults' = faults + 1

Init ==
    /\ name \in [Agents -> Names] /\ renames = 0
    /\ slack = [a \in Agents |-> [exists |-> FALSE, invited |-> FALSE, label |-> <<"none", 0>>]]
    /\ chan = [a \in Agents |-> "pending"] /\ label = [a \in Agents |-> NoLabel] /\ step = Idle
    /\ runs = <<>> /\ cursor = 0 /\ out = <<>> /\ busy = 0 /\ prompt = <<>> /\ faults = 0

Rename(a, n) ==
    /\ renames < MaxRenames /\ renames' = renames + 1 /\ name[a] # n /\ name' = [name EXCEPT ![a] = n]
    /\ UNCHANGED <<slack, chan, label, step, results, faults>>
-----------------------------------------------------------------------------
(* Channels *)

At(s) == step' = [step EXCEPT !.at = s]
To(a, s) == chan' = [chan EXCEPT ![a] = s]

(* label_plan: the label a channel should have, with the first free suffix; *)
(* none when it is applied.                                                 *)
Free(a, s) == ~\E b \in Agents \ {a} : label[b].base = name[a] /\ label[b].suffix = s
FirstFree(a, from) == CHOOSE s \in from..(from + Cardinality(Agents)) : Free(a, s) /\ \A t \in from..(s - 1) : ~Free(a, t)
Same(a) == label[a].base = name[a]
Plan(a, advance) ==
    IF Same(a) /\ ~advance THEN label[a]
    ELSE [base |-> name[a], suffix |-> FirstFree(a, IF Same(a) THEN label[a].suffix + 1 ELSE 0), applied |-> FALSE]
LabelPlan(a) ==
    LET l == Plan(a, FALSE) IN
    /\ label' = [label EXCEPT ![a] = l]
    /\ step' = IF l.applied THEN Idle ELSE [at |-> "rename", a |-> a, l |-> l]

(* provision: the state says where to go on; creating is recorded before    *)
(* the call, and looked up afterwards.                                      *)
Provision(a) ==
    /\ step.at = "none"
    /\ CASE chan[a] = "pending" -> To(a, "creating") /\ step' = [at |-> "create", a |-> a, l |-> NoLabel] /\ UNCHANGED label
         [] chan[a] = "creating" -> step' = [at |-> "find", a |-> a, l |-> NoLabel] /\ UNCHANGED <<chan, label>>
         [] chan[a] = "inviting" -> step' = [at |-> "invite", a |-> a, l |-> NoLabel] /\ UNCHANGED <<chan, label>>
         [] chan[a] = "ready" -> LabelPlan(a) /\ UNCHANGED chan
    /\ UNCHANGED <<name, renames, slack, results, faults>>

(* create_private_channel: Slack refuses a taken name; an answer may be     *)
(* lost after the channel was made.                                         *)
BindChannel(a) == To(a, "inviting") /\ At("invite")
AfterLostCreate == "creating"
CreateChannel ==
    LET a == step.a
        made == [slack EXCEPT ![a].exists = TRUE] IN
    /\ step.at = "create"
    /\ \/ ~slack[a].exists /\ slack' = made /\ BindChannel(a) /\ UNCHANGED faults
       \/ To(a, "pending") /\ step' = Idle /\ Fault /\ UNCHANGED slack
       \/ To(a, AfterLostCreate) /\ step' = Idle /\ Fault /\ slack' \in {slack, made}
    /\ UNCHANGED <<name, renames, label, results>>
FindCreatedChannel ==
    LET a == step.a IN
    /\ step.at = "find" /\ (IF slack[a].exists THEN BindChannel(a) ELSE step' = Idle /\ UNCHANGED chan)
    /\ UNCHANGED <<name, renames, slack, label, results, faults>>
InviteOperator ==
    LET a == step.a
        open == [slack EXCEPT ![a].invited = TRUE] IN
    /\ step.at = "invite"
    /\ \/ slack' = open /\ To(a, "ready") /\ LabelPlan(a) /\ UNCHANGED faults
       \/ To(a, "inviting") /\ step' = Idle /\ Fault /\ slack' \in {slack, open} /\ UNCHANGED label
    /\ UNCHANGED <<name, renames, results>>

(* rename_channel and label_result; a taken name advances the suffix.       *)
Wanted(l) == <<l.base, l.suffix>>
Taken(a, l) == \E b \in Agents \ {a} : slack[b].label = Wanted(l)
AppliedResult(a, l) == IF Wanted(label[a]) = Wanted(l) THEN [label EXCEPT ![a].applied = TRUE] ELSE label
RenameChannel ==
    LET a == step.a
        l == step.l
        named == [slack EXCEPT ![a].label = Wanted(l)] IN
    /\ step.at = "rename" /\ step' = Idle
    /\ \/ ~Taken(a, l) /\ slack' = named /\ label' = AppliedResult(a, l) /\ UNCHANGED faults
       \/ Taken(a, l) /\ label' = [label EXCEPT ![a] = Plan(a, TRUE)] /\ UNCHANGED <<slack, faults>>
       \/ ~Taken(a, l) /\ slack' \in {slack, named} /\ Fault /\ UNCHANGED label
    /\ UNCHANGED <<name, renames, chan, results>>
-----------------------------------------------------------------------------
(* Automation results *)

Complete(a) == Len(runs) < MaxRuns /\ runs' = Append(runs, a) /\ UNCHANGED <<name, renames, slack, chan, label, step, cursor, out, busy, prompt, faults>>

(* project and admit_automation_result: in one transaction with the cursor. *)
Delivery(a) == [agent |-> a, state |-> IF chan[a] = "ready" THEN "pending" ELSE "waiting", posted |-> 0]
AdmittedCursor == cursor + 1
AdmitAutomationResult ==
    /\ cursor < Len(runs) /\ cursor' = AdmittedCursor /\ out' = Append(out, Delivery(runs[cursor + 1]))
    /\ UNCHANGED <<name, renames, slack, chan, label, step, runs, busy, prompt, faults>>

(* next_automation_delivery: what waited for a channel is pending when it   *)
(* is ready; then the first pending one is claimed.                         *)
Readied == [d \in 1..Len(out) |-> IF out[d].state = "waiting" /\ chan[out[d].agent] = "ready" THEN [out[d] EXCEPT !.state = "pending"] ELSE out[d]]
ClaimAutomationDelivery ==
    LET pending == {d \in 1..Len(out) : Readied[d].state = "pending"} IN
    /\ busy = 0 /\ pending # {}
    /\ busy' = Min(pending) /\ out' = [Readied EXCEPT ![Min(pending)].state = "sending"]
    /\ UNCHANGED <<name, renames, slack, chan, label, step, runs, cursor, prompt, faults>>
AfterLostPost == "unknown"
DeliverOne ==
    LET Now(s, n) == out' = [out EXCEPT ![busy].state = s, ![busy].posted = @ + n] IN
    /\ busy # 0 /\ busy' = 0
    /\ \/ Now("sent", 1) /\ UNCHANGED faults
       \/ Now("pending", 0) /\ Fault
       \/ Now("failed", 0) /\ Fault
       \/ \E n \in 0..1 : Now(AfterLostPost, n) /\ Fault
    /\ UNCHANGED <<name, renames, slack, chan, label, step, runs, cursor, prompt>>

(* attach: a prompt quotes the latest of the posted results that no         *)
(* finished, unstopped prompt of the session has quoted.                    *)
Quoted(a) == {d \in 1..Len(out) : out[d].agent = a /\ out[d].state = "sent" /\
                \E p \in 1..Len(prompt) : d \in prompt[p].quotes /\ prompt[p].state = "done" /\ ~prompt[p].cancel}
Latest(ds) == {d \in ds : Cardinality({e \in ds : e > d}) < MaxQuotes}
Prompt(a) ==
    /\ Len(prompt) < MaxPrompts /\ slack[a].invited /\ chan[a] \in {"inviting", "ready"}
    /\ prompt' = Append(prompt, [agent |-> a, state |-> "open", cancel |-> FALSE,
                                 quotes |-> Latest({d \in 1..Len(out) : out[d].agent = a /\ out[d].state = "sent"} \ Quoted(a))])
    /\ UNCHANGED <<name, renames, slack, chan, label, step, runs, cursor, out, busy, faults>>
PromptEnds(p) ==
    /\ prompt[p].state = "open" /\ \E c \in BOOLEAN : prompt' = [prompt EXCEPT ![p].state = "done", ![p].cancel = c]
    /\ UNCHANGED <<name, renames, slack, chan, label, step, runs, cursor, out, busy, faults>>

Restart ==
    /\ Fault /\ step' = Idle /\ busy' = 0
    /\ \E n \in 0..1 : out' = [d \in 1..Len(out) |-> IF out[d].state = "sending"
                                  THEN [out[d] EXCEPT !.state = AfterLostPost, !.posted = @ + n] ELSE out[d]]
    /\ \/ UNCHANGED slack
       \/ step.at = "create" /\ slack' = [slack EXCEPT ![step.a].exists = TRUE]
       \/ step.at = "invite" /\ slack' = [slack EXCEPT ![step.a].invited = TRUE]
       \/ step.at = "rename" /\ ~Taken(step.a, step.l) /\ slack' = [slack EXCEPT ![step.a].label = Wanted(step.l)]
    /\ UNCHANGED <<name, renames, chan, label, runs, cursor, prompt>>

Channel == CreateChannel \/ FindCreatedChannel \/ InviteOperator \/ RenameChannel
Automation == AdmitAutomationResult \/ ClaimAutomationDelivery \/ DeliverOne
Next ==
    \/ Channel \/ Automation \/ Restart
    \/ \E a \in Agents : Provision(a) \/ Complete(a) \/ Prompt(a) \/ \E n \in Names : Rename(a, n)
    \/ \E p \in 1..Len(prompt) : PromptEnds(p)
(* Both tasks go on; a pass of the channels task visits every agent.        *)
Spec == Init /\ [][Next]_vars /\ WF_vars(Channel) /\ WF_vars(Automation) /\ \A a \in Agents : SF_vars(Provision(a))
-----------------------------------------------------------------------------
(* Types; no two agents are to have the same label.                         *)
TypeOK ==
    /\ \A a, b \in Agents : label[a] # NoLabel /\ Wanted(label[a]) = Wanted(label[b]) => a = b
    /\ \A a \in Agents : chan[a] \in {"inviting", "ready"} => slack[a].exists
    /\ cursor <= Len(runs)

(* A label recorded as applied is the one the channel has.                  *)
AppliedIsReal == \A a \in Agents : label[a].applied => slack[a].label = Wanted(label[a])

(* Every automation run is posted at most once, through crashes and lost    *)
(* answers.                                                                 *)
ResultsOnce == Len(out) = cursor /\ \A d \in 1..Len(out) : out[d].posted <= 1 /\ out[d].agent = runs[d]

(* A posted result stays in the context until a prompt that was not stopped *)
(* has carried it to its end, or as many later ones took its place.         *)
ResultsReachThePrompt ==
    \A p \in 1..Len(prompt) : \A d \in 1..Len(out) :
        LET before == {q \in 1..Len(prompt) : q < p /\ d \in prompt[q].quotes} IN
        before # {} /\ prompt[p].agent = out[d].agent /\ (\A q \in before : prompt[q].state = "open" \/ prompt[q].cancel) =>
            d \in prompt[p].quotes \/ Cardinality({e \in prompt[p].quotes : e > d}) = MaxQuotes

(* An agent whose channel exists, or may be created, gets it, labelled with *)
(* its last name; only a creation that was lost before it reached Slack     *)
(* stays unresolved.                                                        *)
ChannelsBecomeReady ==
    \A a \in Agents :
        \/ chan[a] = "ready" /\ slack[a].invited /\ label[a].base = name[a] /\ label[a].applied
        \/ chan[a] = "creating" /\ ~slack[a].exists

(* Results that waited for a channel are posted once it is ready.           *)
ResultsSettle ==
    \A d \in 1..Len(out) : out[d].state \in {"sent", "failed", "unknown"} \/ chan[out[d].agent] # "ready"
==============================================================================
