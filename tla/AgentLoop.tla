----------------------------- MODULE AgentLoop -----------------------------
(***************************************************************************)
(* The model and tool loop of an agent: the loop plugin the kernel drives. *)
(* Each decision reads the durable history and the loop's checkpoint and   *)
(* gives the next checkpoint, the events to append and the effects to run; *)
(* the kernel commits all three together.  Effects are dispatched and      *)
(* settled one by one, and a stop, a cancellation or an effect whose       *)
(* outcome is unknown may come between any two of them.                    *)
(*                                                                         *)
(* The history is a sequence of events, and an event's sequence number is  *)
(* its place.  A message counts for one token; a checkpoint's summary for  *)
(* Summary.                                                                *)
(***************************************************************************)
EXTENDS Naturals, Sequences, FiniteSets, FiniteSetsExt, SequencesExt

CONSTANTS
  Commands,       \* the commands of the conversation, in order
  Responses,      \* the tool names a model response may call, in order
  MaxModelTurns, MaxToolCalls,
  Dispatch,       \* dispatch_limit_tokens
  Automatic,      \* automatic_compaction_input_tokens
  TailBudget,     \* tail_budget_tokens
  Summary,        \* what a checkpoint summary counts for
  MaxAttempts, MaxWaves,
  MaxStops,       \* bound on process stops
  Bad             \* outcomes beyond the ordinary that effects may have

LimitsOrdered == TailBudget < Automatic /\ Automatic <= Dispatch

VARIABLES
  hist,     \* the session's semantic events
  op,       \* the operation driven now, an index of Commands
  phase,    \* its checkpoint
  eff,      \* the effect batch it waits for
  cancel,   \* its cancellation was requested
  ended,    \* how each operation ended
  asked,    \* the history places of the last model request
  stops

vars == <<hist, op, phase, eff, cancel, ended, asked, stops>>

Ops == 1..Len(Commands)

-----------------------------------------------------------------------------
(* Events and phases.                                                      *)

Event(k, calls, call, through) ==
  [op |-> op, k |-> k, calls |-> calls, call |-> call, through |-> through]
UserEvent == Event("user", <<>>, 0, 0)
AssistantEvent(calls) == Event("assistant", calls, 0, 0)
ToolEvent(call) == Event("tool", <<>>, call, 0)
CheckpointEvent(through) == Event("checkpoint", <<>>, 0, through)
ToolEvents(calls) == [i \in 1..Len(calls) |-> ToolEvent(calls[i])]

Phase(p, turns, pending) ==
  [p |-> p, turns |-> turns, pending |-> pending, through |-> 0, attempt |-> 0, wave |-> 0]
Fresh == Phase("None", 0, <<>>)
Terminal == Phase("Terminal", 0, <<>>)

Requested == [st |-> "requested", out |-> "none", calls |-> <<>>, length |-> FALSE]

Init ==
  /\ hist = <<>>
  /\ op = 1
  /\ phase = Fresh
  /\ eff = <<>>
  /\ cancel = FALSE
  /\ ended = [o \in Ops |-> "open"]
  /\ asked = {}
  /\ stops = 0

-----------------------------------------------------------------------------
(* The context of an operation: what a model request shows of the history. *)

MessagesOf(o) == {i \in DOMAIN hist : hist[i].op = o /\ hist[i].k # "checkpoint"}
Receipted(o) == o # op /\ Commands[o] = "receipted"

\* A finished receipted operation is seen as one message at its last place.
Entries ==
  {i \in DOMAIN hist : /\ hist[i].k # "checkpoint"
                       /\ Receipted(hist[i].op) => i = Max(MessagesOf(hist[i].op))}
Kind(i) == IF Receipted(hist[i].op) THEN "user" ELSE hist[i].k

\* The last activated checkpoint; one that falls inside a receipted operation
\* covers all of it.
Covered ==
  LET through == {hist[i].through : i \in {j \in DOMAIN hist : hist[j].k = "checkpoint"}}
      c == IF through = {} THEN 0 ELSE Max(through)
  IN IF c # 0 /\ Receipted(hist[c].op) THEN Max(MessagesOf(hist[c].op)) ELSE c

After == {i \in Entries : i > Covered}
Anchor == Min(MessagesOf(op))
Tokens(places) == Cardinality(places) + (IF Covered > 0 THEN Summary ELSE 0)

Projected == After \cup (IF MessagesOf(op) # {} THEN {Anchor} ELSE {})

\* Calls of the history through place i that have no result yet.
Unresolved(i) ==
  LET asst == {j \in Entries : j <= i /\ Kind(j) = "assistant"} IN
  IF asst = {} THEN {}
  ELSE LET a == Max(asst) IN
       {c \in ToSet(hist[a].calls) :
          \A j \in (a + 1)..i : hist[j].k # "tool" \/ hist[j].call # c}

\* Where a checkpoint may end: after a whole earlier operation, or after a
\* whole tool group of the active one.
SafeCuts ==
  {i \in After : \/ hist[i].op # op /\ \A j \in Entries : j > i => hist[j].op # hist[i].op
                 \/ hist[i].op = op /\ Kind(i) = "tool" /\ Unresolved(i) = {}}

\* last_fitting_summary: the furthest cut whose summary request fits.
Fitting == {c \in SafeCuts : Tokens({i \in After : i <= c}) <= Dispatch}

\* first_tail_within_budget: the nearest of them whose tail is in budget.
TailAfter(c) == {i \in Entries : i > c} \cup (IF Anchor <= c THEN {Anchor} ELSE {})
WithinBudget == {c \in Fitting : Cardinality(TailAfter(c)) <= TailBudget}

\* select_plan: a place, or 0 when nothing can be summarised.
Plan ==
  IF Fitting = {} THEN 0
  ELSE IF WithinBudget # {} THEN Min(WithinBudget) ELSE Max(Fitting)

\* CompactingContextStrategy.prepare.
Prepare(required) ==
  LET size == Tokens(Projected) IN
  IF ~required /\ size <= Dispatch /\ (size < Automatic \/ Automatic = Dispatch) THEN "model"
  ELSE IF Plan # 0 THEN "compact"
  ELSE IF ~required /\ size <= Dispatch THEN "model"
  ELSE "capacity"

\* validate_plan: the boundary advances the checkpoint and is a safe cut.
ValidPlan(through) == through > Covered /\ through \in SafeCuts

-----------------------------------------------------------------------------
(* Decisions.  Each is committed in one transaction.                       *)

Running == ended[op] = "open" /\ ~cancel
Settled == eff # <<>> /\ \A i \in DOMAIN eff : eff[i].st = "settled"

Continue(next, events) ==
  /\ phase' = next /\ hist' = hist \o events /\ eff' = <<>>
  /\ UNCHANGED <<op, cancel, ended, stops>>

Invoke(next, n) ==
  /\ phase' = next /\ eff' = [i \in 1..n |-> Requested]
  /\ UNCHANGED <<hist, op, cancel, ended, stops>>

Finish(how, events) ==
  /\ phase' = Terminal /\ hist' = hist \o events /\ eff' = <<>>
  /\ ended' = [ended EXCEPT ![op] = how]
  /\ UNCHANGED <<op, cancel, stops>>

KeepAsked == UNCHANGED asked

\* decide_initial.
DecideInitial ==
  /\ Running /\ phase.p = "None" /\ KeepAsked
  /\ IF Commands[op] # "compact"
     THEN Continue(Phase("NeedModel", 0, <<>>), <<UserEvent>>)
     ELSE IF Entries = {} \/ Covered >= Max(Entries)
     THEN Finish("completed", <<>>)
     ELSE IF Fitting = {}
     THEN Finish("failed", <<>>)
     ELSE Invoke([Phase("AwaitingExplicit", 0, <<>>) EXCEPT !.through = Max(Fitting), !.attempt = 1], 1)

InvokeCompaction(turns, through, attempt) ==
  Invoke([Phase("AwaitingCompaction", turns, <<>>) EXCEPT !.through = through, !.attempt = attempt], 1)

\* request_model: the turn limit, then the context as the strategy prepares
\* it.
RequestModel ==
  /\ Running /\ phase.p = "NeedModel"
  /\ IF phase.turns >= MaxModelTurns
     THEN Finish("failed", <<>>) /\ KeepAsked
     ELSE CASE Prepare(FALSE) = "model" ->
                 /\ asked' = Projected
                 /\ Invoke(Phase("AwaitingModel", phase.turns + 1, <<>>), 1)
            [] Prepare(FALSE) = "compact" ->
                 InvokeCompaction(phase.turns, Plan, 1) /\ KeepAsked
            [] OTHER -> Finish("failed", <<>>) /\ KeepAsked

\* Call identifiers are unique within the operation.
CallsOf(out) ==
  [i \in 1..Len(out.calls) |-> [turn |-> phase.turns, at |-> i, name |-> out.calls[i]]]

ClassifyBad(out) ==
  LET calls == CallsOf(out) IN
  IF calls = <<>> THEN Finish("completed", <<AssistantEvent(<<>>)>>)
  ELSE IF out.length
  THEN Continue(Phase("NeedModel", phase.turns, <<>>), <<AssistantEvent(calls)>>)
  ELSE Continue(Phase("NeedTool", phase.turns, calls), <<AssistantEvent(calls)>>)

\* classify_model_response.  A response cut off by its token limit runs none
\* of its calls.
Classify(out) ==
  LET calls == CallsOf(out) IN
  IF Len(calls) > MaxToolCalls THEN Finish("failed", <<>>)
  ELSE IF calls = <<>> THEN Finish("completed", <<AssistantEvent(<<>>)>>)
  ELSE IF out.length
  THEN Continue(Phase("NeedModel", phase.turns, <<>>),
                <<AssistantEvent(calls)>> \o ToolEvents(calls))
  ELSE Continue(Phase("NeedTool", phase.turns, calls), <<AssistantEvent(calls)>>)

\* settle_model: a rejected context is compacted unless the limit is reached.
SettleModel ==
  /\ Running /\ phase.p = "AwaitingModel" /\ Settled /\ KeepAsked
  /\ LET out == eff[1] IN
     CASE out.out = "ok" -> Classify(out)
       [] out.out = "overflow" /\ phase.turns < MaxModelTurns /\ Prepare(TRUE) = "compact" ->
            InvokeCompaction(phase.turns, Plan, 1)
       [] OTHER -> Finish("failed", <<>>)

RetryBad == Invoke(phase, 1)

\* retry_or_fail_compaction: the same frozen plan, a bounded number of times.
Retry ==
  IF phase.attempt >= MaxAttempts THEN Finish("failed", <<>>)
  ELSE Invoke([phase EXCEPT !.attempt = @ + 1], 1)

\* settle_compaction_for, of a turn and of the compact command.
SettleCompaction ==
  /\ Running /\ phase.p \in {"AwaitingCompaction", "AwaitingExplicit"} /\ Settled /\ KeepAsked
  /\ CASE eff[1].out = "ok" ->
            IF phase.p = "AwaitingCompaction"
            THEN Continue(Phase("NeedModel", phase.turns, <<>>), <<CheckpointEvent(phase.through)>>)
            ELSE Finish("completed", <<CheckpointEvent(phase.through)>>)
       [] eff[1].out = "malformed" -> Retry
       [] OTHER -> Finish("failed", <<>>)

Current == Head(phase.pending)

\* append_tool_result: the next call of the response, or the next request.
AppendResult ==
  Continue(IF Len(phase.pending) > 1
           THEN Phase("NeedTool", phase.turns, SubSeq(phase.pending, 2, Len(phase.pending)))
           ELSE Phase("NeedModel", phase.turns, <<>>),
           <<ToolEvent(Current)>>)

\* close_turn: the result, an error for every later call, and the closing
\* message as the last assistant message.  The message is never empty: the
\* Host's one tool that closes a turn writes it (an empty one would be a loop
\* error).
CloseTurn == Finish("waiting", ToolEvents(phase.pending) \o <<AssistantEvent(<<>>)>>)

\* fail_tool: every pending call gets an error result.
FailTool == Finish("failed", ToolEvents(phase.pending))

\* request_tool.  A name that is not configured is answered without an effect;
\* code that is empty or too long likewise.
RequestTool ==
  /\ Running /\ phase.p = "NeedTool" /\ KeepAsked
  /\ \/ Current.name = "tool" /\ Invoke([phase EXCEPT !.p = "AwaitingTool"], 1)
     \/ Current.name = "code" /\ Invoke([phase EXCEPT !.p = "AwaitingCodeStep"], 1)
     \/ Current.name \in {"absent", "code"} /\ AppendResult

SettleTool ==
  /\ Running /\ phase.p = "AwaitingTool" /\ Settled /\ KeepAsked
  /\ CASE eff[1].out = "ok" -> AppendResult
       [] eff[1].out = "closing" -> CloseTurn
       [] OTHER -> FailTool

\* settle_code_step: a final value, or a wave of nested calls within the
\* run's budget.
SettleCodeStep ==
  /\ Running /\ phase.p = "AwaitingCodeStep" /\ Settled /\ KeepAsked
  /\ CASE eff[1].out \in {"ok", "big"} -> AppendResult
       [] eff[1].out = "suspended" /\ phase.wave < MaxWaves ->
            \E n \in 1..2 :
              Invoke([phase EXCEPT !.p = "AwaitingCodeCalls", !.wave = @ + 1], n)
       [] OTHER -> FailTool

\* settle_code_calls, in the order of the calls: a failure ends the turn, a
\* result beyond the wave's limit is one error for the model, and a closing
\* among results that fit stops the run.
FirstBad == {i \in DOMAIN eff : eff[i].out \in {"failure", "big"}}
SettleCodeCalls ==
  /\ Running /\ phase.p = "AwaitingCodeCalls" /\ Settled /\ KeepAsked
  /\ IF FirstBad # {}
     THEN IF eff[Min(FirstBad)].out = "failure" THEN FailTool ELSE AppendResult
     ELSE IF \E i \in DOMAIN eff : eff[i].out = "closing" THEN CloseTurn
     ELSE Invoke([phase EXCEPT !.p = "AwaitingCodeStep"], 1)

-----------------------------------------------------------------------------
(* The kernel around the loop.                                             *)

OutcomesOf(p) ==
  CASE p = "AwaitingModel" -> {"ok", "overflow", "failure"}
    [] p \in {"AwaitingCompaction", "AwaitingExplicit"} -> {"ok", "malformed", "failure"}
    [] p = "AwaitingTool" -> {"ok", "closing", "failure"}
    [] p = "AwaitingCodeStep" -> {"ok", "suspended", "big", "failure"}
    [] p = "AwaitingCodeCalls" -> {"ok", "closing", "big", "failure"}
    [] OTHER -> {}

DispatchEffect(i) ==
  /\ ended[op] = "open" /\ ~cancel /\ eff[i].st = "requested"
  /\ eff' = [eff EXCEPT ![i].st = "dispatched"]
  /\ UNCHANGED <<hist, op, phase, cancel, ended, asked, stops>>

\* An adapter answers, or cannot say what came of it.
SettleEffect(i, out, calls, length) ==
  /\ ended[op] = "open" /\ eff[i].st = "dispatched"
  /\ out \in {"ok", "suspended"} \cup Bad
  /\ out \in OutcomesOf(phase.p)
  /\ (calls # <<>> \/ length) => phase.p = "AwaitingModel" /\ out = "ok"
  /\ eff' = [eff EXCEPT ![i] = [st |-> "settled", out |-> out, calls |-> calls, length |-> length]]
  /\ UNCHANGED <<hist, op, phase, cancel, ended, asked, stops>>

LoseEffect(i) ==
  /\ ended[op] = "open" /\ eff[i].st = "dispatched" /\ "unknown" \in Bad
  /\ eff' = [eff EXCEPT ![i].st = "unknown"]
  /\ UNCHANGED <<hist, op, phase, cancel, ended, asked, stops>>

\* A stop: a replayable effect is dispatched again, any other is unknown.
Stop ==
  /\ stops < MaxStops /\ stops' = stops + 1
  /\ eff' = [i \in DOMAIN eff |->
               IF eff[i].st # "dispatched" THEN eff[i]
               ELSE [eff[i] EXCEPT !.st = IF phase.p \in {"AwaitingTool", "AwaitingCodeCalls"}
                                          THEN "unknown" ELSE "requested"]]
  /\ UNCHANGED <<hist, op, phase, cancel, ended, asked>>

RequestCancel ==
  /\ ended[op] = "open" /\ ~cancel /\ "cancel" \in Bad
  /\ cancel' = TRUE
  /\ UNCHANGED <<hist, op, phase, eff, ended, asked, stops>>

\* cancel_operation: calls not yet answered get an error result, except that
\* a result the current tool settled with is kept.
CancelEvents ==
  IF phase.p \in {"NeedTool", "AwaitingTool", "AwaitingCodeStep", "AwaitingCodeCalls"}
  THEN ToolEvents(phase.pending) ELSE <<>>

\* The kernel cancels once nothing of the batch is running.
CancelOperation ==
  /\ ended[op] = "open" /\ cancel
  /\ \A i \in DOMAIN eff : eff[i].st # "dispatched"
  /\ Finish("cancelled", CancelEvents) /\ KeepAsked

\* abandon_unknown_effect, asked for by the owner.
Abandon ==
  /\ Running /\ \E i \in DOMAIN eff : eff[i].st = "unknown"
  /\ \A i \in DOMAIN eff : eff[i].st \in {"settled", "unknown"}
  /\ Finish("unknown", CancelEvents) /\ KeepAsked

\* The next command of the session.
NextCommand ==
  /\ ended[op] # "open" /\ op < Len(Commands)
  /\ op' = op + 1 /\ phase' = Fresh /\ cancel' = FALSE /\ asked' = {}
  /\ UNCHANGED <<hist, eff, ended, stops>>

Done == ended[op] # "open" /\ op = Len(Commands) /\ UNCHANGED vars

Decide ==
  \/ DecideInitial \/ RequestModel \/ SettleModel \/ SettleCompaction
  \/ RequestTool \/ SettleTool \/ SettleCodeStep \/ SettleCodeCalls

Settle == \E i \in DOMAIN eff : \E out \in {"ok", "suspended"} \cup Bad :
            \E calls \in Responses \cup {<<>>} : \E length \in BOOLEAN :
              SettleEffect(i, out, calls, length)

Next ==
  \/ Decide \/ Settle \/ Stop \/ RequestCancel \/ CancelOperation \/ Abandon
  \/ NextCommand \/ Done
  \/ \E i \in DOMAIN eff : DispatchEffect(i) \/ LoseEffect(i)

\* The kernel drives the operation and every adapter answers in the end.  An
\* unknown effect waits for its owner.
Fairness ==
  /\ WF_vars(Decide) /\ WF_vars(CancelOperation) /\ WF_vars(Settle)
  /\ WF_vars(\E i \in DOMAIN eff : DispatchEffect(i))
  /\ WF_vars(NextCommand)

Spec == Init /\ [][Next]_vars
FairSpec == Spec /\ Fairness

-----------------------------------------------------------------------------
(* Properties.                                                             *)

Phases == {"None", "NeedModel", "AwaitingModel", "AwaitingCompaction", "AwaitingExplicit",
           "NeedTool", "AwaitingTool", "AwaitingCodeStep", "AwaitingCodeCalls", "Terminal"}

\* The checkpoint and the batch it waits for agree: a phase that awaits
\* nothing has no effects, every other one has a batch.
TypeOK ==
  /\ phase.p \in Phases
  /\ phase.turns \in 0..MaxModelTurns /\ phase.attempt \in 0..MaxAttempts
  /\ phase.wave \in 0..MaxWaves
  /\ \A o \in Ops : ended[o] \in {"open", "completed", "failed", "waiting", "cancelled", "unknown"}
  /\ (phase.p \in {"None", "NeedModel", "NeedTool", "Terminal"}) <=> (eff = <<>>)
  /\ (phase.p = "Terminal") <=> (ended[op] # "open")

Messages(o) == SelectSeq(hist, LAMBDA e : e.op = o /\ e.k # "checkpoint")
Unanswered(m) ==   \* of the messages m, the calls of the last assistant message left
  LET asst == {i \in DOMAIN m : m[i].k = "assistant"} IN
  IF asst = {} THEN <<>>
  ELSE LET a == Max(asst) IN SubSeq(m[a].calls, Len(m) - a + 1, Len(m[a].calls))

\* However an operation proceeds or ends (limits, failures, closings,
\* cancellation, unknown outcomes), each call of an assistant message has one
\* result, in the calls' order, before anything else is said; only the calls
\* of the checkpoint's pending list are still unanswered, and none once the
\* operation has ended.
Transcript ==
  \A o \in Ops :
    LET m == Messages(o) IN
    /\ \A i \in DOMAIN m :
         LET before == Unanswered(SubSeq(m, 1, i - 1)) IN
         IF m[i].k = "tool" THEN before # <<>> /\ m[i].call = Head(before)
         ELSE before = <<>> /\ ((m[i].k = "user") <=> (i = 1))
    /\ Unanswered(m) = IF o = op /\ ended[o] = "open" THEN phase.pending ELSE <<>>

\* A settled, unknown or cancelled request is recognised: what the history
\* gives again is the very request that was sent, and a frozen compaction
\* plan is still valid, so no later decision is a loop error.
RequestRecovered ==
  /\ phase.p = "AwaitingModel" => Prepare(FALSE) = "model" /\ Projected = asked
  /\ phase.p \in {"AwaitingCompaction", "AwaitingExplicit"} => ValidPlan(phase.through)

\* No request goes to the provider beyond the dispatch limit.
FitsWindow == phase.p = "AwaitingModel" => Tokens(asked) <= Dispatch

\* What the model is shown holds the message it must answer, and a tool
\* result only together with the call it answers and every other result of
\* the group.
ContextWhole ==
  phase.p = "AwaitingModel" =>
    /\ Anchor \in asked
    /\ \A i \in asked, j \in DOMAIN hist :
         /\ Kind(i) = "tool" /\ Kind(j) = "assistant" /\ hist[j].op = hist[i].op
         /\ hist[i].call \in ToSet(hist[j].calls)
         => j \in asked
    /\ \A i \in asked :
         Kind(i) = "assistant" =>
           \A c \in ToSet(hist[i].calls) :
             \E j \in asked : Kind(j) = "tool" /\ hist[j].op = hist[i].op /\ hist[j].call = c

\* Every activated checkpoint covers more than the one before.
CheckpointAdvances ==
  \A i, j \in DOMAIN hist :
    i < j /\ hist[i].k = "checkpoint" /\ hist[j].k = "checkpoint" =>
      hist[i].through < hist[j].through /\ hist[j].through < j

\* The turn limit, the bounded compaction attempts and the budget of a Code
\* Mode run end every operation, unless an effect's outcome is unknown and its
\* owner does not abandon it.
OperationsEnd ==
  (\A o \in Ops : ended[o] # "open") \/ \E i \in DOMAIN eff : eff[i].st = "unknown"

=============================================================================
