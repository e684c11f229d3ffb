---------------------------- MODULE RenoaKernel ----------------------------
(***************************************************************************)
(* The durable execution kernel (crates/renoa-kernel).  A session admits    *)
(* operations in order; a caller of Kernel::drive takes the session's       *)
(* in-memory lease, activates the next operation and advances it one SQLite *)
(* transaction at a time.  The loop plugin decides; external work is a      *)
(* batch of effects whose intent, dispatch and settlement are separate      *)
(* commits.  Requests for cancellation commit at any time without a lease;  *)
(* a blocked operation may be abandoned; a drive may fail or be dropped at  *)
(* any step, and the process may crash.                                     *)
(*                                                                          *)
(* One action is one transaction, or one step in memory that another thread *)
(* can observe.  An error return anywhere in a drive is DriveEnds.          *)
(***************************************************************************)
EXTENDS Integers, FiniteSets, Sequences

CONSTANTS
    Sessions,    \* sessions, each created under its agent
    Ops,         \* operations; one per admitted command
    Workers,     \* callers of drive and abandon_unknown_effect
    CancelIds,   \* caller-stable cancellation identities
    Manifests,   \* runtime manifests a caller may bring
    MaxBatches,  \* bound: effect batches per operation
    MaxChildren, \* bound: effects per batch
    MaxAppend,   \* bound: semantic events per loop transition
    MaxEvents,   \* bound: semantic events per session
    MaxFaults,   \* bound: failed drives and crashes
    Null,        \* SQL NULL, or an absent map entry
    Unbound      \* a lease not yet bound to an operation

ASSUME BoundsAssumption ==
    /\ MaxBatches \in Nat /\ MaxChildren \in Nat /\ MaxAppend \in Nat
    /\ MaxEvents \in Nat /\ MaxFaults \in Nat

ASSUME NullAssumption ==
    /\ Null \notin Sessions \cup Ops \cup Workers \cup Manifests
    /\ Unbound \notin Ops /\ Unbound # Null

VARIABLES
    (* durable: rows of the kernel database *)
    active,   \* sessions.active_operation_id
    nextPos,  \* sessions.next_command_position
    nextSeq,  \* sessions.next_event_sequence
    events,   \* semantic_events
    op,       \* operations
    eff,      \* effects (with their effect_batches)
    cancel,   \* cancellation_requests
    (* volatile: memory of the process *)
    running,  \* the RunningSessions map: bound operation and token per lease
    worker,   \* each caller's place in drive or abandon, and its snapshot
    tasks,    \* spawned effect tasks, each holding a clone of the lease
    signals,  \* committed cancellation requests not yet signalled
    (* history *)
    invoked,  \* adapter invocations per effect
    faults    \* failed drives and crashes so far

durable == <<active, nextPos, nextSeq, events, op, eff, cancel>>
volatile == <<running, worker, tasks, signals>>
vars == <<active, nextPos, nextSeq, events, op, eff, cancel,
          running, worker, tasks, signals, invoked, faults>>
-----------------------------------------------------------------------------
(* Rows *)

Live == {"need_decision", "effect_intent", "effect_dispatched", "outcome_unknown"}
Terminal == {"waiting", "completed", "failed", "cancelled"}
Phases == {"absent", "queued"} \cup Live \cup Terminal
Outcomes == {"none", "waiting", "completed", "failed", "abandoned", "cancelled"}
Statuses == {"none", "intent_committed", "dispatch_started", "settled", "outcome_unknown"}
Recoveries == {"safe_to_replay", "never_replay"}
MaxLiveDispatches == 2

Batches == 1..MaxBatches
EffectIds == Ops \X Batches \X (1..MaxChildren)

OpRow == [session: Sessions \cup {Null}, position: Nat, phase: Phases,
          version: Nat, manifest: Manifests \cup {Null}, current: Batches \cup {0},
          input: Batches \cup {0}, next: 0..MaxBatches, outcome: Outcomes]
EffRow == [status: Statuses, recovery: Recoveries, count: Nat,
           request: {"absent", "kept", "released"}]
Event == [session: Sessions, sequence: Nat, op: Ops]
Task == [effect: EffectIds, attempt: Nat, owner: Workers \cup {Null}]
Completion == [effect: EffectIds, attempt: Nat, result: {"settled", "unknown"}]
Pcs == {"idle", "activate", "bind", "check", "close", "step", "attempts",
        "reload", "abandon", "abandonCommit"}
WorkerState == [pc: Pcs, session: Sessions \cup {Null}, op: Ops \cup {Null},
                manifest: Manifests \cup {Null}, phase: Phases, version: Nat,
                input: Batches \cup {0}, seq: Nat, unspawned: SUBSET EffectIds,
                inbox: SUBSET Completion, finished: BOOLEAN]

NoRow == [session |-> Null, position |-> 0, phase |-> "absent", version |-> 0,
          manifest |-> Null, current |-> 0, input |-> 0, next |-> 0,
          outcome |-> "none"]
NoEffect == [status |-> "none", recovery |-> "safe_to_replay", count |-> 0,
             request |-> "absent"]
IdleWorker == [pc |-> "idle", session |-> Null, op |-> Null, manifest |-> Null,
               phase |-> "absent", version |-> 0, input |-> 0, seq |-> 0,
               unspawned |-> {}, inbox |-> {}, finished |-> FALSE]
Entry(bound, cancelled) == [bound |-> bound, cancelled |-> cancelled]
NoEntry == Entry(Null, FALSE)

Init ==
    /\ active = [s \in Sessions |-> Null]
    /\ nextPos = [s \in Sessions |-> 0]
    /\ nextSeq = [s \in Sessions |-> 0]
    /\ events = {}
    /\ op = [o \in Ops |-> NoRow]
    /\ eff = [e \in EffectIds |-> NoEffect]
    /\ cancel = [i \in CancelIds |-> Null]
    /\ running = [s \in Sessions |-> NoEntry]
    /\ worker = [w \in Workers |-> IdleWorker]
    /\ tasks = {}
    /\ signals = {}
    /\ invoked = [e \in EffectIds |-> 0]
    /\ faults = 0

Requested(o) == \E i \in CancelIds : cancel[i] = o
Children(o, b) == {e \in EffectIds : e[1] = o /\ e[2] = b /\ eff[e].status # "none"}
Some(rows, o, b, status) == \E e \in Children(o, b) : rows[e].status = status

(* Updates of an effect row, and of a caller's state.                        *)
Marked(row, status) == [row EXCEPT !.status = status]
Started(row) == [row EXCEPT !.status = "dispatch_started", !.count = @ + 1]
Released(row) == [row EXCEPT !.request = "released"]

Starting(pc, s, o, m) ==
    [IdleWorker EXCEPT !.pc = pc, !.session = s, !.op = o, !.manifest = m]
At(state, pc) == [state EXCEPT !.pc = pc]
Snapshot(state, o, row, pc) ==
    [state EXCEPT !.pc = pc, !.op = o, !.phase = row.phase, !.version = row.version,
                  !.input = row.input, !.finished = FALSE]
ReadyToCommit(state, version, seq, pc) ==
    [state EXCEPT !.pc = pc, !.version = version, !.seq = seq]
Attempting(state, es) == [state EXCEPT !.pc = "attempts", !.version = @ + 1, !.unspawned = es]
Spawned(state, e) == [state EXCEPT !.unspawned = @ \ {e}]
Delivered(state, done) == [state EXCEPT !.inbox = @ \cup {done}]
Received(state, done, finished) == [state EXCEPT !.inbox = @ \ {done}, !.finished = finished]
-----------------------------------------------------------------------------
(* The lease.  The map entry goes when the last clone of the lease goes: the *)
(* caller's own, or that of an effect task still in flight.                  *)

HoldsWithoutTasks(ws, ts, s) == \E w \in Workers : ws[w].session = s
Holds(ws, ts, s) == \/ \E w \in Workers : ws[w].session = s
                    \/ \E t \in ts : op[t.effect[1]].session = s
AfterDropKept(ws, ts) == running
AfterDrop(ws, ts) ==
    [s \in Sessions |-> IF Holds(ws, ts, s) THEN running[s] ELSE NoEntry]

AcquireUnchecked(w, s, start) ==
    /\ worker[w].pc = "idle"
    /\ running' = [running EXCEPT ![s] = Entry(Unbound, FALSE)]
    /\ worker' = [worker EXCEPT ![w] = start]
Acquire(w, s, start) ==
    /\ worker[w].pc = "idle"
    /\ running[s] = NoEntry
    /\ running' = [running EXCEPT ![s] = Entry(Unbound, FALSE)]
    /\ worker' = [worker EXCEPT ![w] = start]

Goto(w, state) == worker' = [worker EXCEPT ![w] = state] /\ UNCHANGED running

Disowned(t, w) == [effect |-> t.effect, attempt |-> t.attempt,
                   owner |-> IF t.owner = w THEN Null ELSE t.owner]

(* The caller returns.  Its effect tasks lose their owner, and so are        *)
(* cancelled, but hold the lease until their adapters resolve.               *)
Return(w) ==
    /\ worker' = [worker EXCEPT ![w] = IdleWorker]
    /\ tasks' = {Disowned(t, w) : t \in tasks}
    /\ running' = AfterDrop(worker', tasks')
-----------------------------------------------------------------------------
(* Admission and cancellation requests: no lease is taken. *)

Unfinished(s) == {o \in Ops : op[o].session = s /\ op[o].outcome = "none"}

NewRowShifted(s) == [NoRow EXCEPT !.session = s, !.position = nextPos[s] - 1, !.phase = "queued"]
NewRow(s) == [NoRow EXCEPT !.session = s, !.position = nextPos[s], !.phase = "queued"]

Admit(o, s) ==
    /\ op[o].phase = "absent"
    /\ op' = [op EXCEPT ![o] = NewRow(s)]
    /\ nextPos' = [nextPos EXCEPT ![s] = @ + 1]
    /\ UNCHANGED <<active, nextSeq, events, eff, cancel, volatile, invoked, faults>>

Submit(o, s) == Admit(o, s)

SubmitExclusive(o, s) == Unfinished(s) = {} /\ Admit(o, s)

IsCancellableUnblocked(o) == op[o].phase \in Live \ {"outcome_unknown"}
IsCancellable(o) == op[o].phase \in Live

(* request_cancellation commits, and signals the running drive afterwards.   *)
RequestCancellation(i, o) ==
    /\ cancel[i] = Null
    /\ \/ op[o].phase = "queued"
       \/ op[o].session # Null /\ active[op[o].session] = o /\ IsCancellable(o)
    /\ cancel' = [cancel EXCEPT ![i] = o]
    /\ signals' = signals \cup {o}
    /\ UNCHANGED <<active, nextPos, nextSeq, events, op, eff,
                   running, worker, tasks, invoked, faults>>

(* A retry of a committed request signals only the active operation.         *)
RetryCancellation(i) ==
    /\ cancel[i] # Null
    /\ active[op[cancel[i]].session] = cancel[i]
    /\ signals' = signals \cup {cancel[i]}
    /\ UNCHANGED <<durable, running, worker, tasks, invoked, faults>>

SignalSession(o) ==
    /\ o \in signals
    /\ signals' = signals \ {o}
    /\ running' = [running EXCEPT ![op[o].session] = Entry(@.bound, TRUE)]
    /\ UNCHANGED <<durable, worker, tasks, invoked, faults>>
SignalRunningOperation(o) ==
    /\ o \in signals
    /\ signals' = signals \ {o}
    /\ running' = [s \in Sessions |-> IF s = op[o].session /\ running[s].bound = o
                                      THEN Entry(o, TRUE)
                                      ELSE running[s]]
    /\ UNCHANGED <<durable, worker, tasks, invoked, faults>>
-----------------------------------------------------------------------------
(* drive: acquire, activate, bind *)

Drive(w, s, m) ==
    /\ Acquire(w, s, Starting("activate", s, Null, m))
    /\ UNCHANGED <<durable, tasks, signals, invoked, faults>>

Queued(s) == {o \in Ops : op[o].session = s /\ op[o].phase = "queued"}
NewestQueued(s, o) ==
    o \in Queued(s) /\ \A p \in Queued(s) : op[o].position >= op[p].position
NextQueued(s, o) ==
    o \in Queued(s) /\ \A p \in Queued(s) : op[o].position <= op[p].position

Activated(row, m) == [row EXCEPT !.phase = "need_decision", !.version = @ + 1, !.manifest = m]

ActivateNext(w, o) ==
    LET s == worker[w].session
    IN  /\ worker[w].pc = "activate"
        /\ active[s] = Null
        /\ NextQueued(s, o)
        /\ op' = [op EXCEPT ![o] = Activated(@, worker[w].manifest)]
        /\ active' = [active EXCEPT ![s] = o]
        /\ Goto(w, Snapshot(worker[w], o, op'[o], "bind"))
        /\ UNCHANGED <<nextPos, nextSeq, events, eff, cancel, tasks, signals, invoked, faults>>

ActivateOwned(w) ==
    LET o == active[worker[w].session]
    IN  /\ worker[w].pc = "activate"
        /\ o # Null
        /\ Goto(w, Snapshot(worker[w], o, op[o], "bind"))
        /\ UNCHANGED <<durable, tasks, signals, invoked, faults>>

DriveIdle(w) ==
    /\ worker[w].pc = "activate"
    /\ active[worker[w].session] = Null
    /\ Queued(worker[w].session) = {}
    /\ Return(w)
    /\ UNCHANGED <<durable, signals, invoked, faults>>

BindForgotten(w) ==
    /\ worker[w].pc = "bind"
    /\ worker' = [worker EXCEPT ![w] = At(@, "check")]
    /\ UNCHANGED <<durable, running, tasks, signals, invoked, faults>>
(* The lease is bound first; a runtime other than the frozen one is refused. *)
Bind(w) ==
    /\ worker[w].pc = "bind"
    /\ IF op[worker[w].op].manifest = worker[w].manifest
          THEN /\ running' = [running EXCEPT ![worker[w].session] = Entry(worker[w].op, @.cancelled)]
               /\ worker' = [worker EXCEPT ![w] = At(@, "check")]
               /\ UNCHANGED tasks
          ELSE Return(w)
    /\ UNCHANGED <<durable, signals, invoked, faults>>

LoadActive(w) ==
    /\ worker[w].pc = "reload"
    /\ active[worker[w].session] = worker[w].op
    /\ Goto(w, Snapshot(worker[w], worker[w].op, op[worker[w].op], "check"))
    /\ UNCHANGED <<durable, tasks, signals, invoked, faults>>
-----------------------------------------------------------------------------
(* Writes shared by several transactions *)

AppendOneCursor(s, o, n) ==
    /\ nextSeq[s] + n <= MaxEvents
    /\ events' = events \cup {[session |-> s, sequence |-> q, op |-> o] :
                               q \in nextSeq[s]..(nextSeq[s] + n - 1)}
    /\ nextSeq' = [nextSeq EXCEPT ![s] = @ + 1]
AppendEvents(s, o, n) ==
    /\ nextSeq[s] + n <= MaxEvents
    /\ events' = events \cup {[session |-> s, sequence |-> q, op |-> o] :
                               q \in nextSeq[s]..(nextSeq[s] + n - 1)}
    /\ nextSeq' = [nextSeq EXCEPT ![s] = @ + n]

ReleaseEverySettled(o) ==
    [e \in EffectIds |-> IF e[1] = o /\ eff[e].status = "settled"
                           THEN Released(eff[e])
                           ELSE eff[e]]
(* The trigger on operations.phase: a finished operation drops the requests  *)
(* of every batch whose children are all settled.                            *)
ReleaseFinishedRequests(o) ==
    [e \in EffectIds |->
        IF e[1] = o /\ eff[e].status = "settled"
             /\ \A f \in Children(o, e[2]) : eff[f].status = "settled"
          THEN Released(eff[e])
          ELSE eff[e]]

Ended(row, phase, outcome, current) ==
    [row EXCEPT !.phase = phase, !.outcome = outcome, !.input = 0, !.current = current,
                !.version = @ + 1]

(* The terminal write of a decision, a cancellation or an abandonment.       *)
FinishOperation(o, phase, outcome, current) ==
    /\ op' = [op EXCEPT ![o] = Ended(@, phase, outcome, current)]
    /\ active' = [active EXCEPT ![op[o].session] = Null]
    /\ eff' = ReleaseFinishedRequests(o)

FinishedBatchKept(row, blocked) ==
    [row EXCEPT !.phase = IF blocked THEN "outcome_unknown" ELSE "need_decision",
                !.input = IF blocked THEN 0 ELSE row.current,
                !.version = @ + 1]
(* transition_finished_batch: blocked by an unknown child, or input for the  *)
(* loop's next decision.                                                     *)
FinishedBatch(row, blocked) ==
    [row EXCEPT !.phase = IF blocked THEN "outcome_unknown" ELSE "need_decision",
                !.current = IF blocked THEN @ ELSE 0,
                !.input = IF blocked THEN 0 ELSE row.current,
                !.version = @ + 1]

AfterChildrenUnblocked(rows, o) ==
    IF Some(rows, o, op[o].current, "dispatch_started") THEN op[o] ELSE FinishedBatch(op[o], FALSE)
(* transition_batch_if_terminal *)
AfterChildren(rows, o) ==
    LET b == op[o].current
    IN  IF Some(rows, o, b, "dispatch_started")
          THEN op[o]
          ELSE FinishedBatch(op[o], Some(rows, o, b, "outcome_unknown"))
-----------------------------------------------------------------------------
(* close_requested_cancellation, at the top of every turn of drive *)

NoCancellation(w) ==
    /\ worker[w].pc = "check"
    /\ ~Requested(worker[w].op)
    /\ Goto(w, At(worker[w], "step"))
    /\ UNCHANGED <<durable, tasks, signals, invoked, faults>>

ClosedEveryChild(o) ==
    [e \in EffectIds |-> IF e \in Children(o, op[o].current)
                           THEN Marked(eff[e], "outcome_unknown")
                           ELSE eff[e]]
(* close_dispatched_batch_for_cancellation: started children become unknown. *)
ClosedChildren(o) ==
    [e \in EffectIds |-> IF e \in Children(o, op[o].current) /\ eff[e].status = "dispatch_started"
                           THEN Marked(eff[e], "outcome_unknown")
                           ELSE eff[e]]

LoadCancellation(w) ==
    LET o == worker[w].op
    IN  /\ worker[w].pc = "check"
        /\ Requested(o)
        /\ active[worker[w].session] = o
        /\ IsCancellable(o)
        /\ IF op[o].phase = "effect_dispatched"
              THEN /\ eff' = ClosedChildren(o)
                   /\ op' = [op EXCEPT ![o] = AfterChildren(eff', o)]
              ELSE UNCHANGED <<eff, op>>
        /\ Goto(w, ReadyToCommit(worker[w], op'[o].version, nextSeq[worker[w].session], "close"))
        /\ UNCHANGED <<active, nextPos, nextSeq, events, cancel, tasks, signals, invoked, faults>>

CommitCancellation(w, n) ==
    LET o == worker[w].op
    IN  /\ worker[w].pc = "close"
        /\ active[worker[w].session] = o
        /\ nextSeq[worker[w].session] = worker[w].seq
        /\ Requested(o) /\ op[o].version = worker[w].version /\ IsCancellable(o)
        /\ AppendEvents(worker[w].session, o, n)
        /\ FinishOperation(o, "cancelled", "cancelled", 0)
        /\ Return(w)
        /\ UNCHANGED <<nextPos, cancel, signals, invoked, faults>>
-----------------------------------------------------------------------------
(* One turn of drive on its snapshot *)

DriveBlocked(w) ==
    /\ worker[w].pc = "step"
    /\ worker[w].phase = "outcome_unknown"
    /\ Return(w)
    /\ UNCHANGED <<durable, signals, invoked, faults>>

(* Every transaction of the turn gives way to a committed request.           *)
YieldToCancellation(w) ==
    /\ worker[w].pc = "step"
    /\ worker[w].phase # "outcome_unknown"
    /\ Requested(worker[w].op)
    /\ Goto(w, At(worker[w], "reload"))
    /\ UNCHANGED <<durable, tasks, signals, invoked, faults>>

MayDecideAnyway(w) ==
    /\ worker[w].pc = "step"
    /\ worker[w].phase = "need_decision"
    /\ op[worker[w].op].phase = "need_decision" /\ op[worker[w].op].version = worker[w].version
MayDecide(w) ==
    LET o == worker[w].op
    IN  /\ worker[w].pc = "step"
        /\ worker[w].phase = "need_decision"
        /\ ~Requested(o)
        /\ op[o].phase = "need_decision" /\ op[o].version = worker[w].version

Continued(row) == [row EXCEPT !.input = 0, !.version = @ + 1]

DecideAppend(w, n) ==
    /\ MayDecide(w)
    /\ n > 0
    /\ AppendEvents(worker[w].session, worker[w].op, n)
    /\ op' = [op EXCEPT ![worker[w].op] = Continued(@)]
    /\ Goto(w, At(worker[w], "reload"))
    /\ UNCHANGED <<active, nextPos, eff, cancel, tasks, signals, invoked, faults>>

DecideFinish(w, phase, n) ==
    LET o == worker[w].op
    IN  /\ MayDecide(w)
        /\ AppendEvents(worker[w].session, o, n)
        /\ FinishOperation(o, phase, phase, op[o].current)
        /\ Return(w)
        /\ UNCHANGED <<nextPos, cancel, signals, invoked, faults>>

Intent(recovery) ==
    [status |-> "intent_committed", recovery |-> recovery, count |-> 0, request |-> "kept"]
WithBatch(row, b) ==
    [row EXCEPT !.phase = "effect_intent", !.current = b, !.input = 0, !.next = b,
                !.version = @ + 1]

(* A batch of one child per index of recovery; every intent in one commit.   *)
DecideEffects(w, recovery) ==
    LET o == worker[w].op
        b == op[o].next + 1
    IN  /\ MayDecide(w)
        /\ b \in Batches
        /\ eff' = [e \in EffectIds |->
                      IF e[1] = o /\ e[2] = b /\ e[3] \in DOMAIN recovery
                        THEN Intent(recovery[e[3]])
                        ELSE eff[e]]
        /\ op' = [op EXCEPT ![o] = WithBatch(@, b)]
        /\ Goto(w, At(worker[w], "reload"))
        /\ UNCHANGED <<active, nextPos, nextSeq, events, cancel, tasks, signals, invoked, faults>>
-----------------------------------------------------------------------------
(* drive_effect_phase *)

MayPrepare(w) ==
    LET o == worker[w].op
    IN  /\ worker[w].pc = "step"
        /\ worker[w].phase \in {"effect_intent", "effect_dispatched"}
        /\ ~Requested(o)
        /\ op[o].version = worker[w].version
        /\ op[o].phase \in {"effect_intent", "effect_dispatched"}

DispatchableAgain(o) ==
    {e \in Children(o, op[o].current) : eff[e].status \in {"intent_committed", "dispatch_started"}}
(* prepare_child: the children to invoke now.                                *)
Dispatchable(o) ==
    {e \in Children(o, op[o].current) :
        \/ eff[e].status = "intent_committed"
        \/ eff[e].status = "dispatch_started" /\ eff[e].recovery = "safe_to_replay"}

(* prepare_child: a started child that may not be replayed becomes unknown.  *)
PreparedChildren(o) ==
    [e \in EffectIds |->
        IF e \in Dispatchable(o)
          THEN Started(eff[e])
        ELSE IF e \in Children(o, op[o].current) /\ eff[e].status = "dispatch_started"
          THEN Marked(eff[e], "outcome_unknown")
        ELSE eff[e]]

Dispatched(row) == [row EXCEPT !.phase = "effect_dispatched", !.version = @ + 1]

PrepareEffectBatch(w) ==
    LET o == worker[w].op
    IN  /\ MayPrepare(w)
        /\ Dispatchable(o) # {}
        /\ eff' = PreparedChildren(o)
        /\ op' = [op EXCEPT ![o] = Dispatched(@)]
        /\ Goto(w, Attempting(worker[w], Dispatchable(o)))
        /\ UNCHANGED <<active, nextPos, nextSeq, events, cancel, tasks, signals, invoked, faults>>

FinishWithoutInvocations(w) ==
    LET o == worker[w].op
    IN  /\ MayPrepare(w)
        /\ Dispatchable(o) = {}
        /\ eff' = PreparedChildren(o)
        /\ op' = [op EXCEPT ![o] = FinishedBatch(@, Some(eff', o, op[o].current, "outcome_unknown"))]
        /\ Goto(w, At(worker[w], "reload"))
        /\ UNCHANGED <<active, nextPos, nextSeq, events, cancel, tasks, signals, invoked, faults>>

(* An attempt's future spawns its task when it is first polled, so an early  *)
(* completion may be settled before a later sibling is spawned.              *)
SpawnEffect(w, e) ==
    /\ worker[w].pc = "attempts"
    /\ e \in worker[w].unspawned
    /\ tasks' = tasks \cup {[effect |-> e, attempt |-> eff[e].count, owner |-> w]}
    /\ invoked' = [invoked EXCEPT ![e] = @ + 1]
    /\ Goto(w, Spawned(worker[w], e))
    /\ UNCHANGED <<durable, signals, faults>>

(* The adapter resolves: the task drops its lease, and its drive, if it is   *)
(* still there, will receive the completion.                                 *)
AdapterResolves(t, result) ==
    LET done == [effect |-> t.effect, attempt |-> t.attempt, result |-> result]
    IN  /\ t \in tasks
        /\ tasks' = tasks \ {t}
        /\ worker' = IF t.owner = Null THEN worker
                     ELSE [worker EXCEPT ![t.owner] = Delivered(@, done)]
        /\ running' = AfterDrop(worker', tasks')
        /\ UNCHANGED <<durable, signals, invoked, faults>>

(* require_dispatched_batch and the child's own compare-and-set.             *)
MayRecord(w, e) ==
    /\ op[worker[w].op].phase = "effect_dispatched"
    /\ op[worker[w].op].version = worker[w].version
    /\ op[worker[w].op].current = e[2]
    /\ eff[e].status = "dispatch_started"

Receive(w, done, status) ==
    LET o == worker[w].op
        e == done.effect
    IN  /\ MayRecord(w, e)
        /\ eff' = [eff EXCEPT ![e] = Marked(@, status)]
        /\ op' = [op EXCEPT ![o] = AfterChildren(eff', o)]
        /\ Goto(w, Received(worker[w], done,
                            worker[w].finished \/ op'[o].phase # "effect_dispatched"))
        /\ UNCHANGED <<active, nextPos, nextSeq, events, cancel, tasks, signals, invoked, faults>>

SettleBatchEffect(w, done) ==
    /\ worker[w].pc = "attempts" /\ done \in worker[w].inbox
    /\ done.result = "settled"
    /\ Receive(w, done, "settled")

MayReplayLiveOnceMore(done) ==
    eff[done.effect].recovery = "safe_to_replay" /\ done.attempt <= MaxLiveDispatches
MayReplayLive(done) ==
    eff[done.effect].recovery = "safe_to_replay" /\ done.attempt < MaxLiveDispatches

RecordBatchEffectUnknown(w, done) ==
    /\ worker[w].pc = "attempts" /\ done \in worker[w].inbox
    /\ done.result = "unknown" /\ ~MayReplayLive(done)
    /\ Receive(w, done, "outcome_unknown")

LeaveForReplay(w, done) ==
    /\ worker[w].pc = "attempts" /\ done \in worker[w].inbox
    /\ done.result = "unknown" /\ MayReplayLive(done)
    /\ Goto(w, Received(worker[w], done, worker[w].finished))
    /\ UNCHANGED <<durable, tasks, signals, invoked, faults>>

AttemptsReceived(w) ==
    worker[w].pc = "attempts" /\ worker[w].unspawned = {} /\ worker[w].inbox = {}
AttemptsDone(w) ==
    /\ worker[w].pc = "attempts"
    /\ worker[w].unspawned = {} /\ worker[w].inbox = {}
    /\ \A t \in tasks : t.owner # w

(* Either a settlement finished the batch, or finish_effect_batch_attempt    *)
(* leaves it to the next turn: to cancellation or to a replay.               *)
FinishEffectBatchAttempt(w) ==
    LET o == worker[w].op
    IN  /\ AttemptsDone(w)
        /\ worker[w].finished \/ (/\ op[o].phase = "effect_dispatched"
                                   /\ op[o].version = worker[w].version)
        /\ op' = IF worker[w].finished \/ Requested(o) THEN op
                 ELSE [op EXCEPT ![o] = AfterChildren(eff, o)]
        /\ Goto(w, At(worker[w], "reload"))
        /\ UNCHANGED <<active, nextPos, nextSeq, events, eff, cancel, tasks, signals,
                       invoked, faults>>
-----------------------------------------------------------------------------
(* abandon_unknown_effect: takes the lease, never binds it *)

Abandon(w, o, m) ==
    /\ op[o].session # Null
    /\ Acquire(w, op[o].session, Starting("abandon", op[o].session, o, m))
    /\ UNCHANGED <<durable, tasks, signals, invoked, faults>>

LoadPendingAbandonment(w) ==
    LET o == worker[w].op
    IN  /\ worker[w].pc = "abandon"
        /\ op[o].phase = "outcome_unknown"
        /\ op[o].manifest = worker[w].manifest
        /\ Goto(w, ReadyToCommit(worker[w], op[o].version, nextSeq[worker[w].session],
                                 "abandonCommit"))
        /\ UNCHANGED <<durable, tasks, signals, invoked, faults>>

(* NoUnknownEffect, AlreadyAbandoned or RuntimeMismatch: nothing is written. *)
NothingToAbandon(w) ==
    LET o == worker[w].op
    IN  /\ worker[w].pc = "abandon"
        /\ op[o].phase # "outcome_unknown" \/ op[o].manifest # worker[w].manifest
        /\ Return(w)
        /\ UNCHANGED <<durable, signals, invoked, faults>>

AbandonRefused(w) ==
    /\ worker[w].pc = "abandonCommit"
    /\ Requested(worker[w].op)
    /\ Return(w)
    /\ UNCHANGED <<durable, signals, invoked, faults>>

CommitAbandonment(w, n) ==
    LET o == worker[w].op
    IN  /\ worker[w].pc = "abandonCommit"
        /\ ~Requested(o)
        /\ active[worker[w].session] = o
        /\ nextSeq[worker[w].session] = worker[w].seq
        /\ op[o].phase = "outcome_unknown" /\ op[o].version = worker[w].version
        /\ AppendEvents(worker[w].session, o, n)
        /\ FinishOperation(o, "failed", "abandoned", 0)
        /\ Return(w)
        /\ UNCHANGED <<nextPos, cancel, signals, invoked, faults>>
-----------------------------------------------------------------------------
(* Failures *)

(* A drive or abandonment returns an error, panics or is dropped: a plugin   *)
(* error, a storage error, a missing executor or binding after the dispatch  *)
(* committed, an effect task that panicked, a caller that went away.         *)
DriveEnds(w) ==
    /\ faults < MaxFaults
    /\ worker[w].pc # "idle"
    /\ Return(w)
    /\ faults' = faults + 1
    /\ UNCHANGED <<durable, signals, invoked>>

(* The process stops and the database is opened again.                       *)
Crash ==
    /\ faults < MaxFaults
    /\ running' = [s \in Sessions |-> NoEntry]
    /\ worker' = [w \in Workers |-> IdleWorker]
    /\ tasks' = {}
    /\ signals' = {}
    /\ faults' = faults + 1
    /\ UNCHANGED <<durable, invoked>>
-----------------------------------------------------------------------------
Batch == UNION {[1..k -> Recoveries] : k \in 1..MaxChildren}

DriveStep(w) ==
    \/ \E o \in Ops : ActivateNext(w, o)
    \/ ActivateOwned(w) \/ DriveIdle(w) \/ Bind(w) \/ LoadActive(w)
    \/ NoCancellation(w) \/ LoadCancellation(w)
    \/ \E n \in 0..MaxAppend : CommitCancellation(w, n)
    \/ DriveBlocked(w) \/ YieldToCancellation(w)
    \/ \E n \in 0..MaxAppend : DecideAppend(w, n)
    \/ \E n \in 0..MaxAppend, p \in Terminal \ {"cancelled"} : DecideFinish(w, p, n)
    \/ \E r \in Batch : DecideEffects(w, r)
    \/ PrepareEffectBatch(w) \/ FinishWithoutInvocations(w)
    \/ \E e \in EffectIds : SpawnEffect(w, e)
    \/ \E done \in worker[w].inbox :
          SettleBatchEffect(w, done) \/ RecordBatchEffectUnknown(w, done) \/ LeaveForReplay(w, done)
    \/ FinishEffectBatchAttempt(w)

AbandonStep(w) ==
    \/ LoadPendingAbandonment(w) \/ NothingToAbandon(w) \/ AbandonRefused(w)
    \/ \E n \in 0..MaxAppend : CommitAbandonment(w, n)

Next ==
    \/ \E o \in Ops, s \in Sessions : Submit(o, s) \/ SubmitExclusive(o, s)
    \/ \E i \in CancelIds, o \in Ops : RequestCancellation(i, o)
    \/ \E i \in CancelIds : RetryCancellation(i)
    \/ \E o \in Ops : SignalRunningOperation(o)
    \/ \E w \in Workers, s \in Sessions, m \in Manifests : Drive(w, s, m)
    \/ \E w \in Workers, o \in Ops, m \in Manifests : Abandon(w, o, m)
    \/ \E w \in Workers : DriveStep(w) \/ AbandonStep(w) \/ DriveEnds(w)
    \/ \E t \in tasks, r \in {"settled", "unknown"} : AdapterResolves(t, r)
    \/ Crash

Spec == Init /\ [][Next]_vars

(* Callers run and adapters resolve; the Host drives a session again and is  *)
(* not refused as Busy for ever.                                             *)
Fairness ==
    /\ \A w \in Workers : WF_vars(DriveStep(w) \/ AbandonStep(w))
    /\ \A o \in Ops : WF_vars(SignalRunningOperation(o))
    /\ WF_vars(\E t \in tasks, r \in {"settled", "unknown"} : AdapterResolves(t, r))
    /\ \A s \in Sessions, m \in Manifests : SF_vars(\E w \in Workers : Drive(w, s, m))

FairSpec == Spec /\ Fairness
-----------------------------------------------------------------------------
(* What the kernel promises: the properties TLC checks on the MC modules   *)
(* and, where KernelProofs says so, that are proved for every instance.    *)

(* Every variable has its type.                                            *)
TypeOK ==
    /\ active \in [Sessions -> Ops \cup {Null}]
    /\ nextPos \in [Sessions -> Nat]
    /\ nextSeq \in [Sessions -> Nat]
    /\ events \subseteq Event
    /\ op \in [Ops -> OpRow]
    /\ eff \in [EffectIds -> EffRow]
    /\ cancel \in [CancelIds -> Ops \cup {Null}]
    /\ running \in [Sessions -> [bound: Ops \cup {Null, Unbound}, cancelled: BOOLEAN]]
    /\ worker \in [Workers -> WorkerState]
    /\ tasks \subseteq Task
    /\ signals \subseteq Ops
    /\ invoked \in [EffectIds -> Nat]
    /\ faults \in Nat
-----------------------------------------------------------------------------
(* The consistency checks whose failure is KernelError::Corrupt            *)

AllChildren(o, b, statuses) == \A e \in Children(o, b) : eff[e].status \in statuses
Closed(o, b) == AllChildren(o, b, {"settled", "outcome_unknown"})
                  /\ Some(eff, o, b, "outcome_unknown")
Readable(o, b) == \A e \in Children(o, b) : eff[e].request = "kept"

(* The batch a cancellation or an abandonment hands to the loop agrees with *)
(* the operation's phase and still has its requests.                        *)
BatchAgrees(o) ==
    CASE op[o].phase = "need_decision" ->
           op[o].current = 0 /\ AllChildren(o, op[o].input, {"settled"}) /\ Readable(o, op[o].input)
      [] op[o].phase = "effect_intent" ->
           /\ op[o].input = 0 /\ op[o].current # 0
           /\ AllChildren(o, op[o].current, {"intent_committed"})
           /\ Readable(o, op[o].current)
      [] op[o].phase = "effect_dispatched" ->
           /\ op[o].current # 0
           /\ AllChildren(o, op[o].current, Statuses \ {"none", "intent_committed"})
           /\ Readable(o, op[o].current)
      [] op[o].phase = "outcome_unknown" ->
           op[o].input = 0 /\ op[o].current # 0 /\ Closed(o, op[o].current) /\ Readable(o, op[o].current)
      [] OTHER -> TRUE

Owns(w) == active[worker[w].session] = worker[w].op
Unmoved(w) == op[worker[w].op].version = worker[w].version

ChecksOf(w) ==
    LET o == worker[w].op
        s == worker[w].session
        unknownBatches == {b \in Batches : Some(eff, o, b, "outcome_unknown")}
    IN  CASE worker[w].pc = "activate" -> active[s] # Null => op[active[s]].manifest # Null
          [] worker[w].pc = "check" -> Requested(o) => Owns(w) /\ IsCancellable(o) /\ BatchAgrees(o)
          [] worker[w].pc = "close" ->
               Owns(w) /\ Unmoved(w) /\ IsCancellable(o) /\ Requested(o) /\ nextSeq[s] = worker[w].seq
          [] worker[w].pc = "step" ->
               /\ worker[w].phase \in Live /\ op[o].phase = worker[w].phase
               /\ Owns(w) /\ Unmoved(w) /\ BatchAgrees(o)
               /\ worker[w].phase = "need_decision" => op[o].input = worker[w].input
          [] worker[w].pc = "attempts" ->
               /\ \A done \in worker[w].inbox : MayRecord(w, done.effect)
               /\ AttemptsDone(w) /\ ~worker[w].finished =>
                    op[o].phase = "effect_dispatched" /\ Unmoved(w)
          [] worker[w].pc = "reload" -> Owns(w)
          [] worker[w].pc = "abandon" ->
               /\ op[o].phase = "outcome_unknown" => Owns(w) /\ BatchAgrees(o)
               /\ op[o].phase = "failed" /\ unknownBatches # {} =>
                    /\ Cardinality(unknownBatches) = 1 /\ ~Owns(w)
                    /\ op[o].current = 0 /\ op[o].input = 0
                    /\ \A b \in unknownBatches : Closed(o, b) /\ Readable(o, b)
          [] worker[w].pc = "abandonCommit" ->
               ~Requested(o) => Owns(w) /\ Unmoved(w) /\ Closed(o, op[o].current) /\ nextSeq[s] = worker[w].seq
          [] OTHER -> TRUE

(* No interleaving of drives, requests, abandonments, late adapters and     *)
(* crashes makes any transaction of a drive or an abandonment find its      *)
(* snapshot stale: KernelError::Corrupt is never returned.                  *)
NeverCorrupt == \A w \in Workers : ChecksOf(w)
-----------------------------------------------------------------------------
(* At most one caller works on a session, and not while a task of an        *)
(* earlier, dropped drive of that session still runs (drive's Busy).        *)
SingleDriver ==
    \A w \in Workers : worker[w].pc # "idle" =>
        /\ \A v \in Workers \ {w} : worker[v].session # worker[w].session
        /\ \A t \in tasks : op[t.effect[1]].session = worker[w].session =>
                              t.owner = w /\ t.effect[1] = worker[w].op

(* The central invariant: an adapter only ever runs for a child whose       *)
(* dispatch is committed and not yet settled, once per committed dispatch,  *)
(* and never in two tasks at once.                                          *)
DispatchBeforeInvoke ==
    /\ \A e \in EffectIds : invoked[e] <= eff[e].count
    /\ \A t \in tasks : eff[t.effect].status = "dispatch_started"
    /\ \A t, u \in tasks : t.effect = u.effect => t = u

(* A never_replay child is invoked at most once across drives, replays,     *)
(* dropped drives and crashes.                                              *)
NeverReplayedTwice ==
    \A e \in EffectIds : eff[e].recovery = "never_replay" => eff[e].count <= 1 /\ invoked[e] <= 1

(* A live unknown is replayed once, at the first durable dispatch only:     *)
(* every further dispatch is paid for by a failed drive or a crash.         *)
ReplayBudget ==
    \A e \in EffectIds : eff[e].count <= MaxLiveDispatches + faults

(* One step leaves every settled or unknown child as it is.                 *)
FinalKept ==
    \A e \in EffectIds : eff[e].status \in {"settled", "outcome_unknown"} =>
        eff'[e].status = eff[e].status /\ eff'[e].count = eff[e].count
(* A committed settlement or unknown is final, and a child's dispatch count *)
(* moves only while its outcome is open.                                    *)
EffectsAreFinal == [][FinalKept]_vars

(* One step creates and dispatches nothing for a requested operation, and   *)
(* ends it only as cancelled.                                               *)
RequestHonoured ==
    \A o \in Ops : Requested(o) =>
        /\ op'[o].next = op[o].next
        /\ op'[o].outcome \in {op[o].outcome, "cancelled"}
        /\ \A e \in EffectIds : e[1] = o => eff'[e].count = eff[e].count
(* A request that commits first wins: from then on no batch is created, no  *)
(* child is dispatched, and the operation can only end as cancelled.        *)
CancellationWins == [][RequestHonoured]_vars

(* Once the request's signal is delivered, every task of the operation that *)
(* still runs has a cancelled token: its drive was dropped, or the session  *)
(* token was cancelled, however activation, binding and the request race.   *)
NoLostSignal ==
    \A t \in tasks :
        Requested(t.effect[1]) /\ t.effect[1] \notin signals =>
            t.owner = Null \/ running[op[t.effect[1]].session].cancelled

(* A session's token is cancelled only for the operation it is bound to.    *)
NoStraySignal ==
    \A s \in Sessions : running[s].cancelled =>
        running[s].bound \in Ops /\ Requested(running[s].bound)

(* An operation leaves the queue only after every operation admitted before *)
(* it in its session has its outcome, and only one is ever live.            *)
AdmissionOrder ==
    \A o, p \in Ops :
        op[o].phase \notin {"absent", "queued"} /\ op[o].session = op[p].session
          /\ op[p].position < op[o].position => op[p].outcome # "none"

(* A session's history is gapless up to its cursor, one event per sequence, *)
(* and the events of an operation precede those of every later one.         *)
GaplessHistory ==
    \A s \in Sessions :
        LET history == {h \in events : h.session = s}
        IN  /\ {h.sequence : h \in history} = 0..(nextSeq[s] - 1)
            /\ \A h, k \in history :
                 /\ h.sequence = k.sequence => h = k
                 /\ h.sequence < k.sequence => op[h.op].position <= op[k.op].position

(* A request is dropped exactly when its operation has an outcome and its   *)
(* batch is fully settled: nothing a replay, a cancellation or an           *)
(* abandonment may still read is ever released.                             *)
ReleasedExactly ==
    \A e \in EffectIds : eff[e].status # "none" =>
        (eff[e].request = "released"
           <=> op[e[1]].outcome # "none" /\ AllChildren(e[1], e[2], {"settled"}))

(* An operation fails with an unknown child only through abandonment, so a  *)
(* retried abandonment recognises the operation it already released.        *)
UnknownOnlyAbandoned ==
    \A e \in EffectIds :
        eff[e].status = "outcome_unknown" /\ op[e[1]].outcome # "none" =>
            op[e[1]].outcome \in {"abandoned", "cancelled"}

(* Past binding, a caller's runtime is the one frozen at activation: an      *)
(* operation is never decided, dispatched, cancelled or abandoned under      *)
(* another manifest.                                                         *)
FrozenRuntime ==
    \A w \in Workers :
        worker[w].pc \in Pcs \ {"idle", "activate", "bind", "abandon"} =>
            worker[w].manifest = op[worker[w].op].manifest
-----------------------------------------------------------------------------
(* Liveness, under FairSpec *)

Blocked(s) == \E o \in Ops : op[o].session = s /\ op[o].phase = "outcome_unknown"

(* Every admitted operation gets its outcome unless its session is blocked   *)
(* on an unknown effect, through replays, failed drives and crashes.         *)
OperationsResolve ==
    \A o \in Ops : op[o].phase # "absent" ~>
        op[o].outcome # "none" \/ Blocked(op[o].session)

(* A request against the active operation ends it as cancelled, also when it *)
(* is blocked on an unknown effect.                                          *)
CancellationCompletes ==
    \A o \in Ops : Requested(o) /\ op[o].phase \in Live ~> op[o].phase = "cancelled"

-----------------------------------------------------------------------------
(* The inductive invariant behind the kernel's dispatch guarantees.  The    *)
(* lease covers every holder, a task's child is durably started and belongs *)
(* to the one caller on its session, and a dispatch is spent at most once.  *)

(* A caller past activation works on an operation of its own session.       *)
Placed ==
    \A w \in Workers :
        /\ worker[w].pc = "idle" <=> worker[w].session = Null
        /\ worker[w].pc \notin {"idle", "activate"} =>
             worker[w].op \in Ops /\ op[worker[w].op].session = worker[w].session

(* Rows that name each other agree.                                         *)
RowsAgree ==
    /\ \A s \in Sessions : active[s] # Null => op[active[s]].session = s
    /\ \A o \in Ops : /\ op[o].phase = "absent" <=> op[o].session = Null
                      /\ op[o].phase = "absent" => op[o].next = 0
    /\ \A i \in CancelIds : cancel[i] # Null => op[cancel[i]].session # Null

(* The map entry stays while a caller or a task holds the lease.            *)
LeaseCovers ==
    \A s \in Sessions : Holds(worker, tasks, s) => running[s].bound # Null

(* Two callers are never on the same session.                               *)
OneWorker ==
    \A v, w \in Workers : v # w /\ worker[v].pc # "idle" => worker[v].session # worker[w].session

(* A task belongs to the caller on its session, who awaits it.              *)
TasksOwned ==
    \A t \in tasks :
        /\ op[t.effect[1]].session # Null
        /\ \A w \in Workers : worker[w].session = op[t.effect[1]].session =>
             t.owner = w /\ worker[w].pc = "attempts" /\ worker[w].op = t.effect[1]
        /\ t.owner # Null => worker[t.owner].session = op[t.effect[1]].session

(* Each child of an attempt is unspawned, running or received: one of them. *)
TasksStarted ==
    /\ \A t \in tasks : eff[t.effect].status = "dispatch_started"
    /\ \A t, u \in tasks : t.effect = u.effect => t = u

(* A caller's attempt: its unspawned children have a dispatch to spend, and  *)
(* none of them runs or was received; a received one no longer runs.        *)
AttemptStarted(w) ==
    /\ worker[w].pc # "attempts" => worker[w].unspawned = {} /\ worker[w].inbox = {}
    /\ \A e \in worker[w].unspawned :
         /\ e[1] = worker[w].op
         /\ eff[e].status = "dispatch_started"
         /\ invoked[e] < eff[e].count
         /\ \A t \in tasks : t.effect # e
         /\ \A d \in worker[w].inbox : d.effect # e
    /\ \A d \in worker[w].inbox :
         /\ d.effect[1] = worker[w].op
         /\ eff[d.effect].status = "dispatch_started"
         /\ \A t \in tasks : t.effect # d.effect
         /\ \A c \in worker[w].inbox : c.effect = d.effect => c = d
AttemptsStarted == \A w \in Workers : AttemptStarted(w)

(* A dispatch is counted before it is spent, and never_replay has one.      *)
DispatchCounted ==
    \A e \in EffectIds :
        /\ invoked[e] <= eff[e].count
        /\ eff[e].status \in {"none", "intent_committed"} => eff[e].count = 0
        /\ e[2] > op[e[1]].next => eff[e].status = "none"
        /\ eff[e].recovery = "never_replay" => eff[e].count <= 1

(* The inductive invariant.                                                 *)
IInv ==
    /\ TypeOK
    /\ Placed
    /\ RowsAgree
    /\ LeaseCovers
    /\ OneWorker
    /\ TasksOwned
    /\ TasksStarted
    /\ AttemptsStarted
    /\ DispatchCounted

-----------------------------------------------------------------------------
(* What sessions add to it: one live operation per session, which is its     *)
(* active one, and callers that stand on it under its own runtime.           *)

Driving == {"bind", "check", "close", "step", "attempts", "reload"}

(* The active operation of a session is its only live one.                   *)
ActiveIsLive ==
    /\ \A s \in Sessions : active[s] # Null => op[active[s]].phase \in Live
    /\ \A o \in Ops : op[o].phase \in Live => active[op[o].session] = o

(* An operation has an outcome exactly when its phase is terminal.           *)
OutcomesAgree == \A o \in Ops : op[o].outcome = "none" <=> op[o].phase \notin Terminal

(* Positions are issued once per session.                                    *)
PositionsIssued ==
    \A o \in Ops : op[o].session # Null =>
        /\ op[o].position < nextPos[op[o].session]
        /\ \A p \in Ops \ {o} : op[p].session = op[o].session => op[p].position # op[o].position

(* A live operation has a runtime.                                           *)
RuntimeRecorded == \A o \in Ops : op[o].phase \in Live => op[o].manifest \in Manifests

(* A caller brings a runtime; one that drives stands on the active operation *)
(* and, once bound or about to abandon, under that operation's runtime.      *)
CallerStands(w) ==
    /\ worker[w].pc # "idle" => worker[w].manifest \in Manifests
    /\ worker[w].pc \in Driving => Owns(w)
    /\ worker[w].pc \in Pcs \ {"idle", "activate", "bind", "abandon"} =>
         worker[w].manifest = op[worker[w].op].manifest

RowsInv == ActiveIsLive /\ OutcomesAgree /\ PositionsIssued /\ RuntimeRecorded /\ AdmissionOrder
CallersInv == \A w \in Workers : CallerStands(w)
SInv == RowsInv /\ CallersInv

(* A lease is bound to the operation its caller drives, and a caller that    *)
(* awaits an attempt has seen every signal of its operation but the pending. *)
CallerSignalled(w) ==
    /\ worker[w].pc \in {"activate", "bind"} => running[worker[w].session].bound = Unbound
    /\ worker[w].pc \in Driving \ {"bind"} => running[worker[w].session].bound = worker[w].op
    /\ worker[w].pc = "attempts" /\ Requested(worker[w].op) /\ worker[w].op \notin signals =>
         running[worker[w].session].cancelled

(* The invariant of signals: a request is signalled after it commits, and    *)
(* never to a lease bound to another operation.                              *)
GInv ==
    /\ \A o \in signals : Requested(o)
    /\ NoStraySignal
    /\ \A w \in Workers : CallerSignalled(w)

(* An unfinished operation: its batches before the current one are settled,  *)
(* none of its requests is dropped, and the current batch fits the phase.    *)
UnfinishedAgrees(o) ==
    op[o].outcome = "none" =>
        /\ op[o].phase = "queued" => op[o].current = 0
        /\ \A e \in EffectIds : e[1] = o /\ eff[e].status # "none" =>
             eff[e].request = "kept" /\ (e[2] # op[o].current => eff[e].status = "settled")
        /\ BatchAgrees(o)

(* A finished one: a batch drops its requests exactly when it is settled,    *)
(* and an abandoned operation keeps the one batch it was blocked on.         *)
FinishedAgrees(o) ==
    op[o].outcome # "none" =>
        /\ \A e \in EffectIds : e[1] = o /\ eff[e].status # "none" =>
             /\ eff[e].request \in {"kept", "released"}
             /\ eff[e].request = "released" <=> AllChildren(o, e[2], {"settled"})
        /\ \A e \in EffectIds : e[1] = o /\ eff[e].status = "outcome_unknown" =>
             /\ op[o].outcome \in {"abandoned", "cancelled"}
             /\ op[o].phase = "failed" =>
                  /\ op[o].current = 0 /\ op[o].input = 0
                  /\ \A f \in EffectIds : f[1] = o /\ eff[f].status # "none" =>
                       eff[f].status = "settled" \/ (eff[f].status = "outcome_unknown" /\ f[2] = e[2])

(* The invariant of batches.                                                 *)
EInv == \A o \in Ops : UnfinishedAgrees(o) /\ FinishedAgrees(o)

(* A child some caller is about to invoke, has invoked or has heard of.      *)
InFlightOf(w, e) ==
    \/ e \in worker[w].unspawned
    \/ \E d \in worker[w].inbox : d.effect = e
    \/ \E t \in tasks : t.owner = w /\ t.effect = e

(* The invariant of replays: a started child in nobody's hands was left by a *)
(* first attempt or by a fault, and a completion carries its last dispatch.  *)
BInv ==
    /\ ReplayBudget
    /\ \A e \in EffectIds :
         eff[e].status = "dispatch_started" /\ (\A w \in Workers : ~InFlightOf(w, e)) =>
           eff[e].count <= 1 + faults
    /\ \A t \in tasks : t.attempt = eff[t.effect].count
    /\ \A w \in Workers : \A d \in worker[w].inbox : d.attempt = eff[d.effect].count

(* The invariant of histories: events are of operations that were started.   *)
HInv ==
    /\ GaplessHistory
    /\ \A h \in events : op[h.op].session = h.session /\ op[h.op].phase \notin {"absent", "queued"}

(* The invariant of positions: a session has issued one per operation.       *)
AdmittedTo(s) == {o \in Ops : op[o].session = s}
CInv == \A s \in Sessions : IsFiniteSet(AdmittedTo(s)) /\ Cardinality(AdmittedTo(s)) = nextPos[s]

(* A caller's snapshot is current until it acts on it.                       *)
SnapshotStands(w) ==
    LET o == worker[w].op
        s == worker[w].session
    IN  /\ worker[w].pc \in {"bind", "check", "step"} =>
             /\ worker[w].phase = op[o].phase /\ worker[w].input = op[o].input
             /\ Unmoved(w) /\ ~worker[w].finished
        /\ worker[w].pc = "close" => Requested(o) /\ Unmoved(w) /\ nextSeq[s] = worker[w].seq
        /\ worker[w].pc = "abandonCommit" =>
             op[o].phase = "outcome_unknown" /\ Unmoved(w) /\ nextSeq[s] = worker[w].seq
        /\ worker[w].pc = "attempts" =>
             /\ ~worker[w].finished => op[o].phase = "effect_dispatched" /\ Unmoved(w)
             /\ \A e \in EffectIds : InFlightOf(w, e) =>
                  ~worker[w].finished /\ e[1] = o /\ e[2] = op[o].current

(* The invariant of snapshots.                                               *)
NInv == \A w \in Workers : SnapshotStands(w)

-----------------------------------------------------------------------------
(* The kernel implements the session contract: the mapping forgets         *)
(* manifests, versions, batches, effects, leases and callers.              *)

(* OperationPhase::status                                                  *)
Status(phase) ==
    IF phase \in Live \ {"outcome_unknown"} THEN "running" ELSE phase

EventAt(s, q) == CHOOSE h \in events : h.session = s /\ h.sequence = q

(* What the Host sees of an operation, of requests and of histories.       *)
SessionBar == [o \in Ops |-> op[o].session]
PositionBar == [o \in Ops |-> op[o].position]
StatusBar == [o \in Ops |-> Status(op[o].phase)]
RequestedBar == {o \in Ops : Requested(o)}
HistoryBar == [s \in Sessions |-> [i \in 1..nextSeq[s] |-> EventAt(s, i - 1).op]]

Contract == INSTANCE SessionContract WITH
    session <- SessionBar, position <- PositionBar, status <- StatusBar,
    requested <- RequestedBar, history <- HistoryBar

(* Every step of drives, requests, abandonments, adapters and crashes is,   *)
(* for the Host, a step of the session contract or no step at all.          *)
ImplementsContract == Contract!Spec
=============================================================================
