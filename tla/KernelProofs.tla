---------------------------- MODULE KernelProofs ----------------------------
(***************************************************************************)
(* The kernel's dispatch guarantees for every set of sessions, operations,  *)
(* callers, cancellations and manifests and every bound: the invariant IInv *)
(* holds initially, every step keeps it, and it implies the guarantees.     *)
(*                                                                          *)
(* First the types: every step keeps the types of the kernel's rows and     *)
(* memory, given that callers stand on rows of their own session (Placed,   *)
(* RowsAgree).                                                              *)
(***************************************************************************)
EXTENDS RenoaKernel, TLAPS

-----------------------------------------------------------------------------
(* What each row update of RenoaKernel returns: its type, the fields it    *)
(* sets and the fields the invariant relies on that it leaves alone.       *)

(* The values the updates write belong to their fields.                     *)
LEMMA NamesOK ==
    /\ {"absent", "queued", "need_decision", "effect_intent", "effect_dispatched",
        "outcome_unknown"} \cup Terminal \subseteq Phases
    /\ {"intent_committed", "dispatch_started", "settled", "outcome_unknown"} \subseteq Statuses
    /\ Batches \subseteq Nat
    /\ 0..MaxBatches = Batches \cup {0}
  BY BoundsAssumption DEF Phases, Live, Terminal, Statuses, Batches

(* The update of an operation row q keeps the session and the batch count   *)
(* of r and never makes it absent.                                          *)
KeepsOp(q, r) ==
    q \in OpRow /\ q.session = r.session /\ q.next = r.next /\ q.phase # "absent"

(* Activation (activate): a well-formed row, still unfinished.               *)
LEMMA ActivatedOK ==
    ASSUME NEW r \in OpRow, NEW m \in Manifests \cup {Null}
    PROVE  KeepsOp(Activated(r, m), r) /\ Activated(r, m).outcome = r.outcome
  <1>1. r.version + 1 \in Nat
    BY DEF OpRow
  <1>2. ASSUME NEW n \in Nat
        PROVE  LET q == [r EXCEPT !.phase = "need_decision", !.version = n, !.manifest = m]
               IN  KeepsOp(q, r) /\ q.outcome = r.outcome
    BY NamesOK, Zenon DEF OpRow, KeepsOp
  <1> QED BY <1>1, <1>2, Zenon DEF Activated

(* The terminal write: a well-formed row with the given outcome.             *)
LEMMA EndedOK ==
    ASSUME NEW r \in OpRow, NEW p \in Terminal, NEW x \in Outcomes, NEW c \in Batches \cup {0}
    PROVE  KeepsOp(Ended(r, p, x, c), r) /\ Ended(r, p, x, c).outcome = x
  <1>1. r.version + 1 \in Nat /\ p \in Phases /\ p # "absent"
    BY NamesOK DEF OpRow, Terminal
  <1>2. ASSUME NEW n \in Nat
        PROVE  LET q == [r EXCEPT !.phase = p, !.outcome = x, !.input = 0, !.current = c,
                                  !.version = n]
               IN  KeepsOp(q, r) /\ q.outcome = x
    BY <1>1, Zenon DEF OpRow, KeepsOp
  <1> QED BY <1>1, <1>2, Zenon DEF Ended

(* A decision that only appends events: a well-formed row, still unfinished. *)
LEMMA ContinuedOK ==
    ASSUME NEW r \in OpRow, r.phase # "absent"
    PROVE  KeepsOp(Continued(r), r) /\ Continued(r).outcome = r.outcome
  <1>1. r.version + 1 \in Nat
    BY DEF OpRow
  <1>2. ASSUME NEW n \in Nat
        PROVE  LET q == [r EXCEPT !.input = 0, !.version = n]
               IN  KeepsOp(q, r) /\ q.outcome = r.outcome
    BY Zenon DEF OpRow, KeepsOp
  <1> QED BY <1>1, <1>2, Zenon DEF Continued

(* The dispatch write of prepare_effect_batch: a well-formed row, still unfinished. *)
LEMMA DispatchedOK ==
    ASSUME NEW r \in OpRow
    PROVE  KeepsOp(Dispatched(r), r) /\ Dispatched(r).outcome = r.outcome
  <1>1. r.version + 1 \in Nat
    BY DEF OpRow
  <1>2. ASSUME NEW n \in Nat
        PROVE  LET q == [r EXCEPT !.phase = "effect_dispatched", !.version = n]
               IN  KeepsOp(q, r) /\ q.outcome = r.outcome
    BY NamesOK, Zenon DEF OpRow, KeepsOp
  <1> QED BY <1>1, <1>2, Zenon DEF Dispatched

(* transition_finished_batch: a well-formed row, still unfinished, blocked or not. *)
LEMMA FinishedBatchOK ==
    ASSUME NEW r \in OpRow, NEW b \in BOOLEAN
    PROVE  KeepsOp(FinishedBatch(r, b), r) /\ FinishedBatch(r, b).outcome = r.outcome
  <1>1. r.version + 1 \in Nat
    BY DEF OpRow
  <1>2. ASSUME NEW n \in Nat, NEW p \in {"outcome_unknown", "need_decision"},
               NEW c \in Batches \cup {0}, NEW i \in Batches \cup {0}
        PROVE  LET q == [r EXCEPT !.phase = p, !.current = c, !.input = i, !.version = n]
               IN  KeepsOp(q, r) /\ q.outcome = r.outcome
    BY NamesOK, Zenon DEF OpRow, KeepsOp
  <1>3. CASE b
    BY <1>1, <1>2, <1>3, Zenon DEF FinishedBatch, OpRow
  <1>4. CASE ~b
    BY <1>1, <1>2, <1>4, Zenon DEF FinishedBatch, OpRow
  <1> QED BY <1>3, <1>4

(* A new effect batch: a well-formed row whose batch count grows to b.       *)
LEMMA WithBatchOK ==
    ASSUME NEW r \in OpRow, NEW b \in Batches
    PROVE  LET q == WithBatch(r, b)
           IN  /\ q \in OpRow /\ q.session = r.session /\ q.next = b /\ q.phase # "absent"
               /\ q.outcome = r.outcome
  <1>1. r.version + 1 \in Nat /\ b \in 0..MaxBatches
    BY NamesOK DEF OpRow
  <1>2. ASSUME NEW n \in Nat
        PROVE  LET q == [r EXCEPT !.phase = "effect_intent", !.current = b, !.input = 0,
                                  !.next = b, !.version = n]
               IN  /\ q \in OpRow /\ q.session = r.session /\ q.next = b /\ q.phase # "absent"
                   /\ q.outcome = r.outcome
    BY <1>1, NamesOK, Zenon DEF OpRow
  <1> QED BY <1>1, <1>2, Zenon DEF WithBatch

(* An admitted operation: a queued, unfinished row of its session.           *)
LEMMA NewRowOK ==
    ASSUME TypeOK, NEW s \in Sessions
    PROVE  LET q == NewRow(s)
           IN  q \in OpRow /\ q.session = s /\ q.next = 0 /\ q.phase = "queued" /\ q.outcome = "none"
  <1>1. nextPos[s] \in Nat
    BY DEF TypeOK
  <1>2. NoRow \in OpRow /\ NoRow.next = 0 /\ NoRow.outcome = "none"
    BY BoundsAssumption, NamesOK DEF NoRow, OpRow, Outcomes
  <1>3. ASSUME NEW r \in OpRow, NEW n \in Nat
        PROVE  LET q == [r EXCEPT !.session = s, !.position = n, !.phase = "queued"]
               IN  /\ q \in OpRow /\ q.session = s /\ q.next = r.next /\ q.phase = "queued"
                   /\ q.outcome = r.outcome
    BY NamesOK, Zenon DEF OpRow
  <1> QED BY <1>1, <1>2, <1>3, Zenon DEF NewRow
-----------------------------------------------------------------------------
(* A status write on an effect row changes the status alone.                 *)
LEMMA MarkedOK ==
    ASSUME NEW r \in EffRow, NEW x \in Statuses
    PROVE  LET q == Marked(r, x)
           IN  q \in EffRow /\ q.status = x /\ q.count = r.count /\ q.recovery = r.recovery
  BY Zenon DEF Marked, EffRow

(* Releasing a request changes neither status, count nor recovery.           *)
LEMMA ReleasedOK ==
    ASSUME NEW r \in EffRow
    PROVE  LET q == Released(r)
           IN  q \in EffRow /\ q.status = r.status /\ q.count = r.count /\ q.recovery = r.recovery
  BY Zenon DEF Released, EffRow

(* A dispatch starts the child and counts once.                              *)
LEMMA StartedOK ==
    ASSUME NEW r \in EffRow
    PROVE  LET q == Started(r)
           IN  /\ q \in EffRow /\ q.status = "dispatch_started" /\ q.count = r.count + 1
               /\ q.recovery = r.recovery
  <1>1. r.count + 1 \in Nat
    BY DEF EffRow
  <1>2. ASSUME NEW n \in Nat
        PROVE  LET q == [r EXCEPT !.status = "dispatch_started", !.count = n]
               IN  /\ q \in EffRow /\ q.status = "dispatch_started" /\ q.count = n
                   /\ q.recovery = r.recovery
    BY NamesOK, Zenon DEF EffRow
  <1> QED BY <1>1, <1>2, Zenon DEF Started

(* A committed intent has not been dispatched.                               *)
LEMMA IntentOK ==
    ASSUME NEW x \in Recoveries
    PROVE  LET q == Intent(x)
           IN  /\ q \in EffRow /\ q.status = "intent_committed" /\ q.count = 0
               /\ q.recovery = x
  BY NamesOK DEF Intent, EffRow
-----------------------------------------------------------------------------
(* The caller stays where it was, with the same attempt.                    *)
SameCaller(q, r) ==
    /\ q \in WorkerState /\ q.session = r.session /\ q.op = r.op
    /\ q.unspawned = r.unspawned /\ q.inbox = r.inbox

(* A caller that returned holds nothing.                                     *)
LEMMA IdleOK ==
    IdleWorker \in WorkerState /\ IdleWorker.pc = "idle" /\ IdleWorker.session = Null
      /\ IdleWorker.unspawned = {} /\ IdleWorker.inbox = {}
  BY BoundsAssumption, NamesOK DEF IdleWorker, WorkerState, Pcs

(* A caller that took the lease has no attempt yet.                          *)
LEMMA StartingOK ==
    ASSUME NEW pc \in Pcs, NEW s \in Sessions, NEW o \in Ops \cup {Null}, NEW m \in Manifests
    PROVE  LET q == Starting(pc, s, o, m)
           IN  /\ q \in WorkerState /\ q.pc = pc /\ q.session = s /\ q.op = o
               /\ q.unspawned = {} /\ q.inbox = {}
  <1> DEFINE r1 == [IdleWorker EXCEPT !.pc = pc, !.session = s]
             r2 == [r1 EXCEPT !.op = o, !.manifest = m]
  <1>1. ASSUME NEW r \in WorkerState
        PROVE  LET q == [r EXCEPT !.pc = pc, !.session = s]
               IN  /\ q \in WorkerState /\ q.pc = pc /\ q.session = s
                   /\ q.unspawned = r.unspawned /\ q.inbox = r.inbox
    BY Zenon DEF WorkerState
  <1>2. /\ r1 \in WorkerState /\ r1.pc = pc /\ r1.session = s
        /\ r1.unspawned = {} /\ r1.inbox = {}
    BY <1>1, IdleOK, Zenon
  <1>3. /\ r2 \in WorkerState /\ r2.pc = pc /\ r2.session = s /\ r2.op = o
        /\ r2.unspawned = {} /\ r2.inbox = {}
    <2> HIDE DEF r1
    <2> QED BY <1>2, Zenon DEF WorkerState
  <1>4. Starting(pc, s, o, m) = r2
    BY Zenon DEF Starting
  <1> HIDE DEF r2
  <1> QED BY <1>3, <1>4, Zenon

(* Moving a caller changes its place alone.                                  *)
LEMMA AtOK ==
    ASSUME NEW r \in WorkerState, NEW pc \in Pcs
    PROVE  SameCaller(At(r, pc), r) /\ At(r, pc).pc = pc
  BY Zenon DEF At, SameCaller, WorkerState

(* Loading the active operation sets the caller's operation and place.       *)
LEMMA SnapshotOK ==
    ASSUME NEW r \in WorkerState, NEW o \in Ops, NEW row \in OpRow, NEW pc \in Pcs
    PROVE  LET q == Snapshot(r, o, row, pc)
           IN  /\ q \in WorkerState /\ q.pc = pc /\ q.op = o /\ q.session = r.session
               /\ q.unspawned = r.unspawned /\ q.inbox = r.inbox
  <1>1. row.phase \in Phases /\ row.version \in Nat /\ row.input \in Batches \cup {0}
    BY DEF OpRow
  <1> DEFINE r1 == [r EXCEPT !.pc = pc, !.op = o]
             r2 == [r1 EXCEPT !.phase = row.phase, !.version = row.version]
             r3 == [r2 EXCEPT !.input = row.input, !.finished = FALSE]
  <1>2. /\ r1 \in WorkerState /\ r1.pc = pc /\ r1.op = o /\ r1.session = r.session
        /\ r1.unspawned = r.unspawned /\ r1.inbox = r.inbox
    BY Zenon DEF WorkerState
  <1>3. SameCaller(r2, r1) /\ r2.pc = r1.pc
    <2> HIDE DEF r1
    <2> QED BY <1>1, <1>2, Zenon DEF WorkerState, SameCaller
  <1>4. SameCaller(r3, r2) /\ r3.pc = r2.pc
    <2> HIDE DEF r2
    <2>1. r2 \in WorkerState
      BY <1>3, Zenon DEF SameCaller
    <2> QED BY <1>1, <2>1, Zenon DEF WorkerState, SameCaller
  <1>5. Snapshot(r, o, row, pc) = r3
    BY Zenon DEF Snapshot
  <1> HIDE DEF r1, r2, r3
  <1> QED BY <1>2, <1>3, <1>4, <1>5, Zenon DEF SameCaller

(* The snapshot of a closing transaction keeps session and operation.        *)
LEMMA ReadyToCommitOK ==
    ASSUME NEW r \in WorkerState, NEW v \in Nat, NEW n \in Nat, NEW pc \in Pcs
    PROVE  LET q == ReadyToCommit(r, v, n, pc) IN SameCaller(q, r) /\ q.pc = pc
  BY Zenon DEF ReadyToCommit, SameCaller, WorkerState

(* A prepared attempt has all its children unspawned.                        *)
LEMMA AttemptingOK ==
    ASSUME NEW r \in WorkerState, NEW es \in SUBSET EffectIds
    PROVE  LET q == Attempting(r, es)
           IN  /\ q \in WorkerState /\ q.pc = "attempts" /\ q.session = r.session /\ q.op = r.op
               /\ q.unspawned = es /\ q.inbox = r.inbox
  <1>1. r.version + 1 \in Nat /\ "attempts" \in Pcs
    BY DEF WorkerState, Pcs
  <1>2. ASSUME NEW n \in Nat
        PROVE  LET q == [r EXCEPT !.pc = "attempts", !.version = n, !.unspawned = es]
               IN  /\ q \in WorkerState /\ q.pc = "attempts" /\ q.session = r.session
                   /\ q.op = r.op /\ q.unspawned = es /\ q.inbox = r.inbox
    BY <1>1, Zenon DEF WorkerState
  <1> QED BY <1>1, <1>2, Zenon DEF Attempting

(* Spawning takes one child off the unspawned.                               *)
LEMMA SpawnedOK ==
    ASSUME NEW r \in WorkerState, NEW e
    PROVE  LET q == Spawned(r, e)
           IN  /\ q \in WorkerState /\ q.pc = r.pc /\ q.session = r.session /\ q.op = r.op
               /\ q.unspawned = r.unspawned \ {e} /\ q.inbox = r.inbox
  <1>1. r.unspawned \ {e} \in SUBSET EffectIds
    BY DEF WorkerState
  <1>2. ASSUME NEW u \in SUBSET EffectIds
        PROVE  LET q == [r EXCEPT !.unspawned = u]
               IN  /\ q \in WorkerState /\ q.pc = r.pc /\ q.session = r.session /\ q.op = r.op
                   /\ q.unspawned = u /\ q.inbox = r.inbox
    BY Zenon DEF WorkerState
  <1> QED BY <1>1, <1>2, Zenon DEF Spawned

(* A completion joins the inbox.                                             *)
LEMMA DeliveredOK ==
    ASSUME NEW r \in WorkerState, NEW d \in Completion
    PROVE  LET q == Delivered(r, d)
           IN  /\ q \in WorkerState /\ q.pc = r.pc /\ q.session = r.session /\ q.op = r.op
               /\ q.unspawned = r.unspawned /\ q.inbox = r.inbox \cup {d}
  <1>1. r.inbox \cup {d} \in SUBSET Completion
    BY DEF WorkerState
  <1>2. ASSUME NEW u \in SUBSET Completion
        PROVE  LET q == [r EXCEPT !.inbox = u]
               IN  /\ q \in WorkerState /\ q.pc = r.pc /\ q.session = r.session /\ q.op = r.op
                   /\ q.unspawned = r.unspawned /\ q.inbox = u
    BY Zenon DEF WorkerState
  <1> QED BY <1>1, <1>2, Zenon DEF Delivered

(* A received completion leaves the inbox.                                   *)
LEMMA ReceivedOK ==
    ASSUME NEW r \in WorkerState, NEW d, NEW f \in BOOLEAN
    PROVE  LET q == Received(r, d, f)
           IN  /\ q \in WorkerState /\ q.pc = r.pc /\ q.session = r.session /\ q.op = r.op
               /\ q.unspawned = r.unspawned /\ q.inbox = r.inbox \ {d}
  <1>1. r.inbox \ {d} \in SUBSET Completion
    BY DEF WorkerState
  <1>2. ASSUME NEW u \in SUBSET Completion
        PROVE  LET q == [r EXCEPT !.inbox = u, !.finished = f]
               IN  /\ q \in WorkerState /\ q.pc = r.pc /\ q.session = r.session /\ q.op = r.op
                   /\ q.unspawned = r.unspawned /\ q.inbox = u
    BY Zenon DEF WorkerState
  <1> QED BY <1>1, <1>2, Zenon DEF Received

-----------------------------------------------------------------------------
(* Types of the rows and memory, step by step.                            *)

(* A caller inside drive or abandon is on a session, and past activation on *)
(* an admitted operation of that session.                                   *)
LEMMA CallerFacts ==
    ASSUME TypeOK, Placed, NEW w \in Workers
    PROVE  /\ worker[w] \in WorkerState
           /\ worker[w].unspawned \subseteq EffectIds /\ worker[w].inbox \subseteq Completion
           /\ worker[w].version \in Nat /\ worker[w].manifest \in Manifests \cup {Null}
           /\ worker[w].finished \in BOOLEAN
           /\ worker[w].pc # "idle" => worker[w].session \in Sessions
           /\ worker[w].pc \notin {"idle", "activate"} =>
                /\ worker[w].op \in Ops /\ op[worker[w].op] \in OpRow
                /\ op[worker[w].op].session = worker[w].session
  BY DEF TypeOK, Placed, WorkerState

(* What a returning caller leaves behind is well typed.                     *)
LEMMA ReturnType ==
    ASSUME TypeOK, NEW w \in Workers, Return(w)
    PROVE  /\ worker' \in [Workers -> WorkerState]
           /\ tasks' \subseteq Task
           /\ running' \in [Sessions -> [bound: Ops \cup {Null, Unbound}, cancelled: BOOLEAN]]
  <1>1. worker' \in [Workers -> WorkerState]
    BY IdleOK DEF Return, TypeOK
  <1>2. tasks' \subseteq Task
    BY DEF Return, TypeOK, Task, Disowned
  <1>3. running' \in [Sessions -> [bound: Ops \cup {Null, Unbound}, cancelled: BOOLEAN]]
    BY DEF Return, TypeOK, AfterDrop, NoEntry, Entry
  <1> QED BY <1>1, <1>2, <1>3

(* append_events keeps the types of cursor and history.                      *)
LEMMA AppendType ==
    ASSUME TypeOK, NEW s \in Sessions, NEW o \in Ops, NEW n \in 0..MaxAppend, AppendEvents(s, o, n)
    PROVE  events' \subseteq Event /\ nextSeq' \in [Sessions -> Nat]
  BY BoundsAssumption DEF AppendEvents, TypeOK, Event

(* The terminal write keeps the types of the rows it touches.                *)
LEMMA FinishType ==
    ASSUME TypeOK, NEW o \in Ops, NEW p \in Terminal, NEW x \in Outcomes, NEW c \in Batches \cup {0},
           FinishOperation(o, p, x, c)
    PROVE  /\ op' \in [Ops -> OpRow]
           /\ active' \in [Sessions -> Ops \cup {Null}]
           /\ eff' \in [EffectIds -> EffRow]
  <1>1. op' \in [Ops -> OpRow]
    BY EndedOK DEF FinishOperation, TypeOK, KeepsOp
  <1>2. active' \in [Sessions -> Ops \cup {Null}]
    BY DEF FinishOperation, TypeOK
  <1>3. eff' \in [EffectIds -> EffRow]
    BY ReleasedOK DEF FinishOperation, ReleaseFinishedRequests, TypeOK
  <1> QED BY <1>1, <1>2, <1>3

(* transition_batch_if_terminal leaves an operation row.                    *)
LEMMA AfterChildrenOK ==
    ASSUME TypeOK, NEW o \in Ops, NEW rows, op[o].phase # "absent"
    PROVE  KeepsOp(AfterChildren(rows, o), op[o]) /\ AfterChildren(rows, o).outcome = op[o].outcome
  <1>1. op[o] \in OpRow
    BY DEF TypeOK
  <1>2. Some(rows, o, op[o].current, "outcome_unknown") \in BOOLEAN
    BY Zenon DEF Some
  <1>3. CASE Some(rows, o, op[o].current, "dispatch_started")
    BY <1>1, <1>3, Zenon DEF AfterChildren, KeepsOp
  <1>4. CASE ~Some(rows, o, op[o].current, "dispatch_started")
    BY <1>1, <1>2, <1>4, FinishedBatchOK, Zenon DEF AfterChildren
  <1> QED BY <1>3, <1>4

(* The empty database and a fresh process are well typed.                    *)
LEMMA InitType == Init => TypeOK
  <1> SUFFICES ASSUME Init PROVE TypeOK
    OBVIOUS
  <1>1. NoRow \in OpRow /\ NoEffect \in EffRow
    BY BoundsAssumption, NamesOK DEF NoRow, NoEffect, OpRow, EffRow, Outcomes, Statuses, Recoveries
  <1> QED BY <1>1, IdleOK DEF Init, TypeOK, NoEntry, Entry
-----------------------------------------------------------------------------
(* Requests, admission and acquisition.                                     *)
LEMMA OutsideType ==
    ASSUME TypeOK,
           \/ \E o \in Ops, s \in Sessions : Admit(o, s)
           \/ \E i \in CancelIds, o \in Ops : RequestCancellation(i, o)
           \/ \E i \in CancelIds : RetryCancellation(i)
           \/ \E o \in Ops : SignalRunningOperation(o)
           \/ \E w \in Workers, s \in Sessions, m \in Manifests : Drive(w, s, m)
           \/ \E w \in Workers, o \in Ops, m \in Manifests : Abandon(w, o, m)
    PROVE  TypeOK'
  <1>1. ASSUME NEW o \in Ops, NEW s \in Sessions, Admit(o, s) PROVE TypeOK'
    <2>1. op' \in [Ops -> OpRow]
      BY <1>1, NewRowOK DEF Admit, TypeOK
    <2>2. nextPos' \in [Sessions -> Nat]
      BY <1>1 DEF Admit, TypeOK
    <2> QED BY <1>1, <2>1, <2>2 DEF Admit, TypeOK, volatile
  <1>2. ASSUME NEW i \in CancelIds, NEW o \in Ops, RequestCancellation(i, o) PROVE TypeOK'
    BY <1>2 DEF RequestCancellation, TypeOK
  <1>3. ASSUME NEW i \in CancelIds, RetryCancellation(i) PROVE TypeOK'
    <2>1. cancel[i] \in Ops
      BY <1>3 DEF RetryCancellation, TypeOK
    <2> QED BY <1>3, <2>1 DEF RetryCancellation, TypeOK, durable
  <1>4. ASSUME NEW o \in Ops, SignalRunningOperation(o) PROVE TypeOK'
    <2>1. running' \in [Sessions -> [bound: Ops \cup {Null, Unbound}, cancelled: BOOLEAN]]
      BY <1>4 DEF SignalRunningOperation, TypeOK, Entry
    <2> QED BY <1>4, <2>1 DEF SignalRunningOperation, TypeOK, durable
  <1>5. ASSUME NEW w \in Workers, NEW s \in Sessions, NEW m \in Manifests, Drive(w, s, m)
        PROVE  TypeOK'
    <2>1. "activate" \in Pcs
      BY DEF Pcs
    <2>2. Starting("activate", s, Null, m) \in WorkerState
      BY <2>1, StartingOK, Zenon
    <2>3. running' \in [Sessions -> [bound: Ops \cup {Null, Unbound}, cancelled: BOOLEAN]]
      BY <1>5 DEF Drive, Acquire, TypeOK, Entry
    <2>4. worker' \in [Workers -> WorkerState]
      BY <1>5, <2>2 DEF Drive, Acquire, TypeOK
    <2> QED BY <1>5, <2>3, <2>4 DEF Drive, TypeOK, durable
  <1>6. ASSUME NEW w \in Workers, NEW o \in Ops, NEW m \in Manifests, Abandon(w, o, m)
        PROVE  TypeOK'
    <2>1. "abandon" \in Pcs /\ op[o].session \in Sessions
      BY <1>6 DEF Abandon, Pcs, TypeOK, OpRow
    <2>2. Starting("abandon", op[o].session, o, m) \in WorkerState
      BY <2>1, StartingOK, Zenon
    <2>3. running' \in [Sessions -> [bound: Ops \cup {Null, Unbound}, cancelled: BOOLEAN]]
      BY <1>6, <2>1 DEF Abandon, Acquire, TypeOK, Entry
    <2>4. worker' \in [Workers -> WorkerState]
      BY <1>6, <2>2 DEF Abandon, Acquire, TypeOK
    <2> QED BY <1>6, <2>3, <2>4 DEF Abandon, TypeOK, durable
  <1> QED BY <1>1, <1>2, <1>3, <1>4, <1>5, <1>6

(* Steps of drive before and between effect batches.                        *)
LEMMA TurnType ==
    ASSUME TypeOK, Placed, NEW w \in Workers,
           \/ \E o \in Ops : ActivateNext(w, o)
           \/ ActivateOwned(w) \/ DriveIdle(w) \/ Bind(w) \/ LoadActive(w)
           \/ NoCancellation(w) \/ DriveBlocked(w) \/ YieldToCancellation(w) \/ LoadCancellation(w)
    PROVE  TypeOK'
  <1> USE CallerFacts
  <1>pcs. {"bind", "check", "step", "close", "reload"} \subseteq Pcs
    BY DEF Pcs
  <1>1. ASSUME NEW o \in Ops, ActivateNext(w, o) PROVE TypeOK'
    <2>1. op[o] \in OpRow /\ worker[w].manifest \in Manifests \cup {Null}
      BY DEF TypeOK
    <2>2. op' \in [Ops -> OpRow]
      BY <1>1, <2>1, ActivatedOK DEF ActivateNext, TypeOK, KeepsOp
    <2>3. active' \in [Sessions -> Ops \cup {Null}]
      BY <1>1 DEF ActivateNext, TypeOK
    <2>4. Snapshot(worker[w], o, op'[o], "bind") \in WorkerState
      BY <2>2, <1>pcs, SnapshotOK
    <2>5. worker' \in [Workers -> WorkerState]
      BY <1>1, <2>4 DEF ActivateNext, Goto, TypeOK
    <2> QED BY <1>1, <2>2, <2>3, <2>5 DEF ActivateNext, Goto, TypeOK
  <1>2. CASE ActivateOwned(w)
    <2> DEFINE a == active[worker[w].session]
    <2>1. a \in Ops /\ op[a] \in OpRow
      BY <1>2 DEF ActivateOwned, TypeOK
    <2>2. Snapshot(worker[w], a, op[a], "bind") \in WorkerState
      BY <2>1, <1>pcs, SnapshotOK
    <2>3. worker' \in [Workers -> WorkerState]
      BY <1>2, <2>2 DEF ActivateOwned, Goto, TypeOK
    <2> QED BY <1>2, <2>3 DEF ActivateOwned, Goto, TypeOK, durable
  <1>3. CASE DriveIdle(w)
    BY <1>3, ReturnType DEF DriveIdle, TypeOK, durable
  <1>4. CASE Bind(w)
    <2>1. CASE op[worker[w].op].manifest = worker[w].manifest
      <3>1. At(worker[w], "check") \in WorkerState
        BY <1>pcs, AtOK DEF SameCaller
      <3>2. worker' \in [Workers -> WorkerState]
        BY <1>4, <2>1, <3>1 DEF Bind, TypeOK
      <3>3. running' \in [Sessions -> [bound: Ops \cup {Null, Unbound}, cancelled: BOOLEAN]]
        BY <1>4, <2>1 DEF Bind, TypeOK, Entry
      <3> QED BY <1>4, <2>1, <3>2, <3>3 DEF Bind, TypeOK, durable
    <2>2. CASE op[worker[w].op].manifest # worker[w].manifest
      BY <1>4, <2>2, ReturnType DEF Bind, TypeOK, durable
    <2> QED BY <2>1, <2>2
  <1>5. CASE LoadActive(w)
    <2>1. worker[w].op \in Ops /\ op[worker[w].op] \in OpRow
      BY <1>5 DEF LoadActive
    <2>2. Snapshot(worker[w], worker[w].op, op[worker[w].op], "check") \in WorkerState
      BY <2>1, <1>pcs, SnapshotOK
    <2>3. worker' \in [Workers -> WorkerState]
      BY <1>5, <2>2 DEF LoadActive, Goto, TypeOK
    <2> QED BY <1>5, <2>3 DEF LoadActive, Goto, TypeOK, durable
  <1>6. CASE NoCancellation(w)
    <2>1. At(worker[w], "step") \in WorkerState
      BY <1>pcs, AtOK DEF SameCaller
    <2>2. worker' \in [Workers -> WorkerState]
      BY <1>6, <2>1 DEF NoCancellation, Goto, TypeOK
    <2> QED BY <1>6, <2>2 DEF NoCancellation, Goto, TypeOK, durable
  <1>7. CASE DriveBlocked(w)
    BY <1>7, ReturnType DEF DriveBlocked, TypeOK, durable
  <1>8. CASE YieldToCancellation(w)
    <2>1. At(worker[w], "reload") \in WorkerState
      BY <1>pcs, AtOK DEF SameCaller
    <2>2. worker' \in [Workers -> WorkerState]
      BY <1>8, <2>1 DEF YieldToCancellation, Goto, TypeOK
    <2> QED BY <1>8, <2>2 DEF YieldToCancellation, Goto, TypeOK, durable
  <1>9. CASE LoadCancellation(w)
    <2> DEFINE a == worker[w].op
    <2>1. a \in Ops /\ op[a] \in OpRow /\ op[a].phase # "absent" /\ nextSeq[worker[w].session] \in Nat
      BY <1>9 DEF LoadCancellation, IsCancellable, Live, TypeOK
    <2>2. eff' \in [EffectIds -> EffRow]
      <3>1. ClosedChildren(a) \in [EffectIds -> EffRow]
        BY MarkedOK, NamesOK DEF ClosedChildren, TypeOK
      <3>2. eff' = ClosedChildren(a) \/ eff' = eff
        BY <1>9, Zenon DEF LoadCancellation
      <3> QED BY <3>1, <3>2 DEF TypeOK
    <2>3. op' \in [Ops -> OpRow]
      <3>1. CASE op[a].phase = "effect_dispatched"
        <4>1. AfterChildren(eff', a) \in OpRow
          BY <2>1, AfterChildrenOK DEF KeepsOp
        <4>2. op' = [op EXCEPT ![a] = AfterChildren(eff', a)]
          BY <1>9, <3>1 DEF LoadCancellation
        <4> QED BY <4>1, <4>2 DEF TypeOK
      <3>2. CASE op[a].phase # "effect_dispatched"
        BY <1>9, <3>2 DEF LoadCancellation, TypeOK
      <3> QED BY <3>1, <3>2
    <2>4. op'[a].version \in Nat
      BY <2>1, <2>3 DEF OpRow
    <2>5. ReadyToCommit(worker[w], op'[a].version, nextSeq[worker[w].session], "close") \in WorkerState
      BY <2>1, <2>4, <1>pcs, ReadyToCommitOK DEF SameCaller
    <2>6. worker' \in [Workers -> WorkerState]
      BY <1>9, <2>5 DEF LoadCancellation, Goto, TypeOK
    <2> QED BY <1>9, <2>2, <2>3, <2>6 DEF LoadCancellation, Goto, TypeOK
  <1> QED BY <1>1, <1>2, <1>3, <1>4, <1>5, <1>6, <1>7, <1>8, <1>9

(* A turn's transactions, and an abandonment's.                             *)
LEMMA CommitType ==
    ASSUME TypeOK, Placed, NEW w \in Workers, NEW n \in 0..MaxAppend,
           NEW p \in Terminal \ {"cancelled"},
           \/ CommitCancellation(w, n) \/ DecideAppend(w, n) \/ DecideFinish(w, p, n)
           \/ CommitAbandonment(w, n)
    PROVE  TypeOK'
  <1> USE CallerFacts
  <1>1. /\ worker[w].session \in Sessions /\ worker[w].op \in Ops
        /\ op[worker[w].op] \in OpRow /\ op[worker[w].op].current \in Batches \cup {0}
    BY DEF CommitCancellation, DecideAppend, DecideFinish, CommitAbandonment, MayDecide, OpRow
  <1>2. {"cancelled", "failed"} \subseteq Terminal /\ "reload" \in Pcs
        /\ {"cancelled", "abandoned", p} \subseteq Outcomes
    BY DEF Terminal, Outcomes, Pcs
  <1>3. CASE CommitCancellation(w, n)
    <2>1. AppendEvents(worker[w].session, worker[w].op, n) /\ Return(w)
          /\ FinishOperation(worker[w].op, "cancelled", "cancelled", 0)
          /\ UNCHANGED <<nextPos, cancel, signals, invoked, faults>>
      BY <1>3, Zenon DEF CommitCancellation
    <2> QED BY <1>1, <1>2, <2>1, AppendType, FinishType, ReturnType DEF TypeOK
  <1>4. CASE DecideAppend(w, n)
    <2>1. AppendEvents(worker[w].session, worker[w].op, n)
          /\ op' = [op EXCEPT ![worker[w].op] = Continued(@)]
          /\ Goto(w, At(worker[w], "reload")) /\ op[worker[w].op].phase = "need_decision"
          /\ UNCHANGED <<active, nextPos, eff, cancel, tasks, signals, invoked, faults>>
      BY <1>4, Zenon DEF DecideAppend, MayDecide
    <2>2. op' \in [Ops -> OpRow]
      BY <1>1, <2>1, ContinuedOK DEF TypeOK, KeepsOp
    <2>3. At(worker[w], "reload") \in WorkerState
      BY <1>2, AtOK DEF SameCaller
    <2>4. worker' \in [Workers -> WorkerState] /\ running' = running
      BY <2>1, <2>3 DEF Goto, TypeOK
    <2> QED BY <1>1, <2>1, <2>2, <2>4, AppendType DEF TypeOK
  <1>5. CASE DecideFinish(w, p, n)
    <2>1. AppendEvents(worker[w].session, worker[w].op, n) /\ Return(w)
          /\ FinishOperation(worker[w].op, p, p, op[worker[w].op].current)
          /\ UNCHANGED <<nextPos, cancel, signals, invoked, faults>>
      BY <1>5, Zenon DEF DecideFinish
    <2> QED BY <1>1, <1>2, <2>1, AppendType, FinishType, ReturnType DEF TypeOK
  <1>6. CASE CommitAbandonment(w, n)
    <2>1. AppendEvents(worker[w].session, worker[w].op, n) /\ Return(w)
          /\ FinishOperation(worker[w].op, "failed", "abandoned", 0)
          /\ UNCHANGED <<nextPos, cancel, signals, invoked, faults>>
      BY <1>6, Zenon DEF CommitAbandonment
    <2> QED BY <1>1, <1>2, <2>1, AppendType, FinishType, ReturnType DEF TypeOK
  <1> QED BY <1>3, <1>4, <1>5, <1>6

(* The transactions of an effect batch.                                     *)
LEMMA BatchType ==
    ASSUME TypeOK, Placed, NEW w \in Workers,
           \/ \E r \in Batch : DecideEffects(w, r)
           \/ PrepareEffectBatch(w) \/ FinishWithoutInvocations(w)
           \/ FinishEffectBatchAttempt(w)
    PROVE  TypeOK'
  <1> USE CallerFacts
  <1> DEFINE o == worker[w].op
  <1>1. o \in Ops /\ op[o] \in OpRow
    BY DEF DecideEffects, MayDecide, PrepareEffectBatch, FinishWithoutInvocations, MayPrepare,
           FinishEffectBatchAttempt, AttemptsDone
  <1>2. "reload" \in Pcs
    BY DEF Pcs
  <1>3. At(worker[w], "reload") \in WorkerState
    BY <1>2, AtOK DEF SameCaller
  <1>4. PreparedChildren(o) \in [EffectIds -> EffRow]
    BY MarkedOK, StartedOK, NamesOK DEF PreparedChildren, TypeOK
  <1>5. ASSUME NEW r \in Batch, DecideEffects(w, r) PROVE TypeOK'
    <2> DEFINE b == op[o].next + 1
    <2>1. /\ b \in Batches
          /\ eff' = [e \in EffectIds |-> IF e[1] = o /\ e[2] = b /\ e[3] \in DOMAIN r
                                           THEN Intent(r[e[3]]) ELSE eff[e]]
          /\ op' = [op EXCEPT ![o] = WithBatch(@, b)]
          /\ Goto(w, At(worker[w], "reload"))
          /\ UNCHANGED <<active, nextPos, nextSeq, events, cancel, tasks, signals, invoked, faults>>
      BY <1>5, Zenon DEF DecideEffects
    <2> HIDE DEF b
    <2>2. ASSUME NEW k \in DOMAIN r PROVE Intent(r[k]) \in EffRow
      BY IntentOK DEF Batch
    <2>3. eff' \in [EffectIds -> EffRow]
      BY <2>1, <2>2 DEF TypeOK
    <2>4. op' \in [Ops -> OpRow]
      BY <1>1, <2>1, WithBatchOK DEF TypeOK
    <2>5. worker' \in [Workers -> WorkerState] /\ running' = running
      BY <2>1, <1>3 DEF Goto, TypeOK
    <2> QED BY <2>1, <2>3, <2>4, <2>5 DEF TypeOK
  <1>6. CASE PrepareEffectBatch(w)
    <2>1. op' \in [Ops -> OpRow]
      BY <1>1, <1>6, DispatchedOK DEF PrepareEffectBatch, TypeOK, KeepsOp
    <2>2. Dispatchable(o) \subseteq EffectIds
      BY DEF Dispatchable, Children
    <2>3. Attempting(worker[w], Dispatchable(o)) \in WorkerState
      BY <2>2, AttemptingOK
    <2>4. worker' \in [Workers -> WorkerState] /\ running' = running
      BY <1>6, <2>3 DEF PrepareEffectBatch, Goto, TypeOK
    <2> QED BY <1>4, <1>6, <2>1, <2>4 DEF PrepareEffectBatch, TypeOK
  <1>7. CASE FinishWithoutInvocations(w)
    <2>1. Some(eff', o, op[o].current, "outcome_unknown") \in BOOLEAN
      BY Zenon DEF Some
    <2>2. FinishedBatch(op[o], Some(eff', o, op[o].current, "outcome_unknown")) \in OpRow
      BY <1>1, <2>1, FinishedBatchOK, Zenon DEF KeepsOp
    <2>3. op' \in [Ops -> OpRow]
      BY <1>1, <1>7, <2>2 DEF FinishWithoutInvocations, TypeOK
    <2>4. worker' \in [Workers -> WorkerState] /\ running' = running
      BY <1>7, <1>3 DEF FinishWithoutInvocations, Goto, TypeOK
    <2> QED BY <1>4, <1>7, <2>3, <2>4 DEF FinishWithoutInvocations, TypeOK
  <1>8. CASE FinishEffectBatchAttempt(w)
    <2>1. op' \in [Ops -> OpRow]
      <3>1. CASE worker[w].finished \/ Requested(o)
        BY <1>8, <3>1 DEF FinishEffectBatchAttempt, TypeOK
      <3>2. CASE ~(worker[w].finished \/ Requested(o))
        <4>1. op' = [op EXCEPT ![o] = AfterChildren(eff, o)] /\ op[o].phase = "effect_dispatched"
          BY <1>8, <3>2, Zenon DEF FinishEffectBatchAttempt
        <4> QED BY <1>1, <4>1, AfterChildrenOK DEF TypeOK, KeepsOp
      <3> QED BY <3>1, <3>2
    <2>2. worker' \in [Workers -> WorkerState] /\ running' = running
      BY <1>8, <1>3 DEF FinishEffectBatchAttempt, Goto, TypeOK
    <2> QED BY <1>8, <2>1, <2>2 DEF FinishEffectBatchAttempt, TypeOK
  <1> QED BY <1>5, <1>6, <1>7, <1>8

(* Tasks and completions.                                                   *)
LEMMA TaskType ==
    ASSUME TypeOK, Placed, NEW w \in Workers,
           \/ \E e \in EffectIds : SpawnEffect(w, e)
           \/ \E done \in worker[w].inbox :
                 SettleBatchEffect(w, done) \/ RecordBatchEffectUnknown(w, done)
                   \/ LeaveForReplay(w, done)
    PROVE  TypeOK'
  <1> USE CallerFacts
  <1> DEFINE o == worker[w].op
  <1>1. o \in Ops /\ op[o] \in OpRow
    BY DEF SpawnEffect, SettleBatchEffect, RecordBatchEffectUnknown, LeaveForReplay
  <1>2. ASSUME NEW e \in EffectIds, SpawnEffect(w, e) PROVE TypeOK'
    <2>1. worker' \in [Workers -> WorkerState] /\ running' = running
      BY <1>2, SpawnedOK DEF SpawnEffect, Goto, TypeOK
    <2>2. invoked' \in [EffectIds -> Nat]
      BY <1>2 DEF SpawnEffect, TypeOK
    <2>3. eff[e].count \in Nat
      BY DEF TypeOK, EffRow
    <2>4. tasks' \subseteq Task
      BY <1>2, <2>3 DEF SpawnEffect, TypeOK, Task
    <2> QED BY <1>2, <2>1, <2>2, <2>4 DEF SpawnEffect, TypeOK, durable
  <1>3. ASSUME NEW done \in worker[w].inbox, NEW x \in {"settled", "outcome_unknown"},
               Receive(w, done, x)
        PROVE  TypeOK'
    <2>1. done.effect \in EffectIds /\ op[o].phase = "effect_dispatched"
      BY <1>3 DEF Receive, MayRecord, Completion
    <2>2. eff' \in [EffectIds -> EffRow]
      BY <1>3, <2>1, MarkedOK, NamesOK DEF Receive, TypeOK
    <2>3. AfterChildren(eff', o) \in OpRow
      BY <1>1, <2>1, AfterChildrenOK DEF KeepsOp
    <2>4. op' \in [Ops -> OpRow]
      BY <1>1, <1>3, <2>3 DEF Receive, TypeOK
    <2>5. Received(worker[w], done, worker[w].finished \/ op'[o].phase # "effect_dispatched")
            \in WorkerState
      BY ReceivedOK
    <2>6. worker' \in [Workers -> WorkerState] /\ running' = running
      BY <1>3, <2>5 DEF Receive, Goto, TypeOK
    <2> QED BY <1>3, <2>2, <2>4, <2>6 DEF Receive, TypeOK
  <1>4. ASSUME NEW done \in worker[w].inbox, LeaveForReplay(w, done) PROVE TypeOK'
    <2>1. worker' \in [Workers -> WorkerState] /\ running' = running
      BY <1>4, ReceivedOK DEF LeaveForReplay, Goto, TypeOK
    <2> QED BY <1>4, <2>1 DEF LeaveForReplay, TypeOK, durable
  <1> QED BY <1>2, <1>3, <1>4 DEF SettleBatchEffect, RecordBatchEffectUnknown

(* A resolving adapter (supervise_effect) keeps the types.                   *)
LEMMA AdapterType ==
    ASSUME TypeOK, NEW t \in tasks, NEW x \in {"settled", "unknown"}, AdapterResolves(t, x)
    PROVE  TypeOK'
  <1> DEFINE done == [effect |-> t.effect, attempt |-> t.attempt, result |-> x]
  <1>1. done \in Completion /\ t.owner \in Workers \cup {Null}
    BY DEF TypeOK, Task, Completion
  <1>2. worker' \in [Workers -> WorkerState]
    <2>1. CASE t.owner = Null
      BY <2>1 DEF AdapterResolves, TypeOK
    <2>2. CASE t.owner # Null
      <3>1. t.owner \in Workers /\ worker[t.owner] \in WorkerState
        BY <1>1, <2>2 DEF TypeOK
      <3>2. Delivered(worker[t.owner], done) \in WorkerState
        BY <1>1, <3>1, DeliveredOK
      <3>3. worker' = [worker EXCEPT ![t.owner] = Delivered(worker[t.owner], done)]
        BY <2>2 DEF AdapterResolves
      <3> HIDE DEF done
      <3> QED BY <3>1, <3>2, <3>3 DEF TypeOK
    <2> QED BY <2>1, <2>2
  <1>3. running' \in [Sessions -> [bound: Ops \cup {Null, Unbound}, cancelled: BOOLEAN]]
    BY DEF AdapterResolves, AfterDrop, TypeOK, NoEntry, Entry
  <1> QED BY <1>2, <1>3 DEF AdapterResolves, TypeOK, durable

(* Abandonment up to its commit, failures and crashes.                      *)
LEMMA AbandonType ==
    ASSUME TypeOK, Placed, NEW w \in Workers,
           \/ LoadPendingAbandonment(w) \/ NothingToAbandon(w) \/ AbandonRefused(w)
           \/ DriveEnds(w)
    PROVE  TypeOK'
  <1> USE CallerFacts
  <1>1. CASE LoadPendingAbandonment(w)
    <2>1. op[worker[w].op].version \in Nat /\ nextSeq[worker[w].session] \in Nat
          /\ "abandonCommit" \in Pcs
      BY <1>1 DEF LoadPendingAbandonment, TypeOK, OpRow, Pcs
    <2>2. ReadyToCommit(worker[w], op[worker[w].op].version, nextSeq[worker[w].session],
                        "abandonCommit") \in WorkerState
      BY <2>1, ReadyToCommitOK DEF SameCaller
    <2>3. worker' \in [Workers -> WorkerState] /\ running' = running
      BY <1>1, <2>2 DEF LoadPendingAbandonment, Goto, TypeOK
    <2> QED BY <1>1, <2>3 DEF LoadPendingAbandonment, TypeOK, durable
  <1>2. CASE NothingToAbandon(w)
    BY <1>2, ReturnType DEF NothingToAbandon, TypeOK, durable
  <1>3. CASE AbandonRefused(w)
    BY <1>3, ReturnType DEF AbandonRefused, TypeOK, durable
  <1>4. CASE DriveEnds(w)
    BY <1>4, ReturnType DEF DriveEnds, TypeOK, durable
  <1> QED BY <1>1, <1>2, <1>3, <1>4

(* Reopening the database after a crash keeps the types.                     *)
LEMMA CrashType == ASSUME TypeOK, Crash PROVE TypeOK'
  <1>1. worker' \in [Workers -> WorkerState]
    BY IdleOK DEF Crash
  <1> QED BY <1>1 DEF Crash, TypeOK, durable, NoEntry, Entry
-----------------------------------------------------------------------------
(* Every step keeps the types.                                               *)
LEMMA NextType ==
    ASSUME TypeOK, Placed, [Next]_vars
    PROVE  TypeOK'
  <1>1. CASE UNCHANGED vars
    BY <1>1 DEF vars, TypeOK
  <1>2. ASSUME NEW o \in Ops, NEW s \in Sessions, Submit(o, s) \/ SubmitExclusive(o, s)
        PROVE  TypeOK'
    BY <1>2, OutsideType, Zenon DEF Submit, SubmitExclusive
  <1>3. ASSUME NEW w \in Workers, DriveStep(w)
        PROVE  TypeOK'
    <2>1. "waiting" \in Terminal \ {"cancelled"}
      BY DEF Terminal
    <2>2. ASSUME NEW n \in 0..MaxAppend, CommitCancellation(w, n) \/ DecideAppend(w, n)
          PROVE  TypeOK'
      BY <2>1, <2>2, CommitType, Zenon
    <2>3. ASSUME NEW n \in 0..MaxAppend, NEW p \in Terminal \ {"cancelled"}, DecideFinish(w, p, n)
          PROVE  TypeOK'
      BY <2>3, CommitType, Zenon
    <2> QED BY <1>3, <2>2, <2>3, TurnType, BatchType, TaskType, Zenon DEF DriveStep
  <1>4. ASSUME NEW w \in Workers, AbandonStep(w) \/ DriveEnds(w)
        PROVE  TypeOK'
    <2>1. "waiting" \in Terminal \ {"cancelled"}
      BY DEF Terminal
    <2>2. ASSUME NEW n \in 0..MaxAppend, CommitAbandonment(w, n)
          PROVE  TypeOK'
      BY <2>1, <2>2, CommitType, Zenon
    <2> QED BY <1>4, <2>2, AbandonType, Zenon DEF AbandonStep
  <1> QED BY <1>1, <1>2, <1>3, <1>4, OutsideType, AdapterType, CrashType, Zenon DEF Next
-----------------------------------------------------------------------------
(* The dispatch guarantees *)

(* What most transactions leave alone: the identity of operations and the   *)
(* status of an effect.                                                     *)
OpsKept ==
    \A o \in Ops : /\ op'[o].session = op[o].session
                   /\ op'[o].next = op[o].next
                   /\ op'[o].phase = "absent" <=> op[o].phase = "absent"
RowKept(e) ==
    eff'[e].status = eff[e].status /\ eff'[e].count = eff[e].count
      /\ eff'[e].recovery = eff[e].recovery
ActiveKept == \A s \in Sessions : active'[s] \in {active[s], Null}

(* An effect belongs to an operation and to one of its batches.              *)
LEMMA EffectIdFacts ==
    ASSUME NEW e \in EffectIds
    PROVE  e[1] \in Ops /\ e[2] \in Batches /\ e[2] \in Nat
  BY NamesOK DEF EffectIds

(* A task runs an effect of an operation, for a caller or for nobody.        *)
LEMMA TaskFacts ==
    ASSUME TypeOK, NEW t \in tasks
    PROVE  /\ t \in Task /\ t.effect \in EffectIds /\ t.effect[1] \in Ops
           /\ t.owner \in Workers \cup {Null}
  BY EffectIdFacts DEF TypeOK, Task

(* The inductive invariant holds initially.                                  *)
LEMMA InitInv == Init => IInv
  <1> SUFFICES ASSUME Init PROVE IInv
    OBVIOUS
  <1>1. /\ \A e \in EffectIds : eff[e].status = "none" /\ eff[e].count = 0 /\ invoked[e] = 0
        /\ \A o \in Ops : op[o].session = Null /\ op[o].phase = "absent" /\ op[o].next = 0
        /\ \A w \in Workers : /\ worker[w].pc = "idle" /\ worker[w].session = Null
                              /\ worker[w].unspawned = {} /\ worker[w].inbox = {}
    BY IdleOK DEF Init, NoEffect, NoRow
  <1>2. TypeOK
    BY InitType
  <1>3. Placed /\ RowsAgree /\ TasksOwned /\ TasksStarted
    BY <1>1 DEF Init, Placed, RowsAgree, TasksOwned, TasksStarted
  <1>4. LeaseCovers /\ OneWorker
    BY <1>1, NullAssumption DEF Init, LeaseCovers, OneWorker, Holds
  <1>5. AttemptsStarted /\ DispatchCounted
    BY <1>1 DEF AttemptsStarted, AttemptStarted, DispatchCounted
  <1> QED BY <1>2, <1>3, <1>4, <1>5 DEF IInv
-----------------------------------------------------------------------------
(* A caller returns, from any place, in a step that leaves the dispatch     *)
(* state alone.                                                             *)
LEMMA ReturnStep ==
    ASSUME IInv, TypeOK', NEW w \in Workers, Return(w), OpsKept, \A e \in EffectIds : RowKept(e),
           ActiveKept, UNCHANGED <<cancel, invoked>>
    PROVE  IInv'
  <1> USE DEF IInv
  <1>1. /\ worker'[w].pc = "idle" /\ worker'[w].session = Null
        /\ worker'[w].unspawned = {} /\ worker'[w].inbox = {}
        /\ \A v \in Workers : v # w => worker'[v] = worker[v]
    BY IdleOK DEF Return, TypeOK
  <1>2. ASSUME NEW u \in tasks'
        PROVE  \E t \in tasks : u.effect = t.effect /\ u.attempt = t.attempt
                                  /\ u.owner = IF t.owner = w THEN Null ELSE t.owner
    BY <1>2 DEF Return, Disowned
  <1>4. Placed'
    BY <1>1 DEF Placed, OpsKept, TypeOK, WorkerState
  <1>5. RowsAgree'
    <2>1. \A s \in Sessions : active'[s] # Null => active[s] \in Ops /\ active'[s] = active[s]
      BY DEF ActiveKept, TypeOK
    <2>2. \A i \in CancelIds : cancel'[i] = cancel[i] /\ (cancel[i] # Null => cancel[i] \in Ops)
      BY DEF TypeOK
    <2> QED BY <2>1, <2>2 DEF RowsAgree, OpsKept
  <1>6. LeaseCovers'
    <2> SUFFICES ASSUME NEW s \in Sessions, Holds(worker, tasks, s)'
                 PROVE  running'[s].bound # Null
      BY DEF LeaseCovers
    <2>1. \A t \in tasks' : op'[t.effect[1]].session = op[t.effect[1]].session
      BY TaskFacts, <1>2 DEF OpsKept
    <2>2. Holds(worker', tasks', s)
      BY <2>1 DEF Holds
    <2>3. Holds(worker, tasks, s)
      BY <2>2, <1>1, <1>2, NullAssumption DEF Holds
    <2>4. running'[s] = running[s]
      BY <2>2 DEF Return, AfterDrop
    <2> QED BY <2>3, <2>4 DEF LeaseCovers
  <1>7. OneWorker'
    <2>1. \A v \in Workers : worker'[v].pc # "idle" => worker'[v].session # Null /\ v # w
      BY <1>1, <1>4 DEF Placed
    <2> QED BY <1>1, <2>1 DEF OneWorker
  <1>8. TasksOwned'
    <2> SUFFICES ASSUME NEW u \in tasks'
                 PROVE  /\ op'[u.effect[1]].session # Null
                        /\ \A v \in Workers : worker'[v].session = op'[u.effect[1]].session =>
                             u.owner = v /\ worker'[v].pc = "attempts" /\ worker'[v].op = u.effect[1]
                        /\ u.owner # Null => worker'[u.owner].session = op'[u.effect[1]].session
      BY DEF TasksOwned
    <2>1. PICK t \in tasks : u.effect = t.effect /\ u.owner = IF t.owner = w THEN Null ELSE t.owner
      BY <1>2
    <2>2. t.effect[1] \in Ops /\ op'[u.effect[1]].session = op[t.effect[1]].session
          /\ t.owner \in Workers \cup {Null}
      BY <2>1, TaskFacts DEF OpsKept
    <2> QED BY <1>1, <2>1, <2>2 DEF TasksOwned
  <1>9. TasksStarted'
    <2>1. ASSUME NEW u \in tasks' PROVE eff'[u.effect].status = "dispatch_started"
      BY <2>1, <1>2, TaskFacts DEF TasksStarted, RowKept
    <2>2. ASSUME NEW u \in tasks', NEW v \in tasks', u.effect = v.effect PROVE u = v
      BY <2>2 DEF TasksStarted, Return, Disowned
    <2> QED BY <2>1, <2>2 DEF TasksStarted
  <1>10. AttemptsStarted'
    <2> SUFFICES ASSUME NEW v \in Workers
                 PROVE  AttemptStarted(v)'
      BY DEF AttemptsStarted
    <2>1. CASE v = w
      BY <2>1, <1>1 DEF AttemptStarted
    <2>2. CASE v # w
      <3>1. worker'[v] = worker[v] /\ worker[v].unspawned \subseteq EffectIds
            /\ \A d \in worker[v].inbox : d.effect \in EffectIds
        BY <2>2, <1>1 DEF TypeOK, WorkerState, Completion
      <3> QED BY <3>1, <1>2 DEF AttemptsStarted, AttemptStarted, RowKept
    <2> QED BY <2>1, <2>2
  <1>11. DispatchCounted'
    BY EffectIdFacts DEF DispatchCounted, RowKept, OpsKept
  <1> QED BY <1>4, <1>5, <1>6, <1>7, <1>8, <1>9, <1>10, <1>11
-----------------------------------------------------------------------------
(* A caller none of whose tasks run moves on in its session, perhaps with    *)
(* the children of a new attempt, and may write that session's effects.      *)
LEMMA GotoStep ==
    ASSUME IInv, TypeOK', NEW w \in Workers, NEW q,
           worker' = [worker EXCEPT ![w] = q],
           worker[w].pc # "idle", q.pc \notin {"idle", "activate"}, q.session = worker[w].session,
           q.op \in Ops, op[q.op].session = q.session,
           q.inbox = {}, q.pc # "attempts" => q.unspawned = {},
           \A e \in q.unspawned : /\ e \in EffectIds /\ e[1] = q.op
                                  /\ eff'[e].status = "dispatch_started"
                                  /\ invoked[e] < eff'[e].count,
           \A t \in tasks : op[t.effect[1]].session # worker[w].session,
           \A s \in Sessions : running[s].bound # Null => running'[s].bound # Null,
           \A o \in Ops : /\ op'[o].session = op[o].session
                          /\ op'[o].phase = "absent" <=> op[o].phase = "absent"
                          /\ op'[o].phase = "absent" => op'[o].next = op[o].next,
           \A e \in EffectIds : op[e[1]].session # worker[w].session => RowKept(e),
           \A s \in Sessions : active'[s] # Null => op[active'[s]].session = s,
           DispatchCounted', UNCHANGED <<cancel, tasks, invoked>>
    PROVE  IInv'
  <1> USE DEF IInv
  <1>1. worker'[w] = q /\ \A v \in Workers : v # w => worker'[v] = worker[v]
    BY DEF TypeOK
  <1>2. worker[w].session # Null /\ \A v \in Workers : worker'[v].session = worker[v].session
    BY <1>1 DEF Placed
  <1>3. \A t \in tasks : t.effect \in EffectIds /\ t.effect[1] \in Ops
                         /\ op'[t.effect[1]].session = op[t.effect[1]].session
    BY TaskFacts
  <1>4. Placed'
    <2>1. \A v \in Workers : v # w /\ worker[v].pc \notin {"idle", "activate"} =>
                 worker[v].op \in Ops /\ op'[worker[v].op].session = worker[v].session
      BY DEF Placed
    <2> QED BY <1>1, <1>2, <2>1 DEF Placed
  <1>5. RowsAgree'
    <2>1. \A i \in CancelIds : cancel'[i] = cancel[i] /\ (cancel[i] # Null => cancel[i] \in Ops)
      BY DEF TypeOK
    <2>2. \A s \in Sessions : active'[s] # Null => active'[s] \in Ops
      BY DEF TypeOK
    <2> QED BY <2>1, <2>2 DEF RowsAgree
  <1>6. LeaseCovers'
    <2>1. \A s \in Sessions : Holds(worker, tasks, s)' => Holds(worker, tasks, s)
      BY <1>2, <1>3 DEF Holds
    <2> QED BY <2>1 DEF LeaseCovers
  <1>7. OneWorker'
    BY <1>1, <1>2 DEF OneWorker
  <1>8. TasksOwned'
    <2> SUFFICES ASSUME NEW t \in tasks
                 PROVE  /\ op'[t.effect[1]].session # Null
                        /\ \A v \in Workers : worker'[v].session = op'[t.effect[1]].session =>
                             t.owner = v /\ worker'[v].pc = "attempts" /\ worker'[v].op = t.effect[1]
                        /\ t.owner # Null => worker'[t.owner].session = op'[t.effect[1]].session
      BY DEF TasksOwned
    <2>1. t.owner \in Workers \cup {Null}
      BY TaskFacts
    <2> QED BY <1>1, <1>2, <1>3, <2>1 DEF TasksOwned
  <1>9. TasksStarted'
    BY <1>3 DEF TasksStarted, RowKept
  <1>10. AttemptsStarted'
    <2> SUFFICES ASSUME NEW v \in Workers
                 PROVE  AttemptStarted(v)'
      BY DEF AttemptsStarted
    <2>1. CASE v = w
      BY <2>1, <1>1 DEF AttemptStarted
    <2>2. CASE v # w
      <3>1. worker'[v] = worker[v] /\ worker[v].unspawned \subseteq EffectIds
            /\ \A d \in worker[v].inbox : d.effect \in EffectIds
        BY <2>2, <1>1 DEF TypeOK, WorkerState, Completion
      <3>2. worker[v].pc = "attempts" => op[worker[v].op].session # worker[w].session
        BY <2>2 DEF OneWorker, Placed
      <3>3. worker[v].pc = "attempts" => \A e \in EffectIds : e[1] = worker[v].op => RowKept(e)
        BY <3>2
      <3> QED BY <3>1, <3>3 DEF AttemptsStarted, AttemptStarted, RowKept
    <2> QED BY <2>1, <2>2
  <1> QED BY <1>4, <1>5, <1>6, <1>7, <1>8, <1>9, <1>10

(* A caller takes a completion from its inbox; only that effect may change.  *)
LEMMA ReceiveStep ==
    ASSUME IInv, TypeOK', NEW w \in Workers, NEW done \in worker[w].inbox, NEW q,
           worker' = [worker EXCEPT ![w] = q],
           worker[w].pc = "attempts", q.pc = "attempts", q.session = worker[w].session,
           q.op = worker[w].op, q.unspawned = worker[w].unspawned,
           q.inbox = worker[w].inbox \ {done}, OpsKept,
           \A e \in EffectIds : e # done.effect => RowKept(e),
           eff'[done.effect].status \in {"dispatch_started", "settled", "outcome_unknown"},
           eff'[done.effect].count = eff[done.effect].count,
           eff'[done.effect].recovery = eff[done.effect].recovery,
           UNCHANGED <<active, cancel, running, tasks, invoked>>
    PROVE  IInv'
  <1> USE DEF IInv
  <1>1. worker'[w] = q /\ \A v \in Workers : v # w => worker'[v] = worker[v]
    BY DEF TypeOK
  <1>2. \A v \in Workers : worker'[v].session = worker[v].session /\ worker'[v].op = worker[v].op
                           /\ worker'[v].pc = worker[v].pc
    BY <1>1
  <1>3. \A t \in tasks : /\ t.effect \in EffectIds /\ t.effect[1] \in Ops
                         /\ t.owner \in Workers \cup {Null}
                         /\ op'[t.effect[1]].session = op[t.effect[1]].session
    BY TaskFacts DEF OpsKept
  <1>4. Placed'
    BY <1>2 DEF Placed, OpsKept
  <1>5. RowsAgree'
    <2>1. \A i \in CancelIds : cancel'[i] = cancel[i] /\ (cancel[i] # Null => cancel[i] \in Ops)
      BY DEF TypeOK
    <2>2. \A s \in Sessions : active'[s] = active[s] /\ (active[s] # Null => active[s] \in Ops)
      BY DEF TypeOK
    <2> QED BY <2>1, <2>2 DEF RowsAgree, OpsKept
  <1>6. LeaseCovers'
    <2>1. \A s \in Sessions : Holds(worker, tasks, s)' => Holds(worker, tasks, s)
      BY <1>2, <1>3 DEF Holds
    <2> QED BY <2>1 DEF LeaseCovers
  <1>7. OneWorker'
    BY <1>2 DEF OneWorker
  <1>8. TasksOwned'
    BY <1>2, <1>3 DEF TasksOwned
  <1>9. done.effect \in EffectIds /\ done.effect[1] = worker[w].op
        /\ \A t \in tasks : t.effect # done.effect
    BY DEF AttemptsStarted, AttemptStarted, TypeOK, WorkerState, Completion
  <1>10. TasksStarted'
    BY <1>3, <1>9 DEF TasksStarted, RowKept
  <1>11. AttemptsStarted'
    <2> SUFFICES ASSUME NEW v \in Workers
                 PROVE  AttemptStarted(v)'
      BY DEF AttemptsStarted
    <2>1. worker[v].unspawned \subseteq EffectIds /\ \A d \in worker[v].inbox : d.effect \in EffectIds
      BY DEF TypeOK, WorkerState, Completion
    <2>2. CASE v = w
      <3>1. \A e \in worker[w].unspawned : e # done.effect
        BY DEF AttemptsStarted, AttemptStarted
      <3>2. \A d \in q.inbox : d \in worker[w].inbox /\ d.effect # done.effect
        BY DEF AttemptsStarted, AttemptStarted
      <3> QED BY <2>1, <2>2, <3>1, <3>2, <1>1 DEF AttemptsStarted, AttemptStarted, RowKept
    <2>3. CASE v # w
      <3>1. worker'[v] = worker[v]
        BY <2>3, <1>1
      <3>2. worker[v].pc = "attempts" => worker[v].op # worker[w].op
        BY <2>3 DEF OneWorker, Placed
      <3>3. worker[v].pc = "attempts" => \A e \in EffectIds : e[1] = worker[v].op => RowKept(e)
        BY <3>2, <1>9
      <3> QED BY <3>1, <3>3, <2>1 DEF AttemptsStarted, AttemptStarted, RowKept
    <2> QED BY <2>2, <2>3
  <1>12. DispatchCounted'
    <2>1. eff[done.effect].status = "dispatch_started"
      BY DEF AttemptsStarted, AttemptStarted
    <2>2. ASSUME NEW e \in EffectIds
          PROVE  /\ eff'[e].count = eff[e].count /\ eff'[e].recovery = eff[e].recovery
                 /\ eff'[e].status \in {"none", "intent_committed"} => eff'[e].status = eff[e].status
                 /\ eff[e].status = "none" => eff'[e].status = "none"
      BY <2>1 DEF RowKept
    <2> QED BY <2>2, EffectIdFacts DEF DispatchCounted, OpsKept
  <1> QED BY <1>4, <1>5, <1>6, <1>7, <1>8, <1>10, <1>11, <1>12
-----------------------------------------------------------------------------
(* A caller takes a free lease: nobody is on the session and no task of it   *)
(* is still in flight.                                                       *)
LEMMA AcquireStep ==
    ASSUME IInv, TypeOK', NEW w \in Workers, NEW s \in Sessions, NEW q, Acquire(w, s, q),
           q.pc \in {"activate", "abandon"}, q.session = s, q.unspawned = {}, q.inbox = {},
           q.pc = "abandon" => q.op \in Ops /\ op[q.op].session = s,
           UNCHANGED <<active, op, eff, cancel, tasks, invoked>>
    PROVE  IInv'
  <1> USE DEF IInv
  <1>1. worker'[w] = q /\ \A v \in Workers : v # w => worker'[v] = worker[v]
    BY DEF Acquire, TypeOK
  <1>2. running'[s].bound # Null /\ \A r \in Sessions : r # s => running'[r] = running[r]
    BY NullAssumption DEF Acquire, TypeOK, Entry
  <1>3. ~Holds(worker, tasks, s)
    BY DEF Acquire, NoEntry, Entry, LeaseCovers
  <1>4. Placed'
    BY <1>1, NullAssumption DEF Placed
  <1>5. RowsAgree' /\ TasksStarted' /\ DispatchCounted'
    BY DEF RowsAgree, TasksStarted, DispatchCounted
  <1>6. LeaseCovers'
    BY <1>1, <1>2 DEF LeaseCovers, Holds
  <1>7. OneWorker'
    BY <1>1, <1>3 DEF OneWorker, Holds
  <1>8. TasksOwned'
    <2>1. \A t \in tasks : t.owner \in Workers \cup {Null} /\ op[t.effect[1]].session # s
      BY <1>3, TaskFacts DEF Holds
    <2>2. worker[w].session = Null
      BY DEF Acquire, Placed
    <2> QED BY <1>1, <2>1, <2>2 DEF TasksOwned
  <1>9. AttemptsStarted'
    BY <1>1 DEF AttemptsStarted, AttemptStarted
  <1> QED BY <1>4, <1>5, <1>6, <1>7, <1>8, <1>9

(* Admission writes a row nothing refers to yet.                             *)
LEMMA AdmitStep ==
    ASSUME IInv, TypeOK', NEW o \in Ops, NEW s \in Sessions, Admit(o, s)
    PROVE  IInv'
  <1> USE DEF IInv
  <1>1. /\ op'[o].session = s /\ op'[o].next = 0 /\ op'[o].phase # "absent"
        /\ \A p \in Ops : p # o => op'[p] = op[p]
    BY NewRowOK DEF Admit, TypeOK
  <1>2. op[o].session = Null /\ op[o].next = 0 /\ s # Null
    BY NullAssumption DEF Admit, RowsAgree
  <1>3. UNCHANGED <<active, eff, cancel, running, worker, tasks, invoked>>
    BY DEF Admit, volatile
  <1>4. Placed'
    BY <1>1, <1>2, <1>3 DEF Placed
  <1>5. RowsAgree'
    <2>1. \A i \in CancelIds : cancel[i] # Null => cancel[i] \in Ops
      BY DEF TypeOK
    <2>2. \A r \in Sessions : active[r] # Null => active[r] \in Ops /\ active[r] # o
      BY <1>2, NullAssumption DEF TypeOK, RowsAgree
    <2> QED BY <1>1, <1>2, <1>3, <2>1, <2>2 DEF RowsAgree
  <1>6. \A t \in tasks : /\ t.effect[1] \in Ops /\ t.effect[1] # o
                         /\ op'[t.effect[1]].session = op[t.effect[1]].session
    BY <1>1, <1>2, TaskFacts DEF TasksOwned
  <1>7. LeaseCovers'
    BY <1>3, <1>6 DEF LeaseCovers, Holds
  <1>8. TasksOwned'
    BY <1>3, <1>6 DEF TasksOwned
  <1>9. OneWorker' /\ TasksStarted' /\ AttemptsStarted'
    BY <1>3 DEF OneWorker, TasksStarted, AttemptsStarted, AttemptStarted
  <1>10. DispatchCounted'
    BY <1>1, <1>2, <1>3, EffectIdFacts DEF DispatchCounted
  <1> QED BY <1>4, <1>5, <1>7, <1>8, <1>9, <1>10

(* A request, its retry and its signal move no caller, task or effect.       *)
LEMMA RequestStep ==
    ASSUME IInv, TypeOK',
           \/ \E i \in CancelIds, o \in Ops : RequestCancellation(i, o)
           \/ \E i \in CancelIds : RetryCancellation(i)
           \/ \E o \in Ops : SignalRunningOperation(o)
    PROVE  IInv'
  <1> USE DEF IInv
  <1>1. UNCHANGED <<active, op, eff, worker, tasks, invoked>>
    BY DEF RequestCancellation, RetryCancellation, SignalRunningOperation, durable
  <1>2. \A s \in Sessions : running'[s].bound = running[s].bound
    BY DEF RequestCancellation, RetryCancellation, SignalRunningOperation, TypeOK, Entry
  <1>3. RowsAgree'
    <2>1. \A i \in CancelIds : cancel'[i] # Null =>
             cancel'[i] = cancel[i] \/ (cancel'[i] \in Ops /\ op[cancel'[i]].session # Null)
      BY DEF RequestCancellation, RetryCancellation, SignalRunningOperation, durable, TypeOK, RowsAgree
    <2> QED BY <1>1, <2>1 DEF RowsAgree
  <1>4. LeaseCovers'
    BY <1>1, <1>2 DEF LeaseCovers, Holds
  <1>5. Placed' /\ OneWorker' /\ TasksOwned' /\ TasksStarted'
    BY <1>1 DEF Placed, OneWorker, TasksOwned, TasksStarted
  <1>6. AttemptsStarted' /\ DispatchCounted'
    BY <1>1 DEF AttemptsStarted, AttemptStarted, DispatchCounted
  <1> QED BY <1>3, <1>4, <1>5, <1>6

(* A crash keeps the inductive invariant: with the memory go lease, tasks and callers. *)
LEMMA CrashStep ==
    ASSUME IInv, TypeOK', Crash
    PROVE  IInv'
  <1> USE DEF IInv
  <1>1. UNCHANGED <<active, op, eff, cancel, invoked>> /\ tasks' = {}
    BY DEF Crash, durable
  <1>2. \A w \in Workers : /\ worker'[w].pc = "idle" /\ worker'[w].session = Null
                           /\ worker'[w].unspawned = {} /\ worker'[w].inbox = {}
    BY IdleOK DEF Crash
  <1>3. Placed' /\ OneWorker' /\ TasksOwned' /\ TasksStarted'
    BY <1>1, <1>2 DEF Placed, OneWorker, TasksOwned, TasksStarted
  <1>4. LeaseCovers'
    BY <1>1, <1>2, NullAssumption DEF LeaseCovers, Holds
  <1>5. RowsAgree' /\ AttemptsStarted' /\ DispatchCounted'
    BY <1>1, <1>2 DEF RowsAgree, AttemptsStarted, AttemptStarted, DispatchCounted
  <1> QED BY <1>3, <1>4, <1>5
-----------------------------------------------------------------------------
(* A task is spawned for a child that no task and no completion stands for.  *)
LEMMA SpawnStep ==
    ASSUME IInv, TypeOK', NEW w \in Workers, NEW e \in EffectIds, SpawnEffect(w, e)
    PROVE  IInv'
  <1> USE DEF IInv
  <1> DEFINE new == [effect |-> e, attempt |-> eff[e].count, owner |-> w]
  <1>1. /\ worker[w].pc = "attempts" /\ e \in worker[w].unspawned /\ tasks' = tasks \cup {new}
        /\ invoked' = [invoked EXCEPT ![e] = @ + 1]
        /\ worker' = [worker EXCEPT ![w] = Spawned(worker[w], e)]
        /\ UNCHANGED <<active, op, eff, cancel, running>>
    BY DEF SpawnEffect, Goto, durable
  <1>2. new.effect = e /\ new.owner = w
    OBVIOUS
  <1> HIDE DEF new
  <1>3. /\ e[1] = worker[w].op /\ eff[e].status = "dispatch_started" /\ invoked[e] < eff[e].count
        /\ \A t \in tasks : t.effect # e
        /\ \A d \in worker[w].inbox : d.effect # e
    BY <1>1 DEF AttemptsStarted, AttemptStarted
  <1>4. /\ worker'[w].pc = "attempts" /\ worker'[w].session = worker[w].session
        /\ worker'[w].op = worker[w].op /\ worker'[w].inbox = worker[w].inbox
        /\ worker'[w].unspawned = worker[w].unspawned \ {e}
        /\ \A v \in Workers : v # w => worker'[v] = worker[v]
    BY <1>1, SpawnedOK DEF TypeOK
  <1>5. \A v \in Workers : worker'[v].session = worker[v].session /\ worker'[v].op = worker[v].op
                           /\ worker'[v].pc = worker[v].pc
    BY <1>1, <1>4
  <1>6. worker[w].op \in Ops /\ op[worker[w].op].session = worker[w].session
        /\ worker[w].session # Null
    BY <1>1 DEF Placed
  <1>7. Placed' /\ RowsAgree' /\ OneWorker'
    BY <1>1, <1>5 DEF Placed, RowsAgree, OneWorker
  <1>8. LeaseCovers'
    <2>1. \A s \in Sessions : Holds(worker, tasks, s)' => Holds(worker, tasks, s)
      BY <1>1, <1>2, <1>3, <1>5, <1>6 DEF Holds
    <2> QED BY <1>1, <2>1 DEF LeaseCovers
  <1>9. TasksOwned'
    <2>1. \A v \in Workers : worker[v].session = worker[w].session => v = w
      BY <1>1 DEF OneWorker
    <2>2. \A t \in tasks : t.owner \in Workers \cup {Null}
      BY TaskFacts
    <2> QED BY <1>1, <1>2, <1>3, <1>5, <1>6, <2>1, <2>2 DEF TasksOwned
  <1>10. TasksStarted'
    BY <1>1, <1>2, <1>3 DEF TasksStarted
  <1>11. AttemptsStarted'
    <2> SUFFICES ASSUME NEW v \in Workers
                 PROVE  AttemptStarted(v)'
      BY DEF AttemptsStarted
    <2>1. worker[v].unspawned \subseteq EffectIds
      BY DEF TypeOK, WorkerState
    <2>2. \A f \in EffectIds : f # e => invoked'[f] = invoked[f]
      BY <1>1 DEF TypeOK
    <2>3. CASE v = w
      BY <1>1, <1>2, <1>3, <1>4, <2>1, <2>2, <2>3 DEF AttemptsStarted, AttemptStarted
    <2>4. CASE v # w
      <3>1. worker[v].pc = "attempts" => worker[v].op # worker[w].op
        BY <2>4, <1>6 DEF OneWorker, Placed
      <3>2. \A f \in worker[v].unspawned : f # e
        BY <3>1, <1>3 DEF AttemptsStarted, AttemptStarted
      <3>3. \A d \in worker[v].inbox : d.effect # e
        BY <3>1, <1>3 DEF AttemptsStarted, AttemptStarted
      <3> QED BY <1>1, <1>2, <1>4, <2>1, <2>2, <2>4, <3>2, <3>3 DEF AttemptsStarted, AttemptStarted
    <2> QED BY <2>3, <2>4
  <1>12. DispatchCounted'
    <2>1. \A f \in EffectIds : invoked'[f] = IF f = e THEN invoked[e] + 1 ELSE invoked[f]
      BY <1>1 DEF TypeOK
    <2>2. invoked[e] \in Nat /\ eff[e].count \in Nat
      BY DEF TypeOK, EffRow
    <2> QED BY <1>1, <1>3, <2>1, <2>2 DEF DispatchCounted
  <1> QED BY <1>7, <1>8, <1>9, <1>10, <1>11, <1>12

(* An adapter resolves: its completion takes the place of its task.          *)
LEMMA AdapterStep ==
    ASSUME IInv, TypeOK', NEW t \in tasks, NEW x \in {"settled", "unknown"}, AdapterResolves(t, x)
    PROVE  IInv'
  <1> USE DEF IInv
  <1> DEFINE done == [effect |-> t.effect, attempt |-> t.attempt, result |-> x]
  <1>1. /\ tasks' = tasks \ {t} /\ running' = AfterDrop(worker', tasks')
        /\ worker' = IF t.owner = Null THEN worker
                     ELSE [worker EXCEPT ![t.owner] = Delivered(@, done)]
        /\ UNCHANGED <<active, op, eff, cancel, invoked>>
    BY DEF AdapterResolves, durable
  <1>2. done.effect = t.effect /\ done \in Completion /\ t.owner \in Workers \cup {Null}
    BY DEF TypeOK, Task, Completion
  <1> HIDE DEF done
  <1>3. \A v \in Workers :
          IF v = t.owner
            THEN /\ worker'[v].pc = worker[v].pc /\ worker'[v].session = worker[v].session
                 /\ worker'[v].op = worker[v].op /\ worker'[v].unspawned = worker[v].unspawned
                 /\ worker'[v].inbox = worker[v].inbox \cup {done}
            ELSE worker'[v] = worker[v]
    <2>1. CASE t.owner = Null
      BY <1>1, <2>1, NullAssumption
    <2>2. CASE t.owner # Null
      <3>1. t.owner \in Workers /\ worker[t.owner] \in WorkerState
        BY <1>2, <2>2 DEF TypeOK
      <3>2. worker' = [worker EXCEPT ![t.owner] = Delivered(worker[t.owner], done)]
        BY <1>1, <2>2
      <3> QED BY <3>1, <3>2, <1>2, DeliveredOK DEF TypeOK
    <2> QED BY <2>1, <2>2
  <1>4. \A v \in Workers : worker'[v].session = worker[v].session /\ worker'[v].op = worker[v].op
                           /\ worker'[v].pc = worker[v].pc
    BY <1>3
  <1>5. Placed' /\ RowsAgree' /\ OneWorker' /\ DispatchCounted'
    BY <1>1, <1>4 DEF Placed, RowsAgree, OneWorker, DispatchCounted
  <1>6. LeaseCovers'
    <2> SUFFICES ASSUME NEW s \in Sessions, Holds(worker, tasks, s)'
                 PROVE  running'[s].bound # Null
      BY DEF LeaseCovers
    <2>1. Holds(worker', tasks', s)
      BY <1>1 DEF Holds
    <2>2. Holds(worker, tasks, s)
      BY <2>1, <1>1, <1>4 DEF Holds
    <2> QED BY <1>1, <2>1, <2>2 DEF LeaseCovers, AfterDrop
  <1>7. TasksOwned'
    <2>1. \A u \in tasks : u.owner \in Workers \cup {Null}
      BY TaskFacts
    <2> QED BY <1>1, <1>4, <2>1 DEF TasksOwned
  <1>8. TasksStarted'
    BY <1>1 DEF TasksStarted
  <1>9. AttemptsStarted'
    <2> SUFFICES ASSUME NEW v \in Workers
                 PROVE  AttemptStarted(v)'
      BY DEF AttemptsStarted
    <2>1. CASE v = t.owner
      <3>1. v # Null
        BY NullAssumption
      <3>2. /\ worker[v].pc = "attempts" /\ worker[v].op = t.effect[1]
            /\ eff[t.effect].status = "dispatch_started"
            /\ \A u \in tasks \ {t} : u.effect # t.effect
        BY <2>1, <3>1 DEF TasksOwned, TasksStarted
      <3>3. /\ \A e \in worker[v].unspawned : e # t.effect
            /\ \A d \in worker[v].inbox : d.effect # t.effect
        BY DEF AttemptsStarted, AttemptStarted
      <3> QED BY <1>1, <1>2, <1>3, <2>1, <3>2, <3>3 DEF AttemptsStarted, AttemptStarted
    <2>2. CASE v # t.owner
      BY <1>1, <1>3, <2>2 DEF AttemptsStarted, AttemptStarted
    <2> QED BY <2>1, <2>2
  <1> QED BY <1>5, <1>6, <1>7, <1>8, <1>9
-----------------------------------------------------------------------------
(* Writes of a transaction in the terms of the frames above.                 *)

(* An operation row replaced by one that keeps its identity.                 *)
LEMMA OpUpdate ==
    ASSUME TypeOK, NEW o \in Ops, NEW q, op' = [op EXCEPT ![o] = q], KeepsOp(q, op[o]),
           op[o].phase # "absent"
    PROVE  OpsKept
  BY DEF OpsKept, KeepsOp, TypeOK

(* The terminal write keeps what the invariant reads of operations, active   *)
(* pointers and effect rows.                                                 *)
LEMMA FinishFrame ==
    ASSUME TypeOK, NEW o \in Ops, NEW p \in Terminal, NEW x \in Outcomes, NEW c \in Batches \cup {0},
           op[o].phase # "absent", FinishOperation(o, p, x, c)
    PROVE  OpsKept /\ ActiveKept /\ \A e \in EffectIds : RowKept(e)
  <1>1. op[o] \in OpRow
    BY DEF TypeOK
  <1>2. OpsKept
    BY <1>1, EndedOK, OpUpdate DEF FinishOperation
  <1>3. ActiveKept
    BY DEF FinishOperation, ActiveKept, TypeOK
  <1>4. \A e \in EffectIds : RowKept(e)
    BY ReleasedOK DEF FinishOperation, ReleaseFinishedRequests, RowKept, TypeOK
  <1> QED BY <1>2, <1>3, <1>4

(* The steps that end with the caller's return.                              *)
LEMMA ReturningSteps ==
    ASSUME IInv, TypeOK', NEW w \in Workers,
           \/ DriveIdle(w) \/ DriveBlocked(w) \/ NothingToAbandon(w) \/ AbandonRefused(w)
           \/ DriveEnds(w)
           \/ \E n \in 0..MaxAppend :
                 \/ CommitCancellation(w, n) \/ CommitAbandonment(w, n)
                 \/ \E p \in Terminal \ {"cancelled"} : DecideFinish(w, p, n)
    PROVE  IInv'
  <1>1. CASE \/ DriveIdle(w) \/ DriveBlocked(w) \/ NothingToAbandon(w) \/ AbandonRefused(w)
             \/ DriveEnds(w)
    <2>1. Return(w) /\ UNCHANGED <<active, op, eff, cancel, invoked>>
      BY <1>1 DEF DriveIdle, DriveBlocked, NothingToAbandon, AbandonRefused, DriveEnds, durable
    <2>2. OpsKept /\ ActiveKept /\ \A e \in EffectIds : RowKept(e)
      BY <2>1 DEF OpsKept, ActiveKept, RowKept
    <2> QED BY <2>1, <2>2, ReturnStep
  <1>2. ASSUME NEW n \in 0..MaxAppend, NEW p \in Terminal \ {"cancelled"},
               CommitCancellation(w, n) \/ CommitAbandonment(w, n) \/ DecideFinish(w, p, n)
        PROVE  IInv'
    <2> DEFINE o == worker[w].op
    <2>1. o \in Ops /\ op[o] \in OpRow /\ op[o].current \in Batches \cup {0}
      BY <1>2, CallerFacts DEF IInv, CommitCancellation, CommitAbandonment, DecideFinish, MayDecide,
                               OpRow
    <2>2. op[o].phase # "absent"
      BY <1>2 DEF CommitCancellation, CommitAbandonment, DecideFinish, MayDecide, IsCancellable, Live
    <2>3. \/ FinishOperation(o, "cancelled", "cancelled", 0)
          \/ FinishOperation(o, "failed", "abandoned", 0)
          \/ FinishOperation(o, p, p, op[o].current)
      BY <1>2, Zenon DEF CommitCancellation, CommitAbandonment, DecideFinish
    <2>4. {"cancelled", "failed"} \subseteq Terminal
          /\ {"cancelled", "abandoned", p} \subseteq Outcomes
      BY DEF Terminal, Outcomes
    <2>5. OpsKept /\ ActiveKept /\ \A e \in EffectIds : RowKept(e)
      BY <2>1, <2>2, <2>3, <2>4, FinishFrame DEF IInv
    <2>6. Return(w) /\ UNCHANGED <<cancel, invoked>>
      BY <1>2 DEF CommitCancellation, CommitAbandonment, DecideFinish
    <2> QED BY <2>5, <2>6, ReturnStep
  <1>3. "waiting" \in Terminal \ {"cancelled"}
    BY DEF Terminal
  <1> QED BY <1>1, <1>2, <1>3
-----------------------------------------------------------------------------
(* The caller has no attempt in flight.                                      *)
Quiet(w) ==
    /\ worker[w].pc # "idle"
    /\ worker[w].unspawned = {} /\ worker[w].inbox = {}
    /\ \A t \in tasks : op[t.effect[1]].session # worker[w].session

(* A caller outside an attempt, or done with one, has no task, no unspawned  *)
(* child and nothing in its inbox.                                           *)
LEMMA QuietFacts ==
    ASSUME IInv, NEW w \in Workers, worker[w].pc # "idle",
           worker[w].pc # "attempts" \/ AttemptsDone(w)
    PROVE  Quiet(w)
  <1>1. \A t \in tasks : op[t.effect[1]].session # worker[w].session
    BY DEF IInv, TasksOwned, AttemptsDone
  <1>2. worker[w].unspawned = {} /\ worker[w].inbox = {}
    BY DEF IInv, AttemptsStarted, AttemptStarted, AttemptsDone
  <1> QED BY <1>1, <1>2 DEF Quiet

(* A quiet caller moves on and writes no effect.                             *)
LEMMA QuietStep ==
    ASSUME IInv, TypeOK', NEW w \in Workers, NEW q, Quiet(w),
           worker' = [worker EXCEPT ![w] = q],
           q.pc \notin {"idle", "activate", "attempts"}, q.session = worker[w].session,
           q.op \in Ops, op[q.op].session = q.session,
           q.unspawned = worker[w].unspawned, q.inbox = worker[w].inbox,
           \A s \in Sessions : running[s].bound # Null => running'[s].bound # Null,
           OpsKept, \A s \in Sessions : active'[s] # Null => op[active'[s]].session = s,
           UNCHANGED <<eff, cancel, tasks, invoked>>
    PROVE  IInv'
  <1>1. \A e \in EffectIds : RowKept(e)
    BY DEF RowKept
  <1>2. DispatchCounted'
    BY EffectIdFacts DEF IInv, DispatchCounted, OpsKept
  <1>3. q.inbox = {} /\ q.unspawned = {} /\ worker[w].pc # "idle"
        /\ \A t \in tasks : op[t.effect[1]].session # worker[w].session
    BY DEF Quiet
  <1> QED BY <1>1, <1>2, <1>3, GotoStep DEF OpsKept

(* The steps of a caller that write no effect.                               *)
LEMMA QuietSteps ==
    ASSUME IInv, TypeOK', NEW w \in Workers,
           \/ \E o \in Ops : ActivateNext(w, o)
           \/ ActivateOwned(w) \/ Bind(w) \/ LoadActive(w) \/ NoCancellation(w)
           \/ YieldToCancellation(w) \/ \E n \in 0..MaxAppend : DecideAppend(w, n)
           \/ FinishEffectBatchAttempt(w) \/ LoadPendingAbandonment(w)
    PROVE  IInv'
  <1>inv. TypeOK /\ Placed /\ RowsAgree
    BY DEF IInv
  <1> USE <1>inv, CallerFacts
  <1>pcs. {"bind", "check", "step", "close", "reload", "abandonCommit"} \subseteq Pcs
    BY DEF Pcs
  <1>act. \A s \in Sessions : active[s] # Null => active[s] \in Ops /\ op[active[s]].session = s
    BY DEF TypeOK, RowsAgree
  <1>same. ASSUME UNCHANGED <<active, op>>
           PROVE  OpsKept /\ \A s \in Sessions : active'[s] # Null => op[active'[s]].session = s
    BY <1>same, <1>act DEF OpsKept
  <1>1. ASSUME NEW o \in Ops, ActivateNext(w, o) PROVE IInv'
    <2> DEFINE q == Snapshot(worker[w], o, op'[o], "bind")
    <2>1. /\ worker[w].pc = "activate" /\ worker' = [worker EXCEPT ![w] = q]
          /\ op' = [op EXCEPT ![o] = Activated(@, worker[w].manifest)]
          /\ active' = [active EXCEPT ![worker[w].session] = o]
          /\ op[o].session = worker[w].session /\ op[o].phase = "queued"
          /\ UNCHANGED <<running, eff, cancel, tasks, invoked>>
      BY <1>1 DEF ActivateNext, Goto, NextQueued, Queued
    <2>2. op[o] \in OpRow /\ op'[o] \in OpRow
      BY DEF TypeOK
    <2>3. OpsKept
      BY <2>1, <2>2, ActivatedOK, OpUpdate
    <2>4. Quiet(w)
      BY <2>1, QuietFacts
    <2>5. \A s \in Sessions : active'[s] # Null => op[active'[s]].session = s
      BY <2>1, <1>act DEF TypeOK
    <2>6. /\ q.pc = "bind" /\ q.op = o /\ q.session = worker[w].session
          /\ q.unspawned = worker[w].unspawned /\ q.inbox = worker[w].inbox
      <3>1. worker[w] \in WorkerState /\ "bind" \in Pcs
        BY <1>pcs
      <3>2. PICK row \in OpRow : row = op'[o]
        BY <2>2
      <3>3. q = Snapshot(worker[w], o, row, "bind")
        BY <3>2, Zenon
      <3> HIDE DEF q
      <3> QED BY <1>1, <3>1, <3>2, <3>3, SnapshotOK
    <2> HIDE DEF q
    <2> QED BY <2>1, <2>3, <2>4, <2>5, <2>6, QuietStep
  <1>2. CASE ActivateOwned(w)
    <2> DEFINE o == active[worker[w].session]
               q == Snapshot(worker[w], o, op[o], "bind")
    <2>1. /\ worker[w].pc = "activate" /\ worker' = [worker EXCEPT ![w] = q] /\ o # Null
          /\ UNCHANGED <<active, op, running, eff, cancel, tasks, invoked>>
      BY <1>2 DEF ActivateOwned, Goto, durable
    <2>2. o \in Ops /\ op[o] \in OpRow /\ op[o].session = worker[w].session
      BY <2>1, <1>act DEF TypeOK
    <2>3. Quiet(w)
      BY <2>1, QuietFacts
    <2>4. /\ q.pc = "bind" /\ q.op = o /\ q.session = worker[w].session
          /\ q.unspawned = worker[w].unspawned /\ q.inbox = worker[w].inbox
      BY <2>2, <1>pcs, SnapshotOK
    <2> HIDE DEF q
    <2>5. OpsKept /\ \A s \in Sessions : active'[s] # Null => op[active'[s]].session = s
      BY <2>1, <1>same
    <2> QED BY <2>1, <2>2, <2>3, <2>4, <2>5, QuietStep
  <1>3. CASE Bind(w)
    <2>1. CASE op[worker[w].op].manifest = worker[w].manifest
      <3> DEFINE q == At(worker[w], "check")
      <3>1. /\ worker[w].pc = "bind" /\ worker' = [worker EXCEPT ![w] = q]
            /\ running' = [running EXCEPT ![worker[w].session] = Entry(worker[w].op, @.cancelled)]
            /\ UNCHANGED <<active, op, eff, cancel, tasks, invoked>>
        BY <1>3, <2>1 DEF Bind, durable
      <3>2. worker[w].op \in Ops /\ op[worker[w].op].session = worker[w].session
        BY <3>1
      <3>3. \A s \in Sessions : running[s].bound # Null => running'[s].bound # Null
        BY <3>1, <3>2, NullAssumption DEF TypeOK, Entry
      <3>4. SameCaller(q, worker[w]) /\ q.pc = "check"
        BY <1>pcs, AtOK
      <3>5. Quiet(w)
        BY <3>1, QuietFacts
      <3> HIDE DEF q
      <3>6. OpsKept /\ \A s \in Sessions : active'[s] # Null => op[active'[s]].session = s
        BY <3>1, <1>same
      <3> QED BY <3>1, <3>2, <3>3, <3>4, <3>5, <3>6, QuietStep DEF SameCaller
    <2>2. CASE op[worker[w].op].manifest # worker[w].manifest
      <3>1. Return(w) /\ UNCHANGED <<active, op, eff, cancel, invoked>>
        BY <1>3, <2>2 DEF Bind, durable
      <3>2. OpsKept /\ ActiveKept /\ \A e \in EffectIds : RowKept(e)
        BY <3>1 DEF OpsKept, ActiveKept, RowKept
      <3> QED BY <3>1, <3>2, ReturnStep
    <2> QED BY <2>1, <2>2
  <1>4. CASE LoadActive(w)
    <2> DEFINE o == worker[w].op
               q == Snapshot(worker[w], o, op[o], "check")
    <2>1. /\ worker[w].pc = "reload" /\ worker' = [worker EXCEPT ![w] = q]
          /\ UNCHANGED <<active, op, running, eff, cancel, tasks, invoked>>
      BY <1>4 DEF LoadActive, Goto, durable
    <2>2. o \in Ops /\ op[o] \in OpRow /\ op[o].session = worker[w].session
      BY <2>1
    <2>3. Quiet(w)
      BY <2>1, QuietFacts
    <2>4. /\ q.pc = "check" /\ q.op = o /\ q.session = worker[w].session
          /\ q.unspawned = worker[w].unspawned /\ q.inbox = worker[w].inbox
      BY <2>2, <1>pcs, SnapshotOK
    <2> HIDE DEF q
    <2>5. OpsKept /\ \A s \in Sessions : active'[s] # Null => op[active'[s]].session = s
      BY <2>1, <1>same
    <2> QED BY <2>1, <2>2, <2>3, <2>4, <2>5, QuietStep
  <1>5. CASE NoCancellation(w) \/ YieldToCancellation(w)
    <2>1. PICK pc \in {"step", "reload"} :
             /\ worker[w].pc \in {"check", "step"}
             /\ worker' = [worker EXCEPT ![w] = At(worker[w], pc)]
             /\ UNCHANGED <<active, op, running, eff, cancel, tasks, invoked>>
      BY <1>5 DEF NoCancellation, YieldToCancellation, Goto, durable
    <2>2. worker[w].op \in Ops /\ op[worker[w].op].session = worker[w].session
      BY <2>1
    <2>3. SameCaller(At(worker[w], pc), worker[w]) /\ At(worker[w], pc).pc = pc
      BY <1>pcs, AtOK
    <2>4. Quiet(w)
      BY <2>1, QuietFacts
    <2>5. OpsKept /\ \A s \in Sessions : active'[s] # Null => op[active'[s]].session = s
      BY <2>1, <1>same
    <2> QED BY <2>1, <2>2, <2>3, <2>4, <2>5, QuietStep DEF SameCaller
  <1>6. CASE (\E n \in 0..MaxAppend : DecideAppend(w, n)) \/ FinishEffectBatchAttempt(w)
    <2> DEFINE o == worker[w].op
    <2>1. /\ worker[w].pc \notin {"idle", "activate"}
          /\ worker[w].pc # "attempts" \/ AttemptsDone(w)
          /\ worker' = [worker EXCEPT ![w] = At(worker[w], "reload")]
          /\ UNCHANGED <<active, running, eff, cancel, tasks, invoked>>
      BY <1>6 DEF DecideAppend, MayDecide, FinishEffectBatchAttempt, AttemptsDone, Goto
    <2>2. o \in Ops /\ op[o] \in OpRow /\ op[o].session = worker[w].session
      BY <2>1
    <2>3. OpsKept
      <3>1. ASSUME NEW n \in 0..MaxAppend, DecideAppend(w, n) PROVE OpsKept
        <4>1. op[o].phase = "need_decision" /\ op' = [op EXCEPT ![o] = Continued(@)]
          BY <3>1 DEF DecideAppend, MayDecide
        <4> QED BY <2>2, <4>1, ContinuedOK, OpUpdate
      <3>2. ASSUME FinishEffectBatchAttempt(w) PROVE OpsKept
        <4>1. CASE worker[w].finished \/ Requested(o)
          BY <3>2, <4>1, <1>same DEF FinishEffectBatchAttempt
        <4>2. CASE ~(worker[w].finished \/ Requested(o))
          <5>1. op' = [op EXCEPT ![o] = AfterChildren(eff, o)] /\ op[o].phase = "effect_dispatched"
            BY <3>2, <4>2, Zenon DEF FinishEffectBatchAttempt
          <5> QED BY <2>2, <5>1, AfterChildrenOK, OpUpdate
        <4> QED BY <4>1, <4>2
      <3> QED BY <1>6, <3>1, <3>2
    <2>4. SameCaller(At(worker[w], "reload"), worker[w]) /\ At(worker[w], "reload").pc = "reload"
      BY <1>pcs, AtOK
    <2>5. Quiet(w)
      BY <2>1, QuietFacts
    <2>6. \A s \in Sessions : active'[s] # Null => op[active'[s]].session = s
      BY <2>1, <1>act
    <2> QED BY <2>1, <2>2, <2>3, <2>4, <2>5, <2>6, QuietStep DEF SameCaller
  <1>7. CASE LoadPendingAbandonment(w)
    <2> DEFINE q == ReadyToCommit(worker[w], op[worker[w].op].version, nextSeq[worker[w].session],
                                  "abandonCommit")
    <2>1. /\ worker[w].pc = "abandon" /\ worker' = [worker EXCEPT ![w] = q]
          /\ UNCHANGED <<active, op, running, eff, cancel, tasks, invoked>>
      BY <1>7 DEF LoadPendingAbandonment, Goto, durable
    <2>2. worker[w].op \in Ops /\ op[worker[w].op].session = worker[w].session
          /\ op[worker[w].op].version \in Nat /\ nextSeq[worker[w].session] \in Nat
      BY <2>1 DEF TypeOK, OpRow
    <2>3. SameCaller(q, worker[w]) /\ q.pc = "abandonCommit"
      BY <2>2, <1>pcs, ReadyToCommitOK
    <2>4. Quiet(w)
      BY <2>1, QuietFacts
    <2> HIDE DEF q
    <2>5. OpsKept /\ \A s \in Sessions : active'[s] # Null => op[active'[s]].session = s
      BY <2>1, <1>same
    <2> QED BY <2>1, <2>2, <2>3, <2>4, <2>5, QuietStep DEF SameCaller
  <1> QED BY <1>1, <1>2, <1>3, <1>4, <1>5, <1>6, <1>7
-----------------------------------------------------------------------------
(* A cancellation closes the started children of the current batch.          *)
LEMMA LoadCancellationStep ==
    ASSUME IInv, TypeOK', NEW w \in Workers, LoadCancellation(w)
    PROVE  IInv'
  <1>inv. TypeOK /\ Placed /\ RowsAgree /\ DispatchCounted
    BY DEF IInv
  <1> DEFINE o == worker[w].op
             q == ReadyToCommit(worker[w], op'[o].version, nextSeq[worker[w].session], "close")
  <1>1. /\ worker[w].pc = "check" /\ worker' = [worker EXCEPT ![w] = q]
        /\ UNCHANGED <<active, running, cancel, tasks, invoked>>
    BY DEF LoadCancellation, Goto
  <1>2. /\ o \in Ops /\ op[o] \in OpRow /\ op[o].session = worker[w].session
        /\ op[o].phase # "absent" /\ op'[o].version \in Nat /\ nextSeq[worker[w].session] \in Nat
        /\ worker[w] \in WorkerState
    BY <1>1, <1>inv, CallerFacts DEF TypeOK, OpRow, LoadCancellation, IsCancellable, Live
  <1>3. SameCaller(q, worker[w]) /\ q.pc = "close"
    <2>1. "close" \in Pcs
      BY DEF Pcs
    <2> QED BY <1>2, <2>1, ReadyToCommitOK
  <1> HIDE DEF q
  <1>4. OpsKept
    <2>1. CASE op[o].phase = "effect_dispatched"
      <3>1. op' = [op EXCEPT ![o] = AfterChildren(eff', o)]
        BY <2>1, Zenon DEF LoadCancellation
      <3> QED BY <1>inv, <1>2, <3>1, AfterChildrenOK, OpUpdate
    <2>2. CASE op[o].phase # "effect_dispatched"
      BY <2>2 DEF LoadCancellation, OpsKept
    <2> QED BY <2>1, <2>2
  <1>5. \A e \in EffectIds :
          /\ e[1] # o => RowKept(e)
          /\ eff'[e].count = eff[e].count /\ eff'[e].recovery = eff[e].recovery
          /\ eff'[e].status = eff[e].status
                \/ (eff[e].status = "dispatch_started" /\ eff'[e].status = "outcome_unknown")
    <2>1. CASE eff' = eff
      BY <2>1 DEF RowKept
    <2>2. CASE eff' = ClosedChildren(o)
      BY <2>2, <1>inv, MarkedOK, NamesOK DEF ClosedChildren, Children, RowKept, TypeOK
    <2>3. eff' = eff \/ eff' = ClosedChildren(o)
      BY Zenon DEF LoadCancellation
    <2> QED BY <2>1, <2>2, <2>3
  <1>6. DispatchCounted'
    BY <1>1, <1>4, <1>5, <1>inv, EffectIdFacts DEF DispatchCounted, OpsKept
  <1>7. Quiet(w)
    BY <1>1, QuietFacts
  <1>8. \A s \in Sessions : active'[s] # Null => op[active'[s]].session = s
    BY <1>1, <1>inv DEF RowsAgree
  <1>9. \A e \in EffectIds : op[e[1]].session # worker[w].session => RowKept(e)
    BY <1>2, <1>5
  <1>10. q.inbox = {} /\ q.unspawned = {} /\ worker[w].pc # "idle"
         /\ \A t \in tasks : op[t.effect[1]].session # worker[w].session
    BY <1>3, <1>7 DEF Quiet, SameCaller
  <1>11. q.session = worker[w].session /\ q.op = o
    BY <1>3 DEF SameCaller
  <1> QED BY <1>1, <1>2, <1>3, <1>4, <1>6, <1>8, <1>9, <1>10, <1>11, GotoStep DEF OpsKept

(* A new batch takes identities that no effect had.                          *)
LEMMA DecideEffectsStep ==
    ASSUME IInv, TypeOK', NEW w \in Workers, NEW r \in Batch, DecideEffects(w, r)
    PROVE  IInv'
  <1>inv. TypeOK /\ Placed /\ RowsAgree /\ DispatchCounted
    BY DEF IInv
  <1> DEFINE o == worker[w].op
             b == op[o].next + 1
             q == At(worker[w], "reload")
  <1>1. /\ worker[w].pc = "step" /\ worker' = [worker EXCEPT ![w] = q]
        /\ b \in Batches /\ op[o].phase = "need_decision"
        /\ op' = [op EXCEPT ![o] = WithBatch(op[o], b)]
        /\ eff' = [e \in EffectIds |-> IF e[1] = o /\ e[2] = b /\ e[3] \in DOMAIN r
                                         THEN Intent(r[e[3]]) ELSE eff[e]]
        /\ UNCHANGED <<active, running, cancel, tasks, invoked>>
    BY DEF DecideEffects, MayDecide, Goto
  <1>2. /\ o \in Ops /\ op[o] \in OpRow /\ op[o].session = worker[w].session
        /\ worker[w] \in WorkerState /\ op[o].next \in Nat
    BY <1>1, <1>inv, CallerFacts, NamesOK DEF OpRow
  <1>3. SameCaller(q, worker[w]) /\ q.pc = "reload"
    <2>1. "reload" \in Pcs
      BY DEF Pcs
    <2> QED BY <1>2, <2>1, AtOK
  <1> HIDE DEF q
  <1>4. \A p \in Ops :
          IF p = o THEN /\ op'[p].session = op[p].session /\ op'[p].next = op[p].next + 1
                        /\ op'[p].phase # "absent"
                   ELSE op'[p] = op[p]
    <2> HIDE DEF b
    <2>1. WithBatch(op[o], b).session = op[o].session /\ WithBatch(op[o], b).next = b
          /\ WithBatch(op[o], b).phase # "absent"
      BY <1>1, <1>2, WithBatchOK
    <2>2. op'[o] = WithBatch(op[o], b) /\ \A p \in Ops : p # o => op'[p] = op[p]
      BY <1>1, <1>2, <1>inv DEF TypeOK
    <2> QED BY <2>1, <2>2 DEF b
  <1>5. ASSUME NEW k \in DOMAIN r
        PROVE  Intent(r[k]).status = "intent_committed" /\ Intent(r[k]).count = 0
    BY <1>5, IntentOK DEF Batch
  <1>6. \A e \in EffectIds :
          \/ RowKept(e)
          \/ /\ e[1] = o /\ e[2] = b
             /\ eff'[e].status = "intent_committed" /\ eff'[e].count = 0
    <2> HIDE DEF b
    <2> QED BY <1>1, <1>5 DEF RowKept
  <1>7. DispatchCounted'
    <2> SUFFICES ASSUME NEW e \in EffectIds
                 PROVE  /\ invoked[e] <= eff'[e].count
                        /\ eff'[e].status \in {"none", "intent_committed"} => eff'[e].count = 0
                        /\ e[2] > op'[e[1]].next => eff'[e].status = "none"
                        /\ eff'[e].recovery = "never_replay" => eff'[e].count <= 1
      BY <1>1 DEF DispatchCounted
    <2>1. e[1] \in Ops /\ e[2] \in Nat /\ op[e[1]].next \in Nat
      BY EffectIdFacts, <1>inv, NamesOK DEF TypeOK, OpRow
    <2>2. CASE RowKept(e)
      BY <2>1, <2>2, <1>4, <1>inv DEF RowKept, DispatchCounted
    <2>3. CASE /\ e[1] = o /\ e[2] = b
               /\ eff'[e].status = "intent_committed" /\ eff'[e].count = 0
      BY <2>1, <2>3, <1>2, <1>4, <1>inv DEF DispatchCounted
    <2> QED BY <2>2, <2>3, <1>6
  <1>8. Quiet(w)
    BY <1>1, QuietFacts
  <1>9. \A s \in Sessions : active'[s] # Null => op[active'[s]].session = s
    BY <1>1, <1>inv DEF RowsAgree
  <1>10. \A e \in EffectIds : op[e[1]].session # worker[w].session => RowKept(e)
    BY <1>2, <1>6
  <1>11. q.inbox = {} /\ q.unspawned = {} /\ worker[w].pc # "idle"
         /\ \A t \in tasks : op[t.effect[1]].session # worker[w].session
    BY <1>3, <1>8 DEF Quiet, SameCaller
  <1>12. q.session = worker[w].session /\ q.op = o
    BY <1>3 DEF SameCaller
  <1>13. \A p \in Ops : /\ op'[p].session = op[p].session
                        /\ op'[p].phase = "absent" <=> op[p].phase = "absent"
                        /\ op'[p].phase = "absent" => op'[p].next = op[p].next
    BY <1>1, <1>4
  <1> HIDE DEF b, o
  <1> QED BY <1>1, <1>2, <1>3, <1>7, <1>9, <1>10, <1>11, <1>12, <1>13, GotoStep

(* Preparation counts a dispatch for each child it will invoke.              *)
LEMMA PreparedFacts ==
    ASSUME TypeOK, DispatchCounted, NEW o \in Ops, NEW e \in EffectIds
    PROVE  LET q == PreparedChildren(o)[e]
           IN  /\ e \in Dispatchable(o) =>
                    /\ e[1] = o /\ q.status = "dispatch_started" /\ q.count = eff[e].count + 1
                    /\ q.recovery = eff[e].recovery /\ eff[e].status # "none"
                    /\ eff[e].recovery = "never_replay" => eff[e].count = 0
               /\ e \notin Dispatchable(o) =>
                    /\ q.count = eff[e].count /\ q.recovery = eff[e].recovery
                    /\ \/ q.status = eff[e].status
                       \/ /\ e[1] = o /\ eff[e].status = "dispatch_started"
                          /\ q.status = "outcome_unknown"
  <1>1. eff[e] \in EffRow
    BY DEF TypeOK
  <1>2. CASE e \in Dispatchable(o)
    <2>1. PreparedChildren(o)[e] = Started(eff[e])
      BY <1>2 DEF PreparedChildren
    <2>2. e[1] = o /\ eff[e].status # "none"
          /\ (eff[e].status = "intent_committed" \/ eff[e].recovery = "safe_to_replay")
      BY <1>2 DEF Dispatchable, Children
    <2> QED BY <1>1, <1>2, <2>1, <2>2, StartedOK DEF DispatchCounted
  <1>3. CASE e \notin Dispatchable(o)
    <2>1. \/ PreparedChildren(o)[e] = eff[e]
          \/ /\ PreparedChildren(o)[e] = Marked(eff[e], "outcome_unknown")
             /\ e[1] = o /\ eff[e].status = "dispatch_started"
      BY <1>3 DEF PreparedChildren, Children
    <2> DEFINE m == Marked(eff[e], "outcome_unknown")
    <2>2. m.status = "outcome_unknown" /\ m.count = eff[e].count /\ m.recovery = eff[e].recovery
      BY <1>1, MarkedOK, NamesOK
    <2> HIDE DEF m
    <2> QED BY <1>3, <2>1, <2>2 DEF m
  <1> QED BY <1>2, <1>3

(* The batch is dispatched, or closed when no child is left to invoke.       *)
LEMMA PrepareSteps ==
    ASSUME IInv, TypeOK', NEW w \in Workers, PrepareEffectBatch(w) \/ FinishWithoutInvocations(w)
    PROVE  IInv'
  <1>inv. TypeOK /\ Placed /\ RowsAgree /\ DispatchCounted
    BY DEF IInv
  <1> DEFINE o == worker[w].op
  <1>1. /\ worker[w].pc = "step" /\ eff' = PreparedChildren(o)
        /\ op[o].phase \in {"effect_intent", "effect_dispatched"}
        /\ UNCHANGED <<active, running, cancel, tasks, invoked>>
    BY DEF PrepareEffectBatch, FinishWithoutInvocations, MayPrepare, Goto
  <1>2. /\ o \in Ops /\ op[o] \in OpRow /\ op[o].session = worker[w].session
        /\ worker[w] \in WorkerState
    BY <1>1, <1>inv, CallerFacts
  <1>3. OpsKept
    <2>1. CASE PrepareEffectBatch(w)
      BY <1>1, <1>2, <1>inv, <2>1, DispatchedOK, OpUpdate DEF PrepareEffectBatch
    <2>2. CASE FinishWithoutInvocations(w)
      <3> DEFINE k == Some(eff', o, op[o].current, "outcome_unknown")
      <3>1. k \in BOOLEAN
        BY Zenon DEF Some
      <3>2. op' = [op EXCEPT ![o] = FinishedBatch(op[o], k)]
        BY <2>2 DEF FinishWithoutInvocations
      <3> HIDE DEF k
      <3>3. KeepsOp(FinishedBatch(op[o], k), op[o])
        BY <1>2, <3>1, FinishedBatchOK
      <3> QED BY <1>1, <1>2, <1>inv, <3>2, <3>3, OpUpdate
    <2> QED BY <2>1, <2>2
  <1>4. \A e \in EffectIds :
          /\ e \in Dispatchable(o) =>
               /\ e[1] = o /\ eff'[e].status = "dispatch_started" /\ eff'[e].count = eff[e].count + 1
               /\ eff'[e].recovery = eff[e].recovery /\ eff[e].status # "none"
               /\ eff[e].recovery = "never_replay" => eff[e].count = 0
          /\ e \notin Dispatchable(o) =>
               /\ eff'[e].count = eff[e].count /\ eff'[e].recovery = eff[e].recovery
               /\ \/ eff'[e].status = eff[e].status
                  \/ /\ e[1] = o /\ eff[e].status = "dispatch_started"
                     /\ eff'[e].status = "outcome_unknown"
    BY <1>1, <1>2, <1>inv, PreparedFacts
  <1>5. \A e \in EffectIds : op[e[1]].session # worker[w].session => RowKept(e)
    BY <1>2, <1>4 DEF RowKept
  <1>6. \A e \in EffectIds :
          /\ eff[e].count \in Nat /\ invoked[e] \in Nat /\ eff'[e].count \in Nat
          /\ invoked[e] <= eff[e].count
          /\ e \in Dispatchable(o) => invoked[e] < eff'[e].count
    BY <1>4, <1>inv DEF TypeOK, EffRow, DispatchCounted
  <1>7. DispatchCounted'
    <2> SUFFICES ASSUME NEW e \in EffectIds
                 PROVE  /\ invoked[e] <= eff'[e].count
                        /\ eff'[e].status \in {"none", "intent_committed"} => eff'[e].count = 0
                        /\ e[2] > op'[e[1]].next => eff'[e].status = "none"
                        /\ eff'[e].recovery = "never_replay" => eff'[e].count <= 1
      BY <1>1 DEF DispatchCounted
    <2>1. op'[e[1]].next = op[e[1]].next
      BY EffectIdFacts, <1>3 DEF OpsKept
    <2>2. CASE e \in Dispatchable(o)
      <3>1. /\ eff'[e].status = "dispatch_started" /\ eff'[e].count = eff[e].count + 1
            /\ eff'[e].recovery = eff[e].recovery /\ eff[e].status # "none"
            /\ eff[e].recovery = "never_replay" => eff[e].count = 0
        BY <2>2, <1>4
      <3>2. ~(e[2] > op[e[1]].next)
        BY <3>1, <1>inv DEF DispatchCounted
      <3>3. /\ eff[e].count \in Nat /\ invoked[e] \in Nat /\ invoked[e] <= eff[e].count
        BY <1>6
      <3> QED BY <2>1, <3>1, <3>2, <3>3
    <2>3. CASE e \notin Dispatchable(o)
      BY <2>1, <2>3, <1>4, <1>6, <1>inv DEF DispatchCounted
    <2> QED BY <2>2, <2>3
  <1>8. Quiet(w)
    BY <1>1, QuietFacts
  <1>9. \A s \in Sessions : active'[s] # Null => op[active'[s]].session = s
    BY <1>1, <1>inv DEF RowsAgree
  <1>10. worker[w].pc # "idle" /\ worker[w].inbox = {} /\ worker[w].unspawned = {}
         /\ \A t \in tasks : op[t.effect[1]].session # worker[w].session
    BY <1>8 DEF Quiet
  <1>11. ASSUME NEW q, worker' = [worker EXCEPT ![w] = q], q.pc \in {"reload", "attempts"},
                q.session = worker[w].session, q.op = o, q.inbox = {},
                q.pc # "attempts" => q.unspawned = {}, q.unspawned \subseteq Dispatchable(o)
         PROVE  IInv'
    <2>1. \A e \in q.unspawned : /\ e \in EffectIds /\ e[1] = q.op
                                 /\ eff'[e].status = "dispatch_started"
                                 /\ invoked[e] < eff'[e].count
      <3>1. Dispatchable(o) \subseteq EffectIds
        BY DEF Dispatchable, Children
      <3>2. \A e \in Dispatchable(o) : /\ e \in EffectIds /\ e[1] = o
                                       /\ eff'[e].status = "dispatch_started"
                                       /\ invoked[e] < eff'[e].count
        BY <1>4, <1>6, <3>1
      <3> QED BY <1>11, <3>2
    <2>2. \A p \in Ops : /\ op'[p].session = op[p].session
                         /\ op'[p].phase = "absent" <=> op[p].phase = "absent"
                         /\ op'[p].phase = "absent" => op'[p].next = op[p].next
      BY <1>3 DEF OpsKept
    <2>3. \A s \in Sessions : running[s].bound # Null => running'[s].bound # Null
      BY <1>1
    <2>4. q.pc \notin {"idle", "activate"} /\ q.op \in Ops /\ op[q.op].session = q.session
          /\ UNCHANGED <<cancel, tasks, invoked>>
      BY <1>1, <1>2, <1>11
    <2> HIDE DEF o
    <2> QED BY <1>5, <1>7, <1>9, <1>10, <1>11, <2>1, <2>2, <2>3, <2>4, GotoStep
  <1>12. CASE PrepareEffectBatch(w)
    <2> DEFINE q == Attempting(worker[w], Dispatchable(o))
    <2>1. worker' = [worker EXCEPT ![w] = q]
      BY <1>12 DEF PrepareEffectBatch, Goto
    <2>2. Dispatchable(o) \subseteq EffectIds
      BY DEF Dispatchable, Children
    <2>3. /\ q.pc = "attempts" /\ q.session = worker[w].session /\ q.op = o
          /\ q.unspawned = Dispatchable(o) /\ q.inbox = worker[w].inbox
      BY <1>2, <2>2, AttemptingOK
    <2> HIDE DEF q
    <2> QED BY <1>10, <1>11, <2>1, <2>3
  <1>13. CASE FinishWithoutInvocations(w)
    <2> DEFINE q == At(worker[w], "reload")
    <2>1. worker' = [worker EXCEPT ![w] = q] /\ "reload" \in Pcs
      BY <1>13 DEF FinishWithoutInvocations, Goto, Pcs
    <2>2. SameCaller(q, worker[w]) /\ q.pc = "reload"
      BY <1>2, <2>1, AtOK
    <2>3. q.unspawned = {} /\ q.inbox = {} /\ q.session = worker[w].session /\ q.op = o
      BY <1>10, <2>2 DEF SameCaller
    <2> HIDE DEF q
    <2> QED BY <1>11, <2>1, <2>2, <2>3
  <1> QED BY <1>12, <1>13

(* A completion is settled, recorded unknown, or left for a replay.          *)
LEMMA CompletionSteps ==
    ASSUME IInv, TypeOK', NEW w \in Workers, NEW done \in worker[w].inbox,
           \/ SettleBatchEffect(w, done) \/ RecordBatchEffectUnknown(w, done)
           \/ LeaveForReplay(w, done)
    PROVE  IInv'
  <1>inv. TypeOK /\ Placed
    BY DEF IInv
  <1>1. worker[w].pc = "attempts"
    BY DEF SettleBatchEffect, RecordBatchEffectUnknown, LeaveForReplay
  <1>2. /\ worker[w].op \in Ops /\ op[worker[w].op] \in OpRow /\ worker[w] \in WorkerState
        /\ done.effect \in EffectIds /\ eff[done.effect] \in EffRow /\ worker[w].finished \in BOOLEAN
    BY <1>1, <1>inv, CallerFacts DEF TypeOK, Completion
  <1>3. PICK f \in BOOLEAN : worker' = [worker EXCEPT ![w] = Received(worker[w], done, f)]
    BY <1>2 DEF SettleBatchEffect, RecordBatchEffectUnknown, LeaveForReplay, Receive, Goto
  <1> DEFINE q == Received(worker[w], done, f)
  <1>4. /\ q.pc = worker[w].pc /\ q.session = worker[w].session /\ q.op = worker[w].op
        /\ q.unspawned = worker[w].unspawned /\ q.inbox = worker[w].inbox \ {done}
    BY <1>2, ReceivedOK
  <1>5. UNCHANGED <<active, cancel, running, tasks, invoked>>
    BY DEF SettleBatchEffect, RecordBatchEffectUnknown, LeaveForReplay, Receive, Goto, durable
  <1>6. /\ \A e \in EffectIds : e # done.effect => RowKept(e)
        /\ eff'[done.effect].status \in {"dispatch_started", "settled", "outcome_unknown"}
        /\ eff'[done.effect].count = eff[done.effect].count
        /\ eff'[done.effect].recovery = eff[done.effect].recovery
        /\ OpsKept
    <2>1. ASSUME NEW x \in {"settled", "outcome_unknown"}, Receive(w, done, x)
          PROVE  <1>6!1 /\ <1>6!2 /\ <1>6!3 /\ <1>6!4 /\ <1>6!5
      <3>1. /\ eff' = [eff EXCEPT ![done.effect] = Marked(eff[done.effect], x)]
            /\ op' = [op EXCEPT ![worker[w].op] = AfterChildren(eff', worker[w].op)]
            /\ op[worker[w].op].phase = "effect_dispatched"
        BY <2>1 DEF Receive, MayRecord
      <3>2. OpsKept
        BY <1>inv, <1>2, <3>1, AfterChildrenOK, OpUpdate
      <3>3. x \in Statuses
        BY NamesOK
      <3>4. <1>6!1 /\ <1>6!2 /\ <1>6!3 /\ <1>6!4
        BY <1>inv, <1>2, <3>1, <3>3, MarkedOK DEF TypeOK, RowKept
      <3> QED BY <3>2, <3>4
    <2>2. CASE LeaveForReplay(w, done)
      <3>1. eff' = eff /\ op' = op
        BY <2>2 DEF LeaveForReplay, durable
      <3>2. eff[done.effect].status = "dispatch_started"
        BY <1>1 DEF IInv, AttemptsStarted, AttemptStarted
      <3> QED BY <3>1, <3>2 DEF RowKept, OpsKept
    <2> QED BY <2>1, <2>2 DEF SettleBatchEffect, RecordBatchEffectUnknown
  <1> HIDE DEF q
  <1> QED BY <1>1, <1>3, <1>4, <1>5, <1>6, ReceiveStep DEF q
-----------------------------------------------------------------------------
(* Every step keeps the inductive invariant.                                 *)
LEMMA NextInv == ASSUME IInv, [Next]_vars PROVE IInv'
  <1>type. TypeOK'
    BY NextType DEF IInv
  <1>1. CASE UNCHANGED vars
    <2>1. Placed' /\ RowsAgree' /\ LeaseCovers' /\ OneWorker' /\ TasksOwned'
      BY <1>1 DEF vars, IInv, Placed, RowsAgree, LeaseCovers, Holds, OneWorker, TasksOwned
    <2>2. TasksStarted' /\ AttemptsStarted' /\ DispatchCounted'
      BY <1>1 DEF vars, IInv, TasksStarted, AttemptsStarted, AttemptStarted, DispatchCounted
    <2> QED BY <1>type, <2>1, <2>2 DEF IInv
  <1>2. ASSUME NEW o \in Ops, NEW s \in Sessions, Submit(o, s) \/ SubmitExclusive(o, s)
        PROVE  IInv'
    BY <1>2, <1>type, AdmitStep, Zenon DEF Submit, SubmitExclusive
  <1>3. ASSUME NEW w \in Workers, NEW s \in Sessions, NEW m \in Manifests, Drive(w, s, m)
        PROVE  IInv'
    <2> DEFINE q == Starting("activate", s, Null, m)
    <2>1. q.pc = "activate" /\ q.session = s /\ q.unspawned = {} /\ q.inbox = {}
      <3>1. "activate" \in Pcs
        BY DEF Pcs
      <3> QED BY <3>1, StartingOK
    <2>2. Acquire(w, s, q) /\ UNCHANGED <<active, op, eff, cancel, tasks, invoked>>
      BY <1>3 DEF Drive, durable
    <2> HIDE DEF q
    <2> QED BY <1>type, <2>1, <2>2, AcquireStep
  <1>4. ASSUME NEW w \in Workers, NEW o \in Ops, NEW m \in Manifests, Abandon(w, o, m)
        PROVE  IInv'
    <2> DEFINE s == op[o].session
               q == Starting("abandon", s, o, m)
    <2>1. s \in Sessions
      BY <1>4 DEF Abandon, IInv, TypeOK, OpRow
    <2>2. q.pc = "abandon" /\ q.session = s /\ q.op = o /\ q.unspawned = {} /\ q.inbox = {}
      <3>1. "abandon" \in Pcs
        BY DEF Pcs
      <3> HIDE DEF s
      <3> QED BY <2>1, <3>1, StartingOK
    <2>3. Acquire(w, s, q) /\ UNCHANGED <<active, op, eff, cancel, tasks, invoked>>
      BY <1>4 DEF Abandon, durable
    <2> HIDE DEF q
    <2> QED BY <1>type, <2>1, <2>2, <2>3, AcquireStep
  <1>5. ASSUME NEW w \in Workers, DriveStep(w)
        PROVE  IInv'
    BY <1>5, <1>type, QuietSteps, ReturningSteps, LoadCancellationStep, DecideEffectsStep,
       PrepareSteps, SpawnStep, CompletionSteps, Zenon DEF DriveStep
  <1>6. ASSUME NEW w \in Workers, AbandonStep(w) \/ DriveEnds(w)
        PROVE  IInv'
    BY <1>6, <1>type, QuietSteps, ReturningSteps, Zenon DEF AbandonStep
  <1> QED BY <1>type, <1>1, <1>2, <1>3, <1>4, <1>5, <1>6, RequestStep, AdapterStep, CrashStep, Zenon
             DEF Next

(* The invariant, for every value of the constants.                          *)
THEOREM Invariance == Spec => []IInv
  BY InitInv, NextInv, PTL DEF Spec

(* Type correctness of every row and of the process's memory.                *)
THEOREM TypeCorrect == Spec => []TypeOK
  <1>1. IInv => TypeOK
    BY DEF IInv
  <1> QED BY <1>1, Invariance, PTL

(* drive and abandon_unknown_effect exclude each other per session, and a    *)
(* task of a dropped drive keeps the next caller out.                        *)
THEOREM OneDriver == Spec => []SingleDriver
  <1>1. IInv => SingleDriver
    BY DEF IInv, SingleDriver, OneWorker, TasksOwned
  <1> QED BY <1>1, Invariance, PTL

(* No adapter runs without a committed dispatch of its own.                  *)
THEOREM DispatchFirst == Spec => []DispatchBeforeInvoke
  <1>1. IInv => DispatchBeforeInvoke
    BY DEF IInv, DispatchBeforeInvoke, TasksStarted, DispatchCounted
  <1> QED BY <1>1, Invariance, PTL

(* A never_replay effect reaches its adapter at most once, whatever fails.   *)
THEOREM NeverTwice == Spec => []NeverReplayedTwice
  <1>1. IInv => NeverReplayedTwice
    <2> SUFFICES ASSUME IInv, NEW e \in EffectIds, eff[e].recovery = "never_replay"
                 PROVE  eff[e].count <= 1 /\ invoked[e] <= 1
      BY DEF NeverReplayedTwice
    <2>1. eff[e].count \in Nat /\ invoked[e] \in Nat
      BY DEF IInv, TypeOK, EffRow
    <2> QED BY <2>1 DEF IInv, DispatchCounted
  <1> QED BY <1>1, Invariance, PTL

-----------------------------------------------------------------------------
(* What a step of the kernel may never do, from the inductive invariant:   *)
(* change a settled or unknown effect, or advance an operation whose       *)
(* cancellation is requested.                                              *)

(* Both properties of one step.                                             *)
StepOK == FinalKept /\ RequestHonoured

(* A step that writes neither operations nor effects.                       *)
LEMMA ReadingStep ==
    ASSUME UNCHANGED <<op, eff>>
    PROVE  StepOK
  BY DEF StepOK, FinalKept, RequestHonoured

(* A step that moves one operation on without an outcome or a new batch.    *)
LEMMA MovingStep ==
    ASSUME TypeOK, NEW o \in Ops, NEW q, op' = [op EXCEPT ![o] = q], UNCHANGED eff,
           q.next = op[o].next, q.outcome = op[o].outcome
    PROVE  StepOK
  BY DEF StepOK, FinalKept, RequestHonoured, TypeOK

(* Admission writes a row that had no session, so no request names it.      *)
LEMMA AdmittingStep ==
    ASSUME IInv, NEW o \in Ops, NEW s \in Sessions, Admit(o, s)
    PROVE  StepOK
  <1>1. ~Requested(o)
    BY NullAssumption DEF Admit, IInv, RowsAgree, Requested
  <1>2. \A p \in Ops : p # o => op'[p] = op[p]
    BY DEF Admit, IInv, TypeOK
  <1>3. eff' = eff
    BY DEF Admit
  <1> QED BY <1>1, <1>2, <1>3 DEF StepOK, FinalKept, RequestHonoured

(* A terminal write gives an outcome other than cancelled only to an         *)
(* operation without a request.                                             *)
LEMMA FinishingStep ==
    ASSUME TypeOK, NEW o \in Ops, NEW p \in Terminal, NEW x \in Outcomes, NEW c \in Batches \cup {0},
           FinishOperation(o, p, x, c), ~Requested(o) \/ x = "cancelled"
    PROVE  StepOK
  <1>1. \A e \in EffectIds : RowKept(e)
    BY ReleasedOK DEF FinishOperation, ReleaseFinishedRequests, RowKept, TypeOK
  <1>2. op'[o].next = op[o].next /\ op'[o].outcome = x /\ \A r \in Ops : r # o => op'[r] = op[r]
    <2>1. Ended(op[o], p, x, c).next = op[o].next /\ Ended(op[o], p, x, c).outcome = x
      BY EndedOK DEF TypeOK, KeepsOp
    <2> QED BY <2>1 DEF FinishOperation, TypeOK
  <1> QED BY <1>1, <1>2 DEF StepOK, FinalKept, RequestHonoured, RowKept
-----------------------------------------------------------------------------
(* The steps that end with the caller's return.                             *)
LEMMA ReturningOK ==
    ASSUME IInv, NEW w \in Workers,
           \/ DriveIdle(w) \/ DriveBlocked(w) \/ NothingToAbandon(w) \/ AbandonRefused(w)
           \/ DriveEnds(w)
           \/ \E n \in 0..MaxAppend :
                 \/ CommitCancellation(w, n) \/ CommitAbandonment(w, n)
                 \/ \E p \in Terminal \ {"cancelled"} : DecideFinish(w, p, n)
    PROVE  StepOK
  <1>1. CASE \/ DriveIdle(w) \/ DriveBlocked(w) \/ NothingToAbandon(w) \/ AbandonRefused(w)
             \/ DriveEnds(w)
    <2>1. UNCHANGED <<op, eff>>
      BY <1>1 DEF DriveIdle, DriveBlocked, NothingToAbandon, AbandonRefused, DriveEnds, durable
    <2> QED BY <2>1, ReadingStep
  <1>2. ASSUME NEW n \in 0..MaxAppend, NEW p \in Terminal \ {"cancelled"},
               CommitCancellation(w, n) \/ CommitAbandonment(w, n) \/ DecideFinish(w, p, n)
        PROVE  StepOK
    <2> DEFINE o == worker[w].op
    <2>1. o \in Ops /\ TypeOK /\ op[o].current \in Batches \cup {0}
      BY <1>2, CallerFacts DEF IInv, CommitCancellation, CommitAbandonment, DecideFinish, MayDecide,
                               OpRow
    <2>2. \/ FinishOperation(o, "cancelled", "cancelled", 0)
          \/ FinishOperation(o, "failed", "abandoned", 0) /\ ~Requested(o)
          \/ FinishOperation(o, p, p, op[o].current) /\ ~Requested(o)
      BY <1>2, Zenon DEF CommitCancellation, CommitAbandonment, DecideFinish, MayDecide
    <2>3. {"cancelled", "failed"} \subseteq Terminal
          /\ {"cancelled", "abandoned", p} \subseteq Outcomes
      BY DEF Terminal, Outcomes
    <2> QED BY <2>1, <2>2, <2>3, FinishingStep
  <1>3. "waiting" \in Terminal \ {"cancelled"}
    BY DEF Terminal
  <1> QED BY <1>1, <1>2, <1>3

(* The steps between two returns that read, or move the operation on.       *)
LEMMA MovingOK ==
    ASSUME IInv, NEW w \in Workers,
           \/ \E o \in Ops : ActivateNext(w, o)
           \/ \E n \in 0..MaxAppend : DecideAppend(w, n)
           \/ FinishEffectBatchAttempt(w)
           \/ ActivateOwned(w) \/ Bind(w) \/ LoadActive(w) \/ NoCancellation(w)
           \/ YieldToCancellation(w) \/ LoadPendingAbandonment(w)
           \/ \E e \in EffectIds : SpawnEffect(w, e)
    PROVE  StepOK
  <1>inv. TypeOK
    BY DEF IInv
  <1>1. ASSUME NEW o \in Ops, ActivateNext(w, o)
        PROVE  StepOK
    <2>1. op[o] \in OpRow /\ worker[w].manifest \in Manifests \cup {Null}
      BY <1>inv DEF TypeOK, WorkerState
    <2> DEFINE q == Activated(op[o], worker[w].manifest)
    <2>2. q.next = op[o].next /\ q.outcome = op[o].outcome
      BY <2>1, ActivatedOK DEF KeepsOp
    <2>3. op' = [op EXCEPT ![o] = q] /\ UNCHANGED eff
      BY <1>1 DEF ActivateNext
    <2> HIDE DEF q
    <2> QED BY <1>inv, <2>2, <2>3, MovingStep
  <1>2. ASSUME NEW n \in 0..MaxAppend, DecideAppend(w, n)
        PROVE  StepOK
    <2> DEFINE o == worker[w].op
               q == Continued(op[o])
    <2>1. o \in Ops /\ op[o] \in OpRow /\ op[o].phase # "absent"
      BY <1>2, CallerFacts DEF IInv, DecideAppend, MayDecide
    <2>2. q.next = op[o].next /\ q.outcome = op[o].outcome
      BY <2>1, ContinuedOK DEF KeepsOp
    <2>3. op' = [op EXCEPT ![o] = q] /\ UNCHANGED eff
      BY <1>2 DEF DecideAppend
    <2> HIDE DEF q
    <2> QED BY <1>inv, <2>1, <2>2, <2>3, MovingStep
  <1>3. CASE FinishEffectBatchAttempt(w)
    <2> DEFINE o == worker[w].op
               q == AfterChildren(eff, o)
    <2>1. o \in Ops /\ op[o] \in OpRow
      BY <1>3, CallerFacts DEF IInv, FinishEffectBatchAttempt, AttemptsDone
    <2>2. eff' = eff /\ (op' = op \/ (op' = [op EXCEPT ![o] = q] /\ op[o].phase # "absent"))
      BY <1>3 DEF FinishEffectBatchAttempt
    <2>3. op[o].phase # "absent" => q.next = op[o].next /\ q.outcome = op[o].outcome
      BY <1>inv, <2>1, AfterChildrenOK DEF KeepsOp
    <2> HIDE DEF q
    <2> QED BY <1>inv, <2>1, <2>2, <2>3, MovingStep, ReadingStep
  <1>4. CASE \/ ActivateOwned(w) \/ Bind(w) \/ LoadActive(w) \/ NoCancellation(w)
             \/ YieldToCancellation(w) \/ LoadPendingAbandonment(w)
             \/ \E e \in EffectIds : SpawnEffect(w, e)
    <2>1. UNCHANGED <<op, eff>>
      BY <1>4 DEF ActivateOwned, Bind, LoadActive, NoCancellation, YieldToCancellation,
                  LoadPendingAbandonment, SpawnEffect, durable
    <2> QED BY <2>1, ReadingStep
  <1> QED BY <1>1, <1>2, <1>3, <1>4
-----------------------------------------------------------------------------
(* The steps that write effect rows.  Each writes only open rows, and counts *)
(* a dispatch or creates a row only for an operation without a request.     *)

(* A cancellation closes started children alone.                            *)
LEMMA ClosingOK ==
    ASSUME IInv, NEW w \in Workers, LoadCancellation(w)
    PROVE  StepOK
  <1>inv. TypeOK
    BY DEF IInv
  <1> DEFINE o == worker[w].op
  <1>1. o \in Ops /\ op[o] \in OpRow /\ op[o].phase # "absent"
    BY CallerFacts DEF IInv, LoadCancellation, IsCancellable, Live
  <1>2. CASE op[o].phase # "effect_dispatched"
    BY <1>2, ReadingStep DEF LoadCancellation
  <1>3. CASE op[o].phase = "effect_dispatched"
    <2> DEFINE q == AfterChildren(eff', o)
    <2>1. op' = [op EXCEPT ![o] = q] /\ eff' = ClosedChildren(o)
      BY <1>3, Zenon DEF LoadCancellation
    <2>2. q.next = op[o].next /\ q.outcome = op[o].outcome
      BY <1>inv, <1>1, AfterChildrenOK DEF KeepsOp
    <2> HIDE DEF q
    <2>3. \A r \in Ops : op'[r].next = op[r].next /\ op'[r].outcome = op[r].outcome
      BY <1>inv, <1>1, <2>1, <2>2 DEF TypeOK
    <2>4. \A e \in EffectIds :
            /\ eff'[e].count = eff[e].count
            /\ eff[e].status # "dispatch_started" => eff'[e].status = eff[e].status
      BY <1>inv, <2>1, MarkedOK, NamesOK DEF ClosedChildren, TypeOK
    <2> QED BY <2>3, <2>4 DEF StepOK, FinalKept, RequestHonoured
  <1> QED BY <1>2, <1>3

(* A new batch is written over identities that held no effect.              *)
LEMMA CreatingOK ==
    ASSUME IInv, NEW w \in Workers, NEW r \in Batch, DecideEffects(w, r)
    PROVE  StepOK
  <1>inv. TypeOK /\ DispatchCounted
    BY DEF IInv
  <1> DEFINE o == worker[w].op
             b == op[o].next + 1
  <1>1. /\ ~Requested(o)
        /\ op' = [op EXCEPT ![o] = WithBatch(op[o], b)]
        /\ eff' = [e \in EffectIds |-> IF e[1] = o /\ e[2] = b /\ e[3] \in DOMAIN r
                                         THEN Intent(r[e[3]]) ELSE eff[e]]
    BY DEF DecideEffects, MayDecide
  <1>2. o \in Ops /\ op[o].next \in Nat
    BY CallerFacts, NamesOK DEF IInv, DecideEffects, MayDecide, OpRow
  <1>3. \A e \in EffectIds : e[1] = o /\ e[2] = b => eff[e].status = "none"
    BY <1>inv, <1>2 DEF DispatchCounted
  <1> HIDE DEF b
  <1>4. \A p \in Ops : p # o => op'[p] = op[p]
    BY <1>inv, <1>1, <1>2 DEF TypeOK
  <1>5. \A e \in EffectIds : ~(e[1] = o /\ e[2] = b) => eff'[e] = eff[e]
    BY <1>1
  <1> QED BY <1>1, <1>3, <1>4, <1>5 DEF StepOK, FinalKept, RequestHonoured

(* Preparation starts or closes open children of an operation without a      *)
(* request.                                                                 *)
LEMMA PreparingOK ==
    ASSUME IInv, NEW w \in Workers, PrepareEffectBatch(w) \/ FinishWithoutInvocations(w)
    PROVE  StepOK
  <1>inv. TypeOK /\ DispatchCounted
    BY DEF IInv
  <1> DEFINE o == worker[w].op
  <1>1. ~Requested(o) /\ eff' = PreparedChildren(o)
    BY DEF PrepareEffectBatch, FinishWithoutInvocations, MayPrepare
  <1>2. o \in Ops
    BY CallerFacts DEF IInv, PrepareEffectBatch, FinishWithoutInvocations, MayPrepare
  <1>3. \A p \in Ops : p # o => op'[p] = op[p]
    BY <1>inv, <1>2 DEF PrepareEffectBatch, FinishWithoutInvocations, TypeOK
  <1>4. \A e \in EffectIds :
          /\ e[1] # o => eff'[e].count = eff[e].count
          /\ eff[e].status \in {"settled", "outcome_unknown"} =>
               eff'[e].status = eff[e].status /\ eff'[e].count = eff[e].count
    <2> SUFFICES ASSUME NEW e \in EffectIds
                 PROVE  /\ e[1] # o => eff'[e].count = eff[e].count
                        /\ eff[e].status \in {"settled", "outcome_unknown"} =>
                             eff'[e].status = eff[e].status /\ eff'[e].count = eff[e].count
      OBVIOUS
    <2>1. e \in Dispatchable(o) =>
            e[1] = o /\ eff[e].status \notin {"settled", "outcome_unknown"}
      BY DEF Dispatchable, Children
    <2> QED BY <1>1, <1>2, <1>inv, <2>1, PreparedFacts
  <1> QED BY <1>1, <1>3, <1>4 DEF StepOK, FinalKept, RequestHonoured

(* A completion writes the outcome of one started child, once.              *)
LEMMA CompletingOK ==
    ASSUME IInv, NEW w \in Workers, NEW done \in worker[w].inbox,
           \/ SettleBatchEffect(w, done) \/ RecordBatchEffectUnknown(w, done)
           \/ LeaveForReplay(w, done)
    PROVE  StepOK
  <1>inv. TypeOK
    BY DEF IInv
  <1> DEFINE o == worker[w].op
             e == done.effect
  <1>1. o \in Ops /\ e \in EffectIds /\ eff[e] \in EffRow
    <2>1. worker[w].pc = "attempts"
      BY DEF SettleBatchEffect, RecordBatchEffectUnknown, LeaveForReplay
    <2> QED BY <2>1, <1>inv, CallerFacts DEF IInv, TypeOK, Completion
  <1>2. CASE LeaveForReplay(w, done)
    <2>1. UNCHANGED <<op, eff>>
      BY <1>2 DEF LeaveForReplay, durable
    <2> QED BY <2>1, ReadingStep
  <1>3. ASSUME NEW x \in {"settled", "outcome_unknown"}, Receive(w, done, x)
        PROVE  StepOK
    <2> DEFINE q == AfterChildren(eff', o)
    <2>1. /\ eff' = [eff EXCEPT ![e] = Marked(eff[e], x)] /\ op' = [op EXCEPT ![o] = q]
          /\ op[o].phase = "effect_dispatched" /\ eff[e].status = "dispatch_started"
      BY <1>3 DEF Receive, MayRecord
    <2>2. q.next = op[o].next /\ q.outcome = op[o].outcome
      BY <1>inv, <1>1, <2>1, AfterChildrenOK DEF KeepsOp
    <2> HIDE DEF q
    <2>3. \A r \in Ops : op'[r].next = op[r].next /\ op'[r].outcome = op[r].outcome
      BY <1>inv, <1>1, <2>1, <2>2 DEF TypeOK
    <2>4. \A f \in EffectIds : eff'[f].count = eff[f].count /\ (f # e => eff'[f] = eff[f])
      <3> DEFINE m == Marked(eff[e], x)
      <3>1. m.count = eff[e].count
        BY <1>1, MarkedOK, NamesOK
      <3> HIDE DEF m
      <3>2. eff' = [eff EXCEPT ![e] = m]
        BY <2>1 DEF m
      <3> QED BY <1>inv, <1>1, <3>1, <3>2 DEF TypeOK
    <2> QED BY <2>1, <2>3, <2>4 DEF StepOK, FinalKept, RequestHonoured
  <1> QED BY <1>2, <1>3 DEF SettleBatchEffect, RecordBatchEffectUnknown
-----------------------------------------------------------------------------
(* Every step respects both.                                                *)
LEMMA NextStepOK == ASSUME IInv, [Next]_vars PROVE StepOK
  <1>1. CASE UNCHANGED vars
    BY <1>1, ReadingStep DEF vars
  <1>2. ASSUME NEW o \in Ops, NEW s \in Sessions, Submit(o, s) \/ SubmitExclusive(o, s)
        PROVE  StepOK
    BY <1>2, AdmittingStep, Zenon DEF Submit, SubmitExclusive
  <1>3. ASSUME NEW w \in Workers, DriveStep(w)
        PROVE  StepOK
    BY <1>3, ReturningOK, MovingOK, ClosingOK, CreatingOK, PreparingOK, CompletingOK, Zenon
       DEF DriveStep
  <1>4. ASSUME NEW w \in Workers, AbandonStep(w) \/ DriveEnds(w)
        PROVE  StepOK
    BY <1>4, ReturningOK, MovingOK, Zenon DEF AbandonStep
  <1>5. CASE \/ \E i \in CancelIds, o \in Ops : RequestCancellation(i, o)
             \/ \E i \in CancelIds : RetryCancellation(i)
             \/ \E o \in Ops : SignalRunningOperation(o)
             \/ \E w \in Workers, s \in Sessions, m \in Manifests : Drive(w, s, m)
             \/ \E w \in Workers, o \in Ops, m \in Manifests : Abandon(w, o, m)
             \/ \E t \in tasks, r \in {"settled", "unknown"} : AdapterResolves(t, r)
             \/ Crash
    <2>1. UNCHANGED <<op, eff>>
      BY <1>5, Zenon DEF RequestCancellation, RetryCancellation, SignalRunningOperation, Drive,
                         Abandon, AdapterResolves, Crash, durable
    <2> QED BY <2>1, ReadingStep
  <1> QED BY <1>1, <1>2, <1>3, <1>4, <1>5, Zenon DEF Next

(* A settled effect keeps its result and an unknown one stays unknown,       *)
(* whatever cancellations, replays and late completions follow.             *)
THEOREM OutcomesFinal == Spec => EffectsAreFinal
  <1>1. IInv /\ [Next]_vars => [FinalKept]_vars
    BY NextStepOK DEF StepOK
  <1> QED BY <1>1, Invariance, PTL DEF Spec, EffectsAreFinal

(* After a request for cancellation is committed nothing more is created or  *)
(* dispatched for its operation, which can end only as cancelled.           *)
THEOREM RequestWins == Spec => CancellationWins
  <1>1. IInv /\ [Next]_vars => [RequestHonoured]_vars
    BY NextStepOK DEF StepOK
  <1> QED BY <1>1, Invariance, PTL DEF Spec, CancellationWins
=============================================================================
