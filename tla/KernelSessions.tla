--------------------------- MODULE KernelSessions ---------------------------
(***************************************************************************)
(* A session's operations, for every instance: one is live at a time and is *)
(* the session's active one, they leave the queue in the order of admission *)
(* under the runtime they froze, a signal reaches the operation it was      *)
(* committed for, the history is numbered without gaps in that order, and   *)
(* all of it together is the contract a Host sees (SessionContract).  Then  *)
(* the effects of an operation: batches, requests, replays and snapshots.   *)
(***************************************************************************)
EXTENDS KernelProofs, FiniteSetTheorems, SequenceTheorems

(* The place of an operation in its session, and the runtime it froze.       *)
KeepsPlace(q, r) ==
    /\ q.session = r.session /\ q.position = r.position
    /\ q.manifest = r.manifest /\ q.outcome = r.outcome

(* Activation freezes the caller's runtime and moves nothing else.           *)
LEMMA ActivatedRow ==
    ASSUME NEW r \in OpRow, NEW m
    PROVE  LET q == Activated(r, m)
           IN  /\ q.session = r.session /\ q.position = r.position /\ q.outcome = r.outcome
               /\ q.manifest = m /\ q.phase = "need_decision"
  BY DEF Activated, OpRow

(* The terminal write keeps the place of the operation.                      *)
LEMMA EndedRow ==
    ASSUME NEW r \in OpRow, NEW p, NEW x, NEW c
    PROVE  LET q == Ended(r, p, x, c)
           IN  /\ q.session = r.session /\ q.position = r.position /\ q.manifest = r.manifest
               /\ q.phase = p /\ q.outcome = x
  BY DEF Ended, OpRow

(* A decision that continues keeps place and phase.                          *)
LEMMA ContinuedRow ==
    ASSUME NEW r \in OpRow
    PROVE  KeepsPlace(Continued(r), r) /\ Continued(r).phase = r.phase
  BY DEF Continued, OpRow, KeepsPlace

(* A new batch keeps the place of its operation.                             *)
LEMMA WithBatchRow ==
    ASSUME NEW r \in OpRow, NEW b
    PROVE  KeepsPlace(WithBatch(r, b), r) /\ WithBatch(r, b).phase = "effect_intent"
  BY DEF WithBatch, OpRow, KeepsPlace

(* So does a dispatch.                                                       *)
LEMMA DispatchedRow ==
    ASSUME NEW r \in OpRow
    PROVE  KeepsPlace(Dispatched(r), r) /\ Dispatched(r).phase = "effect_dispatched"
  BY DEF Dispatched, OpRow, KeepsPlace

(* A finished batch leaves its operation blocked or to be decided.           *)
LEMMA FinishedBatchRow ==
    ASSUME NEW r \in OpRow, NEW b \in BOOLEAN
    PROVE  /\ KeepsPlace(FinishedBatch(r, b), r)
           /\ FinishedBatch(r, b).phase = IF b THEN "outcome_unknown" ELSE "need_decision"
  BY DEF FinishedBatch, OpRow, KeepsPlace

(* A child's completion moves its operation within the live phases.          *)
LEMMA AfterChildrenRow ==
    ASSUME TypeOK, NEW o \in Ops, NEW rows, op[o].phase \in Live
    PROVE  KeepsPlace(AfterChildren(rows, o), op[o]) /\ AfterChildren(rows, o).phase \in Live
  <1>1. op[o] \in OpRow
    BY DEF TypeOK
  <1>2. Some(rows, o, op[o].current, "outcome_unknown") \in BOOLEAN
    BY DEF Some
  <1>3. KeepsPlace(op[o], op[o])
    BY DEF KeepsPlace
  <1> QED BY <1>1, <1>2, <1>3, FinishedBatchRow DEF AfterChildren, Live
-----------------------------------------------------------------------------
(* The rows' side of a step of a turn: the caller's operation stays live in  *)
(* its place, and no other operation moves.                                  *)
RowsMove(w) ==
    LET o == worker[w].op
    IN  /\ op' # op => op[o].phase \in Live /\ op'[o].phase \in Live /\ KeepsPlace(op'[o], op[o])
        /\ \A p \in Ops : p # o => op'[p] = op[p]
        /\ UNCHANGED <<active, nextPos, cancel>>

(* The caller's side: it goes on with the same operation and runtime.        *)
CallerMoves(w) ==
    /\ worker[w].pc \in Driving \ {"bind"} /\ worker'[w].pc \in Driving \ {"bind"}
    /\ worker'[w].session = worker[w].session /\ worker'[w].op = worker[w].op
    /\ worker'[w].manifest = worker[w].manifest
    /\ \A v \in Workers : v # w => worker'[v] = worker[v]

(* A caller that is moved by an update of its own state.                     *)
LEMMA MovedCaller ==
    ASSUME TypeOK, NEW w \in Workers, NEW q, worker' = [worker EXCEPT ![w] = q],
           q.session = worker[w].session, q.op = worker[w].op, q.manifest = worker[w].manifest,
           worker[w].pc \in Driving \ {"bind"}, q.pc \in Driving \ {"bind"}
    PROVE  CallerMoves(w)
  BY DEF CallerMoves, TypeOK

(* Every update of a caller's state keeps the runtime it brought.            *)
LEMMA CallerManifest ==
    ASSUME NEW r \in WorkerState
    PROVE  /\ \A pc : At(r, pc).manifest = r.manifest
           /\ \A o, row, pc : Snapshot(r, o, row, pc).manifest = r.manifest
           /\ \A v, n, pc : ReadyToCommit(r, v, n, pc).manifest = r.manifest
           /\ \A es : Attempting(r, es).manifest = r.manifest
           /\ \A e : Spawned(r, e).manifest = r.manifest
           /\ \A d : Delivered(r, d).manifest = r.manifest
           /\ \A d, f : Received(r, d, f).manifest = r.manifest
  BY DEF At, Snapshot, ReadyToCommit, Attempting, Spawned, Delivered, Received, WorkerState

(* An operation row replaced by a live one in the same place.                *)
LEMMA MovedRow ==
    ASSUME TypeOK, NEW w \in Workers, worker[w].op \in Ops, NEW q,
           op' = [op EXCEPT ![worker[w].op] = q], op[worker[w].op].phase \in Live,
           q.phase \in Live, KeepsPlace(q, op[worker[w].op]), UNCHANGED <<active, nextPos, cancel>>
    PROVE  RowsMove(w)
  BY DEF RowsMove, TypeOK

(* A step that writes no operation.                                          *)
LEMMA UnmovedRows ==
    ASSUME NEW w \in Workers, UNCHANGED <<op, active, nextPos, cancel>>
    PROVE  RowsMove(w)
  BY DEF RowsMove

(* Places of a turn.                                                         *)
LEMMA DrivingPcs ==
    /\ {"bind", "check", "close", "step", "attempts", "reload"} \subseteq Pcs
    /\ {"check", "close", "step", "attempts", "reload"} \subseteq Driving \ {"bind"}
    /\ \A pc \in Driving : pc \notin {"idle", "activate", "abandon", "abandonCommit"}
  BY DEF Pcs, Driving

(* The steps of a turn that write no operation.                              *)
LEMMA ReadingGoesOn ==
    ASSUME IInv, NEW w \in Workers,
           \/ LoadActive(w) \/ NoCancellation(w) \/ YieldToCancellation(w)
           \/ \E e \in EffectIds : SpawnEffect(w, e)
           \/ \E d \in worker[w].inbox : LeaveForReplay(w, d)
    PROVE  RowsMove(w) /\ CallerMoves(w)
  <1> USE DrivingPcs
  <1>inv. TypeOK /\ Placed
    BY DEF IInv
  <1>1. worker[w] \in WorkerState /\ worker[w].finished \in BOOLEAN
    BY <1>inv, CallerFacts
  <1>2. RowsMove(w)
    BY UnmovedRows DEF LoadActive, NoCancellation, YieldToCancellation, SpawnEffect,
                       LeaveForReplay, durable
  <1>3. CASE LoadActive(w)
    <2>1. worker[w].pc = "reload" /\ worker[w].op \in Ops /\ op[worker[w].op] \in OpRow
      BY <1>inv, <1>3, CallerFacts DEF LoadActive
    <2> DEFINE q == Snapshot(worker[w], worker[w].op, op[worker[w].op], "check")
    <2>2. /\ q.session = worker[w].session /\ q.op = worker[w].op
          /\ q.manifest = worker[w].manifest /\ q.pc = "check"
      BY <1>1, <2>1, SnapshotOK, CallerManifest
    <2>3. worker' = [worker EXCEPT ![w] = q]
      BY <1>3 DEF LoadActive, Goto
    <2> HIDE DEF q
    <2> QED BY <1>inv, <1>2, <2>1, <2>2, <2>3, MovedCaller
  <1>4. CASE NoCancellation(w) \/ YieldToCancellation(w)
    <2>1. PICK pc \in {"step", "reload"} : worker' = [worker EXCEPT ![w] = At(worker[w], pc)]
      BY <1>4 DEF NoCancellation, YieldToCancellation, Goto
    <2> DEFINE q == At(worker[w], pc)
    <2>2. /\ q.session = worker[w].session /\ q.op = worker[w].op
          /\ q.manifest = worker[w].manifest /\ q.pc = pc
      <3>1. pc \in Pcs
        OBVIOUS
      <3> QED BY <1>1, <3>1, AtOK, CallerManifest, Zenon DEF SameCaller
    <2>3. worker[w].pc \in {"check", "step"}
      BY <1>4 DEF NoCancellation, YieldToCancellation
    <2> HIDE DEF q
    <2> QED BY <1>inv, <1>2, <2>1, <2>2, <2>3, MovedCaller DEF q
  <1>5. ASSUME NEW e \in EffectIds, SpawnEffect(w, e)
        PROVE  RowsMove(w) /\ CallerMoves(w)
    <2> DEFINE q == Spawned(worker[w], e)
    <2>1. /\ q.session = worker[w].session /\ q.op = worker[w].op
          /\ q.manifest = worker[w].manifest /\ q.pc = worker[w].pc
      BY <1>1, SpawnedOK, CallerManifest
    <2>2. worker' = [worker EXCEPT ![w] = q] /\ worker[w].pc = "attempts"
      BY <1>5 DEF SpawnEffect, Goto
    <2> HIDE DEF q
    <2> QED BY <1>inv, <1>2, <2>1, <2>2, MovedCaller
  <1>6. ASSUME NEW d \in worker[w].inbox, LeaveForReplay(w, d)
        PROVE  RowsMove(w) /\ CallerMoves(w)
    <2> DEFINE q == Received(worker[w], d, worker[w].finished)
    <2>1. /\ q.session = worker[w].session /\ q.op = worker[w].op
          /\ q.manifest = worker[w].manifest /\ q.pc = worker[w].pc
      BY <1>1, ReceivedOK, CallerManifest
    <2>2. worker' = [worker EXCEPT ![w] = q] /\ worker[w].pc = "attempts"
      BY <1>6 DEF LeaveForReplay, Goto
    <2> HIDE DEF q
    <2> QED BY <1>inv, <1>2, <2>1, <2>2, MovedCaller
  <1> QED BY <1>3, <1>4, <1>5, <1>6

(* A turn's decision that continues, or asks for effects.                    *)
LEMMA DecidingGoesOn ==
    ASSUME IInv, NEW w \in Workers,
           \/ \E n \in 0..MaxAppend : DecideAppend(w, n)
           \/ \E r \in Batch : DecideEffects(w, r)
    PROVE  RowsMove(w) /\ CallerMoves(w)
  <1> DEFINE o == worker[w].op
             q == At(worker[w], "reload")
  <1>inv. TypeOK /\ Placed
    BY DEF IInv
  <1>1. MayDecide(w) /\ worker' = [worker EXCEPT ![w] = q] /\ UNCHANGED <<active, nextPos, cancel>>
    BY DEF DecideAppend, DecideEffects, Goto
  <1>2. worker[w].pc = "step" /\ op[o].phase = "need_decision"
    BY <1>1 DEF MayDecide
  <1>3. worker[w] \in WorkerState /\ o \in Ops /\ op[o] \in OpRow
    BY <1>inv, <1>2, CallerFacts
  <1>4. CallerMoves(w)
    <2>1. /\ q.session = worker[w].session /\ q.op = worker[w].op
          /\ q.manifest = worker[w].manifest /\ q.pc = "reload"
      BY <1>3, DrivingPcs, AtOK, CallerManifest DEF SameCaller
    <2> HIDE DEF q
    <2> QED BY <1>inv, <1>1, <1>2, <2>1, DrivingPcs, MovedCaller
  <1>5. ASSUME NEW b
        PROVE  /\ KeepsPlace(Continued(op[o]), op[o]) /\ Continued(op[o]).phase \in Live
               /\ KeepsPlace(WithBatch(op[o], b), op[o]) /\ WithBatch(op[o], b).phase \in Live
    BY <1>2, <1>3, ContinuedRow, WithBatchRow DEF Live
  <1>6. \/ op' = [op EXCEPT ![o] = Continued(op[o])]
        \/ op' = [op EXCEPT ![o] = WithBatch(op[o], op[o].next + 1)]
    BY DEF DecideAppend, DecideEffects
  <1>7. op[o].phase \in Live
    BY <1>2 DEF Live
  <1> QED BY <1>inv, <1>1, <1>3, <1>4, <1>5, <1>6, <1>7, MovedRow

(* A dispatch, or an attempt that needs none.                                *)
LEMMA PreparingGoesOn ==
    ASSUME IInv, NEW w \in Workers, PrepareEffectBatch(w) \/ FinishWithoutInvocations(w)
    PROVE  RowsMove(w) /\ CallerMoves(w)
  <1> DEFINE o == worker[w].op
             blocked == Some(eff', o, op[o].current, "outcome_unknown")
  <1>inv. TypeOK /\ Placed
    BY DEF IInv
  <1>1. MayPrepare(w) /\ UNCHANGED <<active, nextPos, cancel>>
    BY DEF PrepareEffectBatch, FinishWithoutInvocations
  <1>2. worker[w].pc = "step" /\ op[o].phase \in Live
    BY <1>1 DEF MayPrepare, Live
  <1>3. worker[w] \in WorkerState /\ o \in Ops /\ op[o] \in OpRow
    BY <1>inv, <1>2, CallerFacts
  <1>4. CallerMoves(w)
    <2>1. CASE PrepareEffectBatch(w)
      <3> DEFINE q == Attempting(worker[w], Dispatchable(o))
      <3>1. Dispatchable(o) \in SUBSET EffectIds
        BY DEF Dispatchable, Children
      <3>2. /\ q.session = worker[w].session /\ q.op = worker[w].op
            /\ q.manifest = worker[w].manifest /\ q.pc = "attempts"
        BY <1>3, <3>1, AttemptingOK, CallerManifest
      <3>3. worker' = [worker EXCEPT ![w] = q]
        BY <2>1 DEF PrepareEffectBatch, Goto
      <3> HIDE DEF q
      <3> QED BY <1>inv, <1>2, <3>2, <3>3, DrivingPcs, MovedCaller
    <2>2. CASE FinishWithoutInvocations(w)
      <3> DEFINE q == At(worker[w], "reload")
      <3>1. /\ q.session = worker[w].session /\ q.op = worker[w].op
            /\ q.manifest = worker[w].manifest /\ q.pc = "reload"
        BY <1>3, DrivingPcs, AtOK, CallerManifest DEF SameCaller
      <3>2. worker' = [worker EXCEPT ![w] = q]
        BY <2>2 DEF FinishWithoutInvocations, Goto
      <3> HIDE DEF q
      <3> QED BY <1>inv, <1>2, <3>1, <3>2, DrivingPcs, MovedCaller
    <2> QED BY <2>1, <2>2
  <1>5. \/ op' = [op EXCEPT ![o] = Dispatched(op[o])]
        \/ op' = [op EXCEPT ![o] = FinishedBatch(op[o], blocked)]
    BY DEF PrepareEffectBatch, FinishWithoutInvocations
  <1>6. blocked \in BOOLEAN
    BY DEF Some
  <1>7. /\ KeepsPlace(Dispatched(op[o]), op[o]) /\ Dispatched(op[o]).phase \in Live
        /\ KeepsPlace(FinishedBatch(op[o], blocked), op[o])
        /\ FinishedBatch(op[o], blocked).phase \in Live
    <2> HIDE DEF blocked
    <2> QED BY <1>3, <1>6, DispatchedRow, FinishedBatchRow DEF Live
  <1> HIDE DEF blocked
  <1> QED BY <1>inv, <1>1, <1>2, <1>3, <1>4, <1>5, <1>7, MovedRow

(* A completion received, an attempt finished, a batch closed.               *)
LEMMA CompletingGoesOn ==
    ASSUME IInv, NEW w \in Workers,
           \/ \E d \in worker[w].inbox : SettleBatchEffect(w, d) \/ RecordBatchEffectUnknown(w, d)
           \/ FinishEffectBatchAttempt(w)
           \/ LoadCancellation(w)
    PROVE  RowsMove(w) /\ CallerMoves(w)
  <1> DEFINE o == worker[w].op
  <1>inv. TypeOK /\ Placed
    BY DEF IInv
  <1>1. worker[w].pc \in {"attempts", "check"} /\ UNCHANGED <<active, nextPos, cancel>>
    BY DEF SettleBatchEffect, RecordBatchEffectUnknown, Receive, FinishEffectBatchAttempt,
           AttemptsDone, LoadCancellation
  <1>2. worker[w] \in WorkerState /\ o \in Ops /\ op[o] \in OpRow
        /\ worker[w].finished \in BOOLEAN /\ worker[w].session \in Sessions
    BY <1>inv, <1>1, CallerFacts
  <1>3. RowsMove(w)
    <2>1. \/ op' = op
          \/ /\ \/ op' = [op EXCEPT ![o] = AfterChildren(eff', o)]
                \/ op' = [op EXCEPT ![o] = AfterChildren(eff, o)]
             /\ op[o].phase = "effect_dispatched"
      BY DEF SettleBatchEffect, RecordBatchEffectUnknown, Receive, MayRecord,
             FinishEffectBatchAttempt, LoadCancellation
    <2>2. CASE op' = op
      BY <1>1, <2>2, UnmovedRows
    <2>3. ASSUME NEW rows, op' = [op EXCEPT ![o] = AfterChildren(rows, o)],
                 op[o].phase = "effect_dispatched"
          PROVE  RowsMove(w)
      <3>1. op[o].phase \in Live
        BY <2>3 DEF Live
      <3>2. KeepsPlace(AfterChildren(rows, o), op[o]) /\ AfterChildren(rows, o).phase \in Live
        BY <1>inv, <1>2, <3>1, AfterChildrenRow
      <3> QED BY <1>inv, <1>1, <1>2, <2>3, <3>1, <3>2, MovedRow
    <2> QED BY <2>1, <2>2, <2>3
  <1>4. CASE \E d \in worker[w].inbox : SettleBatchEffect(w, d) \/ RecordBatchEffectUnknown(w, d)
    <2>1. PICK d \in worker[w].inbox, f \in BOOLEAN :
             worker' = [worker EXCEPT ![w] = Received(worker[w], d, f)] /\ worker[w].pc = "attempts"
      BY <1>4 DEF SettleBatchEffect, RecordBatchEffectUnknown, Receive, Goto
    <2> DEFINE q == Received(worker[w], d, f)
    <2>2. /\ q.session = worker[w].session /\ q.op = worker[w].op
          /\ q.manifest = worker[w].manifest /\ q.pc = worker[w].pc
      BY <1>2, ReceivedOK, CallerManifest
    <2>3. worker' = [worker EXCEPT ![w] = q]
      BY <2>1
    <2> HIDE DEF q
    <2> QED BY <1>inv, <1>3, <2>1, <2>2, <2>3, DrivingPcs, MovedCaller
  <1>5. CASE FinishEffectBatchAttempt(w)
    <2> DEFINE q == At(worker[w], "reload")
    <2>1. /\ q.session = worker[w].session /\ q.op = worker[w].op
          /\ q.manifest = worker[w].manifest /\ q.pc = "reload"
      BY <1>2, DrivingPcs, AtOK, CallerManifest DEF SameCaller
    <2>2. worker' = [worker EXCEPT ![w] = q]
      BY <1>5 DEF FinishEffectBatchAttempt, Goto
    <2> HIDE DEF q
    <2> QED BY <1>inv, <1>1, <1>3, <2>1, <2>2, DrivingPcs, MovedCaller
  <1>6. CASE LoadCancellation(w)
    <2> DEFINE q == ReadyToCommit(worker[w], op'[o].version, nextSeq[worker[w].session], "close")
    <2>1. worker' = [worker EXCEPT ![w] = q]
      BY <1>6 DEF LoadCancellation, Goto
    <2>2. q.session = worker[w].session /\ q.op = worker[w].op /\ q.pc = "close"
      BY <1>2 DEF ReadyToCommit, WorkerState
    <2>3. q.manifest = worker[w].manifest
      BY <1>2, CallerManifest
    <2> HIDE DEF q
    <2> QED BY <1>inv, <1>1, <1>3, <2>1, <2>2, <2>3, DrivingPcs, MovedCaller
  <1> QED BY <1>4, <1>5, <1>6
-----------------------------------------------------------------------------
(* Steps that write no operation: each caller stays where it was, returns,   *)
(* or is the one that moves.                                                 *)
LEMMA StandingStep ==
    ASSUME SInv, UNCHANGED <<op, active, nextPos>>,
           \A v \in Workers : \/ worker'[v].pc = "idle"
                              \/ /\ worker'[v].pc = worker[v].pc /\ worker'[v].op = worker[v].op
                                 /\ worker'[v].session = worker[v].session
                                 /\ worker'[v].manifest = worker[v].manifest
                              \/ CallerStands(v)'
    PROVE  SInv'
  <1>1. RowsInv'
    BY DEF SInv, RowsInv, ActiveIsLive, OutcomesAgree, PositionsIssued, RuntimeRecorded,
           AdmissionOrder
  <1>2. CallersInv'
    <2> SUFFICES ASSUME NEW v \in Workers PROVE CallerStands(v)'
      BY DEF CallersInv
    <2>1. CallerStands(v)
      BY DEF SInv, CallersInv
    <2> QED BY <2>1 DEF CallerStands, Owns, Driving
  <1> QED BY <1>1, <1>2 DEF SInv

(* A caller that goes on with the session's live operation.                  *)
LEMMA GoingOnStep ==
    ASSUME IInv, SInv, TypeOK', NEW w \in Workers, RowsMove(w), CallerMoves(w)
    PROVE  SInv'
  <1> DEFINE o == worker[w].op
  <1>inv. TypeOK /\ Placed /\ TypeOK'
    BY DEF IInv
  <1>1. o \in Ops
    BY <1>inv, CallerFacts, DrivingPcs DEF CallerMoves
  <1>2. \A p \in Ops : /\ op'[p] = op[p] \/ (op[p].phase \in Live /\ op'[p].phase \in Live)
                       /\ KeepsPlace(op'[p], op[p])
    BY <1>1 DEF RowsMove, KeepsPlace
  <1>3. RowsInv'
    <2>1. ActiveIsLive' /\ RuntimeRecorded'
      BY <1>inv, <1>2 DEF SInv, RowsInv, ActiveIsLive, RuntimeRecorded, RowsMove, KeepsPlace, TypeOK
    <2>2. OutcomesAgree' /\ PositionsIssued'
      BY <1>2 DEF SInv, RowsInv, OutcomesAgree, PositionsIssued, RowsMove, KeepsPlace, Live, Terminal
    <2>3. AdmissionOrder'
      BY <1>2 DEF SInv, RowsInv, AdmissionOrder, KeepsPlace, Live
    <2> QED BY <2>1, <2>2, <2>3 DEF RowsInv
  <1>4. ASSUME NEW v \in Workers PROVE CallerStands(v)'
    <2>1. CallerStands(v)
      BY DEF SInv, CallersInv
    <2>2. /\ worker'[v].session = worker[v].session /\ worker'[v].op = worker[v].op
          /\ worker'[v].manifest = worker[v].manifest
          /\ worker'[v].pc = worker[v].pc \/ {worker[v].pc, worker'[v].pc} \subseteq Driving \ {"bind"}
      BY DEF CallerMoves
    <2>3. worker[v].pc \notin {"idle", "activate"} => worker[v].op \in Ops
      BY <1>inv, CallerFacts
    <2> QED BY <1>2, <2>1, <2>2, <2>3 DEF CallerStands, Owns, RowsMove, KeepsPlace, Driving, Pcs
  <1> QED BY <1>3, <1>4 DEF SInv, CallersInv

(* Two callers have two sessions, and so two operations.                     *)
LEMMA OtherCaller ==
    ASSUME IInv, NEW w \in Workers, NEW v \in Workers, v # w, worker[v].pc # "idle",
           worker[w].pc # "idle"
    PROVE  /\ worker[v].session # worker[w].session
           /\ \A o \in Ops : worker[v].pc # "activate" /\ op[o].session = worker[w].session =>
                               worker[v].op # o /\ worker[v].op \in Ops
  BY DEF IInv, OneWorker, Placed

(* The caller ends the session's live operation and returns.                 *)
LEMMA EndingStep ==
    ASSUME IInv, SInv, TypeOK', NEW w \in Workers, worker[w].pc \notin {"idle", "activate"},
           active[worker[w].session] = worker[w].op, op[worker[w].op].phase \in Live,
           NEW p \in Terminal, NEW x \in Outcomes \ {"none"}, NEW c,
           FinishOperation(worker[w].op, p, x, c), Return(w), UNCHANGED nextPos
    PROVE  SInv'
  <1> DEFINE o == worker[w].op
  <1>inv. TypeOK /\ Placed
    BY DEF IInv
  <1>1. o \in Ops /\ op[o] \in OpRow /\ op[o].session = worker[w].session
        /\ worker[w].session \in Sessions
    BY <1>inv, CallerFacts
  <1>2. /\ op'[o].session = op[o].session /\ op'[o].position = op[o].position
        /\ op'[o].manifest = op[o].manifest /\ op'[o].phase = p /\ op'[o].outcome = x
        /\ \A q \in Ops : q # o => op'[q] = op[q]
    <2>1. op' = [op EXCEPT ![o] = Ended(op[o], p, x, c)]
      BY DEF FinishOperation
    <2>2. LET q == Ended(op[o], p, x, c)
          IN  /\ q.session = op[o].session /\ q.position = op[o].position
              /\ q.manifest = op[o].manifest /\ q.phase = p /\ q.outcome = x
      BY <1>1, EndedRow
    <2> QED BY <1>inv, <1>1, <2>1, <2>2 DEF TypeOK
  <1>3. /\ active'[op[o].session] = Null
        /\ \A s \in Sessions : s # op[o].session => active'[s] = active[s]
    BY <1>inv, <1>1 DEF FinishOperation, TypeOK
  <1>4. \A q \in Ops : op[q].phase \in Live => op[q].session \in Sessions /\ active[op[q].session] = q
    BY <1>inv DEF SInv, RowsInv, ActiveIsLive, IInv, RowsAgree, TypeOK, OpRow, Live
  <1>5. p \notin Live /\ \A q \in Live : q \notin Terminal
    BY DEF Live, Terminal
  <1>6. RowsInv'
    <2>1. ActiveIsLive'
      <3>1. ASSUME NEW s \in Sessions, active'[s] # Null PROVE op'[active'[s]].phase \in Live
        <4>1. s # op[o].session /\ active'[s] = active[s]
          BY <3>1, <1>3
        <4>2. active[s] # o /\ active[s] \in Ops /\ op[active[s]].phase \in Live
          BY <1>inv, <3>1, <4>1 DEF IInv, RowsAgree, TypeOK, SInv, RowsInv, ActiveIsLive
        <4> QED BY <1>2, <4>1, <4>2
      <3>2. ASSUME NEW q \in Ops, op'[q].phase \in Live PROVE active'[op'[q].session] = q
        <4>1. q # o /\ op'[q] = op[q]
          BY <1>2, <1>5, <3>2
        <4>2. active[op[q].session] = q /\ op[q].session \in Sessions /\ op[q].session # op[o].session
          BY <1>4, <3>2, <4>1, <1>1
        <4> QED BY <1>3, <4>1, <4>2
      <3> QED BY <3>1, <3>2 DEF ActiveIsLive
    <2>2. OutcomesAgree' /\ PositionsIssued' /\ RuntimeRecorded'
      BY <1>2, <1>5 DEF SInv, RowsInv, OutcomesAgree, PositionsIssued, RuntimeRecorded
    <2>3. AdmissionOrder'
      <3>1. ASSUME NEW q \in Ops
            PROVE  /\ op'[q].session = op[q].session /\ op'[q].position = op[q].position
                   /\ op'[q].phase \notin {"absent", "queued"} => op[q].phase \notin {"absent", "queued"}
                   /\ op[q].outcome # "none" => op'[q].outcome # "none"
        BY <1>2 DEF Live
      <3> QED BY <3>1 DEF SInv, RowsInv, AdmissionOrder
    <2> QED BY <2>1, <2>2, <2>3 DEF RowsInv
  <1>7. ASSUME NEW v \in Workers PROVE CallerStands(v)'
    <2>1. CASE v = w
      <3>1. worker'[v].pc = "idle"
        BY <1>inv, <2>1, IdleOK DEF Return, TypeOK
      <3> QED BY <3>1 DEF CallerStands, Driving
    <2>2. CASE v # w
      <3>1. worker'[v] = worker[v] /\ CallerStands(v)
        BY <1>inv, <2>2 DEF Return, TypeOK, SInv, CallersInv
      <3>2. worker[v].pc # "idle" => /\ worker[v].session \in Sessions
                                     /\ worker[v].session # op[o].session
                                     /\ worker[v].pc # "activate" => worker[v].op # o /\ worker[v].op \in Ops
        BY <1>inv, <1>1, <2>2, OtherCaller, CallerFacts
      <3> QED BY <1>2, <1>3, <3>1, <3>2 DEF CallerStands, Owns, Driving
    <2> QED BY <2>1, <2>2
  <1> QED BY <1>6, <1>7 DEF SInv, CallersInv
-----------------------------------------------------------------------------
(* Admission gives the operation the next position of its session.           *)
LEMMA AdmittedStep ==
    ASSUME IInv, SInv, TypeOK', NEW o \in Ops, NEW s \in Sessions, Admit(o, s)
    PROVE  SInv'
  <1>inv. TypeOK /\ Placed /\ RowsAgree
    BY DEF IInv
  <1>1. /\ op[o].phase = "absent" /\ op[o].session = Null /\ s # Null
        /\ UNCHANGED <<active, worker>> /\ nextPos[s] \in Nat
        /\ nextPos'[s] = nextPos[s] + 1 /\ \A r \in Sessions : r # s => nextPos'[r] = nextPos[r]
    BY <1>inv, NullAssumption DEF Admit, RowsAgree, TypeOK, volatile
  <1>2. /\ op'[o].session = s /\ op'[o].position = nextPos[s] /\ op'[o].phase = "queued"
        /\ op'[o].outcome = "none" /\ \A p \in Ops : p # o => op'[p] = op[p]
    BY <1>inv DEF Admit, TypeOK, NewRow, NoRow
  <1>3. \A p \in Ops : /\ op[p].position \in Nat
                       /\ op[p].session # Null => /\ op[p].session \in Sessions /\ p # o
                                                  /\ op[p].position < nextPos[op[p].session]
                                                  /\ nextPos[op[p].session] \in Nat
    BY <1>inv, <1>1 DEF TypeOK, OpRow, SInv, RowsInv, PositionsIssued
  <1>4. ActiveIsLive' /\ OutcomesAgree' /\ RuntimeRecorded'
    <2>1. \A r \in Sessions : active[r] # Null => active[r] \in Ops /\ active[r] # o
      BY <1>inv, <1>1 DEF SInv, RowsInv, ActiveIsLive, Live, TypeOK
    <2>2. ActiveIsLive'
      BY <1>1, <1>2, <2>1 DEF SInv, RowsInv, ActiveIsLive, Live
    <2>3. OutcomesAgree' /\ RuntimeRecorded'
      BY <1>2 DEF SInv, RowsInv, OutcomesAgree, RuntimeRecorded, Live, Terminal
    <2> QED BY <2>2, <2>3
  <1>5. PositionsIssued'
    <2> SUFFICES ASSUME NEW p \in Ops, op'[p].session # Null
                 PROVE  /\ op'[p].position < nextPos'[op'[p].session]
                        /\ \A q \in Ops \ {p} : op'[q].session = op'[p].session =>
                                                  op'[q].position # op'[p].position
      BY DEF PositionsIssued
    <2>1. CASE p = o
      BY <1>1, <1>2, <1>3, <2>1
    <2>2. CASE p # o
      BY <1>1, <1>2, <1>3, <2>2 DEF SInv, RowsInv, PositionsIssued
    <2> QED BY <2>1, <2>2
  <1>6. AdmissionOrder'
    <2> SUFFICES ASSUME NEW p \in Ops, NEW q \in Ops, op'[p].phase \notin {"absent", "queued"},
                        op'[p].session = op'[q].session, op'[q].position < op'[p].position
                 PROVE  op'[q].outcome # "none"
      BY DEF AdmissionOrder
    <2>1. p # o /\ op'[p] = op[p]
      BY <1>2
    <2>2. op[p].session # Null
      BY <1>inv, <2>1 DEF RowsAgree
    <2>3. q # o
      BY <1>2, <1>3, <2>1, <2>2
    <2> QED BY <1>2, <2>1, <2>3 DEF SInv, RowsInv, AdmissionOrder
  <1>7. ASSUME NEW v \in Workers PROVE CallerStands(v)'
    <2>1. worker[v].pc \notin {"idle", "activate"} => worker[v].op \in Ops \ {o}
      BY <1>inv, <1>1 DEF Placed
    <2> QED BY <1>1, <1>2, <2>1 DEF SInv, CallersInv, CallerStands, Owns, Driving
  <1> QED BY <1>4, <1>5, <1>6, <1>7 DEF SInv, RowsInv, CallersInv

(* Activation takes the oldest queued operation of a session without a live  *)
(* one, so every earlier one has its outcome.                                *)
LEMMA ActivatingStep ==
    ASSUME IInv, SInv, TypeOK', NEW w \in Workers, NEW o \in Ops, ActivateNext(w, o)
    PROVE  SInv'
  <1> DEFINE s == worker[w].session
             m == worker[w].manifest
  <1>inv. TypeOK /\ Placed /\ RowsAgree
    BY DEF IInv
  <1>1. /\ worker[w].pc = "activate" /\ active[s] = Null /\ NextQueued(s, o) /\ s \in Sessions
        /\ worker[w] \in WorkerState /\ m \in Manifests /\ op[o] \in OpRow
        /\ op[o].session = s /\ op[o].phase = "queued" /\ UNCHANGED nextPos
    BY <1>inv, CallerFacts DEF ActivateNext, NextQueued, Queued, SInv, CallersInv, CallerStands, TypeOK
  <1>2. /\ op'[o].session = s /\ op'[o].position = op[o].position /\ op'[o].outcome = op[o].outcome
        /\ op'[o].manifest = m /\ op'[o].phase = "need_decision"
        /\ \A p \in Ops : p # o => op'[p] = op[p]
    <2>1. op' = [op EXCEPT ![o] = Activated(op[o], m)]
      BY DEF ActivateNext
    <2>2. LET q == Activated(op[o], m)
          IN  /\ q.session = op[o].session /\ q.position = op[o].position
              /\ q.outcome = op[o].outcome /\ q.manifest = m /\ q.phase = "need_decision"
      BY <1>1, ActivatedRow
    <2> HIDE DEF m
    <2> QED BY <1>inv, <1>1, <2>1, <2>2 DEF TypeOK
  <1>3. active'[s] = o /\ \A r \in Sessions : r # s => active'[r] = active[r]
    BY <1>inv, <1>1 DEF ActivateNext, TypeOK
  <1>4. /\ worker'[w].pc = "bind" /\ worker'[w].session = s /\ worker'[w].op = o
        /\ worker'[w].manifest = m /\ \A v \in Workers : v # w => worker'[v] = worker[v]
    <2> DEFINE q == Snapshot(worker[w], o, op'[o], "bind")
    <2>1. op'[o] \in OpRow
      BY DEF TypeOK
    <2>2. q.pc = "bind" /\ q.op = o /\ q.session = s /\ q.manifest = m
      BY <1>1, <2>1, SnapshotOK, DrivingPcs, CallerManifest
    <2>3. worker' = [worker EXCEPT ![w] = q]
      BY DEF ActivateNext, Goto
    <2> HIDE DEF q, s, m
    <2> QED BY <1>inv, <2>2, <2>3 DEF TypeOK
  <1>5. \A p \in Ops : op[p].phase \in Live => op[p].session # s /\ op[p].session \in Sessions
    BY <1>inv, <1>1, NullAssumption DEF SInv, RowsInv, ActiveIsLive, RowsAgree, TypeOK, OpRow, Live
  <1> HIDE DEF s, m
  <1>6. ActiveIsLive'
    <2>1. ASSUME NEW r \in Sessions, active'[r] # Null PROVE op'[active'[r]].phase \in Live
      <3>1. CASE r = s
        BY <1>2, <1>3, <3>1 DEF Live
      <3>2. CASE r # s
        <4>1. active[r] \in Ops /\ op[active[r]].phase \in Live /\ active[r] # o
          BY <1>inv, <1>1, <1>3, <2>1, <3>2 DEF TypeOK, RowsAgree, SInv, RowsInv, ActiveIsLive
        <4> QED BY <1>2, <1>3, <3>2, <4>1
      <3> QED BY <3>1, <3>2
    <2>2. ASSUME NEW p \in Ops, op'[p].phase \in Live PROVE active'[op'[p].session] = p
      BY <1>2, <1>3, <1>5, <2>2 DEF SInv, RowsInv, ActiveIsLive
    <2> QED BY <2>1, <2>2 DEF ActiveIsLive
  <1>7. OutcomesAgree' /\ PositionsIssued' /\ RuntimeRecorded'
    BY <1>1, <1>2 DEF SInv, RowsInv, OutcomesAgree, PositionsIssued, RuntimeRecorded, Terminal, Live
  <1>8. AdmissionOrder'
    <2> SUFFICES ASSUME NEW p \in Ops, NEW q \in Ops, op'[p].phase \notin {"absent", "queued"},
                        op'[p].session = op'[q].session, op'[q].position < op'[p].position
                 PROVE  op'[q].outcome # "none"
      BY DEF AdmissionOrder
    <2>pos. op[p].position \in Nat /\ op[q].position \in Nat /\ op[o].position \in Nat
      BY <1>inv DEF TypeOK, OpRow
    <2>1. CASE p = o
      <3>1. q # o /\ op'[q] = op[q] /\ op[q].session = s /\ op[q].position < op[o].position
        BY <1>2, <2>1, <2>pos
      <3>2. op[q].phase # "queued"
        BY <1>1, <3>1, <2>pos DEF NextQueued, Queued
      <3>3. op[q].phase # "absent" /\ op[q].phase \in Phases
        BY <1>inv, <1>1, <3>1, NullAssumption DEF RowsAgree, TypeOK, OpRow
      <3>4. op[q].phase \notin Live
        BY <1>5, <3>1
      <3> QED BY <3>1, <3>2, <3>3, <3>4 DEF SInv, RowsInv, OutcomesAgree, Phases
    <2>2. CASE p # o
      BY <1>1, <1>2, <2>2 DEF SInv, RowsInv, AdmissionOrder
    <2> QED BY <2>1, <2>2
  <1>9. ASSUME NEW v \in Workers PROVE CallerStands(v)'
    <2>1. CASE v = w
      BY <1>1, <1>2, <1>3, <1>4, <2>1 DEF CallerStands, Owns
    <2>2. CASE v # w
      <3>1. worker'[v] = worker[v] /\ CallerStands(v)
        BY <1>4, <2>2 DEF SInv, CallersInv
      <3>2. worker[v].pc # "idle" => /\ worker[v].session \in Sessions
                                     /\ worker[v].session # s
                                     /\ worker[v].pc # "activate" => worker[v].op # o /\ worker[v].op \in Ops
        BY <1>inv, <1>1, <2>2, OtherCaller, CallerFacts DEF s
      <3> QED BY <1>2, <1>3, <3>1, <3>2 DEF CallerStands, Owns, Driving
    <2> QED BY <2>1, <2>2
  <1> QED BY <1>6, <1>7, <1>8, <1>9 DEF SInv, RowsInv, CallersInv
-----------------------------------------------------------------------------
(* The caller takes the lease under the runtime it brings.                   *)
LEMMA StartingManifest ==
    ASSUME NEW pc, NEW s, NEW o, NEW m
    PROVE  Starting(pc, s, o, m).manifest = m /\ Starting(pc, s, o, m).pc = pc
  BY DEF Starting, IdleWorker

(* The steps that write no operation and are not part of a turn.             *)
LEMMA StandingSteps ==
    ASSUME IInv, SInv,
           \/ UNCHANGED vars
           \/ \E i \in CancelIds, o \in Ops : RequestCancellation(i, o)
           \/ \E i \in CancelIds : RetryCancellation(i)
           \/ \E o \in Ops : SignalRunningOperation(o)
           \/ \E t \in tasks, r \in {"settled", "unknown"} : AdapterResolves(t, r)
           \/ Crash
           \/ \E w \in Workers : \/ DriveIdle(w) \/ DriveBlocked(w) \/ NothingToAbandon(w)
                                 \/ AbandonRefused(w) \/ DriveEnds(w)
    PROVE  SInv'
  <1> DEFINE Same(v) == /\ worker'[v].pc = worker[v].pc /\ worker'[v].op = worker[v].op
                        /\ worker'[v].session = worker[v].session
                        /\ worker'[v].manifest = worker[v].manifest
  <1>inv. TypeOK /\ Placed
    BY DEF IInv
  <1>1. UNCHANGED <<op, active, nextPos>>
    BY Zenon DEF vars, RequestCancellation, RetryCancellation, SignalRunningOperation, AdapterResolves,
                 Crash, DriveIdle, DriveBlocked, NothingToAbandon, AbandonRefused, DriveEnds, durable
  <1>2. CASE \/ UNCHANGED vars
             \/ \E i \in CancelIds, o \in Ops : RequestCancellation(i, o)
             \/ \E i \in CancelIds : RetryCancellation(i)
             \/ \E o \in Ops : SignalRunningOperation(o)
    <2>1. worker' = worker
      BY <1>2, Zenon DEF vars, RequestCancellation, RetryCancellation, SignalRunningOperation
    <2> QED BY <1>1, <2>1, StandingStep
  <1>3. ASSUME NEW t \in tasks, NEW r \in {"settled", "unknown"}, AdapterResolves(t, r)
        PROVE  SInv'
    <2> DEFINE d == [effect |-> t.effect, attempt |-> t.attempt, result |-> r]
    <2>1. d \in Completion
      BY <1>inv DEF TypeOK, Task, Completion
    <2>2. \/ worker' = worker
          \/ t.owner \in Workers /\ worker' = [worker EXCEPT ![t.owner] = Delivered(@, d)]
      BY <1>inv, <1>3, TaskFacts DEF AdapterResolves
    <2>3. \A v \in Workers : LET q == Delivered(worker[v], d)
                             IN  /\ q.pc = worker[v].pc /\ q.session = worker[v].session
                                 /\ q.op = worker[v].op /\ q.manifest = worker[v].manifest
      BY <1>inv, <2>1, CallerFacts, DeliveredOK, CallerManifest
    <2> HIDE DEF d
    <2>4. \A v \in Workers : Same(v)
      BY <1>inv, <2>2, <2>3 DEF TypeOK
    <2> QED BY <1>1, <2>4, StandingStep
  <1>4. CASE Crash
    <2>1. \A v \in Workers : worker'[v].pc = "idle"
      BY <1>4, IdleOK DEF Crash
    <2> QED BY <1>1, <2>1, StandingStep
  <1>5. ASSUME NEW w \in Workers,
               \/ DriveIdle(w) \/ DriveBlocked(w) \/ NothingToAbandon(w)
               \/ AbandonRefused(w) \/ DriveEnds(w)
        PROVE  SInv'
    <2>1. Return(w)
      BY <1>5 DEF DriveIdle, DriveBlocked, NothingToAbandon, AbandonRefused, DriveEnds
    <2>2. \A v \in Workers : worker'[v].pc = "idle" \/ Same(v)
      BY <1>inv, <2>1, IdleOK DEF Return, TypeOK
    <2> QED BY <1>1, <2>2, StandingStep
  <1> QED BY <1>2, <1>3, <1>4, <1>5, Zenon

(* The steps that bring one caller to a new stand.                           *)
LEMMA StandTakingSteps ==
    ASSUME IInv, SInv, NEW w \in Workers,
           \/ \E s \in Sessions, m \in Manifests : Drive(w, s, m)
           \/ \E o \in Ops, m \in Manifests : Abandon(w, o, m)
           \/ ActivateOwned(w) \/ Bind(w) \/ LoadPendingAbandonment(w)
    PROVE  SInv'
  <1>inv. TypeOK /\ Placed /\ RowsAgree
    BY DEF IInv
  <1>1. UNCHANGED <<op, active, nextPos>>
    BY Zenon DEF Drive, Abandon, ActivateOwned, Bind, LoadPendingAbandonment, durable
  <1>2. worker[w] \in WorkerState /\ CallerStands(w)
    BY <1>inv, CallerFacts DEF SInv, CallersInv
  <1>3. SUFFICES /\ worker'[w].pc = "idle" \/ CallerStands(w)'
                 /\ \A v \in Workers : v # w => worker'[v] = worker[v]
    BY <1>1, StandingStep
  <1>4. \A v \in Workers : v # w => worker'[v] = worker[v]
    BY <1>inv, Zenon DEF Drive, Abandon, Acquire, ActivateOwned, Bind, Return, LoadPendingAbandonment,
                         Goto, TypeOK
  <1>5. ASSUME NEW s, NEW o, NEW m \in Manifests, NEW pc \in {"activate", "abandon"},
               Acquire(w, s, Starting(pc, s, o, m))
        PROVE  CallerStands(w)'
    <2>1. worker'[w].manifest = m /\ worker'[w].pc = pc
      BY <1>inv, <1>5, StartingManifest DEF Acquire, TypeOK
    <2> QED BY <2>1 DEF CallerStands, Driving
  <1>6. CASE \/ \E s \in Sessions, m \in Manifests : Drive(w, s, m)
             \/ \E o \in Ops, m \in Manifests : Abandon(w, o, m)
    BY <1>4, <1>5, <1>6 DEF Drive, Abandon
  <1>7. CASE ActivateOwned(w)
    <2> DEFINE o == active[worker[w].session]
               q == Snapshot(worker[w], o, op[o], "bind")
    <2>1. o \in Ops /\ op[o] \in OpRow /\ worker[w].pc = "activate"
          /\ worker' = [worker EXCEPT ![w] = q]
      BY <1>inv, <1>7, CallerFacts DEF ActivateOwned, TypeOK, Goto
    <2>2. q.pc = "bind" /\ q.op = o /\ q.session = worker[w].session /\ q.manifest = worker[w].manifest
      BY <1>2, <2>1, DrivingPcs, SnapshotOK, CallerManifest
    <2>3. worker'[w] = q
      BY <1>inv, <2>1 DEF TypeOK
    <2> HIDE DEF q
    <2> QED BY <1>1, <1>2, <1>4, <2>1, <2>2, <2>3 DEF CallerStands, Owns
  <1>8. CASE Bind(w)
    <2>1. CASE op[worker[w].op].manifest = worker[w].manifest
      <3> DEFINE q == At(worker[w], "check")
      <3>1. /\ q.pc = "check" /\ q.session = worker[w].session /\ q.op = worker[w].op
            /\ q.manifest = worker[w].manifest
        BY <1>2, DrivingPcs, AtOK, CallerManifest DEF SameCaller
      <3>2. worker'[w] = q /\ worker[w].pc = "bind"
        BY <1>inv, <1>8, <2>1 DEF Bind, TypeOK
      <3> HIDE DEF q
      <3> QED BY <1>1, <1>2, <1>4, <2>1, <3>1, <3>2 DEF CallerStands, Owns, Driving
    <2>2. CASE op[worker[w].op].manifest # worker[w].manifest
      <3>1. worker'[w].pc = "idle"
        BY <1>inv, <1>8, <2>2, IdleOK DEF Bind, Return, TypeOK
      <3> QED BY <1>4, <3>1
    <2> QED BY <2>1, <2>2
  <1>9. CASE LoadPendingAbandonment(w)
    <2> DEFINE o == worker[w].op
               q == ReadyToCommit(worker[w], op[o].version, nextSeq[worker[w].session],
                                  "abandonCommit")
    <2>1. worker[w].pc = "abandon" /\ op[o].manifest = worker[w].manifest
          /\ worker' = [worker EXCEPT ![w] = q]
      BY <1>9 DEF LoadPendingAbandonment, Goto
    <2>2. /\ q.pc = "abandonCommit" /\ q.session = worker[w].session /\ q.op = worker[w].op
          /\ q.manifest = worker[w].manifest
      BY <1>2 DEF ReadyToCommit, WorkerState
    <2>3. worker'[w] = q
      BY <1>inv, <2>1 DEF TypeOK
    <2> HIDE DEF q
    <2> QED BY <1>1, <1>2, <1>4, <2>1, <2>2, <2>3 DEF CallerStands, Owns, Driving
  <1> QED BY <1>6, <1>7, <1>8, <1>9

(* The terminal writes.                                                      *)
LEMMA EndingSteps ==
    ASSUME IInv, SInv, TypeOK', NEW w \in Workers, NEW n \in 0..MaxAppend,
           \/ CommitCancellation(w, n) \/ CommitAbandonment(w, n)
           \/ \E p \in Terminal \ {"cancelled"} : DecideFinish(w, p, n)
    PROVE  SInv'
  <1> DEFINE o == worker[w].op
  <1>1. worker[w].pc \in {"close", "abandonCommit", "step"} /\ op[o].phase \in Live
        /\ Return(w) /\ UNCHANGED nextPos
    BY DEF CommitCancellation, CommitAbandonment, DecideFinish, MayDecide, IsCancellable, Live
  <1>2. active[worker[w].session] = o
    BY DEF CommitCancellation, CommitAbandonment, DecideFinish, MayDecide, SInv, CallersInv,
           CallerStands, Owns, Driving
  <1>3. \/ FinishOperation(o, "cancelled", "cancelled", 0)
        \/ FinishOperation(o, "failed", "abandoned", 0)
        \/ \E p \in Terminal \ {"cancelled"} : FinishOperation(o, p, p, op[o].current)
    BY Zenon DEF CommitCancellation, CommitAbandonment, DecideFinish
  <1>4. {"cancelled", "failed"} \subseteq Terminal
        /\ {"cancelled", "abandoned"} \cup Terminal \subseteq Outcomes \ {"none"}
    BY DEF Terminal, Outcomes
  <1> HIDE DEF o
  <1>5. worker[w].pc \notin {"idle", "activate"}
    BY <1>1
  <1> QED BY <1>1, <1>2, <1>3, <1>4, <1>5, EndingStep DEF o
-----------------------------------------------------------------------------
(* It holds initially.                                                       *)
LEMMA InitSessions == Init => SInv
  <1> SUFFICES ASSUME Init PROVE SInv
    OBVIOUS
  <1>1. /\ \A o \in Ops : op[o].session = Null /\ op[o].phase = "absent" /\ op[o].outcome = "none"
        /\ \A w \in Workers : worker[w].pc = "idle"
        /\ \A s \in Sessions : active[s] = Null
    BY IdleOK DEF Init, NoRow
  <1>2. RowsInv
    BY <1>1 DEF RowsInv, ActiveIsLive, OutcomesAgree, PositionsIssued, RuntimeRecorded, AdmissionOrder,
                Live, Terminal
  <1>3. CallersInv
    BY <1>1 DEF CallersInv, CallerStands, Driving
  <1> QED BY <1>2, <1>3 DEF SInv

(* Every step keeps it.                                                      *)
LEMMA NextSessions == ASSUME IInv, SInv, [Next]_vars PROVE SInv'
  <1>type. TypeOK'
    BY NextType DEF IInv
  <1>1. ASSUME NEW o \in Ops, NEW s \in Sessions, Submit(o, s) \/ SubmitExclusive(o, s)
        PROVE  SInv'
    BY <1>1, <1>type, AdmittedStep, Zenon DEF Submit, SubmitExclusive
  <1>2. ASSUME NEW w \in Workers, DriveStep(w)
        PROVE  SInv'
    <2>1. CASE \/ LoadActive(w) \/ NoCancellation(w) \/ YieldToCancellation(w)
               \/ \E e \in EffectIds : SpawnEffect(w, e)
               \/ \E d \in worker[w].inbox : LeaveForReplay(w, d)
      BY <2>1, <1>type, ReadingGoesOn, GoingOnStep
    <2>2. CASE \/ \E n \in 0..MaxAppend : DecideAppend(w, n)
               \/ \E r \in Batch : DecideEffects(w, r)
               \/ PrepareEffectBatch(w) \/ FinishWithoutInvocations(w)
      BY <2>2, <1>type, DecidingGoesOn, PreparingGoesOn, GoingOnStep
    <2>3. CASE \/ \E d \in worker[w].inbox :
                     SettleBatchEffect(w, d) \/ RecordBatchEffectUnknown(w, d)
               \/ FinishEffectBatchAttempt(w)
               \/ LoadCancellation(w)
      BY <2>3, <1>type, CompletingGoesOn, GoingOnStep
    <2> QED BY <1>2, <1>type, <2>1, <2>2, <2>3, ActivatingStep, StandTakingSteps, StandingSteps,
               EndingSteps, Zenon DEF DriveStep
  <1>3. ASSUME NEW w \in Workers, AbandonStep(w) \/ DriveEnds(w)
        PROVE  SInv'
    BY <1>3, <1>type, StandTakingSteps, StandingSteps, EndingSteps, Zenon DEF AbandonStep
  <1> QED BY <1>1, <1>2, <1>3, StandTakingSteps, StandingSteps, Zenon DEF Next

(* Sessions, for every value of the constants: the active operation is the   *)
(* only live one, and a caller of drive stands on it.                        *)
THEOREM SessionsInvariant == Spec => []SInv
  <1>1. IInv /\ SInv /\ [Next]_vars => SInv'
    BY NextSessions
  <1> QED BY <1>1, InitSessions, Invariance, PTL DEF Spec

(* Operations leave the queue in the order submit and submit_exclusive       *)
(* admitted them, whatever drives, abandonments and crashes do.              *)
THEOREM InAdmissionOrder == Spec => []AdmissionOrder
  <1>1. SInv => AdmissionOrder
    BY DEF SInv, RowsInv
  <1> QED BY <1>1, SessionsInvariant, PTL

(* No transaction past binding runs under a runtime other than the one       *)
(* activate_next froze.                                                      *)
THEOREM RuntimeFrozen == Spec => []FrozenRuntime
  <1>1. SInv => FrozenRuntime
    BY DEF SInv, CallersInv, CallerStands, FrozenRuntime
  <1> QED BY <1>1, SessionsInvariant, PTL
-----------------------------------------------------------------------------
(* Signals.  A request is signalled, after it commits, to the lease bound to *)
(* its operation: the invariant GInv, on top of IInv.                        *)

(* A request is never withdrawn.                                             *)
LEMMA StillRequested ==
    ASSUME TypeOK, NEW o \in Ops, Requested(o),
           cancel' = cancel \/ \E i \in CancelIds, p \in Ops : /\ cancel[i] = Null
                                                               /\ cancel' = [cancel EXCEPT ![i] = p]
    PROVE  Requested(o)'
  BY NullAssumption DEF Requested, TypeOK

(* Nobody requests the cancellation of an unbound lease.                     *)
LEMMA NeverUnbound ==
    ASSUME TypeOK
    PROVE  ~Requested(Unbound) /\ (GInv => \A s \in Sessions : running[s].bound = Unbound =>
                                                                 ~running[s].cancelled)
  BY NullAssumption DEF Requested, TypeOK, GInv, NoStraySignal

(* Leases are kept or dropped, nothing is signalled, and each caller stays,  *)
(* returns or moves to a place that agrees with its lease.                   *)
LEMMA LeaseKept ==
    ASSUME IInv, GInv, UNCHANGED <<cancel, signals>>,
           \A s \in Sessions : running'[s] \in {running[s], NoEntry},
           \A v \in Workers : \/ worker'[v].pc = "idle"
                              \/ /\ worker'[v].pc = worker[v].pc /\ worker'[v].op = worker[v].op
                                 /\ worker'[v].session = worker[v].session
                                 /\ running'[worker[v].session] = running[worker[v].session]
                              \/ CallerSignalled(v)'
    PROVE  GInv'
  <1>1. \A o : Requested(o)' <=> Requested(o)
    BY DEF Requested
  <1>2. NoStraySignal'
    BY <1>1 DEF GInv, NoStraySignal, NoEntry, Entry
  <1>3. ASSUME NEW v \in Workers PROVE CallerSignalled(v)'
    BY <1>1 DEF GInv, CallerSignalled, Driving
  <1> QED BY <1>1, <1>2, <1>3 DEF GInv

(* A caller that goes on: it enters an attempt only without a request.       *)
LEMMA GoingOnSignals ==
    ASSUME IInv, GInv, NEW w \in Workers, CallerMoves(w), UNCHANGED <<cancel, signals, running>>,
           worker'[w].pc = "attempts" => worker[w].pc = "attempts" \/ ~Requested(worker[w].op)
    PROVE  GInv'
  <1>1. Requested(worker[w].op)' <=> Requested(worker[w].op)
    BY DEF Requested, CallerMoves
  <1>2. CallerSignalled(w)'
    BY <1>1 DEF GInv, CallerSignalled, CallerMoves, Driving
  <1> QED BY <1>2, LeaseKept DEF CallerMoves

(* What a turn does without a new attempt.                                   *)
LEMMA TurnSignals ==
    ASSUME IInv, GInv, NEW w \in Workers, DriveStep(w), RowsMove(w), CallerMoves(w)
    PROVE  GInv'
  <1>inv. TypeOK /\ Placed
    BY DEF IInv
  <1>1. worker[w].pc \notin {"activate", "bind"} /\ worker'[w].pc # "idle"
    BY DrivingPcs DEF CallerMoves
  <1>2. ~Return(w)
    BY <1>inv, <1>1, IdleOK DEF Return, TypeOK
  <1>3. UNCHANGED <<running, signals, cancel>>
    BY <1>1, <1>2, Zenon DEF DriveStep, ActivateNext, ActivateOwned, DriveIdle, Bind, LoadActive,
          NoCancellation, LoadCancellation, CommitCancellation, DriveBlocked, YieldToCancellation,
          DecideAppend, DecideFinish, DecideEffects, PrepareEffectBatch, FinishWithoutInvocations,
          SpawnEffect, SettleBatchEffect, RecordBatchEffectUnknown, LeaveForReplay, Receive,
          FinishEffectBatchAttempt, Goto, durable
  <1>4. worker[w] \in WorkerState
    BY <1>inv, CallerFacts
  <1>5. worker'[w].pc = "attempts" => worker[w].pc = "attempts" \/ ~Requested(worker[w].op)
    <2>1. SUFFICES ASSUME worker[w].pc # "attempts", Requested(worker[w].op)
                   PROVE  worker'[w].pc # "attempts"
      OBVIOUS
    <2>2. \/ LoadActive(w) \/ LoadCancellation(w) \/ YieldToCancellation(w)
      BY <1>1, <1>2, <2>1, Zenon DEF DriveStep, ActivateNext, ActivateOwned, DriveIdle, Bind,
          NoCancellation, CommitCancellation, DriveBlocked, DecideAppend, DecideFinish, DecideEffects,
          MayDecide, PrepareEffectBatch, FinishWithoutInvocations, MayPrepare, SpawnEffect,
          SettleBatchEffect, RecordBatchEffectUnknown, LeaveForReplay, FinishEffectBatchAttempt,
          AttemptsDone
    <2>3. \E q \in {Snapshot(worker[w], worker[w].op, op[worker[w].op], "check"),
                    ReadyToCommit(worker[w], op'[worker[w].op].version,
                                  nextSeq[worker[w].session], "close"),
                    At(worker[w], "reload")} : worker' = [worker EXCEPT ![w] = q]
      BY <2>2 DEF LoadActive, LoadCancellation, YieldToCancellation, Goto
    <2>4. \A q \in {Snapshot(worker[w], worker[w].op, op[worker[w].op], "check"),
                    ReadyToCommit(worker[w], op'[worker[w].op].version,
                                  nextSeq[worker[w].session], "close"),
                    At(worker[w], "reload")} : q.pc # "attempts"
      BY <1>4 DEF Snapshot, ReadyToCommit, At, WorkerState
    <2> QED BY <1>inv, <2>3, <2>4 DEF TypeOK
  <1> QED BY <1>3, <1>5, GoingOnSignals

(* A dropped lease leaves the map only when nobody holds it.                 *)
LEMMA DroppedLeases ==
    ASSUME IInv, GInv, UNCHANGED <<cancel, signals>>, running' = AfterDrop(worker', tasks'),
           \A v \in Workers : \/ worker'[v].pc = "idle"
                              \/ /\ worker'[v].pc = worker[v].pc /\ worker'[v].op = worker[v].op
                                 /\ worker'[v].session = worker[v].session
    PROVE  GInv'
  <1>1. \A s \in Sessions : running'[s] \in {running[s], NoEntry}
    BY DEF AfterDrop
  <1>2. ASSUME NEW v \in Workers, worker'[v].pc # "idle"
        PROVE  /\ worker'[v].pc = worker[v].pc /\ worker'[v].op = worker[v].op
               /\ worker'[v].session = worker[v].session
               /\ running'[worker[v].session] = running[worker[v].session]
    <2>1. worker[v].session \in Sessions /\ worker'[v].session = worker[v].session
      BY <1>2, CallerFacts DEF IInv
    <2>2. Holds(worker', tasks', worker[v].session)
      BY <2>1 DEF Holds
    <2> QED BY <1>2, <2>1, <2>2 DEF AfterDrop
  <1> QED BY <1>1, <1>2, LeaseKept

(* The steps that drop a lease, or none.                                     *)
LEMMA StandingSignals ==
    ASSUME IInv, GInv,
           \/ UNCHANGED vars
           \/ \E o \in Ops, s \in Sessions : Submit(o, s) \/ SubmitExclusive(o, s)
           \/ \E t \in tasks, r \in {"settled", "unknown"} : AdapterResolves(t, r)
           \/ \E w \in Workers :
                 \/ DriveIdle(w) \/ DriveBlocked(w) \/ NothingToAbandon(w)
                 \/ AbandonRefused(w) \/ DriveEnds(w)
                 \/ \E n \in 0..MaxAppend :
                       \/ CommitCancellation(w, n) \/ CommitAbandonment(w, n)
                       \/ \E p \in Terminal \ {"cancelled"} : DecideFinish(w, p, n)
    PROVE  GInv'
  <1>inv. TypeOK /\ Placed
    BY DEF IInv
  <1>1. CASE \/ UNCHANGED vars
             \/ \E o \in Ops, s \in Sessions : Submit(o, s) \/ SubmitExclusive(o, s)
    <2>1. UNCHANGED <<running, worker, signals, cancel>>
      BY <1>1, Zenon DEF vars, Submit, SubmitExclusive, Admit, volatile
    <2> QED BY <2>1, LeaseKept
  <1>2. ASSUME NEW t \in tasks, NEW r \in {"settled", "unknown"}, AdapterResolves(t, r)
        PROVE  GInv'
    <2> DEFINE d == [effect |-> t.effect, attempt |-> t.attempt, result |-> r]
    <2>1. d \in Completion
      BY <1>inv DEF TypeOK, Task, Completion
    <2>2. /\ running' = AfterDrop(worker', tasks') /\ UNCHANGED <<signals, cancel>>
          /\ \/ worker' = worker
             \/ t.owner \in Workers /\ worker' = [worker EXCEPT ![t.owner] = Delivered(@, d)]
      BY <1>inv, <1>2, TaskFacts DEF AdapterResolves, durable
    <2>3. \A v \in Workers : LET q == Delivered(worker[v], d)
                             IN  /\ q.pc = worker[v].pc /\ q.session = worker[v].session
                                 /\ q.op = worker[v].op
      BY <1>inv, <2>1, CallerFacts, DeliveredOK
    <2> HIDE DEF d
    <2>4. \A v \in Workers : /\ worker'[v].pc = worker[v].pc /\ worker'[v].op = worker[v].op
                             /\ worker'[v].session = worker[v].session
      BY <1>inv, <2>2, <2>3 DEF TypeOK
    <2> QED BY <2>2, <2>4, DroppedLeases
  <1>3. ASSUME NEW w \in Workers,
               \/ DriveIdle(w) \/ DriveBlocked(w) \/ NothingToAbandon(w)
               \/ AbandonRefused(w) \/ DriveEnds(w)
               \/ \E n \in 0..MaxAppend :
                     \/ CommitCancellation(w, n) \/ CommitAbandonment(w, n)
                     \/ \E p \in Terminal \ {"cancelled"} : DecideFinish(w, p, n)
        PROVE  GInv'
    <2>1. Return(w) /\ UNCHANGED <<cancel, signals>>
      BY <1>3, Zenon DEF DriveIdle, DriveBlocked, NothingToAbandon, AbandonRefused, DriveEnds,
                         CommitCancellation, CommitAbandonment, DecideFinish, durable
    <2>2. \A v \in Workers : worker'[v].pc = "idle" \/ worker'[v] = worker[v]
      BY <1>inv, <2>1, IdleOK DEF Return, TypeOK
    <2>3. running' = AfterDrop(worker', tasks')
      BY <2>1 DEF Return
    <2> QED BY <2>1, <2>2, <2>3, DroppedLeases
  <1> QED BY <1>1, <1>2, <1>3, Zenon

(* Requests, their retries and their signals.                                *)
LEMMA SignallingSteps ==
    ASSUME IInv, GInv,
           \/ \E i \in CancelIds, o \in Ops : RequestCancellation(i, o)
           \/ \E i \in CancelIds : RetryCancellation(i)
           \/ \E o \in Ops : SignalRunningOperation(o)
           \/ Crash
    PROVE  GInv'
  <1>inv. TypeOK /\ Placed
    BY DEF IInv
  <1>1. ASSUME NEW i \in CancelIds, NEW o \in Ops, RequestCancellation(i, o)
        PROVE  GInv'
    <2>1. /\ cancel[i] = Null /\ cancel' = [cancel EXCEPT ![i] = o] /\ signals' = signals \cup {o}
          /\ UNCHANGED <<running, worker>>
      BY <1>1 DEF RequestCancellation
    <2>2. ASSUME NEW p, p # Null PROVE Requested(p)' <=> Requested(p) \/ p = o
      BY <1>inv, <2>1, <2>2 DEF Requested, TypeOK
    <2>3. signals \subseteq Ops /\ o # Null /\ \A p \in Ops : p # Null
      BY <1>inv, NullAssumption DEF TypeOK
    <2>4. NoStraySignal'
      <3>1. ASSUME NEW s \in Sessions, running[s].cancelled PROVE Requested(running[s].bound)'
        <4>1. running[s].bound \in Ops /\ Requested(running[s].bound)
          BY <3>1 DEF GInv, NoStraySignal
        <4> QED BY <2>1, <2>2, <2>3, <4>1 DEF Requested
      <3> QED BY <2>1, <3>1 DEF GInv, NoStraySignal
    <2>5. ASSUME NEW v \in Workers PROVE CallerSignalled(v)'
      <3>1. worker[v].pc = "attempts" => worker[v].op \in Ops
        BY <1>inv, CallerFacts
      <3>2. worker[v].op \in Ops => (Requested(worker[v].op)' <=> Requested(worker[v].op) \/ worker[v].op = o)
        BY <2>2, <2>3, <2>1 DEF Requested
      <3> QED BY <2>1, <3>1, <3>2 DEF GInv, CallerSignalled
    <2> QED BY <2>1, <2>2, <2>3, <2>4, <2>5 DEF GInv
  <1>2. ASSUME NEW i \in CancelIds, RetryCancellation(i)
        PROVE  GInv'
    <2>1. signals' = signals \cup {cancel[i]} /\ UNCHANGED <<cancel, running, worker>>
      BY <1>2 DEF RetryCancellation, durable
    <2>2. \A p : Requested(p)' <=> Requested(p)
      BY <2>1 DEF Requested
    <2>3. Requested(cancel[i])
      BY DEF Requested
    <2> QED BY <2>1, <2>2, <2>3 DEF GInv, NoStraySignal, CallerSignalled
  <1>3. ASSUME NEW o \in Ops, SignalRunningOperation(o)
        PROVE  GInv'
    <2>1. /\ o \in signals /\ signals' = signals \ {o} /\ UNCHANGED <<cancel, worker>>
          /\ \A s \in Sessions : running'[s] = IF s = op[o].session /\ running[s].bound = o
                                               THEN Entry(o, TRUE) ELSE running[s]
      BY <1>3 DEF SignalRunningOperation, durable
    <2>2. \A p : Requested(p)' <=> Requested(p)
      BY <2>1 DEF Requested
    <2>3. Requested(o)
      BY <2>1 DEF GInv
    <2>4. NoStraySignal'
      BY <2>1, <2>2, <2>3 DEF GInv, NoStraySignal, Entry
    <2>5. ASSUME NEW v \in Workers PROVE CallerSignalled(v)'
      <3>1. worker[v].pc # "idle" => worker[v].session \in Sessions
        BY <1>inv, CallerFacts
      <3>2. worker[v].pc \in Driving \ {"bind"} => op[worker[v].op].session = worker[v].session
        BY <1>inv, CallerFacts, DrivingPcs
      <3>3. worker[v].pc = "attempts" => worker[v].pc \in Driving \ {"bind"}
        BY DrivingPcs
      <3> QED BY <2>1, <2>2, <3>1, <3>2, <3>3, DrivingPcs DEF GInv, CallerSignalled, Entry
    <2> QED BY <2>1, <2>2, <2>4, <2>5 DEF GInv
  <1>4. CASE Crash
    <2>1. /\ signals' = {} /\ \A s \in Sessions : running'[s] = NoEntry
          /\ \A v \in Workers : worker'[v].pc = "idle"
      BY <1>4, IdleOK DEF Crash
    <2> QED BY <2>1 DEF GInv, NoStraySignal, CallerSignalled, Driving, NoEntry, Entry
  <1> QED BY <1>1, <1>2, <1>3, <1>4, Zenon

(* A new lease is unbound and its token fresh; nobody else holds it.         *)
LEMMA AcquireSignals ==
    ASSUME IInv, GInv, NEW w \in Workers, NEW s \in Sessions, NEW q, Acquire(w, s, q),
           q.session = s, q.pc \in {"activate", "abandon"}, UNCHANGED <<cancel, signals>>
    PROVE  GInv'
  <1>inv. TypeOK /\ Placed /\ LeaseCovers
    BY DEF IInv
  <1>1. /\ running[s].bound = Null /\ running'[s] = Entry(Unbound, FALSE)
        /\ \A r \in Sessions : r # s => running'[r] = running[r]
        /\ worker'[w] = q /\ \A v \in Workers : v # w => worker'[v] = worker[v]
    BY <1>inv DEF Acquire, TypeOK, NoEntry, Entry
  <1>2. \A v \in Workers : worker[v].session # s
    BY <1>inv, <1>1 DEF LeaseCovers, Holds
  <1>3. \A p : Requested(p)' <=> Requested(p)
    BY DEF Requested
  <1>4. NoStraySignal'
    BY <1>1, <1>3 DEF GInv, NoStraySignal, Entry
  <1>5. ASSUME NEW v \in Workers PROVE CallerSignalled(v)'
    <2>1. CASE v = w
      BY <1>1, <2>1 DEF CallerSignalled, Entry, Driving
    <2>2. CASE v # w
      <3>1. worker[v].pc # "idle" => worker[v].session \in Sessions \ {s}
        BY <1>inv, <1>2, CallerFacts
      <3> QED BY <1>1, <1>3, <2>2, <3>1 DEF GInv, CallerSignalled, Driving
    <2> QED BY <2>1, <2>2
  <1> QED BY <1>3, <1>4, <1>5 DEF GInv

(* Activation, binding and the load of an abandonment.                       *)
LEMMA BindingSignals ==
    ASSUME IInv, GInv, TypeOK', NEW w \in Workers,
           \/ \E o \in Ops : ActivateNext(w, o)
           \/ ActivateOwned(w) \/ Bind(w) \/ LoadPendingAbandonment(w)
    PROVE  GInv'
  <1>inv. TypeOK /\ Placed /\ OneWorker
    BY DEF IInv
  <1>1. worker[w] \in WorkerState /\ UNCHANGED <<cancel, signals>>
    BY <1>inv, CallerFacts, Zenon DEF ActivateNext, ActivateOwned, Bind, LoadPendingAbandonment, durable
  <1>2. ASSUME NEW o \in Ops, NEW row \in OpRow, worker[w].pc = "activate",
               Goto(w, Snapshot(worker[w], o, row, "bind"))
        PROVE  GInv'
    <2> DEFINE q == Snapshot(worker[w], o, row, "bind")
    <2>1. q.pc = "bind" /\ q.session = worker[w].session
      BY <1>1, DrivingPcs, SnapshotOK
    <2>2. worker'[w] = q /\ (\A v \in Workers : v # w => worker'[v] = worker[v]) /\ running' = running
      BY <1>inv, <1>2 DEF Goto, TypeOK
    <2> HIDE DEF q
    <2>3. CallerSignalled(w)'
      BY <1>2, <2>1, <2>2 DEF GInv, CallerSignalled
    <2> QED BY <1>1, <2>2, <2>3, LeaseKept
  <1>3. CASE (\E o \in Ops : ActivateNext(w, o)) \/ ActivateOwned(w)
    <2>1. ASSUME NEW o \in Ops, ActivateNext(w, o) PROVE GInv'
      <3>1. op'[o] \in OpRow
        BY DEF TypeOK
      <3> QED BY <1>2, <2>1, <3>1 DEF ActivateNext
    <2>2. CASE ActivateOwned(w)
      <3>1. active[worker[w].session] \in Ops /\ op[active[worker[w].session]] \in OpRow
        BY <1>inv, <2>2, CallerFacts DEF ActivateOwned, TypeOK
      <3> QED BY <1>2, <2>2, <3>1 DEF ActivateOwned
    <2> QED BY <1>3, <2>1, <2>2
  <1>4. CASE LoadPendingAbandonment(w)
    <2> DEFINE q == ReadyToCommit(worker[w], op[worker[w].op].version, nextSeq[worker[w].session],
                                  "abandonCommit")
    <2>1. q.pc = "abandonCommit"
      BY <1>1 DEF ReadyToCommit, WorkerState
    <2>2. worker'[w] = q /\ (\A v \in Workers : v # w => worker'[v] = worker[v]) /\ running' = running
      BY <1>inv, <1>4 DEF LoadPendingAbandonment, Goto, TypeOK
    <2> HIDE DEF q
    <2>3. CallerSignalled(w)'
      BY <2>1, <2>2 DEF CallerSignalled, Driving
    <2> QED BY <1>1, <2>2, <2>3, LeaseKept
  <1>5. CASE Bind(w)
    <2>1. CASE op[worker[w].op].manifest # worker[w].manifest
      <3>1. Return(w)
        BY <1>5, <2>1 DEF Bind
      <3>2. \A v \in Workers : worker'[v].pc = "idle" \/ worker'[v] = worker[v]
        BY <1>inv, <3>1, IdleOK DEF Return, TypeOK
      <3>3. running' = AfterDrop(worker', tasks')
        BY <3>1 DEF Return
      <3> QED BY <1>1, <3>2, <3>3, DroppedLeases
    <2>2. CASE op[worker[w].op].manifest = worker[w].manifest
      <3> DEFINE s == worker[w].session
                 q == At(worker[w], "check")
      <3>1. s \in Sessions /\ worker[w].pc = "bind" /\ worker[w].op \in Ops
        BY <1>inv, <1>5, CallerFacts DEF Bind
      <3>2. q.pc = "check" /\ q.session = s /\ q.op = worker[w].op
        BY <1>1, DrivingPcs, AtOK DEF SameCaller
      <3>3. worker'[w] = q /\ \A v \in Workers : v # w => worker'[v] = worker[v]
        BY <1>inv, <1>5, <2>2 DEF Bind, TypeOK
      <3>4. running[s].bound = Unbound /\ ~running[s].cancelled
        BY <1>inv, <3>1, NeverUnbound DEF GInv, CallerSignalled
      <3>5. /\ running'[s] = Entry(worker[w].op, running[s].cancelled)
            /\ \A r \in Sessions : r # s => running'[r] = running[r]
        BY <1>inv, <1>5, <2>2, <3>1 DEF Bind, TypeOK
      <3>6. \A p : Requested(p)' <=> Requested(p)
        BY <1>1 DEF Requested
      <3>7. NoStraySignal'
        BY <3>4, <3>5, <3>6 DEF GInv, NoStraySignal, Entry
      <3>8. ASSUME NEW v \in Workers PROVE CallerSignalled(v)'
        <4>1. CASE v = w
          BY <3>2, <3>3, <3>5, <4>1 DEF CallerSignalled, Entry
        <4>2. CASE v # w
          <5>1. worker[v].pc # "idle" => worker[v].session \in Sessions \ {s}
            BY <1>inv, <3>1, <4>2, OtherCaller, CallerFacts
          <5> QED BY <1>1, <3>3, <3>5, <3>6, <4>2, <5>1 DEF GInv, CallerSignalled, Driving
        <4> QED BY <4>1, <4>2
      <3> QED BY <1>1, <3>6, <3>7, <3>8 DEF GInv
    <2> QED BY <2>1, <2>2
  <1> QED BY <1>3, <1>4, <1>5

(* It holds initially.                                                       *)
LEMMA InitSignals == Init => GInv
  BY IdleOK DEF Init, GInv, NoStraySignal, CallerSignalled, NoEntry, Entry, Driving

(* Every step keeps it.                                                      *)
LEMMA NextSignals == ASSUME IInv, GInv, [Next]_vars PROVE GInv'
  <1>type. TypeOK'
    BY NextType DEF IInv
  <1>1. ASSUME NEW w \in Workers, NEW s \in Sessions, NEW m \in Manifests, Drive(w, s, m)
        PROVE  GInv'
    <2> DEFINE q == Starting("activate", s, Null, m)
    <2>1. q.pc = "activate" /\ q.session = s
      <3>1. "activate" \in Pcs
        BY DEF Pcs
      <3> QED BY <3>1, StartingOK
    <2>2. Acquire(w, s, q) /\ UNCHANGED <<cancel, signals>>
      BY <1>1 DEF Drive, durable
    <2> HIDE DEF q
    <2> QED BY <2>1, <2>2, AcquireSignals
  <1>2. ASSUME NEW w \in Workers, NEW o \in Ops, NEW m \in Manifests, Abandon(w, o, m)
        PROVE  GInv'
    <2> DEFINE s == op[o].session
               q == Starting("abandon", s, o, m)
    <2>1. s \in Sessions
      BY <1>2 DEF Abandon, IInv, TypeOK, OpRow
    <2>2. q.pc = "abandon" /\ q.session = s
      <3>1. "abandon" \in Pcs
        BY DEF Pcs
      <3> HIDE DEF s
      <3> QED BY <2>1, <3>1, StartingOK
    <2>3. Acquire(w, s, q) /\ UNCHANGED <<cancel, signals>>
      BY <1>2 DEF Abandon, durable
    <2> HIDE DEF q
    <2> QED BY <2>1, <2>2, <2>3, AcquireSignals
  <1>3. ASSUME NEW w \in Workers, DriveStep(w)
        PROVE  GInv'
    <2>1. CASE RowsMove(w) /\ CallerMoves(w)
      BY <1>3, <2>1, TurnSignals
    <2> QED BY <1>3, <1>type, <2>1, ReadingGoesOn, DecidingGoesOn, PreparingGoesOn, CompletingGoesOn,
               BindingSignals, StandingSignals, Zenon DEF DriveStep
  <1>4. ASSUME NEW w \in Workers, AbandonStep(w) \/ DriveEnds(w)
        PROVE  GInv'
    BY <1>4, <1>type, BindingSignals, StandingSignals, Zenon DEF AbandonStep
  <1> QED BY <1>1, <1>2, <1>3, <1>4, StandingSignals, SignallingSteps, Zenon DEF Next

(* Signals, for every value of the constants.                                *)
THEOREM SignalsInvariant == Spec => []GInv
  <1>1. IInv /\ GInv /\ [Next]_vars => GInv'
    BY NextSignals
  <1> QED BY <1>1, InitSignals, Invariance, PTL DEF Spec

(* signal_running_operation cancels the token of no drive but the one whose  *)
(* operation was requested, however leases pass from hand to hand.           *)
THEOREM NoStray == Spec => []NoStraySignal
  <1>1. GInv => NoStraySignal
    BY DEF GInv
  <1> QED BY <1>1, SignalsInvariant, PTL

(* Every running task of a requested operation sees the cancellation once    *)
(* the request's signal is delivered.                                        *)
THEOREM NoSignalLost == Spec => []NoLostSignal
  <1>1. IInv /\ GInv => NoLostSignal
    <2> SUFFICES ASSUME IInv, GInv, NEW t \in tasks, Requested(t.effect[1]),
                        t.effect[1] \notin signals, t.owner # Null
                 PROVE  running[op[t.effect[1]].session].cancelled
      BY DEF NoLostSignal
    <2>1. t.owner \in Workers /\ worker[t.owner].session = op[t.effect[1]].session
      BY TaskFacts DEF IInv, TasksOwned
    <2>2. worker[t.owner].pc = "attempts" /\ worker[t.owner].op = t.effect[1]
      BY <2>1 DEF IInv, TasksOwned
    <2> QED BY <2>1, <2>2 DEF GInv, CallerSignalled
  <1> QED BY <1>1, SignalsInvariant, Invariance, PTL
-----------------------------------------------------------------------------
(* An admitted operation keeps its session and its place, and one that has   *)
(* started is never queued again.                                            *)
PlacesKept ==
    \A o \in Ops : op[o].phase # "absent" =>
        /\ op'[o].session = op[o].session /\ op'[o].position = op[o].position
        /\ op[o].phase # "queued" => op'[o].phase \notin {"absent", "queued"}

(* A step that moves one operation.                                          *)
LEMMA OnePlace ==
    ASSUME TypeOK, NEW o \in Ops, NEW q, op' = [op EXCEPT ![o] = q],
           op[o].phase = "absent" \/ (/\ q.session = op[o].session /\ q.position = op[o].position
                                      /\ q.phase \notin {"absent", "queued"})
    PROVE  PlacesKept
  <1>1. op'[o] = q /\ \A p \in Ops : p # o => op'[p] = op[p]
    BY DEF TypeOK
  <1> QED BY <1>1 DEF PlacesKept

(* A step inside a turn.                                                     *)
LEMMA TurnPlaces ==
    ASSUME NEW w \in Workers, RowsMove(w)
    PROVE  PlacesKept
  BY DEF RowsMove, KeepsPlace, PlacesKept, Live

(* Only the end of an operation and a decision append, each to the history   *)
(* of its caller's session, for the operation that is active there.          *)
Ending(w, n) ==
    \/ CommitCancellation(w, n) \/ CommitAbandonment(w, n)
    \/ \E p \in Terminal \ {"cancelled"} : DecideFinish(w, p, n)

(* What the three ends of an operation have in common.                       *)
LEMMA EndingFacts ==
    ASSUME IInv, NEW w \in Workers, NEW n \in 0..MaxAppend, Ending(w, n)
    PROVE  /\ worker[w].pc \in {"close", "step", "abandonCommit"}
           /\ worker[w].op \in Ops /\ op[worker[w].op].phase \in Live
           /\ op[worker[w].op].session = worker[w].session /\ worker[w].session \in Sessions
           /\ AppendEvents(worker[w].session, worker[w].op, n)
           /\ \E p \in Terminal, x \in Outcomes, c \in Batches \cup {0} : FinishOperation(worker[w].op, p, x, c)
           /\ UNCHANGED cancel
  <1>1. worker[w].pc \in {"close", "step", "abandonCommit"}
    BY DEF Ending, CommitCancellation, CommitAbandonment, DecideFinish, MayDecide
  <1>2. /\ worker[w].op \in Ops /\ op[worker[w].op].session = worker[w].session
        /\ worker[w].session \in Sessions
    BY <1>1, CallerFacts DEF IInv
  <1>3. /\ op[worker[w].op].phase \in Live /\ AppendEvents(worker[w].session, worker[w].op, n)
        /\ UNCHANGED cancel
    BY DEF Ending, CommitCancellation, CommitAbandonment, DecideFinish, MayDecide, IsCancellable, Live
  <1>4. Terminal \subseteq Outcomes /\ {"cancelled", "abandoned", "failed"} \subseteq Outcomes
        /\ {"cancelled", "failed"} \subseteq Terminal
    BY DEF Terminal, Outcomes
  <1>5. \E p \in Terminal, x \in Outcomes, c \in Batches \cup {0} : FinishOperation(worker[w].op, p, x, c)
    <2>1. op[worker[w].op].current \in Batches \cup {0}
      BY <1>2 DEF IInv, TypeOK, OpRow
    <2> QED BY <1>4, <2>1 DEF Ending, CommitCancellation, CommitAbandonment, DecideFinish
  <1> QED BY <1>1, <1>2, <1>3, <1>5

(* Every step keeps places.                                                  *)
LEMMA NextPlaces == ASSUME IInv, [Next]_vars PROVE PlacesKept
  <1>inv. TypeOK /\ Placed
    BY DEF IInv
  <1>1. CASE op' = op
    BY <1>1 DEF PlacesKept
  <1>2. CASE \E o \in Ops, s \in Sessions : Submit(o, s) \/ SubmitExclusive(o, s)
    <2>1. PICK o \in Ops, s \in Sessions : Admit(o, s)
      BY <1>2 DEF Submit, SubmitExclusive
    <2> QED BY <1>inv, <2>1, OnePlace DEF Admit
  <1>3. ASSUME NEW w \in Workers, NEW o \in Ops, ActivateNext(w, o)
        PROVE  PlacesKept
    <2> DEFINE q == Activated(op[o], worker[w].manifest)
    <2>1. op' = [op EXCEPT ![o] = q] /\ op[o] \in OpRow
      BY <1>inv, <1>3 DEF ActivateNext, TypeOK
    <2>2. q.session = op[o].session /\ q.position = op[o].position /\ q.phase = "need_decision"
      BY <2>1, ActivatedRow
    <2> HIDE DEF q
    <2> QED BY <1>inv, <2>1, <2>2, OnePlace
  <1>4. ASSUME NEW w \in Workers, NEW n \in 0..MaxAppend, Ending(w, n)
        PROVE  PlacesKept
    <2>1. PICK o \in Ops : o = worker[w].op
      BY <1>4, EndingFacts
    <2>2. PICK p \in Terminal, x \in Outcomes, c \in Batches \cup {0} : FinishOperation(o, p, x, c)
      BY <1>4, <2>1, EndingFacts
    <2> DEFINE q == Ended(op[o], p, x, c)
    <2>3. op' = [op EXCEPT ![o] = q] /\ op[o] \in OpRow
      BY <1>inv, <2>2 DEF FinishOperation, TypeOK
    <2>4. q.session = op[o].session /\ q.position = op[o].position /\ q.phase = p
      BY <2>3, EndedRow
    <2>5. p \notin {"absent", "queued"}
      BY DEF Terminal
    <2> HIDE DEF q
    <2> QED BY <1>inv, <2>3, <2>4, <2>5, OnePlace
  <1>5. ASSUME NEW w \in Workers, DriveStep(w) \/ AbandonStep(w) \/ DriveEnds(w)
        PROVE  PlacesKept
    <2>1. CASE op' = op
      BY <1>1, <2>1
    <2>2. CASE op' # op
      <3>1. \/ \E o \in Ops : ActivateNext(w, o)
            \/ LoadCancellation(w)
            \/ \E n \in 0..MaxAppend : DecideAppend(w, n) \/ Ending(w, n)
            \/ \E r \in Batch : DecideEffects(w, r)
            \/ PrepareEffectBatch(w) \/ FinishWithoutInvocations(w)
            \/ \E d \in worker[w].inbox : SettleBatchEffect(w, d) \/ RecordBatchEffectUnknown(w, d)
            \/ FinishEffectBatchAttempt(w)
        BY <1>5, <2>2, Zenon DEF DriveStep, AbandonStep, DriveEnds, Ending, ActivateOwned, DriveIdle, Bind,
              LoadActive, NoCancellation, DriveBlocked, YieldToCancellation, SpawnEffect, LeaveForReplay,
              LoadPendingAbandonment, NothingToAbandon, AbandonRefused, durable
      <3> QED BY <1>3, <1>4, <3>1, DecidingGoesOn, PreparingGoesOn, CompletingGoesOn, TurnPlaces
    <2> QED BY <2>1, <2>2
  <1>6. CASE \/ UNCHANGED vars
             \/ \E i \in CancelIds, o \in Ops : RequestCancellation(i, o)
             \/ \E i \in CancelIds : RetryCancellation(i)
             \/ \E o \in Ops : SignalRunningOperation(o)
             \/ \E w \in Workers, s \in Sessions, m \in Manifests : Drive(w, s, m)
             \/ \E w \in Workers, o \in Ops, m \in Manifests : Abandon(w, o, m)
             \/ \E t \in tasks, r \in {"settled", "unknown"} : AdapterResolves(t, r)
             \/ Crash
    <2>1. op' = op
      BY <1>6, Zenon DEF vars, RequestCancellation, RetryCancellation, SignalRunningOperation, Drive,
                         Abandon, AdapterResolves, Crash, durable
    <2> QED BY <1>1, <2>1
  <1> QED BY <1>2, <1>5, <1>6, Zenon DEF Next

(* What a step does to histories: nothing, or it appends for the operation   *)
(* that is live in the session.                                              *)
HistoryStep ==
    \/ UNCHANGED <<events, nextSeq>>
    \/ \E o \in Ops, n \in 0..MaxAppend :
          /\ op[o].phase \in Live /\ op[o].session \in Sessions
          /\ AppendEvents(op[o].session, o, n)

(* Only a decision, a closing cancellation and an abandonment append.        *)
LEMMA NextHistoryStep == ASSUME IInv, [Next]_vars PROVE HistoryStep
  <1>1. ASSUME NEW w \in Workers, NEW n \in 0..MaxAppend, DecideAppend(w, n) \/ Ending(w, n)
        PROVE  HistoryStep
    <2>1. CASE Ending(w, n)
      BY <2>1, EndingFacts DEF HistoryStep
    <2>2. CASE DecideAppend(w, n)
      <3>1. /\ worker[w].pc = "step" /\ op[worker[w].op].phase \in Live
            /\ AppendEvents(worker[w].session, worker[w].op, n)
        BY <2>2 DEF DecideAppend, MayDecide, Live
      <3> QED BY <3>1, CallerFacts DEF HistoryStep, IInv
    <2> QED BY <1>1, <2>1, <2>2
  <1>2. CASE UNCHANGED <<events, nextSeq>>
    BY <1>2 DEF HistoryStep
  <1>3. CASE ~UNCHANGED <<events, nextSeq>>
    <2>1. ASSUME NEW w \in Workers, DriveStep(w) \/ AbandonStep(w) \/ DriveEnds(w)
          PROVE  \E n \in 0..MaxAppend : DecideAppend(w, n) \/ Ending(w, n)
      BY <1>3, <2>1, Zenon DEF DriveStep, AbandonStep, DriveEnds, Ending, ActivateOwned, DriveIdle, Bind,
              LoadActive, NoCancellation, DriveBlocked, YieldToCancellation, SpawnEffect, LeaveForReplay,
              LoadPendingAbandonment, NothingToAbandon, AbandonRefused, durable, ActivateNext,
              LoadCancellation, DecideEffects, PrepareEffectBatch, FinishWithoutInvocations,
              SettleBatchEffect, RecordBatchEffectUnknown, Receive, FinishEffectBatchAttempt
    <2>2. ~(\/ UNCHANGED vars
            \/ \E o \in Ops, s \in Sessions : Submit(o, s) \/ SubmitExclusive(o, s)
            \/ \E i \in CancelIds, o \in Ops : RequestCancellation(i, o)
            \/ \E i \in CancelIds : RetryCancellation(i)
            \/ \E o \in Ops : SignalRunningOperation(o)
            \/ \E w \in Workers, s \in Sessions, m \in Manifests : Drive(w, s, m)
            \/ \E w \in Workers, o \in Ops, m \in Manifests : Abandon(w, o, m)
            \/ \E t \in tasks, r \in {"settled", "unknown"} : AdapterResolves(t, r)
            \/ Crash)
      BY <1>3, Zenon DEF vars, Submit, SubmitExclusive, Admit, RequestCancellation, RetryCancellation,
                         SignalRunningOperation, Drive, Abandon, AdapterResolves, Crash, durable
    <2> QED BY <1>1, <2>1, <2>2, Zenon DEF Next
  <1> QED BY <1>2, <1>3

(* The history of one session: its events, numbered without a gap, in the    *)
(* order of their operations.                                                *)
HistoryOf(s) == {h \in events : h.session = s}
Numbered(s) ==
    /\ \A h \in HistoryOf(s) : h.sequence \in 0..(nextSeq[s] - 1)
    /\ \A q \in 0..(nextSeq[s] - 1) : \E h \in HistoryOf(s) : h.sequence = q
    /\ \A h, k \in HistoryOf(s) : h.sequence = k.sequence => h = k
Ordered(s) ==
    \A h, k \in HistoryOf(s) : h.sequence < k.sequence => op[h.op].position <= op[k.op].position

(* The invariant of histories, by session, now and after a step.             *)
LEMMA HistoriesBySession ==
    ASSUME HInv, NEW s \in Sessions
    PROVE  Numbered(s) /\ Ordered(s)
  <1> DEFINE history == {h \in events : h.session = s}
  <1>1. /\ {h.sequence : h \in history} = 0..(nextSeq[s] - 1)
        /\ \A h, k \in history :
             /\ h.sequence = k.sequence => h = k
             /\ h.sequence < k.sequence => op[h.op].position <= op[k.op].position
    BY DEF HInv, GaplessHistory
  <1> QED BY <1>1 DEF Numbered, Ordered, HistoryOf

(* Back from one session at a time to the invariant of histories.            *)
LEMMA HistoriesNext ==
    ASSUME \A s \in Sessions : Numbered(s)' /\ Ordered(s)',
           \A h \in events' : op'[h.op].session = h.session /\ op'[h.op].phase \notin {"absent", "queued"}
    PROVE  HInv'
  <1>1. ASSUME NEW s \in Sessions
        PROVE  /\ {h.sequence : h \in HistoryOf(s)'} = 0..(nextSeq'[s] - 1)
               /\ \A h, k \in HistoryOf(s)' :
                    /\ h.sequence = k.sequence => h = k
                    /\ h.sequence < k.sequence => op'[h.op].position <= op'[k.op].position
    BY DEF Numbered, Ordered
  <1>2. GaplessHistory'
    BY <1>1 DEF GaplessHistory, HistoryOf
  <1> QED BY <1>2 DEF HInv

(* An append numbers its events from the cursor.                             *)
LEMMA AppendedEvents ==
    ASSUME TypeOK, NEW s \in Sessions, NEW o \in Ops, NEW n \in 0..MaxAppend, AppendEvents(s, o, n)
    PROVE  /\ nextSeq[s] \in Nat /\ nextSeq'[s] = nextSeq[s] + n
           /\ \A x \in Sessions : x # s => nextSeq'[x] = nextSeq[x]
           /\ events \subseteq events'
           /\ \A h \in events' : \/ h \in events
                                 \/ /\ h.session = s /\ h.op = o
                                    /\ h.sequence \in nextSeq[s]..(nextSeq[s] + n - 1)
           /\ \A q \in nextSeq[s]..(nextSeq[s] + n - 1) :
                \E h \in events' : h.session = s /\ h.op = o /\ h.sequence = q
           /\ \A h \in events', k \in events' :
                h \notin events /\ k \notin events /\ h.sequence = k.sequence => h = k
  <1> DEFINE new(q) == [session |-> s, sequence |-> q, op |-> o]
             range == nextSeq[s]..(nextSeq[s] + n - 1)
  <1>1. /\ events' = events \cup {new(q) : q \in range}
        /\ nextSeq' = [nextSeq EXCEPT ![s] = nextSeq[s] + n]
    BY DEF AppendEvents
  <1>2. \A q : new(q).session = s /\ new(q).op = o /\ new(q).sequence = q
    OBVIOUS
  <1>3. nextSeq \in [Sessions -> Nat] /\ n \in Nat
    BY BoundsAssumption DEF TypeOK
  <1> HIDE DEF new, range
  <1>4. /\ nextSeq[s] \in Nat /\ nextSeq'[s] = nextSeq[s] + n
        /\ \A x \in Sessions : x # s => nextSeq'[x] = nextSeq[x]
    BY <1>1, <1>3
  <1>5. \A h \in events' : h \in events \/ \E q \in range : h = new(q)
    BY <1>1
  <1>6. \A q \in range : new(q) \in events'
    BY <1>1
  <1> QED BY <1>1, <1>2, <1>4, <1>5, <1>6 DEF range

(* Every step keeps the invariant of histories.  What is appended belongs to *)
(* the live operation, and every operation with earlier events was admitted  *)
(* no later.                                                                 *)
LEMMA NextHistories == ASSUME IInv, SInv, HInv, [Next]_vars PROVE HInv'
  <1>inv. TypeOK
    BY DEF IInv
  <1>ev. \A h \in events : /\ h.op \in Ops /\ h.session \in Sessions /\ h.sequence \in Nat
                           /\ op[h.op].session = h.session /\ op[h.op].phase \notin {"absent", "queued"}
    BY <1>inv DEF TypeOK, Event, HInv
  <1>1. PlacesKept
    BY NextPlaces
  <1>2. \A h \in events : /\ op'[h.op].session = h.session /\ op'[h.op].phase \notin {"absent", "queued"}
                          /\ op'[h.op].position = op[h.op].position
    BY <1>1, <1>ev DEF PlacesKept
  <1>3. \A s \in Sessions : Numbered(s) /\ Ordered(s)
    BY HistoriesBySession
  <1>4. SUFFICES /\ \A s \in Sessions : Numbered(s)' /\ Ordered(s)'
                 /\ \A h \in events' : op'[h.op].session = h.session /\ op'[h.op].phase \notin {"absent", "queued"}
    BY <1>4, HistoriesNext
  <1>5. CASE UNCHANGED <<events, nextSeq>>
    <2>1. \A s \in Sessions : Numbered(s)' /\ Ordered(s)'
      BY <1>2, <1>3, <1>5 DEF Numbered, Ordered, HistoryOf
    <2> QED BY <1>2, <1>5, <2>1
  <1>6. ASSUME NEW o \in Ops, NEW n \in 0..MaxAppend, op[o].phase \in Live, op[o].session \in Sessions,
               AppendEvents(op[o].session, o, n)
        PROVE  /\ \A s \in Sessions : Numbered(s)' /\ Ordered(s)'
               /\ \A h \in events' : op'[h.op].session = h.session /\ op'[h.op].phase \notin {"absent", "queued"}
    <2>z. PICK z \in Sessions : z = op[o].session
      BY <1>6
    <2>1. /\ nextSeq[z] \in Nat /\ nextSeq'[z] = nextSeq[z] + n
          /\ \A x \in Sessions : x # z => nextSeq'[x] = nextSeq[x]
          /\ events \subseteq events'
          /\ \A h \in events' : \/ h \in events
                                \/ /\ h.session = z /\ h.op = o
                                   /\ h.sequence \in nextSeq[z]..(nextSeq[z] + n - 1)
          /\ \A q \in nextSeq[z]..(nextSeq[z] + n - 1) :
               \E h \in events' : h.session = z /\ h.op = o /\ h.sequence = q
          /\ \A h \in events', k \in events' :
               h \notin events /\ k \notin events /\ h.sequence = k.sequence => h = k
      BY <1>inv, <1>6, <2>z, AppendedEvents
    <2>2. n \in Nat
      BY BoundsAssumption
    <2>3. /\ op'[o].session = z /\ op'[o].position = op[o].position
          /\ op'[o].phase \notin {"absent", "queued"}
      BY <1>1, <1>6, <2>z DEF PlacesKept, Live
    <2>4. \A h \in events : h.session = z => op[h.op].position <= op[o].position
      <3> SUFFICES ASSUME NEW h \in events, h.session = z, ~(op[h.op].position <= op[o].position)
                   PROVE  FALSE
        OBVIOUS
      <3>1. op[o].position \in Nat /\ op[h.op].position \in Nat /\ h.op \in Ops
        BY <1>inv, <1>ev DEF TypeOK, OpRow
      <3>2. op[o].position < op[h.op].position
        BY <3>1
      <3>3. op[o].outcome # "none"
        BY <1>ev, <2>z, <3>1, <3>2 DEF SInv, RowsInv, AdmissionOrder
      <3> QED BY <1>6, <3>3 DEF SInv, RowsInv, OutcomesAgree, Live, Terminal
    <2>5. \A h \in events' : op'[h.op].session = h.session /\ op'[h.op].phase \notin {"absent", "queued"}
      BY <1>2, <2>1, <2>3
    <2>6. ASSUME NEW s \in Sessions, s # z PROVE Numbered(s)' /\ Ordered(s)'
      <3>1. HistoryOf(s)' = HistoryOf(s)
        BY <2>1, <2>6 DEF HistoryOf
      <3>2. nextSeq'[s] = nextSeq[s]
        BY <2>1, <2>6
      <3> QED BY <1>2, <1>3, <3>1, <3>2 DEF Numbered, Ordered, HistoryOf
    <2>7. \A h \in HistoryOf(z)' : \/ h \in HistoryOf(z) /\ h.sequence \in 0..(nextSeq[z] - 1)
                                   \/ /\ h \notin events /\ h.op = o
                                      /\ h.sequence \in nextSeq[z]..(nextSeq[z] + n - 1)
      BY <1>3, <1>6, <2>1 DEF Numbered, HistoryOf
    <2>old. \A h \in HistoryOf(z)' : /\ h.sequence \in Nat
                                     /\ h \in HistoryOf(z) <=> h.sequence < nextSeq[z]
                                     /\ h \notin HistoryOf(z) => h \notin events
      <3>1. \A h \in HistoryOf(z) : h \in events
        BY DEF HistoryOf
      <3> QED BY <2>1, <2>2, <2>7, <3>1
    <2>8. Numbered(z)'
      <3>1. \A h \in HistoryOf(z)' : h.sequence \in 0..(nextSeq'[z] - 1)
        BY <2>1, <2>2, <2>7
      <3>2. ASSUME NEW q \in 0..(nextSeq'[z] - 1) PROVE \E h \in HistoryOf(z)' : h.sequence = q
        <4>1. CASE q \in 0..(nextSeq[z] - 1)
          BY <1>3, <1>6, <2>1, <4>1 DEF Numbered, HistoryOf
        <4>2. CASE q \in nextSeq[z]..(nextSeq[z] + n - 1)
          BY <2>1, <4>2 DEF HistoryOf
        <4> QED BY <2>1, <2>2, <4>1, <4>2
      <3>3. ASSUME NEW h \in HistoryOf(z)', NEW k \in HistoryOf(z)', h.sequence = k.sequence PROVE h = k
        <4>1. h \in events' /\ k \in events'
          BY DEF HistoryOf
        <4>2. (h \in HistoryOf(z) /\ k \in HistoryOf(z)) \/ (h \notin events /\ k \notin events)
          <5>1. /\ h \in HistoryOf(z) <=> h.sequence < nextSeq[z]
                /\ k \in HistoryOf(z) <=> k.sequence < nextSeq[z]
                /\ h \notin HistoryOf(z) => h \notin events
                /\ k \notin HistoryOf(z) => k \notin events
            BY <2>old
          <5> QED BY <3>3, <5>1
        <4> QED BY <1>3, <1>6, <2>1, <3>3, <4>1, <4>2 DEF Numbered
      <3> QED BY <3>1, <3>2, <3>3 DEF Numbered
    <2>9. Ordered(z)'
      <3> SUFFICES ASSUME NEW h \in HistoryOf(z)', NEW k \in HistoryOf(z)', h.sequence < k.sequence
                   PROVE  op'[h.op].position <= op'[k.op].position
        BY DEF Ordered
      <3>0. op[o].position \in Nat
        BY <1>inv DEF TypeOK, OpRow
      <3>1. CASE h \in HistoryOf(z) /\ k \in HistoryOf(z)
        BY <1>2, <1>3, <1>6, <3>1 DEF Ordered, HistoryOf
      <3>2. CASE h \in HistoryOf(z) /\ k \notin HistoryOf(z)
        BY <1>2, <2>3, <2>4, <2>7, <3>2 DEF HistoryOf
      <3>3. CASE h \notin HistoryOf(z) /\ k \notin HistoryOf(z)
        BY <2>3, <2>7, <3>0, <3>3
      <3>4. h \notin HistoryOf(z) => k \notin HistoryOf(z)
        BY <2>1, <2>old
      <3> QED BY <3>1, <3>2, <3>3, <3>4
    <2> QED BY <2>5, <2>6, <2>8, <2>9
  <1> QED BY <1>5, <1>6, NextHistoryStep DEF HistoryStep

(* It holds initially.                                                       *)
LEMMA InitHistories == Init => HInv
  <1> SUFFICES ASSUME Init PROVE HInv
    OBVIOUS
  <1>1. events = {} /\ \A s \in Sessions : nextSeq[s] = 0
    BY DEF Init
  <1>2. GaplessHistory
    BY <1>1 DEF GaplessHistory
  <1> QED BY <1>1, <1>2 DEF HInv

(* Histories, for every value of the constants.                              *)
THEOREM HistoriesInvariant == Spec => []HInv
  <1>1. IInv /\ SInv /\ HInv /\ [Next]_vars => HInv'
    BY NextHistories
  <1> QED BY <1>1, InitHistories, SessionsInvariant, Invariance, PTL DEF Spec

(* append_events and its cursor: a reader of a session sees every event once *)
(* and in order, and an operation's events before those of a later one.      *)
THEOREM HistoryGapless == Spec => []GaplessHistory
  <1>1. HInv => GaplessHistory
    BY DEF HInv
  <1> QED BY <1>1, HistoriesInvariant, PTL
-----------------------------------------------------------------------------
(* The kernel implements the session contract. *)

(* A step that changes no history.                                           *)
LEMMA HistoryStays ==
    ASSUME UNCHANGED <<events, nextSeq>>
    PROVE  HistoryBar' = HistoryBar
  BY DEF HistoryBar, EventAt

(* An event is found by its number.                                          *)
LEMMA EventFound ==
    ASSUME NEW s \in Sessions, Numbered(s), NEW h \in events, h.session = s,
           h.sequence \in 0..(nextSeq[s] - 1)
    PROVE  EventAt(s, h.sequence) = h
  <1>1. \A k \in events : k.session = s /\ k.sequence = h.sequence => k = h
    BY DEF Numbered, HistoryOf
  <1> QED BY <1>1 DEF EventAt

(* A history as a sequence of operations.                                    *)
LEMMA HistorySequence ==
    ASSUME NEW f \in Seq(Ops), NEW t \in Seq(Ops), NEW g \in Seq(Ops),
           Len(g) = Len(f) + Len(t),
           \A i \in 1..Len(f) : g[i] = f[i],
           \A i \in 1..Len(t) : g[Len(f) + i] = t[i]
    PROVE  g = f \o t
  <1>1. /\ f \o t \in Seq(Ops) /\ Len(f \o t) = Len(f) + Len(t)
        /\ \A i \in 1..(Len(f) + Len(t)) : (f \o t)[i] = IF i <= Len(f) THEN f[i] ELSE t[i - Len(f)]
    BY ConcatProperties
  <1>2. ASSUME NEW i \in 1..(Len(f) + Len(t)) PROVE g[i] = (f \o t)[i]
    <2>1. CASE i <= Len(f)
      BY <1>1, <2>1
    <2>2. CASE ~(i <= Len(f))
      <3>1. i - Len(f) \in 1..Len(t) /\ Len(f) + (i - Len(f)) = i
        BY <2>2
      <3> QED BY <1>1, <2>2, <3>1
    <2> QED BY <2>1, <2>2
  <1> QED BY <1>1, <1>2, SeqEqual

(* An append extends the history of its session by its operation.            *)
LEMMA HistoryAppends ==
    ASSUME TypeOK, TypeOK', \A x \in Sessions : Numbered(x) /\ Numbered(x)',
           NEW s \in Sessions, NEW o \in Ops, NEW n \in 0..MaxAppend, AppendEvents(s, o, n)
    PROVE  HistoryBar' = [HistoryBar EXCEPT ![s] = @ \o [i \in 1..n |-> o]]
  <1> DEFINE f(x) == [i \in 1..nextSeq[x] |-> EventAt(x, i - 1).op]
             g(x) == [i \in 1..nextSeq'[x] |-> EventAt(x, i - 1)'.op]
  <1>n. n \in Nat
    BY BoundsAssumption
  <1>m. \A x \in Sessions : nextSeq[x] \in Nat /\ nextSeq'[x] \in Nat
    BY DEF TypeOK
  <1>1. /\ nextSeq'[s] = nextSeq[s] + n
        /\ \A x \in Sessions : x # s => nextSeq'[x] = nextSeq[x]
        /\ events \subseteq events'
        /\ \A q \in nextSeq[s]..(nextSeq[s] + n - 1) :
             \E h \in events' : h.session = s /\ h.op = o /\ h.sequence = q
    BY AppendedEvents
  <1>2. ASSUME NEW x \in Sessions, NEW q \in 0..(nextSeq[x] - 1)
        PROVE  EventAt(x, q).op \in Ops /\ EventAt(x, q)'.op = EventAt(x, q).op
    <2>1. PICK h \in events : h.session = x /\ h.sequence = q
      BY DEF Numbered, HistoryOf
    <2>2. EventAt(x, q) = h
      BY <2>1, EventFound
    <2>3. h \in events' /\ q \in 0..(nextSeq'[x] - 1)
      BY <1>1, <1>m, <1>n
    <2>4. \A k \in events' : k.session = x /\ k.sequence = q => k = h
      BY <2>1, <2>3 DEF Numbered, HistoryOf
    <2>5. EventAt(x, q)' = h
      BY <2>1, <2>3, <2>4 DEF EventAt
    <2> QED BY <2>2, <2>5 DEF TypeOK, Event
  <1>3. ASSUME NEW q \in nextSeq[s]..(nextSeq[s] + n - 1)
        PROVE  EventAt(s, q)'.op = o
    <2>1. PICK h \in events' : h.session = s /\ h.op = o /\ h.sequence = q
      BY <1>1
    <2>2. \A k \in events' : k.session = s /\ k.sequence = q => k = h
      BY <2>1 DEF Numbered, HistoryOf
    <2> QED BY <2>1, <2>2 DEF EventAt
  <1>4. HistoryBar = [x \in Sessions |-> f(x)] /\ HistoryBar' = [x \in Sessions |-> g(x)]
    BY DEF HistoryBar
  <1>5. ASSUME NEW x \in Sessions, x # s PROVE g(x) = f(x)
    BY <1>1, <1>2, <1>5, <1>m
  <1>6. g(s) = f(s) \o [i \in 1..n |-> o]
    <2> DEFINE m == nextSeq[s]
               t == [i \in 1..n |-> o]
    <2>0. m \in Nat /\ nextSeq'[s] = m + n
      BY <1>1, <1>m
    <2>1. \A i \in 1..m : i - 1 \in 0..(m - 1)
      BY <2>0
    <2>2. \A i \in (m + 1)..(m + n) : i - 1 \in m..(m + n - 1)
      BY <1>n, <2>0
    <2>3. \A i \in 1..m : f(s)[i] \in Ops /\ g(s)[i] = f(s)[i]
      BY <1>2, <1>n, <2>0, <2>1
    <2>4. \A i \in (m + 1)..(m + n) : g(s)[i] = o
      BY <1>3, <1>n, <2>0, <2>2
    <2>5. f(s) \in [1..m -> Ops]
      BY <1>2, <2>1
    <2>6. g(s) \in [1..(m + n) -> Ops]
      <3>1. \A i \in 1..(m + n) : i \in 1..m \/ i \in (m + 1)..(m + n)
        BY <1>n, <2>0
      <3>2. \A i \in 1..(m + n) : g(s)[i] \in Ops
        BY <2>3, <2>4, <3>1
      <3> QED BY <2>0, <3>2
    <2>7. t \in [1..n -> Ops] /\ \A i \in 1..n : t[i] = o
      OBVIOUS
    <2> HIDE DEF f, g, m, t
    <2>8. /\ f(s) \in Seq(Ops) /\ Len(f(s)) = m /\ g(s) \in Seq(Ops) /\ Len(g(s)) = m + n
          /\ t \in Seq(Ops) /\ Len(t) = n
      BY <1>n, <2>0, <2>5, <2>6, <2>7
    <2>9. g(s) = f(s) \o t
      <3>1. \A i \in 1..n : g(s)[m + i] = t[i]
        BY <1>n, <2>0, <2>4, <2>7
      <3> QED BY <2>3, <2>8, <3>1, HistorySequence
    <2> QED BY <2>9 DEF t
  <1> HIDE DEF f, g
  <1> QED BY <1>4, <1>5, <1>6
-----------------------------------------------------------------------------
(* What a step is for the rows a Host sees: nothing, an admission, a request, *)
(* an activation, a transaction of a turn, or the end of an operation.        *)
Unseen == UNCHANGED <<op, nextPos, cancel, events, nextSeq>>
Turning(w) ==
    /\ RowsMove(w) /\ worker[w].op \in Ops
    /\ op' # op => op[worker[w].op].phase # "outcome_unknown"
    /\ UNCHANGED <<events, nextSeq>>
StepShape ==
    \/ Unseen
    \/ \E o \in Ops, s \in Sessions : Admit(o, s)
    \/ \E i \in CancelIds, o \in Ops : RequestCancellation(i, o)
    \/ \E w \in Workers : \/ \E o \in Ops : ActivateNext(w, o)
                          \/ Turning(w)
                          \/ \E n \in 0..MaxAppend : DecideAppend(w, n) \/ Ending(w, n)

(* A turn's transactions on a batch leave a blocked operation alone.          *)
LEMMA TurningSteps ==
    ASSUME IInv, NEW w \in Workers,
           \/ \E r \in Batch : DecideEffects(w, r)
           \/ PrepareEffectBatch(w) \/ FinishWithoutInvocations(w)
           \/ \E d \in worker[w].inbox : SettleBatchEffect(w, d) \/ RecordBatchEffectUnknown(w, d)
           \/ FinishEffectBatchAttempt(w)
           \/ LoadCancellation(w)
    PROVE  Turning(w)
  <1>1. RowsMove(w)
    BY DecidingGoesOn, PreparingGoesOn, CompletingGoesOn
  <1>2. UNCHANGED <<events, nextSeq>>
    BY DEF DecideEffects, PrepareEffectBatch, FinishWithoutInvocations, SettleBatchEffect,
           RecordBatchEffectUnknown, Receive, FinishEffectBatchAttempt, LoadCancellation
  <1>3. worker[w].pc \notin {"idle", "activate"}
    BY DEF DecideEffects, MayDecide, PrepareEffectBatch, FinishWithoutInvocations, MayPrepare,
           SettleBatchEffect, RecordBatchEffectUnknown, FinishEffectBatchAttempt, AttemptsDone,
           LoadCancellation
  <1>4. worker[w].op \in Ops
    BY <1>3, CallerFacts DEF IInv
  <1>5. op' # op => op[worker[w].op].phase # "outcome_unknown"
    BY DEF DecideEffects, MayDecide, PrepareEffectBatch, FinishWithoutInvocations, MayPrepare,
           SettleBatchEffect, RecordBatchEffectUnknown, Receive, MayRecord,
           FinishEffectBatchAttempt, LoadCancellation
  <1> QED BY <1>1, <1>2, <1>4, <1>5 DEF Turning

(* Every step has one of these shapes.                                        *)
LEMMA NextShape == ASSUME IInv, [Next]_vars PROVE StepShape
  <1>1. CASE \E o \in Ops, s \in Sessions : Submit(o, s) \/ SubmitExclusive(o, s)
    BY <1>1, Zenon DEF Submit, SubmitExclusive, StepShape
  <1>2. CASE \E i \in CancelIds, o \in Ops : RequestCancellation(i, o)
    BY <1>2, Zenon DEF StepShape
  <1>3. ASSUME NEW w \in Workers, DriveStep(w) \/ AbandonStep(w) \/ DriveEnds(w)
        PROVE  StepShape
    <2>1. \/ Unseen
          \/ \E o \in Ops : ActivateNext(w, o)
          \/ LoadCancellation(w)
          \/ \E n \in 0..MaxAppend : DecideAppend(w, n) \/ Ending(w, n)
          \/ \E r \in Batch : DecideEffects(w, r)
          \/ PrepareEffectBatch(w) \/ FinishWithoutInvocations(w)
          \/ \E d \in worker[w].inbox : SettleBatchEffect(w, d) \/ RecordBatchEffectUnknown(w, d)
          \/ FinishEffectBatchAttempt(w)
      BY <1>3, Zenon DEF DriveStep, AbandonStep, DriveEnds, Ending, ActivateOwned, DriveIdle, Bind,
            LoadActive, NoCancellation, DriveBlocked, YieldToCancellation, SpawnEffect, LeaveForReplay,
            LoadPendingAbandonment, NothingToAbandon, AbandonRefused, durable, Unseen
    <2>2. CASE Unseen
      BY <2>2 DEF StepShape
    <2>3. CASE \/ \E o \in Ops : ActivateNext(w, o)
               \/ \E n \in 0..MaxAppend : DecideAppend(w, n) \/ Ending(w, n)
      BY <2>3, Zenon DEF StepShape
    <2>4. CASE Turning(w)
      BY <2>4, Zenon DEF StepShape
    <2> QED BY <2>1, <2>2, <2>3, <2>4, TurningSteps, Zenon
  <1>4. CASE \/ UNCHANGED vars
             \/ \E i \in CancelIds : RetryCancellation(i)
             \/ \E o \in Ops : SignalRunningOperation(o)
             \/ \E w \in Workers, s \in Sessions, m \in Manifests : Drive(w, s, m)
             \/ \E w \in Workers, o \in Ops, m \in Manifests : Abandon(w, o, m)
             \/ \E t \in tasks, r \in {"settled", "unknown"} : AdapterResolves(t, r)
             \/ Crash
    <2>1. Unseen
      BY <1>4, Zenon DEF Unseen, vars, RetryCancellation, SignalRunningOperation, Drive,
                         Abandon, AdapterResolves, Crash, durable
    <2> QED BY <2>1 DEF StepShape
  <1> QED BY <1>1, <1>2, <1>3, <1>4, Zenon DEF Next

(* What a write to one row is to the Host.                                    *)
LEMMA OneBar ==
    ASSUME TypeOK, NEW o \in Ops, NEW q, op' = [op EXCEPT ![o] = q],
           q.session = op[o].session, q.position = op[o].position
    PROVE  /\ SessionBar' = SessionBar /\ PositionBar' = PositionBar
           /\ StatusBar' = [StatusBar EXCEPT ![o] = Status(q.phase)]
  <1>1. op'[o] = q /\ \A p \in Ops : p # o => op'[p] = op[p]
    BY DEF TypeOK
  <1>2. SessionBar' = SessionBar /\ PositionBar' = PositionBar
    BY <1>1 DEF SessionBar, PositionBar
  <1>3. StatusBar' = [StatusBar EXCEPT ![o] = Status(q.phase)]
    <2>1. /\ StatusBar = [p \in Ops |-> Status(op[p].phase)]
          /\ StatusBar' = [p \in Ops |-> Status(op'[p].phase)]
      BY DEF StatusBar, Status
    <2> QED BY <1>1, <2>1
  <1> QED BY <1>2, <1>3

(* A transaction of a turn, to the Host.                                      *)
LEMMA TurnBar ==
    ASSUME TypeOK, TypeOK', NEW w \in Workers, RowsMove(w), worker[w].op \in Ops
    PROVE  /\ SessionBar' = SessionBar /\ PositionBar' = PositionBar /\ RequestedBar' = RequestedBar
           /\ StatusBar' = [StatusBar EXCEPT ![worker[w].op] = Status(op'[worker[w].op].phase)]
  <1>1. PICK o \in Ops : o = worker[w].op
    OBVIOUS
  <1>2. PICK q : q = op'[o]
    OBVIOUS
  <1>3. q.session = op[o].session /\ q.position = op[o].position
    <2>1. CASE op' = op
      BY <1>2, <2>1
    <2>2. CASE op' # op
      BY <1>1, <1>2, <2>2 DEF RowsMove, KeepsPlace
    <2> QED BY <2>1, <2>2
  <1>4. op' = [op EXCEPT ![o] = q]
    BY <1>1, <1>2 DEF RowsMove, TypeOK
  <1>5. RequestedBar' = RequestedBar
    BY DEF RowsMove, RequestedBar, Requested
  <1> QED BY <1>1, <1>2, <1>3, <1>4, <1>5, OneBar

(* What a Host sees is one value per operation, request and session.          *)
LEMMA BarFacts ==
    ASSUME NEW o \in Ops
    PROVE  /\ SessionBar[o] = op[o].session /\ PositionBar[o] = op[o].position
           /\ StatusBar[o] = Status(op[o].phase) /\ (o \in RequestedBar <=> Requested(o))
  BY DEF SessionBar, PositionBar, StatusBar, RequestedBar

(* OperationPhase::status, phase by phase.                                    *)
LEMMA StatusOf ==
    /\ Status("absent") = "absent" /\ Status("queued") = "queued"
    /\ Status("outcome_unknown") = "outcome_unknown"
    /\ \A p \in Live \ {"outcome_unknown"} : Status(p) = "running"
    /\ \A p \in Terminal : Status(p) = p
    /\ \A p \in Phases : Status(p) \in {"running", "outcome_unknown"} => p \in Live
    /\ \A p \in Phases : Status(p) \notin Terminal => p \notin Terminal
  BY DEF Status, Live, Terminal, Phases

(* An unseen step is none for the contract.                                   *)
LEMMA ContractUnseen == ASSUME Unseen PROVE UNCHANGED Contract!vars
  <1>1. HistoryBar' = HistoryBar
    BY HistoryStays DEF Unseen
  <1>2. SessionBar' = SessionBar /\ PositionBar' = PositionBar /\ StatusBar' = StatusBar
    BY DEF Unseen, SessionBar, PositionBar, StatusBar, Status
  <1>3. RequestedBar' = RequestedBar
    BY DEF Unseen, RequestedBar, Requested
  <1> QED BY <1>1, <1>2, <1>3 DEF Contract!vars

(* submit and submit_exclusive issue the next position of the session.        *)
LEMMA ContractAdmit ==
    ASSUME TypeOK, CInv, NEW o \in Ops, NEW s \in Sessions, Admit(o, s)
    PROVE  Contract!Admit(o, s)
  <1>1. /\ op' = [op EXCEPT ![o] = NewRow(s)] /\ op[o].phase = "absent"
        /\ UNCHANGED <<events, nextSeq, cancel>>
    BY DEF Admit
  <1>2. NewRow(s).session = s /\ NewRow(s).position = nextPos[s] /\ NewRow(s).phase = "queued"
    BY DEF NewRow, NoRow
  <1>3. op'[o] = NewRow(s) /\ \A p \in Ops : p # o => op'[p] = op[p]
    BY <1>1 DEF TypeOK
  <1>4. /\ SessionBar' = [SessionBar EXCEPT ![o] = s]
        /\ PositionBar' = [PositionBar EXCEPT ![o] = nextPos[s]]
    BY <1>2, <1>3 DEF SessionBar, PositionBar
  <1>5. StatusBar' = [StatusBar EXCEPT ![o] = "queued"]
    <2>1. /\ StatusBar = [p \in Ops |-> Status(op[p].phase)]
          /\ StatusBar' = [p \in Ops |-> Status(op'[p].phase)]
      BY DEF StatusBar, Status
    <2> QED BY <1>2, <1>3, <2>1, StatusOf
  <1>6. RequestedBar' = RequestedBar /\ HistoryBar' = HistoryBar
    BY <1>1, HistoryStays DEF RequestedBar, Requested
  <1>7. StatusBar[o] = "absent"
    BY <1>1, BarFacts, StatusOf
  <1>8. Contract!Of(s) = AdmittedTo(s)
    BY BarFacts DEF Contract!Of, AdmittedTo
  <1>9. PositionBar' = [PositionBar EXCEPT ![o] = Cardinality(Contract!Of(s))]
    BY <1>4, <1>8 DEF CInv
  <1>10. SessionBar' = [SessionBar EXCEPT ![o] = s]
    BY <1>4
  <1> QED BY <1>5, <1>6, <1>7, <1>9, <1>10, Zenon DEF Contract!Admit, Contract!Cardinality, Cardinality

(* request_cancellation is a request for an operation without an outcome.     *)
LEMMA ContractRequest ==
    ASSUME TypeOK, NEW i \in CancelIds, NEW o \in Ops, RequestCancellation(i, o)
    PROVE  Contract!Request(o)
  <1>1. /\ cancel' = [cancel EXCEPT ![i] = o] /\ cancel[i] = Null
        /\ UNCHANGED <<op, events, nextSeq>>
        /\ op[o].phase \in {"queued"} \cup Live
    BY DEF RequestCancellation, IsCancellable
  <1>2. StatusBar[o] \in {"queued"} \cup Contract!Holding
    BY <1>1, BarFacts, StatusOf DEF Contract!Holding
  <1>3. HistoryBar' = HistoryBar
    BY <1>1, HistoryStays
  <1>4. SessionBar' = SessionBar /\ PositionBar' = PositionBar /\ StatusBar' = StatusBar
    BY <1>1 DEF SessionBar, PositionBar, StatusBar, Status
  <1>5. RequestedBar' = RequestedBar \cup {o}
    <2>1. cancel'[i] = o /\ \A j \in CancelIds : j # i => cancel'[j] = cancel[j]
      BY <1>1 DEF TypeOK
    <2>2. ASSUME NEW p \in Ops PROVE Requested(p)' <=> Requested(p) \/ p = o
      BY <1>1, <2>1, NullAssumption DEF Requested
    <2> QED BY <2>2 DEF RequestedBar
  <1> QED BY <1>2, <1>3, <1>4, <1>5 DEF Contract!Request

(* activate_next starts the first queued operation of a free session.         *)
LEMMA ContractStart ==
    ASSUME IInv, SInv, NEW w \in Workers, NEW o \in Ops, ActivateNext(w, o)
    PROVE  Contract!Start(o)
  <1>inv. TypeOK
    BY DEF IInv
  <1> DEFINE q == Activated(op[o], worker[w].manifest)
  <1>1. /\ op' = [op EXCEPT ![o] = q] /\ op[o] \in OpRow
        /\ UNCHANGED <<events, nextSeq, cancel>>
    BY <1>inv DEF ActivateNext, TypeOK
  <1>2. /\ op[o].phase = "queued" /\ op[o].session = worker[w].session
        /\ active[op[o].session] = Null
        /\ \A p \in Ops : op[p].session = op[o].session /\ op[p].phase = "queued" =>
             op[o].position <= op[p].position
    BY DEF ActivateNext, NextQueued, Queued
  <1>3. q.session = op[o].session /\ q.position = op[o].position /\ q.phase = "need_decision"
    BY <1>1, ActivatedRow
  <1> HIDE DEF q
  <1>4. /\ SessionBar' = SessionBar /\ PositionBar' = PositionBar
        /\ StatusBar' = [StatusBar EXCEPT ![o] = Status(q.phase)]
    BY <1>inv, <1>1, <1>3, OneBar
  <1>5. Status(q.phase) = "running" /\ StatusBar[o] = "queued"
    BY <1>2, <1>3, BarFacts, StatusOf DEF Live
  <1>6. RequestedBar' = RequestedBar /\ HistoryBar' = HistoryBar
    BY <1>1, HistoryStays DEF RequestedBar, Requested
  <1>7. ASSUME NEW p \in Ops, op[p].session = op[o].session
        PROVE  IF op[p].position < op[o].position
                 THEN StatusBar[p] \in Contract!Ended ELSE StatusBar[p] \notin Contract!Holding
    <2>1. op[p].phase \notin Live
      BY <1>2, <1>7, NullAssumption DEF SInv, RowsInv, ActiveIsLive
    <2>2. op[p] \in OpRow /\ op[p].position \in Nat /\ op[o].position \in Nat /\ op[p].phase \in Phases
      BY <1>inv DEF TypeOK, OpRow
    <2>3. op[p].phase # "absent"
      BY <1>2, <1>7 DEF IInv, RowsAgree
    <2>4. op[p].position < op[o].position => op[p].phase # "queued"
      BY <1>2, <1>7, <2>2
    <2>5. op[p].phase \in Terminal => StatusBar[p] \in Contract!Ended /\ StatusBar[p] \notin Contract!Holding
      BY BarFacts, StatusOf DEF Contract!Ended, Contract!Holding, Terminal
    <2>6. op[p].phase = "queued" => StatusBar[p] \notin Contract!Holding
      BY BarFacts, StatusOf DEF Contract!Holding
    <2> QED BY <2>1, <2>2, <2>3, <2>4, <2>5, <2>6 DEF Phases
  <1>8. \A p \in Contract!Of(SessionBar[o]) :
          IF PositionBar[p] < PositionBar[o]
            THEN StatusBar[p] \in Contract!Ended ELSE StatusBar[p] \notin Contract!Holding
    BY <1>7, BarFacts DEF Contract!Of
  <1> QED BY <1>4, <1>5, <1>6, <1>8 DEF Contract!Start, Contract!Becomes

(* A transaction on a batch blocks the operation on an unknown child, or is   *)
(* not seen.                                                                  *)
LEMMA ContractTurn ==
    ASSUME TypeOK, TypeOK', NEW w \in Workers, Turning(w)
    PROVE  Contract!Block(worker[w].op) \/ UNCHANGED Contract!vars
  <1>1. PICK o \in Ops : o = worker[w].op
    BY DEF Turning
  <1>2. /\ SessionBar' = SessionBar /\ PositionBar' = PositionBar /\ RequestedBar' = RequestedBar
        /\ StatusBar' = [StatusBar EXCEPT ![o] = Status(op'[o].phase)]
    BY <1>1, TurnBar DEF Turning
  <1>3. HistoryBar' = HistoryBar
    BY HistoryStays DEF Turning
  <1>4. StatusBar = [StatusBar EXCEPT ![o] = StatusBar[o]]
    BY DEF StatusBar
  <1>5. CASE Status(op'[o].phase) = StatusBar[o]
    BY <1>2, <1>3, <1>4, <1>5 DEF Contract!vars
  <1>6. CASE Status(op'[o].phase) # StatusBar[o]
    <2>1. op' # op
      BY <1>6, BarFacts
    <2>2. op[o].phase \in Live \ {"outcome_unknown"} /\ op'[o].phase \in Live
      BY <1>1, <2>1 DEF Turning, RowsMove
    <2>3. StatusBar[o] = "running" /\ Status(op'[o].phase) = "outcome_unknown"
      BY <1>6, <2>2, BarFacts, StatusOf DEF Live
    <2>4. Contract!Block(o)
      BY <1>2, <1>3, <2>3 DEF Contract!Block, Contract!Becomes
    <2> QED BY <1>1, <2>4
  <1> QED BY <1>5, <1>6

(* A decision that continues appends for the operation that runs.             *)
LEMMA ContractContinue ==
    ASSUME IInv, TypeOK', \A x \in Sessions : Numbered(x) /\ Numbered(x)',
           NEW w \in Workers, NEW n \in 0..MaxAppend, DecideAppend(w, n)
    PROVE  \E o \in Ops : Contract!Continue(o, n)
  <1>inv. TypeOK
    BY DEF IInv
  <1>1. /\ worker[w].pc = "step" /\ op[worker[w].op].phase = "need_decision"
        /\ ~Requested(worker[w].op) /\ AppendEvents(worker[w].session, worker[w].op, n)
        /\ op' = [op EXCEPT ![worker[w].op] = Continued(op[worker[w].op])]
    BY DEF DecideAppend, MayDecide
  <1>2. PICK o \in Ops : o = worker[w].op /\ op[o].session = worker[w].session /\ op[o].session \in Sessions
    BY <1>1, CallerFacts DEF IInv
  <1>3. RowsMove(w)
    BY DecidingGoesOn
  <1>4. /\ SessionBar' = SessionBar /\ PositionBar' = PositionBar /\ RequestedBar' = RequestedBar
        /\ StatusBar' = [StatusBar EXCEPT ![o] = Status(op'[o].phase)]
    BY <1>inv, <1>2, <1>3, TurnBar
  <1>5. op'[o].phase = "need_decision"
    <2>1. op[o] \in OpRow /\ op'[o] = Continued(op[o])
      BY <1>inv, <1>1, <1>2 DEF TypeOK
    <2> QED BY <1>1, <1>2, <2>1, ContinuedRow
  <1>6. StatusBar[o] = "running" /\ Status(op'[o].phase) = "running" /\ o \notin RequestedBar
        /\ SessionBar[o] = op[o].session
    BY <1>1, <1>2, <1>5, BarFacts, StatusOf DEF Live
  <1>7. StatusBar' = StatusBar
    <2>1. StatusBar = [StatusBar EXCEPT ![o] = StatusBar[o]]
      BY DEF StatusBar
    <2> QED BY <1>4, <1>6, <2>1
  <1>8. HistoryBar' = [HistoryBar EXCEPT ![SessionBar[o]] = @ \o [i \in 1..n |-> o]]
    <2>1. AppendEvents(SessionBar[o], o, n) /\ SessionBar[o] \in Sessions
      BY <1>1, <1>2, <1>6
    <2> QED BY <1>inv, <2>1, HistoryAppends, Zenon
  <1> QED BY <1>4, <1>6, <1>7, <1>8 DEF Contract!Continue, Contract!Appends

(* The end of an operation: a decision, a cancellation, or an abandonment.    *)
LEMMA ContractEnd ==
    ASSUME IInv, TypeOK', \A x \in Sessions : Numbered(x) /\ Numbered(x)',
           NEW w \in Workers, NEW n \in 0..MaxAppend, Ending(w, n)
    PROVE  \E o \in Ops : \/ Contract!Abandon(o, n) \/ Contract!Cancel(o, n)
                          \/ \E st \in Contract!Ended \ {"cancelled"} : Contract!Finish(o, st, n)
  <1>inv. TypeOK
    BY DEF IInv
  <1>1. /\ op[worker[w].op].phase \in Live
        /\ AppendEvents(worker[w].session, worker[w].op, n) /\ UNCHANGED cancel
    BY EndingFacts
  <1>2. PICK o \in Ops : o = worker[w].op /\ op[o].session = worker[w].session /\ op[o].session \in Sessions
    BY EndingFacts
  <1>3. ASSUME NEW p \in Terminal, NEW x \in Outcomes, NEW c \in Batches \cup {0}, FinishOperation(o, p, x, c)
        PROVE  /\ SessionBar' = SessionBar /\ PositionBar' = PositionBar
               /\ StatusBar' = [StatusBar EXCEPT ![o] = p]
    <2> DEFINE q == Ended(op[o], p, x, c)
    <2>1. op' = [op EXCEPT ![o] = q] /\ op[o] \in OpRow
      BY <1>inv, <1>3 DEF FinishOperation, TypeOK
    <2>2. q.session = op[o].session /\ q.position = op[o].position /\ q.phase = p
      BY <2>1, EndedRow
    <2> HIDE DEF q
    <2>3. /\ SessionBar' = SessionBar /\ PositionBar' = PositionBar
          /\ StatusBar' = [StatusBar EXCEPT ![o] = Status(q.phase)]
      BY <1>inv, <2>1, <2>2, OneBar
    <2> QED BY <2>2, <2>3, StatusOf
  <1>4. RequestedBar' = RequestedBar
    BY <1>1 DEF RequestedBar, Requested
  <1>5. SessionBar[o] = op[o].session /\ (o \in RequestedBar <=> Requested(o))
        /\ StatusBar[o] = Status(op[o].phase)
    BY BarFacts
  <1>6. Contract!Appends(o, n)
    <2>1. HistoryBar' = [HistoryBar EXCEPT ![SessionBar[o]] = @ \o [i \in 1..n |-> o]]
      <3>1. AppendEvents(SessionBar[o], o, n) /\ SessionBar[o] \in Sessions
        BY <1>1, <1>2, <1>5
      <3> QED BY <1>inv, <3>1, HistoryAppends, Zenon
    <2> QED BY <2>1 DEF Contract!Appends
  <1>7. /\ {"cancelled", "failed"} \subseteq Terminal /\ {"cancelled", "abandoned"} \subseteq Outcomes
        /\ Terminal \subseteq Outcomes /\ Terminal = Contract!Ended
        /\ op[o].current \in Batches \cup {0} /\ 0 \in Batches \cup {0}
    BY <1>inv DEF Terminal, Outcomes, Contract!Ended, TypeOK, OpRow
  <1>8. CASE CommitCancellation(w, n)
    <2>1. Requested(o) /\ FinishOperation(o, "cancelled", "cancelled", 0)
      BY <1>2, <1>8 DEF CommitCancellation
    <2>2. StatusBar[o] \in Contract!Holding
      BY <1>1, <1>2, <1>5, StatusOf DEF Contract!Holding
    <2>3. Contract!Becomes(o, "cancelled")
      BY <1>3, <1>4, <1>7, <2>1 DEF Contract!Becomes
    <2> QED BY <1>5, <1>6, <2>1, <2>2, <2>3 DEF Contract!Cancel
  <1>9. CASE CommitAbandonment(w, n)
    <2>1. /\ ~Requested(o) /\ op[o].phase = "outcome_unknown"
          /\ FinishOperation(o, "failed", "abandoned", 0)
      BY <1>2, <1>9 DEF CommitAbandonment
    <2>2. StatusBar[o] = "outcome_unknown"
      BY <1>5, <2>1, StatusOf
    <2>3. Contract!Becomes(o, "failed")
      BY <1>3, <1>4, <1>7, <2>1 DEF Contract!Becomes
    <2> QED BY <1>5, <1>6, <2>1, <2>2, <2>3 DEF Contract!Abandon
  <1>10. ASSUME NEW p \in Terminal \ {"cancelled"}, DecideFinish(w, p, n)
         PROVE  \E st \in Contract!Ended \ {"cancelled"} : Contract!Finish(o, st, n)
    <2>1. /\ ~Requested(o) /\ op[o].phase = "need_decision"
          /\ FinishOperation(o, p, p, op[o].current)
      BY <1>2, <1>10 DEF DecideFinish, MayDecide
    <2>2. StatusBar[o] = "running"
      BY <1>5, <2>1, StatusOf DEF Live
    <2>3. Contract!Becomes(o, p)
      BY <1>3, <1>4, <1>7, <2>1 DEF Contract!Becomes
    <2>4. Contract!Finish(o, p, n)
      BY <1>5, <1>6, <2>1, <2>2, <2>3 DEF Contract!Finish
    <2> QED BY <1>7, <2>4
  <1> QED BY <1>8, <1>9, <1>10, Zenon DEF Ending

(* Every step is a step of the contract, or none.                             *)
LEMMA NextContract ==
    ASSUME IInv, SInv, CInv, TypeOK', \A x \in Sessions : Numbered(x) /\ Numbered(x)', [Next]_vars
    PROVE  [Contract!Next]_(Contract!vars)
  <1>inv. TypeOK
    BY DEF IInv
  <1>1. CASE Unseen
    BY <1>1, ContractUnseen
  <1>2. ASSUME NEW o \in Ops, NEW s \in Sessions, Admit(o, s) PROVE Contract!Next
    <2>1. Contract!Admit(o, s)
      BY <1>inv, <1>2, ContractAdmit
    <2> QED BY <2>1, Zenon DEF Contract!Next
  <1>3. ASSUME NEW i \in CancelIds, NEW o \in Ops, RequestCancellation(i, o) PROVE Contract!Next
    <2>1. Contract!Request(o)
      BY <1>inv, <1>3, ContractRequest
    <2> QED BY <2>1, Zenon DEF Contract!Next
  <1>4. ASSUME NEW w \in Workers, NEW o \in Ops, ActivateNext(w, o) PROVE Contract!Next
    <2>1. Contract!Start(o)
      BY <1>4, ContractStart
    <2> QED BY <2>1, Zenon DEF Contract!Next
  <1>5. ASSUME NEW w \in Workers, Turning(w) PROVE Contract!Next \/ UNCHANGED Contract!vars
    <2>1. worker[w].op \in Ops
      BY <1>5 DEF Turning
    <2>2. Contract!Block(worker[w].op) \/ UNCHANGED Contract!vars
      BY <1>inv, <1>5, ContractTurn
    <2> QED BY <2>1, <2>2, Zenon DEF Contract!Next
  <1>6. ASSUME NEW w \in Workers, NEW n \in 0..MaxAppend, DecideAppend(w, n) PROVE Contract!Next
    <2>1. \E o \in Ops : Contract!Continue(o, n)
      BY <1>6, ContractContinue
    <2> QED BY <2>1, Zenon DEF Contract!Next
  <1>7. ASSUME NEW w \in Workers, NEW n \in 0..MaxAppend, Ending(w, n) PROVE Contract!Next
    <2>1. \E o \in Ops : \/ Contract!Abandon(o, n) \/ Contract!Cancel(o, n)
                         \/ \E st \in Contract!Ended \ {"cancelled"} : Contract!Finish(o, st, n)
      BY <1>7, ContractEnd
    <2> QED BY <2>1, Zenon DEF Contract!Next
  <1>8. StepShape
    BY NextShape
  <1> QED BY <1>1, <1>2, <1>3, <1>4, <1>5, <1>6, <1>7, <1>8, Zenon DEF StepShape

(* Only an admission issues a position, and it counts.                        *)
LEMMA NextCounted ==
    ASSUME IInv, SInv, CInv, TypeOK', \A x \in Sessions : Numbered(x) /\ Numbered(x)', [Next]_vars
    PROVE  CInv'
  <1>inv. TypeOK
    BY DEF IInv
  <1>1. CASE UNCHANGED <<SessionBar, nextPos>>
    <2>1. ASSUME NEW s \in Sessions PROVE AdmittedTo(s)' = AdmittedTo(s)
      <3>1. \A o \in Ops : SessionBar[o] = op[o].session /\ SessionBar'[o] = op'[o].session
        BY DEF SessionBar
      <3> QED BY <1>1, <3>1 DEF AdmittedTo
    <2> QED BY <1>1, <2>1 DEF CInv
  <1>2. ASSUME NEW o \in Ops, NEW s \in Sessions, Admit(o, s) PROVE CInv'
    <2>1. /\ op' = [op EXCEPT ![o] = NewRow(s)] /\ op[o].phase = "absent"
          /\ nextPos' = [nextPos EXCEPT ![s] = nextPos[s] + 1]
      BY <1>2 DEF Admit
    <2>2. op[o].session = Null /\ NewRow(s).session = s
      BY <2>1 DEF IInv, RowsAgree, NewRow, NoRow
    <2>3. op'[o].session = s /\ \A p \in Ops : p # o => op'[p].session = op[p].session
      BY <1>inv, <2>1, <2>2 DEF TypeOK
    <2>4. /\ nextPos'[s] = nextPos[s] + 1
          /\ \A x \in Sessions : x # s => nextPos'[x] = nextPos[x]
      BY <1>inv, <2>1 DEF TypeOK
    <2>5. ASSUME NEW x \in Sessions, x # s PROVE AdmittedTo(x)' = AdmittedTo(x)
      BY <2>2, <2>3, <2>5, NullAssumption DEF AdmittedTo
    <2>6. AdmittedTo(s)' = AdmittedTo(s) \cup {o} /\ o \notin AdmittedTo(s)
      BY <2>2, <2>3, NullAssumption DEF AdmittedTo
    <2>7. /\ IsFiniteSet(AdmittedTo(s)) /\ Cardinality(AdmittedTo(s)) = nextPos[s]
      BY DEF CInv
    <2>8. /\ IsFiniteSet(AdmittedTo(s) \cup {o})
          /\ Cardinality(AdmittedTo(s) \cup {o}) = Cardinality(AdmittedTo(s)) + 1
      BY <2>6, <2>7, FS_AddElement
    <2>9. IsFiniteSet(AdmittedTo(s)') /\ Cardinality(AdmittedTo(s)') = nextPos'[s]
      BY <2>4, <2>6, <2>7, <2>8
    <2>10. ASSUME NEW x \in Sessions
           PROVE  IsFiniteSet(AdmittedTo(x)') /\ Cardinality(AdmittedTo(x)') = nextPos'[x]
      BY <2>4, <2>5, <2>9 DEF CInv
    <2> QED BY <2>10 DEF CInv
  <1>3. CASE Unseen
    BY <1>1, <1>3 DEF Unseen, SessionBar
  <1>4. ASSUME NEW i \in CancelIds, NEW o \in Ops, RequestCancellation(i, o) PROVE CInv'
    BY <1>1, <1>4 DEF RequestCancellation, SessionBar
  <1>5. ASSUME NEW w \in Workers, NEW o \in Ops, ActivateNext(w, o) PROVE CInv'
    <2>1. Contract!Start(o)
      BY <1>5, ContractStart
    <2> QED BY <1>1, <1>5, <2>1 DEF Contract!Start, Contract!Becomes, ActivateNext
  <1>6. ASSUME NEW w \in Workers, Turning(w) PROVE CInv'
    BY <1>inv, <1>1, <1>6, TurnBar DEF Turning, RowsMove
  <1>7. ASSUME NEW w \in Workers, NEW n \in 0..MaxAppend, DecideAppend(w, n) PROVE CInv'
    <2>1. \E o \in Ops : Contract!Continue(o, n)
      BY <1>7, ContractContinue
    <2> QED BY <1>1, <1>7, <2>1 DEF Contract!Continue, DecideAppend
  <1>8. ASSUME NEW w \in Workers, NEW n \in 0..MaxAppend, Ending(w, n) PROVE CInv'
    <2>1. \E o \in Ops : \/ Contract!Abandon(o, n) \/ Contract!Cancel(o, n)
                         \/ \E st \in Contract!Ended \ {"cancelled"} : Contract!Finish(o, st, n)
      BY <1>8, ContractEnd
    <2>2. UNCHANGED nextPos
      BY <1>8 DEF Ending, CommitCancellation, CommitAbandonment, DecideFinish
    <2>3. UNCHANGED SessionBar
      BY <2>1 DEF Contract!Abandon, Contract!Cancel, Contract!Finish, Contract!Becomes
    <2> QED BY <1>1, <2>2, <2>3
  <1>9. StepShape
    BY NextShape
  <1> QED BY <1>2, <1>3, <1>4, <1>5, <1>6, <1>7, <1>8, <1>9, Zenon DEF StepShape

(* Nothing is admitted initially.                                             *)
LEMMA InitCounted == Init => CInv
  <1> SUFFICES ASSUME Init PROVE CInv
    OBVIOUS
  <1>1. ASSUME NEW s \in Sessions PROVE AdmittedTo(s) = {} /\ nextPos[s] = 0
    BY NullAssumption DEF Init, AdmittedTo, NoRow
  <1> QED BY <1>1, FS_EmptySet DEF CInv

(* Both states of a step have their histories numbered.                       *)
AllNumbered == \A x \in Sessions : Numbered(x)

(* The invariant of histories says so.                                        *)
LEMMA NumberedNow == HInv => AllNumbered
  BY HistoriesBySession DEF AllNumbered

(* Positions, for every value of the constants.                               *)
THEOREM PositionsInvariant == Spec => []CInv
  <1>1. HInv' => AllNumbered'
    BY NumberedNow, PTL
  <1>2. IInv' => TypeOK'
    BY DEF IInv
  <1>3. IInv /\ SInv /\ HInv /\ CInv /\ IInv' /\ HInv' /\ [Next]_vars => CInv'
    BY <1>1, <1>2, NumberedNow, NextCounted DEF AllNumbered
  <1> QED BY <1>3, InitCounted, Invariance, SessionsInvariant, HistoriesInvariant, PTL DEF Spec

(* The initial states of the kernel are those of the contract.                *)
LEMMA InitContract == Init => Contract!Init
  <1> SUFFICES ASSUME Init PROVE Contract!Init
    OBVIOUS
  <1>1. \A o \in Ops : op[o] = NoRow
    BY DEF Init
  <1>2. SessionBar = [o \in Ops |-> Null] /\ PositionBar = [o \in Ops |-> 0]
    BY <1>1 DEF SessionBar, PositionBar, NoRow
  <1>3. StatusBar = [o \in Ops |-> "absent"]
    <2>1. NoRow.phase = "absent"
      BY DEF NoRow
    <2> QED BY <1>1, <2>1, StatusOf DEF StatusBar
  <1>4. RequestedBar = {}
    BY NullAssumption DEF Init, RequestedBar, Requested
  <1>5. HistoryBar = [s \in Sessions |-> <<>>]
    <2>1. \A s \in Sessions : nextSeq[s] = 0
      BY DEF Init
    <2>2. ASSUME NEW s \in Sessions PROVE [i \in 1..nextSeq[s] |-> EventAt(s, i - 1).op] = <<>>
      BY <2>1
    <2> QED BY <2>2 DEF HistoryBar
  <1> QED BY <1>2, <1>3, <1>4, <1>5 DEF Contract!Init

(* The kernel implements the session contract: whatever drives, adapters,     *)
(* requests, abandonments and crashes do, a Host sees operations that run one *)
(* at a time in the order of admission, end once, and alone write history.    *)
THEOREM ContractImplemented == Spec => ImplementsContract
  <1>1. HInv' => AllNumbered'
    BY NumberedNow, PTL
  <1>2. IInv' => TypeOK'
    BY DEF IInv
  <1>3. IInv /\ SInv /\ HInv /\ CInv /\ IInv' /\ HInv' /\ [Next]_vars => [Contract!Next]_(Contract!vars)
    BY <1>1, <1>2, NumberedNow, NextContract DEF AllNumbered
  <1> QED BY <1>3, InitContract, Invariance, SessionsInvariant, HistoriesInvariant, PositionsInvariant, PTL
          DEF Spec, ImplementsContract, Contract!Spec

-----------------------------------------------------------------------------
(* Effect batches: the current batch of an operation fits its phase, what   *)
(* may still be read is kept, a dispatch is repeated within its budget, and *)
(* no transaction finds its snapshot stale.                                 *)

(* The columns of an operation that its batches depend on, row by row.       *)
LEMMA BatchColumns ==
    ASSUME NEW r \in OpRow
    PROVE  /\ \A m : Activated(r, m).current = r.current
           /\ Continued(r).current = r.current
           /\ \A n : WithBatch(r, n).current = n /\ WithBatch(r, n).input = 0
           /\ Dispatched(r).current = r.current
           /\ \A b \in BOOLEAN : /\ FinishedBatch(r, b).current = IF b THEN r.current ELSE 0
                                 /\ b => FinishedBatch(r, b).input = 0
           /\ \A p, x, c : Ended(r, p, x, c).current = c /\ Ended(r, p, x, c).input = 0
  BY DEF Activated, Continued, WithBatch, Dispatched, FinishedBatch, Ended, OpRow

(* Every write of an effect but the release keeps its request.               *)
LEMMA RequestColumn ==
    ASSUME NEW r \in EffRow
    PROVE  /\ \A x : Marked(r, x).request = r.request /\ Marked(r, x).status = x
           /\ Started(r).request = r.request /\ Started(r).status = "dispatch_started"
           /\ Released(r).request = "released" /\ Released(r).status = r.status
  BY DEF Marked, Started, Released, EffRow

(* The two halves of UnfinishedAgrees: the rows of an operation's effects,   *)
(* and the current batch by the phase.                                       *)
KeptRows(o) ==
    \A e \in EffectIds : e[1] = o /\ eff[e].status # "none" =>
        eff[e].request = "kept" /\ (e[2] # op[o].current => eff[e].status = "settled")
InBatch(o, statuses) ==
    \A e \in EffectIds : e[1] = o /\ e[2] = op[o].current /\ eff[e].status # "none" =>
        eff[e].status \in statuses
PhaseFits(o) ==
    /\ op[o].phase \in {"queued", "need_decision"} => op[o].current = 0
    /\ op[o].phase \in {"effect_intent", "outcome_unknown"} => op[o].input = 0
    /\ op[o].phase \in {"effect_intent", "effect_dispatched", "outcome_unknown"} => op[o].current # 0
    /\ op[o].phase = "effect_intent" => InBatch(o, {"intent_committed"})
    /\ op[o].phase = "effect_dispatched" => InBatch(o, {"dispatch_started", "settled", "outcome_unknown"})
    /\ op[o].phase = "outcome_unknown" =>
         /\ InBatch(o, {"settled", "outcome_unknown"})
         /\ \E e \in EffectIds : e[1] = o /\ e[2] = op[o].current /\ eff[e].status = "outcome_unknown"

(* What the invariant says of an unfinished operation.                       *)
LEMMA FitsNow ==
    ASSUME EInv, NEW o \in Ops, op[o].outcome = "none"
    PROVE  KeptRows(o) /\ PhaseFits(o)
  <1>1. KeptRows(o) /\ BatchAgrees(o) /\ (op[o].phase = "queued" => op[o].current = 0)
    BY DEF EInv, UnfinishedAgrees, KeptRows
  <1> QED BY <1>1 DEF BatchAgrees, PhaseFits, InBatch, AllChildren, Children, Closed, Some, Statuses

(* And what it takes to say it after a step.                                 *)
LEMMA FitsNext ==
    ASSUME TypeOK', NEW o \in Ops, KeptRows(o)', PhaseFits(o)'
    PROVE  UnfinishedAgrees(o)'
  <1>1. \A e \in EffectIds : e[2] # 0
    BY EffectIdFacts DEF Batches
  <1>2. BatchAgrees(o)'
    BY <1>1 DEF BatchAgrees, PhaseFits, KeptRows, InBatch, AllChildren, Children, Closed, Some, Readable,
                Statuses
  <1> QED BY <1>2 DEF UnfinishedAgrees, KeptRows, PhaseFits

(* An operation whose row and effects are not written.                       *)
LEMMA UntouchedEffects ==
    ASSUME EInv, NEW o \in Ops, op'[o] = op[o], \A e \in EffectIds : e[1] = o => eff'[e] = eff[e]
    PROVE  UnfinishedAgrees(o)' /\ FinishedAgrees(o)'
  <1>1. \A b : Children(o, b)' = Children(o, b)
    BY DEF Children
  <1>2. \A b, x : AllChildren(o, b, x)' <=> AllChildren(o, b, x)
    BY <1>1 DEF AllChildren, Children
  <1>3. \A b : (Readable(o, b)' <=> Readable(o, b)) /\ (Closed(o, b)' <=> Closed(o, b))
    BY <1>1, <1>2 DEF Readable, Closed, Some, Children
  <1>4. UnfinishedAgrees(o)'
    BY <1>2, <1>3 DEF EInv, UnfinishedAgrees, BatchAgrees
  <1>5. FinishedAgrees(o)'
    BY <1>2 DEF EInv, FinishedAgrees
  <1> QED BY <1>4, <1>5

(* A step that writes no operation but o.                                    *)
LEMMA EffectsOf ==
    ASSUME EInv, NEW o \in Ops, \A p \in Ops : p # o => op'[p] = op[p],
           \A e \in EffectIds : e[1] # o => eff'[e] = eff[e],
           UnfinishedAgrees(o)', FinishedAgrees(o)'
    PROVE  EInv'
  <1>1. ASSUME NEW p \in Ops, p # o PROVE UnfinishedAgrees(p)' /\ FinishedAgrees(p)'
    BY <1>1, UntouchedEffects
  <1> QED BY <1>1 DEF EInv

(* A step that keeps o unfinished.                                           *)
LEMMA UnfinishedStep ==
    ASSUME TypeOK', EInv, NEW o \in Ops, \A p \in Ops : p # o => op'[p] = op[p],
           \A e \in EffectIds : e[1] # o => eff'[e] = eff[e],
           op'[o].outcome = "none", KeptRows(o)', PhaseFits(o)'
    PROVE  EInv'
  BY FitsNext, EffectsOf DEF FinishedAgrees

(* A step that writes neither operations nor effects.                        *)
LEMMA UnwrittenEffects ==
    ASSUME EInv, UNCHANGED <<op, eff>>
    PROVE  EInv'
  BY UntouchedEffects DEF EInv

(* An admitted operation has no effects.                                     *)
LEMMA AdmittedEffects ==
    ASSUME IInv, EInv, TypeOK', NEW o \in Ops, NEW s \in Sessions, Admit(o, s)
    PROVE  EInv'
  <1>1. /\ op'[o].phase = "queued" /\ op'[o].outcome = "none" /\ op'[o].current = 0
        /\ \A p \in Ops : p # o => op'[p] = op[p]
    BY DEF Admit, NewRow, NoRow, IInv, TypeOK
  <1>2. eff' = eff /\ op[o].next = 0
    BY DEF Admit, IInv, RowsAgree
  <1>3. \A e \in EffectIds : e[1] = o => eff[e].status = "none"
    <2>1. \A e \in EffectIds : e[2] \in Nat /\ e[2] > 0
      BY EffectIdFacts DEF Batches
    <2> QED BY <1>2, <2>1 DEF IInv, DispatchCounted
  <1>4. KeptRows(o)' /\ PhaseFits(o)'
    BY <1>1, <1>2, <1>3 DEF KeptRows, PhaseFits
  <1> QED BY <1>1, <1>2, <1>4, UnfinishedStep

(* A live operation is unfinished.                                           *)
LEMMA LiveFacts ==
    ASSUME IInv, SInv, EInv, NEW o \in Ops, op[o].phase \in Live \cup {"queued"}
    PROVE  op[o].outcome = "none" /\ op[o] \in OpRow /\ KeptRows(o) /\ PhaseFits(o)
  <1>1. op[o].outcome = "none" /\ op[o] \in OpRow
    BY DEF SInv, RowsInv, OutcomesAgree, Live, Terminal, IInv, TypeOK
  <1> QED BY <1>1, FitsNow

(* Activation, and a decision that continues, find every batch settled.      *)
LEMMA SettledEffects ==
    ASSUME IInv, SInv, EInv, TypeOK', NEW o \in Ops, NEW q, op' = [op EXCEPT ![o] = q],
           op[o].phase \in {"queued", "need_decision"}, q.phase = "need_decision",
           q.outcome = op[o].outcome, q.current = op[o].current, UNCHANGED eff
    PROVE  EInv'
  <1>1. op'[o] = q /\ \A p \in Ops : p # o => op'[p] = op[p]
    BY DEF IInv, TypeOK
  <1>2. op[o].outcome = "none" /\ KeptRows(o) /\ PhaseFits(o)
    BY LiveFacts DEF Live
  <1>3. KeptRows(o)' /\ PhaseFits(o)'
    BY <1>1, <1>2 DEF KeptRows, PhaseFits
  <1> QED BY <1>1, <1>2, <1>3, UnfinishedStep

(* A new batch: its children are intents, every earlier one is settled.      *)
LEMMA CreatedEffects ==
    ASSUME IInv, SInv, EInv, TypeOK', NEW w \in Workers, NEW r \in Batch, DecideEffects(w, r)
    PROVE  EInv'
  <1>2. PICK o \in Ops : o = worker[w].op
    BY CallerFacts DEF IInv, DecideEffects, MayDecide
  <1> DEFINE b == op[o].next + 1
  <1>1. /\ worker[w].pc = "step" /\ op[o].phase = "need_decision" /\ b \in Batches
        /\ op' = [op EXCEPT ![o] = WithBatch(op[o], b)]
        /\ \A e \in EffectIds : eff'[e] = IF e[1] = o /\ e[2] = b /\ e[3] \in DOMAIN r
                                          THEN Intent(r[e[3]]) ELSE eff[e]
    BY <1>2 DEF DecideEffects, MayDecide
  <1>3. op[o].outcome = "none" /\ op[o] \in OpRow /\ KeptRows(o) /\ PhaseFits(o)
    BY <1>1, <1>2, LiveFacts DEF Live
  <1>4. /\ op'[o].phase = "effect_intent" /\ op'[o].outcome = "none"
        /\ op'[o].current = b /\ op'[o].input = 0
        /\ \A p \in Ops : p # o => op'[p] = op[p]
    <2>1. op'[o] = WithBatch(op[o], b) /\ \A p \in Ops : p # o => op'[p] = op[p]
      BY <1>1, <1>2 DEF IInv, TypeOK
    <2> QED BY <1>3, <2>1, WithBatchRow, BatchColumns DEF KeepsPlace
  <1>5. \A e \in EffectIds : e[1] = o /\ e[2] = b => eff[e].status = "none"
    <2>1. op[o].next \in Nat /\ b > op[o].next
      BY <1>3, NamesOK DEF OpRow
    <2> QED BY <2>1 DEF IInv, DispatchCounted
  <1>6. \A x : Intent(x).request = "kept" /\ Intent(x).status = "intent_committed"
    BY DEF Intent
  <1>7. b # 0 /\ op[o].current = 0
    BY <1>1, <1>3 DEF Batches, PhaseFits
  <1> HIDE DEF b
  <1>8. KeptRows(o)'
    BY <1>1, <1>3, <1>4, <1>5, <1>6, <1>7, EffectIdFacts DEF KeptRows, Batches
  <1>9. PhaseFits(o)'
    BY <1>1, <1>4, <1>5, <1>6, <1>7 DEF PhaseFits, InBatch
  <1> QED BY <1>1, <1>2, <1>4, <1>8, <1>9, UnfinishedStep
-----------------------------------------------------------------------------
(* Writes to the current batch of a live operation: no child appears, none   *)
(* of another batch is written, and every request is kept.                   *)
BatchWritten(o, statuses) ==
    /\ \A p \in Ops : p # o => op'[p] = op[p]
    /\ \A e \in EffectIds : e[1] # o \/ e[2] # op[o].current => eff'[e] = eff[e]
    /\ \A e \in EffectIds : e[1] = o /\ e[2] = op[o].current =>
         /\ eff'[e].request = eff[e].request
         /\ eff'[e].status = "none" <=> eff[e].status = "none"
         /\ eff[e].status # "none" => eff'[e].status \in statuses

(* The batch is closed when no started child is left, and stays in dispatch  *)
(* otherwise.                                                                *)
LEMMA AfterChildrenFits ==
    ASSUME IInv, SInv, EInv, TypeOK', NEW o \in Ops, op[o].phase \in {"effect_intent", "effect_dispatched"},
           BatchWritten(o, {"dispatch_started", "settled", "outcome_unknown"}),
           op[o].phase = "effect_dispatched" \/ ~Some(eff', o, op[o].current, "dispatch_started"),
           op'[o] = AfterChildren(eff', o)
    PROVE  EInv'
  <1>1. op[o].outcome = "none" /\ op[o] \in OpRow /\ KeptRows(o) /\ PhaseFits(o)
    BY LiveFacts DEF Live
  <1> DEFINE b == op[o].current
             unknown == Some(eff', o, b, "outcome_unknown")
  <1>2. b # 0
    BY <1>1 DEF PhaseFits
  <1>3. \A e \in EffectIds : e[1] = o /\ e[2] = b /\ eff'[e].status # "none" =>
          eff'[e].status \in {"dispatch_started", "settled", "outcome_unknown"} /\ e \in Children(o, b)
    BY DEF BatchWritten, Children
  <1>4. CASE Some(eff', o, b, "dispatch_started")
    <2>1. op'[o] = op[o] /\ op[o].phase = "effect_dispatched"
      BY <1>4 DEF AfterChildren
    <2>2. KeptRows(o)'
      BY <1>1, <2>1 DEF KeptRows, BatchWritten
    <2>3. PhaseFits(o)'
      BY <1>1, <1>2, <1>3, <2>1 DEF PhaseFits, InBatch
    <2> QED BY <1>1, <2>1, <2>2, <2>3, UnfinishedStep DEF BatchWritten
  <1>5. CASE ~Some(eff', o, b, "dispatch_started")
    <2>1. op'[o] = FinishedBatch(op[o], unknown) /\ unknown \in BOOLEAN
      BY <1>5 DEF AfterChildren, Some
    <2>2. \A e \in EffectIds : e[1] = o /\ e[2] = b /\ eff'[e].status # "none" =>
            eff'[e].status \in {"settled", "outcome_unknown"}
      BY <1>3, <1>5 DEF Some
    <2>3. /\ unknown => \E e \in EffectIds : e[1] = o /\ e[2] = b /\ eff'[e].status = "outcome_unknown"
          /\ ~unknown => \A e \in EffectIds : e[1] = o /\ e[2] = b => eff'[e].status # "outcome_unknown"
      BY <1>3 DEF Some, Children
    <2> HIDE DEF unknown, b
    <2>4. /\ op'[o].phase = IF unknown THEN "outcome_unknown" ELSE "need_decision"
          /\ op'[o].current = IF unknown THEN b ELSE 0
          /\ unknown => op'[o].input = 0
          /\ op'[o].outcome = "none"
      BY <1>1, <2>1, FinishedBatchRow, BatchColumns DEF KeepsPlace, b
    <2>5. \A e \in EffectIds : e[1] = o /\ e[2] # b => eff'[e] = eff[e]
      BY DEF BatchWritten, b
    <2>6. \A e \in EffectIds : e[1] = o /\ e[2] = b => /\ eff'[e].request = eff[e].request
                                                       /\ eff'[e].status = "none" <=> eff[e].status = "none"
      BY DEF BatchWritten, b
    <2>7. KeptRows(o)'
      BY <1>1, <2>2, <2>3, <2>4, <2>5, <2>6 DEF KeptRows, b
    <2>8. PhaseFits(o)'
      BY <1>2, <2>2, <2>3, <2>4 DEF PhaseFits, InBatch
    <2> QED BY <2>4, <2>7, <2>8, UnfinishedStep DEF BatchWritten
  <1> QED BY <1>4, <1>5

(* A dispatch leaves no intent behind.                                       *)
LEMMA PreparedEffects ==
    ASSUME IInv, SInv, EInv, TypeOK', NEW w \in Workers,
           PrepareEffectBatch(w) \/ FinishWithoutInvocations(w)
    PROVE  EInv'
  <1>1. PICK o \in Ops : o = worker[w].op
    BY CallerFacts DEF IInv, PrepareEffectBatch, FinishWithoutInvocations, MayPrepare
  <1> DEFINE b == op[o].current
  <1>2. op[o].phase \in {"effect_intent", "effect_dispatched"} /\ eff' = PreparedChildren(o)
    BY <1>1 DEF PrepareEffectBatch, FinishWithoutInvocations, MayPrepare
  <1>3. op[o].outcome = "none" /\ op[o] \in OpRow /\ KeptRows(o) /\ PhaseFits(o)
    BY <1>2, LiveFacts DEF Live
  <1>4. \A e \in EffectIds : eff[e] \in EffRow
    BY DEF IInv, TypeOK
  <1>5. \A e \in EffectIds : e[1] # o \/ e[2] # b => eff'[e] = eff[e]
    BY <1>2 DEF PreparedChildren, Dispatchable, Children
  <1>6. ASSUME NEW e \in EffectIds, e[1] = o, e[2] = b
        PROVE  /\ eff'[e].request = eff[e].request
               /\ eff'[e].status = "none" <=> eff[e].status = "none"
               /\ eff[e].status # "none" =>
                    eff'[e].status \in {"dispatch_started", "settled", "outcome_unknown"}
               /\ e \notin Dispatchable(o) => eff'[e].status # "dispatch_started"
    <2>1. CASE e \in Dispatchable(o)
      <3>1. eff'[e] = Started(eff[e]) /\ eff[e].status # "none"
        BY <1>2, <2>1 DEF PreparedChildren, Dispatchable, Children
      <3> QED BY <1>4, <2>1, <3>1, RequestColumn
    <2>2. CASE e \notin Dispatchable(o) /\ e \in Children(o, b) /\ eff[e].status = "dispatch_started"
      <3>1. eff'[e] = Marked(eff[e], "outcome_unknown")
        BY <1>2, <2>2 DEF PreparedChildren
      <3> QED BY <1>4, <2>2, <3>1, RequestColumn
    <2>3. CASE e \notin Dispatchable(o) /\ ~(e \in Children(o, b) /\ eff[e].status = "dispatch_started")
      <3>1. eff'[e] = eff[e]
        BY <1>2, <2>3 DEF PreparedChildren
      <3>2. eff[e].status \notin {"intent_committed", "dispatch_started"}
        BY <1>6, <2>3 DEF Dispatchable, Children
      <3>3. eff[e].status \in Statuses
        BY <1>4 DEF EffRow
      <3> QED BY <3>1, <3>2, <3>3 DEF Statuses
    <2> QED BY <2>1, <2>2, <2>3
  <1>7. CASE PrepareEffectBatch(w)
    <2>1. op' = [op EXCEPT ![o] = Dispatched(op[o])]
      BY <1>1, <1>7 DEF PrepareEffectBatch
    <2>2. op'[o] = Dispatched(op[o]) /\ \A p \in Ops : p # o => op'[p] = op[p]
      BY <2>1 DEF IInv, TypeOK
    <2>3. op'[o].phase = "effect_dispatched" /\ op'[o].outcome = "none" /\ op'[o].current = b
      BY <1>3, <2>2, DispatchedRow, BatchColumns DEF KeepsPlace
    <2>4. KeptRows(o)'
      BY <1>3, <1>5, <1>6, <2>3 DEF KeptRows
    <2>5. PhaseFits(o)'
      BY <1>2, <1>3, <1>6, <2>3 DEF PhaseFits, InBatch
    <2> QED BY <1>5, <2>2, <2>3, <2>4, <2>5, UnfinishedStep
  <1>8. CASE FinishWithoutInvocations(w)
    <2>1. /\ Dispatchable(o) = {}
          /\ op' = [op EXCEPT ![o] = FinishedBatch(op[o], Some(eff', o, b, "outcome_unknown"))]
      BY <1>1, <1>8 DEF FinishWithoutInvocations
    <2>2. ~Some(eff', o, b, "dispatch_started")
      BY <1>6, <2>1 DEF Some, Children
    <2>3. op'[o] = AfterChildren(eff', o) /\ \A p \in Ops : p # o => op'[p] = op[p]
      BY <2>1, <2>2 DEF AfterChildren, IInv, TypeOK
    <2>4. BatchWritten(o, {"dispatch_started", "settled", "outcome_unknown"})
      BY <1>5, <1>6, <2>3 DEF BatchWritten
    <2> QED BY <1>2, <2>2, <2>3, <2>4, AfterChildrenFits
  <1> QED BY <1>7, <1>8

(* A completion recorded, an attempt finished, a batch closed for a          *)
(* cancellation.                                                             *)
LEMMA CompletedEffects ==
    ASSUME IInv, SInv, EInv, TypeOK', NEW w \in Workers,
           \/ \E d \in worker[w].inbox : SettleBatchEffect(w, d) \/ RecordBatchEffectUnknown(w, d)
           \/ FinishEffectBatchAttempt(w)
           \/ LoadCancellation(w)
    PROVE  EInv'
  <1> DEFINE three == {"dispatch_started", "settled", "outcome_unknown"}
  <1>1. PICK o \in Ops : o = worker[w].op
    BY CallerFacts DEF IInv, SettleBatchEffect, RecordBatchEffectUnknown, FinishEffectBatchAttempt,
                       AttemptsDone, LoadCancellation
  <1>2. \A e \in EffectIds : eff[e] \in EffRow /\ eff[e].status \in Statuses
    BY DEF IInv, TypeOK, EffRow
  <1>3. ASSUME op[o].phase = "effect_dispatched", op' = [op EXCEPT ![o] = AfterChildren(eff', o)],
               NEW E, NEW x \in {"settled", "outcome_unknown"},
               \A e \in EffectIds : eff'[e] = IF e \in E THEN Marked(eff[e], x) ELSE eff[e],
               \A e \in E : /\ e \in EffectIds /\ e[1] = o /\ e[2] = op[o].current
                            /\ eff[e].status = "dispatch_started"
        PROVE  EInv'
    <2>1. op'[o] = AfterChildren(eff', o) /\ \A p \in Ops : p # o => op'[p] = op[p]
      BY <1>3 DEF IInv, TypeOK
    <2>2. InBatch(o, three)
      BY <1>3, LiveFacts DEF Live, PhaseFits
    <2>3. ASSUME NEW e \in EffectIds, e[1] = o, e[2] = op[o].current
          PROVE  /\ eff'[e].request = eff[e].request
                 /\ eff'[e].status = "none" <=> eff[e].status = "none"
                 /\ eff[e].status # "none" => eff'[e].status \in three
      <3>1. CASE e \in E
        BY <1>2, <1>3, <3>1, RequestColumn
      <3>2. CASE e \notin E
        BY <1>3, <2>2, <2>3, <3>2 DEF InBatch
      <3> QED BY <3>1, <3>2
    <2>4. BatchWritten(o, three)
      BY <1>3, <2>1, <2>3 DEF BatchWritten
    <2> QED BY <1>3, <2>1, <2>4, AfterChildrenFits
  <1>4. ASSUME NEW d \in worker[w].inbox, NEW x \in {"settled", "outcome_unknown"}, Receive(w, d, x),
               worker[w].pc = "attempts"
        PROVE  EInv'
    <2>1. /\ op[o].phase = "effect_dispatched" /\ op' = [op EXCEPT ![o] = AfterChildren(eff', o)]
          /\ op[o].current = d.effect[2] /\ eff[d.effect].status = "dispatch_started"
          /\ eff' = [eff EXCEPT ![d.effect] = Marked(eff[d.effect], x)]
      BY <1>1, <1>4 DEF Receive, MayRecord
    <2>2. d.effect \in EffectIds /\ d.effect[1] = o
      BY <1>1, CallerFacts DEF IInv, AttemptsStarted, AttemptStarted, Completion
    <2>3. \A e \in EffectIds : eff'[e] = IF e \in {d.effect} THEN Marked(eff[e], x) ELSE eff[e]
      BY <2>1, <2>2 DEF IInv, TypeOK
    <2> QED BY <1>3, <2>1, <2>2, <2>3
  <1>5. CASE FinishEffectBatchAttempt(w)
    <2>1. eff' = eff /\ (op' = op \/ (/\ op' = [op EXCEPT ![o] = AfterChildren(eff, o)]
                                      /\ op[o].phase = "effect_dispatched"))
      BY <1>1, <1>5 DEF FinishEffectBatchAttempt
    <2>2. CASE op' = op
      BY <2>1, <2>2, UnwrittenEffects
    <2>3. CASE op' = [op EXCEPT ![o] = AfterChildren(eff, o)] /\ op[o].phase = "effect_dispatched"
      <3> DEFINE E == {}
      <3>1. \A e \in EffectIds : eff'[e] = IF e \in E THEN Marked(eff[e], "settled") ELSE eff[e]
        BY <2>1
      <3>2. op' = [op EXCEPT ![o] = AfterChildren(eff', o)]
        BY <2>1, <2>3
      <3>3. \A e \in E : /\ e \in EffectIds /\ e[1] = o /\ e[2] = op[o].current
                         /\ eff[e].status = "dispatch_started"
        OBVIOUS
      <3> HIDE DEF E
      <3> QED BY <1>3, <2>3, <3>1, <3>2, <3>3
    <2> QED BY <2>1, <2>2, <2>3
  <1>6. CASE LoadCancellation(w)
    <2>1. CASE op[o].phase = "effect_dispatched"
      <3>1. eff' = ClosedChildren(o) /\ op' = [op EXCEPT ![o] = AfterChildren(eff', o)]
        BY <1>1, <1>6, <2>1 DEF LoadCancellation
      <3> DEFINE E == {e \in Children(o, op[o].current) : eff[e].status = "dispatch_started"}
      <3>2. \A e \in EffectIds : eff'[e] = IF e \in E THEN Marked(eff[e], "outcome_unknown") ELSE eff[e]
        BY <3>1 DEF ClosedChildren
      <3>3. \A e \in E : /\ e \in EffectIds /\ e[1] = o /\ e[2] = op[o].current
                         /\ eff[e].status = "dispatch_started"
        BY DEF Children
      <3> HIDE DEF E
      <3> QED BY <1>3, <2>1, <3>1, <3>2, <3>3
    <2>2. CASE op[o].phase # "effect_dispatched"
      <3>1. UNCHANGED <<op, eff>>
        BY <1>1, <1>6, <2>2 DEF LoadCancellation
      <3> QED BY <3>1, UnwrittenEffects
    <2> QED BY <2>1, <2>2
  <1> QED BY <1>4, <1>5, <1>6 DEF SettleBatchEffect, RecordBatchEffectUnknown

(* The terminal write drops the requests of settled batches.  Only an        *)
(* abandonment or a cancellation ends an operation with an unknown child.    *)
LEMMA EndedEffects ==
    ASSUME IInv, SInv, EInv, NEW o \in Ops, op[o].phase \in Live, NEW p \in Terminal,
           NEW x \in Outcomes \ {"none"}, NEW c, FinishOperation(o, p, x, c),
           \/ x = "cancelled" /\ p = "cancelled"
           \/ x = "abandoned" /\ op[o].phase = "outcome_unknown" /\ c = 0
           \/ op[o].phase = "need_decision"
    PROVE  EInv'
  <1>1. op[o].outcome = "none" /\ op[o] \in OpRow /\ KeptRows(o) /\ PhaseFits(o)
    BY LiveFacts
  <1>2. /\ op'[o].phase = p /\ op'[o].outcome = x /\ op'[o].current = c /\ op'[o].input = 0
        /\ \A q \in Ops : q # o => op'[q] = op[q]
    <2>1. op'[o] = Ended(op[o], p, x, c) /\ \A q \in Ops : q # o => op'[q] = op[q]
      BY DEF FinishOperation, IInv, TypeOK
    <2> QED BY <1>1, <2>1, EndedRow, BatchColumns
  <1>3. \A e \in EffectIds : eff[e] \in EffRow
    BY DEF IInv, TypeOK
  <1>4. /\ \A e \in EffectIds : eff'[e].status = eff[e].status
        /\ \A e \in EffectIds : e[1] # o => eff'[e] = eff[e]
        /\ \A e \in EffectIds : e[1] = o /\ eff[e].status # "none" =>
             /\ eff'[e].request \in {"kept", "released"}
             /\ eff'[e].request = "released" <=> AllChildren(o, e[2], {"settled"})
    <2> SUFFICES ASSUME NEW e \in EffectIds
                 PROVE  /\ eff'[e].status = eff[e].status
                        /\ e[1] # o => eff'[e] = eff[e]
                        /\ e[1] = o /\ eff[e].status # "none" =>
                             /\ eff'[e].request \in {"kept", "released"}
                             /\ eff'[e].request = "released" <=> AllChildren(o, e[2], {"settled"})
      OBVIOUS
    <2> DEFINE goes == /\ e[1] = o /\ eff[e].status = "settled"
                       /\ \A f \in Children(o, e[2]) : eff[f].status = "settled"
    <2>1. eff'[e] = IF goes THEN Released(eff[e]) ELSE eff[e]
      BY DEF FinishOperation, ReleaseFinishedRequests
    <2>2. e[1] = o /\ eff[e].status # "none" => e \in Children(o, e[2]) /\ eff[e].request = "kept"
      BY <1>1 DEF Children, KeptRows
    <2>3. e[1] = o /\ eff[e].status # "none" => (goes <=> AllChildren(o, e[2], {"settled"}))
      BY <2>2 DEF AllChildren
    <2> HIDE DEF goes
    <2>4. CASE goes
      BY <1>3, <2>1, <2>3, <2>4, RequestColumn DEF goes
    <2>5. CASE ~goes
      BY <2>1, <2>2, <2>3, <2>5
    <2> QED BY <2>4, <2>5
  <1>5. \A b : AllChildren(o, b, {"settled"})' <=> AllChildren(o, b, {"settled"})
    BY <1>4 DEF AllChildren, Children
  <1>6. ASSUME NEW e \in EffectIds, e[1] = o, eff[e].status = "outcome_unknown"
        PROVE  /\ x \in {"abandoned", "cancelled"}
               /\ p = "failed" => /\ c = 0
                                  /\ \A f \in EffectIds : f[1] = o /\ eff[f].status # "none" =>
                                       \/ eff[f].status = "settled"
                                       \/ eff[f].status = "outcome_unknown" /\ f[2] = e[2]
    <2>1. e[2] # 0 /\ e[2] = op[o].current
      BY <1>1, <1>6, EffectIdFacts DEF KeptRows, Batches
    <2>2. op[o].phase # "need_decision"
      BY <1>1, <2>1 DEF PhaseFits
    <2>3. x \in {"abandoned", "cancelled"} /\ (p = "failed" => c = 0 /\ op[o].phase = "outcome_unknown")
      BY <2>2
    <2> QED BY <1>1, <2>1, <2>3 DEF KeptRows, PhaseFits, InBatch
  <1>7. FinishedAgrees(o)'
    BY <1>2, <1>4, <1>5, <1>6 DEF FinishedAgrees
  <1>8. UnfinishedAgrees(o)'
    BY <1>2 DEF UnfinishedAgrees
  <1> QED BY <1>2, <1>4, <1>7, <1>8, EffectsOf

(* Every step keeps the invariant of batches.                                *)
LEMMA NextEffects == ASSUME IInv, SInv, EInv, [Next]_vars PROVE EInv'
  <1>type. TypeOK'
    BY NextType DEF IInv
  <1>1. CASE \/ UNCHANGED vars
             \/ \E i \in CancelIds, o \in Ops : RequestCancellation(i, o)
             \/ \E i \in CancelIds : RetryCancellation(i)
             \/ \E o \in Ops : SignalRunningOperation(o)
             \/ \E w \in Workers, s \in Sessions, m \in Manifests : Drive(w, s, m)
             \/ \E w \in Workers, o \in Ops, m \in Manifests : Abandon(w, o, m)
             \/ \E t \in tasks, r \in {"settled", "unknown"} : AdapterResolves(t, r)
             \/ Crash
    <2>1. UNCHANGED <<op, eff>>
      BY <1>1, Zenon DEF vars, RequestCancellation, RetryCancellation, SignalRunningOperation, Drive,
                         Abandon, AdapterResolves, Crash, durable
    <2> QED BY <2>1, UnwrittenEffects
  <1>2. ASSUME NEW o \in Ops, NEW s \in Sessions, Submit(o, s) \/ SubmitExclusive(o, s)
        PROVE  EInv'
    BY <1>2, <1>type, AdmittedEffects, Zenon DEF Submit, SubmitExclusive
  <1>3. ASSUME NEW w \in Workers,
               \/ ActivateOwned(w) \/ DriveIdle(w) \/ Bind(w) \/ LoadActive(w) \/ NoCancellation(w)
               \/ DriveBlocked(w) \/ YieldToCancellation(w) \/ LoadPendingAbandonment(w)
               \/ NothingToAbandon(w) \/ AbandonRefused(w) \/ DriveEnds(w)
               \/ \E e \in EffectIds : SpawnEffect(w, e)
               \/ \E d \in worker[w].inbox : LeaveForReplay(w, d)
        PROVE  EInv'
    <2>1. UNCHANGED <<op, eff>>
      BY <1>3, Zenon DEF ActivateOwned, DriveIdle, Bind, LoadActive, NoCancellation, DriveBlocked,
                 YieldToCancellation, LoadPendingAbandonment, NothingToAbandon, AbandonRefused,
                 DriveEnds, SpawnEffect, LeaveForReplay, durable
    <2> QED BY <2>1, UnwrittenEffects
  <1>4. ASSUME NEW w \in Workers, NEW o \in Ops, ActivateNext(w, o)
        PROVE  EInv'
    <2> DEFINE q == Activated(op[o], worker[w].manifest)
    <2>1. /\ op[o].phase = "queued" /\ op' = [op EXCEPT ![o] = q] /\ eff' = eff /\ op[o] \in OpRow
      BY <1>4 DEF ActivateNext, NextQueued, Queued, IInv, TypeOK
    <2>2. q.phase = "need_decision" /\ q.outcome = op[o].outcome /\ q.current = op[o].current
      BY <2>1, ActivatedRow, BatchColumns
    <2> HIDE DEF q
    <2> QED BY <1>type, <2>1, <2>2, SettledEffects
  <1>5. ASSUME NEW w \in Workers, NEW n \in 0..MaxAppend, DecideAppend(w, n)
        PROVE  EInv'
    <2>1. PICK o \in Ops : o = worker[w].op
      BY <1>5, CallerFacts DEF IInv, DecideAppend, MayDecide
    <2> DEFINE q == Continued(op[o])
    <2>2. op[o].phase = "need_decision" /\ op' = [op EXCEPT ![o] = q] /\ eff' = eff /\ op[o] \in OpRow
      BY <1>5, <2>1 DEF DecideAppend, MayDecide, IInv, TypeOK
    <2>3. q.phase = "need_decision" /\ q.outcome = op[o].outcome /\ q.current = op[o].current
      BY <2>2, ContinuedRow, BatchColumns DEF KeepsPlace
    <2> HIDE DEF q
    <2> QED BY <1>type, <2>2, <2>3, SettledEffects
  <1>6. ASSUME NEW w \in Workers, NEW n \in 0..MaxAppend, NEW p \in Terminal \ {"cancelled"},
               CommitCancellation(w, n) \/ CommitAbandonment(w, n) \/ DecideFinish(w, p, n)
        PROVE  EInv'
    <2>1. PICK o \in Ops : o = worker[w].op
      BY <1>6, CallerFacts DEF IInv, CommitCancellation, CommitAbandonment, DecideFinish, MayDecide
    <2>2. /\ op[o].phase \in Live
          /\ \/ FinishOperation(o, "cancelled", "cancelled", 0)
             \/ FinishOperation(o, "failed", "abandoned", 0) /\ op[o].phase = "outcome_unknown"
             \/ FinishOperation(o, p, p, op[o].current) /\ op[o].phase = "need_decision"
      BY <1>6, <2>1 DEF CommitCancellation, CommitAbandonment, DecideFinish, MayDecide, IsCancellable, Live
    <2>3. {"cancelled", "failed", p} \subseteq Terminal
          /\ {"cancelled", "abandoned", p} \subseteq Outcomes \ {"none"}
      BY DEF Terminal, Outcomes
    <2> QED BY <2>2, <2>3, EndedEffects
  <1>7. ASSUME NEW w \in Workers, DriveStep(w) \/ AbandonStep(w) \/ DriveEnds(w)
        PROVE  EInv'
    <2>1. "waiting" \in Terminal \ {"cancelled"}
      BY DEF Terminal
    <2> QED BY <1>7, <1>type, <2>1, <1>3, <1>4, <1>5, <1>6, CreatedEffects, PreparedEffects, CompletedEffects,
               Zenon DEF DriveStep, AbandonStep
  <1> QED BY <1>1, <1>2, <1>7, Zenon DEF Next

(* It holds initially.                                                       *)
LEMMA InitEffects == Init => EInv
  <1> SUFFICES ASSUME Init PROVE EInv
    OBVIOUS
  <1>1. /\ \A e \in EffectIds : eff[e].status = "none"
        /\ \A o \in Ops : op[o].phase = "absent" /\ op[o].outcome = "none"
    BY DEF Init, NoEffect, NoRow
  <1> QED BY <1>1 DEF EInv, UnfinishedAgrees, FinishedAgrees, BatchAgrees

(* Batches, for every value of the constants.                                *)
THEOREM BatchesInvariant == Spec => []EInv
  <1>1. IInv /\ SInv /\ EInv /\ [Next]_vars => EInv'
    BY NextEffects
  <1> QED BY <1>1, InitEffects, SessionsInvariant, Invariance, PTL DEF Spec

(* The trigger that drops finished requests, with every write before it:     *)
(* what a replay, a cancellation or an abandonment may read is kept.         *)
THEOREM RequestsReleased == Spec => []ReleasedExactly
  <1>1. EInv => ReleasedExactly
    <2> SUFFICES ASSUME EInv, NEW e \in EffectIds, eff[e].status # "none"
                 PROVE  eff[e].request = "released"
                          <=> op[e[1]].outcome # "none" /\ AllChildren(e[1], e[2], {"settled"})
      BY DEF ReleasedExactly
    <2>1. e[1] \in Ops
      BY EffectIdFacts
    <2> QED BY <2>1 DEF EInv, UnfinishedAgrees, FinishedAgrees
  <1> QED BY <1>1, BatchesInvariant, PTL

(* A decision never ends an operation over an unknown child.                 *)
THEOREM UnknownNeverForgotten == Spec => []UnknownOnlyAbandoned
  <1>1. EInv => UnknownOnlyAbandoned
    BY EffectIdFacts DEF EInv, FinishedAgrees, UnknownOnlyAbandoned
  <1> QED BY <1>1, BatchesInvariant, PTL
-----------------------------------------------------------------------------
(* Where each update of a caller puts it.                                    *)
LEMMA CallerPc ==
    ASSUME NEW r \in WorkerState
    PROVE  /\ \A pc : At(r, pc).pc = pc
           /\ \A o, row, pc : Snapshot(r, o, row, pc).pc = pc
           /\ \A v, n, pc : ReadyToCommit(r, v, n, pc).pc = pc
  BY DEF At, Snapshot, ReadyToCommit, WorkerState

(* A step of a caller with no attempt under way, into none.                  *)
QuietMove(w) ==
    /\ worker[w].pc # "attempts" \/ AttemptsDone(w)
    /\ worker'[w].pc # "attempts"
    /\ \A v \in Workers : v # w => worker'[v] = worker[v]
    /\ tasks' = tasks

(* It takes no child in hand and lets none go.                               *)
LEMMA QuietFlight ==
    ASSUME IInv, IInv', NEW w \in Workers, QuietMove(w)
    PROVE  /\ \A v \in Workers : \A e \in EffectIds : InFlightOf(v, e)' <=> InFlightOf(v, e)
           /\ \A v \in Workers : worker'[v].inbox = worker[v].inbox
  <1>1. worker[w].unspawned = {} /\ worker[w].inbox = {}
    BY DEF IInv, AttemptsStarted, AttemptStarted, QuietMove, AttemptsDone
  <1>2. worker'[w].unspawned = {} /\ worker'[w].inbox = {}
    BY DEF IInv, AttemptsStarted, AttemptStarted, QuietMove
  <1>3. \A v \in Workers : worker'[v].unspawned = worker[v].unspawned /\ worker'[v].inbox = worker[v].inbox
    BY <1>1, <1>2 DEF QuietMove
  <1> QED BY <1>3 DEF InFlightOf, QuietMove

(* A caller that returns with no attempt under way drops no task.            *)
LEMMA QuietReturn ==
    ASSUME IInv, NEW w \in Workers, worker[w].pc # "idle", worker[w].pc # "attempts", Return(w)
    PROVE  QuietMove(w)
  <1>1. worker'[w].pc = "idle" /\ \A v \in Workers : v # w => worker'[v] = worker[v]
    BY IdleOK DEF Return, IInv, TypeOK
  <1>2. \A t \in tasks : t \in Task /\ t.owner # w
    <2> SUFFICES ASSUME NEW t \in tasks PROVE t \in Task /\ t.owner # w
      OBVIOUS
    <2>1. t \in Task /\ w # Null
      BY NullAssumption DEF IInv, TypeOK
    <2> QED BY <2>1 DEF IInv, TasksOwned
  <1>3. \A t \in tasks : Disowned(t, w) = t
    BY <1>2 DEF Disowned, Task
  <1>4. tasks' = tasks
    BY <1>3 DEF Return
  <1> QED BY <1>1, <1>4 DEF QuietMove

(* The turns and abandonments that start no attempt.                         *)
LEMMA QuietTurns ==
    ASSUME IInv, NEW w \in Workers,
           \/ \E o \in Ops : ActivateNext(w, o)
           \/ ActivateOwned(w) \/ DriveIdle(w) \/ Bind(w) \/ LoadActive(w)
           \/ NoCancellation(w) \/ LoadCancellation(w) \/ DriveBlocked(w) \/ YieldToCancellation(w)
           \/ \E n \in 0..MaxAppend :
                 \/ CommitCancellation(w, n) \/ DecideAppend(w, n) \/ CommitAbandonment(w, n)
                 \/ \E p \in Terminal \ {"cancelled"} : DecideFinish(w, p, n)
           \/ \E r \in Batch : DecideEffects(w, r)
           \/ FinishWithoutInvocations(w) \/ FinishEffectBatchAttempt(w)
           \/ LoadPendingAbandonment(w) \/ NothingToAbandon(w) \/ AbandonRefused(w)
    PROVE  QuietMove(w) /\ worker[w].pc # "idle" /\ faults' = faults
  <1>inv. TypeOK /\ Placed /\ worker[w] \in WorkerState
    BY CallerFacts DEF IInv
  <1> DEFINE returns == \/ DriveIdle(w) \/ DriveBlocked(w) \/ NothingToAbandon(w) \/ AbandonRefused(w)
                        \/ \E n \in 0..MaxAppend :
                              \/ CommitCancellation(w, n) \/ CommitAbandonment(w, n)
                              \/ \E p \in Terminal \ {"cancelled"} : DecideFinish(w, p, n)
                        \/ Bind(w) /\ op[worker[w].op].manifest # worker[w].manifest
  <1>1. CASE returns
    <2>1. Return(w) /\ worker[w].pc \notin {"idle", "attempts"} /\ faults' = faults
      BY <1>1 DEF DriveIdle, DriveBlocked, NothingToAbandon, AbandonRefused, CommitCancellation,
                  CommitAbandonment, DecideFinish, MayDecide, Bind
    <2> QED BY <2>1, QuietReturn
  <1>2. CASE ~returns
    <2>1. /\ worker[w].pc \notin {"idle", "attempts"} \/ AttemptsDone(w)
          /\ tasks' = tasks /\ faults' = faults
      BY <1>2 DEF ActivateNext, ActivateOwned, Bind, LoadActive, NoCancellation, LoadCancellation,
                  YieldToCancellation, DecideAppend, DecideEffects, MayDecide, FinishWithoutInvocations,
                  MayPrepare, FinishEffectBatchAttempt, LoadPendingAbandonment
    <2>2. \A o, row, x, n : \A pc \in {"bind", "check", "close", "step", "reload", "abandonCommit"} :
             /\ At(worker[w], pc).pc # "attempts" /\ Snapshot(worker[w], o, row, pc).pc # "attempts"
             /\ ReadyToCommit(worker[w], x, n, pc).pc # "attempts"
      BY <1>inv, CallerPc
    <2>3. worker'[w].pc # "attempts" /\ \A v \in Workers : v # w => worker'[v] = worker[v]
      <3>1. CASE \/ NoCancellation(w) \/ YieldToCancellation(w) \/ FinishWithoutInvocations(w)
                 \/ FinishEffectBatchAttempt(w) \/ Bind(w)
                 \/ \E n \in 0..MaxAppend : DecideAppend(w, n)
                 \/ \E r \in Batch : DecideEffects(w, r)
        <4>1. \E pc \in {"check", "step", "reload"} : worker' = [worker EXCEPT ![w] = At(worker[w], pc)]
          BY <1>2, <3>1 DEF NoCancellation, YieldToCancellation, FinishWithoutInvocations,
                            FinishEffectBatchAttempt, Bind, DecideAppend, DecideEffects, Goto
        <4> QED BY <1>inv, <2>2, <4>1 DEF TypeOK
      <3>2. CASE (\E o \in Ops : ActivateNext(w, o)) \/ ActivateOwned(w) \/ LoadActive(w)
        <4>1. ASSUME NEW o, NEW row, NEW pc \in {"bind", "check"},
                     worker' = [worker EXCEPT ![w] = Snapshot(worker[w], o, row, pc)]
              PROVE  worker'[w].pc # "attempts" /\ \A v \in Workers : v # w => worker'[v] = worker[v]
          BY <1>inv, <2>2, <4>1 DEF TypeOK
        <4> QED BY <3>2, <4>1 DEF ActivateNext, ActivateOwned, LoadActive, Goto
      <3>3. CASE LoadCancellation(w) \/ LoadPendingAbandonment(w)
        <4>1. ASSUME NEW x, NEW n, NEW pc \in {"close", "abandonCommit"},
                     worker' = [worker EXCEPT ![w] = ReadyToCommit(worker[w], x, n, pc)]
              PROVE  worker'[w].pc # "attempts" /\ \A v \in Workers : v # w => worker'[v] = worker[v]
          BY <1>inv, <2>2, <4>1 DEF TypeOK
        <4> QED BY <3>3, <4>1 DEF LoadCancellation, LoadPendingAbandonment, Goto
      <3> QED BY <1>2, <3>1, <3>2, <3>3, Zenon
    <2>4. worker[w].pc # "idle"
      BY <2>1 DEF AttemptsDone
    <2> QED BY <2>1, <2>3, <2>4 DEF QuietMove
  <1> QED BY <1>1, <1>2
-----------------------------------------------------------------------------
(* A step that commits no dispatch: what it lets go of was dispatched once,  *)
(* or is paid for by a fault.                                                *)
LEMMA NoDispatchStep ==
    ASSUME TypeOK, TypeOK', BInv, faults' >= faults,
           \A t \in tasks' : t.attempt = eff[t.effect].count,
           \A v \in Workers : \A d \in worker'[v].inbox : d.attempt = eff[d.effect].count,
           \A e \in EffectIds :
             /\ eff'[e].count = eff[e].count
             /\ eff'[e].status = "dispatch_started" =>
                  /\ eff[e].status = "dispatch_started"
                  /\ \/ faults' > faults \/ eff[e].count <= 1
                     \/ \E v \in Workers : InFlightOf(v, e)'
                     \/ \A v \in Workers : ~InFlightOf(v, e)
    PROVE  BInv'
  <1>1. faults \in Nat /\ faults' \in Nat /\ \A e \in EffectIds : eff[e].count \in Nat
    BY DEF TypeOK, EffRow
  <1>2. \A e \in EffectIds : eff[e].count <= MaxLiveDispatches + faults
    BY DEF BInv, ReplayBudget
  <1>3. ReplayBudget'
    BY <1>1, <1>2 DEF ReplayBudget, MaxLiveDispatches
  <1>4. ASSUME NEW e \in EffectIds, eff'[e].status = "dispatch_started",
               \A v \in Workers : ~InFlightOf(v, e)'
        PROVE  eff'[e].count <= 1 + faults'
    <2>1. \/ faults' > faults \/ eff[e].count <= 1 \/ \A v \in Workers : ~InFlightOf(v, e)
      BY <1>4
    <2>2. (\A v \in Workers : ~InFlightOf(v, e)) => eff[e].count <= 1 + faults
      BY <1>4 DEF BInv
    <2>3. eff'[e].count = eff[e].count
      OBVIOUS
    <2> QED BY <1>1, <1>2, <2>1, <2>2, <2>3 DEF MaxLiveDispatches
  <1>5. /\ \A t \in tasks' : t.effect \in EffectIds
        /\ \A v \in Workers : \A d \in worker'[v].inbox : d.effect \in EffectIds
    BY DEF TypeOK, Task, WorkerState, Completion
  <1> QED BY <1>3, <1>4, <1>5 DEF BInv

(* A write of effects that dispatches nothing.                               *)
NothingDispatched ==
    \A e \in EffectIds : /\ eff'[e].count = eff[e].count
                         /\ eff'[e].status = "dispatch_started" => eff[e].status = "dispatch_started"

(* A step in which no child changes hands.                                   *)
LEMMA SameHands ==
    ASSUME TypeOK, TypeOK', BInv, faults' >= faults, tasks' = tasks, NothingDispatched,
           \A v \in Workers : \A e \in EffectIds : InFlightOf(v, e)' <=> InFlightOf(v, e),
           \A v \in Workers : worker'[v].inbox = worker[v].inbox
    PROVE  BInv'
  <1>1. /\ \A t \in tasks' : t.attempt = eff[t.effect].count
        /\ \A v \in Workers : \A d \in worker'[v].inbox : d.attempt = eff[d.effect].count
    BY DEF BInv
  <1> QED BY <1>1, NoDispatchStep DEF NothingDispatched

(* The steps of admission, requests, signals and leases.                     *)
LEMMA OutsideReplays ==
    ASSUME IInv, IInv', BInv,
           \/ UNCHANGED vars
           \/ \E o \in Ops, s \in Sessions : Submit(o, s) \/ SubmitExclusive(o, s)
           \/ \E i \in CancelIds, o \in Ops : RequestCancellation(i, o)
           \/ \E i \in CancelIds : RetryCancellation(i)
           \/ \E o \in Ops : SignalRunningOperation(o)
    PROVE  BInv'
  <1>1. UNCHANGED <<eff, worker, tasks, faults>>
    BY Zenon DEF vars, Submit, SubmitExclusive, Admit, RequestCancellation, RetryCancellation,
                 SignalRunningOperation, durable, volatile
  <1>2. NothingDispatched /\ TypeOK /\ TypeOK' /\ faults' >= faults
    BY <1>1 DEF NothingDispatched, IInv, TypeOK
  <1>3. \A v \in Workers : \A e \in EffectIds : InFlightOf(v, e)' <=> InFlightOf(v, e)
    BY <1>1 DEF InFlightOf
  <1> QED BY <1>1, <1>2, <1>3, SameHands

(* A caller that takes a lease.                                              *)
LEMMA LeasedReplays ==
    ASSUME IInv, IInv', BInv, NEW w \in Workers,
           \/ \E s \in Sessions, m \in Manifests : Drive(w, s, m)
           \/ \E o \in Ops, m \in Manifests : Abandon(w, o, m)
    PROVE  BInv'
  <1>1. UNCHANGED <<eff, tasks, faults>> /\ worker[w].pc = "idle"
    BY Zenon DEF Drive, Abandon, Acquire, durable
  <1>2. worker'[w].pc # "attempts" /\ \A v \in Workers : v # w => worker'[v] = worker[v]
    <2>1. ASSUME NEW pc \in {"activate", "abandon"}, NEW s, NEW o, NEW m,
                 Acquire(w, s, Starting(pc, s, o, m))
          PROVE  worker'[w].pc # "attempts" /\ \A v \in Workers : v # w => worker'[v] = worker[v]
      BY <2>1, StartingManifest DEF Acquire, IInv, TypeOK
    <2> QED BY <2>1 DEF Drive, Abandon
  <1>3. QuietMove(w)
    BY <1>1, <1>2 DEF QuietMove
  <1>4. NothingDispatched /\ TypeOK /\ TypeOK' /\ faults' >= faults
    BY <1>1 DEF NothingDispatched, IInv, TypeOK
  <1> QED BY <1>1, <1>3, <1>4, QuietFlight, SameHands

(* Which turns write effects, and that none of these writes is a dispatch.   *)
LEMMA QuietWrites ==
    ASSUME IInv, NEW w \in Workers,
           \/ LoadCancellation(w) \/ FinishWithoutInvocations(w)
           \/ \E r \in Batch : DecideEffects(w, r)
           \/ \E n \in 0..MaxAppend :
                 \/ CommitCancellation(w, n) \/ CommitAbandonment(w, n)
                 \/ \E p \in Terminal \ {"cancelled"} : DecideFinish(w, p, n)
    PROVE  NothingDispatched
  <1>inv. TypeOK /\ DispatchCounted /\ \A e \in EffectIds : eff[e] \in EffRow
    BY DEF IInv, TypeOK
  <1>1. PICK o \in Ops : o = worker[w].op
    BY CallerFacts DEF IInv, LoadCancellation, FinishWithoutInvocations, MayPrepare, DecideEffects, MayDecide,
                       CommitCancellation, CommitAbandonment, DecideFinish
  <1>2. CASE LoadCancellation(w)
    <2>1. eff' = eff \/ eff' = ClosedChildren(o)
      BY <1>1, <1>2, Zenon DEF LoadCancellation
    <2>2. \A e \in EffectIds : eff'[e] \in {eff[e], Marked(eff[e], "outcome_unknown")}
      BY <2>1 DEF ClosedChildren
    <2>3. \A e \in EffectIds : /\ Marked(eff[e], "outcome_unknown").count = eff[e].count
                               /\ Marked(eff[e], "outcome_unknown").status = "outcome_unknown"
      BY <1>inv, MarkedOK, NamesOK
    <2> QED BY <2>2, <2>3 DEF NothingDispatched
  <1>3. CASE FinishWithoutInvocations(w)
    <2>1. eff' = PreparedChildren(o) /\ Dispatchable(o) = {}
      BY <1>1, <1>3 DEF FinishWithoutInvocations
    <2> QED BY <1>inv, <2>1, PreparedFacts DEF NothingDispatched
  <1>4. ASSUME NEW r \in Batch, DecideEffects(w, r)
        PROVE  NothingDispatched
    <2> SUFFICES ASSUME NEW e \in EffectIds
                 PROVE  /\ eff'[e].count = eff[e].count
                        /\ eff'[e].status = "dispatch_started" => eff[e].status = "dispatch_started"
      BY DEF NothingDispatched
    <2> DEFINE new == e[1] = o /\ e[2] = op[o].next + 1 /\ e[3] \in DOMAIN r
    <2>1. eff'[e] = IF new THEN Intent(r[e[3]]) ELSE eff[e]
      BY <1>1, <1>4 DEF DecideEffects
    <2>2. new => eff[e].status = "none" /\ eff[e].count = 0
      <3>1. op[o].next \in Nat
        BY <1>inv, NamesOK DEF TypeOK, OpRow
      <3> QED BY <1>inv, <3>1 DEF DispatchCounted
    <2>3. \A x : Intent(x).count = 0 /\ Intent(x).status = "intent_committed"
      BY DEF Intent
    <2> HIDE DEF new
    <2> QED BY <2>1, <2>2, <2>3
  <1>5. ASSUME NEW p \in Terminal, NEW x, NEW c, FinishOperation(o, p, x, c)
        PROVE  NothingDispatched
    BY <1>inv, <1>5, ReleasedOK DEF FinishOperation, ReleaseFinishedRequests, NothingDispatched
  <1>6. ASSUME NEW n \in 0..MaxAppend, NEW p \in Terminal \ {"cancelled"},
               CommitCancellation(w, n) \/ CommitAbandonment(w, n) \/ DecideFinish(w, p, n)
        PROVE  NothingDispatched
    <2>1. "cancelled" \in Terminal /\ "failed" \in Terminal
      BY DEF Terminal
    <2> QED BY <1>1, <1>5, <1>6, <2>1 DEF CommitCancellation, CommitAbandonment, DecideFinish
  <1>7. "waiting" \in Terminal \ {"cancelled"}
    BY DEF Terminal
  <1> QED BY <1>2, <1>3, <1>4, <1>6, <1>7

(* Turns and abandonments that start no attempt.                             *)
LEMMA QuietReplays ==
    ASSUME IInv, IInv', BInv, NEW w \in Workers,
           \/ \E o \in Ops : ActivateNext(w, o)
           \/ ActivateOwned(w) \/ DriveIdle(w) \/ Bind(w) \/ LoadActive(w)
           \/ NoCancellation(w) \/ LoadCancellation(w) \/ DriveBlocked(w) \/ YieldToCancellation(w)
           \/ \E n \in 0..MaxAppend :
                 \/ CommitCancellation(w, n) \/ DecideAppend(w, n) \/ CommitAbandonment(w, n)
                 \/ \E p \in Terminal \ {"cancelled"} : DecideFinish(w, p, n)
           \/ \E r \in Batch : DecideEffects(w, r)
           \/ FinishWithoutInvocations(w) \/ FinishEffectBatchAttempt(w)
           \/ LoadPendingAbandonment(w) \/ NothingToAbandon(w) \/ AbandonRefused(w)
    PROVE  BInv'
  <1>1. QuietMove(w) /\ faults' = faults
    BY QuietTurns
  <1>2. NothingDispatched
    <2>1. CASE eff' = eff
      BY <2>1 DEF NothingDispatched
    <2>2. CASE eff' # eff
      <3>1. \/ LoadCancellation(w) \/ FinishWithoutInvocations(w)
            \/ \E r \in Batch : DecideEffects(w, r)
            \/ \E n \in 0..MaxAppend :
                  \/ CommitCancellation(w, n) \/ CommitAbandonment(w, n)
                  \/ \E p \in Terminal \ {"cancelled"} : DecideFinish(w, p, n)
        BY <2>2, Zenon DEF ActivateNext, ActivateOwned, DriveIdle, Bind, LoadActive, NoCancellation,
               DriveBlocked, YieldToCancellation, DecideAppend, FinishEffectBatchAttempt,
               LoadPendingAbandonment, NothingToAbandon, AbandonRefused, durable
      <3> QED BY <3>1, QuietWrites
    <2> QED BY <2>1, <2>2
  <1>3. TypeOK /\ TypeOK' /\ faults' >= faults /\ tasks' = tasks
    BY <1>1 DEF IInv, TypeOK, QuietMove
  <1> QED BY <1>1, <1>2, <1>3, QuietFlight, SameHands

(* A drive that fails, and a crash: a fault pays for every child let go.     *)
LEMMA FaultReplays ==
    ASSUME IInv, IInv', BInv, Crash \/ \E w \in Workers : DriveEnds(w)
    PROVE  BInv'
  <1>1. TypeOK /\ TypeOK' /\ faults' > faults /\ faults' >= faults /\ NothingDispatched
    BY DEF Crash, DriveEnds, durable, IInv, TypeOK, NothingDispatched
  <1>2. /\ \A t \in tasks' : \E u \in tasks : u.effect = t.effect /\ u.attempt = t.attempt
        /\ \A v \in Workers : worker'[v].inbox \subseteq worker[v].inbox
    <2>1. CASE Crash
      BY <2>1, IdleOK DEF Crash
    <2>2. ASSUME NEW w \in Workers, DriveEnds(w)
          PROVE  /\ \A t \in tasks' : \E u \in tasks : u.effect = t.effect /\ u.attempt = t.attempt
                 /\ \A v \in Workers : worker'[v].inbox \subseteq worker[v].inbox
      <3>1. \A t \in tasks : Disowned(t, w).effect = t.effect /\ Disowned(t, w).attempt = t.attempt
        BY DEF Disowned
      <3>2. tasks' = {Disowned(t, w) : t \in tasks} /\ worker' = [worker EXCEPT ![w] = IdleWorker]
        BY <2>2 DEF DriveEnds, Return
      <3> QED BY <1>1, <3>1, <3>2, IdleOK DEF TypeOK
    <2> QED BY <2>1, <2>2
  <1>3. /\ \A t \in tasks' : t.attempt = eff[t.effect].count
        /\ \A v \in Workers : \A d \in worker'[v].inbox : d.attempt = eff[d.effect].count
    BY <1>2 DEF BInv
  <1> QED BY <1>1, <1>3, NoDispatchStep DEF NothingDispatched

(* No completion or task appears but with the child's last dispatch, and     *)
(* every child stays in its caller's hands.                                  *)
StaysInHand ==
    /\ \A t \in tasks' : t \in tasks \/ t.attempt = eff[t.effect].count
    /\ \A v \in Workers : \A d \in worker'[v].inbox :
         d \in worker[v].inbox \/ \E t \in tasks : d.effect = t.effect /\ d.attempt = t.attempt
    /\ \A v \in Workers : \A e \in EffectIds : InFlightOf(v, e) => InFlightOf(v, e)'

(* A task is spawned for an unspawned child; an adapter resolves into the    *)
(* inbox of its caller: each stays in its caller's hands.                    *)
LEMMA TaskReplays ==
    ASSUME IInv, IInv', BInv,
           \/ \E w \in Workers, e \in EffectIds : SpawnEffect(w, e)
           \/ \E t \in tasks, x \in {"settled", "unknown"} : AdapterResolves(t, x)
    PROVE  BInv'
  <1>0. UNCHANGED <<eff, faults>>
    BY Zenon DEF SpawnEffect, AdapterResolves, durable
  <1>1. TypeOK /\ TypeOK' /\ faults' >= faults /\ NothingDispatched
    BY <1>0 DEF IInv, TypeOK, NothingDispatched
  <1>2. SUFFICES StaysInHand
    <2>1. /\ \A t \in tasks' : t.attempt = eff[t.effect].count
          /\ \A v \in Workers : \A d \in worker'[v].inbox : d.attempt = eff[d.effect].count
      BY <1>2 DEF BInv, StaysInHand
    <2> QED BY <1>1, <1>2, <2>1, NoDispatchStep DEF NothingDispatched, StaysInHand
  <1>3. ASSUME NEW w \in Workers, NEW e \in EffectIds, SpawnEffect(w, e)
        PROVE  StaysInHand
    <2> DEFINE new == [effect |-> e, attempt |-> eff[e].count, owner |-> w]
    <2>1. /\ tasks' = tasks \cup {new} /\ worker' = [worker EXCEPT ![w] = Spawned(worker[w], e)]
      BY <1>3 DEF SpawnEffect, Goto
    <2>2. new.effect = e /\ new.attempt = eff[e].count /\ new.owner = w
      OBVIOUS
    <2> HIDE DEF new
    <2>3. /\ worker'[w].unspawned = worker[w].unspawned \ {e} /\ worker'[w].inbox = worker[w].inbox
          /\ \A v \in Workers : v # w => worker'[v] = worker[v]
      BY <1>1, <2>1, SpawnedOK DEF TypeOK
    <2> QED BY <2>1, <2>2, <2>3 DEF InFlightOf, StaysInHand
  <1>4. ASSUME NEW t \in tasks, NEW x \in {"settled", "unknown"}, AdapterResolves(t, x)
        PROVE  StaysInHand
    <2> DEFINE done == [effect |-> t.effect, attempt |-> t.attempt, result |-> x]
    <2>1. /\ tasks' = tasks \ {t}
          /\ worker' = IF t.owner = Null THEN worker
                       ELSE [worker EXCEPT ![t.owner] = Delivered(worker[t.owner], done)]
      BY <1>4 DEF AdapterResolves
    <2>2. done.effect = t.effect /\ done.attempt = t.attempt /\ done \in Completion
      BY <1>1 DEF TypeOK, Task, Completion
    <2> HIDE DEF done
    <2>3. t.owner \in Workers \cup {Null} /\ Null \notin Workers
      BY <1>1, TaskFacts, NullAssumption
    <2>4. CASE t.owner = Null
      BY <2>1, <2>3, <2>4 DEF InFlightOf, StaysInHand
    <2>5. CASE t.owner # Null
      <3> DEFINE w == t.owner
      <3>1. w \in Workers /\ worker[w] \in WorkerState
        BY <1>1, <2>3, <2>5 DEF TypeOK
      <3>2. /\ worker'[w].unspawned = worker[w].unspawned
            /\ worker'[w].inbox = worker[w].inbox \cup {done}
            /\ \A v \in Workers : v # w => worker'[v] = worker[v]
        BY <1>1, <2>1, <2>2, <2>5, <3>1, DeliveredOK DEF TypeOK
      <3> QED BY <2>1, <2>2, <3>1, <3>2 DEF InFlightOf, StaysInHand
    <2> QED BY <2>4, <2>5
  <1> QED BY <1>3, <1>4

(* A completion is received: recorded, or left for a replay when it is that  *)
(* of the first dispatch.                                                    *)
LEMMA ReceivedReplays ==
    ASSUME IInv, IInv', BInv, NEW w \in Workers, NEW d \in worker[w].inbox,
           SettleBatchEffect(w, d) \/ RecordBatchEffectUnknown(w, d) \/ LeaveForReplay(w, d)
    PROVE  BInv'
  <1>1. TypeOK /\ TypeOK' /\ faults' >= faults /\ tasks' = tasks
    BY DEF SettleBatchEffect, RecordBatchEffectUnknown, Receive, LeaveForReplay, IInv, TypeOK
  <1>2. d.effect \in EffectIds /\ worker[w] \in WorkerState /\ d.attempt \in Nat
        /\ d.attempt = eff[d.effect].count
    BY <1>1 DEF TypeOK, WorkerState, Completion, BInv
  <1>3. /\ worker'[w].unspawned = worker[w].unspawned /\ worker'[w].inbox = worker[w].inbox \ {d}
        /\ \A v \in Workers : v # w => worker'[v] = worker[v]
    <2>1. ASSUME NEW f \in BOOLEAN, worker' = [worker EXCEPT ![w] = Received(worker[w], d, f)]
          PROVE  /\ worker'[w].unspawned = worker[w].unspawned /\ worker'[w].inbox = worker[w].inbox \ {d}
                 /\ \A v \in Workers : v # w => worker'[v] = worker[v]
      BY <1>1, <1>2, <2>1, ReceivedOK DEF TypeOK
    <2>2. worker[w].finished \in BOOLEAN /\ \A x : (worker[w].finished \/ x # "effect_dispatched") \in BOOLEAN
      BY <1>2 DEF WorkerState
    <2> QED BY <2>1, <2>2 DEF SettleBatchEffect, RecordBatchEffectUnknown, Receive, LeaveForReplay, Goto
  <1>4. /\ \A t \in tasks' : t.attempt = eff[t.effect].count
        /\ \A v \in Workers : \A c \in worker'[v].inbox : c.attempt = eff[c.effect].count
    BY <1>1, <1>3 DEF BInv
  <1>5. \A v \in Workers : \A e \in EffectIds : InFlightOf(v, e) /\ e # d.effect => InFlightOf(v, e)'
    BY <1>1, <1>3 DEF InFlightOf
  <1>6. CASE LeaveForReplay(w, d)
    <2>1. eff' = eff /\ d.attempt < 2
      BY <1>6 DEF LeaveForReplay, durable, MayReplayLive, MaxLiveDispatches
    <2>2. eff[d.effect].count <= 1
      BY <1>2, <2>1
    <2> QED BY <1>1, <1>4, <1>5, <2>1, <2>2, NoDispatchStep
  <1>7. CASE SettleBatchEffect(w, d) \/ RecordBatchEffectUnknown(w, d)
    <2>1. PICK x \in {"settled", "outcome_unknown"} : eff' = [eff EXCEPT ![d.effect] = Marked(eff[d.effect], x)]
      <3>1. PICK x \in {"settled", "outcome_unknown"} : Receive(w, d, x)
        BY <1>7 DEF SettleBatchEffect, RecordBatchEffectUnknown
      <3> QED BY <3>1 DEF Receive
    <2>2. /\ eff'[d.effect].status # "dispatch_started" /\ eff'[d.effect].count = eff[d.effect].count
          /\ \A e \in EffectIds : e # d.effect => eff'[e] = eff[e]
      <3>1. eff \in [EffectIds -> EffRow] /\ x \in Statuses
        BY <1>1, NamesOK DEF TypeOK
      <3>2. Marked(eff[d.effect], x).status = x /\ Marked(eff[d.effect], x).count = eff[d.effect].count
        BY <1>2, <3>1, MarkedOK
      <3> QED BY <1>2, <2>1, <3>1, <3>2
    <2>3. \A e \in EffectIds :
             /\ eff'[e].count = eff[e].count
             /\ eff'[e].status = "dispatch_started" => eff[e].status = "dispatch_started" /\ e # d.effect
      BY <2>2
    <2> QED BY <1>1, <1>4, <1>5, <2>3, NoDispatchStep
  <1> QED BY <1>6, <1>7

(* A dispatch: its children were intents, or were left in nobody's hands by  *)
(* a first attempt or a fault.                                               *)
LEMMA DispatchedReplays ==
    ASSUME IInv, IInv', BInv, NEW w \in Workers, PrepareEffectBatch(w)
    PROVE  BInv'
  <1>inv. TypeOK /\ Placed /\ DispatchCounted /\ TypeOK'
    BY DEF IInv
  <1>1. PICK o \in Ops : /\ o = worker[w].op /\ worker[w] \in WorkerState /\ worker[w].pc = "step"
                         /\ op[o].session = worker[w].session
    BY CallerFacts DEF IInv, PrepareEffectBatch, MayPrepare
  <1>2. /\ eff' = PreparedChildren(o) /\ tasks' = tasks /\ faults' = faults
        /\ worker' = [worker EXCEPT ![w] = Attempting(worker[w], Dispatchable(o))]
    BY <1>1 DEF PrepareEffectBatch, Goto
  <1>3. Quiet(w)
    BY <1>1, QuietFacts
  <1>4. Dispatchable(o) \in SUBSET EffectIds
    BY DEF Dispatchable, Children
  <1>5. /\ worker'[w].unspawned = Dispatchable(o) /\ worker'[w].inbox = {}
        /\ \A v \in Workers : v # w => worker'[v] = worker[v]
    BY <1>inv, <1>1, <1>2, <1>3, <1>4, AttemptingOK DEF Quiet, TypeOK
  <1>6. \A e \in EffectIds :
          /\ e \in Dispatchable(o) => e[1] = o /\ eff'[e].count = eff[e].count + 1
          /\ e \notin Dispatchable(o) =>
               /\ eff'[e].count = eff[e].count
               /\ eff'[e].status = "dispatch_started" => eff[e].status = "dispatch_started"
    BY <1>inv, <1>2, PreparedFacts
  <1>7. \A v \in Workers : \A e \in EffectIds : e[1] = o => ~InFlightOf(v, e)
    <2> SUFFICES ASSUME NEW v \in Workers, NEW e \in EffectIds, e[1] = o
                 PROVE  ~InFlightOf(v, e)
      OBVIOUS
    <2>1. \A t \in tasks : t.effect # e
      BY <1>1, <1>3 DEF Quiet
    <2>2. CASE v = w
      BY <1>3, <2>1, <2>2 DEF Quiet, InFlightOf
    <2>3. CASE v # w
      <3>1. worker[v].pc = "attempts" => worker[v].op # o
        BY <1>1, <2>3, OtherCaller
      <3>2. AttemptStarted(v)
        BY DEF IInv, AttemptsStarted
      <3> QED BY <2>1, <3>1, <3>2 DEF AttemptStarted, InFlightOf
    <2> QED BY <2>2, <2>3
  <1>8. faults \in Nat /\ \A e \in EffectIds : eff[e].count \in Nat
    BY <1>inv DEF TypeOK, EffRow
  <1>9. \A e \in EffectIds : e \in Dispatchable(o) => eff[e].count <= 1 + faults
    <2> SUFFICES ASSUME NEW e \in EffectIds, e \in Dispatchable(o)
                 PROVE  eff[e].count <= 1 + faults
      OBVIOUS
    <2>1. e[1] = o /\ eff[e].status \in {"intent_committed", "dispatch_started"}
      BY DEF Dispatchable, Children
    <2>2. CASE eff[e].status = "intent_committed"
      <3>1. eff[e].count = 0
        BY <1>inv, <2>2 DEF DispatchCounted
      <3> QED BY <1>8, <3>1
    <2>3. CASE eff[e].status = "dispatch_started"
      BY <1>7, <2>1, <2>3 DEF BInv
    <2> QED BY <2>1, <2>2, <2>3
  <1>10. ReplayBudget'
    BY <1>2, <1>6, <1>8, <1>9 DEF BInv, ReplayBudget, MaxLiveDispatches
  <1>11. ASSUME NEW e \in EffectIds, eff'[e].status = "dispatch_started",
                \A v \in Workers : ~InFlightOf(v, e)'
         PROVE  eff'[e].count <= 1 + faults'
    <2>1. e \notin Dispatchable(o)
      BY <1>5, <1>11 DEF InFlightOf
    <2>2. \A v \in Workers : ~InFlightOf(v, e)
      <3> SUFFICES ASSUME NEW v \in Workers, InFlightOf(v, e) PROVE FALSE
        OBVIOUS
      <3>1. CASE v = w
        <4>1. PICK t \in tasks : t.owner = w
          BY <1>3, <3>1 DEF InFlightOf, Quiet
        <4> QED BY <1>3, <4>1, NullAssumption DEF IInv, TasksOwned, Quiet
      <3>2. CASE v # w
        BY <1>2, <1>5, <1>11, <3>2 DEF InFlightOf
      <3> QED BY <3>1, <3>2
    <2> QED BY <1>2, <1>6, <1>11, <2>1, <2>2 DEF BInv
  <1>12. \A t \in tasks : t.effect \in EffectIds /\ t.effect \notin Dispatchable(o)
    BY <1>1, <1>3, <1>6, TaskFacts, <1>inv DEF Quiet
  <1>13. ASSUME NEW v \in Workers, NEW d \in worker'[v].inbox
         PROVE  d.attempt = eff'[d.effect].count
    <2>1. v # w /\ d \in worker[v].inbox
      BY <1>5
    <2>2. d.effect \in EffectIds /\ d.attempt = eff[d.effect].count
      BY <1>inv, <2>1 DEF TypeOK, WorkerState, Completion, BInv
    <2>3. d.effect[1] # o
      BY <1>7, <2>1, <2>2 DEF InFlightOf
    <2> QED BY <1>6, <2>2, <2>3
  <1> QED BY <1>2, <1>6, <1>10, <1>11, <1>12, <1>13 DEF BInv

(* Every step keeps the invariant of replays.                                *)
LEMMA NextReplays == ASSUME IInv, IInv', BInv, [Next]_vars PROVE BInv'
  <1>1. ASSUME NEW w \in Workers, DriveStep(w) \/ AbandonStep(w) \/ DriveEnds(w)
        PROVE  BInv'
    BY <1>1, QuietReplays, DispatchedReplays, TaskReplays, ReceivedReplays, FaultReplays, Zenon
       DEF DriveStep, AbandonStep
  <1> QED BY <1>1, OutsideReplays, LeasedReplays, TaskReplays, FaultReplays, Zenon DEF Next

(* It holds initially.                                                       *)
LEMMA InitReplays == Init => BInv
  <1> SUFFICES ASSUME Init PROVE BInv
    OBVIOUS
  <1>1. /\ faults = 0 /\ tasks = {} /\ \A w \in Workers : worker[w].inbox = {}
        /\ \A e \in EffectIds : eff[e].count = 0
    BY DEF Init, NoEffect, IdleWorker
  <1> QED BY <1>1 DEF BInv, ReplayBudget, MaxLiveDispatches

(* Replays, for every value of the constants.                                *)
THEOREM ReplaysInvariant == Spec => []BInv
  <1>1. IInv /\ IInv' /\ BInv /\ [Next]_vars => BInv'
    BY NextReplays
  <1> QED BY <1>1, InitReplays, Invariance, PTL DEF Spec

(* A child is dispatched at most twice, and once more for each failed drive  *)
(* or crash: a replay is decided on the durable count and never forgotten.   *)
THEOREM ReplaysBounded == Spec => []ReplayBudget
  <1>1. BInv => ReplayBudget
    BY DEF BInv
  <1> QED BY <1>1, ReplaysInvariant, PTL
-----------------------------------------------------------------------------
(* The snapshot a caller keeps.                                              *)
SameSnapshot(q, r) ==
    /\ q.op = r.op /\ q.session = r.session /\ q.phase = r.phase /\ q.version = r.version
    /\ q.input = r.input /\ q.seq = r.seq /\ q.finished = r.finished

(* A caller in place, whose row, cursor and children are not touched.        *)
LEMMA SnapshotKept ==
    ASSUME NInv, NEW v \in Workers, worker'[v].pc = worker[v].pc, SameSnapshot(worker'[v], worker[v]),
           worker[v].pc \notin {"idle", "activate"} =>
             /\ op'[worker[v].op] = op[worker[v].op]
             /\ nextSeq'[worker[v].session] = nextSeq[worker[v].session],
           Requested(worker[v].op) => Requested(worker[v].op)',
           \A e \in EffectIds : InFlightOf(v, e)' => InFlightOf(v, e)
    PROVE  SnapshotStands(v)'
  <1>1. SnapshotStands(v)
    BY DEF NInv
  <1>2. \A e \in EffectIds : InFlightOf(v, e)' => InFlightOf(v, e)
    OBVIOUS
  <1>3. CASE worker[v].pc = "attempts"
    BY <1>1, <1>2, <1>3 DEF SnapshotStands, SameSnapshot, Unmoved
  <1>4. CASE worker[v].pc # "attempts"
    BY <1>1, <1>4 DEF SnapshotStands, SameSnapshot, Unmoved
  <1> QED BY <1>3, <1>4

(* What a caller writes is of its own session.                               *)
OwnSessionOnly(w) ==
    /\ worker[w].pc # "idle"
    /\ \A v \in Workers : v # w => worker'[v] = worker[v]
    /\ \A p \in Ops : op[p].session # worker[w].session => op'[p] = op[p]
    /\ \A s \in Sessions : s # worker[w].session => nextSeq'[s] = nextSeq[s]
    /\ cancel' = cancel
    /\ \A t \in tasks' : t.owner \in Workers \ {w} => t \in tasks

(* So the snapshots of the others stand.                                     *)
LEMMA OthersStand ==
    ASSUME IInv, NInv, NEW w \in Workers, OwnSessionOnly(w), SnapshotStands(w)'
    PROVE  NInv'
  <1> SUFFICES ASSUME NEW v \in Workers, v # w PROVE SnapshotStands(v)'
    BY DEF NInv
  <1>1. worker'[v] = worker[v]
    BY DEF OwnSessionOnly
  <1>2. ASSUME worker[v].pc \notin {"idle", "activate"}
        PROVE  /\ op'[worker[v].op] = op[worker[v].op]
               /\ nextSeq'[worker[v].session] = nextSeq[worker[v].session]
    <2>1. /\ worker[v].op \in Ops /\ op[worker[v].op].session = worker[v].session
          /\ worker[v].session \in Sessions
      BY <1>2, CallerFacts DEF IInv
    <2>2. worker[v].session # worker[w].session
      BY <1>2, OtherCaller DEF OwnSessionOnly
    <2> QED BY <2>1, <2>2 DEF OwnSessionOnly
  <1>3. \A e \in EffectIds : InFlightOf(v, e)' => InFlightOf(v, e)
    BY <1>1 DEF OwnSessionOnly, InFlightOf
  <1>4. Requested(worker[v].op) => Requested(worker[v].op)'
    BY <1>1 DEF OwnSessionOnly, Requested
  <1> QED BY <1>1, <1>2, <1>3, <1>4, SnapshotKept DEF SameSnapshot

(* A caller with nothing to remember.                                        *)
LEMMA NoSnapshot ==
    ASSUME NEW w \in Workers, worker'[w].pc \in {"idle", "activate", "reload", "abandon"}
    PROVE  SnapshotStands(w)'
  BY DEF SnapshotStands

(* Events are appended to one session.                                       *)
LEMMA AppendsHere ==
    ASSUME TypeOK, NEW s \in Sessions, NEW o, NEW n, AppendEvents(s, o, n)
    PROVE  \A x \in Sessions : x # s => nextSeq'[x] = nextSeq[x]
  BY DEF AppendEvents, TypeOK

(* A caller writes its own operation and its own session's history.          *)
LEMMA OwnWrites ==
    ASSUME IInv, NEW w \in Workers, worker[w].pc # "idle", NEW o \in Ops, op[o].session = worker[w].session,
           \/ op' = op
           \/ \E q : op' = [op EXCEPT ![o] = q],
           \/ nextSeq' = nextSeq
           \/ \E n : AppendEvents(worker[w].session, o, n),
           \A v \in Workers : v # w => worker'[v] = worker[v], cancel' = cancel,
           \A t \in tasks' : t.owner \in Workers \ {w} => t \in tasks
    PROVE  OwnSessionOnly(w)
  <1>1. TypeOK /\ worker[w].session \in Sessions
    BY CallerFacts DEF IInv
  <1>2. \A p \in Ops : op[p].session # worker[w].session => op'[p] = op[p]
    BY <1>1 DEF TypeOK
  <1>3. \A s \in Sessions : s # worker[w].session => nextSeq'[s] = nextSeq[s]
    BY <1>1, AppendsHere
  <1> QED BY <1>2, <1>3 DEF OwnSessionOnly

(* A caller that returns leaves the tasks of the others alone.               *)
LEMMA ReturnedTasks ==
    ASSUME TypeOK, NEW w \in Workers, Return(w)
    PROVE  /\ \A t \in tasks' : t.owner \in Workers \ {w} => t \in tasks
           /\ worker'[w].pc = "idle" /\ \A v \in Workers : v # w => worker'[v] = worker[v]
  <1>1. ASSUME NEW t \in tasks, Disowned(t, w).owner \in Workers \ {w}
        PROVE  Disowned(t, w) = t
    <2>1. t \in Task /\ t.owner # w
      BY <1>1, NullAssumption DEF TypeOK, Disowned
    <2> QED BY <2>1 DEF Task, Disowned
  <1>2. tasks' = {Disowned(t, w) : t \in tasks}
    BY DEF Return
  <1> QED BY <1>1, <1>2, IdleOK DEF Return, TypeOK

(* Returns and the turns that end in a reload.                               *)
LEMMA ForgottenSnapshots ==
    ASSUME IInv, NInv, NEW w \in Workers,
           \/ DriveIdle(w) \/ DriveBlocked(w) \/ NothingToAbandon(w) \/ AbandonRefused(w) \/ DriveEnds(w)
           \/ Bind(w) /\ op[worker[w].op].manifest # worker[w].manifest
           \/ \E n \in 0..MaxAppend :
                 \/ CommitCancellation(w, n) \/ CommitAbandonment(w, n) \/ DecideAppend(w, n)
                 \/ \E p \in Terminal \ {"cancelled"} : DecideFinish(w, p, n)
           \/ \E r \in Batch : DecideEffects(w, r)
           \/ YieldToCancellation(w) \/ FinishWithoutInvocations(w) \/ FinishEffectBatchAttempt(w)
    PROVE  NInv'
  <1>inv. TypeOK /\ Placed /\ worker[w] \in WorkerState
    BY CallerFacts DEF IInv
  <1>1. CASE \/ DriveIdle(w) \/ DriveBlocked(w) \/ NothingToAbandon(w) \/ AbandonRefused(w) \/ DriveEnds(w)
             \/ Bind(w) /\ op[worker[w].op].manifest # worker[w].manifest
    <2>1. Return(w) /\ worker[w].pc # "idle" /\ UNCHANGED <<op, nextSeq, cancel>>
      BY <1>1 DEF DriveIdle, DriveBlocked, NothingToAbandon, AbandonRefused, DriveEnds, Bind, durable
    <2>2. OwnSessionOnly(w)
      BY <1>inv, <2>1, ReturnedTasks DEF OwnSessionOnly
    <2> QED BY <1>inv, <2>1, <2>2, ReturnedTasks, NoSnapshot, OthersStand
  <1>2. ASSUME NEW n \in 0..MaxAppend, NEW p \in Terminal,
               CommitCancellation(w, n) \/ CommitAbandonment(w, n) \/ DecideFinish(w, p, n)
        PROVE  NInv'
    <2>1. PICK o \in Ops : o = worker[w].op /\ worker[w].pc # "idle" /\ op[o].session = worker[w].session
      BY <1>2, CallerFacts DEF IInv, CommitCancellation, CommitAbandonment, DecideFinish, MayDecide
    <2>2. /\ Return(w) /\ AppendEvents(worker[w].session, o, n) /\ cancel' = cancel
          /\ \E q : op' = [op EXCEPT ![o] = q]
      BY <1>2, <2>1 DEF CommitCancellation, CommitAbandonment, DecideFinish, FinishOperation
    <2>3. OwnSessionOnly(w)
      BY <1>inv, <2>1, <2>2, ReturnedTasks, OwnWrites
    <2> QED BY <1>inv, <2>2, <2>3, ReturnedTasks, NoSnapshot, OthersStand
  <1>3. CASE \/ YieldToCancellation(w) \/ FinishWithoutInvocations(w) \/ FinishEffectBatchAttempt(w)
             \/ \E n \in 0..MaxAppend : DecideAppend(w, n)
             \/ \E r \in Batch : DecideEffects(w, r)
    <2>0. worker[w].pc \in {"step", "attempts"}
      BY <1>3 DEF YieldToCancellation, FinishWithoutInvocations, FinishEffectBatchAttempt, AttemptsDone,
                  DecideAppend, DecideEffects, MayDecide, MayPrepare
    <2>1. PICK o \in Ops : o = worker[w].op /\ worker[w].pc # "idle" /\ op[o].session = worker[w].session
      BY <2>0, CallerFacts DEF IInv
    <2>2. worker' = [worker EXCEPT ![w] = At(worker[w], "reload")] /\ tasks' = tasks /\ cancel' = cancel
      BY <1>3 DEF YieldToCancellation, FinishWithoutInvocations, FinishEffectBatchAttempt,
                  DecideAppend, DecideEffects, durable, Goto
    <2>3. op' = op \/ \E q : op' = [op EXCEPT ![o] = q]
      BY <1>3, <2>1 DEF YieldToCancellation, FinishWithoutInvocations, FinishEffectBatchAttempt,
                  DecideAppend, DecideEffects, durable
    <2>4. nextSeq' = nextSeq \/ \E n : AppendEvents(worker[w].session, o, n)
      BY <1>3, <2>1 DEF YieldToCancellation, FinishWithoutInvocations, FinishEffectBatchAttempt,
                  DecideAppend, DecideEffects, durable
    <2>5. worker'[w].pc = "reload" /\ \A v \in Workers : v # w => worker'[v] = worker[v]
      BY <1>inv, <2>2, CallerPc DEF TypeOK
    <2>6. OwnSessionOnly(w)
      BY <2>1, <2>2, <2>3, <2>4, <2>5, OwnWrites
    <2> QED BY <2>5, <2>6, NoSnapshot, OthersStand
  <1>4. "waiting" \in Terminal
    BY DEF Terminal
  <1> QED BY <1>1, <1>2, <1>3, <1>4

(* A caller whose own snapshot stands after a step on its own operation.     *)
LEMMA OwnStep ==
    ASSUME IInv, NInv, NEW w \in Workers, worker[w].pc # "idle", NEW o \in Ops,
           op[o].session = worker[w].session, NEW q, worker' = [worker EXCEPT ![w] = q],
           op' = op \/ (\E r : op' = [op EXCEPT ![o] = r]), UNCHANGED <<nextSeq, cancel>>,
           \A t \in tasks' : t.owner \in Workers \ {w} => t \in tasks,
           worker'[w] = q => SnapshotStands(w)'
    PROVE  NInv'
  <1>1. worker'[w] = q /\ \A v \in Workers : v # w => worker'[v] = worker[v]
    BY DEF IInv, TypeOK
  <1>2. OwnSessionOnly(w)
    BY <1>1, OwnWrites
  <1> QED BY <1>1, <1>2, OthersStand

(* A snapshot is taken.                                                      *)
LEMMA TakenSnapshots ==
    ASSUME IInv, NInv, TypeOK', NEW w \in Workers,
           (\E o \in Ops : ActivateNext(w, o)) \/ ActivateOwned(w) \/ LoadActive(w)
    PROVE  NInv'
  <1>inv. TypeOK /\ Placed /\ RowsAgree /\ worker[w] \in WorkerState
    BY CallerFacts DEF IInv
  <1>1. ASSUME NEW o \in Ops, NEW pc \in {"bind", "check"}, worker[w].pc # "idle",
               op[o].session = worker[w].session, op' = op \/ (\E r : op' = [op EXCEPT ![o] = r]),
               worker' = [worker EXCEPT ![w] = Snapshot(worker[w], o, op'[o], pc)],
               UNCHANGED <<nextSeq, cancel, tasks>>
        PROVE  NInv'
    <2> DEFINE q == Snapshot(worker[w], o, op'[o], pc)
    <2>1. /\ q.pc = pc /\ q.op = o /\ q.phase = op'[o].phase /\ q.version = op'[o].version
          /\ q.input = op'[o].input /\ q.finished = FALSE
      BY <1>inv DEF Snapshot, WorkerState
    <2> HIDE DEF q
    <2>2. worker'[w] = q => SnapshotStands(w)'
      BY <1>1, <2>1 DEF SnapshotStands, Unmoved
    <2> QED BY <1>1, <2>2, OwnStep DEF q
  <1>2. ASSUME NEW o \in Ops, ActivateNext(w, o)
        PROVE  NInv'
    <2>1. /\ worker[w].pc # "idle" /\ op[o].session = worker[w].session
          /\ op' = [op EXCEPT ![o] = Activated(op[o], worker[w].manifest)]
          /\ worker' = [worker EXCEPT ![w] = Snapshot(worker[w], o, op'[o], "bind")]
          /\ UNCHANGED <<nextSeq, cancel, tasks>>
      BY <1>2 DEF ActivateNext, NextQueued, Queued, Goto
    <2> QED BY <1>1, <2>1
  <1>3. CASE ActivateOwned(w)
    <2>0. worker[w].pc = "activate" /\ active[worker[w].session] # Null
      BY <1>3 DEF ActivateOwned
    <2>1. worker[w].session \in Sessions /\ active[worker[w].session] \in Ops
      BY <1>inv, <2>0, CallerFacts DEF TypeOK
    <2>2. PICK o \in Ops : o = active[worker[w].session]
      BY <2>1
    <2>3. /\ op[o].session = worker[w].session
          /\ worker' = [worker EXCEPT ![w] = Snapshot(worker[w], o, op'[o], "bind")]
          /\ UNCHANGED <<op, nextSeq, cancel, tasks>>
      BY <1>inv, <1>3, <2>0, <2>1, <2>2 DEF ActivateOwned, Goto, durable, RowsAgree
    <2> QED BY <1>1, <2>0, <2>3
  <1>4. CASE LoadActive(w)
    <2>1. PICK o \in Ops : o = worker[w].op /\ worker[w].pc # "idle" /\ op[o].session = worker[w].session
      BY <1>inv, <1>4, CallerFacts DEF LoadActive
    <2>2. /\ worker' = [worker EXCEPT ![w] = Snapshot(worker[w], o, op'[o], "check")]
          /\ UNCHANGED <<op, nextSeq, cancel, tasks>>
      BY <1>4, <2>1 DEF LoadActive, Goto, durable
    <2> QED BY <1>1, <2>1, <2>2
  <1> QED BY <1>2, <1>3, <1>4

(* It is carried through the checks, and renewed before a commit.            *)
LEMMA CarriedSnapshots ==
    ASSUME IInv, NInv, NEW w \in Workers,
           \/ Bind(w) /\ op[worker[w].op].manifest = worker[w].manifest
           \/ NoCancellation(w) \/ LoadCancellation(w) \/ LoadPendingAbandonment(w)
    PROVE  NInv'
  <1>inv. TypeOK /\ Placed /\ worker[w] \in WorkerState /\ SnapshotStands(w)
    BY CallerFacts DEF IInv, NInv
  <1>0. worker[w].pc \in {"bind", "check", "abandon"}
    BY DEF Bind, NoCancellation, LoadCancellation, LoadPendingAbandonment
  <1>1. PICK o \in Ops : o = worker[w].op /\ worker[w].pc # "idle" /\ op[o].session = worker[w].session
    BY <1>inv, <1>0, CallerFacts
  <1>2. UNCHANGED <<nextSeq, cancel, tasks>>
    BY DEF Bind, NoCancellation, LoadCancellation, LoadPendingAbandonment, durable
  <1>3. CASE (Bind(w) /\ op[worker[w].op].manifest = worker[w].manifest) \/ NoCancellation(w)
    <2>1. PICK pc \in {"check", "step"} : worker' = [worker EXCEPT ![w] = At(worker[w], pc)]
      BY <1>3 DEF Bind, NoCancellation, Goto
    <2>2. op' = op /\ worker[w].pc \in {"bind", "check"}
      BY <1>3 DEF Bind, NoCancellation, durable
    <2> DEFINE q == At(worker[w], pc)
    <2>3. q.pc = pc /\ SameSnapshot(q, worker[w])
      BY <1>inv DEF At, SameSnapshot, WorkerState
    <2> HIDE DEF q
    <2>4. worker'[w] = q => SnapshotStands(w)'
      BY <1>inv, <2>2, <2>3 DEF SnapshotStands, SameSnapshot, Unmoved
    <2> QED BY <1>1, <1>2, <2>1, <2>2, <2>4, OwnStep DEF q
  <1>4. CASE LoadCancellation(w)
    <2> DEFINE q == ReadyToCommit(worker[w], op'[o].version, nextSeq[worker[w].session], "close")
    <2>1. worker' = [worker EXCEPT ![w] = q] /\ Requested(o)
      BY <1>1, <1>4 DEF LoadCancellation, Goto
    <2>2. op' = op \/ (\E r : op' = [op EXCEPT ![o] = r])
      BY <1>1, <1>4 DEF LoadCancellation
    <2>3. /\ q.pc = "close" /\ q.op = o /\ q.session = worker[w].session /\ q.version = op'[o].version
          /\ q.seq = nextSeq[worker[w].session]
      BY <1>inv, <1>1 DEF ReadyToCommit, WorkerState
    <2> HIDE DEF q
    <2>4. worker'[w] = q => SnapshotStands(w)'
      BY <1>2, <2>1, <2>3 DEF SnapshotStands, Unmoved, Requested
    <2> QED BY <1>1, <1>2, <2>1, <2>2, <2>4, OwnStep
  <1>5. CASE LoadPendingAbandonment(w)
    <2> DEFINE q == ReadyToCommit(worker[w], op[o].version, nextSeq[worker[w].session], "abandonCommit")
    <2>1. worker' = [worker EXCEPT ![w] = q] /\ op[o].phase = "outcome_unknown" /\ op' = op
      BY <1>1, <1>5 DEF LoadPendingAbandonment, Goto, durable
    <2>2. /\ q.pc = "abandonCommit" /\ q.op = o /\ q.session = worker[w].session
          /\ q.version = op[o].version /\ q.seq = nextSeq[worker[w].session]
      BY <1>inv, <1>1 DEF ReadyToCommit, WorkerState
    <2> HIDE DEF q
    <2>3. worker'[w] = q => SnapshotStands(w)'
      BY <1>2, <2>1, <2>2 DEF SnapshotStands, Unmoved
    <2> QED BY <1>1, <1>2, <2>1, <2>3, OwnStep
  <1> QED BY <1>3, <1>4, <1>5

(* A dispatch moves the operation and the snapshot together; every child it  *)
(* takes in hand is of the current batch.                                    *)
LEMMA DispatchedSnapshots ==
    ASSUME IInv, NInv, NEW w \in Workers, PrepareEffectBatch(w)
    PROVE  NInv'
  <1>inv. TypeOK /\ Placed /\ worker[w] \in WorkerState /\ SnapshotStands(w)
    BY CallerFacts DEF IInv, NInv
  <1>1. PICK o \in Ops : /\ o = worker[w].op /\ worker[w].pc = "step" /\ op[o].session = worker[w].session
                         /\ op[o] \in OpRow
    BY <1>inv, CallerFacts DEF PrepareEffectBatch, MayPrepare
  <1> DEFINE q == Attempting(worker[w], Dispatchable(o))
  <1>2. /\ worker' = [worker EXCEPT ![w] = q] /\ op' = [op EXCEPT ![o] = Dispatched(op[o])]
        /\ UNCHANGED <<nextSeq, cancel, tasks>>
    BY <1>1 DEF PrepareEffectBatch, Goto
  <1>3. Quiet(w)
    BY <1>1, QuietFacts
  <1>4. /\ op'[o].phase = "effect_dispatched" /\ op'[o].version = op[o].version + 1
        /\ op'[o].current = op[o].current
    BY <1>inv, <1>1, <1>2 DEF TypeOK, Dispatched, OpRow
  <1>5. /\ q.pc = "attempts" /\ q.op = o /\ q.version = worker[w].version + 1
        /\ q.finished = worker[w].finished /\ q.unspawned = Dispatchable(o) /\ q.inbox = {}
    BY <1>inv, <1>1, <1>3 DEF Attempting, WorkerState, Quiet
  <1>6. ~worker[w].finished /\ op[o].version = worker[w].version
    BY <1>inv, <1>1 DEF SnapshotStands, Unmoved
  <1>7. \A t \in tasks : t.owner # w
    BY <1>3, NullAssumption DEF IInv, TasksOwned, Quiet
  <1>8. \A e \in EffectIds : e \in Dispatchable(o) => e[1] = o /\ e[2] = op[o].current
    BY DEF Dispatchable, Children
  <1> HIDE DEF q
  <1>9. worker'[w] = q => SnapshotStands(w)'
    <2> SUFFICES ASSUME worker'[w] = q PROVE SnapshotStands(w)'
      OBVIOUS
    <2>1. \A e \in EffectIds : InFlightOf(w, e)' => e \in Dispatchable(o)
      BY <1>2, <1>5, <1>7 DEF InFlightOf
    <2> QED BY <1>4, <1>5, <1>6, <1>8, <2>1 DEF SnapshotStands, Unmoved
  <1> QED BY <1>1, <1>2, <1>9, OwnStep

(* An attempt goes on: its children are spawned, and resolve.                *)
LEMMA AttemptingSnapshots ==
    ASSUME IInv, NInv,
           \/ \E w \in Workers, e \in EffectIds : SpawnEffect(w, e)
           \/ \E t \in tasks, x \in {"settled", "unknown"} : AdapterResolves(t, x)
    PROVE  NInv'
  <1>inv. TypeOK
    BY DEF IInv
  <1>1. UNCHANGED <<op, nextSeq, cancel>>
    BY Zenon DEF SpawnEffect, AdapterResolves, durable
  <1>3. ASSUME NEW v \in Workers, worker'[v].pc = worker[v].pc, SameSnapshot(worker'[v], worker[v]),
               \A e \in EffectIds : InFlightOf(v, e)' => InFlightOf(v, e)
        PROVE  SnapshotStands(v)'
    <2>1. Requested(worker[v].op) => Requested(worker[v].op)'
      BY <1>1, <1>3 DEF Requested, SameSnapshot
    <2> QED BY <1>1, <1>3, <2>1, SnapshotKept
  <1>4. ASSUME NEW w \in Workers, NEW e \in EffectIds, SpawnEffect(w, e), NEW v \in Workers
        PROVE  /\ worker'[v].pc = worker[v].pc /\ SameSnapshot(worker'[v], worker[v])
               /\ \A f \in EffectIds : InFlightOf(v, f)' => InFlightOf(v, f)
    <2> DEFINE new == [effect |-> e, attempt |-> eff[e].count, owner |-> w]
    <2>1. /\ tasks' = tasks \cup {new} /\ worker' = [worker EXCEPT ![w] = Spawned(worker[w], e)]
          /\ e \in worker[w].unspawned
      BY <1>4 DEF SpawnEffect, Goto
    <2>2. new.effect = e /\ new.owner = w
      OBVIOUS
    <2> HIDE DEF new
    <2>3. worker[w] \in WorkerState
      BY <1>inv DEF TypeOK
    <2>4. /\ Spawned(worker[w], e).pc = worker[w].pc /\ SameSnapshot(Spawned(worker[w], e), worker[w])
          /\ Spawned(worker[w], e).unspawned \subseteq worker[w].unspawned
          /\ Spawned(worker[w], e).inbox = worker[w].inbox
      BY <2>3 DEF Spawned, SameSnapshot, WorkerState
    <2>5. worker'[v] = IF v = w THEN Spawned(worker[w], e) ELSE worker[v]
      BY <1>inv, <2>1 DEF TypeOK
    <2>6. worker'[v].pc = worker[v].pc /\ SameSnapshot(worker'[v], worker[v])
      BY <2>4, <2>5 DEF SameSnapshot
    <2>7. /\ worker'[v].unspawned \subseteq worker[v].unspawned /\ worker'[v].inbox = worker[v].inbox
      BY <2>4, <2>5
    <2>8. \A f \in EffectIds : InFlightOf(v, f)' => InFlightOf(v, f)
      BY <2>1, <2>2, <2>7 DEF InFlightOf
    <2> QED BY <2>6, <2>8
  <1>5. ASSUME NEW t \in tasks, NEW x \in {"settled", "unknown"}, AdapterResolves(t, x), NEW v \in Workers
        PROVE  /\ worker'[v].pc = worker[v].pc /\ SameSnapshot(worker'[v], worker[v])
               /\ \A f \in EffectIds : InFlightOf(v, f)' => InFlightOf(v, f)
    <2> DEFINE done == [effect |-> t.effect, attempt |-> t.attempt, result |-> x]
    <2>1. /\ tasks' = tasks \ {t}
          /\ worker' = IF t.owner = Null THEN worker
                       ELSE [worker EXCEPT ![t.owner] = Delivered(worker[t.owner], done)]
      BY <1>5 DEF AdapterResolves
    <2>2. done.effect = t.effect
      OBVIOUS
    <2> HIDE DEF done
    <2>3. worker[v] \in WorkerState /\ v # Null
      BY <1>inv, NullAssumption DEF TypeOK
    <2>4. /\ Delivered(worker[v], done).pc = worker[v].pc /\ SameSnapshot(Delivered(worker[v], done), worker[v])
          /\ Delivered(worker[v], done).unspawned = worker[v].unspawned
          /\ Delivered(worker[v], done).inbox = worker[v].inbox \cup {done}
      BY <2>3 DEF Delivered, SameSnapshot, WorkerState
    <2>5. worker'[v] = IF v = t.owner THEN Delivered(worker[v], done) ELSE worker[v]
      BY <1>inv, <2>1, <2>3 DEF TypeOK
    <2>6. worker'[v].pc = worker[v].pc /\ SameSnapshot(worker'[v], worker[v])
      BY <2>4, <2>5 DEF SameSnapshot
    <2>7. /\ worker'[v].unspawned = worker[v].unspawned
          /\ worker'[v].inbox = worker[v].inbox \/ (v = t.owner /\ worker'[v].inbox = worker[v].inbox \cup {done})
      BY <2>4, <2>5
    <2>8. \A f \in EffectIds : InFlightOf(v, f)' => InFlightOf(v, f)
      BY <2>1, <2>2, <2>7 DEF InFlightOf
    <2> QED BY <2>6, <2>8
  <1> QED BY <1>3, <1>4, <1>5 DEF NInv

(* A completion is received.  The one that finishes the batch is the last:   *)
(* a child still in hand is still started.                                   *)
LEMMA ReceivedSnapshots ==
    ASSUME IInv, NInv, NEW w \in Workers, NEW d \in worker[w].inbox,
           SettleBatchEffect(w, d) \/ RecordBatchEffectUnknown(w, d) \/ LeaveForReplay(w, d)
    PROVE  NInv'
  <1>inv. TypeOK /\ Placed /\ worker[w] \in WorkerState /\ SnapshotStands(w) /\ AttemptStarted(w)
    BY CallerFacts DEF IInv, NInv, AttemptsStarted
  <1>0. worker[w].pc = "attempts"
    BY DEF SettleBatchEffect, RecordBatchEffectUnknown, LeaveForReplay
  <1>1. PICK o \in Ops : o = worker[w].op /\ op[o].session = worker[w].session /\ op[o] \in OpRow
    BY <1>inv, <1>0, CallerFacts
  <1>2. d.effect \in EffectIds
    BY <1>inv DEF WorkerState, Completion
  <1>3. /\ ~worker[w].finished /\ op[o].phase = "effect_dispatched" /\ op[o].version = worker[w].version
    <2>1. InFlightOf(w, d.effect)
      BY DEF InFlightOf
    <2> QED BY <1>inv, <1>0, <1>1, <1>2, <2>1 DEF SnapshotStands, Unmoved
  <1>4. \A e \in EffectIds : InFlightOf(w, e) =>
          e[1] = o /\ e[2] = op[o].current /\ eff[e].status = "dispatch_started"
    <2>1. \A e \in EffectIds : InFlightOf(w, e) => eff[e].status = "dispatch_started"
      BY <1>inv DEF InFlightOf, AttemptStarted, IInv, TasksStarted
    <2> QED BY <1>inv, <1>0, <1>1, <2>1 DEF SnapshotStands
  <1>5. ASSUME NEW f \in BOOLEAN, worker' = [worker EXCEPT ![w] = Received(worker[w], d, f)], tasks' = tasks
        PROVE  /\ worker'[w].pc = "attempts" /\ worker'[w].op = o /\ worker'[w].version = worker[w].version
               /\ worker'[w].finished = f
               /\ \A e \in EffectIds : InFlightOf(w, e)' => InFlightOf(w, e) /\ e # d.effect
    <2>1. /\ Received(worker[w], d, f).pc = "attempts" /\ Received(worker[w], d, f).op = o
          /\ Received(worker[w], d, f).version = worker[w].version
          /\ Received(worker[w], d, f).finished = f
          /\ Received(worker[w], d, f).unspawned = worker[w].unspawned
          /\ Received(worker[w], d, f).inbox = worker[w].inbox \ {d}
      BY <1>inv, <1>0, <1>1 DEF Received, WorkerState
    <2>2. worker'[w] = Received(worker[w], d, f)
      BY <1>inv, <1>5 DEF TypeOK
    <2>3. /\ d.effect \notin worker[w].unspawned /\ \A t \in tasks : t.effect # d.effect
          /\ \A c \in worker[w].inbox : c.effect = d.effect => c = d
      BY <1>inv DEF AttemptStarted
    <2> QED BY <1>5, <2>1, <2>2, <2>3 DEF InFlightOf
  <1>6. CASE LeaveForReplay(w, d)
    <2> DEFINE f == worker[w].finished
    <2>1. /\ worker' = [worker EXCEPT ![w] = Received(worker[w], d, f)]
          /\ UNCHANGED <<op, nextSeq, cancel, tasks>> /\ f \in BOOLEAN
      BY <1>inv, <1>6 DEF LeaveForReplay, Goto, durable, WorkerState
    <2>2. SnapshotStands(w)'
      BY <1>1, <1>3, <1>4, <1>5, <2>1 DEF SnapshotStands, Unmoved
    <2> QED BY <1>0, <1>1, <2>1, <2>2, OwnStep
  <1>7. CASE SettleBatchEffect(w, d) \/ RecordBatchEffectUnknown(w, d)
    <2>1. PICK x \in {"settled", "outcome_unknown"} : Receive(w, d, x)
      BY <1>7 DEF SettleBatchEffect, RecordBatchEffectUnknown
    <2> DEFINE f == worker[w].finished \/ op'[o].phase # "effect_dispatched"
    <2>2. /\ worker' = [worker EXCEPT ![w] = Received(worker[w], d, f)]
          /\ op' = [op EXCEPT ![o] = AfterChildren(eff', o)]
          /\ eff' = [eff EXCEPT ![d.effect] = Marked(eff[d.effect], x)]
          /\ UNCHANGED <<nextSeq, cancel, tasks>> /\ f \in BOOLEAN
      BY <1>1, <2>1 DEF Receive, Goto
    <2>3. op'[o] = AfterChildren(eff', o)
      BY <1>inv, <2>2 DEF TypeOK
    <2>4. CASE Some(eff', o, op[o].current, "dispatch_started")
      <3>1. op'[o] = op[o]
        BY <2>3, <2>4 DEF AfterChildren
      <3>2. SnapshotStands(w)'
        BY <1>1, <1>3, <1>4, <1>5, <2>2, <3>1 DEF SnapshotStands, Unmoved
      <3> QED BY <1>0, <1>1, <2>2, <3>2, OwnStep
    <2>5. CASE ~Some(eff', o, op[o].current, "dispatch_started")
      <3>1. PICK b \in BOOLEAN : op'[o] = FinishedBatch(op[o], b)
        BY <2>3, <2>5 DEF AfterChildren, Some
      <3>2. f
        BY <1>1, <3>1, FinishedBatchRow
      <3>3. \A e \in EffectIds : ~InFlightOf(w, e)'
        <4> SUFFICES ASSUME NEW e \in EffectIds, InFlightOf(w, e)' PROVE FALSE
          OBVIOUS
        <4>1. InFlightOf(w, e) /\ e # d.effect
          BY <1>5, <2>2
        <4>2. eff'[e] = eff[e] /\ e \in Children(o, op[o].current) /\ eff[e].status = "dispatch_started"
          BY <1>inv, <1>2, <1>4, <2>2, <4>1 DEF TypeOK, Children
        <4> QED BY <2>5, <4>2 DEF Some
      <3>4. SnapshotStands(w)'
        BY <1>5, <2>2, <3>2, <3>3 DEF SnapshotStands
      <3> QED BY <1>0, <1>1, <2>2, <3>4, OwnStep
    <2> QED BY <2>4, <2>5
  <1> QED BY <1>6, <1>7

(* Steps outside drives: an admission writes no admitted operation, and a    *)
(* request is never withdrawn.                                               *)
LEMMA OutsideSnapshots ==
    ASSUME IInv, NInv,
           \/ UNCHANGED vars
           \/ \E o \in Ops, s \in Sessions : Submit(o, s) \/ SubmitExclusive(o, s)
           \/ \E i \in CancelIds, o \in Ops : RequestCancellation(i, o)
           \/ \E i \in CancelIds : RetryCancellation(i)
           \/ \E o \in Ops : SignalRunningOperation(o)
    PROVE  NInv'
  <1>inv. TypeOK /\ Placed /\ RowsAgree
    BY DEF IInv
  <1>1. UNCHANGED <<worker, tasks, nextSeq>>
    BY Zenon DEF vars, Submit, SubmitExclusive, Admit, RequestCancellation, RetryCancellation,
                 SignalRunningOperation, durable, volatile
  <1>2. \A p \in Ops : op[p].session # Null => op'[p] = op[p]
    <2>1. ASSUME NEW o \in Ops, NEW s \in Sessions, Admit(o, s), NEW p \in Ops, op[p].session # Null
          PROVE  op'[p] = op[p]
      BY <1>inv, <2>1 DEF Admit, RowsAgree, TypeOK
    <2>2. CASE op' = op
      BY <2>2
    <2>3. CASE op' # op
      <3>1. \E o \in Ops, s \in Sessions : Admit(o, s)
        BY <2>3, Zenon DEF vars, Submit, SubmitExclusive, RequestCancellation, RetryCancellation,
                    SignalRunningOperation, durable
      <3> QED BY <2>1, <3>1
    <2> QED BY <2>2, <2>3
  <1>3. ASSUME NEW o \in Ops, Requested(o) PROVE Requested(o)'
    <2>1. \/ cancel' = cancel
          \/ \E i \in CancelIds, p \in Ops : cancel[i] = Null /\ cancel' = [cancel EXCEPT ![i] = p]
      BY Zenon DEF vars, Submit, SubmitExclusive, Admit, RequestCancellation, RetryCancellation,
                   SignalRunningOperation, durable
    <2> QED BY <1>inv, <1>3, <2>1, StillRequested
  <1> SUFFICES ASSUME NEW v \in Workers PROVE SnapshotStands(v)'
    BY DEF NInv
  <1>4. CASE worker[v].pc \in {"idle", "activate"}
    BY <1>1, <1>4, NoSnapshot
  <1>5. CASE worker[v].pc \notin {"idle", "activate"}
    <2>1. worker[v].op \in Ops /\ op[worker[v].op].session # Null
      BY <1>inv, <1>5, NullAssumption DEF Placed
    <2>2. op'[worker[v].op] = op[worker[v].op]
      BY <1>2, <2>1
    <2>3. Requested(worker[v].op) => Requested(worker[v].op)'
      <3>1. PICK o \in Ops : o = worker[v].op /\ o = worker'[v].op
        BY <1>1, <2>1
      <3>2. Requested(o) => Requested(o)'
        BY <1>3
      <3> QED BY <3>1, <3>2 DEF Requested
    <2>4. \A e \in EffectIds : InFlightOf(v, e)' => InFlightOf(v, e)
      BY <1>1 DEF InFlightOf
    <2> QED BY <1>1, <2>2, <2>3, <2>4, SnapshotKept DEF SameSnapshot
  <1> QED BY <1>4, <1>5

(* Leases are taken, and a crash leaves nobody.                              *)
LEMMA LeasedSnapshots ==
    ASSUME IInv, NInv,
           \/ \E w \in Workers, s \in Sessions, m \in Manifests : Drive(w, s, m)
           \/ \E w \in Workers, o \in Ops, m \in Manifests : Abandon(w, o, m)
           \/ Crash
    PROVE  NInv'
  <1>1. CASE Crash
    BY <1>1, IdleOK, NoSnapshot DEF Crash, NInv
  <1>2. ASSUME NEW w \in Workers, NEW s, NEW o, NEW m, NEW pc \in {"activate", "abandon"},
               Acquire(w, s, Starting(pc, s, o, m)), UNCHANGED <<op, nextSeq, cancel, tasks>>
        PROVE  NInv'
    <2>1. worker'[w].pc = pc /\ \A v \in Workers : v # w => worker'[v] = worker[v]
      BY <1>2, StartingManifest DEF Acquire, IInv, TypeOK
    <2>2. SnapshotStands(w)'
      BY <2>1, NoSnapshot
    <2>3. ASSUME NEW v \in Workers, v # w PROVE SnapshotStands(v)'
      <3>1. worker'[v] = worker[v]
        BY <2>1, <2>3
      <3>2. \A e \in EffectIds : InFlightOf(v, e)' => InFlightOf(v, e)
        BY <1>2, <3>1 DEF InFlightOf
      <3>3. Requested(worker[v].op) => Requested(worker[v].op)'
        BY <1>2, <3>1 DEF Requested
      <3> QED BY <1>2, <3>1, <3>2, <3>3, SnapshotKept DEF SameSnapshot
    <2> QED BY <2>2, <2>3 DEF NInv
  <1>3. CASE \/ \E w \in Workers, s \in Sessions, m \in Manifests : Drive(w, s, m)
             \/ \E w \in Workers, o \in Ops, m \in Manifests : Abandon(w, o, m)
    BY <1>2, <1>3 DEF Drive, Abandon, durable
  <1> QED BY <1>1, <1>3

(* Every step keeps the invariant of snapshots.                              *)
LEMMA NextSnapshots == ASSUME IInv, NInv, [Next]_vars PROVE NInv'
  <1>type. TypeOK'
    BY NextType DEF IInv
  <1>1. ASSUME NEW w \in Workers, DriveStep(w) \/ AbandonStep(w) \/ DriveEnds(w)
        PROVE  NInv'
    BY <1>1, <1>type, ForgottenSnapshots, TakenSnapshots, CarriedSnapshots, DispatchedSnapshots,
       AttemptingSnapshots, ReceivedSnapshots, Zenon DEF DriveStep, AbandonStep
  <1> QED BY <1>1, OutsideSnapshots, LeasedSnapshots, AttemptingSnapshots, Zenon DEF Next

(* It holds initially.                                                       *)
LEMMA InitSnapshots == Init => NInv
  <1> SUFFICES ASSUME Init, NEW w \in Workers PROVE SnapshotStands(w)
    BY DEF NInv
  <1>1. worker[w].pc = "idle"
    BY DEF Init, IdleWorker
  <1> QED BY <1>1 DEF SnapshotStands

(* Snapshots, for every value of the constants.                              *)
THEOREM SnapshotsInvariant == Spec => []NInv
  <1>1. IInv /\ NInv /\ [Next]_vars => NInv'
    BY NextSnapshots
  <1> QED BY <1>1, InitSnapshots, Invariance, PTL DEF Spec

(* The batch of an active operation agrees with its phase.                   *)
LEMMA LiveBatch ==
    ASSUME IInv, SInv, EInv, NEW o \in Ops, op[o].phase \in Live
    PROVE  BatchAgrees(o)
  <1>1. op[o].outcome = "none"
    BY DEF SInv, RowsInv, OutcomesAgree, Live, Terminal
  <1> QED BY <1>1 DEF EInv, UnfinishedAgrees

(* The batch an abandoned operation was blocked on is found again.           *)
LEMMA AbandonedBatch ==
    ASSUME IInv, SInv, EInv, NEW o \in Ops, op[o].phase = "failed",
           NEW e \in EffectIds, e[1] = o, eff[e].status = "outcome_unknown"
    PROVE  /\ {b \in Batches : Some(eff, o, b, "outcome_unknown")} = {e[2]}
           /\ op[o].current = 0 /\ op[o].input = 0 /\ Closed(o, e[2]) /\ Readable(o, e[2])
  <1>1. op[o].outcome # "none"
    BY DEF SInv, RowsInv, OutcomesAgree, Terminal
  <1>2. /\ \A f \in EffectIds : f[1] = o /\ eff[f].status # "none" =>
             /\ eff[f].request \in {"kept", "released"}
             /\ eff[f].request = "released" <=> AllChildren(o, f[2], {"settled"})
        /\ op[o].current = 0 /\ op[o].input = 0
        /\ \A f \in EffectIds : f[1] = o /\ eff[f].status # "none" =>
             eff[f].status = "settled" \/ (eff[f].status = "outcome_unknown" /\ f[2] = e[2])
    BY <1>1 DEF EInv, FinishedAgrees
  <1>3. e \in Children(o, e[2]) /\ e[2] \in Batches
    BY EffectIdFacts DEF Children
  <1>4. \A b : Some(eff, o, b, "outcome_unknown") => b = e[2]
    BY <1>2 DEF Some, Children
  <1>5. Some(eff, o, e[2], "outcome_unknown")
    BY <1>3 DEF Some
  <1>6. {b \in Batches : Some(eff, o, b, "outcome_unknown")} = {e[2]}
    BY <1>3, <1>4, <1>5
  <1>7. Closed(o, e[2])
    BY <1>2, <1>5 DEF Closed, AllChildren, Children
  <1>8. Readable(o, e[2])
    <2>1. ~AllChildren(o, e[2], {"settled"})
      BY <1>3 DEF AllChildren
    <2> QED BY <1>2, <2>1 DEF Readable, Children
  <1> QED BY <1>2, <1>6, <1>7, <1>8

(* Every consistency check of a drive or an abandonment passes: whatever     *)
(* other callers, requests, adapters and crashes did since its snapshot, a   *)
(* transaction finds the rows as its caller left them.                       *)
THEOREM NothingCorrupt == Spec => []NeverCorrupt
  <1>1. ASSUME IInv, SInv, EInv, NInv, NEW w \in Workers
        PROVE  ChecksOf(w)
    <2>inv. TypeOK /\ Placed /\ SnapshotStands(w) /\ AttemptStarted(w) /\ CallerStands(w)
      BY <1>1 DEF IInv, NInv, AttemptsStarted, SInv, CallersInv
    <2> DEFINE pc == worker[w].pc
               s == worker[w].session
    <2>1. CASE pc = "activate"
      <3>1. active[s] # Null => active[s] \in Ops /\ op[active[s]].phase \in Live
        BY <1>1, <2>1, <2>inv, CallerFacts DEF TypeOK, SInv, RowsInv, ActiveIsLive
      <3>2. active[s] # Null => op[active[s]].manifest # Null
        BY <1>1, <3>1, NullAssumption DEF SInv, RowsInv, RuntimeRecorded
      <3> QED BY <2>1, <3>2 DEF ChecksOf
    <2>2. CASE pc \in Driving
      <3>1. PICK o \in Ops : o = worker[w].op /\ op[o].session = s /\ s \in Sessions
        BY <2>2, <2>inv, DrivingPcs, CallerFacts
      <3>2. Owns(w) /\ op[o].phase \in Live
        <4>1. Owns(w)
          BY <2>2, <2>inv DEF CallerStands
        <4>2. active[s] = o /\ o # Null
          BY <3>1, <4>1, NullAssumption DEF Owns
        <4> QED BY <1>1, <3>1, <4>1, <4>2 DEF SInv, RowsInv, ActiveIsLive
      <3>3. BatchAgrees(o) /\ IsCancellable(o)
        BY <1>1, <3>2, LiveBatch DEF IsCancellable
      <3>4. CASE pc = "attempts"
        <4>1. ASSUME NEW d \in worker[w].inbox PROVE MayRecord(w, d.effect)
          <5>1. d.effect \in EffectIds /\ eff[d.effect].status = "dispatch_started"
            BY <2>inv, CallerFacts DEF AttemptStarted, Completion
          <5>2. InFlightOf(w, d.effect)
            BY DEF InFlightOf
          <5>3. ~worker[w].finished /\ d.effect[2] = op[o].current
            BY <2>inv, <3>1, <3>4, <5>1, <5>2 DEF SnapshotStands
          <5> QED BY <2>inv, <3>1, <3>4, <5>1, <5>3 DEF SnapshotStands, MayRecord, Unmoved
        <4>2. ~worker[w].finished => op[o].phase = "effect_dispatched" /\ Unmoved(w)
          BY <2>inv, <3>1, <3>4 DEF SnapshotStands
        <4> QED BY <3>1, <3>4, <4>1, <4>2 DEF ChecksOf
      <3>5. CASE pc \in {"check", "close", "step", "bind", "reload"}
        BY <2>inv, <3>1, <3>2, <3>3, <3>5 DEF ChecksOf, SnapshotStands
      <3> QED BY <2>2, <3>4, <3>5 DEF Driving
    <2>3. CASE pc \in {"abandon", "abandonCommit"}
      <3>1. PICK o \in Ops : o = worker[w].op /\ op[o].session = s /\ s \in Sessions
        BY <2>3, <2>inv, CallerFacts
      <3>2. op[o].phase = "outcome_unknown" => Owns(w) /\ BatchAgrees(o)
        BY <1>1, <3>1, LiveBatch DEF SInv, RowsInv, ActiveIsLive, Owns, Live
      <3>3. CASE pc = "abandonCommit"
        <4>1. op[o].phase = "outcome_unknown" /\ Unmoved(w) /\ nextSeq[s] = worker[w].seq
          BY <2>inv, <3>1, <3>3 DEF SnapshotStands
        <4>2. Closed(o, op[o].current)
          BY <3>2, <4>1 DEF BatchAgrees
        <4> QED BY <3>1, <3>2, <3>3, <4>1, <4>2 DEF ChecksOf
      <3>4. CASE pc = "abandon"
        <4> DEFINE unknown == {b \in Batches : Some(eff, o, b, "outcome_unknown")}
        <4>1. ASSUME op[o].phase = "failed", unknown # {}
              PROVE  /\ Cardinality(unknown) = 1 /\ ~Owns(w)
                     /\ op[o].current = 0 /\ op[o].input = 0
                     /\ \A b \in unknown : Closed(o, b) /\ Readable(o, b)
          <5>1. PICK e \in EffectIds : e[1] = o /\ eff[e].status = "outcome_unknown"
            BY <4>1 DEF Some, Children
          <5>2. /\ unknown = {e[2]} /\ op[o].current = 0 /\ op[o].input = 0
                /\ Closed(o, e[2]) /\ Readable(o, e[2])
            BY <1>1, <4>1, <5>1, AbandonedBatch
          <5>3. Cardinality({e[2]}) = 1
            BY FS_Singleton
          <5>4. ~Owns(w)
            BY <1>1, <3>1, <4>1, NullAssumption DEF SInv, RowsInv, ActiveIsLive, Owns, Live
          <5> HIDE DEF unknown
          <5> QED BY <5>2, <5>3, <5>4
        <4> QED BY <3>1, <3>2, <3>4, <4>1 DEF ChecksOf
      <3> QED BY <2>3, <3>3, <3>4
    <2>4. CASE pc = "idle"
      BY <2>4 DEF ChecksOf
    <2>5. pc \in Pcs
      BY <2>inv DEF TypeOK, WorkerState
    <2> QED BY <2>1, <2>2, <2>3, <2>4, <2>5 DEF Pcs, Driving
  <1>2. IInv /\ SInv /\ EInv /\ NInv => NeverCorrupt
    BY <1>1 DEF NeverCorrupt
  <1> QED BY <1>2, Invariance, SessionsInvariant, BatchesInvariant, SnapshotsInvariant, PTL
=============================================================================
