---------------------------- MODULE Automations ----------------------------
(***************************************************************************)
(* Automations of the Local Host (crates/renoa-local/src/host/automations)  *)
(* and the node's scheduler loop (crates/renoa-node/src/automations.rs):    *)
(* stored schedules, the runs admitted from them, their delivery as         *)
(* commands or as plugin tasks, retention, deletion, and the reader that    *)
(* follows the results.  A run keeps its index (sequence) when its row is   *)
(* removed.  Time is counted in units of which Period make a cron gap.      *)
(***************************************************************************)
EXTENDS Integers, Sequences, FiniteSets, FiniteSetsExt

CONSTANTS
    Once, Cron, FollowUps, HostRun, \* the automations, by kind: HostRun are plugin timers
    Broken,    \* automations whose stored schedule cannot be read
    Period,    \* the gap of a cron schedule
    WaitingMax,\* follow-ups waiting at a time
    Keep,      \* KEEP_RUNS
    Age,       \* KEEP_RUNS_MS
    MaxTime,   \* bound: the clock
    MaxOps,    \* bound: mutations
    MaxRuns,   \* bound: runs
    MaxFaults  \* bound: restarts, lost answers and failed transactions

Autos == Once \cup Cron \cup FollowUps \cup HostRun

AutomationsAssumption ==
    /\ Cardinality(Autos) = Cardinality(Once) + Cardinality(Cron) + Cardinality(FollowUps) + Cardinality(HostRun)
    /\ Autos \subseteq Nat /\ Broken \subseteq Autos
    /\ Period \in Nat \ {0} /\ Keep \in Nat \ {0} /\ {WaitingMax, Age, MaxTime, MaxOps, MaxRuns, MaxFaults} \subseteq Nat

VARIABLES
    now,
    auto,    \* host_automations with its deletion and conversation marks
    run,     \* host_automation_runs
    receipt, \* mutation receipts, by operation
    answer,  \* what the caller of each operation was answered, so far
    wanted,  \* the plugin timers their plugins want
    job,     \* the scheduler: what it does and with which run
    plug,    \* PluginTask: its run and how it stands
    hold,    \* Retry: plugin runs wait
    cmd,     \* external, coordinator and node: the command of each run
    task,    \* external: the automation's own conversation
    cursor, seen, \* a reader of results: its cursor and what it got
    faults

vars == <<now, auto, run, receipt, answer, wanted, job, plug, hold, cmd, task, cursor, seen, faults>>
node == <<job, plug, hold, cmd, task>>
reader == <<cursor, seen>>
Fault == faults < MaxFaults /\ faults' = faults + 1
Idle == [at |-> "idle", r |-> 0]
NoCommand == [where |-> "none", end |-> "none"]
NoPlugin == [r |-> 0, state |-> "none"]
Runs == 1..Len(run)
Repeats(a) == a \in Cron \cup HostRun

Init ==
    /\ now = 0 /\ run = <<>> /\ receipt = <<>> /\ answer = <<>> /\ wanted \in SUBSET HostRun
    /\ auto = [a \in Autos |-> [stored |-> FALSE, on |-> FALSE, rev |-> 0, at |-> 0, due |-> 0,
                                deleted |-> FALSE, text |-> FALSE, conv |-> FALSE]]
    /\ job = Idle /\ plug = NoPlugin /\ hold = FALSE /\ cmd = <<>> /\ task = [a \in Autos |-> "none"]
    /\ cursor = 0 /\ seen = {} /\ faults = 0

Tick == now < MaxTime /\ now' = now + 1 /\ UNCHANGED <<auto, run, receipt, answer, wanted, node, reader, faults>>
-----------------------------------------------------------------------------
(* Schedules and rows *)

NextAfter(a, rec) == IF Repeats(a) THEN (now \div Period + 1) * Period ELSE rec.at
(* A repeating run is skipped when it is more than half its gap late.        *)
Late(a, due) == Repeats(a) /\ 2 * (now - due) > Period
DisarmOnce(a, rec) ==
    IF Repeats(a) THEN rec ELSE [rec EXCEPT !.on = FALSE, !.rev = IF rec.on THEN @ + 1 ELSE @]
PendingIn(rs, a) == {r \in 1..Len(rs) : rs[r].auto = a /\ rs[r].state = "pending"}
EndedIn(rs, a) == {r \in 1..Len(rs) : rs[r].auto = a /\ rs[r].state \in {"succeeded", "failed", "skipped"}}
NewRun(a, id) == [auto |-> a, id |-> id, state |-> "pending", end |-> 0]
Without(rs, gone) == [r \in 1..Len(rs) |-> IF r \in gone THEN [rs[r] EXCEPT !.state = "removed"] ELSE rs[r]]
KeepNewest(rs, a) == Without(rs, {r \in EndedIn(rs, a) : Cardinality({s \in EndedIn(rs, a) : s > r}) >= Keep})

(* purge_deleted: once nothing of a deleted automation is pending.           *)
PurgeReady(rec, rs, a) == rec.deleted /\ PendingIn(rs, a) = {}
PurgedRow(rec, rs, a) == IF PurgeReady(rec, rs, a) THEN [rec EXCEPT !.text = FALSE, !.conv = TRUE] ELSE rec
PurgedRuns(rec, rs, a) == IF PurgeReady(rec, rs, a) THEN Without(rs, {r \in 1..Len(rs) : rs[r].auto = a}) ELSE rs
PurgedReceipts(rec, rs, a, rcs) ==
    IF PurgeReady(rec, rs, a) THEN [o \in 1..Len(rcs) |-> IF rcs[o].auto = a THEN [rcs[o] EXCEPT !.digest = TRUE] ELSE rcs[o]] ELSE rcs
-----------------------------------------------------------------------------
(* Mutations: each is one transaction that also stores its receipt.          *)

(* get: stored, not deleted and not owned by a plugin.                       *)
Get(a) == auto[a].stored /\ ~auto[a].deleted /\ a \notin HostRun
Save(a, rec, rs) ==
    LET rcs == Append(receipt, [auto |-> a, rev |-> rec.rev, digest |-> FALSE])
    IN  /\ Len(receipt) < MaxOps
        /\ auto' = [auto EXCEPT ![a] = PurgedRow(rec, rs, a)]
        /\ run' = PurgedRuns(rec, rs, a)
        /\ receipt' = PurgedReceipts(rec, rs, a, rcs)
        /\ answer' = Append(answer, {rec.rev})
        /\ UNCHANGED <<now, wanted, job, plug, hold, task, reader, faults>>

Waiting == {f \in FollowUps : auto[f].stored /\ auto[f].on}
(* A follow-up is armed as it is set.  WaitingMax holds for the ones agents  *)
(* set, not for a note of the Host (note_now), which is due at once.         *)
Room(at) == Cardinality(Waiting) < WaitingMax \/ at = now + 1
Create(a, at, on) ==
    /\ ~auto[a].stored /\ a \notin HostRun /\ (IF Repeats(a) THEN at = 0 ELSE on => at > now)
    /\ a \in FollowUps => on /\ Room(at)
    /\ Save(a, [auto[a] EXCEPT !.stored = TRUE, !.on = on, !.rev = 1, !.at = at, !.text = TRUE,
                               !.due = NextAfter(a, [at |-> at])], run)
    /\ UNCHANGED cmd
Update(a, at, on) ==
    LET old == auto[a]  rec == [old EXCEPT !.on = on, !.at = IF Repeats(a) THEN 0 ELSE at, !.rev = @ + 1]
        due == IF old.on = on /\ (Repeats(a) \/ old.at = at) THEN old.due ELSE NextAfter(a, rec)
    IN  /\ Get(a) /\ (on /\ ~Repeats(a) /\ ~(old.on /\ old.at = at) => at > now)
        /\ Save(a, [rec EXCEPT !.due = due], run) /\ UNCHANGED cmd
Delete(a) ==
    /\ Get(a) /\ Save(a, [auto[a] EXCEPT !.on = FALSE, !.rev = @ + 1, !.deleted = TRUE], run) /\ UNCHANGED cmd
BusyNever(a) == FALSE
Busy(a) == PendingIn(run, a) # {}
RunNow(a) ==
    /\ Get(a) /\ ~Busy(a) /\ Len(run) < MaxRuns
    /\ Save(a, DisarmOnce(a, auto[a]), Append(run, NewRun(a, <<"op", Len(receipt) + 1>>)))
    /\ cmd' = Append(cmd, NoCommand)

(* An operation whose answer was lost is sent again with the same request.   *)
RequestMatches(o) == TRUE
Replay(o) ==
    /\ Fault /\ answer' = [answer EXCEPT ![o] = @ \cup {IF RequestMatches(o) THEN receipt[o].rev ELSE 0}]  \* 0 for a conflict
    /\ UNCHANGED <<now, auto, run, receipt, wanted, node, reader>>

Want(a) ==
    /\ wanted' = IF a \in wanted THEN wanted \ {a} ELSE wanted \cup {a}
    /\ now < MaxTime /\ now' = now + 1
    /\ UNCHANGED <<auto, run, receipt, answer, node, reader, faults>>
-----------------------------------------------------------------------------
(* The scheduler loop *)

(* reap and Retry.                                                           *)
Reap ==
    /\ job = Idle /\ plug.state \in {"ok", "failed"} /\ hold' = (plug.state = "failed") /\ plug' = NoPlugin
    /\ UNCHANGED <<now, auto, run, receipt, answer, wanted, job, cmd, task, reader, faults>>
HoldEnds == hold /\ hold' = FALSE /\ UNCHANGED <<now, auto, run, receipt, answer, wanted, job, plug, cmd, task, reader, faults>>
Held == plug.r # 0 \/ hold

(* converge: the plugin timers that are wanted are stored and on.            *)
Kept(a) ==
    LET rec == auto[a]
    IN  CASE a \notin HostRun \/ rec.on = (a \in wanted) -> rec
          [] ~rec.stored -> [rec EXCEPT !.stored = TRUE, !.on = TRUE, !.rev = 1, !.text = TRUE, !.due = NextAfter(a, rec)]
          [] OTHER -> [rec EXCEPT !.on = ~@, !.rev = @ + 1, !.due = NextAfter(a, rec)]
Converged == [a \in Autos |-> Kept(a)]
Due(au) == {a \in Autos : au[a].on /\ au[a].due <= now /\ ~au[a].deleted /\ ~(Held /\ a \in HostRun)}
Before(au, a, b) == au[a].due < au[b].due \/ (au[a].due = au[b].due /\ a <= b)
(* A row that cannot be read is passed over.                                 *)
Admissible(au) == {a \in Due(au) \ Broken : \A b \in Due(au) \ Broken : Before(au, a, b)}
Pending == {r \in Runs : run[r].state = "pending" /\ ~(Held /\ run[r].auto \in HostRun)}

Admitted(au, a) ==
    LET rec == DisarmOnce(a, au[a]) IN [au EXCEPT ![a] = [rec EXCEPT !.due = IF Repeats(a) THEN NextAfter(a, rec) ELSE @]]
AdmittedRun(au, a) ==
    LET new == NewRun(a, <<a, au[a].rev, au[a].due>>)
    IN  KeepNewest(Append(run, IF Late(a, au[a].due) THEN [new EXCEPT !.state = "skipped", !.end = now] ELSE new), a)
(* What serve does with the run it was given.                                *)
Take(r, a, state) ==
    /\ job' = IF state = "skipped" \/ a \in HostRun THEN Idle ELSE [at |-> "deliver", r |-> r]
    /\ plug' = IF state # "skipped" /\ a \in HostRun THEN [r |-> r, state |-> "running"] ELSE plug
NextRun ==
    /\ job = Idle /\ plug.state \in {"none", "running"}
    /\ IF Pending # {}
       THEN /\ Take(Min(Pending), run[Min(Pending)].auto, "pending") /\ UNCHANGED <<auto, run, cmd>>
       ELSE LET au == Converged
            IN  IF Admissible(au) = {} \/ Len(run) = MaxRuns THEN auto' = au /\ UNCHANGED <<run, cmd, job, plug>>
                ELSE \E a \in Admissible(au) :
                        /\ auto' = Admitted(au, a) /\ run' = AdmittedRun(au, a) /\ cmd' = Append(cmd, NoCommand)
                        /\ Take(Len(run) + 1, a, run'[Len(run) + 1].state)
    /\ UNCHANGED <<now, receipt, answer, wanted, hold, task, reader, faults>>

(* deliver: a recorded command is waited for, a new one is submitted to the  *)
(* automation's own task or to its conversation.                             *)
Deliver ==
    /\ job.at = "deliver"
    /\ LET r == job.r  a == run[job.r].auto
       IN  IF cmd[r] # NoCommand THEN job' = [job EXCEPT !.at = "wait"] /\ UNCHANGED <<cmd, task>>
           ELSE \E where \in {"own", "conversation"} :
                  /\ where = "conversation" => a \in FollowUps
                  /\ cmd' = [cmd EXCEPT ![r].where = where]
                  /\ task' = IF where = "own" /\ task[a] = "none" THEN [task EXCEPT ![a] = "open"] ELSE task
                  /\ job' = [job EXCEPT !.at = "wait"]
    /\ UNCHANGED <<now, auto, run, receipt, answer, wanted, plug, hold, reader, faults>>
(* The connection is lost, with or without the command at the coordinator.   *)
LoseLink == Fault /\ job.at \in {"deliver", "wait"} /\ job' = Idle
            /\ UNCHANGED <<now, auto, run, receipt, answer, wanted, plug, hold, cmd, task, reader>>
Refuse ==
    /\ Fault /\ job.at = "deliver" /\ cmd[job.r] = NoCommand /\ cmd' = [cmd EXCEPT ![job.r].end = "refused"]
    /\ job' = [job EXCEPT !.at = "wait"] /\ UNCHANGED <<now, auto, run, receipt, answer, wanted, plug, hold, task, reader>>
TurnEnds(r) ==
    /\ cmd[r].where # "none" /\ cmd[r].end = "none" /\ \E s \in {"answered", "stopped"} : cmd' = [cmd EXCEPT ![r].end = s]
    /\ UNCHANGED <<now, auto, run, receipt, answer, wanted, job, plug, hold, task, reader, faults>>

(* close: the result, the follow-up's retirement, retention, the purge.      *)
Retires(a, ok, landed) == a \in FollowUps /\ ok /\ landed /\ ~auto[a].on /\ ~auto[a].deleted
Close(r, ok, landed) ==
    LET a == run[r].auto
        rec == IF Retires(a, ok, landed) THEN [auto[a] EXCEPT !.deleted = TRUE, !.rev = @ + 1] ELSE auto[a]
        rs == KeepNewest([run EXCEPT ![r].state = IF ok THEN "succeeded" ELSE "failed", ![r].end = now], a)
    IN  /\ auto' = [auto EXCEPT ![a] = PurgedRow(rec, rs, a)] /\ run' = PurgedRuns(rec, rs, a)
        /\ receipt' = PurgedReceipts(rec, rs, a, receipt)
Finish ==
    /\ job.at = "wait" /\ cmd[job.r].end # "none" /\ job' = Idle
    /\ \/ /\ Close(job.r, cmd[job.r].end = "answered", cmd[job.r].where = "conversation")
          /\ UNCHANGED faults
       \/ Fault /\ UNCHANGED <<auto, run, receipt>>
    /\ UNCHANGED <<now, answer, wanted, plug, hold, cmd, task, reader>>
PluginEnds ==
    /\ plug.state = "running"
    /\ \/ \E ok \in BOOLEAN : Close(plug.r, ok, FALSE) /\ plug' = [plug EXCEPT !.state = "ok"] /\ UNCHANGED faults
       \/ Fault /\ plug' = [plug EXCEPT !.state = "failed"] /\ UNCHANGED <<auto, run, receipt>>
    /\ UNCHANGED <<now, answer, wanted, job, hold, cmd, task, reader>>
-----------------------------------------------------------------------------
(* Heartbeat, conversations, reader, restart *)

Expired == {r \in Runs : run[r].state \in {"succeeded", "failed", "skipped"} /\ run[r].end < now - Age}
Heartbeat ==
    /\ Expired # {} /\ run' = Without(run, Expired)
    /\ UNCHANGED <<now, auto, receipt, answer, wanted, node, reader, faults>>
(* delete_conversation: the task goes first, the mark last.                  *)
DeleteTask(a) ==
    /\ job = Idle /\ auto[a].conv /\ task[a] = "open" /\ task' = [task EXCEPT ![a] = "deleted"]
    /\ UNCHANGED <<now, auto, run, receipt, answer, wanted, job, plug, hold, cmd, reader, faults>>
ConversationDeleted(a) ==
    /\ job = Idle /\ auto[a].conv /\ task[a] # "open" /\ auto' = [auto EXCEPT ![a].conv = FALSE]
    /\ UNCHANGED <<now, run, receipt, answer, wanted, node, reader, faults>>
Completed == {r \in Runs : /\ r > cursor /\ run[r].state \in {"succeeded", "failed", "skipped"} /\ run[r].auto \notin HostRun
                           /\ \A e \in 1..(r - 1) : ~(run[e].state = "pending" /\ run[e].auto \notin HostRun)}
ReadResults ==
    /\ Completed # {} /\ seen' = seen \cup Completed /\ cursor' = Max(Completed)
    /\ UNCHANGED <<now, auto, run, receipt, answer, wanted, node, faults>>
Restart ==
    /\ Fault /\ job' = Idle /\ plug' = NoPlugin /\ hold' = FALSE
    /\ UNCHANGED <<now, auto, run, receipt, answer, wanted, cmd, task, reader>>

Scheduler == Reap \/ HoldEnds \/ NextRun \/ Deliver \/ Finish \/ PluginEnds
Next ==
    \/ Tick \/ Scheduler \/ LoseLink \/ Refuse \/ Heartbeat \/ ReadResults \/ Restart
    \/ \E a \in Autos : \/ Delete(a) \/ RunNow(a) \/ DeleteTask(a) \/ ConversationDeleted(a)
                        \/ \E at \in 0..MaxTime, on \in BOOLEAN : Create(a, at, on) \/ Update(a, at, on)
    \/ \E a \in HostRun : Want(a)
    \/ \E o \in 1..Len(receipt) : Replay(o)
    \/ \E r \in Runs : TurnEnds(r)
Spec == Init /\ [][Next]_vars /\ WF_vars(Scheduler) /\ \A r \in 1..MaxRuns : WF_vars(r \in Runs /\ TurnEnds(r))
        /\ \A a \in Autos : WF_vars(DeleteTask(a)) /\ WF_vars(ConversationDeleted(a))
-----------------------------------------------------------------------------
(* Types: indexes name runs, and a scheduler or plugin task holds a pending  *)
(* run, which nobody else closes.                                            *)
TypeOK ==
    /\ Len(cmd) = Len(run) /\ Len(answer) = Len(receipt) /\ cursor \in 0..Len(run) /\ seen \subseteq Runs
    /\ job.at \in {"idle", "deliver", "wait"} /\ (job.r # 0 => job.r \in Runs /\ run[job.r].state = "pending")
    /\ plug.state = "running" => run[plug.r].state = "pending" /\ plug.r # job.r
    /\ \A r \in Runs : run[r].state \in {"pending", "succeeded", "failed", "skipped", "removed"}

(* An automation never has two runs waiting or going: manual runs, due runs, *)
(* retries and restarts included (RunNow's Busy, next's pending-first).      *)
NoOverlap == \A a \in Autos : Cardinality(PendingIn(run, a)) <= 1

(* An occurrence is admitted once: the identity of a run, which is also its  *)
(* command's, is never used again, whatever is re-armed, changed or pruned.  *)
OccurrenceOnce == \A r, s \in Runs : run[r].id = run[s].id => r = s

(* A deleted automation is off: a follow-up armed again while its run was    *)
(* going is not retired by that run's end.                                   *)
DeletedIsOff == \A a \in Autos : auto[a].deleted => ~auto[a].on

(* The conversation of a run that has not ended has not been deleted.        *)
ConversationKept == \A r \in Runs :
    run[r].state = "pending" \/ (cmd[r].where = "own" /\ cmd[r].end = "none") => task[run[r].auto] # "deleted"

(* The reader's cursor never passes a result it was not given, unless        *)
(* retention removed it first.                                               *)
NothingSkipped ==
    \A r \in 1..cursor : r \in seen \/ run[r].auto \in HostRun \/ run[r].state = "removed"

(* An operation sent again, even after its automation was purged, is         *)
(* answered as it was the first time.                                        *)
SameAnswer == \A o \in 1..Len(answer) : Cardinality(answer[o]) = 1

(* What is due runs, or is turned off, although another row is unreadable.   *)
DueRuns ==
    \A a \in Autos \ Broken : ~auto[a].on \/ auto[a].due > now \/ Len(run) = MaxRuns

(* Every admitted run ends.                                                  *)
RunsEnd == \A r \in Runs : run[r].state # "pending"

(* A deleted automation is purged: its results, its text and its own         *)
(* conversation go away.                                                     *)
DeletedPurged ==
    \A a \in Autos : auto[a].deleted =>
        /\ ~auto[a].text /\ ~auto[a].conv /\ task[a] # "open"
        /\ \A r \in Runs : run[r].auto = a => run[r].state = "removed"
==============================================================================
