----------------------------- MODULE MemoryJobs -----------------------------
(***************************************************************************)
(* renoa.memory's jobs: a nightly run compacts and dreams every notebook,  *)
(* a note pass's run compacts the notebooks it noted in.  A job is frozen, *)
(* answered in the agent's memory session, applied to the notebook and     *)
(* given its receipt; a stop may fall between any two of these.  Mnem, the *)
(* model and the session's storage answer as they may.                     *)
(***************************************************************************)
EXTENDS Integers

CONSTANTS People,
          CompactionTurns,   \* COMPACTION_TURNS
          DreamTurns,        \* DREAM_TURNS
          Attempts,          \* ATTEMPTS
          Generations,       \* generations are told apart modulo this bound
          MaxStops, MaxToggles

MemoryJobsAssumption ==
  /\ CompactionTurns \in Nat /\ DreamTurns \in Nat /\ Attempts \in Nat \ {0}
  /\ Generations \in Nat \ {0, 1} /\ MaxStops \in Nat /\ MaxToggles \in Nat

VARIABLES on,        \* the agent drives renoa.memory
          run,       \* the kind of the admitted run, until its end is recorded
          at,        \* where the run is
          job,       \* the unsettled row of host_memory_jobs, or NoJob
          done,      \* this run's settled rows, by person
          left, who, \* people not yet reached, and the one being worked on
          gen,       \* the current memory session generation
          stored,    \* that generation's session is stored
          opens,     \* its open_failures, and whether this run is last_failed_run
          answer,    \* what the kernel keeps of the job's command
          verdict,
          spent,     \* jobs frozen in this run, by person
          trouble,   \* distinct runs that failed since the last that did not
          stops, toggles
vars == <<on, run, at, job, done, left, who, gen, stored, opens, answer, verdict, spent, trouble, stops, toggles>>
store == <<gen, stored, opens>>
env == <<on, stops, toggles>>
\* What only the runs' beginnings and ends change.
course == <<run, left, who>>

NoJob == [kind |-> "none"]
Fresh == [p \in People |-> [compaction |-> 0, dream |-> 0, last |-> "none"]]
NoTrouble == [runs |-> 0, now |-> FALSE]

Init ==
  /\ on = TRUE /\ run = "none" /\ at = "idle"
  /\ job = NoJob /\ done = Fresh /\ left = {} /\ who = "nobody"
  /\ gen = 0 /\ stored = FALSE /\ opens = NoTrouble
  /\ answer = "none" /\ verdict = "none"
  /\ spent = Fresh /\ trouble = NoTrouble
  /\ stops = 0 /\ toggles = 0

-----------------------------------------------------------------------------
(* The store.                                                              *)

\* Receipt and receipts::halt
Halt(receipt) ==
  CASE receipt \in {"invalid", "failed", "truncated"} -> "notebook"
    [] receipt = "unanswered" -> "failed"
    [] receipt = "busy" -> "busy"
    [] OTHER -> "none"

\* receipts::answer
Answer(kind, outcome) ==
  CASE outcome = "stop" -> "apply"
    [] outcome = "cut" -> "apply"     \* a dream's reply, a compaction's decline
    [] outcome = "empty_cut" -> "truncated"
    [] OTHER -> "unanswered"

\* receipts::apply, refused and dreamed
Verdicts(kind) ==
  IF kind = "dream"
  THEN {"dreamed", "declined", "rejected", "settled", "busy", "unanswered", "conflict", "invalid", "failed"}
  ELSE {"saved", "settled", "retried", "conflict", "invalid", "busy", "failed"}

\* settle_in, of the row and of what of_run will tell
Settles(receipt) ==
  /\ job' = NoJob /\ answer' = "none"
  /\ done' = IF job.mine THEN [done EXCEPT ![job.person] = [@ EXCEPT ![job.kind] = @ + 1, !.last = receipt]]
             ELSE done

\* jobs::freeze
Frozen(p, kind) ==
  /\ job' = [kind |-> kind, person |-> p, mine |-> TRUE, applying |-> FALSE, attempts |-> NoTrouble,
             from |-> kind, applied |-> 0]
  /\ spent' = [spent EXCEPT ![p][kind] = @ + 1]
  /\ at' = "execute"

\* failed_attempt, failed_open: once for each run
Counted(t) == [runs |-> IF t.now THEN t.runs ELSE t.runs + 1, now |-> TRUE]

-----------------------------------------------------------------------------
(* Runs begin, end and are resumed.                                        *)

\* The run is over; its end is recorded in a step of its own.
Ended == at' = "ended" /\ UNCHANGED run
RunEnds ==
  /\ at = "ended" /\ at' = "idle" /\ run' = "none"
  /\ UNCHANGED env /\ UNCHANGED store /\ UNCHANGED <<left, who, job, done, answer, verdict, spent, trouble>>

\* The next night's run, or the compaction after a note pass.
Admit(kind) ==
  /\ at = "idle" /\ run = "none" /\ run' = kind /\ at' = "gate"
  /\ done' = Fresh /\ spent' = Fresh
  /\ job' = IF job = NoJob THEN job ELSE [job EXCEPT !.mine = FALSE, !.attempts.now = FALSE, !.from = "open"]
  /\ opens' = [opens EXCEPT !.now = FALSE] /\ trouble' = [trouble EXCEPT !.now = FALSE]
  /\ UNCHANGED env /\ UNCHANGED <<left, who, gen, stored, answer, verdict>>

\* After a restart the unrecorded run is run again under its id.
Resume ==
  /\ at = "idle" /\ run # "none" /\ at' = "gate"
  /\ job' = IF job = NoJob THEN job ELSE [job EXCEPT !.from = "open"]
  /\ UNCHANGED env /\ UNCHANGED store /\ UNCHANGED <<run, left, who, done, answer, verdict, spent, trouble>>

\* gate
Gate ==
  /\ at = "gate"
  /\ IF on THEN at' = "open" /\ UNCHANGED run ELSE Ended
  /\ UNCHANGED env /\ UNCHANGED store /\ UNCHANGED <<left, who, job, done, answer, verdict, spent, trouble>>

-----------------------------------------------------------------------------
(* open: the job a stopped run left.                                       *)

\* A dream marked before the stop may have been applied: it is closed.
Open ==
  /\ at = "open" /\ at' = "session"
  /\ IF job # NoJob /\ job.applying THEN Settles("interrupted")
     ELSE UNCHANGED <<job, answer, done>>
  /\ UNCHANGED env /\ UNCHANGED store /\ UNCHANGED course /\ UNCHANGED <<verdict, spent, trouble>>

\* session: the current generation opens, and its failures are forgotten
SessionOpens ==
  /\ at = "session" /\ stored' = TRUE /\ opens' = NoTrouble
  /\ trouble' = IF job = NoJob THEN NoTrouble ELSE trouble
  /\ left' = People /\ at' = IF job = NoJob THEN "people" ELSE "execute"
  /\ UNCHANGED env /\ UNCHANGED <<run, who, gen, job, done, answer, verdict, spent>>

\* It cannot open; one that was never stored is not moved past.
SessionFails ==
  /\ at = "session"
  /\ IF job # NoJob \/ stored THEN at' = "stalled" /\ UNCHANGED run ELSE Ended
  /\ UNCHANGED env /\ UNCHANGED store /\ UNCHANGED <<left, who, job, done, answer, verdict, spent, trouble>>

\* stalled: the failure is counted on the job, or on the generation
Stalled ==
  /\ at = "stalled"
  /\ LET tries == Counted(IF job # NoJob THEN job.attempts ELSE opens)
     IN  /\ IF job # NoJob THEN job' = [job EXCEPT !.attempts = tries] /\ UNCHANGED opens
            ELSE opens' = tries /\ UNCHANGED job
         /\ IF tries.runs < Attempts THEN Ended ELSE at' = "move" /\ UNCHANGED run
  /\ trouble' = [runs |-> IF trouble.now THEN trouble.runs ELSE trouble.runs + 1, now |-> TRUE]
  /\ UNCHANGED env /\ UNCHANGED <<left, who, gen, stored, done, answer, verdict, spent>>

\* move_on: the job is abandoned and the agent goes to a new memory session
MoveOn ==
  /\ at = "move" /\ Ended
  /\ IF job # NoJob THEN Settles("abandoned") ELSE UNCHANGED <<job, answer, done>>
  /\ gen' = (gen + 1) % Generations /\ stored' = FALSE /\ opens' = NoTrouble
  /\ trouble' = NoTrouble
  /\ UNCHANGED env /\ UNCHANGED <<left, who, verdict, spent>>

-----------------------------------------------------------------------------
(* settle: one job through the model and the notebook.                     *)

\* execute_memory_job: a command already answered answers the same again
Execute ==
  /\ at = "execute"
  /\ answer' \in IF answer # "none" THEN {answer} ELSE {"stop", "cut", "empty_cut", "failed"}
  /\ LET a == Answer(job.kind, answer')
     IN  IF a = "apply" THEN at' = (IF job.kind = "dream" THEN "mark" ELSE "apply") /\ UNCHANGED verdict
         ELSE at' = "close" /\ verdict' = a
  /\ UNCHANGED env /\ UNCHANGED store /\ UNCHANGED course /\ UNCHANGED <<job, done, spent, trouble>>

\* Its command could not run.
ExecuteStalls ==
  /\ at = "execute" /\ at' = "stalled"
  /\ UNCHANGED env /\ UNCHANGED store /\ UNCHANGED course /\ UNCHANGED <<job, done, answer, verdict, spent, trouble>>

MarkBad ==
  /\ at = "mark" /\ at' = "apply"
  /\ UNCHANGED env /\ UNCHANGED store /\ UNCHANGED course /\ UNCHANGED <<job, done, answer, verdict, spent, trouble>>
\* mark_applying
Mark ==
  /\ at = "mark" /\ at' = "apply"
  /\ job' = [job EXCEPT !.applying = TRUE]
  /\ UNCHANGED env /\ UNCHANGED store /\ UNCHANGED course /\ UNCHANGED <<done, answer, verdict, spent, trouble>>

\* apply
Apply ==
  /\ at = "apply" /\ at' = "close"
  /\ verdict' \in IF job.kind = "compaction" /\ job.applied > 0 THEN {"settled"} ELSE Verdicts(job.kind)
  /\ job' = [job EXCEPT !.applied = IF @ < 2 THEN @ + 1 ELSE @]
  /\ UNCHANGED env /\ UNCHANGED store /\ UNCHANGED course /\ UNCHANGED <<done, answer, spent, trouble>>

\* close: the receipt, and what the run does after it
Close ==
  /\ at = "close"
  /\ Settles(verdict)
  /\ trouble' = NoTrouble /\ verdict' = "none"
  /\ CASE Halt(verdict) \in {"failed", "busy"} -> Ended /\ UNCHANGED left
       [] job.from = "open" -> at' = "people" /\ left' = People /\ UNCHANGED run
       [] job.from = "compaction" /\ Halt(verdict) = "none" -> at' = "compact" /\ UNCHANGED <<run, left>>
       [] job.from = "compaction" -> at' = "dream" /\ UNCHANGED <<run, left>>
       [] job.from = "dream" /\ verdict = "conflict" -> at' = "dream" /\ UNCHANGED <<run, left>>
       [] OTHER -> at' = "people" /\ UNCHANGED <<run, left>>
  /\ UNCHANGED env /\ UNCHANGED store /\ UNCHANGED <<who, spent>>

\* The receipt cannot be written: the job stays for the next run.
CloseFails ==
  /\ at = "close" /\ stops < MaxStops /\ stops' = stops + 1
  /\ Ended /\ verdict' = "none"
  /\ UNCHANGED store /\ UNCHANGED <<on, toggles, left, who, job, done, answer, spent, trouble>>

-----------------------------------------------------------------------------
(* work: person after person.                                              *)

\* compact_all and Night::work
NextPerson ==
  /\ at = "people"
  /\ IF left = {} THEN Ended /\ UNCHANGED <<left, who>>
     ELSE \E p \in left : who' = p /\ left' = left \ {p} /\ at' = "compact" /\ UNCHANGED run
  /\ UNCHANGED env /\ UNCHANGED store /\ UNCHANGED <<job, done, answer, verdict, spent, trouble>>

\* compact: no compaction once this run has dreamed, and no more than its turns
Compact ==
  /\ at = "compact"
  /\ LET turns == done[who].compaction + done[who].dream
     IN  \/ done[who].dream > 0 /\ at' = "dream" /\ UNCHANGED <<run, job, spent>>
         \/ done[who].dream = 0 /\ turns >= CompactionTurns /\ at' = "dream" /\ UNCHANGED <<run, job, spent>>
         \/ /\ done[who].dream = 0 /\ turns < CompactionTurns
            /\ \/ ~ on /\ Ended /\ UNCHANGED <<job, spent>>
               \/ on /\ Frozen(who, "compaction") /\ UNCHANGED run
               \* nothing is due, or the notebook refuses, opens not or is busy
               \/ on /\ at' \in {"dream", "people"} /\ UNCHANGED <<run, job, spent>>
               \/ on /\ Ended /\ UNCHANGED <<job, spent>>
  /\ UNCHANGED env /\ UNCHANGED store /\ UNCHANGED <<left, who, done, answer, verdict, trouble>>

\* dream: again only after a conflict; a note pass's run does not dream
Dream ==
  /\ at = "dream"
  /\ LET over == \/ run # "nightly" \/ done[who].dream >= DreamTurns
                 \/ done[who].dream > 0 /\ done[who].last # "conflict"
     IN  \/ over /\ at' = "people" /\ UNCHANGED <<run, job, spent>>
         \/ ~ over /\ ~ on /\ Ended /\ UNCHANGED <<job, spent>>
         \/ ~ over /\ on /\ Frozen(who, "dream") /\ UNCHANGED run
         \* nothing is due or the notebook refuses; it is busy
         \/ ~ over /\ on /\ at' = "people" /\ UNCHANGED <<run, job, spent>>
         \/ ~ over /\ on /\ Ended /\ UNCHANGED <<job, spent>>
  /\ UNCHANGED env /\ UNCHANGED store /\ UNCHANGED <<left, who, done, answer, verdict, trouble>>

-----------------------------------------------------------------------------
Toggle ==
  /\ toggles < MaxToggles /\ toggles' = toggles + 1 /\ on' = ~ on
  /\ UNCHANGED store /\ UNCHANGED course /\ UNCHANGED <<at, job, done, answer, verdict, spent, trouble, stops>>

\* The process stops, or the node drains.
Stop ==
  /\ at # "idle" /\ stops < MaxStops /\ stops' = stops + 1
  /\ at' = "idle" /\ verdict' = "none"
  /\ UNCHANGED store /\ UNCHANGED course /\ UNCHANGED <<on, toggles, job, done, answer, spent, trouble>>

Work == Resume \/ RunEnds \/ Gate \/ Open \/ SessionOpens \/ SessionFails \/ Stalled \/ MoveOn \/ Execute \/ ExecuteStalls
        \/ Mark \/ Apply \/ Close \/ NextPerson \/ Compact \/ Dream
Next == Work \/ (\E kind \in {"nightly", "compact"} : Admit(kind)) \/ CloseFails \/ Toggle \/ Stop

\* The scheduler resumes and drives a run, and admits a nightly run each day.
Spec == Init /\ [][Next]_vars /\ WF_vars(Work) /\ WF_vars(Admit("nightly"))

-----------------------------------------------------------------------------
(* Properties.                                                             *)

TypeOK ==
  /\ on \in BOOLEAN /\ stored \in BOOLEAN /\ gen \in 0 .. Generations - 1
  /\ run \in {"none", "nightly", "compact"} /\ left \subseteq People /\ who \in People \cup {"nobody"}
  /\ at \in {"idle", "gate", "open", "session", "stalled", "move", "execute", "mark", "apply", "close",
             "people", "compact", "dream", "ended"}
  /\ verdict \in {"none", "truncated"} \cup Verdicts("dream") \cup Verdicts("compaction")
  /\ opens.runs <= Attempts + MaxStops /\ (job # NoJob => job.attempts.runs <= Attempts + MaxStops)

\* Mnem counts a dream's answer each time it is applied, so it is applied at
\* most once, whatever stops between the apply and its receipt.
DreamOnce == job.kind = "dream" => job.applied <= 1

\* A job is frozen only when none is unsettled: the unique index never fails
\* a run, and the job a stopped run left is settled before another starts.
OneUnsettledJob == at \in {"people", "compact", "dream"} => job = NoJob

\* A run, however often it is resumed, spends no more than its turns on a
\* notebook.
TurnsBounded ==
  \A p \in People : spent[p].compaction <= CompactionTurns /\ spent[p].dream <= DreamTurns

\* In one run a notebook is not compacted after its dream, and is dreamed again
\* only once the dream before it was stale: never after one that may have counted.
NightOrder ==
  \A p \in People :
       /\ spent'[p].compaction > spent[p].compaction /\ run = run' => spent[p].dream = 0
       /\ spent'[p].dream > spent[p].dream /\ spent[p].dream > 0 => done[p].last = "conflict"

\* The agent moves to a new memory session only after Attempts distinct runs in
\* a row failed, however often one of them was resumed.
MovesAfterAttempts ==
  gen' # gen => trouble.runs >= Attempts

\* A frozen job is eventually settled or abandoned, however its session, its
\* command and its runs fail.
JobSettles == job = NoJob
=============================================================================
