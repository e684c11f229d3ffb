----------------------------- MODULE Reminders ------------------------------
(***************************************************************************)
(* renoa.memory's reminders for one person and the Host's main agent: the  *)
(* scheduler prepares outside the catalog transaction (records what fired  *)
(* in the notebook, reads the agenda, words the due items), then settles,  *)
(* converges the once-triggers and admits at most one in one transaction.  *)
(* Mnem's notebook is external: it lists the items that have not fired.    *)
(***************************************************************************)
EXTENDS Integers, FiniteSets

CONSTANTS Items, DueTimes,   \* DueTimes: the due times an item can have
          Late,              \* LATE_MS
          Horizon,           \* HORIZON_MS
          RetryAfter,        \* RETRY_AFTER_MS
          CatchUp,           \* CATCH_UP_MS
          OverdueMax,        \* OVERDUE_MAX
          MaxNow, MaxFaults, MaxEdits

RemindersAssumption ==
  /\ DueTimes \subseteq Nat /\ Late \in Nat /\ Horizon \in Nat /\ RetryAfter \in Nat
  /\ CatchUp \in Nat /\ OverdueMax \in Nat /\ MaxNow \in Nat /\ MaxFaults \in Nat /\ MaxEdits \in Nat

VARIABLES now, on,   \* on: renoa.memory drives the main agent
          due,       \* when each item is due
          agenda,    \* how the notebook lists each item: "tell", "quiet" or "off"
          fired,     \* what record_fired has written
          row,       \* the trigger of each item and attempt, with its run
          prep,      \* what the scheduler prepared and has not yet used
          tries, told, \* runs sent, and runs that succeeded, by item
          lates,     \* when a late run was sent, by item and attempt
          faults, edits
vars == <<now, on, due, agenda, fired, row, prep, tries, told, lates, faults, edits>>

Keys == Items \X {0, 1}
NoRow == [st |-> "none", at |-> 0, run |-> "none", ended |-> 0, outcome |-> "none"]
NotPrepared == [is |-> "none"]

Init ==
  /\ now = 0 /\ on = TRUE /\ due \in [Items -> DueTimes] /\ agenda = [i \in Items |-> "tell"] /\ fired = {}
  /\ row = [k \in Keys |-> NoRow] /\ prep = NotPrepared
  /\ tries = [i \in Items |-> 0] /\ told = [i \in Items |-> 0] /\ lates = [k \in Keys |-> -1]
  /\ faults = 0 /\ edits = 0

\* What Mnem's agenda lists, and what its nudge_run answers for an item.
Listed == {i \in Items : agenda[i] # "off" /\ i \notin fired}
NudgeRun(i) == IF i \in Listed THEN agenda[i] ELSE "gone"

-----------------------------------------------------------------------------
(* Outside the transaction.                                                *)

\* store::unsettled
Unsettled == {k \in Keys : row[k].run \in {"ok", "failed"} /\ row[k].outcome = "none"}
\* store::due
DueRows == {k \in Keys : row[k].st = "armed" /\ row[k].at <= now}
\* store::known
Known(i) == \E a \in {0, 1} : row[<<i, a>>].st # "none"
\* The items worded in this tick: the due rows', and a fresh item no row is of.
Worded(readable) ==
  {k[1] : k \in DueRows}
    \cup (IF readable THEN {i \in Listed : agenda[i] = "tell" /\ due[i] \in (now - Late)..now /\ ~Known(i)} ELSE {})

\* What is settled: a run that succeeded only once the notebook has it.
Outcomes(written) ==
  [k \in {k \in Unsettled : row[k].run = "failed" \/ k[1] \in written} |-> IF row[k].run = "ok" THEN "fired" ELSE "failed"]

\* notebook::prepare and Agendas::timed.  A notebook may fail at the agenda,
\* at any record or at any message: a person whose agenda was not read, or
\* who was not asked for one, keeps the stored items, and what was not worded
\* waits.
ToWrite == {k[1] : k \in {k \in Unsettled : row[k].run = "ok"}}
Prepare(readable, written, worded) ==
  /\ prep = NotPrepared /\ written \subseteq ToWrite /\ worded \subseteq Worded(readable)
  /\ LET well == readable /\ written = ToWrite /\ worded = Worded(readable)
     IN (~well => faults < MaxFaults) /\ faults' = IF well THEN faults ELSE faults + 1
  /\ fired' = fired \cup written
  /\ prep' = [is |-> "read",
              settled |-> Outcomes(written),
              items |-> IF on /\ readable THEN {i \in Listed \ written : agenda[i] = "tell"} ELSE {},
              keeps |-> ~on \/ ~readable,
              words |-> IF on THEN [i \in worded |-> IF i \in fired' THEN "gone" ELSE NudgeRun(i)]
                        ELSE [i \in {} |-> "gone"]]
  /\ UNCHANGED <<now, on, due, agenda, row, tries, told, lates, edits>>
PrepareWell == Prepare(TRUE, ToWrite, Worded(TRUE))

\* The catalog could not be read.
PrepareFails ==
  /\ prep = NotPrepared /\ faults < MaxFaults /\ faults' = faults + 1
  /\ prep' = [is |-> "failed"]
  /\ UNCHANGED <<now, on, due, agenda, fired, row, tries, told, lates, edits>>

-----------------------------------------------------------------------------
(* The transaction.                                                        *)

\* store::settle
Settled == [k \in Keys |-> IF k \in DOMAIN prep.settled /\ row[k].outcome = "none"
                           THEN [row[k] EXCEPT !.outcome = prep.settled[k]] ELSE row[k]]

Ran(r, k) == r[k].run # "none"
Deleted(r, k) == r[k].st \in {"deleting", "deleted"}

\* candidate: the first attempt until it ran, then one retry of a failed run.
Candidates(r) ==
  LET first(i) == <<i, 0>>
      again(i) == <<i, 1>>
  IN {<<first(i), due[i]>> : i \in {i \in Items : ~Deleted(r, first(i)) /\ ~Ran(r, first(i))}}
     \cup {<<again(i), r[first(i)].ended + RetryAfter>> :
             i \in {i \in Items : ~Deleted(r, first(i)) /\ r[first(i)].run = "failed"
                                  /\ ~Ran(r, again(i)) /\ ~Deleted(r, again(i))}}

\* store::late_runs
LateRuns(r) == Cardinality({k \in Keys : lates[k] >= now - CatchUp /\ lates[k] >= 0 /\ r[k].run # "skipped"})

\* store::kept
Kept(r) == {i \in Items : \E a \in {0, 1} : r[<<i, a>>].st # "none"}

\* wanted: the overdue candidates are cut to the latest ones the window allows.
Overdue(cs) == {c \in cs : c[2] < now - Late}
WantedSets(r) ==
  IF ~on THEN {{}}
  ELSE LET items == IF prep.keeps THEN Kept(r) ELSE prep.items
           cs == {c \in Candidates(r) : c[1][1] \in items /\ c[2] <= now + Horizon}
           room == IF OverdueMax > LateRuns(r) THEN OverdueMax - LateRuns(r) ELSE 0
       IN {(cs \ Overdue(cs)) \cup cut :
             cut \in {cut \in SUBSET Overdue(cs) :
                        /\ \A c \in cut, d \in Overdue(cs) \ cut : c[2] >= d[2]
                        /\ Cardinality(cut) = IF Cardinality(Overdue(cs)) < room THEN Cardinality(Overdue(cs)) ELSE room}}

\* retire_trigger: nothing while a run is kept, then deleted and purged, and
\* removed once its conversation is gone.
Retired(r, k) ==
  IF Ran(r, k) THEN [r[k] EXCEPT !.st = "disarmed"]
  ELSE CASE r[k].st = "none" -> r[k]
         [] r[k].st \in {"armed", "disarmed"} -> [r[k] EXCEPT !.st = "deleting"]
         [] r[k].st = "deleting" -> r[k]
         [] r[k].st = "deleted" -> NoRow
\* reconcile and keep
Converged(r, wanted) ==
  [k \in Keys |-> IF \E c \in wanted : c[1] = k
                  THEN [r[k] EXCEPT !.st = "armed", !.at = (CHOOSE c \in wanted : c[1] = k)[2]]
                  ELSE Retired(r, k)]

\* delivery, of a row of the converged catalog
Delivery(k) ==
  CASE ~on -> "skip"
    [] on /\ (prep.is = "failed" \/ k[1] \notin DOMAIN prep.words) -> "later"
    [] OTHER -> IF prep.words[k[1]] = "tell" THEN "send" ELSE "skip"

\* runs::admit of one due row: disarmed, its run inserted, a skip recorded.
Admits(r, k) ==
  /\ row' = [r EXCEPT ![k] = [@ EXCEPT !.st = "disarmed", !.run = IF Delivery(k) = "send" THEN "running" ELSE "skipped",
                                       !.ended = now]]
  /\ IF Delivery(k) = "send"
     THEN /\ tries' = [tries EXCEPT ![k[1]] = @ + 1]
          /\ lates' = IF now - r[k].at > Late THEN [lates EXCEPT ![k] = now] ELSE lates
     ELSE UNCHANGED <<tries, lates>>

\* runs::next: an unfinished run comes first and what was prepared is dropped;
\* an unread preparation rolls the convergence back and settles nothing.
Next1(r) ==
  LET ready == {k \in Keys : r[k].st = "armed" /\ r[k].at <= now /\ Delivery(k) # "later"}
  IN IF ready = {} THEN row' = r /\ UNCHANGED <<tries, lates>>
     ELSE \E k \in ready : (\A l \in ready : r[k].at <= r[l].at) /\ Admits(r, k)
Running == \E k \in Keys : row[k].run = "running"
Transact ==
  /\ prep # NotPrepared /\ ~Running /\ prep' = NotPrepared
  /\ IF prep.is = "failed" THEN Next1(row)
     ELSE \E wanted \in WantedSets(Settled) : Next1(Converged(Settled, wanted))
  /\ UNCHANGED <<now, on, due, agenda, fired, told, faults, edits>>
Dropped ==
  /\ prep # NotPrepared /\ Running /\ prep' = NotPrepared
  /\ UNCHANGED <<now, on, due, agenda, fired, row, tries, told, lates, faults, edits>>

\* The run's turn ends and its result is recorded.
RunEnds(k, how) ==
  /\ prep = NotPrepared /\ row[k].run = "running"
  /\ row' = [row EXCEPT ![k].run = how, ![k].ended = now]
  /\ told' = IF how = "ok" THEN [told EXCEPT ![k[1]] = @ + 1] ELSE told
  /\ UNCHANGED <<now, on, due, agenda, fired, prep, tries, lates, faults, edits>>

\* The node deletes the purged trigger's conversation.
ConversationDeleted(k) ==
  /\ row[k].st = "deleting" /\ row' = [row EXCEPT ![k].st = "deleted"]
  /\ UNCHANGED <<now, on, due, agenda, fired, prep, tries, told, lates, faults, edits>>

-----------------------------------------------------------------------------
(* The person, the owner, the clock and the process.                       *)

Edit(i, how) ==
  /\ edits < MaxEdits /\ edits' = edits + 1 /\ agenda[i] # how
  /\ agenda' = [agenda EXCEPT ![i] = how]
  /\ UNCHANGED <<now, on, due, fired, row, prep, tries, told, lates, faults>>
Toggle ==
  /\ edits < MaxEdits /\ edits' = edits + 1 /\ on' = ~on
  /\ UNCHANGED <<now, due, agenda, fired, row, prep, tries, told, lates, faults>>
Tick ==
  /\ now < MaxNow /\ prep = NotPrepared /\ now' = now + 1
  /\ UNCHANGED <<on, due, agenda, fired, row, prep, tries, told, lates, faults, edits>>
Stop ==
  /\ prep # NotPrepared /\ faults < MaxFaults /\ faults' = faults + 1 /\ prep' = NotPrepared
  /\ UNCHANGED <<now, on, due, agenda, fired, row, tries, told, lates, edits>>

Next ==
  \/ \E readable \in BOOLEAN, written, worded \in SUBSET Items : Prepare(readable, written, worded)
  \/ PrepareFails \/ Transact \/ Dropped
  \/ \E k \in Keys, how \in {"ok", "failed"} : RunEnds(k, how)
  \/ \E k \in Keys : ConversationDeleted(k)
  \/ \E i \in Items, how \in {"tell", "quiet", "off"} : Edit(i, how)
  \/ Toggle \/ Tick \/ Stop

\* The scheduler ticks again and again, and a turn ends.
Fairness ==
  /\ WF_vars(PrepareWell) /\ WF_vars(Transact) /\ WF_vars(Dropped)
  /\ \A k \in Keys : WF_vars(\E how \in {"ok", "failed"} : RunEnds(k, how)) /\ WF_vars(ConversationDeleted(k))
Spec == Init /\ [][Next]_vars
FairSpec == Spec /\ Fairness

-----------------------------------------------------------------------------
\* The state keeps its shape, and a trigger's outcome is that of its run.
TypeOK ==
  /\ now \in 0..MaxNow /\ fired \subseteq Items /\ agenda \in [Items -> {"tell", "quiet", "off"}]
  /\ \A k \in Keys :
       /\ row[k].st \in {"none", "armed", "disarmed", "deleting", "deleted"}
       /\ row[k].run \in {"none", "running", "ok", "failed", "skipped"}
       /\ row[k].outcome = "fired" => row[k].run = "ok"
       /\ row[k].outcome = "failed" => row[k].run = "failed"

\* An item is told successfully once, whatever fails between its run, the
\* notebook and the catalog, and sent at most twice.
ToldOnce == \A i \in Items : told[i] <= 1 /\ tries[i] <= 2

\* A run is settled as fired only when the notebook holds it, and nothing is
\* recorded as fired that was not told.
RecordedThenSettled ==
  /\ \A k \in Keys : row[k].outcome = "fired" => k[1] \in fired
  /\ \A i \in fired : told[i] > 0

\* In any catch-up window at most OverdueMax late reminders are sent, however
\* many fell due while the Host was away.
FewLate ==
  \A t \in 0..MaxNow : Cardinality({k \in Keys : lates[k] \in t..(t + CatchUp)}) <= OverdueMax

\* A notebook that cannot be read retires no reminder that is not overdue.
UnreadRetiresNothing ==
  \A k \in Keys : row[k].st = "armed" /\ row'[k].st = "deleting" =>
       \/ ~on
       \/ ~prep.keeps
       \/ row[k].at < now - Late

\* A reminder that was told is recorded in the notebook and settled.
ToldIsSettled ==
  \A k \in Keys : row[k].run = "ok" => k[1] \in fired /\ row[k].outcome = "fired"
=============================================================================
