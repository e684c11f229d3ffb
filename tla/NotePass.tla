------------------------------ MODULE NotePass ------------------------------
(***************************************************************************)
(* renoa.memory's note pass: the bookkeeping of the main agent's quiet     *)
(* conversations with one person, and the timer and nightly runs that      *)
(* review them.  Times are small numbers; a pass day is DayLength of them. *)
(* Every message is one character.  Mnem's decision is external.           *)
(***************************************************************************)
EXTENDS Integers, FiniteSets

CONSTANTS Sessions,     \* the person's conversations with the main agent
          Quiet,        \* QUIET_MINUTES
          Gap,          \* Mnem's least time between two daytime passes
          DailyCap,     \* Mnem's daytime passes per person and day
          DayLength,
          Early,        \* the last times of a pass day read before its start hour
          Keep,         \* KEEP_MS
          MaxClock, MaxMessages, MaxPasses, MaxStops, MaxFaults  \* bounds

NotePassAssumption ==
  /\ Quiet \in Nat \ {0} /\ Gap \in Nat /\ DailyCap \in Nat
  /\ DayLength \in Nat \ {0} /\ Early \in 0 .. DayLength /\ Keep \in Nat
  /\ MaxClock \in Nat /\ MaxMessages \in Nat /\ MaxPasses \in Nat /\ MaxStops \in Nat /\ MaxFaults \in Nat

VARIABLES clock,
          on,       \* the plugin is on for the main agent
          conv,     \* host_memory_conversations
          passes,   \* host_memory_passes
          kern,     \* what became of a session's unsettled pass in the kernel
          turn,     \* the person's turn in each conversation, its command and receive time
          rev,      \* the review in progress
          owed,     \* the kind of an admitted run whose end is not recorded
          swept,    \* the last day a nightly run was admitted
          heard,    \* the messages whose text is counted
          reviewed, \* those of them a completed pass has read
          counted,  \* completed passes by day, and those of them that outlived their run
          unseen,   \* conversations active since a daytime run last decided about them
          lastRun,  \* when the last daytime run was admitted
          stops, faults
vars == <<clock, on, conv, passes, kern, turn, rev, owed, swept, heard, reviewed, counted, unseen, lastRun, stops, faults>>
convs == <<clock, on, turn, owed, swept, lastRun, stops>>

Never == 0 - 1
Day(t) == t \div DayLength
Unfollowed == [followed |-> FALSE, last |-> 0, chars |-> 0, counted |-> 0, check |-> Never]
Idle == [at |-> "idle", kind |-> "daytime", day |-> 0, now |-> 0, left |-> {}, todo |-> {},
         cur |-> "none", cut |-> FALSE, pass |-> 0, next |-> <<"keep", Never>>]

Init ==
  /\ clock = 0 /\ on = TRUE
  /\ conv = [s \in Sessions |-> Unfollowed]
  /\ passes = {}
  /\ kern = [s \in Sessions |-> "none"]
  /\ turn = [s \in Sessions |-> [at |-> "idle", command |-> 0, said |-> 0]]
  /\ rev = Idle /\ owed = "none" /\ swept = 0
  /\ heard = [s \in Sessions |-> {}] /\ reviewed = [s \in Sessions |-> {}]
  /\ counted = [d \in 0 .. Day(MaxClock) |-> [all |-> 0, late |-> 0]]
  /\ unseen = {} /\ lastRun = Never
  /\ stops = 0 /\ faults = 0

-----------------------------------------------------------------------------
(* The store.                                                              *)

\* COUNTS
Counting == {p \in passes : p.outcome = "completed"}
\* unsettled_in, unsettled_of
Unsettled(s) == {p \in passes : p.session = s /\ p.outcome = "unsettled"}
\* person
LastPass == LET ends == {p.finished : p \in Counting}
            IN  IF ends = {} THEN Never ELSE CHOOSE t \in ends : \A u \in ends : u <= t
PassesOn(d) == Cardinality({p \in Counting : p.day = d})
\* due, unreviewed, select
DueAt(t) == {s \in Sessions : conv[s].followed /\ conv[s].check # Never /\ conv[s].check <= t}
Unreviewed == {s \in Sessions : conv[s].followed /\ conv[s].chars > 0}
\* wanted, next_check
TimerDue == on /\ DueAt(clock) # {}

\* prune
Pruned(rows, t) == {p \in rows : ~(p.outcome # "unsettled" /\ p.finished < t - Keep)}

\* ending_day
EndingDay(t) == IF t % DayLength >= DayLength - Early THEN Day(t)
                ELSE IF Day(t) = 0 THEN 0 ELSE Day(t) - 1

\* mnem::pass::due
Mnem(c, kind, day, now) ==
  LET cap == IF kind = "sweep" THEN DailyCap + 1 ELSE DailyCap
      quiet == c.last + Quiet
      apart == IF kind = "sweep" \/ LastPass = Never THEN 0 ELSE LastPass + Gap
      until == IF quiet > apart THEN quiet ELSE apart
  IN  IF c.chars = 0 \/ PassesOn(day) >= cap THEN <<"skip", Never>>
      ELSE IF until > now THEN <<"wait", until>>
      ELSE <<"run", now>>

\* decide, reschedule, follow: when a conversation is asked again
AskedAgain(c, now) == [c EXCEPT !.check = Mnem(c, "daytime", Day(now), now)[2]]

\* Of a settled pass only a completed one is read again, for its day and end.
Kept(p, outcome, t) ==
  IF outcome = "completed"
  THEN {[p EXCEPT !.outcome = outcome, !.finished = t, !.chars = 0, !.texts = {}]} ELSE {}

\* store::settle: only an unsettled pass, and only a completed one moves the range
Settled(id, outcome, t, late) ==
  LET p == CHOOSE q \in passes : q.id = id
  IN  /\ passes' = Pruned({q \in passes : q.id # id} \cup Kept(p, outcome, t), t)
      /\ conv' = [conv EXCEPT ![p.session].chars =
                    IF outcome = "completed" THEN (IF @ > p.chars THEN @ - p.chars ELSE 0) ELSE @]
      /\ counted' = [counted EXCEPT ![p.day] = IF outcome = "completed" THEN [all |-> @.all + 1, late |-> @.late + late] ELSE @]
      /\ reviewed' = [reviewed EXCEPT ![p.session] = IF outcome = "completed" THEN @ \cup p.texts ELSE @]

\* Ran::settle: what the kernel says of a pass's command
OutcomeOf(s) == IF kern[s] \in {"completed", "failed"} THEN kern[s] ELSE "cancelled"

-----------------------------------------------------------------------------
(* A pass a stopped process left, and the person's turn.                   *)

PassHolds(s) == rev.at \in {"claimed", "frozen", "driven"} /\ rev.cur = s
TurnHolds(s) == turn[s].at \in {"holding", "admitted", "counted"}

\* close_stale: the command is driven with its cancellation requested
ClosesStale(s) ==
  \/ Unsettled(s) = {} /\ UNCHANGED <<passes, conv, counted, reviewed, kern, faults>>
  \/ \E p \in Unsettled(s) :
       /\ Settled(p.id, OutcomeOf(s), clock, 1)
       /\ kern' = [kern EXCEPT ![s] = "none"]
       /\ UNCHANGED faults
\* Its command could not run, or was closed and the record failed.
FailsToClose(s) ==
  /\ Unsettled(s) # {} /\ faults < MaxFaults
  /\ faults' = faults + 1
  /\ \/ UNCHANGED kern
     \/ kern' = [kern EXCEPT ![s] = OutcomeOf(s)]
  /\ UNCHANGED <<passes, conv, counted, reviewed>>

\* The person's surface asks for the claim, which cancels a pass.
Say(s) ==
  /\ turn[s].at = "idle" /\ turn[s].command < MaxMessages
  /\ turn' = [turn EXCEPT ![s] = [at |-> "waiting", command |-> @.command + 1, said |-> clock]]
  /\ rev' = IF PassHolds(s) THEN [rev EXCEPT !.cut = TRUE] ELSE rev
  /\ UNCHANGED <<clock, on, conv, passes, kern, owed, swept, heard, reviewed, counted, unseen, lastRun, stops, faults>>

TurnClaims(s) ==
  /\ turn[s].at = "waiting" /\ ~ PassHolds(s)
  /\ turn' = [turn EXCEPT ![s].at = "holding"]
  /\ UNCHANGED <<clock, on, conv, passes, kern, rev, owed, swept, heard, reviewed, counted, unseen, lastRun, stops, faults>>

\* close_stale_note_pass, then the kernel, which refuses a message while a
\* pass's command is unfinished
TurnAdmitted(s) ==
  /\ turn[s].at = "holding"
  /\ \/ ClosesStale(s)
     \/ FailsToClose(s)
  /\ turn' = [turn EXCEPT ![s].at = IF kern'[s] = "open" THEN "idle" ELSE "admitted"]
  /\ UNCHANGED <<clock, on, rev, owed, swept, heard, unseen, lastRun, stops>>

\* store::message: a command counts once while it is the last one counted,
\* and is activity at the time its surface received it
Heard(c, m) ==
  [c EXCEPT !.followed = TRUE, !.last = IF m.said > @ THEN m.said ELSE @,
            !.chars = IF c.counted = m.command THEN @ ELSE @ + 1, !.counted = m.command]
\* note_pass::message
Count(s) ==
  /\ turn[s].at = "admitted"
  /\ turn' = [turn EXCEPT ![s].at = "counted"]
  /\ IF on
     THEN /\ conv' = [conv EXCEPT ![s] = AskedAgain(Heard(@, turn[s]), turn[s].said)]
          /\ heard' = [heard EXCEPT ![s] = @ \cup {turn[s].command}]
          /\ unseen' = unseen \cup {s}
     ELSE UNCHANGED <<conv, heard, unseen>>
  /\ UNCHANGED <<clock, on, reviewed, passes, kern, rev, owed, swept, counted, lastRun, stops, faults>>

\* turn_ended, and the claim is released
TurnEnded(s) ==
  /\ turn[s].at = "counted"
  /\ turn' = [turn EXCEPT ![s].at = "idle"]
  /\ IF on /\ conv[s].followed
     THEN /\ conv' = [conv EXCEPT ![s] = AskedAgain([@ EXCEPT !.last = IF clock > @ THEN clock ELSE @], clock)]
          /\ unseen' = IF conv'[s].check # Never THEN unseen \cup {s} ELSE unseen
     ELSE UNCHANGED <<conv, unseen>>
  /\ UNCHANGED <<clock, on, passes, kern, rev, owed, swept, heard, reviewed, counted, lastRun, stops, faults>>

-----------------------------------------------------------------------------
(* The runs.                                                               *)

Begin(kind) ==
  rev' = [Idle EXCEPT !.at = "recover", !.kind = kind, !.now = clock,
                      !.day = IF kind = "sweep" THEN EndingDay(clock) ELSE Day(clock),
                      !.left = {s \in Sessions : conv[s].followed /\ Unsettled(s) # {}}]

\* run
RunDaytime ==
  /\ rev.at = "idle" /\ owed = "none" /\ TimerDue
  /\ Begin("daytime") /\ owed' = "daytime" /\ lastRun' = clock
  /\ UNCHANGED <<clock, on, conv, passes, kern, turn, swept, heard, reviewed, counted, unseen, stops, faults>>

\* sweep
RunSweep ==
  /\ rev.at = "idle" /\ owed = "none" /\ on /\ swept < Day(clock)
  /\ Begin("sweep") /\ owed' = "sweep" /\ swept' = Day(clock)
  /\ UNCHANGED <<clock, on, conv, passes, kern, turn, heard, reviewed, counted, unseen, lastRun, stops, faults>>

\* A run a stop left unrecorded is run again under the same id; with the
\* plugin off it is skipped.
Resume ==
  /\ rev.at = "idle" /\ owed # "none"
  /\ IF on THEN Begin(owed) /\ UNCHANGED owed ELSE owed' = "none" /\ UNCHANGED rev
  /\ UNCHANGED <<clock, on, conv, passes, kern, turn, swept, heard, reviewed, counted, unseen, lastRun, stops, faults>>

\* recover: a conversation a turn holds is left
Recover(s) ==
  /\ rev.at = "recover" /\ s \in rev.left
  /\ rev' = [rev EXCEPT !.left = @ \ {s}]
  /\ IF TurnHolds(s) THEN UNCHANGED <<passes, conv, counted, reviewed, kern, faults>>
     ELSE ClosesStale(s) \/ FailsToClose(s)
  /\ UNCHANGED convs /\ UNCHANGED <<heard, unseen>>

\* store::due or store::unreviewed, most unreviewed text first
List ==
  /\ rev.at = "recover" /\ rev.left = {}
  /\ rev' = [rev EXCEPT !.at = "visit",
                        !.todo = {[session |-> s, chars |-> conv[s].chars] :
                                   s \in IF rev.kind = "sweep" THEN Unreviewed ELSE DueAt(rev.now)}]
  /\ UNCHANGED convs /\ UNCHANGED <<conv, passes, kern, heard, reviewed, counted, unseen, faults>>

\* later
Later == <<"at", rev.now + Quiet>>
\* not_run
NotRun(d) == IF rev.kind = "daytime" THEN <<"at", d[2]>> ELSE <<"keep", Never>>

Unseen(s) == IF rev.kind = "daytime" THEN unseen \ {s} ELSE unseen

\* visit and decide, before the claim; a plugin turned off stops the run
Visit(s) ==
  /\ rev.at = "visit"
  /\ \E v \in rev.todo : v.session = s /\ \A w \in rev.todo : w.chars <= v.chars
  /\ LET rest == {v \in rev.todo : v.session # s}
         d == Mnem(conv[s], rev.kind, rev.day, rev.now)
     IN  rev' = IF ~ on THEN [rev EXCEPT !.at = "clear", !.todo = {}]
                ELSE IF ~ conv[s].followed THEN [rev EXCEPT !.todo = rest]
                ELSE IF d[1] = "run"
                THEN [rev EXCEPT !.todo = rest, !.at = "claim", !.cur = s, !.cut = FALSE]
                ELSE [rev EXCEPT !.todo = rest, !.at = "next", !.cur = s, !.next = NotRun(d)]
  /\ unseen' = Unseen(s)
  /\ UNCHANGED convs /\ UNCHANGED <<conv, passes, kern, heard, reviewed, counted, faults>>

Next2(next) == [rev EXCEPT !.at = "next", !.next = next]
After(next) == rev' = Next2(next)

\* pass: the claim, and a pass a stopped process left is closed first
PassClaims ==
  /\ rev.at = "claim"
  /\ IF TurnHolds(rev.cur)
     THEN After(Later) /\ UNCHANGED <<passes, conv, counted, reviewed, kern, faults>>
     ELSE \/ ClosesStale(rev.cur) /\ rev' = [rev EXCEPT !.at = "claimed"]
          \/ FailsToClose(rev.cur) /\ After(<<"at", Never>>)
  /\ UNCHANGED convs /\ UNCHANGED <<heard, unseen>>

\* decide again under the claim, and freeze
PassFreezes ==
  /\ rev.at = "claimed"
  /\ LET s == rev.cur
         d == Mnem(conv[s], rev.kind, rev.day, rev.now)
         id == CHOOSE n \in 1 .. Cardinality(passes) + 1 : \A p \in passes : p.id # n
     IN  IF rev.cut \/ ~ conv[s].followed
         THEN After(Later) /\ UNCHANGED <<passes, unseen>>
         ELSE IF ~ on THEN rev' = [rev EXCEPT !.at = "clear", !.todo = {}] /\ UNCHANGED <<passes, unseen>>
         ELSE IF d[1] # "run" THEN After(NotRun(d)) /\ unseen' = Unseen(s) /\ UNCHANGED passes
         ELSE /\ Cardinality(passes) < MaxPasses
              /\ passes' = passes \cup {[id |-> id, session |-> s, day |-> rev.day, chars |-> conv[s].chars,
                                         outcome |-> "unsettled", finished |-> Never, texts |-> heard[s]]}
              /\ rev' = [rev EXCEPT !.at = "frozen", !.pass = id]
              /\ unseen' = Unseen(s)
  /\ UNCHANGED convs /\ UNCHANGED <<conv, kern, heard, reviewed, counted, faults>>

\* execute_note_pass: cancelled before admission it is never admitted
PassAdmitted ==
  /\ rev.at = "frozen" /\ kern[rev.cur] = "none" /\ ~ rev.cut
  /\ kern' = [kern EXCEPT ![rev.cur] = "open"]
  /\ UNCHANGED convs /\ UNCHANGED <<conv, passes, rev, heard, reviewed, counted, unseen, faults>>

PassEnds(end) ==
  /\ rev.at = "frozen"
  /\ \/ kern[rev.cur] = "open" /\ (end = "cancelled" => rev.cut)
     \/ kern[rev.cur] = "none" /\ rev.cut /\ end = "cancelled"
  /\ kern' = [kern EXCEPT ![rev.cur] = end]
  /\ rev' = [rev EXCEPT !.at = "driven"]
  /\ UNCHANGED convs /\ UNCHANGED <<conv, passes, heard, reviewed, counted, unseen, faults>>

\* Its command could not run, or its outcome could not be recorded.
PassUnsettled ==
  /\ rev.at \in {"frozen", "driven"} /\ faults < MaxFaults
  /\ faults' = faults + 1
  /\ After(<<"at", Never>>)
  /\ UNCHANGED convs /\ UNCHANGED <<conv, passes, kern, heard, reviewed, counted, unseen>>

\* Ran::settle, and the claim is released
PassSettles ==
  /\ rev.at = "driven"
  /\ Settled(rev.pass, OutcomeOf(rev.cur), rev.now, 0)
  /\ kern' = [kern EXCEPT ![rev.cur] = "none"]
  /\ After(CASE OutcomeOf(rev.cur) = "completed" -> <<"reschedule", Never>>
             [] OutcomeOf(rev.cur) = "cancelled" -> Later
             [] OTHER -> <<"at", Never>>)
  /\ UNCHANGED convs /\ UNCHANGED <<heard, unseen, faults>>

\* The rest of visit: when this conversation is asked again.
VisitEnds ==
  /\ rev.at = "next"
  /\ rev' = [rev EXCEPT !.at = "visit"]
  /\ conv' = [conv EXCEPT ![rev.cur] =
                IF ~ @.followed \/ rev.next[1] = "keep" THEN @
                ELSE IF rev.next[1] = "reschedule" THEN AskedAgain(@, rev.now)
                ELSE [@ EXCEPT !.check = rev.next[2]]]
  /\ UNCHANGED convs /\ UNCHANGED <<passes, kern, heard, reviewed, counted, unseen, faults>>

\* A catalog call of the run fails.
Halts ==
  /\ rev.at \in {"recover", "visit"} /\ faults < MaxFaults
  /\ faults' = faults + 1
  /\ rev' = [rev EXCEPT !.at = "clear", !.left = {}, !.todo = {}]
  /\ UNCHANGED convs /\ UNCHANGED <<conv, passes, kern, heard, reviewed, counted, unseen>>

\* clear_due, and the run's end is recorded
RunEnds ==
  /\ rev.at = "clear" \/ (rev.at = "visit" /\ rev.todo = {})
  /\ rev' = Idle /\ owed' = "none"
  /\ conv' = IF rev.kind = "sweep" THEN conv
             ELSE [s \in Sessions |-> IF s \in DueAt(rev.now) THEN [conv[s] EXCEPT !.check = Never] ELSE conv[s]]
  /\ UNCHANGED <<clock, on, passes, kern, turn, swept, heard, reviewed, counted, unseen, lastRun, stops, faults>>

-----------------------------------------------------------------------------
(* Around them.                                                            *)

\* forget, of a deleted session
Forget(s) ==
  /\ turn[s].at = "idle" /\ ~ PassHolds(s) /\ conv[s].followed
  /\ conv' = [conv EXCEPT ![s] = Unfollowed]
  /\ passes' = Pruned({p \in passes : p.session # s \/ p.outcome = "completed"}, clock)
  /\ kern' = [kern EXCEPT ![s] = "none"]
  /\ turn' = [turn EXCEPT ![s].command = MaxMessages]
  /\ heard' = [heard EXCEPT ![s] = {}] /\ reviewed' = [reviewed EXCEPT ![s] = {}] /\ unseen' = unseen \ {s}
  /\ UNCHANGED <<clock, on, rev, owed, swept, counted, lastRun, stops, faults>>

\* The Host stops its passes, or an inspection or a deletion wants the claim.
Interrupt ==
  /\ rev.at \in {"claimed", "frozen"} /\ ~ rev.cut
  /\ rev' = [rev EXCEPT !.cut = TRUE]
  /\ UNCHANGED convs /\ UNCHANGED <<conv, passes, kern, heard, reviewed, counted, unseen, faults>>

\* The plugin is turned off or on.
Toggle ==
  /\ on' = ~ on /\ faults < MaxFaults /\ faults' = faults + 1
  /\ UNCHANGED <<clock, conv, passes, kern, turn, rev, owed, swept, heard, reviewed, counted, unseen, lastRun, stops>>

Tick ==
  /\ clock < MaxClock /\ clock' = clock + 1
  /\ UNCHANGED <<on, conv, passes, kern, turn, rev, owed, swept, heard, reviewed, counted, unseen, lastRun, stops, faults>>

\* The process stops; an unanswered message is delivered again.
Stop ==
  /\ stops < MaxStops /\ stops' = stops + 1
  /\ rev' = Idle
  /\ turn' = [s \in Sessions |-> IF turn[s].at = "idle" THEN turn[s] ELSE [turn[s] EXCEPT !.at = "waiting"]]
  /\ UNCHANGED <<clock, on, conv, passes, kern, owed, swept, heard, reviewed, counted, unseen, lastRun, faults>>

Next ==
  \/ \E s \in Sessions : \/ Say(s) \/ TurnClaims(s) \/ TurnAdmitted(s) \/ Count(s) \/ TurnEnded(s)
                         \/ Recover(s) \/ Visit(s) \/ Forget(s)
  \/ RunDaytime \/ RunSweep \/ Resume \/ List
  \/ PassClaims \/ PassFreezes \/ PassAdmitted
  \/ \E end \in {"completed", "failed", "cancelled"} : PassEnds(end)
  \/ PassUnsettled \/ PassSettles \/ VisitEnds \/ Halts \/ RunEnds
  \/ Interrupt \/ Toggle \/ Tick \/ Stop

Spec == Init /\ [][Next]_vars

-----------------------------------------------------------------------------
(* Properties.                                                             *)

TypeOK ==
  /\ clock \in 0 .. MaxClock /\ on \in BOOLEAN
  /\ \A s \in Sessions : /\ conv[s].chars \in 0 .. MaxMessages /\ conv[s].check >= Never
                         /\ kern[s] \in {"none", "open", "completed", "failed", "cancelled"}
                         /\ turn[s].at \in {"idle", "waiting", "holding", "admitted", "counted"}
  /\ rev.day \in DOMAIN counted
  /\ rev.at \in {"idle", "recover", "visit", "claim", "claimed", "frozen", "driven", "next", "clear"}
  /\ owed \in {"none", "daytime", "sweep"}

\* What a conversation counts as unreviewed is exactly what the person said
\* and no completed pass has read: a message redelivered after a stop counts
\* once, and one sent while a pass is left unsettled is not written off with it.
NothingForgotten == \A s \in Sessions : conv[s].followed => conv[s].chars = Cardinality(heard[s] \ reviewed[s])

\* A pass is frozen only where none is unsettled, so the unique index on
\* unsettled passes never fails a run, and no two passes of one conversation
\* are ever open.
OneUnsettled == \A s \in Sessions : Cardinality(Unsettled(s)) <= 1

\* The passes of a day keep the person's cap, in all their conversations and
\* the deleted ones: the daytime cap until the night's sweep begins, one more
\* after. Only a pass that outlived its run, left by a process stop or a
\* failure and counted when it is closed, comes on top.
CapKept ==
  \A d \in DOMAIN counted :
    counted[d].all <= counted[d].late
      + IF swept <= d /\ clock < (d + 1) * DayLength - Early THEN DailyCap ELSE DailyCap + 1

\* A message and a pass never hold a conversation together, and what a pass
\* froze stays the conversation's unreviewed text until it settles.
FrozenText == rev.at \in {"frozen", "driven"} /\ conv[rev.cur].followed =>
                /\ ~ TurnHolds(rev.cur)
                /\ \A p \in Unsettled(rev.cur) : p.chars = conv[rev.cur].chars

\* The note pass timer never comes back at once: a daytime run is admitted
\* only later than the one before it, or for a conversation active since, in
\* which a message received long ago may be due as it is counted.
TimerMovesOn ==
  owed = "none" /\ owed' = "daytime" => clock > lastRun \/ DueAt(clock) \cap unseen # {}

=============================================================================
