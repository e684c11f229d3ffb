-------------------------------- MODULE Feed --------------------------------
(***************************************************************************)
(* The owner's feed (crates/renoa-local/src/host/feed): items made by run   *)
(* results and by agents, answers, dismissals, the read mark, today's       *)
(* sentence, retention, and the wakes the node asks for                     *)
(* (crates/renoa-node/src/owner_wakes.rs).  An item keeps its index         *)
(* (sequence) when its row is removed.                                      *)
(***************************************************************************)
EXTENDS Integers, Sequences, FiniteSets, FiniteSetsExt, SequencesExt

CONSTANTS
    Autos, Sessions,
    Sentences,  \* what today's sentence may say
    Urgencies,  \* of what agents send: whenever, soon
    KeepItems,  \* KEEP_ITEMS
    Page,       \* OWED_PAGE
    MaxItems, MaxTime, MaxSaid, MaxRuns, \* bounds: items, the clock, messages, runs
    MaxFaults   \* bound: restarts, refused and lost wake requests

FeedAssumption ==
    /\ Urgencies \subseteq {"whenever", "soon"} /\ KeepItems \in Nat \ {0} /\ Page \in Nat \ {0}
    /\ {MaxItems, MaxTime, MaxSaid, MaxRuns, MaxFaults} \subseteq Nat

VARIABLES
    now,
    item,   \* host_feed_items
    run,    \* host_automation_runs: the automation of each, and whether its row is there
    said,   \* messages to a session: when, by whom, and (history) the items there were
    seenThrough, \* host_feed_state
    today,  \* host_today, with (history) the items there were when the sentence changed
    listed, \* the newest item a client was shown
    forgotten, \* deleted automations and sessions
    pass,   \* owner_wakes: the wakes still to ask for
    faults

vars == <<now, item, run, said, seenThrough, today, listed, forgotten, pass, faults>>
Rows == {i \in 1..Len(item) : ~item[i].gone}
NeedsOwner(i) == item[i].kind \in {"ask", "problem"}
Open(i) == i \in Rows /\ ~item[i].done
Fault == faults < MaxFaults /\ faults' = faults + 1

Init ==
    /\ now = 1 /\ item = <<>> /\ run = <<>> /\ said = <<>> /\ seenThrough = 0
    /\ today = [sentence |-> "none", through |-> 0, items |-> 0]
    /\ listed = 0 /\ forgotten = {} /\ pass = <<>> /\ faults = 0

Tick == now < MaxTime /\ now' = now + 1 /\ UNCHANGED <<item, run, said, seenThrough, today, listed, forgotten, pass, faults>>
-----------------------------------------------------------------------------
(* What puts items into the feed *)

New(kind, subject, urgency) ==
    [kind |-> kind, subject |-> subject, urgency |-> urgency, at |-> now,
     done |-> FALSE, wake |-> FALSE, gone |-> FALSE, by |-> 0]
Done(its, S) == [i \in 1..Len(its) |-> IF i \in S THEN [its[i] EXCEPT !.done = TRUE] ELSE its[i]]
Removed(its, S) == [i \in 1..Len(its) |-> IF i \in S THEN [its[i] EXCEPT !.gone = TRUE] ELSE its[i]]
ProblemsOf(a) == {i \in Rows : Open(i) /\ item[i].kind = "problem" /\ item[i].subject = <<"auto", a>>}
ResultsOf(a) == {i \in Rows : item[i].kind = "result" /\ run[item[i].subject[2]].auto = a}

OpensProblem(a) == ProblemsOf(a) = {}
(* A skipped run is treated as a failed one.                                *)
RunEnded(a, how) ==
    /\ a \notin forgotten /\ Len(run) < MaxRuns /\ Len(item) < MaxItems
    /\ run' = Append(run, [auto |-> a, gone |-> FALSE])
    /\ item' = CASE how = "own" -> Append(Removed(Done(item, ProblemsOf(a)), ResultsOf(a)), New("result", <<"run", Len(run) + 1>>, "whenever"))
                 [] how = "conversation" -> Done(item, ProblemsOf(a))
                 [] how = "failed" /\ OpensProblem(a) -> Append(item, New("problem", <<"auto", a>>, "soon"))
                 [] OTHER -> item
    /\ UNCHANGED <<now, said, seenThrough, today, listed, forgotten, pass, faults>>
(* owner_asked and owner_told.                                               *)
ForOwner(s, kind, urgency) ==
    /\ s \notin forgotten /\ Len(item) < MaxItems /\ item' = Append(item, New(kind, <<"session", s>>, urgency))
    /\ UNCHANGED <<now, run, said, seenThrough, today, listed, forgotten, pass, faults>>
-----------------------------------------------------------------------------
(* Answers *)

(* A message is said to a session; its turn runs later and then closes the   *)
(* questions asked before it was said.  A scheduled run's message does not.  *)
Say(s, scheduled) ==
    /\ s \notin forgotten /\ Len(said) < MaxSaid
    /\ said' = Append(said, [session |-> s, at |-> now, scheduled |-> scheduled, items |-> Len(item), run |-> FALSE])
    /\ UNCHANGED <<now, item, run, seenThrough, today, listed, forgotten, pass, faults>>
Answered(m) == {i \in Rows : /\ Open(i) /\ item[i].kind = "ask" /\ item[i].subject = <<"session", said[m].session>>
                             /\ item[i].at < said[m].at /\ ~said[m].scheduled}
AsksAnswered(m) ==
    /\ ~said[m].run /\ said' = [said EXCEPT ![m].run = TRUE]
    /\ item' = [i \in 1..Len(item) |-> IF i \in Answered(m) THEN [item[i] EXCEPT !.done = TRUE, !.by = m] ELSE item[i]]
    /\ UNCHANGED <<now, run, seenThrough, today, listed, forgotten, pass, faults>>
-----------------------------------------------------------------------------
(* The owner's clients *)

List == /\ Rows # {} /\ listed' = Max(Rows \cup {listed})
        /\ UNCHANGED <<now, item, run, said, seenThrough, today, forgotten, pass, faults>>
(* The newest sequence ever given, whatever rows are left.                   *)
Newest == Len(item)
See ==
    /\ seenThrough < listed /\ listed <= Newest /\ seenThrough' = listed
    /\ UNCHANGED <<now, item, run, said, today, listed, forgotten, pass, faults>>
Dismiss(i) ==
    /\ i <= listed /\ Open(i) /\ item' = Done(item, {i})
    /\ UNCHANGED <<now, run, said, seenThrough, today, listed, forgotten, pass, faults>>
TodaySet(s) == IF s = today.sentence THEN today ELSE [sentence |-> s, through |-> Newest, items |-> Len(item)]
SetToday(s) == /\ today' = TodaySet(s) /\ UNCHANGED <<now, item, run, said, seenThrough, listed, forgotten, pass, faults>>
Shown == today.sentence # "none" /\ ~\E i \in Rows : NeedsOwner(i) /\ Open(i) /\ i > today.through
-----------------------------------------------------------------------------
(* Retention *)

Exempt(i) == NeedsOwner(i) /\ ~item[i].done
Over == {i \in Rows : ~Exempt(i) /\ Cardinality({j \in Rows : j > i}) >= KeepItems}
Expire ==
    /\ Over # {} /\ item' = Removed(item, Over)
    /\ UNCHANGED <<now, run, said, seenThrough, today, listed, forgotten, pass, faults>>
ForgetResults(r) ==
    /\ ~run[r].gone /\ run' = [run EXCEPT ![r].gone = TRUE]
    /\ item' = Removed(item, {i \in Rows : item[i].kind = "result" /\ item[i].subject = <<"run", r>>})
    /\ UNCHANGED <<now, said, seenThrough, today, listed, forgotten, pass, faults>>
(* A deleted automation's rows go with its runs.                             *)
ForgetAutomation(a) ==
    /\ a \in Autos \ forgotten /\ forgotten' = forgotten \cup {a}
    /\ item' = Removed(item, ResultsOf(a) \cup {i \in Rows : item[i].subject = <<"auto", a>>})
    /\ run' = [r \in 1..Len(run) |-> IF run[r].auto = a THEN [run[r] EXCEPT !.gone = TRUE] ELSE run[r]]
    /\ UNCHANGED <<now, said, seenThrough, today, listed, pass, faults>>
ForgetSession(s) ==
    /\ s \in Sessions \ forgotten /\ forgotten' = forgotten \cup {s}
    /\ item' = Removed(item, {i \in Rows : item[i].subject = <<"session", s>>})
    /\ UNCHANGED <<now, run, said, seenThrough, today, listed, pass, faults>>
-----------------------------------------------------------------------------
(* owner_wakes *)

Owed == {i \in Rows : item[i].urgency = "soon" /\ ~item[i].wake /\ ~item[i].done}
OwedWakes == LET s == SetToSortSeq(Owed, <) IN SubSeq(s, 1, IF Len(s) < Page THEN Len(s) ELSE Page)
StartPass == pass = <<>> /\ Owed # {} /\ pass' = OwedWakes
             /\ UNCHANGED <<now, item, run, said, seenThrough, today, listed, forgotten, faults>>
(* A wake is asked for and then recorded; a row that is gone is left alone.  *)
Sent(i) == IF item[i].gone THEN item ELSE [item EXCEPT ![i].wake = TRUE]
RequestWake ==
    /\ pass # <<>>
    /\ \/ item' = Sent(Head(pass)) /\ pass' = Tail(pass) /\ UNCHANGED faults
       \/ Fault /\ pass' = <<>> /\ UNCHANGED item \* refused, unanswered or not recorded
    /\ UNCHANGED <<now, run, said, seenThrough, today, listed, forgotten>>

Next ==
    \/ Tick \/ List \/ See \/ Expire \/ StartPass \/ RequestWake
    \/ \E a \in Autos : ForgetAutomation(a) \/ \E how \in {"own", "conversation", "failed"} : RunEnded(a, how)
    \/ \E s \in Sessions : \/ ForgetSession(s) \/ \E b \in BOOLEAN : Say(s, b)
                           \/ \E k \in {"ask", "update"}, u \in Urgencies : ForOwner(s, k, u)
    \/ \E m \in 1..Len(said) : AsksAnswered(m)
    \/ \E i \in 1..Len(item) : Dismiss(i)
    \/ \E s \in Sentences : SetToday(s)
    \/ \E r \in 1..Len(run) : ForgetResults(r)
Spec == Init /\ [][Next]_vars /\ WF_vars(StartPass) /\ WF_vars(RequestWake)
-----------------------------------------------------------------------------
(* Types: results name runs that are there, a pass names items, the marks    *)
(* stay within the feed, and what belongs to something deleted is gone.      *)
TypeOK ==
    /\ {seenThrough, listed, today.through} \subseteq 0..Len(item) /\ Range(pass) \subseteq 1..Len(item)
    /\ \A i \in Rows : /\ item[i].kind = "result" => ~run[item[i].subject[2]].gone
                       /\ item[i].kind # "result" => item[i].subject[2] \notin forgotten

(* A client may always mark as seen what it was shown, whatever retention    *)
(* or a deletion has removed since (see refuses a number past the newest).   *)
ListedCanBeSeen == listed <= Newest

(* However often an automation fails, it has one open problem at most.       *)
OneProblem == \A a \in Autos : Cardinality(ProblemsOf(a)) <= 1

(* What still needs the owner leaves the feed only with the automation or    *)
(* the conversation it is about.                                             *)
OpenKept == \A i \in 1..Len(item) :
    item[i].gone /\ NeedsOwner(i) /\ ~item[i].done => item[i].subject[2] \in forgotten

(* A message closes only questions that were there when it was said: a       *)
(* question asked while the message waited, or by its own turn, stays open.  *)
AnsweredWasAsked == \A i \in 1..Len(item) : item[i].by # 0 => i <= said[item[i].by].items

(* Today's sentence is shown only while everything that needs the owner is   *)
(* older than the sentence; setting the same sentence again is no news.      *)
TodayTrue == Shown => \A i \in Rows : NeedsOwner(i) /\ Open(i) => i <= today.items

(* Whatever should wake the owner does, or was dealt with before.            *)
WakesReach ==
    \A i \in 1..Len(item) : item[i].urgency = "soon" => item[i].wake \/ item[i].done \/ item[i].gone
==============================================================================
