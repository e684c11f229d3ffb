----------------------------- MODULE LocalTurns -----------------------------
(***************************************************************************)
(* One Agent session inside one Host process: the claims that keep a       *)
(* memory note pass and the surfaces' turns apart (agent_session/claim.rs, *)
(* waiting.rs), the activity guard and closing of AgentSession             *)
(* (agent_session.rs), the execution of one request over the kernel        *)
(* (agent_session/execution.rs, session/execution.rs) and the closing of a *)
(* pass a stopped process left (note_pass/settle.rs).                      *)
(*                                                                         *)
(* Durable: the kernel's operations (op, passOp), the requested kernel     *)
(* cancellations and the unsettled pass row.  Everything else is lost when *)
(* the process stops.  `answer' is what the caller got from its call.      *)
(***************************************************************************)
EXTENDS Naturals, FiniteSets, FiniteSetTheorems, TLAPS

CONSTANTS Requests,    \* the surface requests, each with its own command id
          Delivered,   \* those the automation scheduler delivers
          MaxPasses,   \* bound: visits of the pass to the session
          MaxCrashes,  \* bound: process stops
          MaxCloses    \* bound: closes of the instance

TurnsAssumption == /\ Delivered \subseteq Requests
                   /\ {MaxPasses, MaxCrashes, MaxCloses} \subseteq Nat
                   /\ Requests \cap {"pass", "cfg", "idle"} = {}

VARIABLES holders,    \* the claim: {"pass"}, or the surfaces that share it
          stopped,    \* Held.passes_stopped
          passToken,  \* the running pass's cancellation
          activity,   \* SessionState.activity: "idle", "cfg", "pass" or the request
          accepting,  \* SessionState.accepting_work
          closer,     \* "out", "waiting" or "closed": close_and_wait_until_idle
          cfg,        \* a configuration change: "out", "waiting", "asleep", "claimed", "busy"
          pc, token, settling, unclosed,   \* of each request
          op,         \* the kernel operation of each request
          answer,     \* what each call returned
          ppc,        \* the note pass's place
          row,        \* an unsettled pass row exists
          passOp,     \* the kernel operation of the latest pass
          passes, crashes, closes

turn   == <<pc, token, settling, unclosed, op, answer>>
passV  == <<ppc, row, passOp, passes>>
claimV == <<holders, stopped, passToken>>
instV  == <<activity, accepting, closer, closes>>
vars   == <<turn, passV, claimV, instV, cfg, crashes>>

Places == {"out", "waiting", "asleep", "stale", "closing", "begin", "ready",
           "driving", "noting", "done"}
Ended  == {"completed", "cancelled"}
Ops    == {"absent", "open"} \cup Ended

TypeOK ==
    /\ holders \subseteq Requests \cup {"pass", "cfg"}
    /\ {stopped, passToken, accepting, row} \subseteq BOOLEAN
    /\ activity \in Requests \cup {"idle", "cfg", "pass"}
    /\ closer \in {"out", "waiting", "closed"}
    /\ cfg \in {"out", "waiting", "asleep", "claimed", "busy"}
    /\ pc \in [Requests -> Places]
    /\ token \in [Requests -> BOOLEAN] /\ settling \in [Requests -> BOOLEAN]
    /\ unclosed \in SUBSET Requests
    /\ op \in [Requests -> Ops] /\ passOp \in Ops
    /\ answer \in [Requests -> {"none", "busy", "closing", "passRunning",
                                "unfinished", "failed"} \cup Ended]
    /\ ppc \in {"out", "open", "closing", "decide", "exec", "driving", "settle"}
    /\ passes \in 0..MaxPasses /\ crashes \in 0..MaxCrashes /\ closes \in 0..MaxCloses

Init ==
    /\ holders = {} /\ stopped = FALSE /\ passToken = FALSE
    /\ activity = "idle" /\ accepting = TRUE /\ closer = "out" /\ closes = 0
    /\ cfg = "out" /\ crashes = 0
    /\ pc = [r \in Requests |-> "out"]
    /\ token = [r \in Requests |-> FALSE] /\ settling = [r \in Requests |-> FALSE]
    /\ unclosed = {}
    /\ op = [r \in Requests |-> "absent"]
    /\ answer = [r \in Requests |-> "none"]
    /\ ppc = "out" /\ row = FALSE /\ passOp = "absent" /\ passes = 0

(***************************************************************************)
(* Claims.                                                                 *)
(***************************************************************************)
At(r, place)   == pc' = [pc EXCEPT ![r] = place]
PassHolds      == "pass" \in holders

\* Claim::drop: the claim goes and every sleeping waiter is woken.
Release(h, seats) ==
    /\ holders' = holders \ {h}
    /\ pc' = [r \in Requests |-> IF seats[r] = "asleep" THEN "waiting" ELSE seats[r]]
    /\ cfg' = IF cfg = "asleep" THEN "waiting" ELSE cfg

\* The request's call returns `what' and its claim, if it has one, is dropped.
Return(r, what) ==
    /\ answer' = [answer EXCEPT ![r] = what]
    /\ Release(r, [pc EXCEPT ![r] = "done"])

\* A surface calls execute_turn or execute_compaction; its cancellation is
\* registered while it waits.  A call left without an answer is made again.
Call(r) ==
    /\ pc[r] = "out"
    /\ At(r, "waiting")
    /\ UNCHANGED <<token, settling, unclosed, op, answer, passV, claimV, instV, cfg, crashes>>

\* Claims::wait_for: shares the surfaces' claim, or cancels the pass that
\* holds the session and sleeps; the notification is enabled before the look.
WaitForBad(r) ==
    /\ pc[r] = "waiting"
    /\ holders' = holders \cup {r} /\ At(r, "stale") /\ UNCHANGED passToken
    /\ UNCHANGED <<stopped, token, settling, unclosed, op, answer, passV, instV, cfg, crashes>>
WaitFor(r) ==
    /\ pc[r] = "waiting"
    /\ \/ /\ ~PassHolds
          /\ holders' = holders \cup {r} /\ At(r, "stale") /\ UNCHANGED passToken
       \/ /\ PassHolds
          /\ passToken' = TRUE /\ At(r, "asleep") /\ UNCHANGED holders
    /\ UNCHANGED <<stopped, token, settling, unclosed, op, answer, passV, instV, cfg, crashes>>

\* surface_claim after Waited::Cancelled: a command the kernel admitted waits
\* on to be settled under the claim; any other is answered without running.
WaitCancelled(r) ==
    /\ pc[r] = "asleep" /\ token[r] /\ ~settling[r]
    /\ \/ /\ op[r] = "absent" /\ Return(r, "cancelled") /\ UNCHANGED settling
       \/ /\ op[r] # "absent" /\ settling' = [settling EXCEPT ![r] = TRUE]
          /\ UNCHANGED <<pc, answer, holders, cfg>>
    /\ UNCHANGED <<stopped, passToken, token, unclosed, op, passV, instV, crashes>>

\* surface_claim after Waited::TimedOut: a settling or delivered command waits
\* again, any other is refused.
TimedOut(r) ==
    /\ pc[r] = "asleep" /\ ~settling[r] /\ r \notin Delivered
    /\ Return(r, "passRunning")
    /\ UNCHANGED <<stopped, passToken, token, settling, unclosed, op, passV, instV, crashes>>

\* cancel_active_turn: the active prompt and every waiting one.  While a stale
\* pass is closed, the active prompt is the pass, with a token of its own.
Active(r) == activity = r /\ pc[r] # "closing"
CancelActiveTurn ==
    /\ token' = [r \in Requests |->
                   token[r] \/ Active(r) \/ pc[r] \in {"waiting", "asleep"}]
    /\ token' # token
    /\ UNCHANGED <<pc, settling, unclosed, op, answer, passV, claimV, instV, cfg, crashes>>

(***************************************************************************)
(* A pass a stopped process left is closed before a message and before the *)
(* next pass: its command is executed again already cancelled, so it ends  *)
(* cancelled, unless it had completed.  The catalog, the execution and the *)
(* settling may fail; the row then stays, and the message goes on.         *)
(***************************************************************************)
BeginPrompt(who) == accepting /\ activity = "idle" /\ activity' = who

CloseStale(r) ==
    /\ pc[r] = "stale"
    /\ \/ /\ ~row /\ At(r, "begin") /\ UNCHANGED <<activity, unclosed>>
       \/ /\ row /\ BeginPrompt(r) /\ At(r, "closing") /\ UNCHANGED unclosed
       \/ /\ row /\ unclosed' = unclosed \cup {r} /\ At(r, "begin") /\ UNCHANGED activity
    /\ UNCHANGED <<token, settling, op, answer, passV, claimV, accepting, closer,
                   closes, cfg, crashes>>

StaleSettledBad(r) ==
    /\ pc[r] = "closing"
    /\ row' = FALSE /\ activity' = "idle" /\ At(r, "begin") /\ passOp' = "completed"
    /\ UNCHANGED <<token, settling, unclosed, op, answer, ppc, passes, claimV,
                   accepting, closer, closes, cfg, crashes>>
PassClosed == IF passOp = "open" THEN "cancelled" ELSE passOp
StaleSettled(r) ==
    /\ pc[r] = "closing"
    /\ \/ passOp' = PassClosed /\ row' = FALSE /\ UNCHANGED unclosed
       \/ passOp' \in {passOp, PassClosed} /\ unclosed' = unclosed \cup {r} /\ UNCHANGED row
    /\ activity' = "idle" /\ At(r, "begin")
    /\ UNCHANGED <<token, settling, op, answer, ppc, passes, claimV,
                   accepting, closer, closes, cfg, crashes>>

(***************************************************************************)
(* execute: one prompt or compaction over the kernel.                      *)
(***************************************************************************)
\* begin_prompt and the first cancelled_outcome: refused while closing or
\* busy; a cancelled command never admitted, or already settled, is answered.
Begin(r) ==
    /\ pc[r] = "begin"
    /\ \/ /\ ~accepting /\ Return(r, "closing") /\ UNCHANGED activity
       \/ /\ accepting /\ activity # "idle" /\ Return(r, "busy") /\ UNCHANGED activity
       \/ /\ BeginPrompt(r) /\ At(r, "ready") /\ UNCHANGED <<answer, holders, cfg>>
    /\ UNCHANGED <<token, settling, unclosed, op, passV, stopped, passToken,
                   accepting, closer, closes, crashes>>

\* replay_settled_turn, replay_settled_compaction.
Replayed(r) == op[r] \in Ended
Others(r) == {op[q] : q \in Requests \ {r}}

\* replay of a settled command, runtime resolution (which may fail) and
\* submit_exclusive, which refuses while another operation is unfinished.
Submit(r) ==
    /\ pc[r] = "ready"
    /\ \/ /\ Replayed(r) /\ answer' = [answer EXCEPT ![r] = op[r]] /\ UNCHANGED op
          /\ At(r, "noting") /\ activity' = "idle"
       \/ /\ op[r] = "absent" /\ token[r]
          /\ answer' = [answer EXCEPT ![r] = "cancelled"] /\ UNCHANGED op
          /\ At(r, "noting") /\ activity' = "idle"
       \/ /\ op[r] = "absent" /\ ~token[r]
          /\ "open" \in Others(r) \cup {passOp}
          /\ answer' = [answer EXCEPT ![r] = "unfinished"] /\ UNCHANGED op
          /\ At(r, "noting") /\ activity' = "idle"
       \/ /\ op[r] = "absent" /\ ~token[r]
          /\ "open" \notin Others(r) \cup {passOp}
          /\ op' = [op EXCEPT ![r] = "open"] /\ At(r, "driving")
          /\ UNCHANGED <<answer, activity>>
       \/ /\ op[r] = "open" /\ At(r, "driving") /\ UNCHANGED <<op, answer, activity>>
    /\ UNCHANGED <<token, settling, unclosed, passV, claimV, accepting, closer,
                   closes, cfg, crashes>>

\* Resolution, tracing or storage fails before the admission, or the drive
\* after it: the operation is then left unfinished.
ExecuteFails(r) ==
    /\ pc[r] \in {"ready", "driving"}
    /\ answer' = [answer EXCEPT ![r] = "failed"]
    /\ At(r, "noting") /\ activity' = "idle"
    /\ UNCHANGED <<token, settling, unclosed, op, passV, claimV, accepting, closer,
                   closes, cfg, crashes>>

\* drive ends: cancelled through the kernel when the token fired, else with
\* the turn's outcome; the activity guard is dropped.
Drive(r) ==
    /\ pc[r] = "driving"
    /\ \E out \in IF token[r] THEN Ended ELSE {"completed"} :
         /\ op' = [op EXCEPT ![r] = out]
         /\ answer' = [answer EXCEPT ![r] = out]
    /\ At(r, "noting") /\ activity' = "idle"
    /\ UNCHANGED <<token, settling, unclosed, passV, claimV, accepting, closer,
                   closes, cfg, crashes>>

\* note_message, under the claim still; then the call returns.
Note(r) ==
    /\ pc[r] = "noting"
    /\ Release(r, [pc EXCEPT ![r] = "done"])
    /\ UNCHANGED <<token, settling, unclosed, op, answer, passV, stopped, passToken,
                   instV, crashes>>

\* AgentSession::cancel_before_execution, without a claim: begin_prompt, then
\* the kernel's standing of the command, in one synchronous call.
CancelBefore(r) ==
    /\ pc[r] = "out" /\ accepting /\ activity = "idle"
    /\ IF op[r] = "open"
         THEN token' = [token EXCEPT ![r] = TRUE] /\ ~token[r] /\ UNCHANGED <<pc, answer>>
         ELSE /\ answer' = [answer EXCEPT ![r] = IF op[r] = "absent" THEN "cancelled" ELSE op[r]]
              /\ At(r, "done") /\ UNCHANGED token
    /\ UNCHANGED <<settling, unclosed, op, passV, claimV, instV, cfg, crashes>>

(***************************************************************************)
(* set_model, set_reasoning, refresh_configuration.                        *)
(***************************************************************************)
Configure ==
    /\ cfg \in {"out", "waiting"}
    /\ \/ /\ ~PassHolds /\ holders' = holders \cup {"cfg"} /\ cfg' = "claimed"
          /\ UNCHANGED passToken
       \/ /\ PassHolds /\ passToken' = TRUE /\ cfg' = "asleep" /\ UNCHANGED holders
    /\ UNCHANGED <<turn, passV, stopped, instV, crashes>>

ConfigurationBegins ==
    /\ cfg = "claimed" /\ BeginPrompt("cfg") /\ cfg' = "busy"
    /\ UNCHANGED <<turn, passV, claimV, accepting, closer, closes, crashes>>

\* Refused while closing or busy, or validated, persisted and applied.
ConfigurationEnds ==
    /\ \/ cfg = "claimed" /\ (~accepting \/ activity # "idle") /\ UNCHANGED activity
       \/ cfg = "busy" /\ activity' = "idle"
    /\ holders' = holders \ {"cfg"} /\ cfg' = "out"
    /\ pc' = [r \in Requests |-> IF pc[r] = "asleep" THEN "waiting" ELSE pc[r]]
    /\ UNCHANGED <<token, settling, unclosed, op, answer, passV, stopped, passToken,
                   accepting, closer, closes, crashes>>

(***************************************************************************)
(* Closing the instance, and opening the next one once it is idle.         *)
(***************************************************************************)
Close ==
    /\ closer = "out" /\ closes < MaxCloses
    /\ accepting' = FALSE /\ closer' = "waiting" /\ closes' = closes + 1
    /\ token' = [r \in Requests |-> token[r] \/ Active(r)]
    /\ passToken' = (passToken \/ (activity = "pass" /\ ppc # "closing"))
    /\ UNCHANGED <<pc, settling, unclosed, op, answer, passV, holders, stopped,
                   activity, cfg, crashes>>

Closed ==
    /\ closer = "waiting" /\ activity = "idle" /\ closer' = "closed"
    /\ UNCHANGED <<turn, passV, claimV, activity, accepting, closes, cfg, crashes>>

\* Claims::open_in: a closing instance is not handed out; the session is
\* loaded again when the kernel's lock went with the last user of the old one.
Reopen ==
    /\ closer = "closed" /\ holders = {}
    /\ accepting' = TRUE /\ closer' = "out"
    /\ UNCHANGED <<turn, passV, claimV, activity, closes, cfg, crashes>>

(***************************************************************************)
(* The note pass.                                                          *)
(***************************************************************************)
\* open_for_note_pass: never a session a surface holds, none once stopped.
PassOpens ==
    /\ ppc = "out" /\ passes < MaxPasses
    /\ ~stopped /\ holders = {} /\ accepting
    /\ holders' = {"pass"} /\ passToken' = FALSE /\ ppc' = "open" /\ passes' = passes + 1
    /\ UNCHANGED <<turn, stopped, row, passOp, instV, cfg, crashes>>

\* The pass lets its session and claim go.
PassLeaves ==
    /\ Release("pass", pc) /\ ppc' = "out"

\* close_stale under the pass's claim; Busy when it was cancelled already, and
\* the visit ends when the close fails.
PassClosesStale ==
    /\ ppc = "open"
    /\ \/ PassLeaves /\ UNCHANGED activity
       \/ /\ ~passToken /\ row /\ BeginPrompt("pass") /\ ppc' = "closing"
          /\ UNCHANGED <<pc, holders, cfg>>
       \/ /\ ~passToken /\ ~row /\ ppc' = "decide" /\ UNCHANGED <<pc, holders, cfg, activity>>
    /\ UNCHANGED <<token, settling, unclosed, op, answer, row, passOp, passes, stopped,
                   passToken, accepting, closer, closes, crashes>>

PassStaleSettled ==
    /\ ppc = "closing" /\ activity' = "idle"
    /\ \/ passOp' = PassClosed /\ row' = FALSE /\ ppc' = "decide" /\ UNCHANGED <<pc, holders, cfg>>
       \/ passOp' \in {passOp, PassClosed} /\ PassLeaves /\ UNCHANGED row
    /\ UNCHANGED <<token, settling, unclosed, op, answer, passes, stopped, passToken,
                   accepting, closer, closes, crashes>>

\* The decision is made again under the claim; then the pass is frozen.
PassFreezes ==
    /\ ppc = "decide"
    /\ \/ /\ PassLeaves /\ UNCHANGED <<row, passOp>>
       \/ /\ ~passToken
          /\ row' = TRUE /\ passOp' = "absent"
          /\ ppc' = "exec" /\ UNCHANGED <<pc, holders, cfg>>
    /\ UNCHANGED <<token, settling, unclosed, op, answer, passes, stopped, passToken, instV, crashes>>

\* execute_note_pass admits the pass's command; a refusal leaves the row.
PassAdmitted ==
    /\ ppc = "exec"
    /\ \/ /\ ~accepting \/ activity # "idle" \/ (~passToken /\ "open" \in {op[r] : r \in Requests})
          /\ PassLeaves /\ UNCHANGED <<activity, passOp>>
       \/ /\ BeginPrompt("pass")
          /\ "open" \notin {op[r] : r \in Requests} \/ passToken
          /\ passOp' = IF passToken THEN "absent" ELSE "open"
          /\ ppc' = "driving" /\ UNCHANGED <<pc, holders, cfg>>
    /\ UNCHANGED <<token, settling, unclosed, op, answer, row, passes, stopped,
                   passToken, accepting, closer, closes, crashes>>

PassDriven ==
    /\ ppc = "driving"
    /\ \E out \in IF passToken THEN Ended ELSE {"completed"} :
         passOp' = IF passOp = "open" THEN out ELSE passOp
    /\ activity' = "idle" /\ ppc' = "settle"
    /\ UNCHANGED <<turn, row, passes, claimV, accepting, closer, closes, cfg, crashes>>

\* The drive fails: the pass's command and its row stay.
PassFails ==
    /\ ppc = "driving" /\ activity' = "idle" /\ PassLeaves
    /\ UNCHANGED <<token, settling, unclosed, op, answer, row, passOp, passes, stopped,
                   passToken, accepting, closer, closes, crashes>>

\* Ran::settle before the claim is released; a failed settle leaves the row.
PassSettles ==
    /\ ppc = "settle"
    /\ row' \in {FALSE, TRUE} /\ PassLeaves
    /\ UNCHANGED <<token, settling, unclosed, op, answer, passOp, passes, stopped,
                   passToken, instV, crashes>>

StopPasses ==
    /\ ~stopped /\ stopped' = TRUE
    /\ passToken' = (passToken \/ PassHolds)
    /\ UNCHANGED <<holders, turn, passV, instV, cfg, crashes>>

\* The process stops: claims, guards and waiters go; a call without an answer
\* is made again by its surface.
Crash ==
    /\ crashes < MaxCrashes /\ crashes' = crashes + 1
    /\ holders' = {} /\ stopped' = FALSE /\ passToken' = FALSE
    /\ activity' = "idle" /\ accepting' = TRUE /\ closer' = "out"
    /\ cfg' = "out" /\ ppc' = "out" /\ unclosed' = {}
    /\ pc' = [r \in Requests |-> IF pc[r] = "done" THEN "done" ELSE "out"]
    /\ answer' = [r \in Requests |-> IF pc[r] = "done" THEN answer[r] ELSE "none"]
    /\ token' = [r \in Requests |-> FALSE] /\ settling' = [r \in Requests |-> FALSE]
    /\ UNCHANGED <<op, row, passOp, passes, closes>>

Step(r) == \/ Call(r) \/ WaitFor(r) \/ CloseStale(r) \/ StaleSettled(r)
           \/ Begin(r) \/ Submit(r) \/ Drive(r) \/ Note(r)
PassStep == PassClosesStale \/ PassStaleSettled \/ PassFreezes \/ PassAdmitted
            \/ PassDriven \/ PassSettles
Next ==
    \/ \E r \in Requests : \/ Step(r) \/ WaitCancelled(r) \/ TimedOut(r)
                           \/ ExecuteFails(r) \/ CancelBefore(r)
    \/ CancelActiveTurn
    \/ Configure \/ ConfigurationBegins \/ ConfigurationEnds
    \/ Close \/ Closed \/ Reopen
    \/ PassOpens \/ PassStep \/ PassFails \/ StopPasses \/ Crash

\* Tasks that can run do run; nothing promises a cancellation, a timeout, a
\* close or a new pass.
Fairness == /\ \A r \in Requests : WF_vars(Step(r))
            /\ WF_vars(PassStep) /\ WF_vars(ConfigurationBegins \/ ConfigurationEnds)
            /\ WF_vars(Closed)
Spec == Init /\ [][Next]_vars /\ Fairness

(***************************************************************************)
(* Properties.                                                             *)
(***************************************************************************)
\* A note pass has the session to itself: while it holds the claim no surface
\* is between its claim and its answer (claim.rs: surfaces, any number at
\* once, or one note pass).
PassAlone == PassHolds => /\ holders = {"pass"}
                          /\ \A r \in Requests : pc[r] \in {"out", "waiting", "asleep", "done"}

\* Surfaces share a claim, yet only one of them drives the kernel: the session
\* never has two requests past begin_prompt.
OneDriver == Cardinality({r \in Requests : pc[r] \in {"closing", "ready", "driving"}}) <= 1

\* A call answered `cancelled' never leaves its command running: the kernel
\* never admitted it, or settled it.
CancelledIsOver == \A r \in Requests :
    pc[r] = "done" /\ answer[r] = "cancelled" => op[r] # "open"

\* A person's message is refused for a pass a stopped process left only when
\* the attempt to close that pass was itself refused or failed.
StalePassBlocks == \A r \in Requests :
    answer[r] = "unfinished" /\ pc[r] = "noting" /\ passOp = "open" => r \in unclosed

\* A pass's command is never left unfinished in the kernel without the row
\* that lets the next message or run close it.
OpenPassRecorded == passOp = "open" => row

\* A pass found unsettled by a later start is closed, never finished: its
\* command only completes by the drive of the run that froze it.
NeverResumed ==
  passOp # "completed" /\ passOp' = "completed" => ppc = "driving"

\* close_and_wait_until_idle returns only when nothing runs on the instance,
\* and nothing starts on it afterwards.
ClosedIsIdle == closer = "closed" => activity = "idle"

\* Once the Host stops passes, the running one is cancelled and no pass is
\* frozen again in this process.
StoppedPasses == /\ stopped /\ PassHolds => passToken
                 /\ stopped => ppc # "exec" \/ passToken

\* Every call is answered: a turn that waits for a pass is woken when the
\* pass it cancelled lets go.
EveryCallAnswered == \A r \in Requests : pc[r] # "waiting"

\* What the runs check of one session in one state.
TurnsSafe == /\ TypeOK /\ CancelledIsOver /\ StalePassBlocks /\ OpenPassRecorded
             /\ PassAlone /\ OneDriver /\ ClosedIsIdle /\ StoppedPasses

(***************************************************************************)
(* Proofs.  Who holds the claim is told by the places: a request from its  *)
(* claim to its answer, a configuration change while it is made, the pass  *)
(* while it is not out; and the pass shares it with nobody.  The activity  *)
(* names the only one that is past begin_prompt.  Nobody but the pass      *)
(* itself, and never beside a request, makes its operation open.           *)
(***************************************************************************)
Holding == {"stale", "closing", "begin", "ready", "driving", "noting"}
Working == {"closing", "ready", "driving"}

Flags == stopped \in BOOLEAN /\ passToken \in BOOLEAN /\ accepting \in BOOLEAN /\ row \in BOOLEAN
Bounds == /\ passes \in Nat /\ passes <= MaxPasses /\ crashes \in Nat /\ crashes <= MaxCrashes
          /\ closes \in Nat /\ closes <= MaxCloses
Calls ==
    /\ pc \in [Requests -> Places]
    /\ token \in [Requests -> BOOLEAN] /\ settling \in [Requests -> BOOLEAN]
    /\ unclosed \subseteq Requests
    /\ op \in [Requests -> Ops] /\ passOp \in Ops
    /\ answer \in [Requests -> {"none", "busy", "closing", "passRunning",
                                "unfinished", "failed"} \cup Ended]
Types ==
    /\ Flags /\ Bounds /\ Calls
    /\ holders \subseteq Requests \cup {"pass", "cfg"}
    /\ activity \in Requests \cup {"idle", "cfg", "pass"}
    /\ closer \in {"out", "waiting", "closed"}
    /\ cfg \in {"out", "waiting", "asleep", "claimed", "busy"}
    /\ ppc \in {"out", "open", "closing", "decide", "exec", "driving", "settle"}

\* Whose the claim is.
Seats == /\ \A r \in Requests : r \in holders <=> pc[r] \in Holding
         /\ "cfg" \in holders <=> cfg \in {"claimed", "busy"}
         /\ PassHolds <=> ppc # "out"
         /\ PassHolds => holders = {"pass"}

\* Whose the activity is; a closing instance takes none.
Work == /\ \A r \in Requests : activity = r <=> pc[r] \in Working
        /\ activity = "cfg" <=> cfg = "busy"
        /\ activity = "pass" <=> ppc \in {"closing", "driving"}
        /\ accepting <=> closer = "out"
        /\ ClosedIsIdle

\* What is recorded of the pass and of the answers.
Record == /\ OpenPassRecorded
          /\ ppc \in {"exec", "driving", "settle"} => row
          /\ ppc \in {"exec", "settle"} => passOp # "open"
          /\ \A r \in Requests : /\ pc[r] \in {"begin", "ready", "driving", "noting"} /\ passOp = "open" => r \in unclosed
                                 /\ pc[r] \in {"noting", "done"} /\ answer[r] = "cancelled" => op[r] # "open"
          /\ stopped /\ PassHolds => passToken

TurnsInv == Types /\ Seats /\ Work /\ Record

LEMMA NamesDiffer == ASSUME TurnsAssumption PROVE \A r \in Requests : r # "pass" /\ r # "cfg" /\ r # "idle"
  BY DEF TurnsAssumption

LEMMA BoundsAreNumbers == ASSUME TurnsAssumption PROVE MaxPasses \in Nat /\ MaxCrashes \in Nat /\ MaxCloses \in Nat
  BY DEF TurnsAssumption

LEMMA InitTurns == ASSUME TurnsAssumption, Init PROVE TurnsInv
  <1>1. Types
    <2>1. Bounds
      BY BoundsAreNumbers DEF Init, Bounds
    <2>2. Calls
      BY DEF Init, Calls, Places, Ops, Ended
    <2> QED BY <2>1, <2>2 DEF Init, Types, Flags
  <1>2. Seats
    BY DEF Init, Seats, Holding, PassHolds
  <1>3. Work
    BY NamesDiffer DEF Init, Work, Working, ClosedIsIdle
  <1>4. Record
    BY DEF Init, Record, OpenPassRecorded, PassHolds
  <1> QED BY <1>1, <1>2, <1>3, <1>4 DEF TurnsInv

LEMMA CallKeeps == ASSUME TurnsAssumption, TurnsInv, NEW r \in Requests, Call(r) PROVE TurnsInv'
  <1>1. Types'
    BY DEF Call, At, TurnsInv, Types, Flags, Bounds, Calls, Places, passV, claimV, instV
  <1>2. Seats'
    BY DEF Call, At, TurnsInv, Types, Flags, Bounds, Calls, Seats, Holding, PassHolds, passV, claimV, instV
  <1>3. Work'
    BY DEF Call, At, TurnsInv, Types, Flags, Bounds, Calls, Work, Working, ClosedIsIdle, passV, claimV, instV
  <1>4. Record'
    BY DEF Call, At, TurnsInv, Types, Flags, Bounds, Calls, Record, OpenPassRecorded, PassHolds, passV, claimV, instV
  <1> QED BY <1>1, <1>2, <1>3, <1>4 DEF TurnsInv

LEMMA WaitForKeeps == ASSUME TurnsAssumption, TurnsInv, NEW r \in Requests, WaitFor(r) PROVE TurnsInv'
  <1>1. Types'
    <2>1. Flags'
      BY DEF WaitFor, At, passV, claimV, instV, turn, TurnsInv, Types, Flags
    <2>2. Bounds'
      BY DEF WaitFor, At, passV, claimV, instV, turn, TurnsInv, Types, Bounds
    <2>3. Calls'
      BY DEF WaitFor, At, passV, claimV, instV, turn, TurnsInv, Types, Calls, Places, Ops, Ended
    <2> QED BY <2>1, <2>2, <2>3 DEF WaitFor, At, passV, claimV, instV, turn, TurnsInv, Types
  <1>2. Seats'
    BY NamesDiffer DEF WaitFor, At, passV, claimV, instV, turn, TurnsInv, Types, Flags, Bounds, Calls, Seats, Holding, PassHolds
  <1>3. Work'
    BY NamesDiffer DEF WaitFor, At, passV, claimV, instV, turn, TurnsInv, Types, Flags, Bounds, Calls, Seats, Work, Working, Holding, ClosedIsIdle, PassHolds
  <1>4. Record'
    BY NamesDiffer DEF WaitFor, At, passV, claimV, instV, turn, TurnsInv, Types, Flags, Bounds, Calls, Seats, Holding, Record, OpenPassRecorded, PassHolds, Ops, Ended
  <1> QED BY <1>1, <1>2, <1>3, <1>4 DEF TurnsInv

LEMMA WaitCancelledKeeps == ASSUME TurnsAssumption, TurnsInv, NEW r \in Requests, WaitCancelled(r) PROVE TurnsInv'
  <1>1. Types'
    <2>1. Flags'
      BY DEF WaitCancelled, At, Return, Release, passV, claimV, instV, turn, TurnsInv, Types, Flags
    <2>2. Bounds'
      BY DEF WaitCancelled, At, Return, Release, passV, claimV, instV, turn, TurnsInv, Types, Bounds
    <2>3. Calls'
      <3>1. UNCHANGED <<token, unclosed, op, passOp>> /\ settling' \in [Requests -> BOOLEAN]
        BY DEF WaitCancelled, passV, TurnsInv, Types, Calls
      <3>2. pc' \in [Requests -> Places]
        BY DEF WaitCancelled, Return, Release, TurnsInv, Types, Calls, Places
      <3>3. answer' = answer \/ answer' = [answer EXCEPT ![r] = "cancelled"]
        BY DEF WaitCancelled, Return
      <3> QED BY <3>1, <3>2, <3>3 DEF TurnsInv, Types, Calls, Ended
    <2> QED BY <2>1, <2>2, <2>3 DEF WaitCancelled, At, Return, Release, passV, claimV, instV, turn, TurnsInv, Types
  <1>2. Seats'
    BY NamesDiffer DEF WaitCancelled, At, Return, Release, passV, claimV, instV, turn, TurnsInv, Types, Flags, Bounds, Calls, Seats, Holding, PassHolds
  <1>3. Work'
    BY NamesDiffer DEF WaitCancelled, At, Return, Release, passV, claimV, instV, turn, TurnsInv, Types, Flags, Bounds, Calls, Seats, Work, Working, Holding, ClosedIsIdle, PassHolds
  <1>4. Record'
    BY NamesDiffer DEF WaitCancelled, At, Return, Release, passV, claimV, instV, turn, TurnsInv, Types, Flags, Bounds, Calls, Seats, Holding, Record, OpenPassRecorded, PassHolds, Ops, Ended
  <1> QED BY <1>1, <1>2, <1>3, <1>4 DEF TurnsInv

LEMMA TimedOutKeeps == ASSUME TurnsAssumption, TurnsInv, NEW r \in Requests, TimedOut(r) PROVE TurnsInv'
  <1>1. Types'
    BY DEF TimedOut, At, Return, Release, passV, claimV, instV, turn, TurnsInv, Types, Flags, Bounds, Calls, Places, Ops, Ended
  <1>2. Seats'
    BY NamesDiffer DEF TimedOut, At, Return, Release, passV, claimV, instV, turn, TurnsInv, Types, Flags, Bounds, Calls, Seats, Holding, PassHolds
  <1>3. Work'
    BY NamesDiffer DEF TimedOut, At, Return, Release, passV, claimV, instV, turn, TurnsInv, Types, Flags, Bounds, Calls, Seats, Work, Working, Holding, ClosedIsIdle, PassHolds
  <1>4. Record'
    BY NamesDiffer DEF TimedOut, At, Return, Release, passV, claimV, instV, turn, TurnsInv, Types, Flags, Bounds, Calls, Seats, Holding, Record, OpenPassRecorded, PassHolds, Ops, Ended
  <1> QED BY <1>1, <1>2, <1>3, <1>4 DEF TurnsInv

LEMMA CancelActiveTurnKeeps == ASSUME TurnsAssumption, TurnsInv, CancelActiveTurn PROVE TurnsInv'
  <1>1. Types'
    BY DEF CancelActiveTurn, Active, passV, claimV, instV, turn, TurnsInv, Types, Flags, Bounds, Calls, Places, Ops, Ended
  <1>2. Seats'
    BY NamesDiffer DEF CancelActiveTurn, Active, passV, claimV, instV, turn, TurnsInv, Types, Flags, Bounds, Calls, Seats, Holding, PassHolds
  <1>3. Work'
    BY NamesDiffer DEF CancelActiveTurn, Active, passV, claimV, instV, turn, TurnsInv, Types, Flags, Bounds, Calls, Seats, Work, Working, Holding, ClosedIsIdle, PassHolds
  <1>4. Record'
    BY NamesDiffer DEF CancelActiveTurn, Active, passV, claimV, instV, turn, TurnsInv, Types, Flags, Bounds, Calls, Seats, Holding, Record, OpenPassRecorded, PassHolds, Ops, Ended
  <1> QED BY <1>1, <1>2, <1>3, <1>4 DEF TurnsInv

LEMMA CloseStaleKeeps == ASSUME TurnsAssumption, TurnsInv, NEW r \in Requests, CloseStale(r) PROVE TurnsInv'
  <1>1. Types'
    BY DEF CloseStale, At, BeginPrompt, passV, claimV, instV, turn, TurnsInv, Types, Flags, Bounds, Calls, Places, Ops, Ended
  <1>2. Seats'
    BY NamesDiffer DEF CloseStale, At, BeginPrompt, passV, claimV, instV, turn, TurnsInv, Types, Flags, Bounds, Calls, Seats, Holding, PassHolds
  <1>3. Work'
    BY NamesDiffer DEF CloseStale, At, BeginPrompt, passV, claimV, instV, turn, TurnsInv, Types, Flags, Bounds, Calls, Seats, Work, Working, Holding, ClosedIsIdle, PassHolds
  <1>4. Record'
    BY NamesDiffer DEF CloseStale, At, BeginPrompt, passV, claimV, instV, turn, TurnsInv, Types, Flags, Bounds, Calls, Seats, Holding, Record, OpenPassRecorded, PassHolds, Ops, Ended
  <1> QED BY <1>1, <1>2, <1>3, <1>4 DEF TurnsInv

LEMMA StaleSettledKeeps == ASSUME TurnsAssumption, TurnsInv, NEW r \in Requests, StaleSettled(r) PROVE TurnsInv'
  <1>1. Types'
    <2>1. Flags'
      BY DEF StaleSettled, PassClosed, At, passV, claimV, instV, turn, TurnsInv, Types, Flags
    <2>2. Bounds'
      BY DEF StaleSettled, PassClosed, At, passV, claimV, instV, turn, TurnsInv, Types, Bounds
    <2>3. Calls'
      BY DEF StaleSettled, PassClosed, At, passV, claimV, instV, turn, TurnsInv, Types, Calls, Places, Ops, Ended
    <2> QED BY <2>1, <2>2, <2>3 DEF StaleSettled, PassClosed, At, passV, claimV, instV, turn, TurnsInv, Types
  <1>2. Seats'
    BY NamesDiffer DEF StaleSettled, PassClosed, At, passV, claimV, instV, turn, TurnsInv, Types, Flags, Bounds, Calls, Seats, Holding, PassHolds
  <1>3. Work'
    BY NamesDiffer DEF StaleSettled, PassClosed, At, passV, claimV, instV, turn, TurnsInv, Types, Flags, Bounds, Calls, Seats, Work, Working, Holding, ClosedIsIdle, PassHolds
  <1>4. Record'
    BY NamesDiffer DEF StaleSettled, PassClosed, At, passV, claimV, instV, turn, TurnsInv, Types, Flags, Bounds, Calls, Seats, Holding, Record, OpenPassRecorded, PassHolds, Ops, Ended
  <1> QED BY <1>1, <1>2, <1>3, <1>4 DEF TurnsInv

LEMMA BeginKeeps == ASSUME TurnsAssumption, TurnsInv, NEW r \in Requests, Begin(r) PROVE TurnsInv'
  <1>1. Types'
    BY DEF Begin, At, BeginPrompt, Return, Release, passV, claimV, instV, turn, TurnsInv, Types, Flags, Bounds, Calls, Places, Ops, Ended
  <1>2. Seats'
    BY NamesDiffer DEF Begin, At, BeginPrompt, Return, Release, passV, claimV, instV, turn, TurnsInv, Types, Flags, Bounds, Calls, Seats, Holding, PassHolds
  <1>3. Work'
    BY NamesDiffer DEF Begin, At, BeginPrompt, Return, Release, passV, claimV, instV, turn, TurnsInv, Types, Flags, Bounds, Calls, Seats, Work, Working, Holding, ClosedIsIdle, PassHolds
  <1>4. Record'
    BY NamesDiffer DEF Begin, At, BeginPrompt, Return, Release, passV, claimV, instV, turn, TurnsInv, Types, Flags, Bounds, Calls, Seats, Holding, Record, OpenPassRecorded, PassHolds, Ops, Ended
  <1> QED BY <1>1, <1>2, <1>3, <1>4 DEF TurnsInv

LEMMA SubmitKeeps == ASSUME TurnsAssumption, TurnsInv, NEW r \in Requests, Submit(r) PROVE TurnsInv'
  <1>1. Types'
    BY DEF Submit, At, Replayed, Others, passV, claimV, instV, turn, TurnsInv, Types, Flags, Bounds, Calls, Places, Ops, Ended
  <1>2. Seats'
    BY NamesDiffer DEF Submit, At, Replayed, Others, passV, claimV, instV, turn, TurnsInv, Types, Flags, Bounds, Calls, Seats, Holding, PassHolds
  <1>3. Work'
    BY NamesDiffer DEF Submit, At, Replayed, Others, passV, claimV, instV, turn, TurnsInv, Types, Flags, Bounds, Calls, Seats, Work, Working, Holding, ClosedIsIdle, PassHolds
  <1>4. Record'
    BY NamesDiffer DEF Submit, At, Replayed, Others, passV, claimV, instV, turn, TurnsInv, Types, Flags, Bounds, Calls, Seats, Holding, Record, OpenPassRecorded, PassHolds, Ops, Ended
  <1> QED BY <1>1, <1>2, <1>3, <1>4 DEF TurnsInv

LEMMA ExecuteFailsKeeps == ASSUME TurnsAssumption, TurnsInv, NEW r \in Requests, ExecuteFails(r) PROVE TurnsInv'
  <1>1. Types'
    BY DEF ExecuteFails, At, passV, claimV, instV, turn, TurnsInv, Types, Flags, Bounds, Calls, Places, Ops, Ended
  <1>2. Seats'
    BY NamesDiffer DEF ExecuteFails, At, passV, claimV, instV, turn, TurnsInv, Types, Flags, Bounds, Calls, Seats, Holding, PassHolds
  <1>3. Work'
    BY NamesDiffer DEF ExecuteFails, At, passV, claimV, instV, turn, TurnsInv, Types, Flags, Bounds, Calls, Seats, Work, Working, Holding, ClosedIsIdle, PassHolds
  <1>4. Record'
    BY NamesDiffer DEF ExecuteFails, At, passV, claimV, instV, turn, TurnsInv, Types, Flags, Bounds, Calls, Seats, Holding, Record, OpenPassRecorded, PassHolds, Ops, Ended
  <1> QED BY <1>1, <1>2, <1>3, <1>4 DEF TurnsInv

LEMMA DriveKeeps == ASSUME TurnsAssumption, TurnsInv, NEW r \in Requests, Drive(r) PROVE TurnsInv'
  <1>1. Types'
    BY DEF Drive, At, passV, claimV, instV, turn, TurnsInv, Types, Flags, Bounds, Calls, Places, Ops, Ended
  <1>2. Seats'
    BY NamesDiffer DEF Drive, At, passV, claimV, instV, turn, TurnsInv, Types, Flags, Bounds, Calls, Seats, Holding, PassHolds
  <1>3. Work'
    BY NamesDiffer DEF Drive, At, passV, claimV, instV, turn, TurnsInv, Types, Flags, Bounds, Calls, Seats, Work, Working, Holding, ClosedIsIdle, PassHolds
  <1>4. Record'
    BY NamesDiffer DEF Drive, At, passV, claimV, instV, turn, TurnsInv, Types, Flags, Bounds, Calls, Seats, Holding, Record, OpenPassRecorded, PassHolds, Ops, Ended
  <1> QED BY <1>1, <1>2, <1>3, <1>4 DEF TurnsInv

LEMMA NoteKeeps == ASSUME TurnsAssumption, TurnsInv, NEW r \in Requests, Note(r) PROVE TurnsInv'
  <1>1. Types'
    BY DEF Note, At, Release, passV, claimV, instV, turn, TurnsInv, Types, Flags, Bounds, Calls, Places, Ops, Ended
  <1>2. Seats'
    BY NamesDiffer DEF Note, At, Release, passV, claimV, instV, turn, TurnsInv, Types, Flags, Bounds, Calls, Seats, Holding, PassHolds
  <1>3. Work'
    BY NamesDiffer DEF Note, At, Release, passV, claimV, instV, turn, TurnsInv, Types, Flags, Bounds, Calls, Seats, Work, Working, Holding, ClosedIsIdle, PassHolds
  <1>4. Record'
    BY NamesDiffer DEF Note, At, Release, passV, claimV, instV, turn, TurnsInv, Types, Flags, Bounds, Calls, Seats, Holding, Record, OpenPassRecorded, PassHolds, Ops, Ended
  <1> QED BY <1>1, <1>2, <1>3, <1>4 DEF TurnsInv

LEMMA CancelBeforeKeeps == ASSUME TurnsAssumption, TurnsInv, NEW r \in Requests, CancelBefore(r) PROVE TurnsInv'
  <1>1. Types'
    <2>1. Flags'
      BY DEF CancelBefore, At, passV, claimV, instV, turn, TurnsInv, Types, Flags
    <2>2. Bounds'
      BY DEF CancelBefore, At, passV, claimV, instV, turn, TurnsInv, Types, Bounds
    <2>3. Calls'
      <3>1. UNCHANGED <<settling, unclosed, op, passOp>> /\ token' \in [Requests -> BOOLEAN]
        BY DEF CancelBefore, passV, TurnsInv, Types, Calls
      <3>2. pc' \in [Requests -> Places]
        BY DEF CancelBefore, At, TurnsInv, Types, Calls, Places
      <3>3. answer' = answer \/ \E a \in Ended : answer' = [answer EXCEPT ![r] = a]
        BY DEF CancelBefore, TurnsInv, Types, Calls, Ops, Ended
      <3> QED BY <3>1, <3>2, <3>3 DEF TurnsInv, Types, Calls
    <2> QED BY <2>1, <2>2, <2>3 DEF CancelBefore, At, passV, claimV, instV, turn, TurnsInv, Types
  <1>2. Seats'
    BY NamesDiffer DEF CancelBefore, At, passV, claimV, instV, turn, TurnsInv, Types, Flags, Bounds, Calls, Seats, Holding, PassHolds
  <1>3. Work'
    BY NamesDiffer DEF CancelBefore, At, passV, claimV, instV, turn, TurnsInv, Types, Flags, Bounds, Calls, Seats, Work, Working, Holding, ClosedIsIdle, PassHolds
  <1>4. Record'
    BY NamesDiffer DEF CancelBefore, At, passV, claimV, instV, turn, TurnsInv, Types, Flags, Bounds, Calls, Seats, Holding, Record, OpenPassRecorded, PassHolds, Ops, Ended
  <1> QED BY <1>1, <1>2, <1>3, <1>4 DEF TurnsInv

LEMMA ConfigureKeeps == ASSUME TurnsAssumption, TurnsInv, Configure PROVE TurnsInv'
  <1>1. Types'
    <2>1. Flags'
      BY DEF Configure, passV, claimV, instV, turn, TurnsInv, Types, Flags
    <2>2. Bounds'
      BY DEF Configure, passV, claimV, instV, turn, TurnsInv, Types, Bounds
    <2>3. Calls'
      BY DEF Configure, passV, claimV, instV, turn, TurnsInv, Types, Calls, Places, Ops, Ended
    <2> QED BY <2>1, <2>2, <2>3 DEF Configure, passV, claimV, instV, turn, TurnsInv, Types
  <1>2. Seats'
    BY NamesDiffer DEF Configure, passV, claimV, instV, turn, TurnsInv, Types, Flags, Bounds, Calls, Seats, Holding, PassHolds
  <1>3. Work'
    BY NamesDiffer DEF Configure, passV, claimV, instV, turn, TurnsInv, Types, Flags, Bounds, Calls, Seats, Work, Working, Holding, ClosedIsIdle, PassHolds
  <1>4. Record'
    BY NamesDiffer DEF Configure, passV, claimV, instV, turn, TurnsInv, Types, Flags, Bounds, Calls, Seats, Holding, Record, OpenPassRecorded, PassHolds, Ops, Ended
  <1> QED BY <1>1, <1>2, <1>3, <1>4 DEF TurnsInv

LEMMA ConfigurationBeginsKeeps == ASSUME TurnsAssumption, TurnsInv, ConfigurationBegins PROVE TurnsInv'
  <1>1. Types'
    BY DEF ConfigurationBegins, BeginPrompt, passV, claimV, instV, turn, TurnsInv, Types, Flags, Bounds, Calls, Places, Ops, Ended
  <1>2. Seats'
    BY NamesDiffer DEF ConfigurationBegins, BeginPrompt, passV, claimV, instV, turn, TurnsInv, Types, Flags, Bounds, Calls, Seats, Holding, PassHolds
  <1>3. Work'
    BY NamesDiffer DEF ConfigurationBegins, BeginPrompt, passV, claimV, instV, turn, TurnsInv, Types, Flags, Bounds, Calls, Seats, Work, Working, Holding, ClosedIsIdle, PassHolds
  <1>4. Record'
    BY NamesDiffer DEF ConfigurationBegins, BeginPrompt, passV, claimV, instV, turn, TurnsInv, Types, Flags, Bounds, Calls, Seats, Holding, Record, OpenPassRecorded, PassHolds, Ops, Ended
  <1> QED BY <1>1, <1>2, <1>3, <1>4 DEF TurnsInv

LEMMA ConfigurationEndsKeeps == ASSUME TurnsAssumption, TurnsInv, ConfigurationEnds PROVE TurnsInv'
  <1>1. Types'
    BY DEF ConfigurationEnds, passV, claimV, instV, turn, TurnsInv, Types, Flags, Bounds, Calls, Places, Ops, Ended
  <1>2. Seats'
    BY NamesDiffer DEF ConfigurationEnds, passV, claimV, instV, turn, TurnsInv, Types, Flags, Bounds, Calls, Seats, Holding, PassHolds
  <1>3. Work'
    BY NamesDiffer DEF ConfigurationEnds, passV, claimV, instV, turn, TurnsInv, Types, Flags, Bounds, Calls, Seats, Work, Working, Holding, ClosedIsIdle, PassHolds
  <1>4. Record'
    BY NamesDiffer DEF ConfigurationEnds, passV, claimV, instV, turn, TurnsInv, Types, Flags, Bounds, Calls, Seats, Holding, Record, OpenPassRecorded, PassHolds, Ops, Ended
  <1> QED BY <1>1, <1>2, <1>3, <1>4 DEF TurnsInv

LEMMA CloseKeeps == ASSUME TurnsAssumption, TurnsInv, Close PROVE TurnsInv'
  <1>1. Types'
    <2>1. Flags'
      BY DEF Close, Active, passV, claimV, instV, turn, TurnsInv, Types, Flags
    <2>2. Bounds'
      BY BoundsAreNumbers DEF Close, Active, passV, claimV, instV, turn, TurnsInv, Types, Bounds
    <2>3. Calls'
      BY DEF Close, Active, passV, claimV, instV, turn, TurnsInv, Types, Calls, Places, Ops, Ended
    <2> QED BY <2>1, <2>2, <2>3 DEF Close, Active, passV, claimV, instV, turn, TurnsInv, Types
  <1>2. Seats'
    BY NamesDiffer DEF Close, Active, passV, claimV, instV, turn, TurnsInv, Types, Flags, Bounds, Calls, Seats, Holding, PassHolds
  <1>3. Work'
    BY NamesDiffer DEF Close, Active, passV, claimV, instV, turn, TurnsInv, Types, Flags, Bounds, Calls, Seats, Work, Working, Holding, ClosedIsIdle, PassHolds
  <1>4. Record'
    BY NamesDiffer DEF Close, Active, passV, claimV, instV, turn, TurnsInv, Types, Flags, Bounds, Calls, Seats, Holding, Record, OpenPassRecorded, PassHolds, Ops, Ended
  <1> QED BY <1>1, <1>2, <1>3, <1>4 DEF TurnsInv

LEMMA ClosedKeeps == ASSUME TurnsAssumption, TurnsInv, Closed PROVE TurnsInv'
  <1>1. Types'
    BY DEF Closed, passV, claimV, instV, turn, TurnsInv, Types, Flags, Bounds, Calls, Places, Ops, Ended
  <1>2. Seats'
    BY NamesDiffer DEF Closed, passV, claimV, instV, turn, TurnsInv, Types, Flags, Bounds, Calls, Seats, Holding, PassHolds
  <1>3. Work'
    BY NamesDiffer DEF Closed, passV, claimV, instV, turn, TurnsInv, Types, Flags, Bounds, Calls, Seats, Work, Working, Holding, ClosedIsIdle, PassHolds
  <1>4. Record'
    BY NamesDiffer DEF Closed, passV, claimV, instV, turn, TurnsInv, Types, Flags, Bounds, Calls, Seats, Holding, Record, OpenPassRecorded, PassHolds, Ops, Ended
  <1> QED BY <1>1, <1>2, <1>3, <1>4 DEF TurnsInv

LEMMA ReopenKeeps == ASSUME TurnsAssumption, TurnsInv, Reopen PROVE TurnsInv'
  <1>1. Types'
    BY DEF Reopen, passV, claimV, instV, turn, TurnsInv, Types, Flags, Bounds, Calls, Places, Ops, Ended
  <1>2. Seats'
    BY NamesDiffer DEF Reopen, passV, claimV, instV, turn, TurnsInv, Types, Flags, Bounds, Calls, Seats, Holding, PassHolds
  <1>3. Work'
    BY NamesDiffer DEF Reopen, passV, claimV, instV, turn, TurnsInv, Types, Flags, Bounds, Calls, Seats, Work, Working, Holding, ClosedIsIdle, PassHolds
  <1>4. Record'
    BY NamesDiffer DEF Reopen, passV, claimV, instV, turn, TurnsInv, Types, Flags, Bounds, Calls, Seats, Holding, Record, OpenPassRecorded, PassHolds, Ops, Ended
  <1> QED BY <1>1, <1>2, <1>3, <1>4 DEF TurnsInv

LEMMA PassOpensKeeps == ASSUME TurnsAssumption, TurnsInv, PassOpens PROVE TurnsInv'
  <1>1. Types'
    <2>1. Flags'
      BY DEF PassOpens, passV, claimV, instV, turn, TurnsInv, Types, Flags
    <2>2. Bounds'
      BY BoundsAreNumbers DEF PassOpens, passV, claimV, instV, turn, TurnsInv, Types, Bounds
    <2>3. Calls'
      BY DEF PassOpens, passV, claimV, instV, turn, TurnsInv, Types, Calls, Places, Ops, Ended
    <2> QED BY <2>1, <2>2, <2>3 DEF PassOpens, passV, claimV, instV, turn, TurnsInv, Types
  <1>2. Seats'
    BY NamesDiffer DEF PassOpens, passV, claimV, instV, turn, TurnsInv, Types, Flags, Bounds, Calls, Seats, Holding, PassHolds
  <1>3. Work'
    BY NamesDiffer DEF PassOpens, passV, claimV, instV, turn, TurnsInv, Types, Flags, Bounds, Calls, Seats, Work, Working, Holding, ClosedIsIdle, PassHolds
  <1>4. Record'
    BY NamesDiffer DEF PassOpens, passV, claimV, instV, turn, TurnsInv, Types, Flags, Bounds, Calls, Seats, Holding, Record, OpenPassRecorded, PassHolds, Ops, Ended
  <1> QED BY <1>1, <1>2, <1>3, <1>4 DEF TurnsInv

LEMMA PassClosesStaleKeeps == ASSUME TurnsAssumption, TurnsInv, PassClosesStale PROVE TurnsInv'
  <1>1. Types'
    BY DEF PassClosesStale, PassLeaves, Release, BeginPrompt, passV, claimV, instV, turn, TurnsInv, Types, Flags, Bounds, Calls, Places, Ops, Ended
  <1>2. Seats'
    BY NamesDiffer DEF PassClosesStale, PassLeaves, Release, BeginPrompt, passV, claimV, instV, turn, TurnsInv, Types, Flags, Bounds, Calls, Seats, Holding, PassHolds
  <1>3. Work'
    BY NamesDiffer DEF PassClosesStale, PassLeaves, Release, BeginPrompt, passV, claimV, instV, turn, TurnsInv, Types, Flags, Bounds, Calls, Seats, Work, Working, Holding, ClosedIsIdle, PassHolds
  <1>4. Record'
    BY NamesDiffer DEF PassClosesStale, PassLeaves, Release, BeginPrompt, passV, claimV, instV, turn, TurnsInv, Types, Flags, Bounds, Calls, Seats, Holding, Record, OpenPassRecorded, PassHolds, Ops, Ended
  <1> QED BY <1>1, <1>2, <1>3, <1>4 DEF TurnsInv

LEMMA PassStaleSettledKeeps == ASSUME TurnsAssumption, TurnsInv, PassStaleSettled PROVE TurnsInv'
  <1>1. Types'
    <2>1. Flags'
      BY DEF PassStaleSettled, PassClosed, PassLeaves, Release, passV, claimV, instV, turn, TurnsInv, Types, Flags
    <2>2. Bounds'
      BY DEF PassStaleSettled, PassClosed, PassLeaves, Release, passV, claimV, instV, turn, TurnsInv, Types, Bounds
    <2>3. Calls'
      BY DEF PassStaleSettled, PassClosed, PassLeaves, Release, passV, claimV, instV, turn, TurnsInv, Types, Calls, Places, Ops, Ended
    <2> QED BY <2>1, <2>2, <2>3 DEF PassStaleSettled, PassClosed, PassLeaves, Release, passV, claimV, instV, turn, TurnsInv, Types
  <1>2. Seats'
    BY NamesDiffer DEF PassStaleSettled, PassClosed, PassLeaves, Release, passV, claimV, instV, turn, TurnsInv, Types, Flags, Bounds, Calls, Seats, Holding, PassHolds
  <1>3. Work'
    BY NamesDiffer DEF PassStaleSettled, PassClosed, PassLeaves, Release, passV, claimV, instV, turn, TurnsInv, Types, Flags, Bounds, Calls, Seats, Work, Working, Holding, ClosedIsIdle, PassHolds
  <1>4. Record'
    BY NamesDiffer DEF PassStaleSettled, PassClosed, PassLeaves, Release, passV, claimV, instV, turn, TurnsInv, Types, Flags, Bounds, Calls, Seats, Holding, Record, OpenPassRecorded, PassHolds, Ops, Ended
  <1> QED BY <1>1, <1>2, <1>3, <1>4 DEF TurnsInv

LEMMA PassFreezesKeeps == ASSUME TurnsAssumption, TurnsInv, PassFreezes PROVE TurnsInv'
  <1>1. Types'
    <2>1. Flags'
      BY DEF PassFreezes, PassLeaves, Release, passV, claimV, instV, turn, TurnsInv, Types, Flags
    <2>2. Bounds'
      BY DEF PassFreezes, PassLeaves, Release, passV, claimV, instV, turn, TurnsInv, Types, Bounds
    <2>3. Calls'
      BY DEF PassFreezes, PassLeaves, Release, passV, claimV, instV, turn, TurnsInv, Types, Calls, Places, Ops, Ended
    <2> QED BY <2>1, <2>2, <2>3 DEF PassFreezes, PassLeaves, Release, passV, claimV, instV, turn, TurnsInv, Types
  <1>2. Seats'
    BY NamesDiffer DEF PassFreezes, PassLeaves, Release, passV, claimV, instV, turn, TurnsInv, Types, Flags, Bounds, Calls, Seats, Holding, PassHolds
  <1>3. Work'
    BY NamesDiffer DEF PassFreezes, PassLeaves, Release, passV, claimV, instV, turn, TurnsInv, Types, Flags, Bounds, Calls, Seats, Work, Working, Holding, ClosedIsIdle, PassHolds
  <1>4. Record'
    BY NamesDiffer DEF PassFreezes, PassLeaves, Release, passV, claimV, instV, turn, TurnsInv, Types, Flags, Bounds, Calls, Seats, Holding, Record, OpenPassRecorded, PassHolds, Ops, Ended
  <1> QED BY <1>1, <1>2, <1>3, <1>4 DEF TurnsInv

LEMMA PassAdmittedKeeps == ASSUME TurnsAssumption, TurnsInv, PassAdmitted PROVE TurnsInv'
  <1>1. Types'
    BY DEF PassAdmitted, PassLeaves, Release, BeginPrompt, passV, claimV, instV, turn, TurnsInv, Types, Flags, Bounds, Calls, Places, Ops, Ended
  <1>2. Seats'
    BY NamesDiffer DEF PassAdmitted, PassLeaves, Release, BeginPrompt, passV, claimV, instV, turn, TurnsInv, Types, Flags, Bounds, Calls, Seats, Holding, PassHolds
  <1>3. Work'
    BY NamesDiffer DEF PassAdmitted, PassLeaves, Release, BeginPrompt, passV, claimV, instV, turn, TurnsInv, Types, Flags, Bounds, Calls, Seats, Work, Working, Holding, ClosedIsIdle, PassHolds
  <1>4. Record'
    BY NamesDiffer DEF PassAdmitted, PassLeaves, Release, BeginPrompt, passV, claimV, instV, turn, TurnsInv, Types, Flags, Bounds, Calls, Seats, Holding, Record, OpenPassRecorded, PassHolds, Ops, Ended
  <1> QED BY <1>1, <1>2, <1>3, <1>4 DEF TurnsInv

LEMMA PassDrivenKeeps == ASSUME TurnsAssumption, TurnsInv, PassDriven PROVE TurnsInv'
  <1>1. Types'
    BY DEF PassDriven, passV, claimV, instV, turn, TurnsInv, Types, Flags, Bounds, Calls, Places, Ops, Ended
  <1>2. Seats'
    BY NamesDiffer DEF PassDriven, passV, claimV, instV, turn, TurnsInv, Types, Flags, Bounds, Calls, Seats, Holding, PassHolds
  <1>3. Work'
    BY NamesDiffer DEF PassDriven, passV, claimV, instV, turn, TurnsInv, Types, Flags, Bounds, Calls, Seats, Work, Working, Holding, ClosedIsIdle, PassHolds
  <1>4. Record'
    BY NamesDiffer DEF PassDriven, passV, claimV, instV, turn, TurnsInv, Types, Flags, Bounds, Calls, Seats, Holding, Record, OpenPassRecorded, PassHolds, Ops, Ended
  <1> QED BY <1>1, <1>2, <1>3, <1>4 DEF TurnsInv

LEMMA PassFailsKeeps == ASSUME TurnsAssumption, TurnsInv, PassFails PROVE TurnsInv'
  <1>1. Types'
    <2>1. Flags'
      BY DEF PassFails, PassLeaves, Release, passV, claimV, instV, turn, TurnsInv, Types, Flags
    <2>2. Bounds'
      BY DEF PassFails, PassLeaves, Release, passV, claimV, instV, turn, TurnsInv, Types, Bounds
    <2>3. Calls'
      BY DEF PassFails, PassLeaves, Release, passV, claimV, instV, turn, TurnsInv, Types, Calls, Places, Ops, Ended
    <2> QED BY <2>1, <2>2, <2>3 DEF PassFails, PassLeaves, Release, passV, claimV, instV, turn, TurnsInv, Types
  <1>2. Seats'
    BY NamesDiffer DEF PassFails, PassLeaves, Release, passV, claimV, instV, turn, TurnsInv, Types, Flags, Bounds, Calls, Seats, Holding, PassHolds
  <1>3. Work'
    BY NamesDiffer DEF PassFails, PassLeaves, Release, passV, claimV, instV, turn, TurnsInv, Types, Flags, Bounds, Calls, Seats, Work, Working, Holding, ClosedIsIdle, PassHolds
  <1>4. Record'
    BY NamesDiffer DEF PassFails, PassLeaves, Release, passV, claimV, instV, turn, TurnsInv, Types, Flags, Bounds, Calls, Seats, Holding, Record, OpenPassRecorded, PassHolds, Ops, Ended
  <1> QED BY <1>1, <1>2, <1>3, <1>4 DEF TurnsInv

LEMMA PassSettlesKeeps == ASSUME TurnsAssumption, TurnsInv, PassSettles PROVE TurnsInv'
  <1>1. Types'
    <2>1. Flags'
      BY DEF PassSettles, PassLeaves, Release, passV, claimV, instV, turn, TurnsInv, Types, Flags
    <2>2. Bounds'
      BY DEF PassSettles, PassLeaves, Release, passV, claimV, instV, turn, TurnsInv, Types, Bounds
    <2>3. Calls'
      BY DEF PassSettles, PassLeaves, Release, passV, claimV, instV, turn, TurnsInv, Types, Calls, Places, Ops, Ended
    <2> QED BY <2>1, <2>2, <2>3 DEF PassSettles, PassLeaves, Release, passV, claimV, instV, turn, TurnsInv, Types
  <1>2. Seats'
    BY NamesDiffer DEF PassSettles, PassLeaves, Release, passV, claimV, instV, turn, TurnsInv, Types, Flags, Bounds, Calls, Seats, Holding, PassHolds
  <1>3. Work'
    BY NamesDiffer DEF PassSettles, PassLeaves, Release, passV, claimV, instV, turn, TurnsInv, Types, Flags, Bounds, Calls, Seats, Work, Working, Holding, ClosedIsIdle, PassHolds
  <1>4. Record'
    BY NamesDiffer DEF PassSettles, PassLeaves, Release, passV, claimV, instV, turn, TurnsInv, Types, Flags, Bounds, Calls, Seats, Holding, Record, OpenPassRecorded, PassHolds, Ops, Ended
  <1> QED BY <1>1, <1>2, <1>3, <1>4 DEF TurnsInv

LEMMA StopPassesKeeps == ASSUME TurnsAssumption, TurnsInv, StopPasses PROVE TurnsInv'
  <1>1. Types'
    BY DEF StopPasses, passV, claimV, instV, turn, TurnsInv, Types, Flags, Bounds, Calls, Places, Ops, Ended
  <1>2. Seats'
    BY NamesDiffer DEF StopPasses, passV, claimV, instV, turn, TurnsInv, Types, Flags, Bounds, Calls, Seats, Holding, PassHolds
  <1>3. Work'
    BY NamesDiffer DEF StopPasses, passV, claimV, instV, turn, TurnsInv, Types, Flags, Bounds, Calls, Seats, Work, Working, Holding, ClosedIsIdle, PassHolds
  <1>4. Record'
    BY NamesDiffer DEF StopPasses, passV, claimV, instV, turn, TurnsInv, Types, Flags, Bounds, Calls, Seats, Holding, Record, OpenPassRecorded, PassHolds, Ops, Ended
  <1> QED BY <1>1, <1>2, <1>3, <1>4 DEF TurnsInv

LEMMA CrashKeeps == ASSUME TurnsAssumption, TurnsInv, Crash PROVE TurnsInv'
  <1>1. Types'
    <2>1. Flags'
      BY DEF Crash, passV, claimV, instV, turn, TurnsInv, Types, Flags
    <2>2. Bounds'
      BY BoundsAreNumbers DEF Crash, passV, claimV, instV, turn, TurnsInv, Types, Bounds
    <2>3. Calls'
      BY DEF Crash, passV, claimV, instV, turn, TurnsInv, Types, Calls, Places, Ops, Ended
    <2> QED BY <2>1, <2>2, <2>3 DEF Crash, passV, claimV, instV, turn, TurnsInv, Types
  <1>2. Seats'
    BY NamesDiffer DEF Crash, passV, claimV, instV, turn, TurnsInv, Types, Flags, Bounds, Calls, Seats, Holding, PassHolds
  <1>3. Work'
    BY NamesDiffer DEF Crash, passV, claimV, instV, turn, TurnsInv, Types, Flags, Bounds, Calls, Seats, Work, Working, Holding, ClosedIsIdle, PassHolds
  <1>4. Record'
    BY NamesDiffer DEF Crash, passV, claimV, instV, turn, TurnsInv, Types, Flags, Bounds, Calls, Seats, Holding, Record, OpenPassRecorded, PassHolds, Ops, Ended
  <1> QED BY <1>1, <1>2, <1>3, <1>4 DEF TurnsInv

LEMMA StutterTurns == ASSUME TurnsInv, UNCHANGED vars PROVE TurnsInv'
  <1> USE DEF vars, turn, passV, claimV, instV, TurnsInv
  <1>1. Types'
    BY DEF Types, Flags, Bounds, Calls
  <1>2. Seats' /\ Work'
    BY DEF Seats, Work, PassHolds, ClosedIsIdle
  <1>3. Record'
    BY DEF Record, OpenPassRecorded, PassHolds
  <1> QED BY <1>1, <1>2, <1>3

LEMMA StepKeeps == ASSUME TurnsAssumption, TurnsInv, [Next]_vars PROVE TurnsInv'
  <1>1. CASE \E r \in Requests : Step(r)
    <2> PICK r \in Requests : Step(r)
      BY <1>1
    <2> QED BY CallKeeps, WaitForKeeps, CloseStaleKeeps, StaleSettledKeeps, BeginKeeps, SubmitKeeps,
               DriveKeeps, NoteKeeps DEF Step
  <1>2. CASE \E r \in Requests : WaitCancelled(r) \/ TimedOut(r) \/ ExecuteFails(r) \/ CancelBefore(r)
    BY <1>2, WaitCancelledKeeps, TimedOutKeeps, ExecuteFailsKeeps, CancelBeforeKeeps
  <1>3. CASE CancelActiveTurn \/ Configure \/ ConfigurationBegins \/ ConfigurationEnds
    BY <1>3, CancelActiveTurnKeeps, ConfigureKeeps, ConfigurationBeginsKeeps, ConfigurationEndsKeeps
  <1>4. CASE Close \/ Closed \/ Reopen \/ PassOpens \/ PassFails \/ StopPasses \/ Crash
    BY <1>4, PassFailsKeeps, CloseKeeps, ClosedKeeps, ReopenKeeps, PassOpensKeeps, StopPassesKeeps, CrashKeeps
  <1>5. CASE PassStep
    BY <1>5, PassClosesStaleKeeps, PassStaleSettledKeeps, PassFreezesKeeps, PassAdmittedKeeps, PassDrivenKeeps,
       PassSettlesKeeps DEF PassStep
  <1>6. CASE UNCHANGED vars
    BY <1>6, StutterTurns
  <1> QED BY <1>1, <1>2, <1>3, <1>4, <1>5, <1>6 DEF Next

\* One activity, so at most one request past begin_prompt.
LEMMA InvOneDriver == ASSUME TurnsAssumption, TurnsInv PROVE OneDriver
  <1> DEFINE W == {r \in Requests : pc[r] \in {"closing", "ready", "driving"}}
  <1>1. \A r \in W : activity = r
    BY DEF TurnsInv, Work, Working
  <1>2. CASE W = {}
    BY <1>2, FS_EmptySet DEF OneDriver
  <1>3. CASE W # {}
    <2>1. W = {activity}
      BY <1>1, <1>3
    <2>2. Cardinality(W) = 1
      BY <2>1, FS_Singleton
    <2> QED BY <2>2 DEF OneDriver
  <1> QED BY <1>2, <1>3

LEMMA InvTurnsSafe == ASSUME TurnsAssumption, TurnsInv PROVE TurnsSafe
  <1>1. TypeOK
    <2>1. {stopped, passToken, accepting, row} \subseteq BOOLEAN
      BY DEF TurnsInv, Types, Flags
    <2>2. passes \in 0..MaxPasses /\ crashes \in 0..MaxCrashes /\ closes \in 0..MaxCloses
      BY BoundsAreNumbers DEF TurnsInv, Types, Bounds
    <2> QED BY <2>1, <2>2 DEF TypeOK, TurnsInv, Types, Calls
  <1>2. CancelledIsOver /\ StalePassBlocks /\ OpenPassRecorded
    BY DEF TurnsInv, Record, CancelledIsOver, StalePassBlocks
  <1>3. PassAlone
    <2> SUFFICES ASSUME PassHolds
                 PROVE  holders = {"pass"} /\ \A r \in Requests : pc[r] \in {"out", "waiting", "asleep", "done"}
      BY DEF PassAlone
    <2>1. holders = {"pass"}
      BY DEF TurnsInv, Seats
    <2>2. \A r \in Requests : pc[r] \in Places /\ pc[r] \notin Holding
      BY <2>1, NamesDiffer DEF TurnsInv, Types, Calls, Seats
    <2> QED BY <2>1, <2>2 DEF Places, Holding
  <1>4. ClosedIsIdle /\ StoppedPasses
    BY DEF TurnsInv, Work, Seats, Record, StoppedPasses
  <1> QED BY <1>1, <1>2, <1>3, <1>4, InvOneDriver DEF TurnsSafe

(***************************************************************************)
(* For any requests, passes, closes and process stops: a note pass has its *)
(* session to itself, one request at a time drives the kernel, a cancelled *)
(* answer leaves nothing running, a pass left open is on record and is     *)
(* closed before a message is refused for it unless closing it failed, and *)
(* a closed or stopped session runs nothing.                               *)
(***************************************************************************)
THEOREM SessionsServeOneAtATime == ASSUME TurnsAssumption PROVE Spec => []TurnsSafe
  <1>1. Init => TurnsInv
    BY InitTurns
  <1>2. TurnsInv /\ [Next]_vars => TurnsInv'
    BY StepKeeps
  <1>3. TurnsInv => TurnsSafe
    BY InvTurnsSafe
  <1> QED BY <1>1, <1>2, <1>3, PTL DEF Spec

(***************************************************************************)
(* A pass that a stopped process left is never finished by a later start:  *)
(* its command completes in the drive of the run that froze it.            *)
(***************************************************************************)
THEOREM PassesAreNotResumed == ASSUME TurnsAssumption PROVE Spec => [][NeverResumed]_vars
  <1>1. TurnsInv /\ [Next]_vars => [NeverResumed]_vars
    <2> SUFFICES ASSUME TurnsInv, Next, passOp # "completed", passOp' = "completed"
                 PROVE  ppc = "driving"
      BY DEF NeverResumed
    <2>1. CASE \E r \in Requests : Step(r) \/ WaitCancelled(r) \/ TimedOut(r) \/ ExecuteFails(r) \/ CancelBefore(r)
      BY <2>1 DEF Step, Call, WaitFor, CloseStale, StaleSettled, Begin, Submit, Drive, Note, WaitCancelled, TimedOut,
                  ExecuteFails, CancelBefore, PassClosed, passV
    <2>2. CASE CancelActiveTurn \/ Configure \/ ConfigurationBegins \/ ConfigurationEnds \/ Close \/ Closed \/ Reopen
               \/ PassOpens \/ PassFails \/ StopPasses \/ Crash
      BY <2>2 DEF CancelActiveTurn, Configure, ConfigurationBegins, ConfigurationEnds, Close, Closed, Reopen, PassOpens,
                  PassFails, StopPasses, Crash, passV
    <2>3. CASE PassStep
      BY <2>3 DEF PassStep, PassClosesStale, PassStaleSettled, PassFreezes, PassAdmitted, PassDriven, PassSettles,
                  PassClosed, passV
    <2> QED BY <2>1, <2>2, <2>3 DEF Next
  <1>2. Init => TurnsInv
    BY InitTurns
  <1>3. TurnsInv /\ [Next]_vars => TurnsInv'
    BY StepKeeps
  <1> QED BY <1>1, <1>2, <1>3, PTL DEF Spec
=============================================================================
