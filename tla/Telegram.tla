------------------------------ MODULE Telegram ------------------------------
(***************************************************************************)
(* The Telegram surface (crates/renoa-telegram): the poller that admits     *)
(* updates and asks for stops, the worker that runs turns and delivers      *)
(* their results in chunks, and the setup links sent during a turn.  The    *)
(* updates are numbered in Telegram's order.                                *)
(***************************************************************************)
EXTENDS Integers, Sequences, FiniteSets, FiniteSetsExt

CONSTANTS
    Topics,
    Kinds,      \* what the owner sends: prompt, new, cancel, stopped (a draft), notice, ignored
    WithLinks,  \* TRUE when turns send a setup link
    MaxUpdates, \* bound: updates
    MaxChunks,  \* bound: chunks of a result
    MaxFaults   \* bound: crashes and failed sends

TelegramAssumption ==
    /\ Kinds \subseteq {"prompt", "new", "cancel", "stopped", "notice", "ignored"} /\ WithLinks \in BOOLEAN
    /\ MaxUpdates \in Nat /\ MaxChunks \in Nat \ {0} /\ MaxFaults \in Nat

VARIABLES
    sent,    \* Telegram: the updates
    next,    \* surface_identity.next_update_id
    upd,     \* updates: state, session, cancel, cursor, chunks
    conv,    \* conversations: the session of each topic, 0 for none
    link,    \* surface_actions of each update: state and whether the URL is there
    poll,    \* poller: the update whose stop is still to be applied, or 0
    work,    \* worker: what it does and with which update
    active,  \* ActiveTurn: the update and its token
    wake,    \* Notify: a permit
    turn,    \* the Host: how far each turn is
    posted,  \* Telegram: how often each chunk, and the link (chunk 0), was posted
    faults

vars == <<sent, next, upd, conv, link, poll, work, active, wake, turn, posted, faults>>

Updates == 1..Len(sent)
Runs(u) == sent[u].kind = "prompt"
Idle == [at |-> "idle", u |-> 0]
Nobody == [u |-> 0, stop |-> FALSE]
Fault == faults < MaxFaults /\ faults' = faults + 1
Set(u, state) == [upd EXCEPT ![u].state = state]

Init ==
    /\ sent = <<>> /\ next = 1 /\ upd = <<>> /\ conv = [t \in Topics |-> 0] /\ link = <<>> /\ poll = 0
    /\ work = Idle /\ active = Nobody /\ wake = FALSE /\ turn = <<>> /\ posted = <<>> /\ faults = 0

(* A draft can be stopped from when its turn showed it; the update may come *)
(* after that turn is over.                                                 *)
Drafts(t, k) == IF k = "stopped" THEN {u \in Updates : sent[u].topic = t /\ turn[u] = "started"} ELSE {0}
Send(t, k, draft) ==
    /\ Len(sent) < MaxUpdates
    /\ sent' = Append(sent, [topic |-> t, kind |-> k, draft |-> draft])
    /\ upd' = Append(upd, [state |-> "none", session |-> 0, cancel |-> FALSE, cursor |-> 0, chunks |-> 0])
    /\ link' = Append(link, [state |-> "none", url |-> FALSE]) /\ turn' = Append(turn, "none")
    /\ posted' = Append(posted, [c \in 0..MaxChunks |-> 0])
    /\ UNCHANGED <<next, conv, poll, work, active, wake, faults>>
-----------------------------------------------------------------------------
(* The poller *)

(* request_cancellation: the running turn of the topic, else the first      *)
(* queued one; of a stopped draft only the turn that showed it.             *)
Target(t, draft) ==
    LET runs == {u \in Updates : /\ sent[u].topic = t /\ Runs(u) /\ draft \in {0, u}
                                 /\ upd[u].state \in {"running", "queued"}}
        running == {u \in runs : upd[u].state = "running"} IN
    IF runs = {} THEN 0 ELSE IF running # {} THEN Min(running) ELSE Min(runs)

(* replace_conversation, require_conversation *)
Fresh == Max({0} \cup {upd[u].session : u \in Updates}) + 1
Conversation(u) == IF conv[sent[u].topic] = 0 \/ sent[u].kind = "new" THEN Fresh ELSE conv[sent[u].topic]

(* admit: one transaction; an update that came before only moves the offset.*)
AdvanceOffset(u) == Max({next, u + 1})
Duplicate(u) == upd[u].state # "none"
Admit(u) ==
    LET k == sent[u].kind
        queued == k \notin {"stopped", "ignored"}
        target == IF k \in {"cancel", "stopped"} THEN Target(sent[u].topic, sent[u].draft) ELSE 0
        session == IF queued THEN Conversation(u) ELSE 0 IN
    /\ poll = 0 /\ u <= next /\ next' = AdvanceOffset(u)
    /\ IF Duplicate(u) THEN UNCHANGED <<upd, conv, poll, wake>>
       ELSE /\ upd' = [v \in Updates |->
                  CASE v = u -> [state |-> IF queued THEN "queued" ELSE "ignored", session |-> session,
                                 cancel |-> FALSE, cursor |-> 0, chunks |-> 0]
                    [] v # u /\ v = target -> [upd[v] EXCEPT !.cancel = TRUE]
                    [] OTHER -> upd[v]]
            /\ conv' = IF session = 0 THEN conv ELSE [conv EXCEPT ![sent[u].topic] = session]
            /\ poll' = target /\ wake' = (wake \/ queued)
    /\ UNCHANGED <<sent, link, work, active, turn, posted, faults>>

ApplyImmediate ==
    /\ poll # 0 /\ poll' = 0
    /\ active' = IF active.u = poll THEN [active EXCEPT !.stop = TRUE] ELSE active
    /\ UNCHANGED <<sent, next, upd, conv, link, work, wake, turn, posted, faults>>
-----------------------------------------------------------------------------
(* The worker *)

(* next_action, with mark_running or mark_delivering; without work the      *)
(* worker waits for the permit.                                             *)
Waiting == {u \in Updates : upd[u].state \in {"queued", "ready"}}
NextAction ==
    /\ work.at = "idle" /\ Waiting # {}
    /\ LET u == Min(Waiting) IN
       IF upd[u].state = "queued" THEN upd' = Set(u, "running") /\ work' = [at |-> "begin", u |-> u]
       ELSE upd' = Set(u, "delivering") /\ work' = [at |-> "send", u |-> u]
    /\ UNCHANGED <<sent, next, conv, link, poll, active, wake, turn, posted, faults>>
Sleep ==
    /\ work.at = "idle" /\ Waiting = {} /\ work' = [work EXCEPT !.at = "asleep"]
    /\ UNCHANGED <<sent, next, upd, conv, link, poll, active, wake, turn, posted, faults>>
Woken == wake
Awake ==
    /\ work.at = "asleep" /\ Woken /\ wake' = FALSE /\ work' = Idle
    /\ UNCHANGED <<sent, next, upd, conv, link, poll, active, turn, posted, faults>>

(* set_result: the URLs of the links are scrubbed with it.                  *)
Scrubbed(u) == [link EXCEPT ![u].url = FALSE]
SetResult(u, n) ==
    /\ upd' = [upd EXCEPT ![u].state = "ready", ![u].chunks = n] /\ link' = Scrubbed(u) /\ work' = Idle

Execute ==
    /\ work.at = "begin" /\ ~Runs(work.u) /\ SetResult(work.u, 1)
    /\ UNCHANGED <<sent, next, conv, poll, active, wake, turn, posted, faults>>

(* run_agent registers the token, then looks at the stored request to stop. *)
Registered == "registered"
RunAgent ==
    /\ work.at = "begin" /\ Runs(work.u)
    /\ active' = [u |-> work.u, stop |-> FALSE] /\ work' = [work EXCEPT !.at = Registered]
    /\ UNCHANGED <<sent, next, upd, conv, link, poll, wake, turn, posted, faults>>
Stored == [u |-> work.u, stop |-> active.stop \/ upd[work.u].cancel]
CancellationRequested ==
    /\ work.at = Registered /\ active' = Stored /\ work' = [work EXCEPT !.at = "cancellable"]
    /\ UNCHANGED <<sent, next, upd, conv, link, poll, wake, turn, posted, faults>>
(* cancelled_result: the Host cancels a turn that has not begun; one whose  *)
(* session does not open is answered with the error.                        *)
StartTurn ==
    LET u == work.u
        cancelled == active.stop /\ turn[u] = "none" IN
    /\ work.at = "cancellable"
    /\ \/ /\ cancelled /\ turn' = [turn EXCEPT ![u] = "stopped"]
          /\ work' = [work EXCEPT !.at = "ended"] /\ UNCHANGED faults
       \/ /\ ~cancelled /\ turn' = [turn EXCEPT ![u] = IF @ = "none" THEN "started" ELSE @]
          /\ work' = [work EXCEPT !.at = "run"] /\ UNCHANGED faults
       \/ ~cancelled /\ Fault /\ work' = [work EXCEPT !.at = "ended"] /\ UNCHANGED turn
    /\ UNCHANGED <<sent, next, upd, conv, link, poll, active, wake, posted>>
(* A started turn ends, stopped when it is asked to; a turn that ended      *)
(* before a crash returns what it returned.                                 *)
TurnEnds ==
    LET u == work.u IN
    /\ work.at = "run"
    /\ turn' = [turn EXCEPT ![u] = CASE @ # "started" -> @ [] @ = "started" /\ active.stop -> "stopped" [] OTHER -> "completed"]
    /\ work' = [work EXCEPT !.at = "ended"]
    /\ UNCHANGED <<sent, next, upd, conv, link, poll, active, wake, posted, faults>>
EndTurn ==
    /\ work.at = "ended" /\ active' = Nobody
    /\ \E n \in 1..MaxChunks : SetResult(work.u, n)
    /\ UNCHANGED <<sent, next, conv, poll, wake, turn, posted, faults>>
-----------------------------------------------------------------------------
(* Deliveries *)

Posted(u, c) == [posted EXCEPT ![u][c] = @ + 1]

(* A send is answered, deferred by a rate limit, refused, or lost: then it  *)
(* may have been posted.                                                    *)
MarkChunkDelivered(u) ==
    [upd EXCEPT ![u].cursor = @ + 1, ![u].state = IF upd[u].cursor + 1 = upd[u].chunks THEN "delivered" ELSE "ready"]
Deliver ==
    LET u == work.u
        c == upd[u].cursor + 1 IN
    /\ work.at = "send" /\ work' = Idle
    /\ \/ upd' = MarkChunkDelivered(u) /\ posted' = Posted(u, c) /\ UNCHANGED faults
       \/ upd' = Set(u, "ready") /\ Fault /\ UNCHANGED posted
       \/ upd' = Set(u, "delivery_failed") /\ Fault /\ UNCHANGED posted
       \/ upd' = Set(u, "delivery_unknown") /\ Fault /\ posted' \in {posted, Posted(u, c)}
    /\ UNCHANGED <<sent, next, conv, link, poll, active, wake, turn>>

(* actions::deliver, from the events of the running turn.                   *)
BeginPending(u) == link[u].state \in {"none", "pending"}
BeginAction ==
    LET u == work.u IN
    /\ WithLinks /\ work.at = "run" /\ turn[u] = "started" /\ BeginPending(u)
    /\ link' = [link EXCEPT ![u] = [state |-> "delivering", url |-> TRUE]] /\ work' = [work EXCEPT !.at = "action"]
    /\ UNCHANGED <<sent, next, upd, conv, poll, active, wake, turn, posted, faults>>
ActionDelivered ==
    LET u == work.u
        To(s) == link' = [link EXCEPT ![u].state = s] IN
    /\ work.at = "action" /\ work' = [work EXCEPT !.at = "run"]
    /\ \/ To("delivered") /\ posted' = Posted(u, 0) /\ UNCHANGED faults
       \/ To("pending") /\ Fault /\ UNCHANGED posted
       \/ To("failed") /\ Fault /\ UNCHANGED posted
       \/ To("unknown") /\ Fault /\ posted' \in {posted, Posted(u, 0)}
    /\ UNCHANGED <<sent, next, upd, conv, poll, active, wake, turn>>

(* recover: what ran is queued again, what was on its way is unknown.       *)
Recovered(u) == CASE upd[u].state = "running" -> "queued" [] upd[u].state = "delivering" -> "delivery_unknown" [] OTHER -> upd[u].state
Restart ==
    /\ Fault
    /\ posted' \in {posted} \cup (CASE work.at = "send" -> {Posted(work.u, upd[work.u].cursor + 1)}
                                [] work.at = "action" -> {Posted(work.u, 0)} [] OTHER -> {})
    /\ upd' = [u \in Updates |-> [upd[u] EXCEPT !.state = Recovered(u)]]
    /\ link' = [u \in Updates |-> [state |-> IF link[u].state = "delivering" THEN "unknown" ELSE link[u].state,
                                   url |-> link[u].url /\ Recovered(u) = "queued"]]
    /\ poll' = 0 /\ work' = Idle /\ active' = Nobody /\ wake' = FALSE
    /\ UNCHANGED <<sent, next, conv, turn>>

Work ==
    \/ (\E u \in Updates : u = next /\ Admit(u)) \/ ApplyImmediate \/ NextAction \/ Sleep \/ Awake \/ Execute
    \/ RunAgent \/ CancellationRequested \/ StartTurn \/ TurnEnds \/ EndTurn \/ Deliver \/ ActionDelivered
Next == (\E t \in Topics, k \in Kinds : \E draft \in Drafts(t, k) : Send(t, k, draft)) \/ (\E u \in Updates : Admit(u)) \/ Work \/ BeginAction \/ Restart
(* The poller and the worker go on.                                         *)
Spec == Init /\ [][Next]_vars /\ WF_vars(Work) /\ WF_vars(\E u \in Updates : u = next /\ Admit(u)) /\ WF_vars(ApplyImmediate)
-----------------------------------------------------------------------------
(* Types; the worker holds the one update that is running or delivering.    *)
TypeOK ==
    /\ next \in 1..(Len(sent) + 1)
    /\ \A u \in Updates : /\ upd[u].state \in {"running", "delivering"} => work.u = u
                          /\ upd[u].cursor <= upd[u].chunks /\ (u < next <=> upd[u].state # "none")

(* A turn the owner asked to stop has its token cancelled as soon as the    *)
(* poller is done, wherever the worker was when the request came; a stop    *)
(* that comes late, of a draft whose turn is over, stops no other turn.     *)
StopReaches ==
    /\ \A u \in Updates : upd[u].cancel /\ poll # u /\ work = [at |-> "run", u |-> u] => active = [u |-> u, stop |-> TRUE]
    /\ active.stop => \E w \in Updates : sent[w].topic = sent[active.u].topic
                                         /\ (sent[w].kind = "cancel" \/ sent[w].draft = active.u)

(* Chunks and links are posted once and in order.                           *)
PostedOnce ==
    \A u \in Updates, c \in 0..MaxChunks :
        posted[u][c] <= 1 /\ (c > 1 /\ posted[u][c] = 1 => posted[u][c - 1] = 1)

(* The URL of a setup link is gone when its turn is over.                   *)
LinksScrubbed == \A u \in Updates : link[u].url => upd[u].state \in {"queued", "running"}

(* Two messages of a topic share a session exactly when no /new is between. *)
SessionsFollowNew ==
    \A u, v \in Updates : u < v /\ sent[u].topic = sent[v].topic /\ upd[u].session # 0 /\ upd[v].session # 0 =>
        (upd[u].session = upd[v].session <=> ~\E w \in (u + 1)..v : sent[w].topic = sent[v].topic /\ sent[w].kind = "new")

(* Every message is answered, or its delivery is known to have failed.      *)
EveryoneAnswered ==
    \A u \in Updates : upd[u].state \in {"ignored", "delivered", "delivery_unknown", "delivery_failed"}
==============================================================================
