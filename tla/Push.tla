-------------------------------- MODULE Push --------------------------------
(***************************************************************************)
(* Push wakes of one principal (crates/renoa-control, push modules): the   *)
(* durable row of generations, the tokens of the principal's devices, the *)
(* dispatcher that sends and settles, its pacing and its supervisor, and    *)
(* the requests of the owner's node (crates/renoa-node owner_wakes).        *)
(* Durations are abstract: a device is ready, sending or cooling down.      *)
(***************************************************************************)
EXTENDS Integers, FiniteSets, FiniteSetsExt

CONSTANTS
    Devices,     \* enrolled surface devices of the principal
    Tokens,      \* push tokens
    Requests,    \* wake identities of the node's feed
    MaxInFlight, \* MAX_IN_FLIGHT
    MaxGen,      \* bound: wakes recorded
    MaxFaults,   \* bound: crashes of the dispatcher, the coordinator or the node
    MaxChanges,  \* bound: registrations and removals of tokens
    None

PushAssumption ==
    /\ MaxInFlight \in Nat \ {0} /\ MaxGen \in Nat /\ MaxFaults \in Nat /\ MaxChanges \in Nat
    /\ IsFiniteSet(Devices) /\ None \notin Devices \cup Tokens \cup Requests
    /\ None \notin [gen : Nat, token : Tokens] \cup [gen : Nat, token : Tokens, kind : {"ring", "changed"}]

VARIABLES
    (* durable *)
    gen, ring, settled, \* push_wakes: generation, ring_generation, settled
    token,    \* push_tokens: the token of each device, or None
    known,    \* push_wake_requests: identities received within a day
    feed,     \* wakes the node's Host still owes (HostFeed)
    (* the dispatcher *)
    pc,       \* down, or its place in the loop: pass, wait, finish, settle, settle_finish
    arg,      \* the generation it is about to settle
    covered,  \* device -> generation and token of the last concluded send, or None
    sending,  \* device -> generation, token and kind of the send in flight, or None
    pace,     \* Pacing: ready, inflight, cooling (survives the dispatcher)
    notified, \* push_wakes: a permit of the Notify
    timer,    \* the pass left a send for later
    asking,   \* the node's request that was answered and not yet noted
    faults, changes,
    (* history, for the properties *)
    told, rung, since

durable == <<gen, ring, settled, token, known, feed>>
dispatcher == <<pc, arg, covered, sending, pace, notified, timer>>
bounds == <<faults, changes>>
history == <<told, rung, since>>
vars == <<durable, dispatcher, asking, bounds, history>>

Owed == gen > settled
RingOwed == ring > settled
Targets == {d \in Devices : token[d] # None}
InFlight == {d \in Devices : sending[d] # None}
Covers(c, t, g) == c # None /\ c.gen >= g /\ c.token = t

Init ==
    /\ gen = 0 /\ ring = 0 /\ settled = 0 /\ known = {} /\ feed = Requests
    /\ token \in [Devices -> Tokens \cup {None}]
    /\ \A d, e \in Devices : d # e /\ token[d] # None => token[d] # token[e]
    /\ pc = "pass" /\ arg = 0 /\ asking = None
    /\ covered = [d \in Devices |-> None] /\ sending = [d \in Devices |-> None]
    /\ pace = [d \in Devices |-> "ready"] /\ notified = FALSE /\ timer = FALSE
    /\ faults = 0 /\ changes = 0
    /\ told = [d \in Devices |-> 0] /\ rung = [d \in Devices |-> 0] /\ since = [d \in Devices |-> 0]
-----------------------------------------------------------------------------
(* Recording *)

WakeReason(kind, quiet) == kind \in {"assistant_message", "execution_failed"} /\ ~quiet
Record(rings) ==
    /\ gen < MaxGen
    /\ gen' = gen + 1
    /\ ring' = IF rings THEN gen + 1 ELSE ring

(* append_event marks the wake in the transaction of the record; the        *)
(* dispatcher is notified after it.                                         *)
JournalRecord ==
    /\ \E kind \in {"assistant_message", "execution_failed", "other"}, quiet \in BOOLEAN :
           WakeReason(kind, quiet)
    /\ Record(FALSE) /\ notified' = TRUE
    /\ UNCHANGED <<settled, token, known, feed, pc, arg, covered, sending, pace, timer, asking, bounds, history>>

(* RequestWake of the node, answered or not; a known identity is only       *)
(* answered.                                                                *)
RequestWake(id, rings, answered) ==
    /\ id \in feed /\ asking = None
    /\ IF id \in known THEN UNCHANGED <<gen, ring, notified, known>>
       ELSE Record(rings) /\ known' = known \cup {id} /\ notified' = TRUE
    /\ asking' = IF answered THEN id ELSE None
    /\ UNCHANGED <<settled, token, feed, pc, arg, covered, sending, pace, timer, bounds, history>>

(* owner_wakes notes the answered wake in the feed.                         *)
WakeSent ==
    /\ asking # None
    /\ feed' = feed \ {asking} /\ asking' = None
    /\ UNCHANGED <<gen, ring, settled, token, known, dispatcher, bounds, history>>

(* SetPushToken: a token another device of the principal held moves.        *)
SetPushToken(d, t) ==
    /\ changes < MaxChanges /\ token[d] # t
    /\ token' = [e \in Devices |-> IF e = d THEN t ELSE IF token[e] = t THEN None ELSE token[e]]
    /\ changes' = changes + 1
    /\ told' = [told EXCEPT ![d] = 0] /\ rung' = [rung EXCEPT ![d] = 0] /\ since' = [since EXCEPT ![d] = gen]
    /\ UNCHANGED <<gen, ring, settled, known, feed, dispatcher, asking, faults>>

(* ClearPushToken, or the revocation of the device.                         *)
ClearPushToken(d) ==
    /\ changes < MaxChanges /\ token[d] # None
    /\ token' = [token EXCEPT ![d] = None] /\ changes' = changes + 1
    /\ UNCHANGED <<gen, ring, settled, known, feed, dispatcher, asking, faults, history>>
-----------------------------------------------------------------------------
(* The dispatcher *)

Wanting == {d \in Targets : ~Covers(covered[d], token[d], gen)}
KindOf(d) == IF RingOwed /\ ~Covers(covered[d], token[d], ring) THEN "ring" ELSE "changed"

Ready(d) == pace[d] = "ready"

(* plan: the sends that may still be started.                               *)
FreeSlots == MaxInFlight - Min({MaxInFlight, Cardinality(InFlight)})

(* pass: what is owed is sent to the devices that lack it, as many at a     *)
(* time as allowed, or settled when none does.  The reads of wakes and of   *)
(* targets are one step; with no FCM account the coordinator settles what   *)
(* is owed unsent, and a failed read is tried again soon: neither is        *)
(* modelled.                                                                *)
Pass ==
    LET able == {d \in Wanting : Ready(d)} IN
    /\ pc = "pass"
    /\ covered' = IF Owed \/ InFlight # {} THEN covered ELSE [d \in Devices |-> None]
    /\ IF ~Owed THEN pc' = "wait" /\ timer' = FALSE /\ UNCHANGED <<arg, sending, pace>>
       ELSE \E start \in SUBSET able :
            /\ Cardinality(start) = Min({Cardinality(able), FreeSlots})
            /\ sending' = [d \in Devices |-> IF d \in start
                              THEN [gen |-> gen, token |-> token[d], kind |-> KindOf(d)] ELSE sending[d]]
            /\ pace' = [d \in Devices |-> IF d \in start THEN "inflight" ELSE pace[d]]
            /\ timer' = \E d \in Wanting : pace[d] = "cooling"
            /\ IF Wanting = {} THEN pc' = "settle" /\ arg' = gen ELSE pc' = "wait" /\ UNCHANGED arg
    /\ UNCHANGED <<durable, notified, asking, bounds, history>>

Notified ==
    /\ pc = "wait" /\ notified
    /\ pc' = "pass" /\ notified' = FALSE
    /\ UNCHANGED <<durable, arg, covered, sending, pace, timer, asking, bounds, history>>

(* Time passes: the gap after a send, or its backoff, is over.              *)
Cooled(d) ==
    /\ pace[d] = "cooling" /\ pace' = [pace EXCEPT ![d] = "ready"]
    /\ IF pc = "wait" /\ timer THEN pc' = "pass" /\ timer' = FALSE ELSE UNCHANGED <<pc, timer>>
    /\ UNCHANGED <<durable, arg, covered, sending, notified, asking, bounds, history>>

(* finish: a send ended.  Giving up leaves the device uncovered; a dead     *)
(* token is dropped if the device still holds it.                           *)
SendEnded(d, outcome) ==
    LET s == sending[d] IN
    /\ pc = "wait" /\ s # None
    /\ sending' = [sending EXCEPT ![d] = None] /\ pace' = [pace EXCEPT ![d] = "cooling"]
    /\ IF outcome = "gave_up" THEN pc' = "pass" /\ UNCHANGED <<arg, covered, token, told, rung>>
       ELSE /\ covered' = [covered EXCEPT ![d] =
                   [token |-> s.token,
                    gen |-> IF @ # None /\ @.token = s.token THEN Max({@.gen, s.gen}) ELSE s.gen]]
            /\ token' = IF outcome = "dead_token" /\ token[d] = s.token THEN [token EXCEPT ![d] = None] ELSE token
            /\ pc' = "finish" /\ arg' = covered'[d].gen
            /\ told' = IF token[d] = s.token THEN [told EXCEPT ![d] = Max({@, s.gen})] ELSE told
            /\ rung' = IF token[d] = s.token /\ s.kind = "ring" THEN [rung EXCEPT ![d] = Max({@, s.gen})] ELSE rung
    /\ UNCHANGED <<gen, ring, settled, known, feed, notified, timer, asking, bounds, since>>

(* settle_if_covered: no send of the principal is left and every device has *)
(* a concluded one for its token.                                           *)
SettleIfCovered ==
    LET concluded == {arg} \cup {covered[d].gen : d \in Targets} IN
    /\ pc = "finish"
    /\ IF InFlight = {} /\ \A d \in Targets : covered[d] # None /\ covered[d].token = token[d]
       THEN pc' = "settle_finish" /\ arg' \in {g \in concluded : \A h \in concluded : g <= h}
       ELSE pc' = "pass" /\ UNCHANGED arg
    /\ UNCHANGED <<durable, covered, sending, pace, notified, timer, asking, bounds, history>>

(* settle_wake: only when nothing newer was recorded meanwhile.             *)
SettleStale ==
    /\ pc \in {"settle", "settle_finish"}
    /\ settled' = gen /\ covered' = [d \in Devices |-> None]
    /\ pc' = IF pc = "settle" THEN "wait" ELSE "pass"
    /\ UNCHANGED <<gen, ring, token, known, feed, arg, sending, pace, notified, timer, asking, bounds, history>>
Settle ==
    /\ pc \in {"settle", "settle_finish"}
    /\ IF arg = gen /\ Owed
       THEN settled' = gen /\ covered' = [d \in Devices |-> None]
       ELSE UNCHANGED <<settled, covered>>
    /\ pc' = IF pc = "settle" THEN "wait" ELSE "pass"
    /\ UNCHANGED <<gen, ring, token, known, feed, arg, sending, pace, notified, timer, asking, bounds, history>>

(* The dispatcher ends; its supervisor starts another on the same pacing.   *)
DispatcherCrash ==
    /\ pc # "down" /\ faults < MaxFaults
    /\ pc' = "down" /\ sending' = [d \in Devices |-> None] /\ covered' = [d \in Devices |-> None]
    /\ faults' = faults + 1
    /\ UNCHANGED <<durable, arg, pace, notified, timer, asking, changes, history>>
DispatcherStart ==
    /\ pc = "down" /\ pc' = "pass"
    /\ pace' = [d \in Devices |-> IF pace[d] = "inflight" THEN "cooling" ELSE pace[d]]
    /\ UNCHANGED <<durable, arg, covered, sending, notified, timer, asking, bounds, history>>

(* The coordinator ends: pacing and the notification are gone too.          *)
CoordinatorCrash ==
    /\ faults < MaxFaults /\ faults' = faults + 1
    /\ pc' = "pass" /\ notified' = FALSE /\ timer' = FALSE
    /\ sending' = [d \in Devices |-> None] /\ covered' = [d \in Devices |-> None]
    /\ pace' = [d \in Devices |-> "ready"]
    /\ UNCHANGED <<durable, arg, asking, changes, history>>

(* The node ends between the answer and noting it: it asks again.           *)
NodeCrash ==
    /\ asking # None /\ faults < MaxFaults
    /\ asking' = None /\ faults' = faults + 1
    /\ UNCHANGED <<durable, dispatcher, changes, history>>

Dispatch == Pass \/ Notified \/ SettleIfCovered \/ Settle \/ DispatcherStart
Concluded(d) == SendEnded(d, "delivered") \/ SendEnded(d, "dead_token") \/ SendEnded(d, "refused")
Next ==
    \/ JournalRecord \/ WakeSent \/ NodeCrash \/ Dispatch \/ DispatcherCrash \/ CoordinatorCrash
    \/ \E id \in Requests, rings, answered \in BOOLEAN : RequestWake(id, rings, answered)
    \/ \E d \in Devices, t \in Tokens : SetPushToken(d, t)
    \/ \E d \in Devices : ClearPushToken(d) \/ Cooled(d) \/ Concluded(d) \/ SendEnded(d, "gave_up")

(* The dispatcher runs, time passes, and a push service that is asked again *)
(* and again answers some day.                                              *)
Fairness ==
    /\ WF_vars(Dispatch)
    /\ \A d \in Devices : WF_vars(Cooled(d)) /\ SF_vars(Concluded(d))
Spec == Init /\ [][Next]_vars
FairSpec == Spec /\ Fairness
-----------------------------------------------------------------------------
(* Types; a settled generation was recorded.                                *)
TypeOK ==
    /\ settled <= gen /\ ring <= gen /\ gen <= MaxGen
    /\ token \in [Devices -> Tokens \cup {None}]
    /\ pc \in {"down", "pass", "wait", "finish", "settle", "settle_finish"}
    /\ pace \in [Devices -> {"ready", "inflight", "cooling"}]
    /\ known \subseteq Requests /\ feed \subseteq Requests

(* A wake is settled only when every device that held its token before the  *)
(* wake was recorded had a send of it that concluded, whatever was recorded *)
(* or registered during the sends (Covered, settle_wake).                   *)
SettledWasSent ==
    \A d \in Targets : since[d] < settled => told[d] >= settled

(* A ring survives the wakes that follow it: once it is settled every       *)
(* device that held its token before it had a send that rang.               *)
RingIsNotReplaced ==
    \A d \in Targets : (ring > 0 /\ settled >= ring /\ since[d] < ring) => rung[d] >= ring

(* A device is sent one wake at a time, and the sends of all devices stay   *)
(* below the limit, also over restarts of the dispatcher.                   *)
PacedSends ==
    /\ Cardinality(InFlight) <= MaxInFlight
    /\ \A d \in InFlight : pace[d] = "inflight"

(* Starting a send never replaces one that is still under way.              *)
NoOverlappingSend ==
    \A d \in Devices : (sending[d] # None /\ sending'[d] # None) => sending'[d] = sending[d]

(* A request repeated by the node because its answer or its note was lost   *)
(* owes the owner one wake.                                                 *)
OneWakePerRequest ==
  known' = known /\ asking' # asking => gen' = gen

(* Every wake owed is settled some day: no record, end of a send or timer   *)
(* is missed.                                                               *)
OwedSettles == ~Owed
=============================================================================
