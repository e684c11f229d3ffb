----------------------------- MODULE FcmAccess -----------------------------
(***************************************************************************)
(* Sends to FCM that share one cached Google access token                   *)
(* (crates/renoa-control fcm.rs, google_access.rs).  The cache is a mutex   *)
(* that is held over the request to the token endpoint.  Tokens are         *)
(* numbered as they are issued; time is counted in ticks of one second.     *)
(***************************************************************************)
EXTENDS Integers, FiniteSets

CONSTANTS
    Senders,      \* concurrent sends
    MaxAttempts,  \* MAX_ATTEMPTS
    RejectionHold, UnavailableHold, \* how long a failed fetch is remembered
    MaxTime,      \* bound: ticks
    MaxIssued,    \* bound: access tokens issued
    None

FcmAssumption ==
    /\ MaxAttempts \in Nat \ {0} /\ MaxTime \in Nat /\ MaxIssued \in Nat
    /\ RejectionHold \in Nat /\ UnavailableHold \in Nat /\ None \notin Senders

VARIABLES
    now,      \* the clock
    issued,   \* access tokens issued so far
    cached,   \* Cache.token: 0, or the token in the cache
    fresh,    \* its refresh_at is not reached
    failed,   \* Cache.failed: when and how the last fetch failed, or None
    holder,   \* the sender that holds the cache's mutex, or None
    send,     \* per sender: step, attempt, refreshed, when it asked, its token, its outcome
    revoked   \* tokens FCM refuses

vars == <<now, issued, cached, fresh, failed, holder, send, revoked>>

Errors == {"rejected", "unavailable", "malformed", "signing"}
Hold(error) == CASE error = "rejected" -> RejectionHold
                 [] error = "unavailable" -> UnavailableHold
                 [] OTHER -> 0

(* What FCM can answer, and what classify makes of it.                      *)
Answers == {"success", "unregistered", "token_violation", "other_violation", "mismatch",
            "quota", "unavailable", "internal", "unauthorized", "unexpected", "unreachable"}
Classify(answer) ==
    CASE answer = "success" -> "delivered"
      [] answer \in {"unregistered", "token_violation"} -> "dead_token"
      [] answer \in {"other_violation", "mismatch", "unexpected"} -> "refused"
      [] answer \in {"quota", "unavailable", "internal", "unreachable"} -> "retry"
      [] answer = "unauthorized" -> "unauthorized"
Outcomes == {"delivered", "dead_token", "refused", "gave_up"}

Start == [step |-> "ask", attempt |-> 1, refreshed |-> FALSE, asked |-> 0, token |-> 0, posts |-> 0, outcome |-> None]
Init ==
    /\ now = 0 /\ issued = 0 /\ cached = 0 /\ fresh = FALSE /\ failed = None
    /\ holder = None /\ send = [s \in Senders |-> Start] /\ revoked = {}

At(s, step) == send[s].step = step
Set(s, r) == send' = [send EXCEPT ![s] = r]
End(s, outcome) == Set(s, [send[s] EXCEPT !.step = "done", !.outcome = outcome])

(* A failed attempt: sleep and try again, or give up after the last.        *)
Retry(s, r) ==
    IF r.attempt >= MaxAttempts THEN Set(s, [r EXCEPT !.step = "done", !.outcome = "gave_up"])
    ELSE Set(s, [r EXCEPT !.step = "ask", !.attempt = @ + 1])

(* bearer: asked before the mutex, decided under it.                        *)
Ask(s) ==
    /\ At(s, "ask") /\ Set(s, [send[s] EXCEPT !.step = "wait", !.asked = now])
    /\ UNCHANGED <<now, issued, cached, fresh, failed, holder, revoked>>

Held(s) ==
    failed # None /\ (failed.at >= send[s].asked \/ now < failed.at + Hold(failed.error))

Failure(s, error) == IF error = "unavailable" THEN Retry(s, send[s]) ELSE End(s, "gave_up")

Lock(s) ==
    /\ At(s, "wait") /\ holder = None
    /\ IF cached # 0 /\ fresh
       THEN Set(s, [send[s] EXCEPT !.step = "post", !.token = cached]) /\ UNCHANGED holder
       ELSE IF Held(s) THEN Failure(s, failed.error) /\ UNCHANGED holder
       ELSE Set(s, [send[s] EXCEPT !.step = "fetch"]) /\ holder' = s
    /\ UNCHANGED <<now, issued, cached, fresh, failed, revoked>>

(* fetch: a new token replaces the cache, a failure is remembered beside    *)
(* the old one.                                                             *)
Fetched(s) ==
    /\ At(s, "fetch") /\ issued < MaxIssued
    /\ issued' = issued + 1 /\ cached' = issued + 1 /\ fresh' = TRUE /\ failed' = None
    /\ holder' = None /\ Set(s, [send[s] EXCEPT !.step = "post", !.token = issued + 1])
    /\ UNCHANGED <<now, revoked>>
FetchFailed(s) ==
    /\ At(s, "fetch")
    /\ \E error \in Errors : failed' = [at |-> now, error |-> error] /\ Failure(s, error)
    /\ holder' = None
    /\ UNCHANGED <<now, issued, cached, fresh, revoked>>

(* One POST; a refused access token is forgotten if it is still the cached  *)
(* one, and the send tries once more with another.  (A 401 whose body names *)
(* another error also forgets the token and is then classified by it; here  *)
(* a 401 is always about the token.)                                        *)
Post(s) ==
    \E answer \in Answers :
        /\ At(s, "post") /\ (answer = "unauthorized" <=> send[s].token \in revoked)
        /\ LET r == [send[s] EXCEPT !.posts = @ + 1] IN
           CASE Classify(answer) \in Outcomes -> Set(s, [r EXCEPT !.step = "done", !.outcome = Classify(answer)])
             [] Classify(answer) = "retry" -> Retry(s, r)
             [] OTHER -> Set(s, [r EXCEPT !.step = "forget"])
        /\ UNCHANGED <<now, issued, cached, fresh, failed, holder, revoked>>

ForgottenAny(s) == 0
Forgotten(s) == IF cached = send[s].token THEN 0 ELSE cached

Forget(s) ==
    /\ At(s, "forget") /\ holder = None
    /\ cached' = Forgotten(s)
    /\ IF send[s].refreshed THEN End(s, "refused")
       ELSE Set(s, [send[s] EXCEPT !.step = "ask", !.refreshed = TRUE])
    /\ UNCHANGED <<now, issued, fresh, failed, holder, revoked>>

Tick ==
    /\ now < MaxTime /\ now' = now + 1
    /\ fresh' \in {FALSE, fresh}
    /\ UNCHANGED <<issued, cached, failed, holder, send, revoked>>
Revoke ==
    /\ \E t \in 1..issued : t \notin revoked /\ revoked' = revoked \cup {t}
    /\ UNCHANGED <<now, issued, cached, fresh, failed, holder, send>>

Attempt(s) == Ask(s) \/ Lock(s) \/ Fetched(s) \/ FetchFailed(s) \/ Post(s) \/ Forget(s)
Next == Tick \/ Revoke \/ \E s \in Senders : Attempt(s)
Spec == Init /\ [][Next]_vars /\ \A s \in Senders : WF_vars(Attempt(s))
-----------------------------------------------------------------------------
(* Types; the mutex is held exactly over a fetch.                           *)
TypeOK ==
    /\ cached \in 0..issued
    /\ holder \in Senders \cup {None}
    /\ \A s \in Senders : At(s, "fetch") <=> holder = s
    /\ \A s \in Senders : send[s].token <= issued /\ send[s].outcome \in Outcomes \cup {None}

(* A refused access token never takes a newer one with it: the cache loses  *)
(* a token only because FCM refused that very token (AccessTokens::forget). *)
OnlyRefusedForgotten ==
    (cached # 0 /\ cached' = 0) => cached \in revoked

(* A failed fetch answers everyone who waited for it: who asked before it   *)
(* ended does not ask the token endpoint again, and nobody does while the   *)
(* failure is held.                                                         *)
FailureIsShared ==
    \A s \in Senders : (~At(s, "fetch") /\ send'[s].step = "fetch" /\ failed # None) =>
           send[s].asked > failed.at /\ now >= failed.at + Hold(failed.error)

(* A send posts at most its attempts and one more with a renewed token.     *)
BoundedPosts == \A s \in Senders : send[s].posts <= MaxAttempts + 1

(* Every send ends with an outcome, whatever the endpoints answer.          *)
SendsEnd == \A s \in Senders : At(s, "done")
=============================================================================
