------------------------------- MODULE Devices -------------------------------
(***************************************************************************)
(* The devices of one principal at the coordinator (crates/renoa-control    *)
(* device_store, identity_store, device_admin, session_registry,            *)
(* setup_notices): enrolment and sign-in, adoption of a known key with a    *)
(* new credential, revocation, the connections of a device, and the sealed  *)
(* notices held for it.  A credential is the number of the sign-in that     *)
(* generated it.                                                            *)
(***************************************************************************)
EXTENDS Integers, FiniteSets

CONSTANTS
    Ids,        \* device ids
    Keys,       \* device keys apps can hold
    Conns,      \* connections
    Notices,    \* sealed notices of the owner's node
    MaxDevices, \* MAX_DEVICES_PER_PRINCIPAL
    MaxCreds,   \* bound: credentials generated
    None

DevicesAssumption ==
    /\ MaxDevices \in Nat \ {0} /\ MaxCreds \in Nat
    /\ IsFiniteSet(Ids) /\ None \notin Ids \cup Keys \cup Conns \cup Notices
    /\ None \notin [key : Keys \cup {None}, cred : Nat, revoked : BOOLEAN]

VARIABLES
    dev,       \* devices and device_keys: key (None: bearer), credential, revoked; or None
    creds,     \* credentials generated so far
    conn,      \* connections: step, device, credential
    lock,      \* who holds connection_lifecycle
    sessions,  \* CoordinatorState::sessions: registered connections
    ending,    \* handlers that have yet to reach end_device_sessions: device and new credential
    left,      \* devices whose sign-in was dropped since their sessions were last ended
    noticeKey, \* notice_keys: devices with one
    notice     \* setup_notices: the device each notice is held for, or None

vars == <<dev, creds, conn, lock, sessions, ending, left, noticeKey, notice>>

Init ==
    /\ dev = [d \in Ids |-> None] /\ creds = 0
    /\ conn = [c \in Conns |-> [step |-> "idle", device |-> None, cred |-> 0]]
    /\ lock = None /\ sessions = {} /\ ending = {} /\ left = {} /\ noticeKey = {}
    /\ notice = [n \in Notices |-> None]

Known == {d \in Ids : dev[d] # None}
Active(d) == d \in Known /\ ~dev[d].revoked
Keyed == {d \in Known : dev[d].key # None /\ ~dev[d].revoked}
Accepts(d, cred) == Active(d) /\ dev[d].cred = cred
-----------------------------------------------------------------------------
(* Enrolment, sign-in, revocation *)

(* claim_enrollment: a one-time token makes a bearer device.                *)
ClaimEnrollment(d) ==
    /\ d \notin Known /\ creds < MaxCreds /\ creds' = creds + 1
    /\ dev' = [dev EXCEPT ![d] = [key |-> None, cred |-> creds + 1, revoked |-> FALSE]]
    /\ UNCHANGED <<conn, lock, sessions, ending, left, noticeKey, notice>>

(* classify: a known key is adopted unless it was signed out; a new one     *)
(* needs room.                                                              *)
Holder(k) == {d \in Known : dev[d].key = k}
HasRoom == Cardinality(Keyed) < MaxDevices

(* sign_in_device, in the transaction of the passkey.                       *)
SignInNew(d, k) ==
    /\ d \notin Known /\ Holder(k) = {} /\ HasRoom
    /\ creds < MaxCreds /\ creds' = creds + 1
    /\ dev' = [dev EXCEPT ![d] = [key |-> k, cred |-> creds + 1, revoked |-> FALSE]]
    /\ UNCHANGED <<conn, lock, sessions, ending, left, noticeKey, notice>>
SignIn(d, cred) == [device |-> d, cred |-> cred]
Revocation(d) == [device |-> d, cred |-> 0]
Adopt(d) ==
    /\ d \in Keyed /\ creds < MaxCreds /\ creds' = creds + 1
    /\ dev' = [dev EXCEPT ![d].cred = creds + 1]
    /\ ending' = ending \cup {SignIn(d, creds + 1)}
    /\ UNCHANGED <<conn, lock, sessions, left, noticeKey, notice>>

(* The app that signed in closes its request: its HTTP handler is dropped   *)
(* before it ends the old sessions.                                         *)
LeaveSignIn(e) ==
    /\ e \in ending /\ e.cred # 0
    /\ ending' = ending \ {e} /\ left' = left \cup {e.device}
    /\ UNCHANGED <<dev, creds, conn, lock, sessions, noticeKey, notice>>

(* mark_revoked takes the push token, the notice key and the notices along; *)
(* a repeated revocation ends the sessions once more.                       *)
RevokeDevice(d) ==
    /\ d \in Known /\ Revocation(d) \notin ending
    /\ dev' = [dev EXCEPT ![d].revoked = TRUE]
    /\ noticeKey' = noticeKey \ {d}
    /\ notice' = [n \in Notices |-> IF notice[n] = d THEN None ELSE notice[n]]
    /\ ending' = ending \cup {Revocation(d)}
    /\ UNCHANGED <<creds, conn, lock, sessions, left>>

(* end_device_sessions, under the lifecycle lock.                           *)
EndDeviceSessions(e) ==
    LET gone == {c \in sessions : conn[c].device = e.device} IN
    /\ e \in ending /\ lock = None
    /\ ending' = ending \ {e} /\ left' = left \ {e.device} /\ sessions' = sessions \ gone
    /\ conn' = [c \in Conns |-> IF c \in gone THEN [conn[c] EXCEPT !.step = "cancelled"] ELSE conn[c]]
    /\ UNCHANGED <<dev, creds, lock, noticeKey, notice>>
-----------------------------------------------------------------------------
(* Connections *)

(* read_peer: the credential is checked, and a keyed device challenged.     *)
Authenticate(c, d, cred) ==
    /\ conn[c].step = "idle" /\ Accepts(d, cred)
    /\ conn' = [conn EXCEPT ![c] = [step |-> IF dev[d].key = None THEN "ready" ELSE "challenged", device |-> d, cred |-> cred]]
    /\ UNCHANGED <<dev, creds, lock, sessions, ending, left, noticeKey, notice>>
ProvePossession(c) ==
    /\ conn[c].step = "challenged"
    /\ \E proved \in BOOLEAN : conn' = [conn EXCEPT ![c].step = IF proved THEN "ready" ELSE "closed"]
    /\ UNCHANGED <<dev, creds, lock, sessions, ending, left, noticeKey, notice>>

(* activate_device: under the lock the credential is looked up again, then  *)
(* the connection is registered and served.                                 *)
StillAccepted(c) == Accepts(conn[c].device, conn[c].cred)
Activate(c) ==
    /\ conn[c].step = "ready" /\ lock = None
    /\ IF StillAccepted(c) THEN conn' = [conn EXCEPT ![c].step = "accepted"] /\ lock' = c
       ELSE conn' = [conn EXCEPT ![c].step = "closed"] /\ UNCHANGED lock
    /\ UNCHANGED <<dev, creds, sessions, ending, left, noticeKey, notice>>
RegisterSession(c) ==
    /\ conn[c].step = "accepted"
    /\ conn' = [conn EXCEPT ![c].step = "serving"] /\ sessions' = sessions \cup {c} /\ lock' = None
    /\ UNCHANGED <<dev, creds, ending, left, noticeKey, notice>>

(* The connection ends by itself, or because it was cancelled, and cleans   *)
(* its registration up; its slot serves another one.                        *)
CleanupSession(c) ==
    /\ conn[c].step \in {"serving", "cancelled", "closed"}
    /\ conn' = [conn EXCEPT ![c] = [step |-> "idle", device |-> None, cred |-> 0]]
    /\ sessions' = sessions \ {c}
    /\ UNCHANGED <<dev, creds, lock, ending, left, noticeKey, notice>>
-----------------------------------------------------------------------------
(* Setup notices: operations of serving keyed devices and of the node *)

ServesKeyed(c) == conn[c].step = "serving" /\ dev[conn[c].device].key # None
MayHoldKey(d) == Active(d)
SetNoticeKey(c) ==
    LET d == conn[c].device IN
    /\ ServesKeyed(c) /\ d \notin noticeKey /\ MayHoldKey(d)
    /\ noticeKey' = noticeKey \cup {d}
    /\ UNCHANGED <<dev, creds, conn, lock, sessions, ending, left, notice>>
PutNotice(n, d) ==
    /\ notice[n] = None /\ d \in noticeKey /\ Active(d)
    /\ notice' = [notice EXCEPT ![n] = d]
    /\ UNCHANGED <<dev, creds, conn, lock, sessions, ending, left, noticeKey>>
DropNotice(n) == \* acknowledged by the device, withdrawn by the node, or expired
    /\ notice[n] # None /\ notice' = [notice EXCEPT ![n] = None]
    /\ UNCHANGED <<dev, creds, conn, lock, sessions, ending, left, noticeKey>>

Next ==
    \/ \E d \in Ids : ClaimEnrollment(d) \/ Adopt(d) \/ RevokeDevice(d)
    \/ \E e \in ending : LeaveSignIn(e) \/ EndDeviceSessions(e)
    \/ \E d \in Ids, k \in Keys : SignInNew(d, k)
    \/ \E c \in Conns, d \in Ids, cred \in 1..creds : Authenticate(c, d, cred)
    \/ \E c \in Conns : ProvePossession(c) \/ Activate(c) \/ RegisterSession(c) \/ CleanupSession(c) \/ SetNoticeKey(c)
    \/ \E n \in Notices : DropNotice(n) \/ \E d \in Ids : PutNotice(n, d)
(* The handlers go on unless they are dropped, and the lifecycle mutex      *)
(* serves its waiters in order.                                             *)
EndsSessionsOf(d) == \E e \in ending : e.device = d /\ EndDeviceSessions(e)
Fairness == (\A d \in Ids : SF_vars(EndsSessionsOf(d))) /\ \A c \in Conns : WF_vars(RegisterSession(c))
Spec == Init /\ [][Next]_vars /\ Fairness
-----------------------------------------------------------------------------
(* Types; a key belongs to one device.                                      *)
TypeOK ==
    /\ \A k \in Keys : Cardinality(Holder(k)) <= 1
    /\ sessions = {c \in Conns : conn[c].step = "serving"}
    /\ lock \in Conns \cup {None}

(* The limit of signed-in devices holds over sign-ins that were checked     *)
(* before another one took the last place.                                  *)
DeviceBound == Cardinality(Keyed) <= MaxDevices

(* A connection is served with a credential that still counts, or the       *)
(* handler that revoked or replaced it is about to end it, or the sign-in   *)
(* that replaced it was dropped: no connection of a revoked device slips in *)
(* between the revocation and the end of the sessions, and none outlives an *)
(* end of the sessions that came after its credential was replaced.         *)
Owing(d) ==
    \/ Revocation(d) \in ending
    \/ Active(d) /\ (d \in left \/ \E e \in ending : e.device = d)
OnlyAcceptedServed == \A c \in sessions : Accepts(conn[c].device, conn[c].cred) \/ Owing(conn[c].device)

(* A revoked device holds no notice key and no notice, whichever of its     *)
(* operations were under way when it was revoked.                           *)
RevokedHoldsNothing ==
    \A d \in Known : dev[d].revoked => d \notin noticeKey /\ \A n \in Notices : notice[n] # d

(* A revoked device stops being served, and so does a replaced credential   *)
(* unless the sign-in that replaced it was dropped.                         *)
RevokedIsCutOff ==
    \A c \in sessions : LET d == conn[c].device IN Accepts(d, conn[c].cred) \/ (Active(d) /\ d \in left)
=============================================================================
