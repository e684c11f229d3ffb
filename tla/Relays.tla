------------------------------- MODULE Relays --------------------------------
(***************************************************************************)
(* The coordinator's relays between a person's browser and a node           *)
(* (crates/renoa-control oauth_relay_store, credential_relay_store and      *)
(* their routes).  An OAuth relay is found by the digest of its state, a    *)
(* credential relay by its id and a capability; both keep one result until  *)
(* the node that reserved them acknowledges it.  Here a relay's state or    *)
(* capability is its secret.                                                *)
(***************************************************************************)
EXTENDS Integers, FiniteSets

CONSTANTS
    Nodes,        \* node devices
    Ids,          \* relay ids
    Secrets,      \* states or capabilities
    Results,      \* codes, errors or ciphertexts
    ByState,      \* TRUE: OAuth relays, FALSE: credential relays
    PerDevice, Total, \* MAX_ACTIVE_RELAYS_PER_DEVICE, _TOTAL
    Life,         \* RELAY_LIFETIME
    MaxTime,      \* bound: ticks
    None

RelaysAssumption ==
    /\ ByState \in BOOLEAN /\ {PerDevice, Total, Life, MaxTime} \subseteq Nat \ {0}
    /\ None \notin Nodes \cup Ids \cup Secrets \cup Results

VARIABLES
    now, revoked, \* node devices that are revoked
    relay,   \* rows: node, secret, phase, result held, digest of the result, expiry; or None
    answered, \* history: the results a person's browser was told are received
    seen     \* history: the results the node read of the current row

vars == <<now, revoked, relay, answered, seen>>
Row(r) == relay[r] # None
Alive(r) == Row(r) /\ relay[r].expiry > now
Open(r) == Alive(r) /\ relay[r].node \notin revoked

Init ==
    /\ now = 1 /\ revoked = {} /\ relay = [r \in Ids |-> None]
    /\ answered = [r \in Ids |-> {}] /\ seen = [r \in Ids |-> {}]

(* delete_expired comes first in the transactions that write.               *)
Kept == [r \in Ids |-> IF Alive(r) THEN relay[r] ELSE None]
ActiveOf(n) == {r \in Ids : Alive(r) /\ relay[r].phase # "acknowledged" /\ (n = None \/ relay[r].node = n)}

(* create_*_relay: a repeated reservation finds its row; another one needs  *)
(* an unused secret (OAuth) and room.                                       *)
HasRoom(n) == Cardinality(ActiveOf(n)) < PerDevice /\ Cardinality(ActiveOf(None)) < Total
Unused(s) == ByState => \A r \in Ids : Alive(r) => relay[r].secret # s
CreateRelay(n, r, s) ==
    /\ n \notin revoked /\ ~Alive(r) /\ Unused(s) /\ HasRoom(n)
    /\ relay' = [Kept EXCEPT ![r] = [node |-> n, secret |-> s, phase |-> "pending", result |-> None,
                                     digest |-> None, expiry |-> now + Life]]
    /\ answered' = [answered EXCEPT ![r] = {}] /\ seen' = [seen EXCEPT ![r] = {}]
    /\ UNCHANGED <<now, revoked>>

(* The first result stays; the same one again is accepted, another refused. *)
Accepts(r, x) == relay[r].phase = "pending" \/ relay[r].digest = x
Receive(r, x, rows) ==
    /\ relay' = IF relay[r].phase = "acknowledged" THEN rows
                ELSE [rows EXCEPT ![r].phase = "submitted", ![r].result = x, ![r].digest = x]
    /\ answered' = [answered EXCEPT ![r] = @ \cup {x}]
    /\ UNCHANGED <<now, revoked, seen>>

(* provider_callback: a query carries a code, perhaps with an issuer, or an *)
(* error; what fits neither is answered with the failure page.              *)
Queries == [code : Results \cup {None}, error : Results \cup {None}, iss : BOOLEAN]
ParsedCallback(q) ==
    CASE q.code # None /\ q.error = None -> [kind |-> "authorized", value |-> q.code, iss |-> q.iss]
      [] q.code = None /\ q.error # None /\ ~q.iss -> [kind |-> "rejected", value |-> q.error, iss |-> FALSE]
      [] OTHER -> None
RecordCallback(s, q) ==
    \E r \in Ids :
        /\ ByState /\ ParsedCallback(q) # None
        /\ Open(r) /\ relay[r].secret = s /\ Accepts(r, ParsedCallback(q))
        /\ Receive(r, ParsedCallback(q), Kept)

(* submit_credential_relay, with the capability of the relay.               *)
SubmitCredential(r, s, x) ==
    /\ ~ByState /\ Open(r) /\ relay[r].secret = s /\ Accepts(r, x)
    /\ Receive(r, x, relay)

(* The node polls the status ...                                            *)
ReadStatus(n, r) ==
    /\ Open(r) /\ relay[r].node = n /\ relay[r].phase = "submitted"
    /\ seen' = [seen EXCEPT ![r] = @ \cup {relay[r].result}]
    /\ UNCHANGED <<now, revoked, relay, answered>>

(* ... and acknowledges once it has used the result, which is then erased.  *)
Acknowledge(n, r) ==
    /\ Open(r) /\ relay[r].node = n /\ relay[r].phase # "pending"
    /\ relay' = [relay EXCEPT ![r].phase = "acknowledged", ![r].result = None]
    /\ UNCHANGED <<now, revoked, answered, seen>>

RevokeNode(n) ==
    /\ n \notin revoked /\ revoked' = revoked \cup {n}
    /\ UNCHANGED <<now, relay, answered, seen>>
Tick == now < MaxTime /\ now' = now + 1 /\ UNCHANGED <<revoked, relay, answered, seen>>

Next ==
    \/ Tick
    \/ \E n \in Nodes : RevokeNode(n)
    \/ \E n \in Nodes, r \in Ids : ReadStatus(n, r) \/ Acknowledge(n, r) \/ \E s \in Secrets : CreateRelay(n, r, s)
    \/ \E s \in Secrets, q \in Queries : RecordCallback(s, q)
    \/ \E r \in Ids, s \in Secrets, x \in Results : SubmitCredential(r, s, x)
Spec == Init /\ [][Next]_vars
-----------------------------------------------------------------------------
(* Types; the active relays stay within both limits.                        *)
TypeOK ==
    /\ \A r \in Ids : Row(r) => relay[r].phase \in {"pending", "submitted", "acknowledged"}
    /\ Cardinality(ActiveOf(None)) <= Total /\ \A n \in Nodes : Cardinality(ActiveOf(n)) <= PerDevice

(* What the browser was told is received is the one result the node reads,  *)
(* over repeated and competing callbacks and polls.                         *)
OneResult == \A r \in Ids : Cardinality(answered[r]) <= 1 /\ seen[r] \subseteq answered[r]

(* A callback reaches the relay its state was made for: an OAuth state      *)
(* never leads to two live relays.                                          *)
StateNamesOne ==
    ByState => \A r, q \in Ids : (Alive(r) /\ Alive(q) /\ relay[r].secret = relay[q].secret) => r = q

(* A result the browser was told is received is not lost before the node    *)
(* acknowledged it, read it or let the relay expire; and an acknowledged    *)
(* row keeps no secret.                                                     *)
KeptUntilAcknowledged ==
    \A r \in Ids : Alive(r) =>
        /\ relay[r].phase = "acknowledged" => relay[r].result = None /\ relay[r].digest # None
        /\ (answered[r] # {} /\ relay[r].phase # "acknowledged") => relay[r].result \in answered[r]
==============================================================================
