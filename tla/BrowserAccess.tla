---------------------------- MODULE BrowserAccess ----------------------------
(***************************************************************************)
(* How a browser of one principal gets in (crates/renoa-control, browser    *)
(* modules): one-time bootstraps, passkey ceremonies, pairings, sessions    *)
(* that slide with use, and one-time connection tickets.  Every table has   *)
(* an expiry column, kept here as a tick (0: no row).  A handler that       *)
(* awaits the store twice is two actions.                                   *)
(***************************************************************************)
EXTENDS Integers, FiniteSets

CONSTANTS
    Boots,      \* passkey bootstrap tokens
    Clients,    \* ceremonies started by browsers
    Keys,       \* passkeys the browsers can create
    Pairs, Nonces, \* pairing tokens, and the nonce each browser adds
    CeremonyLife, SessionLife, TicketLife, \* CEREMONY_, SESSION_, TICKET_LIFETIME
    MaxCeremonies, \* MAX_ACTIVE_CEREMONIES
    MaxTickets,    \* bound: connection tickets issued
    MaxTime,       \* bound: ticks
    None

AccessAssumption ==
    /\ {CeremonyLife, SessionLife, TicketLife, MaxCeremonies, MaxTickets, MaxTime} \subseteq Nat \ {0}
    /\ IsFiniteSet(Clients) /\ None \notin Boots \cup Clients \cup Keys \cup Pairs \cup Nonces
    /\ None \notin Nat \cup [expiry : Nat, claimed : Nonces \cup {None}]

Sess == (Clients \X {None}) \cup (Pairs \X Nonces)
Tickets == 1..MaxTickets

VARIABLES
    now,
    boot,     \* passkey_bootstraps: expiry of each
    cer,      \* passkey ceremonies: kind and expiry of each, or None
    client,   \* the browser: step, kind, bootstrap, key, counter it signed
    passkey,  \* passkeys: the stored authentication_counter, or None
    signed,   \* the authenticator's own counter
    session,  \* browser_sessions: expiry
    pairing,  \* browser_pairings: expiry and claimed session, or None
    ticket,   \* browser_connection_tickets: expiry
    asking,   \* a ticket request between authenticate and connection_ticket
    issued, entered, ended, used, grants \* history

tables == <<boot, cer, passkey, session, pairing, ticket>>
vars == <<now, tables, client, signed, asking, issued, entered, ended, used, grants>>

Init ==
    /\ now = 1 /\ boot = [b \in Boots |-> 0] /\ cer = [c \in Clients |-> None]
    /\ client = [c \in Clients |-> [step |-> "idle", kind |-> None, boot |-> None, key |-> None, counter |-> 0]]
    /\ passkey = [k \in Keys |-> None] /\ signed = [k \in Keys |-> 0]
    /\ session = [s \in Sess |-> 0] /\ pairing = [p \in Pairs |-> None]
    /\ ticket = [t \in Tickets |-> 0] /\ asking = None /\ issued = 0
    /\ entered = [t \in Tickets |-> 0] /\ ended = {} /\ used = [s \in Sess |-> 0] /\ grants = {}

Alive(expiry) == expiry > now
Purged(t) == [x \in DOMAIN t |-> IF Alive(t[x]) THEN t[x] ELSE 0]
Active == {c \in Clients : cer[c] # None /\ Alive(cer[c].expiry)}
Live(s) == Alive(session[s])
-----------------------------------------------------------------------------
(* Passkey ceremonies *)

CreateBootstrap(b) ==
    /\ boot[b] = 0 /\ \A c \in Clients : client[c].boot # b
    /\ boot' = [boot EXCEPT ![b] = now + CeremonyLife]
    /\ UNCHANGED <<now, cer, passkey, session, pairing, ticket, client, signed, asking, issued, entered, ended, used, grants>>

(* start_registration reads the bootstrap ...                               *)
LoadBootstrap(c, b) ==
    /\ client[c].step = "idle" /\ Alive(boot[b])
    /\ client' = [client EXCEPT ![c].step = "loaded", ![c].kind = "register", ![c].boot = b]
    /\ UNCHANGED <<now, tables, signed, asking, issued, entered, ended, used, grants>>

(* ... and takes it in the transaction that saves the ceremony.             *)
TakenBoot(b) == [Purged(boot) EXCEPT ![b] = 0]
Room == Cardinality(Active) < MaxCeremonies
SaveRegistration(c) ==
    LET b == client[c].boot IN
    /\ client[c].step = "loaded"
    /\ IF Room /\ Alive(boot[b])
       THEN /\ boot' = TakenBoot(b)
            /\ cer' = [cer EXCEPT ![c] = [kind |-> "register", expiry |-> now + CeremonyLife]]
            /\ ticket' = Purged(ticket)
            /\ client' = [client EXCEPT ![c].step = "sign"]
       ELSE client' = [client EXCEPT ![c].step = "refused"] /\ UNCHANGED <<boot, cer, ticket>>
    /\ UNCHANGED <<now, passkey, session, pairing, signed, asking, issued, entered, ended, used, grants>>

StartAuthentication(c) ==
    /\ client[c].step = "idle" /\ \E k \in Keys : passkey[k] # None
    /\ IF Room
       THEN /\ cer' = [cer EXCEPT ![c] = [kind |-> "authenticate", expiry |-> now + CeremonyLife]]
            /\ boot' = Purged(boot) /\ ticket' = Purged(ticket)
            /\ client' = [client EXCEPT ![c].step = "sign", ![c].kind = "authenticate"]
       ELSE client' = [client EXCEPT ![c].step = "refused"] /\ UNCHANGED <<boot, cer, ticket>>
    /\ UNCHANGED <<now, passkey, session, pairing, signed, asking, issued, entered, ended, used, grants>>

(* The authenticator signs: a new key, or the next count of a stored one.   *)
Sign(c, k) ==
    /\ client[c].step = "sign"
    /\ (client[c].kind = "authenticate") <=> (passkey[k] # None)
    /\ signed' = IF client[c].kind = "authenticate" THEN [signed EXCEPT ![k] = @ + 1] ELSE signed
    /\ client' = [client EXCEPT ![c].step = "signed", ![c].key = k, ![c].counter = signed'[k]]
    /\ UNCHANGED <<now, tables, asking, issued, entered, ended, used, grants>>

(* finish_*: the ceremony is claimed first, whatever follows.               *)
ClaimedCer(c) == [cer EXCEPT ![c] = None]
ClaimCeremony(c) ==
    /\ client[c].step \in {"signed", "done"} /\ c \in Active
    /\ cer' = ClaimedCer(c)
    /\ client' = [client EXCEPT ![c].step = "claimed"]
    /\ UNCHANGED <<now, boot, passkey, session, pairing, ticket, signed, asking, issued, entered, ended, used, grants>>

Advances(k, counter) == passkey[k] = 0 \/ counter > passkey[k]
InsertTicket == issued < MaxTickets /\ issued' = issued + 1
                /\ ticket' = [Purged(ticket) EXCEPT ![issued + 1] = now + TicketLife]
InsertSession(s) == session' = [Purged(session) EXCEPT ![s] = now + SessionLife] /\ used' = [used EXCEPT ![s] = now]

(* store_registration_and_ticket and update_passkey_and_store_ticket: the   *)
(* passkey, the ticket and the session in one transaction.                  *)
FinishCeremony(c) ==
    LET r == client[c] IN
    /\ r.step = "claimed"
    /\ IF IF r.kind = "register" THEN passkey[r.key] = None ELSE Advances(r.key, r.counter)
       THEN /\ passkey' = [passkey EXCEPT ![r.key] = r.counter]
            /\ InsertTicket /\ InsertSession(<<c, None>>)
            /\ grants' = grants \cup {[client |-> c, boot |-> r.boot, ticket |-> issued + 1]}
            /\ client' = [client EXCEPT ![c].step = "done"]
       ELSE /\ client' = [client EXCEPT ![c].step = "refused"]
            /\ UNCHANGED <<passkey, ticket, session, issued, used, grants>>
    /\ UNCHANGED <<now, boot, cer, pairing, signed, asking, entered, ended>>
-----------------------------------------------------------------------------
(* Pairings, sessions and tickets *)

CreatePairing(p) ==
    /\ pairing[p] = None /\ \A n \in Nonces : <<p, n>> \notin ended \* a fresh token
    /\ pairing' = [pairing EXCEPT ![p] = [expiry |-> now + CeremonyLife, claimed |-> None]]
    /\ UNCHANGED <<now, boot, cer, passkey, session, ticket, client, signed, asking, issued, entered, ended, used, grants>>

(* redeem: the first browser claims the pairing; its own retry finds the    *)
(* session it got.                                                          *)
MayRedeemAgain(p, n) == pairing[p].claimed \in {None, n}
MayRedeem(p, n) == pairing[p].claimed = None
Redeem(p, n) ==
    /\ pairing[p] # None /\ Alive(pairing[p].expiry) /\ MayRedeem(p, n)
    /\ InsertSession(<<p, n>>)
    /\ pairing' = [pairing EXCEPT ![p].claimed = n]
    /\ UNCHANGED <<now, boot, cer, passkey, ticket, client, signed, asking, issued, entered, ended, grants>>

(* authenticate: a session past the middle of its life is prolonged.        *)
Renewed(s) == IF session[s] - now < SessionLife \div 2 THEN now + SessionLife ELSE session[s]
Authenticate(s, forTicket) ==
    /\ Live(s) /\ (forTicket => asking = None)
    /\ session' = [session EXCEPT ![s] = Renewed(s)] /\ used' = [used EXCEPT ![s] = now]
    /\ asking' = IF forTicket THEN s ELSE asking
    /\ UNCHANGED <<now, boot, cer, passkey, pairing, ticket, client, signed, issued, entered, ended, grants>>

(* connection_ticket looks the session up again.                            *)
IssueTicket ==
    /\ asking # None
    /\ IF Live(asking) THEN InsertTicket ELSE UNCHANGED <<ticket, issued>>
    /\ asking' = None
    /\ UNCHANGED <<now, boot, cer, passkey, session, pairing, client, signed, entered, ended, used, grants>>

SpentTicket(t) == [Purged(ticket) EXCEPT ![t] = 0]
ClaimTicket(t) ==
    /\ Alive(ticket[t]) /\ ticket' = SpentTicket(t)
    /\ entered' = [entered EXCEPT ![t] = @ + 1]
    /\ UNCHANGED <<now, boot, cer, passkey, session, pairing, client, signed, asking, issued, ended, used, grants>>

Logout(s) ==
    /\ session[s] # 0
    /\ session' = [session EXCEPT ![s] = 0] /\ ended' = ended \cup {s}
    /\ UNCHANGED <<now, boot, cer, passkey, pairing, ticket, client, signed, asking, issued, entered, used, grants>>

RevokedPairings == [p \in Pairs |-> None]
Revoke ==
    /\ \E s \in Sess : Live(s)
    /\ session' = [s \in Sess |-> 0] /\ pairing' = RevokedPairings
    /\ ended' = ended \cup {s \in Sess : Live(s)} \cup {s \in Pairs \X Nonces : pairing[s[1]] # None}
    /\ UNCHANGED <<now, boot, cer, passkey, ticket, client, signed, asking, issued, entered, used, grants>>

Tick ==
    /\ now < MaxTime /\ now' = now + 1
    /\ UNCHANGED <<tables, client, signed, asking, issued, entered, ended, used, grants>>

Next ==
    \/ Tick \/ Revoke \/ IssueTicket
    \/ \E b \in Boots : CreateBootstrap(b) \/ \E c \in Clients : LoadBootstrap(c, b)
    \/ \E c \in Clients : SaveRegistration(c) \/ StartAuthentication(c) \/ ClaimCeremony(c) \/ FinishCeremony(c)
    \/ \E c \in Clients, k \in Keys : Sign(c, k)
    \/ \E p \in Pairs : CreatePairing(p) \/ \E n \in Nonces : Redeem(p, n)
    \/ \E s \in Sess : Logout(s) \/ \E forTicket \in BOOLEAN : Authenticate(s, forTicket)
    \/ \E t \in Tickets : ClaimTicket(t)
Spec == Init /\ [][Next]_vars
-----------------------------------------------------------------------------
(* Types; no more ceremonies are open than the capacity allows.             *)
TypeOK ==
    /\ Cardinality(Active) <= MaxCeremonies
    /\ DOMAIN session = Sess /\ issued \in 0..MaxTickets
    /\ \A k \in Keys : passkey[k] # None => passkey[k] <= signed[k]

(* A bootstrap, a ceremony and a ticket each grant once, although loading   *)
(* and taking are two steps of handlers that run at the same time.          *)
GrantsOnce ==
    /\ \A g, h \in grants : (g.client = h.client \/ (g.boot # None /\ g.boot = h.boot)) => g = h
    /\ \A t \in Tickets : entered[t] <= 1

(* A session that was logged out or revoked never lives again, also when    *)
(* the browser repeats the pairing that made it.                            *)
EndedStaysEnded == \A s \in ended : ~Live(s)

(* One pairing lets one browser in.                                         *)
PairsOneBrowser == \A p \in Pairs, n, m \in Nonces : (used[<<p, n>>] # 0 /\ used[<<p, m>>] # 0) => n = m

(* A session in use does not expire: after a use it lives for at least half *)
(* its lifetime unless it is ended.                                         *)
UsedSessionLives ==
    \A s \in Sess \ ended : (used[s] # 0 /\ now < used[s] + SessionLife \div 2) => Live(s)

(* Sign-ins that end out of order never take a passkey's counter back.      *)
CounterAscends ==
    \A k \in Keys : passkey[k] # None => passkey'[k] >= passkey[k]
=============================================================================
