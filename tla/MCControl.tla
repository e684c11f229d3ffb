----------------------------- MODULE MCControl ------------------------------
(***************************************************************************)
(* The control plane on small instances: push notifications, the access of *)
(* browsers, devices and OAuth relays, and the messages and calls that     *)
(* cross it. A run explores the components in Chosen side by side: part    *)
(* names the one a behaviour is about, and the others are idle. Where the  *)
(* parts of one component differ, guards leave the rest of its identities  *)
(* out of the behaviour.                                                   *)
(***************************************************************************)
EXTENDS ControlProofs

CONSTANTS Chosen

EachItself == [x \in {"a", "b", "c"} |-> x]
OneOwner == [x \in {"a", "b", "c"} |-> "o"]

VARIABLE part

messageVars == <<commands, unsettled, started, online, name, messageCall, ran, reused, messageFaults>>
linkVars == <<current, opened, queue, waiting, next, linkToCoord, linkToNode, caller, broken>>
hostVars == <<hostConn, open, count, serves, hostCall, pending, hostToNode, running, hostToCoord, surface>>
browserVars == <<browserNow, boot, cer, client, passkey, signed, session, pairing, browserTicket,
                 browserAsking, browserIssued, entered, ended, used, grants>>
deviceVars == <<dev, creds, deviceConn, lock, sessions, ending, left, noticeKey, notice>>
relayVars == <<relayNow, relayRevoked, relay, answered, seen>>
shareVars == <<file, shareTicket, page>>
wakeVars == <<gen, ring, settled, token, known, feed, pc, arg, covered, sending, pace, notified, timer,
              pushAsking, pushFaults, changes, told, rung, since>>
fcmVars == <<fcmNow, fcmIssued, cached, fresh, failed, holder, send, fcmRevoked>>
all == <<part, messageVars, linkVars, hostVars, browserVars, deviceVars, relayVars,
         shareVars, wakeVars, fcmVars>>

(* A chain of two agents, three agents that ask again under one name, and   *)
(* three whose names change.                                                *)
Chain == INSTANCE AgentMessages WITH
    Agents <- {"a", "b"}, NodeOf <- [x \in {"a", "b"} |-> x],
    OwnerOf <- [x \in {"a", "b"} |-> "o"], Calls <- MessageCalls, Names <- {"x"}, MaxFaults <- 1,
    call <- messageCall, faults <- messageFaults

Repeats == INSTANCE AgentMessages WITH
    Calls <- MessageCalls, Names <- {"x"}, MaxDepth <- 1, MaxFaults <- MessageMaxFaults,
    call <- messageCall, faults <- messageFaults

Renames == INSTANCE AgentMessages WITH
    Calls <- MessageCalls, MaxDepth <- 1, MaxFaults <- 2, call <- messageCall, faults <- messageFaults

ASSUME ComponentBounds ==
    /\ Messages!AgentMessagesAssumption /\ Chain!AgentMessagesAssumption
    /\ Repeats!AgentMessagesAssumption /\ Renames!AgentMessagesAssumption /\ Link!AgentLinkAssumption
    /\ HostLink!HostCallsAssumption /\ Browsers!AccessAssumption
    /\ Holders!DevicesAssumption /\ Relayed!RelaysAssumption /\ Shares!SharePageAssumption
    /\ Wakes!PushAssumption /\ Fcm!FcmAssumption

(* A phone that has no token is out of the behaviour. *)
Phones == CASE part = "push" -> {"d"} [] part = "pushPair" -> {"d", "e"} [] OTHER -> {}

ControlInit ==
    /\ part \in Chosen
    /\ IF part = "chain" THEN Chain!Init ELSE Messages!Init
    /\ \A a \in DOMAIN name : name[a] = "x"
    /\ Link!Init /\ HostLink!Init /\ Browsers!Init /\ Holders!Init /\ Relayed!Init
    /\ Shares!Init /\ Wakes!Init /\ Fcm!Init
    /\ \A d \in Devices \ Phones : token[d] = None
    /\ serves # {} => part = "hostCalls"

(* The components a step leaves alone. *)
Only(c) ==
    /\ UNCHANGED part
    /\ c # "messages" => UNCHANGED messageVars
    /\ c # "link" => UNCHANGED linkVars
    /\ c # "hostCalls" => UNCHANGED hostVars
    /\ c # "browsers" => UNCHANGED browserVars
    /\ c # "devices" => UNCHANGED deviceVars
    /\ c # "relays" => UNCHANGED relayVars
    /\ c # "share" => UNCHANGED shareVars
    /\ c # "wakes" => UNCHANGED wakeVars
    /\ c # "fcm" => UNCHANGED fcmVars

(* A browser that starts no ceremony, a key nobody has, a pairing nobody    *)
(* makes.                                                                   *)
NoClient(c) == client'[c].step = "idle"
NoKey(k) == passkey'[k] = None /\ \A c \in Clients : client'[c].key # k
NoPairing(p) == pairing'[p] = None

ControlNext ==
    \/ part = "push" /\ Wakes!Next /\ token'["e"] = None /\ Only("wakes")
    \/ part = "pushPair" /\ Wakes!Next /\ gen' <= 1 /\ Only("wakes")
    \/ part = "fcm" /\ Fcm!Next /\ Only("fcm")
    \/ /\ part = "ceremonies" /\ Browsers!Next /\ Only("browsers")
       /\ browserNow' <= 2 /\ browserIssued' <= 2 /\ NoClient("e") /\ NoPairing("p")
    \/ /\ part = "browsers" /\ Browsers!Next /\ Only("browsers")
       /\ browserIssued' <= 1 /\ NoClient("d") /\ NoClient("e") /\ NoKey("l")
    \/ /\ part = "counters" /\ Browsers!Next /\ Only("browsers")
       /\ browserNow' <= 1 /\ NoKey("l") /\ NoPairing("p")
    \/ part = "devices" /\ Holders!Next /\ Only("devices")
    \/ part = "oAuthRelays" /\ Relayed!Next /\ Only("relays")
    \/ part = "share" /\ Shares!Next /\ Only("share")
    \/ part = "chain" /\ Chain!Next /\ Only("messages")
    \/ part = "repeats" /\ Repeats!Next /\ Only("messages")
    \/ part = "renames" /\ Renames!Next /\ Only("messages")
    \/ part = "link" /\ Link!Next /\ Only("link")
    \/ part = "hostCalls" /\ HostLink!Next /\ Only("hostCalls")

ControlSpec == ControlInit /\ [][ControlNext]_all

-----------------------------------------------------------------------------
(* A request wakes a phone once and no send overlaps another; only a refused  *)
(* token is forgotten and a failed fetch is shared; a passkey's counter never *)
(* goes back.                                                                 *)
ControlSteps == [][
    /\ Wakes!OneWakePerRequest /\ Wakes!NoOverlappingSend
    /\ Fcm!OnlyRefusedForgotten /\ Fcm!FailureIsShared
    /\ Browsers!CounterAscends]_all
=============================================================================
