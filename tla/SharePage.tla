------------------------------ MODULE SharePage ------------------------------
(***************************************************************************)
(* Opening a shared file at the coordinator (crates/renoa-control           *)
(* share_links, share_page_http).  The file lives on the owner's Host and   *)
(* is fetched part by part while it may change; a link carries a ticket     *)
(* that is spent when the first part is there.  A version stands for the    *)
(* content, its hash and its size.                                          *)
(***************************************************************************)
EXTENDS Integers, Sequences, FiniteSets

CONSTANTS
    Readers,     \* requests for the page
    Tickets,     \* share tickets of the file
    Parts,       \* parts the file is described with
    MaxVersion,  \* bound: edits of the file
    None

SharePageAssumption == Parts \in Nat /\ MaxVersion \in Nat /\ None \notin Readers \cup Tickets

VARIABLES
    file,    \* version of the file, 0: no longer shared
    ticket,  \* share_tickets: issued and neither spent nor expired
    page     \* per request: step, ticket, version described, parts read, parts sent

vars == <<file, ticket, page>>
Start == [step |-> "idle", ticket |-> None, described |-> 0, read |-> <<>>, sent |-> 0]
Init == file = 1 /\ ticket = {} /\ page = [r \in Readers |-> Start]

IssueTicket(t) == t \notin ticket /\ (\A r \in Readers : page[r].ticket # t) /\ ticket' = ticket \cup {t} /\ UNCHANGED <<file, page>>
Expire(t) == t \in ticket /\ ticket' = ticket \ {t} /\ UNCHANGED <<file, page>>
Edit == file \in 1..MaxVersion /\ file' = file + 1 /\ UNCHANGED <<ticket, page>>
Unshare == file # 0 /\ file' = 0 /\ UNCHANGED <<ticket, page>>

Set(r, q) == page' = [page EXCEPT ![r] = q]

(* reader: the ticket is looked at, or the browser has a session (None).    *)
Open(r, t) ==
    /\ page[r].step = "idle" /\ (t = None \/ t \in ticket)
    /\ Set(r, [page[r] EXCEPT !.step = "describe", !.ticket = t])
    /\ UNCHANGED <<file, ticket>>

(* The Host describes the file and sends its parts, unless it is not        *)
(* reached or does not know the file any more.                              *)
Describe(r, reached) ==
    /\ page[r].step = "describe"
    /\ Set(r, IF ~reached \/ file = 0 THEN [page[r] EXCEPT !.step = "error"]
              ELSE [page[r] EXCEPT !.described = file, !.step = IF Parts = 0 THEN "redeem" ELSE "first"])
    /\ UNCHANGED <<file, ticket>>

(* part: its length must fit the description, and the last one completes    *)
(* the hash before it is handed on.                                         *)
Fits(q, sameSize) ==
    /\ file # 0 /\ (file = q.described \/ sameSize)
    /\ Len(q.read) + 1 = Parts => \A v \in {q.read[i] : i \in 1..Len(q.read)} \cup {file} : v = q.described
Part(r, reached, sameSize) ==
    LET q == page[r] IN
    /\ q.step = "first" \/ (q.step = "stream" /\ q.sent = Len(q.read) /\ q.sent < Parts)
    /\ IF reached /\ Fits(q, sameSize)
       THEN Set(r, [q EXCEPT !.read = Append(@, file), !.step = IF q.step = "first" THEN "redeem" ELSE "stream"])
       ELSE Set(r, [q EXCEPT !.step = IF q.step = "first" THEN "error" ELSE "cut"])
    /\ UNCHANGED <<file, ticket>>

(* redeem_share_ticket: one DELETE decides which request is served.         *)
Redeems(t) == t = None \/ t \in ticket
Redeem(r) ==
    LET q == page[r] IN
    /\ q.step = "redeem"
    /\ ticket' = ticket \ {q.ticket}
    /\ Set(r, [q EXCEPT !.step = IF Redeems(q.ticket) THEN "stream" ELSE "error"])
    /\ UNCHANGED file

Send(r) ==
    /\ page[r].step = "stream" /\ page[r].sent < Len(page[r].read)
    /\ Set(r, [page[r] EXCEPT !.sent = @ + 1])
    /\ UNCHANGED <<file, ticket>>

Step(r) ==
    \/ Redeem(r) \/ Send(r)
    \/ \E reached \in BOOLEAN : Describe(r, reached) \/ \E sameSize \in BOOLEAN : Part(r, reached, sameSize)
Next ==
    \/ Edit \/ Unshare
    \/ \E t \in Tickets : IssueTicket(t) \/ Expire(t)
    \/ \E r \in Readers : Step(r) \/ \E t \in Tickets \cup {None} : Open(r, t)
Spec == Init /\ [][Next]_vars /\ \A r \in Readers : WF_vars(Step(r))
-----------------------------------------------------------------------------
Complete(r) == page[r].step = "stream" /\ page[r].sent = Parts

(* Types; nothing is sent that was not read.                                *)
TypeOK == \A r \in Readers : page[r].sent <= Len(page[r].read) /\ Len(page[r].read) <= Parts

(* A body that was sent to its full length is one version of the file, the  *)
(* one that was described, however the file changed between the parts.      *)
WholeOrCut ==
    \A r \in Readers : Complete(r) => \A i \in 1..Parts : page[r].read[i] = page[r].described

(* A link is opened once: of the requests that carry one ticket at most one *)
(* is answered with the file.                                               *)
TicketServesOnce ==
    \A r, q \in Readers : (page[r].ticket # None /\ page[r].ticket = page[q].ticket
                           /\ {page[r].step, page[q].step} \subseteq {"stream", "cut"}) => r = q

(* Every request ends: with the whole body, cut short or refused.           *)
PageEnds ==
    \A r \in Readers : page[r].step = "idle" \/ Complete(r) \/ page[r].step \in {"error", "cut"}
=============================================================================
