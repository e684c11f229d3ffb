-------------------------- MODULE PackageRegistry ---------------------------
(***************************************************************************)
(* The shared plugin registry: the service that keeps immutable package    *)
(* archives under gapless revisions (crates/renoa-registry) and the        *)
(* processes of the Hosts that publish to it and follow it by a cursor     *)
(* (crates/renoa-local/src/shared_registry).                               *)
(***************************************************************************)
EXTENDS Naturals, Sequences, FiniteSets, SequencesExt

CONSTANTS
  Syncers,      \* synchronizations, one at a time in each process
  HostOf,       \* the Host whose catalog each one uses
  Packages,
  Owned,        \* the packages the owner installs by hand, by Host
  ArchiveOf,    \* the archive each synchronization builds of a package
  Refused,      \* packages a Host's provider rules do not admit, by Host
  PageSize,     \* records of a page of changes (100 in the code)
  Slots,        \* bound: uploads at a time, those their clients left included
  Faults,       \* what may go wrong: request, body, stop, power, sync, commit, host, replace
  MaxFaults     \* bound: how often

Hosts == {HostOf[s] : s \in Syncers}
Archives == {ArchiveOf[s][p] : s \in Syncers, p \in Packages}
NoPackage == "no package"

VARIABLES
  log,        \* packages by revision: a sequence of package and archive
  identity,   \* of the registry at the endpoint
  open,       \* whether the service has opened its store: up, down or refused
  blobs,      \* archives in the blob directory
  unsynced,   \* those whose directory entry is not yet on disk
  doubtful,   \* those whose last sync failed
  uploads,    \* each upload of the service: its place, who sent what
  host,       \* each Host's catalog: packages, bound registry, cursor, failure
  sync,       \* each synchronization
  faults

server == <<log, identity, open, blobs, unsynced, doubtful>>
vars == <<server, uploads, host, sync, faults>>

Idle == [pc |-> "idle", id |-> 0, seen |-> 0, todo |-> {}, package |-> NoPackage, up |-> 0,
         page |-> <<>>, current |-> 0, from |-> 0, had |-> {}, goal |-> 0]
NoUpload == [pc |-> "none", by |-> "nobody", package |-> NoPackage]

Init ==
  /\ log = <<>> /\ identity = 1 /\ open = "up" /\ blobs = {} /\ unsynced = {} /\ doubtful = {} /\ faults = 0
  /\ uploads = [u \in Slots |-> NoUpload]
  /\ host = [h \in Hosts |-> [installed |-> {}, bound |-> 0, cursor |-> 0, failing |-> FALSE]]
  /\ sync = [s \in Syncers |-> Idle]

At(s, pc) == sync[s].pc = pc
Mine(s) == host[HostOf[s]]
Fault(kind) == kind \in Faults /\ faults < MaxFaults /\ faults' = faults + 1
Archive(u) == ArchiveOf[uploads[u].by][uploads[u].package]

\* The failure of a synchronization is recorded in a step of its own.
Failed(s) == [sync EXCEPT ![s].pc = "failed", ![s].up = 0]

\* The record of a package, by its revision; 0 when it has none.
Revision(p) == IF \E r \in DOMAIN log : log[r].package = p
               THEN CHOOSE r \in DOMAIN log : log[r].package = p ELSE 0

\* A record is served only if its archive is in the blob directory.
Served(p) == Revision(p) # 0 /\ log[Revision(p)].archive \in blobs

-----------------------------------------------------------------------------
(* An upload at the service.                                               *)

\* Its handler is dropped with its connection, so that nobody is told.
Waited(u) == sync[uploads[u].by].up = u

Answer(u, pc) ==
  IF Waited(u) THEN [sync EXCEPT ![uploads[u].by] = [@ EXCEPT !.pc = pc, !.up = 0, !.from = identity]] ELSE sync

End(u) == uploads' = [uploads EXCEPT ![u] = NoUpload]

\* Without its handler nothing removes the staged file.
Discard(u) == uploads' = [uploads EXCEPT ![u] = IF Waited(u) THEN NoUpload ELSE [@ EXCEPT !.pc = "left"]]

Writing(u) == uploads[u].pc \in {"renamed", "inserting"}

\* The archive arrives complete, of the declared length and digest.
ReceiveArchive(u) ==
  /\ open = "up" /\ uploads[u].pc = "receiving" /\ Waited(u)
  /\ uploads' = [uploads EXCEPT ![u].pc = "received"]
  /\ UNCHANGED <<server, host, sync, faults>>

\* It does not within five minutes, or differs, or its client went away.
RejectBody(u) ==
  /\ open = "up" /\ uploads[u].pc = "receiving" /\ Discard(u)
  /\ IF Waited(u) THEN Fault("body") /\ sync' = Failed(uploads[u].by)
     ELSE UNCHANGED <<faults, sync>>
  /\ UNCHANGED <<server, host>>

Publish(u) ==
  /\ open = "up" /\ uploads[u].pc = "received" /\ \A v \in Slots : ~Writing(v)
  /\ UNCHANGED <<log, identity, open, doubtful, host, faults>>
  /\ LET r == Revision(uploads[u].package) IN
     \/ /\ r # 0 /\ log[r].archive # Archive(u)
        /\ Discard(u) /\ sync' = Answer(u, "failed") /\ UNCHANGED <<blobs, unsynced>>
     \/ /\ r # 0 /\ log[r].archive = Archive(u) /\ Archive(u) \in blobs
        /\ End(u) /\ sync' = Answer(u, "accepted") /\ UNCHANGED <<blobs, unsynced>>
     \/ /\ r = 0 /\ Archive(u) \in blobs
        /\ uploads' = [uploads EXCEPT ![u].pc = "inserting"] /\ UNCHANGED <<blobs, unsynced, sync>>
     \/ /\ r = 0 /\ Archive(u) \notin blobs
        /\ uploads' = [uploads EXCEPT ![u].pc = "renamed"]
        /\ blobs' = blobs \cup {Archive(u)} /\ unsynced' = unsynced \cup {Archive(u)}
        /\ UNCHANGED sync

\* The moved archive and its directory are synced, or the upload fails.
SyncBlob(u) ==
  /\ open = "up" /\ uploads[u].pc = "renamed"
  /\ \/ /\ uploads' = [uploads EXCEPT ![u].pc = "inserting"] /\ unsynced' = unsynced \ {Archive(u)}
        /\ doubtful' = doubtful \ {Archive(u)} /\ UNCHANGED <<sync, faults>>
     \/ Fault("sync") /\ End(u) /\ sync' = Answer(u, "failed")
        /\ doubtful' = doubtful \cup {Archive(u)} /\ UNCHANGED unsynced
  /\ UNCHANGED <<log, identity, open, blobs, host>>

\* The record gets the next revision and the transaction commits.
Insert(u) ==
  /\ open = "up" /\ uploads[u].pc = "inserting" /\ End(u)
  /\ \/ /\ log' = Append(log, [package |-> uploads[u].package, archive |-> Archive(u)])
        /\ sync' = Answer(u, "accepted") /\ UNCHANGED faults
     \/ Fault("commit") /\ sync' = Answer(u, "failed") /\ UNCHANGED log
  /\ UNCHANGED <<identity, open, blobs, unsynced, doubtful, host>>

-----------------------------------------------------------------------------
(* The service stops and opens its store again.                            *)

\* Who waits for an upload loses its connection; a staged file stays.
Drop == /\ sync' = [s \in Syncers |-> IF sync[s].up = 0 THEN sync[s] ELSE Failed(s)[s]]
        /\ uploads' = [u \in Slots |-> IF uploads[u].pc \in {"receiving", "received", "left"}
                                       THEN [uploads[u] EXCEPT !.pc = "left"] ELSE NoUpload]

Stop == /\ open = "up" /\ Fault("stop") /\ open' = "down" /\ Drop
        /\ UNCHANGED <<log, identity, blobs, unsynced, doubtful, host>>

PowerLoss == /\ open = "up" /\ Fault("power") /\ open' = "down" /\ Drop
             /\ blobs' = blobs \ unsynced /\ unsynced' = {} /\ UNCHANGED <<log, identity, doubtful, host>>

\* The endpoint names another registry from now on.
Replace == /\ open = "up" /\ Fault("replace") /\ Drop
           /\ identity' = identity + 1 /\ log' = <<>> /\ blobs' = {} /\ unsynced' = {} /\ doubtful' = {}
           /\ UNCHANGED <<open, host>>

Referenced == {log[r].archive : r \in DOMAIN log}

\* Opening removes staged files, verifies every record and its archive, and
\* removes the archives no record names.
OpenStoreBad ==
  /\ open = "down" /\ open' = IF Referenced \subseteq blobs THEN "up" ELSE "refused"
  /\ uploads' = [u \in Slots |-> NoUpload]
  /\ blobs' = {} /\ unsynced' = {}
  /\ UNCHANGED <<log, identity, doubtful, host, sync, faults>>
OpenStore ==
  /\ open = "down" /\ open' = IF Referenced \subseteq blobs THEN "up" ELSE "refused"
  /\ uploads' = [u \in Slots |-> NoUpload]
  /\ blobs' = IF Referenced \subseteq blobs THEN Referenced ELSE blobs
  /\ unsynced' = unsynced \cap blobs'
  /\ UNCHANGED <<log, identity, doubtful, host, sync, faults>>

-----------------------------------------------------------------------------
(* A Host's synchronization.                                               *)

Install(h, p) ==
  /\ p \in Owned[h] \ host[h].installed
  /\ host' = [host EXCEPT ![h].installed = @ \cup {p}] /\ UNCHANGED <<server, uploads, sync, faults>>

\* The registry's status; the Host binds to its identity once, and never
\* follows another one nor one that is behind it.
Bind(s) ==
  /\ At(s, "idle") /\ open = "up"
  /\ LET h == HostOf[s] IN
     /\ host' = [host EXCEPT ![h].bound = IF @ = 0 THEN identity ELSE @]
     /\ sync' = IF host'[h].bound # identity \/ Len(log) < host[h].cursor THEN Failed(s)
                ELSE [sync EXCEPT ![s] = [Idle EXCEPT !.pc = "listing", !.id = identity,
                                                      !.seen = host[h].cursor, !.goal = Len(log)]]
  /\ UNCHANGED <<server, uploads, faults>>

List(s) ==
  /\ At(s, "listing")
  /\ sync' = [sync EXCEPT ![s].pc = "publishing", ![s].todo = Mine(s).installed, ![s].had = Mine(s).installed]
  /\ UNCHANGED <<server, uploads, host, faults>>

\* Ask for each installed package, and build the archive of one that is not there.
AskFor(s) ==
  /\ At(s, "publishing") /\ open = "up"
  /\ \E p \in sync[s].todo :
     sync' = IF Served(p) THEN [sync EXCEPT ![s].todo = @ \ {p}]
             ELSE IF Revision(p) # 0 THEN Failed(s)
             ELSE [sync EXCEPT ![s].pc = "sending", ![s].package = p]
  /\ UNCHANGED <<server, uploads, host, faults>>

SendArchive(s) ==
  /\ At(s, "sending") /\ open = "up" /\ sync[s].up = 0
  /\ \E u \in Slots :
     /\ uploads[u] = NoUpload /\ \A v \in Slots : v < u => uploads[v] # NoUpload
     /\ uploads' = [uploads EXCEPT ![u] = [pc |-> "receiving", by |-> s, package |-> sync[s].package]]
     /\ sync' = [sync EXCEPT ![s].up = u]
  /\ UNCHANGED <<server, host, faults>>

\* The answer names the registry that took the archive.
Accepted(s) ==
  /\ At(s, "accepted")
  /\ sync' = IF sync[s].id # sync[s].from THEN Failed(s)
             ELSE [sync EXCEPT ![s].pc = "publishing", ![s].from = 0, ![s].todo = @ \ {sync[s].package}]
  /\ UNCHANGED <<server, uploads, host, faults>>

\* A page of the changes after the cursor, from one snapshot.
Changes(s) ==
  /\ At(s, "publishing") /\ sync[s].todo = {} /\ sync[s].page = <<>> /\ open = "up"
  /\ sync' = IF sync[s].id # identity \/ Len(log) < sync[s].seen THEN Failed(s)
             ELSE IF Len(log) = sync[s].seen THEN [sync EXCEPT ![s].pc = "succeeded", ![s].current = Len(log)]
             ELSE LET last == IF sync[s].seen + PageSize < Len(log) THEN sync[s].seen + PageSize ELSE Len(log) IN
                  [sync EXCEPT ![s].pc = "applying", ![s].current = Len(log),
                     ![s].page = [i \in 1..(last - sync[s].seen) |->
                                   [revision |-> sync[s].seen + i, package |-> log[sync[s].seen + i].package]]]
  /\ UNCHANGED <<server, uploads, host, faults>>

\* The next record's package is there already, or is downloaded and installed.
Apply(s) ==
  /\ At(s, "applying")
  /\ LET h == HostOf[s]  p == Head(sync[s].page).package IN
     \/ /\ p \in host[h].installed /\ sync' = [sync EXCEPT ![s].pc = "advancing"] /\ UNCHANGED host
     \/ /\ p \notin host[h].installed /\ open = "up" /\ Served(p) /\ p \notin Refused[h]
        /\ host' = [host EXCEPT ![h].installed = @ \cup {p}]
        /\ sync' = [sync EXCEPT ![s].pc = "advancing"]
     \/ /\ p \notin host[h].installed /\ open = "up" /\ ~(Served(p) /\ p \notin Refused[h])
        /\ sync' = Failed(s) /\ UNCHANGED host
  /\ UNCHANGED <<server, uploads, faults>>

Advance(s) ==
  /\ At(s, "advancing")
  /\ LET h == HostOf[s]
         r == Head(sync[s].page).revision
         c == IF r > host[h].cursor THEN r ELSE host[h].cursor IN
     IF host[h].bound # sync[s].id \/ r > host[h].cursor + 1 THEN sync' = Failed(s) /\ UNCHANGED host
     ELSE /\ host' = [host EXCEPT ![h].cursor = c]
          /\ sync' = [sync EXCEPT ![s].seen = c, ![s].page = Tail(@),
                                  ![s].pc = IF Len(sync[s].page) > 1 THEN "applying"
                                            ELSE IF c >= sync[s].current THEN "succeeded" ELSE "publishing"]
  /\ UNCHANGED <<server, uploads, faults>>

\* A request without an answer: nothing is tried again.
LoseRequest(s) ==
  /\ At(s, "publishing") \/ At(s, "sending") \/ At(s, "applying")
  /\ Fault("request") /\ sync' = Failed(s) /\ UNCHANGED <<server, uploads, host>>

\* The outcome is recorded on the Host: a failure, or the end of one.
RecordOutcome(s) ==
  /\ At(s, "failed") \/ At(s, "succeeded")
  /\ host' = [host EXCEPT ![HostOf[s]].failing = At(s, "failed")]
  /\ sync' = [sync EXCEPT ![s] = Idle] /\ UNCHANGED <<server, uploads, faults>>

\* The process of a synchronization stops.
StopHost(s) == /\ ~At(s, "idle") /\ Fault("host") /\ sync' = [sync EXCEPT ![s] = Idle]
               /\ UNCHANGED <<server, uploads, host>>

-----------------------------------------------------------------------------
UploadStep(u) == ReceiveArchive(u) \/ RejectBody(u) \/ Publish(u) \/ SyncBlob(u) \/ Insert(u)
SyncStep(s) == \/ List(s) \/ AskFor(s) \/ SendArchive(s) \/ Accepted(s) \/ Changes(s)
               \/ Apply(s) \/ Advance(s) \/ RecordOutcome(s)

Next ==
  \/ \E u \in Slots : UploadStep(u)
  \/ Stop \/ PowerLoss \/ Replace \/ OpenStore
  \/ \E h \in Hosts, p \in Packages : Install(h, p)
  \/ \E s \in Syncers : Bind(s) \/ SyncStep(s) \/ LoseRequest(s) \/ StopHost(s)

Spec == Init /\ [][Next]_vars

\* The service works on its uploads and is started again; a synchronization
\* goes on, and is asked for again: on every install, list and connect.  The
\* write transaction of the service is handed on.
FairSpec ==
  /\ Spec /\ WF_vars(OpenStore)
  /\ \A u \in Slots : WF_vars(UploadStep(u)) /\ SF_vars(Publish(u))
  /\ \A s \in Syncers : WF_vars(SyncStep(s)) /\ WF_vars(Bind(s))
  /\ \A h \in Hosts, p \in Packages : WF_vars(Install(h, p))

-----------------------------------------------------------------------------
TypeOK ==
  /\ \A r \in DOMAIN log : log[r].package \in Packages /\ log[r].archive \in Archives
  /\ open \in {"up", "down", "refused"} /\ blobs \subseteq Archives /\ unsynced \subseteq blobs
  /\ \A u \in Slots : uploads[u].pc \in {"none", "receiving", "received", "renamed", "inserting", "left"}
  /\ \A h \in Hosts : host[h].installed \subseteq Packages /\ host[h].cursor \in 0..Cardinality(Packages)
  /\ \A s \in Syncers :
       /\ sync[s].pc \in {"idle", "listing", "publishing", "sending", "accepted", "applying", "advancing",
                          "failed", "succeeded"}
       /\ sync[s].up # 0 => At(s, "sending") /\ uploads[sync[s].up].by = s
       /\ At(s, "applying") \/ At(s, "advancing") => sync[s].page # <<>>

\* Whatever stops, in the service or a Host, every revision up to a Host's
\* cursor is a package that Host has installed, while it is bound to the
\* registry at the endpoint.
CursorCovers ==
  \A h \in Hosts : host[h].bound = identity =>
    /\ host[h].cursor <= Len(log)
    /\ \A r \in 1..host[h].cursor : log[r].package \in host[h].installed

\* Every record's archive is kept, so that the service opens again, through
\* stops, failed commits and power losses. The exception is an archive whose
\* sync failed: the next upload of it takes the file as it is and commits its
\* record, and a power loss may then take the file and leave the record.
RecordsServed ==
  /\ Referenced \ doubtful \subseteq blobs
  /\ open = "refused" => Referenced \cap doubtful # {}

\* A package has one revision, however many Hosts publish it at once.
OneRevision == \A q, r \in DOMAIN log : log[q].package = log[r].package => q = r

\* A synchronization that succeeds leaves on its Host every package the
\* registry had when it began, and in the registry every one the Host listed.
SyncComplete ==
  \A s \in Syncers : At(s, "succeeded") /\ sync[s].id = identity =>
    /\ \A r \in 1..sync[s].goal : log[r].package \in Mine(s).installed
    /\ \A p \in sync[s].had : Revision(p) # 0

\* A registry's records are only added to; a record never changes its archive.
Immutable ==
  identity' = identity => IsPrefix(log, log')

\* A Host's cursor never goes back, and a Host bound to a registry never
\* follows another.
CursorMonotone ==
  \A h \in Hosts : /\ host'[h].cursor >= host[h].cursor
                   /\ host[h].bound # 0 => host'[h].bound = host[h].bound

\* In the end every Host has every package an owner installed on some Host.
Converges == \A h \in Hosts : host[h].installed = UNION {Owned[g] : g \in Hosts}
=============================================================================
