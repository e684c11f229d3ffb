--------------------------- MODULE SessionStorage ---------------------------
(***************************************************************************)
(* One session's directory, as the processes of a data root create, open   *)
(* and delete it.  Creation and deletion hold the lifecycle lock; a        *)
(* session is staged under a hidden name and published by a rename, and    *)
(* deleted by a rename to a tombstone.  Its kernel database is open in one *)
(* process.  runtime.jsonl holds its model selections.  A process may stop *)
(* between any two steps, which frees its locks.                           *)
(***************************************************************************)
EXTENDS Integers, Sequences

CONSTANTS Processes,
          Overlaps,       \* a session may be ensured while its deletion is asked for or unfinished
          MaxSelections, MaxStops, MaxFailures

StorageAssumption ==
  /\ Overlaps \in BOOLEAN /\ MaxSelections \in Nat /\ MaxStops \in Nat /\ MaxFailures \in Nat

VARIABLES lock,       \* who holds .session-creation.lock
          staging, live, tomb,   \* the files under .creating-, the id and .deleting-
          kernel,     \* who has the kernel database open
          log, torn,  \* the complete records of runtime.jsonl, and whether a partial one follows
          joined,     \* the record being written began after a partial one
          rows,       \* the catalog and the skill store name the session
          pc, chosen, \* where each process is, and the selection it runs with
          acked,      \* the last selection a change was acknowledged for
          wanted,     \* the process asked to delete the session, until it has answered
          stops, failures
vars == <<lock, staging, live, tomb, kernel, log, torn, joined, rows, pc, chosen, acked, wanted, stops, failures>>
files == <<staging, live, tomb>>
records == <<log, torn, joined>>
counts == <<stops, failures>>

Parts == <<"manifest", "selection", "kernel", "trace">>
Absent == {"absent"}
Whole == {"manifest", "selection", "kernel", "trace"}

Init ==
  /\ lock = "free" /\ staging = Absent /\ live = Absent /\ tomb = Absent /\ kernel = "none"
  /\ log = <<>> /\ torn = FALSE /\ joined = FALSE /\ rows = [catalog |-> FALSE, skills |-> FALSE]
  /\ pc = [p \in Processes |-> "idle"] /\ chosen = [p \in Processes |-> 0]
  /\ acked = 0 /\ wanted = "none" /\ stops = 0 /\ failures = 0

Goes(p, where) == pc' = [pc EXCEPT ![p] = where]

-----------------------------------------------------------------------------
(* Creating and opening.                                                   *)

\* ensure_agent_session: an existing directory is loaded, else one is created.
Ensure(p) ==
  /\ pc[p] = "idle" /\ (Overlaps \/ wanted = "none")
  /\ Goes(p, IF live # Absent THEN "load" ELSE "create")
  /\ UNCHANGED files /\ UNCHANGED records /\ UNCHANGED counts /\ UNCHANGED <<lock, kernel, rows, chosen, acked, wanted>>

\* session_lifecycle_lock, then publish_session_locked's first check; an
\* existing directory is opened as it is.
BeginCreate(p) ==
  /\ pc[p] = "create" /\ lock = "free" /\ lock' = p
  /\ IF live # Absent
     THEN Goes(p, "take") /\ UNCHANGED staging
     ELSE Goes(p, "stage") /\ staging' = {}   \* remove_stale_staging, create_dir
  /\ UNCHANGED <<live, tomb>> /\ UNCHANGED records /\ UNCHANGED counts /\ UNCHANGED <<kernel, rows, chosen, acked, wanted>>

\* write_manifest, create_selection_log, LocalSession::create and TraceStore::create
Stage(p) ==
  /\ pc[p] = "stage"
  /\ \E n \in 1..4 :
       /\ Parts[n] \notin staging /\ \A m \in 1..(n - 1) : Parts[m] \in staging
       /\ staging' = staging \cup {Parts[n]}
  /\ UNCHANGED <<live, tomb, pc>> /\ UNCHANGED records /\ UNCHANGED counts
  /\ UNCHANGED <<lock, kernel, rows, chosen, acked, wanted>>

\* An initialization error removes the staging directory.
StageFails(p) ==
  /\ pc[p] = "stage" /\ failures < MaxFailures /\ failures' = failures + 1
  /\ staging' = Absent /\ lock' = "free" /\ Goes(p, "idle")
  /\ UNCHANGED <<live, tomb>> /\ UNCHANGED records /\ UNCHANGED <<kernel, rows, chosen, acked, wanted, stops>>

\* The rename; the log in it holds the first selection.
Publish(p) ==
  /\ pc[p] = "stage" /\ staging = Whole
  /\ live' = staging /\ staging' = Absent
  /\ log' = <<1>> /\ torn' = FALSE /\ joined' = FALSE /\ acked' = 1
  /\ Goes(p, "take")
  /\ UNCHANGED tomb /\ UNCHANGED counts /\ UNCHANGED <<lock, kernel, rows, chosen, wanted>>

\* open_session_storage and require_directory
BeginOpen(p) ==
  /\ pc[p] = "load" /\ lock = "free"
  /\ IF live # Absent THEN lock' = p /\ Goes(p, "take") ELSE UNCHANGED lock /\ Goes(p, "idle")
  /\ UNCHANGED files /\ UNCHANGED records /\ UNCHANGED counts /\ UNCHANGED <<kernel, rows, chosen, acked, wanted>>

\* load_session_after_handoff takes a free kernel, or waits 100 ms and gives up;
\* the lifecycle lock is freed before the selection is read.
Take(p) ==
  /\ pc[p] = "take" /\ kernel = "none" /\ kernel' = p /\ lock' = "free" /\ Goes(p, "read")
  /\ UNCHANGED files /\ UNCHANGED records /\ UNCHANGED counts /\ UNCHANGED <<rows, chosen, acked, wanted>>
Busy(p) ==
  /\ pc[p] \in {"take", "kill"} /\ kernel \notin {"none", p} /\ lock' = "free" /\ Goes(p, "idle")
  /\ UNCHANGED files /\ UNCHANGED records /\ UNCHANGED counts /\ UNCHANGED <<kernel, rows, chosen, acked, wanted>>

\* read_selection cuts a partial record off and takes the last complete one;
\* a line that does not parse fails the open.
ReadSelection(p) ==
  /\ pc[p] = "read" /\ torn' = FALSE /\ UNCHANGED <<log, joined>>
  /\ IF \E n \in DOMAIN log : log[n] = 0
     THEN Goes(p, "idle") /\ kernel' = "none" /\ UNCHANGED chosen
     ELSE Goes(p, "open") /\ chosen' = [chosen EXCEPT ![p] = log[Len(log)]] /\ UNCHANGED kernel
  /\ UNCHANGED files /\ UNCHANGED counts /\ UNCHANGED <<lock, rows, acked, wanted>>

\* A turn adds the session's rows to the catalog and the skill store.
Turn(p) ==
  /\ pc[p] = "open" /\ rows' = [catalog |-> TRUE, skills |-> TRUE] /\ rows # rows'
  /\ UNCHANGED files /\ UNCHANGED records /\ UNCHANGED counts /\ UNCHANGED <<lock, kernel, pc, chosen, acked, wanted>>

\* validate_and_persist: write_record in parts, then the newline and the sync.
AppendBegins(p) ==
  /\ pc[p] = "open" /\ Len(log) < MaxSelections
  /\ Goes(p, "append") /\ joined' = torn /\ torn' = TRUE
  /\ UNCHANGED files /\ UNCHANGED log /\ UNCHANGED counts /\ UNCHANGED <<lock, kernel, rows, chosen, acked, wanted>>
AppendEnds(p) ==
  /\ pc[p] = "append" /\ Goes(p, "appended")
  /\ log' = Append(log, IF joined THEN 0 ELSE chosen[p] + 1) /\ torn' = FALSE /\ UNCHANGED joined
  /\ UNCHANGED files /\ UNCHANGED counts /\ UNCHANGED <<lock, kernel, rows, chosen, acked, wanted>>
AppendAcked(p) ==
  /\ pc[p] = "appended" /\ Goes(p, "open")
  /\ chosen' = [chosen EXCEPT ![p] = @ + 1] /\ acked' = chosen[p] + 1
  /\ UNCHANGED files /\ UNCHANGED records /\ UNCHANGED counts /\ UNCHANGED <<lock, kernel, rows, wanted>>
\* A write error ends the change; the session goes on with its selection.
AppendFails(p) ==
  /\ pc[p] = "append" /\ failures < MaxFailures /\ failures' = failures + 1 /\ Goes(p, "open")
  /\ UNCHANGED files /\ UNCHANGED records /\ UNCHANGED <<lock, kernel, rows, chosen, acked, wanted, stops>>

\* The last holder drops the session.
Close(p) ==
  /\ pc[p] = "open" /\ kernel' = "none" /\ Goes(p, "idle")
  /\ UNCHANGED files /\ UNCHANGED records /\ UNCHANGED counts /\ UNCHANGED <<lock, rows, chosen, acked, wanted>>

-----------------------------------------------------------------------------
(* Deleting.                                                               *)

\* The owner of the session asks, and asks again until it is answered.
Want(p) ==
  /\ wanted = "none" /\ wanted' = p
  /\ Overlaps \/ \A q \in Processes : pc[q] \notin {"create", "load", "stage", "take"}
  /\ UNCHANGED files /\ UNCHANGED records /\ UNCHANGED counts /\ UNCHANGED <<lock, kernel, rows, pc, chosen, acked>>

\* delete_session_storage's checks, under the lock: with no directory only a
\* tombstone is left to remove; with both it refuses.
BeginDelete(p) ==
  /\ pc[p] = "idle" /\ wanted = p /\ lock = "free"
  /\ \/ live # Absent /\ tomb = Absent /\ lock' = p /\ Goes(p, "kill")
     \/ live = Absent /\ lock' = p /\ Goes(p, "bury")
     \/ live # Absent /\ tomb # Absent /\ UNCHANGED <<lock, pc>>
  /\ UNCHANGED files /\ UNCHANGED records /\ UNCHANGED counts /\ UNCHANGED <<kernel, rows, chosen, acked, wanted>>

\* The kernel is owned while the directory is renamed, then let go.
Kill(p) ==
  /\ pc[p] = "kill" /\ kernel = "none" /\ UNCHANGED kernel
  /\ tomb' = live /\ live' = Absent /\ Goes(p, "bury")
  /\ UNCHANGED staging /\ UNCHANGED records /\ UNCHANGED counts /\ UNCHANGED <<lock, rows, chosen, acked, wanted>>

\* remove_tombstone removes it file by file.
Bury(p) ==
  /\ pc[p] = "bury"
  /\ IF tomb \in {Absent, {}}
     THEN tomb' = Absent /\ lock' = "free" /\ Goes(p, "forget")
     ELSE (\E f \in tomb : tomb' = tomb \ {f}) /\ UNCHANGED <<lock, pc>>
  /\ UNCHANGED <<staging, live>> /\ UNCHANGED records /\ UNCHANGED counts /\ UNCHANGED <<kernel, rows, chosen, acked, wanted>>

\* The catalog transaction, then the skills; only then is the answer given.
Forget(p) ==
  /\ pc[p] = "forget" /\ rows' = [rows EXCEPT !.catalog = FALSE] /\ Goes(p, "unskill")
  /\ UNCHANGED files /\ UNCHANGED records /\ UNCHANGED counts /\ UNCHANGED <<lock, kernel, chosen, acked, wanted>>
ForgetSkills(p) ==
  /\ pc[p] = "unskill" /\ rows' = [rows EXCEPT !.skills = FALSE] /\ Goes(p, "idle") /\ wanted' = "none"
  /\ UNCHANGED files /\ UNCHANGED records /\ UNCHANGED counts /\ UNCHANGED <<lock, kernel, chosen, acked>>

-----------------------------------------------------------------------------
\* The process stops: the system frees its lock and its kernel.
Stop(p) ==
  /\ pc[p] # "idle" /\ stops < MaxStops /\ stops' = stops + 1 /\ Goes(p, "idle")
  /\ lock' = IF lock = p THEN "free" ELSE lock
  /\ kernel' = IF kernel = p THEN "none" ELSE kernel
  /\ UNCHANGED files /\ UNCHANGED records /\ UNCHANGED <<rows, chosen, acked, wanted, failures>>

Deletes(p) == BeginDelete(p) \/ Kill(p) \/ Bury(p) \/ Forget(p) \/ ForgetSkills(p)
Next ==
  \/ \E p \in Processes :
       \/ Want(p) \/ Ensure(p) \/ BeginCreate(p) \/ Stage(p) \/ StageFails(p) \/ Publish(p) \/ BeginOpen(p) \/ Take(p) \/ Busy(p)
       \/ ReadSelection(p) \/ Turn(p) \/ AppendBegins(p) \/ AppendEnds(p) \/ AppendAcked(p) \/ AppendFails(p) \/ Close(p)
       \/ Deletes(p) \/ Stop(p)

\* An operation that began goes on, a file lock is granted in turn, the owner
\* retries the deletion it asked for, and a session is closed in the end.
Fairness ==
  \A p \in Processes :
    /\ WF_vars(Stage(p)) /\ WF_vars(Publish(p)) /\ WF_vars(Take(p)) /\ WF_vars(Busy(p)) /\ WF_vars(ReadSelection(p))
    /\ SF_vars(BeginCreate(p)) /\ SF_vars(BeginOpen(p)) /\ SF_vars(BeginDelete(p))
    /\ WF_vars(AppendEnds(p)) /\ WF_vars(AppendAcked(p)) /\ SF_vars(Close(p))
    /\ SF_vars(Kill(p)) /\ WF_vars(Bury(p)) /\ WF_vars(Forget(p)) /\ WF_vars(ForgetSkills(p))
Spec == Init /\ [][Next]_vars
FairSpec == Spec /\ Fairness

-----------------------------------------------------------------------------
Opened(p) == pc[p] \in {"read", "open", "append", "appended"}

\* The state keeps its shape, and who works under the lifecycle lock holds it.
TypeOK ==
  /\ lock \in Processes \cup {"free"} /\ kernel \in Processes \cup {"none"}
  /\ \A d \in {staging, live, tomb} : d = Absent \/ d \subseteq Whole
  /\ Len(log) <= MaxSelections /\ torn \in BOOLEAN /\ acked \in 0..MaxSelections
  /\ \A p \in Processes : pc[p] \in {"stage", "take", "kill", "bury"} <=> lock = p

\* A session that can be found is whole, whenever its creation or its deletion
\* was interrupted.
FoundIsWhole == live = Absent \/ live = Whole

\* No directory is deleted, replaced or staged over while a process has the
\* session open.
OpenKeepsDirectory ==
  \A p \in Processes : Opened(p) => kernel = p /\ live = Whole

\* Whoever opens a session runs with the latest selection that was acknowledged,
\* or a later one that was written.
LatestSelection == \A p \in Processes : pc[p] \in {"open", "append", "appended"} => chosen[p] >= acked

=============================================================================
