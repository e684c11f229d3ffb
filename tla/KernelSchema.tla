---------------------------- MODULE KernelSchema ----------------------------
(***************************************************************************)
(* Opening a kernel database: the lease that keeps other processes away,   *)
(* the migrations of older schemas, each a transaction that a stop of the  *)
(* process undoes, and the release of finished effect requests that the    *)
(* last one brings.  A file is one operation with its effects, at some     *)
(* schema version.  The path may be given another file at any time.        *)
(***************************************************************************)
EXTENDS Naturals, FiniteSets

CONSTANTS
  Processes,
  Effects,      \* effects of the operation
  Files,        \* files the path may name, one after the other
  MaxCrashes    \* bound: stops of processes

SchemaVersion == 4

Statuses == {"intent", "settled", "unknown"}

\* A database of an older, this or a newer program.  Before version 3 an
\* effect has no batch; `triggers' is the release of finished requests.
Contents ==
  [version : 0..5, sound : BOOLEAN, done : BOOLEAN, status : [Effects -> Statuses],
   batch : [Effects -> Effects], requests : SUBSET Effects, triggers : BOOLEAN]

Settled(c, e) == \A d \in Effects : c.batch[d] = c.batch[e] => c.status[d] = "settled"

\* finished_effect_requests.
Finished(c) == {e \in Effects : c.done /\ Settled(c, e)}

\* What programs of each version leave behind; batches are their effects'
\* names before version 3, where they do not exist.
Stored ==
  {c \in Contents :
     /\ c.done => \A e \in Effects : c.status[e] # "intent"
     /\ c.version = 0 => ~c.done /\ \A e \in Effects : c.status[e] = "intent"
     /\ c.version < 3 => \A e \in Effects : c.batch[e] = e
     /\ c.version >= 3 => \E b \in Effects : \A e \in Effects : c.batch[e] \in {b, e}
     /\ c.requests = IF c.version < 4 THEN Effects ELSE Effects \ Finished(c)
     /\ c.triggers => c.version >= 4}

VARIABLES
  file,     \* what each file holds
  path,     \* the file the path names
  lock,     \* the process that holds the owner lock
  proc,     \* each process: its place and the file it opened
  crashes

vars == <<file, path, lock, proc, crashes>>

Closed == [pc |-> "closed", f |-> 0]

Init ==
  /\ file \in [Files -> Stored]
  /\ path = 1 /\ lock = "free" /\ crashes = 0
  /\ proc = [p \in Processes |-> Closed]

At(p, pc) == proc[p].pc = pc
Go(p, pc) == proc' = [proc EXCEPT ![p].pc = pc]
Of(p) == file[proc[p].f]

\* A handle is dropped, or its process stops: the lock goes with it.
Drop(p) ==
  /\ proc' = [proc EXCEPT ![p] = Closed]
  /\ lock' = IF lock = p THEN "free" ELSE lock

-----------------------------------------------------------------------------
(* DatabaseLease.                                                          *)

OpenFile(p) ==
  /\ At(p, "closed")
  /\ proc' = [proc EXCEPT ![p] = [pc |-> "opened", f |-> path]]
  /\ UNCHANGED <<file, path, lock, crashes>>

TryLock(p) ==
  /\ At(p, "opened")
  /\ IF lock = "free" THEN lock' = p /\ Go(p, "locked") ELSE Drop(p)
  /\ UNCHANGED <<file, path, crashes>>

\* The path still names the file that was opened.
ValidateIdentity(p) ==
  /\ At(p, "locked")
  /\ IF proc[p].f = path THEN Go(p, "leased") /\ UNCHANGED lock ELSE Drop(p)
  /\ UNCHANGED <<file, path, crashes>>

-----------------------------------------------------------------------------
(* initialize.                                                             *)

Commit(p, c) ==
  /\ file' = [file EXCEPT ![proc[p].f] = c]
  /\ Go(p, "migrating") /\ UNCHANGED <<path, lock, crashes>>

\* validate_database: foreign keys and state versions, before anything changes.
Supported(c) == c.version <= SchemaVersion /\ (c.version = 0 \/ c.sound)

\* Migrations run on a database found sound at the start.
Migrating(p, v) ==
  /\ proc[p].pc \in {"leased", "migrating"}
  /\ Of(p).version = v /\ (At(p, "leased") => Supported(Of(p)))

Create(p) ==
  /\ Migrating(p, 0)
  /\ Commit(p, [Of(p) EXCEPT !.version = SchemaVersion, !.triggers = TRUE, !.sound = TRUE])

\* The cancellations get their table.
MigrateV1ToV2(p) ==
  /\ Migrating(p, 1)
  /\ Commit(p, [Of(p) EXCEPT !.version = 2])

\* Every effect becomes a batch of its own, under its own name.
MigrateV2ToV3(p) ==
  /\ Migrating(p, 2)
  /\ Commit(p, [Of(p) EXCEPT !.version = 3, !.batch = [e \in Effects |-> e]])

\* The release is installed and what has finished is released, at once.
MigrateV3ToV4(p) ==
  /\ Migrating(p, 3)
  /\ Commit(p, [Of(p) EXCEPT !.version = 4, !.triggers = TRUE, !.requests = @ \ Finished(Of(p))])

\* A transaction that fails is undone, and the open with it.
MigrationFails(p) ==
  /\ \E v \in 0..3 : Migrating(p, v)
  /\ Drop(p) /\ UNCHANGED <<file, path, crashes>>

\* validate_current, at the end of a migration or at once.
ValidateCurrent(p) ==
  /\ proc[p].pc \in {"leased", "migrating"}
  /\ Of(p).version >= SchemaVersion \/ (At(p, "leased") /\ ~Supported(Of(p)))
  /\ IF Of(p).version = SchemaVersion /\ Of(p).sound /\ Of(p).triggers
     THEN Go(p, "ready") /\ UNCHANGED lock
     ELSE Drop(p)
  /\ UNCHANGED <<file, path, crashes>>

-----------------------------------------------------------------------------
(* The running kernel, as far as it touches requests.                      *)

\* connection: refused once the path names another file.
Write(p, c) ==
  /\ proc[p].f = path
  /\ file' = [file EXCEPT ![proc[p].f] = c]
  /\ UNCHANGED <<path, lock, proc, crashes>>

SettleEffect(p, e, status) ==
  /\ At(p, "ready")
  /\ ~Of(p).done /\ Of(p).status[e] = "intent" /\ status # "intent"
  /\ Write(p, [Of(p) EXCEPT !.status[e] = status])

\* The operation ends; the trigger releases its finished requests.
FinishOperation(p) ==
  /\ At(p, "ready")
  /\ ~Of(p).done /\ \A e \in Effects : Of(p).status[e] # "intent"
  /\ LET c == [Of(p) EXCEPT !.done = TRUE] IN Write(p, [c EXCEPT !.requests = @ \ Finished(c)])

Close(p) ==
  /\ At(p, "ready") /\ Drop(p) /\ UNCHANGED <<file, path, crashes>>

Crash(p) ==
  /\ crashes < MaxCrashes /\ ~At(p, "closed")
  /\ Drop(p) /\ crashes' = crashes + 1 /\ UNCHANGED <<file, path>>

\* The path is given another file.
Replace ==
  /\ path + 1 \in Files
  /\ path' = path + 1 /\ UNCHANGED <<file, lock, proc, crashes>>

Migrate(p) ==
  \/ Create(p) \/ MigrateV1ToV2(p) \/ MigrateV2ToV3(p) \/ MigrateV3ToV4(p)
Opening(p) ==
  \/ OpenFile(p) \/ TryLock(p) \/ ValidateIdentity(p) \/ Migrate(p) \/ ValidateCurrent(p)

Next ==
  \/ \E p \in Processes :
       \/ Opening(p) \/ MigrationFails(p) \/ FinishOperation(p) \/ Close(p) \/ Crash(p)
       \/ \E e \in Effects, s \in Statuses : SettleEffect(p, e, s)
  \/ Replace

\* Somebody opens the database again and again, a migration does not fail
\* for ever, and the process that has it open lets it go.
Fairness ==
  \A p \in Processes :
    /\ WF_vars(OpenFile(p) \/ ValidateIdentity(p) \/ ValidateCurrent(p))
    /\ SF_vars(TryLock(p) /\ lock = "free") /\ SF_vars(Migrate(p)) /\ WF_vars(Close(p))

Spec == Init /\ [][Next]_vars
FairSpec == Spec /\ Fairness

-----------------------------------------------------------------------------
(* Properties.                                                             *)

Holding == {p \in Processes : proc[p].pc \in {"locked", "leased", "migrating", "ready"}}

\* One process migrates or runs the database at a time, and it has the lock.
TypeOK ==
  /\ \A f \in Files : file[f] \in Contents
  /\ Holding = IF lock = "free" THEN {} ELSE {lock}

\* In a database of the current schema a request is gone exactly when its
\* operation and its whole batch have finished, whether it finished under
\* this program or under one that kept its requests.
ReleasedAtOnce ==
  \A f \in Files :
    file[f].version = SchemaVersion => file[f].requests = Effects \ Finished(file[f])

\* A migration loses no effect's outcome and moves no effect into a batch
\* with others.
OutcomesKept ==
  \A f \in Files :
       file'[f].version # file[f].version =>
         /\ file'[f].status = file[f].status /\ file'[f].done = file[f].done
         /\ \A d, e \in Effects : file'[f].batch[d] = file'[f].batch[e] => file[f].batch[d] = file[f].batch[e]

\* A newer or a damaged database is left as it was found.
RefusedUntouched ==
  \A f \in Files :
       file[f].version > SchemaVersion \/ (file[f].version > 0 /\ ~file[f].sound) => file'[f] = file[f]

\* A lease is on the file its path names, also when the path was given
\* another one while the file was being opened.
LeasedFile ==
  \A p \in Processes : ~At(p, "leased") /\ proc'[p].pc = "leased" => proc[p].f = path

\* A sound older database ends at the current schema, however often the
\* process stops on the way.
Upgrades == file[path].sound => file[path].version >= SchemaVersion
=============================================================================
