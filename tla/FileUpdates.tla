---------------------------- MODULE FileUpdates -----------------------------
(***************************************************************************)
(* Edits of one file by tools in several processes: agent_documents on a   *)
(* SOUL.md or a person's USER.md, against the revision the turn was shown, *)
(* edit_file, which changes one passage of what it read, and write_file.   *)
(* All take the file's advisory lock for their check, rename and sync; an  *)
(* outside editor does not.  A text is the set of its writers' marks.      *)
(***************************************************************************)
EXTENDS Naturals, FiniteSets

CONSTANTS
  Editors,      \* calls
  Kind,         \* what each one is: profile, soul, edit or write
  Missing,      \* whether the file and its directory are missing at first
  Outsiders,    \* bound: writes that take no lock
  MaxCrashes    \* bound: stops of processes

Documents == {"profile", "soul"}
NoFile == {"no file"}

VARIABLES
  file,      \* the text, or NoFile
  dir,       \* whether the file's directory is there
  lock,      \* the editor that holds the lock
  temps,     \* temporary files, by editor
  ed,        \* each call: its place, what it saw, what it was told
  outside,   \* writes of outsiders so far
  crashes

vars == <<file, dir, lock, temps, ed, outside, crashes>>

Init ==
  /\ dir = ~Missing /\ file = IF Missing THEN NoFile ELSE {}
  /\ lock = "free" /\ temps = {} /\ outside = 0 /\ crashes = 0
  /\ ed = [e \in Editors |->
            [pc |-> "idle", base |-> {}, expect |-> NoFile, told |-> "nothing", attempts |-> 0,
             applied |-> FALSE, late |-> FALSE]]

At(e, pc) == ed[e].pc = pc
Go(e, pc) == ed' = [ed EXCEPT ![e].pc = pc]
Tell(e, answer) == ed' = [ed EXCEPT ![e].pc = "done", ![e].told = answer]
Release(e) == lock' = IF lock = e THEN "free" ELSE lock

\* A missing profile reads as an empty one.
Text == IF file = NoFile THEN {} ELSE file

\* A document is replaced whole; edit_file changes its passage of what it read.
New(e) == IF Kind[e] = "edit" THEN ed[e].base \cup {e} ELSE {e}

-----------------------------------------------------------------------------
(* Before the lock.                                                        *)

\* The turn's prompt shows a document, whose revision the call repeats, or
\* makes up; edit_file reads its file.
Begin(e) ==
  /\ At(e, "idle") /\ (Kind[e] # "profile" => file # NoFile)
  /\ \E shown \in {Text} \cup {{"made up"} : d \in {Kind[e]} \cap Documents} :
     ed' = [ed EXCEPT ![e].base = shown, ![e].attempts = 1,
                      ![e].expect = IF Kind[e] = "edit" THEN file ELSE NoFile,
                      ![e].pc = IF Kind[e] = "profile" THEN "begun" ELSE "waiting"]
  /\ UNCHANGED <<file, dir, lock, temps, outside, crashes>>

\* PersonProfile::replace: a stale edit is refused before the person's
\* directory is made.
ReplaceProfile(e) ==
  /\ At(e, "begun")
  /\ IF Text = New(e) THEN Tell(e, "ok") /\ UNCHANGED dir
     ELSE IF Text # ed[e].base THEN Tell(e, "stale") /\ UNCHANGED dir
          ELSE Go(e, "waiting") /\ dir' = TRUE
  /\ UNCHANGED <<file, lock, temps, outside, crashes>>

-----------------------------------------------------------------------------
(* FileUpdate.                                                             *)

\* acquire: tried again every moment, until the call is cancelled.
Acquire(e) ==
  /\ At(e, "waiting") /\ lock = "free"
  /\ lock' = e /\ Go(e, IF Kind[e] \in Documents THEN "locked" ELSE "writing")
  /\ UNCHANGED <<file, dir, temps, outside, crashes>>

CancelWait(e) ==
  /\ At(e, "waiting") /\ Tell(e, "cancelled")
  /\ UNCHANGED <<file, dir, lock, temps, outside, crashes>>

\* replace_document, under the lock.
ReplaceDocument(e) ==
  /\ At(e, "locked")
  /\ IF Text = New(e) THEN Tell(e, "ok") /\ Release(e)
     ELSE IF Text # ed[e].base THEN Tell(e, "stale") /\ Release(e)
          ELSE ed' = [ed EXCEPT ![e].pc = "writing", ![e].expect = file] /\ UNCHANGED lock
  /\ UNCHANGED <<file, dir, temps, outside, crashes>>

CreateTemporary(e) ==
  /\ At(e, "writing") /\ temps' = temps \cup {e} /\ Go(e, "written")
  /\ UNCHANGED <<file, dir, lock, outside, crashes>>

\* A write, a sync or a rename that fails, or a cancellation before the
\* rename: cleanup_error.
GiveUp(e) ==
  /\ At(e, "written") \/ At(e, "verified")
  /\ \E answer \in {"failed", "cancelled"} : Tell(e, answer)
  /\ temps' = temps \ {e} /\ Release(e) /\ UNCHANGED <<file, dir, outside, crashes>>

\* write_file expects nothing, and neither does the first edit of a profile.
Changed(e) == ed[e].expect # NoFile /\ file # ed[e].expect

\* verify_expected_content.
Verify(e) ==
  /\ At(e, "written")
  /\ IF Changed(e)
     THEN Tell(e, "stale") /\ temps' = temps \ {e} /\ Release(e)
     ELSE Go(e, "verified") /\ UNCHANGED <<temps, lock>>
  /\ UNCHANGED <<file, dir, outside, crashes>>

\* replace_locked, from here on without a way back.
Rename(e) ==
  /\ At(e, "verified")
  /\ file' = New(e) /\ temps' = temps \ {e}
  /\ ed' = [ed EXCEPT ![e].pc = "renamed", ![e].applied = TRUE]
  /\ UNCHANGED <<dir, lock, outside, crashes>>

\* sync_parent: the rename stands, but may not be durable.
SyncParent(e) ==
  /\ At(e, "renamed") /\ \E answer \in {"ok", "unknown"} : Tell(e, answer)
  /\ Release(e) /\ UNCHANGED <<file, dir, temps, outside, crashes>>

-----------------------------------------------------------------------------
(* Failures and outsiders.                                                 *)

Crash(e) ==
  /\ ed[e].pc \notin {"idle", "done", "stopped"} /\ crashes < MaxCrashes
  /\ Go(e, "stopped") /\ Release(e) /\ crashes' = crashes + 1
  /\ UNCHANGED <<file, dir, temps, outside>>

\* An edit of a document is safe to replay, with the revision it was given.
Replay(e) ==
  /\ At(e, "stopped") /\ Kind[e] \in Documents
  /\ ed' = [ed EXCEPT ![e].pc = IF Kind[e] = "profile" THEN "begun" ELSE "waiting", ![e].attempts = @ + 1]
  /\ UNCHANGED <<file, dir, lock, temps, outside, crashes>>

\* An editor that takes no lock; calls past their last look are noted.
WriteOutside ==
  /\ outside < Outsiders /\ file # NoFile
  /\ file' = file \cup {"outside"} /\ outside' = outside + 1
  /\ ed' = [e \in Editors |-> [ed[e] EXCEPT !.late = @ \/ At(e, "verified")]]
  /\ UNCHANGED <<dir, lock, temps, crashes>>

Finished == \A e \in Editors : ed[e].pc \in {"idle", "done", "stopped"}
Idle == Finished /\ UNCHANGED vars

Work(e) ==
  \/ ReplaceProfile(e) \/ ReplaceDocument(e) \/ CreateTemporary(e) \/ Verify(e)
  \/ Rename(e) \/ SyncParent(e)
Next ==
  \/ \E e \in Editors : Begin(e) \/ Work(e) \/ Acquire(e) \/ CancelWait(e) \/ GiveUp(e)
                        \/ Crash(e) \/ Replay(e)
  \/ WriteOutside
  \/ Idle

\* A process that runs takes its steps; the lock is tried again and again.
Fairness ==
  \A e \in Editors : WF_vars(Work(e)) /\ SF_vars(Acquire(e)) /\ WF_vars(Replay(e))
Spec == Init /\ [][Next]_vars
FairSpec == Spec /\ Fairness

-----------------------------------------------------------------------------
(* Properties.                                                             *)

\* The lock has one holder, who knows it, and temporaries are its own.
TypeOK ==
  {e \in Editors : ed[e].pc \in {"locked", "writing", "written", "verified", "renamed"}} = {lock} \ {"free"}

\* An edit replaces the very text it was made from: no edit of another agent,
\* of the app or of edit_file is lost, however they interleave.  Only a write
\* without the lock, after the last look at the file, is.
NothingLost ==
  \A e \in Editors :
       At(e, "verified") /\ ed'[e].pc = "renamed" /\ Kind[e] # "write" /\ ~ed[e].late =>
         Text = ed[e].base

\* A call told that it failed, was stale or was cancelled did not change the
\* file, unless an earlier attempt of it, cut short by a stop, had.
FailedUntouched ==
  \A e \in Editors :
    ed[e].told \in {"failed", "stale", "cancelled"} /\ ed[e].attempts = 1 => ~ed[e].applied

\* Only a stop leaves a temporary file.
NoLitter == Finished /\ crashes = 0 => temps = {}

\* Edits of a person's profile that are refused as stale make no directory:
\* one without a file is of a call that was cancelled, failed or stopped.
StaleMakesNothing ==
  Missing /\ dir /\ file = NoFile /\ Finished =>
    crashes > 0 \/ \E e \in Editors : ed[e].told \in {"failed", "cancelled"}

\* A call that began ends, however many others want the file.
EditsEnd == \A e \in Editors : Kind[e] \in Documents => At(e, "idle") \/ At(e, "done")
=============================================================================
