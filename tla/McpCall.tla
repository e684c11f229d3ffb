------------------------------- MODULE McpCall -------------------------------
(***************************************************************************)
(* One MCP tool call: the Host (Rust) starts an adapter process (Node),    *)
(* which announces the dispatch on its output before it sends the one      *)
(* tools/call request, and ends with one terminal record.  The Host may    *)
(* cancel or run out of time at any point and then stops the process; what *)
(* it tells the model must never be more certain than what is known.  The  *)
(* server and the legacy event stream the SDK keeps open are external.     *)
(***************************************************************************)
EXTENDS Naturals, Sequences, FiniteSets

VARIABLES host,      \* "idle", "write", "wait", "stop", "kill" or "told"
          wrote,     \* the whole request reached the adapter's input
          dispatch,  \* drain_stdout has seen the dispatch record
          terminal,  \* drain_stdout has seen a terminal record
          read,      \* records the Host has read
          told,      \* what the Host made of the call
          ad,        \* the adapter: its step and CallExchangeTracker
          out,       \* the records the adapter wrote
          server,    \* what the server did: requests received, whether the tool ran, what it answers
          abort      \* the adapter was sent SIGTERM
hostVars == <<host, wrote, dispatch, terminal, read, told>>
vars == <<hostVars, ad, out, server, abort>>

NoProblem == "none"
Fresh == [step |-> "none", sent |-> FALSE, answered |-> FALSE, problem |-> NoProblem, stream |-> FALSE, last |-> "none"]

Init ==
  /\ host = "idle" /\ wrote = FALSE /\ dispatch = FALSE /\ terminal = FALSE /\ read = 0 /\ told = [is |-> "nothing"]
  /\ ad = Fresh /\ out = <<>> /\ server = [got |-> 0, ran |-> FALSE, reply |-> "none"] /\ abort = FALSE

Living == ad.step \notin {"none", "done", "dead"}
AdapterStep(s) == ad' = [ad EXCEPT !.step = s]
HostOnly == UNCHANGED <<ad, out, server, abort>>
AdapterOnly == UNCHANGED <<hostVars, server, abort>>

\* The failures the Host can report: whether the outcome is certain, and
\* whether the call may have changed something.
Definite(partial) == [is |-> "failed", certain |-> TRUE, partial |-> partial]
Uncertain == [is |-> "failed", certain |-> FALSE, partial |-> TRUE]
Records == {[is |-> "dispatch"], [is |-> "torn"], [is |-> "invalid"], [is |-> "completed"], Definite(TRUE), Definite(FALSE), Uncertain}

-----------------------------------------------------------------------------
(* The adapter.                                                            *)

\* main reads the request to the end of its input.
ReadRequest ==
  /\ ad.step = "read" /\ host \notin {"idle", "write"}
  /\ IF wrote THEN AdapterStep("connect") ELSE ad' = [ad EXCEPT !.step = "end", !.last = "problem"]
  /\ UNCHANGED out /\ AdapterOnly

\* connectClient and validateFrozenTool: they fail before anything is sent.
Connect(ok) ==
  /\ ad.step = "connect"
  /\ IF ok /\ ~abort THEN AdapterStep("fetch") ELSE ad' = [ad EXCEPT !.step = "end", !.last = IF abort THEN "abort" ELSE "problem"]
  /\ UNCHANGED out /\ AdapterOnly

\* The SDK's event stream is cut off at its limit; the problem is kept with
\* the partial changes of a request that is no tool call.
StreamProblem ==
  /\ Living /\ ad.step \notin {"read", "connect"} /\ ~ad.stream
  /\ ad' = [ad EXCEPT !.stream = TRUE, !.problem = IF @ = NoProblem THEN "clean" ELSE @]
  /\ UNCHANGED out /\ AdapterOnly

\* guardedFetch announces the dispatch, waits for the write, then sends.
Dispatch ==
  /\ ad.step = "fetch"
  /\ out' = Append(out, [is |-> "dispatch"]) /\ AdapterStep("announced")
  /\ AdapterOnly

\* The request leaves, is refused before a connection, or was aborted.
Fetch(fate) ==
  /\ ad.step = "announced"
  /\ CASE fate = "sent" ->
            /\ ~abort /\ server' = [server EXCEPT !.got = @ + 1]
            /\ ad' = [ad EXCEPT !.sent = TRUE, !.step = "sent"]
       [] fate = "unconnected" -> ~abort /\ ad' = [ad EXCEPT !.sent = TRUE, !.step = "end", !.last = fate] /\ UNCHANGED server
       [] fate = "abort" -> abort /\ ad' = [ad EXCEPT !.sent = TRUE, !.step = "end", !.last = fate] /\ UNCHANGED server
  /\ UNCHANGED <<hostVars, out, abort>>

\* The server: it runs the tool or refuses, and then answers or does not.
Serve(reply) ==
  /\ server.got > 0 /\ server.reply = "none"
  /\ server' = [server EXCEPT !.ran = reply # "scope", !.reply = reply]
  /\ UNCHANGED <<hostVars, ad, out, abort>>

RefuseRetryBad ==
  /\ ad.step = "sent" /\ ad.problem = NoProblem
  /\ server' = [server EXCEPT !.got = @ + 1]
  /\ ad' = [ad EXCEPT !.step = "end", !.problem = "partial", !.last = "problem"]
  /\ UNCHANGED <<hostVars, out, abort>>

\* The SDK tries tools/call again, which guardedFetch blocks.
RefuseRetry ==
  /\ ad.step = "sent" /\ ad.problem = NoProblem
  /\ ad' = [ad EXCEPT !.step = "end", !.problem = "partial", !.last = "problem"]
  /\ UNCHANGED out /\ AdapterOnly

\* The answer arrives, or is lost, times out or is aborted.
Answer ==
  /\ ad.step = "sent" /\ server.reply \in {"result", "toolarge", "http", "rpc", "scope"}
  /\ ad' = [ad EXCEPT !.step = "end", !.answered = TRUE, !.last = server.reply]
  /\ UNCHANGED out /\ AdapterOnly
Lost ==
  /\ ad.step = "sent"
  /\ ad' = [ad EXCEPT !.step = "end", !.last = IF abort THEN "abort" ELSE "lost"]
  /\ UNCHANGED out /\ AdapterOnly

\* toWireFailure, in its order; a recorded boundary problem comes before the error.
ToWireFailure ==
  CASE ad.problem # NoProblem -> Definite(ad.problem = "partial")
    [] ad.last = "scope" -> Definite(FALSE)
    [] ad.last = "problem" -> Definite(FALSE)
    [] ad.last = "toolarge" -> Definite(TRUE)
    [] ad.last \in {"http", "rpc"} -> Definite(ad.sent)
    [] ad.last = "abort" -> IF ad.sent THEN Uncertain ELSE Definite(FALSE)
    [] ad.last = "unconnected" -> IF abort THEN Uncertain ELSE Definite(FALSE)
    [] OTHER -> IF ad.sent THEN Uncertain ELSE Definite(FALSE)

\* One terminal record, which the Host may still refuse to decode.
WriteTerminal(valid) ==
  /\ ad.step = "end"
  /\ out' = Append(out, CASE ~valid -> [is |-> "invalid"]
                           [] ad.last = "result" -> [is |-> "completed"]
                           [] OTHER -> ToWireFailure)
  /\ AdapterStep("done") /\ AdapterOnly

\* The process dies, perhaps in the middle of its terminal record.
Die ==
  /\ Living
  /\ out' \in {out} \cup (IF ad.step = "end" THEN {Append(out, [is |-> "torn"])} ELSE {})
  /\ AdapterStep("dead") /\ AdapterOnly

-----------------------------------------------------------------------------
(* The Host.                                                               *)

\* ExecuteTool: a stale reference, no adapter or no authorization ends the
\* call before anything is started.
Refuse ==
  /\ host = "idle"
  /\ host' = "told" /\ told' = Definite(FALSE)
  /\ UNCHANGED <<wrote, dispatch, terminal, read>> /\ HostOnly

\* call_tool and spawn_adapter: nothing was started when they fail.
Start(ok) ==
  /\ host = "idle"
  /\ IF ok THEN host' = "write" /\ AdapterStep("read") /\ UNCHANGED told
     ELSE host' = "told" /\ told' = Definite(FALSE) /\ UNCHANGED ad
  /\ UNCHANGED <<wrote, dispatch, terminal, read, out, server, abort>>

\* write_request
WriteRequest(ok) ==
  /\ host = "write"
  /\ wrote' = ok /\ host' = IF ok THEN "wait" ELSE "stop"
  /\ UNCHANGED <<dispatch, terminal, read, told>> /\ HostOnly

\* drain_with_observer: one record, as it comes.
Drain ==
  /\ host \in {"wait", "stop", "kill"} /\ read < Len(out)
  /\ LET r == out[read + 1]
     IN /\ read' = read + 1
        /\ dispatch' = (dispatch \/ r.is = "dispatch")
        /\ terminal' = (terminal \/ r.is \in {"completed", "failed", "invalid"})
  /\ UNCHANGED <<host, wrote, told>> /\ HostOnly

\* wait_for_terminal: a terminal record, the process's end, cancellation or the deadline.
Signal ==
  /\ host = "wait" /\ (terminal \/ ~Living)
  /\ host' = "stop"
  /\ UNCHANGED <<wrote, dispatch, terminal, read, told>> /\ HostOnly
GiveUp ==
  /\ host = "wait" /\ ~terminal
  /\ host' = "stop"
  /\ UNCHANGED <<wrote, dispatch, terminal, read, told>> /\ HostOnly

\* stop_process_group_raw: SIGTERM, and SIGKILL when it is still there.
Terminate ==
  /\ host = "stop" /\ ~abort
  /\ abort' = TRUE /\ host' = "kill"
  /\ UNCHANGED <<wrote, dispatch, terminal, read, told, ad, out, server>>
Kill ==
  /\ host = "kill" /\ Living
  /\ AdapterStep("dead")
  /\ UNCHANGED <<hostVars, out, server, abort>>

\* parse_call_records: a terminal record settles; a torn one does not.
Terminals == {i \in 1..Len(out) : out[i].is \in {"completed", "failed"}}

\* settle_capture: without a terminal record an announced dispatch is
\* uncertain, unless there is evidence that the adapter did end.
SettleCapture ==
  LET dispatched == dispatch \/ \E i \in 1..Len(out) : out[i].is = "dispatch"
      attempted == \E i \in 1..Len(out) : out[i].is = "invalid"
  IN IF Terminals # {} THEN out[CHOOSE i \in Terminals : TRUE]
     ELSE IF dispatched /\ ~attempted THEN Uncertain
     ELSE Definite(dispatched \/ attempted)

\* The pipe is read to its end once the group is gone.
Settle ==
  /\ host = "kill" /\ ~Living /\ read = Len(out)
  /\ told' = SettleCapture /\ host' = "told"
  /\ UNCHANGED <<wrote, dispatch, terminal, read>> /\ HostOnly

Next ==
  \/ \E ok \in BOOLEAN : Start(ok) \/ WriteRequest(ok) \/ Connect(ok) \/ WriteTerminal(ok)
  \/ \E fate \in {"sent", "unconnected", "abort"} : Fetch(fate)
  \/ \E reply \in {"result", "toolarge", "http", "rpc", "scope", "silence"} : Serve(reply)
  \/ ReadRequest \/ StreamProblem \/ Dispatch \/ RefuseRetry \/ Answer \/ Lost \/ Die
  \/ Refuse \/ Drain \/ Signal \/ GiveUp \/ Terminate \/ Kill \/ Settle

\* The deadline passes, the signals are sent and the pipe is drained; nothing
\* is assumed of the adapter or the server.
Fairness ==
  /\ WF_vars(\E ok \in BOOLEAN : WriteRequest(ok)) /\ WF_vars(Drain) /\ WF_vars(Signal \/ GiveUp)
  /\ WF_vars(Terminate) /\ WF_vars(Kill) /\ WF_vars(Settle)
Spec == Init /\ [][Next]_vars /\ Fairness

-----------------------------------------------------------------------------
(* Properties.                                                             *)

Outcomes == {[is |-> "completed"], Definite(TRUE), Definite(FALSE), Uncertain}

\* The types of the state; told is exactly what the Host ends with, and the adapter's output is only ever records.
TypeOK ==
  /\ host \in {"idle", "write", "wait", "stop", "kill", "told"} /\ (host = "told" <=> told \in Outcomes)
  /\ \A i \in 1..Len(out) : out[i] \in Records
  /\ ad.problem \in {NoProblem, "clean", "partial"} /\ server.got \in Nat /\ read <= Len(out)

\* A failure told as certain and without changes means the tool did not run, unless the SDK's event stream broke the adapter's
\* own limits (settle_capture, toWireFailure and the order in which guardedFetch announces and sends).
HonestFailure == told = Definite(FALSE) => ~server.ran \/ ad.stream

\* A call told as completed was answered with its result.
CompletedAnswered == told = [is |-> "completed"] => server.ran /\ server.reply = "result"

\* The server receives the call at most once, whatever the SDK retries (guardedFetch).
CalledOnce == server.got <= 1

\* An outcome is told as uncertain only when the adapter did announce that it may have sent the call.
UncertainOnlyDispatched == told = Uncertain => \E i \in 1..Len(out) : out[i].is = "dispatch"

\* The Host ends every call it started, also when the adapter hangs and ignores SIGTERM (deadline and stop_process_group_raw).
CallEnds == host \in {"idle", "told"}
==============================================================================
