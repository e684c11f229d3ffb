----------------------------- MODULE ModelCall -----------------------------
(***************************************************************************)
(* One model request of a turn, from the provider to the client's screen:  *)
(* the adapter process and its retries, the task that reads its records,   *)
(* the bounded channel, the sampling loop that turns them into events, the *)
(* kernel's one replay of an unknown outcome, and the ACP sink that shows  *)
(* them.  A cancellation, a deadline or a crash of the adapter may come    *)
(* between any two steps.                                                  *)
(***************************************************************************)
EXTENDS Naturals, Sequences, FiniteSets

CONSTANTS
  MaxAttempts,    \* the adapter's attempts
  MaxDeltas,      \* bound: deltas of an attempt
  MaxDispatches,  \* a request that is safe to replay: 2
  MaxRequests,    \* bound: model requests of the turn
  Faults          \* of {"cancel", "crash", "timeout", "break", "reject"}

Bounds == MaxAttempts >= 1 /\ MaxDispatches >= 1 /\ MaxRequests >= 1

VARIABLES
  child,     \* the adapter process: "none", "running", "stopped"
  ad,        \* what it is doing
  pipe,      \* records it wrote that are not read yet
  left,      \* processes of earlier dispatches that their readers still stop
  rd,        \* the reading task
  chan,      \* the channel, of capacity one
  token,     \* the invocation's cancellation token
  ob,        \* the sampling loop and its observer
  cancel,    \* the turn's cancellation
  result,    \* what the effect settled with
  count,     \* dispatches of this request, requests of this turn
  sink,      \* the ACP event sink
  shown,     \* the assistant messages the client was sent
  replayed,  \* the dispatches the kernel replaced by another (history)
  turn       \* "open", "completed", "waiting", "failed", "cancelled"

vars == <<child, ad, pipe, left, rd, chan, token, ob, cancel, result, count, sink, shown, replayed, turn>>

Record(k, n, known) == [k |-> k, n |-> n, known |-> known]
Nothing == Record("nothing", 0, FALSE)

Idle == [st |-> "ready", attempt |-> 1, text |-> 0, deltas |-> 0, exposed |-> FALSE, fresh |-> FALSE]
Reader == [st |-> "reading", hold |-> Nothing, err |-> Nothing, traffic |-> FALSE, first |-> FALSE]
Observer == [st |-> "sampling", traffic |-> FALSE, started |-> FALSE, error |-> Nothing, completed |-> FALSE]

Init ==
  /\ child = "none" /\ ad = [Idle EXCEPT !.st = "over"] /\ pipe = <<>> /\ left = 0
  /\ rd = [Reader EXCEPT !.st = "ended"] /\ chan = <<>> /\ token = FALSE
  /\ ob = [Observer EXCEPT !.st = "off"]
  /\ cancel = FALSE /\ result = "none" /\ count = [dispatch |-> 0, request |-> 1]
  /\ sink = [id |-> 1, text |-> 0, published |-> FALSE, discarded |-> 0]
  /\ shown = <<>> /\ replayed = {} /\ turn = "open"

-----------------------------------------------------------------------------
(* The ACP sink.  A message is shown from its first chunk on.              *)

\* One chunk of message id, with n characters of text.
Chunk(s, id, inv, n) ==
  IF s # <<>> /\ s[Len(s)].id = id
  THEN [s EXCEPT ![Len(s)].n = @ + n]
  ELSE Append(s, [id |-> id, inv |-> inv, n |-> n, marks |-> 0])

Marked(s, id) == [i \in DOMAIN s |-> IF s[i].id = id THEN [s[i] EXCEPT !.marks = @ + 1] ELSE s[i]]

Invocation == <<count.request, count.dispatch>>

\* close_discarded_message: a discarded message gets its notice.
Noticed == IF sink.discarded # 0 THEN Marked(shown, sink.discarded) ELSE shown

\* start_assistant_message: a discarded message is closed with a notice first.
StartMessage ==
  /\ sink' = [id |-> sink.id + 1, text |-> 0, published |-> FALSE, discarded |-> 0]
  /\ shown' = Noticed

\* send_delta, after the message start of the attempt's first delta.  Deltas
\* of a tool call are not shown.
SendDelta(k) ==
  LET n == IF k = "text" THEN 1 ELSE 0
      id == IF ob.started THEN sink.id ELSE sink.id + 1
      text == IF ob.started THEN sink.text ELSE 0
      was == IF ob.started THEN shown ELSE Noticed
  IN /\ sink' = [id |-> id, text |-> text + n,
                 published |-> k # "call" \/ (ob.started /\ sink.published),
                 discarded |-> IF ob.started THEN sink.discarded ELSE 0]
     /\ shown' = IF k = "call" THEN was ELSE Chunk(was, id, Invocation, n)

\* abort_message: what was published is remembered as discarded.
AbortMessage ==
  /\ sink' = [sink EXCEPT !.text = 0, !.published = FALSE,
                          !.discarded = IF sink.published THEN sink.id ELSE @]
  /\ UNCHANGED shown

Silent == UNCHANGED <<sink, shown>>

-----------------------------------------------------------------------------
(* The adapter process.                                                    *)

Adapter == UNCHANGED <<child, left, rd, chan, token, ob, cancel, result, count, sink, shown, replayed, turn>>
Running == child = "running"

\* onPayload writes the record before the request is made.
Announce ==
  /\ Running /\ ad.st = "ready"
  /\ ad' = [ad EXCEPT !.st = "announced"]
  /\ pipe' = Append(pipe, Record("traffic", 0, FALSE))
  /\ Adapter

\* capturingFetch.
Fetch ==
  /\ Running /\ ad.st = "announced"
  /\ ad' = [ad EXCEPT !.st = "waiting"]
  /\ UNCHANGED pipe /\ Adapter

Respond ==
  /\ Running /\ ad.st = "waiting"
  /\ ad' = [ad EXCEPT !.st = "open"]
  /\ pipe' = Append(pipe, Record("traffic", 0, FALSE))
  /\ Adapter

Delta(k) ==
  /\ Running /\ ad.st = "open" /\ ad.deltas < MaxDeltas
  /\ ad' = [ad EXCEPT !.deltas = @ + 1, !.text = @ + (IF k = "text" THEN 1 ELSE 0), !.exposed = TRUE]
  /\ pipe' = Append(pipe, Record(k, 0, FALSE))
  /\ Adapter

\* The terminal record carries the whole response.
Complete ==
  /\ Running /\ ad.st = "open"
  /\ ad' = [ad EXCEPT !.st = "over"]
  /\ pipe' = Append(pipe, Record("completed", ad.text, FALSE))
  /\ Adapter

\* shouldRetry: never after output was exposed.
ShouldRetry(retryable) == retryable /\ ~ad.exposed /\ ad.attempt < MaxAttempts

\* classifyError and the retry loop.  The outcome is judged from this attempt
\* alone: known when nothing was sent or the provider rejected it.
Fail(known, retryable) ==
  IF ShouldRetry(retryable)
  THEN /\ ad' = [ad EXCEPT !.st = "backoff"]
       /\ pipe' = Append(pipe, Record("traffic", 0, FALSE))
  ELSE /\ ad' = [ad EXCEPT !.st = "over"]
       /\ pipe' = Append(pipe, Record("error", 0, known))

\* Credentials, their refresh, or a request that is never made.
FailEarly(known, retryable) ==
  /\ Running /\ ad.st = "ready" /\ "reject" \in Faults
  /\ Fail(known, retryable) /\ Adapter

\* An expired access token is renewed once, and the request made again
\* without a retry record; a renewal that fails ends the request.
Expired(renewed) ==
  /\ Running /\ ad.st = "waiting" /\ "reject" \in Faults
  /\ ~ad.fresh /\ ad.attempt < MaxAttempts
  /\ IF renewed
     THEN ad' = [Idle EXCEPT !.attempt = ad.attempt + 1, !.fresh = TRUE] /\ UNCHANGED pipe
     ELSE ad' = [ad EXCEPT !.st = "over"] /\ pipe' = Append(pipe, Record("error", 0, TRUE))
  /\ Adapter

\* A 4xx proves that no inference began.
Reject(retryable) ==
  /\ Running /\ ad.st = "waiting" /\ "reject" \in Faults
  /\ Fail(TRUE, retryable) /\ Adapter

\* A reset, a timeout, a 5xx, or a broken stream.
Break(retryable) ==
  /\ Running /\ ad.st \in {"waiting", "open"} /\ "break" \in Faults
  /\ Fail(FALSE, retryable) /\ Adapter

Again ==
  /\ Running /\ ad.st = "backoff"
  /\ ad' = [Idle EXCEPT !.attempt = ad.attempt + 1, !.fresh = ad.fresh]
  /\ UNCHANGED pipe /\ Adapter

Crash ==
  /\ Running /\ ad.st # "over" /\ "crash" \in Faults
  /\ ad' = [ad EXCEPT !.st = "over"]
  /\ UNCHANGED pipe /\ Adapter

-----------------------------------------------------------------------------
(* The reading task: run_stream and read_records.                          *)

Task == UNCHANGED <<left, ob, cancel, result, count, sink, shown, replayed, turn>>
Stopping(err) == rd' = [rd EXCEPT !.st = "stopping", !.err = err, !.hold = Nothing]

\* accept_line, and finish at the terminal record.
ReadLine ==
  /\ rd.st = "reading" /\ pipe # <<>> /\ ~token
  /\ LET r == Head(pipe) IN
     rd' = [rd EXCEPT !.hold = r,
                      !.st = IF r.k \in {"completed", "error"} THEN "publishing" ELSE "holding",
                      !.traffic = @ \/ r.k = "traffic",
                      !.first = @ \/ r.k # "traffic"]
  /\ pipe' = SubSeq(pipe, 2, Len(pipe))
  /\ UNCHANGED <<child, ad, chan, token>> /\ Task

\* The adapter closed its output without a terminal record.
ReadEnd ==
  /\ rd.st = "reading" /\ pipe = <<>> /\ ad.st = "over" /\ ~token
  /\ Stopping(Record("error", 0, FALSE))
  /\ UNCHANGED <<child, ad, pipe, chan, token>> /\ Task

\* A first-output, idle or total deadline.
ReadTimeout ==
  /\ rd.st = "reading" /\ ~token /\ "timeout" \in Faults
  /\ Stopping(Record("error", 0, FALSE))
  /\ UNCHANGED <<child, ad, pipe, chan, token>> /\ Task

\* Cancellation is looked at first; records not read yet are not counted.
ReadCancelled ==
  /\ rd.st = "reading" /\ token
  /\ Stopping(Record("error", 0, ~(rd.traffic \/ rd.first)))
  /\ UNCHANGED <<child, ad, pipe, chan, token>> /\ Task

\* forward_delta: a cancellation drops the event in hand.
Forward ==
  /\ rd.st = "holding" /\ ~token /\ chan = <<>>
  /\ chan' = Append(chan, rd.hold)
  /\ rd' = [rd EXCEPT !.st = "reading", !.hold = Nothing]
  /\ UNCHANGED <<child, ad, pipe, token>> /\ Task

ForwardCancelled ==
  /\ rd.st = "holding" /\ token
  /\ Stopping(Record("error", 0, FALSE))
  /\ UNCHANGED <<child, ad, pipe, chan, token>> /\ Task

\* publish_terminal, before the process is stopped.
Publish ==
  /\ rd.st = "publishing" /\ chan = <<>>
  /\ chan' = Append(chan, rd.hold)
  /\ rd' = [rd EXCEPT !.st = "stopping"]
  /\ UNCHANGED <<child, ad, pipe, token>> /\ Task

\* stop_bridge_child, drain_after_stop.  The process group is killed; an error
\* of the operating system in doing so is left out.
StopChild ==
  /\ rd.st = "stopping"
  /\ child' = "stopped" /\ pipe' = <<>> /\ ad' = [ad EXCEPT !.st = "over"]
  /\ rd' = [rd EXCEPT !.st = IF rd.err = Nothing THEN "ended" ELSE "failing"]
  /\ UNCHANGED <<chan, token>> /\ Task

StopLeft ==
  /\ left > 0 /\ left' = left - 1
  /\ UNCHANGED <<child, ad, pipe, rd, chan, token, ob, cancel, result, count, sink, shown, replayed, turn>>

SendError ==
  /\ rd.st = "failing" /\ chan = <<>>
  /\ chan' = Append(chan, rd.err)
  /\ rd' = [rd EXCEPT !.st = "ended"]
  /\ UNCHANGED <<child, ad, pipe, token>> /\ Task

-----------------------------------------------------------------------------
(* sample_model and the model effect adapter.                              *)

Sampling == UNCHANGED <<child, ad, pipe, left, rd, cancel, count, replayed, turn>>

\* The model effect is dispatched: the stream and the process start.  The
\* reader of a dispatch before may not have ended: its stream was dropped, so
\* all that is left of it is the process it stops.
Dispatch ==
  /\ turn = "open" /\ ob.st = "off" /\ ~cancel
  /\ child' = "running" /\ ad' = Idle /\ pipe' = <<>>
  /\ left' = IF child = "running" THEN left + 1 ELSE left
  /\ rd' = Reader /\ chan' = <<>> /\ token' = FALSE /\ ob' = Observer
  /\ count' = [count EXCEPT !.dispatch = @ + 1]
  /\ StartMessage
  /\ UNCHANGED <<cancel, result, replayed, turn>>

\* The outcome; the stream is dropped, which cancels its token.
Settle(outcome) ==
  /\ result' = outcome /\ token' = TRUE /\ chan' = <<>>

\* record, for a traffic record or a delta.
Observe(r) ==
  /\ ob' = IF r.k = "traffic" THEN [ob EXCEPT !.traffic = TRUE] ELSE [ob EXCEPT !.started = TRUE]
  /\ IF r.k = "traffic" THEN Silent ELSE SendDelta(r.k)

\* model_failure: once a message has started the outcome is unknown.
ModelFailure(known) ==
  /\ IF ob.started THEN AbortMessage ELSE Silent
  /\ Settle(IF known /\ ~ob.started THEN "failure" ELSE "unknown")

\* The next event of the stream.  An error may be taken while the turn is
\* cancelled in the same moment.
Take ==
  /\ ob.st = "sampling" /\ chan # <<>>
  /\ LET r == Head(chan) IN
     /\ cancel => r.k = "error"
     /\ CASE r.k = "completed" ->
               /\ ob' = [ob EXCEPT !.st = "done", !.completed = TRUE]
               /\ Settle("completed") /\ Silent
          [] r.k = "error" ->
               /\ ob' = [ob EXCEPT !.st = "done"]
               /\ IF cancel /\ ~ob.traffic /\ ~ob.started
                  THEN Settle("failure") /\ Silent
                  ELSE ModelFailure(r.known)
          [] OTHER -> Observe(r) /\ chan' = <<>> /\ UNCHANGED <<token, result>>
  /\ Sampling

SeeCancel ==
  /\ ob.st = "sampling" /\ cancel
  /\ ob' = [ob EXCEPT !.st = "draining"] /\ token' = TRUE
  /\ UNCHANGED <<chan, result>> /\ Silent /\ Sampling

\* drain_cancelled_stream.
DrainTake ==
  /\ ob.st = "draining" /\ chan # <<>>
  /\ LET r == Head(chan) IN
     CASE r.k = "completed" -> ob' = [ob EXCEPT !.completed = TRUE] /\ Silent
       [] r.k = "error" -> ob' = [ob EXCEPT !.error = r] /\ Silent
       [] OTHER -> Observe(r)
  /\ chan' = <<>> /\ UNCHANGED <<token, result>> /\ Sampling

\* The stream ends when the reading task has ended.
DrainEnd ==
  /\ ob.st = "draining" /\ chan = <<>> /\ rd.st = "ended"
  /\ ob' = [ob EXCEPT !.st = "done"]
  /\ IF ob.completed THEN Settle("completed") /\ Silent
     ELSE IF ~(ob.traffic \/ ob.started) THEN Settle("failure") /\ Silent
     ELSE ModelFailure(ob.error # Nothing /\ ob.error.known)
  /\ Sampling

-----------------------------------------------------------------------------
(* The kernel and the turn.                                                *)

Turn == UNCHANGED <<child, ad, pipe, left, rd, chan, token, cancel>>

Cancel ==
  /\ turn = "open" /\ ~cancel /\ "cancel" \in Faults
  /\ cancel' = TRUE
  /\ UNCHANGED <<child, ad, pipe, left, rd, chan, token, ob, result, count, sink, shown, replayed, turn>>

\* A live unknown report is replayed once.
Replay ==
  /\ turn = "open" /\ result = "unknown" /\ ~cancel /\ count.dispatch < MaxDispatches
  /\ result' = "none" /\ ob' = [ob EXCEPT !.st = "off"]
  /\ replayed' = replayed \cup {Invocation}
  /\ UNCHANGED <<count, sink, shown, turn>> /\ Turn

\* A response with tool calls: the turn goes on to another request.
NextRequest ==
  /\ turn = "open" /\ result = "completed" /\ ~cancel /\ count.request < MaxRequests
  /\ result' = "none" /\ ob' = [ob EXCEPT !.st = "off"]
  /\ count' = [request |-> count.request + 1, dispatch |-> 0]
  /\ UNCHANGED <<sink, shown, replayed, turn>> /\ Turn

\* remaining_chunk: what was not streamed of the durable response.
RemainingChunk(output) ==
  /\ sink' = [sink EXCEPT !.text = output, !.published = @ \/ sink.text # output]
  /\ shown' = IF sink.text = output THEN shown ELSE Chunk(shown, sink.id, Invocation, output - sink.text)

EndTurn ==
  /\ turn = "open" /\ ob.st = "done"
  /\ UNCHANGED <<ob, result, count, replayed>> /\ Turn
  /\ CASE result = "completed" /\ ~cancel ->
            \/ turn' = "completed" /\ RemainingChunk(ad.text)
            \/ /\ turn' = "waiting"       \* closing_chunk: a message of its own
               /\ sink' = [id |-> sink.id + 1, text |-> 1, published |-> TRUE, discarded |-> 0]
               /\ shown' = Chunk(Noticed, sink.id + 1, <<0, 0>>, 1)
       [] result = "unknown" /\ ~cancel /\ count.dispatch < MaxDispatches -> FALSE
       [] OTHER -> turn' = (IF cancel THEN "cancelled" ELSE "failed") /\ Silent

CancelIdle ==      \* nothing of the request was dispatched
  /\ turn = "open" /\ cancel /\ ob.st = "off"
  /\ turn' = "cancelled"
  /\ UNCHANGED <<ob, result, count, sink, shown, replayed>> /\ Turn

AdapterNext ==
  \/ Announce \/ Fetch \/ Respond \/ Complete \/ Again \/ Crash
  \/ \E k \in {"text", "thought", "call"} : Delta(k)
  \/ \E known, retryable \in BOOLEAN : FailEarly(known, retryable)
  \/ \E retryable \in BOOLEAN : Reject(retryable) \/ Break(retryable)
  \/ \E renewed \in BOOLEAN : Expired(renewed)
ReaderNext ==
  \/ ReadLine \/ ReadEnd \/ ReadTimeout \/ ReadCancelled
  \/ Forward \/ ForwardCancelled \/ Publish \/ StopChild \/ SendError
SamplingNext == Take \/ SeeCancel \/ DrainTake \/ DrainEnd
TurnNext == Dispatch \/ Replay \/ NextRequest \/ EndTurn \/ CancelIdle

Finished == turn # "open" /\ rd.st = "ended" /\ left = 0 /\ UNCHANGED vars

Next == AdapterNext \/ ReaderNext \/ StopLeft \/ SamplingNext \/ TurnNext \/ Cancel \/ Finished

\* Tokio runs the two tasks and its timers; nothing is assumed of the adapter.
Fairness == WF_vars(ReaderNext) /\ WF_vars(StopLeft) /\ WF_vars(SamplingNext) /\ WF_vars(TurnNext)

Spec == Init /\ [][Next]_vars
FairSpec == Spec /\ Fairness

-----------------------------------------------------------------------------
(* Properties.                                                             *)

\* The channel holds one event, and the task only holds a record it read.
TypeOK ==
  /\ Len(chan) <= 1
  /\ rd.st \in {"reading", "holding", "publishing", "stopping", "failing", "ended"}
  /\ ob.st \in {"off", "sampling", "draining", "done"}
  /\ result \in {"none", "completed", "failure", "unknown"}
  /\ count.dispatch \in 0..MaxDispatches /\ count.request \in 1..MaxRequests
  /\ rd.st = "holding" => rd.hold # Nothing

\* Once the client was sent any part of an answer, its request is not
\* reported as one that never started, whatever the adapter says.
OutputIsUnknown == result = "failure" => ~ob.started

\* A response the reading task took is never lost to a cancellation that
\* comes while it is on its way.
CompletedKept ==
  (result # "none" /\ rd.hold.k = "completed") => result = "completed"

\* A cancelled request has stopped its process by the time it is settled
\* through the drain.
ChildStopped ==
  ob.st = "draining" /\ ob'.st = "done" => child = "stopped"

\* No message the client is sent mixes two attempts; a fragment carries one
\* notice exactly when its attempt was replaced by another; and a completed
\* turn shows its answer last, once and whole.
ShownWhole ==
  /\ \A i, j \in DOMAIN shown : i # j => shown[i].id # shown[j].id
  /\ ob.st # "off" =>
       \A i \in DOMAIN shown : shown[i].marks = IF shown[i].inv \in replayed THEN 1 ELSE 0
  /\ turn = "completed" /\ ad.text > 0 =>
       /\ shown # <<>>
       /\ shown[Len(shown)].inv = Invocation /\ shown[Len(shown)].n = ad.text

\* Every request settles, however the adapter behaves, and no process of its
\* dispatches outlives it.
RequestSettles == ob.st # "sampling"
ChildReaped == ob.st = "done" => child = "stopped" /\ left = 0
=============================================================================
