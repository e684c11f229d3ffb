------------------------------ MODULE McpOAuth ------------------------------
(***************************************************************************)
(* The OAuth authorization of one MCP connection.  A call holds the        *)
(* connection's file lock, so one call runs at a time and a stop frees it; *)
(* what survives is the flow row, the secret bundle, the receipts and the  *)
(* callback relay.  The adapter process and the authorization server are   *)
(* external: they answer, or the answer is lost.                           *)
(***************************************************************************)
EXTENDS Integers, FiniteSets

CONSTANTS Ops, MaxFlows, MaxTokens, MaxStops, MaxFaults

McpOAuthAssumption == MaxFlows \in Nat /\ MaxTokens \in Nat /\ MaxStops \in Nat /\ MaxFaults \in Nat

VARIABLES flow,      \* the row of mcp_oauth_flows
          bundle,    \* OAuthSecretBundle in the secret store
          receipts,  \* the row of mcp_oauth_receipts of each operation
          relay,     \* the callback relay of each flow begun
          run,       \* the call that holds the lock
          tokens,    \* tokens issued so far
          spent,     \* the codes and refresh tokens sent
          replayed,  \* one of them was sent again
          lapses,    \* how a token or code that was sent may have been left to be sent again: see Lapse
          shown,     \* the authorization pages a person was shown
          stops, faults
durable == <<flow, bundle, receipts, relay>>
sent == <<tokens, spent, replayed>>
vars == <<durable, run, sent, lapses, shown, stops, faults>>

Flows == 1..MaxFlows
NoFlow == [phase |-> "none", op |-> "none", n |-> 0]
NoTok == [gen |-> 0, fresh |-> FALSE]
NoBundle == [is |-> FALSE, tok |-> NoTok, url |-> 0, code |-> 0]
Idle == [step |-> "idle", op |-> "none", restart |-> FALSE, mem |-> NoBundle, out |-> "none"]

Init ==
  /\ flow = NoFlow /\ bundle = NoBundle /\ receipts = [o \in Ops |-> "none"] /\ relay = [n \in Flows |-> "none"]
  /\ run = Idle /\ tokens = 0 /\ spent = {} /\ replayed = {}
  /\ lapses = {} /\ shown = {} /\ stops = 0 /\ faults = 0

Phase(p) == [flow EXCEPT !.phase = p]
\* mark_unknown forgets the callback; with_phase, above, keeps it.
Unknown(o) == [phase |-> "unknown", op |-> o, n |-> 0]
Goto(s) == run' = [run EXCEPT !.step = s]
Return == run' = Idle
Fault == faults < MaxFaults /\ faults' = faults + 1
MarkUnknown == flow' = Unknown(flow.op) /\ Return

\* A code or a refresh token goes out; token 0 is no token.
Send(x) ==
  /\ spent' = spent \cup ({x} \ {<<"token", 0>>})
  /\ replayed' = replayed \cup ({x} \cap spent)
SendsNothing == UNCHANGED <<spent, replayed>>

\* A restart drops the flow of another operation; a refresh the adapter calls
\* failed for certain, which it also says of a redirect, a server's error and
\* an answer over the limit, keeps its token; a beginning that tried the token
\* goes on to a page and keeps it.
Lapse(kinds) == lapses' = lapses \cup kinds
Kept(token, kind) == Lapse(IF token = 0 THEN {} ELSE {kind})

\* acknowledge_saved: an expired relay needs none; a pending one refuses.
Acknowledges == flow.n = 0 \/ relay[flow.n] # "pending"
RelayAcknowledged ==
  IF flow.n # 0 /\ relay[flow.n] # "expired" THEN [relay EXCEPT ![flow.n] = "acked"] ELSE relay

-----------------------------------------------------------------------------
(* A call takes the lock.                                                  *)

\* replay_receipt: an operation that ended answers from its receipt.
ReplayReceipt(o) ==
  /\ run = Idle /\ receipts[o] # "none"
  /\ \/ /\ receipts[o] = "authorized" /\ bundle.tok.fresh /\ flow.op = o /\ flow.phase # "unknown"
        /\ flow' = NoFlow /\ UNCHANGED relay
     \/ /\ receipts[o] = "rejected" /\ flow # NoFlow /\ receipts[flow.op] = "rejected" /\ Acknowledges
        /\ relay' = RelayAcknowledged /\ flow' = NoFlow
  /\ UNCHANGED <<bundle, receipts, run, sent, lapses, shown, stops, faults>>

Authorize(o, restart) ==
  LET drops == restart /\ flow # NoFlow /\ flow.op # o
  IN /\ run = Idle /\ receipts[o] = "none"
     /\ flow' = IF drops THEN NoFlow ELSE flow
     /\ Lapse(IF drops THEN {"restart"} ELSE {})
     /\ run' = [Idle EXCEPT !.step = "load", !.op = o, !.restart = restart, !.mem = bundle]
     /\ UNCHANGED <<bundle, receipts, relay, sent, shown, stops, faults>>

\* resolve with no flow: a token that is not fresh is refreshed.
Resolve(o) ==
  /\ run = Idle /\ receipts[o] = "none" /\ flow = NoFlow /\ bundle.is /\ ~bundle.tok.fresh
  /\ flow' = [phase |-> "refresh", op |-> o, n |-> 0]
  /\ run' = [Idle EXCEPT !.step = "refresh", !.op = o, !.mem = bundle]
  /\ UNCHANGED <<bundle, receipts, relay, sent, lapses, shown, stops, faults>>

\* recover_refresh, from either kind of call.
RecoverRefresh(o) ==
  /\ flow.phase = "refresh"
  /\ \/ run.step = "load" /\ run.op = o
     \/ run = Idle /\ receipts[o] = "none"
  /\ flow' = IF bundle.tok.fresh THEN NoFlow ELSE Unknown(flow.op)
  /\ Return
  /\ UNCHANGED <<bundle, receipts, relay, sent, lapses, shown, stops, faults>>

-----------------------------------------------------------------------------
(* begin                                                                   *)

Begin(ok) ==
  /\ run.step = "load" /\ flow = NoFlow
  /\ \/ /\ ok /\ \E n \in Flows :
             /\ relay[n] = "none" /\ \A m \in 1..(n - 1) : relay[m] # "none"
             /\ relay' = [relay EXCEPT ![n] = "pending"]
             /\ flow' = [phase |-> "begin", op |-> run.op, n |-> n]
        /\ Goto("begin") /\ UNCHANGED faults
     \/ ~ok /\ Fault /\ Return /\ UNCHANGED <<flow, relay>>  \* OAuthCallbackReceiver::new fails
  /\ UNCHANGED <<bundle, receipts, sent, lapses, shown, stops>>

\* Beginning without restart first tries the refresh token there is.
Retained == IF run.restart THEN NoTok ELSE run.mem.tok
Issue(url) == [is |-> TRUE, tok |-> [gen |-> tokens + 1, fresh |-> TRUE], url |-> url, code |-> 0]
Holds(tok, url) == [is |-> TRUE, tok |-> tok, url |-> url, code |-> 0]
Carry(s, b, out) == run' = [run EXCEPT !.step = s, !.mem = b, !.out = out]

\* process::begin; its errors leave the flow, mark it or delete it.
BeginDispatch(out) ==
  LET token == <<"token", Retained.gen>>
  IN /\ run.step = "begin"
     /\ CASE out = "redirect" ->
               /\ Send(token) /\ Kept(Retained.gen, "page")
               /\ Carry("redirect", Holds(Retained, flow.n), "none") /\ UNCHANGED <<flow, tokens, faults>>
          [] out = "authorized" ->
               /\ Retained.gen # 0 /\ tokens < MaxTokens /\ tokens' = tokens + 1 /\ Send(token)
               /\ Carry("store", Issue(0), "authorized") /\ UNCHANGED <<flow, lapses, faults>>
          [] out \in {"failure", "uncertain"} ->
               /\ Fault /\ Send(token) /\ Kept(IF out = "uncertain" THEN 0 ELSE Retained.gen, "definite")
               /\ Carry("store", Holds(Retained, 0), out) /\ UNCHANGED <<flow, tokens>>
          [] out = "lost" -> Fault /\ Send(token) /\ MarkUnknown /\ UNCHANGED <<tokens, lapses>>
          [] out = "undispatched" -> Fault /\ flow' = NoFlow /\ Return /\ UNCHANGED <<sent, lapses>>
          [] out = "registration" -> Fault /\ Return /\ UNCHANGED <<flow, sent, lapses>>
     /\ UNCHANGED <<bundle, receipts, relay, shown, stops>>

StoreRedirect(ok) ==
  /\ run.step = "redirect"
  /\ \/ ok /\ bundle' = run.mem /\ Goto("stored") /\ UNCHANGED <<flow, faults>>
     \/ ~ok /\ Fault /\ MarkUnknown /\ UNCHANGED bundle
  /\ UNCHANGED <<receipts, relay, sent, lapses, shown, stops>>

AwaitCallback ==
  /\ run.step = "stored"
  /\ flow' = Phase("awaiting") /\ Goto("wait")
  /\ UNCHANGED <<bundle, receipts, relay, sent, lapses, shown, stops, faults>>

-----------------------------------------------------------------------------
(* resume                                                                  *)

\* Every relay flow has the same redirect URI, which is all that
\* validate_saved_callback compares.
ResumeBegin ==
  /\ run.step = "load" /\ flow.phase = "begin"
  /\ \/ ~bundle.is /\ MarkUnknown
     \/ /\ bundle.is /\ bundle.url = 0    \* recover_completed_begin
        /\ IF bundle.tok.fresh THEN Carry("store", Holds(bundle.tok, 0), "authorized") /\ UNCHANGED flow
           ELSE MarkUnknown
     \/ bundle.url # 0 /\ flow' = Phase("awaiting") /\ Goto("resume")
  /\ Kept(IF flow'.phase = "unknown" THEN 0 ELSE bundle.tok.gen, "page")
  /\ UNCHANGED <<bundle, receipts, relay, sent, shown, stops, faults>>

ResumeAwaiting ==
  /\ run.step = "load" /\ flow.phase = "awaiting"
  /\ IF bundle.code # 0 THEN flow' = Phase("ready") /\ Goto("ready") ELSE Goto("resume") /\ UNCHANGED flow
  /\ UNCHANGED <<bundle, receipts, relay, sent, lapses, shown, stops, faults>>

\* resume_callback: an expired relay ends the call and keeps the flow.
ResumeCallback ==
  /\ run.step = "resume"
  /\ IF relay[flow.n] = "expired" THEN Return ELSE Goto("wait")
  /\ UNCHANGED <<durable, sent, lapses, shown, stops, faults>>

ResumeReady ==
  /\ run.step = "load" /\ flow.phase = "ready"
  /\ Goto("ready")
  /\ UNCHANGED <<durable, sent, lapses, shown, stops, faults>>

\* recover_exchange: a code still kept means nobody knows whether it was used.
RecoverExchange ==
  /\ run.step = "load" /\ flow.phase = "exchange"
  /\ IF bundle.code = 0 /\ bundle.tok.fresh
     THEN Carry("store", Holds(bundle.tok, bundle.url), "authorized") /\ UNCHANGED flow
     ELSE MarkUnknown
  /\ UNCHANGED <<bundle, receipts, relay, sent, lapses, shown, stops, faults>>

ResumeUnknown ==
  /\ run.step = "load" /\ flow.phase = "unknown"
  /\ Return
  /\ UNCHANGED <<durable, sent, lapses, shown, stops, faults>>

-----------------------------------------------------------------------------
(* wait_for_callback                                                       *)

\* emit_redirect; a call with updates leaves the person to it.
Wait(stays) ==
  /\ run.step = "wait"
  /\ shown' = shown \cup {run.mem.url}
  /\ IF stays THEN Goto("receive") ELSE Return
  /\ UNCHANGED <<durable, sent, lapses, stops, faults>>

\* RemoteOAuthCallback::receive
Receive ==
  /\ run.step = "receive"
  /\ CASE relay[flow.n] = "authorized" -> Carry("code", [run.mem EXCEPT !.code = flow.n], "none")
       [] relay[flow.n] = "rejected" -> Carry("receipt", run.mem, "rejected")
       [] relay[flow.n] \in {"expired", "acked"} -> Return
       [] OTHER -> FALSE
  /\ UNCHANGED <<durable, sent, lapses, shown, stops, faults>>

StoreCode(ok) ==
  /\ run.step = "code"
  /\ \/ ok /\ bundle' = run.mem /\ Goto("coded") /\ UNCHANGED faults
     \/ ~ok /\ Fault /\ Return /\ UNCHANGED bundle
  /\ UNCHANGED <<flow, receipts, relay, sent, lapses, shown, stops>>

CallbackReady ==
  /\ run.step = "coded"
  /\ flow' = Phase("ready") /\ Goto("ready")
  /\ UNCHANGED <<bundle, receipts, relay, sent, lapses, shown, stops, faults>>

-----------------------------------------------------------------------------
(* exchange_pending                                                        *)

AcknowledgeRelay ==
  /\ run.step = "ready"
  /\ IF Acknowledges THEN relay' = RelayAcknowledged /\ Goto("acked") ELSE Return /\ UNCHANGED relay
  /\ UNCHANGED <<flow, bundle, receipts, sent, lapses, shown, stops, faults>>

ExchangeInFlight ==
  /\ run.step = "acked"
  /\ flow' = Phase("exchange") /\ run' = [run EXCEPT !.step = "exchange", !.mem = bundle]
  /\ UNCHANGED <<bundle, receipts, relay, sent, lapses, shown, stops, faults>>

\* process::exchange; what it returns forgets the code.
ExchangeDispatch(out) ==
  LET code == <<"code", run.mem.code>>
  IN /\ run.step = "exchange"
     /\ CASE out = "authorized" ->
               /\ tokens < MaxTokens /\ tokens' = tokens + 1 /\ Send(code)
               /\ Carry("store", Issue(run.mem.url), out) /\ UNCHANGED <<flow, faults>>
          [] out \in {"failure", "uncertain", "required"} ->
               /\ Fault /\ Send(code)
               /\ Carry("store", Holds(run.mem.tok, run.mem.url), out) /\ UNCHANGED <<flow, tokens>>
          [] out = "lost" -> Fault /\ Send(code) /\ MarkUnknown /\ UNCHANGED tokens
          [] out = "undispatched" -> Fault /\ flow' = NoFlow /\ Return /\ UNCHANGED sent
          [] out = "registration" -> Fault /\ Return /\ UNCHANGED <<flow, sent>>
     /\ UNCHANGED <<bundle, receipts, relay, lapses, shown, stops>>

\* process::refresh.  Its success has no receipt.
RefreshDispatch(out) ==
  LET token == <<"token", run.mem.tok.gen>>
  IN /\ run.step = "refresh"
     /\ CASE out = "authorized" ->
               /\ run.mem.tok.gen # 0 /\ tokens < MaxTokens /\ tokens' = tokens + 1 /\ Send(token)
               /\ Carry("store", Issue(run.mem.url), "refreshed") /\ UNCHANGED <<flow, lapses, faults>>
          [] out \in {"failure", "uncertain", "required"} ->
               /\ Fault /\ Send(token) /\ Kept(IF out = "uncertain" THEN 0 ELSE run.mem.tok.gen, "definite")
               /\ Carry("store", Holds(run.mem.tok, run.mem.url), out) /\ UNCHANGED <<flow, tokens>>
          [] out = "lost" -> Fault /\ Send(token) /\ MarkUnknown /\ UNCHANGED <<tokens, lapses>>
          [] out = "undispatched" -> Fault /\ flow' = NoFlow /\ Return /\ UNCHANGED <<sent, lapses>>
          [] OTHER -> FALSE
     /\ UNCHANGED <<bundle, receipts, relay, shown, stops>>

-----------------------------------------------------------------------------
(* completion: keep the state, then the receipts, then drop the flow.      *)

StoreResult(ok) ==
  /\ run.step = "store"
  /\ \/ /\ ok /\ bundle' = run.mem /\ UNCHANGED faults
        /\ CASE run.out = "uncertain" -> MarkUnknown
             [] run.out = "refreshed" -> Goto("delete") /\ UNCHANGED flow
             [] OTHER -> Goto("receipt") /\ UNCHANGED flow
     \/ ~ok /\ Fault /\ MarkUnknown /\ UNCHANGED bundle
  /\ UNCHANGED <<receipts, relay, sent, lapses, shown, stops>>

PutReceiptBad(o, next) == receipts' = [receipts EXCEPT ![o] = run.out] /\ Goto(next) /\ UNCHANGED flow

\* put_receipt: the first outcome of an operation stays; another conflicts.
PutReceipt(o, next) ==
  IF receipts[o] \in {"none", run.out}
  THEN receipts' = [receipts EXCEPT ![o] = run.out] /\ Goto(next) /\ UNCHANGED flow
  ELSE MarkUnknown /\ UNCHANGED receipts

\* record_receipt_pair: the flow's own operation, then the one that resumed it.
RecordOriginal ==
  /\ run.step = "receipt"
  /\ PutReceipt(flow.op, IF flow.op = run.op THEN "ack" ELSE "pair")
  /\ UNCHANGED <<bundle, relay, sent, lapses, shown, stops, faults>>

RecordCurrent ==
  /\ run.step = "pair"
  /\ PutReceipt(run.op, "ack")
  /\ UNCHANGED <<bundle, relay, sent, lapses, shown, stops, faults>>

\* A rejected callback is acknowledged once its receipts are kept.
AcknowledgeRejected ==
  /\ run.step = "ack"
  /\ relay' = IF run.out = "rejected" THEN RelayAcknowledged ELSE relay
  /\ Goto("delete")
  /\ UNCHANGED <<flow, bundle, receipts, sent, lapses, shown, stops, faults>>

DeleteFlow ==
  /\ run.step = "delete"
  /\ flow' = NoFlow /\ Return
  /\ UNCHANGED <<bundle, receipts, relay, sent, lapses, shown, stops, faults>>

-----------------------------------------------------------------------------
(* The person, the relay's lifetime, the token's lifetime and a stop.      *)

Answer(n, a) ==
  /\ n \in shown /\ relay[n] = "pending"
  /\ relay' = [relay EXCEPT ![n] = a]
  /\ UNCHANGED <<flow, bundle, receipts, run, sent, lapses, shown, stops, faults>>

ExpireRelay(n) ==
  /\ relay[n] \in {"pending", "authorized", "rejected", "acked"}
  /\ relay' = [relay EXCEPT ![n] = "expired"]
  /\ UNCHANGED <<flow, bundle, receipts, run, sent, lapses, shown, stops, faults>>

ExpireToken ==
  /\ bundle.tok.fresh
  /\ bundle' = [bundle EXCEPT !.tok.fresh = FALSE]
  /\ UNCHANGED <<flow, receipts, relay, run, sent, lapses, shown, stops, faults>>

Stop ==
  /\ run # Idle /\ stops < MaxStops
  /\ stops' = stops + 1 /\ Return
  /\ \/ SendsNothing
     \/ run.step = "begin" /\ Send(<<"token", Retained.gen>>)
     \/ run.step = "refresh" /\ Send(<<"token", run.mem.tok.gen>>)
     \/ run.step = "exchange" /\ Send(<<"code", run.mem.code>>)
  /\ UNCHANGED <<durable, tokens, lapses, shown, faults>>

Outcomes == {"redirect", "authorized", "failure", "uncertain", "required", "lost", "undispatched", "registration"}

Next ==
  \/ \E o \in Ops : ReplayReceipt(o) \/ Resolve(o) \/ RecoverRefresh(o) \/ \E restart \in BOOLEAN : Authorize(o, restart)
  \/ \E ok \in BOOLEAN : Begin(ok) \/ StoreRedirect(ok) \/ StoreCode(ok) \/ StoreResult(ok) \/ Wait(ok)
  \/ \E out \in Outcomes \ {"required"} : BeginDispatch(out)
  \/ \E out \in Outcomes \ {"redirect"} : ExchangeDispatch(out) \/ RefreshDispatch(out)
  \/ AwaitCallback \/ ResumeBegin \/ ResumeAwaiting \/ ResumeCallback \/ ResumeReady \/ RecoverExchange \/ ResumeUnknown
  \/ Receive \/ CallbackReady \/ AcknowledgeRelay \/ ExchangeInFlight
  \/ RecordOriginal \/ RecordCurrent \/ AcknowledgeRejected \/ DeleteFlow
  \/ \E n \in Flows : ExpireRelay(n) \/ \E a \in {"authorized", "rejected"} : Answer(n, a)
  \/ ExpireToken \/ Stop

Spec == Init /\ [][Next]_vars

-----------------------------------------------------------------------------
(* Properties.                                                             *)

Toks == [gen : 0..MaxTokens, fresh : BOOLEAN]
Bundles == [is : BOOLEAN, tok : Toks, url : 0..MaxFlows, code : 0..MaxFlows]

\* The types of the state, with the row's constraint: only an interactive phase has a callback (validate_loaded).
TypeOK ==
  /\ flow.op \in Ops \cup {"none"} /\ bundle \in Bundles /\ run.mem \in Bundles
  /\ flow.n # 0 <=> flow.phase \in {"begin", "awaiting", "ready", "exchange"}
  /\ receipts \in [Ops -> {"none", "authorized", "failure", "required", "rejected"}]
  /\ run.step \in {"idle", "load", "begin", "redirect", "stored", "resume", "wait", "receive", "code", "coded", "ready",
                   "acked", "exchange", "refresh", "store", "receipt", "pair", "ack", "delete"}
  /\ spent \subseteq ({"code", "token"} \X (Flows \cup 1..MaxTokens)) /\ replayed \subseteq spent

\* Until a restart drops another operation's flow, an authorization code that was sent is not sent again, whatever
\* came of it, over stops at any step and calls by other operations (exchange_pending, recover_exchange).
CodeOnce == "restart" \notin lapses => \A x \in replayed : x[1] # "code"

\* A refresh token that was sent is not sent again, over stops, lost answers and calls by other operations: it was
\* replaced, or its outcome is recorded as unknown (refresh, recover_refresh). The ways around this are the lapses.
RefreshOnce == lapses = {} => \A x \in replayed : x[1] # "token"

\* A callback is acknowledged to the relay, which then forgets it, only when its code is kept in the secret store or its rejection in a receipt.
AcknowledgedWhenKept ==
  \A n \in Flows : relay[n] # "acked" /\ relay'[n] = "acked" =>
       \/ relay[n] = "authorized" /\ bundle.code = n
       \/ relay[n] = "rejected" /\ receipts[flow.op] = "rejected"

\* An operation is told it is authorized only once its tokens are kept without the code they were bought with; what it was told never changes.
AuthorizedWhenKept ==
  \A o \in Ops :
       /\ receipts[o] # "none" => receipts'[o] = receipts[o]
       /\ receipts[o] # receipts'[o] /\ receipts'[o] = "authorized" => bundle.tok.gen # 0 /\ bundle.code = 0
=============================================================================
