---------------------------- MODULE SystemStatus ----------------------------
(***************************************************************************)
(* GET /v1/system/status end to end: the Go handler (httpapi), the bounded *)
(* call it makes through mlclient.Client.ModelInfo, the pooled connections *)
(* of the HTTP transport underneath, and the ML service on the other side, *)
(* which may be slow, misbehave, crash and come back.                      *)
(*                                                                         *)
(* Timers count down, so no clock bounds a behaviour: Tick lets one unit   *)
(* of time pass and is disabled while some handler has a step it need not  *)
(* wait for (computation takes no time, only waiting does).                *)
(***************************************************************************)
EXTENDS Integers

CONSTANTS
  Requests,      \* slots for concurrent status requests, each reused forever
  MLTimeout,     \* Config.MLServiceTimeout, in ticks
  WriteTimeout,  \* Config.WriteTimeout, in ticks
  MaxIdle,       \* idle connections the transport keeps for the ML host
  Answers        \* what the server behind ML_SERVICE_URL may answer

Answer == [status : {"200", "other"}, body : {"valid", "invalid", "oversized"}]

ASSUME TimeoutsPositive == MLTimeout \in Nat \ {0} /\ WriteTimeout \in Nat \ {0}
ASSUME PoolBound == MaxIdle \in Nat
ASSUME AnswersKnown == Answers \subseteq Answer

VARIABLES
  ml,         \* the ML service process: "up" or "down"
  live,       \* idle pooled connections whose server end is open
  stale,      \* idle pooled connections the server has closed or left
  pc,         \* where the handler of each request is
  wire,       \* the exchange with the ML service of each request
  conn,       \* the kind of connection that exchange uses
  left,       \* ticks until http.Client.Timeout ends the call
  writeLeft,  \* ticks until the server's write deadline
  ctx,        \* the request context: "live", or what cancelled it
  report,     \* dependency status the handler settled on
  reply,      \* what became of the HTTP response
  fate,       \* history: what the server did with the current call
  saw         \* history: ml states that held while the call was open

callVars == <<wire, conn, fate>>
poolVars == <<live, stale>>
vars == <<ml, live, stale, pc, wire, conn, left, writeLeft, ctx, report,
          reply, fate, saw>>

NotAnswered == [status |-> "none", body |-> "none"]
Aborted     == [status |-> "aborted", body |-> "none"]
Unreachable == [status |-> "unreachable", body |-> "none"]
Conforming  == [status |-> "200", body |-> "valid"]

-----------------------------------------------------------------------------
\* Mutant: a non-200 document is decoded like any other.
Outcome_StatusUnchecked(answer) ==
  IF answer.body = "valid" THEN "none" ELSE "invalid"

\* Client.ModelInfo on a complete response: the size check of readBoundedBody
\* comes before the status check, the decoding and validation after it.
Outcome(answer) ==
  CASE answer.body = "oversized" -> "invalid"
    [] answer.body # "oversized" /\ answer.status # "200" -> "status"
    [] answer.body = "invalid" /\ answer.status = "200" -> "invalid"
    [] OTHER -> "none"

\* Mutant: a cancelled context counts as a timeout.
Classify_CanceledIsTimeout(err) ==
  CASE err = "none" -> "ready"
    [] err \in {"deadline", "net_timeout", "canceled"} -> "timeout"
    [] err = "invalid" -> "invalid_response"
    [] OTHER -> "unavailable"

\* Mutant: an error of no known kind is no error.
Classify_KnownOnly(err) ==
  CASE err \in {"deadline", "net_timeout"} -> "timeout"
    [] err = "invalid" -> "invalid_response"
    [] OTHER -> "ready"

\* classifyDependencyError, with "ready" for the absence of an error.
Classify(err) ==
  CASE err = "none" -> "ready"
    [] err \in {"deadline", "net_timeout"} -> "timeout"
    [] err = "invalid" -> "invalid_response"
    [] OTHER -> "unavailable"

\* Mutant: only an unavailable dependency degrades the system.
Overall_OnlyUnavailable(status) == IF status = "unavailable" THEN "degraded" ELSE "healthy"

\* The combined status systemStatus puts above the dependency's.
Overall(status) == IF status = "ready" THEN "healthy" ELSE "degraded"

\* Mutant: the budget outlasts the configured timeout.
CallBudget_OffByOne == MLTimeout + 1

\* http.Client.Timeout, set by mlclient.New, covers dialling to the last byte.
CallBudget == MLTimeout

Probing(r) == pc[r] = "probe"

\* The call returns: the handler classifies the error and turns to writing.
EndCall(r, err) ==
  /\ pc' = [pc EXCEPT ![r] = "write"]
  /\ wire' = [wire EXCEPT ![r] = "none"]
  /\ conn' = [conn EXCEPT ![r] = "none"]
  /\ report' = [report EXCEPT ![r] = Classify(err)]
  /\ UNCHANGED <<ml, left, writeLeft, ctx, reply, saw>>

-----------------------------------------------------------------------------
Init ==
  /\ ml \in {"up", "down"}
  /\ live = 0
  /\ stale = 0
  /\ pc = [r \in Requests |-> "idle"]
  /\ wire = [r \in Requests |-> "none"]
  /\ conn = [r \in Requests |-> "none"]
  /\ left = [r \in Requests |-> 0]
  /\ writeLeft = [r \in Requests |-> 0]
  /\ ctx = [r \in Requests |-> "live"]
  /\ report = [r \in Requests |-> "none"]
  /\ reply = [r \in Requests |-> "none"]
  /\ fate = [r \in Requests |-> NotAnswered]
  /\ saw = [r \in Requests |-> {}]

(* The server has read a request header and armed the write deadline; the  *)
(* middleware and systemStatus run up to httpClient.Do.                    *)
Arrive(r) ==
  /\ pc[r] \in {"idle", "done"}
  /\ pc' = [pc EXCEPT ![r] = "probe"]
  /\ wire' = [wire EXCEPT ![r] = "dial"]
  /\ left' = [left EXCEPT ![r] = CallBudget]
  /\ writeLeft' = [writeLeft EXCEPT ![r] = WriteTimeout]
  /\ report' = [report EXCEPT ![r] = "none"]
  /\ reply' = [reply EXCEPT ![r] = "none"]
  /\ saw' = [saw EXCEPT ![r] = {ml}]
  /\ UNCHANGED <<ml, poolVars, conn, ctx, fate>>

(* The transport hands out an idle connection that still works.            *)
ReuseLive(r) ==
  /\ wire[r] = "dial" /\ live > 0
  /\ live' = live - 1
  /\ wire' = [wire EXCEPT ![r] = "sent"]
  /\ conn' = [conn EXCEPT ![r] = "reused"]
  /\ UNCHANGED <<ml, stale, pc, left, writeLeft, ctx, report, reply, fate, saw>>

(* ... or one whose server end is gone, which shows as a reset or, when    *)
(* the peer's host vanished, not at all.                                   *)
ReuseStale(r) ==
  /\ wire[r] = "dial" /\ stale > 0
  /\ stale' = stale - 1
  /\ \E seen \in {"reset", "silent"} : wire' = [wire EXCEPT ![r] = seen]
  /\ conn' = [conn EXCEPT ![r] = "reused"]
  /\ UNCHANGED <<ml, live, pc, left, writeLeft, ctx, report, reply, fate, saw>>

(* A new connection is accepted, refused, or given up by the resolver or   *)
(* dialler with a timeout of its own (a net.Error whose Timeout() holds).  *)
DialFresh(r) ==
  /\ wire[r] = "dial" /\ ml = "up"
  /\ wire' = [wire EXCEPT ![r] = "sent"]
  /\ conn' = [conn EXCEPT ![r] = "fresh"]
  /\ UNCHANGED <<ml, poolVars, pc, left, writeLeft, ctx, report, reply, fate, saw>>

Refused(r) ==
  /\ wire[r] = "dial" /\ ml = "down"
  /\ EndCall(r, "network")
  /\ UNCHANGED <<poolVars, fate>>

DialTimeout(r) ==
  /\ wire[r] = "dial"
  /\ fate' = [fate EXCEPT ![r] = Unreachable]
  /\ EndCall(r, "net_timeout")
  /\ UNCHANGED poolVars

(* The ML service handles the request; its response headers arrive.        *)
Serve(r) ==
  /\ wire[r] = "sent" /\ ml = "up"
  /\ \E answer \in Answers : fate' = [fate EXCEPT ![r] = answer]
  /\ wire' = [wire EXCEPT ![r] = "headers"]
  /\ UNCHANGED <<ml, poolVars, pc, conn, left, writeLeft, ctx, report, reply, saw>>

(* The server closes the connection without a (complete) response: uvicorn *)
(* does so when an exception escapes the middleware after the start.       *)
Abort(r) ==
  /\ wire[r] \in {"sent", "headers"} /\ ml = "up"
  /\ wire' = [wire EXCEPT ![r] = IF @ = "sent" THEN "reset" ELSE "cut"]
  /\ fate' = [fate EXCEPT ![r] = Aborted]
  /\ UNCHANGED <<ml, poolVars, pc, conn, left, writeLeft, ctx, report, reply, saw>>

(* The body is read to its end and checked (a body that arrived whole is   *)
(* read before a crash). A connection whose body was read to EOF returns   *)
(* to the pool; one left at the size limit is closed.                      *)
Receive(r) ==
  /\ wire[r] = "headers" /\ ml = "up"
  /\ live' = IF fate[r].body # "oversized" /\ live + stale < MaxIdle
             THEN live + 1 ELSE live
  /\ EndCall(r, Outcome(fate[r]))
  /\ UNCHANGED <<stale, fate>>

(* Transport: a request that failed on a reused connection before the      *)
(* first response byte is sent again, on any connection.                   *)
Retry(r) ==
  /\ wire[r] = "reset" /\ conn[r] = "reused"
  /\ wire' = [wire EXCEPT ![r] = "dial"]
  /\ conn' = [conn EXCEPT ![r] = "none"]
  /\ fate' = [fate EXCEPT ![r] = NotAnswered]
  /\ UNCHANGED <<ml, poolVars, pc, left, writeLeft, ctx, report, reply, saw>>

Broken(r) ==
  /\ \/ wire[r] = "reset" /\ conn[r] # "reused"
     \/ wire[r] = "cut"
  /\ EndCall(r, "network")
  /\ UNCHANGED <<poolVars, fate>>

\* Mutant: the timeout is the dialler's, not the whole call's.
Timeout_DialOnly(r) ==
  /\ wire[r] = "dial" /\ left[r] = 0
  /\ EndCall(r, "deadline")
  /\ UNCHANGED <<poolVars, fate>>

Timeout(r) ==
  /\ Probing(r) /\ left[r] = 0
  /\ EndCall(r, "deadline")
  /\ UNCHANGED <<poolVars, fate>>

(* The client disconnects, or the server's read deadline passes under the  *)
(* background read (the client still waits): each cancels the request      *)
(* context.                                                                *)
CancelContext(r) ==
  /\ Probing(r) /\ ctx[r] = "live"
  /\ \E cause \in {"client_left", "read_deadline"} : ctx' = [ctx EXCEPT ![r] = cause]
  /\ UNCHANGED <<ml, poolVars, pc, callVars, left, writeLeft, report, reply, saw>>

Cancelled(r) ==
  /\ Probing(r) /\ ctx[r] # "live"
  /\ EndCall(r, "canceled")
  /\ UNCHANGED <<poolVars, fate>>

(* writeJSON, and the flush when the handler returns: the bytes are lost   *)
(* when the client left or the write deadline has passed.                  *)
WriteReply(r) ==
  /\ pc[r] = "write"
  /\ pc' = [pc EXCEPT ![r] = "done"]
  /\ reply' = [reply EXCEPT ![r] = IF ctx[r] = "client_left" THEN "nobody"
                                  ELSE IF writeLeft[r] > 0 THEN "delivered" ELSE "lost"]
  /\ left' = [left EXCEPT ![r] = 0]
  /\ writeLeft' = [writeLeft EXCEPT ![r] = 0]
  /\ ctx' = [ctx EXCEPT ![r] = "live"]
  /\ fate' = [fate EXCEPT ![r] = NotAnswered]
  /\ saw' = [saw EXCEPT ![r] = {}]
  /\ UNCHANGED <<ml, poolVars, wire, conn, report>>

-----------------------------------------------------------------------------
(* The ML service process dies: peers of its connections see a reset or    *)
(* nothing. Compose restarts it (restart: unless-stopped).                 *)
InFlight == {r \in Requests : wire[r] \in {"sent", "headers"}}

Witness(state) == saw' = [r \in Requests |-> IF Probing(r) THEN saw[r] \cup {state}
                                                        ELSE saw[r]]

Crash ==
  /\ ml = "up" /\ ml' = "down"
  /\ live' = 0 /\ stale' = live + stale
  /\ \E broken \in SUBSET InFlight :
       wire' = [r \in Requests |->
                  CASE r \in broken /\ wire[r] = "sent" -> "reset"
                    [] r \in broken /\ wire[r] = "headers" -> "cut"
                    [] r \in InFlight \ broken -> "silent"
                    [] OTHER -> wire[r]]
  /\ Witness("down")
  /\ UNCHANGED <<pc, conn, left, writeLeft, ctx, report, reply, fate>>

Restart ==
  /\ ml = "down" /\ ml' = "up"
  /\ Witness("up")
  /\ UNCHANGED <<poolVars, pc, callVars, left, writeLeft, ctx, report, reply>>

(* uvicorn's keep-alive timer closes an idle connection; the transport     *)
(* drops an idle connection it has seen closed.                            *)
IdleClose ==
  /\ live > 0
  /\ live' = live - 1 /\ stale' = stale + 1
  /\ UNCHANGED <<ml, pc, callVars, left, writeLeft, ctx, report, reply, saw>>

DropStale ==
  /\ stale > 0 /\ stale' = stale - 1
  /\ UNCHANGED <<ml, live, pc, callVars, left, writeLeft, ctx, report, reply, saw>>

(* A dial no request waits for any more (its request was cancelled, or an  *)
(* idle connection came first) completes and joins the pool.               *)
SpareDial ==
  /\ ml = "up" /\ live + stale < MaxIdle
  /\ live' = live + 1
  /\ UNCHANGED <<ml, stale, pc, callVars, left, writeLeft, ctx, report, reply, saw>>

Urgent(r) ==
  \/ pc[r] = "write"
  \/ Probing(r) /\ (left[r] = 0 \/ ctx[r] # "live" \/ wire[r] \in {"reset", "cut"})

Tick ==
  /\ \A r \in Requests : ~Urgent(r)
  /\ left' = [r \in Requests |-> IF Probing(r) THEN left[r] - 1 ELSE left[r]]
  /\ writeLeft' = [r \in Requests |-> IF Probing(r) /\ writeLeft[r] > 0
                                      THEN writeLeft[r] - 1 ELSE writeLeft[r]]
  /\ UNCHANGED <<ml, poolVars, pc, callVars, ctx, report, reply, saw>>

Exchange(r) ==
  \/ ReuseLive(r) \/ ReuseStale(r) \/ DialFresh(r) \/ Refused(r) \/ DialTimeout(r)
  \/ Serve(r) \/ Abort(r) \/ Receive(r) \/ Retry(r) \/ Broken(r)

Handler(r) == Arrive(r) \/ Timeout(r) \/ CancelContext(r) \/ Cancelled(r) \/ WriteReply(r)

Service == Crash \/ Restart \/ IdleClose \/ DropStale \/ SpareDial

Next ==
  \/ \E r \in Requests : Handler(r)
  \/ \E r \in Requests : Exchange(r)
  \/ Service
  \/ Tick

(* Time cannot be held up for ever by steps that take none (strong, since  *)
(* such steps disable Tick); the Go runtime fires timers, cancels contexts *)
(* and runs handlers to completion. Nothing obliges the ML service to act. *)
Fairness ==
  /\ SF_vars(Tick)
  /\ \A r \in Requests : /\ WF_vars(Timeout(r))
                         /\ WF_vars(Cancelled(r))
                         /\ WF_vars(Retry(r) \/ Broken(r))
                         /\ WF_vars(WriteReply(r))

Safety == Init /\ [][Next]_vars
Spec == Safety /\ Fairness

-----------------------------------------------------------------------------
TypeOK ==
  /\ ml \in {"up", "down"}
  /\ live \in Nat /\ stale \in Nat /\ live + stale <= MaxIdle
  /\ pc \in [Requests -> {"idle", "probe", "write", "done"}]
  /\ wire \in [Requests -> {"none", "dial", "sent", "headers", "reset", "cut", "silent"}]
  /\ conn \in [Requests -> {"none", "fresh", "reused"}]
  /\ left \in [Requests -> 0..MLTimeout]
  /\ writeLeft \in [Requests -> 0..WriteTimeout]
  /\ ctx \in [Requests -> {"live", "client_left", "read_deadline"}]
  /\ report \in [Requests -> {"none", "ready", "timeout", "invalid_response", "unavailable"}]
  /\ reply \in [Requests -> {"none", "delivered", "nobody", "lost"}]
  /\ fate \in [Requests -> Answers \cup {NotAnswered, Aborted, Unreachable}]
  /\ saw \in [Requests -> SUBSET {"up", "down"}]

(* systemStatus says "healthy" only of an ML service that was up while this *)
(* very call was open and that answered it 200 with a conforming document,  *)
(* however connections were reused and retried and the service restarted.   *)
HealthyIsEarned ==
  \A r \in Requests :
    pc[r] = "write" /\ report[r] = "ready" => fate[r] = Conforming /\ "up" \in saw[r]

(* Each degraded status classifyDependencyError picks names its cause: a    *)
(* timeout spent the whole budget or never reached the host; an invalid     *)
(* response is one the server did send; unavailable needs a cancelled       *)
(* context, a service that was down, broke the exchange off or refused by   *)
(* status: a pooled connection gone stale is no reason.                     *)
DegradedHasCause ==
  \A r \in Requests : pc[r] = "write" =>
    /\ report[r] = "timeout" => left[r] = 0 \/ fate[r] = Unreachable
    /\ report[r] = "invalid_response" =>
         /\ fate[r] \in Answers
         /\ fate[r].body = "oversized" \/ (fate[r].status = "200" /\ fate[r].body = "invalid")
    /\ report[r] = "unavailable" =>
         \/ ctx[r] # "live"
         \/ "down" \in saw[r]
         \/ fate[r] = Aborted
         \/ fate[r] \in Answers /\ fate[r].status = "other"

(* The two deadlines of a request run down together: whatever the call has  *)
(* left, the response has more by the same margin.                          *)
ResponseOutlivesCall ==
  \A r \in Requests :
    pc[r] \in {"probe", "write"} => writeLeft[r] >= left[r] + (WriteTimeout - MLTimeout)

(* A client that is still there gets the status document, degraded or not:  *)
(* the server's write deadline never passes first. It takes a write timeout *)
(* longer than the ML timeout, which config.go does not ask for.            *)
DegradedIsReported == \A r \in Requests : reply[r] # "lost"

(* Every status request is answered or given up, even when the ML service   *)
(* never says a word: http.Client.Timeout bounds the call.                  *)
EveryProbeEnds == \A r \in Requests : pc[r] = "probe" ~> pc[r] = "done"

(* Once the ML service is down for good, "healthy" reports stop: no cached  *)
(* answer and no pooled connection keeps one coming.                        *)
OutageVisible ==
  <>[](ml = "down") => <>[](\A r \in Requests : ~(pc[r] = "write" /\ report[r] = "ready"))

\* The contract of one client slot, stated in StatusContract without
\* connections, errors or write deadlines.
Contract(r) == INSTANCE StatusContract WITH
  Bound   <- MLTimeout,
  service <- ml,
  stage   <- CASE pc[r] = "probe" -> "open"
               [] pc[r] = "write" -> "judged"
               [] pc[r] \in {"idle", "done"} -> "closed",
  age     <- IF pc[r] = "probe" THEN MLTimeout - left[r] ELSE 0,
  seen    <- IF pc[r] = "probe" THEN saw[r] ELSE {},
  verdict <- IF pc[r] \in {"write", "done"} THEN Overall(report[r]) ELSE "none"

(* What each client of the endpoint is promised holds of the implementation *)
(* underneath: judged in time, healthy only if the service was up meanwhile *)
ContractInit == \A r \in Requests : Contract(r)!Init
ContractNext == \A r \in Requests : [Contract(r)!Next]_(Contract(r)!vars)
KeepsSafeContract == ContractInit /\ [][ContractNext]_vars

(* ... and each question is eventually judged and answered.                 *)
KeepsContract == KeepsSafeContract /\ \A r \in Requests : Contract(r)!Fairness
=============================================================================
