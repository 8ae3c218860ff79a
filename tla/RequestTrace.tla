----------------------------- MODULE RequestTrace -----------------------------
(***************************************************************************)
(* One request ID through both services: the search API's middleware, the  *)
(* status handler's call to the ML service with the ID in X-Request-ID,    *)
(* and the ML service's middleware. The transport may send one call twice; *)
(* other clients may call the ML service directly.                         *)
(***************************************************************************)
EXTENDS RequestId

CONSTANTS Requests, Calls, Headers, Statuses, MaxDocs, AppStatuses

ASSUME SentHeadersAreText == Headers \subseteq Seq(Char)
ASSUME StatusesAreCodes == Statuses \subseteq 200..599
ASSUME MaxDocsPositive == MaxDocs \in Nat \ {0}
ASSUME AppStatusesAreCodes == AppStatuses \subseteq 200..499

VARIABLES
  stage, id, counter, recorder, sent, docs, line, alarm,
  at, request_id, started, status, starts, message, wire, closed, connected, logged,
  origin     \* the search API request behind each ML service call

Go == INSTANCE GoMiddleware
Py == INSTANCE AsgiMiddleware WITH PyHeaders <- Headers

goVars == <<stage, id, counter, recorder, sent, docs, line, alarm>>
pyVars == <<at, request_id, started, status, starts, message, wire, closed, connected, logged>>
vars == <<goVars, pyVars, origin>>

Direct == "direct"   \* not from the search API, or not yet used

Init == Go!Init /\ Py!Init /\ origin = [q \in Calls |-> Direct]

\* Mutant: the handler's context does not carry the ID.
Forward_WithoutId(r, q) ==
  /\ stage[r] = "handler" /\ ~recorder[r].wroteHeader
  /\ Py!Arrive(q, <<>>, id[r].from)
  /\ origin' = [origin EXCEPT ![q] = r]
  /\ UNCHANGED goVars

\* mlServiceStatus and ModelInfo: the request's ID goes into the header.
Forward(r, q) ==
  /\ stage[r] = "handler" /\ ~recorder[r].wroteHeader
  /\ Py!Arrive(q, id[r].text, id[r].from)
  /\ origin' = [origin EXCEPT ![q] = r]
  /\ UNCHANGED goVars

Next ==
  \/ Go!Next /\ UNCHANGED <<pyVars, origin>>
  \/ Py!Next /\ UNCHANGED <<goVars, origin>>
  \/ \E r \in Requests, q \in Calls : Forward(r, q)

Spec == Init /\ [][Next]_vars

-----------------------------------------------------------------------------
\* The state of either middleware keeps its types.
TypeOK == Go!TypeOK /\ Py!TypeOK

(* Both services' logs and responses name one ID: the ML service neither    *)
(* rejects nor rewrites an ID the search API forwards, whether the client   *)
(* chose it or the search API made it up.                                   *)
SameIdEverywhere ==
  \A q \in Calls : origin[q] # Direct => request_id[q] = id[origin[q]]

(* What each middleware promises on its own holds while the other works:    *)
(* the log lines tell the status the client got, there is one of them per   *)
(* request and call, panics and exceptions are answered once, and no two    *)
(* generated IDs are the same (handler.go:329-474, middleware.py:30-104).   *)
AccessLogTruth == Go!AccessLogTruth
OneRecord == Go!OneRecord
PanicAnswered == Go!PanicAnswered
DistinctIds == Go!DistinctIds
LogTruth == Py!LogTruth
SingleStart == Py!SingleStart
=============================================================================
