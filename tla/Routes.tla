-------------------------------- MODULE Routes --------------------------------
(***************************************************************************)
(* The HTTP surface of the search API: the handlers that NewHandler        *)
(* registers, inside the chain of GoMiddleware. Each step is a step of     *)
(* GoMiddleware, taken as the route's own code would, and adds what the    *)
(* client can see: the request ID header and the documents.                *)
(***************************************************************************)
EXTENDS GoMiddleware

ASSUME RoutesSetStatuses == {200, 404, 405} \subseteq Statuses

VARIABLES
  question,  \* method and path of the request
  header,    \* X-Request-ID of the response
  body       \* documents of the response

routeVars == <<question, header, body>>

Questions == [method : {"GET", "other"},
              path : {"/healthz", "/readyz", "/v1/system/status", "other"}]

\* healthResponse, systemStatusResponse and apiErrorBody, as far as they differ:
\* the HTTP status, what the document says, and the request ID, which only error
\* documents have.
Document(status, says, text) == [status |-> status, says |-> says, id |-> text]

-----------------------------------------------------------------------------
\* Mutant: panics are recovered outside of the layer that sets the ID.
Chain_Swapped == <<"recovery", "request_id", "access_log", "routes">>

\* The order NewHandler wraps the handlers in, outermost first.
Chain == <<"request_id", "recovery", "access_log", "routes">>

Depth(layer) == CHOOSE i \in DOMAIN Chain : Chain[i] = layer

\* requestIDFromRequest: the context has the ID inside the layer that puts it there.
RequestIDFromRequest(layer, r) ==
  IF Depth("request_id") < Depth(layer) THEN id[r].text ELSE <<>>

\* writeAPIError
APIError(status, code, layer, r) == Document(status, code, RequestIDFromRequest(layer, r))

\* What the handler of a path may write; SystemStatus decides what the status
\* route says.
Handler(path, r) ==
  CASE path = "/healthz" -> {<<Document(200, "healthy", <<>>)>>}
    [] path = "/readyz" -> {<<Document(200, "ready", <<>>)>>}
    [] path = "/v1/system/status" ->
         {<<Document(200, says, <<>>)>> : says \in {"healthy", "degraded"}}
    [] path = "other" -> {<<APIError(404, "not_found", "routes", r)>>}

\* Mutant: after the error document the handler is called all the same.
RequireMethod_NoReturn(r, next) ==
  IF question[r].method = "GET" THEN next
  ELSE {<<APIError(405, "method_not_allowed", "routes", r)>> \o documents : documents \in next}

\* requireMethod
RequireMethod(r, next) ==
  IF question[r].method = "GET" THEN next
  ELSE {<<APIError(405, "method_not_allowed", "routes", r)>>}

\* The handlers the mux chooses among: notFound takes every method.
Routed(r) ==
  LET next == Handler(question[r].path, r)
  IN  IF question[r].path = "other" THEN next ELSE RequireMethod(r, next)

-----------------------------------------------------------------------------
RoutesInit ==
  /\ Init
  /\ question = [r \in Requests |-> [method |-> "GET", path |-> "other"]]
  /\ header = [r \in Requests |-> <<>>]
  /\ body = [r \in Requests |-> <<>>]

Ask(r, sent_id, asked) ==
  /\ Arrive(r, sent_id)
  /\ question' = [question EXCEPT ![r] = asked]
  /\ header' = [header EXCEPT ![r] = id'[r].text]
  /\ UNCHANGED body

\* writeJSON: the status, then the document.
AnswerStatus(r) ==
  /\ \E documents \in Routed(r) : WriteHeader(r, documents[1].status)
  /\ UNCHANGED routeVars

AnswerDocument(r) ==
  /\ recorder[r].wroteHeader /\ Write(r)
  /\ \E documents \in Routed(r) :
       /\ Len(body[r]) < Len(documents)
       /\ body' = [body EXCEPT ![r] = Append(@, documents[Len(@) + 1])]
  /\ UNCHANGED <<question, header>>

AnswerDone(r) ==
  /\ \E documents \in Routed(r) : Len(body[r]) = Len(documents)
  /\ Return(r)
  /\ UNCHANGED routeVars

\* A route may panic in its work; the writing of a document of plain fields
\* cannot.
RoutePanics(r) == ~recorder[r].wroteHeader /\ Panic(r) /\ UNCHANGED routeVars

RecoveryAnswers(r) ==
  /\ Recover(r)
  /\ body' = [body EXCEPT ![r] = Append(@, APIError(500, "internal_error", "recovery", r))]
  /\ UNCHANGED <<question, header>>

ResponseEnds(r) == Finish(r) /\ UNCHANGED routeVars

RoutesNext ==
  \E r \in Requests :
    \/ \E sent_id \in Headers, asked \in Questions : Ask(r, sent_id, asked)
    \/ AnswerStatus(r) \/ AnswerDocument(r) \/ AnswerDone(r)
    \/ RoutePanics(r) \/ RecoveryAnswers(r) \/ ResponseEnds(r)

RoutesSpec == RoutesInit /\ [][RoutesNext]_<<vars, routeVars>>

-----------------------------------------------------------------------------
Done(r) == stage[r] = "done"

(* Every response is one document, and its HTTP status is the document's    *)
(* own; only a GET gets another one than an error. No route starts a        *)
(* response it then falls out of, so that the error document of             *)
(* recoveryMiddleware never follows another one.                            *)
OneDocument ==
  \A r \in Requests : Done(r) =>
    /\ Len(body[r]) = 1 /\ body[r][1].status = sent[r]
    /\ sent[r] = 200 => question[r].method = "GET"

(* An error document names the ID of the response it came with: a client's  *)
(* report of either leads to the same log lines, after a panic as well.     *)
ErrorsCarryId ==
  \A r \in Requests : Done(r) =>
    \A i \in DOMAIN body[r] : body[r][i].status # 200 => body[r][i].id = header[r]
=============================================================================
