----------------------------- MODULE RoutesProofs -----------------------------
(***************************************************************************)
(* Proofs about Routes for any number of requests and any headers: each    *)
(* response is one document, errors name their request, and the routes are *)
(* handlers as GoMiddleware takes them.                                    *)
(***************************************************************************)
EXTENDS Routes, TLAPS

\* The layers by depth.
LEMMA Layers ==
  Depth("request_id") = 1 /\ Depth("recovery") = 2 /\ Depth("routes") = 4
BY DEF Depth, Chain

\* The status the route of a request answers with.
RouteStatus(r) ==
  IF question[r].path = "other" THEN 404
  ELSE IF question[r].method = "GET" THEN 200 ELSE 405

\* A document that is no error, or one that names its request.
Traceable(document, r) == document.status # 200 => document.id = id[r].text

\* A route has one document to write, whichever report the status route makes.
LEMMA RoutedIsOne ==
  ASSUME NEW r, question[r] \in Questions, NEW documents \in Routed(r)
  PROVE  /\ documents = <<documents[1]>>
         /\ documents[1].status = RouteStatus(r) /\ Traceable(documents[1], r)
<1> USE Layers DEF RouteStatus, Traceable, Document, APIError, RequestIDFromRequest
<1>1. CASE question[r].path = "other"
  BY <1>1 DEF Routed, Handler
<1>2. CASE question[r].path # "other" /\ question[r].method # "GET"
  BY <1>2 DEF Routed, RequireMethod
<1>3. CASE question[r].path # "other" /\ question[r].method = "GET"
  <2>1. question[r].path \in {"/healthz", "/readyz", "/v1/system/status"}
    BY <1>3 DEF Questions
  <2>2. \E says : documents = <<[status |-> 200, says |-> says, id |-> <<>>]>>
    BY <1>3, <2>1 DEF Routed, RequireMethod, Handler
  <2> QED
    BY <1>3, <2>2
<1> QED
  BY <1>1, <1>2, <1>3

-----------------------------------------------------------------------------
RouteTypes ==
  /\ stage \in [Requests -> {"idle", "handler", "recovering", "returned", "done"}]
  /\ id = [r \in Requests |-> id[r]]
  /\ recorder \in [Requests -> [status : Nat, wroteHeader : BOOLEAN]]
  /\ sent \in [Requests -> Nat]
  /\ question \in [Requests -> Questions]
  /\ header = [r \in Requests |-> id[r].text]
  /\ body = [r \in Requests |-> body[r]]

\* A body of one document, which has the status that was sent.
Complete(r) ==
  \E document :
    /\ body[r] = <<document>> /\ Traceable(document, r)
    /\ document.status = sent[r]
    /\ sent[r] = 200 => question[r].method = "GET"

\* The status a route sets is the one of the document it writes next, and it
\* panics before it sets one.
Answering(r) ==
  IF recorder[r].wroteHeader
  THEN /\ sent[r] = RouteStatus(r)
       /\ body[r] = <<>> \/ Complete(r)
  ELSE sent[r] = 0 /\ body[r] = <<>>

Slot(r) ==
  /\ stage[r] \in {"idle", "recovering"} => sent[r] = 0 /\ body[r] = <<>>
  /\ stage[r] = "idle" => ~recorder[r].wroteHeader
  /\ stage[r] = "handler" => Answering(r)
  /\ stage[r] \in {"returned", "done"} => Complete(r) /\ sent[r] # 0

RoutesInv == RouteTypes /\ \A r \in Requests : Slot(r)

LEMMA RoutesInitInv == RoutesInit => RoutesInv
<1> SUFFICES ASSUME RoutesInit PROVE RoutesInv
  OBVIOUS
<1>1. RouteTypes
  BY DEF RouteTypes, RoutesInit, Init, NoId, Questions
<1> QED
  BY <1>1 DEF RoutesInv, Slot, RoutesInit, Init

\* What a step leaves of a slot it is not about.
Untouched(q) ==
  /\ stage'[q] = stage[q] /\ id'[q] = id[q] /\ recorder'[q] = recorder[q]
  /\ sent'[q] = sent[q] /\ question'[q] = question[q] /\ body'[q] = body[q]

LEMMA OneSlot ==
  ASSUME RoutesInv, RouteTypes', NEW r \in Requests, Slot(r)',
         \A q \in Requests \ {r} : Untouched(q)
  PROVE  RoutesInv'
<1> SUFFICES ASSUME NEW q \in Requests, q # r PROVE Slot(q)'
  BY DEF RoutesInv
<1> QED
  BY DEF RoutesInv, Untouched, Slot, Answering, Complete, Traceable, RouteStatus

LEMMA RoutesStepInv == RoutesInv /\ [RoutesNext]_<<vars, routeVars>> => RoutesInv'
<1> SUFFICES ASSUME RoutesInv, [RoutesNext]_<<vars, routeVars>> PROVE RoutesInv'
  OBVIOUS
<1> USE DEF routeVars
<1>1. ASSUME NEW r \in Requests, NEW sent_id \in Headers, NEW asked \in Questions,
             Ask(r, sent_id, asked)
      PROVE  RoutesInv'
  <2>1. /\ stage[r] = "idle" /\ stage' = [stage EXCEPT ![r] = "handler"]
        /\ \E new : id' = [id EXCEPT ![r] = new]
        /\ question' = [question EXCEPT ![r] = asked]
        /\ header' = [header EXCEPT ![r] = id'[r].text]
        /\ UNCHANGED <<recorder, sent, body>>
    BY <1>1 DEF Ask, Arrive
  <2>2. RouteTypes' /\ \A q \in Requests \ {r} : Untouched(q)
    BY <2>1 DEF RoutesInv, RouteTypes, Untouched
  <2>3. Slot(r)'
    BY <2>1 DEF RoutesInv, RouteTypes, Slot, Answering
  <2> QED
    BY <2>2, <2>3, OneSlot
<1>2. ASSUME NEW r \in Requests, AnswerStatus(r) PROVE RoutesInv'
  <2>1. PICK documents \in Routed(r) : WriteHeader(r, documents[1].status)
    BY <1>2 DEF AnswerStatus
  <2>2. documents[1].status = RouteStatus(r) /\ RouteStatus(r) \in {200, 404, 405}
    BY <2>1, RoutedIsOne DEF RoutesInv, RouteTypes, RouteStatus
  <2>3. Answering(r) /\ stage[r] = "handler" /\ ~recorder[r].wroteHeader
    BY <2>1 DEF RoutesInv, Slot, WriteHeader, Record
  <2>4. /\ recorder' = [recorder EXCEPT ![r] = [status |-> RouteStatus(r), wroteHeader |-> TRUE]]
        /\ sent' = [sent EXCEPT ![r] = RouteStatus(r)]
        /\ UNCHANGED <<stage, id, question, header, body>>
    BY <1>2, <2>1, <2>2, <2>3 DEF AnswerStatus, WriteHeader, Record, Commit, Answering
  <2>5. RouteTypes' /\ \A q \in Requests \ {r} : Untouched(q)
    BY <2>2, <2>4 DEF RoutesInv, RouteTypes, Untouched
  <2>6. Slot(r)'
    BY <2>3, <2>4 DEF RoutesInv, RouteTypes, Slot, Answering, RouteStatus
  <2> QED
    BY <2>5, <2>6, OneSlot
<1>3. ASSUME NEW r \in Requests, AnswerDocument(r) PROVE RoutesInv'
  <2>1. PICK documents \in Routed(r) :
          /\ Len(body[r]) < Len(documents)
          /\ body' = [body EXCEPT ![r] = Append(@, documents[Len(@) + 1])]
    BY <1>3 DEF AnswerDocument
  <2>2. /\ documents = <<documents[1]>>
        /\ documents[1].status = RouteStatus(r) /\ Traceable(documents[1], r)
    BY RoutedIsOne DEF RoutesInv, RouteTypes
  <2>3. Answering(r) /\ stage[r] = "handler" /\ recorder[r].wroteHeader
    BY <1>3 DEF RoutesInv, Slot, AnswerDocument, Write
  <2>4. body[r] = <<>>
    BY <2>1, <2>2, <2>3 DEF Answering, Complete
  <2>5. body' = [body EXCEPT ![r] = <<documents[1]>>]
    BY <2>1, <2>4
  <2>6. sent[r] = RouteStatus(r) /\ RouteStatus(r) # 0
    BY <2>3 DEF Answering, RouteStatus
  <2>7. UNCHANGED <<stage, id, recorder, sent, question, header>>
    BY <1>3, <2>3, <2>6 DEF AnswerDocument, Write, Commit, RoutesInv, RouteTypes
  <2>8. RouteTypes' /\ \A q \in Requests \ {r} : Untouched(q)
    BY <2>5, <2>7 DEF RoutesInv, RouteTypes, Untouched
  <2>9. Complete(r)'
    BY <2>2, <2>5, <2>6, <2>7 DEF RoutesInv, RouteTypes, Complete, RouteStatus, Traceable
  <2>10. Slot(r)'
    BY <2>3, <2>6, <2>7, <2>9 DEF Slot, Answering, RouteStatus
  <2> QED
    BY <2>8, <2>10, OneSlot
<1>4. ASSUME NEW r \in Requests, AnswerDone(r) PROVE RoutesInv'
  <2>1. Len(body[r]) = 1
    BY <1>4, RoutedIsOne DEF AnswerDone, RoutesInv, RouteTypes
  <2>2. /\ stage[r] = "handler" /\ stage' = [stage EXCEPT ![r] = "returned"]
        /\ UNCHANGED <<id, recorder, sent, question, header, body>>
    BY <1>4 DEF AnswerDone, Return
  <2>3. Complete(r) /\ sent[r] # 0
    BY <2>1, <2>2 DEF RoutesInv, Slot, Answering, RouteStatus
  <2>4. RouteTypes' /\ \A q \in Requests \ {r} : Untouched(q)
    BY <2>2 DEF RoutesInv, RouteTypes, Untouched
  <2>5. Slot(r)'
    BY <2>2, <2>3 DEF RoutesInv, RouteTypes, Slot, Complete, Traceable
  <2> QED
    BY <2>4, <2>5, OneSlot
<1>5. ASSUME NEW r \in Requests, RoutePanics(r) PROVE RoutesInv'
  <2>1. /\ stage[r] = "handler" /\ stage' = [stage EXCEPT ![r] = "recovering"]
        /\ ~recorder[r].wroteHeader
        /\ UNCHANGED <<id, recorder, sent, question, header, body>>
    BY <1>5 DEF RoutePanics, Panic, Unwind
  <2>2. RouteTypes' /\ \A q \in Requests \ {r} : Untouched(q)
    BY <2>1 DEF RoutesInv, RouteTypes, Untouched
  <2>3. Slot(r)'
    BY <2>1 DEF RoutesInv, RouteTypes, Slot, Answering
  <2> QED
    BY <2>2, <2>3, OneSlot
<1>6. ASSUME NEW r \in Requests, RecoveryAnswers(r) PROVE RoutesInv'
  <2> DEFINE document == APIError(500, "internal_error", "recovery", r)
  <2>1. document.status = 500 /\ document.id = id[r].text
    BY Layers DEF APIError, Document, RequestIDFromRequest
  <2>2. stage[r] = "recovering" /\ sent[r] = 0 /\ body[r] = <<>>
    BY <1>6 DEF RecoveryAnswers, Recover, RoutesInv, Slot
  <2>3. Append(body[r], document) = <<document>>
    BY <2>2
  <2>4. /\ stage' = [stage EXCEPT ![r] = "returned"]
        /\ sent' = [sent EXCEPT ![r] = 500]
        /\ body' = [body EXCEPT ![r] = <<document>>]
        /\ UNCHANGED <<id, recorder, question, header>>
    BY <1>6, <2>2, <2>3 DEF RecoveryAnswers, Recover, Commit
  <2> HIDE DEF document
  <2>5. RouteTypes' /\ \A q \in Requests \ {r} : Untouched(q)
    BY <2>4 DEF RoutesInv, RouteTypes, Untouched
  <2>6. Slot(r)'
    BY <2>1, <2>4 DEF RoutesInv, RouteTypes, Slot, Complete, Traceable
  <2> QED
    BY <2>5, <2>6, OneSlot
<1>7. ASSUME NEW r \in Requests, ResponseEnds(r) PROVE RoutesInv'
  <2>1. /\ stage[r] = "returned" /\ stage' = [stage EXCEPT ![r] = "done"]
        /\ Complete(r) /\ sent[r] # 0
        /\ UNCHANGED <<id, recorder, question, header, body>>
    BY <1>7 DEF ResponseEnds, Finish, RoutesInv, Slot
  <2>2. UNCHANGED sent
    BY <1>7, <2>1 DEF ResponseEnds, Finish, Commit, RoutesInv, RouteTypes
  <2>3. RouteTypes' /\ \A q \in Requests \ {r} : Untouched(q)
    BY <2>1, <2>2 DEF RoutesInv, RouteTypes, Untouched
  <2>4. Slot(r)'
    BY <2>1, <2>2 DEF RoutesInv, RouteTypes, Slot, Complete, Traceable
  <2> QED
    BY <2>3, <2>4, OneSlot
<1>8. CASE UNCHANGED <<vars, routeVars>>
  BY <1>8 DEF vars, RoutesInv, RouteTypes, Slot, Answering, Complete, Traceable, RouteStatus
<1> QED
  BY <1>1, <1>2, <1>3, <1>4, <1>5, <1>6, <1>7, <1>8 DEF RoutesNext

LEMMA RoutesInvariant == RoutesSpec => []RoutesInv
BY RoutesInitInv, RoutesStepInv, PTL DEF RoutesSpec

-----------------------------------------------------------------------------
(* Every response is one document whose status is the HTTP status, whatever *)
(* the method, the path, and whether the route panicked; 200 is for GET.    *)
THEOREM EveryResponseOneDocument == RoutesSpec => []OneDocument
<1>1. RoutesInv => OneDocument
  <2> SUFFICES ASSUME RoutesInv, NEW r \in Requests, Done(r)
               PROVE  /\ Len(body[r]) = 1 /\ body[r][1].status = sent[r]
                      /\ sent[r] = 200 => question[r].method = "GET"
    BY DEF OneDocument
  <2>1. Complete(r)
    BY DEF RoutesInv, Slot, Done
  <2>2. PICK document : body[r] = <<document>> /\ document.status = sent[r]
    BY <2>1 DEF Complete
  <2>3. Len(body[r]) = 1 /\ body[r][1] = document
    BY <2>2
  <2> QED
    BY <2>1, <2>2, <2>3 DEF Complete
<1> QED
  BY <1>1, RoutesInvariant, PTL

(* Every error document names the request ID of its response's header, the  *)
(* one of recoveryMiddleware too.                                           *)
THEOREM EveryErrorTraceable == RoutesSpec => []ErrorsCarryId
<1>1. RoutesInv => ErrorsCarryId
  BY DEF RoutesInv, RouteTypes, Slot, Complete, Traceable, ErrorsCarryId, Done
<1> QED
  BY <1>1, RoutesInvariant, PTL

(* The routes are handlers as GoMiddleware takes them: every step of theirs *)
(* is one it allows its handlers, or none.                                  *)
THEOREM RoutesAreHandlers == RoutesSpec => Spec
<1>1. RoutesInit => Init
  BY DEF RoutesInit
<1>2. RoutesInv /\ [RoutesNext]_<<vars, routeVars>> => [Next]_vars
  <2> SUFFICES ASSUME RoutesInv, RoutesNext PROVE Next
    OBVIOUS
  <2>1. ASSUME NEW r \in Requests, AnswerStatus(r) PROVE Next
    <3>1. PICK documents \in Routed(r) : WriteHeader(r, documents[1].status)
      BY <2>1 DEF AnswerStatus
    <3>2. documents[1].status \in Statuses
      BY <3>1, RoutedIsOne, RoutesSetStatuses DEF RoutesInv, RouteTypes, RouteStatus
    <3> QED
      BY <3>1, <3>2 DEF Next, Serving
  <2> QED
    BY <2>1 DEF RoutesNext, Ask, AnswerDocument, AnswerDone, RoutePanics, RecoveryAnswers,
       ResponseEnds, Next, Serving
<1> QED
  BY <1>1, <1>2, RoutesInvariant, PTL DEF RoutesSpec, Spec
=============================================================================
