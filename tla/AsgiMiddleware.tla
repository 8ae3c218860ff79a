---------------------------- MODULE AsgiMiddleware ----------------------------
(***************************************************************************)
(* RequestContextMiddleware of the ML service: what one ASGI call does     *)
(* between the server (uvicorn) and the application inside, when the       *)
(* application answers, raises before or after it started to answer, when  *)
(* the task is cancelled at an await and when the client disconnects.      *)
(***************************************************************************)
EXTENDS RequestId

CONSTANTS
  Calls,        \* call slots, each carrying one request
  PyHeaders,    \* texts of X-Request-ID headers clients send, <<>> for none
  AppStatuses   \* statuses the application's routes and handlers answer

VARIABLES
  at,          \* how far the call got
  request_id,  \* scope["state"]["request_id"]: the text, and where it comes from
  started,     \* response_started
  status,      \* status_code
  starts,      \* http.response.start messages handed to send
  message,     \* status in the last of them, 0 for none
  wire,        \* status the server put on the connection, 0 for none
  closed,      \* the server closed the connection in mid-response
  connected,   \* the client is still there
  logged       \* statuses of the completion lines logged

vars == <<at, request_id, started, status, starts, message, wire, closed, connected, logged>>

NoRequestId == [text |-> <<>>, from |-> <<"nobody">>]

Init ==
  /\ at = [q \in Calls |-> "idle"]
  /\ request_id = [q \in Calls |-> NoRequestId]
  /\ started = [q \in Calls |-> FALSE]
  /\ status = [q \in Calls |-> 500]
  /\ starts = [q \in Calls |-> 0]
  /\ message = [q \in Calls |-> 0]
  /\ wire = [q \in Calls |-> 0]
  /\ closed = [q \in Calls |-> FALSE]
  /\ connected = [q \in Calls |-> TRUE]
  /\ logged = [q \in Calls |-> <<>>]

-----------------------------------------------------------------------------
\* uuid4().hex
MadeUp(q) == [text |-> <<"graph">>, from |-> <<"uuid", q>>]

Arrive(q, text, from) ==
  /\ at[q] = "idle"
  /\ at' = [at EXCEPT ![q] = "app"]
  /\ request_id' = [request_id EXCEPT ![q] =
       IF NormaliseRequestId(text) = <<>> THEN MadeUp(q)
       ELSE [text |-> NormaliseRequestId(text), from |-> from]]
  /\ UNCHANGED <<started, status, starts, message, wire, closed, connected, logged>>

\* The server writes the head of a response unless the client has gone.
Transmit(q, code) == wire' = [wire EXCEPT ![q] = IF connected[q] THEN code ELSE @]

\* Mutant: status_code is left alone.
SendStart_Untracked(q, code) ==
  /\ started' = [started EXCEPT ![q] = TRUE]
  /\ starts' = [starts EXCEPT ![q] = @ + 1]
  /\ message' = [message EXCEPT ![q] = code]
  /\ UNCHANGED <<status, wire>>

\* send_wrapper on "http.response.start", up to its await of send.
SendStart(q, code) ==
  /\ started' = [started EXCEPT ![q] = TRUE]
  /\ status' = [status EXCEPT ![q] = code]
  /\ starts' = [starts EXCEPT ![q] = @ + 1]
  /\ message' = [message EXCEPT ![q] = code]
  /\ UNCHANGED wire

Move(q, from, to) == at[q] = from /\ at' = [at EXCEPT ![q] = to]

(* The application answers: a route, or one of the exception handlers.     *)
AppStarts(q) ==
  /\ Move(q, "app", "sending")
  /\ \E code \in AppStatuses : SendStart(q, code)
  /\ UNCHANGED <<request_id, closed, connected, logged>>

(* The server takes the start message, at once or after waiting for the     *)
(* connection to drain, and send returns.                                   *)
StartTaken(q) ==
  /\ Move(q, "sending", "body") \/ Move(q, "error_sending", "error_body")
  /\ Transmit(q, message[q])
  /\ UNCHANGED <<request_id, started, status, starts, message, closed, connected, logged>>

AppCompletes(q) ==
  /\ Move(q, "body", "complete")
  /\ UNCHANGED <<request_id, started, status, starts, message, wire, closed, connected, logged>>

\* An exception no handler took, one of send among them, leaves the application.
AppRaises(q) ==
  /\ \/ Move(q, "app", "caught")
     \/ Move(q, "sending", "caught")
     \/ Move(q, "body", "caught")
  /\ UNCHANGED <<request_id, started, status, starts, message, wire, closed, connected, logged>>

\* Mutant: the error response is sent whatever came before.
AnswerError_Always(q) ==
  /\ Move(q, "caught", "sending")
  /\ SendStart(q, 500)
  /\ UNCHANGED <<request_id, closed, connected, logged>>

\* except Exception: JSONResponse(500), its body to follow ...
AnswerError(q) ==
  /\ ~started[q] /\ Move(q, "caught", "error_sending")
  /\ SendStart(q, 500)
  /\ UNCHANGED <<request_id, closed, connected, logged>>

ErrorCompletes(q) ==
  /\ Move(q, "error_body", "complete")
  /\ UNCHANGED <<request_id, started, status, starts, message, wire, closed, connected, logged>>

\* ... or raise, when the response has started.
Reraise(q) ==
  /\ started[q] /\ Move(q, "caught", "failed")
  /\ UNCHANGED <<request_id, started, status, starts, message, wire, closed, connected, logged>>

(* CancelledError at an await is no Exception: only the finally sees it. An *)
(* exception out of the error response takes the same way.                  *)
Cancel(q) ==
  /\ \/ Move(q, "app", "failed")
     \/ Move(q, "sending", "failed")
     \/ Move(q, "body", "failed")
     \/ Move(q, "error_sending", "failed")
     \/ Move(q, "error_body", "failed")
  /\ UNCHANGED <<request_id, started, status, starts, message, wire, closed, connected, logged>>

\* finally: one completion line.
Finally(q) ==
  /\ Move(q, "complete", "done") \/ Move(q, "failed", "to_server")
  /\ logged' = [logged EXCEPT ![q] = Append(@, status[q])]
  /\ UNCHANGED <<request_id, started, status, starts, message, wire, closed, connected>>

(* uvicorn on an exception from the application: a plain 500 if it has       *)
(* started no response itself, else the connection is closed.               *)
ServerHandles(q) ==
  /\ Move(q, "to_server", "done")
  /\ \/ wire[q] = 0 /\ Transmit(q, 500) /\ UNCHANGED closed
     \/ wire[q] # 0 /\ closed' = [closed EXCEPT ![q] = TRUE] /\ UNCHANGED wire
  /\ UNCHANGED <<request_id, started, status, starts, message, connected, logged>>

Disconnect(q) ==
  /\ at[q] \notin {"idle", "done"} /\ connected[q]
  /\ connected' = [connected EXCEPT ![q] = FALSE]
  /\ UNCHANGED <<at, request_id, started, status, starts, message, wire, closed, logged>>

Serving(q) ==
  \/ AppStarts(q) \/ StartTaken(q) \/ AppCompletes(q) \/ AppRaises(q)
  \/ AnswerError(q) \/ ErrorCompletes(q) \/ Reraise(q) \/ Cancel(q)
  \/ Finally(q) \/ ServerHandles(q) \/ Disconnect(q)

Next == \E q \in Calls : Serving(q) \/ \E text \in PyHeaders : Arrive(q, text, <<"client">>)

Spec == Init /\ [][Next]_vars

-----------------------------------------------------------------------------
TypeOK ==
  /\ at \in [Calls -> {"idle", "app", "sending", "body", "caught", "error_sending",
                       "error_body", "complete", "failed", "to_server", "done"}]
  /\ \A q \in Calls : at[q] # "idle" => Acceptable(request_id[q].text)
  /\ started \in [Calls -> BOOLEAN]
  /\ status \in [Calls -> AppStatuses \cup {500}]
  /\ starts \in [Calls -> Nat]
  /\ message \in [Calls -> AppStatuses \cup {0, 500}]
  /\ wire \in [Calls -> AppStatuses \cup {0, 500}]
  /\ closed \in [Calls -> BOOLEAN] /\ connected \in [Calls -> BOOLEAN]
  /\ logged \in [Calls -> Seq(AppStatuses \cup {500})]

(* Each call is logged once, before the server is through with it, and the  *)
(* line gives the status of every response the middleware let through and   *)
(* 500 where the server answers because the middleware sent nothing, after  *)
(* exceptions and cancellations at any await. The line may differ only where *)
(* the send of a start message ended before the server took it: the server  *)
(* then answers with its own 500, and the line has the status never sent.   *)
LogTruth ==
  \A q \in Calls : at[q] = "done" =>
    /\ Len(logged[q]) = 1
    /\ wire[q] # 0 =>
         \/ logged[q] = <<wire[q]>>
         \/ wire[q] = 500 /\ message[q] \notin {0, wire[q]}

(* The server is never asked to start a second response, neither by the     *)
(* error response after a failed one nor by anything else.                  *)
SingleStart == \A q \in Calls : starts[q] <= 1
=============================================================================
