----------------------------- MODULE GoMiddleware -----------------------------
(***************************************************************************)
(* The middleware of the search API (httpapi.NewHandler): request IDs      *)
(* around panic recovery around the access log around the routes. Requests *)
(* run concurrently; each slot carries one. The routed handler is any      *)
(* handler: it sets a status once, twice or never, writes up to MaxDocs    *)
(* documents, returns or panics. Routes puts the handlers of the API in.   *)
(***************************************************************************)
EXTENDS RequestId

CONSTANTS
  Requests,   \* request slots
  Headers,    \* texts of X-Request-ID headers clients send, <<>> for none
  Statuses,   \* statuses handlers set
  MaxDocs     \* documents a handler writes at most

ASSUME HeadersAreText == Headers \subseteq Seq(Char)
ASSUME StatusesAreCodes == Statuses \subseteq 200..599
ASSUME MaxDocsPositive == MaxDocs \in Nat \ {0}

VARIABLES
  stage,     \* how far the request got
  id,        \* its request ID: the text, and where it comes from
  counter,   \* fallbackCounter of requestIDMiddleware
  recorder,  \* statusRecorder: status, wroteHeader
  sent,      \* status net/http committed for the response, 0 for none yet
  docs,      \* documents written to the response body
  line,      \* status in the access log line, 0 while there is none
  alarm      \* "panic recovered" was logged

vars == <<stage, id, counter, recorder, sent, docs, line, alarm>>

NoId == [text |-> <<>>, from |-> <<"nobody">>]

Init ==
  /\ stage = [r \in Requests |-> "idle"]
  /\ id = [r \in Requests |-> NoId]
  /\ counter = 0
  /\ recorder = [r \in Requests |-> [status |-> 200, wroteHeader |-> FALSE]]
  /\ sent = [r \in Requests |-> 0]
  /\ docs = [r \in Requests |-> 0]
  /\ line = [r \in Requests |-> 0]
  /\ alarm = [r \in Requests |-> FALSE]

-----------------------------------------------------------------------------
\* Mutant: the counter is loaded, not advanced.
NextCount_Load(n) == n

\* fallbackCounter.Add(1)
NextCount(n) == n + 1

\* Every generated ID is acceptable; its length is at most MaxLen.
GeneratedText == <<"graph">>

(* requestIDMiddleware: the client's ID if acceptable, else 16 random      *)
(* bytes, else (the random source failed) a time and the counter, of which *)
(* only the counter tells two IDs of one instant apart.                    *)
Arrive(r, header) ==
  /\ stage[r] = "idle"
  /\ stage' = [stage EXCEPT ![r] = "handler"]
  /\ \/ /\ ValidRequestID(header) # <<>>
        /\ id' = [id EXCEPT ![r] = [text |-> ValidRequestID(header), from |-> <<"client">>]]
        /\ UNCHANGED counter
     \/ /\ ValidRequestID(header) = <<>>
        /\ id' = [id EXCEPT ![r] = [text |-> GeneratedText, from |-> <<"random", r>>]]
        /\ UNCHANGED counter
     \/ /\ ValidRequestID(header) = <<>>
        /\ counter' = NextCount(counter)
        /\ id' = [id EXCEPT ![r] = [text |-> GeneratedText, from |-> <<"fallback", counter'>>]]
  /\ UNCHANGED <<recorder, sent, docs, line, alarm>>

\* net/http commits the first status and ignores later ones.
Commit(r, status) == sent' = [sent EXCEPT ![r] = IF @ = 0 THEN status ELSE @]

Record(r, status) ==
  /\ stage[r] = "handler"
  /\ recorder' = [recorder EXCEPT ![r] = [status |-> status, wroteHeader |-> TRUE]]
  /\ Commit(r, status)
  /\ UNCHANGED <<stage, id, counter, docs, line, alarm>>

\* Mutant: the recorder takes every status it is given.
WriteHeader_Unguarded(r, status) == Record(r, status)

\* statusRecorder.WriteHeader: the first status counts.
WriteHeader(r, status) == ~recorder[r].wroteHeader /\ Record(r, status)

\* statusRecorder.Write, with the implicit 200.
Write(r) ==
  /\ stage[r] = "handler" /\ docs[r] < MaxDocs
  /\ recorder' = [recorder EXCEPT ![r] =
                    IF @.wroteHeader THEN @ ELSE [status |-> 200, wroteHeader |-> TRUE]]
  /\ Commit(r, 200)
  /\ docs' = [docs EXCEPT ![r] = @ + 1]
  /\ UNCHANGED <<stage, id, counter, line, alarm>>

\* accessLogMiddleware after next.ServeHTTP.
Return(r) ==
  /\ stage[r] = "handler"
  /\ stage' = [stage EXCEPT ![r] = "returned"]
  /\ line' = [line EXCEPT ![r] = recorder[r].status]
  /\ UNCHANGED <<id, counter, recorder, sent, docs, alarm>>

Unwind(r, lines) ==
  /\ stage[r] = "handler"
  /\ stage' = [stage EXCEPT ![r] = "recovering"]
  /\ alarm' = [alarm EXCEPT ![r] = TRUE]
  /\ line' = lines
  /\ UNCHANGED <<id, counter, recorder, sent, docs>>

\* Mutant: the access log line is deferred, so a panic leaves one as well.
Panic_Logged(r) == Unwind(r, [line EXCEPT ![r] = recorder[r].status])

\* The panic passes accessLogMiddleware by and is logged in recoveryMiddleware.
Panic(r) == Unwind(r, line)

\* Mutant: the panic is logged and nothing is answered.
Recover_Silent(r) ==
  /\ stage[r] = "recovering"
  /\ stage' = [stage EXCEPT ![r] = "returned"]
  /\ UNCHANGED <<id, counter, recorder, sent, docs, line, alarm>>

\* writeAPIError on the unwrapped writer, whatever was already sent.
Recover(r) ==
  /\ stage[r] = "recovering"
  /\ stage' = [stage EXCEPT ![r] = "returned"]
  /\ Commit(r, 500)
  /\ docs' = [docs EXCEPT ![r] = @ + 1]
  /\ UNCHANGED <<id, counter, recorder, line, alarm>>

\* net/http finishes a response nobody started with 200.
Finish(r) ==
  /\ stage[r] = "returned"
  /\ stage' = [stage EXCEPT ![r] = "done"]
  /\ Commit(r, 200)
  /\ UNCHANGED <<id, counter, recorder, docs, line, alarm>>

Serving(r) ==
  \/ \E status \in Statuses : WriteHeader(r, status)
  \/ Write(r) \/ Return(r) \/ Panic(r) \/ Recover(r) \/ Finish(r)

Next == \E r \in Requests : Serving(r) \/ \E header \in Headers : Arrive(r, header)

Spec == Init /\ [][Next]_vars

-----------------------------------------------------------------------------
TypeOK ==
  /\ stage \in [Requests -> {"idle", "handler", "recovering", "returned", "done"}]
  /\ \A r \in Requests : stage[r] # "idle" => Acceptable(id[r].text)
  /\ counter \in Nat
  /\ recorder \in [Requests -> [status : Statuses \cup {200}, wroteHeader : BOOLEAN]]
  /\ sent \in [Requests -> Statuses \cup {0, 200, 500}]
  /\ docs \in [Requests -> 0..(MaxDocs + 1)]
  /\ line \in [Requests -> Statuses \cup {0, 200}]
  /\ alarm \in [Requests -> BOOLEAN]

(* The access log tells the status the client got, however often and in     *)
(* whatever order the handler set statuses and wrote.                       *)
AccessLogTruth ==
  \A r \in Requests : stage[r] = "done" /\ line[r] # 0 => line[r] = sent[r]

(* Each finished request left one record: an access log line, or, when its  *)
(* handler panicked, the panic report in its place.                         *)
OneRecord == \A r \in Requests : stage[r] = "done" => (line[r] = 0 <=> alarm[r])

(* A panic before the handler wrote anything is answered with one error     *)
(* document and status 500.                                                 *)
PanicAnswered ==
  \A r \in Requests : stage[r] = "done" /\ alarm[r] /\ ~recorder[r].wroteHeader
                        => sent[r] = 500 /\ docs[r] = 1

(* No two requests of the process share an ID it made up, even when the     *)
(* random source fails under concurrent requests.                           *)
DistinctIds ==
  \A r, q \in Requests : r # q /\ id[r].from = id[q].from
                           => id[r].from \in {<<"nobody">>, <<"client">>}
=============================================================================
