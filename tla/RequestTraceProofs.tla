-------------------------- MODULE RequestTraceProofs --------------------------
(***************************************************************************)
(* What the two normalisations of X-Request-ID make of each other's        *)
(* results, for values of every length; that one ID goes through both      *)
(* services; and what either middleware promises of its responses and log  *)
(* lines, for any number of requests, calls, headers and statuses.         *)
(***************************************************************************)
EXTENDS RequestTrace, SequenceTheorems, TLAPS

\* Trimming an acceptable value is the identity, whatever counts as blank.
LEMMA TrimAcceptable ==
  ASSUME NEW s, Acceptable(s), NEW blank, "graph" \notin blank
  PROVE  Trim(s, blank) = s
<1> DEFINE kept == {i \in DOMAIN s : s[i] \notin blank}
<1>1. kept = 1..Len(s) /\ Len(s) \in Nat \ {0}
  BY DEF Acceptable
<1>2. Min(kept) = 1 /\ Max(kept) = Len(s)
  BY <1>1 DEF Min, Max
<1>3. SubSeq(s, 1, Len(s)) = s
  BY SubSeqFull DEF Acceptable
<1>4. kept # {}
  BY <1>1
<1> QED
  BY <1>2, <1>3, <1>4 DEF Trim

(* The ML service takes over, unchanged, every ID the search API considers  *)
(* valid, although it trims more kinds of blank.                            *)
THEOREM NormalisationsAgree ==
  ASSUME NEW raw, ValidRequestID(raw) # <<>>
  PROVE  NormaliseRequestId(ValidRequestID(raw)) = ValidRequestID(raw)
<1>1. Acceptable(ValidRequestID(raw))
  BY DEF ValidRequestID, Normalise
<1> QED
  BY <1>1, TrimAcceptable DEF NormaliseRequestId, Normalise, PyBlank

-----------------------------------------------------------------------------
\* Every ID in use is one both services accept.
IdsAcceptable == \A r \in Requests : stage[r] # "idle" => Acceptable(id[r].text)

\* The variables the trace runs through are functions, the IDs records.
Shapes ==
  /\ stage = [r \in Requests |-> stage[r]]
  /\ id = [r \in Requests |-> [text |-> id[r].text, from |-> id[r].from]]
  /\ at = [q \in Calls |-> at[q]]
  /\ request_id = [q \in Calls |-> request_id[q]]
  /\ origin = [q \in Calls |-> origin[q]]

\* A call made for a request is under way or over, and so is the request.
CallsHaveOrigin ==
  \A q \in Calls : origin[q] # Direct =>
    origin[q] \in Requests /\ stage[origin[q]] # "idle" /\ at[q] # "idle"

TraceInv == Shapes /\ IdsAcceptable /\ CallsHaveOrigin /\ SameIdEverywhere

LEMMA InitInv == Init => TraceInv
<1> SUFFICES ASSUME Init PROVE TraceInv
  OBVIOUS
<1>1. Shapes
  BY DEF Init, Go!Init, Py!Init, Go!NoId, Py!NoRequestId, Shapes
<1>2. IdsAcceptable /\ CallsHaveOrigin /\ SameIdEverywhere
  BY DEF Init, Go!Init, Py!Init, IdsAcceptable, CallsHaveOrigin, SameIdEverywhere
<1> QED
  BY <1>1, <1>2 DEF TraceInv

\* The instances normalise as the functions themselves do.
LEMMA SameNormalisation ==
  /\ \A raw : Go!ValidRequestID(raw) = ValidRequestID(raw)
  /\ \A raw : Py!NormaliseRequestId(raw) = NormaliseRequestId(raw)
<1>1. ASSUME NEW raw PROVE Go!ValidRequestID(raw) = ValidRequestID(raw)
  BY DEF Go!ValidRequestID, Go!Normalise, Go!Trim, Go!Acceptable, Go!GoBlank, Go!Min, Go!Max,
         ValidRequestID, Normalise, Trim, Acceptable, GoBlank, Min, Max
<1>2. ASSUME NEW raw PROVE Py!NormaliseRequestId(raw) = NormaliseRequestId(raw)
  BY DEF Py!NormaliseRequestId, Py!Normalise, Py!Trim, Py!Acceptable, Py!PyBlank, Py!Min, Py!Max,
         NormaliseRequestId, Normalise, Trim, Acceptable, PyBlank, Min, Max
<1> QED
  BY <1>1, <1>2

\* IDs the search API makes up are acceptable too.
LEMMA GeneratedAcceptable == Acceptable(<<"graph">>)
BY MaxLenPositive DEF Acceptable

\* A step of the search API leaves arrived requests their IDs.
LEMMA GoStep ==
  ASSUME TraceInv, Go!Next, UNCHANGED <<pyVars, origin>>
  PROVE  TraceInv'
<1> USE DEF TraceInv, Shapes
<1>1. ASSUME NEW r \in Requests, NEW header \in Headers, Go!Arrive(r, header)
      PROVE  TraceInv'
  <2>1. ASSUME NEW text, NEW from, Acceptable(text), stage[r] = "idle",
               stage' = [stage EXCEPT ![r] = "handler"],
               id' = [id EXCEPT ![r] = [text |-> text, from |-> from]]
        PROVE  TraceInv'
    <3>1. UNCHANGED <<at, request_id, origin>>
      BY DEF pyVars
    <3>2. id' = [p \in Requests |-> IF p = r THEN [text |-> text, from |-> from] ELSE id[p]]
      BY <2>1
    <3>3. \A p \in Requests : id'[p] = [text |-> id'[p].text, from |-> id'[p].from]
      BY <3>2
    <3>4. Shapes'
      <4>1. stage' = [p \in Requests |-> stage'[p]]
        BY <2>1
      <4>2. id' = [p \in Requests |-> [text |-> id'[p].text, from |-> id'[p].from]]
        BY <3>2, <3>3
      <4> QED
        BY <3>1, <4>1, <4>2
    <3>5. IdsAcceptable'
      BY <2>1, <3>2 DEF IdsAcceptable
    <3>6. CallsHaveOrigin' /\ SameIdEverywhere'
      <4> SUFFICES ASSUME NEW q \in Calls, origin[q] # Direct
                   PROVE  /\ origin[q] \in Requests /\ stage'[origin[q]] # "idle" /\ at[q] # "idle"
                          /\ request_id[q] = id'[origin[q]]
        BY <3>1 DEF CallsHaveOrigin, SameIdEverywhere, Direct
      <4>1. origin[q] \in Requests /\ stage[origin[q]] # "idle" /\ at[q] # "idle"
        BY DEF CallsHaveOrigin
      <4>2. origin[q] # r
        BY <2>1, <4>1
      <4>3. request_id[q] = id[origin[q]]
        BY DEF SameIdEverywhere
      <4> QED
        BY <2>1, <3>2, <4>1, <4>2, <4>3
    <3> QED
      BY <3>4, <3>5, <3>6
  <2>2. stage[r] = "idle" /\ stage' = [stage EXCEPT ![r] = "handler"]
    BY <1>1 DEF Go!Arrive
  <2>3. CASE /\ ValidRequestID(header) # <<>>
             /\ id' = [id EXCEPT ![r] = [text |-> ValidRequestID(header), from |-> <<"client">>]]
    <3>1. Acceptable(ValidRequestID(header))
      BY <2>3 DEF ValidRequestID, Normalise
    <3> QED
      BY <2>1, <2>2, <2>3, <3>1
  <2>4. CASE id' = [id EXCEPT ![r] = [text |-> <<"graph">>, from |-> <<"random", r>>]]
    BY <2>1, <2>2, <2>4, GeneratedAcceptable
  <2>5. CASE id' = [id EXCEPT ![r] = [text |-> <<"graph">>, from |-> <<"fallback", counter'>>]]
    BY <2>1, <2>2, <2>5, GeneratedAcceptable
  <2> QED
    BY <1>1, <2>3, <2>4, <2>5, SameNormalisation DEF Go!Arrive, Go!GeneratedText
<1>2. ASSUME NEW r \in Requests, Go!Serving(r)
      PROVE  TraceInv'
  <2>1. /\ UNCHANGED id
        /\ stage[r] # "idle"
        /\ stage' = stage \/ \E to : to # "idle" /\ stage' = [stage EXCEPT ![r] = to]
    BY <1>2 DEF Go!Serving, Go!WriteHeader, Go!Record, Go!Write, Go!Return, Go!Panic, Go!Unwind, Go!Recover, Go!Finish
  <2>2. Shapes' /\ IdsAcceptable'
    BY <2>1 DEF IdsAcceptable, pyVars
  <2>3. CallsHaveOrigin' /\ SameIdEverywhere'
    BY <2>1 DEF CallsHaveOrigin, SameIdEverywhere, pyVars
  <2> QED
    BY <2>2, <2>3
<1> QED
  BY <1>1, <1>2 DEF Go!Next

\* A step of the ML service keeps the ID of every call that has arrived.
LEMMA PyStep ==
  ASSUME TraceInv, Py!Next, UNCHANGED <<goVars, origin>>
  PROVE  TraceInv'
<1> USE DEF TraceInv, Shapes
<1>1. ASSUME NEW q \in Calls, NEW text, NEW from, Py!Arrive(q, text, from)
      PROVE  TraceInv'
  <2>1. /\ at[q] = "idle" /\ at' = [at EXCEPT ![q] = "app"]
        /\ \E new : request_id' = [request_id EXCEPT ![q] = new]
    BY <1>1 DEF Py!Arrive
  <2>2. Shapes' /\ IdsAcceptable'
    BY <2>1 DEF IdsAcceptable, goVars
  <2>3. CallsHaveOrigin' /\ SameIdEverywhere'
    BY <2>1 DEF CallsHaveOrigin, SameIdEverywhere, goVars
  <2> QED
    BY <2>2, <2>3
<1>2. ASSUME NEW q \in Calls, Py!Serving(q)
      PROVE  TraceInv'
  <2>1. /\ UNCHANGED request_id
        /\ at' = at \/ \E to : to # "idle" /\ at' = [at EXCEPT ![q] = to]
    BY <1>2 DEF Py!Serving, Py!Move, Py!AppStarts, Py!StartTaken, Py!AppCompletes, Py!AppRaises,
       Py!AnswerError, Py!ErrorCompletes, Py!Reraise, Py!Cancel, Py!Finally,
       Py!ServerHandles, Py!Disconnect
  <2>2. Shapes' /\ IdsAcceptable'
    BY <2>1 DEF IdsAcceptable, goVars
  <2>3. CallsHaveOrigin' /\ SameIdEverywhere'
    BY <2>1 DEF CallsHaveOrigin, SameIdEverywhere, goVars
  <2> QED
    BY <2>2, <2>3
<1> QED
  BY <1>1, <1>2 DEF Py!Next

\* A forwarded ID arrives as it was sent.
LEMMA ForwardStep ==
  ASSUME TraceInv, NEW r \in Requests, NEW q \in Calls, Forward(r, q)
  PROVE  TraceInv'
<1> USE DEF TraceInv, Shapes
<1>1. Acceptable(id[r].text)
  BY DEF Forward, IdsAcceptable
<1>2. NormaliseRequestId(id[r].text) = id[r].text /\ id[r].text # <<>>
  BY <1>1, TrimAcceptable DEF NormaliseRequestId, Normalise, PyBlank, Acceptable
<1>3. id[r] = [text |-> id[r].text, from |-> id[r].from]
  OBVIOUS
<1>4. /\ at[q] = "idle" /\ at' = [at EXCEPT ![q] = "app"]
      /\ request_id' = [request_id EXCEPT ![q] = id[r]]
      /\ origin' = [origin EXCEPT ![q] = r]
      /\ stage[r] # "idle" /\ UNCHANGED <<stage, id>>
  BY <1>2, <1>3, SameNormalisation DEF Forward, Py!Arrive, goVars
<1>5. Shapes' /\ IdsAcceptable'
  BY <1>4 DEF IdsAcceptable
<1>6. CallsHaveOrigin' /\ SameIdEverywhere'
  BY <1>4 DEF CallsHaveOrigin, SameIdEverywhere
<1> QED
  BY <1>5, <1>6

LEMMA TraceStepInv == TraceInv /\ [Next]_vars => TraceInv'
<1> SUFFICES ASSUME TraceInv, [Next]_vars PROVE TraceInv'
  OBVIOUS
<1>1. CASE UNCHANGED vars
  BY <1>1 DEF vars, goVars, pyVars, TraceInv, Shapes, IdsAcceptable, CallsHaveOrigin,
             SameIdEverywhere
<1> QED
  BY <1>1, GoStep, PyStep, ForwardStep DEF Next

(* One request ID runs through both services' logs and responses: whatever  *)
(* header the client sent and however many calls are in progress.           *)
THEOREM OneTrace == Spec => []SameIdEverywhere
<1>1. TraceInv => SameIdEverywhere
  BY DEF TraceInv
<1> QED
  BY InitInv, TraceStepInv, <1>1, PTL DEF Spec

-----------------------------------------------------------------------------
\* What a slot carries: shapes only, the text of IDs apart.
GoTypes ==
  /\ stage \in [Requests -> {"idle", "handler", "recovering", "returned", "done"}]
  /\ counter \in Nat
  /\ recorder \in [Requests -> [status : Statuses \cup {200}, wroteHeader : BOOLEAN]]
  /\ sent \in [Requests -> Statuses \cup {0, 200, 500}]
  /\ docs \in [Requests -> 0..(MaxDocs + 1)]
  /\ line \in [Requests -> Statuses \cup {0, 200}]
  /\ alarm \in [Requests -> BOOLEAN]

\* While the handler or the recovery is at work, the recorder and net/http agree
\* on the status, and nothing is logged yet but a panic.
AtWork(r) ==
  /\ sent[r] = IF recorder[r].wroteHeader THEN recorder[r].status ELSE 0
  /\ line[r] = 0 /\ docs[r] <= MaxDocs
  /\ ~recorder[r].wroteHeader => docs[r] = 0
  /\ alarm[r] <=> stage[r] = "recovering"

\* After a return the line has the recorder's status, which was or will be sent.
Logged(r) ==
  /\ line[r] = recorder[r].status
  /\ sent[r] = line[r] \/ (stage[r] = "returned" /\ sent[r] = 0 /\ line[r] = 200)

\* After a panic there is a response and no line.
Recovered(r) ==
  /\ line[r] = 0 /\ sent[r] # 0
  /\ ~recorder[r].wroteHeader => sent[r] = 500 /\ docs[r] = 1

Records ==
  \A r \in Requests :
    /\ ~recorder[r].wroteHeader => recorder[r].status = 200
    /\ IF stage[r] \in {"idle", "handler", "recovering"} THEN AtWork(r)
       ELSE IF alarm[r] THEN Recovered(r) ELSE Logged(r)

GoInv == GoTypes /\ Records

LEMMA GoInitInv == Init => GoInv
<1> SUFFICES ASSUME Init PROVE GoInv
  OBVIOUS
<1> USE StatusesAreCodes, MaxDocsPositive DEF Init, Go!Init
<1>1. GoTypes
  BY DEF GoTypes
<1>2. Records
  BY DEF Records, AtWork
<1> QED
  BY <1>1, <1>2 DEF GoInv

\* Only the slot that takes the step changes, and it keeps its types.
LEMMA GoServingInv ==
  ASSUME GoInv, NEW r \in Requests, Go!Serving(r)
  PROVE  GoInv'
<1> USE StatusesAreCodes, MaxDocsPositive
<1> USE DEF GoInv, GoTypes, Records, AtWork, Logged, Recovered, Go!Commit
<1>1. ASSUME NEW code \in Statuses, Go!WriteHeader(r, code) PROVE GoInv'
  BY <1>1 DEF Go!WriteHeader, Go!Record
<1>2. CASE Go!Write(r)
  BY <1>2 DEF Go!Write
<1>3. CASE Go!Return(r)
  BY <1>3 DEF Go!Return
<1>4. CASE Go!Panic(r)
  BY <1>4 DEF Go!Panic, Go!Unwind
<1>5. CASE Go!Recover(r)
  BY <1>5 DEF Go!Recover
<1>6. CASE Go!Finish(r)
  BY <1>6 DEF Go!Finish
<1> QED
  BY <1>1, <1>2, <1>3, <1>4, <1>5, <1>6 DEF Go!Serving

LEMMA GoArriveInv ==
  ASSUME GoInv, NEW r \in Requests, NEW header \in Headers, Go!Arrive(r, header)
  PROVE  GoInv'
<1> USE StatusesAreCodes, MaxDocsPositive
<1>1. /\ stage' = [stage EXCEPT ![r] = "handler"] /\ stage[r] = "idle"
      /\ counter' \in {counter, counter + 1}
      /\ UNCHANGED <<recorder, sent, docs, line, alarm>>
  BY DEF Go!Arrive, Go!NextCount
<1> QED
  BY <1>1 DEF GoInv, GoTypes, Records, AtWork, Logged, Recovered

\* A slot has an ID of its own making, or the client's; a fallback ID has a
\* number the counter has reached.
Sources(r) == {<<"nobody">>, <<"client">>, <<"random", r>>} \cup {<<"fallback", n>> : n \in 1..counter}

Numbered ==
  /\ counter \in Nat
  /\ \A r \in Requests : id[r].from \in Sources(r)

IdInv == Shapes /\ Numbered /\ Go!DistinctIds

LEMMA IdInitInv == Init => IdInv
<1> SUFFICES ASSUME Init PROVE IdInv
  OBVIOUS
<1>1. Shapes
  BY InitInv DEF TraceInv
<1>2. counter = 0 /\ \A r \in Requests : id[r].from = <<"nobody">>
  BY DEF Init, Go!Init, Go!NoId
<1> QED
  BY <1>1, <1>2 DEF IdInv, Numbered, Sources, Go!DistinctIds

\* An ID made up now has a source no slot has used before.
LEMMA IdArriveInv ==
  ASSUME IdInv, Shapes', NEW r \in Requests, NEW header \in Headers, Go!Arrive(r, header)
  PROVE  IdInv'
<1> USE DEF IdInv
<1>1. /\ counter' \in {counter, counter + 1}
      /\ \A q \in Requests : q # r => id'[q] = id[q]
  BY DEF Go!Arrive, Go!NextCount, Shapes
<1>2. \/ id'[r].from = <<"client">>
      \/ id'[r].from = <<"random", r>>
      \/ id'[r].from = <<"fallback", counter + 1>> /\ counter' = counter + 1
  BY DEF Go!Arrive, Go!NextCount, Shapes
<1>3. Numbered'
  <2>1. counter' \in Nat /\ counter \in Nat /\ 1..counter \subseteq 1..counter'
    BY <1>1 DEF Numbered
  <2>2. ASSUME NEW q \in Requests, q # r PROVE id'[q].from \in Sources(q)'
    BY <1>1, <2>1, <2>2 DEF Numbered, Sources
  <2>3. counter' = counter + 1 => counter + 1 \in 1..counter'
    BY <2>1
  <2>4. id'[r].from \in Sources(r)'
    BY <1>2, <2>3 DEF Sources
  <2> QED
    BY <2>1, <2>2, <2>4 DEF Numbered
<1>4. \A q \in Requests : q # r /\ id[q].from = id'[r].from => id'[r].from = <<"client">>
  BY <1>2 DEF Numbered, Sources
<1>5. Go!DistinctIds'
  BY <1>1, <1>4 DEF Go!DistinctIds
<1> QED
  BY <1>3, <1>5

-----------------------------------------------------------------------------
(* The ML service. The middleware's status is that of the start message it  *)
(* handed to send, and 500, the server's own answer, before there is one;   *)
(* only that message or the server's 500 gets on the connection.            *)
PyTypes ==
  /\ at \in [Calls -> {"idle", "app", "sending", "body", "caught", "error_sending",
                       "error_body", "complete", "failed", "to_server", "done"}]
  /\ started \in [Calls -> BOOLEAN]
  /\ status \in [Calls -> AppStatuses \cup {500}]
  /\ starts \in [Calls -> Nat]
  /\ message \in [Calls -> AppStatuses \cup {0, 500}]
  /\ wire \in [Calls -> AppStatuses \cup {0, 500}]
  /\ closed \in [Calls -> BOOLEAN] /\ connected \in [Calls -> BOOLEAN]
  /\ logged \in [Calls -> Seq(AppStatuses \cup {500})]

Answering(q) ==
  /\ starts[q] = IF started[q] THEN 1 ELSE 0
  /\ IF started[q] THEN message[q] = status[q] ELSE message[q] = 0 /\ status[q] = 500
  /\ wire[q] \in {0, message[q]} \/ (at[q] = "done" /\ wire[q] = 500)
  /\ at[q] \in {"idle", "app"} => ~started[q]
  /\ at[q] \in {"sending", "error_sending", "body", "error_body", "complete"} => started[q]
  /\ logged[q] = IF at[q] \in {"to_server", "done"} THEN <<status[q]>> ELSE <<>>

PyInv == PyTypes /\ \A q \in Calls : Answering(q)

LEMMA PyInitInv == Init => PyInv
BY DEF Init, Py!Init, PyInv, PyTypes, Answering

LEMMA PyArriveInv ==
  ASSUME PyInv, NEW q \in Calls, NEW text, NEW from, Py!Arrive(q, text, from)
  PROVE  PyInv'
BY DEF PyInv, PyTypes, Answering, Py!Arrive

\* The one completion line has the status at that point, which stays.
LEMMA PyFinallyInv ==
  ASSUME PyInv, NEW q \in Calls, Py!Finally(q)
  PROVE  PyInv'
<1>1. /\ at[q] \in {"complete", "failed"}
      /\ at' = [at EXCEPT ![q] = IF at[q] = "complete" THEN "done" ELSE "to_server"]
      /\ UNCHANGED <<started, status, starts, message, wire, closed, connected>>
      /\ logged' = [logged EXCEPT ![q] = Append(@, status[q])]
  <2>1. CASE at[q] = "complete" /\ at' = [at EXCEPT ![q] = "done"]
    BY <2>1 DEF Py!Finally
  <2>2. CASE at[q] = "failed" /\ at' = [at EXCEPT ![q] = "to_server"]
    BY <2>2 DEF Py!Finally
  <2> QED
    BY <2>1, <2>2 DEF Py!Finally, Py!Move
<1>2. logged[q] = <<>> /\ status[q] \in AppStatuses \cup {500}
  <2>1. at[q] \notin {"to_server", "done"}
    BY <1>1
  <2>2. logged[q] = <<>>
    BY <2>1 DEF PyInv, Answering
  <2> QED
    BY <2>2 DEF PyInv, PyTypes
<1>3. Append(logged[q], status[q]) = <<status[q]>>
  BY <1>2
<1>4. logged' = [logged EXCEPT ![q] = <<status[q]>>]
  BY <1>1, <1>3
<1>5. PyTypes'
  <2>1. <<status[q]>> \in Seq(AppStatuses \cup {500})
    BY <1>2
  <2>2. logged' \in [Calls -> Seq(AppStatuses \cup {500})]
    BY <1>4, <2>1 DEF PyInv, PyTypes
  <2> QED
    BY <1>1, <2>2 DEF PyInv, PyTypes
<1>6. \A p \in Calls : logged'[p] = IF p = q THEN <<status[q]>> ELSE logged[p]
  BY <1>4 DEF PyInv, PyTypes
<1>7. \A p \in Calls :
        at'[p] = IF p # q THEN at[p] ELSE IF at[q] = "complete" THEN "done" ELSE "to_server"
  BY <1>1 DEF PyInv, PyTypes
<1>8. ASSUME NEW p \in Calls PROVE Answering(p)'
  <2>1. CASE p = q
    BY <1>1, <1>6, <1>7, <2>1 DEF PyInv, Answering
  <2>2. CASE p # q
    BY <1>1, <1>6, <1>7, <2>2 DEF PyInv, Answering
  <2> QED
    BY <2>1, <2>2
<1> QED
  BY <1>5, <1>8 DEF PyInv

\* What gets on the connection is the message handed to send, while the call is
\* under way, or the server's own 500 at its end.
LEMMA PyWireInv ==
  ASSUME PyInv, NEW q \in Calls, NEW to, NEW code,
         \/ /\ at[q] \in {"sending", "error_sending"} /\ to \in {"body", "error_body"}
            /\ started[q] /\ code \in {wire[q], message[q]}
         \/ at[q] = "to_server" /\ to = "done" /\ code \in {wire[q], 500},
         at' = [at EXCEPT ![q] = to],
         wire' = [wire EXCEPT ![q] = code],
         closed' \in [Calls -> BOOLEAN],
         UNCHANGED <<started, status, starts, message, connected, logged>>
  PROVE  PyInv'
<1>1. PyTypes
  BY DEF PyInv
<1>2. \A p \in Calls :
        /\ at'[p] = IF p = q THEN to ELSE at[p]
        /\ wire'[p] = IF p = q THEN code ELSE wire[p]
  BY <1>1 DEF PyTypes
<1>3. code \in AppStatuses \cup {0, 500}
  BY <1>1 DEF PyTypes
<1>4. wire' \in [Calls -> AppStatuses \cup {0, 500}]
  BY <1>1, <1>3 DEF PyTypes
<1>5. PyTypes'
  BY <1>1, <1>4 DEF PyTypes
<1>6. ASSUME NEW p \in Calls, p # q PROVE Answering(p)'
  BY <1>2, <1>6 DEF PyInv, Answering
<1>7. Answering(q)'
  <2>1. Answering(q)
    BY DEF PyInv
  <2>2. at'[q] = to /\ wire'[q] = code
    BY <1>2
  <2> QED
    BY <2>1, <2>2 DEF Answering
<1> QED
  BY <1>5, <1>6, <1>7 DEF PyInv

LEMMA PyServerInv ==
  ASSUME PyInv, NEW q \in Calls, Py!ServerHandles(q)
  PROVE  PyInv'
<1>1. /\ at[q] = "to_server" /\ at' = [at EXCEPT ![q] = "done"]
      /\ UNCHANGED <<started, status, starts, message, connected, logged>>
  BY DEF Py!ServerHandles, Py!Move
<1>2. wire \in [Calls -> AppStatuses \cup {0, 500}] /\ closed \in [Calls -> BOOLEAN]
  BY DEF PyInv, PyTypes
<1>3. \E code \in {wire[q], 500} : wire' = [wire EXCEPT ![q] = code]
  BY <1>2 DEF Py!ServerHandles, Py!Transmit
<1>4. closed' \in [Calls -> BOOLEAN]
  BY <1>2 DEF Py!ServerHandles
<1> QED
  BY <1>1, <1>3, <1>4, PyWireInv

LEMMA PyTakenInv ==
  ASSUME PyInv, NEW q \in Calls, Py!StartTaken(q)
  PROVE  PyInv'
<1>1. /\ \E to \in {"body", "error_body"} : at' = [at EXCEPT ![q] = to]
      /\ at[q] \in {"sending", "error_sending"}
      /\ UNCHANGED <<started, status, starts, message, closed, connected, logged>>
      /\ wire' = [wire EXCEPT ![q] = IF connected[q] THEN message[q] ELSE wire[q]]
  BY DEF Py!StartTaken, Py!Move, Py!Transmit
<1>2. started[q] /\ closed' \in [Calls -> BOOLEAN]
  BY <1>1 DEF PyInv, PyTypes, Answering
<1>3. \E code \in {wire[q], message[q]} : wire' = [wire EXCEPT ![q] = code]
  BY <1>1
<1> QED
  BY <1>1, <1>2, <1>3, PyWireInv

LEMMA PyServingInv ==
  ASSUME PyInv, NEW q \in Calls, Py!Serving(q)
  PROVE  PyInv'
<1> USE AppStatusesAreCodes DEF PyInv, PyTypes, Answering
<1>1. CASE Py!AppStarts(q)
  BY <1>1 DEF Py!AppStarts, Py!Move, Py!SendStart
<1>2. CASE Py!AppCompletes(q)
  BY <1>2 DEF Py!AppCompletes, Py!Move
<1>3. CASE Py!AppRaises(q)
  <2>1. /\ at' = [at EXCEPT ![q] = "caught"]
        /\ UNCHANGED <<started, status, starts, message, wire, closed, connected, logged>>
        /\ at[q] \in {"app", "sending", "body"}
    BY <1>3 DEF Py!AppRaises, Py!Move
  <2> QED
    BY <2>1
<1>4. CASE Py!AnswerError(q)
  BY <1>4 DEF Py!AnswerError, Py!Move, Py!SendStart
<1>5. CASE Py!ErrorCompletes(q)
  BY <1>5 DEF Py!ErrorCompletes, Py!Move
<1>6. CASE Py!Reraise(q)
  BY <1>6 DEF Py!Reraise, Py!Move
<1>7. CASE Py!Cancel(q)
  <2>1. /\ at' = [at EXCEPT ![q] = "failed"]
        /\ UNCHANGED <<started, status, starts, message, wire, closed, connected, logged>>
        /\ at[q] \in {"app", "sending", "body", "error_sending", "error_body"}
    BY <1>7 DEF Py!Cancel, Py!Move
  <2> QED
    BY <2>1
<1>8. CASE Py!Finally(q)
  BY <1>8, PyFinallyInv
<1>9. CASE Py!ServerHandles(q)
  BY <1>9, PyServerInv
<1>10. CASE Py!Disconnect(q)
  BY <1>10 DEF Py!Disconnect
<1>11. CASE Py!StartTaken(q)
  BY <1>11, PyTakenInv
<1> QED
  BY <1>1, <1>2, <1>3, <1>4, <1>5, <1>6, <1>7, <1>8, <1>9, <1>10, <1>11 DEF Py!Serving

-----------------------------------------------------------------------------
\* Every ID the ML service works with is acceptable, direct calls' too.
CallIdsAcceptable == \A q \in Calls : at[q] # "idle" => Acceptable(request_id[q].text)

LEMMA SameAcceptable == \A s : (Go!Acceptable(s) <=> Acceptable(s)) /\ (Py!Acceptable(s) <=> Acceptable(s))
BY DEF Go!Acceptable, Py!Acceptable, Acceptable

LEMMA CallIdArrives ==
  ASSUME Shapes, CallIdsAcceptable, NEW q \in Calls, NEW text, NEW from, Py!Arrive(q, text, from)
  PROVE  CallIdsAcceptable'
<1> DEFINE new == IF NormaliseRequestId(text) = <<>> THEN Py!MadeUp(q)
                  ELSE [text |-> NormaliseRequestId(text), from |-> from]
<1>1. Acceptable(new.text)
  <2>1. NormaliseRequestId(text) # <<>> => Acceptable(NormaliseRequestId(text))
    BY DEF NormaliseRequestId, Normalise
  <2> QED
    BY <2>1, GeneratedAcceptable DEF Py!MadeUp
<1>2. request_id' = [request_id EXCEPT ![q] = new] /\ at' = [at EXCEPT ![q] = "app"]
  BY SameNormalisation DEF Py!Arrive
<1> HIDE DEF new
<1>3. request_id'[q] = new /\ \A p \in Calls : p # q => request_id'[p] = request_id[p] /\ at'[p] = at[p]
  BY <1>2 DEF Shapes
<1> QED
  BY <1>1, <1>3 DEF CallIdsAcceptable

LEMMA CallIdKept ==
  ASSUME CallIdsAcceptable, Shapes, NEW q \in Calls, Py!Serving(q)
  PROVE  CallIdsAcceptable'
<1>1. /\ UNCHANGED request_id
      /\ at[q] # "idle"
      /\ at' = at \/ \E to : at' = [at EXCEPT ![q] = to]
  BY DEF Py!Serving, Py!Move, Py!AppStarts, Py!StartTaken, Py!AppCompletes, Py!AppRaises,
     Py!AnswerError, Py!ErrorCompletes, Py!Reraise, Py!Cancel, Py!Finally,
     Py!ServerHandles, Py!Disconnect
<1> QED
  BY <1>1 DEF CallIdsAcceptable, Shapes

-----------------------------------------------------------------------------
\* The two services' own invariants and what ties them together.
FullInv == TraceInv /\ GoInv /\ IdInv /\ PyInv /\ CallIdsAcceptable

LEMMA FullInitInv == Init => FullInv
<1>1. Init => CallIdsAcceptable
  BY DEF Init, Py!Init, CallIdsAcceptable
<1> QED
  BY <1>1, InitInv, GoInitInv, IdInitInv, PyInitInv DEF FullInv

\* A step of one service leaves the other's part alone.
LEMMA PyUntouched == PyInv /\ CallIdsAcceptable /\ UNCHANGED pyVars => (PyInv /\ CallIdsAcceptable)'
BY DEF pyVars, PyInv, PyTypes, Answering, CallIdsAcceptable

LEMMA GoUntouched == GoInv /\ IdInv /\ Shapes' /\ UNCHANGED goVars => (GoInv /\ IdInv)'
<1> SUFFICES ASSUME GoInv, IdInv, Shapes', UNCHANGED goVars PROVE (GoInv /\ IdInv)'
  OBVIOUS
<1>1. GoInv'
  BY DEF goVars, GoInv, GoTypes, Records, AtWork, Logged, Recovered
<1>2. IdInv'
  BY DEF goVars, IdInv, Numbered, Sources, Go!DistinctIds
<1> QED
  BY <1>1, <1>2

LEMMA FullStepInv == FullInv /\ [Next]_vars => FullInv'
<1> SUFFICES ASSUME FullInv, [Next]_vars PROVE FullInv'
  OBVIOUS
<1> USE DEF FullInv
<1>1. TraceInv' /\ Shapes /\ Shapes'
  <2>1. TraceInv'
    BY TraceStepInv
  <2> QED
    BY <2>1 DEF TraceInv
<1>2. CASE Go!Next /\ UNCHANGED <<pyVars, origin>>
  <2>1. (PyInv /\ CallIdsAcceptable)'
    BY <1>2, PyUntouched
  <2>2. ASSUME NEW r \in Requests, Go!Serving(r) PROVE (GoInv /\ IdInv)'
    <3>1. GoInv'
      BY <2>2, GoServingInv
    <3>2. UNCHANGED <<id, counter>>
      BY <2>2 DEF Go!Serving, Go!WriteHeader, Go!Record, Go!Write, Go!Return, Go!Panic,
         Go!Unwind, Go!Recover, Go!Finish
    <3> QED
      BY <1>1, <3>1, <3>2 DEF IdInv, Numbered, Sources, Go!DistinctIds
  <2>3. ASSUME NEW r \in Requests, NEW header \in Headers, Go!Arrive(r, header)
        PROVE  (GoInv /\ IdInv)'
    BY <1>1, <2>3, GoArriveInv, IdArriveInv
  <2> QED
    BY <1>1, <1>2, <2>1, <2>2, <2>3 DEF Go!Next
<1>3. CASE Py!Next /\ UNCHANGED <<goVars, origin>>
  <2>1. (GoInv /\ IdInv)'
    BY <1>1, <1>3, GoUntouched
  <2>2. (PyInv /\ CallIdsAcceptable)'
    BY <1>1, <1>3, PyServingInv, PyArriveInv, CallIdArrives, CallIdKept DEF Py!Next
  <2> QED
    BY <1>1, <2>1, <2>2
<1>4. ASSUME NEW r \in Requests, NEW q \in Calls, Forward(r, q) PROVE FullInv'
  <2>1. UNCHANGED goVars /\ Py!Arrive(q, id[r].text, id[r].from)
    BY <1>4 DEF Forward
  <2>2. (GoInv /\ IdInv)'
    BY <1>1, <2>1, GoUntouched
  <2>3. (PyInv /\ CallIdsAcceptable)'
    BY <1>1, <2>1, PyArriveInv, CallIdArrives
  <2> QED
    BY <1>1, <2>2, <2>3
<1>5. CASE UNCHANGED vars
  BY <1>1, <1>5, GoUntouched, PyUntouched DEF vars
<1> QED
  BY <1>2, <1>3, <1>4, <1>5 DEF Next

LEMMA FullInvariant == Spec => []FullInv
BY FullInitInv, FullStepInv, PTL DEF Spec

-----------------------------------------------------------------------------
(* The state of both middlewares keeps its types, and every ID in use is    *)
(* one both services accept.                                                *)
THEOREM TypeCorrect == Spec => []TypeOK
<1>1. FullInv => TypeOK
  <2> SUFFICES ASSUME FullInv PROVE TypeOK
    OBVIOUS
  <2>1. Go!TypeOK
    BY SameAcceptable DEF FullInv, TraceInv, IdsAcceptable, GoInv, GoTypes, Go!TypeOK
  <2>2. Py!TypeOK
    BY SameAcceptable DEF FullInv, CallIdsAcceptable, PyInv, PyTypes, Py!TypeOK
  <2> QED
    BY <2>1, <2>2 DEF TypeOK
<1> QED
  BY <1>1, FullInvariant, PTL

(* The search API's access log tells the status the client got, whatever    *)
(* the handler set and wrote, and in whatever order.                        *)
THEOREM AccessLogTells == Spec => []AccessLogTruth
<1>1. FullInv => AccessLogTruth
  BY DEF FullInv, GoInv, GoTypes, Records, Logged, Recovered, AccessLogTruth, Go!AccessLogTruth
<1> QED
  BY <1>1, FullInvariant, PTL

(* A request leaves an access log line or, if its handler panicked, the     *)
(* panic report, and never both.                                            *)
THEOREM EachLeavesOneRecord == Spec => []OneRecord
<1>1. FullInv => OneRecord
  BY StatusesAreCodes
  DEF FullInv, GoInv, GoTypes, Records, Logged, Recovered, OneRecord, Go!OneRecord
<1> QED
  BY <1>1, FullInvariant, PTL

(* A panic before the response started is answered with one 500 document.   *)
THEOREM PanicsAnswered == Spec => []PanicAnswered
<1>1. FullInv => PanicAnswered
  BY DEF FullInv, GoInv, GoTypes, Records, Recovered, PanicAnswered, Go!PanicAnswered
<1> QED
  BY <1>1, FullInvariant, PTL

(* No two requests share an ID the search API made up, however many there   *)
(* are and however often the random source fails.                           *)
THEOREM GeneratedIdsDiffer == Spec => []DistinctIds
<1>1. FullInv => DistinctIds
  BY DEF FullInv, IdInv, DistinctIds
<1> QED
  BY <1>1, FullInvariant, PTL

(* The ML service logs each call once, with the status the client got,      *)
(* after exceptions and cancellations at any await, except where the server  *)
(* answers 500 itself because it never took the start message.               *)
THEOREM CompletionLineTells == Spec => []LogTruth
<1>1. FullInv => LogTruth
  <2> SUFFICES ASSUME FullInv, NEW q \in Calls, at[q] = "done"
               PROVE  /\ Len(logged[q]) = 1
                      /\ wire[q] # 0 =>
                           \/ logged[q] = <<wire[q]>>
                           \/ wire[q] = 500 /\ message[q] \notin {0, wire[q]}
    BY DEF LogTruth, Py!LogTruth
  <2>1. Answering(q)
    BY DEF FullInv, PyInv
  <2>2. logged[q] = <<status[q]>>
    BY <2>1 DEF Answering
  <2>3. CASE wire[q] \in {0, status[q]}
    BY <2>2, <2>3
  <2>4. CASE wire[q] \notin {0, status[q]}
    <3>1. wire[q] = 500 /\ started[q] /\ message[q] = status[q]
      BY <2>1, <2>4, AppStatusesAreCodes DEF Answering
    <3>2. message[q] # 0
      BY <2>1, <3>1, AppStatusesAreCodes DEF FullInv, PyInv, PyTypes
    <3> QED
      BY <2>2, <2>4, <3>1, <3>2
  <2> QED
    BY <2>3, <2>4
<1> QED
  BY <1>1, FullInvariant, PTL

(* The server under the ML service is asked for one response at most.       *)
THEOREM OneStart == Spec => []SingleStart
<1>1. FullInv => SingleStart
  <2> SUFFICES ASSUME FullInv, NEW q \in Calls PROVE starts[q] <= 1
    BY DEF SingleStart, Py!SingleStart
  <2>1. Answering(q)
    BY DEF FullInv, PyInv
  <2>2. starts[q] \in {0, 1}
    BY <2>1 DEF Answering
  <2> QED
    BY <2>2
<1> QED
  BY <1>1, FullInvariant, PTL
=============================================================================
