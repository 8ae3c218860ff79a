----------------------- MODULE IntegrationHarnessProofs -----------------------
(***************************************************************************)
(* Proofs about IntegrationHarness for any set of ports, the two services' *)
(* possibly the same, and any number of attempts.                          *)
(***************************************************************************)
EXTENDS IntegrationHarness, TLAPS

Stages == {"reserve", "start", "wait", "healthy", "stop", "degraded", "defers", "end"}
Underway == Stages \ {"defers", "end"}

HarnessTypes ==
  /\ at \in Stages /\ service \in Services
  /\ proc \in [Services -> {"none", "starting", "up", "exited"}]
  /\ holder \in [Ports -> Services \cup {"none", "other"}]
  /\ deferred \subseteq Services
  /\ failed \in BOOLEAN

\* A service that listens runs, and has a port if it was started.
Listening ==
  /\ \A p \in Ports, s \in Services : holder[p] = s => proc[s] = "up"
  /\ at \in Underway \ {"reserve"} => \A s \in Services : port[s] \in Ports
  /\ \A s \in Services : proc[s] # "none" => port[s] \in Ports

\* Services are started one after the other, each with its stop deferred.
StartedInOrder ==
  /\ at = "reserve" => service = "ml"
  /\ at = "reserve" \/ (at = "start" /\ service = "ml") => \A s \in Services : proc[s] = "none"
  /\ at = "start" /\ service = "api" => proc["api"] = "none"
  /\ at \in {"start", "wait"} /\ service = "ml" => proc["api"] = "none"
  /\ at = "wait" => proc[service] # "none"
  /\ (at \in {"start", "wait"} /\ service = "api") \/ at \in {"healthy", "stop"} => proc["ml"] # "none"
  /\ at = "degraded" => proc["ml"] = "exited"

Deferred ==
  /\ at \in Underway => \A s \in Services : proc[s] # "none" => s \in deferred
  /\ at = "defers" => \A s \in Services : proc[s] \in {"starting", "up"} => s \in deferred

\* The first report is healthy, of a running service, unless the test failed.
Reported ==
  /\ at \in Underway => outcome = "none"
  /\ at = "defers" => outcome # "killed"
  /\ at \in {"reserve", "start", "wait", "healthy"} => reports = {}
  /\ at \in {"stop", "degraded"} /\ ~failed => reports = {[status |-> "healthy", ml |-> "up"]}

HarnessInv ==
  HarnessTypes /\ Listening /\ StartedInOrder /\ Deferred /\ Reported /\ PassIsEarned /\ NoProcessLeft

LEMMA HarnessInitInv == Init => HarnessInv
<1> SUFFICES ASSUME Init PROVE HarnessInv
  OBVIOUS
<1> USE DEF Init, Services
<1>1. HarnessTypes
  BY DEF HarnessTypes, Stages
<1>2. Listening /\ StartedInOrder /\ Deferred /\ Reported
  BY DEF Listening, StartedInOrder, Deferred, Reported, Underway, Stages
<1>3. PassIsEarned /\ NoProcessLeft
  BY DEF PassIsEarned, NoProcessLeft
<1> QED
  BY <1>1, <1>2, <1>3 DEF HarnessInv

-----------------------------------------------------------------------------
\* t.Fatalf leaves what runs to the deferred calls.
LEMMA FatalInv ==
  ASSUME HarnessInv, at \in Underway, NEW how, how \notin {"passed", "killed"},
         Fatal(how), UNCHANGED <<proc, holder>>, UNCHANGED port \/ at = "reserve"
  PROVE  HarnessInv'
<1> USE DEF HarnessInv, Fatal
<1>1. HarnessTypes'
  BY DEF HarnessTypes, Stages
<1>2. Listening' /\ StartedInOrder'
  BY DEF Listening, StartedInOrder, Underway, HarnessTypes, Stages, Services
<1>3. Deferred' /\ Reported'
  BY DEF Deferred, Reported, Underway, Stages
<1>4. PassIsEarned' /\ NoProcessLeft'
  BY DEF PassIsEarned, NoProcessLeft
<1> QED
  BY <1>1, <1>2, <1>3, <1>4

\* Killing a service, or its own end, never harms.
LEMMA KillKeeps ==
  ASSUME HarnessTypes, Listening, NEW s \in Services, Kill(s)
  PROVE  /\ proc' \in [Services -> {"none", "starting", "up", "exited"}]
         /\ holder' \in [Ports -> Services \cup {"none", "other"}]
         /\ \A p \in Ports, q \in Services : holder'[p] = q => proc'[q] = "up"
         /\ proc'[s] \in {"none", "exited"}
         /\ \A q \in Services : proc'[q] = "none" <=> proc[q] = "none"
         /\ \A q \in Services : q # s => proc'[q] = proc[q]
         /\ \A q \in Services : proc[q] = "exited" => proc'[q] = "exited"
         /\ UNCHANGED port
BY DEF HarnessTypes, Listening, Kill, Release, Services

-----------------------------------------------------------------------------
LEMMA HarnessStepInv == HarnessInv /\ [Next]_vars => HarnessInv'
<1> SUFFICES ASSUME HarnessInv, [Next]_vars PROVE HarnessInv'
  OBVIOUS
<1> USE DEF HarnessInv
<1>1. CASE Reserve
  <2>1. CASE Fatal("failed")
    BY <1>1, <2>1, FatalInv DEF Reserve, Underway, Stages
  <2>2. CASE Become("start", 0) /\ port' \in [Services -> {p \in Ports : holder[p] = "none"}]
    <3>1. /\ at = "reserve" /\ at' = "start" /\ UNCHANGED <<proc, holder>>
          /\ UNCHANGED <<service, deferred, failed, outcome, reports>>
          /\ \A s \in Services : port'[s] \in Ports
      BY <1>1, <2>2 DEF Reserve, Become
    <3>2. HarnessTypes' /\ Listening'
      BY <3>1 DEF HarnessTypes, Listening, Stages
    <3>3. StartedInOrder' /\ Deferred'
      BY <3>1 DEF StartedInOrder, Deferred, Underway, Stages, Services
    <3>4. Reported' /\ PassIsEarned' /\ NoProcessLeft'
      BY <3>1 DEF Reported, PassIsEarned, NoProcessLeft, Underway, Stages
    <3> QED
      BY <3>2, <3>3, <3>4
  <2> QED
    BY <1>1, <2>1, <2>2 DEF Reserve
<1>2. CASE StartProcess
  <2>1. CASE Fatal("failed")
    <3>1. at = "start" /\ UNCHANGED <<proc, port, holder>>
      BY <1>2, <2>1 DEF StartProcess, Fatal
    <3> QED
      BY <2>1, <3>1, FatalInv DEF Underway, Stages
  <2>2. CASE at' = "wait"
    <3>1. /\ at = "start" /\ proc' = [proc EXCEPT ![service] = "starting"]
          /\ deferred' = deferred \cup {service}
          /\ UNCHANGED <<service, failed, outcome, reports, port, holder>>
      BY <1>2, <2>2 DEF StartProcess, Started, Fatal
    <3>2. HarnessTypes'
      BY <2>2, <3>1 DEF HarnessTypes, Stages
    <3>3. Listening'
      BY <2>2, <3>1 DEF HarnessTypes, Listening, StartedInOrder, Underway, Stages, Services
    <3>4. StartedInOrder' /\ Deferred'
      BY <2>2, <3>1 DEF HarnessTypes, StartedInOrder, Deferred, Underway, Stages, Services
    <3>5. Reported' /\ PassIsEarned' /\ NoProcessLeft'
      BY <2>2, <3>1 DEF Reported, PassIsEarned, NoProcessLeft, Underway, Stages
    <3> QED
      BY <3>2, <3>3, <3>4, <3>5
  <2> QED
    BY <1>2, <2>1, <2>2 DEF StartProcess
<1>3. CASE WaitForHTTP
  <2> USE <1>3 DEF WaitForHTTP, machine
  <2>1. CASE Fatal("timed out")
    BY <2>1, FatalInv DEF Underway, Stages
  <2>2. CASE service = "ml" /\ at' = "start" /\ service' = "api" /\ UNCHANGED <<deferred, failed, outcome, reports>>
    BY <2>2 DEF HarnessTypes, Listening, StartedInOrder, Deferred, Reported,
       PassIsEarned, NoProcessLeft, Underway, Stages, Services
  <2>3. CASE service = "api" /\ at' = "healthy" /\ UNCHANGED <<service, deferred, failed, outcome, reports>>
    BY <2>3 DEF HarnessTypes, Listening, StartedInOrder, Deferred, Reported,
       PassIsEarned, NoProcessLeft, Underway, Stages, Services
  <2>4. CASE UNCHANGED <<at, service, deferred, failed, outcome, reports>>
    BY <2>4 DEF HarnessTypes, Listening, StartedInOrder, Deferred, Reported,
       PassIsEarned, NoProcessLeft
  <2> QED
    BY <2>1, <2>2, <2>3, <2>4 DEF ExitSeen, NextAttempt, Become, HarnessTypes, Services
<1>4. CASE CheckHealthy
  <2> USE <1>4 DEF CheckHealthy, machine
  <2>1. CASE Fatal("failed")
    BY <2>1, FatalInv DEF Underway, Stages
  <2>2. CASE /\ at' = "stop"
             /\ \E status \in Status : Judged(status) /\ reports' = reports \cup {Report(status)}
             /\ UNCHANGED <<service, deferred, outcome>>
    <3>1. PICK status \in Status : Judged(status) /\ reports' = reports \cup {Report(status)}
      BY <2>2
    <3>2. ~failed' => Report(status) = [status |-> "healthy", ml |-> "up"]
      BY <3>1 DEF Judged, Report, Status, Listening, Underway, Stages, Services
    <3>3. reports' = {Report(status)} /\ failed' \in BOOLEAN
      BY <3>1 DEF Reported, Judged
    <3> QED
      BY <2>2, <3>2, <3>3 DEF HarnessTypes, Listening, StartedInOrder, Deferred, Reported,
         PassIsEarned, NoProcessLeft, Underway, Stages
  <2> QED
    BY <2>1, <2>2
<1>5. CASE StopMl
  <2>1. /\ at = "stop" /\ at' = "degraded" /\ Kill("ml")
        /\ UNCHANGED <<service, deferred, failed, outcome, reports>>
    BY <1>5 DEF StopMl, Become
  <2>2. "ml" \in Services
    BY DEF Services
  <2>3. proc'["ml"] = "exited"
    BY <2>1, <2>2, KillKeeps DEF StartedInOrder
  <2>4. HarnessTypes' /\ Listening'
    BY <2>1, <2>2, KillKeeps DEF HarnessTypes, Listening, Underway, Stages
  <2>5. StartedInOrder' /\ Deferred' /\ Reported' /\ PassIsEarned' /\ NoProcessLeft'
    BY <2>1, <2>2, <2>3, KillKeeps DEF StartedInOrder, Deferred, Reported, PassIsEarned, NoProcessLeft,
       Underway, Stages
  <2> QED
    BY <2>4, <2>5
<1>6. CASE CheckDegraded
  <2> USE <1>6 DEF CheckDegraded, machine
  <2>1. ASSUME NEW how \in {"failed"}, Fatal(how) PROVE HarnessInv'
    BY <2>1, FatalInv DEF Underway, Stages
  <2>2. CASE /\ at' = "defers" /\ reports' = reports \cup {Report("degraded")}
             /\ outcome' = IF failed THEN "failed" ELSE "passed"
             /\ UNCHANGED <<service, left, deferred, failed>>
    <3>1. Report("degraded") = [status |-> "degraded", ml |-> "exited"]
      BY DEF Report, StartedInOrder, Underway, Stages, Services
    <3>2. PassIsEarned'
      BY <2>2, <3>1 DEF PassIsEarned, Reported
    <3> QED
      BY <2>2, <3>2 DEF HarnessTypes, Listening, StartedInOrder, Deferred, Reported,
         NoProcessLeft, Underway, Stages
  <2>3. CASE UNCHANGED <<at, service, deferred, failed, outcome, reports>>
    BY <2>3 DEF HarnessTypes, Listening, StartedInOrder, Deferred, Reported,
       PassIsEarned, NoProcessLeft
  <2> QED
    BY <2>1, <2>2, <2>3 DEF NextAttempt, Become
<1>7. CASE Defers
  <2> USE <1>7 DEF Defers
  <2>1. CASE deferred = {}
    BY <2>1 DEF machine, HarnessTypes, Listening, StartedInOrder, Deferred, Reported,
       PassIsEarned, NoProcessLeft, Underway, Stages, Services
  <2>2. CASE deferred # {}
    <3>1. PICK s \in Services : Kill(s) /\ deferred' = deferred \ {s} /\ UNCHANGED at
      BY <2>2 DEF HarnessTypes, Services
    <3>2. UNCHANGED <<service, failed, outcome, reports>>
      OBVIOUS
    <3>3. HarnessTypes' /\ Listening'
      BY <3>1, <3>2, KillKeeps DEF HarnessTypes, Listening
    <3>4. StartedInOrder' /\ Deferred' /\ Reported' /\ PassIsEarned' /\ NoProcessLeft'
      BY <3>1, <3>2, KillKeeps DEF StartedInOrder, Deferred, Reported, PassIsEarned, NoProcessLeft,
         Underway, Stages
    <3> QED
      BY <3>3, <3>4
  <2> QED
    BY <2>1, <2>2
<1>8. CASE Killed
  BY <1>8 DEF Killed, machine, HarnessTypes, Listening, StartedInOrder, Deferred, Reported,
     PassIsEarned, NoProcessLeft, Underway, Stages
<1>9. ASSUME NEW s \in Services, Binds(s) PROVE HarnessInv'
  <2> USE <1>9 DEF Binds, test
  <2>1. port[s] \in Ports /\ proc[s] = "starting"
    BY DEF Listening
  <2>2. /\ proc' \in [Services -> {"none", "starting", "up", "exited"}]
        /\ holder' \in [Ports -> Services \cup {"none", "other"}]
        /\ \A q \in Services : q # s => proc'[q] = proc[q]
        /\ proc'[s] \in {"up", "exited"}
        /\ \A p \in Ports, q \in Services : holder'[p] = q => proc'[q] = "up"
    BY <2>1 DEF HarnessTypes, Listening, Services
  <2>3. HarnessTypes' /\ Listening'
    BY <2>1, <2>2 DEF HarnessTypes, Listening
  <2>4. UNCHANGED <<at, service, deferred, failed, outcome, reports>>
    OBVIOUS
  <2>5. \A q \in Services : (proc'[q] = "none" <=> proc[q] = "none")
                            /\ (proc[q] = "exited" => proc'[q] = "exited")
    BY <2>1, <2>2
  <2>6. StartedInOrder'
    BY <2>4, <2>5 DEF StartedInOrder, HarnessTypes, Services
  <2>7. Deferred' /\ NoProcessLeft'
    BY <2>1, <2>2, <2>4, <2>5 DEF Deferred, NoProcessLeft
  <2>8. Reported' /\ PassIsEarned'
    BY <2>4 DEF Reported, PassIsEarned
  <2> QED
    BY <2>3, <2>6, <2>7, <2>8
<1>10. ASSUME NEW s \in Services, Dies(s) PROVE HarnessInv'
  <2>1. Kill(s) /\ proc[s] \in {"starting", "up"} /\ UNCHANGED test
    BY <1>10 DEF Dies
  <2>2. HarnessTypes' /\ Listening'
    BY <2>1, KillKeeps DEF test, HarnessTypes, Listening
  <2>3. /\ \A q \in Services : proc'[q] = "none" <=> proc[q] = "none"
        /\ \A q \in Services : proc'[q] \in {proc[q], "exited"}
    BY <2>1, KillKeeps DEF HarnessTypes
  <2>4. UNCHANGED <<at, service, deferred, failed, outcome, reports>>
    BY <2>1 DEF test
  <2>5. StartedInOrder'
    BY <2>3, <2>4 DEF StartedInOrder, HarnessTypes, Services
  <2>6. Deferred' /\ NoProcessLeft'
    BY <2>3, <2>4 DEF Deferred, NoProcessLeft, HarnessTypes
  <2>7. Reported' /\ PassIsEarned'
    BY <2>4 DEF Reported, PassIsEarned
  <2> QED
    BY <2>2, <2>5, <2>6, <2>7
<1>11. ASSUME NEW p \in Ports, OtherBinds(p) PROVE HarnessInv'
  BY <1>11 DEF OtherBinds, test, HarnessTypes, Listening, StartedInOrder, Deferred, Reported,
     PassIsEarned, NoProcessLeft, Services
<1>12. CASE UNCHANGED vars
  BY <1>12 DEF vars, test, machine, HarnessTypes, Listening, StartedInOrder, Deferred, Reported,
     PassIsEarned, NoProcessLeft
<1> QED
  BY <1>1, <1>2, <1>3, <1>4, <1>5, <1>6, <1>7, <1>8, <1>9, <1>10, <1>11, <1>12 DEF Next, Test

LEMMA HarnessInvariant == Spec => []HarnessInv
BY HarnessInitInv, HarnessStepInv, PTL DEF Spec

-----------------------------------------------------------------------------
(* The test passes only on a healthy report of its running ML service and a *)
(* degraded one after it killed it, both from its own search API, even if   *)
(* reservePort gave both services one port or another program took one.     *)
THEOREM PassMeansBothReports == Spec => []PassIsEarned
<1>1. HarnessInv => PassIsEarned
  BY DEF HarnessInv
<1> QED
  BY <1>1, HarnessInvariant, PTL

(* However the test ends, short of being killed itself, every process it    *)
(* started has ended: stop is deferred before anything can fail.            *)
THEOREM EveryProcessStopped == Spec => []NoProcessLeft
<1>1. HarnessInv => NoProcessLeft
  BY DEF HarnessInv
<1> QED
  BY <1>1, HarnessInvariant, PTL
=============================================================================
