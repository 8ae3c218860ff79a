-------------------------- MODULE IntegrationHarness --------------------------
(***************************************************************************)
(* tests/integration/service_status_test.go: the test that starts both     *)
(* services as processes of its own, on ports it found free and released,  *)
(* asks the search API, kills the ML service and asks again. A process may *)
(* exit at any time, and a program of the machine may take a released port.*)
(***************************************************************************)
EXTENDS Naturals

CONSTANTS Ports,
          Attempts   \* polls that fit into startupTimeout, and into the 10 s

ASSUME AttemptsPositive == Attempts \in Nat \ {0}

Services == {"ml", "api"}

VARIABLES
  at,        \* where the test is
  service,   \* the service being started or waited for
  proc,      \* service -> "none", "starting", "up" or "exited"
  port,      \* service -> the port reserved for it, or "none"
  holder,    \* port -> who listens on it: "none", a service or "other"
  left,      \* attempts left of the current loop
  deferred,  \* services whose stop is deferred
  failed,    \* t.Errorf was called
  outcome,   \* "none", "passed", "failed", "timed out", "exited" or "killed"
  reports    \* history: status the test saw, and whether the ML service ran

test == <<at, service, left, deferred, failed, outcome, reports>>
machine == <<proc, port, holder>>
vars == <<test, machine>>

Init ==
  /\ at = "reserve" /\ service = "ml" /\ left = 0
  /\ deferred = {} /\ failed = FALSE /\ outcome = "none" /\ reports = {}
  /\ proc = [s \in Services |-> "none"] /\ port = [s \in Services |-> "none"]
  /\ holder = [p \in Ports |-> "none"]

\* t.Fatalf: Goexit runs the deferred calls.
Fatal(how) ==
  at' = "defers" /\ outcome' = how /\ UNCHANGED <<service, left, deferred, failed, reports>>

Become(next, n) ==
  at' = next /\ left' = n /\ UNCHANGED <<service, deferred, failed, outcome, reports>>

Release(s) == [p \in Ports |-> IF holder[p] = s THEN "none" ELSE holder[p]]

\* reservePort twice: two calls may return the same port.
Reserve ==
  /\ at = "reserve"
  /\ \/ /\ Become("start", 0)
        /\ port' \in [Services -> {p \in Ports : holder[p] = "none"}]
     \/ Fatal("failed") /\ UNCHANGED port
  /\ UNCHANGED <<proc, holder>>

-----------------------------------------------------------------------------
\* Mutant: stop is deferred once the service answers, so never if it does not.
Started_Undeferred == UNCHANGED deferred

\* The deferred stop is registered before anything that can fail.
Started == deferred' = deferred \cup {service}

(* buildSearchAPI, for the search API, and startProcess.                   *)
StartProcess ==
  /\ at = "start"
  /\ \/ /\ at' = "wait" /\ left' = Attempts
        /\ proc' = [proc EXCEPT ![service] = "starting"]
        /\ Started
        /\ UNCHANGED <<service, failed, outcome, reports>>
     \/ Fatal("failed") /\ UNCHANGED proc
  /\ UNCHANGED <<port, holder>>

(* exec.Cmd sets ProcessState in Cmd.Wait, which nobody calls: stop calls  *)
(* Process.Wait. The check of waitForHTTP never sees an exit.              *)
ExitSeen(s) == FALSE

\* Mutant: the deadline is computed in the loop.
NextAttempt_Renewed(timeout) == Become(at, left)

NextAttempt(timeout) ==
  \/ left > 0 /\ Become(at, left - 1)
  \/ left = 0 /\ Fatal(timeout)

\* Whoever listens on the port may answer /healthz with 200.
WaitForHTTP ==
  /\ at = "wait"
  /\ \/ /\ holder[port[service]] # "none"
        /\ IF service = "ml"
             THEN at' = "start" /\ service' = "api" ELSE at' = "healthy" /\ UNCHANGED service
        /\ UNCHANGED <<left, deferred, failed, outcome, reports>>
     \/ /\ holder[port[service]] \in {"none", "other"}
        /\ IF ExitSeen(service) THEN Fatal("exited") ELSE NextAttempt("timed out")
  /\ UNCHANGED machine

-----------------------------------------------------------------------------
\* What the search API reports of the ML service on the port it was given: a
\* listening one may miss ML_SERVICE_TIMEOUT, 500 ms here.
Status == IF holder[port["ml"]] = "ml" THEN {"healthy", "degraded"} ELSE {"degraded"}
Report(status) == [status |-> status, ml |-> proc["ml"]]

\* Mutant: the status of the report is logged only.
Judged_Logged(status) == UNCHANGED failed

\* t.Errorf for a status that is not healthy: the test goes on, and fails.
Judged(status) == failed' = (status # "healthy")

\* A foreign listener has no such document, nobody no reply, and the search API
\* may take more than 3 s: t.Fatalf.
CheckHealthy ==
  /\ at = "healthy"
  /\ \/ /\ holder[port["api"]] = "api" /\ at' = "stop"
        /\ \E status \in Status : Judged(status) /\ reports' = reports \cup {Report(status)}
        /\ UNCHANGED <<service, left, deferred, outcome>>
     \/ Fatal("failed")
  /\ UNCHANGED machine

\* Kill and Process.Wait; a process that has exited is left as it is.
Kill(s) ==
  /\ proc' = [proc EXCEPT ![s] = IF @ = "none" THEN @ ELSE "exited"]
  /\ holder' = Release(s)
  /\ UNCHANGED port

StopMl == at = "stop" /\ Kill("ml") /\ Become("degraded", Attempts)

(* A refused call is "dependency_unavailable"; of a slow call, or a foreign *)
(* listener on the ML port, the API may report another cause, and the loop  *)
(* goes on.                                                                 *)
CheckDegraded ==
  /\ at = "degraded"
  /\ \/ /\ holder[port["api"]] = "api"
        /\ at' = "defers" /\ reports' = reports \cup {Report("degraded")}
        /\ outcome' = IF failed THEN "failed" ELSE "passed"
        /\ UNCHANGED <<service, left, deferred, failed>>
     \/ holder[port["api"]] = "api" /\ NextAttempt("failed")
     \/ Fatal("failed")
  /\ UNCHANGED machine

\* The deferred calls, the last one first.
Defers ==
  /\ at = "defers"
  /\ LET s == IF "api" \in deferred THEN "api" ELSE "ml" IN
     IF deferred = {} THEN at' = "end" /\ UNCHANGED <<deferred, machine>>
     ELSE Kill(s) /\ deferred' = deferred \ {s} /\ UNCHANGED at
  /\ UNCHANGED <<service, left, failed, outcome, reports>>

\* The timeout of "go test" panics, an interrupt ends it: no deferred calls.
Killed ==
  /\ at # "end" /\ at' = "end" /\ outcome' = "killed"
  /\ UNCHANGED <<service, left, deferred, failed, reports, machine>>

-----------------------------------------------------------------------------
\* The service listens, or exits because its port is taken.
Binds(s) ==
  /\ proc[s] = "starting"
  /\ IF holder[port[s]] = "none"
       THEN proc' = [proc EXCEPT ![s] = "up"] /\ holder' = [holder EXCEPT ![port[s]] = s]
       ELSE proc' = [proc EXCEPT ![s] = "exited"] /\ UNCHANGED holder
  /\ UNCHANGED <<test, port>>

Dies(s) == proc[s] \in {"starting", "up"} /\ Kill(s) /\ UNCHANGED test

OtherBinds(p) ==
  /\ holder[p] = "none" /\ holder' = [holder EXCEPT ![p] = "other"]
  /\ UNCHANGED <<test, proc, port>>

Test == \/ Reserve \/ StartProcess \/ WaitForHTTP \/ CheckHealthy \/ StopMl
        \/ CheckDegraded \/ Defers

Next == \/ Test \/ Killed
        \/ \E s \in Services : Binds(s) \/ Dies(s)
        \/ \E p \in Ports : OtherBinds(p)

\* Every call of the test ends: its requests have timeouts, the go build is assumed to.
Spec == Init /\ [][Next]_vars /\ WF_vars(Test)

-----------------------------------------------------------------------------
(* A pass was earned: a healthy report while the ML process ran, and a     *)
(* degraded one after it was killed, both of the test's own search API,    *)
(* although the two services may have been given the same port.            *)
PassIsEarned ==
  outcome = "passed" =>
    reports = {[status |-> "healthy", ml |-> "up"],
               [status |-> "degraded", ml |-> "exited"]}

(* "cleans up every process": whatever t.Fatalf ends the test, no process  *)
(* it started outlives it, unless the test binary itself is ended.         *)
NoProcessLeft ==
  at = "end" /\ outcome # "killed" => \A s \in Services : proc[s] \in {"none", "exited"}

\* The test ends, whatever its processes do.
TestEnds == <>(at = "end")

(* "process exited before readiness": if the process being waited for has  *)
(* exited, that is reported, and not a timeout.                            *)
EarlyExitReported ==
  [][outcome = "none" /\ outcome' = "timed out" => proc[service] # "exited"]_vars
=============================================================================
