----------------------------- MODULE ComposeSmoke -----------------------------
(***************************************************************************)
(* scripts/verify_compose.py against the Compose stack. The script is the  *)
(* one client of a search API that keeps StatusContract (SystemStatus      *)
(* implements it); both containers may crash and are restarted, the ML     *)
(* service not once it was stopped. A tick is one of the script's seconds. *)
(***************************************************************************)
EXTENDS StatusContract

CONSTANTS
  HealthTimeout,    \* HEALTH_TIMEOUT_SECONDS
  DegradedTimeout   \* the 30 s of verify_degraded

ASSUME WaitsAreTicks == HealthTimeout \in Nat /\ DegradedTimeout \in Nat

VARIABLES
  at,        \* the call main() makes next
  deadline,  \* ticks left of the current wait
  stack,     \* "none", or "present" once containers and networks exist
  api,       \* the search API process: "up" or "down"
  stopped,   \* "compose stop ml-service" has stopped the ML container
  result,    \* "none", "passed", "failed", "crashed" (a traceback), "killed"
  downFailed,\* the clean-up command failed
  accepted   \* history: what was true when the script accepted a report

scriptVars == <<at, deadline, result, accepted>>
stackVars == <<stack, api, stopped, downFailed>>
smokeVars == <<vars, scriptVars, stackVars>>

SmokeInit ==
  /\ Init /\ service = "down"
  /\ at = "config" /\ deadline = 0 /\ result = "none" /\ accepted = {}
  /\ stack = "none" /\ api = "down" /\ stopped = FALSE /\ downFailed = FALSE

Less(n) == IF n > 0 THEN n - 1 ELSE 0

\* The finally clause runs "compose down" whatever ends the try block.
Fail(how) ==
  /\ at' = "down" /\ result' = how
  /\ UNCHANGED <<deadline, accepted>>

MoveTo(next, ticks) ==
  at' = next /\ deadline' = ticks /\ UNCHANGED <<result, accepted>>

-----------------------------------------------------------------------------
(* The docker commands. run() raises for an exit status but 0.             *)

Prepare ==
  /\ \/ at = "config" /\ MoveTo("build", 0)
     \/ at = "build" /\ MoveTo("up", 0)
     \/ at \in {"config", "build"} /\ Fail("failed")
  /\ UNCHANGED <<vars, stackVars>>

\* Mutant: the try block starts after "up".
UpFails_Outside ==
  /\ at' = "exit" /\ result' = "failed" /\ UNCHANGED <<deadline, accepted>>
  /\ service' \in {"up", "down"} /\ api' \in {"up", "down"}

\* A port found free is taken by now, a health check fails: some of the
\* containers exist.
UpFails ==
  /\ Fail("failed")
  /\ service' \in {"up", "down"} /\ api' \in {"up", "down"}

\* up -d --wait: both containers were seen healthy.
Up ==
  /\ at = "up" /\ stack' = "present"
  /\ \/ MoveTo("wait_ml", HealthTimeout) /\ service' = "up" /\ api' = "up"
     \/ UpFails
  /\ UNCHANGED <<stage, age, seen, verdict, stopped, downFailed>>

\* Mutant: run without the check of the exit status.
StopFails_Unchecked == MoveTo("degraded", DegradedTimeout)

StopFails == Fail("failed")

StopMl ==
  /\ at = "stop"
  /\ \/ /\ MoveTo("degraded", DegradedTimeout)
        /\ service' = "down" /\ stopped' = TRUE
     \/ StopFails /\ UNCHANGED <<service, stopped>>
  /\ UNCHANGED <<stage, age, seen, verdict, stack, api, downFailed>>

\* compose down, check=False: its exit status is not read.
Down ==
  /\ at = "down" /\ at' = "exit"
  /\ result' = IF result = "none" THEN "passed" ELSE result
  /\ \/ stack' = "none" /\ service' = "down" /\ api' = "down" /\ UNCHANGED downFailed
     \/ downFailed' = TRUE /\ UNCHANGED <<stack, service, api>>
  /\ UNCHANGED <<stage, age, seen, verdict, deadline, accepted, stopped>>

-----------------------------------------------------------------------------
(* The requests.                                                           *)

Waits == {"wait_ml", "wait_api", "degraded"}   \* calls of wait_for_status
Asks == {"wait_api", "verify", "degraded"}     \* ... and of request_json, of the API

Attempt == IF at = "verify" THEN TRUE ELSE at \in Waits /\ deadline > 0

\* Mutant: every attempt computes a deadline of its own.
Retry_Renewed == MoveTo(at, deadline)

\* time.sleep(1.0) and the next turn of the loop.
Retry == MoveTo(at, Less(deadline))

(* Nobody answers. request_json turns a URLError into a failed attempt; a  *)
(* connection reset before the status line is none, and ends main().       *)
NoReply == (IF at = "verify" THEN Fail("failed") ELSE Retry) \/ Fail("crashed")

\* One request for /readyz of the ML service.
AskMl ==
  /\ at = "wait_ml" /\ Attempt
  /\ \/ service = "up" /\ MoveTo("wait_api", deadline)
     \/ service = "down" /\ NoReply
  /\ UNCHANGED <<vars, stackVars>>

AskApi ==
  /\ at \in Asks /\ Attempt /\ Ask
  /\ UNCHANGED <<scriptVars, stackVars>>

Judged == api = "up" /\ Judge /\ UNCHANGED <<scriptVars, stackVars>>

Unanswered ==
  /\ at \in Asks /\ api = "down" /\ stage # "closed"
  /\ stage' = "closed" /\ age' = 0 /\ seen' = {} /\ verdict' = "none"
  /\ NoReply
  /\ UNCHANGED <<service, stackVars>>

Accept(next) ==
  /\ at' = next /\ accepted' = accepted \cup {[status |-> verdict, stopped |-> stopped]}
  /\ UNCHANGED <<deadline, result>>

(* wait_for_status, verify_healthy and verify_degraded on a report; the    *)
(* cause of a degraded one may be one verify_degraded does not allow. A    *)
(* report to a script that was killed meanwhile reaches nobody.            *)
Answered ==
  /\ at \in Asks /\ Answer
  /\ LET want == IF at = "degraded" THEN "degraded" ELSE "healthy" IN
     \/ /\ verdict = want
        /\ Accept(CASE at = "wait_api" -> "verify" [] at = "verify" -> "stop"
                    [] OTHER -> "down")
     \/ verdict # want /\ at # "verify" /\ Retry
     \/ verdict = "degraded" /\ at # "wait_api" /\ Fail("failed")
  /\ UNCHANGED stackVars

GiveUp ==
  /\ at \in Waits /\ deadline = 0 /\ stage = "closed"
  /\ Fail("failed")
  /\ UNCHANGED <<vars, stackVars>>

-----------------------------------------------------------------------------
\* SIGTERM: Python ends without the finally clause.
Terminated ==
  /\ at # "exit" /\ at' = "exit" /\ result' = "killed"
  /\ UNCHANGED <<vars, stackVars, deadline, accepted>>

\* restart: unless-stopped.
MlTurns ==
  /\ stack = "present" /\ ~(stopped /\ service = "down")
  /\ Change
  /\ UNCHANGED <<scriptVars, stackVars>>

ApiTurns ==
  /\ stack = "present" /\ api' \in {"up", "down"} \ {api}
  /\ UNCHANGED <<vars, scriptVars, stack, stopped, downFailed>>

Second ==
  /\ Tick /\ deadline' = Less(deadline)
  /\ UNCHANGED <<at, result, accepted, stackVars>>

Script == \/ Prepare \/ Up \/ StopMl \/ Down \/ AskMl \/ AskApi \/ Judged
          \/ Unanswered \/ Answered \/ GiveUp

SmokeNext == Script \/ Terminated \/ MlTurns \/ ApiTurns \/ Second

\* docker's commands end (subprocess.run sets them no timeout), and a request, which
\* has one, is answered or fails.
SmokeSpec == SmokeInit /\ [][SmokeNext]_smokeVars /\ WF_smokeVars(Script)

-----------------------------------------------------------------------------
(* A pass was earned: the API reported itself healthy before the script    *)
(* stopped the ML service, and degraded after it did. A crash that comes   *)
(* in time does not stand in for the stop.                                 *)
PassIsEarned ==
  result = "passed" =>
    accepted = {[status |-> "healthy", stopped |-> FALSE],
                [status |-> "degraded", stopped |-> TRUE]}

(* Containers outlive the script only if it was killed, or if the clean-up *)
(* itself failed: a failed "up" too is cleaned up.                         *)
LeftoversExplained ==
  at = "exit" /\ stack = "present" => result = "killed" \/ downFailed

(* "removes containers, networks, and temporary resources"                 *)
(* (deploy/docker-compose/README.md:23): a script that reports PASSED has  *)
(* left nothing behind.                                                    *)
PassRemovesEverything == result = "passed" => stack = "none"

(* The script ends, whatever the containers do meanwhile, as long as the   *)
(* docker commands end: subprocess.run sets them no timeout.               *)
ScriptEnds == <>(at = "exit")
=============================================================================
