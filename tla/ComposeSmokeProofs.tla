-------------------------- MODULE ComposeSmokeProofs --------------------------
(***************************************************************************)
(* Proofs about ComposeSmoke for timeouts of any length, whatever the      *)
(* containers do while the script runs.                                    *)
(***************************************************************************)
EXTENDS ComposeSmoke, TLAPS

\* The calls main() makes, up to the stop of the ML service and in the try block.
BeforeStop == {"config", "build", "up", "wait_ml", "wait_api", "verify", "stop"}
InTry == BeforeStop \cup {"degraded"}

HealthyBefore == [status |-> "healthy", stopped |-> FALSE]
DegradedAfter == [status |-> "degraded", stopped |-> TRUE]

\* The script has a result when the try block is over, "killed" only at the end.
Results ==
  /\ at \in InTry \cup {"down", "exit"}
  /\ at \in InTry => result = "none"
  /\ at = "down" => result \notin {"passed", "killed"}
  /\ at = "exit" => result # "none"

\* How far the script got tells what it has accepted, and of which stack.
Progress ==
  /\ at \in BeforeStop => stopped = FALSE
  /\ at = "degraded" => stopped = TRUE
  /\ at \in {"config", "build", "up", "wait_ml", "wait_api"} => accepted = {}
  /\ at \in {"verify", "stop", "degraded"} => accepted = {HealthyBefore}
  /\ at = "down" /\ result = "none" => accepted = {HealthyBefore, DegradedAfter}

SmokeInv == Results /\ Progress /\ PassIsEarned /\ LeftoversExplained

LEMMA SmokeInitInv == SmokeInit => SmokeInv
BY DEF SmokeInit, SmokeInv, Results, Progress, PassIsEarned, LeftoversExplained, BeforeStop, InTry

-----------------------------------------------------------------------------
\* An exception in the try block leads to the finally clause with its result.
LEMMA FailInv ==
  ASSUME SmokeInv, at \in InTry, NEW how, how \notin {"none", "passed", "killed"}, Fail(how)
  PROVE  SmokeInv'
BY DEF SmokeInv, Results, Progress, PassIsEarned, LeftoversExplained, Fail, BeforeStop, InTry

\* A step that leaves script and stack where they are.
LEMMA ElsewhereInv ==
  ASSUME SmokeInv, UNCHANGED <<at, result, accepted, stack, stopped, downFailed>>
  PROVE  SmokeInv'
BY DEF SmokeInv, Results, Progress, PassIsEarned, LeftoversExplained

LEMMA NoReplyInv ==
  ASSUME SmokeInv, at \in InTry, NoReply, UNCHANGED <<stack, stopped, downFailed>>
  PROVE  SmokeInv'
<1>1. CASE Fail("failed") \/ Fail("crashed")
  BY <1>1, FailInv
<1>2. CASE Retry
  BY <1>2, ElsewhereInv DEF Retry, MoveTo
<1> QED
  BY <1>1, <1>2 DEF NoReply

\* An accepted report is one the next call of main() takes for granted.
LEMMA AcceptInv ==
  ASSUME SmokeInv, at \in Asks,
         verdict = IF at = "degraded" THEN "degraded" ELSE "healthy",
         Accept(CASE at = "wait_api" -> "verify" [] at = "verify" -> "stop" [] OTHER -> "down"),
         UNCHANGED <<stack, stopped, downFailed>>
  PROVE  SmokeInv'
<1> USE DEF SmokeInv, Results, Progress, PassIsEarned, LeftoversExplained, Accept, BeforeStop,
            InTry, HealthyBefore, DegradedAfter
<1>1. CASE at = "wait_api"
  BY <1>1
<1>2. CASE at = "verify"
  BY <1>2
<1>3. CASE at = "degraded"
  BY <1>3
<1> QED
  BY <1>1, <1>2, <1>3 DEF Asks

LEMMA SmokeStepInv == SmokeInv /\ [SmokeNext]_smokeVars => SmokeInv'
<1> SUFFICES ASSUME SmokeInv, [SmokeNext]_smokeVars PROVE SmokeInv'
  OBVIOUS
<1> USE DEF stackVars
<1>1. CASE Prepare
  <2>1. CASE Fail("failed") /\ at \in {"config", "build"}
    BY <2>1, FailInv DEF BeforeStop, InTry
  <2>2. CASE at \in {"config", "build"} /\ at' \in {"build", "up"} /\ UNCHANGED <<result, accepted>>
    BY <1>1, <2>2 DEF Prepare, SmokeInv, Results, Progress, PassIsEarned, LeftoversExplained,
       BeforeStop, InTry
  <2> QED
    BY <1>1, <2>1, <2>2 DEF Prepare, MoveTo
<1>2. CASE Up
  <2>1. at = "up" /\ UNCHANGED <<stopped, downFailed, accepted>>
    BY <1>2 DEF Up, MoveTo, UpFails, Fail
  <2>2. \/ at' = "wait_ml" /\ UNCHANGED result
        \/ at' = "down" /\ result' = "failed"
    BY <1>2 DEF Up, MoveTo, UpFails, Fail
  <2> QED
    BY <2>1, <2>2 DEF SmokeInv, Results, Progress, PassIsEarned, LeftoversExplained, BeforeStop, InTry
<1>3. CASE StopMl
  <2>1. CASE StopFails /\ UNCHANGED stopped
    BY <1>3, <2>1, FailInv DEF StopMl, StopFails, BeforeStop, InTry
  <2>2. CASE MoveTo("degraded", DegradedTimeout) /\ stopped' = TRUE
    BY <1>3, <2>2 DEF StopMl, MoveTo, SmokeInv, Results, Progress, PassIsEarned, LeftoversExplained,
       BeforeStop, InTry
  <2> QED
    BY <1>3, <2>1, <2>2 DEF StopMl
<1>4. CASE Down
  <2>1. /\ at = "down" /\ at' = "exit" /\ UNCHANGED <<accepted, stopped>>
        /\ result' = IF result = "none" THEN "passed" ELSE result
        /\ stack' = "none" \/ downFailed' = TRUE
    BY <1>4 DEF Down
  <2> QED
    BY <2>1 DEF SmokeInv, Results, Progress, PassIsEarned, LeftoversExplained, BeforeStop, InTry,
       HealthyBefore, DegradedAfter
<1>5. CASE AskMl
  <2>1. CASE MoveTo("wait_api", deadline)
    BY <1>5, <2>1 DEF AskMl, MoveTo, SmokeInv, Results, Progress, PassIsEarned, LeftoversExplained,
       BeforeStop, InTry
  <2>2. CASE NoReply
    BY <1>5, <2>2, NoReplyInv DEF AskMl, BeforeStop, InTry
  <2> QED
    BY <1>5, <2>1, <2>2 DEF AskMl
<1>6. CASE AskApi \/ Judged \/ ApiTurns \/ MlTurns \/ Second
  BY <1>6, ElsewhereInv DEF AskApi, Judged, ApiTurns, MlTurns, Second, scriptVars
<1>7. CASE Unanswered
  BY <1>7, NoReplyInv DEF Unanswered, Asks, BeforeStop, InTry
<1>8. CASE Answered
  <2>1. at \in Asks /\ at \in InTry
    BY <1>8 DEF Answered, Asks, BeforeStop, InTry
  <2>2. CASE Fail("failed")
    BY <1>8, <2>1, <2>2, FailInv DEF Answered
  <2>3. CASE Retry
    BY <1>8, <2>3, ElsewhereInv DEF Answered, Retry, MoveTo
  <2> QED
    BY <1>8, <2>1, <2>2, <2>3, AcceptInv DEF Answered
<1>9. CASE GiveUp
  BY <1>9, FailInv DEF GiveUp, Waits, BeforeStop, InTry
<1>10. CASE Terminated
  BY <1>10 DEF Terminated, SmokeInv, Results, Progress, PassIsEarned, LeftoversExplained, BeforeStop, InTry
<1>11. CASE UNCHANGED smokeVars
  BY <1>11, ElsewhereInv DEF smokeVars, scriptVars
<1> QED
  BY <1>1, <1>2, <1>3, <1>4, <1>5, <1>6, <1>7, <1>8, <1>9, <1>10, <1>11 DEF SmokeNext, Script

LEMMA SmokeInvariant == SmokeSpec => []SmokeInv
BY SmokeInitInv, SmokeStepInv, PTL DEF SmokeSpec

-----------------------------------------------------------------------------
(* The script passes only on a healthy report before it stopped the ML      *)
(* service and a degraded one after: crashes of either container at any     *)
(* moment, however timed, do not make up for one of them.                   *)
THEOREM PassMeansBothReports == SmokeSpec => []PassIsEarned
<1>1. SmokeInv => PassIsEarned
  BY DEF SmokeInv
<1> QED
  BY <1>1, SmokeInvariant, PTL

(* The finally clause covers every way out of the try block: containers are *)
(* left behind only by a kill of the script or a clean-up that failed.      *)
THEOREM CleanUpCoversFailures == SmokeSpec => []LeftoversExplained
<1>1. SmokeInv => LeftoversExplained
  BY DEF SmokeInv
<1> QED
  BY <1>1, SmokeInvariant, PTL
=============================================================================
