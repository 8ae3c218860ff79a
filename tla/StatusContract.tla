--------------------------- MODULE StatusContract ---------------------------
(***************************************************************************)
(* What GET /v1/system/status promises for one client slot: a question is  *)
(* judged within Bound ticks whatever the ML service does, the judgement   *)
(* is answered, and it is "healthy" only if the service was up at some     *)
(* moment between question and judgement.                                  *)
(***************************************************************************)
EXTENDS Naturals

CONSTANT Bound   \* ticks a question may stay open

VARIABLES
  service,   \* the ML service: "up" or "down"
  stage,     \* "closed", "open" (being probed) or "judged"
  age,       \* ticks the question has been open
  seen,      \* service states that held while it was open
  verdict    \* "none", "healthy" or "degraded"

vars == <<service, stage, age, seen, verdict>>

Init ==
  /\ service \in {"up", "down"}
  /\ stage = "closed" /\ age = 0 /\ seen = {} /\ verdict = "none"

Ask ==
  /\ stage = "closed" /\ stage' = "open"
  /\ age' = 0 /\ seen' = {service} /\ verdict' = "none"
  /\ UNCHANGED service

Judge ==
  /\ stage = "open" /\ stage' = "judged"
  /\ verdict' \in IF "up" \in seen THEN {"healthy", "degraded"} ELSE {"degraded"}
  /\ age' = 0 /\ seen' = {}
  /\ UNCHANGED service

Answer ==
  /\ stage = "judged" /\ stage' = "closed"
  /\ UNCHANGED <<service, age, seen, verdict>>

Change ==
  /\ service' \in {"up", "down"} \ {service}
  /\ seen' = IF stage = "open" THEN seen \cup {service'} ELSE seen
  /\ UNCHANGED <<stage, age, verdict>>

Tick ==
  /\ stage = "open" /\ age < Bound
  /\ age' = age + 1
  /\ UNCHANGED <<service, stage, seen, verdict>>

Next == Ask \/ Judge \/ Answer \/ Change \/ Tick

Safety == Init /\ [][Next]_vars
Fairness == WF_vars(Judge) /\ WF_vars(Answer)
Spec == Safety /\ Fairness
=============================================================================
