-------------------------- MODULE SystemStatusProofs --------------------------
(***************************************************************************)
(* Proofs about SystemStatus for every set of requests, every timeout,     *)
(* pool size and set of answers.                                           *)
(***************************************************************************)
EXTENDS SystemStatus, TLAPS

\* Usable pooled connections and exchanges in progress need a running server.
ServerBehind ==
  /\ live > 0 => ml = "up"
  /\ \A r \in Requests : wire[r] \in {"sent", "headers"} => ml = "up"

\* A call is open exactly while its exchange is, and sees each service state.
OpenCall ==
  \A r \in Requests : /\ Probing(r) <=> wire[r] # "none"
                      /\ Probing(r) => ml \in saw[r]

\* What the server did is on record before the call can end because of it.
FateRecorded ==
  \A r \in Requests :
    /\ wire[r] = "headers" => fate[r] \in Answers
    /\ wire[r] = "cut" => fate[r] = Aborted \/ "down" \in saw[r]
    /\ wire[r] = "reset" /\ conn[r] # "reused" => fate[r] = Aborted \/ "down" \in saw[r]

StatusInv ==
  /\ TypeOK
  /\ ServerBehind
  /\ OpenCall
  /\ FateRecorded
  /\ HealthyIsEarned
  /\ DegradedHasCause
  /\ ResponseOutlivesCall

LEMMA InitInv == Init => StatusInv
BY TimeoutsPositive, PoolBound
DEF Init, StatusInv, TypeOK, ServerBehind, OpenCall, FateRecorded, HealthyIsEarned,
    DegradedHasCause, ResponseOutlivesCall, Probing

\* The types are inductive on their own.
LEMMA TypeStep == TypeOK /\ [Next]_vars => TypeOK'
<1> SUFFICES ASSUME TypeOK, [Next]_vars PROVE TypeOK'
  OBVIOUS
<1> USE TimeoutsPositive, PoolBound, AnswersKnown
<1> USE DEF TypeOK, Probing, NotAnswered, Aborted, Unreachable, Answer
<1>1. ASSUME NEW r \in Requests, Arrive(r) PROVE TypeOK'
  BY <1>1 DEF Arrive, CallBudget, poolVars
<1>2. ASSUME NEW r \in Requests, ReuseLive(r) PROVE TypeOK'
  BY <1>2 DEF ReuseLive
<1>3. ASSUME NEW r \in Requests, ReuseStale(r) PROVE TypeOK'
  BY <1>3 DEF ReuseStale
<1>4. ASSUME NEW r \in Requests, DialFresh(r) PROVE TypeOK'
  BY <1>4 DEF DialFresh, poolVars
<1>5. ASSUME NEW r \in Requests, Refused(r) PROVE TypeOK'
  BY <1>5 DEF Refused, poolVars, EndCall, Classify
<1>6. ASSUME NEW r \in Requests, DialTimeout(r) PROVE TypeOK'
  BY <1>6 DEF DialTimeout, poolVars, EndCall, Classify
<1>7. ASSUME NEW r \in Requests, Serve(r) PROVE TypeOK'
  BY <1>7 DEF Serve, poolVars
<1>8. ASSUME NEW r \in Requests, Abort(r) PROVE TypeOK'
  BY <1>8 DEF Abort, poolVars
<1>9. ASSUME NEW r \in Requests, Receive(r) PROVE TypeOK'
  BY <1>9 DEF Receive, EndCall, Classify, Outcome
<1>10. ASSUME NEW r \in Requests, Retry(r) PROVE TypeOK'
  BY <1>10 DEF Retry, poolVars
<1>11. ASSUME NEW r \in Requests, Broken(r) PROVE TypeOK'
  BY <1>11 DEF Broken, poolVars, EndCall, Classify
<1>12. ASSUME NEW r \in Requests, Timeout(r) PROVE TypeOK'
  BY <1>12 DEF Timeout, poolVars, EndCall, Classify
<1>13. ASSUME NEW r \in Requests, CancelContext(r) PROVE TypeOK'
  BY <1>13 DEF CancelContext, poolVars, callVars
<1>14. ASSUME NEW r \in Requests, Cancelled(r) PROVE TypeOK'
  BY <1>14 DEF Cancelled, poolVars, EndCall, Classify
<1>15. ASSUME NEW r \in Requests, WriteReply(r) PROVE TypeOK'
  BY <1>15 DEF WriteReply, poolVars
<1>16. CASE Crash
  BY <1>16 DEF Crash, Witness, InFlight
<1>17. CASE Restart
  BY <1>17 DEF Restart, Witness, poolVars, callVars
<1>18. CASE IdleClose
  BY <1>18 DEF IdleClose, callVars
<1>19. CASE DropStale
  BY <1>19 DEF DropStale, callVars
<1>20. CASE SpareDial
  BY <1>20 DEF SpareDial, callVars
<1>21. CASE Tick
  BY <1>21 DEF Tick, Urgent, poolVars, callVars
<1>22. CASE UNCHANGED vars
  BY <1>22 DEF vars
<1> QED
  BY <1>1, <1>2, <1>3, <1>4, <1>5, <1>6, <1>7, <1>8, <1>9, <1>10, <1>11,
     <1>12, <1>13, <1>14, <1>15, <1>16, <1>17, <1>18, <1>19, <1>20, <1>21, <1>22
  DEF Next, Handler, Exchange, Service

\* Each part of the invariant is preserved given the others: a call's end is
\* justified by its recorded fate, the record by the server behind the exchange.
LEMMA InvStep == StatusInv /\ [Next]_vars => StatusInv'
<1> SUFFICES ASSUME StatusInv, [Next]_vars PROVE StatusInv'
  OBVIOUS
<1> USE TimeoutsPositive, PoolBound, AnswersKnown
<1>a. TypeOK'
  BY TypeStep DEF StatusInv
<1> USE DEF StatusInv, TypeOK, ServerBehind, OpenCall, FateRecorded, HealthyIsEarned, DegradedHasCause,
       ResponseOutlivesCall, Probing, NotAnswered, Aborted,
           Unreachable, Conforming, Answer
<1>1. ASSUME NEW r \in Requests, Arrive(r) PROVE StatusInv'
  BY <1>1 DEF Arrive, CallBudget, poolVars
<1>2. ASSUME NEW r \in Requests, ReuseLive(r) PROVE StatusInv'
  BY <1>2 DEF ReuseLive
<1>3. ASSUME NEW r \in Requests, ReuseStale(r) PROVE StatusInv'
  BY <1>3 DEF ReuseStale
<1>4. ASSUME NEW r \in Requests, DialFresh(r) PROVE StatusInv'
  BY <1>4 DEF DialFresh, poolVars
<1>5. ASSUME NEW r \in Requests, Refused(r) PROVE StatusInv'
  BY <1>5 DEF Refused, poolVars, EndCall, Classify
<1>6. ASSUME NEW r \in Requests, DialTimeout(r) PROVE StatusInv'
  BY <1>6 DEF DialTimeout, poolVars, EndCall, Classify
<1>7. ASSUME NEW r \in Requests, Serve(r) PROVE StatusInv'
  BY <1>7 DEF Serve, poolVars
<1>8. ASSUME NEW r \in Requests, Abort(r) PROVE StatusInv'
  BY <1>8 DEF Abort, poolVars
<1>9. ASSUME NEW r \in Requests, Receive(r) PROVE StatusInv'
  BY <1>9 DEF Receive, EndCall, Classify, Outcome
<1>10. ASSUME NEW r \in Requests, Retry(r) PROVE StatusInv'
  BY <1>10 DEF Retry, poolVars
<1>11. ASSUME NEW r \in Requests, Broken(r) PROVE StatusInv'
  BY <1>11 DEF Broken, poolVars, EndCall, Classify
<1>12. ASSUME NEW r \in Requests, Timeout(r) PROVE StatusInv'
  BY <1>12 DEF Timeout, poolVars, EndCall, Classify
<1>13. ASSUME NEW r \in Requests, CancelContext(r) PROVE StatusInv'
  BY <1>13 DEF CancelContext, poolVars, callVars
<1>14. ASSUME NEW r \in Requests, Cancelled(r) PROVE StatusInv'
  BY <1>14 DEF Cancelled, poolVars, EndCall, Classify
<1>15. ASSUME NEW r \in Requests, WriteReply(r) PROVE StatusInv'
  BY <1>15 DEF WriteReply, poolVars
<1>16. CASE Crash
  BY <1>16 DEF Crash, Witness, InFlight
<1>17. CASE Restart
  BY <1>17 DEF Restart, Witness, poolVars, callVars
<1>18. CASE IdleClose
  BY <1>18 DEF IdleClose, callVars
<1>19. CASE DropStale
  BY <1>19 DEF DropStale, callVars
<1>20. CASE SpareDial
  BY <1>20 DEF SpareDial, callVars
<1>21. CASE Tick
  <2>1. \A r \in Requests : Probing(r) => left[r] > 0
    BY <1>21 DEF Tick, Urgent
  <2>2. ResponseOutlivesCall'
    <3> SUFFICES ASSUME NEW r \in Requests, pc'[r] \in {"probe", "write"}
                 PROVE  writeLeft'[r] >= left'[r] + (WriteTimeout - MLTimeout)
      BY DEF ResponseOutlivesCall
    <3>1. CASE Probing(r)
      BY <2>1, <3>1, <1>21 DEF Tick, Probing
    <3>2. CASE ~Probing(r)
      BY <3>2, <1>21 DEF Tick, Probing
    <3> QED BY <3>1, <3>2
  <2>3. ServerBehind' /\ OpenCall' /\ FateRecorded' /\ HealthyIsEarned'
    BY <1>21 DEF Tick, poolVars, callVars
  <2>4. DegradedHasCause'
    BY <1>21 DEF Tick, Urgent, poolVars, callVars
  <2> QED BY <1>a, <2>2, <2>3, <2>4
<1>22. CASE UNCHANGED vars
  BY <1>22 DEF vars
<1> QED
  BY <1>1, <1>2, <1>3, <1>4, <1>5, <1>6, <1>7, <1>8, <1>9, <1>10, <1>11,
     <1>12, <1>13, <1>14, <1>15, <1>16, <1>17, <1>18, <1>19, <1>20, <1>21, <1>22
  DEF Next, Handler, Exchange, Service

\* Every step is, for each request, a step of its contract or none.
LEMMA ContractStep == StatusInv /\ [Next]_vars => ContractNext
<1> SUFFICES ASSUME StatusInv, [Next]_vars, NEW q \in Requests
             PROVE  [Contract(q)!Next]_(Contract(q)!vars)
  BY DEF ContractNext
<1> USE TimeoutsPositive
<1> USE DEF StatusInv, TypeOK, OpenCall, Probing, Contract!vars, Contract!Next, Overall
<1>1. ASSUME NEW r \in Requests, Arrive(r) PROVE [Contract(q)!Next]_(Contract(q)!vars)
  BY <1>1 DEF Arrive, CallBudget, poolVars, Contract!Ask
<1>2. ASSUME NEW r \in Requests, ReuseLive(r) PROVE [Contract(q)!Next]_(Contract(q)!vars)
  BY <1>2 DEF ReuseLive
<1>3. ASSUME NEW r \in Requests, ReuseStale(r) PROVE [Contract(q)!Next]_(Contract(q)!vars)
  BY <1>3 DEF ReuseStale
<1>4. ASSUME NEW r \in Requests, DialFresh(r) PROVE [Contract(q)!Next]_(Contract(q)!vars)
  BY <1>4 DEF DialFresh, poolVars
<1>5. ASSUME NEW r \in Requests, Refused(r) PROVE [Contract(q)!Next]_(Contract(q)!vars)
  BY <1>5 DEF Refused, poolVars, EndCall, Classify, Contract!Judge
<1>6. ASSUME NEW r \in Requests, DialTimeout(r) PROVE [Contract(q)!Next]_(Contract(q)!vars)
  BY <1>6 DEF DialTimeout, poolVars, EndCall, Classify, Contract!Judge
<1>7. ASSUME NEW r \in Requests, Serve(r) PROVE [Contract(q)!Next]_(Contract(q)!vars)
  BY <1>7 DEF Serve, poolVars
<1>8. ASSUME NEW r \in Requests, Abort(r) PROVE [Contract(q)!Next]_(Contract(q)!vars)
  BY <1>8 DEF Abort, poolVars
<1>9. ASSUME NEW r \in Requests, Receive(r) PROVE [Contract(q)!Next]_(Contract(q)!vars)
  <2>1. "up" \in saw[r]
    BY <1>9 DEF Receive
  <2> QED
    BY <1>9, <2>1 DEF Receive, EndCall, Classify, Contract!Judge
<1>10. ASSUME NEW r \in Requests, Retry(r) PROVE [Contract(q)!Next]_(Contract(q)!vars)
  BY <1>10 DEF Retry, poolVars
<1>11. ASSUME NEW r \in Requests, Broken(r) PROVE [Contract(q)!Next]_(Contract(q)!vars)
  BY <1>11 DEF Broken, poolVars, EndCall, Classify, Contract!Judge
<1>12. ASSUME NEW r \in Requests, Timeout(r) PROVE [Contract(q)!Next]_(Contract(q)!vars)
  BY <1>12 DEF Timeout, poolVars, EndCall, Classify, Contract!Judge
<1>13. ASSUME NEW r \in Requests, CancelContext(r) PROVE [Contract(q)!Next]_(Contract(q)!vars)
  BY <1>13 DEF CancelContext, poolVars, callVars
<1>14. ASSUME NEW r \in Requests, Cancelled(r) PROVE [Contract(q)!Next]_(Contract(q)!vars)
  BY <1>14 DEF Cancelled, poolVars, EndCall, Classify, Contract!Judge
<1>15. ASSUME NEW r \in Requests, WriteReply(r) PROVE [Contract(q)!Next]_(Contract(q)!vars)
  BY <1>15 DEF WriteReply, poolVars, Contract!Answer
<1>16. CASE Crash
  BY <1>16 DEF Crash, Witness, InFlight, Contract!Change
<1>17. CASE Restart
  BY <1>17 DEF Restart, Witness, poolVars, callVars, Contract!Change
<1>18. CASE IdleClose
  BY <1>18 DEF IdleClose, callVars
<1>19. CASE DropStale
  BY <1>19 DEF DropStale, callVars
<1>20. CASE SpareDial
  BY <1>20 DEF SpareDial, callVars
<1>21. CASE Tick
  BY <1>21 DEF Tick, Urgent, poolVars, callVars, Contract!Tick
<1>22. CASE UNCHANGED vars
  BY <1>22 DEF vars
<1> QED
  BY <1>1, <1>2, <1>3, <1>4, <1>5, <1>6, <1>7, <1>8, <1>9, <1>10, <1>11,
     <1>12, <1>13, <1>14, <1>15, <1>16, <1>17, <1>18, <1>19, <1>20, <1>21, <1>22
  DEF Next, Handler, Exchange, Service

-----------------------------------------------------------------------------
(* Every variable keeps its type, whatever the constants.                   *)
THEOREM TypeCorrect == Safety => []TypeOK
<1>1. Init => TypeOK
  BY InitInv DEF StatusInv
<1> QED
  BY <1>1, TypeStep, PTL DEF Safety

LEMMA Invariant == Safety => []StatusInv
BY InitInv, InvStep, PTL DEF Safety

(* systemStatus reports "healthy" only on the strength of a conforming      *)
(* answer the ML service gave this call while it was up.                    *)
THEOREM HealthyJustified == Safety => []HealthyIsEarned
<1>1. StatusInv => HealthyIsEarned
  BY DEF StatusInv
<1> QED
  BY <1>1, Invariant, PTL

(* Every degraded status classifyDependencyError reports has the cause it   *)
(* names; a stale pooled connection is never one.                           *)
THEOREM DegradedJustified == Safety => []DegradedHasCause
<1>1. StatusInv => DegradedHasCause
  BY DEF StatusInv
<1> QED
  BY <1>1, Invariant, PTL

(* The write deadline of a request stays as far ahead of the deadline of its *)
(* call as the two settings are apart, from Arrive to the reply.             *)
THEOREM DeadlinesKeepDistance == Safety => []ResponseOutlivesCall
<1>1. StatusInv => ResponseOutlivesCall
  BY DEF StatusInv
<1> QED
  BY <1>1, Invariant, PTL

\* With the longer write timeout no reply is written too late.
LEMMA ReplyStep == ASSUME MLTimeout < WriteTimeout
                   PROVE  StatusInv /\ DegradedIsReported /\ [Next]_vars
                            => DegradedIsReported'
<1> SUFFICES ASSUME StatusInv, DegradedIsReported, [Next]_vars,
                    NEW q \in Requests
             PROVE  reply'[q] # "lost"
  BY DEF DegradedIsReported
<1> USE DEF StatusInv, TypeOK, DegradedIsReported
<1>1. ASSUME NEW r \in Requests, WriteReply(r) PROVE reply'[q] # "lost"
  <2>1. writeLeft[r] > 0
    BY <1>1, MLTimeout < WriteTimeout, TimeoutsPositive DEF WriteReply, ResponseOutlivesCall
  <2> QED
    BY <1>1, <2>1 DEF WriteReply
<1>2. ASSUME NEW r \in Requests, Arrive(r) PROVE reply'[q] # "lost"
  BY <1>2 DEF Arrive
<1>3. CASE UNCHANGED reply
  BY <1>3
<1>4. \/ \E r \in Requests : WriteReply(r) \/ Arrive(r)
      \/ UNCHANGED reply
  BY DEF Next, Handler, Exchange, Service, vars, ReuseLive, ReuseStale, DialFresh, Refused,
         DialTimeout, Serve, Abort, Receive, Retry, Broken, Timeout, CancelContext,
         Cancelled, EndCall, Crash, Restart, IdleClose, DropStale, SpareDial, Tick
<1> QED
  BY <1>1, <1>2, <1>3, <1>4

(* A waiting client gets the status document before the write deadline if   *)
(* the write timeout is the longer one, as it is by default.                *)
THEOREM DegradedReported ==
  ASSUME MLTimeout < WriteTimeout
  PROVE  Safety => []DegradedIsReported
<1>1. Init => DegradedIsReported
  BY DEF Init, DegradedIsReported
<1>2. StatusInv /\ DegradedIsReported /\ [Next]_vars => DegradedIsReported'
  BY ReplyStep, MLTimeout < WriteTimeout
<1> QED
  BY <1>1, <1>2, Invariant, PTL DEF Safety

(* The endpoint implements the safety part of its contract for each client. *)
THEOREM ContractKept == Safety => KeepsSafeContract
<1>1. Init => ContractInit
  BY DEF Init, ContractInit, Contract!Init
<1> QED
  BY <1>1, Invariant, ContractStep, PTL DEF Safety, KeepsSafeContract
=============================================================================
