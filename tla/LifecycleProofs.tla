--------------------------- MODULE LifecycleProofs ---------------------------
(***************************************************************************)
(* Proofs about ServerLifecycle and ContainerStop, for any connections,    *)
(* timeouts and grace period: what the process does when it is told to     *)
(* stop, and that the grace period lasts as long as its own deadline and   *)
(* more.                                                                   *)
(***************************************************************************)
EXTENDS ContainerStop, TLAPS

-----------------------------------------------------------------------------
(* ServerLifecycle.                                                        *)

\* The stages of run(), the goroutine and Shutdown fit each other.
Stages ==
  /\ main = "select" => ~closing
  /\ main \in {"drain", "await"} => closing /\ signalled
  /\ main = "exit" <=> verdict # "none"
  /\ serverErr = "none" <=> server \notin {"returned", "sent"}
  /\ serverErr = "closed" => closing

\* Once Shutdown has returned nil nothing is served and nobody connected.
Drained == main = "await" => /\ server # "serving"
                             /\ \A c \in Conns : conn[c] = "closed"

\* A timer never exceeds what it was set to.
TimersBounded ==
  \A c \in Conns : /\ conn[c] = "new" => connLeft[c] <= HeaderTimeout
                   /\ conn[c] = "active" => connLeft[c] <= HandlerMax

\* What each connection can still take fits into what the deadline leaves.
OnTime ==
  Sized =>
    /\ main = "drain" =>
         /\ poll < deadline
         /\ \A c \in Conns :
              /\ conn[c] = "new" => connLeft[c] + HandlerMax + PollMax < deadline
              /\ conn[c] = "active" => connLeft[c] + PollMax < deadline
              /\ conn[c] = "idle" => poll = 0 /\ HandlerMax + PollMax < deadline
    /\ main = "await" => deadline > 0

LifecycleInv ==
  /\ TypeOK
  /\ Stages
  /\ Drained
  /\ TimersBounded
  /\ OnTime
  /\ CleanExitCutsNobody
  /\ ServerFailureReported
  /\ NoSilentExit
  /\ SizedShutdownIsClean

LEMMA InitInv == Init => LifecycleInv
<1> USE TimesAreTicks DEF TimesAreTicks, Init
<1>1. Init => TypeOK
  <2>1. Init => deadline \in 0..ShutdownTimeout /\ poll \in 0..PollMax
    OBVIOUS
  <2>2. Init => signalled \in BOOLEAN /\ closing \in BOOLEAN
    OBVIOUS
  <2> QED
    BY <2>1, <2>2 DEF TypeOK
<1>2. Init => Stages /\ Drained /\ TimersBounded /\ OnTime
  BY DEF Stages, Drained, TimersBounded, OnTime
<1>3. Init => /\ CleanExitCutsNobody /\ ServerFailureReported
              /\ NoSilentExit /\ SizedShutdownIsClean
  BY DEF Exited, CleanExitCutsNobody, ServerFailureReported, NoSilentExit,
         SizedShutdownIsClean
<1> QED
  BY <1>1, <1>2, <1>3 DEF LifecycleInv

LEMMA StepInv == LifecycleInv /\ [Next]_vars => LifecycleInv'
<1> SUFFICES ASSUME LifecycleInv, [Next]_vars PROVE LifecycleInv'
  OBVIOUS
<1> USE TimesAreTicks, HandlersKind DEF TimesAreTicks, HandlersKind
<1> USE DEF LifecycleInv, TypeOK, Stages, Drained, TimersBounded, OnTime, Sized, Exited,
            CleanExitCutsNobody, ServerFailureReported, NoSilentExit, SizedShutdownIsClean,
            Running
<1>1. CASE Signal
  BY <1>1 DEF Signal, mainVars, serverVars, connVars, timerVars
<1>2. CASE StartListen
  BY <1>2 DEF StartListen, Advance, mainVars, serverVars, connVars, timerVars
<1>3. CASE Bind
  BY <1>3 DEF Bind, mainVars, serverVars, connVars, timerVars
<1>4. CASE TrackListener
  BY <1>4 DEF TrackListener, Advance, mainVars, serverVars, connVars, timerVars
<1>5. CASE ServerClosed
  BY <1>5 DEF ServerClosed, Return, mainVars, serverVars, connVars, timerVars
<1>6. CASE ServerFails
  BY <1>6 DEF ServerFails, Return, mainVars, serverVars, connVars, timerVars
<1>7. CASE SendError
  BY <1>7 DEF SendError, mainVars, serverVars, connVars, timerVars
<1>8. CASE ServerStopped
  BY <1>8 DEF ServerStopped, Exit, mainVars, serverVars, connVars, timerVars
<1>9. CASE BeginShutdown
  BY <1>9 DEF BeginShutdown, Close, mainVars, serverVars, connVars, timerVars
<1>10. CASE Poll
  <2> USE <1>10 DEF Poll, serverVars
  <2>1. TypeOK'
    OBVIOUS
  <2>2. Stages' /\ Drained' /\ TimersBounded'
    BY DEF CountsIdle, Quiescent
  <2>3. OnTime'
    BY DEF CountsIdle, Quiescent
  <2>4. /\ CleanExitCutsNobody' /\ ServerFailureReported'
        /\ NoSilentExit' /\ SizedShutdownIsClean'
    OBVIOUS
  <2> QED
    BY <2>1, <2>2, <2>3, <2>4
<1>11. CASE DrainDeadline
  BY <1>11 DEF DrainDeadline, Exit, mainVars, serverVars, connVars, timerVars
<1>12. CASE ServerExited
  BY <1>12 DEF ServerExited, Exit, mainVars, serverVars, connVars, timerVars
<1>13. CASE ExitDeadline
  BY <1>13 DEF ExitDeadline, Exit, mainVars, serverVars, connVars, timerVars
<1>14. ASSUME NEW c \in Conns, Accept(c) PROVE LifecycleInv'
  BY <1>14 DEF Accept, Become, mainVars, serverVars, connVars, timerVars
<1>15. ASSUME NEW c \in Conns, StartHandler(c) PROVE LifecycleInv'
  BY <1>15 DEF StartHandler, Become, mainVars, serverVars, connVars, timerVars
<1>16. ASSUME NEW c \in Conns, FinishHandler(c) PROVE LifecycleInv'
  BY <1>16 DEF FinishHandler, Become, mainVars, serverVars, connVars, timerVars
<1>17. ASSUME NEW c \in Conns, Hangup(c) PROVE LifecycleInv'
  BY <1>17 DEF Hangup, Become, mainVars, serverVars, connVars, timerVars
<1>18. CASE Tick
  BY <1>18 DEF Tick, Urgent, Expired, Less, mainVars, serverVars, connVars, timerVars
<1>19. CASE UNCHANGED vars
  BY <1>19 DEF vars, mainVars, serverVars, connVars, timerVars
<1> QED
  BY <1>1, <1>2, <1>3, <1>4, <1>5, <1>6, <1>7, <1>8, <1>9, <1>10, <1>11,
     <1>12, <1>13, <1>14, <1>15, <1>16, <1>17, <1>18, <1>19
  DEF Next, Server, Main, Connection

-----------------------------------------------------------------------------
LEMMA Invariant == Safety => []LifecycleInv
BY InitInv, StepInv, PTL DEF Safety

(* Every variable keeps its type, whatever the constants.                   *)
THEOREM TypeCorrect == Safety => []TypeOK
<1>1. LifecycleInv => TypeOK
  BY DEF LifecycleInv
<1> QED
  BY <1>1, Invariant, PTL

(* A nil return of run() cuts no request short: the listener was closed and *)
(* every connection with it before Shutdown returned nil.                   *)
THEOREM CleanExit == Safety => []CleanExitCutsNobody
<1>1. LifecycleInv => CleanExitCutsNobody
  BY DEF LifecycleInv
<1> QED
  BY <1>1, Invariant, PTL

(* A server failure reaches run()'s result whenever it strikes.             *)
THEOREM FailureReported == Safety => []ServerFailureReported
<1>1. LifecycleInv => ServerFailureReported
  BY DEF LifecycleInv
<1> QED
  BY <1>1, Invariant, PTL

(* Without a signal nothing but a listen error ends the process.            *)
THEOREM EndsWhenTold == Safety => []NoSilentExit
<1>1. LifecycleInv => NoSilentExit
  BY DEF LifecycleInv
<1> QED
  BY <1>1, Invariant, PTL

(* No deadline passes in a shutdown whose timeout covers header, handler    *)
(* and poll pause, whatever the connections do meanwhile.                   *)
THEOREM SizedShutdown == Safety => []SizedShutdownIsClean
<1>1. LifecycleInv => SizedShutdownIsClean
  BY DEF LifecycleInv
<1> QED
  BY <1>1, Invariant, PTL

-----------------------------------------------------------------------------
(* ContainerStop: the same process, in a container that is stopped.        *)

\* The grace period is untouched until run() has seen the signal, and from then
\* on ahead of the deadline by what the two settings differ.
GraceInv ==
  /\ grace \in 0..Grace /\ killed \in BOOLEAN
  /\ main = "select" => grace = Grace
  /\ main \in {"drain", "await"} /\ Grace >= ShutdownTimeout
       => grace >= deadline + (Grace - ShutdownTimeout)
  /\ ~signalled => grace = Grace
  /\ killed => main # "exit" /\ signalled /\ grace = 0

StopInv == LifecycleInv /\ GraceInv

LEMMA StopInitInv == StopInit => StopInv
<1> SUFFICES ASSUME StopInit PROVE StopInv
  OBVIOUS
<1>1. LifecycleInv
  BY InitInv DEF StopInit
<1>2. main = "select" /\ grace = Grace /\ killed = FALSE
  BY DEF StopInit, Init
<1>3. Grace \in 0..Grace
  BY GraceIsTicks DEF GraceIsTicks
<1> QED
  BY <1>1, <1>2, <1>3 DEF StopInv, GraceInv

LEMMA StopStep == [StopNext]_<<vars, stopVars>> => [Next]_vars
BY DEF StopNext, Stop, Kill, Work, Pass, Next, stopVars

LEMMA StopStepInv == StopInv /\ [StopNext]_<<vars, stopVars>> => StopInv'
<1> SUFFICES ASSUME StopInv, [StopNext]_<<vars, stopVars>> PROVE StopInv'
  OBVIOUS
<1> USE TimesAreTicks, GraceIsTicks DEF TimesAreTicks, GraceIsTicks, StopInv
<1>1. [Next]_vars
  BY StopStep
<1>2. LifecycleInv'
  BY <1>1, StepInv
<1>3. CASE Stop
  BY <1>2, <1>3 DEF Stop, Signal, GraceInv, stopVars, mainVars, timerVars, Running
<1>4. CASE Kill
  BY <1>2, <1>4 DEF Kill, GraceInv, Running, vars, mainVars, timerVars
<1>5. CASE Work
  <2> USE DEF Work, GraceInv, stopVars, LifecycleInv, TypeOK, Stages
  <2>1. CASE Server
    BY <1>2, <1>5, <2>1 DEF Server, StartListen, Advance, Bind, TrackListener, ServerClosed, ServerFails,
       Return, SendError, mainVars, timerVars
  <2>2. CASE Main
    <3>1. CASE BeginShutdown
      BY <1>2, <1>5, <3>1 DEF BeginShutdown, Close
    <3>2. CASE Poll
      BY <1>2, <1>5, <3>2 DEF Poll
    <3>3. CASE ServerStopped \/ DrainDeadline \/ ServerExited \/ ExitDeadline
      BY <1>2, <1>5, <3>3 DEF ServerStopped, DrainDeadline, ServerExited, ExitDeadline, Exit, timerVars
    <3> QED
      BY <2>2, <3>1, <3>2, <3>3 DEF Main
  <2>3. ASSUME NEW c \in Conns, Connection(c) PROVE StopInv'
    <3>1. UNCHANGED <<main, signalled, deadline, grace, killed>>
      BY <1>5, <2>3 DEF Connection, Accept, StartHandler, FinishHandler, Hangup, Become,
         mainVars, timerVars
    <3> QED
      BY <1>2, <3>1
  <2> QED
    BY <1>5, <2>1, <2>2, <2>3
<1>6. CASE Pass
  <2>1. UNCHANGED <<main, signalled, killed>> /\ ~killed /\ (main = "select" => ~signalled)
    BY <1>6 DEF Pass, Tick, Urgent, mainVars
  <2>2. grace' = IF signalled THEN Less(grace) ELSE grace
    BY <1>6 DEF Pass
  <2>3. Less(grace) = IF grace > 0 THEN grace - 1 ELSE 0
    BY DEF Less
  <2>4. main \in {"drain", "await"} => deadline' = deadline - 1 /\ deadline \in Nat \ {0}
    BY <1>6 DEF Pass, Tick, Urgent, Less, LifecycleInv, TypeOK
  <2>5. main \in {"drain", "await"} => signalled
    BY DEF LifecycleInv, Stages
  <2> QED
    BY <1>2, <2>1, <2>2, <2>3, <2>4, <2>5 DEF GraceInv
<1>7. CASE UNCHANGED <<vars, stopVars>>
  BY <1>2, <1>7 DEF GraceInv, vars, stopVars, mainVars, timerVars
<1> QED
  BY <1>3, <1>4, <1>5, <1>6, <1>7 DEF StopNext

LEMMA StopInvariant == StopSafety => []StopInv
BY StopInitInv, StopStepInv, PTL DEF StopSafety

LEMMA LastResort == StopInv => KillIsLastResort
BY TimesAreTicks, GraceIsTicks
DEF StopInv, GraceInv, KillIsLastResort, LifecycleInv, TypeOK, TimesAreTicks, GraceIsTicks

-----------------------------------------------------------------------------
(* A container that is stopped does nothing to the process that its own     *)
(* specification does not allow: whatever holds of ServerLifecycle holds of *)
(* the process in a container, until it is killed and after.                *)
THEOREM StopIsLifecycle == StopSafety => Safety
<1>1. StopInit => Init
  BY DEF StopInit
<1> QED
  BY <1>1, StopStep, PTL DEF StopSafety, Safety

(* A grace period no shorter than the shutdown timeout leaves run() all of  *)
(* its own deadline, whatever the requests do.                              *)
THEOREM DeadlineComesFirst == StopSafety => []KillIsLastResort
BY StopInvariant, LastResort, PTL

(* ... and with the timeouts sized as the defaults are, the process is      *)
(* never killed.                                                            *)
THEOREM SizedStop == StopSafety => []SizedIsNotKilled
<1>1. StopInv => SizedIsNotKilled
  <2> SUFFICES ASSUME StopInv, Sized, Grace >= ShutdownTimeout, killed PROVE FALSE
    BY DEF SizedIsNotKilled
  <2>1. deadline = 0
    BY LastResort DEF KillIsLastResort
  <2>2. main \in {"drain", "await"}
    BY GraceIsTicks DEF StopInv, GraceInv, LifecycleInv, TypeOK, GraceIsTicks
  <2>3. main = "drain" => poll < deadline /\ poll \in Nat
    BY TimesAreTicks DEF StopInv, LifecycleInv, OnTime, TypeOK, TimesAreTicks
  <2>4. main = "await" => deadline > 0
    BY DEF StopInv, LifecycleInv, OnTime
  <2> QED
    BY <2>1, <2>2, <2>3, <2>4
<1> QED
  BY <1>1, StopInvariant, PTL
=============================================================================
