----------------------------- MODULE ContainerStop -----------------------------
(***************************************************************************)
(* The search API in its container: "docker compose stop", "down" or an    *)
(* update sends the signal of ServerLifecycle and kills the process when   *)
(* the grace period is over. compose.yaml sets no stop_grace_period, so    *)
(* that it is 10 s, which is what SEARCH_API_SHUTDOWN_TIMEOUT is as well.  *)
(* Both run at once, and the process must come to its own end first.       *)
(***************************************************************************)
EXTENDS ServerLifecycle

CONSTANT Grace   \* ticks from the signal to the kill

ASSUME GraceIsTicks == Grace \in Nat \ {0}

VARIABLES
  grace,   \* ticks left of the grace period
  killed   \* SIGKILL has ended the process

stopVars == <<grace, killed>>

StopInit == Init /\ grace = Grace /\ killed = FALSE

Stop == ~killed /\ Signal /\ UNCHANGED stopVars

Kill ==
  /\ Running /\ signalled /\ grace = 0 /\ ~killed
  /\ killed' = TRUE
  /\ UNCHANGED <<vars, grace>>

Work ==
  /\ ~killed
  /\ Server \/ Main \/ \E c \in Conns : Connection(c)
  /\ UNCHANGED stopVars

\* The grace period runs on every tick after the signal, as the timers of the
\* process do. The kill may come late.
Pass ==
  /\ ~killed /\ Tick
  /\ grace' = IF signalled THEN Less(grace) ELSE grace
  /\ UNCHANGED killed

StopNext == Stop \/ Kill \/ Work \/ Pass

StopSafety == StopInit /\ [][StopNext]_<<vars, stopVars>>

(* The fairness of a process that is left to itself: the liveness of        *)
(* ServerLifecycle is about the behaviours in which the kill does not come. *)
StopSpec == StopSafety /\ Fairness

-----------------------------------------------------------------------------
(* With timeouts sized as the defaults are, and a grace period of at least  *)
(* the shutdown timeout, the kill never comes: every request in progress is *)
(* answered.                                                                *)
SizedIsNotKilled == Sized /\ Grace >= ShutdownTimeout => ~killed

(* A grace period of at least the shutdown timeout leaves the process all   *)
(* of its own time, hung requests or not: it is killed only when the two    *)
(* are equal (as in the Compose file) and run() misses its deadline in the  *)
(* same instant. A longer one never kills: the missed deadline is reported. *)
KillIsLastResort ==
  killed /\ Grace >= ShutdownTimeout => Grace = ShutdownTimeout /\ deadline = 0
=============================================================================
