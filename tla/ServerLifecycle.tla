--------------------------- MODULE ServerLifecycle ---------------------------
(***************************************************************************)
(* The life of the search API process: run() in cmd/server/main.go, the    *)
(* goroutine it starts, the channel between them, and the parts of         *)
(* net/http's ListenAndServe and Shutdown that decide when each returns.   *)
(*                                                                         *)
(* Timers count down and Tick waits for whoever has a step to take, as in  *)
(* SystemStatus.                                                           *)
(***************************************************************************)
EXTENDS Integers

CONSTANTS
  Conns,            \* slots for client connections, each reused
  ShutdownTimeout,  \* Config.ShutdownTimeout, in ticks
  HeaderTimeout,    \* Config.ReadHeaderTimeout
  NewGrace,         \* age at which Shutdown counts a silent connection idle
  HandlerMax,       \* longest a handler takes, when it ends at all
  HandlersEnd,      \* whether every handler ends
  PollMax           \* longest pause between two polls of Shutdown

ASSUME TimesAreTicks ==
  /\ ShutdownTimeout \in Nat \ {0} /\ HeaderTimeout \in Nat \ {0}
  /\ NewGrace \in Nat /\ HandlerMax \in Nat \ {0} /\ PollMax \in Nat \ {0}
ASSUME HandlersKind == HandlersEnd \in BOOLEAN

VARIABLES
  main,       \* where run() is
  verdict,    \* the error it returned, "ok" for nil
  server,     \* where the ListenAndServe goroutine is
  serverErr,  \* what ListenAndServe returned
  signalled,  \* ctx.Done(): SIGINT or SIGTERM has come
  closing,    \* inShutdown is set and the listener closed
  conn,       \* http.ConnState of each connection
  connLeft,   \* ticks left to a new connection's header or to a handler
  deadline,   \* ticks until shutdownCtx is done
  poll        \* ticks until Shutdown looks at the connections again

mainVars   == <<main, verdict>>
serverVars == <<server, serverErr>>
connVars   == <<conn, connLeft>>
timerVars  == <<deadline, poll>>
vars == <<mainVars, serverVars, signalled, closing, connVars, timerVars>>

-----------------------------------------------------------------------------
Init ==
  /\ main = "select" /\ verdict = "none"
  /\ server = "spawned" /\ serverErr = "none"
  /\ signalled = FALSE /\ closing = FALSE
  /\ conn = [c \in Conns |-> "closed"]
  /\ connLeft = [c \in Conns |-> 0]
  /\ deadline = 0 /\ poll = 0

Running == main # "exit"

Signal ==
  /\ Running /\ ~signalled /\ signalled' = TRUE
  /\ UNCHANGED <<mainVars, serverVars, closing, connVars, timerVars>>

-----------------------------------------------------------------------------
(* ListenAndServe: look whether Shutdown was called, listen, register the  *)
(* listener unless Shutdown was called meanwhile, accept until an error.   *)
Return(err) ==
  /\ server' = "returned" /\ serverErr' = err
  /\ UNCHANGED <<mainVars, signalled, closing, connVars, timerVars>>

Advance(from, to) ==
  /\ Running /\ server = from /\ ~closing /\ server' = to
  /\ UNCHANGED <<mainVars, serverErr, signalled, closing, connVars, timerVars>>

StartListen == Advance("spawned", "binding")

Bind ==
  /\ Running /\ server = "binding" /\ server' = "bound"
  /\ UNCHANGED <<mainVars, serverErr, signalled, closing, connVars, timerVars>>

TrackListener == Advance("bound", "serving")

ServerClosed ==
  /\ Running /\ closing /\ server \in {"spawned", "bound", "serving"}
  /\ Return("closed")

ServerFails ==
  /\ Running
  /\ \/ server = "binding"
     \/ server = "serving" /\ ~closing
  /\ Return("failed")

(* The goroutine's send on serverErrors, which has room for it.            *)
SendError ==
  /\ Running /\ server = "returned" /\ server' = "sent"
  /\ UNCHANGED <<mainVars, serverErr, signalled, closing, connVars, timerVars>>

-----------------------------------------------------------------------------
(* run(): the first select takes the server's error or the signal, either  *)
(* one when both are ready.                                                *)
Exit(result) ==
  /\ main' = "exit" /\ verdict' = result
  /\ UNCHANGED <<serverVars, signalled, closing, connVars, timerVars>>

\* Mutant: a server that stops by itself is taken for one that was stopped.
ServerStopped_Unchecked == main = "select" /\ server = "sent" /\ Exit("ok")

\* Mutant: only the signal is waited for.
ServerStopped_AfterSignal ==
  /\ main = "select" /\ signalled /\ server = "sent"
  /\ Exit(IF serverErr = "closed" THEN "ok" ELSE "listen_error")

ServerStopped ==
  /\ main = "select" /\ server = "sent"
  /\ Exit(IF serverErr = "closed" THEN "ok" ELSE "listen_error")

Close(timeout, pause) ==
  /\ main = "select" /\ signalled
  /\ main' = "drain" /\ closing' = TRUE
  /\ deadline' = timeout /\ poll' = pause
  /\ UNCHANGED <<verdict, serverVars, signalled, connVars>>

\* Mutants: the shutdown context gets the read header timeout; the timeouts
\* add up; the process lets time pass before it shuts down.
BeginShutdown_WrongTimeout == Close(HeaderTimeout, 0)
BeginShutdown_AddedTimeouts == Close(ShutdownTimeout + HeaderTimeout, 0)
BeginShutdown_Pause == Close(ShutdownTimeout, ShutdownTimeout)

(* The signal: start the shutdown deadline, call Shutdown, which closes    *)
(* the listener.                                                           *)
BeginShutdown == Close(ShutdownTimeout, 0)

(* Shutdown, once Serve has returned: close what is idle, or new and       *)
(* silent for too long; nil if nothing else is left.                       *)
CountsIdle(c) ==
  conn[c] = "idle" \/ (conn[c] = "new" /\ HeaderTimeout - connLeft[c] >= NewGrace)

Quiescent == \A c \in Conns : conn[c] = "closed" \/ CountsIdle(c)

Poll ==
  /\ main = "drain" /\ server # "serving" /\ poll = 0
  /\ conn' = [c \in Conns |-> IF CountsIdle(c) THEN "closed" ELSE conn[c]]
  /\ \/ Quiescent /\ main' = "await" /\ UNCHANGED poll
     \/ ~Quiescent /\ poll' \in 1..PollMax /\ UNCHANGED main
  /\ UNCHANGED <<verdict, serverVars, signalled, closing, connLeft, deadline>>

\* Mutant: Shutdown's error is dropped.
DrainDeadline_Ignored == main = "drain" /\ server # "serving" /\ deadline = 0 /\ Exit("ok")

\* Mutant: Shutdown gets a context without a deadline.
DrainDeadline_Background == main = "drain" /\ deadline < 0 /\ Exit("shutdown_error")

(* ... or the context's error when its deadline comes first.               *)
DrainDeadline ==
  /\ main = "drain" /\ server # "serving" /\ deadline = 0
  /\ Exit("shutdown_error")

\* Mutant: the error of a server that stopped before the shutdown is dropped.
ServerExited_Unchecked == main = "await" /\ server = "sent" /\ Exit("ok")

(* The second select.                                                      *)
ServerExited ==
  /\ main = "await" /\ server = "sent"
  /\ Exit(IF serverErr = "closed" THEN "ok" ELSE "exit_error")

ExitDeadline ==
  /\ main = "await" /\ deadline = 0
  /\ Exit("deadline_error")

-----------------------------------------------------------------------------
(* Connections: http.ConnState, and what ends each state.                  *)
Become(c, state, time) ==
  /\ conn' = [conn EXCEPT ![c] = state]
  /\ connLeft' = [connLeft EXCEPT ![c] = time]
  /\ UNCHANGED <<mainVars, serverVars, signalled, closing, timerVars>>

Accept(c) ==
  /\ Running /\ server = "serving" /\ ~closing /\ conn[c] = "closed"
  /\ Become(c, "new", HeaderTimeout)

(* A request header is read: first or later request of the connection.     *)
StartHandler(c) ==
  /\ Running /\ conn[c] \in {"new", "idle"}
  /\ Become(c, "active", HandlerMax)

(* The handler returns; keep-alives are off once Shutdown was called.      *)
FinishHandler(c) ==
  /\ Running /\ conn[c] = "active"
  /\ \E next \in IF closing THEN {"closed"} ELSE {"closed", "idle"} : Become(c, next, 0)

(* The header timeout, the idle timeout or the client ends a connection    *)
(* no handler runs on.                                                     *)
Hangup(c) ==
  /\ Running /\ conn[c] \in {"new", "idle"}
  /\ Become(c, "closed", 0)

-----------------------------------------------------------------------------
Expired(c) == connLeft[c] = 0 /\ (conn[c] = "new" \/ (conn[c] = "active" /\ HandlersEnd))

Urgent ==
  \/ server \in {"spawned", "binding", "bound", "returned"}
  \/ closing /\ server = "serving"
  \/ main = "select" /\ (server = "sent" \/ signalled)
  \/ main = "drain" /\ (poll = 0 \/ deadline = 0)
  \/ main = "await" /\ (server = "sent" \/ deadline = 0)
  \/ \E c \in Conns : Expired(c)

Less(n) == IF n > 0 THEN n - 1 ELSE 0

Tick ==
  /\ Running /\ ~Urgent
  /\ connLeft' = [c \in Conns |-> Less(connLeft[c])]
  /\ deadline' = Less(deadline)
  /\ poll' = Less(poll)
  /\ UNCHANGED <<mainVars, serverVars, signalled, closing, conn>>

Server == StartListen \/ Bind \/ TrackListener \/ ServerClosed \/ ServerFails \/ SendError

Main == ServerStopped \/ BeginShutdown \/ Poll \/ DrainDeadline \/ ServerExited \/ ExitDeadline

Connection(c) == Accept(c) \/ StartHandler(c) \/ FinishHandler(c) \/ Hangup(c)

Next == Signal \/ Server \/ Main \/ (\E c \in Conns : Connection(c)) \/ Tick

(* Goroutines with a step to take run, time passes, connections end when   *)
(* their timers do, and handlers too if HandlersEnd. Nothing obliges the   *)
(* signal to come, a listener to fail or a client to connect.              *)
Fairness ==
  /\ WF_vars(StartListen \/ Bind \/ TrackListener \/ ServerClosed \/ SendError)
  /\ WF_vars(Main)
  /\ SF_vars(Tick)
  /\ \A c \in Conns : WF_vars(Expired(c) /\ (FinishHandler(c) \/ Hangup(c)))

Safety == Init /\ [][Next]_vars
Spec == Safety /\ Fairness

-----------------------------------------------------------------------------
TypeOK ==
  /\ main \in {"select", "drain", "await", "exit"}
  /\ verdict \in {"none", "ok", "listen_error", "shutdown_error", "exit_error", "deadline_error"}
  /\ server \in {"spawned", "binding", "bound", "serving", "returned", "sent"}
  /\ serverErr \in {"none", "closed", "failed"}
  /\ signalled \in BOOLEAN /\ closing \in BOOLEAN
  /\ conn \in [Conns -> {"closed", "new", "active", "idle"}]
  /\ connLeft \in [Conns -> Nat]
  /\ deadline \in 0..ShutdownTimeout
  /\ poll \in 0..PollMax

Exited(results) == main = "exit" /\ verdict \in results

(* When run() returns nil no request is being handled, so the process exit  *)
(* that follows cuts no response short, whatever raced with the shutdown.   *)
CleanExitCutsNobody == Exited({"ok"}) => \A c \in Conns : conn[c] # "active"

(* A listen or accept failure is never swallowed: not when the signal is    *)
(* ready in the same select, not when it strikes while Shutdown runs.       *)
ServerFailureReported == main = "exit" /\ serverErr = "failed" => verdict # "ok"

(* The process does not stop by itself and call it success: without a       *)
(* signal the only way out is a listen error.                               *)
NoSilentExit == main = "exit" /\ ~signalled => verdict = "listen_error"

(* With a shutdown timeout above header timeout, handler and poll pause put *)
(* together, run() misses no deadline: a signal and a server that did not   *)
(* fail give exit status 0.                                                 *)
Sized == HandlersEnd /\ HeaderTimeout + HandlerMax + PollMax < ShutdownTimeout
SizedShutdownIsClean == Sized => ~Exited({"shutdown_error", "deadline_error"})

(* Once signalled the process ends, even when handlers hang or the listener *)
(* was never opened.                                                        *)
StopsWhenTold == signalled ~> main = "exit"

(* A server that fails ends the process too.                                *)
FailureStops == serverErr = "failed" ~> main = "exit"
=============================================================================
