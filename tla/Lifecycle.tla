----------------------------- MODULE Lifecycle -----------------------------
(***************************************************************************)
(* The life of the process: cmd/gateway/main.go.                           *)
(*                                                                         *)
(* Three parties: the main goroutine, which starts the components and then *)
(* sits in ListenAndServe; the goroutine it spawns to wait for a signal    *)
(* and call server.Shutdown; and the http.Server between them, of which    *)
(* the model has what main.go relies on: Shutdown sets a flag and closes   *)
(* the listener, ListenAndServe checks the flag before it listens and      *)
(* before it serves and returns ErrServerClosed at once, and only Shutdown *)
(* waits for the requests in flight.                                       *)
(***************************************************************************)
EXTENDS Naturals

CONSTANTS Requests   \* requests that clients may make

VARIABLES
  main,        \* where the main goroutine is
  waiter,      \* where the signal goroutine is
  sigCh,       \* the buffered signal channel holds a signal
  signalled,   \* history: SIGINT or SIGTERM was sent
  inShutdown,  \* http.Server.inShutdown
  listener,    \* the listening socket
  request,     \* what became of each request
  exit         \* how the process ended, or "running"

vars == <<main, waiter, sigCh, signalled, inShutdown, listener, request, exit>>

MainSteps == {"config", "cache", "proxy", "spawn", "check", "bind", "track",
              "serve", "return", "ended"}

LifecycleTypeOK ==
  /\ main \in MainSteps
  /\ waiter \in {"none", "spawned", "waiting", "shutdown", "close", "drain",
                 "drained", "forced"}
  /\ sigCh \in BOOLEAN
  /\ signalled \in BOOLEAN
  /\ inShutdown \in BOOLEAN
  /\ listener \in {"none", "bound", "closed"}
  /\ request \in [Requests -> {"new", "active", "answered", "cut"}]
  /\ exit \in {"running", "clean", "fatal", "killed"}

Init ==
  /\ main = "config"
  /\ waiter = "none"
  /\ sigCh = FALSE
  /\ signalled = FALSE
  /\ inShutdown = FALSE
  /\ listener = "none"
  /\ request = [r \in Requests |-> "new"]
  /\ exit = "running"

Running == exit = "running"

(* The end of the process takes every goroutine with it. *)
End(how) ==
  /\ exit' = how
  /\ main' = "ended"
  /\ request' = [r \in Requests |-> IF request[r] = "active" THEN "cut" ELSE request[r]]
  /\ listener' = IF listener = "bound" THEN "closed" ELSE listener

MainGoes(from, to) == Running /\ main = from /\ main' = to

-----------------------------------------------------------------------------
(* Mutants of the definitions that follow, one plausible bug each. *)

MutClosed == FALSE
MutErrorExit == "clean"
MutUnnamedExit == "error"
MutBuffered == FALSE

-----------------------------------------------------------------------------
(* The main goroutine. *)

(* Fatalf ends the process with status 1. *)
ErrorExit == "fatal"

(* config.Load, cache.New, proxy.New: each goes on or ends in Fatalf. *)
LoadConfig ==
  /\ MainGoes("config", "cache")
  /\ UNCHANGED <<waiter, sigCh, signalled, inShutdown, listener, request, exit>>

NewCache ==
  /\ MainGoes("cache", "proxy")
  /\ UNCHANGED <<waiter, sigCh, signalled, inShutdown, listener, request, exit>>

NewProxy ==
  /\ MainGoes("proxy", "spawn")
  /\ UNCHANGED <<waiter, sigCh, signalled, inShutdown, listener, request, exit>>

StartupFails ==
  /\ Running
  /\ main \in {"config", "cache", "proxy"}
  /\ End(ErrorExit)
  /\ UNCHANGED <<waiter, sigCh, signalled, inShutdown>>

SpawnWaiter ==
  /\ MainGoes("spawn", "check")
  /\ waiter' = "spawned"
  /\ UNCHANGED <<sigCh, signalled, inShutdown, listener, request, exit>>

(* http.Server.shuttingDown, asked before listening and before serving. *)
Closed == inShutdown

(* ListenAndServe: the flag, the socket, the flag again, the accept loop. *)
CheckFlag ==
  /\ MainGoes("check", IF Closed THEN "return" ELSE "bind")
  /\ UNCHANGED <<waiter, sigCh, signalled, inShutdown, listener, request, exit>>

Bind ==
  /\ MainGoes("bind", "track")
  /\ listener' = "bound"
  /\ UNCHANGED <<waiter, sigCh, signalled, inShutdown, request, exit>>

BindFails ==
  /\ Running
  /\ main = "bind"
  /\ End(ErrorExit)
  /\ UNCHANGED <<waiter, sigCh, signalled, inShutdown>>

TrackListener ==
  /\ MainGoes("track", IF Closed THEN "return" ELSE "serve")
  /\ listener' = IF Closed THEN "closed" ELSE listener
  /\ UNCHANGED <<waiter, sigCh, signalled, inShutdown, request, exit>>

Accept(r) ==
  /\ Running
  /\ main = "serve"
  /\ listener = "bound"
  /\ request[r] = "new"
  /\ request' = [request EXCEPT ![r] = "active"]
  /\ UNCHANGED <<main, waiter, sigCh, signalled, inShutdown, listener, exit>>

(* Accept fails for good: Fatalf, unless the server was shut down. *)
AcceptFails ==
  /\ Running
  /\ main = "serve"
  /\ ~inShutdown
  /\ End(ErrorExit)
  /\ UNCHANGED <<waiter, sigCh, signalled, inShutdown>>

ServeReturns ==
  /\ MainGoes("serve", "return")
  /\ listener = "closed"
  /\ UNCHANGED <<waiter, sigCh, signalled, inShutdown, listener, request, exit>>

(* err is ErrServerClosed: main runs its deferred calls and returns. *)
MainReturns ==
  /\ Running
  /\ main = "return"
  /\ End("clean")
  /\ UNCHANGED <<waiter, sigCh, signalled, inShutdown>>

-----------------------------------------------------------------------------
(* The handlers of requests in flight. *)

Finish(r) ==
  /\ Running
  /\ request[r] = "active"
  /\ request' = [request EXCEPT ![r] = "answered"]
  /\ UNCHANGED <<main, waiter, sigCh, signalled, inShutdown, listener, exit>>

-----------------------------------------------------------------------------
(* The signal goroutine. *)

WaiterGoes(from, to) == Running /\ waiter = from /\ waiter' = to

Notify ==
  /\ WaiterGoes("spawned", "waiting")
  /\ UNCHANGED <<main, sigCh, signalled, inShutdown, listener, request, exit>>

ReceiveSignal ==
  /\ WaiterGoes("waiting", "shutdown")
  /\ sigCh
  /\ sigCh' = FALSE
  /\ UNCHANGED <<main, signalled, inShutdown, listener, request, exit>>

(* Shutdown: the flag first, then the listener, then the wait. *)
SetFlag ==
  /\ WaiterGoes("shutdown", "close")
  /\ inShutdown' = TRUE
  /\ UNCHANGED <<main, sigCh, signalled, listener, request, exit>>

(* Only a listener that ListenAndServe has tracked is closed. *)
CloseListener ==
  /\ WaiterGoes("close", "drain")
  /\ listener' = IF listener = "bound" /\ main = "serve" THEN "closed" ELSE listener
  /\ UNCHANGED <<main, sigCh, signalled, inShutdown, request, exit>>

Drained ==
  /\ WaiterGoes("drain", "drained")
  /\ \A r \in Requests : request[r] # "active"
  /\ UNCHANGED <<main, sigCh, signalled, inShutdown, listener, request, exit>>

(* The 15 seconds of the context are over. *)
Forced ==
  /\ WaiterGoes("drain", "forced")
  /\ UNCHANGED <<main, sigCh, signalled, inShutdown, listener, request, exit>>

-----------------------------------------------------------------------------
(* The operating system. *)

Registered == waiter \notin {"none", "spawned"}

(* make(chan os.Signal, 1): a signal waits for the goroutine to take it. *)
Buffered == TRUE

(* A signal fills the channel of one; more of them are dropped.  Before    *)
(* signal.Notify it kills the process.                                     *)
Signal ==
  /\ Running
  /\ signalled' = TRUE
  /\ IF Registered
       THEN /\ sigCh' = Buffered
            /\ UNCHANGED <<main, listener, request, exit>>
       ELSE /\ End("killed")
            /\ UNCHANGED sigCh
  /\ UNCHANGED <<waiter, inShutdown>>

MainNext ==
  \/ LoadConfig \/ NewCache \/ NewProxy \/ SpawnWaiter
  \/ CheckFlag \/ Bind \/ TrackListener \/ ServeReturns \/ MainReturns

MainFails == StartupFails \/ BindFails \/ AcceptFails

WaiterNext ==
  Notify \/ ReceiveSignal \/ SetFlag \/ CloseListener \/ Drained \/ Forced

Next ==
  \/ MainNext \/ MainFails
  \/ WaiterNext
  \/ Signal
  \/ \E r \in Requests : Accept(r) \/ Finish(r)

Spec == Init /\ [][Next]_vars

(* The two goroutines run whenever they are not blocked, and the timer of  *)
(* Shutdown fires; nothing obliges a step of main to fail, a client to     *)
(* connect, a handler to finish or anyone to send a signal.                *)
FairSpec == Spec /\ WF_vars(MainNext) /\ WF_vars(WaiterNext)

-----------------------------------------------------------------------------
(* Properties *)

(* The process leaves with status 0 only because it was told to: a signal  *)
(* arrived, the server was shut down and nothing listens any more.  No     *)
(* order of signal, Notify, Shutdown and ListenAndServe gives a process    *)
(* that returns quietly while it should be serving.  (main.go:123)         *)
CleanExitWasAsked ==
  exit = "clean" => signalled /\ inShutdown /\ listener # "bound"

(* Whenever a signal comes, also between the start of the goroutine, its   *)
(* call of Notify, and the moment the server listens, the process ends:    *)
(* the signal is not lost and no request in flight can hold it.            *)
SignalEndsProcess == signalled ~> exit # "running"

(* Once Shutdown has passed the closing of the listener no request is      *)
(* accepted, even if main had not reached the accept loop by then; and     *)
(* none is accepted before the signal goroutine exists.                    *)
AcceptsOnlyWhileServing ==
  [][\A r \in Requests :
       request[r] = "new" /\ request'[r] = "active" =>
         waiter \notin {"none", "drain", "drained", "forced"}]_vars

(* main.go:102, "Graceful shutdown", and its timeout of 15 seconds: a      *)
(* clean exit cuts no request short unless the timeout had passed.         *)
GracefulShutdown ==
  exit = "clean" /\ waiter # "forced" => \A r \in Requests : request[r] # "cut"

=============================================================================
