--------------------------- MODULE LifecycleProofs ---------------------------
(***************************************************************************)
(* Proofs about the safety of start-up and shutdown, for every set of      *)
(* requests.  That a signal ends the process is a liveness property and is *)
(* left to the model checker.                                              *)
(***************************************************************************)
EXTENDS Lifecycle, TLAPS

LEMMA InitType == Init => LifecycleTypeOK
BY DEF Init, LifecycleTypeOK, MainSteps

(* However the process ends, the state it leaves is well typed.            *)
LEMMA EndType ==
  ASSUME LifecycleTypeOK, NEW how \in {"clean", "fatal", "killed"}, End(how)
  PROVE  /\ main' \in MainSteps /\ exit' \in {"running", "clean", "fatal", "killed"}
         /\ listener' \in {"none", "bound", "closed"}
         /\ request' \in [Requests -> {"new", "active", "answered", "cut"}]
BY DEF LifecycleTypeOK, End, MainSteps

LEMMA MainType ==
  ASSUME LifecycleTypeOK, MainNext
  PROVE  LifecycleTypeOK'
<1> USE DEF LifecycleTypeOK, MainGoes, MainSteps
<1>1. CASE LoadConfig \/ NewCache \/ NewProxy
  BY <1>1 DEF LoadConfig, NewCache, NewProxy
<1>2. CASE SpawnWaiter
  BY <1>2 DEF SpawnWaiter
<1>3. CASE CheckFlag \/ Bind \/ TrackListener \/ ServeReturns
  BY <1>3 DEF CheckFlag, Bind, TrackListener, ServeReturns
<1>4. CASE MainReturns
  BY <1>4, EndType DEF MainReturns
<1> QED
  BY <1>1, <1>2, <1>3, <1>4 DEF MainNext

LEMMA MainFailsType ==
  ASSUME LifecycleTypeOK, MainFails
  PROVE  LifecycleTypeOK'
<1>1. End("fatal") /\ UNCHANGED <<waiter, sigCh, signalled, inShutdown>>
  BY DEF MainFails, StartupFails, BindFails, AcceptFails, ErrorExit
<1> QED
  BY <1>1, EndType DEF LifecycleTypeOK

LEMMA WaiterType ==
  ASSUME LifecycleTypeOK, WaiterNext
  PROVE  LifecycleTypeOK'
BY DEF LifecycleTypeOK, WaiterNext, WaiterGoes, Notify, ReceiveSignal, SetFlag,
       CloseListener, Drained, Forced

LEMMA SignalType ==
  ASSUME LifecycleTypeOK, Signal
  PROVE  LifecycleTypeOK'
<1>1. CASE Registered
  BY <1>1 DEF LifecycleTypeOK, Signal, Buffered
<1>2. CASE ~Registered
  BY <1>2, EndType DEF LifecycleTypeOK, Signal
<1> QED
  BY <1>1, <1>2

LEMMA RequestType ==
  ASSUME LifecycleTypeOK, NEW r \in Requests, Accept(r) \/ Finish(r)
  PROVE  LifecycleTypeOK'
BY DEF LifecycleTypeOK, Accept, Finish

LEMMA TypeStep == LifecycleTypeOK /\ [Next]_vars => LifecycleTypeOK'
<1> SUFFICES ASSUME LifecycleTypeOK, [Next]_vars
             PROVE  LifecycleTypeOK'
  OBVIOUS
<1>1. CASE UNCHANGED vars
  BY <1>1 DEF LifecycleTypeOK, vars
<1> QED
  BY <1>1, MainType, MainFailsType, WaiterType, SignalType, RequestType DEF Next

(* The types of the process's state hold throughout.                       *)
THEOREM LifecycleTypeCorrect == Spec => []LifecycleTypeOK
BY InitType, TypeStep, PTL DEF Spec

-----------------------------------------------------------------------------
(* What the two goroutines know of each other.                             *)

Past == {"shutdown", "close", "drain", "drained", "forced"}
PastFlag == {"close", "drain", "drained", "forced"}
PastListener == {"drain", "drained", "forced"}

(* The flag is only set on a signal.                                       *)
FlagWasAsked ==
  /\ sigCh \/ inShutdown \/ waiter \in Past => signalled
  /\ waiter \in PastFlag => inShutdown

(* The main goroutine leaves the server only when the flag is set, and has *)
(* a listener of its own as long as nothing closed it.                     *)
ServesUntilFlag ==
  /\ main = "return" => inShutdown
  /\ main = "track" => listener = "bound"
  /\ main = "serve" /\ listener # "bound" => inShutdown

(* The signal goroutine comes before the server, and once it is past the   *)
(* listener the server has none.                                           *)
NoLateListener ==
  /\ main \in {"check", "bind", "track", "serve", "return"} => waiter # "none"
  /\ main = "serve" /\ waiter \in PastListener => listener # "bound"

LifecycleInv ==
  LifecycleTypeOK /\ FlagWasAsked /\ ServesUntilFlag /\ NoLateListener /\ CleanExitWasAsked

(* The process ends: nothing of the invariant but CleanExitWasAsked still  *)
(* says anything.                                                          *)
LEMMA EndKeeps ==
  ASSUME LifecycleInv, NEW how \in {"clean", "fatal", "killed"}, End(how),
         UNCHANGED <<waiter, inShutdown>>, sigCh' = sigCh, signalled => signalled',
         how = "clean" => inShutdown
  PROVE  FlagWasAsked' /\ ServesUntilFlag' /\ NoLateListener' /\ CleanExitWasAsked'
BY DEF LifecycleInv, FlagWasAsked, ServesUntilFlag, NoLateListener,
       CleanExitWasAsked, End, Past, PastFlag, PastListener, LifecycleTypeOK

LEMMA MainKeeps ==
  ASSUME LifecycleInv, MainNext
  PROVE  FlagWasAsked' /\ ServesUntilFlag' /\ NoLateListener' /\ CleanExitWasAsked'
<1> USE DEF LifecycleInv, LifecycleTypeOK, FlagWasAsked, ServesUntilFlag, NoLateListener,
            CleanExitWasAsked, MainGoes, Running, Past, PastFlag, PastListener
<1>1. CASE LoadConfig \/ NewCache \/ NewProxy
  BY <1>1 DEF LoadConfig, NewCache, NewProxy
<1>2. CASE SpawnWaiter
  BY <1>2 DEF SpawnWaiter
<1>3. CASE CheckFlag \/ Bind
  BY <1>3 DEF CheckFlag, Bind, Closed
<1>4. CASE TrackListener
  BY <1>4 DEF TrackListener, Closed
<1>5. CASE ServeReturns
  BY <1>5 DEF ServeReturns
<1>6. CASE MainReturns
  <2>1. End("clean") /\ inShutdown /\ UNCHANGED <<waiter, sigCh, signalled, inShutdown>>
    BY <1>6 DEF MainReturns
  <2> QED
    BY <2>1, EndKeeps
<1> QED
  BY <1>1, <1>2, <1>3, <1>4, <1>5, <1>6 DEF MainNext

LEMMA WaiterKeeps ==
  ASSUME LifecycleInv, WaiterNext
  PROVE  FlagWasAsked' /\ ServesUntilFlag' /\ NoLateListener' /\ CleanExitWasAsked'
<1> USE DEF LifecycleInv, LifecycleTypeOK, FlagWasAsked, ServesUntilFlag, NoLateListener,
            CleanExitWasAsked, WaiterGoes, Running, Past, PastFlag, PastListener
<1>1. CASE Notify \/ ReceiveSignal \/ SetFlag
  BY <1>1 DEF Notify, ReceiveSignal, SetFlag
<1>2. CASE CloseListener
  BY <1>2 DEF CloseListener
<1>3. CASE Drained \/ Forced
  BY <1>3 DEF Drained, Forced
<1> QED
  BY <1>1, <1>2, <1>3 DEF WaiterNext

LEMMA KeepsStep == LifecycleInv /\ [Next]_vars => LifecycleInv'
<1> SUFFICES ASSUME LifecycleInv, [Next]_vars
             PROVE  FlagWasAsked' /\ ServesUntilFlag' /\ NoLateListener' /\ CleanExitWasAsked'
  BY TypeStep DEF LifecycleInv
<1>1. CASE MainFails
  <2>1. End("fatal") /\ UNCHANGED <<waiter, sigCh, signalled, inShutdown>>
    BY <1>1 DEF MainFails, StartupFails, BindFails, AcceptFails, ErrorExit
  <2> QED
    BY <2>1, EndKeeps
<1>2. CASE Signal /\ Registered
  BY <1>2 DEF LifecycleInv, FlagWasAsked, ServesUntilFlag, NoLateListener,
              CleanExitWasAsked, Signal, Past, PastFlag, PastListener
<1>3. CASE Signal /\ ~Registered
  BY <1>3, EndKeeps DEF Signal
<1>4. ASSUME NEW r \in Requests, Accept(r) \/ Finish(r)
      PROVE  FlagWasAsked' /\ ServesUntilFlag' /\ NoLateListener' /\ CleanExitWasAsked'
  BY <1>4 DEF LifecycleInv, FlagWasAsked, ServesUntilFlag, NoLateListener,
              CleanExitWasAsked, Accept, Finish, Past, PastFlag, PastListener
<1>5. CASE UNCHANGED vars
  BY <1>5 DEF LifecycleInv, FlagWasAsked, ServesUntilFlag, NoLateListener,
              CleanExitWasAsked, vars, Past, PastFlag, PastListener
<1> QED
  BY <1>1, <1>2, <1>3, <1>4, <1>5, MainKeeps, WaiterKeeps DEF Next

LEMMA LifecycleInvariant == Spec => []LifecycleInv
<1>1. Init => LifecycleInv
  BY InitType DEF Init, LifecycleInv, FlagWasAsked, ServesUntilFlag, NoLateListener,
                  CleanExitWasAsked, Past, PastFlag, PastListener
<1> QED
  BY <1>1, KeepsStep, PTL DEF Spec

(* The process ends with status 0 only after a signal and a shutdown, and  *)
(* never with its listener open.                                           *)
THEOREM CleanExitIsAsked == Spec => []CleanExitWasAsked
<1>1. LifecycleInv => CleanExitWasAsked
  BY DEF LifecycleInv
<1> QED
  BY <1>1, LifecycleInvariant, PTL

LEMMA AcceptedWhileServing ==
  ASSUME LifecycleInv, [Next]_vars, NEW r \in Requests,
         request[r] = "new", request'[r] = "active"
  PROVE  waiter \notin {"none", "drain", "drained", "forced"}
<1>1. ASSUME NEW how, End(how)
      PROVE  FALSE
  BY <1>1 DEF End
<1>2. request' # request
  OBVIOUS
<1>3. Accept(r)
  <2>1. ~MainNext
    BY <1>1, <1>2 DEF MainNext, LoadConfig, NewCache, NewProxy, SpawnWaiter, CheckFlag,
                      Bind, TrackListener, ServeReturns, MainReturns
  <2>2. ~MainFails
    BY <1>1 DEF MainFails, StartupFails, BindFails, AcceptFails
  <2>3. ~WaiterNext
    BY <1>2 DEF WaiterNext, Notify, ReceiveSignal, SetFlag, CloseListener, Drained, Forced
  <2>4. ~Signal
    BY <1>1, <1>2 DEF Signal
  <2>5. \A q \in Requests : ~Finish(q)
    BY DEF LifecycleInv, LifecycleTypeOK, Finish
  <2>6. \A q \in Requests : Accept(q) => q = r
    BY DEF LifecycleInv, LifecycleTypeOK, Accept
  <2> QED
    BY <1>2, <2>1, <2>2, <2>3, <2>4, <2>5, <2>6 DEF Next, vars
<1> QED
  BY <1>3 DEF LifecycleInv, NoLateListener, Accept, PastListener

(* No request is accepted once Shutdown is past the closing of the         *)
(* listener, nor before the signal goroutine exists.                       *)
THEOREM AcceptedOnlyWhileServing == Spec => AcceptsOnlyWhileServing
<1>1. LifecycleInv /\ [Next]_vars =>
        [\A r \in Requests :
           request[r] = "new" /\ request'[r] = "active" =>
             waiter \notin {"none", "drain", "drained", "forced"}]_vars
  BY AcceptedWhileServing
<1> QED
  BY <1>1, LifecycleInvariant, PTL DEF Spec, AcceptsOnlyWhileServing

=============================================================================
