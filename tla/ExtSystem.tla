------------------------------ MODULE ExtSystem ------------------------------
(***************************************************************************)
(* The daemon, the extension host and its workers together.                 *)
(***************************************************************************)
EXTENDS ExtMain, ExtHostProc, ExtWorker

CONSTANT Prompt   \* assume that a thread that is not hung empties its port
                  \* well within the 1.5 s of destroy's shortest deadline
ASSUME PromptAssumption == Prompt \in BOOLEAN

vars == <<wires, mainVars, hostVars, workerVars>>

Init == WiresInit /\ MainInit /\ HostInit /\ WorkerInit

MainUser ==
  \/ \E s \in Sid : Launch(s) \/ UserEvent(s) \/ UserClose(s) \/ UserReload(s)
  \/ \E a \in Worker \X Ask, value \in {"true", "false"} : UserAnswers(a, value)

MainHears == HearCreated \/ HearRefused \/ HearBusy \/ HearFailed \/ HearFinished \/ HearCall

MainStep == MainHears \/ Hidden \/ HearExit \/ \E s \in Sid : StopDraining(s)

HostFromMain ==
  HostCreate \/ HostEvent \/ HostDestroy("destroy", FALSE) \/ HostDestroy("reload", TRUE)
  \/ HostAnswers

HostFromWorker(w) ==
  HostCreated(w) \/ HostCreateFails(w) \/ HostDestroyed(w) \/ HostBusy(w) \/ HostRelays(w)
  \/ HostDied(w)

WorkerTurn(w) == Start(w) \/ Dispatch(w) \/ Answered(w) \/ Destroyed(w)

Extension(w) ==
  \/ \E kind \in Kinds : CallDesktop(w, kind)
  \/ CallTimesOut(w) \/ HandlerSettles(w) \/ Finishes(w) \/ Fatal(w)
  \/ WorkerCeiling(w)

Deadline(w) ==
  /\ HostDeadline(w)
  /\ Prompt => w \notin up \/ w \in hung \/ (h2w[w] = <<>> /\ w2h[w] = <<>>)

Next ==
  \/ (MainUser \/ MainStep) /\ UNCHANGED <<hostVars, workerVars>>
  \/ (HostFromMain \/ \E w \in Worker : HostFromWorker(w) \/ Deadline(w))
       /\ UNCHANGED <<mainVars, workerVars>>
  \/ \E w \in Worker : (WorkerTurn(w) \/ Extension(w)) /\ UNCHANGED <<mainVars, hostVars>>
  \/ \E w \in Worker : Crash(w) /\ UNCHANGED <<mainVars, hostVars>>
  \/ "hostCrash" \in Faults /\ HostCrash /\ UNCHANGED <<mainVars, workerVars>>

Spec == Init /\ [][Next]_vars

(* Event loops turn and timers fire; the user, the extension and the        *)
(* misfortunes are free.  A hung thread's loop does not turn.               *)
Fairness ==
  /\ WF_vars(MainHears /\ UNCHANGED <<hostVars, workerVars>>)
  /\ WF_vars(Hidden /\ UNCHANGED <<hostVars, workerVars>>)
  /\ WF_vars(HearExit /\ UNCHANGED <<hostVars, workerVars>>)
  /\ \A s \in Sid : WF_vars(StopDraining(s) /\ UNCHANGED <<hostVars, workerVars>>)
  /\ WF_vars(HostFromMain /\ UNCHANGED <<mainVars, workerVars>>)
  /\ \A w \in Worker :
       /\ WF_vars(HostFromWorker(w) /\ UNCHANGED <<mainVars, workerVars>>)
       /\ WF_vars(Deadline(w) /\ UNCHANGED <<mainVars, workerVars>>)
       /\ WF_vars(WorkerTurn(w) /\ UNCHANGED <<mainVars, hostVars>>)

FairSpec == Spec /\ Fairness

----------------------------------------------------------------------------
TypeOK ==
  /\ process \in {"none", "up", "dead"}
  /\ up \subseteq Worker /\ exited \subseteq Worker \ up
  /\ launch \in [Sid -> {"no", "waiting", "ok", "failed"}]
  /\ open \subseteq Sid /\ drain \subseteq Sid /\ hiding \subseteq Sid
  /\ busy \in [Sid -> BOOLEAN]
  /\ alerts \subseteq Worker \X Ask
  /\ human \in [Worker \X Ask -> {"none", "true", "false"}]
  /\ why \in [Sid -> Reasons]
  /\ sent \in [Sid -> 0..MaxEvents] /\ owed \in [Sid -> 0..MaxEvents]
  /\ hSess \in [Sid -> 0..MaxInc] /\ made \in [Sid -> 0..MaxInc]
  /\ hBusy \in [Worker -> BOOLEAN]
  /\ ended \subseteq Worker /\ reloading \subseteq Worker
  /\ creating \in [Worker -> {"no", "main", "reload"}]
  /\ ending \in [Worker -> {"no", "grace", "drain"}]
  /\ phase \in [Worker -> {"warm", "run", "drain", "down"}]
  /\ command \subseteq Worker /\ hung \subseteq Worker
  /\ running \in [Worker -> 0..MaxEvents] /\ ran \in [Worker -> 0..MaxEvents]
  /\ asks \in [Worker -> 0..MaxAsks]
  /\ outcome \in [Worker -> [Ask -> AskOutcomes]]

(* Nothing is under way: every port is empty and nothing is awaited.        *)
Quiet ==
  /\ process # "dead" /\ m2h = <<>> /\ h2m = <<>> /\ exited = {} /\ hiding = {}
  /\ \A w \in Worker : /\ h2w[w] = <<>> /\ w2h[w] = <<>>
                        /\ creating[w] = "no" /\ ending[w] = "no"

(* Main's map of sessions and the host's are kept by messages that cross.   *)
(* Once nothing is under way they hold the same sessions: no slot of the    *)
(* host's ceiling is held by a session main has forgotten, and main shows   *)
(* no session that has no worker.                                           *)
SessionsAgree == Quiet => open = InMap

(* So do the three views of "an action is still running": main's, which     *)
(* decides whether a closed session stays addressable, the host's, which    *)
(* decides how long its worker may take to stop, and the worker's own.      *)
BusyAgrees ==
  Quiet => \A s \in open \cap InMap :
             /\ busy[s] = (running[Thread(s)] > 0)
             /\ hBusy[Thread(s)] = (running[Thread(s)] > 0)

(* A thread that runs belongs to a session of the host or is being stopped: *)
(* create's catch, died and destroy between them lose none.                 *)
NoLeakedThread ==
  \A w \in up : hSess[w[1]] = w[2] \/ ending[w] # "no"

(* A no-view command that finished leaves neither a session nor a slot,     *)
(* whatever hid or closed it while it was finishing.                        *)
FinishedIsStopped ==
  Quiet => \A s \in Sid : why[s] = "finished" => s \notin open \cup InMap

(* An extension is told "yes" only if the user said yes to that very alert: *)
(* closing a session, hiding the panel, draining it, a worker's or the      *)
(* host's death and a late answer never confirm.                            *)
ConfirmedByUser ==
  \A w \in Worker, k \in Ask : outcome[w][k] = "true" => human[<<w, k>>] = "true"

(* Where a thread may report a fatal failure and live on, the host keeps    *)
(* sessions that main has forgotten.  Once nothing is under way, main shows *)
(* none that the host lacks; every slot the host holds has a thread that    *)
(* runs; and one that main has forgotten is behind an error card the user   *)
(* can still see: its thread reported the failure and has no command left,  *)
(* or it is what a Reload put in its place.                                 *)
SlotsAccounted ==
  Quiet =>
    /\ open \subseteq InMap
    /\ \A s \in InMap : Thread(s) \in up
    /\ \A s \in InMap \ open :
         \/ why[s] = "failed" /\ Thread(s) \notin command
         \/ why[s] \in {"failed", "exit"} /\ reloads[s] > 0

(* An action that closes its own session, by hiding the panel or popping to *)
(* the root, is served to its end: busy is reported ahead of the call on    *)
(* the same port, so main drains the session and answers what the handler   *)
(* asks next, until the drain's ceiling.                                    *)
OwnCloseServed ==
  \A w \in Worker, k \in Ask :
    (why[w[1]] = "own" /\ w[1] \notin NoView /\ ran[w] = 1) => outcome[w][k] # "refused"

(* And the host gives it the action's ceiling, not the idle grace.          *)
OwnCloseNotCut ==
  [][\A w \in Worker :
       (/\ why[w[1]] = "own" /\ ran[w] = 1 /\ running[w] = 1
        /\ ending[w] = "no" /\ ending'[w] # "no")
         => ending'[w] = "drain" \/ Cardinality(Draining) >= MaxDraining]_vars

(* An event main forwarded while the session was open reaches its handler,  *)
(* however closely the close follows it: the ports keep the order.          *)
EventsReachHandlers ==
  Quiet => \A s \in Sid :
    why[s] \in {"open", "user", "own", "ceiling"} /\ process = "up" => ran[<<s, 1>>] = owed[s]

(* A session the user closed during its launch still settles that launch,   *)
(* even when the bundle never returns: destroy's deadline disposes of the   *)
(* peer whose CREATE is awaited.                                            *)
LaunchSettles ==
  \A s \in Sid : (launch[s] = "waiting" /\ s \notin open) ~> (launch[s] # "waiting")

(* A session that main has dropped loses its thread, hung or not.           *)
DroppedStops ==
  \A s \in Sid : (launch[s] # "no" /\ s \notin open)
                   ~> (\A i \in 1..MaxInc : <<s, i>> \notin up)

(* A drain ends, also when the worker dies without another word.            *)
DrainEnds == \A s \in Sid : (s \in drain) ~> (s \notin drain)

(* The three views of a session, main's, the host's and its thread's, agree *)
(* once nothing is under way, and no thread runs that none of them knows.   *)
ViewsAgree == SessionsAgree /\ BusyAgrees /\ NoLeakedThread

(* Nothing of a session hangs: not a launch its user gave up, not a thread  *)
(* that main has dropped, not the drain of an action.                       *)
NothingHangs == LaunchSettles /\ DroppedStops /\ DrainEnds
=============================================================================
