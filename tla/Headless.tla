------------------------------ MODULE Headless ------------------------------
(***************************************************************************)
(* Plugin commands run with no window (src/main/daemon.ts: enumerate and    *)
(* bound actions; action-drain.ts, headless-alert.ts).  Each session here   *)
(* is one request.  It is launched, polled until its list is drawn, read or *)
(* made to run one action, and closed: at once after a read, and after an   *)
(* action when it ended, or said nothing by a floor, or was still running   *)
(* at a ceiling.  What hides the panel closes these sessions too.  Time is  *)
(* in ticks, each longer than a message takes to arrive.                    *)
(***************************************************************************)
EXTENDS Naturals, Sequences

CONSTANTS
  Sid,        \* headless sessions
  Deadline,   \* ENUMERATE_TIMEOUT_MS, in ticks
  Floor,      \* ACTION_GRACE_MS
  Ceiling,    \* ACTION_DRAIN_CEILING_MS
  MaxAsks     \* bound: alerts one command raises

VARIABLES
  acts,     \* which requests are bound actions, not reads of rows
  stage,    \* withHeadlessList: "no", "launching", "polling", "releasing", "done"
  answer,   \* what its caller was told: "none", "ok", "error"
  label,    \* keys of headlessSessions
  open,     \* the host object's sessions
  drain,    \* its draining map
  busy,     \* LiveSession.busy, as last heard
  clock,    \* ticks since the poll or the wait for release began
  age,      \* ticks since the drain began
  plug,     \* the worker: "off", "up", "gone"
  run,      \* the action's handler: "no", "sent", "running", "over"
  drawn,    \* the list as main has it: "none", "with" or "without" the action
  stop,     \* DESTROY is on its way
  wire,     \* what the worker sent, not heard yet
  page,     \* alerts the panel's page was given
  asks,     \* alerts raised so far
  said,     \* who has drawn its list, who has ended itself: each once
  told,     \* history: main heard that the handler runs
  late      \* history: a ceiling ended what was still running

mainVars == <<stage, answer, label, open, drain, busy, clock, age, drawn, page, told, late>>
workerVars == <<plug, run, stop, wire, asks, said>>
vars == <<acts, mainVars, workerVars>>

Init ==
  /\ acts \in SUBSET Sid
  /\ stage = [s \in Sid |-> "no"] /\ answer = [s \in Sid |-> "none"]
  /\ label = {} /\ open = {} /\ drain = {} /\ page = {} /\ told = {} /\ late = {}
  /\ busy = [s \in Sid |-> FALSE]
  /\ clock = [s \in Sid |-> 0] /\ age = [s \in Sid |-> 0]
  /\ plug = [s \in Sid |-> "off"] /\ run = [s \in Sid |-> "no"]
  /\ drawn = [s \in Sid |-> "none"] /\ stop = {}
  /\ wire = [s \in Sid |-> <<>>]
  /\ asks = [s \in Sid |-> 0] /\ said = {}

Addressable == open \cup drain

(* A fault: a busy session that is closed is not kept.                      *)
CloseForgets(S) ==
  /\ open' = open \ S /\ UNCHANGED <<drain, age>>
  /\ stop' = stop \cup (S \cap open)
  /\ page' = page \ S

(* ExtensionHost.close of each of S, whose alerts are dismissed.            *)
Close(S) ==
  /\ open' = open \ S
  /\ drain' = drain \cup {s \in S \cap open : busy[s]}
  /\ age' = [s \in Sid |-> IF s \in drain' \ drain THEN 0 ELSE age[s]]
  /\ stop' = stop \cup (S \cap open)
  /\ page' = page \ S

NotClosed == UNCHANGED <<open, drain, age, stop, page>>

\* the request of s ends here
Finish(s, outcome) ==
  /\ stage' = [stage EXCEPT ![s] = "done"]
  /\ answer' = [answer EXCEPT ![s] = IF @ = "none" THEN outcome ELSE @]
  /\ label' = label \ {s}

----------------------------------------------------------------------------
(* The label is there before the command runs.                              *)
Ask(s) ==
  /\ stage[s] = "no" /\ stage' = [stage EXCEPT ![s] = "launching"]
  /\ label' = label \cup {s} /\ open' = open \cup {s}
  /\ plug' = [plug EXCEPT ![s] = "up"]
  /\ UNCHANGED <<answer, drain, busy, clock, age, run, drawn, stop, wire, asks, said, page, told, late>>

Launched(s) ==
  /\ stage[s] = "launching" /\ plug[s] = "up"
  /\ stage' = [stage EXCEPT ![s] = "polling"] /\ clock' = [clock EXCEPT ![s] = 0]
  /\ UNCHANGED <<answer, label, open, drain, busy, age, drawn, page, told, late, workerVars>>

(* CREATE fails: the command threw, or the host went away.                  *)
LaunchFails(s) ==
  /\ stage[s] = "launching"
  /\ Finish(s, "error")
  /\ open' = open \ {s} /\ plug' = [plug EXCEPT ![s] = "gone"]
  /\ wire' = [wire EXCEPT ![s] = <<>>]
  /\ UNCHANGED <<drain, busy, clock, age, run, drawn, stop, asks, said, page, told, late>>

(* A fault: the poll has no deadline.                                       *)
PollsOn(s) ==
  /\ stage[s] = "polling" /\ s \notin open
  /\ Finish(s, "error") /\ Close({s})
  /\ UNCHANGED <<busy, clock, run, plug, wire, asks, said, drawn, told, late>>

(* The worker stopped, or never finished loading.                           *)
PollFails(s) ==
  /\ stage[s] = "polling"
  /\ s \notin open \/ (drawn[s] = "none" /\ clock[s] > Deadline)
  /\ Finish(s, "error") /\ Close({s})
  /\ UNCHANGED <<busy, clock, run, plug, wire, asks, said, drawn, told, late>>

(* The rows are read, or the action is not on that row any more.            *)
ReadRows(s) ==
  /\ stage[s] = "polling" /\ s \in open /\ drawn[s] # "none"
  /\ s \notin acts \/ drawn[s] = "without"
  /\ Finish(s, IF s \in acts THEN "error" ELSE "ok") /\ Close({s})
  /\ UNCHANGED <<busy, clock, run, plug, wire, asks, said, drawn, told, late>>

Dispatch(s) ==
  /\ stage[s] = "polling" /\ s \in open \cap acts /\ drawn[s] = "with"
  /\ stage' = [stage EXCEPT ![s] = "releasing"] /\ clock' = [clock EXCEPT ![s] = 0]
  /\ answer' = [answer EXCEPT ![s] = "ok"]
  /\ run' = [run EXCEPT ![s] = IF plug[s] = "up" THEN "sent" ELSE "over"]
  /\ UNCHANGED <<label, open, drain, busy, age, drawn, page, told, late, plug, stop, wire, asks, said>>

(* waitForRelease, at one of its looks; none is due before it says so.      *)
Outcomes(s) ==
  IF s \notin open /\ ~(s \in drain /\ busy[s]) THEN {"released"}
  ELSE IF clock[s] >= Ceiling THEN {"ceiling"}
  ELSE IF clock[s] >= Floor /\ ~busy[s] THEN {"floor"} ELSE {}

(* releaseAfterAction.  It closes unless the session is gone by itself.     *)
Release(s) ==
  /\ stage[s] = "releasing"
  /\ \E outcome \in Outcomes(s) :
       /\ Finish(s, "ok")
       /\ IF outcome = "released" THEN NotClosed ELSE Close({s})
       /\ late' = IF outcome = "ceiling" THEN late \cup {s} ELSE late
  /\ UNCHANGED <<busy, clock, run, plug, wire, asks, said, drawn, told>>

(* onVisibilityChange: the panel hid.                                       *)
Hide ==
  /\ open # {} /\ Close(open)
  /\ UNCHANGED <<stage, answer, label, busy, clock, drawn, told, late, run, plug, wire, asks, said>>

DrainCeiling(s) ==
  /\ s \in drain /\ age[s] >= Ceiling /\ drain' = drain \ {s} /\ late' = late \cup {s}
  /\ UNCHANGED <<stage, answer, label, open, busy, clock, age, drawn, page, told, workerVars>>

\* the page's user answers
PageAnswers(s) ==
  /\ s \in page /\ page' = page \ {s}
  /\ UNCHANGED <<stage, answer, label, open, drain, busy, clock, age, drawn, told, late, workerVars>>

Tick ==
  /\ \A s \in Sid : wire[s] = <<>>
  /\ \E s \in Sid : \/ stage[s] = "polling" /\ clock[s] <= Deadline
                    \/ stage[s] = "releasing" /\ clock[s] < Ceiling
                    \/ s \in drain /\ age[s] < Ceiling
  /\ clock' = [s \in Sid |-> IF \/ stage[s] = "polling" /\ clock[s] <= Deadline
                                \/ stage[s] = "releasing" /\ clock[s] < Ceiling
                             THEN clock[s] + 1 ELSE clock[s]]
  /\ age' = [s \in Sid |-> IF s \in drain /\ age[s] < Ceiling THEN age[s] + 1 ELSE age[s]]
  /\ UNCHANGED <<stage, answer, label, open, drain, busy, drawn, page, told, late, workerVars>>

----------------------------------------------------------------------------
(* What the daemon makes of a worker's messages.                            *)
HeardDrawn(s, list) ==
  /\ drawn' = [drawn EXCEPT ![s] = IF s \in open THEN list ELSE @]
  /\ NotClosed /\ UNCHANGED <<busy, told>>

HeardBusy(s, count) ==
  /\ busy' = [busy EXCEPT ![s] = IF s \in Addressable THEN count > 0 ELSE @]
  /\ drain' = IF count = 0 THEN drain \ {s} ELSE drain
  /\ told' = IF count > 0 /\ s \in Addressable THEN told \cup {s} ELSE told
  /\ UNCHANGED <<open, age, stop, page, drawn>>

(* A fault: an alert goes to the page whoever raised it.                    *)
HeardAlertShown(s) ==
  /\ page' = IF s \in Addressable THEN page \cup {s} ELSE page
  /\ UNCHANGED <<open, drain, age, stop, busy, drawn, told>>

(* emit: an alert of a labelled session is answered "no" on the spot; of    *)
(* a session that is not addressable the call is refused.                   *)
HeardAlert(s) ==
  /\ page' = IF s \in Addressable \ label THEN page \cup {s} ELSE page
  /\ UNCHANGED <<open, drain, age, stop, busy, drawn, told>>

(* popToRoot, or a command without a view that is over.                     *)
HeardEnd(s) == Close({s}) /\ UNCHANGED <<busy, drawn, told>>

Heard(s) ==
  /\ wire[s] # <<>> /\ wire' = [wire EXCEPT ![s] = Tail(@)]
  /\ LET m == Head(wire[s]) IN
       \/ m \in {"with", "without"} /\ HeardDrawn(s, m)
       \/ m = "busy" /\ HeardBusy(s, 1)
       \/ m = "idle" /\ HeardBusy(s, 0)
       \/ m = "alert" /\ HeardAlert(s)
       \/ m = "end" /\ HeardEnd(s)
  /\ UNCHANGED <<stage, answer, label, clock, late, plug, run, asks, said>>

----------------------------------------------------------------------------
(* The worker: it draws its list, raises alerts when it likes, ends itself, *)
(* runs the handler and says so, and after DESTROY stops once idle, or is   *)
(* stopped whatever it does.                                                *)
Says(s, m) == plug[s] = "up" /\ wire' = [wire EXCEPT ![s] = Append(@, m)]
Once(s, kind) == <<s, kind>> \notin said /\ said' = said \cup {<<s, kind>>}

Draws(s) ==
  /\ Once(s, "list") /\ \E m \in {"with", "without"} : Says(s, m)
  /\ UNCHANGED <<mainVars, plug, run, stop, asks>>
Alerts(s) ==
  /\ asks[s] < MaxAsks /\ asks' = [asks EXCEPT ![s] = @ + 1] /\ Says(s, "alert")
  /\ UNCHANGED <<mainVars, plug, run, stop, said>>
EndsItself(s) ==
  /\ Once(s, "end") /\ Says(s, "end")
  /\ UNCHANGED <<mainVars, plug, run, stop, asks>>
Begins(s) ==
  /\ run[s] = "sent" /\ Says(s, "busy") /\ run' = [run EXCEPT ![s] = "running"]
  /\ UNCHANGED <<mainVars, plug, stop, asks, said>>
Returns(s) ==
  /\ run[s] = "running" /\ Says(s, "idle") /\ run' = [run EXCEPT ![s] = "over"]
  /\ UNCHANGED <<mainVars, plug, stop, asks, said>>
Stops(s) ==
  /\ s \in stop /\ plug[s] = "up"
  /\ plug' = [plug EXCEPT ![s] = "gone"]
  /\ run' = [run EXCEPT ![s] = IF @ = "no" THEN @ ELSE "over"]
  /\ UNCHANGED <<mainVars, stop, wire, asks, said>>

(* The whole host process dies: what it sent is lost with it.               *)
HostDies ==
  /\ \E s \in Sid : plug[s] = "up"
  /\ plug' = [s \in Sid |-> IF plug[s] = "up" THEN "gone" ELSE plug[s]]
  /\ run' = [s \in Sid |-> IF run[s] = "no" THEN "no" ELSE "over"]
  /\ wire' = [s \in Sid |-> <<>>]
  /\ open' = {} /\ page' = {}
  /\ UNCHANGED <<stage, answer, label, drain, busy, clock, age, drawn, told, late, stop, asks, said>>

\* what the daemon does next of its own for the request of s
Goes(s) ==
  \/ Launched(s) \/ LaunchFails(s) \/ PollFails(s) \/ ReadRows(s) \/ Dispatch(s) \/ Release(s)
WorkerStep(s) ==
  Draws(s) \/ Alerts(s) \/ EndsItself(s) \/ Begins(s) \/ Returns(s) \/ Stops(s)

Next ==
  /\ UNCHANGED acts
  /\ \/ Hide \/ HostDies \/ Tick
     \/ \E s \in Sid :
          Ask(s) \/ Goes(s) \/ Heard(s) \/ DrainCeiling(s) \/ PageAnswers(s) \/ WorkerStep(s)

Spec == Init /\ [][Next]_vars

(* The daemon's timers and its loop go on; a call is answered or its host   *)
(* is gone.  Nothing is asked of a worker or of a user.                     *)
Fairness == WF_vars(Tick /\ UNCHANGED acts) /\ \A s \in Sid : 
     /\ WF_vars(Goes(s) /\ UNCHANGED acts) /\ WF_vars(Heard(s) /\ UNCHANGED acts)
     /\ WF_vars(DrainCeiling(s) /\ UNCHANGED acts)
FairSpec == Spec /\ Fairness

----------------------------------------------------------------------------
TypeOK ==
  /\ acts \subseteq Sid
  /\ stage \in [Sid -> {"no", "launching", "polling", "releasing", "done"}]
  /\ answer \in [Sid -> {"none", "ok", "error"}]
  /\ {label, open, drain, stop, page, told, late} \subseteq SUBSET Sid
  /\ busy \in [Sid -> BOOLEAN] /\ clock \in [Sid -> Nat] /\ age \in [Sid -> Nat]
  /\ plug \in [Sid -> {"off", "up", "gone"}]
  /\ run \in [Sid -> {"no", "sent", "running", "over"}]
  /\ drawn \in [Sid -> {"none", "with", "without"}]
  /\ wire \in [Sid -> Seq({"with", "without", "busy", "idle", "alert", "end"})]

(* Of emit: a headless session's confirmation never reaches the page, where *)
(* nobody would know what it is about.  (Unless it outlived its ceiling:    *)
(* then it drains without its label.)                                       *)
AskedOnlyInWindows == page \subseteq late

(* An action that was heard to run keeps its worker and its services until  *)
(* it returns, whatever hides the panel or times out, up to the ceiling.    *)
ActionIsServed ==
  \A s \in told : run[s] = "running" /\ plug[s] = "up" => s \in Addressable \cup late

(* Every request ends, whatever the plugin does, and leaves nothing open.   *)
Ends == \A s \in Sid :
  (stage[s] # "no") ~> (stage[s] = "done" /\ answer[s] # "none" /\ s \notin label \cup open)
=============================================================================
