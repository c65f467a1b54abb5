----------------------------- MODULE ExtWorker -----------------------------
(***************************************************************************)
(* One worker thread of the extension host (src/host/worker.ts): it starts  *)
(* a command, runs the handlers the renderer's events name, reports whether *)
(* any is still running, and is torn down.  The extension is the            *)
(* environment: it may throw, hang, call the desktop, or kill the thread.   *)
(***************************************************************************)
EXTENDS ExtWires

CONSTANTS Faults   \* the misfortunes this instance allows, of FaultKinds

FaultKinds == {"throws", "hangs", "crash", "fatal", "hostCrash"}
ASSUME WorkerAssumption == Faults \subseteq FaultKinds

VARIABLES
  phase,     \* "warm", "run", "drain" (drainThenTeardown), "down" (torn down)
  command,   \* threads whose command is on: a view shown, a no-view promise pending
  running,   \* handlers in flight, the one being started included
  hung,      \* threads inside a loop of the extension's own making
  ran,       \* events that reached their handler, counted
  asks,      \* service calls made so far
  outcome    \* what the extension's await of each of them came to

workerVars == <<phase, command, running, hung, ran, asks, outcome>>

AskOutcomes == {"unasked", "out", "ok", "true", "false", "refused", "timeout"}

WorkerInit ==
  /\ phase = [w \in Worker |-> "warm"]
  /\ command = {}
  /\ running = [w \in Worker |-> 0]
  /\ hung = {}
  /\ ran = [w \in Worker |-> 0]
  /\ asks = [w \in Worker |-> 0]
  /\ outcome = [w \in Worker |-> [k \in Ask |-> "unasked"]]

Busy(w, n) == [type |-> "busy", sid |-> w[1], busy |-> n > 0]
Failed(w, fatal) == [type |-> "failed", sid |-> w[1], fatal |-> fatal]
Finished(w) == [type |-> "finished", sid |-> w[1]]
CreateOk == [type |-> "createOk"]
CreateErr == [type |-> "createErr"]
DestroyOk == [type |-> "destroyOk"]

(* The thread's event loop turns: it is neither gone nor stuck.             *)
Turns(w) == w \in up /\ w \notin hung
Receives(w, type) == Turns(w) /\ h2w[w] # <<>> /\ Head(h2w[w]).type = type

Consume(w) == h2w' = [h2w EXCEPT ![w] = Tail(@)]
Send(w, msgs) == w2h' = [w2h EXCEPT ![w] = @ \o msgs]
OtherWires == UNCHANGED <<process, m2h, h2m, up, exited>>

(* start(): the bundle is required and the command rendered or called; a     *)
(* bundle that throws is answered with the error, one that never returns    *)
(* hangs the thread, a view that fails its first render is answered after   *)
(* the failure is reported, and so is a no-view command that is over, or has *)
(* thrown, without having waited for anything.                              *)
Start(w) ==
  /\ Receives(w, "create") /\ Consume(w)
  /\ phase' = [phase EXCEPT ![w] = "run"]
  /\ \/ command' = command \cup {w} /\ Send(w, <<CreateOk>>) /\ UNCHANGED hung
     \/ "throws" \in Faults /\ Send(w, <<CreateErr>>) /\ UNCHANGED <<command, hung>>
     \/ /\ "fatal" \in Faults /\ w[1] \notin NoView
        /\ Send(w, <<Failed(w, TRUE), CreateOk>>) /\ UNCHANGED <<command, hung>>
     \/ /\ w[1] \in NoView /\ UNCHANGED <<command, hung>>
        /\ \/ Send(w, <<Finished(w), CreateOk>>)
           \/ "throws" \in Faults /\ Send(w, <<Failed(w, FALSE), CreateOk>>)
     \/ "hangs" \in Faults /\ hung' = hung \cup {w} /\ UNCHANGED <<command, w2h>>
  /\ UNCHANGED <<running, ran, asks, outcome>> /\ OtherWires

(* A fault of dispatch(): busy reported only once the handler is over.      *)
DispatchReportsLate(w) ==
  /\ Receives(w, "event") /\ Consume(w) /\ phase[w] # "down"
  /\ ran' = [ran EXCEPT ![w] = @ + 1]
  /\ running' = [running EXCEPT ![w] = @ + 1]
  /\ UNCHANGED <<phase, command, hung, asks, outcome, w2h>> /\ OtherWires

(* dispatch(): busy is reported before the handler runs.  A promise is      *)
(* tracked until it settles; a synchronous handler is over at once, a throw *)
(* reported; one that never returns leaves the thread hung and busy.  After *)
(* teardown no handler is mounted and the event is ignored.                 *)
Dispatch(w) ==
  /\ Receives(w, "event") /\ Consume(w)
  /\ IF phase[w] = "down"
       THEN UNCHANGED <<running, hung, ran, w2h>>
       ELSE /\ ran' = [ran EXCEPT ![w] = @ + 1]
            /\ \/ /\ running' = [running EXCEPT ![w] = @ + 1]
                  /\ Send(w, <<Busy(w, running[w] + 1)>>)
                  /\ UNCHANGED hung
               \/ /\ Send(w, <<Busy(w, running[w] + 1), Busy(w, running[w])>>)
                  /\ UNCHANGED <<running, hung>>
               \/ /\ "throws" \in Faults
                  /\ Send(w, <<Busy(w, running[w] + 1), Failed(w, FALSE), Busy(w, running[w])>>)
                  /\ UNCHANGED <<running, hung>>
               \/ /\ "hangs" \in Faults
                  /\ running' = [running EXCEPT ![w] = @ + 1]
                  /\ Send(w, <<Busy(w, running[w] + 1)>>)
                  /\ hung' = hung \cup {w}
  /\ UNCHANGED <<phase, command, asks, outcome>> /\ OtherWires

(* The extension's await of its last call has not returned.                 *)
Awaiting(w) == asks[w] > 0 /\ outcome[w][asks[w]] = "out"

(* A running handler, or the body of a no-view command, calls the desktop:  *)
(* an alert to confirm, a service, the panel to be hidden, the root to be    *)
(* returned to.                                                             *)
CallDesktop(w, kind) ==
  /\ Turns(w)
  /\ running[w] > 0 \/ (w[1] \in NoView /\ w \in command)
  /\ ~Awaiting(w) /\ asks[w] < MaxAsks
  /\ asks' = [asks EXCEPT ![w] = @ + 1]
  /\ outcome' = [outcome EXCEPT ![w][asks[w] + 1] = "out"]
  /\ Send(w, <<[type |-> "call", from |-> w, ask |-> asks[w] + 1, kind |-> kind]>>)
  /\ UNCHANGED <<phase, command, running, hung, ran, h2w>> /\ OtherWires

(* The answer to a call: dropped when its timer already gave it up.         *)
Answered(w) ==
  /\ Receives(w, "answer") /\ Consume(w)
  /\ LET m == Head(h2w[w]) IN
       outcome' = [outcome EXCEPT ![w][m.ask] = IF @ = "out" THEN m.value ELSE @]
  /\ UNCHANGED <<phase, command, running, hung, ran, asks, w2h>> /\ OtherWires

(* The call's timer: neither this thread's peer nor the host's peer that    *)
(* relays the call is built without one.                                    *)
CallTimesOut(w) ==
  /\ Turns(w) /\ Awaiting(w)
  /\ outcome' = [outcome EXCEPT ![w][asks[w]] = "timeout"]
  /\ UNCHANGED <<phase, command, running, hung, ran, asks>> /\ UNCHANGED wires

(* A fault: the count of handlers in flight is not reported when it falls.  *)
SettlesInSilence(w) ==
  /\ Turns(w) /\ running[w] > 0 /\ ~Awaiting(w)
  /\ running' = [running EXCEPT ![w] = @ - 1]
  /\ LET last == phase[w] = "drain" /\ running[w] = 1 IN
       /\ phase' = IF last THEN [phase EXCEPT ![w] = "down"] ELSE phase
       /\ Send(w, IF last THEN <<DestroyOk>> ELSE <<>>)
  /\ UNCHANGED <<command, hung, ran, asks, outcome, h2w>> /\ OtherWires

(* A tracked promise settles; a rejection is a toast's worth of failure.    *)
(* The last one to settle completes drainThenTeardown.                      *)
HandlerSettles(w) ==
  /\ Turns(w) /\ running[w] > 0 /\ ~Awaiting(w)
  /\ running' = [running EXCEPT ![w] = @ - 1]
  /\ LET last == phase[w] = "drain" /\ running[w] = 1
         news == <<Busy(w, running[w] - 1)>> \o (IF last THEN <<DestroyOk>> ELSE <<>>)
     IN /\ phase' = IF last THEN [phase EXCEPT ![w] = "down"] ELSE phase
        /\ \/ Send(w, news)
           \/ "throws" \in Faults /\ Send(w, <<Failed(w, FALSE)>> \o news)
  /\ UNCHANGED <<command, hung, ran, asks, outcome, h2w>> /\ OtherWires

(* DESTROY: an idle worker is torn down and answers on the spot, a busy one *)
(* waits for what was in flight.                                            *)
Destroyed(w) ==
  /\ Receives(w, "destroy") /\ Consume(w)
  /\ IF running[w] = 0
       THEN phase' = [phase EXCEPT ![w] = "down"] /\ Send(w, <<DestroyOk>>)
       ELSE phase' = [phase EXCEPT ![w] = "drain"] /\ UNCHANGED w2h
  /\ UNCHANGED <<command, running, hung, ran, asks, outcome>> /\ OtherWires

(* drainThenTeardown's own ceiling.                                         *)
WorkerCeiling(w) ==
  /\ Turns(w) /\ phase[w] = "drain"
  /\ phase' = [phase EXCEPT ![w] = "down"]
  /\ Send(w, <<DestroyOk>>)
  /\ UNCHANGED <<command, running, hung, ran, asks, outcome, h2w>> /\ OtherWires

(* A no-view command's promise settles: it finished, or it rejected, which   *)
(* is reported the way a failing handler is.                                *)
Finishes(w) ==
  /\ Turns(w) /\ w[1] \in NoView /\ w \in command /\ ~Awaiting(w)
  /\ command' = command \ {w}
  /\ \/ Send(w, <<Finished(w)>>)
     \/ "throws" \in Faults /\ Send(w, <<Failed(w, FALSE)>>)
  /\ UNCHANGED <<phase, running, hung, ran, asks, outcome, h2w>> /\ OtherWires

(* An uncaught render error or exception: reported as fatal by a thread     *)
(* that goes on living.                                                     *)
Fatal(w) ==
  /\ "fatal" \in Faults /\ Turns(w) /\ w \in command
  /\ command' = command \ {w}
  /\ Send(w, <<Failed(w, TRUE)>>)
  /\ UNCHANGED <<phase, running, hung, ran, asks, outcome, h2w>> /\ OtherWires

(* The thread dies: out of memory, process.exit, a native fault.            *)
Crash(w) ==
  /\ "crash" \in Faults /\ w \in up
  /\ up' = up \ {w}
  /\ exited' = exited \cup {w}
  /\ h2w' = [h2w EXCEPT ![w] = <<>>]
  /\ \E left \in Prefixes(w2h[w]) : w2h' = [w2h EXCEPT ![w] = left]
  /\ UNCHANGED <<process, m2h, h2m>> /\ UNCHANGED workerVars
=============================================================================
