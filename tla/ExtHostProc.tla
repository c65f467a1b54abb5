----------------------------- MODULE ExtHostProc -----------------------------
(***************************************************************************)
(* The extension host process (src/host/index.ts): the sessions it keeps,   *)
(* a worker thread each, and the asynchronous create, destroy and reload    *)
(* that overlap on them.  The warm spare is in WarmPool; here a thread is   *)
(* started when a session needs one.                                        *)
(***************************************************************************)
EXTENDS ExtWires

CONSTANTS MaxSessions,   \* the host's ceiling on sessions
          MaxDraining    \* how many may wait for an action at once

ASSUME HostAssumption == MaxSessions \in Nat \ {0} /\ MaxDraining \in Nat

VARIABLES
  hSess,     \* per session the thread number the map holds, 0 when absent
  hBusy,     \* session.busy, per thread
  ended,     \* threads whose session object is marked ended
  creating,  \* create() awaiting this thread's CREATE, and for whom
  ending,    \* destroy() awaiting this thread's DESTROY, and until which deadline
  reloading, \* threads whose destroy was started by reload()
  made       \* threads ever started per session

hostVars == <<hSess, hBusy, ended, creating, ending, reloading, made>>

HostInit ==
  /\ hSess = [s \in Sid |-> 0]
  /\ hBusy = [w \in Worker |-> FALSE]
  /\ ended = {}
  /\ creating = [w \in Worker |-> "no"]
  /\ ending = [w \in Worker |-> "no"]
  /\ reloading = {}
  /\ made = [s \in Sid |-> 0]

InMap == {s \in Sid : hSess[s] # 0}
Thread(s) == <<s, hSess[s]>>
Draining == {w \in Worker : ending[w] = "drain"}

Refused(s) == [type |-> "refused", sid |-> s]
Created(s) == [type |-> "created", sid |-> s]

Gets(type) == process = "up" /\ m2h # <<>> /\ Head(m2h).type = type
Hears(w, type) == process = "up" /\ w2h[w] # <<>> /\ Head(w2h[w]).type = type
Take(w) == w2h' = [w2h EXCEPT ![w] = Tail(@)]

(* create() up to its await: a session that exists or one too many is       *)
(* refused, otherwise a thread is started and sent CREATE.                  *)
HostCreate ==
  /\ Gets("create") /\ m2h' = Tail(m2h)
  /\ LET s == Head(m2h).sid
         w == <<s, made[s] + 1>>
     IN IF s \in InMap \/ Cardinality(InMap) >= MaxSessions
          THEN /\ h2m' = ToMain(<<Refused(s)>>)
               /\ UNCHANGED <<hSess, creating, made, up, h2w>>
          ELSE /\ hSess' = [hSess EXCEPT ![s] = made[s] + 1]
               /\ made' = [made EXCEPT ![s] = @ + 1]
               /\ creating' = [creating EXCEPT ![w] = "main"]
               /\ up' = up \cup {w}
               /\ h2w' = [h2w EXCEPT ![w] = <<[type |-> "create"]>>]
               /\ UNCHANGED h2m
  /\ UNCHANGED <<hBusy, ended, ending, reloading, process, w2h, exited>>

(* forward(): an event for a session that is gone is dropped.               *)
HostEvent ==
  /\ Gets("event") /\ m2h' = Tail(m2h)
  /\ LET s == Head(m2h).sid IN
       h2w' = IF s \in InMap THEN ToWorker(Thread(s), [type |-> "event"]) ELSE h2w
  /\ UNCHANGED <<hostVars, process, h2m, w2h, up, exited>>

(* destroy() up to its await.  The session leaves the map first; the        *)
(* deadline depends on whether the host has heard that the worker is busy.  *)
HostDestroy(type, viaReload) ==
  /\ Gets(type) /\ m2h' = Tail(m2h)
  /\ LET s == Head(m2h).sid
         w == Thread(s)
     IN IF s \notin InMap
          THEN UNCHANGED <<hSess, ended, ending, reloading, h2w>>
          ELSE /\ hSess' = [hSess EXCEPT ![s] = 0]
               /\ ended' = ended \cup {w}
               /\ ending' = [ending EXCEPT ![w] =
                    IF hBusy[w] /\ Cardinality(Draining) < MaxDraining
                      THEN "drain" ELSE "grace"]
               /\ reloading' = IF viaReload THEN reloading \cup {w} ELSE reloading
               /\ h2w' = ToWorker(w, [type |-> "destroy"])
  /\ UNCHANGED <<hBusy, creating, made, process, h2m, w2h, up, exited>>

(* destroy() after its await, the queue of the thread being rest: the peer  *)
(* is disposed of, which fails a CREATE still awaited, and the thread is    *)
(* terminated; what it had posted may or may not be delivered.  A reload    *)
(* goes straight on to create a session under the same id.                  *)
FinishDestroy(w, rest) ==
  LET s == w[1]
      n == made[s] + 1
      again == /\ w \in reloading /\ s \notin InMap
               /\ Cardinality(InMap) < MaxSessions
  IN /\ ending' = [ending EXCEPT ![w] = "no"]
     /\ reloading' = reloading \ {w}
     /\ creating' = [v \in Worker |-> IF v = w THEN "no"
                       ELSE IF again /\ v = <<s, n>> THEN "reload" ELSE creating[v]]
     /\ hSess' = IF again THEN [hSess EXCEPT ![s] = n] ELSE hSess
     /\ made' = IF again THEN [made EXCEPT ![s] = n] ELSE made
     /\ up' = (up \ {w}) \cup (IF again THEN {<<s, n>>} ELSE {})
     /\ h2w' = [v \in Worker |-> IF v = w THEN <<>>
                  ELSE IF again /\ v = <<s, n>> THEN <<[type |-> "create"]>> ELSE h2w[v]]
     /\ \E left \in Prefixes(rest) : w2h' = [w2h EXCEPT ![w] = left]
     /\ h2m' = IF creating[w] = "main" THEN ToMain(<<Refused(s)>>) ELSE h2m
     /\ UNCHANGED <<hBusy, ended, process, m2h, exited>>

(* A fault of the deadline: waiting only for the worker's own answer.       *)
WaitsForever(w) == w \in Draining /\ w \notin up /\ FinishDestroy(w, w2h[w])

(* withDeadline passes: the grace of an idle worker, the ceiling of a busy   *)
(* one.                                                                     *)
HostDeadline(w) ==
  /\ process = "up" /\ ending[w] # "no"
  /\ FinishDestroy(w, w2h[w])

HostDestroyed(w) ==
  /\ Hears(w, "destroyOk")
  /\ IF ending[w] # "no"
       THEN FinishDestroy(w, Tail(w2h[w]))
       ELSE Take(w) /\ UNCHANGED <<hostVars, process, m2h, h2m, h2w, up, exited>>

(* The await in create() returns.                                           *)
HostCreated(w) ==
  /\ Hears(w, "createOk") /\ Take(w)
  /\ h2m' = IF creating[w] = "main" THEN ToMain(<<Created(w[1])>>) ELSE h2m
  /\ creating' = [creating EXCEPT ![w] = "no"]
  /\ UNCHANGED <<hSess, hBusy, ended, ending, reloading, made, process, m2h, h2w, up, exited>>

(* A fault of create()'s catch: the thread is not terminated.               *)
CreateFailsKeepsThread(w) ==
  /\ Hears(w, "createErr") /\ Take(w)
  /\ hSess' = [hSess EXCEPT ![w[1]] = 0]
  /\ ended' = ended \cup {w}
  /\ creating' = [creating EXCEPT ![w] = "no"]
  /\ h2m' = IF creating[w] = "main" THEN ToMain(<<Refused(w[1])>>) ELSE h2m
  /\ UNCHANGED <<hBusy, ending, reloading, made, process, m2h, h2w, up, exited>>

(* create()'s catch: the session is deleted by its id, the thread stopped   *)
(* and the error passed on to whoever asked.                                *)
HostCreateFails(w) ==
  /\ Hears(w, "createErr")
  /\ IF creating[w] = "no"
       THEN Take(w) /\ UNCHANGED <<hSess, ended, creating, h2m, up, h2w>>
       ELSE /\ hSess' = [hSess EXCEPT ![w[1]] = 0]
            /\ ended' = ended \cup {w}
            /\ creating' = [creating EXCEPT ![w] = "no"]
            /\ h2m' = IF creating[w] = "main" THEN ToMain(<<Refused(w[1])>>) ELSE h2m
            /\ up' = up \ {w}
            /\ h2w' = [h2w EXCEPT ![w] = <<>>]
            /\ \E left \in Prefixes(Tail(w2h[w])) : w2h' = [w2h EXCEPT ![w] = left]
  /\ UNCHANGED <<hBusy, ending, reloading, made, process, m2h, exited>>

(* A fault: BUSY passed on and not recorded.                                *)
HostBusyUnrecorded(w) ==
  /\ Hears(w, "busy") /\ Take(w)
  /\ h2m' = ToMain(<<Head(w2h[w])>>)
  /\ UNCHANGED <<hostVars, process, m2h, h2w, up, exited>>

(* BUSY is recorded on whatever session holds the id now, and relayed.      *)
HostBusy(w) ==
  /\ Hears(w, "busy") /\ Take(w)
  /\ LET s == w[1] IN
       hBusy' = IF s \in InMap
                  THEN [hBusy EXCEPT ![Thread(s)] = Head(w2h[w]).busy] ELSE hBusy
  /\ h2m' = ToMain(<<Head(w2h[w])>>)
  /\ UNCHANGED <<hSess, ended, creating, ending, reloading, made,
                 process, m2h, h2w, up, exited>>

(* Notifications and service requests pass through; an answer goes back to  *)
(* the thread that asked, if it is still there.                             *)
HostRelays(w) ==
  /\ \E type \in {"failed", "finished", "call"} : Hears(w, type)
  /\ Take(w)
  /\ h2m' = ToMain(<<Head(w2h[w])>>)
  /\ UNCHANGED <<hostVars, process, m2h, h2w, up, exited>>

HostAnswers ==
  /\ Gets("answer") /\ m2h' = Tail(m2h)
  /\ h2w' = ToWorker(Head(m2h).to, Head(m2h))
  /\ UNCHANGED <<hostVars, process, h2m, w2h, up, exited>>

(* A fault of died(): the ended flag not read.                              *)
DiedTwice(w) ==
  /\ process = "up" /\ w \in exited /\ w2h[w] = <<>>
  /\ exited' = exited \ {w}
  /\ ended' = ended \cup {w}
  /\ hSess' = [hSess EXCEPT ![w[1]] = 0]
  /\ creating' = [creating EXCEPT ![w] = "no"]
  /\ h2m' = ToMain(<<[type |-> "failed", sid |-> w[1], fatal |-> TRUE]>>)
  /\ UNCHANGED <<hBusy, ending, reloading, made, process, m2h, h2w, w2h, up>>

(* Another: the slot of the thread kept.                                    *)
DiedKeepsSlot(w) ==
  /\ process = "up" /\ w \in exited /\ w2h[w] = <<>>
  /\ exited' = exited \ {w}
  /\ ended' = ended \cup {w}
  /\ creating' = [creating EXCEPT ![w] = "no"]
  /\ h2m' = IF w \in ended THEN h2m
             ELSE ToMain(<<[type |-> "failed", sid |-> w[1], fatal |-> TRUE]>>
                         \o (IF creating[w] = "main" THEN <<Refused(w[1])>> ELSE <<>>))
  /\ UNCHANGED <<hSess, hBusy, ending, reloading, made, process, m2h, h2w, w2h, up>>

(* died(): a thread that stopped on its own takes its session with it, once, *)
(* and not if the session was already being stopped.                        *)
HostDied(w) ==
  /\ process = "up" /\ w \in exited /\ w2h[w] = <<>>
  /\ exited' = exited \ {w}
  /\ IF w \in ended
       THEN UNCHANGED <<hSess, ended, creating, h2m>>
       ELSE /\ ended' = ended \cup {w}
            /\ hSess' = [hSess EXCEPT ![w[1]] = 0]
            /\ creating' = [creating EXCEPT ![w] = "no"]
            /\ h2m' = ToMain(<<[type |-> "failed", sid |-> w[1], fatal |-> TRUE]>>
                             \o (IF creating[w] = "main" THEN <<Refused(w[1])>> ELSE <<>>))
  /\ UNCHANGED <<hBusy, ending, reloading, made, process, m2h, h2w, w2h, up>>

(* The whole process dies, and every thread and port with it; what it had   *)
(* posted to the daemon may still arrive.                                   *)
HostCrash ==
  /\ process = "up"
  /\ process' = "dead"
  /\ m2h' = <<>> /\ up' = {} /\ exited' = {}
  /\ h2w' = [w \in Worker |-> <<>>] /\ w2h' = [w \in Worker |-> <<>>]
  /\ h2m' \in Prefixes(h2m)
  /\ hSess' = [s \in Sid |-> 0]
  /\ hBusy' = [w \in Worker |-> FALSE]
  /\ creating' = [w \in Worker |-> "no"] /\ ending' = [w \in Worker |-> "no"]
  /\ reloading' = {}
  /\ UNCHANGED <<ended, made>>
=============================================================================
