------------------------------ MODULE WarmPool ------------------------------
(***************************************************************************)
(* The threads of one extension host process (src/host/index.ts): one warm  *)
(* spare, a thread per session, threads on their way out.  What a session   *)
(* runs is ExtWorker's; here a thread starts, says it is ready, answers its *)
(* session.create with or without an error, and may end at any moment; its  *)
(* end is heard in a later turn of the host's loop.                         *)
(***************************************************************************)
EXTENDS FiniteSets, Naturals

CONSTANTS
  Worker,            \* slots for threads
  None,
  MaxSessions,       \* MAX_SESSIONS
  MaxSpareFailures,  \* MAX_SPARE_FAILURES
  MaxTimers          \* bound: refills due at once

ASSUME PoolAssumption ==
  /\ None \notin Worker /\ IsFiniteSet(Worker)
  /\ MaxSessions \in Nat \ {0} /\ MaxSpareFailures \in Nat \ {0} /\ MaxTimers \in Nat \ {0}

VARIABLES
  thread,    \* of each slot: "none", "warming", "ready", "ended" (its exit not heard yet)
  spare,     \* the thread kept for the next launch, or None
  sessions,  \* threads that carry a session of the map
  creating,  \* those whose session.create is not answered
  stopping,  \* threads whose session is over and that are asked to stop
  refills,   \* timers of topUpSpare
  failures,  \* spareFailures
  missed     \* history: a create failed and left the pool empty

poolVars == <<thread, spare, sessions, creating, stopping, refills, failures, missed>>

Alive(w) == thread[w] \in {"warming", "ready"}
Free(w) == thread[w] = "none" /\ w \notin stopping

Spawn(w) == Free(w) /\ thread' = [thread EXCEPT ![w] = "warming"]

\* no host process: nothing runs
NoThread == [w \in Worker |-> "none"]

PoolInit ==
  /\ thread = NoThread /\ spare = None
  /\ sessions = {} /\ creating = {} /\ stopping = {}
  /\ refills = 0 /\ failures = 0 /\ missed = FALSE

PoolBecomes(threads, first) ==
  /\ thread' = threads /\ spare' = first
  /\ sessions' = {} /\ creating' = {} /\ stopping' = {}
  /\ refills' = 0 /\ failures' = 0 /\ missed' = FALSE

\* a host just forked: its first act is to spawn a spare
FreshPool == \E w \in Worker : PoolBecomes([NoThread EXCEPT ![w] = "warming"], w)
NoPool == PoolBecomes(NoThread, None)

----------------------------------------------------------------------------
(* A refill always waits for a timer of its own.                            *)
TopUp ==
  /\ refills' = IF failures' < MaxSpareFailures THEN refills + 1 ELSE refills
  /\ missed' = FALSE

(* A fault: the timer does not look whether there is a spare.               *)
RefillAnyway ==
  /\ refills > 0 /\ refills' = refills - 1
  /\ \E w \in Worker : Spawn(w) /\ spare' = w
  /\ UNCHANGED <<sessions, creating, stopping, failures, missed>>

Refill ==
  /\ refills > 0 /\ refills' = refills - 1
  /\ IF spare = None /\ Cardinality(sessions) < MaxSessions
     THEN \E w \in Worker : Spawn(w) /\ spare' = w
     ELSE UNCHANGED <<thread, spare>>
  /\ UNCHANGED <<sessions, creating, stopping, failures, missed>>

(* create: the spare, warm or not, or a thread of its own.  At the ceiling  *)
(* it is refused and nothing changes.                                       *)
Create ==
  /\ Cardinality(sessions) < MaxSessions /\ refills < MaxTimers
  /\ \E w \in Worker :
       /\ IF spare # None THEN w = spare /\ UNCHANGED thread ELSE Spawn(w)
       /\ sessions' = sessions \cup {w} /\ creating' = creating \cup {w}
  /\ spare' = None
  /\ UNCHANGED <<stopping, failures>>
  /\ TopUp

\* the READY notification, ahead of everything else a thread says
Ready(w) ==
  /\ thread[w] = "warming" /\ thread' = [thread EXCEPT ![w] = "ready"]
  /\ failures' = 0
  /\ UNCHANGED <<spare, sessions, creating, stopping, refills, missed>>

CreateAnswered(w) ==
  /\ w \in creating /\ thread[w] = "ready" /\ creating' = creating \ {w}
  /\ UNCHANGED <<thread, spare, sessions, stopping, refills, failures, missed>>

(* The command threw as it started: the session is dropped, its thread      *)
(* stopped, and no refill asked for.                                        *)
CreateRefused(w) ==
  /\ w \in creating \cap sessions /\ thread[w] = "ready"
  /\ creating' = creating \ {w} /\ sessions' = sessions \ {w}
  /\ thread' = [thread EXCEPT ![w] = "ended"]
  /\ missed' = (missed \/ (spare = None /\ refills = 0))
  /\ UNCHANGED <<spare, stopping, refills, failures>>

(* destroy: out of the map first; the thread is stopped when it answered,   *)
(* or at the deadline, and then a refill is asked for.                      *)
Destroy(w) ==
  /\ w \in sessions /\ sessions' = sessions \ {w} /\ stopping' = stopping \cup {w}
  /\ UNCHANGED <<thread, spare, creating, refills, failures, missed>>

Stopped(w) ==
  /\ w \in stopping /\ stopping' = stopping \ {w} /\ creating' = creating \ {w}
  /\ thread' = [thread EXCEPT ![w] = IF @ = "none" THEN @ ELSE "ended"]
  /\ refills < MaxTimers
  /\ UNCHANGED <<spare, sessions, failures>>
  /\ TopUp

\* a crash, an exit of its own, no memory
Ends(w) ==
  /\ Alive(w) /\ thread' = [thread EXCEPT ![w] = "ended"]
  /\ UNCHANGED <<spare, sessions, creating, stopping, refills, failures, missed>>

(* A fault: nobody listens to a spare.                                      *)
ForgetNothing(w) ==
  spare = w /\ UNCHANGED <<spare, failures, sessions, creating, refills, missed>>

(* The error or exit event.  forget: a spare that failed is counted and     *)
(* replaced, until too many in a row; died: a session's thread is dropped   *)
(* with its session, a launch that waited on it rejected.                   *)
Forget(w) ==
  /\ spare = w /\ spare' = None
  /\ failures' = failures + 1
  /\ UNCHANGED <<sessions, creating>>
  /\ TopUp

(* A fault: a death at the ceiling leaves the pool as it is.                *)
DiedQuietly(w) ==
  /\ w \in sessions /\ sessions' = sessions \ {w} /\ creating' = creating \ {w}
  /\ UNCHANGED <<spare, failures, refills, missed>>

Died(w) ==
  /\ w \in sessions /\ sessions' = sessions \ {w} /\ creating' = creating \ {w}
  /\ UNCHANGED <<spare, failures>>
  /\ TopUp

ExitHeard(w) ==
  /\ thread[w] = "ended" /\ refills < MaxTimers
  /\ thread' = [thread EXCEPT ![w] = "none"]
  /\ \/ Forget(w) \/ Died(w)
     \/ w \notin sessions \cup {spare}
        /\ UNCHANGED <<spare, sessions, creating, refills, failures, missed>>
  /\ UNCHANGED stopping

PoolStep ==
  \/ Refill \/ Create
  \/ \E w \in Worker :
       \/ Ready(w) \/ CreateAnswered(w) \/ CreateRefused(w) \/ Destroy(w) \/ Stopped(w)
       \/ Ends(w) \/ ExitHeard(w)

----------------------------------------------------------------------------
(* Every thread that runs is the spare, a session's, or being stopped; and  *)
(* nobody is handed, or waits for, a thread whose end was heard.            *)
ThreadsAccounted ==
  /\ \A w \in Worker : Alive(w) => w \in sessions \cup stopping \cup {spare}
  /\ \A w \in sessions \cup ({spare} \ {None}) : thread[w] # "none"

(* With no session left, nothing being stopped and no refill due, there is  *)
(* a spare: except when spares keep failing, and when the last create       *)
(* failed where its refill had been declined.                               *)
Idle == sessions = {} /\ stopping = {} /\ refills = 0
PoolRefilled(up) == up /\ Idle /\ spare = None => failures >= MaxSpareFailures \/ missed
=============================================================================
