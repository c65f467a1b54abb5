----------------------------- MODULE Supervisor -----------------------------
(***************************************************************************)
(* The daemon's hold on the extension host process (ExtensionHost of        *)
(* src/main/extensions/host.ts, backoff.ts): forked by the first launch or  *)
(* the pre-start, forked again after a death but not before a delay that    *)
(* grows while the deaths follow each other closely.  Time is a clock of    *)
(* abstract ticks.                                                          *)
(***************************************************************************)
EXTENDS WarmPool, Sequences

CONSTANTS
  Delays,    \* RESTART_DELAYS_MS, in ticks
  Healthy,   \* HEALTHY_UPTIME_MS, in ticks
  MaxNow     \* bound: the clock

ASSUME SupervisorAssumption ==
  /\ Delays \in Seq(Nat \ {0}) /\ Delays # <<>>
  /\ \A i \in 1..(Len(Delays) - 1) : Delays[i] <= Delays[i + 1]
  /\ Delays[Len(Delays)] <= Healthy
  /\ Healthy \in Nat /\ MaxNow \in Nat

VARIABLES
  now,
  process,    \* the host: "none", "up", "ended" (its exit not heard yet)
  peer,       \* the daemon has a peer
  restarts, nextForkAt, forkedAt,
  probing,    \* a status read waits for the ping of the host
  closed,     \* dispose was called: the daemon is quitting
  forks       \* history: when the host was forked

daemonVars == <<peer, restarts, nextForkAt, forkedAt, closed>>
vars == <<poolVars, now, process, daemonVars, probing, forks>>

Init ==
  /\ PoolInit /\ now = 0 /\ process = "none" /\ peer = FALSE
  /\ restarts = 0 /\ nextForkAt = 0 /\ forkedAt = 0
  /\ probing = FALSE /\ closed = FALSE /\ forks = <<>>

RestartDelay(n) == Delays[IF n < Len(Delays) THEN n + 1 ELSE Len(Delays)]

(* ensure: a launch, or the pre-start.  Before nextForkAt it throws, and    *)
(* nothing changes.                                                         *)
Ensure ==
  /\ ~closed /\ ~peer /\ process = "none" /\ now >= nextForkAt
  /\ FreshPool
  /\ process' = "up" /\ peer' = TRUE /\ forkedAt' = now
  /\ forks' = Append(forks, now)
  /\ UNCHANGED <<now, restarts, nextForkAt, probing, closed>>

PoolRuns ==
  /\ process = "up" /\ PoolStep
  /\ UNCHANGED <<now, process, daemonVars, probing, forks>>

HostEnds ==
  /\ process = "up" /\ process' = "ended" /\ NoPool
  /\ UNCHANGED <<now, daemonVars, probing, forks>>

(* A fault: any death is a new incident.                                    *)
StreakForgotten == 0

(* onHostExit.  Uptime, and not an answer since, says whether this death    *)
(* follows the last one.  The peer's pending calls are rejected with it.    *)
Streak == IF now - forkedAt >= Healthy THEN 0 ELSE restarts

HostExitHeard ==
  /\ process = "ended" /\ process' = "none" /\ peer' = FALSE
  /\ IF peer
     THEN /\ restarts' = Streak + 1
          /\ nextForkAt' = now + RestartDelay(Streak)
     ELSE UNCHANGED <<restarts, nextForkAt>>
  /\ probing' = FALSE
  /\ UNCHANGED <<poolVars, now, forkedAt, closed, forks>>

(* probe: a host that is not there is not forked for it; the answer, its    *)
(* absence at the deadline, and the death of the host each end it.          *)
Probe == peer /\ ~probing /\ probing' = TRUE
         /\ UNCHANGED <<poolVars, now, process, daemonVars, forks>>
ProbeEnds == probing /\ probing' = FALSE
             /\ UNCHANGED <<poolVars, now, process, daemonVars, forks>>

Dispose ==
  /\ ~closed /\ closed' = TRUE /\ peer' = FALSE
  /\ process' = IF process = "none" THEN "none" ELSE "ended"
  /\ NoPool /\ probing' = FALSE
  /\ UNCHANGED <<now, restarts, nextForkAt, forkedAt, forks>>

Tick ==
  /\ now < MaxNow /\ now' = now + 1
  /\ UNCHANGED <<poolVars, process, daemonVars, probing, forks>>

Next ==
  \/ Ensure \/ PoolRuns \/ HostEnds \/ HostExitHeard \/ Probe \/ ProbeEnds \/ Dispose \/ Tick

Spec == Init /\ [][Next]_vars

----------------------------------------------------------------------------
TypeOK ==
  /\ thread \in [Worker -> {"none", "warming", "ready", "ended"}]
  /\ spare \in Worker \cup {None}
  /\ sessions \subseteq Worker /\ creating \subseteq Worker /\ stopping \subseteq Worker
  /\ refills \in 0..MaxTimers + 1 /\ failures \in 0..MaxSpareFailures
  /\ now \in 0..MaxNow /\ process \in {"none", "up", "ended"}
  /\ restarts \in Nat /\ nextForkAt \in Nat /\ forkedAt \in 0..MaxNow
  /\ {peer, probing, closed, missed} \subseteq BOOLEAN

(* A host that dies at once, again and again, is not forked more often than *)
(* there are delays within the longest of them: a key held on a broken      *)
(* extension does not spin the machine.                                     *)
ForksAreSpaced ==
  LET n == Len(forks) k == Len(Delays)
  IN  n > k => forks[n] - forks[n - k] >= Delays[k]

SpareComesBack == PoolRefilled(process = "up")
=============================================================================
