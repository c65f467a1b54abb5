-------------------------- MODULE SupervisorProofs --------------------------
(***************************************************************************)
(* Theorems of Supervisor, for every number of threads, every ceiling and   *)
(* every table of delays.                                                   *)
(***************************************************************************)
EXTENDS Supervisor, FiniteSetTheorems, TLAPS

(* Of the threads: that the three places a thread may be in are apart is    *)
(* what makes the steps of one harmless to the others.                      *)
ThreadInv ==
  /\ thread \in [Worker -> {"none", "warming", "ready", "ended"}]
  /\ spare \in Worker \cup {None}
  /\ sessions \subseteq Worker /\ stopping \subseteq Worker
  /\ spare \notin sessions \cup stopping /\ sessions \cap stopping = {}
  /\ ThreadsAccounted

LEMMA PoolKeepsThreads ==
  ASSUME ThreadInv, PoolStep
  PROVE  ThreadInv'
<1> USE PoolAssumption DEF ThreadInv, ThreadsAccounted, Alive
<1>1. CASE Refill
  BY <1>1 DEF Refill, Spawn, Free
<1>2. CASE Create
  BY <1>2 DEF Create, Spawn, Free, TopUp
<1>3. ASSUME NEW w \in Worker, Ready(w) PROVE ThreadInv'
  BY <1>3 DEF Ready
<1>4. ASSUME NEW w \in Worker, CreateAnswered(w) PROVE ThreadInv'
  BY <1>4 DEF CreateAnswered
<1>5. ASSUME NEW w \in Worker, CreateRefused(w) PROVE ThreadInv'
  BY <1>5 DEF CreateRefused
<1>6. ASSUME NEW w \in Worker, Destroy(w) PROVE ThreadInv'
  BY <1>6 DEF Destroy
<1>7. ASSUME NEW w \in Worker, Stopped(w) PROVE ThreadInv'
  BY <1>7 DEF Stopped, TopUp
<1>8. ASSUME NEW w \in Worker, Ends(w) PROVE ThreadInv'
  BY <1>8 DEF Ends
<1>9. ASSUME NEW w \in Worker, ExitHeard(w) PROVE ThreadInv'
  BY <1>9 DEF ExitHeard, Forget, Died, TopUp
<1> QED
  BY <1>1, <1>2, <1>3, <1>4, <1>5, <1>6, <1>7, <1>8, <1>9 DEF PoolStep

LEMMA NewPoolThreads ==
  ASSUME NEW first \in Worker \cup {None},
         \/ first = None /\ PoolBecomes(NoThread, None)
         \/ first # None /\ PoolBecomes([NoThread EXCEPT ![first] = "warming"], first)
  PROVE  ThreadInv'
BY PoolAssumption DEF ThreadInv, ThreadsAccounted, Alive, PoolBecomes, NoThread

LEMMA ThreadsStep == ThreadInv /\ [Next]_vars => ThreadInv'
<1> SUFFICES ASSUME ThreadInv, [Next]_vars PROVE ThreadInv'
  OBVIOUS
<1>1. CASE Ensure
  BY <1>1, NewPoolThreads, PoolAssumption DEF Ensure, FreshPool
<1>2. CASE PoolRuns
  BY <1>2, PoolKeepsThreads DEF PoolRuns
<1>3. CASE HostEnds \/ Dispose
  BY <1>3, NewPoolThreads DEF HostEnds, Dispose, NoPool
<1>4. ASSUME UNCHANGED poolVars PROVE ThreadInv'
  BY <1>4 DEF poolVars, ThreadInv, ThreadsAccounted, Alive
<1> QED
  BY <1>1, <1>2, <1>3, <1>4
     DEF Next, HostExitHeard, Probe, ProbeEnds, Tick, vars

LEMMA ThreadsHold == Spec => []ThreadInv
<1>1. Init => ThreadInv
  BY PoolAssumption DEF Init, PoolInit, NoThread, ThreadInv, ThreadsAccounted, Alive
<1> QED
  BY <1>1, ThreadsStep, PTL DEF Spec

(* For any number of threads and any ceiling: every thread that runs is     *)
(* accounted for, and nobody waits for one that has ended.                  *)
THEOREM EveryThreadAccounted == Spec => []ThreadsAccounted
<1>1. ThreadInv => ThreadsAccounted
  BY DEF ThreadInv
<1> QED
  BY <1>1, ThreadsHold, PTL

----------------------------------------------------------------------------
(* SpareComesBack.  Whatever empties an idle pool asks for a refill in the  *)
(* same step, or has counted one spare too many that failed, or is the      *)
(* create that missed; and a refill that comes due finds room when there is *)
(* no session.                                                              *)
SpareInv ==
  /\ refills \in Nat /\ failures \in Nat
  /\ SpareComesBack

LEMMA AskedFor ==
  ASSUME refills \in Nat, failures' \in Nat, TopUp
  PROVE  refills' \in Nat /\ (refills' > 0 \/ failures' >= MaxSpareFailures)
BY PoolAssumption DEF TopUp

LEMMA PoolKeepsSpare ==
  ASSUME ThreadInv, SpareInv, PoolStep, process = "up", process' = "up"
  PROVE  SpareInv'
<1> USE DEF SpareInv, SpareComesBack, PoolRefilled, Idle
<1>1. CASE Refill
  <2>1. refills' \in Nat /\ UNCHANGED <<sessions, stopping, failures>>
    BY <1>1 DEF Refill
  <2>2. sessions = {} => Cardinality(sessions) < MaxSessions
    <3>1. Cardinality({}) = 0
      BY FS_EmptySet
    <3> QED
      BY <3>1, PoolAssumption
  <2>3. spare = None /\ sessions = {} => spare' \in Worker
    BY <1>1, <2>2 DEF Refill
  <2>4. spare # None => spare' # None
    BY <1>1 DEF Refill
  <2> QED
    BY <2>1, <2>3, <2>4, PoolAssumption
<1>2. CASE Create
  <2>1. sessions' # {}
    BY <1>2 DEF Create
  <2>2. refills' \in Nat /\ failures' \in Nat
    BY <1>2, AskedFor DEF Create
  <2> QED
    BY <2>1, <2>2
<1>3. ASSUME NEW w \in Worker, Ready(w) PROVE SpareInv'
  <2>1. w \in sessions \cup stopping \cup {spare}
    BY <1>3 DEF Ready, ThreadInv, ThreadsAccounted, Alive
  <2> QED
    BY <1>3, <2>1, PoolAssumption DEF Ready
<1>4. ASSUME NEW w \in Worker, CreateAnswered(w) \/ Ends(w) PROVE SpareInv'
  BY <1>4 DEF CreateAnswered, Ends
<1>5. ASSUME NEW w \in Worker, CreateRefused(w) PROVE SpareInv'
  BY <1>5 DEF CreateRefused
<1>6. ASSUME NEW w \in Worker, Destroy(w) PROVE SpareInv'
  BY <1>6 DEF Destroy
<1>7. ASSUME NEW w \in Worker, Stopped(w) PROVE SpareInv'
  <2>1. UNCHANGED failures /\ TopUp
    BY <1>7 DEF Stopped
  <2> QED
    BY <2>1, AskedFor
<1>8. ASSUME NEW w \in Worker, ExitHeard(w) PROVE SpareInv'
  <2>1. CASE Forget(w) \/ Died(w)
    <3>1. failures' \in Nat /\ TopUp
      BY <2>1 DEF Forget, Died
    <3> QED
      BY <3>1, AskedFor
  <2>2. CASE w \notin sessions \cup {spare}
             /\ UNCHANGED <<spare, sessions, creating, refills, failures, missed>>
    BY <1>8, <2>2 DEF ExitHeard
  <2> QED
    BY <1>8, <2>1, <2>2 DEF ExitHeard
<1> QED
  BY <1>1, <1>2, <1>3, <1>4, <1>5, <1>6, <1>7, <1>8 DEF PoolStep

(* For any number of threads, any ceiling and any number of failures: an    *)
(* idle host has its spare or a refill due, except after too many failures  *)
(* in a row and after a create that missed.                                 *)
THEOREM SpareAlwaysComesBack == Spec => []SpareComesBack
<1>1. Init => SpareInv
  BY DEF Init, PoolInit, SpareInv, SpareComesBack, PoolRefilled
<1>2. ThreadInv /\ SpareInv /\ [Next]_vars => SpareInv'
  <2> SUFFICES ASSUME ThreadInv, SpareInv, [Next]_vars PROVE SpareInv'
    OBVIOUS
  <2>1. CASE Ensure
    BY <2>1, PoolAssumption
       DEF Ensure, FreshPool, PoolBecomes, SpareInv, SpareComesBack, PoolRefilled
  <2>2. CASE PoolRuns
    BY <2>2, PoolKeepsSpare DEF PoolRuns
  <2>3. CASE HostEnds \/ Dispose
    BY <2>3 DEF HostEnds, Dispose, NoPool, PoolBecomes, SpareInv, SpareComesBack, PoolRefilled
  <2>4. ASSUME UNCHANGED poolVars, process' \in {process, "none"} PROVE SpareInv'
    BY <2>4 DEF poolVars, SpareInv, SpareComesBack, PoolRefilled, Idle
  <2> QED
    BY <2>1, <2>2, <2>3, <2>4
       DEF Next, HostExitHeard, Probe, ProbeEnds, Tick, vars
<1>3. SpareInv => SpareComesBack
  BY DEF SpareInv
<1> QED
  BY <1>1, <1>2, <1>3, ThreadsHold, PTL DEF Spec

----------------------------------------------------------------------------
(* ForksAreSpaced.  restarts counts the latest deaths that came early, so   *)
(* any longer run of forks holds an uptime of Healthy; and after as many as *)
(* there are delays, the longest is what the next fork waited for.  Between *)
(* a death and the next fork the same is said of a fork that came now.      *)
Longest == Delays[Len(Delays)]

\* what is true of a fork at this moment, after n others
Spaced(at, n) ==
  /\ \A j \in 1..n : n + 1 - j > restarts => at - forks[j] >= Healthy
  /\ restarts >= Len(Delays) /\ n > 0 => at - forks[n] >= Longest

ClockInv ==
  /\ now \in Nat /\ restarts \in Nat /\ nextForkAt \in Nat
  /\ peer \in BOOLEAN /\ closed \in BOOLEAN
  /\ forks \in Seq(Nat)
  /\ \A i \in 1..Len(forks) : forks[i] <= now
  /\ \A i \in 1..Len(forks), j \in 1..Len(forks) : i <= j => forks[i] <= forks[j]

ForkInv ==
  /\ ClockInv
  /\ peer => Len(forks) > 0 /\ forkedAt = forks[Len(forks)] /\ Spaced(forkedAt, Len(forks) - 1)
  /\ ~peer /\ ~closed =>
       /\ \A j \in 1..Len(forks) : Len(forks) + 1 - j > restarts => now - forks[j] >= Healthy
       /\ restarts >= Len(Delays) /\ Len(forks) > 0 => nextForkAt - forks[Len(forks)] >= Longest
  /\ ForksAreSpaced

LEMMA LongestDelay ==
  Len(Delays) \in Nat \ {0} /\ Longest \in Nat /\ Longest <= Healthy /\ Healthy \in Nat
BY SupervisorAssumption DEF Longest

LEMMA DelaysGrow ==
  ASSUME NEW n \in Nat
  PROVE  RestartDelay(n) \in Nat /\ (n + 1 >= Len(Delays) => RestartDelay(n) = Longest)
BY SupervisorAssumption DEF RestartDelay, Longest

(* A fork once the delay is over.                                           *)
LEMMA EnsureSpaced ==
  ASSUME ForkInv, Ensure
  PROVE  ForkInv'
<1>1. /\ ~peer /\ ~closed /\ peer' /\ peer' \in BOOLEAN /\ now >= nextForkAt
      /\ forks' = Append(forks, now) /\ forkedAt' = now
      /\ UNCHANGED <<now, restarts, nextForkAt, closed>>
  BY DEF Ensure
<1>2. /\ now \in Nat /\ restarts \in Nat /\ nextForkAt \in Nat /\ closed \in BOOLEAN /\ Len(forks) \in Nat
      /\ forks \in Seq(Nat) /\ \A j \in 1..Len(forks) : forks[j] \in Nat /\ forks[j] <= now
  BY DEF ForkInv, ClockInv
<1>3. \A i \in 1..Len(forks), j \in 1..Len(forks) : i <= j => forks[i] <= forks[j]
  BY DEF ForkInv, ClockInv
<1>4. /\ Len(forks') = Len(forks) + 1 /\ forks' \in Seq(Nat) /\ forks'[Len(forks) + 1] = now
      /\ \A j \in 1..Len(forks) : forks'[j] = forks[j]
  BY <1>1, <1>2
<1>5. \A j \in 1..Len(forks) : Len(forks) + 1 - j > restarts => now - forks[j] >= Healthy
  BY <1>1 DEF ForkInv
<1>6. restarts >= Len(Delays) /\ Len(forks) > 0 => now - forks[Len(forks)] >= Longest
  <2> SUFFICES ASSUME restarts >= Len(Delays), Len(forks) > 0 PROVE now - forks[Len(forks)] >= Longest
    OBVIOUS
  <2>1. nextForkAt - forks[Len(forks)] >= Longest
    BY <1>1 DEF ForkInv
  <2>2. forks[Len(forks)] \in Nat
    BY <1>2
  <2> QED
    BY <2>1, <2>2, <1>1, <1>2, LongestDelay
<1>7. ClockInv'
  <2>1. \A j \in 1..(Len(forks) + 1) : forks'[j] <= now
    BY <1>2, <1>4
  <2>2. ASSUME NEW i \in 1..(Len(forks) + 1), NEW j \in 1..(Len(forks) + 1), i <= j PROVE forks'[i] <= forks'[j]
    <3>1. CASE j = Len(forks) + 1
      BY <2>1, <3>1, <1>4
    <3>2. CASE j # Len(forks) + 1
      <4>1. i \in 1..Len(forks) /\ j \in 1..Len(forks)
        BY <1>2, <2>2, <3>2
      <4> QED
        BY <2>2, <4>1, <1>3, <1>4
    <3> QED
      BY <3>1, <3>2
  <2>3. /\ forks' \in Seq(Nat) /\ Len(forks') = Len(forks) + 1 /\ now' = now
        /\ now' \in Nat /\ restarts' \in Nat /\ nextForkAt' \in Nat /\ peer' \in BOOLEAN /\ closed' \in BOOLEAN
    BY <1>1, <1>2, <1>4
  <2> QED
    BY <2>1, <2>2, <2>3 DEF ClockInv
<1>8. Spaced(forkedAt, Len(forks) - 1)'
  <2>1. Len(forks') - 1 = Len(forks)
    BY <1>2, <1>4
  <2>2. \A j \in 1..Len(forks) : Len(forks) + 1 - j > restarts => now - forks'[j] >= Healthy
    BY <1>4, <1>5
  <2>3. restarts >= Len(Delays) /\ Len(forks) > 0 => now - forks'[Len(forks)] >= Longest
    BY <1>2, <1>4, <1>6
  <2> QED
    BY <2>1, <2>2, <2>3, <1>1 DEF Spaced, Longest
<1>9. ForksAreSpaced'
  <2>0. Len(Delays) \in Nat \ {0} /\ Delays[Len(Delays)] = Longest
    BY LongestDelay DEF Longest
  <2> SUFFICES ASSUME Len(forks) + 1 > Len(Delays) PROVE forks'[Len(forks) + 1] - forks'[Len(forks) + 1 - Len(Delays)] >= Longest
    BY <1>4, <2>0 DEF ForksAreSpaced
  <2>1. Len(forks) + 1 - Len(Delays) \in 1..Len(forks) /\ Len(forks) \in 1..Len(forks)
    BY <1>2, <2>0
  <2>2. forks'[Len(forks) + 1 - Len(Delays)] = forks[Len(forks) + 1 - Len(Delays)] /\ forks[Len(forks) + 1 - Len(Delays)] \in Nat /\ forks[Len(forks)] \in Nat
    BY <1>2, <1>4, <2>1
  <2>3. CASE Len(Delays) > restarts
    <3>1. Len(forks) + 1 - (Len(forks) + 1 - Len(Delays)) > restarts
      BY <1>2, <2>0, <2>3
    <3>2. now - forks[Len(forks) + 1 - Len(Delays)] >= Healthy
      BY <3>1, <1>5, <2>1
    <3>3. Longest \in Nat /\ Healthy \in Nat /\ Longest <= Healthy /\ now \in Nat
      BY <1>2, LongestDelay
    <3>4. now - forks[Len(forks) + 1 - Len(Delays)] >= Longest
      BY <3>2, <3>3, <2>2
    <3> QED
      BY <3>4, <2>2, <1>4
  <2>4. CASE restarts >= Len(Delays)
    <3>1. now - forks[Len(forks)] >= Longest
      BY <1>6, <2>1, <2>4
    <3>2. forks[Len(forks) + 1 - Len(Delays)] <= forks[Len(forks)]
      BY <1>2, <1>3, <2>0, <2>1
    <3>3. now - forks[Len(forks) + 1 - Len(Delays)] >= Longest
      BY <3>1, <3>2, <2>2, <1>2, LongestDelay
    <3> QED
      BY <3>3, <2>2, <1>4
  <2> QED
    BY <2>3, <2>4, <2>0, <1>2
<1> QED
  BY <1>1, <1>4, <1>7, <1>8, <1>9, <1>2 DEF ForkInv

(* The death of a host, early or not.                                       *)
LEMMA ExitSpaced ==
  ASSUME ForkInv, HostExitHeard
  PROVE  ForkInv'
<1>1. UNCHANGED <<now, forkedAt, closed, forks>> /\ peer' = FALSE
  BY DEF HostExitHeard
<1>2. CASE ~peer
  <2>1. UNCHANGED <<restarts, nextForkAt>>
    BY <1>2 DEF HostExitHeard
  <2> QED
    BY <1>1, <1>2, <2>1 DEF ForkInv, ClockInv, ForksAreSpaced
<1>3. CASE peer
  <2>1. restarts' = Streak + 1 /\ nextForkAt' = now + RestartDelay(Streak)
    BY <1>3 DEF HostExitHeard
  <2>2. /\ now \in Nat /\ restarts \in Nat /\ Len(forks) \in Nat \ {0} /\ forkedAt = forks[Len(forks)] /\ Len(forks) \in 1..Len(forks)
        /\ \A j \in 1..Len(forks) : forks[j] \in Nat /\ forks[j] <= forks[Len(forks)] /\ forks[j] <= now
    BY <1>3 DEF ForkInv, ClockInv
  <2>3. \A j \in 1..(Len(forks) - 1) : Len(forks) - j > restarts => forkedAt - forks[j] >= Healthy
    <3>1. \A j \in 1..(Len(forks) - 1) : (Len(forks) - 1) + 1 - j > restarts => forkedAt - forks[j] >= Healthy
      BY <1>3 DEF ForkInv, Spaced
    <3> QED
      BY <3>1, <2>2
  <2>4. ForksAreSpaced /\ ClockInv
    BY DEF ForkInv
  <2>5. Streak \in Nat
    BY <2>2 DEF Streak
  <2>6. ASSUME NEW j \in 1..Len(forks), Len(forks) + 1 - j > Streak + 1 PROVE now - forks[j] >= Healthy
    <3>1. CASE now - forkedAt >= Healthy
      BY <3>1, <2>2, LongestDelay
    <3>2. CASE ~(now - forkedAt >= Healthy)
      <4>1. Streak = restarts
        BY <3>2 DEF Streak
      <4>2. j \in 1..(Len(forks) - 1) /\ Len(forks) - j > restarts
        BY <4>1, <2>6, <2>2, <2>5
      <4>3. forkedAt - forks[j] >= Healthy
        BY <4>2, <2>3
      <4> QED
        BY <4>3, <2>2, LongestDelay
    <3> QED
      BY <3>1, <3>2
  <2>a. /\ RestartDelay(Streak) \in Nat
        /\ Streak + 1 >= Len(Delays) => RestartDelay(Streak) = Longest
    BY <2>5, DelaysGrow
  <2>7. Streak + 1 >= Len(Delays) => nextForkAt' - forks[Len(forks)] >= Longest
    BY <2>1, <2>2, <2>5, <2>a, LongestDelay
  <2>8. nextForkAt' \in Nat /\ restarts' \in Nat
    BY <2>1, <2>2, <2>5, <2>a, LongestDelay
  <2>9. ForksAreSpaced' /\ ClockInv'
    BY <1>1, <2>4, <2>8 DEF ForksAreSpaced, ClockInv
  <2> QED
    BY <1>1, <2>1, <2>6, <2>7, <2>9 DEF ForkInv
<1> QED
  BY <1>2, <1>3

(* For every table of growing delays and every number of deaths: as many    *)
(* forks as there are delays take at least the longest of them.             *)
THEOREM ForksSpaced == Spec => []ForksAreSpaced
<1>1. Init => ForkInv
  <2> SUFFICES ASSUME Init PROVE ForkInv
    OBVIOUS
  <2>1. /\ now = 0 /\ peer = FALSE /\ closed = FALSE /\ restarts = 0 /\ nextForkAt = 0
        /\ forks = <<>> /\ Len(forks) = 0
    BY DEF Init
  <2>2. ClockInv
    <3>1. forks \in Seq(Nat) /\ 1..Len(forks) = {}
      BY <2>1
    <3> QED
      BY <3>1, <2>1 DEF ClockInv
  <2>3. ForksAreSpaced
    <3>1. ~(Len(forks) > Len(Delays))
      <4>1. Len(forks) = 0 /\ Len(Delays) \in Nat \ {0}
        BY <2>1, LongestDelay
      <4> QED
        BY <4>1
    <3> QED
      BY <3>1 DEF ForksAreSpaced
  <2> QED
    BY <2>1, <2>2, <2>3 DEF ForkInv
<1>2. ForkInv /\ [Next]_vars => ForkInv'
  <2> SUFFICES ASSUME ForkInv, [Next]_vars PROVE ForkInv'
    OBVIOUS
  <2>1. CASE Ensure
    BY <2>1, EnsureSpaced
  <2>2. CASE HostExitHeard
    BY <2>2, ExitSpaced
  <2>3. CASE Tick
    <3>1. now' = now + 1 /\ UNCHANGED <<peer, restarts, nextForkAt, forkedAt, closed, forks>>
      BY <2>3 DEF Tick, daemonVars
    <3>2. now \in Nat /\ \A j \in 1..Len(forks) : forks[j] \in Nat /\ forks[j] <= now
      BY DEF ForkInv, ClockInv
    <3>3. ClockInv'
      BY <3>1, <3>2 DEF ForkInv, ClockInv
    <3>4. ASSUME NEW j \in 1..Len(forks), now - forks[j] >= Healthy PROVE now' - forks[j] >= Healthy
      BY <3>1, <3>2, <3>4, LongestDelay
    <3> QED
      BY <3>1, <3>3, <3>4 DEF ForkInv, ForksAreSpaced, Spaced
  <2>4. CASE Dispose
    <3>1. closed' = TRUE /\ peer' = FALSE /\ UNCHANGED <<now, restarts, nextForkAt, forkedAt, forks>>
      BY <2>4 DEF Dispose
    <3> QED
      BY <3>1 DEF ForkInv, ClockInv, ForksAreSpaced
  <2>5. ASSUME UNCHANGED <<now, daemonVars, forks>> PROVE ForkInv'
    BY <2>5 DEF daemonVars, ForkInv, ClockInv, ForksAreSpaced, Spaced
  <2> QED
    BY <2>1, <2>2, <2>3, <2>4, <2>5 DEF Next, PoolRuns, HostEnds, Probe, ProbeEnds, vars
<1>3. ForkInv => ForksAreSpaced
  BY DEF ForkInv
<1> QED
  BY <1>1, <1>2, <1>3, PTL DEF Spec
=============================================================================
