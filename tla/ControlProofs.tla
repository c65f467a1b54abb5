---------------------------- MODULE ControlProofs ----------------------------
(***************************************************************************)
(* Theorems of Control, for every number of commands and of daemons: its    *)
(* types, SocketIsServed and OneRestart.                                    *)
(***************************************************************************)
EXTENDS Control, TLAPS

Phases == Inside \cup Ended \cup {"idle", "asking", "waiting", "again",
            "locking", "stealing", "reopening", "replaying"}
States == Rising \cup {"none", "serving", "deaf", "leaving", "closed"}

(* What a command does to the daemons: nothing, a verb that one of them     *)
(* serves, or a new process.                                                *)
Touches ==
  \/ UNCHANGED daemonVars
  \/ \E d \in Daemon :
       /\ Answers(d) /\ (st' = st \/ Turns(d, "leaving"))
       /\ shown' \in BOOLEAN /\ UNCHANGED <<instance, sock>>
  \/ /\ \E d \in Daemon : Spawned(d)
     /\ shown' \in BOOLEAN /\ UNCHANGED <<instance, sock>>

(* A verb is one of the ways to touch a daemon.                             *)
LEMMA ServeTouches ==
  ASSUME TypeOK, NEW d \in Daemon, NEW v, Answers(d), Serve(d, v)
  PROVE  Touches
BY DEF TypeOK, Serve, Touches

LEMMA NoReplyTouches ==
  ASSUME TypeOK, NEW v, NoReply(v)
  PROVE  Touches /\ mishaps \subseteq mishaps' /\ mishaps' \subseteq mishaps \cup {"late", "raced"}
<1>1. CASE ~Answered /\ UNCHANGED <<daemonVars, mishaps>>
  BY <1>1 DEF Touches
<1>2. CASE Late /\ \E d \in Daemon : Answers(d) /\ Serve(d, v)
  BY <1>2, ServeTouches DEF Late
<1> QED
  BY <1>1, <1>2 DEF NoReply

(* A step of a command moves its own phase, records at most a deadline      *)
(* missed or a race, and touches the daemons in one of those ways.          *)
CommandMove(c) ==
  /\ \E p \in Phases : phase' = [phase EXCEPT ![c] = p]
  /\ verb' = verb /\ lock' \in Cli \cup {Before, None} /\ stale' \in BOOLEAN
  /\ mishaps \subseteq mishaps' /\ mishaps' \subseteq mishaps \cup {"late", "raced"}
  /\ Touches

LEMMA CommandMoves ==
  ASSUME TypeOK, NEW c \in Cli, CommandStep(c)
  PROVE  CommandMove(c)
<1> USE DEF TypeOK, Goes, Inside, Ended, Phases, CommandMove
<1>1. CASE AskServed(c)
  BY <1>1, ServeTouches DEF AskServed
<1>2. CASE AskUnserved(c)
  BY <1>2, NoReplyTouches DEF AskUnserved
<1>3. CASE AskStarts(c)
  BY <1>3 DEF AskStarts, Touches, daemonVars, Late, Answered
<1>4. CASE AgainUnserved(c)
  BY <1>4, NoReplyTouches DEF AgainUnserved
<1>5. CASE WaitServed(c)
  BY <1>5 DEF WaitServed, Touches, daemonVars
<1>6. CASE WaitExpires(c)
  BY <1>6 DEF WaitExpires, Touches, daemonVars, Expires, Late
<1>7. CASE TakeLock(c)
  BY <1>7 DEF TakeLock, Creates, Touches, daemonVars
<1>8. CASE Judge(c)
  BY <1>8 DEF Judge, Touches, daemonVars
<1>9. CASE Steal(c)
  BY <1>9 DEF Steal, Touches, daemonVars
<1>10. CASE TakeStolen(c)
  BY <1>10 DEF TakeStolen, Creates, Touches, daemonVars
<1>11. CASE LockLost(c)
  BY <1>11 DEF LockLost, Touches, daemonVars
<1>12. CASE AskQuit(c)
  BY <1>12, ServeTouches, NoReplyTouches DEF AskQuit
<1>13. CASE Drained(c)
  BY <1>13 DEF Drained, Touches, daemonVars, Late
<1>14. CASE StartNew(c)
  BY <1>14 DEF StartNew, Touches
<1>15. CASE Restarted(c)
  BY <1>15 DEF Restarted, Release, Touches, daemonVars
<1>16. CASE NotRestarted(c)
  BY <1>16 DEF NotRestarted, Release, Touches, daemonVars, Expires, Late
<1>17. CASE Replay(c)
  BY <1>17, ServeTouches, NoReplyTouches DEF Replay
<1> QED
  BY <1>1, <1>2, <1>3, <1>4, <1>5, <1>6, <1>7, <1>8, <1>9, <1>10, <1>11, <1>12, <1>13, <1>14, <1>15, <1>16, <1>17
     DEF CommandStep

(* A step of a daemon changes no command, and records at most a late exit.  *)
DaemonMove(d) ==
  /\ UNCHANGED commandVars
  /\ mishaps \subseteq mishaps' /\ mishaps' \subseteq mishaps \cup {"late", "crash"}
  /\ \E s \in States : Turns(d, s)
  /\ instance' \in {instance, d, None} /\ sock' \in {sock, d, None} /\ shown' \in BOOLEAN

LEMMA DaemonMoves ==
  ASSUME TypeOK, NEW d \in Daemon, DaemonStep(d) \/ Signal(d) \/ DaemonCrash(d)
  PROVE  DaemonMove(d)
BY DEF TypeOK, DaemonStep, Boot, Bounce, Prepare, Probe, Clear, Bind, Quit, Exit, Signal,
       DaemonCrash, DaemonMove, Turns, Late, States, Rising, HasPanel

(* Every variable keeps to its values.                                     *)
THEOREM ControlTypeOK == Spec => []TypeOK
<1>1. Init => TypeOK
  BY ControlAssumption DEF Init, TypeOK, Inside, Ended, Rising
<1>2. TypeOK /\ [Next]_vars => TypeOK'
  <2> SUFFICES ASSUME TypeOK, [Next]_vars PROVE TypeOK'
    OBVIOUS
  <2>1. ASSUME NEW c \in Cli, Press(c) PROVE TypeOK'
    BY <2>1 DEF TypeOK, Press, Goes, daemonVars, Inside, Ended
  <2>2. ASSUME NEW c \in Cli, CommandStep(c) PROVE TypeOK'
    <3>1. CommandMove(c)
      BY <2>2, CommandMoves
    <3>2. verb' \in [Cli -> Verbs \cup {None}] /\ phase' \in [Cli -> Phases]
      BY <3>1 DEF TypeOK, CommandMove, Phases
    <3>3. lock' \in Cli \cup {Before, None} /\ stale' \in BOOLEAN
      BY <3>1 DEF CommandMove
    <3>4. mishaps' \subseteq {"late", "raced", "killed", "crash"}
      BY <3>1 DEF TypeOK, CommandMove
    <3>5. st' \in [Daemon -> States] /\ shown' \in BOOLEAN /\ UNCHANGED <<instance, sock>>
      BY <3>1 DEF TypeOK, CommandMove, Touches, daemonVars, Turns, Spawned, States, Rising
    <3> QED
      BY <3>2, <3>3, <3>4, <3>5 DEF TypeOK, Phases, States
  <2>3. ASSUME NEW c \in Cli, Killed(c) PROVE TypeOK'
    BY <2>3 DEF TypeOK, Killed, Goes, daemonVars, Inside, Ended
  <2>4. CASE LockAges
    BY <2>4 DEF TypeOK, LockAges, daemonVars, Late
  <2>5. ASSUME NEW d \in Daemon, DaemonStep(d) \/ Signal(d) \/ DaemonCrash(d) PROVE TypeOK'
    BY <2>5, DaemonMoves DEF TypeOK, DaemonMove, Turns, States, commandVars
  <2>6. CASE UNCHANGED vars
    BY <2>6 DEF TypeOK, vars, commandVars, daemonVars
  <2> QED
    BY <2>1, <2>2, <2>3, <2>4, <2>5, <2>6 DEF Next
<1> QED
  BY <1>1, <1>2, PTL DEF Spec

----------------------------------------------------------------------------
(* SocketIsServed rests on the instance lock: whoever is past it, and not   *)
(* gone, holds it, so nobody else is there to unlink the file or bind it.   *)
Past(d) == st[d] \notin {"none", "booting"}

SocketInv ==
  /\ TypeOK
  /\ \A d \in Daemon : Past(d) => instance = d
  /\ \A d \in Daemon : st[d] = "serving" => sock = d

(* For any number of daemons, the one that serves is behind the socket.     *)
THEOREM OneSocketServed == Spec => []SocketIsServed
<1>1. Init => SocketInv
  <2> SUFFICES ASSUME Init PROVE SocketInv
    OBVIOUS
  <2>1. TypeOK
    BY ControlAssumption DEF Init, TypeOK, Inside, Ended, Rising
  <2> QED
    BY <2>1, ControlAssumption DEF Init, SocketInv, Past
<1>2. SocketInv /\ TypeOK' /\ [Next]_vars => SocketInv'
  <2> SUFFICES ASSUME SocketInv, TypeOK', [Next]_vars PROVE SocketInv'
    OBVIOUS
  <2> USE DEF SocketInv, Past
  <2>1. ASSUME UNCHANGED daemonVars PROVE SocketInv'
    BY <2>1 DEF daemonVars
  <2>2. ASSUME NEW c \in Cli, CommandStep(c) PROVE SocketInv'
    <3>1. Touches
      BY <2>2, CommandMoves DEF CommandMove
    <3>2. ASSUME NEW d \in Daemon, Answers(d), st' = st \/ Turns(d, "leaving"),
                 UNCHANGED <<instance, sock>>
          PROVE  SocketInv'
      BY <3>2 DEF Answers, Turns, TypeOK
    <3>3. ASSUME NEW d \in Daemon, Spawned(d), UNCHANGED <<instance, sock>>
          PROVE  SocketInv'
      BY <3>3 DEF Spawned, Turns, TypeOK
    <3> QED
      BY <3>1, <3>2, <3>3, <2>1 DEF Touches
  <2>3. ASSUME NEW d \in Daemon, DaemonStep(d) PROVE SocketInv'
    <3>1. CASE Boot(d)
      BY <3>1, ControlAssumption DEF Boot, Turns, TypeOK
    <3>2. CASE Bounce(d)
      BY <3>2 DEF Bounce, Turns, TypeOK
    <3>3. CASE Prepare(d)
      BY <3>3 DEF Prepare, Turns, TypeOK
    <3>4. CASE Probe(d)
      BY <3>4 DEF Probe, Turns, TypeOK, Answered, Answers
    <3>5. CASE Clear(d)
      BY <3>5 DEF Clear, Turns, TypeOK
    <3>6. CASE Bind(d)
      BY <3>6 DEF Bind, Turns, TypeOK
    <3>7. CASE Quit(d)
      BY <3>7 DEF Quit, Turns, TypeOK
    <3>8. CASE Exit(d)
      BY <3>8 DEF Exit, Turns, TypeOK
    <3> QED
      BY <2>3, <3>1, <3>2, <3>3, <3>4, <3>5, <3>6, <3>7, <3>8 DEF DaemonStep
  <2>4. ASSUME NEW d \in Daemon, Signal(d) PROVE SocketInv'
    BY <2>4 DEF Signal, HasPanel, Turns, TypeOK
  <2>5. ASSUME NEW d \in Daemon, DaemonCrash(d) PROVE SocketInv'
    BY <2>5 DEF DaemonCrash, Turns, TypeOK
  <2> QED
    BY <2>1, <2>2, <2>3, <2>4, <2>5 DEF Next, Press, Killed, LockAges, vars
<1>3. SocketInv => SocketIsServed
  BY DEF SocketInv, SocketIsServed, Past
<1> QED
  BY <1>1, <1>2, <1>3, ControlTypeOK, PTL DEF Spec

----------------------------------------------------------------------------
(* While no race and no late holder is on record, whoever is inside made    *)
(* the file that is there, and a stale one is a dead command's.             *)
Clean == mishaps \cap {"raced", "late"} = {}

LockInv ==
  /\ TypeOK
  /\ Clean => /\ \A c \in Cli : phase[c] \in Inside => lock = c
              /\ stale /\ lock \in Cli => phase[lock] = "killed"

(* For any number of commands, two restart at once only after a race for a  *)
(* dead lock or a holder that is late.                                      *)
THEOREM OneRestartAtATime == Spec => []OneRestart
<1> USE ControlAssumption DEF LockInv, Clean, Inside
<1>1. Init => LockInv
  <2> SUFFICES ASSUME Init PROVE LockInv
    OBVIOUS
  <2>1. TypeOK
    BY ControlAssumption DEF Init, TypeOK, Ended, Rising
  <2> QED
    BY <2>1 DEF Init
<1>2. LockInv /\ TypeOK' /\ [Next]_vars => LockInv'
  <2> SUFFICES ASSUME LockInv, TypeOK', [Next]_vars, Clean' PROVE LockInv'
    OBVIOUS
  <2>0. ASSUME mishaps \subseteq mishaps' PROVE Clean
    BY <2>0
  <2>1. ASSUME NEW c \in Cli, Press(c) PROVE LockInv'
    BY <2>1 DEF Press, Goes, TypeOK
  <2>2. ASSUME NEW c \in Cli, CommandStep(c) PROVE LockInv'
    <3>0. Clean
      BY <2>2, <2>0, CommandMoves DEF CommandMove
    <3>1. CASE AskServed(c)
      BY <3>0, <3>1 DEF AskServed, Goes, TypeOK
    <3>2. CASE AskUnserved(c)
      BY <3>0, <3>2 DEF AskUnserved, Goes, TypeOK
    <3>3. CASE AskStarts(c)
      BY <3>0, <3>3 DEF AskStarts, Goes, TypeOK
    <3>4. CASE AgainUnserved(c)
      BY <3>0, <3>4 DEF AgainUnserved, Goes, TypeOK
    <3>5. CASE WaitServed(c)
      BY <3>0, <3>5 DEF WaitServed, Goes, TypeOK
    <3>6. CASE WaitExpires(c)
      BY <3>0, <3>6 DEF WaitExpires, Goes, TypeOK
    <3>7. CASE TakeLock(c)
      BY <3>0, <3>7 DEF TakeLock, Goes, TypeOK, Creates
    <3>8. CASE Judge(c)
      BY <3>0, <3>8 DEF Judge, Goes, TypeOK
    <3>9. CASE Steal(c)
      BY <3>0, <3>9 DEF Steal, Goes, TypeOK
    <3>10. CASE TakeStolen(c)
      BY <3>0, <3>10 DEF TakeStolen, Goes, TypeOK, Creates
    <3>11. CASE LockLost(c)
      BY <3>0, <3>11 DEF LockLost, Goes, TypeOK
    <3>12. CASE AskQuit(c)
      BY <3>0, <3>12 DEF AskQuit, Goes, TypeOK
    <3>13. CASE Drained(c)
      BY <3>0, <3>13 DEF Drained, Goes, TypeOK
    <3>14. CASE StartNew(c)
      BY <3>0, <3>14 DEF StartNew, Goes, TypeOK
    <3>15. CASE Restarted(c)
      BY <3>0, <3>15 DEF Restarted, Goes, TypeOK, Release
    <3>16. CASE NotRestarted(c)
      BY <3>0, <3>16 DEF NotRestarted, Goes, TypeOK, Release
    <3>17. CASE Replay(c)
      BY <3>0, <3>17 DEF Replay, Goes, TypeOK
    <3> QED
      BY <2>2, <3>1, <3>2, <3>3, <3>4, <3>5, <3>6, <3>7, <3>8, <3>9, <3>10, <3>11, <3>12, <3>13, <3>14, <3>15, <3>16, <3>17
         DEF CommandStep
  <2>3. ASSUME NEW c \in Cli, Killed(c) PROVE LockInv'
    BY <2>3, <2>0 DEF Killed, Goes, TypeOK
  <2>4. CASE LockAges
    BY <2>4, <2>0 DEF LockAges, Late, TypeOK
  <2>5. ASSUME NEW d \in Daemon, DaemonStep(d) \/ Signal(d) \/ DaemonCrash(d) PROVE LockInv'
    BY <2>5, <2>0, DaemonMoves DEF DaemonMove, commandVars
  <2>6. CASE UNCHANGED vars
    BY <2>6 DEF vars, commandVars
  <2> QED
    BY <2>1, <2>2, <2>3, <2>4, <2>5, <2>6 DEF Next
<1>3. LockInv => OneRestart
  BY DEF OneRestart
<1> QED
  BY <1>1, <1>2, <1>3, ControlTypeOK, PTL DEF Spec
=============================================================================
