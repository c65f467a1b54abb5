------------------------------- MODULE Control -------------------------------
(***************************************************************************)
(* The command line and the daemons it finds, starts and replaces           *)
(* (src/cli/index.ts, src/cli/client.ts, src/main/socket.ts and the ends of *)
(* src/main/daemon.ts).  Each command is a process of its own: a held key   *)
(* runs one per repeat.  What they share is three names in one directory:   *)
(* Electron's instance lock, the socket, and the lock file of a restart.    *)
(***************************************************************************)
EXTENDS FiniteSets, Naturals

CONSTANTS
  Cli,      \* commands
  Daemon,   \* slots for daemon processes; a slot is used again when its process is gone
  Old,      \* the daemon an upgrade left behind; every other one is of the commands' version
  Before,   \* a command killed earlier in the session, which may have left its lock file
  None,
  Verbs,    \* what is pressed: "toggle", "start", "ping", "quit"
  May       \* misfortunes: "kill" a command, "crash" a daemon, "late" past a deadline

ASSUME ControlAssumption ==
  /\ Old \in Daemon /\ None \notin Cli \cup Daemon /\ Before \notin Cli \cup {None}
  /\ Verbs \subseteq {"toggle", "start", "ping", "quit"}
  /\ May \subseteq {"kill", "crash", "late"}

VARIABLES
  verb,      \* what each command was called with
  phase,     \* how far it is
  lock,      \* the command that made the file socket.restart, or None if there is none
  stale,     \* that file is older than three phases
  st,        \* each daemon
  instance,  \* the daemon that holds Electron's instance lock, or None
  sock,      \* the daemon that bound the file at the socket's path, or None
  shown,     \* the panel is on screen
  mishaps    \* history: what has gone wrong so far

commandVars == <<verb, phase, lock, stale>>
daemonVars == <<st, instance, sock, shown>>
vars == <<commandVars, daemonVars, mishaps>>

Inside == {"quitting", "draining", "starting", "polling"}   \* restartIfStale, the lock taken
Ended == {"done", "failed", "killed"}
Rising == {"booting", "locked", "probing", "clearing", "binding"}

Init ==
  /\ verb = [c \in Cli |-> None] /\ phase = [c \in Cli |-> "idle"]
  /\ lock \in {None, Before} /\ stale = FALSE /\ shown = FALSE /\ mishaps = {}
  /\ \E old \in {"none", "serving"} :
       /\ st = [d \in Daemon |-> IF d = Old THEN old ELSE "none"]
       /\ instance = IF old = "serving" THEN Old ELSE None
       /\ sock \in IF old = "serving" THEN {Old} ELSE {None, Old}

Goes(c, p) == phase' = [phase EXCEPT ![c] = p]
Turns(d, s) == st' = [st EXCEPT ![d] = s]

----------------------------------------------------------------------------
(* One request over the socket: connect finds whoever listens behind the    *)
(* file.  A daemon that answers too late has served the verb all the same.  *)
Answers(d) == sock = d /\ st[d] = "serving"
Answered == \E d \in Daemon : Answers(d)

\* handleVerb, for what a command asks: a toggle, the end, nothing
Serve(d, v) ==
  /\ shown' = IF v = "toggle" THEN ~shown ELSE shown
  /\ IF v = "quit" THEN Turns(d, "leaving") ELSE UNCHANGED st
  /\ UNCHANGED <<instance, sock>>

Late == "late" \in May /\ mishaps' = mishaps \cup {"late"}

(* No reply in time: nobody listens, or somebody does and is late.          *)
NoReply(v) ==
  \/ ~Answered /\ UNCHANGED <<daemonVars, mishaps>>
  \/ Late /\ \E d \in Daemon : Answers(d) /\ Serve(d, v)

(* spawn: detached, with no verb on its command line.  A slot is free       *)
(* again once its process is gone.                                          *)
Spawned(d) == d # Old /\ st[d] = "none" /\ Turns(d, "booting")

----------------------------------------------------------------------------
(* main of the command line.                                                *)
Press(c) ==
  /\ phase[c] = "idle"
  /\ \E v \in Verbs : verb' = [verb EXCEPT ![c] = v]
  /\ Goes(c, "asking")
  /\ UNCHANGED <<lock, stale, daemonVars, mishaps>>

Asks(c) == IF verb[c] = "start" THEN "ping" ELSE verb[c]

(* The daemon answered.  One of another version is to be replaced, unless   *)
(* the command was a quit or a ping.                                        *)
AskServed(c) ==
  /\ phase[c] \in {"asking", "again"}
  /\ \E d \in Daemon :
       /\ Answers(d) /\ Serve(d, Asks(c))
       /\ Goes(c, IF d = Old /\ verb[c] = "toggle" THEN "locking" ELSE "done")
  /\ UNCHANGED <<verb, lock, stale, mishaps>>

AskUnserved(c) ==
  /\ phase[c] = "asking" /\ verb[c] \in {"ping", "quit"}
  /\ NoReply(Asks(c))
  /\ Goes(c, IF verb[c] = "ping" THEN "failed" ELSE "done")
  /\ UNCHANGED <<verb, lock, stale>>

(* A toggle or a start that is not answered starts a daemon and polls.  The *)
(* late reply of one that lives is forgotten, not its effect.               *)
AskStarts(c) ==
  /\ phase[c] = "asking" /\ verb[c] \in {"toggle", "start"}
  /\ \/ /\ ~Answered /\ \E d \in Daemon : Spawned(d)
        /\ UNCHANGED <<shown, mishaps>>
     \/ /\ Answered /\ Late /\ \E d \in Daemon : Spawned(d)
        /\ shown' = IF verb[c] = "toggle" THEN ~shown ELSE shown
  /\ Goes(c, "waiting")
  /\ UNCHANGED <<verb, lock, stale, instance, sock>>

WaitServed(c) ==
  /\ phase[c] = "waiting" /\ Answered
  /\ Goes(c, IF verb[c] = "start" THEN "done" ELSE "again")
  /\ UNCHANGED <<verb, lock, stale, daemonVars, mishaps>>

(* The deadline of a poll: with nothing on its way, or before it has come.  *)
Expires ==
  /\ ~Answered
  /\ IF \E d \in Daemon : st[d] \in Rising THEN Late ELSE UNCHANGED mishaps

WaitExpires(c) ==
  /\ phase[c] = "waiting" /\ Expires /\ Goes(c, "failed")
  /\ UNCHANGED <<verb, lock, stale, daemonVars>>

AgainUnserved(c) ==
  /\ phase[c] = "again" /\ NoReply(verb[c]) /\ Goes(c, "failed")
  /\ UNCHANGED <<verb, lock, stale>>

----------------------------------------------------------------------------
(* takeRestartLock: create the file, or judge the one that is there; what   *)
(* was judged stale is unlinked by name and the file created.               *)
Creates(c, from) ==
  /\ phase[c] = from /\ lock = None
  /\ lock' = c /\ stale' = FALSE /\ Goes(c, "quitting")
  /\ UNCHANGED <<verb, daemonVars, mishaps>>

TakeLock(c) == Creates(c, "locking")

(* A fault: what was stolen is opened without O_EXCL.                       *)
TakeStolenAnyway(c) ==
  /\ phase[c] = "reopening"
  /\ lock' = c /\ stale' = FALSE /\ Goes(c, "quitting")
  /\ UNCHANGED <<verb, daemonVars, mishaps>>

TakeStolen(c) == Creates(c, "reopening")

Judge(c) ==
  /\ phase[c] = "locking" /\ lock # None
  /\ Goes(c, IF stale THEN "stealing" ELSE "done")
  /\ UNCHANGED <<verb, lock, stale, daemonVars, mishaps>>

Steal(c) ==
  /\ phase[c] = "stealing"
  /\ Goes(c, IF lock = None THEN "done" ELSE "reopening")
  /\ lock' = None /\ stale' = FALSE
  /\ mishaps' = IF lock # None /\ ~stale THEN mishaps \cup {"raced"} ELSE mishaps
  /\ UNCHANGED <<verb, daemonVars>>

LockLost(c) ==
  /\ phase[c] = "reopening" /\ lock # None /\ Goes(c, "done")
  /\ UNCHANGED <<verb, lock, stale, daemonVars, mishaps>>

(* Time passes over a lock whose holder is dead, or over one still at work: *)
(* its budgets (one request, three phases with a request at the end of each,*)
(* a systemctl without any) add up to more than three phases.               *)
LockAges ==
  /\ lock # None /\ ~stale /\ stale' = TRUE
  /\ IF lock \in Cli /\ phase[lock] # "killed" THEN Late ELSE UNCHANGED mishaps
  /\ UNCHANGED <<verb, phase, lock, daemonVars>>

(* restartIfStale under the lock: ask it to quit, wait until it is gone,    *)
(* start one (systemd's unit or a process: both a spawn), wait for it.      *)
AskQuit(c) ==
  /\ phase[c] = "quitting"
  /\ \/ NoReply("quit")
     \/ UNCHANGED mishaps /\ \E d \in Daemon : Answers(d) /\ Serve(d, "quit")
  /\ Goes(c, "draining")
  /\ UNCHANGED <<verb, lock, stale>>

Drained(c) ==
  /\ phase[c] = "draining"
  /\ IF Answered THEN Late ELSE UNCHANGED mishaps
  /\ Goes(c, "starting")
  /\ UNCHANGED <<verb, lock, stale, daemonVars>>

(* restartUnit or startDaemon.  A unit that does not come up in time is       *)
(* followed by a startDaemon of its own, which is left out: a second spawn    *)
(* stands aside for the first as any other does.                              *)
StartNew(c) ==
  /\ phase[c] = "starting" /\ \E d \in Daemon : Spawned(d)
  /\ Goes(c, "polling")
  /\ UNCHANGED <<verb, lock, stale, instance, sock, shown, mishaps>>

\* release(): the file at the path is unlinked, whoever made it
Release == lock' = None /\ stale' = FALSE

Restarted(c) ==
  /\ phase[c] = "polling" /\ Answered /\ Release /\ Goes(c, "replaying")
  /\ UNCHANGED <<verb, daemonVars, mishaps>>

NotRestarted(c) ==
  /\ phase[c] = "polling" /\ Expires /\ Release /\ Goes(c, "done")
  /\ UNCHANGED <<verb, daemonVars>>

Replay(c) ==
  /\ phase[c] = "replaying"
  /\ \/ /\ \E d \in Daemon : Answers(d) /\ Serve(d, verb[c])
        /\ Goes(c, "done") /\ UNCHANGED mishaps
     \/ NoReply(verb[c]) /\ Goes(c, "failed")
  /\ UNCHANGED <<verb, lock, stale>>

Killed(c) ==
  /\ "kill" \in May /\ phase[c] \notin Ended \cup {"idle"}
  /\ Goes(c, "killed") /\ mishaps' = mishaps \cup {"killed"}
  /\ UNCHANGED <<verb, lock, stale, daemonVars>>

----------------------------------------------------------------------------
(* The daemon.  requestSingleInstanceLock comes first; a process that loses *)
(* it forwards its arguments and exits, and no arguments mean toggle.       *)
Boot(d) ==
  /\ st[d] = "booting" /\ instance = None
  /\ instance' = d /\ Turns(d, "locked")
  /\ UNCHANGED <<commandVars, sock, shown, mishaps>>

HasPanel(d) == st[d] \in {"probing", "clearing", "binding", "serving", "deaf"}

Bounce(d) ==
  /\ st[d] = "booting" /\ instance # None
  /\ Turns(d, "none")
  /\ shown' = IF HasPanel(instance) THEN ~shown ELSE shown
  /\ IF st[instance] \in {"leaving", "closed"} THEN Late ELSE UNCHANGED mishaps
  /\ UNCHANGED <<commandVars, instance, sock>>

\* index, history, panel; then the socket
Prepare(d) ==
  /\ st[d] = "locked" /\ Turns(d, "probing")
  /\ UNCHANGED <<commandVars, instance, sock, shown, mishaps>>

(* clearStaleSocket: what is at the path is asked; only what does not       *)
(* answer is unlinked.                                                      *)
(* A fault: a file at the path is taken for a daemon.                       *)
ProbeByFile(d) ==
  /\ st[d] = "probing"
  /\ Turns(d, IF sock = None THEN "binding" ELSE "deaf")
  /\ UNCHANGED <<commandVars, instance, sock, shown, mishaps>>

Probe(d) ==
  /\ st[d] = "probing"
  /\ Turns(d, IF sock = None THEN "binding" ELSE IF Answered THEN "deaf" ELSE "clearing")
  /\ UNCHANGED <<commandVars, instance, sock, shown, mishaps>>

Clear(d) ==
  /\ st[d] = "clearing" /\ sock' = None /\ Turns(d, "binding")
  /\ UNCHANGED <<commandVars, instance, shown, mishaps>>

Bind(d) ==
  /\ st[d] = "binding"
  /\ IF sock = None THEN sock' = d /\ Turns(d, "serving") ELSE UNCHANGED sock /\ Turns(d, "deaf")
  /\ UNCHANGED <<commandVars, instance, shown, mishaps>>

Signal(d) ==
  /\ "crash" \in May /\ HasPanel(d) /\ Turns(d, "leaving")
  /\ mishaps' = mishaps \cup {"crash"}
  /\ UNCHANGED <<commandVars, instance, sock, shown>>

(* quit: the socket is closed and its file unlinked, then the panel is      *)
(* destroyed and the process exits; only that gives the instance lock back. *)
Quit(d) ==
  /\ st[d] = "leaving" /\ Turns(d, "closed")
  /\ sock' = None /\ shown' = FALSE
  /\ UNCHANGED <<commandVars, instance, mishaps>>

(* A fault: the socket's file is unlinked as the process ends, and not      *)
(* before.                                                                  *)
ExitUnlinks(d) ==
  /\ st[d] = "leaving" /\ Turns(d, "closed") /\ instance' = None
  /\ shown' = FALSE
  /\ UNCHANGED <<commandVars, sock, mishaps>>

Exit(d) ==
  /\ st[d] = "closed" /\ Turns(d, "none") /\ instance' = None
  /\ UNCHANGED <<commandVars, sock, shown, mishaps>>

DaemonCrash(d) ==
  /\ "crash" \in May /\ st[d] \notin {"none", "booting"}
  /\ Turns(d, "none") /\ instance' = None /\ shown' = FALSE
  /\ mishaps' = mishaps \cup {"crash"}
  /\ UNCHANGED <<commandVars, sock>>

----------------------------------------------------------------------------
CommandStep(c) ==
  \/ AskServed(c) \/ AskUnserved(c) \/ AskStarts(c) \/ AgainUnserved(c)
  \/ WaitServed(c) \/ WaitExpires(c)
  \/ TakeLock(c) \/ Judge(c) \/ Steal(c) \/ TakeStolen(c) \/ LockLost(c)
  \/ AskQuit(c) \/ Drained(c) \/ StartNew(c) \/ Restarted(c) \/ NotRestarted(c) \/ Replay(c)

DaemonStep(d) ==
  \/ Boot(d) \/ Bounce(d) \/ Prepare(d) \/ Probe(d) \/ Clear(d) \/ Bind(d)
  \/ Quit(d) \/ Exit(d)

Next ==
  \/ \E c \in Cli : Press(c) \/ CommandStep(c) \/ Killed(c)
  \/ LockAges
  \/ \E d \in Daemon : DaemonStep(d) \/ Signal(d) \/ DaemonCrash(d)

Spec == Init /\ [][Next]_vars
FairSpec ==
  /\ Spec
  /\ \A c \in Cli : WF_vars(CommandStep(c))
  /\ \A d \in Daemon : WF_vars(DaemonStep(d))

----------------------------------------------------------------------------
TypeOK ==
  /\ verb \in [Cli -> Verbs \cup {None}]
  /\ phase \in [Cli -> Inside \cup Ended \cup {"idle", "asking", "waiting", "again",
                         "locking", "stealing", "reopening", "replaying"}]
  /\ lock \in Cli \cup {Before, None} /\ stale \in BOOLEAN /\ shown \in BOOLEAN
  /\ st \in [Daemon -> Rising \cup {"none", "serving", "deaf", "leaving", "closed"}]
  /\ instance \in Daemon \cup {None} /\ sock \in Daemon \cup {None}
  /\ mishaps \subseteq {"late", "raced", "killed", "crash"}

(* A daemon that serves is the one behind the socket's file, and the only   *)
(* one: neither the stale-socket rule of another, nor the unlink of one     *)
(* that quits, takes the file from under it.                                *)
SocketIsServed == \A d \in Daemon : st[d] = "serving" => sock = d /\ instance = d

(* Two commands restart the daemon at once only after two of them judged    *)
(* the same dead lock, or the holder of one outlived three phases.          *)
OneRestart ==
  mishaps \cap {"raced", "late"} = {} =>
    \A b, c \in Cli : phase[b] \in Inside /\ phase[c] \in Inside => b = c

(* A press that finds no daemon, or takes the lock to replace an old one,   *)
(* leads to a new one, unless something went wrong or somebody quit it.     *)
Upgrades ==
  \A c \in Cli :
    phase[c] \in {"waiting", "quitting"} ~>
      \/ \E d \in Daemon \ {Old} : st[d] = "serving"
      \/ mishaps # {} \/ \E b \in Cli : verb[b] = "quit"

=============================================================================
