------------------------------- MODULE Update -------------------------------
(***************************************************************************)
(* The launcher updating itself from its git checkout (node/update.ts),    *)
(* from the settings window (settings/screens-basic.tsx over               *)
(* main/settings-ipc.ts) and from the command line (cli/update.ts) at the  *)
(* same time, while the remote moves and the person keeps pressing the     *)
(* hotkey.  A commit is its place in the history of the branch; git's own  *)
(* commands are atomic, as its index lock makes them, and everything       *)
(* between two of them is a step.                                          *)
(***************************************************************************)
EXTENDS Naturals, FiniteSets

CONSTANTS None,
          MaxCommits,   \* bounds the remote's history
          MaxPresses,   \* bounds what the person presses
          MaxFailures   \* bounds failing fetches and scripts

VARIABLES
  install,   \* what detectInstall answered: a kind, and whether origin is https
  remote,    \* the newest commit of the branch at origin
  origin,    \* the remote-tracking branch of the checkout
  head,      \* the commit checked out
  dirty,     \* the checkout has local edits
  built,     \* the commit the build in place was made of; None when broken
  daemon,    \* None, or the code the running daemon has and the version it says
  job,       \* how far each of the three runs has come, and what it saw
  check,     \* the window's last check, None when there is none to show
  confirming,\* the window asks whether to pull and rebuild
  outcome,   \* what the window says of the last update
  agreed,    \* history: the newest commits a person said yes to
  broken,    \* history: a script has failed
  presses, failures

updateVars == <<install, remote, origin, head, dirty, built, daemon, job, check,
                confirming, outcome, agreed, broken, presses, failures>>

Commits == 0..MaxCommits
Jobs == {"check", "apply", "update"}     \* the window's two calls, and the command
Resting == [at |-> "rest", saw |-> None, expect |-> None]

Installs == {[kind |-> "git", https |-> TRUE], [kind |-> "git", https |-> FALSE],
             [kind |-> "package", https |-> FALSE]}

InitUpdate ==
  /\ install \in Installs
  /\ dirty \in BOOLEAN
  /\ remote = 0 /\ origin = 0 /\ head = 0 /\ built = 0
  /\ daemon \in {None, [code |-> 0, says |-> 0]}
  /\ job = [j \in Jobs |-> Resting]
  /\ check = None /\ confirming = FALSE /\ outcome = None
  /\ agreed = {} /\ broken = FALSE /\ presses = 0 /\ failures = 0

Goes(j, step) == job' = [job EXCEPT ![j].at = step]
Ends(j) == job' = [job EXCEPT ![j] = Resting]

(* What a check answers: the newest commit that is not checked out yet, *)
(* None when there is none, and whether there was a problem.             *)
Newest == IF origin > head THEN origin ELSE None
Saw(problem) == [newest |-> IF problem THEN None ELSE Newest,
                 problem |-> problem, dirty |-> dirty]

(* The window's buttons, as they are enabled. *)
PressCheck ==
  /\ presses < MaxPresses /\ presses' = presses + 1
  /\ job["check"].at = "rest" /\ job["apply"].at = "rest"
  /\ Goes("check", "fetch") /\ outcome' = None
  /\ UNCHANGED <<install, remote, origin, head, dirty, built, daemon, check, confirming,
                 agreed, broken, failures>>

PressUpdateNow ==
  /\ check # None /\ check.newest # None /\ ~check.dirty /\ ~confirming
  /\ job["apply"].at = "rest"
  /\ confirming' = TRUE
  /\ UNCHANGED <<install, remote, origin, head, dirty, built, daemon, job, check, outcome,
                 agreed, broken, presses, failures>>

PressPull ==
  /\ confirming /\ check # None /\ check.newest # None
  /\ job["apply"].at = "rest"
  /\ confirming' = FALSE
  /\ job' = [job EXCEPT !["apply"] = [at |-> "fetch", saw |-> None, expect |-> check.newest]]
  /\ agreed' = agreed \cup {check.newest}
  /\ UNCHANGED <<install, remote, origin, head, dirty, built, daemon, check, outcome,
                 broken, presses, failures>>

PressCancel ==
  /\ confirming /\ confirming' = FALSE /\ job["apply"].at = "rest"
  /\ UNCHANGED <<install, remote, origin, head, dirty, built, daemon, job, check, outcome,
                 agreed, broken, presses, failures>>

(* The command, with or without --yes: the question comes after the check. *)
RunUpdate ==
  /\ presses < MaxPresses /\ presses' = presses + 1
  /\ job["update"].at = "rest" /\ Goes("update", "fetch")
  /\ UNCHANGED <<install, remote, origin, head, dirty, built, daemon, check, confirming,
                 outcome, agreed, broken, failures>>

(* checkForUpdates: only a checkout fetches. *)
Fetch(j) ==
  /\ job[j].at = "fetch"
  /\ origin' = IF install.kind = "git" THEN remote ELSE origin
  /\ Goes(j, "compare")
  /\ UNCHANGED <<install, remote, head, dirty, built, daemon, check, confirming, outcome,
                 agreed, broken, presses, failures>>

FetchFails(j) ==
  /\ job[j].at = "fetch" /\ install.kind = "git"
  /\ failures < MaxFailures /\ failures' = failures + 1
  /\ job' = [job EXCEPT ![j].at = "answer", ![j].saw = Saw(TRUE)]
  /\ UNCHANGED <<install, remote, origin, head, dirty, built, daemon, check, confirming,
                 outcome, agreed, broken, presses>>

Compare(j) ==
  /\ job[j].at = "compare"
  /\ job' = [job EXCEPT ![j].at = "answer", ![j].saw = Saw(install.kind # "git")]
  /\ UNCHANGED <<install, remote, origin, head, dirty, built, daemon, check, confirming,
                 outcome, agreed, broken, presses, failures>>

Shows ==
  /\ job["check"].at = "answer"
  /\ check' = job["check"].saw /\ Ends("check")
  /\ UNCHANGED <<install, remote, origin, head, dirty, built, daemon, confirming, outcome,
                 agreed, broken, presses, failures>>

Says(ok, restarted, ran) ==
  outcome' = [ok |-> ok, restarted |-> restarted, wanted |-> job["apply"].expect, ran |-> ran]

(* updateApply goes on only when a fresh check has the agreed commit newest. *)
Agrees == job["apply"].saw.newest = job["apply"].expect

Consented ==
  /\ job["apply"].at = "answer" /\ Agrees /\ Goes("apply", "pull")
  /\ UNCHANGED <<install, remote, origin, head, dirty, built, daemon, check, confirming,
                 outcome, agreed, broken, presses, failures>>

Moved ==
  /\ job["apply"].at = "answer" /\ ~Agrees
  /\ Says(FALSE, FALSE, None) /\ Ends("apply")
  /\ UNCHANGED <<install, remote, origin, head, dirty, built, daemon, check, confirming,
                 agreed, broken, presses, failures>>

(* The command shows its check and asks. *)
Answers(yes) ==
  LET saw == job["update"].saw IN
  /\ job["update"].at = "answer"
  /\ IF saw.newest # None /\ yes
     THEN /\ job' = [job EXCEPT !["update"].at = "pull", !["update"].expect = saw.newest]
          /\ agreed' = agreed \cup {saw.newest}
     ELSE Ends("update") /\ UNCHANGED agreed
  /\ UNCHANGED <<install, remote, origin, head, dirty, built, daemon, check, confirming,
                 outcome, broken, presses, failures>>

(* The run is over and has failed; the window says so. *)
Fails(j) ==
  /\ Ends(j)
  /\ IF j = "apply" THEN Says(FALSE, FALSE, None) ELSE UNCHANGED outcome

(* git pull --ff-only, over https only.  It fetches again, whatever the *)
(* check saw, and refuses when local edits are in its way.              *)
Pull(j) ==
  /\ job[j].at = "pull" /\ install.https
  /\ origin' = remote /\ head' = remote /\ Goes(j, "script")
  /\ UNCHANGED <<install, remote, dirty, built, daemon, check, confirming, outcome, agreed,
                 broken, presses, failures>>

PullRefused(j) ==
  /\ job[j].at = "pull" /\ (dirty \/ ~install.https) /\ Fails(j)
  /\ UNCHANGED <<install, remote, origin, head, dirty, built, daemon, check, confirming,
                 agreed, broken, presses, failures>>

(* scripts/install.sh builds whatever is checked out when it gets there. *)
Script(j) ==
  /\ job[j].at = "script" /\ built' = head /\ Goes(j, "quit")
  /\ UNCHANGED <<install, remote, origin, head, dirty, daemon, check, confirming, outcome,
                 agreed, broken, presses, failures>>

(* It may stop at any command of it: before the build, with the old one  *)
(* left or the modules gone, or after it.                                *)
ScriptFails(j) ==
  /\ job[j].at = "script"
  /\ failures < MaxFailures /\ failures' = failures + 1
  /\ built' \in {built, None, head} /\ broken' = TRUE /\ Fails(j)
  /\ UNCHANGED <<install, remote, origin, head, dirty, daemon, check, confirming, agreed,
                 presses>>

(* A daemon that starts runs the build and reads its version from the *)
(* package.json checked out; a broken build does not start.            *)
Started == IF built = None THEN None ELSE [code |-> built, says |-> head]

(* The update is through: the window forgets its check. *)
Done(j, restarted, ran) ==
  /\ Ends(j)
  /\ IF j = "apply" THEN Says(TRUE, restarted, ran) /\ check' = None
                    ELSE UNCHANGED <<outcome, check>>

(* A fault: the daemon is not asked to quit. *)
JustStart(j) ==
  /\ job[j].at = "quit" /\ Goes(j, "start")
  /\ UNCHANGED <<install, remote, origin, head, dirty, built, daemon, check, confirming,
                 outcome, agreed, broken, presses, failures>>

(* A daemon that answers is asked to quit and waited for; where none   *)
(* answers, none is started.  It is taken to answer within the second and *)
(* a half of a ping and to be gone within the five seconds it is given.   *)
Quit(j) ==
  /\ job[j].at = "quit"
  /\ IF daemon = None THEN Done(j, FALSE, None) ELSE Goes(j, "start") /\ UNCHANGED <<outcome, check>>
  /\ daemon' = None
  /\ UNCHANGED <<install, remote, origin, head, dirty, built, confirming, agreed, broken,
                 presses, failures>>

(* startDaemon: what is spawned leaves to the instance already running, *)
(* and whatever answers the ping counts.                                *)
Start(j) ==
  /\ job[j].at = "start"
  /\ daemon' = IF daemon = None THEN Started ELSE daemon
  /\ Done(j, daemon' # None, daemon')
  /\ UNCHANGED <<install, remote, origin, head, dirty, built, confirming, agreed, broken,
                 presses, failures>>

(* A press of the hotkey starts a daemon where none runs, and replaces  *)
(* one whose version is not the one checked out (restartIfStale).       *)
Press ==
  /\ presses < MaxPresses /\ presses' = presses + 1
  /\ daemon' = IF daemon = None \/ daemon.says # head THEN Started ELSE daemon
  /\ UNCHANGED <<install, remote, origin, head, dirty, built, job, check, confirming, outcome,
                 agreed, broken, failures>>

RemoteMoves ==
  /\ remote < MaxCommits /\ remote' = remote + 1
  /\ UNCHANGED <<install, origin, head, dirty, built, daemon, job, check, confirming, outcome,
                 agreed, broken, presses, failures>>

NextUpdate ==
  \/ PressCheck \/ PressUpdateNow \/ PressPull \/ PressCancel \/ RunUpdate
  \/ Shows \/ Consented \/ Moved \/ Press \/ RemoteMoves
  \/ \E yes \in BOOLEAN : Answers(yes)
  \/ \E j \in Jobs : Fetch(j) \/ FetchFails(j) \/ Compare(j)
  \/ \E j \in Jobs \ {"check"} :
       Pull(j) \/ PullRefused(j) \/ Script(j) \/ ScriptFails(j) \/ Quit(j) \/ Start(j)

SpecUpdate == InitUpdate /\ [][NextUpdate]_updateVars

-----------------------------------------------------------------------------
(* Nothing is pulled or built before somebody said yes to a commit that *)
(* old or older.                                                         *)
AskedFirst == head > 0 => \E e \in agreed : e <= head

(* An update that says it restarted the launcher left a daemon that runs *)
(* at least the commit agreed to, whoever else updates or presses.       *)
RestartedRunsIt ==
  outcome # None /\ outcome.restarted => outcome.ran.code >= outcome.wanted

(* When no update runs and no script has failed, no daemon is left on     *)
(* code older than the build.                                            *)
NoneLeftOnOld ==
  (\A j \in Jobs : job[j].at \in {"rest", "fetch", "compare", "answer", "pull"}) /\ ~broken
    /\ daemon # None => daemon.code = built

(* The update of the launcher keeps its three promises (node/update.ts,  *)
(* settings-ipc.ts updateApply, cli/update.ts).                          *)
UpdateIntact == AskedFirst /\ RestartedRunsIt /\ NoneLeftOnOld

(* "a fresh check must still have that sha as its newest, or the code that *)
(* would run is not the code that was described": what an update builds is *)
(* a commit somebody agreed to (settings-ipc.ts:304).                      *)
OnlyAgreedRuns == built \in {None, 0} \cup agreed
=============================================================================
