----------------------------- MODULE PanelSystem -----------------------------
(***************************************************************************)
(* The daemon's panel and its page together.                                *)
(***************************************************************************)
EXTENDS PanelDaemon, PanelPage

CONSTANT MaxActs   \* bound: things the user does
ASSUME ActsAssumption == MaxActs \in Nat

VARIABLE acts      \* how many of them are done

vars == <<wires, daemonVars, pageVars, acts>>

Init == WiresInit /\ DaemonInit /\ PageInit /\ acts = 0

Extension(s) == Renders(s) \/ Starts(s) \/ Ends(s) \/ LaunchesAnother(s)

DaemonHears(s) ==
  \/ HearRender(s) \/ HearCreated(s) \/ HearRefused(s)
  \/ HearFailed(s) \/ HearEnded(s) \/ HearLaunch(s)

DaemonServes == ServeLaunch \/ ServeHide \/ ServeClose \/ ServeAttach

PageHears ==
  \/ OnVisibility \/ OnStarted \/ OnLaunched \/ OnRender \/ OnAttached \/ OnEnded

(* The user acts on what is on the screen, one thing at a time.             *)
PageUser == visible /\ fromPage = <<>> /\ (ActivateRow \/ EscapeAtRoot \/ Exit)

Keys == Len(toPage) < MaxWire /\ (VerbShow \/ VerbHide \/ \E t \in Target : VerbOpen(t))

Acts == acts < MaxActs /\ acts' = acts + 1

Next ==
  \/ \E s \in Sid : Extension(s) /\ UNCHANGED <<wires, pageVars, acts>>
  \/ \E s \in Sid : DaemonHears(s) /\ UNCHANGED <<pageVars, acts>>
  \/ DaemonServes /\ UNCHANGED <<pageVars, acts>>
  \/ PageHears /\ UNCHANGED <<daemonVars, acts>>
  \/ Acts /\ Keys /\ UNCHANGED pageVars
  \/ Acts /\ PageUser /\ UNCHANGED daemonVars

Spec == Init /\ [][Next]_vars

----------------------------------------------------------------------------
Rev == UNION {0..Batches[s] : s \in Sid}
Tree == {Broken} \cup Rev

TypeOK ==
  /\ acts \in 0..MaxActs
  /\ ordered \in BOOLEAN /\ visible \in BOOLEAN
  /\ panelTarget \in Target \cup {"none"}
  /\ minted \in 0..MaxSid /\ asker \in [Sid -> Askers \cup {"none"}]
  /\ worker \in [Sid -> {"none", "starting", "on", "over"}]
  /\ rendered \in [Sid -> Rev]
  /\ open \subseteq Sid /\ mFailed \subseteq Sid /\ astray \subseteq Sid
  /\ mTree \in [Sid -> Tree] /\ mRev \in [Sid -> Rev]
  /\ active \in Sid \cup {None} /\ resyncing \in Sid \cup {None}
  /\ rev \in Rev /\ seen \in Rev /\ tree \in Tree
  /\ {failure, standalone, again} \subseteq BOOLEAN

(* Nothing is under way between the hosts, the daemon and the page.         *)
Quiet ==
  /\ toPage = <<>> /\ replies = <<>> /\ fromPage = <<>>
  /\ \A s \in Sid : fromHost[s] = <<>> /\ worker[s] # "starting"

Showing(s) == active = s /\ ~failure

(* The page never draws a tree that existed on neither side: a batch is only *)
(* applied to the tree it was computed from, whichever snapshot, launch or  *)
(* fetch that tree came from.                                               *)
TreeIsGenuine == active # None => tree = rev

(* A batch the page was told of is drawn in the end, by itself or by a       *)
(* fetch, also when it came while an older fetch was out.                   *)
SeenIsDrawn == Quiet => \A s \in open : Showing(s) => rev >= seen

(* Where pushes and replies keep their order the page draws exactly what the *)
(* daemon holds, with no fetch at all: no batch falls between the snapshot  *)
(* of a launch and the first push the page listens to.                      *)
DrawnIsCurrent ==
  Quiet /\ ordered => \A s \in open : Showing(s) => tree = mTree[s] /\ rev = mRev[s]

(* A session that ended is not left on the screen as if it ran, and a crash  *)
(* during the launch reaches the page with the launch, unless the session   *)
(* was over, without a crash, before its launch was answered.               *)
DeadIsNotShown ==
  Quiet /\ ordered => \A s \in Sid \ astray : Showing(s) => s \in open

(* A panel that is hidden is back at the root, and runs nothing: whatever   *)
(* put it away, nothing is there again when it is next shown.  A launch     *)
(* that crossed the hide is an exception, and so is a command started in    *)
(* the background by an action that goes on behind the panel it hid.        *)
HiddenRunsNothing ==
  Quiet /\ ordered /\ ~visible => open \subseteq astray /\ active \in astray \cup {None}

(* Escape at the bottom of a session a key opened closes the window; of one  *)
(* a row opened, it goes back to the list, whatever was shown before.       *)
StandaloneIsTheKeys ==
  Quiet => \A s \in Sid : active = s =>
    /\ asker[s] \in Target => standalone
    /\ asker[s] = "row" => ~standalone

(* What the page shows, once nothing is under way: every batch it was told  *)
(* of, exactly what the daemon holds where messages keep their order, no    *)
(* session that has ended, and Escape leads back to where it was opened.    *)
PageTellsTruth == SeenIsDrawn /\ DrawnIsCurrent /\ DeadIsNotShown /\ StandaloneIsTheKeys

(* For TLC: the first of two sessions renders, with three batches.          *)
FirstRenders == <<3, 0>>
=============================================================================
