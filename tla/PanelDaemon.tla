----------------------------- MODULE PanelDaemon -----------------------------
(***************************************************************************)
(* The daemon's side of the panel (src/main/daemon.ts, window.ts and the    *)
(* render path of extensions/host.ts): the window, the key that opened what *)
(* it shows, the sessions and their documents, and what the page is told.   *)
(* The extension behind each session is the environment; ExtSystem has it   *)
(* in full.                                                                 *)
(***************************************************************************)
EXTENDS PanelWires

CONSTANT Target   \* what keys are bound to

ASSUME TargetAssumption == {"row", "background"} \cap Target = {}

VARIABLES
  visible,      \* the window is shown
  panelTarget,  \* the key's target the panel is showing, or "none"
  minted,       \* sessionCounter
  asker,        \* who launched each session: "row", "command", "background" (a
                \* command that shows nothing) or the key's target
  worker,       \* the extension: "none", "starting", "on", "over"
  rendered,     \* batches it has sent
  fromHost,     \* its messages on their way to the daemon
  open,         \* keys of the sessions map
  mTree, mRev,  \* LiveSession.tree and .revision
  mFailed,      \* LiveSession.failure
  astray        \* sessions that ended before their launch was answered, that a
                \* row asked for as the panel was being hidden, or that a
                \* command started in the background behind a hidden panel

daemonVars == <<visible, panelTarget, minted, asker, worker, rendered, fromHost,
                open, mTree, mRev, mFailed, astray>>
extension == <<worker, rendered>>

Askers == Target \cup {"row", "command", "background"}

MayLaunch == minted < MaxSid

DaemonInit ==
  /\ visible = FALSE /\ panelTarget = "none" /\ minted = 0
  /\ asker = [s \in Sid |-> "none"]
  /\ worker = [s \in Sid |-> "none"]
  /\ rendered = [s \in Sid |-> 0]
  /\ fromHost = [s \in Sid |-> <<>>]
  /\ open = {} /\ mFailed = {} /\ astray = {}
  /\ mTree = [s \in Sid |-> 0] /\ mRev = [s \in Sid |-> 0]

----------------------------------------------------------------------------
(* The extension.  A view renders while it starts; a command that throws in  *)
(* its first render fails before its launch is answered, and a no-view      *)
(* command that needs nothing finishes before it is: a microtask of its own *)
(* is ahead of the one that answers.                                        *)
Says(s, kinds) ==
  /\ fromHost' = [fromHost EXCEPT ![s] =
       @ \o [i \in DOMAIN kinds |-> [kind |-> kinds[i], batch |-> rendered'[s]]]]
  /\ UNCHANGED <<visible, panelTarget, minted, asker, open, mTree, mRev, mFailed, astray>>

Renders(s) ==
  /\ worker[s] \in {"starting", "on"} /\ rendered[s] < Batches[s] /\ Len(fromHost[s]) < MaxWire
  /\ rendered' = [rendered EXCEPT ![s] = @ + 1]
  /\ Says(s, <<"render">>)
  /\ UNCHANGED worker

Becomes(s, was, now) == worker[s] = was /\ worker' = [worker EXCEPT ![s] = now]

Starts(s) ==
  /\ UNCHANGED rendered
  /\ \/ Becomes(s, "starting", "on") /\ Says(s, <<"created">>)
     \/ Becomes(s, "starting", "over") /\ \E end \in {"failed", "ended"} : Says(s, <<end, "created">>)
     \/ Becomes(s, "starting", "over") /\ Says(s, <<"refused">>)

Ends(s) ==
  /\ Becomes(s, "on", "over") /\ UNCHANGED rendered
  /\ \E end \in {"failed", "ended"} : Says(s, <<end>>)

LaunchesAnother(s) ==
  /\ worker[s] = "on" /\ fromHost[s] = <<>> /\ MayLaunch
  /\ UNCHANGED extension /\ Says(s, <<"launch">>)

----------------------------------------------------------------------------
Fresh == minted + 1
Unanswered == {s \in Sid : \E i \in DOMAIN fromHost[s] : fromHost[s][i].kind = "created"}
                \cup {s \in Sid : worker[s] = "starting"}

(* ExtensionHost.launch, before its await.                                  *)
NewSession(who) ==
  /\ MayLaunch /\ minted' = Fresh
  /\ asker' = [asker EXCEPT ![Fresh] = who]
  /\ worker' = [worker EXCEPT ![Fresh] = "starting"]
  /\ open' = open \cup {Fresh}

Visibility(shown) == [type |-> "visibility", visible |-> shown]
Ended(s, crashed) == [type |-> "ended", sid |-> s, failed |-> crashed]
Info(s, alone) == [sid |-> s, rev |-> mRev[s], tree |-> mTree[s],
                   failed |-> s \in mFailed, standalone |-> alone]

(* A fault of the handler: the sessions are left running.                   *)
HidesKeepsSessions ==
  IF ~visible THEN UNCHANGED <<visible, panelTarget, open, astray, toPage, replies>>
  ELSE /\ visible' = FALSE /\ panelTarget' = "none"
       /\ UNCHANGED <<open, astray>>
       /\ Push(<<Visibility(FALSE)>>)

(* panel.hide(): Electron raises the hide event inside it, and its handler   *)
(* tells the page, closes every session and forgets the key.                *)
Hides ==
  IF ~visible THEN UNCHANGED <<visible, panelTarget, open, astray, toPage, replies>>
  ELSE /\ visible' = FALSE /\ panelTarget' = "none"
       /\ open' = {}
       /\ astray' = astray \cup Unanswered
       /\ Push(<<Visibility(FALSE)>>)

Rest == UNCHANGED <<rendered, fromHost, mTree, mRev, mFailed, ordered, fromPage>>

(* The verbs show, hide and toggle, and a window that loses the focus.      *)
VerbShow ==
  /\ ~visible /\ visible' = TRUE
  /\ Push(<<Visibility(TRUE)>>)
  /\ UNCHANGED <<panelTarget, minted, asker, worker, open, astray>> /\ Rest

VerbHide == visible /\ Hides /\ UNCHANGED <<minted, asker, worker>> /\ Rest

(* The verb open: a key on what it opened puts it away.                     *)
VerbOpen(t) ==
  /\ IF visible /\ panelTarget = t
       THEN Hides /\ UNCHANGED <<minted, asker, worker>>
       ELSE NewSession(t) /\ UNCHANGED <<visible, panelTarget, astray, toPage, replies>>
  /\ Rest

----------------------------------------------------------------------------
(* What the daemon does with a message of the host about session s.         *)
Hears(s, kind) ==
  /\ fromHost[s] # <<>> /\ Head(fromHost[s]).kind = kind
  /\ fromHost' = [fromHost EXCEPT ![s] = Tail(@)]

Same == UNCHANGED <<minted, asker, worker, rendered, ordered, fromPage>>

(* A fault: revisions added up.                                             *)
HearRenderAdds(s) ==
  /\ Hears(s, "render")
  /\ LET n == Head(fromHost[s]).batch IN
       IF s \notin open THEN UNCHANGED <<mTree, mRev, toPage, replies>>
       ELSE /\ mTree' = [mTree EXCEPT ![s] = Patched(@, n)]
            /\ mRev' = [mRev EXCEPT ![s] = @ + n]
            /\ Push(<<[type |-> "render", sid |-> s, rev |-> n]>>)
  /\ UNCHANGED <<visible, panelTarget, open, mFailed, astray>> /\ Same

(* RENDER: applied here first, then passed on, unless nobody is to see it.  *)
HearRender(s) ==
  /\ Hears(s, "render")
  /\ LET n == Head(fromHost[s]).batch IN
       IF s \notin open THEN UNCHANGED <<mTree, mRev, toPage, replies>>
       ELSE /\ mTree' = [mTree EXCEPT ![s] = Patched(@, n)]
            /\ mRev' = [mRev EXCEPT ![s] = n]
            /\ IF asker[s] = "background" THEN UNCHANGED <<toPage, replies>>
               ELSE Push(<<[type |-> "render", sid |-> s, rev |-> n]>>)
  /\ UNCHANGED <<visible, panelTarget, open, mFailed, astray>> /\ Same

(* The launch is answered: a key's session is announced and the window      *)
(* shown; a row's is the reply to the page; a command's is announced, or    *)
(* presented to nobody when it was started in the background.               *)
HearCreated(s) ==
  /\ Hears(s, "created")
  /\ \/ /\ asker[s] = "row"
        /\ Reply([type |-> "launched", info |-> Info(s, "no")])
        /\ UNCHANGED <<visible, panelTarget>>
     \/ /\ asker[s] = "background"
        /\ UNCHANGED <<visible, panelTarget, toPage, replies>>
     \/ /\ asker[s] \notin {"row", "background"}
        /\ Push(<<[type |-> "started", info |-> Info(s, IF asker[s] \in Target THEN "yes" ELSE "unsaid")],
                  Visibility(TRUE)>>)
        /\ panelTarget' = IF asker[s] \in Target THEN asker[s] ELSE panelTarget
        /\ visible' = TRUE
  /\ UNCHANGED <<open, mTree, mRev, mFailed, astray>> /\ Same

(* launch()'s catch: the page or the caller is told of an error.            *)
HearRefused(s) ==
  /\ Hears(s, "refused")
  /\ open' = open \ {s}
  /\ UNCHANGED <<visible, panelTarget, mTree, mRev, mFailed, astray, toPage, replies>> /\ Same

(* onFailure() of a fatal failure.                                          *)
HearFailed(s) ==
  /\ Hears(s, "failed")
  /\ mFailed' = IF s \in open THEN mFailed \cup {s} ELSE mFailed
  /\ open' = open \ {s}
  /\ Push(<<Ended(s, TRUE)>>)
  /\ UNCHANGED <<visible, panelTarget, mTree, mRev, astray>> /\ Same

(* SESSION_FINISHED, or a pop to the root.                                  *)
HearEnded(s) ==
  /\ Hears(s, "ended")
  /\ open' = open \ {s}
  /\ astray' = astray \cup ({s} \cap Unanswered)
  /\ Push(<<Ended(s, FALSE)>>)
  /\ UNCHANGED <<visible, panelTarget, mTree, mRev, mFailed>> /\ Same

(* LAUNCH_COMMAND.  owner() takes it from a session that is open or that    *)
(* drains; which of the closed ones drain is not known here, so any may.    *)
(* It is refused to any other, and of a command that cannot be started.     *)
HearLaunch(s) ==
  /\ Hears(s, "launch")
  /\ \/ \E who \in {"command", "background"} :
          /\ NewSession(who)
          /\ astray' = IF who = "background" /\ ~visible THEN astray \cup {Fresh} ELSE astray
     \/ UNCHANGED <<minted, asker, worker, open, astray>>
  /\ UNCHANGED <<visible, panelTarget, rendered, mTree, mRev, mFailed, wires>>

----------------------------------------------------------------------------
(* The page's invokes.                                                      *)
Asked(what) ==
  /\ fromPage # <<>> /\ Head(fromPage).type = what
  /\ fromPage' = Tail(fromPage)
Asks == Head(fromPage)
Still == UNCHANGED <<rendered, fromHost, mTree, mRev, mFailed, ordered>>

(* search.launch: an extension's row becomes the panel, any other hides it.  *)
ServeLaunch ==
  /\ Asked("launch")
  /\ \/ /\ NewSession("row")
        /\ astray' = IF visible THEN astray ELSE astray \cup {Fresh}
        /\ UNCHANGED <<visible, panelTarget, toPage, replies>>
     \/ Hides /\ UNCHANGED <<minted, asker, worker>>
  /\ Still

ServeHide == Asked("hide") /\ Hides /\ UNCHANGED <<minted, asker, worker>> /\ Still

ServeClose ==
  /\ Asked("close")
  /\ open' = open \ {Asks.sid}
  /\ UNCHANGED <<visible, panelTarget, minted, asker, worker, astray, toPage, replies>> /\ Still

ServeAttach ==
  /\ Asked("attach")
  /\ LET s == Asks.sid
         there == s \in open
     IN Reply([type |-> "attached", sid |-> s, there |-> there,
               rev |-> IF there THEN mRev[s] ELSE 0, tree |-> IF there THEN mTree[s] ELSE 0])
  /\ UNCHANGED <<visible, panelTarget, minted, asker, worker, open, astray>> /\ Still
=============================================================================
