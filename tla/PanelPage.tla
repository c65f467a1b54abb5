------------------------------ MODULE PanelPage ------------------------------
(***************************************************************************)
(* The panel's page (src/renderer/src/App.tsx and ext/useSession.ts): the    *)
(* session it shows, the tree it holds and the revision it thinks that is,  *)
(* and the fetch of the whole tree when a batch went missing.               *)
(***************************************************************************)
EXTENDS PanelWires

VARIABLES
  active,      \* the session shown, or None: the root list
  rev,         \* revision.current
  tree,        \* the tree drawn
  failure,     \* an error card is up
  standalone,  \* Escape closes the window rather than going back to the root
  resyncing,   \* the session whose tree is being fetched, or None
  again,       \* a gap showed up while that fetch was out
  seen         \* the newest batch announced for the session shown

pageVars == <<active, rev, tree, failure, standalone, resyncing, again, seen>>

PageInit ==
  /\ active = None /\ rev = 0 /\ tree = 0 /\ seen = 0
  /\ failure = FALSE /\ standalone = FALSE
  /\ resyncing = None /\ again = FALSE

Invoke(msgs) == fromPage' = fromPage \o msgs
Attach(s) == [type |-> "attach", sid |-> s]

(* end(): the session is dropped and main told.                             *)
EndWith(then) ==
  /\ active' = None /\ tree' = 0 /\ failure' = FALSE
  /\ Invoke((IF active = None THEN <<>> ELSE <<[type |-> "close", sid |-> active]>>) \o then)
  /\ UNCHANGED <<rev, resyncing, again, seen>>

(* Faults of begin(): the crash the launch carried not shown; the revision  *)
(* of the session before kept.                                              *)
BeginWithoutFailure(info) ==
  /\ active' = info.sid
  /\ rev' = info.rev /\ tree' = info.tree /\ seen' = info.rev
  /\ failure' = FALSE
  /\ UNCHANGED <<resyncing, again>>
BeginKeepsRevision(info) ==
  /\ active' = info.sid
  /\ tree' = info.tree /\ seen' = info.rev
  /\ failure' = info.failed
  /\ UNCHANGED <<rev, resyncing, again>>

(* begin(): the snapshot the launch carried, and the crash if it had one.   *)
Begin(info) ==
  /\ active' = info.sid
  /\ rev' = info.rev /\ tree' = info.tree /\ seen' = info.rev
  /\ failure' = info.failed
  /\ UNCHANGED <<resyncing, again>>

----------------------------------------------------------------------------
(* The user, in front of a page that is shown.                              *)
ActivateRow ==
  /\ active = None
  /\ Invoke(<<[type |-> "launch"]>>)
  /\ UNCHANGED <<pageVars, ordered, toPage, replies>>

EscapeAtRoot ==
  /\ active = None
  /\ Invoke(<<[type |-> "hide"]>>)
  /\ UNCHANGED <<pageVars, ordered, toPage, replies>>

(* onExit: the bottom of a session.                                         *)
Exit ==
  /\ active # None
  /\ EndWith(IF standalone THEN <<[type |-> "hide"]>> ELSE <<>>)
  /\ UNCHANGED <<standalone, ordered, toPage, replies>>

----------------------------------------------------------------------------
(* A message at the head of the pushes, or of the replies that travel apart. *)
Pushed(what) ==
  /\ toPage # <<>> /\ Head(toPage).type = what
  /\ toPage' = Tail(toPage) /\ UNCHANGED <<ordered, replies>>
Answered(what) ==
  IF ordered THEN Pushed(what)
  ELSE /\ replies # <<>> /\ Head(replies).type = what
       /\ replies' = Tail(replies) /\ UNCHANGED <<ordered, toPage>>
News == IF ordered THEN Head(toPage) ELSE Head(replies)

(* A fault of window.visibility: the flag of the session just announced     *)
(* cleared on show as well.                                                 *)
OnVisibilityClears ==
  /\ Pushed("visibility")
  /\ standalone' = FALSE
  /\ IF Head(toPage).visible
       THEN UNCHANGED <<active, rev, tree, failure, resyncing, again, seen, fromPage>>
       ELSE EndWith(<<>>)

OnVisibility ==
  /\ Pushed("visibility")
  /\ IF Head(toPage).visible
       THEN UNCHANGED <<pageVars, fromPage>>
       ELSE standalone' = FALSE /\ EndWith(<<>>)

OnStarted ==
  /\ Pushed("started")
  /\ LET info == Head(toPage).info IN
       /\ standalone' = (info.standalone = "yes" \/ (info.standalone = "unsaid" /\ standalone))
       /\ Begin(info)
  /\ UNCHANGED fromPage

OnLaunched ==
  /\ Answered("launched")
  /\ standalone' = FALSE
  /\ Begin(News.info)
  /\ UNCHANGED fromPage

(* A fault: no second round of the fetch.                                   *)
ResyncOnce(s) ==
  IF resyncing = s
    THEN UNCHANGED <<again, resyncing, fromPage>>
    ELSE again' = FALSE /\ resyncing' = s /\ Invoke(<<Attach(s)>>)

(* resync(): one fetch at a time per session, and one more round for a gap   *)
(* that showed up meanwhile.                                                *)
Resync(s) ==
  IF resyncing = s
    THEN again' = TRUE /\ UNCHANGED <<resyncing, fromPage>>
    ELSE again' = FALSE /\ resyncing' = s /\ Invoke(<<Attach(s)>>)

(* A fault of the gap: the batch applied to whatever tree is held.          *)
OnRenderUnchecked ==
  /\ Pushed("render")
  /\ LET m == Head(toPage) IN
       IF m.sid # active \/ m.rev <= rev
         THEN UNCHANGED <<rev, tree, seen>>
         ELSE /\ rev' = m.rev /\ tree' = Patched(tree, m.rev) /\ seen' = m.rev
  /\ UNCHANGED <<active, failure, standalone, resyncing, again, fromPage>>

OnRender ==
  /\ Pushed("render")
  /\ LET m == Head(toPage) IN
       IF m.sid # active \/ m.rev <= rev
         THEN UNCHANGED <<rev, tree, seen, resyncing, again, fromPage>>
         ELSE /\ seen' = m.rev
              /\ IF m.rev # rev + 1
                   THEN Resync(m.sid) /\ UNCHANGED <<rev, tree>>
                   ELSE /\ rev' = m.rev /\ tree' = Patched(tree, m.rev)
                        /\ UNCHANGED <<resyncing, again, fromPage>>
  /\ UNCHANGED <<active, failure, standalone>>

(* The fetched tree is taken unless it is no newer than the one held, or    *)
(* for a session no longer shown.                                           *)
OnAttached ==
  /\ Answered("attached")
  /\ LET m == News
         taken == m.there /\ m.sid = active /\ m.rev > rev
         more == again /\ resyncing = m.sid /\ active = m.sid
     IN /\ rev' = IF taken THEN m.rev ELSE rev
        /\ tree' = IF taken THEN m.tree ELSE tree
        /\ IF resyncing # m.sid THEN UNCHANGED <<resyncing, again>>
           ELSE resyncing' = (IF more THEN m.sid ELSE None) /\ again' = FALSE
        /\ Invoke(IF more THEN <<Attach(m.sid)>> ELSE <<>>)
  /\ UNCHANGED <<active, failure, standalone, seen>>

OnEnded ==
  /\ Pushed("ended")
  /\ LET m == Head(toPage)
         mine == m.sid = active
     IN /\ failure' = (failure \/ (mine /\ m.failed))
        /\ active' = IF mine /\ ~m.failed THEN None ELSE active
        /\ tree' = IF mine /\ ~m.failed THEN 0 ELSE tree
  /\ UNCHANGED <<rev, standalone, resyncing, again, seen, fromPage>>
=============================================================================
