-------------------------------- MODULE ExtPage --------------------------------
(***************************************************************************)
(* The page of an extension command (src/renderer/src/ext/ExtensionView.tsx,*)
(* actions.ts, ActionPanel.tsx, and the keys, the filter and the search      *)
(* dispatch of src/shared).  The worker's document arrives when it likes;    *)
(* the selection, the action panel, the text waiting to be sent and the      *)
(* keyboard's focus are the page's own, and each must survive the document   *)
(* changing under it.  Every step is a render with the effects it sets off.   *)
(***************************************************************************)
EXTENDS Naturals, Sequences, FiniteSets, SequencesExt

CONSTANTS
  Trees,        \* the documents the worker may draw, each with its active view
  Elements,     \* what their action panels are written with, at every depth
  Texts,        \* what the search box may hold, "" among them
  Grade,        \* how well a row answers a text: Grade[text][id], 0 for not at all
  Keys,         \* [keys]: the chords of each action
  ActionOrder,  \* the actions in the order they are looked for
  Requests,     \* items that may be asked for
  Chords, Typeable,  \* what may be pressed, and what of it is a character
  None,
  MaxRendered,  \* rows drawn at once
  MaxTyped      \* bound: texts typed

VARIABLES
  tree, text,
  selectedId, requestedItem, moved,  \* moved: by the arrows, since the request
  panelOpen, stack, index,           \* the overlay: its frames, its highlighted row
  revealed,                          \* rows drawn past the window, for which rows and start
  pending,   \* the text waiting to be sent: to which handler, which typing
  typed,     \* how many texts were typed
  heard,     \* the last text sent: was it newer than the one before, was its view on the screen
  typedIn,   \* the view the last text was typed in, while it is on the screen
  sent,      \* the last event sent to the worker
  alert, focus, panelBack, alertBack,  \* who has the keyboard, and who gets it back
  closedUnder                          \* the panel closed beneath an alert
pageVars == <<tree, text, selectedId, requestedItem, moved, panelOpen, stack, index, revealed,
              pending, typed, heard, typedIn, sent, alert, focus, panelBack, alertBack, closedUnder>>

----------------------------------------------------------------------------
(* Reading the document. *)

IsAction(entry) == entry.kind = "action"
\* Those of s that are in kept, in their order.
Filter(s, kept) ==
  LET upTo[n \in 0..Len(s)] ==
        IF n = 0 THEN <<>> ELSE IF s[n] \in kept THEN Append(upTo[n - 1], s[n]) ELSE upTo[n - 1]
  IN upTo[Len(s)]
ReadEntries(section) == Filter(section.entries, {e \in ToSet(section.entries) : e.kind \in {"action", "submenu"}})

\* readSections: what lies loose between two sections is a section of its own.
ReadSections(children) ==
  LET Flush(acc) == IF acc.loose = <<>> THEN acc.done ELSE Append(acc.done, acc.loose)
      Add(acc, c) == IF c.kind = "section"
                     THEN [done |-> Append(Flush(acc), ReadEntries(c)), loose |-> <<>>]
                     ELSE IF c.kind \in {"action", "submenu"} THEN [acc EXCEPT !.loose = Append(@, c)]
                     ELSE acc
      upTo[n \in 0..Len(children)] ==
        IF n = 0 THEN [done |-> <<>>, loose |-> <<>>] ELSE Add(upTo[n - 1], children[n])
  IN Flush(upTo[Len(children)])

\* readActionPanel: Enter's action and the second one are both of the first
\* section that has an action; submenus are neither.
EmptyActions == [sections |-> <<>>, primary |-> None, secondary |-> None, flat |-> <<>>]
ReadActionPanel(children) ==
  IF children = None THEN EmptyActions
  ELSE LET sections == ReadSections(children)
           actions == [i \in DOMAIN sections |-> SelectSeq(sections[i], IsAction)]
           first == SelectSeq(actions, LAMBDA s : s # <<>>)
           nth(n) == IF first # <<>> /\ Len(first[1]) >= n THEN first[1][n] ELSE None
       IN [sections |-> sections, primary |-> nth(1), secondary |-> nth(2), flat |-> FlattenSeq(actions)]

\* readListShape: the page filters unless the command answers the search itself.
ReadListShape(view) ==
  IF view.filtering # "unset" THEN view.filtering # "off" ELSE view.search = None

\* filterRows: the best rows of each section first, and the section of the best
\* row first unless the order of the sections is to be kept.
FilterRows(rows, needle, filtering, keep) ==
  IF ~filtering \/ needle = "" THEN rows
  ELSE LET Of(r) == Grade[needle][r.id]
           upTo[n \in 0..Len(rows)] ==
             IF n = 0 THEN <<>>
             ELSE IF Of(rows[n]) = 0 \/ Contains(upTo[n - 1], rows[n].section) THEN upTo[n - 1]
             ELSE Append(upTo[n - 1], rows[n].section)
           sections == upTo[Len(rows)]
           Graded(s, g) == Filter(rows, {r \in ToSet(rows) : r.section = s /\ Of(r) = g})
           Bucket(s) == Graded(s, 1) \o Graded(s, 2) \o Graded(s, 3)
           ordered == IF keep THEN sections
                      ELSE FlattenSeq([g \in 1..3 |-> Filter(sections, {s \in ToSet(sections) : Of(Bucket(s)[1]) = g})])
       IN FlattenSeq([i \in DOMAIN ordered |-> Bucket(ordered[i])])

RowsAt(t, x) == IF t.type = "List" THEN FilterRows(t.rows, x, ReadListShape(t), t.filtering = "sections")
                ELSE <<>>
Rows == RowsAt(tree, text)
IndexOf(rows, id) == LET at == {i \in DOMAIN rows : rows[i].id = id}
                     IN IF at = {} THEN 1 ELSE CHOOSE i \in at : \A j \in at : i <= j
SelectedIndex == IndexOf(Rows, selectedId)
SelectedAt(t, x, id) == LET rows == RowsAt(t, x) IN IF rows = <<>> THEN None ELSE rows[IndexOf(rows, id)]
Selected == SelectedAt(tree, text, selectedId)

\* The actions: the selected row's, an empty list's, or else the view's.
Actions ==
  ReadActionPanel(IF Selected # None /\ Selected.actions # None THEN Selected.actions
                  ELSE IF tree.type = "List" /\ Rows = <<>> /\ tree.empty # None THEN tree.empty
                  ELSE tree.actions)

----------------------------------------------------------------------------
(* The rows drawn: a window about the selection, longer when it is scrolled. *)

Start(rows, at) ==
  LET from == IF at - 1 > MaxRendered \div 2 THEN at - 1 - MaxRendered \div 2 ELSE 0
      last == Len(rows) - MaxRendered
  IN IF Len(rows) <= MaxRendered THEN 0 ELSE IF from < last THEN from ELSE last
Extra(rows, at) == IF revealed.rows = rows /\ revealed.from = Start(rows, at) THEN revealed.count ELSE 0
Least(a, b) == IF a < b THEN a ELSE b
Drawn(rows, at) ==
  LET count == Least(Len(rows) - Start(rows, at), MaxRendered + Extra(rows, at))
  IN {Start(rows, at) + i : i \in 1..count}

----------------------------------------------------------------------------
(* Keys. *)

\* matchesKeyAction, keyActionFor: a bare character is only a key while the box
\* is empty.
MatchesKeyAction(action, chord, empty) == chord \in ToSet(Keys[action]) /\ (chord \in Typeable => empty)
KeyActionFor(chord, empty) ==
  LET hits == {i \in DOMAIN ActionOrder : MatchesKeyAction(ActionOrder[i], chord, empty)}
  IN IF hits = {} THEN "none" ELSE ActionOrder[Min(hits)]

\* keyConflicts: a chord may be bound to two actions, and is then the first's.
KeyConflicts ==
  {c \in UNION {ToSet(Keys[a]) : a \in ToSet(ActionOrder)} :
     \E a, b \in ToSet(ActionOrder) : a # b /\ c \in ToSet(Keys[a]) /\ c \in ToSet(Keys[b])}

\* chordFor: the chord the bar shows for an action.
ChordFor(action, empty) ==
  LET usable == {i \in DOMAIN Keys[action] : Keys[action][i] \in Typeable => empty}
  IN IF usable = {} THEN None ELSE Keys[action][Min(usable)]

----------------------------------------------------------------------------
(* A render and its effects. *)

\* keyboard back to whoever had it, when the panel goes.
Restored(open) ==
  /\ focus' = IF panelOpen /\ ~open THEN panelBack ELSE focus
  /\ closedUnder' = (closedUnder \/ (panelOpen /\ ~open /\ alert))
  /\ IF open THEN UNCHANGED <<stack, index>> ELSE stack' = <<>> /\ index' = 1
  /\ UNCHANGED <<panelBack, alert, alertBack>>

\* The cleanup of the effect on the handler: a text belongs to its view.
CancelPending(t) ==
  IF t.search # tree.search
  THEN pending' = None /\ typedIn' = None ELSE UNCHANGED <<pending, typedIn>>

\* The effects: a new depth or a new text forgets the selection, a row that was
\* asked for is selected when it is there, the handler is told of a new item.
Committed(t, x, id, wanted, open) ==
  LET stays == open /\ t.depth = tree.depth
      kept == IF t.depth # tree.depth \/ x # text THEN None ELSE id
      rows == RowsAt(t, x)
      there == wanted # None /\ \E i \in DOMAIN rows : rows[i].item = wanted
      final == IF there THEN (CHOOSE r \in ToSet(rows) : r.item = wanted).id ELSE kept
  IN /\ tree' = t /\ text' = x /\ selectedId' = final
     /\ requestedItem' = IF there THEN None ELSE wanted
     /\ panelOpen' = stays

Quiet == UNCHANGED <<alert, focus, panelBack, alertBack, closedUnder, stack, index>>
Searching == <<pending, typed, heard, typedIn>>

Send(handler, form) == sent' = IF handler = None THEN sent ELSE <<handler, form>>

\* run: the panel closes, and a form's action carries its fields.
Run(action) ==
  /\ Committed(tree, text, selectedId, requestedItem, FALSE) /\ Restored(FALSE)
  /\ Send(action.handler, action.form)
  /\ UNCHANGED <<moved, revealed, Searching>>

----------------------------------------------------------------------------
(* What the worker and the person do. *)

InitPage ==
  /\ tree \in Trees /\ text = "" /\ selectedId = None /\ requestedItem = None /\ moved = FALSE
  /\ panelOpen = FALSE /\ stack = <<>> /\ index = 1
  /\ revealed = [rows |-> <<>>, from |-> 0, count |-> 0]
  /\ pending = None /\ typed = 0 /\ heard = [at |-> 0, newer |-> TRUE, inView |-> TRUE] /\ typedIn = None
  /\ sent = None
  /\ alert = FALSE /\ focus = "input" /\ panelBack = "input" /\ alertBack = "input"
  /\ closedUnder = FALSE

\* A patch: another document, perhaps of another depth.
Patch(t) ==
  /\ t # tree /\ Committed(t, text, selectedId, requestedItem, panelOpen)
  /\ Restored(panelOpen /\ t.depth = tree.depth) /\ CancelPending(t)
  /\ UNCHANGED <<moved, revealed, sent, typed, heard>>

\* selectItemWithId, or a pin: go to this item when it is there.
RequestItem(item) ==
  /\ requestedItem = None /\ Committed(tree, text, selectedId, item, panelOpen) /\ Quiet
  /\ moved' = FALSE /\ UNCHANGED <<revealed, sent, Searching>>

Deliver(handler, at) ==
  heard' = [at |-> at, newer |-> at > heard.at, inView |-> handler = tree.search]

(* A fault: a new text leaves the timer of the one before. *)
DispatchOver(x) ==
  IF tree.search = None THEN UNCHANGED <<pending, heard>>
  ELSE IF ~tree.throttle \/ x = "" THEN Deliver(tree.search, typed') /\ UNCHANGED pending
  ELSE pending' = [handler |-> tree.search, at |-> typed'] /\ UNCHANGED heard
\* onSearch and the dispatch's send.
Dispatch(x) ==
  IF tree.search = None THEN UNCHANGED <<pending, heard>>
  ELSE IF ~tree.throttle \/ x = "" THEN pending' = None /\ Deliver(tree.search, typed')
  ELSE pending' = [handler |-> tree.search, at |-> typed'] /\ UNCHANGED heard

OnSearch(x) ==
  /\ focus = "input" /\ tree.type # "Form" /\ x # text /\ typed < MaxTyped
  /\ typed' = typed + 1 /\ Dispatch(x) /\ typedIn' = tree.search
  /\ Committed(tree, x, selectedId, requestedItem, panelOpen) /\ Quiet
  /\ UNCHANGED <<moved, revealed, sent>>

DispatchTimer ==
  /\ pending # None /\ Deliver(pending.handler, pending.at) /\ pending' = None
  /\ UNCHANGED <<tree, text, selectedId, requestedItem, moved, panelOpen, stack, index, revealed,
                 typed, typedIn, sent, alert, focus, panelBack, alertBack, closedUnder>>

\* back: one step, out of the panel, the view, or the command.
Back == /\ IF panelOpen
           THEN Committed(tree, text, selectedId, requestedItem, FALSE) /\ Restored(FALSE) /\ UNCHANGED sent
           ELSE /\ UNCHANGED <<tree, text, selectedId, requestedItem, panelOpen>> /\ Quiet
                /\ sent' = IF tree.depth > 1 THEN <<"ext.pop">> ELSE <<"exit">>
        /\ UNCHANGED <<moved, revealed, Searching>>

Open == /\ panelOpen' = TRUE /\ stack' = <<Actions.sections>> /\ index' = 1
        /\ panelBack' = focus /\ focus' = "panel"
        /\ UNCHANGED <<tree, text, selectedId, requestedItem, moved, revealed, Searching, sent,
                       alert, alertBack, closedUnder>>
Toggle == IF panelOpen
          THEN /\ Committed(tree, text, selectedId, requestedItem, FALSE) /\ Restored(FALSE)
               /\ UNCHANGED <<moved, revealed, Searching, sent>>
          ELSE Open

MoveSelection(at, step, count) ==
  LET to == IF step = "next" THEN at + 1 ELSE at - 1
  IN IF count = 0 THEN 1 ELSE IF to < 1 THEN 1 ELSE IF to > count THEN count ELSE to

Arrow(bound) ==
  LET to == MoveSelection(SelectedIndex, bound, Len(Rows))
  IN /\ Committed(tree, text, IF Rows = <<>> THEN selectedId ELSE Rows[to].id, None, panelOpen)
     /\ moved' = TRUE /\ Quiet /\ UNCHANGED <<revealed, Searching, sent>>

\* A chord of the row's own actions.
Shortcut(chord) == SelectSeq(Actions.flat, LAMBDA a : a.chord = chord)

SecondAction == IF Actions.secondary # None THEN Actions.secondary ELSE Actions.primary

\* onKeyDown of the search box.
OnKeyDown(chord) ==
  LET bound == KeyActionFor(chord, text = "")
  IN /\ focus = "input" /\ tree.type # "Form"
     /\ \/ bound = "back" /\ Back
        \/ bound = "actionPanel" /\ Toggle
        \/ bound \in {"next", "previous"} /\ ~panelOpen /\ Arrow(bound)
        \/ bound = "open" /\ ~panelOpen /\ Actions.primary # None /\ Run(Actions.primary)
        \/ bound = "secondary" /\ ~panelOpen /\ SecondAction # None /\ Run(SecondAction)
        \/ bound = "none" /\ ~panelOpen /\ Shortcut(chord) # <<>> /\ Run(Shortcut(chord)[1])

\* onFormKeyDown: no arrows, no category, and no key that is a character; Enter
\* on a control that needs it is the control's.
OnFormKeyDown(chord, onControl) ==
  LET bound == KeyActionFor(chord, FALSE)
  IN /\ focus = "input" /\ tree.type = "Form"
     /\ \/ bound = "back" /\ Back
        \/ bound = "actionPanel" /\ Toggle
        \/ bound = "open" /\ ~panelOpen /\ ~onControl /\ Actions.primary # None /\ Run(Actions.primary)
        \/ bound = "secondary" /\ ~panelOpen /\ SecondAction # None /\ Run(SecondAction)
        \/ bound \notin {"back", "actionPanel", "open", "secondary"} /\ ~panelOpen /\ Shortcut(chord) # <<>>
           /\ Run(Shortcut(chord)[1])

\* A click on a row runs its first action; one on the bar opens the panel.
ClickRow(i) ==
  /\ ~panelOpen /\ ~alert /\ i \in Drawn(Rows, SelectedIndex)
  /\ LET first == ReadActionPanel(Rows[i].actions).primary
     IN first # None /\ Send(first.handler, FALSE)
  /\ Quiet /\ UNCHANGED <<tree, text, selectedId, requestedItem, panelOpen, moved, revealed, Searching>>
ClickBar == ~panelOpen /\ ~alert /\ (Actions.primary # None \/ Len(Actions.flat) > 1) /\ Open

\* onScroll, at the end of what is drawn.
OnScroll ==
  /\ Extra(Rows, SelectedIndex) = 0  \* bound: once for each window
  /\ Cardinality(Drawn(Rows, SelectedIndex)) + Start(Rows, SelectedIndex) < Len(Rows)
  /\ revealed' = [rows |-> Rows, from |-> Start(Rows, SelectedIndex),
                  count |-> Extra(Rows, SelectedIndex) + MaxRendered]
  /\ Quiet /\ UNCHANGED <<tree, text, selectedId, requestedItem, panelOpen, moved, sent, Searching>>

----------------------------------------------------------------------------
(* The overlay: a stack of frames, fixed when it opened. *)

Entries == FlattenSeq(stack[Len(stack)])
Overlay(frames, at) ==
  /\ stack' = frames /\ index' = at
  /\ UNCHANGED <<tree, text, selectedId, requestedItem, moved, panelOpen, revealed, Searching,
                 sent, alert, focus, panelBack, alertBack, closedUnder>>

FrameIndex == 1

Activate(entry) == IF IsAction(entry) THEN Run(entry)
                   ELSE Overlay(Append(stack, ReadSections(entry.entries)), FrameIndex)

OverlayKey(chord) ==
  LET bound == KeyActionFor(chord, TRUE)
      count == Len(Entries)
  IN /\ focus = "panel"
     /\ \/ bound = "next" /\ Overlay(stack, IF count = 0 THEN 1 ELSE (index % count) + 1)
        \/ bound = "previous" /\ Overlay(stack, IF count = 0 THEN 1 ELSE IF index = 1 THEN count ELSE index - 1)
        \/ bound \in {"open", "secondary"} /\ index <= count /\ Activate(Entries[index])
        \/ bound = "back" /\ IF Len(stack) > 1 THEN Overlay(Front(stack), FrameIndex) ELSE Back
Hover(i) == panelOpen /\ ~alert /\ i \in 1..Len(Entries) /\ Overlay(stack, i)
ClickEntry(i) == panelOpen /\ ~alert /\ i \in 1..Len(Entries) /\ Activate(Entries[i])
ClickScrim == panelOpen /\ ~alert /\ Back

----------------------------------------------------------------------------
(* An alert takes the keyboard, and gives it back. *)

RaiseAlert ==
  /\ ~alert /\ alert' = TRUE /\ alertBack' = focus /\ focus' = "alert"
  /\ UNCHANGED <<tree, text, selectedId, requestedItem, moved, panelOpen, stack, index, revealed,
                 Searching, sent, panelBack, closedUnder>>

(* A fault: the answer leaves the keyboard where it is. *)
AnswerAndLeave == IF focus = "alert" THEN focus' = "body" ELSE UNCHANGED focus
\* What had the keyboard gets it, if it is still there; a control that goes
\* with the keyboard leaves it to nobody.
GiveBack == focus' = IF alertBack = "input" \/ panelOpen THEN alertBack ELSE "body"
AnswerAlert ==
  /\ alert /\ alert' = FALSE /\ GiveBack
  /\ UNCHANGED <<tree, text, selectedId, requestedItem, moved, panelOpen, stack, index, revealed,
                 Searching, sent, panelBack, alertBack, closedUnder>>

\* The toast's button.
ToastAction ==
  /\ Send("toast", FALSE) /\ sent' # sent
  /\ Quiet /\ UNCHANGED <<tree, text, selectedId, requestedItem, panelOpen, moved, revealed, Searching>>

NextPage ==
  \/ \E t \in Trees : Patch(t)
  \/ \E item \in Requests : RequestItem(item)
  \/ \E x \in Texts : OnSearch(x)
  \/ DispatchTimer
  \/ \E c \in Chords : OnKeyDown(c) \/ OverlayKey(c) \/ \E on \in BOOLEAN : OnFormKeyDown(c, on)
  \/ \E i \in 1..Len(Rows) : ClickRow(i)
  \/ panelOpen /\ \E i \in 1..3 : Hover(i) \/ ClickEntry(i)
  \/ ClickBar \/ ClickScrim \/ OnScroll
  \/ RaiseAlert \/ AnswerAlert \/ ToastAction

SpecPage == InitPage /\ [][NextPage]_pageVars

----------------------------------------------------------------------------
(* Texts reach the worker in the order they were typed, and only the view    *)
(* were typed in; while it stays, the last one typed there was heard or waits. *)
TextsInOrder ==
  /\ heard.newer /\ heard.inView
  /\ pending # None => pending.handler = tree.search /\ pending.at = typed /\ heard.at < typed
  /\ typedIn # None => heard.at = typed \/ pending # None

(* The selected row is one of those drawn, wherever the selection went and   *)
(* however the list changed; with a panel open, Enter has a row to run.        *)
SelectionDrawn ==
  /\ Rows # <<>> => SelectedIndex \in Drawn(Rows, SelectedIndex)
  /\ panelOpen /\ Entries # <<>> => index <= Len(Entries)

(* A request for an item does not outlive the person's own move.               *)
NeverFights == requestedItem # None => ~moved

(* The keys land on what is in front: the alert, the panel, the box.  A panel *)
(* that closes beneath an alert, because the view changed, is the exception.   *)
KeysLand ==
  closedUnder \/ focus = IF alert THEN "alert" ELSE IF panelOpen THEN "panel" ELSE "input"

(* The bar shows a chord that does what it says, unless it is bound twice;    *)
(* except that in a form it shows the characters too.                          *)
BarTellsTruth ==
  tree.type = "Form" \/
  \A a \in {"open", "secondary", "back", "actionPanel"} :
     LET chord == ChordFor(a, text = "") IN chord = None \/ KeyActionFor(chord, text = "") = a \/ chord \in KeyConflicts

(* The parts of the page stay together (src/renderer/src/ext).                  *)
PageIntact == TextsInOrder /\ SelectionDrawn /\ NeverFights /\ KeysLand /\ BarTellsTruth
================================================================================
