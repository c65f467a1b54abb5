-------------------------------- MODULE Launcher --------------------------------
(***************************************************************************)
(* The launcher's list: the page (src/renderer/src/App.tsx) and the panel's *)
(* window (src/main/window.ts, the window and search verbs of               *)
(* src/main/daemon.ts).  What a query finds is RootSearch; here an answer   *)
(* is the query it is for and how many rows it has.  Answers arrive in any  *)
(* order, what the daemon emits in the order it was emitted.  The page of a *)
(* window that is made anew, for a new size, starts from nothing.           *)
(***************************************************************************)
EXTENDS Integers, Sequences

CONSTANTS
  Queries,    \* what may be typed; "" is nothing
  MaxEvents   \* bound: what is on its way to the page

VARIABLES
  shown, dialog, resized, \* the window; a file dialog holds it; a new size is wanted
  loaded, page, \* the page: whether it runs, and its state
  asks,       \* queries sent and not answered, and whether it is the last
  events,     \* visibility, on its way to the page
  going,      \* a row is being opened
  escape      \* Escape, on its way to the daemon or back

windowVars == <<shown, dialog, resized, loaded>>
launcherVars == <<windowVars, page, asks, events, going, escape>>

NoItems == [query |-> "", n |-> 0]
NewPage == [query |-> "", dirty |-> TRUE, items |-> NoItems, selected |-> 0, error |-> FALSE]

InitLauncher ==
  /\ shown = FALSE /\ dialog = FALSE /\ resized = FALSE /\ loaded = FALSE
  /\ page = NewPage /\ asks = {} /\ events = <<>> /\ going = "no" /\ escape = "no"

(******************************* the window *******************************)
\* emit: a page that has not loaded hears nothing.
Emit(v) == events' = IF loaded THEN Append(events, v) ELSE events

\* show: the page is told.
Show ==
  /\ ~shown /\ Len(events) < MaxEvents
  /\ shown' = TRUE /\ Emit(TRUE)
  /\ UNCHANGED <<dialog, resized, loaded, page, asks, going, escape>>

\* fit: the window and its page are made anew; replies to the old one are lost.
Renew(g, e) ==
  /\ page' = NewPage /\ asks' = {} /\ events' = <<>> /\ loaded' = FALSE /\ resized' = FALSE
  /\ going' = (IF g = "no" THEN "no" ELSE "lost") /\ escape' = (IF e = "no" THEN "no" ELSE "lost")

\* hide, then fit.
Hide(g, e) ==
  /\ shown' = FALSE
  /\ IF shown /\ resized THEN Renew(g, e)
     ELSE /\ going' = g /\ escape' = e /\ UNCHANGED <<page, asks, loaded, resized>>
          /\ IF shown THEN Emit(FALSE) ELSE UNCHANGED events

Toggle == shown /\ Len(events) < MaxEvents /\ Hide(going, escape) /\ UNCHANGED dialog
Blur == shown /\ ~dialog /\ Len(events) < MaxEvents /\ Hide(going, escape) /\ UNCHANGED dialog
OpenFiles == /\ shown /\ ~dialog /\ dialog' = TRUE
             /\ UNCHANGED <<shown, resized, loaded, page, asks, events, going, escape>>
FilesPicked == /\ dialog /\ dialog' = FALSE
               /\ UNCHANGED <<shown, resized, loaded, page, asks, events, going, escape>>
\* setTextScale and reconfigure: at once when hidden.
Resize ==
  /\ ~resized
  /\ IF shown THEN resized' = TRUE /\ UNCHANGED <<loaded, page, asks, events, going, escape>> ELSE Renew(going, escape)
  /\ UNCHANGED <<shown, dialog>>
Load == /\ ~loaded /\ loaded' = TRUE
        /\ UNCHANGED <<shown, dialog, resized, page, asks, events, going, escape>>

(******************************** the page ********************************)
\* changeQuery.
Changed(q) == [page EXCEPT !.query = q, !.dirty = @ \/ q # page.query, !.selected = 0, !.error = FALSE]

Typed(q) == /\ loaded /\ shown /\ q # page.query /\ page' = Changed(q)
            /\ UNCHANGED <<windowVars, asks, events, going, escape>>

\* The effect of a query: a new generation, and the old ones are stale.
Ask == /\ loaded /\ page.dirty /\ page' = [page EXCEPT !.dirty = FALSE]
       /\ asks' = {[query |-> a.query, last |-> FALSE] : a \in asks} \cup {[query |-> page.query, last |-> TRUE]}
       /\ UNCHANGED <<windowVars, events, going, escape>>

Clamp(i, n) == IF n = 0 THEN 0 ELSE IF i > n - 1 THEN n - 1 ELSE i

(* A fault: whatever arrives is listed. *)
ListAny(a, n) == page' = [page EXCEPT !.items = [query |-> a.query, n |-> n], !.selected = Clamp(@, n)]

\* What is done with an answer: nothing, of an older generation.
List(a, n) ==
  page' = IF a.last THEN [page EXCEPT !.items = [query |-> a.query, n |-> n], !.selected = Clamp(@, n)] ELSE page

Answer(a) ==
  /\ a \in asks /\ asks' = asks \ {a}
  /\ \E n \in (IF a.query = "" THEN {0} ELSE 0..2) : List(a, n)
  /\ UNCHANGED <<windowVars, events, going, escape>>

Visibility == /\ events # <<>> /\ events' = Tail(events)
              /\ page' = [Changed("") EXCEPT !.items = NoItems]
              /\ UNCHANGED <<windowVars, asks, going, escape>>

Move(step) == /\ loaded /\ shown /\ page.items.n > 0
              /\ page' = [page EXCEPT !.selected = Clamp(IF step < 0 THEN (IF @ = 0 THEN 0 ELSE @ - 1) ELSE @ + 1, page.items.n)]
              /\ UNCHANGED <<windowVars, asks, events, going, escape>>

\* activate: the row that is selected, opened by the daemon in its own time.
Enter == /\ loaded /\ shown /\ page.items.n > page.selected /\ going = "no" /\ going' = "asked"
         /\ UNCHANGED <<windowVars, page, asks, events, escape>>
Opened == going # "no" /\ Len(events) < MaxEvents /\ Hide("no", escape) /\ UNCHANGED dialog
OpenFails == /\ going # "no" /\ going' = "no" /\ page' = [page EXCEPT !.error = @ \/ going = "asked"]
             /\ UNCHANGED <<windowVars, asks, events, escape>>

\* Escape: the page says whether anything was typed, the daemon decides.
Escape == /\ loaded /\ shown /\ escape = "no" /\ escape' = (IF page.query = "" THEN "root" ELSE "typed")
          /\ UNCHANGED <<windowVars, page, asks, events, going>>
EscapeHides == escape = "root" /\ Len(events) < MaxEvents /\ Hide(going, "no") /\ UNCHANGED dialog
EscapeClears == /\ escape # "no" /\ escape' = "no"
                /\ page' = IF escape = "lost" THEN page ELSE Changed("")
                /\ UNCHANGED <<windowVars, asks, events, going>>

NextLauncher ==
  \/ Show \/ Toggle \/ Blur \/ OpenFiles \/ FilesPicked \/ Resize \/ Load
  \/ \E q \in Queries : Typed(q)
  \/ \E a \in asks : Answer(a)
  \/ Ask \/ Visibility \/ Enter \/ Opened \/ OpenFails
  \/ \E s \in {0 - 1, 1} : Move(s)
  \/ Escape \/ EscapeHides \/ EscapeClears

SpecLauncher == InitLauncher /\ [][NextLauncher]_launcherVars

(******************************* properties *******************************)
(* With nothing on its way the list answers what is typed, and the row that *)
(* is selected is one of it.                                                *)
ListIsOfQuery ==
  /\ page.selected <= (IF page.items.n = 0 THEN 0 ELSE page.items.n - 1)
  /\ loaded /\ ~page.dirty /\ asks = {} => page.items.query = page.query
=============================================================================
