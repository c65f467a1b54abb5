------------------------------- MODULE ShimViews --------------------------------
(***************************************************************************)
(* What the library does for a view (src/api-shim): the stack of views with      *)
(* their onPop callbacks (navigation.ts), and toasts (feedback.ts) with the part   *)
(* of main they meet, a window that closes.                                         *)
(***************************************************************************)
EXTENDS Naturals, Sequences, FiniteSets, SequencesExt

CONSTANTS
  Toasts, None,
  MaxViews, MaxCalls \* bounds

VARIABLES
  stack,      \* the committed stack of CommandRoot: each view and its key
  coming,     \* what the updaters so far make of it
  waiting,    \* updates wait for a render
  going,      \* the views that the updaters still to run take away
  pushed,     \* pushed[v]: whether the v-th view pushed has an onPop
  told,       \* told[v]: how often its onPop was queued as a microtask
  retried,    \* views whose updater ran in a render that was thrown away
  toast,      \* toast[t]: shown, and the handler of its action
  handlers, nextHandler, \* detachedHandlers and its counter
  onPage,     \* the toast the page draws
  windowOpen, \* main's session is open
  wire,       \* what the page is to draw, on its way to main
  shimCalls
viewVars == <<stack, coming, waiting, going, pushed, told, retried>>
toastVars == <<toast, handlers, nextHandler, onPage, windowOpen, wire>>
shimVars == <<viewVars, toastVars, shimCalls>>

InitShim ==
  /\ stack = <<[key |-> 0, view |-> 0]>> /\ coming = stack /\ waiting = FALSE /\ going = {}
  /\ pushed = <<>> /\ told = [v \in 1..MaxViews |-> 0] /\ retried = {}
  /\ toast = [t \in Toasts |-> [shown |-> FALSE, handler |-> None]]
  /\ handlers = {} /\ nextHandler = 0 /\ onPage = None /\ windowOpen = TRUE /\ wire = <<>>
  /\ shimCalls = 0

Calls == shimCalls < MaxCalls /\ shimCalls' = shimCalls + 1

----------------------------------------------------------------------------
(* The stack.  An updater that takes a view away queues its onPop, so what     *)
(* counts is when React runs it: at once when nothing waits for a render, and    *)
(* that result is kept; with the render otherwise, and again when the render is   *)
(* thrown away and tried again.                                                    *)

\* push, from Action.Push or the command.
Push(onPop) ==
  /\ Calls /\ Len(pushed) < MaxViews /\ pushed' = Append(pushed, onPop)
  /\ coming' = Append(coming, [key |-> Len(coming), view |-> Len(pushed) + 1]) /\ waiting' = TRUE
  /\ UNCHANGED <<stack, going, told, retried, toastVars>>

(* A fault: the root can be popped too. *)
PopAny(views) == IF views = <<>> THEN views ELSE Front(views)
\* The last view goes, never the first.
PopOne(views) == IF Len(views) <= 1 THEN views ELSE Front(views)
Left(op) == IF op = "pop" THEN PopOne(coming) ELSE <<Head(coming)>>
ViewsOn(views) == {views[i].view : i \in DOMAIN views}
Telling(views) == [v \in DOMAIN told |-> IF v \in views /\ v \in DOMAIN pushed /\ pushed[v] THEN told[v] + 1 ELSE told[v]]

\* pop, from Action.Pop, the command or the page; popToRoot. An update that
\* React runs at once and that changes nothing waits for no render.
PopView(op) ==
  /\ Calls /\ coming' = Left(op)
  /\ LET taken == ViewsOn(coming) \ ViewsOn(Left(op))
     IN \/ /\ ~waiting /\ waiting' = (op = "root" \/ taken # {})
           /\ told' = Telling(taken) /\ UNCHANGED going
        \/ /\ waiting' = TRUE /\ going' = going \cup taken /\ UNCHANGED told
  /\ UNCHANGED <<stack, pushed, retried, toastVars>>

\* The batch renders, and what it made of the stack is committed.
Flush ==
  /\ waiting /\ waiting' = FALSE /\ stack' = coming /\ told' = Telling(going) /\ going' = {}
  /\ UNCHANGED <<coming, pushed, retried, toastVars, shimCalls>>
\* A render throws: it is tried again, and so are its updaters.
Retry ==
  /\ Calls /\ waiting /\ told' = Telling(going) /\ retried' = retried \cup going
  /\ UNCHANGED <<stack, coming, waiting, going, pushed, toastVars>>

----------------------------------------------------------------------------
(* Toasts: shown or changed, the whole of it is sent, its action under a new      *)
(* handler.                                                                         *)

(* A fault: the handler of the last time is left. *)
Leaving(t) == handlers
\* release
Released(t) == handlers \ {toast[t].handler}

\* show, or a setter of one that is shown: with an action or without.
PushToast(t, withAction) ==
  /\ Calls
  /\ nextHandler' = IF withAction THEN nextHandler + 1 ELSE nextHandler
  /\ LET h == IF withAction THEN nextHandler + 1 ELSE None
     IN /\ toast' = [toast EXCEPT ![t] = [shown |-> TRUE, handler |-> h]]
        /\ handlers' = Released(t) \cup (IF withAction THEN {h} ELSE {})
        /\ wire' = Append(wire, [toast |-> t, handler |-> h])
  /\ UNCHANGED <<onPage, windowOpen, viewVars>>
HideToast(t) ==
  /\ Calls /\ toast' = [toast EXCEPT ![t] = [shown |-> FALSE, handler |-> None]]
  /\ handlers' = Released(t) /\ wire' = Append(wire, None)
  /\ UNCHANGED <<nextHandler, onPage, windowOpen, viewVars>>
\* A finished toast goes by itself, and every toast with the window.
ToastOver == /\ onPage # None /\ onPage' = None
             /\ UNCHANGED <<toast, handlers, nextHandler, windowOpen, wire, viewVars, shimCalls>>
Close == /\ windowOpen /\ windowOpen' = FALSE /\ onPage' = None
         /\ UNCHANGED <<toast, handlers, nextHandler, wire, viewVars, shimCalls>>
\* A toast goes to the page while the session has a window.
Receive ==
  /\ wire # <<>> /\ wire' = Tail(wire) /\ onPage' = IF windowOpen THEN Head(wire) ELSE onPage
  /\ UNCHANGED <<toast, handlers, nextHandler, windowOpen, viewVars, shimCalls>>

NextShim ==
  \/ \E b \in BOOLEAN : Push(b) \/ \E t \in Toasts : PushToast(t, b)
  \/ PopView("pop") \/ PopView("root") \/ Flush \/ Retry
  \/ \E t \in Toasts : HideToast(t)
  \/ ToastOver \/ Close \/ Receive
SpecShim == InitShim /\ [][NextShim]_shimVars

----------------------------------------------------------------------------
(* The root stays and a view's keys are its depths, on the stack that is drawn     *)
(* and on the one that comes.  An onPop is queued only for a view that is on its     *)
(* way off and never comes back, whatever was pushed and popped in one batch; none   *)
(* of a view that is gone is missed; and one is queued twice only when a render      *)
(* was tried again (navigation.ts, push, pop and popToRoot).                          *)
StackSound ==
  /\ \A s \in {stack, coming} : s # <<>> /\ s[1].view = 0 /\ \A i \in DOMAIN s : s[i].key = i - 1
  /\ \A v \in DOMAIN pushed :
       /\ told[v] > 0 => pushed[v] /\ v \notin ViewsOn(coming)
       /\ ~waiting /\ pushed[v] /\ v \notin ViewsOn(stack) => told[v] > 0
       /\ v \notin retried => told[v] <= 1

(* The toast the page draws can be pressed: its handler is registered, once what     *)
(* is under way has arrived, and no handler is kept for a toast that has another.      *)
ToastsAnswer ==
  /\ wire = <<>> /\ onPage # None /\ onPage.handler # None => onPage.handler \in handlers
  /\ handlers \subseteq {toast[t].handler : t \in Toasts}

ViewsIntact == StackSound /\ ToastsAnswer
================================================================================
