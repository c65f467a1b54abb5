----------------------------- MODULE MCPlugins ------------------------------
(***************************************************************************)
(* What a plugin draws and does on the page, as one specification for TLC: *)
(* a behaviour belongs to one of five instances, which share nothing but    *)
(* the names of their variables.                                           *)
(***************************************************************************)
EXTENDS Naturals, Sequences, TLC

CONSTANTS
  None, w1, t1, t2,
  Trees, Elements, Texts, Grade, Keys, Requests,  \* of ExtPage
  Chords, Typeable, MaxRendered, MaxTyped,
  CacheKeys, Sizes, Capacity, MaxChanges,     \* of ShimCache
  Toasts, MaxViews, MaxCalls                  \* of ShimViews

VARIABLE part    \* which of the instances below this behaviour is of
VARIABLES tree, text, selectedId, requestedItem, moved, panelOpen, stack, index,
          revealed, pending, typed, heard, typedIn, sent, alert, focus, panelBack,
          alertBack, closedUnder, held, picked, owned, shown, over, dirty, up, down,
          doc, values, seen, busy, selected, announced, wanted, strayed, events,
          query, trimmed, timer, state, generation, runs, cache, settings, browsing,
          mounted, store, file, temp, saving, failed, gone, cacheSteps, coming,
          waiting, going, pushed, told, retried, toast, handlers, nextHandler,
          onPage, windowOpen, wire, shimCalls

(* A list the page filters, one whose command answers the search itself, a  *)
(* form pushed over it, and the default keys.                               *)
Act(h, chord) == [kind |-> "action", handler |-> h, chord |-> chord, form |-> FALSE]
Submenu == [kind |-> "submenu", chord |-> None, entries |-> <<Act("copy", None)>>]
RowActions == <<Submenu, Act("open", None), Act("reveal", "ctrl+r"),
                [kind |-> "section", entries |-> <<Act("trash", None)>>]>>
Submit == <<Act("submit", None)>>
Written == {RowActions[i] : i \in DOMAIN RowActions} \cup {Submit[1], Act("copy", None), Act("trash", None)}
Item(id, section, actions) == [id |-> id, item |-> id, section |-> section, actions |-> actions]
Items == <<Item("r1", "s", RowActions), Item("r2", "u", None), Item("r3", "s", None)>>
View(type, depth, rows, search, filtering) ==
  [type |-> type, depth |-> depth, rows |-> rows, search |-> search, throttle |-> search # None,
   filtering |-> filtering, onSelect |-> IF search = None THEN None ELSE "select",
   empty |-> Submit, actions |-> IF type = "Form" THEN Submit ELSE None]
Views == {View("List", 1, Items, None, "unset"),
          View("List", 2, Items, "q2", "sections"), View("Form", 2, <<>>, None, "unset")}
Grades == [a |-> [r1 |-> 2, r2 |-> 1, r3 |-> 1], b |-> [r1 |-> 0, r2 |-> 0, r3 |-> 3]]
Bound == [actionPanel |-> <<"ctrl+k">>, open |-> <<"enter">>, secondary |-> <<"space", "ctrl+enter">>,
          next |-> <<"down">>, previous |-> <<"up">>, category |-> <<"tab">>, back |-> <<"escape">>]

(* Six files in and out of the home directory, two of them below a folder,  *)
(* one hidden and one gone.                                                 *)
File(id, path, dir, ext, exec, there) ==
  [id |-> id, path |-> path, dir |-> dir, ext |-> ext, exec |-> exec, there |-> there]
Doc == File(1, <<"home", "docs">>, TRUE, "none", FALSE, TRUE)
Deep == File(2, <<"home", "docs", "a">>, FALSE, "png", FALSE, TRUE)
Tool == File(3, <<"home", "ab">>, FALSE, "none", TRUE, TRUE)
Secret == File(4, <<"home", ".cache", "a">>, FALSE, "none", FALSE, TRUE)
Away == File(5, <<"etc", "a">>, FALSE, "none", FALSE, TRUE)
Gone == File(6, <<"home", "b">>, FALSE, "none", FALSE, FALSE)
FileNames == {"docs", "a", "ab", "b"}
Categories == <<"folders", "images", "executables", "rest">>

KeyActions == <<"actionPanel", "open", "secondary", "next", "previous", "category", "back">>
X == INSTANCE ExtPage WITH ActionOrder <- KeyActions
H == INSTANCE HeldValues WITH Fields <- {"f", "g"}, Controlled <- {"f"},
    Values <- {"", "x"}, Empty <- "", Default <- [f |-> "", g |-> "x"],
    Choices <- <<"a", "b", "c">>, MaxEvents <- 3
S == INSTANCE FileSearch WITH Texts <- {"", "a", "b"},
    Output <- [a |-> <<Away, Tool, Deep, Secret, Doc>>, b |-> <<Gone, Tool, Doc>>],
    Root <- <<"home">>, HiddenNames <- {".cache"}, KnownKind <- [png |-> "images"],
    Tier <- [t \in {"a", "b"} |-> [n \in FileNames |-> IF n = "docs" THEN 2 ELSE IF n = t THEN 0 ELSE 1]],
    Size <- [n \in FileNames |-> IF n = "docs" THEN 4 ELSE IF n = "ab" THEN 2 ELSE 1],
    AllCategories <- Categories, Orders <- {<<>>, <<"rest", "images", "rest", "gone">>},
    Limit <- 3, MaxTyped <- 3

(* A document is written with elements, and a frame, a cache and a batch of *)
(* views are of some size.                                                  *)
IsWritten(children) == children = None \/ children \in Seq(Elements)
ASSUME PageAssumption ==
  /\ \A e \in Elements : e.kind \in {"section", "submenu"} => e.entries \in Seq(Elements)
  /\ \A t \in Trees : /\ IsWritten(t.empty) /\ IsWritten(t.actions) /\ t.rows \in Seq(X!ToSet(t.rows))
                     /\ \A r \in X!ToSet(t.rows) : IsWritten(r.actions)
  /\ \A a \in X!ToSet(KeyActions) : Keys[a] \in Seq(X!ToSet(Keys[a]))
  /\ MaxRendered \in Nat \ {0} /\ MaxTyped \in Nat
ASSUME SizesAssumption == Sizes \subseteq Nat /\ Capacity \in Nat /\ MaxViews \in Nat

C == INSTANCE ShimCache WITH Workers <- {w1}, Keys <- CacheKeys
V == INSTANCE ShimViews

(* None is no value of what may be missing: a store, its data, a text that  *)
(* waits.                                                                  *)
Data == [order : Seq(CacheKeys), entries : UNION {[K -> Nat] : K \in SUBSET CacheKeys}]
ASSUME NoneAssumption ==
  /\ None \notin Nat /\ None # C!Damaged /\ None \notin Data /\ None \notin [data : Data, timer : BOOLEAN, dirty : BOOLEAN]
  /\ \A t \in Trees, n \in 0..MaxTyped : None # [handler |-> t.search, at |-> n]

TwoToasts == {t1, t2}

pageRest == <<held, picked, owned, shown, over, dirty, up, down, doc, values, seen,
              busy, selected, announced, wanted, strayed, events, query, trimmed,
              timer, state, generation, runs, cache, settings, browsing, mounted,
              store, file, temp, saving, failed, gone, cacheSteps, coming, waiting,
              going, pushed, told, retried, toast, handlers, nextHandler, onPage,
              windowOpen, wire, shimCalls>>
heldVars == <<held, picked, owned, shown, over, dirty, up, down, doc, values, seen,
               busy, selected, announced, wanted, strayed, events>>
heldRest == <<tree, text, selectedId, requestedItem, moved, panelOpen, stack, index,
              revealed, pending, typed, heard, typedIn, sent, alert, focus,
              panelBack, alertBack, closedUnder, query, trimmed, timer, state,
              generation, runs, cache, settings, browsing, mounted, store, file,
              temp, saving, failed, gone, cacheSteps, coming, waiting, going,
              pushed, told, retried, toast, handlers, nextHandler, onPage,
              windowOpen, wire, shimCalls>>
filesVars == <<query, trimmed, timer, state, generation, runs, cache, settings,
               browsing, mounted, typed>>
filesRest == <<tree, text, selectedId, requestedItem, moved, panelOpen, stack,
               index, revealed, pending, heard, typedIn, sent, alert, focus,
               panelBack, alertBack, closedUnder, held, picked, owned, shown, over,
               dirty, up, down, doc, values, seen, busy, selected, announced,
               wanted, strayed, events, store, file, temp, saving, failed, gone,
               cacheSteps, coming, waiting, going, pushed, told, retried, toast,
               handlers, nextHandler, onPage, windowOpen, wire, shimCalls>>
cacheRest == <<tree, text, selectedId, requestedItem, moved, panelOpen, stack,
               index, revealed, pending, typed, heard, typedIn, sent, alert, focus,
               panelBack, alertBack, closedUnder, held, picked, owned, shown, over,
               dirty, up, down, doc, values, seen, busy, selected, announced,
               wanted, strayed, events, query, trimmed, timer, state, generation,
               runs, cache, settings, browsing, mounted, coming, waiting, going,
               pushed, told, retried, toast, handlers, nextHandler, onPage,
               windowOpen, wire, shimCalls>>
viewsRest == <<tree, text, selectedId, requestedItem, moved, panelOpen, index,
               revealed, pending, typed, heard, typedIn, sent, alert, focus,
               panelBack, alertBack, closedUnder, held, picked, owned, shown, over,
               dirty, up, down, doc, values, seen, busy, selected, announced,
               wanted, strayed, events, query, trimmed, timer, state, generation,
               runs, cache, settings, browsing, mounted, store, file, temp, saving,
               failed, gone, cacheSteps>>

(* The variables of the other instances stay out of the way. *)
Init ==
  \/ /\ part = "page" /\ X!InitPage
     /\ held = None /\ picked = None /\ owned = None /\ shown = None /\ over = None
        /\ dirty = None /\ up = None /\ down = None /\ doc = None /\ values = None
        /\ seen = None /\ busy = None /\ selected = None /\ announced = None
        /\ wanted = None /\ strayed = None /\ events = None /\ query = None
        /\ trimmed = None /\ timer = None /\ state = None /\ generation = None
        /\ runs = None /\ cache = None /\ settings = None /\ browsing = None
        /\ mounted = None /\ store = None /\ file = None /\ temp = None
        /\ saving = None /\ failed = None /\ gone = None /\ cacheSteps = None
        /\ coming = None /\ waiting = None /\ going = None /\ pushed = None
        /\ told = None /\ retried = None /\ toast = None /\ handlers = None
        /\ nextHandler = None /\ onPage = None /\ windowOpen = None /\ wire = None
        /\ shimCalls = None
  \/ /\ part = "held" /\ H!InitHeld
     /\ tree = None /\ text = None /\ selectedId = None /\ requestedItem = None
        /\ moved = None /\ panelOpen = None /\ stack = None /\ index = None
        /\ revealed = None /\ pending = None /\ typed = None /\ heard = None
        /\ typedIn = None /\ sent = None /\ alert = None /\ focus = None
        /\ panelBack = None /\ alertBack = None /\ closedUnder = None
        /\ query = None /\ trimmed = None /\ timer = None /\ state = None
        /\ generation = None /\ runs = None /\ cache = None /\ settings = None
        /\ browsing = None /\ mounted = None /\ store = None /\ file = None
        /\ temp = None /\ saving = None /\ failed = None /\ gone = None
        /\ cacheSteps = None /\ coming = None /\ waiting = None /\ going = None
        /\ pushed = None /\ told = None /\ retried = None /\ toast = None
        /\ handlers = None /\ nextHandler = None /\ onPage = None
        /\ windowOpen = None /\ wire = None /\ shimCalls = None
  \/ /\ part = "files" /\ S!InitSearch
     /\ tree = None /\ text = None /\ selectedId = None /\ requestedItem = None
        /\ moved = None /\ panelOpen = None /\ stack = None /\ index = None
        /\ revealed = None /\ pending = None /\ heard = None /\ typedIn = None
        /\ sent = None /\ alert = None /\ focus = None /\ panelBack = None
        /\ alertBack = None /\ closedUnder = None /\ held = None /\ picked = None
        /\ owned = None /\ shown = None /\ over = None /\ dirty = None /\ up = None
        /\ down = None /\ doc = None /\ values = None /\ seen = None /\ busy = None
        /\ selected = None /\ announced = None /\ wanted = None /\ strayed = None
        /\ events = None /\ store = None /\ file = None /\ temp = None
        /\ saving = None /\ failed = None /\ gone = None /\ cacheSteps = None
        /\ coming = None /\ waiting = None /\ going = None /\ pushed = None
        /\ told = None /\ retried = None /\ toast = None /\ handlers = None
        /\ nextHandler = None /\ onPage = None /\ windowOpen = None /\ wire = None
        /\ shimCalls = None
  \/ /\ part = "cache" /\ C!InitCache
     /\ tree = None /\ text = None /\ selectedId = None /\ requestedItem = None
        /\ moved = None /\ panelOpen = None /\ stack = None /\ index = None
        /\ revealed = None /\ pending = None /\ typed = None /\ heard = None
        /\ typedIn = None /\ sent = None /\ alert = None /\ focus = None
        /\ panelBack = None /\ alertBack = None /\ closedUnder = None /\ held = None
        /\ picked = None /\ owned = None /\ shown = None /\ over = None
        /\ dirty = None /\ up = None /\ down = None /\ doc = None /\ values = None
        /\ seen = None /\ busy = None /\ selected = None /\ announced = None
        /\ wanted = None /\ strayed = None /\ events = None /\ query = None
        /\ trimmed = None /\ timer = None /\ state = None /\ generation = None
        /\ runs = None /\ cache = None /\ settings = None /\ browsing = None
        /\ mounted = None /\ coming = None /\ waiting = None /\ going = None
        /\ pushed = None /\ told = None /\ retried = None /\ toast = None
        /\ handlers = None /\ nextHandler = None /\ onPage = None
        /\ windowOpen = None /\ wire = None /\ shimCalls = None
  \/ /\ part = "views" /\ V!InitShim
     /\ tree = None /\ text = None /\ selectedId = None /\ requestedItem = None
        /\ moved = None /\ panelOpen = None /\ index = None /\ revealed = None
        /\ pending = None /\ typed = None /\ heard = None /\ typedIn = None
        /\ sent = None /\ alert = None /\ focus = None /\ panelBack = None
        /\ alertBack = None /\ closedUnder = None /\ held = None /\ picked = None
        /\ owned = None /\ shown = None /\ over = None /\ dirty = None /\ up = None
        /\ down = None /\ doc = None /\ values = None /\ seen = None /\ busy = None
        /\ selected = None /\ announced = None /\ wanted = None /\ strayed = None
        /\ events = None /\ query = None /\ trimmed = None /\ timer = None
        /\ state = None /\ generation = None /\ runs = None /\ cache = None
        /\ settings = None /\ browsing = None /\ mounted = None /\ store = None
        /\ file = None /\ temp = None /\ saving = None /\ failed = None
        /\ gone = None /\ cacheSteps = None

Next ==
  /\ UNCHANGED part
  /\ \/ part = "page" /\ X!NextPage /\ UNCHANGED pageRest
     \/ part = "held" /\ H!NextHeld /\ UNCHANGED heldRest
     \/ part = "files" /\ S!NextSearch /\ UNCHANGED filesRest
     \/ part = "cache" /\ C!NextCache /\ UNCHANGED cacheRest
     \/ part = "views" /\ V!NextShim /\ UNCHANGED viewsRest

vars == <<part, tree, text, selectedId, requestedItem, moved, panelOpen, stack,
          index, revealed, pending, typed, heard, typedIn, sent, alert, focus,
          panelBack, alertBack, closedUnder, held, picked, owned, shown, over,
          dirty, up, down, doc, values, seen, busy, selected, announced, wanted,
          strayed, events, query, trimmed, timer, state, generation, runs, cache,
          settings, browsing, mounted, store, file, temp, saving, failed, gone,
          cacheSteps, coming, waiting, going, pushed, told, retried, toast,
          handlers, nextHandler, onPage, windowOpen, wire, shimCalls>>

(* What each instance relies on to go on; the module says why it may. *)
Fairness ==
  /\ WF_heldVars(part = "held" /\ H!Hear)
  /\ WF_heldVars(part = "held" /\ H!Render)
  /\ WF_heldVars(part = "held" /\ H!ApplyDoc)
  /\ WF_filesVars(part = "files" /\ S!Settled)
  /\ \A i \in 1..3 : WF_filesVars(part = "files" /\ i \in DOMAIN runs /\ S!TimesOut(i))
  /\ \A i \in 1..3 : WF_filesVars(part = "files" /\ i \in DOMAIN runs /\ S!KillAfterGrace(i))
  /\ \A i \in 1..3 : WF_filesVars(part = "files" /\ i \in DOMAIN runs /\ \E o \in {"all", "some", "error"} : S!EndsLate(i, o) \/ S!SettlesAborted(i, o))

Spec == Init /\ [][Next]_vars /\ Fairness

-----------------------------------------------------------------------------
(* The page of a plugin: an edit goes to the command that is drawn and no   *)
(* other, the selection and the action panel are of what is drawn, and the  *)
(* keyboard is where the person left it (ext/ExtensionView.tsx, ExtPage).   *)
PageIntact == part = "page" => X!PageIntact

(* A field's value: what is typed is not taken back by a document that did  *)
(* not change it, and once all has arrived the page and the command hold    *)
(* the same (ext/Form.tsx, Dropdown.tsx, HeldValues).                          *)
HeldIntact ==
  /\ [][part = "held" => H!StaysTyped]_vars
  /\ <>[](part = "held" => H!Same)

(* The list of files is the answer to what is typed, in its order, and      *)
(* while the command is there every search ends with its program gone       *)
(* (plugins/files, api-shim/exec.ts, FileSearch).                           *)
FilesIntact ==
  /\ [](part = "files" => S!ShownIsAnswer)
  /\ <>[](part = "files" => (state.loading => ~mounted) /\ S!ProgramsGone)

(* The cache never outgrows its capacity, and what was removed is not back  *)
(* after a worker that was stopped in an orderly way (api-shim/system.ts,   *)
(* ShimCache).                                                              *)
CacheIntact == part = "cache" => C!CacheIntact

(* The stack of views has its root, a view that is gone has been told and    *)
(* none that is drawn again is, and a press on a toast finds its handler     *)
(* (api-shim/navigation.ts, feedback.ts, ShimViews).                          *)
ViewsIntact == part = "views" => V!ViewsIntact
=============================================================================
