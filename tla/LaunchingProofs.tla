---------------------------- MODULE LaunchingProofs ----------------------------
(***************************************************************************)
(* What holds of finding and launching (MCLaunching) for every value of    *)
(* the constants.  A behaviour of Spec is one of one of the instances, so  *)
(* an inductive invariant of the instance is one of Spec while it is of    *)
(* that part: the others leave its variables alone.                        *)
(***************************************************************************)
EXTENDS MCLaunching, FiniteSetTheorems, FiniteSetsExt, TLAPS

(******************************* the list *******************************)
(* The last question asked is the query that is typed, unless that is yet to *)
(* be asked; and unless one of the two is on its way, the list answers it.   *)
Within == page.selected <= (IF page.items.n = 0 THEN 0 ELSE page.items.n - 1)
Words == Queries \cup {""}
Lists == [query : Words, n : Nat]
Pages == [query : Words, dirty : BOOLEAN, items : Lists, selected : Nat, error : BOOLEAN]
ListTypeOK == page \in Pages /\ asks \in SUBSET [query : Words, last : BOOLEAN] /\ going \in {"no", "asked", "lost"}
AskedLast == \A a \in asks : a.last /\ ~page.dirty => a.query = page.query
Answered == ~page.dirty => page.items.query = page.query \/ \E a \in asks : a.last
ListInv == ListTypeOK /\ Within /\ AskedLast /\ Answered

LEMMA ListInductive == ListInv /\ [L!NextLauncher]_(L!launcherVars) => ListInv'
<1> SUFFICES ASSUME ListInv, [L!NextLauncher]_(L!launcherVars) PROVE ListInv'
  OBVIOUS
<1> USE DEF ListTypeOK
<1>1. /\ page \in Pages /\ page.items \in Lists /\ page.items.n \in Nat /\ page.selected \in Nat
      /\ page.query \in Words /\ page.dirty \in BOOLEAN /\ ListTypeOK /\ Within /\ AskedLast /\ Answered
  BY DEF ListInv, Pages, Lists
<1>2. ASSUME UNCHANGED <<page, asks>>, going' \in {"no", "asked", "lost"} PROVE ListInv'
  BY <1>1, <1>2 DEF ListInv, Within, AskedLast, Answered, Words
<1>3. ASSUME page' = L!NewPage, asks' = {}, going' \in {"no", "asked", "lost"} PROVE ListInv'
  <2>1. /\ L!NewPage \in Pages /\ L!NewPage.dirty = TRUE /\ L!NewPage.selected = 0 /\ L!NewPage.items.n = 0
    BY DEF L!NewPage, L!NoItems, Pages, Lists, Words
  <2>2. page' \in Pages /\ page'.dirty = TRUE /\ page'.selected = 0 /\ page'.items.n = 0
    BY <1>3, <2>1
  <2>3. Within' /\ AskedLast' /\ Answered'
    BY <1>3, <2>2 DEF Within, AskedLast, Answered
  <2>4. ListTypeOK'
    BY <1>3, <2>2 DEF Pages, Lists, Words
  <2> QED BY <2>3, <2>4 DEF ListInv
<1>4. ASSUME NEW q \in Words, page' = L!Changed(q), UNCHANGED <<asks, going>> PROVE ListInv'
  <2>1. /\ page'.query = q /\ page'.dirty = (page.dirty \/ q # page.query) /\ page'.items = page.items
        /\ page'.selected = 0
    BY <1>1, <1>4 DEF L!Changed, Pages
  <2>2. page' \in Pages
    BY <1>1, <1>4 DEF L!Changed, Pages
  <2>3. Within'
    BY <1>1, <2>1 DEF Within, Lists
  <2>4. AskedLast'
    BY <1>1, <1>4, <2>1 DEF AskedLast
  <2>5. Answered'
    BY <1>1, <1>4, <2>1 DEF Answered
  <2> QED BY <1>1, <1>4, <2>2, <2>3, <2>4, <2>5 DEF ListInv, Pages
<1>5. ASSUME NEW g \in {"no", "asked", "lost"}, NEW e, L!Hide(g, e) PROVE ListInv'
  <2>1. CASE shown /\ resized
    BY <1>3, <1>5, <2>1 DEF L!Hide, L!Renew
  <2>2. CASE ~(shown /\ resized)
    BY <1>2, <1>5, <2>2 DEF L!Hide
  <2> QED BY <2>1, <2>2
<1>6. CASE L!Show \/ L!OpenFiles \/ L!FilesPicked \/ L!Load \/ L!Enter \/ L!Escape \/ UNCHANGED L!launcherVars
  BY <1>1, <1>2, <1>6 DEF L!Show, L!OpenFiles, L!FilesPicked, L!Load, L!Enter, L!Escape, L!launcherVars, L!windowVars
<1>7. CASE L!Toggle \/ L!Blur \/ L!Opened \/ L!EscapeHides
  BY <1>1, <1>5, <1>7 DEF L!Toggle, L!Blur, L!Opened, L!EscapeHides
<1>8. CASE L!Resize
  <2>1. CASE shown
    BY <1>1, <1>2, <1>8, <2>1 DEF L!Resize
  <2>2. CASE ~shown
    BY <1>3, <1>8, <2>2 DEF L!Resize, L!Renew
  <2> QED BY <2>1, <2>2
<1>9. CASE \E q \in Queries : L!Typed(q)
  BY <1>4, <1>9 DEF L!Typed, Words
<1>10. ASSUME NEW a \in asks, L!Answer(a) PROVE ListInv'
  <2>1. asks' = asks \ {a} /\ UNCHANGED going /\ a \in [query : Words, last : BOOLEAN]
    BY <1>1, <1>10 DEF L!Answer
  <2>6. \E n \in Nat : L!List(a, n)
    <3>1. {0} \subseteq Nat /\ 0..2 \subseteq Nat
      OBVIOUS
    <3>2. \E n \in (IF a.query = "" THEN {0} ELSE 0..2) : L!List(a, n)
      BY <1>10, Zenon DEF L!Answer
    <3> QED BY <3>1, <3>2, Zenon
  <2>2. PICK n \in Nat : L!List(a, n)
    BY <2>6
  <2>3. CASE ~a.last
    <3>1. page' = page
      BY <2>2, <2>3 DEF L!List
    <3> QED BY <1>1, <2>1, <2>3, <3>1 DEF ListInv, Within, AskedLast, Answered
  <2>4. CASE a.last
    <3> DEFINE next == L!Clamp(page.selected, n)
               found == [query |-> a.query, n |-> n]
    <3>1. page' = [page EXCEPT !.items = found, !.selected = next]
      BY <1>1, <2>2, <2>4 DEF L!List, Pages
    <3>2. next \in Nat /\ next <= (IF n = 0 THEN 0 ELSE n - 1)
      BY <1>1 DEF L!Clamp
    <3> HIDE DEF next
    <3>7. found \in Lists /\ found.query = a.query /\ found.n = n
      BY <2>1 DEF Lists
    <3> HIDE DEF found
    <3>3. /\ page'.query = page.query /\ page'.dirty = page.dirty /\ page'.items = found
          /\ page'.selected = next /\ page' \in Pages
      BY <1>1, <3>1, <3>2, <3>7 DEF Pages
    <3>4. page'.items.query = a.query /\ page'.items.n = n
      BY <3>3, <3>7
    <3>5. Within'
      BY <3>2, <3>3, <3>4 DEF Within
    <3>6. AskedLast' /\ Answered'
      BY <1>1, <2>1, <2>4, <3>3, <3>4 DEF AskedLast, Answered
    <3> QED BY <1>1, <2>1, <3>3, <3>5, <3>6 DEF ListInv
  <2> QED BY <2>3, <2>4
<1>11. CASE L!Ask
  <2>1. /\ page' = [page EXCEPT !.dirty = FALSE] /\ UNCHANGED going
        /\ asks' = {[query |-> a.query, last |-> FALSE] : a \in asks} \cup {[query |-> page.query, last |-> TRUE]}
    BY <1>11 DEF L!Ask
  <2>2. /\ page' \in Pages /\ page'.query = page.query /\ page'.items = page.items
        /\ page'.selected = page.selected
    BY <1>1, <2>1 DEF Pages
  <2> DEFINE Old(a) == [query |-> a.query, last |-> FALSE]
             new == [query |-> page.query, last |-> TRUE]
  <2>5. new \in [query : Words, last : BOOLEAN] /\ new.last = TRUE /\ new.query = page.query
    BY <1>1
  <2>6. \A a \in asks : Old(a) \in [query : Words, last : BOOLEAN] /\ Old(a).last = FALSE
    BY <1>1
  <2>7. asks' = {Old(a) : a \in asks} \cup {new}
    BY <2>1
  <2> HIDE DEF Old, new
  <2>3. \A a \in asks' : a \in [query : Words, last : BOOLEAN] /\ (a.last => a.query = page.query)
    BY <2>5, <2>6, <2>7
  <2>4. \E a \in asks' : a.last
    BY <2>5, <2>7
  <2> QED BY <1>1, <2>1, <2>2, <2>3, <2>4 DEF ListInv, Within, AskedLast, Answered
<1>12. CASE L!Visibility
  <2> DEFINE cleared == L!Changed("")
  <2>1. page' = [cleared EXCEPT !.items = L!NoItems] /\ UNCHANGED <<asks, going>>
    BY <1>12 DEF L!Visibility
  <2>2. /\ cleared \in Pages /\ cleared.query = "" /\ cleared.dirty = (page.dirty \/ "" # page.query)
        /\ cleared.selected = 0
    BY <1>1 DEF L!Changed, Pages, Words
  <2>3. L!NoItems \in Lists /\ L!NoItems.query = "" /\ L!NoItems.n = 0
    BY DEF L!NoItems, Lists, Words
  <2> HIDE DEF cleared
  <2>4. /\ page' \in Pages /\ page'.query = "" /\ page'.dirty = (page.dirty \/ "" # page.query)
        /\ page'.items = L!NoItems /\ page'.selected = 0
    BY <2>1, <2>2, <2>3 DEF Pages
  <2>6. ~page'.dirty => ~page.dirty /\ page.query = ""
    BY <1>1, <2>4
  <2>7. page'.items.query = page'.query /\ page'.items.n = 0
    BY <2>3, <2>4
  <2>11. page'.selected = 0 /\ page'.items.n = 0
    BY <2>4, <2>7
  <2>8. Within'
    BY <2>11 DEF Within
  <2>10. Answered'
    BY <2>7 DEF Answered
  <2>9. AskedLast'
    BY <1>1, <2>1, <2>4, <2>6 DEF AskedLast
  <2> QED BY <1>1, <2>1, <2>4, <2>8, <2>9, <2>10 DEF ListInv, Pages
<1>13. CASE L!OpenFails
  <2>1. page' = [page EXCEPT !.error = @ \/ going = "asked"] /\ going' = "no" /\ UNCHANGED asks
    BY <1>13 DEF L!OpenFails
  <2>2. /\ page' \in Pages /\ page'.query = page.query /\ page'.items = page.items
        /\ page'.selected = page.selected /\ page'.dirty = page.dirty
    BY <1>1, <2>1 DEF Pages
  <2> QED BY <1>1, <2>1, <2>2 DEF ListInv, Within, AskedLast, Answered
<1>14. ASSUME NEW s \in {0 - 1, 1}, L!Move(s) PROVE ListInv'
  <2> DEFINE next == L!Clamp(IF s < 0 THEN (IF page.selected = 0 THEN 0 ELSE page.selected - 1) ELSE page.selected + 1, page.items.n)
  <2>1. page' = [page EXCEPT !.selected = next] /\ UNCHANGED <<asks, going>>
    BY <1>1, <1>14 DEF L!Move, Pages
  <2>2. next \in Nat /\ next <= (IF page.items.n = 0 THEN 0 ELSE page.items.n - 1)
    BY <1>1 DEF L!Clamp
  <2> HIDE DEF next
  <2>3. /\ page' \in Pages /\ page'.query = page.query /\ page'.items = page.items
        /\ page'.selected = next /\ page'.dirty = page.dirty
    BY <1>1, <2>1, <2>2 DEF Pages
  <2> QED BY <1>1, <2>1, <2>2, <2>3 DEF ListInv, Within, AskedLast, Answered
<1>15. CASE L!EscapeClears
  <2>1. UNCHANGED <<asks, going>> /\ (page' = page \/ page' = L!Changed(""))
    BY <1>15 DEF L!EscapeClears
  <2> QED BY <1>1, <1>2, <1>4, <2>1 DEF Words
<1> QED BY <1>6, <1>7, <1>8, <1>9, <1>10, <1>11, <1>12, <1>13, <1>14, <1>15 DEF L!NextLauncher

(* For any queries and any number of messages on their way: with nothing on *)
(* its way the list is of the query that is typed, over every order of      *)
(* answers, hides and windows made anew (App.tsx, window.ts).               *)
THEOREM LauncherListsItsQuery == Spec => []ListIsOfQuery
<1> DEFINE Inv == part = "list" => ListInv
<1>1. Init => Inv
  <2>1. L!InitLauncher => ListInv
    <3>1. /\ L!NewPage \in Pages /\ L!NewPage.dirty = TRUE /\ L!NewPage.selected = 0 /\ L!NewPage.items.n = 0
      BY DEF L!NewPage, L!NoItems, Pages, Lists, Words
    <3> QED BY <3>1 DEF L!InitLauncher, ListInv, ListTypeOK, Within, AskedLast, Answered
  <2>2. Init /\ part = "list" => L!InitLauncher
    BY DEF Init
  <2> QED BY <2>1, <2>2
<1>2. Inv /\ [Next]_vars => Inv'
  <2> SUFFICES ASSUME ListInv, part = "list", [Next]_vars PROVE ListInv'
    BY DEF Next, vars
  <2>1. [L!NextLauncher]_(L!launcherVars)
    BY DEF Next, vars, L!launcherVars, L!windowVars
  <2> QED BY <2>1, ListInductive
<1>3. Inv => ListIsOfQuery
  BY DEF ListInv, ListTypeOK, Within, AskedLast, Answered, ListIsOfQuery, L!ListIsOfQuery
<1> QED BY <1>1, <1>2, <1>3, PTL DEF Spec

(***************************** the plugins ******************************)
(* A scan finds one row of each id, and every row it finds is there to be   *)
(* run.                                                                     *)
OfOneId(i) == \A r, t \in i : r.id = t.id => r = t

LEMMA ScanIsSound == OfOneId(P!Scanned) /\ \A r \in P!Scanned : P!OnDisk(r)
<1> DEFINE present == {c \in P!Usable \X Cmds : c[2] \in disk[c[1]].bundles}
           shipped == {c \in Bundled : c[1] \notin P!Usable}
<1>1. P!Scanned = {P!Row(id, FALSE) : id \in present} \cup {P!Row(id, TRUE) : id \in shipped}
  BY DEF P!Scanned
<1>2. \A id \in present : id[1] \in P!Usable /\ id[2] \in disk[id[1]].bundles
  OBVIOUS
<1>3. \A id \in shipped : id[1] \notin P!Usable
  OBVIOUS
<1> HIDE DEF present, shipped
<1>4. ASSUME NEW r \in P!Scanned
      PROVE  \/ r.id \in present /\ r = P!Row(r.id, FALSE) /\ r.bundled = FALSE
             \/ r.id \in shipped /\ r = P!Row(r.id, TRUE) /\ r.bundled = TRUE
  <2>1. CASE \E id \in present : r = P!Row(id, FALSE)
    BY <2>1 DEF P!Row
  <2>2. CASE \E id \in shipped : r = P!Row(id, TRUE)
    BY <2>2 DEF P!Row
  <2> QED BY <1>1, <2>1, <2>2
<1>6. OfOneId(P!Scanned)
  <2> SUFFICES ASSUME NEW r \in P!Scanned, NEW t \in P!Scanned, r.id = t.id PROVE r = t
    BY DEF OfOneId
  <2>1. ~(r.id \in present /\ r.id \in shipped)
    BY <1>2, <1>3
  <2>2. CASE r.id \in present
    <3>1. r = P!Row(r.id, FALSE)
      BY <1>4, <2>1, <2>2, Zenon
    <3>2. t = P!Row(t.id, FALSE)
      BY <1>4, <2>1, <2>2, Zenon
    <3> QED BY <3>1, <3>2, Zenon
  <2>3. CASE r.id \notin present
    <3>1. r = P!Row(r.id, TRUE)
      BY <1>4, <2>3, Zenon
    <3>2. t = P!Row(t.id, TRUE)
      BY <1>4, <2>3, Zenon
    <3> QED BY <3>1, <3>2, Zenon
  <2> QED BY <2>2, <2>3
<1>7. ASSUME NEW r \in P!Scanned PROVE P!OnDisk(r)
  <2>1. CASE r.bundled = TRUE
    BY <2>1 DEF P!OnDisk
  <2>2. CASE r.id \in present
    BY <1>2, <2>2 DEF P!OnDisk
  <2> QED BY <1>4, <2>1, <2>2
<1> QED BY <1>6, <1>7

(* The rows kept are those of the index and the list they are kept with.    *)
KeptAreRows == cached.rows = P!RowsOf(cached.index, cached.list)
PluginInv == KeptAreRows /\ OfOneId(index) /\ launched.there

LEMMA PluginsInductive == PluginInv /\ [P!NextPlugins]_(P!pluginVars) => PluginInv'
<1> SUFFICES ASSUME PluginInv, [P!NextPlugins]_(P!pluginVars) PROVE PluginInv'
  OBVIOUS
<1>1. ASSUME UNCHANGED <<cached, launched>>, index' = index \/ index' = P!Scanned PROVE PluginInv'
  BY <1>1, ScanIsSound DEF PluginInv, KeptAreRows, OfOneId, P!RowsOf, P!Enabled
<1>2. ASSUME NEW n \in Names, P!InstallSome(n) \/ P!RemovePlugin(n) \/ P!ExportPlugin(n) PROVE PluginInv'
  BY <1>1, <1>2 DEF P!InstallSome, P!RemovePlugin, P!ExportPlugin, P!Daemon
<1>3. ASSUME NEW n, NEW k, P!SetEnabled(n, k) \/ \E v \in Values : P!SetPreference(n, k, v) PROVE PluginInv'
  BY <1>1, <1>3 DEF P!SetEnabled, P!SetPreference, P!Daemon
<1>4. CASE P!Notice \/ P!RescanExtensions \/ P!Reload \/ UNCHANGED P!pluginVars
  BY <1>1, <1>4 DEF P!Notice, P!RescanExtensions, P!Reload, P!pluginVars
<1>5. CASE P!ListRows
  <2>1. cached' = P!CachedRows /\ UNCHANGED <<index, launched>>
    BY <1>5 DEF P!ListRows
  <2>2. P!CachedRows.rows = P!RowsOf(P!CachedRows.index, P!CachedRows.list)
    BY DEF PluginInv, KeptAreRows, P!CachedRows
  <2> QED BY <2>1, <2>2 DEF PluginInv, KeptAreRows, OfOneId, P!RowsOf, P!Enabled
<1>6. ASSUME NEW id, P!Launch(id) PROVE PluginInv'
  <2> DEFINE found == {r \in index : r.id = id}
             runs == {r \in index' : r.id = id}
  <2>1. /\ index' = IF P!Found(found) THEN index ELSE P!Scanned
        /\ launched'.there = (\A r \in runs : P!OnDisk(r)) /\ UNCHANGED cached
    BY <1>6 DEF P!Launch
  <2>2. \A r \in runs : P!OnDisk(r)
    <3>1. CASE P!Found(found)
      BY <2>1, <3>1 DEF P!Found
    <3>2. CASE ~P!Found(found)
      BY <2>1, <3>2, ScanIsSound
    <3> QED BY <3>1, <3>2
  <2>3. OfOneId(index')
    BY <2>1, ScanIsSound DEF PluginInv
  <2> QED BY <2>1, <2>2, <2>3 DEF PluginInv, KeptAreRows, P!RowsOf, P!Enabled, OfOneId
<1> QED BY <1>2, <1>3, <1>4, <1>5, <1>6 DEF P!NextPlugins

(* For any plugins and commands, however installs, removals and scans fall: *)
(* the rows are those of the index, one of each id, and what is launched is *)
(* there to be run (registry.ts, the launch verbs of daemon.ts).            *)
THEOREM PluginRowsIntact == Spec => []RowsIntact
<1> DEFINE Inv == part = "plugins" => PluginInv
<1>1. Init => Inv
  <2> SUFFICES ASSUME P!InitPlugins PROVE PluginInv
    BY DEF Init
  <2>1. KeptAreRows
    BY DEF P!InitPlugins, KeptAreRows, P!RowsOf
  <2> QED BY <2>1, ScanIsSound DEF P!InitPlugins, PluginInv, P!Nothing
<1>2. Inv /\ [Next]_vars => Inv'
  <2> SUFFICES ASSUME PluginInv, part = "plugins", [Next]_vars PROVE PluginInv'
    BY DEF Next, vars
  <2>1. [P!NextPlugins]_(P!pluginVars)
    BY DEF Next, vars, P!pluginVars
  <2> QED BY <2>1, PluginsInductive
<1>3. Inv => RowsIntact
  BY DEF PluginInv, KeptAreRows, P!CachedRows, RowsIntact, P!RowsIntact, OfOneId
<1> QED BY <1>1, <1>2, <1>3, PTL DEF Spec

(********************** requests without a window ***********************)
Messages == {"with", "without", "busy", "idle", "alert", "end"}
(* A drained session was busy when it was closed and has not returned since; *)
(* what is addressable without a label outlived a ceiling; the messages of a *)
(* handler tell how far it has come, and only a dispatched one has any.      *)
HeadTypeOK ==
  /\ stage \in [Sid -> {"no", "launching", "polling", "releasing", "done"}]
  /\ busy \in [Sid -> BOOLEAN] /\ plug \in [Sid -> {"off", "up", "gone"}]
  /\ run \in [Sid -> {"no", "sent", "running", "over"}] /\ wire \in [Sid -> Seq(Messages)]
DrainsBusy == \A s \in Sid : s \in drain => busy[s]
Labelled == \A s \in Sid : s \in open \cup drain => s \in label \cup late
Said(s, m) == \E i \in DOMAIN wire[s] : wire[s][i] = m
RunsInOrder == \A s \in Sid :
  /\ run[s] # "no" => stage[s] \in {"releasing", "done"}
  /\ busy[s] \/ s \in told \/ Said(s, "busy") => run[s] \in {"running", "over"}
  /\ Said(s, "idle") => run[s] = "over"
  /\ s \in told /\ run[s] = "running" => busy[s]
OfSessions == page \subseteq Sid /\ open \subseteq Sid /\ drain \subseteq Sid /\ told \subseteq Sid
HeadInv == HeadTypeOK /\ OfSessions /\ DrainsBusy /\ Labelled /\ RunsInOrder /\ U!AskedOnlyInWindows /\ U!ActionIsServed

LEMMA WordSpoken ==
  ASSUME NEW w \in Seq(Messages), NEW m \in Messages
  PROVE  /\ Append(w, m) \in Seq(Messages)
         /\ \A x : (\E i \in DOMAIN Append(w, m) : Append(w, m)[i] = x) => x = m \/ \E i \in DOMAIN w : w[i] = x
  OBVIOUS

LEMMA WordHeard ==
  ASSUME NEW w \in Seq(Messages), w # <<>>
  PROVE  /\ Tail(w) \in Seq(Messages) /\ Head(w) \in Messages /\ 1 \in DOMAIN w /\ w[1] = Head(w)
         /\ \A x : (\E i \in DOMAIN Tail(w) : Tail(w)[i] = x) => \E i \in DOMAIN w : w[i] = x
<1>1. Tail(w) \in Seq(Messages) /\ Head(w) \in Messages /\ 1 \in DOMAIN w /\ w[1] = Head(w)
  OBVIOUS
<1>2. ASSUME NEW x, NEW i \in DOMAIN Tail(w), Tail(w)[i] = x PROVE \E k \in DOMAIN w : w[k] = x
  <2>1. i + 1 \in DOMAIN w /\ w[i + 1] = x
    BY <1>2
  <2> QED BY <2>1
<1> QED BY <1>1, <1>2

(* The closing of sessions S of which none is busy that should be kept.      *)
LEMMA ClosedKeeps ==
  ASSUME HeadInv, NEW S \in SUBSET Sid, U!Close(S), UNCHANGED <<told, run, plug, busy>>
  PROVE  /\ DrainsBusy' /\ page' \subseteq page /\ OfSessions'
         /\ open' \subseteq open /\ drain' \subseteq open \cup drain
         /\ \A s \in Sid : s \in open /\ busy[s] => s \in open' \cup drain'
         /\ \A s \in S : s \notin open' /\ (~busy[s] => s \notin drain')
         /\ drain \subseteq drain'
  BY DEF HeadInv, OfSessions, DrainsBusy, U!Close, HeadTypeOK

LEMMA ServedOn ==
  ASSUME HeadInv, told' = told, late \subseteq late',
         \A s \in Sid : run'[s] = "running" => run[s] = "running",
         \A s \in Sid : plug'[s] = "up" => plug[s] = "up",
         \A s \in Sid : busy[s] /\ s \in open \cup drain => s \in open' \cup drain' \cup late' \/ plug'[s] # "up"
  PROVE  U!ActionIsServed'
<1> SUFFICES ASSUME NEW s \in told, run'[s] = "running", plug'[s] = "up"
             PROVE s \in open' \cup drain' \cup late'
  BY DEF U!ActionIsServed, U!Addressable
<1>1. s \in Sid /\ run[s] = "running" /\ plug[s] = "up"
  BY DEF HeadInv, OfSessions
<1>2. busy[s] /\ s \in open \cup drain \cup late
  BY <1>1 DEF HeadInv, RunsInOrder, U!ActionIsServed, U!Addressable
<1> QED BY <1>1, <1>2

LEMMA RunsOn ==
  ASSUME HeadInv, UNCHANGED <<run, wire, busy, told>>,
         \A s \in Sid : stage'[s] = stage[s] \/ stage'[s] \in {"releasing", "done"} \/ run[s] = "no"
  PROVE  RunsInOrder'
  BY DEF HeadInv, RunsInOrder, Said

LEMMA HeadInductive == HeadInv /\ [U!Next]_(U!vars) => HeadInv'
<1> SUFFICES ASSUME HeadInv, [U!Next]_(U!vars) PROVE HeadInv'
  OBVIOUS
<1>0. /\ HeadTypeOK /\ OfSessions /\ DrainsBusy /\ Labelled /\ RunsInOrder /\ page \subseteq late /\ U!ActionIsServed
  BY DEF HeadInv, U!AskedOnlyInWindows
<1> USE DEF HeadTypeOK
<1>1. ASSUME NEW s \in Sid, U!Ask(s) PROVE HeadInv'
  <2>1. /\ stage' = [stage EXCEPT ![s] = "launching"] /\ stage[s] = "no" /\ plug' = [plug EXCEPT ![s] = "up"]
        /\ label' = label \cup {s} /\ open' = open \cup {s}
        /\ UNCHANGED <<drain, busy, run, wire, page, told, late>>
    BY <1>1 DEF U!Ask
  <2>2. run[s] = "no"
    BY <1>0, <2>1 DEF RunsInOrder
  <2>3. RunsInOrder'
    BY <1>0, <2>1, <2>2, RunsOn
  <2>4. U!ActionIsServed'
    BY <1>0, <2>1, <2>2 DEF U!ActionIsServed, U!Addressable, OfSessions
  <2> QED BY <1>0, <2>1, <2>3, <2>4 DEF HeadInv, OfSessions, DrainsBusy, Labelled, U!AskedOnlyInWindows
<1>2. ASSUME NEW s \in Sid, U!Launched(s) PROVE HeadInv'
  <2>1. /\ stage' = [stage EXCEPT ![s] = "polling"] /\ stage[s] = "launching"
        /\ UNCHANGED <<label, open, plug, drain, busy, run, wire, page, told, late>>
    BY <1>2 DEF U!Launched, U!workerVars
  <2>2. run[s] = "no"
    BY <1>0, <2>1 DEF RunsInOrder
  <2>3. RunsInOrder'
    BY <1>0, <2>1, <2>2, RunsOn
  <2> QED BY <1>0, <2>1, <2>3 DEF HeadInv, OfSessions, DrainsBusy, Labelled, U!AskedOnlyInWindows, U!ActionIsServed, U!Addressable
<1>3. ASSUME NEW s \in Sid, U!LaunchFails(s) PROVE HeadInv'
  <2>1. /\ stage' = [stage EXCEPT ![s] = "done"] /\ stage[s] = "launching" /\ plug' = [plug EXCEPT ![s] = "gone"]
        /\ label' = label \ {s} /\ open' = open \ {s} /\ wire' = [wire EXCEPT ![s] = <<>>]
        /\ UNCHANGED <<drain, busy, run, page, told, late>>
    BY <1>3 DEF U!LaunchFails, U!Finish
  <2>2. run[s] = "no" /\ ~busy[s] /\ s \notin drain
    BY <1>0, <2>1 DEF RunsInOrder, DrainsBusy
  <2>3. \A t \in Sid, m \in Messages : Said(t, m)' => Said(t, m)
    BY <1>0, <2>1 DEF Said
  <2>4. RunsInOrder'
    BY <1>0, <2>1, <2>2, <2>3 DEF RunsInOrder, Messages
  <2>5. U!ActionIsServed'
    BY <1>0, <2>1, ServedOn
  <2> QED BY <1>0, <2>1, <2>2, <2>4, <2>5 DEF HeadInv, OfSessions, DrainsBusy, Labelled, U!AskedOnlyInWindows
<1>4. ASSUME NEW s \in Sid, U!PollFails(s) \/ U!ReadRows(s) PROVE HeadInv'
  <2>1. /\ stage' = [stage EXCEPT ![s] = "done"] /\ stage[s] = "polling" /\ label' = label \ {s} /\ U!Close({s})
        /\ UNCHANGED <<busy, run, plug, wire, told, late>>
    BY <1>4 DEF U!PollFails, U!ReadRows, U!Finish
  <2>2. run[s] = "no" /\ ~busy[s] /\ s \notin drain
    BY <1>0, <2>1 DEF RunsInOrder, DrainsBusy
  <2>3. RunsInOrder'
    BY <1>0, <2>1, <2>2, RunsOn
  <2>4. /\ DrainsBusy' /\ page' \subseteq page /\ OfSessions' /\ open' \subseteq open /\ drain' \subseteq open \cup drain
        /\ \A t \in Sid : t \in open /\ busy[t] => t \in open' \cup drain'
        /\ drain \subseteq drain' /\ s \notin open' \cup drain'
    BY <2>1, <2>2, ClosedKeeps
  <2>5. U!ActionIsServed'
    BY <2>1, <2>4, ServedOn
  <2>6. Labelled'
    BY <1>0, <2>1, <2>4 DEF Labelled
  <2> QED BY <1>0, <2>1, <2>3, <2>4, <2>5, <2>6 DEF HeadInv, U!AskedOnlyInWindows
<1>5. ASSUME NEW s \in Sid, U!Dispatch(s) PROVE HeadInv'
  <2>1. /\ stage' = [stage EXCEPT ![s] = "releasing"] /\ stage[s] = "polling"
        /\ run' = [run EXCEPT ![s] = IF plug[s] = "up" THEN "sent" ELSE "over"]
        /\ UNCHANGED <<label, open, plug, drain, busy, wire, page, told, late>>
    BY <1>5 DEF U!Dispatch
  <2>2. run[s] = "no" /\ ~busy[s] /\ s \notin told /\ ~Said(s, "busy") /\ ~Said(s, "idle")
    BY <1>0, <2>1 DEF RunsInOrder
  <2>3. RunsInOrder'
    BY <1>0, <2>1, <2>2 DEF RunsInOrder, Said
  <2>4. U!ActionIsServed'
    BY <1>0, <2>1, ServedOn
  <2>5. HeadTypeOK'
    BY <1>0, <2>1
  <2> QED BY <1>0, <2>1, <2>3, <2>4, <2>5 DEF HeadInv, OfSessions, DrainsBusy, Labelled, U!AskedOnlyInWindows
<1>6. ASSUME NEW s \in Sid, U!Release(s) PROVE HeadInv'
  <2>1. PICK outcome \in U!Outcomes(s) :
          /\ U!Finish(s, "ok") /\ IF outcome = "released" THEN U!NotClosed ELSE U!Close({s})
          /\ late' = IF outcome = "ceiling" THEN late \cup {s} ELSE late
    BY <1>6 DEF U!Release
  <2>2. /\ stage' = [stage EXCEPT ![s] = "done"] /\ label' = label \ {s} /\ UNCHANGED <<busy, run, plug, wire, told>>
    BY <1>6, <2>1 DEF U!Release, U!Finish
  <2>3. RunsInOrder'
    BY <1>0, <2>2, RunsOn
  <2>4. CASE outcome = "released"
    <3>1. s \notin open /\ ~(s \in drain /\ busy[s]) /\ UNCHANGED <<open, drain, page, late>>
      BY <2>1, <2>4 DEF U!Outcomes, U!NotClosed
    <3>2. U!ActionIsServed'
      BY <2>2, <3>1, ServedOn
    <3> QED BY <1>0, <2>2, <2>3, <3>1, <3>2 DEF HeadInv, OfSessions, DrainsBusy, Labelled, U!AskedOnlyInWindows
  <2>5. CASE outcome # "released"
    <3>1. U!Close({s}) /\ late \subseteq late' /\ (s \in late' \/ ~busy[s])
      BY <2>1, <2>5 DEF U!Outcomes
    <3>2. /\ DrainsBusy' /\ page' \subseteq page /\ OfSessions' /\ open' \subseteq open /\ drain' \subseteq open \cup drain
          /\ \A t \in Sid : t \in open /\ busy[t] => t \in open' \cup drain'
          /\ drain \subseteq drain' /\ (s \in late' \/ s \notin open' \cup drain')
      BY <2>2, <3>1, ClosedKeeps
    <3>3. U!ActionIsServed'
      BY <2>2, <3>1, <3>2, ServedOn
    <3>4. Labelled'
      BY <1>0, <2>2, <3>1, <3>2 DEF Labelled
    <3> QED BY <1>0, <2>2, <2>3, <3>1, <3>2, <3>3, <3>4 DEF HeadInv, U!AskedOnlyInWindows
  <2> QED BY <2>4, <2>5
<1>7. CASE U!Hide
  <2>1. U!Close(open) /\ open \in SUBSET Sid /\ UNCHANGED <<stage, label, busy, told, late, run, plug, wire>>
    BY <1>0, <1>7 DEF U!Hide, OfSessions
  <2>2. /\ DrainsBusy' /\ page' \subseteq page /\ OfSessions' /\ open' \subseteq open /\ drain' \subseteq open \cup drain
        /\ \A t \in Sid : t \in open /\ busy[t] => t \in open' \cup drain'
        /\ drain \subseteq drain'
    BY <2>1, ClosedKeeps
  <2>3. U!ActionIsServed'
    BY <2>1, <2>2, ServedOn
  <2>4. RunsInOrder'
    BY <1>0, <2>1, RunsOn
  <2> QED BY <1>0, <2>1, <2>2, <2>3, <2>4 DEF HeadInv, Labelled, U!AskedOnlyInWindows
<1>8. ASSUME NEW s \in Sid, U!DrainCeiling(s) PROVE HeadInv'
  <2>1. /\ drain' = drain \ {s} /\ late' = late \cup {s}
        /\ UNCHANGED <<stage, label, open, plug, busy, run, wire, page, told>>
    BY <1>8 DEF U!DrainCeiling, U!workerVars
  <2>2. RunsInOrder'
    BY <1>0, <2>1, RunsOn
  <2>3. U!ActionIsServed'
    BY <2>1, ServedOn
  <2> QED BY <1>0, <2>1, <2>2, <2>3 DEF HeadInv, OfSessions, DrainsBusy, Labelled, U!AskedOnlyInWindows
<1>9. ASSUME UNCHANGED <<stage, label, open, plug, drain, busy, run, wire, told, late>>, page' \subseteq page PROVE HeadInv'
  BY <1>0, <1>9, RunsOn DEF HeadInv, OfSessions, DrainsBusy, Labelled, U!AskedOnlyInWindows, U!ActionIsServed, U!Addressable
<1>10. CASE U!Tick \/ UNCHANGED U!vars \/ \E s \in Sid : U!PageAnswers(s)
  <2>1. UNCHANGED <<stage, label, open, plug, drain, busy, run, wire, told, late>> /\ page' \subseteq page
    BY <1>10 DEF U!Tick, U!PageAnswers, U!vars, U!mainVars, U!workerVars
  <2> QED BY <1>9, <2>1
<1>11. ASSUME NEW s \in Sid, U!Heard(s) PROVE HeadInv'
  <2> DEFINE m == Head(wire[s])
  <2>1. /\ wire[s] # <<>> /\ wire' = [wire EXCEPT ![s] = Tail(wire[s])] /\ UNCHANGED <<stage, label, late, plug, run>>
    BY <1>11 DEF U!Heard
  <2>2. /\ wire[s] \in Seq(Messages) /\ Tail(wire[s]) \in Seq(Messages) /\ m \in Messages
        /\ Said(s, m)
        /\ \A x : Said(s, x)' => Said(s, x)
    <3>1. wire[s] \in Seq(Messages) /\ wire'[s] = Tail(wire[s])
      BY <1>0, <2>1
    <3> QED BY <2>1, <3>1, WordHeard DEF Said
  <2>3. wire' \in [Sid -> Seq(Messages)] /\ \A t \in Sid, x \in Messages : Said(t, x)' => Said(t, x)
    BY <1>0, <2>1, <2>2 DEF Said
  <2>4. ASSUME UNCHANGED <<busy, told>> PROVE RunsInOrder'
    BY <1>0, <2>1, <2>3, <2>4 DEF RunsInOrder, Messages
  <2>5. CASE m \in {"with", "without"} /\ U!HeardDrawn(s, m)
    <3>1. UNCHANGED <<open, drain, page, busy, told>>
      BY <2>5 DEF U!HeardDrawn, U!NotClosed
    <3>2. U!ActionIsServed'
      BY <2>1, <3>1, ServedOn
    <3> QED BY <1>0, <2>1, <2>3, <2>4, <3>1, <3>2 DEF HeadInv, OfSessions, DrainsBusy, Labelled, U!AskedOnlyInWindows
  <2>6. CASE m = "busy" /\ U!HeardBusy(s, 1)
    <3>0. (1 > 0) = TRUE /\ 1 # 0
      OBVIOUS
    <3>1. /\ busy' = [busy EXCEPT ![s] = IF s \in open \cup drain THEN TRUE ELSE busy[s]]
          /\ told' = (IF s \in open \cup drain THEN told \cup {s} ELSE told) /\ UNCHANGED <<open, drain, page>>
      BY <2>6, <3>0, Zenon DEF U!HeardBusy, U!Addressable
    <3>2. run[s] \in {"running", "over"}
      BY <1>0, <2>2, <2>6 DEF RunsInOrder
    <3>3. \A t \in Sid : busy'[t] \in BOOLEAN /\ (busy[t] => busy'[t]) /\ (t # s => busy'[t] = busy[t])
      BY <1>0, <3>1
    <3>4. \A t \in Sid : t \in told' => t \in told \/ (t = s /\ busy'[t] /\ s \in open \cup drain)
      BY <1>0, <3>1
    <3>5. RunsInOrder'
      <4> SUFFICES ASSUME NEW t \in Sid
                   PROVE /\ run[t] # "no" => stage[t] \in {"releasing", "done"}
                         /\ busy'[t] \/ t \in told' \/ Said(t, "busy")' => run[t] \in {"running", "over"}
                         /\ Said(t, "idle")' => run[t] = "over"
                         /\ t \in told' /\ run[t] = "running" => busy'[t]
        BY <2>1 DEF RunsInOrder
      <4>1. (Said(t, "busy")' => Said(t, "busy")) /\ (Said(t, "idle")' => Said(t, "idle"))
        BY <2>3 DEF Messages
      <4>2. CASE t = s
        BY <1>0, <3>2, <3>3, <3>4, <4>1, <4>2 DEF RunsInOrder
      <4>3. CASE t # s
        BY <1>0, <3>3, <3>4, <4>1, <4>3 DEF RunsInOrder
      <4> QED BY <4>2, <4>3
    <3>6. U!ActionIsServed'
      BY <1>0, <2>1, <3>1 DEF U!ActionIsServed, U!Addressable
    <3>7. HeadTypeOK' /\ DrainsBusy' /\ OfSessions'
      BY <1>0, <2>1, <2>3, <3>1, <3>3 DEF DrainsBusy, OfSessions
    <3> QED BY <1>0, <2>1, <3>1, <3>5, <3>6, <3>7 DEF HeadInv, Labelled, U!AskedOnlyInWindows
  <2>7. CASE m = "idle" /\ U!HeardBusy(s, 0)
    <3>0. (0 > 0) = FALSE
      OBVIOUS
    <3>1. /\ busy' = [busy EXCEPT ![s] = IF s \in open \cup drain THEN FALSE ELSE busy[s]]
          /\ drain' = drain \ {s} /\ UNCHANGED <<open, page, told>>
      BY <2>7, <3>0, Zenon DEF U!HeardBusy, U!Addressable
    <3>2. run[s] = "over"
      BY <1>0, <2>2, <2>7 DEF RunsInOrder
    <3>3. \A t \in Sid : busy'[t] \in BOOLEAN /\ (busy'[t] => busy[t]) /\ (t # s => busy'[t] = busy[t])
      BY <1>0, <3>1
    <3>5. RunsInOrder'
      <4> SUFFICES ASSUME NEW t \in Sid
                   PROVE /\ run[t] # "no" => stage[t] \in {"releasing", "done"}
                         /\ busy'[t] \/ t \in told \/ Said(t, "busy")' => run[t] \in {"running", "over"}
                         /\ Said(t, "idle")' => run[t] = "over"
                         /\ t \in told /\ run[t] = "running" => busy'[t]
        BY <2>1, <3>1 DEF RunsInOrder
      <4>1. (Said(t, "busy")' => Said(t, "busy")) /\ (Said(t, "idle")' => Said(t, "idle"))
        BY <2>3 DEF Messages
      <4> QED BY <1>0, <3>2, <3>3, <4>1 DEF RunsInOrder
    <3>6. U!ActionIsServed'
      BY <1>0, <2>1, <3>1, <3>2 DEF U!ActionIsServed, U!Addressable
    <3>7. HeadTypeOK' /\ DrainsBusy' /\ OfSessions'
      BY <1>0, <2>1, <2>3, <3>1, <3>3 DEF DrainsBusy, OfSessions
    <3> QED BY <1>0, <2>1, <3>1, <3>5, <3>6, <3>7 DEF HeadInv, Labelled, U!AskedOnlyInWindows
  <2>8. CASE m = "alert" /\ U!HeardAlert(s)
    <3>1. page' \subseteq page \cup (((open \cup drain) \cap {s}) \ label) /\ UNCHANGED <<open, drain, busy, told>>
      BY <2>8 DEF U!HeardAlert, U!Addressable
    <3>2. page' \subseteq late
      BY <1>0, <3>1 DEF Labelled
    <3>3. U!ActionIsServed'
      BY <2>1, <3>1, ServedOn
    <3> QED BY <1>0, <2>1, <2>3, <2>4, <3>1, <3>2, <3>3 DEF HeadInv, OfSessions, DrainsBusy, Labelled, U!AskedOnlyInWindows
  <2>9. CASE m = "end" /\ U!HeardEnd(s)
    <3>1. U!Close({s}) /\ UNCHANGED <<busy, told>>
      BY <2>9 DEF U!HeardEnd
    <3>2. /\ DrainsBusy' /\ page' \subseteq page /\ OfSessions' /\ open' \subseteq open /\ drain' \subseteq open \cup drain
          /\ \A t \in Sid : t \in open /\ busy[t] => t \in open' \cup drain'
          /\ drain \subseteq drain'
      BY <2>1, <3>1, ClosedKeeps
    <3>3. U!ActionIsServed'
      BY <2>1, <3>1, <3>2, ServedOn
    <3> QED BY <1>0, <2>1, <2>3, <2>4, <3>1, <3>2, <3>3 DEF HeadInv, Labelled, U!AskedOnlyInWindows
  <2> QED BY <1>11, <2>5, <2>6, <2>7, <2>8, <2>9 DEF U!Heard
<1>12. ASSUME NEW s \in Sid, NEW m \in Messages, plug[s] = "up", wire' = [wire EXCEPT ![s] = Append(wire[s], m)],
              NEW r \in {"sent", "running", "over"}, run' = [run EXCEPT ![s] = r] \/ run' = run,
              m = "busy" => run[s] = "sent" /\ run'[s] = "running",
              m = "idle" => run[s] = "running" /\ run'[s] = "over",
              m \notin {"busy", "idle"} => run' = run,
              UNCHANGED <<stage, label, open, plug, drain, busy, page, told, late>>
       PROVE  HeadInv'
  <2>1. wire[s] \in Seq(Messages) /\ run[s] \in {"no", "sent", "running", "over"}
    BY <1>0
  <2>2. /\ Append(wire[s], m) \in Seq(Messages) /\ \A x : Said(s, x)' => x = m \/ Said(s, x)
    BY <1>0, <1>12, <2>1, WordSpoken DEF Said
  <2>3. wire' \in [Sid -> Seq(Messages)] /\ \A t \in Sid \ {s}, x \in Messages : Said(t, x)' => Said(t, x)
    BY <1>0, <1>12, <2>2 DEF Said
  <2>4. run' \in [Sid -> {"no", "sent", "running", "over"}] /\ \A t \in Sid \ {s} : run'[t] = run[t]
    BY <1>0, <1>12
  <2>5. /\ run[s] = "no" => run'[s] = "no" \/ m \in {"busy", "idle"}
        /\ run'[s] = "running" => run[s] \in {"sent", "running"} /\ (run[s] = "sent" => m = "busy")
    BY <1>0, <1>12, <2>1
  <2>6. RunsInOrder'
    <3> SUFFICES ASSUME NEW t \in Sid
                 PROVE /\ run'[t] # "no" => stage[t] \in {"releasing", "done"}
                       /\ busy[t] \/ t \in told \/ Said(t, "busy")' => run'[t] \in {"running", "over"}
                       /\ Said(t, "idle")' => run'[t] = "over"
                       /\ t \in told /\ run'[t] = "running" => busy[t]
      BY <1>12 DEF RunsInOrder
    <3>1. CASE t # s
      BY <1>0, <2>3, <2>4, <3>1 DEF RunsInOrder, Messages
    <3>2. CASE t = s
      <4>1. (Said(s, "busy")' => m = "busy" \/ Said(s, "busy")) /\ (Said(s, "idle")' => m = "idle" \/ Said(s, "idle"))
        BY <2>2
      <4>2. CASE m = "busy"
        BY <1>0, <1>12, <3>2, <4>1, <4>2 DEF RunsInOrder
      <4>3. CASE m = "idle"
        BY <1>0, <1>12, <3>2, <4>1, <4>3 DEF RunsInOrder
      <4>4. CASE m \notin {"busy", "idle"}
        BY <1>0, <1>12, <3>2, <4>1, <4>4 DEF RunsInOrder
      <4> QED BY <4>2, <4>3, <4>4
    <3> QED BY <3>1, <3>2
  <2>7. U!ActionIsServed'
    <3>1. \A t \in told : run'[t] = "running" => run[t] = "running"
      BY <1>0, <1>12, <2>1, <2>4 DEF RunsInOrder, OfSessions
    <3> QED BY <1>0, <1>12, <3>1 DEF U!ActionIsServed, U!Addressable
  <2> QED BY <1>0, <1>12, <2>3, <2>4, <2>6, <2>7 DEF HeadInv, OfSessions, DrainsBusy, Labelled, U!AskedOnlyInWindows
<1>13. ASSUME NEW s \in Sid, U!Draws(s) \/ U!Alerts(s) \/ U!EndsItself(s) PROVE HeadInv'
  <2>1. \E m \in {"with", "without", "alert", "end"} : plug[s] = "up" /\ wire' = [wire EXCEPT ![s] = Append(wire[s], m)]
    BY <1>13 DEF U!Draws, U!Alerts, U!EndsItself, U!Says
  <2>2. UNCHANGED <<stage, label, open, plug, drain, busy, run, page, told, late>>
    BY <1>13 DEF U!Draws, U!Alerts, U!EndsItself, U!mainVars
  <2> QED BY <1>12, <2>1, <2>2 DEF Messages
<1>14. ASSUME NEW s \in Sid, U!Begins(s) PROVE HeadInv'
  <2>1. /\ run[s] = "sent" /\ plug[s] = "up" /\ wire' = [wire EXCEPT ![s] = Append(wire[s], "busy")]
        /\ run' = [run EXCEPT ![s] = "running"]
        /\ UNCHANGED <<stage, label, open, plug, drain, busy, page, told, late>>
    BY <1>14 DEF U!Begins, U!Says, U!mainVars
  <2>2. run'[s] = "running" /\ "busy" \in Messages
    BY <1>0, <2>1 DEF Messages
  <2> QED BY <1>12, <2>1, <2>2
<1>15. ASSUME NEW s \in Sid, U!Returns(s) PROVE HeadInv'
  <2>1. /\ run[s] = "running" /\ plug[s] = "up" /\ wire' = [wire EXCEPT ![s] = Append(wire[s], "idle")]
        /\ run' = [run EXCEPT ![s] = "over"]
        /\ UNCHANGED <<stage, label, open, plug, drain, busy, page, told, late>>
    BY <1>15 DEF U!Returns, U!Says, U!mainVars
  <2>2. run'[s] = "over" /\ "idle" \in Messages
    BY <1>0, <2>1 DEF Messages
  <2> QED BY <1>12, <2>1, <2>2
<1>16. ASSUME NEW dead \in SUBSET Sid, run' = [s \in Sid |-> IF s \notin dead \/ run[s] = "no" THEN run[s] ELSE "over"],
              plug' \in [Sid -> {"off", "up", "gone"}], \A s \in Sid : plug'[s] = "up" => plug[s] = "up" /\ s \notin dead,
              wire' \in [Sid -> Seq(Messages)], \A s \in Sid : wire'[s] = wire[s] \/ wire'[s] = <<>>,
              open' \subseteq open, page' \subseteq page, open' = open \/ dead = Sid,
              UNCHANGED <<stage, label, drain, busy, told, late>>
       PROVE  HeadInv'
  <2>1. /\ run' \in [Sid -> {"no", "sent", "running", "over"}]
        /\ \A s \in Sid : run'[s] = run[s] \/ (run[s] # "no" /\ run'[s] = "over")
        /\ \A s \in Sid : s \in dead => run'[s] # "running"
    <3>1. ASSUME NEW s \in Sid
          PROVE  /\ run'[s] = IF s \notin dead \/ run[s] = "no" THEN run[s] ELSE "over"
                 /\ run[s] \in {"no", "sent", "running", "over"}
      BY <1>0, <1>16
    <3>2. run' = [s \in Sid |-> run'[s]]
      BY <1>16
    <3>3. \A s \in Sid : run'[s] \in {"no", "sent", "running", "over"}
      BY <3>1
    <3> QED BY <3>1, <3>2, <3>3
  <2>2. \A t \in Sid, x \in Messages : Said(t, x)' => Said(t, x)
    BY <1>16 DEF Said
  <2>3. RunsInOrder'
    <3> SUFFICES ASSUME NEW t \in Sid
                 PROVE /\ run'[t] # "no" => stage[t] \in {"releasing", "done"}
                       /\ busy[t] \/ t \in told \/ Said(t, "busy")' => run'[t] \in {"running", "over"}
                       /\ Said(t, "idle")' => run'[t] = "over"
                       /\ t \in told /\ run'[t] = "running" => busy[t]
      BY <1>16 DEF RunsInOrder
    <3>1. (Said(t, "busy")' => Said(t, "busy")) /\ (Said(t, "idle")' => Said(t, "idle"))
      BY <2>2 DEF Messages
    <3> QED BY <1>0, <2>1, <3>1 DEF RunsInOrder
  <2>4. U!ActionIsServed'
    BY <1>16, <2>1, ServedOn
  <2> QED BY <1>0, <1>16, <2>1, <2>3, <2>4 DEF HeadInv, OfSessions, DrainsBusy, Labelled, U!AskedOnlyInWindows
<1>17. ASSUME NEW s \in Sid, U!Stops(s) PROVE HeadInv'
  <2>1. /\ plug' = [plug EXCEPT ![s] = "gone"] /\ run' = [run EXCEPT ![s] = IF run[s] = "no" THEN run[s] ELSE "over"]
        /\ UNCHANGED <<stage, label, open, drain, busy, wire, page, told, late>>
    BY <1>17 DEF U!Stops, U!mainVars
  <2>2. run' = [t \in Sid |-> IF t \notin {s} \/ run[t] = "no" THEN run[t] ELSE "over"]
    BY <1>0, <2>1
  <2>3. plug' \in [Sid -> {"off", "up", "gone"}] /\ \A t \in Sid : plug'[t] = "up" => plug[t] = "up" /\ t \notin {s}
    BY <1>0, <2>1
  <2>4. wire' \in [Sid -> Seq(Messages)] /\ \A t \in Sid : wire'[t] = wire[t] \/ wire'[t] = <<>>
    BY <1>0, <2>1
  <2>5. open' \subseteq open /\ page' \subseteq page /\ (open' = open \/ {s} = Sid) /\ {s} \in SUBSET Sid
    BY <2>1
  <2> HIDE <1>0
  <2> QED BY <1>16, <2>1, <2>2, <2>3, <2>4, <2>5
<1>18. CASE U!HostDies
  <2>1. /\ plug' = [s \in Sid |-> IF plug[s] = "up" THEN "gone" ELSE plug[s]]
        /\ run' = [s \in Sid |-> IF run[s] = "no" THEN "no" ELSE "over"]
        /\ wire' = [s \in Sid |-> <<>>] /\ open' = {} /\ page' = {}
        /\ UNCHANGED <<stage, label, drain, busy, told, late>>
    BY <1>18 DEF U!HostDies
  <2>2. run' = [t \in Sid |-> IF t \notin Sid \/ run[t] = "no" THEN run[t] ELSE "over"]
    BY <1>0, <2>1
  <2>3. /\ plug' \in [Sid -> {"off", "up", "gone"}] /\ \A s \in Sid : plug'[s] # "up"
        /\ wire' \in [Sid -> Seq(Messages)] /\ \A s \in Sid : wire'[s] = <<>>
    BY <1>0, <2>1
  <2> QED BY <1>16, <2>1, <2>2, <2>3
<1> QED BY <1>1, <1>2, <1>3, <1>4, <1>5, <1>6, <1>7, <1>8, <1>10, <1>11, <1>13, <1>14, <1>15, <1>17, <1>18
        DEF U!Next, U!Goes, U!WorkerStep

(* No request without a window asks its question on the panel's page before  *)
(* a ceiling has ended it, and while an action that was heard to run goes    *)
(* on, its session is open or drains, unless a ceiling has ended it: for any *)
(* requests, deadlines and alerts, however the panel hides and workers and   *)
(* hosts die (the headless verbs of main/daemon.ts, action-drain.ts,         *)
(* headless-alert.ts).  Answers and releases are not stated here.            *)
THEOREM HeadlessKeepsToItself == Spec => []HeadlessIntact
<1> DEFINE Inv == part = "headless" => HeadInv
<1>1. Init => Inv
  <2> SUFFICES ASSUME U!Init PROVE HeadInv
    BY DEF Init
  <2>1. HeadTypeOK /\ OfSessions /\ DrainsBusy /\ Labelled /\ U!AskedOnlyInWindows /\ U!ActionIsServed
    BY DEF U!Init, HeadTypeOK, OfSessions, DrainsBusy, Labelled, U!AskedOnlyInWindows, U!ActionIsServed
  <2>2. RunsInOrder
    BY DEF U!Init, RunsInOrder, Said
  <2> QED BY <2>1, <2>2 DEF HeadInv
<1>2. Inv /\ [Next]_vars => Inv'
  <2> SUFFICES ASSUME HeadInv, part = "headless", [Next]_vars PROVE HeadInv'
    BY DEF Next, vars
  <2>1. [U!Next]_(U!vars)
    BY DEF Next, vars, U!vars, U!mainVars, U!workerVars
  <2> QED BY <2>1, HeadInductive
<1>3. Inv => HeadlessIntact
  BY DEF HeadInv, HeadlessIntact
<1> QED BY <1>1, <1>2, <1>3, PTL DEF Spec

(***************************** the installs *****************************)
(* What is installed.  An install that has been alone since it began finds   *)
(* the clone as it left it: a directory is checked out at the commit it      *)
(* fetched or not at all, what it reviewed is what it builds, and it alone   *)
(* writes to what it installs.                                               *)
Installers == {"terminal", "window"}
Commit == 0..MaxCommit
Phases == {"idle", "init", "remote", "fetch", "checkout", "review", "choose", "ask", "build", "bundle",
           "clear", "copy", "sign", "done"}
Verbs == {"install", "store", "inspect", "apply", "batch"}
Clones == [git : BOOLEAN, origin : BOOLEAN, sparse : PluginDirs, got : Commit,
           tree : [PluginDirs -> Commit], packages : SUBSET PluginDirs]
Installed == [manifest : Commit, dir : PluginDirs, src : Commit, signed : Commit,
              bundles : [PluginCmds -> Commit], clean : BOOLEAN]
Reviewed == [dir : PluginDirs, commit : Commit, name : PluginNames]
Installs == [pc : Phases, verb : Verbs, target : PluginDirs, source : PluginDirs, fresh : BOOLEAN,
             commit : Commit, dir : PluginDirs, name : PluginNames \cup {""}, deps : BOOLEAN,
             todo : SUBSET PluginCmds, built : SUBSET PluginCmds, rest : Seq(PluginDirs),
             queue : Seq(Reviewed), alone : BOOLEAN]
InstallTypeOK ==
  /\ head \in 1..MaxCommit /\ clone \in Clones
  /\ dest \in [PluginNames -> Installed] /\ acts \in [Installers -> Installs]

(* A plugin that was reviewed has a name, and so has one that is built. *)
Named(r) ==
  /\ r.pc = "ask" /\ r.verb # "batch" => r.name \in PluginNames
  /\ r.pc \in {"build", "bundle", "clear", "copy", "sign"} => r.name \in PluginNames

(* Of an install that is alone, by the clone x and what is installed, y:     *)
(* what it fetched, what it reviewed and what it built so far.               *)
FetchedOnly(r, x) == r.pc = "review" => \A d \in PluginDirs : x.tree[d] \in {0, x.got}
AsReviewed(r, x) ==
  r.pc \in {"ask", "build", "bundle", "clear", "copy", "sign", "done"} /\ r.verb # "batch" =>
    LET m == I!Plugin(x.tree[r.dir], r.dir) IN
    m # None /\ r.commit = x.tree[r.dir] /\ r.name = m.name
Building(r) == r.pc \in {"bundle", "clear", "copy", "sign"} \/ (r.pc = "done" /\ r.verb # "batch")
AsBuilt(r, x, y) ==
  LET c == x.tree[r.dir]  m == I!Plugin(c, r.dir)  d == y[r.name] IN
  Building(r) =>
    /\ m # None
    /\ r.built = {k \in m.builds \ r.todo : m.deps => r.dir \in x.packages}
    /\ \A k \in r.built : d.bundles[k] = c
    /\ r.pc # "bundle" => r.todo = {} /\ d.manifest = c
    /\ r.pc \in {"sign", "done"} => d.src = c
    /\ r.pc = "done" => d.signed = c
Works(r, x, y) == FetchedOnly(r, x) /\ AsReviewed(r, x) /\ AsBuilt(r, x, y)
InstallInv ==
  /\ InstallTypeOK
  /\ \A a \in Installers : Named(acts[a])
  /\ \A a \in Installers : acts[a].alone /\ acts[a].pc # "idle" =>
       Works(acts[a], clone, dest) /\ \A b \in Installers \ {a} : acts[b].pc = "idle"
  /\ I!ListedRuns

(* What a directory holds is a plugin of the repository or none, and where   *)
(* nothing is checked out it holds none.                                     *)
LEMMA PluginHeld ==
  ASSUME NEW c \in Commit, NEW d \in PluginDirs, I!Plugin(c, d) # None
  PROVE  /\ c # 0 /\ I!Plugin(c, d) = Repository[c][d] /\ I!Plugin(c, d) \in Plugins
         /\ I!Plugin(c, d).name \in PluginNames
         /\ I!Plugin(c, d).commands \subseteq PluginCmds
         /\ I!Plugin(c, d).builds \subseteq I!Plugin(c, d).commands
<1>1. c # 0 /\ I!Plugin(c, d) = Repository[c][d]
  BY DEF I!Plugin
<1>2. c \in 1..MaxCommit
  BY <1>1, RepositoryAssumption DEF Commit
<1>3. Repository[c] \in [PluginDirs -> Plugins \cup {None}]
  BY <1>2, RepositoryAssumption
<1>4. I!Plugin(c, d) \in Plugins
  BY <1>1, <1>3
<1> QED BY <1>1, <1>4 DEF Plugins

(* The directories a person picks from are some of the repository's. *)
LEMMA DirsInOrder ==
  ASSUME NEW S \in SUBSET PluginDirs
  PROVE  I!SetToSeq(S) \in Seq(PluginDirs)
<1> DEFINE n == Cardinality(S)
<1>1. n \in Nat /\ ExistsBijection(1..n, S)
  BY RepositoryAssumption, FS_Subset, FS_CardinalityType
<1>0. I!Cardinality(S) = n
  BY DEF Cardinality, I!Cardinality
<1>2. \E f \in [1..n -> S] : I!IsInjective(f)
  BY <1>1 DEF ExistsBijection, Bijection, Injection, IsInjective, I!IsInjective
<1>3. I!SetToSeq(S) \in [1..n -> S]
  BY <1>0, <1>2 DEF I!SetToSeq
<1> HIDE DEF n
<1> QED BY <1>1, <1>3

(* At these phases nothing is claimed of the clone. *)
Quiet(r) ==
  \/ r.pc \in {"idle", "init", "remote", "fetch", "checkout", "choose"}
  \/ r.verb = "batch" /\ r.pc \in {"ask", "build", "done"}
LEMMA QuietWorks == ASSUME NEW r, NEW x, NEW y, Quiet(r) PROVE Works(r, x, y)
BY DEF Quiet, Works, FetchedOnly, AsReviewed, AsBuilt, Building

(* What an install goes on to when the one before it ends or throws. *)
Goes(r, q) ==
  /\ q \in Installs /\ Named(q) /\ Quiet(q)
  /\ q.alone /\ q.pc # "idle" => r.alone
LEMMA IdleIsQuiet == \A r : Goes(r, I!Idle)
<1>1. I!Idle \in Installs
  BY RepositoryAssumption DEF I!Idle, Installs, Phases, Verbs, Commit
<1>2. I!Idle.pc = "idle"
  BY DEF I!Idle
<1> QED BY <1>1, <1>2 DEF Goes, Named, Quiet

LEMMA PreparedIsQuiet ==
  ASSUME NEW r \in Installs, r.verb = "batch"
  PROVE  Goes(r, I!Prepared(r))
<1>1. CASE r.rest # <<>>
  <2> DEFINE q == [r EXCEPT !.pc = "init", !.target = Head(r.rest), !.rest = Tail(r.rest)]
  <2>1. r.rest \in Seq(PluginDirs)
    BY DEF Installs
  <2>2. Head(r.rest) \in PluginDirs /\ Tail(r.rest) \in Seq(PluginDirs)
    BY <1>1, <2>1
  <2>3. q \in Installs
    BY <2>2 DEF Installs, Phases
  <2>4. q.pc = "init" /\ q.alone = r.alone
    BY DEF Installs
  <2>5. I!Prepared(r) = q
    BY <1>1 DEF I!Prepared
  <2> HIDE DEF q
  <2> QED BY <2>3, <2>4, <2>5 DEF Goes, Named, Quiet
<1>2. CASE r.rest = <<>> /\ r.queue # <<>>
  <2> DEFINE q == [r EXCEPT !.pc = "ask"]
  <2>1. q \in Installs /\ q.pc = "ask" /\ q.alone = r.alone /\ q.verb = "batch"
    BY DEF Installs, Phases
  <2>2. I!Prepared(r) = q
    BY <1>2 DEF I!Prepared
  <2> HIDE DEF q
  <2> QED BY <2>1, <2>2 DEF Goes, Named, Quiet
<1>3. CASE r.rest = <<>> /\ r.queue = <<>>
  BY <1>3, IdleIsQuiet DEF I!Prepared
<1> QED BY <1>1, <1>2, <1>3

LEMMA NextBuiltIsQuiet ==
  ASSUME NEW r \in Installs
  PROVE  Goes(r, I!NextBuilt(r))
<1>1. CASE r.verb # "batch"
  BY <1>1, IdleIsQuiet DEF I!NextBuilt
<1>2. CASE r.verb = "batch" /\ r.queue = <<>>
  <2> DEFINE q == [r EXCEPT !.pc = "done"]
  <2>1. q \in Installs /\ q.pc = "done" /\ q.alone = r.alone /\ q.verb = "batch"
    BY <1>2 DEF Installs, Phases
  <2>2. I!NextBuilt(r) = q
    BY <1>2 DEF I!NextBuilt
  <2> HIDE DEF q
  <2> QED BY <2>1, <2>2 DEF Goes, Named, Quiet
<1>3. CASE r.verb = "batch" /\ r.queue # <<>>
  <2> DEFINE p == Head(r.queue)
             q == [r EXCEPT !.pc = "build", !.dir = p.dir, !.commit = p.commit, !.name = p.name, !.queue = Tail(@)]
  <2>1. r.queue \in Seq(Reviewed)
    BY DEF Installs
  <2>2. p \in Reviewed /\ Tail(r.queue) \in Seq(Reviewed)
    BY <1>3, <2>1
  <2>3. I!NextBuilt(r) = q
    BY <1>3 DEF I!NextBuilt
  <2>4. p.dir \in PluginDirs /\ p.commit \in Commit /\ p.name \in PluginNames
    BY <2>2 DEF Reviewed
  <2> HIDE DEF p
  <2>5. q \in Installs /\ q.pc = "build" /\ q.alone = r.alone /\ q.verb = "batch" /\ q.name \in PluginNames
    BY <1>3, <2>2, <2>4 DEF Installs, Phases
  <2> HIDE DEF q
  <2> QED BY <2>3, <2>5 DEF Goes, Named, Quiet
<1> QED BY <1>1, <1>2, <1>3

(* A step of one installer: when it is not idle, no other is alone. *)
LEMMA Stepped ==
  ASSUME InstallInv, NEW a \in Installers, acts[a].pc # "idle",
         NEW q \in Installs, acts' = [acts EXCEPT ![a] = q], Named(q),
         head' = head, clone' \in Clones, dest' \in [PluginNames -> Installed], I!ListedRuns',
         q.alone /\ q.pc # "idle" => acts[a].alone,
         acts[a].alone /\ q.pc # "idle" => Works(q, clone', dest')
  PROVE  InstallInv'
<1>1. InstallTypeOK'
  BY DEF InstallInv, InstallTypeOK
<1>2. acts'[a] = q /\ \A b \in Installers \ {a} : acts'[b] = acts[b]
  BY DEF InstallInv, InstallTypeOK
<1>3. \A b \in Installers : Named(acts'[b])
  BY <1>2 DEF InstallInv
<1>4. ASSUME NEW b \in Installers, acts'[b].alone, acts'[b].pc # "idle"
      PROVE  Works(acts'[b], clone', dest') /\ \A e \in Installers \ {b} : acts'[e].pc = "idle"
  <2>1. b = a
    BY <1>2, <1>4 DEF InstallInv
  <2>2. acts[a].alone
    BY <1>2, <1>4, <2>1
  <2> QED BY <1>2, <1>4, <2>1, <2>2 DEF InstallInv
<1> QED BY <1>1, <1>3, <1>4 DEF InstallInv

(* A step that leaves what is installed alone and ends where nothing is      *)
(* claimed.                                                                  *)
LEMMA Went ==
  ASSUME InstallInv, NEW a \in Installers, acts[a].pc # "idle", NEW q, Goes(acts[a], q),
         acts' = [acts EXCEPT ![a] = q], head' = head, clone' \in Clones, dest' = dest
  PROVE  InstallInv'
<1>1. q \in Installs /\ Named(q) /\ Quiet(q) /\ (q.alone /\ q.pc # "idle" => acts[a].alone)
  BY DEF Goes
<1>2. Works(q, clone', dest')
  BY <1>1, QuietWorks
<1>3. dest' \in [PluginNames -> Installed] /\ I!ListedRuns'
  BY DEF InstallInv, InstallTypeOK, I!ListedRuns
<1> QED BY <1>1, <1>2, <1>3, Stepped

LEMMA InstallerTypes ==
  ASSUME InstallInv, NEW a \in Installers
  PROVE  /\ acts[a] \in Installs /\ Named(acts[a]) /\ clone \in Clones /\ head \in 1..MaxCommit
         /\ dest \in [PluginNames -> Installed] /\ I!ListedRuns
         /\ acts[a].alone /\ acts[a].pc # "idle" => Works(acts[a], clone, dest)
BY DEF InstallInv, InstallTypeOK

LEMMA CloneTypes ==
  /\ I!NoClone \in Clones
  /\ \A d \in PluginDirs : clone \in Clones => I!Narrowed(d) \in Clones
<1>1. 0 \in Commit /\ root \in PluginDirs
  BY RepositoryAssumption DEF Commit
<1>2. I!NoClone \in Clones
  BY <1>1 DEF I!NoClone, Clones
<1>3. ASSUME NEW d \in PluginDirs, clone \in Clones PROVE I!Narrowed(d) \in Clones
  BY <1>3 DEF I!Narrowed, Clones
<1> QED BY <1>2, <1>3

(* Where the installer fetches, and where what it reviewed is seen to. *)
LEMMA StartKeeps ==
  ASSUME InstallInv, NEW a \in Installers, NEW target \in PluginDirs, NEW deps \in BOOLEAN, I!Start(a, target, deps)
  PROVE  InstallInv'
<1> USE DEF Installers
<1> DEFINE others == {b \in Installers \ {a} : I!Busy(b)}
           began(verb) == [I!Idle EXCEPT !.pc = "init", !.verb = verb, !.target = target, !.source = target,
                                         !.deps = deps, !.alone = others = {}]
<1>1. PICK verb \in {"inspect", "install", "store"} :
        acts' = [b \in Installers |->
            IF b = a THEN began(verb)
            ELSE IF b \in others THEN [acts[b] EXCEPT !.alone = FALSE] ELSE I!Idle]
  BY DEF I!Start
<1>2. UNCHANGED <<head, clone, dest>>
  BY DEF I!Start
<1>3. began(verb) \in Installs /\ began(verb).pc = "init" /\ began(verb).alone = (others = {})
  <2>1. I!Idle \in Installs
    BY IdleIsQuiet DEF Goes
  <2>2. (others = {}) \in BOOLEAN
    OBVIOUS
  <2> HIDE DEF others
  <2> QED BY <2>1, <2>2 DEF Installs, Phases, Verbs
<1>4. ASSUME NEW b \in Installers, b # a
      PROVE  /\ acts'[b] = IF b \in others THEN [acts[b] EXCEPT !.alone = FALSE] ELSE I!Idle
             /\ acts'[b] \in Installs /\ Named(acts'[b])
             /\ acts'[b].alone => acts'[b].pc = "idle" /\ b \notin others
  <2>1. acts'[b] = IF b \in others THEN [acts[b] EXCEPT !.alone = FALSE] ELSE I!Idle
    BY <1>1, <1>4
  <2>2. acts[b] \in Installs /\ Named(acts[b])
    BY InstallerTypes
  <2>3. CASE b \in others
    <3> DEFINE q == [acts[b] EXCEPT !.alone = FALSE]
    <3>1. q \in Installs /\ q.alone = FALSE /\ q.pc = acts[b].pc /\ q.verb = acts[b].verb /\ q.name = acts[b].name
      BY <2>2 DEF Installs
    <3>2. acts'[b] = q
      BY <2>1, <2>3
    <3> HIDE DEF q, others
    <3> QED BY <2>1, <2>2, <3>1, <3>2 DEF Named
  <2>4. CASE b \notin others
    <3>1. acts'[b] = I!Idle
      BY <2>1, <2>4
    <3>2. I!Idle \in Installs /\ Named(I!Idle) /\ I!Idle.pc = "idle"
      BY IdleIsQuiet DEF Goes, I!Idle
    <3> QED BY <2>4, <3>1, <3>2
  <2> QED BY <2>1, <2>3, <2>4
<1>5. acts'[a] = began(verb)
  BY <1>1
<1>6. ASSUME others = {}, NEW b \in Installers, b # a PROVE acts'[b].pc = "idle"
  <2>1. b \notin others
    BY <1>6
  <2>2. acts'[b] = I!Idle
    BY <1>4, <1>6, <2>1
  <2>3. I!Idle.pc = "idle"
    BY DEF I!Idle
  <2> QED BY <2>2, <2>3
<1> DEFINE q == began(verb)
<1>7. Named(q) /\ Quiet(q)
  BY <1>3 DEF Named, Quiet
<1> HIDE DEF q
<1>8. InstallTypeOK'
  <2>1. \A b \in Installers : acts'[b] \in Installs
    BY <1>3, <1>4, <1>5 DEF q
  <2>2. acts' = [b \in Installers |-> acts'[b]]
    BY <1>1
  <2> HIDE DEF Installers
  <2> QED BY <1>2, <2>1, <2>2 DEF InstallInv, InstallTypeOK
<1>9. \A b \in Installers : Named(acts'[b])
  BY <1>4, <1>5, <1>7 DEF q
<1>10. ASSUME NEW b \in Installers, acts'[b].alone, acts'[b].pc # "idle"
       PROVE  Works(acts'[b], clone', dest') /\ \A e \in Installers \ {b} : acts'[e].pc = "idle"
  <2>1. b = a
    BY <1>4, <1>10
  <2>2. others = {}
    BY <1>3, <1>5, <1>10, <2>1
  <2>3. \A e \in Installers \ {b} : acts'[e].pc = "idle"
    BY <1>6, <2>1, <2>2
  <2>4. Works(acts'[b], clone', dest')
    BY <1>5, <1>7, <2>1, QuietWorks DEF q
  <2> QED BY <2>3, <2>4
<1>11. I!ListedRuns'
  BY <1>2 DEF InstallInv, I!ListedRuns
<1> QED BY <1>8, <1>9, <1>10, <1>11 DEF InstallInv

LEMMA EditSourceKeeps ==
  ASSUME InstallInv, NEW a \in Installers, NEW target \in PluginDirs, I!EditSource(a, target)
  PROVE  InstallInv'
<1> DEFINE r == acts[a]
           q == [r EXCEPT !.source = target]
<1>1. /\ r.pc \in {"init", "remote", "fetch", "review"} /\ acts' = [acts EXCEPT ![a] = q]
      /\ UNCHANGED <<head, clone, dest>>
  BY DEF I!EditSource, I!Go
<1>2. r \in Installs /\ clone' \in Clones /\ dest' \in [PluginNames -> Installed]
  BY <1>1, InstallerTypes
<1>3. q \in Installs /\ q.pc = r.pc /\ q.alone = r.alone
  BY <1>2 DEF Installs
<1> HIDE DEF q
<1>4. Named(q)
  BY <1>1, <1>3 DEF Named
<1>5. r.alone => Works(q, clone', dest')
  BY <1>1, <1>3, InstallerTypes DEF Works, FetchedOnly, AsReviewed, AsBuilt, Building
<1>6. I!ListedRuns'
  BY <1>1 DEF InstallInv, I!ListedRuns
<1> QED BY <1>1, <1>2, <1>3, <1>4, <1>5, <1>6, Stepped

LEMMA FetchingKeeps ==
  ASSUME InstallInv, NEW a \in Installers, I!GitInit(a) \/ I!AddRemote(a) \/ I!GitFetch(a) \/ I!ReadTree(a) \/ I!Killed(a)
  PROVE  InstallInv'
<1> DEFINE r == acts[a]
<1>0. r \in Installs /\ clone \in Clones /\ head \in 1..MaxCommit /\ r.target \in PluginDirs
  BY InstallerTypes DEF Installs
<1>1. CASE I!GitInit(a)
  <2> DEFINE q == [r EXCEPT !.fresh = ~clone.git, !.pc = IF clone.git THEN "fetch" ELSE "remote"]
  <2>1. r.pc = "init" /\ acts' = [acts EXCEPT ![a] = q] /\ clone' = [clone EXCEPT !.git = TRUE] /\ UNCHANGED <<head, dest>>
    BY <1>1 DEF I!GitInit, I!At, I!Go
  <2>2. q \in Installs /\ q.pc \in {"fetch", "remote"} /\ q.alone = r.alone
    BY <1>0 DEF Installs, Phases, Clones
  <2>3. clone' \in Clones
    BY <1>0, <2>1 DEF Clones
  <2> HIDE DEF q
  <2>4. Goes(r, q)
    BY <2>2 DEF Goes, Named, Quiet
  <2> QED BY <2>1, <2>3, <2>4, Went
<1>2. CASE I!AddRemote(a)
  <2> DEFINE q == I!Step(a, "fetch")
  <2>1. r.pc = "remote" /\ acts' = [acts EXCEPT ![a] = q] /\ clone' = [clone EXCEPT !.origin = clone.git] /\ UNCHANGED <<head, dest>>
    BY <1>2 DEF I!AddRemote, I!At, I!Go
  <2>2. q \in Installs /\ q.pc = "fetch" /\ q.alone = r.alone
    BY <1>0 DEF Installs, Phases, I!Step
  <2>3. clone' \in Clones
    BY <1>0, <2>1 DEF Clones
  <2> HIDE DEF q
  <2>4. Goes(r, q)
    BY <2>2 DEF Goes, Named, Quiet
  <2> QED BY <2>1, <2>3, <2>4, Went
<1>3. CASE I!GitFetch(a)
  <2> DEFINE q == I!Step(a, "checkout")
             p == IF r.verb = "batch" THEN I!Prepared(r) ELSE I!Idle
  <2>1. /\ r.pc = "fetch" /\ UNCHANGED <<head, dest>>
        /\ \/ clone' = [I!Narrowed(r.target) EXCEPT !.got = head] /\ acts' = [acts EXCEPT ![a] = q]
           \/ clone' = (IF r.fresh THEN I!NoClone ELSE I!Narrowed(r.target)) /\ acts' = [acts EXCEPT ![a] = p]
    BY <1>3 DEF I!GitFetch, I!At, I!Go
  <2>2. q \in Installs /\ q.pc = "checkout" /\ q.alone = r.alone
    BY <1>0 DEF Installs, Phases, I!Step
  <2>3. Goes(r, p)
    BY <1>0, PreparedIsQuiet, IdleIsQuiet
  <2> HIDE DEF q, p
  <2>4. Goes(r, q)
    BY <2>2 DEF Goes, Named, Quiet
  <2>5. I!Narrowed(r.target) \in Clones /\ I!NoClone \in Clones /\ head \in Commit
    BY <1>0, CloneTypes DEF Commit
  <2>6. [I!Narrowed(r.target) EXCEPT !.got = head] \in Clones
    BY <2>5 DEF Clones
  <2>7. clone' \in Clones
    BY <2>1, <2>5, <2>6
  <2> QED BY <2>1, <2>3, <2>4, <2>7, Went
<1>4. CASE I!ReadTree(a)
  <2> DEFINE q == I!Step(a, "review")
             p == IF r.verb = "batch" THEN I!Prepared(r) ELSE I!Idle
  <2>1. r.pc = "checkout" /\ UNCHANGED <<head, dest>>
    BY <1>4 DEF I!ReadTree, I!At
  <2>2. CASE clone.got = 0
    <3>1. acts' = [acts EXCEPT ![a] = p] /\ clone' = clone
      BY <1>4, <2>2 DEF I!ReadTree, I!Go
    <3>2. Goes(r, p)
      BY <1>0, PreparedIsQuiet, IdleIsQuiet
    <3> HIDE DEF p
    <3> QED BY <1>0, <2>1, <3>1, <3>2, Went
  <2>3. CASE clone.got # 0
    <3>1. /\ acts' = [acts EXCEPT ![a] = q]
          /\ clone' = [clone EXCEPT !.tree = [d \in PluginDirs |->
               IF clone.sparse \in {root, d} \/ d = root THEN clone.got ELSE 0]]
      BY <1>4, <2>3 DEF I!ReadTree, I!Go
    <3>2. /\ clone' \in Clones /\ clone'.got = clone.got
          /\ \A d \in PluginDirs : clone'.tree[d] \in {0, clone'.got}
      <4>1. clone.got \in Commit /\ 0 \in Commit
        BY <1>0, RepositoryAssumption DEF Clones, Commit
      <4> QED BY <1>0, <3>1, <4>1 DEF Clones
    <3>3. q \in Installs /\ q.pc = "review" /\ q.alone = r.alone
      BY <1>0 DEF Installs, Phases, I!Step
    <3> HIDE DEF q
    <3>4. Named(q)
      BY <3>3 DEF Named
    <3>5. Works(q, clone', dest')
      BY <3>2, <3>3 DEF Works, FetchedOnly, AsReviewed, AsBuilt, Building
    <3>6. I!ListedRuns' /\ dest' \in [PluginNames -> Installed]
      BY <2>1, InstallerTypes DEF InstallInv, I!ListedRuns
    <3> QED BY <2>1, <3>1, <3>2, <3>3, <3>4, <3>5, <3>6, Stepped
  <2> QED BY <2>2, <2>3
<1>5. CASE I!Killed(a)
  <2>1. r.pc # "idle" /\ acts' = [acts EXCEPT ![a] = I!Idle] /\ UNCHANGED <<head, clone, dest>>
    BY <1>5 DEF I!Killed, I!Busy, I!Go
  <2>2. Goes(r, I!Idle)
    BY IdleIsQuiet
  <2> QED BY <1>0, <2>1, <2>2, Went
<1> QED BY <1>1, <1>2, <1>3, <1>4, <1>5

(* What is reviewed is what the directory holds at the commit fetched. *)
LEMMA ReviewKeeps ==
  ASSUME InstallInv, NEW a \in Installers, I!Review(a)
  PROVE  InstallInv'
<1> DEFINE r == acts[a]
           dirs == I!Chosen(r.target)
           dir == CHOOSE d \in dirs : TRUE
           m == IF dirs = {} THEN None ELSE I!Here(dir)
           seen == IF m = None THEN r
                   ELSE [r EXCEPT !.commit = I!HeadCommit(r), !.dir = dir, !.name = m.name]
           many == [r EXCEPT !.pc = "choose", !.rest = I!SetToSeq(dirs)]
           next == CASE r.verb = "batch" -> I!ReviewedInBatch(seen, m)
                     [] r.verb = "install" -> I!ReviewedToInstall(seen, m)
                     [] r.verb = "store" -> I!ReviewedInStore(seen, m)
                     [] r.verb = "inspect" -> I!InspectPlugin(seen, m)
                     [] r.verb = "apply" -> I!InstallPlugin(seen, m)
           asked == [seen EXCEPT !.pc = "ask"]
           built == [seen EXCEPT !.pc = "build"]
           listed == [seen EXCEPT !.queue = Append(@, [dir |-> seen.dir, commit |-> seen.commit, name |-> seen.name])]
<1>0. /\ r \in Installs /\ clone \in Clones /\ r.target \in PluginDirs /\ r.verb \in Verbs
      /\ dest \in [PluginNames -> Installed] /\ I!ListedRuns
  BY InstallerTypes DEF Installs
<1>1. /\ r.pc = "review" /\ UNCHANGED <<head, clone, dest>>
      /\ acts' = [acts EXCEPT ![a] =
           IF Cardinality(dirs) > 1 THEN IF r.verb = "install" THEN many ELSE I!Idle ELSE next]
  BY DEF I!Review, I!At, I!Go, Cardinality, I!Cardinality
<1>2. dirs \subseteq PluginDirs
  BY <1>0 DEF I!Chosen, I!Candidates
<1>3. Goes(r, many) /\ Goes(r, I!Idle)
  <2>1. I!SetToSeq(dirs) \in Seq(PluginDirs)
    BY <1>2, DirsInOrder
  <2> HIDE DEF dirs
  <2>2. many \in Installs /\ many.pc = "choose" /\ many.alone = r.alone
    BY <1>0, <2>1 DEF Installs, Phases
  <2> HIDE DEF many
  <2> QED BY <2>2, IdleIsQuiet DEF Goes, Named, Quiet
<1>4. CASE Cardinality(dirs) > 1
  <2> DEFINE q == IF r.verb = "install" THEN many ELSE I!Idle
  <2>1. Goes(r, q) /\ acts' = [acts EXCEPT ![a] = q]
    BY <1>1, <1>3, <1>4
  <2> HIDE DEF q
  <2> QED BY <1>0, <1>1, <2>1, Went
<1>5. ASSUME m # None
      PROVE  /\ dir \in PluginDirs /\ m = I!Plugin(clone.tree[dir], dir) /\ m.name \in PluginNames
             /\ clone.tree[dir] \in Commit /\ clone.tree[dir] # 0
  <2>1. dirs # {} /\ m = I!Plugin(clone.tree[dir], dir)
    BY <1>5 DEF I!Here
  <2>2. dir \in dirs
    BY <2>1
  <2>3. dir \in PluginDirs
    BY <1>2, <2>2
  <2> HIDE DEF m, dir
  <2>4. clone.tree[dir] \in Commit
    BY <1>0, <2>3 DEF Clones
  <2> QED BY <1>5, <2>1, <2>3, <2>4, PluginHeld
<1>6. /\ seen \in Installs /\ seen.pc = r.pc /\ seen.alone = r.alone /\ seen.verb = r.verb
      /\ m # None => /\ seen.dir = dir /\ seen.commit = clone.got /\ seen.name = m.name
                     /\ seen.name \in PluginNames
  <2>1. CASE m = None
    <3> HIDE DEF m
    <3> QED BY <1>0, <2>1
  <2>2. CASE m # None
    <3>1. dir \in PluginDirs /\ m.name \in PluginNames
      BY <1>5, <2>2
    <3>2. I!HeadCommit(r) = clone.got /\ clone.got \in Commit
      BY <1>0 DEF I!HeadCommit, Clones
    <3> HIDE DEF m, dir
    <3> QED BY <1>0, <2>2, <3>1, <3>2 DEF Installs
  <2> QED BY <2>1, <2>2
<1> HIDE DEF seen
<1>7. /\ asked \in Installs /\ asked.pc = "ask" /\ asked.alone = r.alone /\ asked.verb = r.verb
      /\ asked.dir = seen.dir /\ asked.commit = seen.commit /\ asked.name = seen.name
      /\ built \in Installs /\ built.pc = "build" /\ built.alone = r.alone /\ built.verb = r.verb
      /\ built.dir = seen.dir /\ built.commit = seen.commit /\ built.name = seen.name
  BY <1>6 DEF Installs, Phases
<1> HIDE DEF asked, built
<1>8. ASSUME NEW q \in {asked, built}, m # None, acts' = [acts EXCEPT ![a] = q] PROVE InstallInv'
  <2>1. q \in Installs /\ q.alone = r.alone /\ Named(q)
    BY <1>6, <1>7, <1>8 DEF Named
  <2>2. ASSUME r.alone PROVE Works(q, clone', dest')
    <3>1. \A d \in PluginDirs : clone.tree[d] \in {0, clone.got}
      BY <1>1, <2>2, InstallerTypes DEF Works, FetchedOnly
    <3>2. dir \in PluginDirs /\ m = I!Plugin(clone.tree[dir], dir) /\ clone.tree[dir] = clone.got
      BY <1>5, <1>8, <3>1
    <3> HIDE DEF m, dir
    <3>3. q.dir = dir /\ q.commit = clone.tree[dir] /\ q.name = m.name /\ q.pc \in {"ask", "build"}
      BY <1>6, <1>7, <1>8, <3>2
    <3>4. AsReviewed(q, clone)
      BY <1>8, <3>2, <3>3 DEF AsReviewed
    <3> QED BY <1>1, <3>3, <3>4 DEF Works, FetchedOnly, AsBuilt, Building
  <2>3. dest' \in [PluginNames -> Installed] /\ I!ListedRuns' /\ clone' \in Clones
    BY <1>0, <1>1 DEF I!ListedRuns
  <2> HIDE DEF m
  <2> QED BY <1>1, <1>8, <2>1, <2>2, <2>3, Stepped
<1>9. CASE ~(Cardinality(dirs) > 1)
  <2>0. acts' = [acts EXCEPT ![a] = next]
    BY <1>1, <1>9
  <2>1. CASE r.verb = "batch"
    <3>1. next = I!ReviewedInBatch(seen, m)
      BY <2>1
    <3>2. I!ReviewedInBatch(seen, m) \in {I!Prepared(seen), I!Prepared(listed)} /\
          (m = None => I!ReviewedInBatch(seen, m) = I!Prepared(seen))
      BY DEF I!ReviewedInBatch, I!Refused
    <3>3. m # None => listed \in Installs /\ listed.verb = r.verb /\ listed.alone = r.alone /\ listed.pc = r.pc
      <4> SUFFICES ASSUME m # None PROVE listed \in Installs /\ listed.verb = r.verb /\ listed.alone = r.alone /\ listed.pc = r.pc
        OBVIOUS
      <4> HIDE DEF m
      <4> DEFINE p == [dir |-> seen.dir, commit |-> seen.commit, name |-> seen.name]
      <4>1. p \in Reviewed
        BY <1>6 DEF Installs, Reviewed
      <4> HIDE DEF p
      <4>2. Append(seen.queue, p) \in Seq(Reviewed)
        <5>1. seen.queue \in Seq(Reviewed)
          BY <1>6 DEF Installs
        <5> HIDE DEF listed
        <5> QED BY <4>1, <5>1
      <4>3. listed = [seen EXCEPT !.queue = Append(seen.queue, p)]
        BY DEF p
      <4> HIDE DEF listed
      <4> QED BY <1>6, <4>2, <4>3 DEF Installs
    <3> HIDE DEF listed, m, next
    <3>4. Goes(seen, I!Prepared(seen)) /\ (m # None => Goes(listed, I!Prepared(listed)))
      BY <1>6, <2>1, <3>3, PreparedIsQuiet
    <3>5. Goes(r, next)
      BY <1>6, <3>1, <3>2, <3>3, <3>4 DEF Goes
    <3> QED BY <1>0, <1>1, <2>0, <3>5, Went
  <2>2. CASE r.verb # "batch"
    <3>1. next = I!Idle \/ (m # None /\ next \in {asked, built})
      BY <1>0, <2>2 DEF Verbs, I!ReviewedToInstall, I!ReviewedInStore, I!InspectPlugin, I!InstallPlugin, I!Refused,
                       asked, built
    <3> HIDE DEF next, m
    <3> QED BY <1>0, <1>1, <1>3, <1>8, <2>0, <3>1, Went
  <2> QED BY <2>1, <2>2
<1> QED BY <1>4, <1>9

LEMMA PushKeeps == ASSUME InstallInv, I!Push PROVE InstallInv'
<1>1. head \in 1..MaxCommit /\ head' = head + 1 /\ head < MaxCommit /\ MaxCommit \in Nat
      /\ UNCHANGED <<clone, dest, acts>>
  BY RepositoryAssumption DEF I!Push, InstallInv, InstallTypeOK
<1>2. head' \in 1..MaxCommit
  BY <1>1
<1>3. InstallTypeOK'
  BY <1>1, <1>2 DEF InstallInv, InstallTypeOK
<1>4. I!ListedRuns'
  BY <1>1 DEF InstallInv, I!ListedRuns
<1> QED BY <1>1, <1>3, <1>4 DEF InstallInv

LEMMA PersonKeeps ==
  ASSUME InstallInv, NEW a \in Installers, I!Choose(a) \/ I!Answer(a)
  PROVE  InstallInv'
<1> DEFINE r == acts[a]
<1>0. /\ r \in Installs /\ clone \in Clones /\ Named(r) /\ r.verb \in Verbs /\ r.rest \in Seq(PluginDirs)
      /\ dest \in [PluginNames -> Installed] /\ I!ListedRuns
  BY InstallerTypes DEF Installs
<1>1. CASE I!Choose(a)
  <2> DEFINE one(d) == [r EXCEPT !.pc = "init", !.target = d, !.rest = <<>>]
             all == [r EXCEPT !.verb = "batch"]
  <2>1. /\ r.pc = "choose" /\ UNCHANGED <<head, clone, dest>>
        /\ \/ \E d \in I!ToSet(r.rest) : acts' = [acts EXCEPT ![a] = one(d)]
           \/ acts' = [acts EXCEPT ![a] = I!Prepared(all)]
           \/ acts' = [acts EXCEPT ![a] = I!Idle]
    BY <1>1 DEF I!Choose, I!At, I!Go
  <2>2. CASE \E d \in I!ToSet(r.rest) : acts' = [acts EXCEPT ![a] = one(d)]
    <3>1. PICK d \in I!ToSet(r.rest) : acts' = [acts EXCEPT ![a] = one(d)]
      BY <2>2
    <3>2. d \in PluginDirs
      BY <1>0, <3>1 DEF I!ToSet
    <3> DEFINE q == one(d)
    <3>3. q \in Installs /\ q.pc = "init" /\ q.alone = r.alone
      <4>1. <<>> \in Seq(PluginDirs)
        OBVIOUS
      <4> QED BY <1>0, <3>2, <4>1 DEF Installs, Phases
    <3>4. acts' = [acts EXCEPT ![a] = q]
      BY <3>1
    <3> HIDE DEF q
    <3>5. Goes(r, q)
      BY <3>3 DEF Goes, Named, Quiet
    <3> QED BY <1>0, <2>1, <3>4, <3>5, Went
  <2>3. CASE acts' = [acts EXCEPT ![a] = I!Prepared(all)]
    <3>1. all \in Installs /\ all.verb = "batch" /\ all.alone = r.alone
      BY <1>0 DEF Installs, Verbs
    <3> HIDE DEF all
    <3>2. Goes(r, I!Prepared(all))
      BY <3>1, PreparedIsQuiet DEF Goes
    <3> QED BY <1>0, <2>1, <2>3, <3>2, Went
  <2>4. CASE acts' = [acts EXCEPT ![a] = I!Idle]
    BY <1>0, <2>1, <2>4, IdleIsQuiet, Went
  <2> QED BY <2>1, <2>2, <2>3, <2>4
<1>2. CASE I!Answer(a)
  <2>1. /\ r.pc = "ask" /\ UNCHANGED <<head, clone, dest>>
        /\ \/ acts' = [acts EXCEPT ![a] = I!Idle]
           \/ \E needs \in BOOLEAN : acts' = [acts EXCEPT ![a] = I!Yes(r, needs)]
    <3> DEFINE m == I!Here(r.dir)
               needs == m # None /\ m.deps
    <3>1. needs = TRUE \/ needs = FALSE
      <4> DEFINE deps == m.deps
      <4>1. m # None => deps \in BOOLEAN
        <5> SUFFICES ASSUME m # None PROVE m.deps \in BOOLEAN
          OBVIOUS
        <5>1. clone.tree[r.dir] \in Commit /\ r.dir \in PluginDirs
          BY <1>0 DEF Clones, Installs
        <5>2. m \in Plugins
          BY <5>1, PluginHeld DEF I!Here
        <5> HIDE DEF m
        <5> QED BY <5>2 DEF Plugins
      <4> HIDE DEF m
      <4> QED BY <4>1
    <3>2. acts' = [acts EXCEPT ![a] = I!Idle] \/ acts' = [acts EXCEPT ![a] = I!Yes(r, needs)]
      BY <1>2, Zenon DEF I!Answer, I!At, I!Go
    <3>3. needs \in BOOLEAN
      BY <3>1
    <3> HIDE DEF needs
    <3>4. r.pc = "ask" /\ UNCHANGED <<head, clone, dest>>
      BY <1>2 DEF I!Answer, I!At
    <3> QED BY <3>2, <3>3, <3>4
  <2>2. CASE acts' = [acts EXCEPT ![a] = I!Idle]
    BY <1>0, <2>1, <2>2, IdleIsQuiet, Went
  <2>3. ASSUME NEW needs \in BOOLEAN, acts' = [acts EXCEPT ![a] = I!Yes(r, needs)] PROVE InstallInv'
    <3> DEFINE q == I!Yes(r, needs)
    <3>1. CASE r.verb = "batch"
      <4>1. q = I!NextBuilt(r)
        BY <3>1 DEF I!Yes
      <4>2. Goes(r, q)
        BY <1>0, <4>1, NextBuiltIsQuiet
      <4> HIDE DEF q
      <4> QED BY <1>0, <2>1, <2>3, <4>2, Went DEF q
    <3>2. CASE r.verb \in {"install", "store"}
      <4>1. q = [r EXCEPT !.pc = "build"] \/ q = [r EXCEPT !.deps = needs, !.pc = "build"]
        BY <3>2 DEF I!Yes
      <4>2. /\ q \in Installs /\ q.pc = "build" /\ q.alone = r.alone /\ q.verb = r.verb
            /\ q.dir = r.dir /\ q.commit = r.commit /\ q.name = r.name
        BY <1>0, <4>1 DEF Installs, Phases
      <4>3. acts' = [acts EXCEPT ![a] = q]
        BY <2>3
      <4> HIDE DEF q
      <4>4. Named(q)
        BY <1>0, <2>1, <3>2, <4>2 DEF Named
      <4>5. r.alone => Works(q, clone', dest')
        BY <2>1, <3>2, <4>2, InstallerTypes DEF Works, FetchedOnly, AsReviewed, AsBuilt, Building
      <4>6. dest' \in [PluginNames -> Installed] /\ I!ListedRuns' /\ clone' \in Clones
        BY <1>0, <2>1 DEF I!ListedRuns
      <4> QED BY <2>1, <4>2, <4>3, <4>4, <4>5, <4>6, Stepped
    <3>3. CASE r.verb \in {"inspect", "apply"}
      <4>1. q = [r EXCEPT !.verb = "apply", !.target = r.source, !.deps = needs, !.pc = "init"]
        BY <3>3 DEF I!Yes
      <4>2. q \in Installs /\ q.pc = "init" /\ q.alone = r.alone
        BY <1>0, <4>1 DEF Installs, Phases, Verbs
      <4>3. acts' = [acts EXCEPT ![a] = q]
        BY <2>3
      <4> HIDE DEF q
      <4>4. Goes(r, q)
        BY <4>2 DEF Goes, Named, Quiet
      <4> QED BY <1>0, <2>1, <4>3, <4>4, Went
    <3> QED BY <1>0, <3>1, <3>2, <3>3 DEF Verbs
  <2> QED BY <2>1, <2>2, <2>3
<1> QED BY <1>1, <1>2

(* What is built is what the directory holds. *)
LEMMA BuildStartKeeps ==
  ASSUME InstallInv, NEW a \in Installers, I!BuildStart(a)
  PROVE  InstallInv'
<1> DEFINE r == acts[a]
           m == I!Here(r.dir)
           q == [r EXCEPT !.pc = "bundle", !.todo = m.commands, !.built = {}]
<1>0. /\ r \in Installs /\ clone \in Clones /\ Named(r) /\ r.dir \in PluginDirs
      /\ dest \in [PluginNames -> Installed] /\ I!ListedRuns
  BY InstallerTypes DEF Installs
<1>1. r.pc = "build" /\ UNCHANGED <<head, dest>>
  BY DEF I!BuildStart, I!At
<1>2. dest' \in [PluginNames -> Installed] /\ I!ListedRuns'
  BY <1>0, <1>1 DEF I!ListedRuns
<1>3. CASE /\ m # None /\ acts' = [acts EXCEPT ![a] = q]
           /\ clone' = [clone EXCEPT !.packages = I!InstallDependencies(r, m)]
  <2>1. clone' \in Clones /\ clone'.tree = clone.tree
    <3>1. I!InstallDependencies(r, m) \in SUBSET PluginDirs
      BY <1>0 DEF I!InstallDependencies, Clones
    <3> HIDE DEF m
    <3> QED BY <1>0, <1>3, <3>1 DEF Clones
  <2>2. m \in Plugins /\ m = I!Plugin(clone.tree[r.dir], r.dir) /\ m.commands \subseteq PluginCmds /\ m.builds \subseteq m.commands
    <3>1. clone.tree[r.dir] \in Commit
      BY <1>0 DEF Clones
    <3> QED BY <1>0, <1>3, <3>1, PluginHeld DEF I!Here
  <2> HIDE DEF m
  <2>3. /\ q \in Installs /\ q.pc = "bundle" /\ q.alone = r.alone /\ q.verb = r.verb /\ q.name = r.name
        /\ q.dir = r.dir /\ q.commit = r.commit /\ q.todo = m.commands /\ q.built = {}
    BY <1>0, <2>2 DEF Installs, Phases
  <2>4. acts' = [acts EXCEPT ![a] = q]
    BY <1>3
  <2> HIDE DEF q
  <2>5. Named(q)
    BY <1>0, <1>1, <2>3 DEF Named
  <2>6. AsBuilt(q, clone', dest')
    BY <1>3, <2>1, <2>2, <2>3 DEF AsBuilt
  <2>7. r.alone => AsReviewed(q, clone')
    BY <1>1, <2>1, <2>3, InstallerTypes DEF Works, AsReviewed
  <2>8. FetchedOnly(q, clone')
    BY <2>3 DEF FetchedOnly
  <2> QED BY <1>1, <1>2, <2>1, <2>3, <2>4, <2>5, <2>6, <2>7, <2>8, Stepped DEF Works
<1>4. CASE acts' = [acts EXCEPT ![a] = I!NextBuilt(r)] /\ clone' = clone
  BY <1>0, <1>1, <1>4, NextBuiltIsQuiet, Went
<1> QED BY <1>3, <1>4 DEF I!BuildStart, I!Go

(* A bundle or a stale one: what works is there, of this commit. *)
LEMMA BundleKeeps ==
  ASSUME InstallInv, NEW a \in Installers, NEW k \in PluginCmds, I!Bundle(a, k)
  PROVE  InstallInv'
<1> DEFINE r == acts[a]
           c == clone.tree[r.dir]
           m == I!Plugin(c, r.dir)
           works == I!Works(r, k)
           q == [r EXCEPT !.todo = @ \ {k}, !.built = IF works THEN @ \cup {k} ELSE @]
<1>0. /\ r \in Installs /\ clone \in Clones /\ Named(r) /\ r.dir \in PluginDirs
      /\ dest \in [PluginNames -> Installed] /\ I!ListedRuns /\ c \in Commit
  BY InstallerTypes DEF Installs, Clones
<1>1. /\ r.pc = "bundle" /\ k \in r.todo /\ acts' = [acts EXCEPT ![a] = q] /\ UNCHANGED <<head, clone>>
      /\ dest' = IF works THEN [dest EXCEPT ![r.name].bundles[k] = c] ELSE dest
  BY DEF I!Bundle, I!At, I!Go
<1>2. works <=> m # None /\ k \in m.builds /\ (m.deps => r.dir \in clone.packages)
  BY DEF I!Works, I!Here
<1>3. r.name \in PluginNames /\ r.todo \in SUBSET PluginCmds /\ r.built \in SUBSET PluginCmds
  BY <1>0, <1>1 DEF Named, Installs
<1>4. /\ q \in Installs /\ q.pc = "bundle" /\ q.alone = r.alone /\ q.verb = r.verb /\ q.name = r.name
      /\ q.dir = r.dir /\ q.commit = r.commit /\ q.todo = r.todo \ {k}
      /\ q.built = IF works THEN r.built \cup {k} ELSE r.built
  <2> HIDE DEF works
  <2> QED BY <1>0, <1>1, <1>3 DEF Installs
<1> HIDE DEF q
<1>5. works => c # 0
  BY <1>0, <1>2, PluginHeld
<1> HIDE DEF works
<1>6. /\ dest' \in [PluginNames -> Installed]
      /\ \A n \in PluginNames : /\ dest'[n].manifest = dest[n].manifest /\ dest'[n].dir = dest[n].dir
                                /\ dest'[n].clean = dest[n].clean
      /\ \A n \in PluginNames, j \in PluginCmds :
           dest'[n].bundles[j] = IF works /\ n = r.name /\ j = k THEN c ELSE dest[n].bundles[j]
  <2>1. CASE works
    <3> DEFINE e == [dest[r.name] EXCEPT !.bundles[k] = c]
    <3>0. dest[r.name] \in Installed
      BY <1>0, <1>3
    <3>1. /\ e \in Installed /\ e.manifest = dest[r.name].manifest /\ e.dir = dest[r.name].dir
          /\ e.clean = dest[r.name].clean /\ \A j \in PluginCmds : e.bundles[j] = IF j = k THEN c ELSE dest[r.name].bundles[j]
      <4> HIDE DEF c
      <4> QED BY <1>0, <3>0 DEF Installed
    <3>2. dest' = [dest EXCEPT ![r.name] = e]
      BY <1>1, <2>1
    <3> HIDE DEF e
    <3> QED BY <1>0, <1>3, <2>1, <3>1, <3>2
  <2>2. CASE ~works
    BY <1>0, <1>1, <2>2
  <2> QED BY <2>1, <2>2
<1>7. I!ListedRuns'
  <2> SUFFICES ASSUME NEW n \in PluginNames, dest'[n].manifest # 0, dest'[n].clean
               PROVE  LET p == Repository[dest'[n].manifest][dest'[n].dir] IN
                      p # None /\ (~p.deps => \A j \in p.builds : dest'[n].bundles[j] # 0)
    BY DEF I!ListedRuns
  <2> DEFINE p == Repository[dest[n].manifest][dest[n].dir]
  <2>1. p # None /\ (~p.deps => \A j \in p.builds : dest[n].bundles[j] # 0)
    BY <1>0, <1>6 DEF I!ListedRuns
  <2>2. p \in Plugins
    <3>1. dest[n] \in Installed /\ dest[n].manifest # 0
      BY <1>0, <1>6
    <3>2. dest[n].manifest \in 1..MaxCommit /\ dest[n].dir \in PluginDirs
      BY <3>1, RepositoryAssumption DEF Installed, Commit
    <3> QED BY <2>1, <3>2, RepositoryAssumption
  <2>3. p.builds \subseteq PluginCmds
    BY <2>2 DEF Plugins
  <2>4. Repository[dest'[n].manifest][dest'[n].dir] = p
    BY <1>6
  <2> HIDE DEF p, c
  <2> QED BY <1>5, <1>6, <2>1, <2>3, <2>4
<1>8. ASSUME r.alone PROVE Works(q, clone', dest')
  <2>1. AsReviewed(r, clone) /\ AsBuilt(r, clone, dest)
    BY <1>1, <1>8, InstallerTypes DEF Works
  <2>2. m # None /\ r.built = {j \in m.builds \ r.todo : m.deps => r.dir \in clone.packages}
        /\ \A j \in r.built : dest[r.name].bundles[j] = c
    BY <1>1, <2>1 DEF AsBuilt, Building
  <2>3. m.builds \subseteq PluginCmds /\ (m.deps \in BOOLEAN)
    BY <1>0, <2>2, PluginHeld DEF Plugins
  <2> HIDE DEF m
  <2>4. q.built = {j \in m.builds \ q.todo : m.deps => r.dir \in clone.packages}
    BY <1>1, <1>2, <1>4, <2>2
  <2>5. \A j \in q.built : dest'[r.name].bundles[j] = c
    BY <1>3, <1>4, <1>6, <2>2
  <2>6. AsBuilt(q, clone', dest')
    BY <1>1, <1>4, <2>2, <2>4, <2>5 DEF AsBuilt, m
  <2>7. AsReviewed(q, clone')
    BY <1>1, <1>4, <2>1 DEF AsReviewed
  <2> QED BY <1>4, <2>6, <2>7 DEF Works, FetchedOnly
<1>9. Named(q)
  BY <1>3, <1>4 DEF Named
<1>10. clone' \in Clones /\ r.pc # "idle" /\ (q.alone /\ q.pc # "idle" => r.alone)
       /\ (r.alone /\ q.pc # "idle" => Works(q, clone', dest'))
  BY <1>0, <1>1, <1>4, <1>8
<1> QED BY <1>1, <1>4, <1>6, <1>7, <1>9, <1>10, Stepped

(* The parts of what is installed that an installer may write last. *)
LEMMA WriteManifestKeeps ==
  ASSUME InstallInv, NEW a \in Installers, I!WriteManifest(a)
  PROVE  InstallInv'
<1> DEFINE r == acts[a]
           c == clone.tree[r.dir]
           m == I!Plugin(c, r.dir)
           q == I!Step(a, "clear")
<1>0. /\ r \in Installs /\ clone \in Clones /\ Named(r) /\ r.dir \in PluginDirs
      /\ dest \in [PluginNames -> Installed] /\ I!ListedRuns /\ c \in Commit
  BY InstallerTypes DEF Installs, Clones
<1>1. r.pc = "bundle" /\ r.todo = {} /\ UNCHANGED <<head, clone>>
  BY DEF I!WriteManifest, I!At
<1>2. CASE m = None
  <2>1. acts' = [acts EXCEPT ![a] = I!NextBuilt(r)] /\ dest' = dest
    BY <1>2 DEF I!WriteManifest, I!Here, I!Go
  <2> QED BY <1>0, <1>1, <2>1, NextBuiltIsQuiet, Went
<1>3. CASE m # None
  <2>1. acts' = [acts EXCEPT ![a] = q] /\ dest' = I!Listing(r, c)
    BY <1>3 DEF I!WriteManifest, I!Here, I!Go
  <2>2. r.name \in PluginNames /\ r.alone \in BOOLEAN
    BY <1>0, <1>1 DEF Named, Installs
  <2>3. /\ q \in Installs /\ q.pc = "clear" /\ q.alone = r.alone /\ q.verb = r.verb /\ q.name = r.name
        /\ q.dir = r.dir /\ q.commit = r.commit /\ q.todo = r.todo /\ q.built = r.built
    BY <1>0 DEF Installs, Phases, I!Step
  <2>4. /\ c # 0 /\ m = Repository[c][r.dir] /\ m \in Plugins
    BY <1>0, <1>3, PluginHeld
  <2> HIDE DEF q, m
  <2>5. /\ dest' \in [PluginNames -> Installed]
        /\ \A n \in PluginNames : n # r.name => dest'[n] = dest[n]
        /\ dest'[r.name].manifest = c /\ dest'[r.name].dir = r.dir /\ dest'[r.name].clean = r.alone
        /\ dest'[r.name].bundles = dest[r.name].bundles
    <3> DEFINE e == [dest[r.name] EXCEPT !.manifest = c, !.dir = r.dir, !.clean = r.alone]
    <3> HIDE DEF c
    <3>0. dest[r.name] \in Installed
      BY <1>0, <2>2
    <3>1. e \in Installed /\ e.manifest = c /\ e.dir = r.dir /\ e.clean = r.alone /\ e.bundles = dest[r.name].bundles
      BY <1>0, <2>2, <3>0 DEF Installed
    <3>2. dest' = [dest EXCEPT ![r.name] = e]
      BY <1>0, <2>1, <2>2, <3>0 DEF I!Listing, Installed
    <3> HIDE DEF e
    <3> QED BY <1>0, <2>2, <3>1, <3>2
  <2>6. ASSUME r.alone
        PROVE  /\ AsReviewed(r, clone) /\ r.built = {j \in m.builds : m.deps => r.dir \in clone.packages}
               /\ \A j \in r.built : dest[r.name].bundles[j] = c
    BY <1>1, <2>6, InstallerTypes DEF Works, AsBuilt, Building, m
  <2>7. I!ListedRuns'
    <3> SUFFICES ASSUME NEW n \in PluginNames, dest'[n].manifest # 0, dest'[n].clean
                 PROVE  LET p == Repository[dest'[n].manifest][dest'[n].dir] IN
                        p # None /\ (~p.deps => \A j \in p.builds : dest'[n].bundles[j] # 0)
      BY DEF I!ListedRuns
    <3>1. CASE n # r.name
      <4>1. dest'[n] = dest[n]
        BY <2>5, <3>1
      <4> QED BY <1>0, <4>1 DEF I!ListedRuns
    <3>2. CASE n = r.name
      <4>1. r.alone /\ Repository[dest'[n].manifest][dest'[n].dir] = m
        BY <2>4, <2>5, <3>2
      <4>2. ~m.deps => \A j \in m.builds : dest'[n].bundles[j] # 0
        <5> HIDE DEF c
        <5> QED BY <2>4, <2>5, <2>6, <3>2, <4>1
      <4> QED BY <1>3, <4>1, <4>2
    <3> QED BY <3>1, <3>2
  <2>8. ASSUME r.alone PROVE Works(q, clone', dest')
    <3>1. AsBuilt(q, clone', dest')
      BY <1>1, <1>3, <2>3, <2>5, <2>6, <2>8 DEF AsBuilt, m
    <3>2. AsReviewed(q, clone')
      BY <1>1, <2>3, <2>6, <2>8 DEF AsReviewed
    <3> QED BY <2>3, <3>1, <3>2 DEF Works, FetchedOnly
  <2>9. Named(q)
    BY <2>2, <2>3 DEF Named
  <2>10. clone' \in Clones /\ r.pc # "idle" /\ (q.alone /\ q.pc # "idle" => r.alone)
         /\ (r.alone /\ q.pc # "idle" => Works(q, clone', dest'))
    BY <1>0, <1>1, <2>3, <2>8
  <2> QED BY <1>1, <2>1, <2>3, <2>5, <2>7, <2>9, <2>10, Stepped
<1> QED BY <1>2, <1>3

(* Once the manifest is there, its source and what signs it. *)
LEMMA FinishedKeeps ==
  ASSUME InstallInv, NEW a \in Installers, NEW q \in Installs, NEW e \in [PluginNames -> Installed],
         acts[a].pc \in {"clear", "copy", "sign"}, acts' = [acts EXCEPT ![a] = q], dest' = e, UNCHANGED <<head, clone>>,
         q = [acts[a] EXCEPT !.pc = q.pc], q.pc \in {"copy", "sign", "done"},
         \A n \in PluginNames : /\ e[n].manifest = dest[n].manifest /\ e[n].dir = dest[n].dir
                                /\ e[n].clean = dest[n].clean /\ e[n].bundles = dest[n].bundles,
         q.pc \in {"sign", "done"} => e[acts[a].name].src = clone.tree[acts[a].dir],
         q.pc = "done" => /\ e[acts[a].name].signed = acts[a].commit /\ acts[a].verb # "batch"
  PROVE  InstallInv'
<1> DEFINE r == acts[a]
<1>0. r \in Installs /\ clone \in Clones /\ Named(r) /\ I!ListedRuns
  BY InstallerTypes
<1>1. /\ q.alone = r.alone /\ q.verb = r.verb /\ q.name = r.name /\ q.dir = r.dir
      /\ q.commit = r.commit /\ q.todo = r.todo /\ q.built = r.built
  <2> DEFINE pc == q.pc
  <2>1. q = [r EXCEPT !.pc = pc]
    OBVIOUS
  <2> HIDE DEF pc
  <2> QED BY <1>0, <2>1 DEF Installs
<1>2. r.name \in PluginNames
  BY <1>0 DEF Named
<1>3. I!ListedRuns'
  BY <1>0 DEF I!ListedRuns
<1>4. ASSUME r.alone PROVE Works(q, clone', dest')
  <2>1. Works(r, clone, dest)
    BY <1>4, InstallerTypes
  <2>2. AsReviewed(q, clone')
    BY <1>1, <2>1 DEF Works, AsReviewed
  <2>3. AsBuilt(q, clone', dest')
    <3>1. q.pc = "done" => r.commit = clone.tree[r.dir]
      BY <1>1, <2>1 DEF Works, AsReviewed
    <3> QED BY <1>1, <1>2, <2>1, <3>1 DEF Works, AsBuilt, Building
  <2> QED BY <2>2, <2>3 DEF Works, FetchedOnly
<1>5. Named(q)
  BY <1>1, <1>2 DEF Named
<1>6. clone' \in Clones /\ r.pc # "idle" /\ (q.alone /\ q.pc # "idle" => r.alone)
      /\ (r.alone /\ q.pc # "idle" => Works(q, clone', dest')) /\ dest' \in [PluginNames -> Installed]
  BY <1>0, <1>1, <1>4
<1> QED BY <1>3, <1>5, <1>6, Stepped

LEMMA SourceKeeps ==
  ASSUME InstallInv, NEW a \in Installers, I!ClearSource(a) \/ I!CopySource(a) \/ I!Sign(a)
  PROVE  InstallInv'
<1> DEFINE r == acts[a]
           c == clone.tree[r.dir]
<1>0. /\ r \in Installs /\ clone \in Clones /\ Named(r) /\ r.dir \in PluginDirs /\ r.commit \in Commit
      /\ dest \in [PluginNames -> Installed] /\ I!ListedRuns /\ c \in Commit /\ 0 \in Commit
  <2>1. 0 \in Commit
    BY RepositoryAssumption DEF Commit
  <2> QED BY <2>1, InstallerTypes DEF Installs, Clones
<1>1. r.pc \in {"clear", "copy", "sign"} /\ UNCHANGED <<head, clone>> /\ r.name \in PluginNames
  BY <1>0 DEF I!ClearSource, I!CopySource, I!Sign, I!At, Named
<1>2. dest[r.name] \in Installed
  BY <1>0, <1>1
<1>3. ASSUME NEW v \in Commit
      PROVE  LET e == [dest EXCEPT ![r.name].src = v] IN
             /\ e \in [PluginNames -> Installed] /\ e[r.name].src = v
             /\ \A n \in PluginNames : /\ e[n].manifest = dest[n].manifest /\ e[n].dir = dest[n].dir
                                       /\ e[n].clean = dest[n].clean /\ e[n].bundles = dest[n].bundles
  <2> DEFINE x == [dest[r.name] EXCEPT !.src = v]
             e == [dest EXCEPT ![r.name].src = v]
  <2>1. /\ x \in Installed /\ x.src = v /\ x.manifest = dest[r.name].manifest /\ x.dir = dest[r.name].dir
        /\ x.clean = dest[r.name].clean /\ x.bundles = dest[r.name].bundles
    BY <1>2 DEF Installed
  <2>2. e = [dest EXCEPT ![r.name] = x]
    OBVIOUS
  <2> HIDE DEF x
  <2>3. e \in [PluginNames -> Installed] /\ e[r.name] = x /\ \A n \in PluginNames : n # r.name => e[n] = dest[n]
    BY <1>0, <1>1, <2>1, <2>2
  <2> QED BY <2>1, <2>3
<1>4. ASSUME NEW v \in Commit
      PROVE  LET e == [dest EXCEPT ![r.name].signed = v] IN
             /\ e \in [PluginNames -> Installed] /\ e[r.name].signed = v
             /\ \A n \in PluginNames : /\ e[n].manifest = dest[n].manifest /\ e[n].dir = dest[n].dir
                                       /\ e[n].clean = dest[n].clean /\ e[n].bundles = dest[n].bundles
                                       /\ e[n].src = dest[n].src
  <2> DEFINE x == [dest[r.name] EXCEPT !.signed = v]
             e == [dest EXCEPT ![r.name].signed = v]
  <2>1. /\ x \in Installed /\ x.signed = v /\ x.manifest = dest[r.name].manifest /\ x.dir = dest[r.name].dir
        /\ x.clean = dest[r.name].clean /\ x.bundles = dest[r.name].bundles /\ x.src = dest[r.name].src
    BY <1>2 DEF Installed
  <2>2. e = [dest EXCEPT ![r.name] = x]
    OBVIOUS
  <2> HIDE DEF x
  <2>3. e \in [PluginNames -> Installed] /\ e[r.name] = x /\ \A n \in PluginNames : n # r.name => e[n] = dest[n]
    BY <1>0, <1>1, <2>1, <2>2
  <2> QED BY <2>1, <2>3
<1>5. ASSUME NEW pc \in {"copy", "sign", "done"}
      PROVE  LET q == [r EXCEPT !.pc = pc] IN q \in Installs /\ q.pc = pc
  BY <1>0 DEF Installs, Phases
<1>6. CASE I!ClearSource(a)
  <2> DEFINE q == [r EXCEPT !.pc = "copy"]
             e == [dest EXCEPT ![r.name].src = 0]
  <2>1. acts' = [acts EXCEPT ![a] = q] /\ dest' = e
    BY <1>6 DEF I!ClearSource, I!Go, I!Step
  <2>2. q \in Installs /\ q.pc = "copy" /\ q = [r EXCEPT !.pc = q.pc]
    BY <1>5
  <2>3. /\ e \in [PluginNames -> Installed]
        /\ \A n \in PluginNames : /\ e[n].manifest = dest[n].manifest /\ e[n].dir = dest[n].dir
                                  /\ e[n].clean = dest[n].clean /\ e[n].bundles = dest[n].bundles
    BY <1>0, <1>3
  <2> HIDE DEF q, e
  <2> QED BY <1>1, <2>1, <2>2, <2>3, FinishedKeeps
<1>7. CASE I!CopySource(a)
  <2> DEFINE q == [r EXCEPT !.pc = "sign"]
             e == [dest EXCEPT ![r.name].src = c]
  <2>1. acts' = [acts EXCEPT ![a] = q] /\ dest' = e
    BY <1>7 DEF I!CopySource, I!Go, I!Step
  <2>2. q \in Installs /\ q.pc = "sign" /\ q = [r EXCEPT !.pc = q.pc]
    BY <1>5
  <2>3. /\ e \in [PluginNames -> Installed] /\ e[r.name].src = c
        /\ \A n \in PluginNames : /\ e[n].manifest = dest[n].manifest /\ e[n].dir = dest[n].dir
                                  /\ e[n].clean = dest[n].clean /\ e[n].bundles = dest[n].bundles
    BY <1>0, <1>3
  <2> HIDE DEF q, e
  <2> QED BY <1>1, <2>1, <2>2, <2>3, FinishedKeeps
<1>8. CASE I!Sign(a)
  <2> DEFINE signs == r.built # {} \/ r.verb = "install"
             q == [r EXCEPT !.pc = "done"]
             e == [dest EXCEPT ![r.name].signed = r.commit]
  <2>1. /\ r.pc = "sign" /\ dest' = IF signs THEN e ELSE dest
        /\ acts' = [acts EXCEPT ![a] = IF signs /\ r.verb # "batch" THEN q ELSE I!NextBuilt(r)]
    BY <1>8 DEF I!Sign, I!Go, I!Step, I!At
  <2>2. /\ e \in [PluginNames -> Installed] /\ e[r.name].signed = r.commit
        /\ \A n \in PluginNames : /\ e[n].manifest = dest[n].manifest /\ e[n].dir = dest[n].dir
                                  /\ e[n].clean = dest[n].clean /\ e[n].bundles = dest[n].bundles
                                  /\ e[n].src = dest[n].src
    BY <1>0, <1>4
  <2> HIDE DEF e
  <2>3. CASE signs /\ r.verb # "batch"
    <3>1. acts' = [acts EXCEPT ![a] = q] /\ dest' = e
      BY <2>1, <2>3
    <3>2. q \in Installs /\ q.pc = "done" /\ q = [r EXCEPT !.pc = q.pc]
      BY <1>5
    <3> HIDE DEF q
    <3>3. CASE dest[r.name].src = c
      <4>1. e[r.name].src = c
        BY <1>1, <2>2, <3>3
      <4> QED BY <1>1, <2>2, <2>3, <3>1, <3>2, <4>1, FinishedKeeps
    <3>4. CASE dest[r.name].src # c
      <4>1. ~r.alone
        BY <1>1, <2>1, <3>4, InstallerTypes DEF Works, AsBuilt, Building
      <4>2. q.alone = r.alone
        BY <1>0, <3>2 DEF q, Installs
      <4>3. Named(q)
        BY <3>2 DEF Named
      <4>4. dest' \in [PluginNames -> Installed] /\ I!ListedRuns' /\ clone' \in Clones
        BY <1>0, <1>1, <2>2, <3>1 DEF I!ListedRuns
      <4> QED BY <1>1, <3>1, <3>2, <4>1, <4>2, <4>3, <4>4, Stepped
    <3> QED BY <3>3, <3>4
  <2>4. CASE ~(signs /\ r.verb # "batch")
    <3> DEFINE p == I!NextBuilt(r)
    <3>1. acts' = [acts EXCEPT ![a] = p]
      BY <2>1, <2>4
    <3>2. Goes(r, p)
      BY <1>0, NextBuiltIsQuiet
    <3> HIDE DEF p, signs
    <3>3. dest' \in [PluginNames -> Installed] /\ I!ListedRuns' /\ clone' \in Clones
      BY <1>0, <1>1, <2>1, <2>2 DEF I!ListedRuns
    <3>4. p \in Installs /\ Named(p) /\ (p.alone /\ p.pc # "idle" => r.alone) /\ Works(p, clone', dest')
      BY <3>2, QuietWorks DEF Goes
    <3> QED BY <1>1, <3>1, <3>3, <3>4, Stepped
  <2> QED BY <2>3, <2>4
<1> QED BY <1>6, <1>7, <1>8

LEMMA InstallInductive == InstallInv /\ [I!NextInstall]_(I!installVars) => InstallInv'
<1> SUFFICES ASSUME InstallInv, [I!NextInstall]_(I!installVars) PROVE InstallInv'
  OBVIOUS
<1>1. ASSUME NEW a \in Installers, NEW d \in PluginDirs, I!EditSource(a, d) PROVE InstallInv'
  BY <1>1, EditSourceKeeps
<1>2. ASSUME NEW a \in Installers, NEW d \in PluginDirs, NEW shape \in I!Shapes, NEW deps \in BOOLEAN,
             NEW target \in I!ParsePluginSource(shape, d), I!Start(a, target, deps)
      PROVE  InstallInv'
  <2>1. target \in PluginDirs
    BY <1>2, RepositoryAssumption DEF I!ParsePluginSource, I!Shapes
  <2> QED BY <1>2, <2>1, StartKeeps
<1>3. ASSUME NEW a \in Installers, NEW k \in PluginCmds, I!Bundle(a, k) PROVE InstallInv'
  BY <1>3, BundleKeeps
<1>4. CASE UNCHANGED I!installVars
  <2>1. UNCHANGED <<head, clone, dest, acts>>
    BY <1>4 DEF I!installVars
  <2> QED BY <2>1 DEF InstallInv, InstallTypeOK, I!ListedRuns
<1> QED BY <1>1, <1>2, <1>3, <1>4, PushKeeps, FetchingKeeps, ReviewKeeps, PersonKeeps, BuildStartKeeps,
           WriteManifestKeeps, SourceKeeps
        DEF I!NextInstall, Installers

(* An install that ran to its end with no other begun meanwhile leaves the   *)
(* plugin of one commit, the one its provenance names, with every command    *)
(* that can be built; and a plugin whose manifest is there, written with no  *)
(* other begun meanwhile, has a bundle for each command that can be built    *)
(* without packages: for any repository, however installs are begun, killed  *)
(* and begun anew (store/plugin.ts, main/extensions/build.ts).               *)
THEOREM WhatIsInstalledIsWhole == Spec => []InstallIntact
<1> DEFINE Inv == part = "install" => InstallInv
<1>1. Init => Inv
  <2> SUFFICES ASSUME I!InitInstall PROVE InstallInv
    BY DEF Init
  <2>1. /\ head = 1 /\ clone = I!NoClone /\ dest = [n \in PluginNames |-> I!NoDest]
        /\ acts = [a \in Installers |-> I!Idle]
    BY DEF I!InitInstall, Installers
  <2>2. I!Idle \in Installs /\ Named(I!Idle) /\ I!Idle.pc = "idle"
    BY IdleIsQuiet DEF Goes, I!Idle
  <2>3. I!NoDest \in Installed /\ I!NoDest.manifest = 0
    BY RepositoryAssumption DEF I!NoDest, Installed, Commit
  <2>4. InstallTypeOK
    BY <2>1, <2>2, <2>3, CloneTypes, RepositoryAssumption DEF InstallTypeOK
  <2>5. I!ListedRuns
    BY <2>1, <2>3 DEF I!ListedRuns
  <2> QED BY <2>1, <2>2, <2>4, <2>5 DEF InstallInv
<1>2. Inv /\ [Next]_vars => Inv'
  <2> SUFFICES ASSUME InstallInv, part = "install", [Next]_vars PROVE InstallInv'
    BY DEF Next, vars
  <2>1. [I!NextInstall]_(I!installVars)
    BY DEF Next, vars, I!installVars
  <2> QED BY <2>1, InstallInductive
<1>3. Inv => InstallIntact
  <2> SUFFICES ASSUME InstallInv PROVE I!InstalledWhole
    BY DEF InstallIntact, I!InstallIntact, InstallInv
  <2> DEFINE r(a) == acts[a]
  <2> SUFFICES ASSUME NEW a \in Installers, r(a).pc = "done", r(a).verb # "batch", r(a).alone
               PROVE  LET m == Repository[r(a).commit][r(a).dir]  d == dest[r(a).name] IN
                      /\ r(a).name = m.name /\ d.manifest = r(a).commit /\ d.src = r(a).commit
                      /\ d.signed = r(a).commit
                      /\ r(a).built = {k \in m.builds : m.deps => r(a).dir \in clone.packages}
                      /\ \A k \in r(a).built : d.bundles[k] = r(a).commit
    BY DEF I!InstalledWhole, Installers
  <2>1. r(a) \in Installs /\ clone \in Clones /\ AsReviewed(r(a), clone) /\ AsBuilt(r(a), clone, dest)
    BY InstallerTypes DEF Works
  <2> DEFINE c == clone.tree[r(a).dir]
             m == I!Plugin(c, r(a).dir)
  <2>2. m # None /\ r(a).commit = c /\ r(a).name = m.name
    BY <2>1 DEF AsReviewed
  <2>3. c \in Commit /\ r(a).dir \in PluginDirs
    BY <2>1 DEF Installs, Clones
  <2>4. m = Repository[r(a).commit][r(a).dir]
    BY <2>2, <2>3, PluginHeld
  <2>5. /\ r(a).built = {k \in m.builds \ r(a).todo : m.deps => r(a).dir \in clone.packages} /\ r(a).todo = {}
        /\ \A k \in r(a).built : dest[r(a).name].bundles[k] = c
        /\ dest[r(a).name].manifest = c /\ dest[r(a).name].src = c /\ dest[r(a).name].signed = c
    BY <2>1 DEF AsBuilt, Building
  <2> HIDE DEF m, c
  <2>6. r(a).built = {k \in m.builds : m.deps => r(a).dir \in clone.packages}
    BY <2>5
  <2> QED BY <2>2, <2>4, <2>5, <2>6
<1> QED BY <1>1, <1>2, <1>3, PTL DEF Spec
(* Induction over the subsets of a finite set, and over the numbers.         *)
LEMMA SubsetInduction ==
  ASSUME NEW S, IsFiniteSet(S), NEW Good,
         \A s \in SUBSET S : (\A r \in SUBSET s : r # s => r \in Good) => s \in Good
  PROVE  SUBSET S \subseteq Good
<1> SUFFICES ASSUME NEW t \in SUBSET S, t \notin Good PROVE FALSE
  OBVIOUS
<1> DEFINE T == {s \in SUBSET S : s \notin Good}
<1>1. /\ IsWellFoundedOn(StrictSubsetOrdering(S), FiniteSubsetsOf(S)) /\ FiniteSubsetsOf(S) = SUBSET S
  BY FS_StrictSubsetOrderingWellFounded, FS_FiniteSubsetsOfFinite
<1>2. T \subseteq SUBSET S /\ T # {}
  OBVIOUS
<1>3. PICK s \in T : \A r \in T : ~(<<r, s>> \in StrictSubsetOrdering(S))
  <2> HIDE DEF T
  <2> QED BY <1>1, <1>2, WFMin
<1>4. \A r \in SUBSET s : r # s => r \in Good
  BY <1>3 DEF StrictSubsetOrdering
<1> QED BY <1>3, <1>4

LEMMA Induction == ASSUME NEW S, 0 \in S, \A n \in Nat : n \in S => n + 1 \in S PROVE Nat \subseteq S
<1> SUFFICES ASSUME NEW n \in Nat, n \notin S PROVE FALSE
  OBVIOUS
<1> DEFINE Good == {r \in SUBSET (1..n) : \A m \in 0..n : r = 1..m => m \in S}
<1>1. ASSUME NEW s \in SUBSET (1..n), \A r \in SUBSET s : r # s => r \in Good PROVE s \in Good
  <2> SUFFICES ASSUME NEW m \in 0..n, s = 1..m, m # 0 PROVE m \in S
    OBVIOUS
  <2>1. 1..(m - 1) \in SUBSET s /\ m \in s /\ m \notin 1..(m - 1) /\ m - 1 \in 0..n /\ m - 1 \in Nat
    OBVIOUS
  <2>2. 1..(m - 1) \in Good
    <3> HIDE DEF Good
    <3> QED BY <1>1, <2>1
  <2>3. m - 1 \in S
    BY <2>1, <2>2
  <2>4. (m - 1) + 1 = m
    OBVIOUS
  <2> QED BY <2>1, <2>3, <2>4
<1>2. IsFiniteSet(1..n)
  BY FS_Interval
<1>3. 1..n \in Good
  <2> HIDE DEF Good
  <2>1. \A s \in SUBSET (1..n) : (\A r \in SUBSET s : r # s => r \in Good) => s \in Good
    BY <1>1
  <2>2. SUBSET (1..n) \subseteq Good
    <3> HIDE DEF Good
    <3> DEFINE Rs == 1..n
    <3>1. IsFiniteSet(Rs) /\ \A s \in SUBSET Rs : (\A r \in SUBSET s : r # s => r \in Good) => s \in Good
      BY <1>2, <2>1
    <3> HIDE DEF Rs
    <3>2. SUBSET Rs \subseteq Good
      BY <3>1, SubsetInduction
    <3> QED BY <3>2 DEF Rs
  <2> QED BY <2>2
<1> QED BY <1>3

(******************************* sums *******************************)
Sum(f, S) == SumFunctionOnSet(f, S)
First(s) == CHOOSE x \in s : TRUE
Iter(f, S) == CHOOSE g : g = [s \in SUBSET S |-> IF s = {} THEN 0 ELSE f[First(s)] + g[s \ {First(s)}]]

LEMMA SumIs == ASSUME NEW f, NEW S PROVE Sum(f, S) = Iter(f, S)[S]
  BY Zenon DEF Sum, First, SumFunctionOnSet, FoldFunctionOnSet, MapThenFoldSet, Iter

LEMMA FirstIn == ASSUME NEW s, s # {} PROVE First(s) \in s
  BY DEF First

LEMMA SumUnfolds ==
  ASSUME NEW f, NEW S, IsFiniteSet(S)
  PROVE  \A s \in SUBSET S : Sum(f, s) = IF s = {} THEN 0 ELSE f[First(s)] + Sum(f, s \ {First(s)})
<1> DEFINE Good == {s \in SUBSET S : Sum(f, s) = IF s = {} THEN 0 ELSE f[First(s)] + Sum(f, s \ {First(s)})}
<1>1. ASSUME NEW s \in SUBSET S, \A r \in SUBSET s : r # s => r \in Good PROVE s \in Good
  <2> DEFINE V == IF s = {} THEN 0 ELSE f[First(s)] + Sum(f, s \ {First(s)})
             h == [r \in SUBSET s |-> IF r = s THEN V ELSE Sum(f, r)]
             Eq(g) == [r \in SUBSET s |-> IF r = {} THEN 0 ELSE f[First(r)] + g[r \ {First(r)}]]
  <2>1. h = Eq(h)
    <3> SUFFICES ASSUME NEW r \in SUBSET s PROVE h[r] = Eq(h)[r]
      BY Zenon
    <3>1. r # {} => r \ {First(r)} \in SUBSET s /\ r \ {First(r)} # s
      BY FirstIn
    <3>2. CASE r = s
      BY <3>1, <3>2
    <3>3. CASE r # s
      BY <1>1, <3>1, <3>3
    <3> QED BY <3>2, <3>3
  <2>2. Iter(f, s) = Eq(Iter(f, s))
    <3> HIDE DEF h
    <3> QED BY <2>1, Zenon DEF Iter
  <2>3. ASSUME NEW g, g = Eq(g) PROVE \A r \in SUBSET s : g[r] = h[r]
    <3> DEFINE Q == {r \in SUBSET s : g[r] = h[r]}
    <3>1. ASSUME NEW r \in SUBSET s, \A q \in SUBSET r : q # r => q \in Q PROVE r \in Q
      <4>1. g[r] = Eq(g)[r] /\ h[r] = Eq(h)[r]
        <5> HIDE DEF h
        <5> QED BY <2>1, <2>3, Zenon
      <4>2. r # {} => r \ {First(r)} \in SUBSET r /\ r \ {First(r)} # r
        BY FirstIn
      <4> HIDE DEF h
      <4> QED BY <3>1, <4>1, <4>2
    <3>2. IsFiniteSet(s)
      BY FS_Subset
    <3> HIDE DEF Q
    <3>3. SUBSET s \subseteq Q
      BY <3>1, <3>2, SubsetInduction
    <3> QED BY <3>3 DEF Q
  <2>4. Sum(f, s) = V
    BY <2>2, <2>3, SumIs
  <2> QED BY <2>4
<1> HIDE DEF Good
<1>2. SUBSET S \subseteq Good
  BY <1>1, SubsetInduction
<1> QED BY <1>2 DEF Good

LEMMA SumTyped ==
  ASSUME NEW S, IsFiniteSet(S), NEW f, \A x \in S : f[x] \in Int
  PROVE  \A s \in SUBSET S : Sum(f, s) \in Int
<1> DEFINE Good == {s \in SUBSET S : Sum(f, s) \in Int}
<1>1. ASSUME NEW s \in SUBSET S, \A r \in SUBSET s : r # s => r \in Good PROVE s \in Good
  <2>1. Sum(f, s) = IF s = {} THEN 0 ELSE f[First(s)] + Sum(f, s \ {First(s)})
    BY SumUnfolds
  <2>2. s # {} => First(s) \in s
    BY FirstIn
  <2>3. s # {} => s \ {First(s)} \in Good
    BY <1>1, <2>2
  <2> QED BY <2>1, <2>2, <2>3
<1> HIDE DEF Good
<1>2. SUBSET S \subseteq Good
  BY <1>1, SubsetInduction
<1> QED BY <1>2 DEF Good

(* Whichever is taken out, the sum is what it was and the rest. *)
LEMMA SumTakesAny ==
  ASSUME NEW S, IsFiniteSet(S), NEW f, \A x \in S : f[x] \in Int
  PROVE  \A s \in SUBSET S : \A x \in s : Sum(f, s) = f[x] + Sum(f, s \ {x})
<1> DEFINE Good == {s \in SUBSET S : \A x \in s : Sum(f, s) = f[x] + Sum(f, s \ {x})}
<1>1. ASSUME NEW s \in SUBSET S, \A r \in SUBSET s : r # s => r \in Good PROVE s \in Good
  <2> SUFFICES ASSUME NEW x \in s PROVE Sum(f, s) = f[x] + Sum(f, s \ {x})
    OBVIOUS
  <2> DEFINE c == First(s)
  <2>0. c \in s
    BY FirstIn
  <2>1. Sum(f, s) = f[c] + Sum(f, s \ {c})
    BY SumUnfolds
  <2> HIDE DEF c
  <2>2. CASE x = c
    BY <2>1, <2>2
  <2>3. CASE x # c
    <3>1. s \ {c} \in Good /\ s \ {x} \in Good
      BY <1>1, <2>0, <2>3
    <3>2. Sum(f, s \ {c}) = f[x] + Sum(f, (s \ {c}) \ {x}) /\ Sum(f, s \ {x}) = f[c] + Sum(f, (s \ {x}) \ {c})
      BY <2>0, <2>3, <3>1
    <3>3. (s \ {c}) \ {x} = (s \ {x}) \ {c}
      OBVIOUS
    <3>4. Sum(f, (s \ {x}) \ {c}) \in Int /\ f[x] \in Int /\ f[c] \in Int
      BY <2>0, SumTyped
    <3>5. Sum(f, s \ {x}) = f[c] + Sum(f, (s \ {c}) \ {x})
      BY <3>2, <3>3, Zenon
    <3>6. Sum(f, (s \ {c}) \ {x}) \in Int
      BY <3>3, <3>4, Zenon
    <3> DEFINE y == Sum(f, (s \ {c}) \ {x})  u == f[c]  v == f[x]
    <3>7. Sum(f, s) = u + (v + y) /\ Sum(f, s \ {x}) = u + y /\ y \in Int /\ u \in Int /\ v \in Int
      BY <2>1, <3>2, <3>4, <3>5, <3>6
    <3> HIDE DEF Good, y, u
    <3> QED BY <3>7
  <2> QED BY <2>2, <2>3
<1> HIDE DEF Good
<1>2. SUBSET S \subseteq Good
  BY <1>1, SubsetInduction
<1> QED BY <1>2 DEF Good

(* Sums are in the proportion their terms are in. *)
LEMMA SumScales ==
  ASSUME NEW S, IsFiniteSet(S), NEW f, NEW g, NEW a \in Int, NEW b \in Int,
         \A x \in S : f[x] \in Int /\ g[x] \in Int /\ a * f[x] = b * g[x]
  PROVE  a * Sum(f, S) = b * Sum(g, S)
<1> DEFINE Good == {s \in SUBSET S : a * Sum(f, s) = b * Sum(g, s)}
<1>1. ASSUME NEW s \in SUBSET S, \A r \in SUBSET s : r # s => r \in Good PROVE s \in Good
  <2>1. CASE s = {}
    <3>1. Sum(f, {}) = 0 /\ Sum(g, {}) = 0
      BY SumUnfolds
    <3> QED BY <2>1, <3>1
  <2>2. CASE s # {}
    <3> DEFINE c == First(s)  r == s \ {c}
    <3>0. c \in s /\ r \in Good
      BY <1>1, <2>2, FirstIn
    <3>1. Sum(f, s) = f[c] + Sum(f, r) /\ Sum(g, s) = g[c] + Sum(g, r)
      BY <2>2, SumUnfolds
    <3>2. /\ f[c] \in Int /\ g[c] \in Int /\ a * f[c] = b * g[c]
          /\ Sum(f, r) \in Int /\ Sum(g, r) \in Int /\ a * Sum(f, r) = b * Sum(g, r)
      <4>1. r \in SUBSET S
        BY <3>0
      <4> QED BY <3>0, <4>1, SumTyped
    <3> DEFINE u == f[c]  v == g[c]  y == Sum(f, r)  z == Sum(g, r)
    <3>3. /\ u \in Int /\ v \in Int /\ y \in Int /\ z \in Int /\ a * u = b * v /\ a * y = b * z
      BY <3>2
    <3>4. Sum(f, s) = u + y /\ Sum(g, s) = v + z
      BY <3>1
    <3> HIDE DEF u, v, y, z
    <3>5. a * (u + y) = a * u + a * y /\ b * (v + z) = b * v + b * z
      BY <3>3
    <3> QED BY <3>3, <3>4, <3>5
  <2> QED BY <2>1, <2>2
<1> HIDE DEF Good
<1>2. SUBSET S \subseteq Good
  BY <1>1, SubsetInduction
<1> QED BY <1>2 DEF Good

LEMMA SumCongruent ==
  ASSUME NEW S, IsFiniteSet(S), NEW f, NEW g, \A x \in S : f[x] \in Int /\ g[x] = f[x]
  PROVE  Sum(f, S) = Sum(g, S) /\ Sum(f, S) \in Int
<1>1. 1 * Sum(f, S) = 1 * Sum(g, S)
  BY SumScales
<1>2. Sum(f, S) \in Int /\ Sum(g, S) \in Int
  BY SumTyped
<1> QED BY <1>1, <1>2

(****************************** the history ******************************)
(* What a power of two is, by what Power is defined to be: there is such a   *)
(* function, and whatever is one of it is typed and turns sums to products.  *)
LEMMA PowerUnfolds ==
  /\ H!Power[0] = 1
  /\ \A n \in 1..MaxTime : H!Power[n] = 2 * H!Power[n - 1]
<1> DEFINE Doubles(g, k) == g[0] = 1 /\ \A n \in 1..k : g[n] = 2 * g[n - 1]
           S == {k \in Nat : \E g \in [0..k -> Int] : Doubles(g, k)}
<1>1. 0 \in S
  <2>1. [n \in 0..0 |-> 1] \in [0..0 -> Int] /\ Doubles([n \in 0..0 |-> 1], 0)
    OBVIOUS
  <2> QED BY <2>1
<1>2. ASSUME NEW k \in Nat, k \in S PROVE k + 1 \in S
  <2>1. PICK g \in [0..k -> Int] : Doubles(g, k)
    BY <1>2
  <2> DEFINE h == [n \in 0..(k + 1) |-> IF n = k + 1 THEN 2 * g[k] ELSE g[n]]
  <2>2. h \in [0..(k + 1) -> Int] /\ Doubles(h, k + 1)
    BY <2>1
  <2> HIDE DEF h, Doubles
  <2>3. \E f \in [0..(k + 1) -> Int] : Doubles(f, k + 1)
    BY <2>2
  <2> QED BY <2>3
<1>3. MaxTime \in S
  <2> HIDE DEF S
  <2> QED BY <1>1, <1>2, Induction, HistoryAssumption
<1>4. PICK g \in [0..MaxTime -> Int] : Doubles(g, MaxTime)
  BY <1>3
<1> DEFINE Eq(f) == [n \in 0..MaxTime |-> IF n = 0 THEN 1 ELSE 2 * f[n - 1]]
<1>5. g = Eq(g)
  <2> SUFFICES ASSUME NEW n \in 0..MaxTime PROVE g[n] = Eq(g)[n]
    BY Zenon
  <2> QED BY <1>4, HistoryAssumption
<1>6. H!Power = Eq(H!Power)
  BY <1>5, Zenon DEF H!Power
<1> QED BY <1>6, HistoryAssumption

LEMMA PowerTyped == \A n \in 0..MaxTime : H!Power[n] \in Nat \ {0}
<1> DEFINE S == {k \in Nat : k <= MaxTime => H!Power[k] \in Nat \ {0}}
<1>1. 0 \in S
  BY PowerUnfolds
<1>2. ASSUME NEW k \in Nat, k \in S PROVE k + 1 \in S
  BY <1>2, PowerUnfolds, HistoryAssumption
<1>3. Nat \subseteq S
  <2> HIDE DEF S
  <2> QED BY <1>1, <1>2, Induction
<1> QED BY <1>3, HistoryAssumption

LEMMA PowerAdds ==
  ASSUME NEW m \in Nat, NEW n \in Nat, m + n <= MaxTime
  PROVE  H!Power[m + n] = H!Power[m] * H!Power[n]
<1> DEFINE S == {k \in Nat : m + k <= MaxTime => H!Power[m + k] = H!Power[m] * H!Power[k]}
<1>0. MaxTime \in Nat
  BY HistoryAssumption
<1>1. 0 \in S
  BY <1>0, PowerUnfolds, PowerTyped
<1>2. ASSUME NEW k \in Nat, k \in S PROVE k + 1 \in S
  <2> SUFFICES ASSUME m + (k + 1) <= MaxTime PROVE H!Power[m + (k + 1)] = H!Power[m] * H!Power[k + 1]
    OBVIOUS
  <2>1. H!Power[m + k] = H!Power[m] * H!Power[k]
    BY <1>0, <1>2
  <2>2. H!Power[m + (k + 1)] = 2 * H!Power[m + k] /\ H!Power[k + 1] = 2 * H!Power[k]
    <3>1. m + (k + 1) \in 1..MaxTime /\ (m + (k + 1)) - 1 = m + k /\ k + 1 \in 1..MaxTime /\ (k + 1) - 1 = k
      BY <1>0
    <3> QED BY <3>1, PowerUnfolds
  <2>3. H!Power[m] \in Int /\ H!Power[k] \in Int
    BY <1>0, PowerTyped
  <2>4. 2 * (H!Power[m] * H!Power[k]) = H!Power[m] * (2 * H!Power[k])
    BY <2>3
  <2> QED BY <2>1, <2>2, <2>4
<1>3. Nat \subseteq S
  <2> HIDE DEF S
  <2> QED BY <1>1, <1>2, Induction
<1> QED BY <1>3


Halves == 0..MaxTime
Tally == [Halves -> Nat]

LEMMA HalvesFinite == IsFiniteSet(Halves) /\ \A t \in Halves : t \in Nat
  BY FS_Interval, HistoryAssumption DEF Halves

(* What a row's launches are worth as seen from time 0, in weights.         *)
Weights(h) == [t \in Halves |-> h[t] * H!Power[t]]
Weighed(h) == Sum(Weights(h), Halves)
Valued(h, at) == [t \in Halves |-> IF t > at THEN 0 ELSE h[t] * H!Power[MaxTime - at + t]]
Idle(h, at) == \A t \in Halves : t > at => h[t] = 0

LEMMA WeightsTyped == ASSUME NEW h \in Tally PROVE \A t \in Halves : Weights(h)[t] = h[t] * H!Power[t] /\ Weights(h)[t] \in Int
<1> SUFFICES ASSUME NEW t \in Halves PROVE h[t] * H!Power[t] \in Int
  BY DEF Weights
<1> QED BY PowerTyped, HistoryAssumption DEF Halves, Tally

LEMMA WorthIs == ASSUME NEW i PROVE H!Worth(i) = Sum(Valued(history[i], now), Halves)
<1> DEFINE f == Valued(history[i], now)
<1>1. H!Worth(i) = H!SumFunction(f)
  BY DEF H!Worth, Valued, Halves
<1>2. DOMAIN f = Halves
  BY DEF Valued
<1> HIDE DEF f
<1>3. H!SumFunction(f) = Sum(f, DOMAIN f)
  BY Zenon DEF H!SumFunction, H!SumFunctionOnSet, H!FoldFunctionOnSet, H!MapThenFoldSet,
               Sum, SumFunctionOnSet, FoldFunctionOnSet, MapThenFoldSet
<1>4. H!Worth(i) = Sum(f, Halves)
  BY <1>1, <1>2, <1>3, Zenon
<1> QED BY <1>4 DEF f

(* A launch now weighs what a launch now weighs; none weighs nothing.       *)
LEMMA WeighsMore ==
  ASSUME NEW h \in Tally, NEW at \in Halves
  PROVE  Weighed([h EXCEPT ![at] = @ + 1]) = Weighed(h) + H!Power[at] /\ Weighed(h) \in Int
<1> DEFINE k == [h EXCEPT ![at] = @ + 1]  rest == Halves \ {at}
<1>0. k \in Tally /\ k[at] = h[at] + 1 /\ (\A t \in rest : k[t] = h[t]) /\ h[at] \in Nat
  BY DEF Tally
<1> HIDE DEF k
<1>1. /\ Weighed(h) = Weights(h)[at] + Sum(Weights(h), rest)
      /\ Weighed(k) = Weights(k)[at] + Sum(Weights(k), rest)
  BY <1>0, HalvesFinite, WeightsTyped, SumTakesAny DEF Weighed
<1>2. Sum(Weights(h), rest) = Sum(Weights(k), rest) /\ Sum(Weights(h), rest) \in Int
  <2>1. IsFiniteSet(rest)
    BY HalvesFinite, FS_RemoveElement
  <2>2. \A t \in rest : Weights(h)[t] \in Int /\ Weights(k)[t] = Weights(h)[t]
    BY <1>0, WeightsTyped
  <2> DEFINE f == Weights(h)  g == Weights(k)
  <2>3. \A t \in rest : f[t] \in Int /\ g[t] = f[t]
    BY <2>2
  <2> HIDE DEF f, g, rest
  <2>4. Sum(f, rest) = Sum(g, rest) /\ Sum(f, rest) \in Int
    BY <2>1, <2>3, SumCongruent
  <2> QED BY <2>4 DEF f, g
<1>3. /\ Weights(h)[at] = h[at] * H!Power[at] /\ Weights(k)[at] = (h[at] + 1) * H!Power[at]
      /\ H!Power[at] \in Int
  BY <1>0, WeightsTyped, PowerTyped DEF Halves
<1>4. (h[at] + 1) * H!Power[at] = h[at] * H!Power[at] + H!Power[at] /\ h[at] * H!Power[at] \in Int
  BY <1>0, <1>3
<1>5. Weighed(k) = Weighed(h) + H!Power[at] /\ Weighed(h) \in Int
  BY <1>1, <1>2, <1>3, <1>4
<1> QED BY <1>5 DEF k

LEMMA NothingWeighs == Weighed([t \in Halves |-> 0]) = 0
<1> DEFINE f == Weights([t \in Halves |-> 0])
<1>1. \A t \in Halves : f[t] \in Int /\ 1 * f[t] = 0 * f[t]
  BY PowerTyped, HistoryAssumption DEF Weights, Halves
<1> HIDE DEF f
<1>2. 1 * Sum(f, Halves) = 0 * Sum(f, Halves)
  BY <1>1, HalvesFinite, SumScales
<1>3. Sum(f, Halves) \in Int
  BY <1>1, HalvesFinite, SumTyped
<1>4. Sum(f, Halves) = 0
  BY <1>2, <1>3
<1> QED BY <1>4 DEF f, Weighed

(* What it is worth now and what it weighs are in one proportion for all.   *)
LEMMA WorthInProportion ==
  ASSUME NEW h \in Tally, NEW at \in Halves, Idle(h, at)
  PROVE  /\ H!Power[at] * Sum(Valued(h, at), Halves) = H!Power[MaxTime] * Weighed(h)
         /\ Sum(Valued(h, at), Halves) \in Int
<1> DEFINE f == Valued(h, at)  g == Weights(h)
<1>1. ASSUME NEW t \in Halves
      PROVE  f[t] \in Int /\ g[t] \in Int /\ H!Power[at] * f[t] = H!Power[MaxTime] * g[t]
  <2>0. t \in Nat /\ at \in Nat /\ MaxTime \in Nat /\ t <= MaxTime /\ at <= MaxTime /\ h[t] \in Nat
    BY HistoryAssumption DEF Halves, Tally
  <2>1. g[t] = h[t] * H!Power[t] /\ g[t] \in Int
    BY WeightsTyped
  <2>2. CASE t > at
    <3>1. f[t] = 0 /\ h[t] = 0
      BY <2>2 DEF Valued, Idle
    <3>2. H!Power[at] \in Int /\ H!Power[MaxTime] \in Int /\ H!Power[t] \in Int
      BY <2>0, PowerTyped
    <3> QED BY <2>1, <3>1, <3>2
  <2>3. CASE ~(t > at)
    <3>1. f[t] = h[t] * H!Power[MaxTime - at + t]
      BY <2>3 DEF Valued
    <3>2. MaxTime - at \in Nat /\ (MaxTime - at) + t <= MaxTime /\ at + (MaxTime - at) = MaxTime
      BY <2>0, <2>3
    <3> DEFINE d == MaxTime - at
    <3>3. H!Power[d + t] = H!Power[d] * H!Power[t] /\ H!Power[at + d] = H!Power[at] * H!Power[d]
      <4>1. d \in Nat /\ d + t <= MaxTime /\ at + d <= MaxTime
        BY <2>0, <3>2
      <4> HIDE DEF d
      <4> QED BY <2>0, <4>1, PowerAdds
    <3>4. H!Power[at] \in Int /\ H!Power[d] \in Int /\ H!Power[t] \in Int
      BY <2>0, <3>2, PowerTyped
    <3> DEFINE a == H!Power[at]  b == H!Power[d]  c == H!Power[t]  n == h[t]
    <3>5. f[t] = n * (b * c) /\ g[t] = n * c /\ H!Power[MaxTime] = a * b
      BY <2>1, <3>1, <3>2, <3>3
    <3>6. a \in Int /\ b \in Int /\ c \in Int /\ n \in Int
      BY <2>0, <3>4
    <3> HIDE DEF f, g, a, b, c, n
    <3>7. a * (n * (b * c)) = (a * b) * (n * c) /\ n * (b * c) \in Int /\ n * c \in Int
      BY <3>6
    <3>8. H!Power[at] * f[t] = H!Power[MaxTime] * g[t]
      BY <3>5, <3>7 DEF a
    <3> QED BY <3>5, <3>7, <3>8
  <2> QED BY <2>2, <2>3
<1>2. H!Power[at] \in Int /\ H!Power[MaxTime] \in Int
  BY PowerTyped, HistoryAssumption DEF Halves
<1> HIDE DEF f, g
<1>3. H!Power[at] * Sum(f, Halves) = H!Power[MaxTime] * Sum(g, Halves)
  BY <1>1, <1>2, HalvesFinite, SumScales
<1>4. Sum(f, Halves) \in Int
  BY <1>1, HalvesFinite, SumTyped
<1> QED BY <1>3, <1>4 DEF f, g, Weighed

(* The scores are what the launches weigh, as seen from the epoch; the store *)
(* and the file agree on that; and the snapshot is the table.                *)
Scored == [score : Nat, lastUsed : Halves, there : BOOLEAN]
HistoryTypeOK ==
  /\ now \in Halves /\ epoch \in Halves /\ epoch <= now /\ stored = epoch
  /\ table \in [Items -> Scored] /\ \A i \in Items : table[i].lastUsed <= now
  /\ history \in [Items -> Tally] /\ \A i \in Items : Idle(history[i], now)
  /\ rebasing \in BOOLEAN /\ torn \in BOOLEAN
IsRead == snapshot # H!Stale => snapshot.rows = table
FromEpoch == ~torn => \A i \in Items : H!Power[epoch] * table[i].score = H!Power[MaxTime] * Weighed(history[i])
HistoryInv == HistoryTypeOK /\ IsRead /\ FromEpoch

LEMMA InOrder ==
  ASSUME NEW c \in Nat \ {0}, NEW x \in Int, NEW y \in Int
  PROVE  /\ c * x > c * y <=> x > y
         /\ c * x = c * y => x = y
<1>1. x > y => c * x > c * y
  <2> SUFFICES ASSUME x > y PROVE c * (x - y) > 0
    <3>1. c * (x - y) = c * x - c * y /\ c * x \in Int /\ c * y \in Int
      OBVIOUS
    <3> QED BY <3>1
  <2> QED OBVIOUS
<1>2. y > x => c * y > c * x
  <2> SUFFICES ASSUME y > x PROVE c * (y - x) > 0
    <3>1. c * (y - x) = c * y - c * x /\ c * x \in Int /\ c * y \in Int
      OBVIOUS
    <3> QED BY <3>1
  <2> QED OBVIOUS
<1>3. c * x \in Int /\ c * y \in Int
  OBVIOUS
<1> DEFINE cx == c * x  cy == c * y
<1>4. (x > y => cx > cy) /\ (y > x => cy > cx) /\ cx \in Int /\ cy \in Int /\ (x = y => cx = cy)
  BY <1>1, <1>2, <1>3
<1> HIDE DEF cx, cy
<1>5. (cx > cy <=> x > y) /\ (cx = cy => x = y)
  BY <1>4
<1> QED BY <1>5 DEF cx, cy

LEMMA Divides == ASSUME NEW c \in Nat \ {0}, NEW x \in Int PROVE (c * x) \div c = x
  OBVIOUS

LEMMA DividesInOrder == ASSUME NEW c \in Nat \ {0}, NEW x \in Int, NEW y \in Int, x >= y PROVE x \div c >= y \div c
<1> DEFINE p == x \div c  q == y \div c
<1>1. p \in Int /\ q \in Int /\ c * p <= x /\ x < c * p + c /\ c * q <= y /\ y < c * q + c
  OBVIOUS
<1> HIDE DEF p, q
<1>2. c * q < c * (p + 1)
  BY <1>1
<1>3. q < p + 1
  BY <1>1, <1>2, InOrder
<1> QED BY <1>1, <1>3 DEF p, q

(* Seen from now, every score is what the row is worth now.                 *)
LEMMA DecaysToWorth ==
  ASSUME HistoryInv, ~torn, NEW i \in Items
  PROVE  /\ table[i].score = H!Power[now - epoch] * Sum(Valued(history[i], now), Halves)
         /\ H!Power[now] * Sum(Valued(history[i], now), Halves) = H!Power[MaxTime] * Weighed(history[i])
         /\ Sum(Valued(history[i], now), Halves) \in Int
<1> DEFINE w == Sum(Valued(history[i], now), Halves)  d == now - epoch
<1>1. H!Power[now] * w = H!Power[MaxTime] * Weighed(history[i]) /\ w \in Int
  BY WorthInProportion DEF HistoryInv, HistoryTypeOK
<1>2. H!Power[epoch] * table[i].score = H!Power[MaxTime] * Weighed(history[i])
  BY DEF HistoryInv, FromEpoch
<1>3. d \in Nat /\ epoch \in Nat /\ epoch + d = now /\ now <= MaxTime /\ d <= MaxTime /\ epoch <= MaxTime /\ MaxTime \in Nat
  BY HistoryAssumption DEF HistoryInv, HistoryTypeOK, Halves
<1>4. H!Power[now] = H!Power[epoch] * H!Power[d]
  <2> HIDE DEF d
  <2> QED BY <1>3, PowerAdds
<1>5. H!Power[epoch] \in Nat \ {0} /\ H!Power[d] \in Nat \ {0}
  BY <1>3, PowerTyped
<1>6. table[i].score \in Int
  BY DEF HistoryInv, HistoryTypeOK, Scored
<1> DEFINE a == H!Power[epoch]  b == H!Power[d]  x == table[i].score
<1>7. a * x = (a * b) * w /\ a \in Nat \ {0} /\ b \in Int /\ w \in Int /\ x \in Int
  BY <1>1, <1>2, <1>4, <1>5, <1>6
<1> HIDE DEF a, b, x, w, d
<1>8. a * x = a * (b * w) /\ b * w \in Int
  BY <1>7
<1>9. x = b * w
  BY <1>7, <1>8, InOrder
<1> QED BY <1>1, <1>9 DEF a, b, x, w, d

(* Every score seen from now is what the row is worth now, to the last bit.  *)
LEMMA RebaseKeeps ==
  ASSUME HistoryInv, UNCHANGED <<now, history>>, epoch' = now, stored' = now, snapshot' = H!Stale,
         table' = [i \in Items |-> [table[i] EXCEPT !.score = H!Decay(@, epoch, now)]],
         rebasing' \in BOOLEAN, torn' \in BOOLEAN, torn => torn'
  PROVE  HistoryInv'
<1>0. HistoryTypeOK /\ now \in Nat /\ epoch \in Nat /\ epoch <= now
  BY HistoryAssumption DEF HistoryInv, HistoryTypeOK, Halves
<1>1. ASSUME NEW i \in Items
      PROVE  /\ H!Decay(table[i].score, epoch, now) \in Nat
             /\ ~torn => H!Decay(table[i].score, epoch, now) = Sum(Valued(history[i], now), Halves)
  <2>1. table[i].score \in Nat /\ now - epoch \in 0..MaxTime
    BY <1>0, HistoryAssumption DEF HistoryTypeOK, Scored, Halves
  <2>2. H!Power[now - epoch] \in Nat \ {0}
    BY <2>1, PowerTyped
  <2> DEFINE c == H!Power[now - epoch]  x == table[i].score  w == Sum(Valued(history[i], now), Halves)
  <2>3. H!Decay(x, epoch, now) = IF now <= epoch THEN x ELSE x \div c
    BY DEF H!Decay
  <2>4. x \div c \in Nat
    <3> HIDE DEF c, x
    <3>1. x \in Nat /\ c \in Nat \ {0}
      BY <2>1, <2>2 DEF c, x
    <3> QED BY ONLY <3>1
  <2>5. ~torn => x = c * w /\ w \in Int
    BY DecaysToWorth
  <2>6. now <= epoch => c = 1
    <3>1. now <= epoch => now - epoch = 0
      BY <1>0
    <3> QED BY <3>1, PowerUnfolds
  <2> HIDE DEF c, x, w
  <2>7. ~torn => x \div c = w
    BY <2>2, <2>5, Divides DEF c
  <2>8. ~torn /\ now <= epoch => x = w
    BY <2>5, <2>6
  <2>9. x \in Nat
    BY <2>1 DEF x
  <2> QED BY <2>3, <2>4, <2>7, <2>8, <2>9 DEF x, w
<1>2. /\ table' \in [Items -> Scored] /\ \A i \in Items : table'[i].lastUsed = table[i].lastUsed
      /\ \A i \in Items : table'[i].score = H!Decay(table[i].score, epoch, now)
  BY <1>0, <1>1 DEF HistoryTypeOK, Scored
<1>3. HistoryTypeOK' /\ IsRead'
  BY <1>0, <1>2 DEF HistoryTypeOK, IsRead, Idle, H!Stale
<1>4. FromEpoch'
  <2> SUFFICES ASSUME ~torn', NEW i \in Items
               PROVE  H!Power[now] * table'[i].score = H!Power[MaxTime] * Weighed(history[i])
    BY DEF FromEpoch, Weighed, Weights
  <2>1. ~torn
    OBVIOUS
  <2>2. table'[i].score = Sum(Valued(history[i], now), Halves)
    BY <1>1, <1>2, <2>1
  <2> QED BY <2>1, <2>2, DecaysToWorth
<1> QED BY <1>3, <1>4 DEF HistoryInv

LEMMA HistoryInductive == HistoryInv /\ [H!NextStore]_(H!storeVars) => HistoryInv'
<1> SUFFICES ASSUME HistoryInv, [H!NextStore]_(H!storeVars) PROVE HistoryInv'
  OBVIOUS
<1>0. HistoryTypeOK /\ IsRead /\ FromEpoch /\ MaxTime \in Nat
  BY HistoryAssumption DEF HistoryInv
<1>1. CASE H!Rebase
  <2>1. /\ UNCHANGED <<now, history>> /\ epoch' = now /\ stored' = now /\ snapshot' = H!Stale /\ rebasing' = FALSE
        /\ table' = [i \in Items |-> [table[i] EXCEPT !.score = H!Decay(@, epoch, now)]] /\ torn' = torn
    BY <1>1 DEF H!Rebase
  <2>2. rebasing' \in BOOLEAN /\ torn' \in BOOLEAN /\ (torn => torn')
    BY <1>0, <2>1 DEF HistoryTypeOK
  <2> QED BY <2>1, <2>2, RebaseKeeps
<1>2. CASE H!Restart
  <2>1. CASE ~rebasing
    BY <1>0, <1>2, <2>1 DEF H!Restart, HistoryInv, HistoryTypeOK, IsRead, FromEpoch, Weighed, Weights, Idle, H!Stale
  <2>2. CASE rebasing
    <3>1. /\ UNCHANGED <<now, history, epoch, stored>> /\ rebasing' = FALSE /\ snapshot' = H!Stale
          /\ table' = [i \in Items |-> [table[i] EXCEPT !.score = H!Decay(@, epoch, now)]]
          /\ torn' = (torn \/ epoch # now)
      BY <1>0, <1>2, <2>2 DEF H!Restart, HistoryTypeOK
    <3>2. CASE epoch = now
      BY <1>0, <3>1, <3>2, RebaseKeeps DEF HistoryTypeOK
    <3>3. CASE epoch # now
      <4>1. table' \in [Items -> Scored] /\ \A i \in Items : table'[i].lastUsed = table[i].lastUsed
        <5> SUFFICES ASSUME NEW i \in Items PROVE H!Decay(table[i].score, epoch, now) \in Nat
          BY <1>0, <3>1 DEF HistoryTypeOK, Scored
        <5>1. table[i].score \in Nat /\ now - epoch \in 0..MaxTime
          BY <1>0 DEF HistoryTypeOK, Scored, Halves
        <5>2. H!Power[now - epoch] \in Nat \ {0}
          BY <5>1, PowerTyped
        <5> QED BY <5>1, <5>2 DEF H!Decay
      <4> QED BY <1>0, <3>1, <3>3, <4>1 DEF HistoryInv, HistoryTypeOK, IsRead, FromEpoch, Idle, H!Stale
    <3> QED BY <3>2, <3>3
  <2> QED BY <2>1, <2>2
<1>3. CASE H!All
  BY <1>0, <1>3 DEF H!All, HistoryInv, HistoryTypeOK, IsRead, FromEpoch, Weighed, Weights, Idle
<1>4. CASE H!Pass
  <2>1. now' = now + 1 /\ now' \in Halves /\ UNCHANGED <<table, epoch, stored, snapshot, rebasing, history, torn>>
    BY <1>0, <1>4 DEF H!Pass, HistoryTypeOK, Halves
  <2>2. HistoryTypeOK'
    <3>1. /\ now \in Nat /\ epoch \in Nat /\ epoch <= now
          /\ \A i \in Items : table[i].lastUsed \in Nat /\ table[i].lastUsed <= now
      BY <1>0, HalvesFinite DEF HistoryTypeOK, Scored
    <3>2. \A i \in Items : Idle(history[i], now')
      BY <1>0, <2>1, <3>1, HalvesFinite DEF HistoryTypeOK, Idle
    <3> QED BY <1>0, <2>1, <3>1, <3>2 DEF HistoryTypeOK, Idle
  <2>3. IsRead' /\ FromEpoch'
    BY <1>0, <2>1 DEF IsRead, FromEpoch, Weighed, Weights, H!Stale
  <2> QED BY <2>2, <2>3 DEF HistoryInv
<1>5. ASSUME NEW i \in Items, H!Record(i) PROVE HistoryInv'
  <2>1. /\ history' = [history EXCEPT ![i][now] = @ + 1] /\ snapshot' = H!Stale /\ rebasing' \in BOOLEAN
        /\ table' = [table EXCEPT ![i] = [score |-> @.score + H!LaunchWeight(now), lastUsed |-> now, there |-> TRUE]]
        /\ UNCHANGED <<now, epoch, stored, torn>>
    BY <1>5 DEF H!Record, H!Upsert
  <2>2. /\ now \in Halves /\ epoch \in Nat /\ now - epoch \in Nat /\ epoch + (now - epoch) = now /\ now <= MaxTime
        /\ now - epoch \in 0..MaxTime /\ epoch \in 0..MaxTime
    BY <1>0 DEF HistoryTypeOK, Halves
  <2>3. H!LaunchWeight(now) = H!Power[MaxTime] * H!Power[now - epoch] /\ H!LaunchWeight(now) \in Nat
    <3>1. H!Power[MaxTime] \in Nat /\ H!Power[now - epoch] \in Nat
      BY <1>0, <2>2, PowerTyped
    <3> QED BY <3>1 DEF H!LaunchWeight, H!Unit
  <2>4. /\ history[i] \in Tally /\ history'[i] = [history[i] EXCEPT ![now] = @ + 1] /\ \A j \in Items \ {i} : history'[j] = history[j]
        /\ table[i].score \in Nat /\ table'[i].score = table[i].score + H!LaunchWeight(now) /\ table'[i].lastUsed = now
        /\ \A j \in Items \ {i} : table'[j] = table[j]
    BY <1>0, <2>1 DEF HistoryTypeOK, Scored
  <2>5. HistoryTypeOK'
    <3>1. table' \in [Items -> Scored] /\ \A j \in Items : table'[j].lastUsed <= now
      BY <1>0, <2>1, <2>2, <2>3, <2>4 DEF HistoryTypeOK, Scored, Halves
    <3>2. history'[i] \in Tally /\ Idle(history'[i], now)
      BY <1>0, <2>2, <2>4 DEF HistoryTypeOK, Tally, Idle, Halves
    <3>3. history' \in [Items -> Tally] /\ \A j \in Items : Idle(history'[j], now)
      BY <1>0, <2>1, <2>4, <3>2 DEF HistoryTypeOK
    <3> QED BY <1>0, <2>1, <3>1, <3>3 DEF HistoryTypeOK, Idle
  <2>6. FromEpoch'
    <3> SUFFICES ASSUME ~torn, NEW j \in Items
                 PROVE  H!Power[epoch] * table'[j].score = H!Power[MaxTime] * Weighed(history'[j])
      BY <2>1 DEF FromEpoch, Weighed, Weights
    <3>1. H!Power[epoch] * table[j].score = H!Power[MaxTime] * Weighed(history[j])
      BY <1>0 DEF FromEpoch
    <3>2. CASE j # i
      BY <2>4, <3>1, <3>2
    <3>3. CASE j = i
      <4>1. Weighed(history'[i]) = Weighed(history[i]) + H!Power[now] /\ Weighed(history[i]) \in Int
        <5> DEFINE h == history[i]  k == [h EXCEPT ![now] = @ + 1]
        <5>1. h \in Tally /\ now \in Halves /\ history'[i] = k
          BY <2>2, <2>4 DEF Halves
        <5> HIDE DEF h
        <5>2. Weighed(k) = Weighed(h) + H!Power[now] /\ Weighed(h) \in Int
          BY <5>1, WeighsMore, Zenon
        <5> HIDE DEF k
        <5> QED BY <5>1, <5>2 DEF h
      <4>2. H!Power[now] = H!Power[epoch] * H!Power[now - epoch]
        <5> DEFINE d == now - epoch
        <5>1. d \in Nat /\ epoch \in Nat /\ epoch + d = now /\ now <= MaxTime
          BY <2>2
        <5> HIDE DEF d
        <5> QED BY <5>1, PowerAdds DEF d
      <4>3. H!Power[epoch] \in Int /\ H!Power[MaxTime] \in Int /\ H!Power[now - epoch] \in Int
        BY <1>0, <2>2, PowerTyped
      <4> DEFINE a == H!Power[epoch]  u == H!Power[MaxTime]  b == H!Power[now - epoch]  x == table[i].score
                 w == Weighed(history[i])
      <4>4. /\ a * x = u * w /\ table'[i].score = x + u * b /\ Weighed(history'[i]) = w + a * b
            /\ a \in Int /\ u \in Int /\ b \in Int /\ x \in Int /\ w \in Int
        BY <2>3, <2>4, <3>1, <3>3, <4>1, <4>2, <4>3
      <4> HIDE DEF a, u, b, x, w
      <4>5. a * (x + u * b) = a * x + u * (a * b) /\ u * (w + a * b) = u * w + u * (a * b)
        BY <4>4
      <4>6. a * table'[i].score = u * Weighed(history'[i])
        BY <4>4, <4>5
      <4> QED BY <3>3, <4>6 DEF a, u
    <3> QED BY <3>2, <3>3
  <2> QED BY <2>1, <2>5, <2>6 DEF HistoryInv, IsRead, H!Stale
<1>6. ASSUME NEW i \in Items, H!Forget(i) PROVE HistoryInv'
  <2>1. /\ table' = [table EXCEPT ![i] = H!NoRow] /\ snapshot' = H!Stale
        /\ history' = [history EXCEPT ![i] = [t \in Halves |-> 0]]
        /\ UNCHANGED <<now, epoch, stored, rebasing, torn>>
    BY <1>6 DEF H!Forget, Halves
  <2>2. /\ history'[i] = [t \in Halves |-> 0] /\ table'[i] = H!NoRow /\ H!NoRow.score = 0 /\ H!NoRow.lastUsed = 0 /\ H!NoRow \in Scored
        /\ \A j \in Items \ {i} : history'[j] = history[j] /\ table'[j] = table[j]
    BY <1>0, <2>1 DEF HistoryTypeOK, Scored, H!NoRow, Halves
  <2>3. HistoryTypeOK'
    <3>1. table' \in [Items -> Scored] /\ \A j \in Items : table'[j].lastUsed <= now
      BY <1>0, <2>1, <2>2 DEF HistoryTypeOK, Halves
    <3>2. history'[i] \in Tally /\ Idle(history'[i], now)
      BY <2>2 DEF Tally, Idle
    <3>3. history' \in [Items -> Tally] /\ \A j \in Items : Idle(history'[j], now)
      BY <1>0, <2>1, <2>2, <3>2 DEF HistoryTypeOK
    <3> QED BY <1>0, <2>1, <3>1, <3>3 DEF HistoryTypeOK, Idle
  <2>4. FromEpoch'
    <3> SUFFICES ASSUME ~torn, NEW j \in Items
                 PROVE  H!Power[epoch] * table'[j].score = H!Power[MaxTime] * Weighed(history'[j])
      BY <2>1 DEF FromEpoch, Weighed, Weights
    <3>1. CASE j # i
      BY <1>0, <2>2, <3>1 DEF FromEpoch
    <3>2. CASE j = i
      <4>1. H!Power[epoch] \in Int /\ H!Power[MaxTime] \in Int
        BY <1>0, PowerTyped DEF HistoryTypeOK, Halves
      <4>2. table'[i].score = 0 /\ Weighed(history'[i]) = 0
        BY <2>2, NothingWeighs
      <4> QED BY <3>2, <4>1, <4>2
    <3> QED BY <3>1, <3>2
  <2> QED BY <2>1, <2>3, <2>4 DEF HistoryInv, IsRead, H!Stale
<1>7. CASE UNCHANGED H!storeVars
  BY <1>0, <1>7 DEF H!storeVars, HistoryInv, HistoryTypeOK, IsRead, FromEpoch, Weighed, Weights, Idle, H!Stale
<1> QED BY <1>1, <1>2, <1>3, <1>4, <1>5, <1>6, <1>7 DEF H!NextStore

LEMMA HistoryOrders == ASSUME HistoryInv PROVE H!ScoresKeepOrder
<1>0. HistoryTypeOK /\ IsRead /\ FromEpoch /\ MaxTime \in Nat
  BY HistoryAssumption DEF HistoryInv
<1> SUFFICES ASSUME ~torn, snapshot # H!Stale, NEW i \in Items, NEW j \in Items
             PROVE  /\ snapshot.rows[i].score > snapshot.rows[j].score <=> H!Worth(i) > H!Worth(j)
                    /\ snapshot.rows[i].lastUsed = snapshot.rows[j].lastUsed /\ H!Worth(i) > H!Worth(j)
                         => H!Rank(i) >= H!Rank(j)
  BY DEF H!ScoresKeepOrder, H!ReadInOrder, H!RanksByWorth
<1>1. snapshot.rows = table
  BY <1>0 DEF IsRead
<1> DEFINE c == H!Power[now - epoch]  x == table[i].score  y == table[j].score
<1>2. now - epoch \in 0..MaxTime
  BY <1>0 DEF HistoryTypeOK, Halves
<1>3. c \in Nat \ {0}
  BY <1>2, PowerTyped
<1>4. x = c * H!Worth(i) /\ y = c * H!Worth(j) /\ H!Worth(i) \in Int /\ H!Worth(j) \in Int /\ x \in Nat /\ y \in Nat
  BY <1>0, DecaysToWorth, WorthIs DEF HistoryTypeOK, Scored
<1> HIDE DEF c
<1>5. x > y <=> H!Worth(i) > H!Worth(j)
  BY <1>3, <1>4, InOrder
<1>6. ASSUME table[i].lastUsed = table[j].lastUsed, x > y PROVE H!Rank(i) >= H!Rank(j)
  <2>1. /\ H!Rank(i) = H!Decay(x, table[i].lastUsed, now) /\ H!Rank(j) = H!Decay(y, table[i].lastUsed, now)
    BY <1>1, <1>6 DEF H!Rank
  <2>2. now - table[i].lastUsed \in 0..MaxTime
    BY <1>0 DEF HistoryTypeOK, Scored, Halves
  <2> DEFINE d == H!Power[now - table[i].lastUsed]
  <2>3. d \in Nat \ {0}
    BY <2>2, PowerTyped
  <2>4. /\ H!Decay(x, table[i].lastUsed, now) = IF now <= table[i].lastUsed THEN x ELSE x \div d
        /\ H!Decay(y, table[i].lastUsed, now) = IF now <= table[i].lastUsed THEN y ELSE y \div d
    BY DEF H!Decay
  <2> HIDE DEF d, x, y
  <2>5. x \div d >= y \div d
    BY <1>4, <1>6, <2>3, DividesInOrder
  <2> QED BY <1>4, <1>6, <2>1, <2>4, <2>5
<1> QED BY <1>1, <1>5, <1>6

(* The rows that the launcher reads from its history are in the order of     *)
(* what their launches are worth now, through rebases and restarts, unless   *)
(* the daemon was killed between the two statements of a rebase; and of two  *)
(* last used together the better one ranks no lower (node/frecency-store.ts, *)
(* shared/frecency.ts): for any rows, any number of half-lives and any       *)
(* ceiling.                                                                  *)
THEOREM HistoryKeepsOrder == Spec => []ScoresKeepOrder
<1> DEFINE Inv == part = "history" => HistoryInv
<1>1. Init => Inv
  <2> SUFFICES ASSUME H!InitStore PROVE HistoryInv
    BY DEF Init
  <2>1. /\ now = 0 /\ epoch = 0 /\ stored = 0 /\ table = [i \in Items |-> H!NoRow] /\ snapshot = H!Stale
        /\ rebasing = FALSE /\ torn = FALSE /\ history = [i \in Items |-> [t \in Halves |-> 0]]
    BY DEF H!InitStore, Halves
  <2>2. HistoryTypeOK /\ IsRead
    <3>1. 0 \in Halves /\ H!NoRow \in Scored /\ H!NoRow.lastUsed = 0
      BY HistoryAssumption DEF Scored, Halves, H!NoRow
    <3>2. [t \in Halves |-> 0] \in Tally /\ Idle([t \in Halves |-> 0], 0)
      BY DEF Tally, Idle
    <3>3. table \in [Items -> Scored] /\ \A i \in Items : table[i].lastUsed <= now
      BY <2>1, <3>1
    <3>4. history \in [Items -> Tally] /\ \A i \in Items : Idle(history[i], now)
      BY <2>1, <3>2
    <3>5. now \in Halves /\ epoch \in Halves /\ epoch <= now /\ stored = epoch
      BY <2>1, <3>1
    <3>6. rebasing \in BOOLEAN /\ torn \in BOOLEAN
      BY <2>1
    <3> QED BY <2>1, <3>3, <3>4, <3>5, <3>6 DEF HistoryTypeOK, IsRead
  <2>3. FromEpoch
    <3> SUFFICES ASSUME NEW i \in Items PROVE H!Power[epoch] * table[i].score = H!Power[MaxTime] * Weighed(history[i])
      BY DEF FromEpoch
    <3>1. table[i].score = 0 /\ Weighed(history[i]) = 0
      BY <2>1, NothingWeighs DEF H!NoRow
    <3>2. H!Power[epoch] \in Int /\ H!Power[MaxTime] \in Int
      BY <2>1, PowerTyped, HistoryAssumption
    <3> QED BY <3>1, <3>2
  <2> QED BY <2>2, <2>3 DEF HistoryInv
<1>2. Inv /\ [Next]_vars => Inv'
  <2> SUFFICES ASSUME HistoryInv, part = "history", [Next]_vars PROVE HistoryInv'
    BY DEF Next, vars
  <2>1. [H!NextStore]_(H!storeVars)
    BY DEF Next, vars, H!storeVars
  <2> QED BY <2>1, HistoryInductive
<1>3. Inv => ScoresKeepOrder
  BY HistoryOrders DEF ScoresKeepOrder
<1> QED BY <1>1, <1>2, <1>3, PTL DEF Spec
=============================================================================
