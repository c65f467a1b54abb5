-------------------------------- MODULE Menu --------------------------------
(***************************************************************************)
(* The terminal of the command line's screens (src/cli/tui.ts): one reader  *)
(* of keys for the whole session, lists drawn through a window, prompts and *)
(* the wizard, under the two kinds of screen src/cli/config-ui.ts builds    *)
(* from them: a list whose rows are switched on and moved (enginesScreen,   *)
(* orderScreen), and one whose entries are removed and added, by a wizard   *)
(* of questions (customSearchesScreen).  What they write is ConfigScreens'  *)
(* subject; here it is the rows, the highlight and the keys.                *)
(*                                                                         *)
(* Keys come in one at a time, and a burst of them before any screen reads. *)
(* A text is its length, 0 being empty, and all beyond MaxText are one.     *)
(* Keys carry numbers modulo Numbers, so that a lost one shows.  The        *)
(* terminal keeps its height.                                               *)
(***************************************************************************)
EXTENDS Naturals, Integers, Sequences, SequencesExt, FiniteSets, FiniteSetsExt

CONSTANTS
  Kinds,       \* which lists to try: "order", "entries"
  Items,       \* what the list "order" offers, in its own order
  Heights,     \* rows a terminal may have, at least 8 (Screen.rows)
  MaxRows,     \* MAX_ROWS
  MaxText,     \* bound: lengths of a text told apart
  MaxEntries,  \* bound: entries, what is being added included
  MaxAhead,    \* bound: keys typed before a screen reads
  None

VARIABLES
  kind, height,
  screen,   \* the screen shown, or next to be: "menu", "list", "site", "word", "gone"
  live,     \* Keys.handler: the screen has been drawn and reads
  pending,  \* Keys.queued: keys with their numbers
  presses,  \* number of the last key typed
  did,      \* number of the last key handled
  config,   \* what the list shows: the items switched on, or the entries
  cursor, window,   \* the highlighted row and the first one drawn
  entry,    \* where the list of entries opens again
  pick,     \* the wizard's answers so far
  draft, problem    \* the prompt's text, and whether it was refused

vars == <<kind, height, screen, live, pending, presses, did, config, cursor, window,
          entry, pick, draft, problem>>

Numbers == MaxAhead + 1
NumberAfter(n) == (n + 1) % Numbers
Questions == {"site", "word"}

(***************************** the list drawn *****************************)
Row(v) == [value |-> v, separator |-> FALSE]
Separator == [value |-> None, separator |-> TRUE]
\* spec.choices(): the items on, the items off under a rule; or the entries, by index.
RowsOf(list) ==
  LET off == SelectSeq(Items, LAMBDA v : v \notin Range(list))
  IN IF kind = "order"
       THEN [i \in DOMAIN list |-> Row(list[i])]
            \o (IF off = <<>> THEN <<>> ELSE <<Separator>>)
            \o [i \in DOMAIN off |-> Row(off[i])]
     ELSE IF list = <<>> THEN <<Separator>> ELSE [i \in DOMAIN list |-> Row(i)]
Rows == IF screen = "menu" THEN <<Row("list"), Separator, Row("quit")>> ELSE RowsOf(config)
Selectable(rows) == {i \in 0..(Len(rows) - 1) : ~rows[i + 1].separator}
ValueAt(rows, c) == IF c \in Selectable(rows) THEN rows[c + 1].value ELSE None

\* render: the optional lines go first, as the height alone says, then rows.
Chrome == 9                       \* LIST_CHROME, and the subtitle these lists have
Comfortable == Min({MaxRows, height - Chrome})
ShedLines == Cardinality({n \in {2, 3, 4} : Comfortable < n})
Capacity == Max({1, Min({MaxRows, height - 1 - (Chrome - 1 - ShedLines)})})
\* The lines pushed for `rows`: title, subtitle, a blank, the rows, how many more
\* there are, and the leading blank, the help and the blank above the hints if kept.
FrameHeight(rows) ==
  3 + Min({Len(rows), Capacity}) + (IF Len(rows) > Capacity THEN 1 ELSE 0) + (3 - ShedLines) + 1

Clamped(rows, c) ==
  IF Selectable(rows) = {} THEN 0 ELSE IF c \in Selectable(rows) THEN c ELSE Min(Selectable(rows))
Scrolled(rows, c, start) ==
  LET below == IF c < start THEN c ELSE start
      kept == IF c >= below + Capacity THEN c - Capacity + 1 ELSE below
  IN Max({0, Min({kept, Len(rows) - Capacity})})
Draw(rows, c, start) ==
  /\ cursor' = Clamped(rows, c)
  /\ window' = Scrolled(rows, Clamped(rows, c), start)

\* move: the next row that can be chosen, around the ends.
Neighbour(rows, delta) ==
  LET able == SetToSortSeq(Selectable(rows), <)
      at == IF cursor \in Range(able) THEN CHOOSE i \in DOMAIN able : able[i] = cursor ELSE 0
  IN IF able = <<>> THEN cursor
     ELSE IF at = 0 THEN able[1] ELSE able[1 + ((at - 1 + delta) % Len(able))]
Stays(rows, v) == cursor   \* mutant of Follow
\* follow: where the value is now, if it still is anywhere.
Follow(rows, v) ==
  LET at == {i \in Selectable(rows) : rows[i + 1].value = v}
  IN IF at = {} THEN cursor ELSE Min(at)

(******************************* the screens ******************************)
\* The keys a screen does something with; the others change nothing anywhere.
KeysOf ==
  {"up", "down", "return", "left", "escape"}
    \cup (IF kind = "order" THEN {"space", "ctrl-up", "ctrl-down"} ELSE {"a", "d", "backspace"})
Printable == {"space", "a", "d"}
Longer(text) == Min({text + 1, MaxText})
NoAnswers == [q \in Questions |-> 0]

\* The handler returns 'done': whoever awaits this screen goes on with the next one.
To(next) == screen' = next /\ live' = FALSE
Stay == UNCHANGED <<screen, live>>
SameList == UNCHANGED <<config, cursor, window>>
SamePrompt == UNCHANGED <<pick, draft, problem>>

MenuKey(k, value) ==
  /\ k \in {"return", "space", "left", "escape"}
  /\ IF k \in {"return", "space"}
       THEN IF value = None THEN Stay ELSE To(IF value = "list" THEN "list" ELSE "gone")
     ELSE To("gone")              \* null is 'quit'; this list's Esc only closes
  /\ SameList /\ SamePrompt /\ UNCHANGED entry

\* What a key makes of the rows, followed by the highlight (enginesScreen, orderScreen).
Edited(v, k) ==
  LET i == CHOOSE j \in DOMAIN config : config[j] = v
      to == IF k = "ctrl-up" THEN i - 1 ELSE i + 1
  IN IF k = "space"
       THEN IF v \in Range(config) THEN SelectSeq(config, LAMBDA w : w # v) ELSE Append(config, v)
     ELSE IF v \notin Range(config) \/ to \notin DOMAIN config THEN config
     ELSE [config EXCEPT ![i] = config[to], ![to] = v]
OrderKey(k, value) ==
  /\ k \in {"space", "ctrl-up", "ctrl-down"} /\ value # None
  /\ config' = Edited(value, k)
  /\ LET rows == RowsOf(Edited(value, k))
     IN Draw(rows, Follow(rows, value), window)
  /\ Stay /\ SamePrompt /\ UNCHANGED entry

EntriesKey(k, value) ==
  \/ /\ k = "a"
     /\ entry' = cursor /\ pick' = NoAnswers
     /\ To("site") /\ SameList /\ UNCHANGED <<draft, problem>>
  \/ /\ k = "d" /\ value # None
     /\ config' = RemoveAt(config, value)
     /\ Draw(RowsOf(RemoveAt(config, value)), cursor, window)
     /\ Stay /\ SamePrompt /\ UNCHANGED entry

\* The list's own switch, for a key the caller's onKey ignores.
Taken(k, value) ==
  /\ screen = "list"
  /\ \/ kind = "order" /\ k \in {"space", "ctrl-up", "ctrl-down"} /\ value # None
     \/ kind = "entries" /\ (k = "a" \/ (k = "d" /\ value # None))
ListKey(k, value) ==
  /\ ~Taken(k, value)
  /\ CASE k \in {"up", "ctrl-up"} ->
            Draw(Rows, Neighbour(Rows, -1), window) /\ Stay /\ UNCHANGED config
       [] k \in {"down", "ctrl-down"} ->
            Draw(Rows, Neighbour(Rows, 1), window) /\ Stay /\ UNCHANGED config
       [] screen = "menu" -> FALSE
       [] k \in {"left", "escape"} -> To("menu") /\ SameList
       [] k \in {"space", "return"} -> (IF value = None THEN Stay ELSE To("menu")) /\ SameList
       [] OTHER -> Stay /\ SameList
  /\ SamePrompt /\ UNCHANGED entry
NoKey(k) ==
  /\ screen = "menu" /\ k \in {"a", "d", "backspace"}
  /\ Stay /\ SameList /\ SamePrompt /\ UNCHANGED entry

\* A question is answered: the site suggests the word, and only when it is another.
Answered ==
  IF screen = "site"
    THEN IF draft = pick.site THEN pick ELSE [site |-> draft, word |-> draft]
  ELSE [pick EXCEPT !.word = draft]
PromptKey(k) ==
  /\ UNCHANGED <<cursor, window, entry>>
  /\ CASE k = "left" -> To(IF screen = "word" THEN "site" ELSE "list") /\ SamePrompt /\ UNCHANGED config
       [] k = "escape" -> To("menu") /\ SamePrompt /\ UNCHANGED config
       [] k = "return" /\ draft = 0 -> problem' = TRUE /\ Stay /\ UNCHANGED <<pick, draft, config>>
       [] k = "return" /\ draft # 0 ->
            /\ pick' = Answered
            /\ To(IF screen = "site" THEN "word" ELSE "list")
            /\ config' = IF screen = "site" THEN config ELSE Append(config, Answered)
            /\ UNCHANGED <<draft, problem>>
       [] k = "backspace" ->
            /\ draft' = Max({draft - 1, 0}) /\ problem' = FALSE
            /\ Stay /\ UNCHANGED <<pick, config>>
       [] k \in Printable ->
            /\ draft' = Longer(draft) /\ problem' = FALSE
            /\ Stay /\ UNCHANGED <<pick, config>>
       [] OTHER -> Stay /\ SamePrompt /\ UNCHANGED config

Handle(k) ==
  LET value == ValueAt(Rows, cursor)
  IN \/ screen \in {"menu", "list"} /\ ListKey(k, value)
     \/ screen = "menu" /\ MenuKey(k, value)
     \/ NoKey(k)
     \/ screen = "list" /\ kind = "order" /\ OrderKey(k, value)
     \/ screen = "list" /\ kind = "entries" /\ EntriesKey(k, value)
     \/ screen \in Questions /\ PromptKey(k)

(****************************** the one reader ****************************)
\* What is open, or about to be, may take another entry.
UnderWay == IF screen \in Questions THEN 1 ELSE 0
Adding == Len(config) + UnderWay + Len(SelectSeq(pending, LAMBDA p : p.key = "a"))

Dropped(p) == pending      \* mutant of Queued
\* Keys.queued.push
Queued(p) == Append(pending, p)
\* deliver, for a key that has just been typed or was waiting.
Reads(p) == Handle(p.key) /\ did' = p.n
\* A keypress: handled at once by the screen that reads, kept for the next one if none does.
Press(k) ==
  /\ screen # "gone" /\ (live => pending = <<>>)
  /\ k = "a" /\ kind = "entries" => Adding < MaxEntries
  /\ presses' = NumberAfter(presses)
  /\ LET p == [key |-> k, n |-> presses']
     IN IF live THEN Reads(p) /\ UNCHANGED pending
        ELSE /\ Len(pending) < MaxAhead
             /\ pending' = Queued(p)
             /\ UNCHANGED <<screen, live, did, config, cursor, window, entry, pick, draft, problem>>
  /\ UNCHANGED <<kind, height>>

\* A screen is drawn and asks for keys (Menu.list, Menu.prompt, Keys.read).
Open ==
  /\ ~live /\ screen # "gone"
  /\ live' = TRUE
  /\ IF screen \in Questions
       THEN draft' = pick[screen] /\ problem' = FALSE /\ UNCHANGED <<cursor, window>>
     ELSE /\ Draw(Rows, IF screen = "list" /\ kind = "entries" THEN entry ELSE 0, 0)
          /\ draft' = 0 /\ problem' = FALSE
  /\ UNCHANGED <<kind, height, screen, pending, presses, did, config, entry, pick>>

\* The keys typed before it follow, one after another, until it is done; none is
\* typed meanwhile, for read goes through them without waiting.
Deliver ==
  /\ live /\ pending # <<>>
  /\ pending' = Tail(pending) /\ Reads(Head(pending))
  /\ UNCHANGED <<kind, height, presses>>

\* Ctrl+C overtakes the keys that wait: the terminal is given back and the program exits.
Interrupt ==
  /\ screen # "gone" /\ (live => pending = <<>>)
  /\ To("gone") /\ pending' = <<>>
  /\ UNCHANGED <<kind, height, presses, did, config, cursor, window, entry, pick, draft, problem>>

Init ==
  /\ kind \in Kinds /\ height \in Heights
  /\ screen = "menu" /\ live = FALSE
  /\ pending = <<>> /\ presses = 0 /\ did = 0
  /\ config \in IF kind = "order" THEN {<<>>, Items} ELSE {<<>>}
  /\ cursor = 0 /\ window = 0 /\ entry = 0
  /\ pick = NoAnswers /\ draft = 0 /\ problem = FALSE

Next ==
  \/ \E k \in KeysOf : Press(k)
  \/ Open
  \/ Deliver
  \/ Interrupt

-----------------------------------------------------------------------------
(* What is typed reaches a screen once and in the order it was typed, also  *)
(* across the change from one screen to the next: the keys that wait are    *)
(* exactly the ones after the last handled (Keys.read, Keys.deliver).       *)
KeysInOrder ==
  \/ screen = "gone"
  \/ /\ \A i \in DOMAIN pending : pending[i].n = (did + i) % Numbers
     /\ presses = (did + Len(pending)) % Numbers

(* The highlight of a list being read is on a row that can be chosen, if    *)
(* there is one, and in the part drawn; and the frame leaves the terminal a *)
(* line, or it could not be drawn over (Menu.list render).                  *)
HighlightShows ==
  live /\ screen \in {"menu", "list"} =>
    /\ Selectable(Rows) # {} => cursor \in Selectable(Rows)
    /\ window \in 0..cursor /\ cursor < window + Capacity
    /\ FrameHeight(Rows) <= height - 1

(* A key changes the order only by moving the row the highlight is on, and  *)
(* the highlight moves with it: held down, a key walks one row along, and   *)
(* space twice is no change of what is on (enginesScreen, orderScreen).     *)
RowFollows ==
  kind = "order" /\ config' # config =>
    LET v == ValueAt(Rows, cursor)
        rest(s) == SelectSeq(s, LAMBDA w : w # v)
    IN /\ rest(config') = rest(config)
       /\ ValueAt(Rows', cursor') = v
       /\ window' \in 0..cursor' /\ cursor' < window' + Capacity

(* A list of entries changes by the highlighted one being removed, or by    *)
(* one being added whose questions were all answered; leaving the wizard,   *)
(* by either way back, writes nothing (wizard, AbandonedFlow).              *)
WholeEntries ==
  kind = "entries" /\ config' # config =>
    \/ screen = "list" /\ config' = RemoveAt(config, ValueAt(Rows, cursor))
    \/ /\ screen = "word" /\ Len(config') = Len(config) + 1
       /\ Front(config') = config /\ pick'.site # 0 /\ pick'.word # 0 /\ Last(config') = pick'
=============================================================================
