---------------------------- MODULE ConfigScreens ---------------------------
(***************************************************************************)
(* The screens that edit config.toml and what the launcher makes of it      *)
(* (src/cli/config-ui.ts and the settings window's screens write it through *)
(* src/main/settings-ipc.ts; src/shared/config.ts loads it).  One behaviour *)
(* is one section of the file, written by hand first and then edited from   *)
(* the menu and the window.  A document maps the keys the file has to lists *)
(* of entries; Loaded is what the launcher uses, Listed what the menu draws *)
(* its rows from.  Both, and what an edit writes, are three readings of one *)
(* text in three places of the code.                                        *)
(***************************************************************************)
EXTENDS Naturals, Sequences, SequencesExt, FiniteSets

CONSTANTS
  Screens,        \* the sections to try
  Engines,        \* ids of the built-in search engines
  DefaultEngines, \* the ones enabled when the file names none
  Keywords,       \* keywords of searches of one's own; one may be an engine's id
  Groups,         \* OFFERED_RESULT_GROUPS, in order
  Categories,     \* FILE_CATEGORIES, in order
  Plugins,        \* plugins and commands the disabled list may name
  Spellings,      \* ways to write a combination
  ChordOf,        \* parseHotkey and formatHotkey: the combination, or None
  Words,          \* aliases as spelled
  LowerOf,        \* their lower case
  Actions,        \* KEY_ACTIONS
  DefaultKeys,    \* DEFAULT_KEYS
  Numbers,        \* values of a plain setting; Bad is out of its range
  DefaultNumber, Bad,
  Ids,            \* what a row of a plugin may have for its id
  Titles,         \* what an action on it may be called
  None,
  MaxEdits        \* bound: edits in one behaviour

VARIABLES
  screen,  \* the section
  env,     \* LUMANIN_* for a plain setting, or None
  doc,     \* the keys the file has, and their entries
  pick,    \* a choice being made in the menu: the level, and what is named so far
  did,     \* history: what the last edit named, what it was to be set to, the row picked
  edits    \* edits so far

vars == <<screen, env, doc, pick, did, edits>>

(***************************** the file's text ****************************)
At(d, k) == IF k \in DOMAIN d THEN d[k] ELSE <<>>
Put(d, k, v) == [x \in DOMAIN d \cup {k} |-> IF x = k THEN v ELSE d[x]]
Without(d, k) == [x \in DOMAIN d \ {k} |-> d[x]]
\* dedupeById, and every `new Set` over a list: the first of equal entries stays.
Once(s) == FoldLeft(LAMBDA seen, x : IF Contains(seen, x) THEN seen ELSE Append(seen, x), <<>>, s)
Only(s, S) == SelectSeq(s, LAMBDA x : x \in S)
Less(s, x) == SelectSeq(s, LAMBDA y : y # x)
\* reorder, and move of the window: the entry and its neighbour change places.
Moved(s, x, up) ==
  LET i == CHOOSE j \in DOMAIN s : s[j] = x /\ \A k \in 1..(j - 1) : s[k] # x
      j == IF up THEN i - 1 ELSE i + 1
  IN IF x \notin Range(s) \/ j \notin DOMAIN s THEN s
     ELSE [s EXCEPT ![i] = s[j], ![j] = s[i]]

(************************** what names a target ***************************)
\* A key of config.toml that names a thing: a kind and a payload.  For an
\* extension: command # category : row ! action, the last three in turn absent.
Row == [command : {"c"}, category : {"", "k"}, item : Ids \cup {None}, action : Titles \cup {None}]
Key(r) == <<"extension:", r.command>>
          \o (IF r.item = None /\ r.category = "" THEN <<>>
              ELSE <<"#", r.category>> \o (IF r.item = None THEN <<>> ELSE <<":">> \o r.item)
                                       \o (IF r.action = None THEN <<>> ELSE <<"!">> \o r.action))
\* parseExtensionPin: the last ! ends the row, the first : after the # begins it.
LastBang(s) == LET at == {i \in DOMAIN s : s[i] = "!"} IN
  IF at = {} THEN 0 ELSE CHOOSE i \in at : \A j \in at : j <= i
Parsed(k) ==
  LET bang == LastBang(k)
      base == IF bang = 0 THEN k ELSE SubSeq(k, 1, bang - 1)
      tail == IF bang = 0 THEN None ELSE SubSeq(k, bang + 1, Len(k))
  IN IF Len(k) = 2 THEN [command |-> k[2], category |-> "", item |-> None, action |-> None]
     ELSE IF tail = <<>> \/ (tail # None /\ Len(base) < 6) THEN None
     ELSE [command |-> k[2], category |-> k[4],
           item |-> IF Len(base) = 4 THEN None ELSE SubSeq(base, 6, Len(base)), action |-> tail]
Plain == {<<"app:", "a">>, <<"command:", "b">>, <<"shell:", "s">>, <<"web:", "w">>}
IsPinKey(k) == Len(k) >= 2 /\ k[1] \in {"app:", "command:", "extension:", "shell:", "web:"}

(************************ what the launcher loads *************************)
\* searchesFrom: either key replaces the default selection; one's own come last.
LoadedEngines(d) ==
  IF DOMAIN d = {} THEN DefaultEngines
  ELSE Once(Only(At(d, "engines"), Engines) \o At(d, "web_searches"))
\* Resolver.resolve: the first address whose value is usable.
First(keys, usable) == SelectSeq(keys, LAMBDA k : k \in usable)
\* asGroupOrder under its two names: a list that names no group is unusable.
LoadedOrder(d) ==
  LET f == First(<<"order", "fallback_order">>, {k \in DOMAIN d : Only(d[k], Range(Groups)) # <<>>})
  IN IF f = <<>> THEN Groups ELSE Once(Only(d[Head(f)], Range(Groups)))
Completed(s) == LET known == Once(Only(s, Range(Categories))) IN
  known \o SelectSeq(Categories, LAMBDA c : ~Contains(known, c))
LoadedFiles(d) ==
  IF Only(At(d, "order"), Range(Categories)) = <<>> THEN Categories ELSE Completed(d["order"])
LoadedPins(d) == Once(SelectSeq(At(d, "pins"), IsPinKey))
\* hotkeysFrom keeps what it can parse and quote, each under its combination.
LoadedHotkeys(d) ==
  LET kept == SelectSeq(At(d, "hotkeys"), LAMBDA b :
                ChordOf[b[1]] # None /\ IsPinKey(b[2]) /\ ~Contains(b[2], "'"))
  IN [i \in DOMAIN kept |-> <<ChordOf[kept[i][1]], kept[i][2]>>]
\* readAliases: one word in two spellings is one alias, and the later one counts.
LoadedAliases(d) ==
  FoldLeft(LAMBDA m, a : LET w == LowerOf[a[1]]
                             i == {j \in DOMAIN m : m[j][1] = w}
                         IN IF i = {} THEN Append(m, <<w, a[2]>>)
                            ELSE [j \in DOMAIN m |-> IF j \in i THEN <<w, a[2]>> ELSE m[j]],
           <<>>, At(d, "aliases"))
\* keysFrom: an action keeps its default unless something written for it parses,
\* or an empty list was written.
LoadedKeys(d) == LET chords(s) == Less(s, Bad) IN
  [i \in DOMAIN Actions |-> LET a == Actions[i] IN
     <<a, IF a \in DOMAIN d /\ (chords(d[a]) # <<>> \/ d[a] = <<>>) THEN chords(d[a]) ELSE DefaultKeys[a]>>]
LoadedNumber(d) ==
  LET f == First(<<"here", "moved">>, {k \in DOMAIN d : d[k][1] # Bad})
  IN IF env # None THEN env ELSE IF f = <<>> THEN DefaultNumber ELSE d[Head(f)][1]

Pairs(s) == [i \in DOMAIN s |-> <<s[i], TRUE>>]
\* What the launcher uses, as the things named and what each of them is set to.
Loaded(d) ==
  CASE screen = "engines" -> Pairs(LoadedEngines(d))
    [] screen = "order" -> Pairs(LoadedOrder(d))
    [] screen = "files" -> Pairs(LoadedFiles(d))
    [] screen = "pins" -> Pairs(LoadedPins(d))
    [] screen = "disabled" -> Pairs(Once(At(d, "disabled")))
    [] screen = "hotkeys" -> LoadedHotkeys(d)
    [] screen = "aliases" -> LoadedAliases(d)
    [] screen = "keys" -> LoadedKeys(d)
    [] screen = "number" -> <<<<"value", LoadedNumber(d)>>>>

(************************* what the menu's rows say ***********************)
Listed(d) ==
  CASE screen = "engines" -> Pairs(IF "engines" \in DOMAIN d THEN d["engines"] ELSE LoadedEngines(d))
    [] screen = "order" -> Pairs(IF "order" \in DOMAIN d THEN Only(d["order"], Range(Groups))
                                 ELSE LoadedOrder(d))
    [] screen = "files" -> Pairs(IF "order" \in DOMAIN d THEN Completed(d["order"]) ELSE LoadedFiles(d))
    [] screen = "pins" -> Pairs(At(d, "pins"))
    [] screen = "disabled" -> Pairs(At(d, "disabled"))
    [] screen = "hotkeys" -> LET s == At(d, "hotkeys") IN
         [i \in DOMAIN s |-> <<IF ChordOf[s[i][1]] = None THEN s[i][1] ELSE ChordOf[s[i][1]], s[i][2]>>]
    [] screen = "aliases" -> At(d, "aliases")
    [] screen = "keys" -> [i \in DOMAIN Actions |-> LET a == Actions[i] IN
         <<a, IF a \in DOMAIN d THEN d[a] ELSE DefaultKeys[a]>>]
    [] screen = "number" -> <<<<"value", LoadedNumber(d)>>>>

\* Before a screen opens, the file is as a person left it: names that do not
\* exist, two spellings of one thing, lists with nothing usable in them.
Written ==
  LET lists(S) == UNION {[1..n -> S] : n \in 0..2}
      docs(keys, L) == UNION {[D -> L] : D \in SUBSET keys}
  IN CASE screen = "engines" -> {d \in docs({"engines", "web_searches"}, lists(Engines \cup Keywords \cup {Bad})) :
                                   Range(At(d, "web_searches")) \subseteq Keywords}
       [] screen = "order" -> docs({"order", "fallback_order"}, lists(Range(Groups) \cup {Bad}))
       [] screen = "files" -> docs({"order"}, lists(Range(Categories) \cup {Bad}))
       [] screen = "pins" -> docs({"pins"}, lists(Plain \cup {<<Bad>>}))
       [] screen = "disabled" -> docs({"disabled"}, lists(Plugins))
       [] screen = "hotkeys" -> docs({"hotkeys"}, lists(Spellings \X {<<"app:", "a">>, <<"extension:", "'">>}))
       [] screen = "aliases" -> {d \in docs({"aliases"}, lists(Words \X {<<"a">>, <<"shell:", "s">>})) :
                                   LET s == At(d, "aliases") IN Len(s) = 2 => s[1][1] # s[2][1]}
       [] screen = "keys" -> docs(Range(Actions), lists({Bad, "k1"}))
       [] screen = "number" -> docs({"here", "moved"}, {<<n>> : n \in Numbers \cup {Bad}})

NoPick == [at |-> "none"]
Untouched == <<None, None, None>>
Init ==
  /\ screen \in Screens /\ env \in (IF screen = "number" THEN Numbers \cup {None} ELSE {None})
  /\ doc \in Written
  /\ pick = NoPick /\ did = Untouched /\ edits = 0

(********************************* editing ********************************)
\* An edit that names `x`, which is to be set to `v` (None: no longer there),
\* for the row `r` that was picked, if one was.
EditsFor(r, x, v, d) ==
  /\ edits < MaxEdits /\ edits' = edits + 1
  /\ doc' = d /\ did' = <<x, v, r>>
  /\ UNCHANGED <<screen, env>>
Edits(x, v, d) == EditsFor(None, x, v, d)

\* The list a screen edits: the menu's own rows, the window's what is loaded.
Shown(who) == LET s == IF who = "menu" THEN Listed(doc) ELSE Loaded(doc) IN [i \in DOMAIN s |-> s[i][1]]
ListKey == IF screen \in {"order", "files"} THEN "order" ELSE screen
\* setPins of the window drops repetitions, and a key with no entries.
Store(who, s) ==
  IF screen = "pins" /\ who = "window" THEN (IF s = <<>> THEN Without(doc, "pins") ELSE Put(doc, "pins", Once(s)))
  ELSE Put(doc, ListKey, s)

\* Space on an engine or a group.
Toggle(who, x) ==
  /\ screen \in {"engines", "order"} /\ pick = NoPick
  /\ x \in (IF screen = "engines" THEN Engines \cup Range(At(doc, "web_searches")) ELSE Range(Groups))
  /\ LET on == Contains(Shown(who), x) IN
       Edits(x, IF on THEN None ELSE TRUE, Store(who, IF on THEN Less(Shown(who), x) ELSE Append(Shown(who), x)))
  /\ UNCHANGED pick

\* Ctrl and an arrow on a row of an ordered list.
Move(who, x, up) ==
  /\ screen \in {"engines", "order", "files", "pins"} /\ pick = NoPick
  /\ x \in Range(Shown(who)) /\ Moved(Shown(who), x, up) # Shown(who)
  /\ Edits(x, IF <<x, TRUE>> \in Range(Loaded(doc)) THEN TRUE ELSE None,
           Store(who, Moved(Shown(who), x, up)))
  /\ UNCHANGED pick

(* A fault: only the search is written, and it replaces the default engines. *)
AddSearchAlone(w) ==
  /\ screen = "engines" /\ pick = NoPick
  /\ Edits(w, TRUE, Put(doc, "web_searches", Append(At(doc, "web_searches"), w)))
  /\ UNCHANGED pick

\* customSearchesScreen, once its four questions are answered: what is enabled
\* now is written first, so that the addition takes nothing away.
AddSearch(w) ==
  /\ screen = "engines" /\ pick = NoPick
  /\ LET d == IF "engines" \in DOMAIN doc THEN doc ELSE Put(doc, "engines", LoadedEngines(doc))
     IN Edits(w, TRUE, Put(d, "web_searches", Append(At(doc, "web_searches"), w)))
  /\ UNCHANGED pick

RemoveSearch(i) ==
  /\ screen = "engines" /\ pick = NoPick /\ i \in DOMAIN At(doc, "web_searches")
  /\ LET s == RemoveAt(doc["web_searches"], i)
     IN Edits(doc["web_searches"][i], None,
              IF s = <<>> THEN Without(doc, "web_searches") ELSE Put(doc, "web_searches", s))
  /\ UNCHANGED pick

\* `d` on a pin of the menu, and the button of the window.
RemovePin(who, x) ==
  /\ screen = "pins" /\ pick = NoPick /\ x \in Range(Shown(who))
  /\ Edits(x, None, Store(who, Less(Shown(who), x))) /\ UNCHANGED pick

\* setDisabledEntry: the window's switches of a plugin and of a command.
Switch(p, off) ==
  /\ screen = "disabled" /\ pick = NoPick
  /\ LET s == IF off THEN Once(Append(At(doc, "disabled"), p)) ELSE Less(At(doc, "disabled"), p)
     IN Edits(p, IF off THEN TRUE ELSE None, IF s = <<>> THEN Without(doc, "disabled") ELSE Put(doc, "disabled", s))
  /\ UNCHANGED pick

\* sameChord: another spelling of the same combination, or the very same text.
SameChord(a, b) == a = b \/ (ChordOf[a] # None /\ ChordOf[a] = ChordOf[b])
NamedBy(b) == IF ChordOf[b] = None THEN b ELSE ChordOf[b]
(* A fault: the row is found by the text it was written with. *)
LessHotkeyByText(s, b) == SelectSeq(s, LAMBDA e : e[1] # b)
LessHotkey(s, b) == SelectSeq(s, LAMBDA e : ~SameChord(e[1], b))
StoreHotkeys(s) == IF s = <<>> THEN Without(doc, "hotkeys") ELSE Put(doc, "hotkeys", s)
RemoveHotkey(b) ==
  /\ screen = "hotkeys" /\ pick = NoPick /\ \E e \in Range(At(doc, "hotkeys")) : e[1] = b
  /\ Edits(NamedBy(b), None, StoreHotkeys(LessHotkey(doc["hotkeys"], b))) /\ UNCHANGED pick
\* setHotkeys: the window's list is refused when two rows have one combination.
WindowHotkeys(s) ==
  /\ Cardinality({s[i][1] : i \in DOMAIN s}) = Len(s)
  /\ \A i \in DOMAIN s : IsPinKey(s[i][2]) /\ ~Contains(s[i][2], "'")
WindowUnbinds(i) ==
  /\ screen = "hotkeys" /\ pick = NoPick /\ i \in DOMAIN LoadedHotkeys(doc)
  /\ LET s == RemoveAt(LoadedHotkeys(doc), i) IN
       WindowHotkeys(s) /\ Edits(LoadedHotkeys(doc)[i][1], None, StoreHotkeys(s))
  /\ UNCHANGED pick

\* set of one alias: in its place when the word is there as spelled, else last.
SetAlias(s, w, v) ==
  IF \E i \in DOMAIN s : s[i][1] = w THEN [i \in DOMAIN s |-> IF s[i][1] = w THEN <<w, v>> ELSE s[i]]
  ELSE Append(s, <<w, v>>)
StoreAliases(s) == IF s = <<>> THEN Without(doc, "aliases") ELSE Put(doc, "aliases", s)
\* aliasValue: a bare id where that says it all.
AliasValue(x) == IF x[1] \in {"shell:"} \/ Contains(x, "#") THEN x ELSE Tail(x)
\* The menu's row is the word as spelled, the window's as loaded.
RemoveAlias(who, w) ==
  /\ screen = "aliases" /\ pick = NoPick /\ w \in {l[1] : l \in Range(IF who = "menu" THEN Listed(doc) ELSE Loaded(doc))}
  /\ Edits(LowerOf[w], None, StoreAliases(SelectSeq(At(doc, "aliases"), LAMBDA a : a[1] # w)))
  /\ UNCHANGED pick

\* keysScreen: one more combination for an action, or only it, or the default.
SetKeys(a, s) ==
  /\ screen = "keys" /\ pick = NoPick
  /\ Edits(a, IF s = None THEN DefaultKeys[a] ELSE Less(s, Bad),
           IF s = None THEN Without(doc, a) ELSE Put(doc, a, s))
  /\ UNCHANGED pick
KeyChoices(who, a) ==
  LET now == IF who = "menu" THEN (IF a \in DOMAIN doc THEN doc[a] ELSE DefaultKeys[a])
             ELSE (CHOOSE p \in Range(LoadedKeys(doc)) : p[1] = a)[2]
  IN {None} \cup (IF who = "menu" THEN {<<"k2">>, Append(now, "k2")}
                  ELSE (IF Contains(now, "k2") THEN {} ELSE {Append(now, "k2")})
                       \cup {IF Less(now, k) = <<>> THEN None ELSE Less(now, k) : k \in Range(now)})

\* editSetting and set of the window: a number in its range, or the default.
SetNumber(v) ==
  /\ screen = "number" /\ pick = NoPick
  /\ Edits("value", IF env # None THEN env ELSE IF v = None THEN DefaultNumber ELSE v,
           IF v = None THEN Without(doc, "here") ELSE Put(doc, "here", <<v>>))
  /\ UNCHANGED pick

(************************ picking what to add (menu) **********************)
Level(at) == pick.at = at
Go(at, r) == pick' = [at |-> at, row |-> r] /\ UNCHANGED <<screen, env, doc, did, edits>>
NoRow == [command |-> "c", category |-> "", item |-> None, action |-> None]
\* The level the picker of each screen begins at.
Begin ==
  /\ pick = NoPick /\ edits < MaxEdits /\ screen \in {"pins", "aliases", "hotkeys"}
  /\ Go(IF screen = "hotkeys" THEN "plugin" ELSE "kind", NoRow)
\* The level's way back, and Esc, which drops whatever was being made.
Above(at) == CASE at = "kind" -> "none" [] at \in {"app:", "command:", "web:"} -> "kind"
               [] at = "plugin" -> (IF screen = "hotkeys" THEN "none" ELSE "kind")
               [] at = "commands" -> "plugin" [] at = "rows" -> "commands" [] at = "actions" -> "rows"
Back == pick # NoPick /\ IF Above(pick.at) = "none" THEN pick' = NoPick /\ UNCHANGED <<screen, env, doc, did, edits>>
                          ELSE Go(Above(pick.at), IF pick.at = "actions" THEN [pick.row EXCEPT !.item = None] ELSE NoRow)
Abandon == pick # NoPick /\ pick' = NoPick /\ UNCHANGED <<screen, env, doc, did, edits>>

\* What is picked goes where it was wanted; the word of an alias and the
\* combination of a hotkey were asked for before and after.
Add(x, r) ==
  CASE screen = "pins" -> EditsFor(r, x, TRUE, IF Contains(At(doc, "pins"), x) THEN doc
                                         ELSE Put(doc, "pins", Append(At(doc, "pins"), x)))
    [] screen = "aliases" -> \E w \in {LowerOf[v] : v \in Words} : x[1] # "web:"
                               /\ EditsFor(r, w, AliasValue(x), StoreAliases(SetAlias(At(doc, "aliases"), w, AliasValue(x))))
    [] screen = "hotkeys" -> \E b \in {ChordOf[s] : s \in Spellings} \ {None} :
                               EditsFor(r, b, x, StoreHotkeys(Append(LessHotkey(At(doc, "hotkeys"), b), <<b, x>>)))
Take(x, r) == Add(x, r) /\ pick' = NoPick
\* In the pins browser a row is pinned where it stands.
PinInPlace(x, r) ==
  LET on == Contains(At(doc, "pins"), x) IN
  /\ EditsFor(r, x, IF on THEN None ELSE TRUE,
           Put(doc, "pins", IF on THEN Less(At(doc, "pins"), x) ELSE Append(At(doc, "pins"), x)))
  /\ UNCHANGED pick

Name(r) == IF screen = "pins" THEN PinInPlace(Key(r), r) ELSE Take(Key(r), r)

PickKind(k) == Level("kind") /\ Go(k, NoRow)
PickPlain(x) == Level(x[1]) /\ Take(x, None)
PickShell == Level("command:") /\ Take(<<"shell:", "s">>, None)
PickPlugin == Level("plugin") /\ Go("commands", NoRow)
\* Space or Enter on a command or a category, and the way into its rows; the
\* plugin is asked for them and may fail to answer.
PickCommand(c) ==
  /\ Level("commands")
  /\ Name([NoRow EXCEPT !.category = c])
OpenRows(c) == Level("commands") /\ Go("rows", [NoRow EXCEPT !.category = c])
RowsFail == Level("rows") /\ Go("commands", NoRow)
PickRow(i) ==
  /\ Level("rows")
  /\ Name([pick.row EXCEPT !.item = i])
OpenActions(i) == Level("rows") /\ Go("actions", [pick.row EXCEPT !.item = i])
(* A fault: an action whose title has a ! in it is taken like any other. *)
PickActionAny(t) ==
  /\ Level("actions")
  /\ Name([pick.row EXCEPT !.action = t])
\* An action is named by its title, and refused if that has a ! in it.
PickAction(t) ==
  /\ Level("actions") /\ ~Contains(t, "!")
  /\ Name([pick.row EXCEPT !.action = t])

Picking ==
  \/ Begin \/ Back \/ Abandon \/ PickShell \/ PickPlugin \/ RowsFail
  \/ \E k \in {"app:", "command:", "web:", "plugin"} : PickKind(k)
  \/ \E x \in {p \in Plain : p[1] # "shell:"} : PickPlain(x)
  \/ \E c \in {"", "k"} : PickCommand(c) \/ OpenRows(c)
  \/ \E i \in Ids : PickRow(i) \/ OpenActions(i)
  \/ \E t \in Titles : PickAction(t)

\* TargetPicker of the window: a plain thing, a command, a row, or an action
\* without a ! in its title, in one choice; setPins, setAlias, setHotkeys.
WindowRows == {r \in Row : (r.action # None => r.item # None /\ ~Contains(r.action, "!"))}
WindowPick(x, r) ==
  /\ pick = NoPick
  /\ \/ /\ screen = "pins" /\ ~Contains(LoadedPins(doc), x)
        /\ EditsFor(r, x, TRUE, Put(doc, "pins", Append(LoadedPins(doc), x)))
     \/ screen = "aliases" /\ Add(x, r)
     \/ /\ screen = "hotkeys"
        /\ \E b \in {ChordOf[c] : c \in Spellings} \ {None} :
             LET s == Append(LoadedHotkeys(doc), <<b, x>>) IN WindowHotkeys(s) /\ EditsFor(r, b, x, StoreHotkeys(s))
  /\ UNCHANGED pick

(******************************** the screens *****************************)
MenuEngines == screen = "engines" /\ \E x \in Engines \cup Keywords, up \in BOOLEAN : Toggle("menu", x) \/ Move("menu", x, up)
MenuGroups == screen = "order" /\ \E x \in Range(Groups), up \in BOOLEAN : Toggle("menu", x) \/ Move("menu", x, up)
MenuFiles == screen = "files" /\ \E x \in Range(Categories), up \in BOOLEAN : Move("menu", x, up)
MenuPins == screen = "pins" /\ \E x \in Range(Shown("menu")), up \in BOOLEAN : Move("menu", x, up) \/ RemovePin("menu", x)
MenuAliases == \E w \in Words : RemoveAlias("menu", w)
MenuKeys == screen = "keys" /\ \E a \in Range(Actions) : \E s \in KeyChoices("menu", a) : SetKeys(a, s)
MenuHotkeys == \E b \in Spellings : RemoveHotkey(b)
MenuSearches == (\E w \in Keywords : AddSearch(w)) \/ \E i \in 1..3 : RemoveSearch(i)

WindowGroups == screen = "order" /\ \E x \in Range(Groups), up \in BOOLEAN : Toggle("window", x) \/ Move("window", x, up)
WindowFiles == screen = "files" /\ \E x \in Range(Categories), up \in BOOLEAN : Move("window", x, up)
WindowGlobal ==
  \/ screen = "engines" /\ \E x \in Engines \cup Keywords, up \in BOOLEAN : Toggle("window", x) \/ Move("window", x, up)
  \/ screen = "pins" /\ \E x \in Range(Shown("window")), up \in BOOLEAN : Move("window", x, up) \/ RemovePin("window", x)
  \/ \E w \in Words : RemoveAlias("window", w)
WindowKeys == screen = "keys" /\ \E a \in Range(Actions) : \E s \in KeyChoices("window", a) : SetKeys(a, s)
WindowBinds == \E i \in 1..3 : WindowUnbinds(i)
WindowPicks ==
  \/ \E x \in {p \in Plain : p[1] = "web:" => screen # "aliases"} : WindowPick(x, None)
  \/ \E r \in WindowRows : WindowPick(Key(r), r)

Editing ==
  \/ MenuEngines \/ MenuGroups \/ MenuFiles \/ MenuPins \/ MenuAliases \/ MenuKeys \/ MenuHotkeys \/ MenuSearches
  \/ WindowGroups \/ WindowFiles \/ WindowGlobal \/ WindowKeys \/ WindowBinds \/ WindowPicks
  \/ \E p \in Plugins, off \in BOOLEAN : Switch(p, off)
  \/ \E v \in Numbers \cup {None} : SetNumber(v)

Next == Editing \/ Picking
Spec == Init /\ [][Next]_vars

(******************************** properties ******************************)
Named(s, x) == {s[i][2] : i \in {j \in DOMAIN s : s[j][1] = x}}
Others(s, x) == SelectSeq(s, LAMBDA e : e[1] # x)
\* A shortcut whose target has a quote in it: the menu writes what no loader keeps.
Quoted == screen = "hotkeys" /\ did'[2] # None /\ Contains(did'[2], "'")
OnlyThat ==
  /\ Others(Loaded(doc'), did'[1]) = Others(Loaded(doc), did'[1])
  /\ Named(Loaded(doc'), did'[1]) = IF did'[2] = None \/ Quoted THEN {} ELSE {did'[2]}

\* What a person may have written that leaves an edit of x without the meaning
\* its screen gives it.
Twice(s, x) == Cardinality({i \in DOMAIN s : s[i] = x}) > 1
Unclear(d, x) ==
  \/ screen = "engines" /\ (Engines \cap Range(At(d, "web_searches")) # {} \/ Twice(At(d, "web_searches"), x))
  \/ screen = "order" /\ "order" \in DOMAIN d /\ Only(d["order"], Range(Groups)) = <<>>
  \/ screen = "hotkeys" /\ Cardinality({i \in DOMAIN LoadedHotkeys(d) : LoadedHotkeys(d)[i][1] = x}) > 1
  \/ screen = "aliases" /\ \E a \in Range(At(d, "aliases")) : a[1] # x /\ LowerOf[a[1]] = x
  \/ screen = "number" /\ "here" \notin DOMAIN d /\ "moved" \in DOMAIN d
\* A list of one's own searches alone: with it goes what replaced the defaults.
OnlySearches == screen = "engines" /\ DOMAIN doc = {"web_searches"}
\* The switch of a search of one's own, which its own list keeps loaded.
OwnSwitch == screen = "engines" /\ did'[1] \in Range(At(doc, "web_searches")) \cap Range(At(doc', "web_searches"))

(* What an edit on a screen names comes to be what it was set to, and       *)
(* everything else the launcher uses of that section, and its order, stays, *)
(* whatever the file said, in the menu and in the window, though the rows   *)
(* are drawn from one reading of the file, the edit is made on another and  *)
(* the launcher makes a third.  The exceptions are the ones named above.    *)
EditDoesOnlyThat ==
  [][edits' > edits /\ ~OnlySearches /\ ~OwnSwitch
       /\ ~Unclear(doc, did'[1]) /\ ~Unclear(doc', did'[1]) => OnlyThat]_vars

(* The key written for a row, or for an action on it, reads back as that    *)
(* row and that action, or the pin would run something else; also of a row  *)
(* whose id has a ! in it, when it is an action that was picked.  Of such a  *)
(* row itself it does not: what follows the last ! is taken for an action   *)
(* ("every key we generate parses back unambiguously", the comment of       *)
(* parseExtensionPin, looks at the titles of actions only).                 *)
TakenForAction(r) == r.action = None /\ r.item # None /\ Contains(r.item, "!")
KeysParseBack ==
  did[3] # None =>
    IF TakenForAction(did[3]) THEN LET k == Parsed(Key(did[3])) IN k = None \/ k.action # None
    ELSE Parsed(Key(did[3])) = did[3]
=============================================================================
