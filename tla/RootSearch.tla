------------------------------- MODULE RootSearch -------------------------------
(***************************************************************************)
(* What the launcher answers to a query (src/main/root-search.ts, the       *)
(* search and the activation of src/main/search.ts).  A name is a sequence   *)
(* of letters as in Fuzzy.  A row is its id: a kind and what follows the     *)
(* colon.  The settings, the index and the commands change while the person  *)
(* types; lists are in the order of their titles.                            *)
(***************************************************************************)
EXTENDS Fuzzy

CONSTANTS
  Letters, MaxQuery, \* what is typed, and how much of it
  Catalogue,         \* the applications that may be installed: records
  CommandSet,        \* the commands there may be: records
  Configs,           \* the settings there may be
  Sums               \* queries that the calculator has an answer for

VARIABLES query, installed, commands, settings, boosted, hidden
vars == <<query, installed, commands, settings, boosted, hidden>>

InitRoot ==
  /\ query = <<>> /\ settings \in Configs
  /\ installed = Catalogue /\ commands = CommandSet
  /\ boosted = {}     \* applications opened before
  /\ hidden = FALSE

Command(id) == CHOOSE c \in commands : c.id = id
IsApp(id) == \E a \in installed : a.id = id
IsCommand(id) == \E c \in commands : c.id = id
KindOf(c) == IF c.plugin THEN "extension" ELSE "command"
CommandRow(c) == <<KindOf(c), c.id>>

\* resolveAlias: a command before an application.
ResolveAlias(id) ==
  IF IsCommand(id) THEN <<CommandRow(Command(id))>> ELSE IF IsApp(id) THEN <<<<"app", id>>>> ELSE <<>>

Field(text, weight, mode, isName) == [text |-> text, weight |-> weight, mode |-> mode, isName |-> isName]
Titled(needle, title) ==
  LET m == MatchFields(needle, <<Field(title, 10, "fuzzy", TRUE)>>, TRUE, 1) IN m.ok /\ m.score >= 20 * 400

\* resolvePin and resolveExtensionPin: a row or nothing.
ResolvePin(key, needle) ==
  CASE key.kind = "shell" -> <<<<"shell", key.id>>>>
    [] key.kind = "item"  ->
         IF IsCommand(key.id) /\ Command(key.id).plugin
            /\ (key.category = "" \/ key.category \in Command(key.id).categories)
            /\ (key.item # "" \/ key.category # "")
         THEN <<<<"item", key>>>> ELSE <<>>
    [] key.kind = "web"   ->
         IF needle # <<>> /\ \E i \in DOMAIN settings.searches : settings.searches[i].id = key.id
         THEN <<<<"web", <<key.id, needle>>>>>> ELSE <<>>
    [] OTHER              -> ResolveAlias(key.id)

\* matchRule: the first rule that begins the query, or that three letters begin.
MatchRule(needle) ==
  LET low == LowerCase(needle)
      at == {i \in DOMAIN settings.rules : LET r == settings.rules[i].match IN
               IsPrefix(r, low) \/ (Len(low) >= 3 /\ IsPrefix(low, r))}
  IN  IF at = {} THEN <<>> ELSE <<settings.rules[Min(at)]>>

\* matchKeyword: the word before the first space, and what comes after it.
MatchKeyword(needle) ==
  LET spaces == {i \in DOMAIN needle : needle[i] = 0}
      word == LowerCase(SubSeq(needle, 1, Min(spaces) - 1))
      named == {i \in DOMAIN settings.searches : settings.searches[i].keyword = word}
  IN  IF spaces = {} \/ named = {} THEN <<>>
      ELSE <<<<settings.searches[Min(named)].id, SubSeq(needle, Min(spaces) + 1, Len(needle))>>>>

\* searchApps and matchCommands: what reaches the floor, scored.
ScoredApp(a, needle, typos) ==
  LET scored(m) == [row |-> <<"app", a.id>>, ok |-> m.ok /\ m.score >= 12 * 400, tier |-> m.tier, at |-> m.at,
                    score |-> (m.score \div 10) * (IF a.id \in boosted THEN 17 ELSE 10), order |-> a.order,
                    plugin |-> FALSE]
  IN  scored(MatchFields(needle, <<Field(a.name, 10, "fuzzy", TRUE), Field(a.keywords, 6, "word", FALSE)>>, typos, 1))
ScoredCommand(c, needle, typos) ==
  LET scored(m) == [row |-> CommandRow(c), ok |-> m.ok /\ m.score >= 20 * 400, tier |-> m.tier, at |-> m.at,
                    score |-> m.score, order |-> c.order, plugin |-> c.plugin]
  IN  scored(MatchFields(needle, <<Field(c.title, 10, "fuzzy", TRUE), Field(c.keywords, 7, "word", FALSE)>>, typos, 1))

Kinds(order) == {order[i] : i \in DOMAIN order}
Place(order, g) == IF g \in Kinds(order) THEN Min({i \in DOMAIN order : order[i] = g}) ELSE 0

RankAll(needle, order, typos) ==
  {s \in (IF "apps" \in Kinds(order) THEN {ScoredApp(a, needle, typos) : a \in installed} ELSE {})
         \cup {ScoredCommand(c, needle, typos) : c \in {d \in commands : (IF d.plugin THEN "plugins" ELSE "commands") \in Kinds(order)}} : s.ok}

ByRank(order, s, t) ==
  LET kind(x) == IF (x.row[1] = "app") = (Place(order, "apps") <= Place(order, "commands")) THEN 0 ELSE 1
  IN  \/ s.tier < t.tier
      \/ s.tier = t.tier /\ \/ s.at < t.at
                            \/ s.at = t.at /\ \/ s.score > t.score
                                              \/ s.score = t.score /\ (kind(s) < kind(t) \/ (kind(s) = kind(t) /\ s.order < t.order))
Sorted(order, S) == SetToSortSeq(S, LAMBDA s, t : ByRank(order, s, t))

\* narrow: the best group only, and of it what is near the best or begins so.
Narrow(S, group) ==
  LET grouped == {s \in S : MatchGroup(s.tier) = group}
      best == Max({0} \cup {s.score : s \in grouped})
  IN  {s \in grouped : s.tier = Prefix \/ s.score * 20 >= best * 11}

Dedupe(rows) == FoldLeft(LAMBDA out, r : IF \E i \in DOMAIN out : out[i] = r THEN out ELSE Append(out, r), <<>>, rows)
Rows(S) == [i \in DOMAIN S |-> S[i].row]

\* The query without the space around it.
Trim(q) ==
  LET solid == {i \in DOMAIN q : q[i] # 0}
  IN  IF solid = {} THEN <<>> ELSE SubSeq(q, Min(solid), Max(solid))

Found(needle, order) ==
  LET best(exact) == IF \E s \in exact : MatchGroup(s.tier) < 2 THEN exact
                     ELSE RankAll(needle, order, TRUE)
  IN  best(RankAll(needle, order, FALSE))

\* What was found, whether or not it survives; the best way any of it was found.
Matched(found) == {s.row : s \in found}
BestGroup(found) == Min({2} \cup {MatchGroup(s.tier) : s \in found})

\* What a pin puts in the list: only what the query finds.
PinRow(key, needle, web, keyword, matched) ==
  CASE key.kind = "web"   -> IF web /\ keyword = <<>> THEN ResolvePin(key, needle) ELSE <<>>
    [] key.kind = "shell" -> IF Titled(needle, key.title) THEN ResolvePin(key, needle) ELSE <<>>
    [] key.kind = "item"  -> IF Titled(needle, key.title) THEN ResolvePin(key, needle) ELSE <<>>
    [] OTHER              -> IF <<key.kind, key.id>> \in matched THEN <<<<key.kind, key.id>>>> ELSE <<>>

WebRow(s, needle) == <<"web", <<s.id, needle>>>>
FlatMap(f(_), s) == FlattenSeq([i \in DOMAIN s |-> f(s[i])])

\* What survives of what was found, in the order it is listed.
Survivors(order, S, group) == Rows(Sorted(order, Narrow(S, group)))

\* What a group puts in the list: applications and commands where the first of
\* the two stands, plugins, the engines unless a keyword named one.
GroupRows(order, i, needle, keyword, found) ==
  LET rankedAt == Min({99} \cup {Place(order, g) : g \in {"apps", "commands"} \cap Kinds(order)})
      here == {s \in found : IF s.plugin THEN order[i] = "plugins" ELSE i = rankedAt}
  IN  Survivors(order, here, BestGroup(found))
      \o (IF order[i] = "web" /\ keyword = <<>> THEN FlatMap(LAMBDA s : <<WebRow(s, needle)>>, settings.searches) ELSE <<>>)

(* A fault: an alias is one more name of what the query finds anyway. *)
AliasIfFound(needle) ==
  LET named == {i \in DOMAIN settings.aliases : settings.aliases[i].name = LowerCase(needle)}
      row == ResolvePin(settings.aliases[Min(named)].key, needle)
  IN  IF named = {} \/ row = <<>> THEN <<>>
      ELSE IF row[1] \in Matched(Found(needle, settings.order)) THEN row ELSE <<>>
\* What an alias names that is typed in whole; an engine it may not name.
AliasRow(needle) ==
  LET named == {i \in DOMAIN settings.aliases : settings.aliases[i].name = LowerCase(needle)}
      key == settings.aliases[Min(named)].key
  IN  IF named = {} \/ key.kind = "web" THEN <<>> ELSE ResolvePin(key, needle)

\* composeRoot: everything that answers, most wanted first, each once.
ComposeRoot(q) ==
  LET needle == Trim(q)
      rule == MatchRule(needle)
      order == IF rule # <<>> /\ rule[1].order # <<>> THEN rule[1].order ELSE settings.order
      first == IF rule = <<>> THEN <<>> ELSE rule[1].first
      sum == IF needle \in Sums THEN <<<<"calculator", needle>>>> ELSE <<>>
      web == "web" \in Kinds(order)
      keyword == IF web THEN MatchKeyword(needle) ELSE <<>>
      rows(found) ==
        Dedupe(sum \o AliasRow(needle) \o FlatMap(LAMBDA key : ResolvePin(key, needle), first)
               \o FlatMap(LAMBDA k : <<<<"web", k>>>>, keyword)
               \o FlatMap(LAMBDA key : PinRow(key, needle, web, keyword, Matched(found)), settings.pins)
               \o FlatMap(LAMBDA i : GroupRows(order, i, needle, keyword, found), Span(1, Len(order))))
  IN  IF needle = <<>> THEN <<>> ELSE rows(Found(needle, order))

(* A fault: the rules' own rows are forgotten. *)
WithoutRules ==
  LET keys == {settings.pins[i] : i \in DOMAIN settings.pins}
              \cup {settings.aliases[i].key : i \in DOMAIN settings.aliases}
  IN  {k.id : k \in {x \in keys : x.kind = "shell"}} \cup settings.hotkeys

\* configuredShellCommands: what a row may run in the person's shell.
ConfiguredShellCommands ==
  LET keys == {settings.pins[i] : i \in DOMAIN settings.pins}
              \cup UNION {{settings.rules[i].first[j] : j \in DOMAIN settings.rules[i].first} : i \in DOMAIN settings.rules}
              \cup {settings.aliases[i].key : i \in DOMAIN settings.aliases}
  IN  {k.id : k \in {x \in keys : x.kind = "shell"}} \cup settings.hotkeys

\* activate: whether the row still opens something.
Activate(row) ==
  CASE row[1] = "app"       -> IsApp(row[2])
    [] row[1] = "command"   -> IsCommand(row[2]) /\ ~Command(row[2]).plugin
    [] row[1] = "extension" -> IsCommand(row[2]) /\ Command(row[2]).plugin
    [] row[1] = "item"      -> IsCommand(row[2].id) /\ Command(row[2].id).plugin
    [] row[1] = "shell"     -> row[2] \in ConfiguredShellCommands
    [] OTHER                -> TRUE

Type(c) == Len(query) < MaxQuery /\ query' = Append(query, c)
           /\ UNCHANGED <<installed, commands, settings, boosted, hidden>>
Uninstall ==
  /\ query = <<>> /\ ~hidden /\ hidden' = TRUE
  /\ \E a \in installed, c \in commands : installed' = installed \ {a} /\ commands' = commands \ {c}
  /\ UNCHANGED <<query, settings, boosted>>
\* An application is opened, and the launcher asked again.
Launch(a) == /\ query # <<>> /\ boosted = {} /\ Contains(ComposeRoot(query), <<"app", a.id>>)
             /\ boosted' = {a.id} /\ query' = <<>>
             /\ UNCHANGED <<installed, commands, settings, hidden>>

NextRoot == \/ \E c \in Letters : Type(c)
            \/ Uninstall
            \/ \E a \in installed : Launch(a)

SpecRoot == InitRoot /\ [][NextRoot]_vars

(******************************** properties ******************************)
(* Whatever is listed can be opened, under the same settings and index.     *)
RowsOpen(rows) == \A i \in DOMAIN rows : Activate(rows[i])

(* Nothing is listed twice, and nothing for a query of spaces.              *)
OnceEach(rows) == /\ \A i, j \in DOMAIN rows : rows[i] = rows[j] => i = j
                  /\ Trim(query) = <<>> => rows = <<>>

Order == LET rule == MatchRule(Trim(query)) IN IF rule # <<>> /\ rule[1].order # <<>> THEN rule[1].order ELSE settings.order

(* A name the query begins is listed when its group is on, whatever else    *)
(* matches better; and beside a match as typed there is no repaired one,    *)
(* but for what the settings name.                                          *)
Beginnings(rows) ==
  LET needle == Trim(query)
  IN  needle # <<>> => \A all \in {RankAll(needle, Order, FALSE)} :
        /\ \A s \in all : s.tier = Prefix => \E i \in DOMAIN rows : rows[i] = s.row
        /\ all # {} => \A i \in DOMAIN rows :
             rows[i][1] \in {"app", "command", "extension"} =>
               \/ rows[i] \in {s.row : s \in all}
               \/ \E j \in DOMAIN settings.aliases : ResolvePin(settings.aliases[j].key, needle) = <<rows[i]>>
               \/ MatchRule(needle) # <<>> /\ \E j \in DOMAIN MatchRule(needle)[1].first :
                    ResolvePin(MatchRule(needle)[1].first[j], needle) = <<rows[i]>>

(* A keyword asks that one search: no other web search is listed.           *)
OneSearch(rows) ==
  "web" \in Kinds(Order) /\ MatchKeyword(Trim(query)) # <<>> =>
    \A i \in DOMAIN rows : rows[i][1] = "web" =>
      \/ rows[i][2] = MatchKeyword(Trim(query))[1]
      \/ MatchRule(Trim(query)) # <<>> /\ \E j \in DOMAIN MatchRule(Trim(query))[1].first :
           MatchRule(Trim(query))[1].first[j].kind = "web"

(* What the settings chose stands before what was merely found: the sum, the  *)
(* alias, the rule's own rows, the search a keyword asks, the pins.          *)
Pins(r) == \E j \in DOMAIN settings.pins : LET key == settings.pins[j] IN
  r = CASE key.kind = "item" -> <<"item", key>>
        [] key.kind = "web"  -> <<"web", <<key.id, Trim(query)>>>>
        [] OTHER             -> <<key.kind, key.id>>
IsNamedBy(keys, r) == \E j \in DOMAIN keys : ResolvePin(keys[j], Trim(query)) = <<r>>
Standing(r) ==
  LET rule == MatchRule(Trim(query))
      aliases == SelectSeq(settings.aliases, LAMBDA a : a.name = LowerCase(Trim(query)))
  IN  CASE r[1] = "calculator" -> 0
        [] aliases # <<>> /\ IsNamedBy(<<aliases[1].key>>, r) -> 1
        [] rule # <<>> /\ IsNamedBy(rule[1].first, r) -> 2
        [] r[1] = "web" /\ MatchKeyword(Trim(query)) = <<r[2]>> -> 3
        [] Pins(r) -> 4
        [] OTHER -> 5
ChosenFirst(rows) == \A i, j \in DOMAIN rows : i < j => Standing(rows[i]) <= Standing(rows[j])

(* An alias that is typed in whole is listed, only a sum before it, whether  *)
(* its group is on or not; and a pinned row that was found at all is listed,  *)
(* however far the others are ahead.                                          *)
ChosenFound(rows) ==
  LET needle == Trim(query)
      listed == {rows[i] : i \in DOMAIN rows}
      aliases == SelectSeq(settings.aliases, LAMBDA a : a.name = LowerCase(needle))
  IN  /\ aliases # <<>> /\ aliases[1].key.kind # "web" =>
           \A i \in DOMAIN ResolvePin(aliases[1].key, needle) :
             \E k \in DOMAIN rows : /\ rows[k] = ResolvePin(aliases[1].key, needle)[i]
                                    /\ \A n \in 1..k - 1 : rows[n][1] = "calculator"
      /\ needle # <<>> => \A j \in DOMAIN settings.pins :
           <<settings.pins[j].kind, settings.pins[j].id>> \in Matched(Found(needle, Order)) =>
             <<settings.pins[j].kind, settings.pins[j].id>> \in listed

(* Each name is matched soundly, and its words are near or far as they are. *)
Matching ==
  \A a \in installed :
    /\ MatchSound(query, a.name)
    /\ \A i \in DOMAIN TokensOf(query), j \in DOMAIN TokensOf(a.name), max \in 0..2 :
         DistanceRight(TokensOf(query)[i], TokensOf(a.name)[j], max)

=============================================================================
