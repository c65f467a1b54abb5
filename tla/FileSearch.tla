------------------------------- MODULE FileSearch -------------------------------
(***************************************************************************)
(* Search Files (plugins/files/src): every settled text starts a program      *)
(* through useExec (src/api-shim/utils.ts, exec.ts), which ends the one        *)
(* before it, and the rows are made of whatever data there is at the moment.   *)
(* A program may be slow, fail, or not mind being told to end.                  *)
(***************************************************************************)
EXTENDS Naturals, Sequences, FiniteSets, SequencesExt

CONSTANTS
  Texts,      \* what may be typed, trimmed; "" among them
  Output,     \* Output[text]: the records the program prints, in its order
  Root,       \* the home directory, a sequence of names
  HiddenNames, \* names that begin with a dot
  KnownKind,  \* KnownKind[ext]: the category of an extension
  Tier,       \* Tier[text][name]: 0 begins with it, 1 holds it, 2 neither
  Size,       \* Size[name]: its length
  AllCategories, \* the categories, in the order they come in
  Orders,     \* what the settings may name of them
  Limit, None,
  MaxTyped    \* bound: texts typed

VARIABLES
  query, trimmed, timer,  \* the text, the settled one, the debounce
  state,      \* usePromise: loading, data, error
  generation, \* of the run whose answer counts
  runs,       \* programs started: their text, generation, what became of them
  cache,      \* useCachedPromise: the last data of each text
  settings,   \* the tool, hidden files, the order, and whether opening hides
  browsing,   \* the folders entered, the innermost last
  mounted, typed
searchVars == <<query, trimmed, timer, state, generation, runs, cache, settings, browsing, mounted, typed>>

----------------------------------------------------------------------------
(* What to search with, and what is made of the answer. *)

\* pickTool: the preferred tool or none; without a preference the first there is.
PickTool(preferred, there) ==
  IF preferred # "auto" THEN (IF preferred \in there THEN preferred ELSE None)
  ELSE LET found == SelectSeq(<<"fd", "locate", "find">>, LAMBDA t : t \in there)
       IN IF found = <<>> THEN None ELSE found[1]

\* configuredSettings: the named categories first, each once, the rest after them.
ConfiguredOrder(named, all) ==
  LET once == FoldLeft(LAMBDA acc, c : IF Contains(acc, c) \/ ~Contains(all, c) THEN acc ELSE Append(acc, c),
                       <<>>, named)
  IN once \o SelectSeq(all, LAMBDA c : ~Contains(once, c))

\* splitOutput: below the home directory, nothing on a hidden path unless asked,
\* and so many at most, counted after the rest.
SplitOutput(records, hidden) ==
  LET Under(r) == Len(r.path) >= Len(Root) /\ SubSeq(r.path, 1, Len(Root)) = Root
      Plain(r) == hidden \/ \A i \in Len(Root) + 1..Len(r.path) : r.path[i] \notin HiddenNames
      kept == SelectSeq(records, LAMBDA r : Under(r) /\ Plain(r))
  IN SubSeq(kept, 1, IF Len(kept) < Limit THEN Len(kept) ELSE Limit)

\* categoryOf: a directory, what the extension says, or what may be run.
CategoryOf(hit) == IF hit.dir THEN "folders"
                   ELSE IF hit.ext \in DOMAIN KnownKind THEN KnownKind[hit.ext]
                   ELSE IF hit.exec THEN "executables" ELSE "rest"

At(seq, x) == CHOOSE i \in DOMAIN seq : seq[i] = x
Name(hit) == hit.path[Len(hit.path)]

(* A fault: the depth before the category. *)
DepthFirst(hit, text, order) ==
  <<Len(hit.path) - Len(Root), At(order, CategoryOf(hit)), Tier[text][Name(hit)], Size[Name(hit)], hit.id>>
\* rank: category, depth, how the name fits, its length, the path.
RankOf(hit, text, order) ==
  <<At(order, CategoryOf(hit)), Len(hit.path) - Len(Root), Tier[text][Name(hit)], Size[Name(hit)], hit.id>>
Before(s, t) == \E i \in DOMAIN s : s[i] < t[i] /\ \A j \in 1..i - 1 : s[j] = t[j]
Rank(hits, text, order) ==
  SetToSortSeq(ToSet(hits), LAMBDA a, b : Before(RankOf(a, text, order), RankOf(b, text, order)))

\* sectioned: the categories in their order, without the empty ones.
Sectioned(hits, order) ==
  LET all == [i \in DOMAIN order |-> SelectSeq(hits, LAMBDA h : CategoryOf(h) = order[i])]
  IN SelectSeq(all, LAMBDA rows : rows # <<>>)

\* What a program printed up to then: argsFor says what it is asked, in each
\* program's own patterns.
Printed(data) == SubSeq(Output[data.of], 1, data.upTo)

\* The files of the answer that are still there, ranked for the settled text.
HitsOf(data, text) ==
  IF data = None \/ text = "" THEN <<>>
  ELSE Rank(SelectSeq(SplitOutput(Printed(data), settings.hidden), LAMBDA r : r.there), text, settings.order)

\* What the list draws: nothing for no text, an error, or the sections.
Drawn == IF trimmed = "" \/ state.error THEN <<>> ELSE Sectioned(HitsOf(state.data, trimmed), settings.order)
ShowsLoading == state.loading \/ query # trimmed

----------------------------------------------------------------------------
(* The hook. *)

\* usePromise: the state that a key begins with, before its run has answered.
Begun(execute, data) == [loading |-> execute, data |-> data, error |-> FALSE]

InitSearch ==
  /\ query = "" /\ trimmed = "" /\ timer = FALSE
  /\ state = Begun(FALSE, None)
  /\ generation = 0 /\ runs = <<>> /\ cache = [t \in Texts |-> None]
  /\ \E there \in {{}, {"fd"}, {"locate", "find"}}, hidden \in BOOLEAN, named \in Orders, hide \in BOOLEAN :
       settings = [tool |-> PickTool("auto", there), hidden |-> hidden, order |-> ConfiguredOrder(named, AllCategories),
                   hideOnOpen |-> hide]
  /\ browsing = <<>> /\ mounted = TRUE /\ typed = 0

\* abort: the program of the last controller is told to end, and its promise is
\* rejected; killAfterGrace sees to it that it does.
Aborted == [i \in DOMAIN runs |->
              IF runs[i].phase \in {"running", "late"} /\ i = Len(runs)
              THEN [runs[i] EXCEPT !.phase = "aborted", !.grace = TRUE] ELSE runs[i]]

\* run: the generation that counts is this one's.
Run(text) == [text |-> text, generation |-> generation + 1, phase |-> "running", alive |-> TRUE, grace |-> FALSE]

\* useCachedPromise: what is cached for this text, or the data there was.
Kept(text) == IF cache[text] # None THEN cache[text] ELSE state.data

\* A render with another key: the state is reset; the effect then runs, or
\* without a text invalidates.
Rekeyed(text) ==
  LET execute == settings.tool # None /\ text # ""
  IN /\ trimmed' = text /\ generation' = generation + 1
     /\ state' = Begun(execute, Kept(text))
     /\ runs' = IF execute THEN Append(Aborted, Run(text)) ELSE Aborted

\* setQuery, and useDebounced: an empty text is settled at once.
Type(text) ==
  /\ mounted /\ browsing = <<>> /\ text # query /\ typed < MaxTyped /\ typed' = typed + 1
  /\ query' = text
  /\ IF text = "" THEN /\ timer' = FALSE
                       /\ IF trimmed = "" THEN UNCHANGED <<trimmed, state, generation, runs>> ELSE Rekeyed("")
     ELSE timer' = TRUE /\ UNCHANGED <<trimmed, state, generation, runs>>
  /\ UNCHANGED <<cache, settings, browsing, mounted>>

Settled ==
  /\ mounted /\ timer /\ timer' = FALSE
  /\ IF query = trimmed THEN UNCHANGED <<trimmed, state, generation, runs>> ELSE Rekeyed(query)
  /\ UNCHANGED <<query, cache, settings, browsing, mounted, typed>>

(* A fault: whichever answer comes is taken. *)
AnyAnswer(i) == mounted
\* Only the answer of the last run counts.
Counts(i) == mounted /\ runs[i].generation = generation

\* What the run comes to: parseSearchOutput takes what was printed before the
\* end, and useCachedPromise keeps it.
Answer(i, outcome) ==
  IF ~Counts(i) THEN UNCHANGED <<state, cache>>
  ELSE IF outcome = "error"
       THEN state' = [loading |-> FALSE, data |-> None, error |-> TRUE] /\ UNCHANGED cache
  ELSE LET data == [of |-> runs[i].text,
                    upTo |-> IF outcome = "all" THEN Len(Output[runs[i].text]) ELSE 1]
       IN state' = [loading |-> FALSE, data |-> data, error |-> FALSE]
          /\ cache' = [cache EXCEPT ![runs[i].text] = data]

Became(i, phase, alive) == runs' = [runs EXCEPT ![i].phase = phase, ![i].alive = alive]
Elsewhere == UNCHANGED <<query, trimmed, timer, generation, settings, browsing, mounted, typed>>

\* The program ends by itself, with an answer or an error; or it never began.
Ends(i, outcome) ==
  /\ runs[i].phase = "running" /\ Became(i, "done", FALSE) /\ Answer(i, outcome) /\ Elsewhere

\* The timeout: told to end, and what it printed is the answer once it has.
TimesOut(i) ==
  /\ mounted /\ runs[i].phase = "running" /\ runs' = [runs EXCEPT ![i].phase = "late", ![i].grace = TRUE]
  /\ UNCHANGED <<state, cache>> /\ Elsewhere
\* It printed something by then or nothing.
EndsLate(i, outcome) ==
  /\ mounted /\ runs[i].phase = "late" /\ ~runs[i].alive /\ Became(i, "done", FALSE)
  /\ Answer(i, outcome) /\ Elsewhere

\* An aborted run settles at once, its program perhaps later.
SettlesAborted(i, outcome) ==
  /\ mounted /\ runs[i].phase = "aborted" /\ Became(i, "done", runs[i].alive) /\ Answer(i, outcome) /\ Elsewhere

\* The program minds the first signal, or only the second.
Dies(i) == /\ runs[i].alive /\ runs[i].phase \in {"late", "aborted", "done"}
           /\ runs' = [runs EXCEPT ![i].alive = FALSE] /\ UNCHANGED <<state, cache>> /\ Elsewhere
(* A fault: a program that ignores the first signal is left alone. *)
OneSignal(i) == FALSE /\ UNCHANGED searchVars
\* The timer is the worker's: it goes with the thread.
KillAfterGrace(i) ==
  /\ mounted /\ runs[i].alive /\ runs[i].grace /\ runs[i].phase \in {"late", "aborted", "done"}
  /\ runs' = [runs EXCEPT ![i].alive = FALSE] /\ UNCHANGED <<state, cache>> /\ Elsewhere

----------------------------------------------------------------------------
(* Folders, and leaving. *)

\* enter: a view of the folder over the search, read once.
Enter(hit) ==
  /\ mounted /\ hit.dir /\ Len(browsing) < 2 /\ browsing' = Append(browsing, hit.path)
  /\ UNCHANGED <<query, trimmed, timer, state, generation, runs, cache, settings, mounted, typed>>
Pop == /\ browsing # <<>> /\ browsing' = Front(browsing)
       /\ UNCHANGED <<query, trimmed, timer, state, generation, runs, cache, settings, mounted, typed>>

\* A file or a folder handed to its program, a terminal that started: the panel
\* goes, and with it the command. The hook tells the last program to end and
\* forgets its answer, unless the thread is stopped before; either way the timers
\* of the worker are gone, and a program that does not mind is nobody's.
Leaves == /\ mounted' = FALSE /\ generation' = generation + 1 /\ timer' = FALSE
          /\ runs' \in {Aborted, runs}
          /\ UNCHANGED <<query, trimmed, state, cache, settings, browsing, typed>>
HandOff(hit) == mounted /\ settings.hideOnOpen /\ Leaves
OpenTerminal(hit) == mounted /\ Leaves

Rows == ToSet(FlattenSeq(Drawn))
NextSearch ==
  \/ \E t \in Texts : Type(t)
  \/ Settled \/ Pop
  \/ \E i \in DOMAIN runs :
       TimesOut(i) \/ Dies(i) \/ KillAfterGrace(i)
       \/ \E o \in {"all", "some", "error"} : Ends(i, o) \/ EndsLate(i, o) \/ SettlesAborted(i, o)
  \/ \E hit \in Rows : Enter(hit) \/ HandOff(hit) \/ OpenTerminal(hit)

SpecSearch == InitSearch /\ [][NextSearch]_searchVars
\* Timers of a command that is there fire; a program that was killed is gone and
\* its promise settles.
FairSearch ==
  /\ SpecSearch /\ WF_searchVars(Settled)
  /\ \A i \in 1..MaxTyped :
       /\ WF_searchVars(i \in DOMAIN runs /\ TimesOut(i))
       /\ WF_searchVars(i \in DOMAIN runs /\ KillAfterGrace(i))
       /\ WF_searchVars(i \in DOMAIN runs /\ \E o \in {"all", "some", "error"} : EndsLate(i, o) \/ SettlesAborted(i, o))

----------------------------------------------------------------------------
(* When the list says it is not loading, what it shows is the answer to the    *)
(* text in the box, in the order of the ranking; whatever was asked before,     *)
(* cached or ended meanwhile (search.tsx, the isLoading of its list).            *)
ShownIsAnswer ==
  /\ mounted /\ ~ShowsLoading /\ trimmed # "" /\ settings.tool # None =>
       state.error \/ (state.data # None /\ state.data.of = trimmed)
  /\ trimmed # "" /\ ~state.error => FlattenSeq(Drawn) = HitsOf(state.data, trimmed)

(* Every search ends, and while the command is there no program outlives the    *)
(* grace it was given, whether it minds the first signal or not. One that is left *)
(* running when the command goes may outlive it: the timer that would kill it is   *)
(* the worker's (exec.ts:91-96).                                                    *)
ProgramsGone == mounted => \A i \in DOMAIN runs : ~runs[i].alive
SearchEnds == <>[](state.loading => ~mounted) /\ <>[]ProgramsGone
================================================================================
