---------------------------- MODULE MCLaunching -----------------------------
(***************************************************************************)
(* What the panel finds and launches, as one specification for TLC: a      *)
(* behaviour belongs to one of seven instances, which share nothing but    *)
(* the names of their variables.                                           *)
(***************************************************************************)
EXTENDS Integers, Sequences, FiniteSets, TLC

CONSTANTS
  None, d1, d2, root, p1, p2,
  Queries, MaxEvents,                         \* of Launcher
  Names, Cmds, Bundled, Values, Unset, MaxChanges,   \* of PluginIndex
  Sid, Deadline, Floor, Ceiling, MaxAsks,     \* of Headless
  PluginDirs, PluginNames, PluginCmds,        \* of PluginInstall
  MaxCommit, MaxStarts, Repository,
  Items, MaxTime, MaxLaunches, RebaseAbove    \* of Frecency

VARIABLE part    \* which of the instances below this behaviour is of
VARIABLES shown, dialog, resized, loaded, page, asks, events, going, escape, query,
          installed, commands, settings, boosted, hidden, disk, done, index, mtimes, ever,
          booted, watched, deaf, pending, stirred, aged, now, table, epoch, stored, snapshot,
          rebasing, history, torn, head, clone, dest, acts, starts, disabled, applied,
          cached, timer, watching, launched, exports, changes, stage, answer, label, open,
          drain, busy, clock, age, plug, run, drawn, stop, wire, said, told, late

(* Words of letters 1 to 3, of one byte; 0 is the space, negatives are the  *)
(* same letters at the start of a word.                                     *)
Found(kind, id) == [kind |-> kind, id |-> id, title |-> <<1, 2>>, category |-> "", item |-> ""]
Apps ==
  {[id |-> "files", name |-> <<-1, 2, 3>>, keywords |-> <<2, 1>>, order |-> 1],
   [id |-> "draw", name |-> <<-2, 1, 0, -1, 2>>, keywords |-> <<3>>, order |-> 2],
   [id |-> "raycast", name |-> <<-1, 2, 2, 2, 2, 3, 1>>, keywords |-> <<>>, order |-> 3]}
Commands ==
  {[id |-> "settings", title |-> <<-1, 3>>, keywords |-> <<2, 2>>, plugin |-> FALSE, categories |-> {}, order |-> 4],
   [id |-> "emoji", title |-> <<-2, 2, 1>>, keywords |-> <<1>>, plugin |-> TRUE, categories |-> {"recent"}, order |-> 5]}
Web(id, keyword) == [id |-> id, keyword |-> keyword]
Plain == [order |-> <<"apps", "commands", "plugins", "web">>, pins |-> <<>>, aliases |-> <<>>, rules |-> <<>>,
          searches |-> <<Web("g", <<1>>), Web("w", <<2>>)>>, hotkeys |-> {}]
Pinned == [Plain EXCEPT !.pins = <<Found("web", "w"), Found("shell", "top"), Found("app", "draw"),
                                   [Found("item", "emoji") EXCEPT !.category = "recent", !.item = "smile"]>>,
                        !.aliases = <<[name |-> <<1>>, key |-> Found("bare", "draw")],
                                      [name |-> <<2, 1>>, key |-> Found("shell", "htop")]>>]
Ruled == [Plain EXCEPT
  !.order = <<"commands", "apps">>,
  !.rules = <<[match |-> <<2, 1>>, first |-> <<Found("shell", "ls"), Found("app", "files")>>, order |-> <<"web", "plugins">>],
              [match |-> <<1, 2, 1, 3>>, first |-> <<Found("web", "g")>>, order |-> <<>>]>>]

(* One of the plugins ships with the app as well. *)
Shipped == {<<"n1", "c">>}

(* Two plugins below the root of a repository; its second commit gives the  *)
(* one a second command and one that does not build, the other packages.    *)
Plugin(name, deps, cmds, builds) ==
  [name |-> name, foreign |-> FALSE, deps |-> deps, commands |-> cmds, builds |-> builds]
TwoPlugins == << (root :> None @@ p1 :> Plugin("one", FALSE, {"a"}, {"a"}) @@ p2 :> Plugin("two", FALSE, {"a"}, {"a"})),
                 (root :> None @@ p1 :> Plugin("one", FALSE, {"a", "b"}, {"b"}) @@ p2 :> Plugin("two", TRUE, {"a"}, {"a"})) >>

(* Each directory holds a plugin or none at each commit; a command that can *)
(* be bundled is one the manifest names.                                    *)
Plugins ==
  {m \in [name : PluginNames, foreign : BOOLEAN, deps : BOOLEAN,
          commands : SUBSET PluginCmds, builds : SUBSET PluginCmds] : m.builds \subseteq m.commands}
ASSUME RepositoryAssumption ==
  /\ IsFiniteSet(PluginDirs) /\ root \in PluginDirs /\ MaxCommit \in Nat \ {0}
  /\ Repository \in [1..MaxCommit -> [PluginDirs -> Plugins \cup {None}]]

(* Of the launch history: how many half-lives may pass is a number. *)
ASSUME HistoryAssumption == MaxTime \in Nat

L == INSTANCE Launcher
R == INSTANCE RootSearch WITH Letters <- 0..3, MaxQuery <- 4, Catalogue <- Apps,
    CommandSet <- Commands, Configs <- {Plain, Pinned, Ruled}, Sums <- {<<3, 3>>}
A == INSTANCE AppIndex WITH Dirs <- {d1, d2}, MaxFiles <- 3
H == INSTANCE Frecency
I == INSTANCE PluginInstall WITH Actors <- {"terminal", "window"}, Dirs <- PluginDirs,
    Root <- root, Names <- PluginNames, Commands <- PluginCmds, Manifest <- Repository,
    NoPlugin <- None
P == INSTANCE PluginIndex
U == INSTANCE Headless

listRest == <<query, installed, commands, settings, boosted, hidden, disk, done, index,
               mtimes, ever, booted, watched, deaf, pending, stirred, aged, now, table, epoch,
               stored, snapshot, rebasing, history, torn, head, clone, dest, acts, starts,
               disabled, applied, cached, timer, watching, launched, exports, changes,
               stage, answer, label, open, drain, busy, clock, age, plug, run, drawn, stop,
               wire, said, told, late>>
rootRest == <<shown, dialog, resized, loaded, page, asks, events, going, escape, disk, done,
               index, mtimes, ever, booted, watched, deaf, pending, stirred, aged, now, table,
               epoch, stored, snapshot, rebasing, history, torn, head, clone, dest, acts,
               starts, disabled, applied, cached, timer, watching, launched, exports,
               changes, stage, answer, label, open, drain, busy, clock, age, plug, run,
               drawn, stop, wire, said, told, late>>
appsVars == <<disk, done, index, mtimes, ever, booted, watched, deaf, pending, stirred, aged>>
appsRest == <<shown, dialog, resized, loaded, page, asks, events, going, escape, query,
               installed, commands, settings, boosted, hidden, now, table, epoch, stored,
               snapshot, rebasing, history, torn, head, clone, dest, acts, starts, disabled,
               applied, cached, timer, watching, launched, exports, changes, stage, answer,
               label, open, drain, busy, clock, age, plug, run, drawn, stop, wire, said,
               told, late>>
historyRest == <<shown, dialog, resized, loaded, page, asks, events, going, escape, query,
               installed, commands, settings, boosted, hidden, disk, done, index, mtimes,
               ever, booted, watched, deaf, pending, stirred, aged, head, clone, dest, acts,
               starts, disabled, applied, cached, timer, watching, launched, exports,
               changes, stage, answer, label, open, drain, busy, clock, age, plug, run,
               drawn, stop, wire, said, told, late>>
installRest == <<shown, dialog, resized, loaded, page, asks, events, going, escape, query,
               installed, commands, settings, boosted, hidden, disk, done, index, mtimes,
               ever, booted, watched, deaf, pending, stirred, aged, now, table, epoch, stored,
               snapshot, rebasing, history, torn, disabled, applied, cached, timer,
               watching, launched, exports, changes, stage, answer, label, open, drain,
               busy, clock, age, plug, run, drawn, stop, wire, said, told, late>>
pluginsVars == <<disk, disabled, applied, index, cached, page, stirred, timer, watching,
               launched, stored, exports, changes>>
pluginsRest == <<shown, dialog, resized, loaded, asks, events, going, escape, query,
               installed, commands, settings, boosted, hidden, done, mtimes, ever, booted,
               watched, deaf, pending, aged, now, table, epoch, snapshot, rebasing, history, torn,
               head, clone, dest, acts, starts, stage, answer, label, open, drain, busy,
               clock, age, plug, run, drawn, stop, wire, said, told, late>>
headlessVars == <<acts, stage, answer, label, open, drain, busy, clock, age, plug, run,
               drawn, stop, wire, page, asks, said, told, late>>
headlessRest == <<shown, dialog, resized, loaded, events, going, escape, query, installed,
               commands, settings, boosted, hidden, disk, done, index, mtimes, ever, booted,
               watched, deaf, pending, stirred, aged, now, table, epoch, stored, snapshot,
               rebasing, history, torn, head, clone, dest, starts, disabled, applied,
               cached, timer, watching, launched, exports, changes>>

(* The variables of the other instances stay out of the way. *)
Init ==
  \/ /\ part = "list" /\ L!InitLauncher
     /\ query = None /\ installed = None /\ commands = None /\ settings = None /\
        boosted = None /\ hidden = None /\ disk = None /\ done = None /\
        index = None /\ mtimes = None /\ ever = None /\ booted = None /\
        watched = None /\ deaf = None /\ pending = None /\ stirred = None /\ aged = None /\
        now = None /\ table = None /\ epoch = None /\ stored = None /\
        snapshot = None /\ rebasing = None /\ history = None /\ torn = None /\
        head = None /\ clone = None /\ dest = None /\ acts = None /\
        starts = None /\ disabled = None /\ applied = None /\ cached = None /\
        timer = None /\ watching = None /\ launched = None /\ exports = None /\
        changes = None /\ stage = None /\ answer = None /\ label = None /\
        open = None /\ drain = None /\ busy = None /\ clock = None /\ age = None /\
        plug = None /\ run = None /\ drawn = None /\ stop = None /\ wire = None /\
        said = None /\ told = None /\ late = None
  \/ /\ part = "root" /\ R!InitRoot
     /\ shown = None /\ dialog = None /\ resized = None /\ loaded = None /\ page = None /\
        asks = None /\ events = None /\ going = None /\ escape = None /\
        disk = None /\ done = None /\ index = None /\ mtimes = None /\
        ever = None /\ booted = None /\ watched = None /\ deaf = None /\ pending = None /\
        stirred = None /\ aged = None /\ now = None /\ table = None /\
        epoch = None /\ stored = None /\ snapshot = None /\ rebasing = None /\
        history = None /\ torn = None /\ head = None /\ clone = None /\
        dest = None /\ acts = None /\ starts = None /\ disabled = None /\
        applied = None /\ cached = None /\ timer = None /\ watching = None /\
        launched = None /\ exports = None /\ changes = None /\ stage = None /\
        answer = None /\ label = None /\ open = None /\ drain = None /\
        busy = None /\ clock = None /\ age = None /\ plug = None /\ run = None /\
        drawn = None /\ stop = None /\ wire = None /\ said = None /\ told = None /\
        late = None
  \/ /\ part = "apps" /\ A!InitIndex
     /\ shown = None /\ dialog = None /\ resized = None /\ loaded = None /\ page = None /\
        asks = None /\ events = None /\ going = None /\ escape = None /\
        query = None /\ installed = None /\ commands = None /\ settings = None /\
        boosted = None /\ hidden = None /\ now = None /\ table = None /\
        epoch = None /\ stored = None /\ snapshot = None /\ rebasing = None /\
        history = None /\ torn = None /\ head = None /\ clone = None /\
        dest = None /\ acts = None /\ starts = None /\ disabled = None /\
        applied = None /\ cached = None /\ timer = None /\ watching = None /\
        launched = None /\ exports = None /\ changes = None /\ stage = None /\
        answer = None /\ label = None /\ open = None /\ drain = None /\
        busy = None /\ clock = None /\ age = None /\ plug = None /\ run = None /\
        drawn = None /\ stop = None /\ wire = None /\ said = None /\ told = None /\
        late = None
  \/ /\ part = "history" /\ H!InitStore
     /\ shown = None /\ dialog = None /\ resized = None /\ loaded = None /\ page = None /\
        asks = None /\ events = None /\ going = None /\ escape = None /\
        query = None /\ installed = None /\ commands = None /\ settings = None /\
        boosted = None /\ hidden = None /\ disk = None /\ done = None /\
        index = None /\ mtimes = None /\ ever = None /\ booted = None /\
        watched = None /\ deaf = None /\ pending = None /\ stirred = None /\ aged = None /\
        head = None /\ clone = None /\ dest = None /\ acts = None /\
        starts = None /\ disabled = None /\ applied = None /\ cached = None /\
        timer = None /\ watching = None /\ launched = None /\ exports = None /\
        changes = None /\ stage = None /\ answer = None /\ label = None /\
        open = None /\ drain = None /\ busy = None /\ clock = None /\ age = None /\
        plug = None /\ run = None /\ drawn = None /\ stop = None /\ wire = None /\
        said = None /\ told = None /\ late = None
  \/ /\ part = "install" /\ I!InitInstall
     /\ shown = None /\ dialog = None /\ resized = None /\ loaded = None /\ page = None /\
        asks = None /\ events = None /\ going = None /\ escape = None /\
        query = None /\ installed = None /\ commands = None /\ settings = None /\
        boosted = None /\ hidden = None /\ disk = None /\ done = None /\
        index = None /\ mtimes = None /\ ever = None /\ booted = None /\
        watched = None /\ deaf = None /\ pending = None /\ stirred = None /\ aged = None /\
        now = None /\ table = None /\ epoch = None /\ stored = None /\
        snapshot = None /\ rebasing = None /\ history = None /\ torn = None /\
        disabled = None /\ applied = None /\ cached = None /\ timer = None /\
        watching = None /\ launched = None /\ exports = None /\ changes = None /\
        stage = None /\ answer = None /\ label = None /\ open = None /\
        drain = None /\ busy = None /\ clock = None /\ age = None /\ plug = None /\
        run = None /\ drawn = None /\ stop = None /\ wire = None /\ said = None /\
        told = None /\ late = None
  \/ /\ part = "plugins" /\ P!InitPlugins
     /\ shown = None /\ dialog = None /\ resized = None /\ loaded = None /\ asks = None /\
        events = None /\ going = None /\ escape = None /\ query = None /\
        installed = None /\ commands = None /\ settings = None /\ boosted = None /\
        hidden = None /\ done = None /\ mtimes = None /\ ever = None /\
        booted = None /\ watched = None /\ deaf = None /\ pending = None /\ aged = None /\
        now = None /\ table = None /\ epoch = None /\ snapshot = None /\
        rebasing = None /\ history = None /\ torn = None /\ head = None /\
        clone = None /\ dest = None /\ acts = None /\ starts = None /\
        stage = None /\ answer = None /\ label = None /\ open = None /\
        drain = None /\ busy = None /\ clock = None /\ age = None /\ plug = None /\
        run = None /\ drawn = None /\ stop = None /\ wire = None /\ said = None /\
        told = None /\ late = None
  \/ /\ part = "headless" /\ U!Init
     /\ shown = None /\ dialog = None /\ resized = None /\ loaded = None /\
        events = None /\ going = None /\ escape = None /\ query = None /\
        installed = None /\ commands = None /\ settings = None /\ boosted = None /\
        hidden = None /\ disk = None /\ done = None /\ index = None /\
        mtimes = None /\ ever = None /\ booted = None /\ watched = None /\ deaf = None /\
        pending = None /\ stirred = None /\ aged = None /\ now = None /\
        table = None /\ epoch = None /\ stored = None /\ snapshot = None /\
        rebasing = None /\ history = None /\ torn = None /\ head = None /\
        clone = None /\ dest = None /\ starts = None /\ disabled = None /\
        applied = None /\ cached = None /\ timer = None /\ watching = None /\
        launched = None /\ exports = None /\ changes = None

Next ==
  /\ UNCHANGED part
  /\ \/ part = "list" /\ L!NextLauncher /\ UNCHANGED listRest
     \/ part = "root" /\ R!NextRoot /\ UNCHANGED rootRest
     \/ part = "apps" /\ A!NextIndex /\ UNCHANGED appsRest
     \/ part = "history" /\ H!NextStore /\ UNCHANGED historyRest
     \/ part = "install" /\ I!NextInstall /\ UNCHANGED installRest
     \/ part = "plugins" /\ P!NextPlugins /\ UNCHANGED pluginsRest
     \/ part = "headless" /\ U!Next /\ UNCHANGED headlessRest

vars == <<part, shown, dialog, resized, loaded, page, asks, events, going, escape, query, installed,
          commands, settings, boosted, hidden, disk, done, index, mtimes, ever, booted,
          watched, deaf, pending, stirred, aged, now, table, epoch, stored, snapshot, rebasing,
          history, torn, head, clone, dest, acts, starts, disabled, applied, cached, timer,
          watching, launched, exports, changes, stage, answer, label, open, drain, busy,
          clock, age, plug, run, drawn, stop, wire, said, told, late>>

(* What each instance relies on to go on; the module says why it may. *)
Fairness ==
  /\ WF_appsVars(part = "apps" /\ A!Stir)
  /\ WF_appsVars(part = "apps" /\ A!Reindex)
  /\ WF_appsVars(part = "apps" /\ A!Boot)
  /\ WF_appsVars(part = "apps" /\ A!Age)
  /\ WF_pluginsVars(part = "plugins" /\ P!Notice)
  /\ WF_pluginsVars(part = "plugins" /\ P!RescanExtensions)
  /\ WF_headlessVars(part = "headless" /\ U!Tick /\ UNCHANGED acts)
  /\ \A s \in Sid : WF_headlessVars(part = "headless" /\ U!Goes(s) /\ UNCHANGED acts)
  /\ \A s \in Sid : WF_headlessVars(part = "headless" /\ U!Heard(s) /\ UNCHANGED acts)
  /\ \A s \in Sid : WF_headlessVars(part = "headless" /\ U!DrainCeiling(s) /\ UNCHANGED acts)

Spec == Init /\ [][Next]_vars /\ Fairness

-----------------------------------------------------------------------------
(* The list on the screen is the answer to what is typed, or nothing, never *)
(* that of something typed before (renderer/src/App.tsx, Launcher).         *)
ListIsOfQuery == part = "list" => L!ListIsOfQuery


(* Launches keep their order through the decay, a restart and the rebase of *)
(* the epoch (node/frecency-store.ts, Frecency).                            *)
ScoresKeepOrder == part = "history" => H!ScoresKeepOrder

(* What is installed is what was shown, and its commands are built or said  *)
(* not to be (store/plugin.ts, cli/plugin.ts, PluginInstall).               *)
InstallIntact == part = "install" => I!InstallIntact

(* Rows are those of the index and the settings as they are, and what is    *)
(* launched from old rows is there (main/extensions/registry.ts,            *)
(* PluginIndex).                                                            *)
RowsIntact == part = "plugins" => P!RowsIntact

(* No question of a headless command reaches the page, and an action heard  *)
(* to run keeps its worker until it returns (main/daemon.ts, Headless).     *)
HeadlessIntact == part = "headless" => U!AskedOnlyInWindows /\ U!ActionIsServed

(* The index of applications comes to list what the directories hold, if    *)
(* the panel is opened again and again, and what was edited in place unless *)
(* a directory nobody hears is counted as watched (main/search.ts); a       *)
(* plugin that was removed leaves the rows (registry.ts); a headless        *)
(* request ends and leaves nothing open (main/daemon.ts).                   *)
LaunchingSettles ==
  /\ WF_appsVars(part = "apps" /\ A!PanelShown) => <>[](part = "apps" => A!CaughtUp)
  /\ <>[](part = "plugins" => (watching => \A r \in index : r.bundled \/ disk[r.id[1]].there))
  /\ \A s \in Sid :
       (part = "headless" /\ stage[s] # "no")
         ~> (part = "headless" /\ stage[s] = "done" /\ answer[s] # "none" /\ s \notin label \cup open)
=============================================================================
