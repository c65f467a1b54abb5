----------------------------- MODULE MCSettings -----------------------------
(***************************************************************************)
(* Whatever reads, shows or writes the settings, as one specification for  *)
(* TLC: a behaviour belongs to one of six instances, which share nothing  *)
(* but the names of their variables.                                       *)
(***************************************************************************)
EXTENDS Naturals, Sequences

CONSTANTS
  None, Bad,
  Writers, Menu, Followers, Daemon, WindowCopy, Kept, MaxWrites,   \* of ConfigFile
  BindLists, MaxTouches,                                 \* of Desktop
  Values, Few, Default, MaxSaves, MaxEdits, MaxDrafts,   \* of SettingField
  MaxCommits, MaxPresses, MaxFailures                    \* of Update

(* None is a value of its own: no save is it. *)
ASSUME NoneIsApart ==
  None \notin [id : Nat, value : Values \cup {Default, None, Bad}]

(* The daemon and the settings process follow the file; a backup is kept.   *)
ASSUME ConfigAssumption ==
  /\ Menu \in Writers /\ Daemon \in Followers /\ WindowCopy \in Followers
  /\ Kept \in Nat \ {0} /\ MaxWrites \in Nat

(* config.toml asks for one bind at least, the launcher's own, and for no     *)
(* more than there are ids here; a bind is a key and what it runs.            *)
ASSUME BindsAssumption ==
  /\ \E b \in BindLists : Len(b) = 1
  /\ \A b \in BindLists :
       Len(b) \in 1..3 /\ DOMAIN b = 1..Len(b) /\ \A i \in DOMAIN b : b[i][1] # None /\ b[i][2] # None

VARIABLE part    \* which of the instances below this behaviour is of
VARIABLES file, backups, made, doc, step, crossed, timer, conf, verbs, push, page, excused,
          screen, env, pick, did, edits, kind, owed, stirred, requests, replies, pushes,
          truth, pending, clears, draft, seen, chosen, problem, focused, saves, drafts, seed,
          window, config, entry, listed, live, edited, changes, plan, todo, asked, shown,
          baseline, attempted, applying, failed, install, remote, origin, head, dirty,
          built, daemon, job, check, confirming, outcome, agreed, broken, presses, failures,
          height, cursor

(* Two engines, three groups, rows of a plugin whose ids have in them what  *)
(* a key is made of or may not hold, keys and words in two spellings.       *)
RowIds == {<<"i">>, <<"i", ":">>, <<"i", "!", "x">>, <<"i", "'">>}
Chords == {"Ctrl+k", "ctrl+K", "Alt+x", "junk"}
Words == {"FF", "ff", "z"}
Screens == {"engines", "order", "files", "pins", "disabled", "hotkeys", "aliases", "keys", "number"}
(* The launcher's key alone, or with a plugin's key after it or before it.  *)
ThreeLists == {<<<<"k1", "toggle">>>>, <<<<"k1", "toggle">>, <<"k2", "x">>>>,
               <<<<"k2", "toggle">>, <<"k1", "x">>>>}

C == INSTANCE ConfigFile WITH MaxChanges <- MaxWrites, Shown <- WindowCopy
S == INSTANCE ConfigScreens WITH Engines <- {"google", "ddg"},
    DefaultEngines <- <<"google">>, Keywords <- {"w", "ddg"},
    Groups <- <<"apps", "files", "web">>, Categories <- <<"docs", "images", "music">>,
    Plugins <- {"p", "q"}, Spellings <- Chords,
    ChordOf <- [s \in Chords |-> CASE s = "ctrl+K" -> "Ctrl+k" [] s = "junk" -> None [] OTHER -> s],
    LowerOf <- [w \in Words |-> IF w = "FF" THEN "ff" ELSE w],
    Actions <- <<"open", "copy">>, DefaultKeys <- [open |-> <<"k0">>, copy |-> <<"k2">>],
    Numbers <- {1, 2}, DefaultNumber <- 1, Ids <- RowIds,
    Titles <- {<<"t">>, <<"t", "!">>}, MaxEdits <- 2
F == INSTANCE SettingField
D == INSTANCE Desktop WITH Kinds <- {"hyprland", "sway", "kde", "gnome"}, MaxChanges <- MaxTouches
U == INSTANCE Update
T == INSTANCE Menu WITH Kinds <- {"order", "entries"}, Items <- <<"apps", "files", "web">>,
    Heights <- {8, 24}, MaxRows <- 20, MaxText <- 1, MaxEntries <- 2, MaxAhead <- 2

configVars == <<file, backups, made, doc, step, crossed, timer, conf, verbs, push, page,
               excused>>
configRest == <<screen, env, pick, did, edits, kind, owed, stirred, requests, replies,
                pushes, truth, pending, clears, draft, seen, chosen, problem, focused,
                saves, drafts, seed, window, config, entry, listed, live, edited,
                changes, plan, todo, asked, shown, baseline, attempted, applying,
                failed, install, remote, origin, head, dirty, built, daemon, job, check,
                confirming, outcome, agreed, broken, presses, failures, height, cursor>>
screensRest == <<file, backups, made, step, crossed, timer, conf, verbs, push, page,
                 excused, kind, owed, stirred, requests, replies, pushes, truth,
                 pending, clears, draft, seen, chosen, problem, focused, saves, drafts,
                 seed, window, config, entry, listed, live, edited, changes, plan, todo,
                 asked, shown, baseline, attempted, applying, failed, install, remote,
                 origin, head, dirty, built, daemon, job, check, confirming, outcome,
                 agreed, broken, presses, failures, height, cursor>>
fieldRest == <<backups, made, doc, step, crossed, timer, verbs, push, page, excused,
               screen, env, pick, did, seed, window, config, entry, listed, live,
               edited, changes, plan, todo, asked, shown, baseline, attempted, applying,
               failed, install, remote, origin, head, dirty, built, daemon, job, check,
               confirming, outcome, agreed, broken, presses, failures, height, cursor>>
desktopVars == <<kind, seed, window, config, file, backups, entry, listed, live, made,
               edited, changes, plan, todo, asked, shown, baseline, attempted, applying,
               failed, excused>>
desktopRest == <<doc, step, crossed, timer, conf, verbs, push, page, screen, env, pick,
                 did, edits, owed, stirred, requests, replies, pushes, truth, pending,
                 clears, draft, seen, chosen, problem, focused, saves, drafts, install,
                 remote, origin, head, dirty, built, daemon, job, check, confirming,
                 outcome, agreed, broken, presses, failures, height, cursor>>
updateRest == <<file, backups, made, doc, step, crossed, timer, conf, verbs, push, page,
                excused, screen, env, pick, did, edits, kind, owed, stirred, requests,
                replies, pushes, truth, pending, clears, draft, seen, chosen, problem,
                focused, saves, drafts, seed, window, config, entry, listed, live,
                edited, changes, plan, todo, asked, shown, baseline, attempted,
                applying, failed, height, cursor>>
menuRest == <<file, backups, made, doc, step, crossed, timer, conf, verbs, push, page,
              excused, env, edits, owed, stirred, requests, replies, pushes, truth,
              clears, seen, chosen, focused, saves, drafts, seed, listed, edited,
              changes, plan, todo, asked, shown, baseline, attempted, applying, failed,
              install, remote, origin, head, dirty, built, daemon, job, check,
              confirming, outcome, agreed, broken, failures>>

(* The variables of the other instances stay out of the way. *)
Init ==
  \/ /\ part = "config" /\ C!Init
     /\ screen = None /\ env = None /\ pick = None /\ did = None /\ edits = None /\
        kind = None /\ owed = None /\ stirred = None /\ requests = None /\
        replies = None /\ pushes = None /\ truth = None /\ pending = None /\
        clears = None /\ draft = None /\ seen = None /\ chosen = None /\ problem = None /\
        focused = None /\ saves = None /\ drafts = None /\ seed = None /\
        window = None /\ config = None /\ entry = None /\ listed = None /\
        live = None /\ edited = None /\ changes = None /\ plan = None /\
        todo = None /\ asked = None /\ shown = None /\ baseline = None /\
        attempted = None /\ applying = None /\ failed = None /\ install = None /\
        remote = None /\ origin = None /\ head = None /\ dirty = None /\
        built = None /\ daemon = None /\ job = None /\ check = None /\
        confirming = None /\ outcome = None /\ agreed = None /\ broken = None /\
        presses = None /\ failures = None /\
        height = None /\ cursor = None
  \/ /\ part = "screens" /\ S!Init
     /\ file = None /\ backups = None /\ made = None /\ step = None /\ crossed = None /\
        timer = None /\ conf = None /\ verbs = None /\ push = None /\ page = None /\
        excused = None /\ kind = None /\ owed = None /\ stirred = None /\
        requests = None /\ replies = None /\ pushes = None /\ truth = None /\
        pending = None /\ clears = None /\ draft = None /\ seen = None /\ chosen = None /\
        problem = None /\ focused = None /\ saves = None /\ drafts = None /\
        seed = None /\ window = None /\ config = None /\ entry = None /\
        listed = None /\ live = None /\ edited = None /\ changes = None /\
        plan = None /\ todo = None /\ asked = None /\ shown = None /\
        baseline = None /\ attempted = None /\ applying = None /\ failed = None /\
        install = None /\ remote = None /\ origin = None /\ head = None /\
        dirty = None /\ built = None /\ daemon = None /\ job = None /\
        check = None /\ confirming = None /\ outcome = None /\ agreed = None /\
        broken = None /\ presses = None /\ failures = None /\
        height = None /\ cursor = None
  \/ /\ part = "field" /\ F!InitField
     /\ backups = None /\ made = None /\ doc = None /\ step = None /\ crossed = None /\
        timer = None /\ verbs = None /\ push = None /\ page = None /\
        excused = None /\ screen = None /\ env = None /\ pick = None /\
        did = None /\ seed = None /\ window = None /\ config = None /\
        entry = None /\ listed = None /\ live = None /\ edited = None /\
        changes = None /\ plan = None /\ todo = None /\ asked = None /\
        shown = None /\ baseline = None /\ attempted = None /\ applying = None /\
        failed = None /\ install = None /\ remote = None /\ origin = None /\
        head = None /\ dirty = None /\ built = None /\ daemon = None /\
        job = None /\ check = None /\ confirming = None /\ outcome = None /\
        agreed = None /\ broken = None /\ presses = None /\ failures = None /\
        height = None /\ cursor = None
  \/ /\ part = "desktop" /\ D!Init
     /\ doc = None /\ step = None /\ crossed = None /\ timer = None /\ conf = None /\
        verbs = None /\ push = None /\ page = None /\ screen = None /\ env = None /\
        pick = None /\ did = None /\ edits = None /\ owed = None /\
        stirred = None /\ requests = None /\ replies = None /\ pushes = None /\
        truth = None /\ pending = None /\ clears = None /\ draft = None /\
        seen = None /\ chosen = None /\ problem = None /\ focused = None /\ saves = None /\
        drafts = None /\ install = None /\ remote = None /\ origin = None /\
        head = None /\ dirty = None /\ built = None /\ daemon = None /\
        job = None /\ check = None /\ confirming = None /\ outcome = None /\
        agreed = None /\ broken = None /\ presses = None /\ failures = None /\
        height = None /\ cursor = None
  \/ /\ part = "update" /\ U!InitUpdate
     /\ file = None /\ backups = None /\ made = None /\ doc = None /\ step = None /\
        crossed = None /\ timer = None /\ conf = None /\ verbs = None /\
        push = None /\ page = None /\ excused = None /\ screen = None /\
        env = None /\ pick = None /\ did = None /\ edits = None /\ kind = None /\
        owed = None /\ stirred = None /\ requests = None /\ replies = None /\
        pushes = None /\ truth = None /\ pending = None /\ clears = None /\
        draft = None /\ seen = None /\ chosen = None /\ problem = None /\ focused = None /\
        saves = None /\ drafts = None /\ seed = None /\ window = None /\
        config = None /\ entry = None /\ listed = None /\ live = None /\
        edited = None /\ changes = None /\ plan = None /\ todo = None /\
        asked = None /\ shown = None /\ baseline = None /\ attempted = None /\
        applying = None /\ failed = None /\
        height = None /\ cursor = None
  \/ /\ part = "menu" /\ T!Init
     /\ file = None /\ backups = None /\ made = None /\ doc = None /\ step = None /\
        crossed = None /\ timer = None /\ conf = None /\ verbs = None /\
        push = None /\ page = None /\ excused = None /\ env = None /\ edits = None /\
        owed = None /\ stirred = None /\ requests = None /\ replies = None /\
        pushes = None /\ truth = None /\ clears = None /\ seen = None /\
        chosen = None /\ focused = None /\ saves = None /\ drafts = None /\
        seed = None /\ listed = None /\ edited = None /\ changes = None /\
        plan = None /\ todo = None /\ asked = None /\ shown = None /\
        baseline = None /\ attempted = None /\ applying = None /\ failed = None /\
        install = None /\ remote = None /\ origin = None /\ head = None /\
        dirty = None /\ built = None /\ daemon = None /\ job = None /\
        check = None /\ confirming = None /\ outcome = None /\ agreed = None /\
        broken = None /\ failures = None

Next ==
  /\ UNCHANGED part
  /\ \/ part = "config" /\ C!Next /\ UNCHANGED configRest
     \/ part = "screens" /\ S!Next /\ UNCHANGED screensRest
     \/ part = "field" /\ F!NextField /\ UNCHANGED fieldRest
     \/ part = "desktop" /\ D!Next /\ UNCHANGED desktopRest
     \/ part = "update" /\ U!NextUpdate /\ UNCHANGED updateRest
     \/ part = "menu" /\ T!Next /\ UNCHANGED menuRest

vars == <<part, file, backups, made, doc, step, crossed, timer, conf, verbs, push, page,
          excused, screen, env, pick, did, edits, kind, owed, stirred, requests,
          replies, pushes, truth, pending, clears, draft, seen, chosen, problem,
          focused, saves, drafts, seed, window, config, entry, listed, live, edited,
          changes, plan, todo, asked, shown, baseline, attempted, applying, failed,
          install, remote, origin, head, dirty, built, daemon, job, check, confirming,
          outcome, agreed, broken, presses, failures, height, cursor>>

(* What each instance relies on to go on; the module says why it may. *)
Fairness ==
  /\ WF_configVars(part = "config" /\ C!ReloadVerb)
  /\ WF_configVars(part = "config" /\ C!Pushed)
  /\ \A w \in Writers : WF_configVars(part = "config" /\ C!Rename(w))
  /\ \A f \in Followers : WF_configVars(part = "config" /\ C!Reload(f))
  /\ WF_desktopVars(part = "desktop" /\ D!RunCommand)
  /\ WF_desktopVars(part = "desktop" /\ D!PlanArrives)
  /\ WF_desktopVars(part = "desktop" /\ D!AutoApply)
  /\ WF_desktopVars(part = "desktop" /\ D!ApplyBind)

Spec == Init /\ [][Next]_vars /\ Fairness

-----------------------------------------------------------------------------
(* No change anyone made to config.toml is lost (ConfigFile!ChangesKept:    *)
(* node/config-file.ts writeConfigDocument, its backups and its rename).    *)
ChangesKept == part = "config" => C!ChangesKept

(* An edit made in the menu or the window does what it says and nothing     *)
(* else to what the loader makes of the file, and every key it writes reads *)
(* back as what was picked, but for a row whose id has a ! in it            *)
(* (cli/config-ui.ts, main/settings-ipc.ts, shared/config.ts; ConfigScreens *)
(* names this and the other exceptions).  In the terminal                   *)
(* no key typed ahead is lost or overtaken, an edit is of the row the       *)
(* highlight is on and shows, and nothing of a wizard left early is written *)
(* (cli/tui.ts Keys, Menu.list, wizard; Menu states each).                  *)
ScreensIntact ==
  /\ [](part = "screens" => S!KeysParseBack)
  /\ [][part = "screens" /\ edits' > edits /\ ~S!OnlySearches /\ ~S!OwnSwitch
          /\ ~S!Unclear(doc, did'[1]) /\ ~S!Unclear(doc', did'[1]) => S!OnlyThat]_vars
  /\ [](part = "menu" => T!KeysInOrder /\ T!HighlightShows)
  /\ [][part = "menu" => T!RowFollows /\ T!WholeEntries]_vars

(* Once everything has arrived, a control shows what config.toml says, or   *)
(* what is wrong with its draft (settings/useSettings.tsx useOptimistic).   *)
ShowsFile == part = "field" => F!ShowsFile

(* The files and shortcuts of the desktop hold what the plan said and       *)
(* nothing the person wrote is lost (platform/fix, Desktop!DesktopIntact).  *)
DesktopIntact == part = "desktop" => D!DesktopIntact

(* Nothing is built unasked, a launcher said to be restarted runs the       *)
(* update, and none is left on old code (node/update.ts, Update).           *)
UpdateIntact == part = "update" => U!UpdateIntact

(* Once the file is left alone, the daemon, the settings process and its    *)
(* page come to have what it says (main/daemon.ts watchConfigFile,          *)
(* main/settings-app.ts pushState), and the window that writes binds        *)
(* unasked comes to rest (settings/bind.tsx BindBanner).                    *)
SettingsSettle ==
  /\ \A f \in Followers : []<>(part = "config" => conf[f] = C!Load(file))
  /\ []<>(part = "config" => page = C!Load(file))
  /\ <>[](part = "desktop" => ~applying)
=============================================================================
