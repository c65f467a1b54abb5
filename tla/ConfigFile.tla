------------------------------ MODULE ConfigFile ----------------------------
(***************************************************************************)
(* config.toml, everyone who writes it and everyone who follows it          *)
(* (src/node/config-file.ts, src/cli/config-ui.ts, src/main/settings-ipc.ts,*)
(* src/main/settings-app.ts, src/main/daemon.ts).  The terminal menu reads  *)
(* the file once and rewrites its whole draft at each change; the settings  *)
(* window reads it anew for each; a person's editor replaces it or writes   *)
(* in place.  A write copies what is on disk to a backup, prunes the        *)
(* backups and renames a finished file into place.  The daemon and the      *)
(* settings window watch the directory and read the file again a while      *)
(* after the last event; the menu also asks the daemon to.  A text is the   *)
(* set of the changes it holds.                                             *)
(***************************************************************************)
EXTENDS Naturals, Sequences, FiniteSets

CONSTANTS
  Writers,     \* the programs of ours: the menu, the settings window
  Menu,        \* the one that keeps its document open
  Followers,   \* who watches the file
  Daemon,      \* the one the menu sends a reload
  Shown,       \* the one that is the settings window
  Kept,        \* BACKUPS_KEPT
  MaxChanges   \* bound: changes anyone makes

VARIABLES
  file,      \* what is on disk: state and changes it holds
  backups,   \* the texts of config.toml.bak-*, oldest first
  made,      \* changes made so far, numbered
  doc,       \* ConfigDocument of each writer, and its draft
  step,      \* how far its write is: "closed", "idle", "copied"
  crossed,   \* writers another write overtook between their copy and rename
  timer,     \* followers whose 120 ms are running
  conf,      \* what each follower last loaded
  verbs,     \* reloads on their way to the daemon
  push,      \* the newest snapshot for the settings page is on its way
  page,      \* what the settings page draws
  excused    \* history: changes lost in a way the code accepts

vars == <<file, backups, made, doc, step, crossed, timer, conf, verbs, push, page, excused>>

Changes == 1..MaxChanges
Nothing == [state |-> "absent", has |-> {}]
Closed == [existed |-> FALSE, original |-> {}, draft |-> {}]
\* loadConfig on what the reader got: no file, an unreadable one and one that
\* does not parse all load as the defaults.
Load(f) == IF f.state = "whole" THEN f.has ELSE {}

TypeOK ==
  /\ file \in [state : {"absent", "whole", "broken", "locked"}, has : SUBSET Changes]
  /\ backups \in Seq(SUBSET Changes) /\ Len(backups) <= Kept
  /\ made \in 0..MaxChanges
  /\ doc \in [Writers -> [existed : BOOLEAN, original : SUBSET Changes, draft : SUBSET Changes]]
  /\ step \in [Writers -> {"closed", "idle", "copied"}]
  /\ crossed \subseteq Writers /\ timer \subseteq Followers
  /\ conf \in [Followers -> SUBSET Changes]
  /\ verbs \in Nat /\ push \in BOOLEAN /\ page \subseteq Changes /\ excused \subseteq Changes

Init ==
  /\ file \in {Nothing, [state |-> "whole", has |-> {}]}
  /\ backups = <<>> /\ made = 0
  /\ doc = [w \in Writers |-> Closed] /\ step = [w \in Writers |-> "closed"]
  /\ crossed = {} /\ timer = {} /\ conf = [f \in Followers |-> {}]
  /\ verbs = 0 /\ push = FALSE /\ page = {} /\ excused = {}

\* The directory's watchers hear of a write, and a write between a writer's copy
\* and its rename is not in the copy.
Written == timer' = Followers
Crosses == crossed' = crossed \cup {w \in Writers : step[w] = "copied"}

\* readConfigDocument: a file that cannot be read is one that does not exist.
Document == [existed |-> file.state \in {"whole", "broken"},
             original |-> Load(file), draft |-> Load(file)]

(************************* writing by our programs ************************)
\* The menu opens: a file that does not parse is refused.
Open ==
  /\ step[Menu] = "closed" /\ file.state # "broken"
  /\ doc' = [doc EXCEPT ![Menu] = Document] /\ step' = [step EXCEPT ![Menu] = "idle"]
  /\ UNCHANGED <<file, backups, made, crossed, timer, conf, verbs, push, page, excused>>

\* The oldest of more than Kept backups is removed.
Pruned(b) == IF Len(b) > Kept THEN Tail(b) ELSE b

(* A fault: the backup is what the writer read, not what is on disk. *)
CopyWhatWasRead(w, d) ==
  /\ made < MaxChanges /\ made' = made + 1
  /\ ~(d.existed /\ file.state = "locked")
  /\ doc' = [doc EXCEPT ![w] = [d EXCEPT !.draft = d.draft \cup {made + 1}]]
  /\ step' = [step EXCEPT ![w] = "copied"] /\ crossed' = crossed \ {w}
  /\ backups' = IF d.existed THEN Pruned(Append(backups, d.original)) ELSE backups
  /\ excused' = excused \cup (IF Len(backups) = Kept /\ d.existed THEN Head(backups) ELSE {})
  /\ UNCHANGED <<file, timer, conf, verbs, push, page>>

\* writeConfigDocument up to the copy: what is on disk now is what is copied.
CopyAside(w, d) ==
  /\ made < MaxChanges /\ made' = made + 1
  /\ ~(d.existed /\ file.state = "locked")
  /\ doc' = [doc EXCEPT ![w] = [d EXCEPT !.draft = d.draft \cup {made + 1}]]
  /\ step' = [step EXCEPT ![w] = "copied"] /\ crossed' = crossed \ {w}
  /\ backups' = IF d.existed THEN Pruned(Append(backups, file.has)) ELSE backups
  /\ excused' = excused \cup (IF Len(backups) = Kept /\ d.existed THEN Head(backups) ELSE {})
  /\ UNCHANGED <<file, timer, conf, verbs, push, page>>

\* set of the menu: its whole draft is written, whatever the file says now.
MenuSets == step[Menu] = "idle" /\ CopyAside(Menu, doc[Menu])

\* The copy of a file that has become unreadable throws, and the menu ends.
MenuFails ==
  /\ step[Menu] = "idle" /\ doc[Menu].existed /\ file.state = "locked"
  /\ step' = [step EXCEPT ![Menu] = "closed"] /\ doc' = [doc EXCEPT ![Menu] = Closed]
  /\ UNCHANGED <<file, backups, made, crossed, timer, conf, verbs, push, page, excused>>

\* write of the settings window: read anew, refused if it does not parse.
WindowSets(w) ==
  /\ w # Menu /\ step[w] = "closed" /\ file.state # "broken"
  /\ CopyAside(w, Document)

(* A fault: the watch is on the file, which the rename replaces. *)
RenameUnseen(w) ==
  /\ step[w] = "copied"
  /\ file' = [state |-> "whole", has |-> doc[w].draft]
  /\ excused' = excused \cup (IF w \in crossed \/ ~doc[w].existed THEN file.has ELSE {})
  /\ doc' = [doc EXCEPT ![w] = IF w = Menu
               THEN [existed |-> TRUE, original |-> doc[w].draft, draft |-> doc[w].draft]
               ELSE Closed]
  /\ step' = [step EXCEPT ![w] = IF w = Menu THEN "idle" ELSE "closed"]
  /\ crossed' = (crossed \ {w}) \cup {v \in Writers \ {w} : step[v] = "copied"}
  /\ conf' = IF w = Menu THEN conf ELSE [conf EXCEPT ![Shown] = doc[w].draft]
  /\ push' = (push \/ w # Menu)
  /\ verbs' = IF w = Menu THEN verbs + 1 ELSE verbs
  /\ UNCHANGED <<backups, made, timer, page>>

\* The finished text is renamed into place, and the menu's reload is chained.
Rename(w) ==
  /\ step[w] = "copied"
  /\ file' = [state |-> "whole", has |-> doc[w].draft]
  /\ excused' = excused \cup (IF w \in crossed \/ ~doc[w].existed THEN file.has ELSE {})
  /\ doc' = [doc EXCEPT ![w] = IF w = Menu
               THEN [existed |-> TRUE, original |-> doc[w].draft, draft |-> doc[w].draft]
               ELSE Closed]
  /\ step' = [step EXCEPT ![w] = IF w = Menu THEN "idle" ELSE "closed"]
  /\ crossed' = (crossed \ {w}) \cup {v \in Writers \ {w} : step[v] = "copied"}
  /\ Written
  /\ conf' = IF w = Menu THEN conf ELSE [conf EXCEPT ![Shown] = doc[w].draft]
  /\ push' = (push \/ w # Menu)
  /\ verbs' = IF w = Menu THEN verbs + 1 ELSE verbs
  /\ UNCHANGED <<backups, made, page>>

\* leave: the reloads asked for are answered first.
Leave ==
  /\ step[Menu] = "idle" /\ verbs = 0
  /\ step' = [step EXCEPT ![Menu] = "closed"] /\ doc' = [doc EXCEPT ![Menu] = Closed]
  /\ UNCHANGED <<file, backups, made, crossed, timer, conf, verbs, push, page, excused>>

(******************************* other hands ******************************)
\* An editor saves a change, whole and valid or with a mistake in it.
HandSaves(state) ==
  /\ made < MaxChanges /\ made' = made + 1
  /\ file' = [state |-> state, has |-> file.has \cup {made + 1}]
  /\ Written /\ Crosses
  /\ UNCHANGED <<backups, doc, step, conf, verbs, push, page, excused>>

\* What was wrong with it, in its text or its permissions, is put right.
HandMends ==
  /\ file.state \in {"broken", "locked"}
  /\ file' = [file EXCEPT !.state = "whole"]
  /\ Written /\ Crosses
  /\ UNCHANGED <<backups, made, doc, step, conf, verbs, push, page, excused>>

\* Somebody else's tool leaves it unreadable.
Locks ==
  /\ file.state = "whole" /\ file' = [file EXCEPT !.state = "locked"]
  /\ Written /\ Crosses
  /\ UNCHANGED <<backups, made, doc, step, conf, verbs, push, page, excused>>

\* ensureConfigFile, for the row that opens it: comments alone, if there is none.
Ensure ==
  /\ file.state = "absent" /\ file' = [state |-> "whole", has |-> {}]
  /\ Written /\ Crosses
  /\ UNCHANGED <<backups, made, doc, step, conf, verbs, push, page, excused>>

(******************************* following ********************************)
\* The timer of a watcher ends: the file is read again.
Reload(f) ==
  /\ f \in timer /\ timer' = timer \ {f}
  /\ conf' = [conf EXCEPT ![f] = Load(file)]
  /\ push' = (push \/ f = Shown)
  /\ UNCHANGED <<file, backups, made, doc, step, crossed, verbs, page, excused>>

\* The daemon's reload verb, answered with what a reload could not apply.
ReloadVerb ==
  /\ verbs > 0 /\ verbs' = verbs - 1
  /\ conf' = [conf EXCEPT ![Daemon] = Load(file)]
  /\ UNCHANGED <<file, backups, made, doc, step, crossed, timer, push, page, excused>>

\* pushState: only the newest of the snapshots asked for reaches the page.
Pushed ==
  /\ push /\ push' = FALSE /\ page' = conf[Shown]
  /\ UNCHANGED <<file, backups, made, doc, step, crossed, timer, conf, verbs, excused>>

Hand == HandMends \/ Locks \/ Ensure \/ \E s \in {"whole", "broken"} : HandSaves(s)

Next ==
  \/ Open \/ MenuSets \/ MenuFails \/ Leave \/ Hand \/ ReloadVerb \/ Pushed
  \/ \E w \in Writers : WindowSets(w) \/ Rename(w)
  \/ \E f \in Followers : Reload(f)

Fairness ==
  /\ WF_vars(ReloadVerb) /\ WF_vars(Pushed)
  /\ \A w \in Writers : WF_vars(Rename(w))
  /\ \A f \in Followers : WF_vars(Reload(f))

Spec == Init /\ [][Next]_vars
FairSpec == Spec /\ Fairness

(******************************** properties ******************************)
(* No change anyone made is gone from the disk: it is in the file or in a   *)
(* backup, though the menu rewrites a draft that may be hours old.  What    *)
(* the code accepts to lose: a write that falls between another's copy and  *)
(* its rename, one to a file the writer took for absent when it read it,    *)
(* and the backups beyond the number kept.                                  *)
ChangesKept ==
  \A c \in 1..made :
    \/ c \in file.has \cup excused
    \/ \E i \in DOMAIN backups : c \in backups[i]
    \/ \E w \in Writers : step[w] = "copied" /\ c \in doc[w].draft

(* Whoever shows or uses the configuration comes to have what the file      *)
(* says, once it is left alone: through a rename, a write in place and a    *)
(* mistake mended, whether the daemon is told or only watches.              *)
Followed == /\ \A f \in Followers : []<>(conf[f] = Load(file))
            /\ []<>(page = Load(file))
=============================================================================
