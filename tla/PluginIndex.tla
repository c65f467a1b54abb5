------------------------------ MODULE PluginIndex ------------------------------
(***************************************************************************)
(* The plugins the daemon knows (src/main/extensions/registry.ts and the    *)
(* rescans of src/main/daemon.ts): an index of two directories that other   *)
(* programs write to, the rows made of it, and what is launched from those  *)
(* rows.  The menu (src/cli/plugins.ts) and the settings window remove      *)
(* plugins, turn them and their commands off and set their preferences      *)
(* (src/main/extensions/storage.ts); export makes a repository of one       *)
(* (src/cli/plugin-export.ts).                                              *)
(***************************************************************************)
EXTENDS Naturals, FiniteSets

CONSTANTS
  Names, Cmds,  \* plugins, and the commands each of them declares
  Bundled,      \* ids of commands of plugins that ship with the app
  Values,       \* values of a preference
  Unset,
  MaxChanges    \* bound: changes to the extensions directory and the settings

VARIABLES
  disk,      \* each directory: there, its manifest, the bundles in it
  disabled,  \* [extensions] disabled, in the file
  applied,   \* the same, as the daemon last read it
  index,     \* the daemon's index
  cached,    \* the rows last made, of which index and which disabled list
  page,      \* rows the panel shows
  stirred, timer, watching,  \* the watch on the directory, and its debounce
  launched,  \* the last launch: of what, was it there, with which preference
  stored,    \* preferences by plugin and command, "" for the plugin's own
  exports,   \* repositories made by export: their bundles are never part of them
  changes
pluginVars == <<disk, disabled, applied, index, cached, page, stirred, timer, watching,
                launched, stored, exports, changes>>

Gone == [there |-> FALSE, manifest |-> FALSE, bundles |-> {}]
Nothing == [row |-> {}, there |-> TRUE, value |-> Unset]

\* scanExtensions and mergeIndexes: a directory without a usable manifest, and
\* a command without a bundle, are left out; an installed plugin hides the
\* bundled one of its name.
Usable == {n \in Names : disk[n].manifest}
Row(id, bundled) == [id |-> id, bundled |-> bundled]
Scanned == {Row(id, FALSE) : id \in {c \in Usable \X Cmds : c[2] \in disk[c[1]].bundles}}
           \cup {Row(id, TRUE) : id \in {c \in Bundled : c[1] \notin Usable}}

Enabled(list, id) == id \notin list /\ <<id[1], "">> \notin list
RowsOf(i, list) == {r \in i : Enabled(list, r.id)}

InitPlugins ==
  /\ disk = [n \in Names |-> Gone] /\ disabled = {} /\ applied = {}
  /\ index = Scanned /\ cached = [index |-> {}, list |-> {}, rows |-> {}] /\ page = {}
  /\ stirred = FALSE /\ timer = FALSE /\ watching \in BOOLEAN /\ launched = Nothing
  /\ stored = [n \in Names |-> [k \in Cmds \cup {""} |-> Unset]] /\ exports = {} /\ changes = 0

Changed == changes < MaxChanges /\ changes' = changes + 1
Daemon == <<applied, index, cached, page, timer, watching, launched>>

(* A fault: only what appears is noticed. *)
StirNew(n) == stirred' = (stirred \/ (watching /\ ~disk[n].there))

\* The directory is watched, not what is inside a plugin.
Stir(n) == stirred' = (stirred \/ (watching /\ (disk[n].there # disk'[n].there)))

\* An install makes the directory, builds into it and writes the manifest; it
\* may end after any of the three.
InstallSome(n) ==
  /\ Changed
  /\ \E built \in SUBSET Cmds, whole \in BOOLEAN :
       disk' = [disk EXCEPT ![n] = [there |-> TRUE, manifest |-> @.manifest \/ whole,
                                    bundles |-> @.bundles \cup built]]
  /\ Stir(n) /\ UNCHANGED <<Daemon, disabled, stored, exports>>

\* The rows of the store: one is written, all of a plugin's are forgotten.
Written(n, k, v) == [stored EXCEPT ![n][k] = v]
Forgotten(n) == [stored EXCEPT ![n] = [k \in DOMAIN @ |-> Unset]]

\* remove by the menu clears what was off, and may forget what it stored; by
\* the window, or by hand, the directory only goes.
RemovePlugin(n) ==
  /\ disk[n].there /\ Changed /\ disk' = [disk EXCEPT ![n] = Gone] /\ Stir(n)
  /\ \/ UNCHANGED <<disabled, stored>>
     \/ /\ disabled' = {e \in disabled : e[1] # n}
        /\ \E forgot \in BOOLEAN :
             stored' = IF forgot THEN Forgotten(n) ELSE stored
  /\ UNCHANGED <<Daemon, exports>>

\* The menu's setEnabled and the window's setDisabledEntry: turning a plugin on
\* in the menu turns on its commands as well.
SetEnabled(n, k) ==
  /\ Changed
  /\ disabled' \in IF <<n, k>> \notin disabled THEN {disabled \cup {<<n, k>>}}
                   ELSE {disabled \ {<<n, k>>}, IF k = "" THEN {e \in disabled : e[1] # n}
                                                ELSE disabled \ {<<n, k>>}}
  /\ UNCHANGED <<Daemon, disk, stirred, stored, exports>>

SetPreference(n, k, v) ==
  /\ Changed /\ stored[n][k] # v /\ stored' = Written(n, k, v)
  /\ UNCHANGED <<Daemon, disk, disabled, stirred, exports>>

\* exportPlugin: what is installed with its source, and nothing is there yet.
ExportPlugin(n) ==
  /\ n \in Usable /\ n \notin exports /\ exports' = exports \cup {n}
  /\ UNCHANGED <<Daemon, disk, disabled, stirred, stored, changes>>

\* The watcher's callback arms the rescan, or arms it again; the rescan.
Notice == /\ stirred /\ stirred' = FALSE /\ timer' = TRUE
          /\ UNCHANGED <<disk, disabled, applied, index, cached, page, watching, launched, stored,
                         exports, changes>>
RescanExtensions == /\ timer /\ timer' = FALSE /\ index' = Scanned
                    /\ UNCHANGED <<disk, disabled, applied, cached, page, stirred, watching, launched,
                                   stored, exports, changes>>

\* The reload verb: the plugins, then the configuration.
Reload == /\ index' = Scanned /\ applied' = disabled
          /\ UNCHANGED <<disk, disabled, cached, page, stirred, timer, watching, launched, stored,
                         exports, changes>>

(* A fault: the rows are kept for as long as the index is. *)
RowsByIndex == IF cached.index = index /\ cached.rows # {} THEN cached
               ELSE [index |-> index, list |-> applied, rows |-> RowsOf(index, applied)]

\* cachedRootCommands: made again when the index or the disabled list is new.
CachedRows == IF cached.index = index /\ cached.list = applied THEN cached
              ELSE [index |-> index, list |-> applied, rows |-> RowsOf(index, applied)]

ListRows == /\ cached' = CachedRows /\ page' = CachedRows.rows
            /\ UNCHANGED <<disk, disabled, applied, index, stirred, timer, watching, launched, stored,
                           exports, changes>>

\* ExtensionStore.preferences: the command's value over the plugin's.
Preferences(n, k) == IF stored[n][k] # Unset THEN stored[n][k] ELSE stored[n][""]
\* resolvePreferences: of the command that is launched.
Preference(id) == Preferences(id[1], id[2])
OnDisk(r) == r.bundled \/ r.id[2] \in disk[r.id[1]].bundles

(* A fault: what the index holds is launched. *)
FoundInIndex(found) == found # {}

\* extensionCommand: one that is not in the index, or whose entry is gone, is
\* looked for in a new one.
Found(found) == found # {} /\ \A r \in found : OnDisk(r)

Launch(id) ==
  LET found == {r \in index : r.id = id}
      after == IF Found(found) THEN index ELSE Scanned
      run == {r \in after : r.id = id} IN
  /\ \E r \in page : r.id = id
  /\ index' = after
  /\ launched' = [row |-> run, there |-> \A r \in run : OnDisk(r),
                  value |-> IF run = {} THEN Unset ELSE Preference(id)]
  /\ UNCHANGED <<disk, disabled, applied, cached, page, stirred, timer, watching, stored, exports, changes>>

NextPlugins ==
  \/ \E n \in Names :
       \/ InstallSome(n) \/ RemovePlugin(n) \/ ExportPlugin(n)
       \/ \E k \in Cmds \cup {""} : SetEnabled(n, k) \/ (\E v \in Values : SetPreference(n, k, v))
       \/ \E k \in Cmds : Launch(<<n, k>>)
  \/ Notice \/ RescanExtensions \/ Reload \/ ListRows

SpecPlugins == InitPlugins /\ [][NextPlugins]_pluginVars
FairPlugins == SpecPlugins /\ WF_pluginVars(Notice) /\ WF_pluginVars(RescanExtensions)

(* The rows asked for now would be those of the index and the disabled list  *)
(* as they are, kept or not, one of each id; and what is launched from rows, *)
(* however old they are, is there to be run.                                 *)
RowsIntact ==
  /\ CachedRows.rows = RowsOf(index, applied)
  /\ \A r, t \in index : r.id = t.id => r = t
  /\ launched.there

(* Where the directory is watched, a plugin that was removed, or whose       *)
(* install never got to its manifest, does not stay in the index.            *)
NoGhosts == <>[](watching => \A r \in index : r.bundled \/ disk[r.id[1]].there)
================================================================================
