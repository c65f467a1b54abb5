----------------------------- MODULE PluginInstall -----------------------------
(***************************************************************************)
(* Installing plugins from a git repository: the local clone                *)
(* (src/store/plugin.ts), what is reviewed before the person says yes       *)
(* (src/cli/plugin.ts, the store of src/cli/plugins.ts, the settings        *)
(* window's inspectPlugin and installPlugin), and the build into the        *)
(* extensions directory (src/main/extensions/build.ts).  A terminal and the *)
(* settings window share one clone and one destination; either may be       *)
(* killed between any two steps.  Commit 0 stands for nothing.              *)
(***************************************************************************)
EXTENDS Naturals, FiniteSets, Sequences, SequencesExt

CONSTANTS
  Actors,     \* "terminal", "window"
  Dirs, Root, \* directories of the repository, and its root, one of them
  Names,      \* names of plugins
  Commands,   \* names of commands
  MaxCommit,  \* bound: commits of the repository
  MaxStarts,  \* bound: installs begun
  Manifest,   \* the plugin each directory holds at each commit, or NoPlugin
  NoPlugin

VARIABLES
  head,     \* the newest commit of the repository
  clone,    \* the local clone: initialised, has its remote, sparse on one
            \* directory, the commit fetched, the one each directory is
            \* checked out at, the directories npm has run in
  dest,     \* by plugin name, the commit of each thing installed, the directory
            \* it came from; history: clean, its manifest was written with no
            \* other install begun meanwhile
  acts,     \* each actor at its work
  starts    \* installs begun
installVars == <<head, clone, dest, acts, starts>>

Plugin(c, d) == IF c = 0 THEN NoPlugin ELSE Manifest[c][d]
Here(d) == Plugin(clone.tree[d], d)
NoDest == [manifest |-> 0, dir |-> Root, src |-> 0, signed |-> 0,
           bundles |-> [k \in Commands |-> 0], clean |-> TRUE]
NoClone == [git |-> FALSE, origin |-> FALSE, sparse |-> Root, got |-> 0,
            tree |-> [d \in Dirs |-> 0], packages |-> {}]
Idle == [pc |-> "idle", verb |-> "install", target |-> Root, source |-> Root, fresh |-> FALSE,
         commit |-> 0, dir |-> Root, name |-> "", deps |-> FALSE, todo |-> {}, built |-> {},
         rest |-> <<>>, queue |-> <<>>, alone |-> TRUE]

InitInstall ==
  /\ head = 1 /\ clone = NoClone /\ dest = [n \in Names |-> NoDest]
  /\ acts = [a \in Actors |-> Idle] /\ starts = 0

Busy(a) == acts[a].pc \notin {"idle", "done"}
Go(a, r) == acts' = [acts EXCEPT ![a] = r]
At(a, pc) == acts[a].pc = pc
Step(a, pc) == [acts[a] EXCEPT !.pc = pc]

\* parsePluginSource: owner/name and a plain https URL are the root, what a
\* browser shows of a directory is that directory; nothing else is taken.
Shapes == {"owner/name", "https", "browse", "http", "ssh"}
ParsePluginSource(shape, d) ==
  CASE shape \in {"owner/name", "https"} -> {Root}
    [] shape = "browse" -> {d}
    [] OTHER -> {}

\* plugin-install of a URL, the menu's store, the window's Fetch & review.
Start(a, target, deps) ==
  /\ ~Busy(a) /\ starts < MaxStarts /\ starts' = starts + 1
  /\ LET others == {b \in Actors \ {a} : Busy(b)} IN
     \E verb \in IF a = "window" THEN {"inspect"} ELSE {"install", "store"} :
       /\ deps => verb = "install"
       /\ acts' = [b \in Actors |->
            IF b = a THEN [Idle EXCEPT !.pc = "init", !.verb = verb, !.target = target,
                                       !.source = target, !.deps = deps, !.alone = others = {}]
            ELSE IF b \in others THEN [acts[b] EXCEPT !.alone = FALSE] ELSE Idle]
  /\ UNCHANGED <<head, clone, dest>>

\* The field of the window may be edited while the review is being fetched.
EditSource(a, target) ==
  /\ acts[a].verb = "inspect" /\ acts[a].pc \in {"init", "remote", "fetch", "review"}
  /\ target # acts[a].source /\ Go(a, [acts[a] EXCEPT !.source = target])
  /\ UNCHANGED <<head, clone, dest, starts>>

\* What a throw leads to: the next of a batch, or the end.
Prepared(r) ==
  IF r.rest # <<>> THEN [r EXCEPT !.pc = "init", !.target = Head(r.rest), !.rest = Tail(r.rest)]
  ELSE IF r.queue # <<>> THEN [r EXCEPT !.pc = "ask"] ELSE Idle
NextBuilt(r) ==
  IF r.verb # "batch" THEN Idle
  ELSE IF r.queue = <<>> THEN [r EXCEPT !.pc = "done"]
  ELSE LET p == Head(r.queue) IN
       [r EXCEPT !.pc = "build", !.dir = p.dir, !.commit = p.commit, !.name = p.name, !.queue = Tail(@)]

\* fetchPlugin: a clone with a .git is not a new one.
GitInit(a) ==
  /\ At(a, "init")
  /\ Go(a, [acts[a] EXCEPT !.fresh = ~clone.git, !.pc = IF clone.git THEN "fetch" ELSE "remote"])
  /\ clone' = [clone EXCEPT !.git = TRUE] /\ UNCHANGED <<head, dest, starts>>
AddRemote(a) == /\ At(a, "remote") /\ Go(a, Step(a, "fetch"))
                /\ clone' = [clone EXCEPT !.origin = clone.git] /\ UNCHANGED <<head, dest, starts>>

\* writeSparsePatterns: for a directory, and kept by the clone from then on.
Narrowed(target) == IF target = Root THEN clone ELSE [clone EXCEPT !.sparse = target]

\* The fetch, whose failure takes a new clone away again.
GitFetch(a) ==
  LET r == acts[a]  narrowed == Narrowed(r.target) IN
  /\ At(a, "fetch")
  /\ \/ /\ clone.git /\ clone.origin
        /\ clone' = [narrowed EXCEPT !.got = head] /\ Go(a, Step(a, "checkout"))
     \/ /\ clone' = IF r.fresh THEN NoClone ELSE narrowed
        /\ Go(a, IF r.verb = "batch" THEN Prepared(r) ELSE Idle)
  /\ UNCHANGED <<head, dest, starts>>

\* read-tree -mu FETCH_HEAD: the root's own files, and the directory the
\* patterns let in.
ReadTree(a) ==
  /\ At(a, "checkout")
  /\ IF clone.got = 0 THEN Go(a, IF acts[a].verb = "batch" THEN Prepared(acts[a]) ELSE Idle) /\ UNCHANGED clone
     ELSE /\ clone' = [clone EXCEPT !.tree = [d \in Dirs |->
               IF clone.sparse \in {Root, d} \/ d = Root THEN clone.got ELSE 0]]
          /\ Go(a, Step(a, "review"))
  /\ UNCHANGED <<head, dest, starts>>

\* findPluginDirectories, when a root URL's root is no plugin.
Candidates == {d \in Dirs \ {Root} : Here(d) # NoPlugin}
Chosen(target) ==
  IF target # Root \/ Here(Root) # NoPlugin THEN {target} ELSE Candidates

(* A fault: the window signs the commit it showed. *)
ShownCommit(r) == IF r.verb = "apply" THEN r.commit ELSE clone.got

\* git rev-parse FETCH_HEAD, which the provenance will name.
HeadCommit(r) == clone.got

\* What follows a review: of one plugin named to plugin-install, of one of a
\* batch, in the menu's store, in the window before its consent and after.
Refused(m) == m = NoPlugin \/ m.foreign
ReviewedToInstall(r, m) == IF Refused(m) THEN Idle ELSE [r EXCEPT !.pc = "ask"]
ReviewedInBatch(r, m) ==
  Prepared(IF Refused(m) \/ (m.deps /\ ~r.deps) THEN r
           ELSE [r EXCEPT !.queue = Append(@, [dir |-> r.dir, commit |-> r.commit, name |-> r.name])])
ReviewedInStore(r, m) == IF Refused(m) THEN Idle ELSE [r EXCEPT !.pc = "ask"]
InspectPlugin(r, m) == IF Refused(m) THEN Idle ELSE [r EXCEPT !.pc = "ask"]
InstallPlugin(r, m) == IF Refused(m) \/ (m.deps /\ ~r.deps) THEN Idle ELSE [r EXCEPT !.pc = "build"]

\* The directory is settled, its manifest read: before anything is built.
Review(a) ==
  LET r == acts[a]  dirs == Chosen(r.target)
      dir == CHOOSE d \in dirs : TRUE
      m == IF dirs = {} THEN NoPlugin ELSE Here(dir)
      seen == IF m = NoPlugin THEN r
              ELSE [r EXCEPT !.commit = HeadCommit(r), !.dir = dir, !.name = m.name] IN
  /\ At(a, "review")
  /\ Go(a, IF Cardinality(dirs) > 1
           THEN IF r.verb = "install" THEN [r EXCEPT !.pc = "choose", !.rest = SetToSeq(dirs)] ELSE Idle
           ELSE CASE r.verb = "batch" -> ReviewedInBatch(seen, m)
                  [] r.verb = "install" -> ReviewedToInstall(seen, m)
                  [] r.verb = "store" -> ReviewedInStore(seen, m)
                  [] r.verb = "inspect" -> InspectPlugin(seen, m)
                  [] r.verb = "apply" -> InstallPlugin(seen, m))
  /\ UNCHANGED <<head, clone, dest, starts>>

\* A repository of several plugins: the person picks one, or all of them.
Choose(a) ==
  LET r == acts[a] IN
  /\ At(a, "choose")
  /\ \/ \E d \in ToSet(r.rest) : Go(a, [r EXCEPT !.pc = "init", !.target = d, !.rest = <<>>])
     \/ Go(a, Prepared([r EXCEPT !.verb = "batch"]))
     \/ Go(a, Idle)
  /\ UNCHANGED <<head, clone, dest, starts>>

\* Yes: plugin-install builds, the menu lets npm in for a plugin that was said
\* to need packages, and the window, for such a plugin if the box was ticked,
\* starts again from its field.
Yes(r, needs) ==
  CASE r.verb = "batch" -> NextBuilt(r)
    [] r.verb = "install" -> [r EXCEPT !.pc = "build"]
    [] r.verb = "store" -> [r EXCEPT !.deps = needs, !.pc = "build"]
    [] OTHER -> [r EXCEPT !.verb = "apply", !.target = r.source, !.deps = needs, !.pc = "init"]
Answer(a) ==
  LET r == acts[a]  m == Here(r.dir) IN
  /\ At(a, "ask") /\ (Go(a, Idle) \/ Go(a, Yes(r, m # NoPlugin /\ m.deps)))
  /\ UNCHANGED <<head, clone, dest, starts>>

\* buildExtension reads the manifest again; npm runs where it is let, once.
InstallDependencies(r, m) == clone.packages \cup IF r.deps /\ m.deps THEN {r.dir} ELSE {}
BuildStart(a) ==
  LET r == acts[a]  m == Here(r.dir) IN
  /\ At(a, "build")
  /\ \/ /\ m # NoPlugin /\ ~m.foreign
        /\ Go(a, [r EXCEPT !.pc = "bundle", !.todo = m.commands, !.built = {}])
        /\ clone' = [clone EXCEPT !.packages = InstallDependencies(r, m)]
     \/ /\ (m # NoPlugin /\ ~m.foreign) => (r.deps /\ m.deps /\ r.dir \notin clone.packages)
        /\ Go(a, NextBuilt(r)) /\ UNCHANGED clone
  /\ UNCHANGED <<head, dest, starts>>

\* One command: bundled, or its failure noted and an older bundle left there.
Works(r, k) == LET m == Here(r.dir) IN
  m # NoPlugin /\ k \in m.builds /\ (m.deps => r.dir \in clone.packages)
Bundle(a, k) ==
  LET r == acts[a]  works == Works(r, k) IN
  /\ At(a, "bundle") /\ k \in r.todo
  /\ Go(a, [r EXCEPT !.todo = @ \ {k}, !.built = IF works THEN @ \cup {k} ELSE @])
  /\ dest' = IF works THEN [dest EXCEPT ![r.name].bundles[k] = clone.tree[r.dir]] ELSE dest
  /\ UNCHANGED <<head, clone, starts>>

Listing(r, tree) == [dest EXCEPT ![r.name].manifest = tree, ![r.name].dir = r.dir,
                                 ![r.name].clean = r.alone]

(* A fault: the manifest is written before its commands are built. *)
ManifestFirst(a) ==
  /\ At(a, "bundle")
  /\ Go(a, IF acts[a].todo = {} THEN Step(a, "clear") ELSE acts[a])
  /\ dest' = Listing(acts[a], clone.tree[acts[a].dir])
  /\ UNCHANGED <<head, clone, starts>>

\* The manifest, once every command has been tried.
WriteManifest(a) ==
  LET r == acts[a] IN
  /\ At(a, "bundle") /\ r.todo = {}
  /\ IF Here(r.dir) = NoPlugin THEN Go(a, NextBuilt(r)) /\ UNCHANGED dest
     ELSE /\ Go(a, Step(a, "clear"))
          /\ dest' = Listing(r, clone.tree[r.dir])
  /\ UNCHANGED <<head, clone, starts>>

\* The assets and the source are taken away, then copied.
ClearSource(a) == /\ At(a, "clear") /\ Go(a, Step(a, "copy"))
                  /\ dest' = [dest EXCEPT ![acts[a].name].src = 0]
                  /\ UNCHANGED <<head, clone, starts>>
CopySource(a) == /\ At(a, "copy") /\ Go(a, Step(a, "sign"))
                 /\ dest' = [dest EXCEPT ![acts[a].name].src = clone.tree[acts[a].dir]]
                 /\ UNCHANGED <<head, clone, starts>>

\* writeProvenance, and the daemon is told.  Where nothing was built only
\* plugin-install of one plugin signs it.
Sign(a) ==
  LET r == acts[a]  signs == r.built # {} \/ r.verb = "install" IN
  /\ At(a, "sign")
  /\ dest' = IF signs THEN [dest EXCEPT ![r.name].signed = r.commit] ELSE dest
  /\ Go(a, IF signs /\ r.verb # "batch" THEN Step(a, "done") ELSE NextBuilt(r))
  /\ UNCHANGED <<head, clone, starts>>

\* What may happen at any time: a push, the end of a process.
Push == head < MaxCommit /\ head' = head + 1 /\ UNCHANGED <<clone, dest, acts, starts>>
Killed(a) == Busy(a) /\ Go(a, Idle) /\ UNCHANGED <<head, clone, dest, starts>>

NextInstall ==
  \/ Push
  \/ \E a \in Actors :
       \/ \E d \in Dirs : EditSource(a, d)
       \/ \E d \in Dirs, shape \in Shapes, deps \in BOOLEAN :
            \E target \in ParsePluginSource(shape, d) : Start(a, target, deps)
       \/ GitInit(a) \/ AddRemote(a) \/ GitFetch(a) \/ ReadTree(a) \/ Review(a)
       \/ Choose(a) \/ Answer(a) \/ BuildStart(a) \/ (\E k \in Commands : Bundle(a, k))
       \/ WriteManifest(a) \/ ClearSource(a) \/ CopySource(a) \/ Sign(a) \/ Killed(a)
SpecInstall == InitInstall /\ [][NextInstall]_installVars

(* An install that ran to its end, with no other begun beside it, leaves     *)
(* the plugin of one commit, the one its provenance names: its manifest, its *)
(* source, and every command that can be built, whatever a killed install or *)
(* an older version had left there or in the clone.                          *)
InstalledWhole == \A a \in Actors :
  LET r == acts[a]  m == Manifest[r.commit][r.dir]  d == dest[r.name] IN
  (r.pc = "done" /\ r.verb # "batch" /\ r.alone) =>
     /\ r.name = m.name /\ d.manifest = r.commit /\ d.src = r.commit /\ d.signed = r.commit
     /\ r.built = {k \in m.builds : m.deps => r.dir \in clone.packages}
     /\ \A k \in r.built : d.bundles[k] = r.commit

(* A plugin the registry would list, its manifest being there, has a bundle  *)
(* for every command that can be built without packages, even when its       *)
(* install, or the one replacing it, was killed half way.                    *)
ListedRuns == \A n \in Names :
  LET d == dest[n]  m == Manifest[d.manifest][d.dir] IN
  (d.manifest # 0 /\ d.clean) => m # NoPlugin /\ (~m.deps => \A k \in m.builds : d.bundles[k] # 0)

InstallIntact == InstalledWhole /\ ListedRuns
================================================================================
