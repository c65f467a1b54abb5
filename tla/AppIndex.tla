-------------------------------- MODULE AppIndex --------------------------------
(***************************************************************************)
(* The index of applications and how it is kept fresh (SearchService of     *)
(* src/main/search.ts, buildAppIndex of src/platform/apps/index.ts): read   *)
(* at the start, after what a watcher saw, and when the panel is shown and  *)
(* the directories' modification times, or the index's age, say so.         *)
(***************************************************************************)
EXTENDS Naturals, FiniteSets

CONSTANTS
  Dirs,      \* directories that may hold applications
  MaxFiles   \* bound: changes to the directories

VARIABLES
  disk,      \* each directory: there, files added or removed, files changed in place
  done,      \* changes so far
  index, mtimes, ever, \* what was read, stamped when; whether it ever was
  booted, watched,     \* the service has started; the directories of its watchers
  deaf,      \* of those, the ones removed since: the watcher stays and hears nothing
  pending, stirred,    \* a reindex is armed; a watcher has something to report
  aged       \* a minute has passed since the index was built
indexVars == <<disk, done, index, mtimes, ever, booted, watched, deaf, pending, stirred, aged>>

Absent == [there |-> FALSE, added |-> 0, edited |-> 0]
Empty == [Absent EXCEPT !.there = TRUE]
InitIndex ==
  /\ disk \in [Dirs -> {Absent, Empty}] /\ done = 0
  /\ index = [d \in Dirs |-> Absent] /\ mtimes = [d \in Dirs |-> 0] /\ ever = FALSE
  /\ booted = FALSE /\ watched = {} /\ deaf = {} /\ pending = FALSE /\ stirred = FALSE /\ aged = FALSE

\* walk: a directory that is missing or unreadable is passed over.
Seen == [d \in Dirs |-> IF disk[d].there THEN disk[d] ELSE Absent]
Files == {d \in Dirs : disk[d].there}
Indexed == {d \in Dirs : index[d].there}

\* directoryMtimes: an addition or a removal moves it, an edit in place does not.
Mtimes == [d \in Dirs |-> IF disk[d].there THEN disk[d].added + 1 ELSE 0]

\* What happens on disk, and what a watcher there will report.  One whose
\* directory goes says so, and no more: the one made in its place is not watched.
Heard == watched \ deaf
Change(d) ==
  /\ done < MaxFiles /\ done' = done + 1
  /\ \/ disk' = [disk EXCEPT ![d] = [@ EXCEPT !.there = TRUE, !.added = @ + 1]] /\ UNCHANGED deaf
     \/ disk[d].there /\ disk' = [disk EXCEPT ![d].edited = @ + 1] /\ UNCHANGED deaf
     \/ /\ disk[d].there /\ disk' = [disk EXCEPT ![d] = [@ EXCEPT !.there = FALSE, !.added = @ + 1]]
        /\ deaf' = deaf \cup ({d} \cap watched)
  /\ stirred' = (stirred \/ (d \in Heard /\ disk[d].there))
  /\ UNCHANGED <<index, mtimes, ever, booted, watched, pending, aged>>

\* watch's callback: the reindex is armed, or armed again.
Stir == /\ stirred /\ stirred' = FALSE /\ pending' = TRUE
        /\ UNCHANGED <<disk, done, index, mtimes, ever, booted, watched, deaf, aged>>

(* A fault: one watcher counts for all of them. *)
NoneWatched == ~ever \/ Mtimes # mtimes \/ (watched = {} /\ Indexed # {} /\ aged)

\* refreshIfStale: never read, or a directory has changed, or it is old and
\* there are fewer watchers than directories.
Stale == ~ever \/ Mtimes # mtimes \/ (Cardinality(watched) < Cardinality(Indexed) /\ aged)

PanelShown == /\ booted /\ ~pending /\ Stale /\ pending' = TRUE
              /\ UNCHANGED <<disk, done, index, mtimes, ever, booted, watched, deaf, stirred, aged>>

(* A fault: stamped after it was read. *)
ReadThenStamp(before) ==
  /\ index' = [Seen EXCEPT ![before] = IF @.added > 0 /\ @.there THEN [@ EXCEPT !.added = @ - 1] ELSE @]
  /\ mtimes' = Mtimes /\ ever' = TRUE /\ aged' = FALSE

\* reindex: the directories are stamped, then read.  Of the change that may
\* land in between, in one of them, the stamp knows nothing.
Read(before) ==
  /\ mtimes' = [Mtimes EXCEPT ![before] = IF disk[before].added > 0 /\ @ > 0 THEN @ - 1 ELSE @]
  /\ index' = Seen /\ ever' = TRUE /\ aged' = FALSE

Reindex == /\ pending /\ pending' = FALSE /\ (\E d \in Dirs : Read(d))
           /\ UNCHANGED <<disk, done, booted, watched, deaf, stirred>>

\* Start-up: the first reading and the watchers, each of which may fail.
Boot ==
  /\ ~booted /\ booted' = TRUE
  /\ \/ (\E d \in Dirs : Read(d)) /\ watched' \in SUBSET Files
     \/ UNCHANGED <<index, mtimes, ever, aged, watched>>
  /\ UNCHANGED <<disk, done, deaf, pending, stirred>>

WatcherFails(d) == /\ d \in watched /\ watched' = watched \ {d} /\ deaf' = deaf \ {d}
                   /\ UNCHANGED <<disk, done, index, mtimes, ever, booted, pending, stirred, aged>>
Age == /\ ~aged /\ aged' = TRUE
       /\ UNCHANGED <<disk, done, index, mtimes, ever, booted, watched, deaf, pending, stirred>>

NextIndex == \/ \E d \in Dirs : Change(d) \/ WatcherFails(d)
             \/ Stir \/ Reindex \/ Boot \/ Age \/ PanelShown

SpecIndex == InitIndex /\ [][NextIndex]_indexVars

(* Timers fire, watchers report, and the person goes on opening the panel.  *)
FairIndex == SpecIndex /\ WF_indexVars(Stir) /\ WF_indexVars(Reindex) /\ WF_indexVars(Boot)
             /\ WF_indexVars(Age) /\ WF_indexVars(PanelShown)

(******************************* properties *******************************)
(* What is listed of the directories, whatever was edited in place.         *)
Listing(read) == [d \in Dirs |-> <<read[d].there, read[d].added>>]

(* A directory that no watcher hears, but as many watchers as directories:   *)
(* one that was watched is gone, or was made again (search.ts:299-310, 372).  *)
Miscounted == Indexed \ Heard # {} /\ Cardinality(watched) >= Cardinality(Indexed)

(* Once the directories are left alone, and the panel is opened now and     *)
(* then, what is installed is listed, whatever failed and whatever changed   *)
(* while it was read; and what was edited in place is read again, unless      *)
(* a directory nobody hears is counted as watched.                             *)
CaughtUp == Listing(index) = Listing(Seen) /\ (index = Seen \/ Miscounted)
CatchesUp == <>[]CaughtUp
=============================================================================
