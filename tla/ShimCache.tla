------------------------------- MODULE ShimCache --------------------------------
(***************************************************************************)
(* Cache, of the library an extension imports (src/api-shim/system.ts): a      *)
(* store in the worker's memory for each file, written through a temporary       *)
(* file some time after a change. The workers of one extension are threads of     *)
(* one process, each with a store of its own of the same file.                     *)
(***************************************************************************)
EXTENDS Naturals, Sequences, FiniteSets, SequencesExt

CONSTANTS
  Workers, Keys, Sizes, \* the sessions of one extension; what they store, by size
  Capacity, None,
  MaxChanges   \* bound: changes made

VARIABLES
  store,     \* store[w]: data, timer, dirty; or none before the first Cache
  file,      \* what is on the disk: the data, none, or not to be parsed
  temp,      \* the temporary file, named by the process: one for all
  saving,    \* saving[w]: where persistNow is
  failed,    \* failed[w]: the last write failed
  gone,      \* keys removed for good and not set since
  cacheSteps
cacheVars == <<store, file, temp, saving, failed, gone, cacheSteps>>

Empty == [order |-> <<>>, entries |-> [k \in {} |-> 0]]
Damaged == [order |-> <<None>>, entries |-> [k \in {} |-> 0]]

SizeOf(entries) == SumFunction(entries)
Drop(entries, k) == [x \in DOMAIN entries \ {k} |-> entries[x]]

\* evict: the oldest go until the rest fits, or one is left.
Evict(data) ==
  LET Try(n) == [order |-> SubSeq(data.order, n + 1, Len(data.order)),
                 entries |-> [k \in ToSet(SubSeq(data.order, n + 1, Len(data.order))) |-> data.entries[k]]]
      fits == {n \in 0..Len(data.order) : SizeOf(Try(n).entries) <= Capacity \/ Len(data.order) - n <= 1}
  IN Try(CHOOSE n \in fits : \A m \in fits : n <= m)

\* load: what does not parse, and what is not there, is an empty cache.
Load == IF file \in {None, Damaged} THEN Empty ELSE file

InitCache ==
  /\ store = [w \in Workers |-> None] /\ file = None /\ temp = None
  /\ saving = [w \in Workers |-> "no"] /\ failed = [w \in Workers |-> FALSE]
  /\ gone = {} /\ cacheSteps = 0

Sync(w) == saving[w] = "no"
Filling == {"to fill", "to fill file", "to fill nothing"}
Opened(w) == store[w] # None

\* storeFor: one store for one file, read once.
StoreFor(w) ==
  /\ ~Opened(w) /\ Sync(w) /\ store' = [store EXCEPT ![w] = [data |-> Load, timer |-> FALSE, dirty |-> FALSE]]
  /\ failed' = [failed EXCEPT ![w] = FALSE]
  /\ UNCHANGED <<file, temp, saving, gone, cacheSteps>>

Changes(w) == Opened(w) /\ Sync(w) /\ cacheSteps < MaxChanges /\ cacheSteps' = cacheSteps + 1
\* persistNow begins: no timer is left.
Persisting(w, data) ==
  /\ store' = [store EXCEPT ![w] = [data |-> data, timer |-> FALSE, dirty |-> TRUE]]
  /\ saving' = [saving EXCEPT ![w] = "to open"]
(* A fault: a removal is written when the next write is. *)
Scheduled(w, data) ==
  store' = [store EXCEPT ![w] = [data |-> data, timer |-> TRUE, dirty |-> TRUE]] /\ UNCHANGED saving
\* A deletion never waits.
Deletes(w, data) == Persisting(w, data)

\* set: the key is the newest; written at once or after a delay.
Set(w, k, size, soon) ==
  /\ Changes(w)
  /\ LET data == store[w].data
         after == Evict([order |-> Append(RemoveFirst(data.order, k), k),
                         entries |-> [x \in DOMAIN data.entries \cup {k} |-> IF x = k THEN size ELSE data.entries[x]]])
     IN IF soon THEN Persisting(w, after) ELSE Scheduled(w, after)
  /\ gone' = gone \ {k} /\ UNCHANGED <<file, temp, failed>>
RemoveKey(w, k) ==
  /\ Changes(w) /\ k \in DOMAIN store[w].data.entries
  /\ Deletes(w, [order |-> RemoveFirst(store[w].data.order, k), entries |-> Drop(store[w].data.entries, k)])
  /\ gone' = gone \cup {k} /\ UNCHANGED <<file, temp, failed>>
Clear(w) ==
  /\ Changes(w) /\ Deletes(w, Empty)
  /\ gone' = gone \cup DOMAIN store[w].data.entries /\ UNCHANGED <<file, temp, failed>>
\* schedulePersist's timer.
Fires(w) == /\ Opened(w) /\ Sync(w) /\ store[w].timer
            /\ store' = [store EXCEPT ![w].timer = FALSE] /\ saving' = [saving EXCEPT ![w] = "to open"]
            /\ UNCHANGED <<file, temp, failed, gone, cacheSteps>>

\* writeFileSync: the temporary is emptied, then filled; or the disk is full.
Opens(w) == /\ saving[w] = "to open" /\ saving' = [saving EXCEPT ![w] = "to fill"] /\ temp' = Damaged
            /\ UNCHANGED <<store, file, failed, gone, cacheSteps>>
\* What was opened is filled, under whatever name it has by now.
Fills(w) ==
  /\ saving[w] \in Filling /\ saving' = [saving EXCEPT ![w] = "to rename"]
  /\ temp' = IF saving[w] = "to fill" THEN store[w].data ELSE temp
  /\ file' = IF saving[w] = "to fill file" THEN store[w].data ELSE file
  /\ UNCHANGED <<store, failed, gone, cacheSteps>>
\* renameSync: whatever is in the temporary by now; an error when another took it.
Renames(w) ==
  /\ saving[w] = "to rename"
  /\ IF temp = None
     THEN /\ saving' = [saving EXCEPT ![w] = "no"] /\ failed' = [failed EXCEPT ![w] = TRUE]
          /\ UNCHANGED <<store, file, temp>>
     ELSE /\ file' = temp /\ temp' = None /\ store' = [store EXCEPT ![w].dirty = FALSE]
          /\ failed' = [failed EXCEPT ![w] = FALSE]
          /\ saving' = [v \in Workers |-> IF v = w THEN "no"
                                          ELSE IF saving[v] = "to fill" THEN "to fill file"
                                          ELSE IF saving[v] = "to fill file" THEN "to fill nothing" ELSE saving[v]]
  /\ UNCHANGED <<gone, cacheSteps>>
\* A write that fails owes still; what was removed is then not removed for good.
Fails(w) ==
  /\ saving[w] \in {"to open"} \cup Filling /\ saving' = [saving EXCEPT ![w] = "no"]
  /\ failed' = [failed EXCEPT ![w] = TRUE] /\ gone' = {} /\ UNCHANGED <<store, file, temp, cacheSteps>>

\* teardown: flushCaches, and the worker ends; or it is killed at any moment.
Flushes(w) == /\ Opened(w) /\ Sync(w)
              /\ IF store[w].dirty
                 THEN /\ store' = [store EXCEPT ![w].timer = FALSE] /\ saving' = [saving EXCEPT ![w] = "to open"]
                 ELSE store' = [store EXCEPT ![w] = None] /\ UNCHANGED saving
              /\ UNCHANGED <<file, temp, failed, gone, cacheSteps>>
Killed(w) == /\ Opened(w) /\ store' = [store EXCEPT ![w] = None] /\ saving' = [saving EXCEPT ![w] = "no"]
             /\ gone' = IF Sync(w) THEN gone ELSE {}
             /\ UNCHANGED <<file, temp, failed, cacheSteps>>

NextCache ==
  \E w \in Workers :
    \/ StoreFor(w) \/ Clear(w) \/ Fires(w) \/ Opens(w) \/ Fills(w) \/ Renames(w) \/ Fails(w) \/ Flushes(w) \/ Killed(w)
    \/ \E k \in Keys : RemoveKey(w, k) \/ \E size \in Sizes, soon \in BOOLEAN : Set(w, k, size, soon)
SpecCache == InitCache /\ [][NextCache]_cacheVars

----------------------------------------------------------------------------
(* What was removed does not come back from the disk, whatever was pending         *)
(* when it was removed and wherever the worker ended (system.ts, "A deletion         *)
(* never waits").                                                                     *)
RemovedStaysGone ==
  (\A w \in Workers : Sync(w)) /\ file # None => \A k \in gone : k \notin DOMAIN file.entries

(* The file can be read at every moment, half a write and a killed worker              *)
(* included ("one crash away from being unparseable JSON").                             *)
Parses == file # Damaged

(* What changed and is not on the disk has a timer, or a write that failed; and           *)
(* what is kept was used last, as much of it as fits.                                      *)
OwedIsScheduled ==
  \A w \in Workers : Opened(w) /\ Sync(w) =>
    /\ store[w].dirty => store[w].timer \/ failed[w]
    /\ LET data == store[w].data
       IN /\ ToSet(data.order) = DOMAIN data.entries /\ IsInjective(data.order)
          /\ SizeOf(data.entries) <= Capacity \/ Len(data.order) = 1

CacheIntact == RemovedStaysGone /\ Parses /\ OwedIsScheduled
================================================================================
