-------------------------------- MODULE Frecency --------------------------------
(***************************************************************************)
(* The launch history (src/node/frecency-store.ts) and what a past launch   *)
(* counts for (src/shared/frecency.ts).  Time is in half-lives; a weight is *)
(* in units of 2^-MaxTime, so that every score is whole.  The daemon keeps a *)
(* snapshot of the table until it writes to it, and may be killed between   *)
(* the two statements of a rebase.                                          *)
(***************************************************************************)
EXTENDS Integers, FiniteSets, FiniteSetsExt

CONSTANTS
  Items,
  MaxTime, MaxLaunches,  \* bounds: half-lives that pass, launches of all items
  RebaseAbove            \* the score at which the epoch moves, in whole weights
VARIABLES
  now,
  table,     \* rows: score and last_used, or no row
  epoch, stored, \* the store's, and the one in meta
  snapshot,  \* what all() returns again, or none
  rebasing,  \* between the UPDATE and the INSERT
  history,   \* the launches there were: item and time, counted
  torn       \* history: killed in between
storeVars == <<now, table, epoch, stored, snapshot, rebasing, history, torn>>

Power[n \in 0..MaxTime] == IF n = 0 THEN 1 ELSE 2 * Power[n - 1]
NoRow == [score |-> 0, lastUsed |-> 0, there |-> FALSE]
Stale == [stale |-> TRUE]

InitStore ==
  /\ now = 0 /\ table = [i \in Items |-> NoRow] /\ epoch = 0 /\ stored = 0
  /\ snapshot = Stale /\ rebasing = FALSE
  /\ history = [i \in Items |-> [t \in 0..MaxTime |-> 0]] /\ torn = FALSE

Unit == Power[MaxTime]
\* launchWeight: one launch, as seen from the epoch.
LaunchWeight(at) == Unit * Power[at - epoch]
\* decay: what is left of a total after n half-lives; never from the future.
Decay(score, from, to) == IF to <= from THEN score ELSE score \div Power[to - from]

Total == SumFunction([i \in Items |-> SumFunction(history[i])])

(* A fault: the snapshot outlives a write. *)
KeepSnapshot(i) == table' = [table EXCEPT ![i] = [score |-> @.score + LaunchWeight(now), lastUsed |-> now, there |-> TRUE]]
                   /\ UNCHANGED snapshot

\* record: the upsert, and the snapshot is dropped; then maybeRebase.
Upsert(i) == table' = [table EXCEPT ![i] = [score |-> @.score + LaunchWeight(now), lastUsed |-> now, there |-> TRUE]]
             /\ snapshot' = Stale

Record(i) ==
  /\ ~rebasing /\ Total < MaxLaunches
  /\ history' = [history EXCEPT ![i][now] = @ + 1] /\ Upsert(i)
  /\ rebasing' = (table'[i].score >= RebaseAbove * Unit)
  /\ UNCHANGED <<now, epoch, stored, torn>>

(* A fault: the store goes on with the epoch it had. *)
OldEpoch ==
  /\ rebasing /\ rebasing' = FALSE
  /\ stored' = now /\ snapshot' = Stale
  /\ table' = [i \in Items |-> [table[i] EXCEPT !.score = Decay(@, epoch, now)]]
  /\ UNCHANGED <<now, epoch, history, torn>>

\* maybeRebase: every score seen from now, then the epoch is now.
Rebase ==
  /\ rebasing /\ rebasing' = FALSE
  /\ epoch' = now /\ stored' = now /\ snapshot' = Stale
  /\ table' = [i \in Items |-> [table[i] EXCEPT !.score = Decay(@, epoch, now)]]
  /\ UNCHANGED <<now, history, torn>>

\* The daemon ends: anywhere, and between the two statements.
Restart ==
  /\ epoch' = stored /\ snapshot' = Stale /\ rebasing' = FALSE
  /\ IF rebasing
     THEN /\ torn' = (torn \/ epoch # now)
          /\ table' = [i \in Items |-> [table[i] EXCEPT !.score = Decay(@, epoch, now)]]
     ELSE UNCHANGED <<table, torn>>
  /\ UNCHANGED <<now, stored, history>>

\* all.
All == /\ ~rebasing /\ snapshot = Stale
       /\ snapshot' = [stale |-> FALSE, rows |-> table]
       /\ UNCHANGED <<now, table, epoch, stored, rebasing, history, torn>>

Forget(i) == /\ ~rebasing /\ table[i].there
             /\ table' = [table EXCEPT ![i] = NoRow] /\ snapshot' = Stale
             /\ history' = [history EXCEPT ![i] = [t \in 0..MaxTime |-> 0]]
             /\ UNCHANGED <<now, epoch, stored, rebasing, torn>>

Pass == now < MaxTime /\ ~rebasing /\ now' = now + 1
        /\ UNCHANGED <<table, epoch, stored, snapshot, rebasing, history, torn>>

NextStore == Rebase \/ Restart \/ All \/ Pass \/ \E i \in Items : Record(i) \/ Forget(i)
SpecStore == InitStore /\ [][NextStore]_storeVars

(******************************* properties *******************************)
\* The sum of what the launches are worth now.
Worth(i) == SumFunction([t \in 0..MaxTime |-> IF t > now THEN 0 ELSE history[i][t] * Power[MaxTime - now + t]])

(* The scores that are read keep the order of the sums, through rebases and *)
(* restarts; only a kill between the statements of a rebase loses it.       *)
ReadInOrder ==
  ~torn /\ snapshot # Stale =>
    \A i, j \in Items : snapshot.rows[i].score > snapshot.rows[j].score <=> Worth(i) > Worth(j)

\* rank, for an empty query or between equal matches: by what is left.
Rank(i) == Decay(snapshot.rows[i].score, snapshot.rows[i].lastUsed, now)

(* Of two rows launched last at the same time, the one of greater frecency  *)
(* ranks no lower.  (Of two launched last at different times it may: the    *)
(* decay is applied to totals that the epoch has weighed already.)          *)
RanksByWorth ==
  ~torn /\ snapshot # Stale =>
    \A i, j \in Items :
      snapshot.rows[i].lastUsed = snapshot.rows[j].lastUsed /\ Worth(i) > Worth(j) => Rank(i) >= Rank(j)

ScoresKeepOrder == ReadInOrder /\ RanksByWorth
=============================================================================
