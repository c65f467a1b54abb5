---------------------------- MODULE MCSupervisor ----------------------------
(***************************************************************************)
(* The extension host, for TLC: its process and threads (Supervisor), or   *)
(* the tree that one of the threads draws (RenderTree).  The two share      *)
(* nothing, so a behaviour is of one of them.                               *)
(***************************************************************************)
EXTENDS Supervisor, TLC
CONSTANTS w1, w2, w3
ThreeThreads == {w1, w2, w3}
TwoDelays == <<1, 3>>
Symmetry == Permutations(ThreeThreads)

VARIABLE part    \* "threads" or "tree"
VARIABLES inst, dirty, treeHandlers, previous, revision, rejected, phase, mutations,
          commits, made, wire, heap, tree, held, snaps, presses, ran

(* What a row is drawn with: a title, a closure and a key, or a title that  *)
(* changed and something that cannot be sent.                               *)
Drawn(v, ref) == [kind |-> "v", v |-> v, ref |-> ref]
RowProps == {[title |-> Drawn("go", 1), onAction |-> [kind |-> "f", v |-> "closure"], key |-> Drawn("k", 1)],
             [title |-> Drawn("go", 2), bad |-> [kind |-> "bad", v |-> "x"]]}

T == INSTANCE RenderTree WITH ItemProps <- RowProps, Root <- 0, MaxNodes <- 5,
    MaxCommits <- 3, MaxMutations <- 3, MaxSnaps <- 1
treeVars == <<inst, dirty, treeHandlers, previous, revision, rejected, phase, mutations,
              commits, made, wire, heap, tree, held, snaps, presses, ran>>

HostInit ==
  /\ Init
  /\ \/ part = "tree" /\ T!InitTree
     \/ /\ part = "threads"
        /\ inst = None /\ dirty = None /\ treeHandlers = None /\ previous = None
           /\ revision = None /\ rejected = None /\ phase = None
           /\ mutations = None /\ commits = None /\ made = None /\ wire = None
           /\ heap = None /\ tree = None /\ held = None /\ snaps = None
           /\ presses = None /\ ran = None

HostNext ==
  /\ UNCHANGED part
  /\ \/ part = "threads" /\ Next /\ UNCHANGED treeVars
     \/ part = "tree" /\ T!NextTree /\ UNCHANGED vars

HostSpec == HostInit /\ [][HostNext]_<<part, vars, treeVars>>

(* What the daemon holds is what the command drew last, without a handler   *)
(* too many or too few (host/reconciler.ts, shared/render-patch.ts,         *)
(* RenderTree).                                                             *)
TreeIntact == part = "tree" => T!TreeIntact
=============================================================================
