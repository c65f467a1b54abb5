------------------------------- MODULE RenderTree -------------------------------
(***************************************************************************)
(* From React to the document the daemon holds: the host configuration        *)
(* (src/host/reconciler.ts) changes instances in place, a commit that changed    *)
(* something is serialised (src/host/tree.ts), compared with the last one         *)
(* (fast-json-patch, from host/worker.ts) and sent, and main applies the batch       *)
(* to objects it shares with what it handed out (src/shared/render-patch.ts).         *)
(* A document is JSON: [prim], [arr] or [obj].                                          *)
(***************************************************************************)
EXTENDS Naturals, Sequences, FiniteSets, SequencesExt, Functions

CONSTANTS
  ItemProps,   \* what the command gives a row, without closures: sets of props
  Root, None,
  MaxNodes, MaxCommits, MaxMutations, MaxSnaps  \* bounds

VARIABLES
  inst,        \* the instances: type, props, children, or a text
  dirty,       \* something changed since the last commit
  treeHandlers, \* handler id -> the closure it runs
  previous,    \* the last document serialised
  revision,
  rejected,    \* props that could not cross, each reported once
  phase, mutations, commits, made, \* where React is, and what it made and did not place
  wire,        \* batches on their way to main
  heap, tree, held,  \* main's objects, the address of its tree, its revision
  snaps,       \* trees handed out, and what they said then
  presses, ran \* events on their way back, and what the last one ran
treeVars == <<inst, dirty, treeHandlers, previous, revision, rejected, phase, mutations, commits, made,
              wire, heap, tree, held, snaps, presses, ran>>

Prim(v) == [prim |-> v]
Obj(f) == [obj |-> f]
Arr(s) == [arr |-> s]
IsArr(j) == "arr" \in DOMAIN j
IsContainer(j) == "prim" \notin DOMAIN j
Of(j) == IF IsArr(j) THEN j.arr ELSE j.obj
With(j, inner) == IF IsArr(j) THEN Arr(inner) ELSE Obj(inner)
Without(f, k) == [x \in DOMAIN f \ {k} |-> f[x]]
Put(f, k, v) == [x \in DOMAIN f \cup {k} |-> IF x = k THEN v ELSE f[x]]

----------------------------------------------------------------------------
(* What a commit looks like: props are plain values ("v"), closures ("f"),     *)
(* values that cannot cross ("bad") or rebuilt ones that say the same           *)
(* (another "ref").                                                              *)

IsText(i) == "text" \in DOMAIN inst[i]
HandlerId(i, prop) == <<i, prop>>
NeverSerialized == {"key"}

\* encodeValue and encodeProps: the keys that are never sent and what cannot
\* cross are left out, a closure becomes a reference to its handler.
EncodeProps(i) ==
  LET props == inst[i].props
      Crosses(k) == k \notin NeverSerialized /\ props[k].kind # "bad"
  IN [k \in {k \in DOMAIN props : Crosses(k)} |->
        IF props[k].kind = "f" THEN Obj([handler |-> Prim(HandlerId(i, k))]) ELSE Prim(props[k].v)]

\* serializeTree, the walk.
RECURSIVE Serialize(_)
Serialize(i) ==
  IF IsText(i) THEN Obj([id |-> Prim(i), text |-> Prim(inst[i].text)])
  ELSE Obj([id |-> Prim(i), type |-> Prim(inst[i].type), props |-> Obj(EncodeProps(i)),
            children |-> Arr([n \in DOMAIN inst[i].children |-> Serialize(inst[i].children[n])])])

RECURSIVE Under(_)
Under(i) == {i} \cup IF IsText(i) THEN {} ELSE UNION {Under(c) : c \in ToSet(inst[i].children)}
\* The closures of what is mounted.
Closures(i) == {k \in DOMAIN inst[i].props : k \notin NeverSerialized /\ inst[i].props[k].kind = "f"}
Live == UNION {{HandlerId(i, k) : k \in Closures(i)} : i \in {j \in Under(Root) : ~IsText(j)}}
Dropped == UNION {{<<i, k>> : k \in {k \in DOMAIN inst[i].props : inst[i].props[k].kind = "bad"}}
                  : i \in {j \in Under(Root) : ~IsText(j)}}

\* fast-json-patch: the keys of the old from the last to the first, replaced,
\* removed or compared below; then the new ones that were not there.
Down(keys) == IF keys = {} THEN <<>> ELSE SetToSeq(keys)
KeysOf(j) == IF IsArr(j) THEN [n \in DOMAIN j.arr |-> n] ELSE Down(DOMAIN j.obj)
RECURSIVE Compare(_, _, _)
Compare(old, new, path) ==
  LET Here(k) == Append(path, k)
      Kept(k) ==
        LET was == Of(old)[k] now == Of(new)[k]
        IN IF IsContainer(was) /\ IsContainer(now) /\ IsArr(was) = IsArr(now) THEN Compare(was, now, Here(k))
           ELSE IF was = now THEN <<>> ELSE <<[op |-> "replace", path |-> Here(k), value |-> now]>>
      Gone(k) == <<[op |-> "remove", path |-> Here(k), value |-> None]>>
  IN FlattenSeq([n \in DOMAIN KeysOf(old) |->
                   LET k == Reverse(KeysOf(old))[n] IN IF k \in DOMAIN Of(new) THEN Kept(k) ELSE Gone(k)])
     \o FlattenSeq([n \in DOMAIN KeysOf(new) |->
                      LET k == KeysOf(new)[n]
                      IN IF k \in DOMAIN Of(old) THEN <<>>
                         ELSE <<[op |-> "add", path |-> Here(k), value |-> Of(new)[k]]>>])

----------------------------------------------------------------------------
(* Applying a batch. The heap holds containers whose slots are values or         *)
(* addresses [at]; s is what one call works with: the heap, the objects it made,  *)
(* the document.                                                                   *)

RECURSIVE Read(_, _)
Read(objects, slot) ==
  IF "at" \notin DOMAIN slot THEN slot
  ELSE LET c == objects[slot.at] IN With(c, [k \in DOMAIN Of(c) |-> Read(objects, Of(c)[k])])

\* A value that came over the wire: objects of its own.
RECURSIVE Store(_, _)
Store(objects, json) ==
  IF ~IsContainer(json) THEN [heap |-> objects, slot |-> json]
  ELSE LET below == FoldLeft(LAMBDA acc, k :
                               LET one == Store(acc.heap, Of(json)[k])
                               IN [heap |-> one.heap, slots |-> Append(acc.slots, one.slot)],
                             [heap |-> objects, slots |-> <<>>], KeysOf(json))
           At(k) == below.slots[CHOOSE n \in DOMAIN KeysOf(json) : KeysOf(json)[n] = k]
       IN [heap |-> Append(below.heap, With(json, [k \in DOMAIN Of(json) |-> At(k)])),
           slot |-> [at |-> Len(below.heap) + 1]]

(* A fault: an object that is not an array is written through, not copied. *)
ArraysOnly(s, address) ==
  IF address \in s.created \/ ~IsArr(s.heap[address]) THEN [s |-> s, at |-> address]
  ELSE [s |-> [s EXCEPT !.heap = Append(@, s.heap[address]), !.created = @ \cup {Len(s.heap) + 1}],
        at |-> Len(s.heap) + 1]
\* shallowCopy, unless this call made the object.
Own(s, address) ==
  IF address \in s.created THEN [s |-> s, at |-> address]
  ELSE [s |-> [s EXCEPT !.heap = Append(@, s.heap[address]), !.created = @ \cup {Len(s.heap) + 1}],
        at |-> Len(s.heap) + 1]

\* descend: the container the last segment is a key of, each on the way copied.
Descend(s, segments) ==
  FoldLeft(LAMBDA acc, k :
             LET own == Own(acc.s, Of(acc.s.heap[acc.at])[k].at)
             IN [s |-> [own.s EXCEPT !.heap[acc.at] = With(@, [Of(@) EXCEPT ![k] = [at |-> own.at]])],
                 at |-> own.at],
           [s |-> s, at |-> s.document], segments)

\* put and take: into or out of an array at an index, or a key of an object.
Apply(s, patch) ==
  LET key == Last(patch.path)
      place == Descend(s, Front(patch.path))
      stored == IF patch.op = "remove" THEN [heap |-> place.s.heap, slot |-> None]
                ELSE Store(place.s.heap, patch.value)
      inner == Of(stored.heap[place.at])
      after == IF patch.op = "remove"
               THEN IF IsArr(stored.heap[place.at]) THEN RemoveAt(inner, key) ELSE Without(inner, key)
               ELSE IF patch.op = "add" /\ IsArr(stored.heap[place.at]) THEN InsertAt(inner, key, stored.slot)
               ELSE Put(inner, key, stored.slot)
  IN [place.s EXCEPT !.heap = [stored.heap EXCEPT ![place.at] = With(@, after)]]

\* applyRenderPatches: a root of its own, then every operation in order.
ApplyRenderPatches(patches) ==
  LET begun == [heap |-> Append(heap, heap[tree]), created |-> {Len(heap) + 1}, document |-> Len(heap) + 1]
  IN FoldLeft(Apply, begun, patches)

----------------------------------------------------------------------------
(* What is read out of a tree.                                                    *)

RECURSIVE ActionsOf(_)
\* actionsOf: the titled actions below, each with its handler or none.
ActionsOf(json) ==
  FlattenSeq([n \in DOMAIN json.obj.children.arr |->
    LET c == json.obj.children.arr[n]
        props == c.obj.props.obj
    IN IF "text" \in DOMAIN c.obj THEN <<>>
       ELSE (IF c.obj.type.prim = "Action" /\ "title" \in DOMAIN props
             THEN <<[title |-> props.title,
                     handler |-> IF "onAction" \in DOMAIN props /\ IsContainer(props.onAction)
                                 THEN props.onAction.obj.handler.prim ELSE None]>> ELSE <<>>)
            \o ActionsOf(c)])

\* listItemsOf: the rows of the list that is on top.
Rows(json) == SelectSeq(json.obj.children.arr, LAMBDA c : "type" \in DOMAIN c.obj /\ c.obj.type.prim = "Item")
\* actionHandlerOf: the handler of the first action of that title of that row.
ActionHandlerOf(json, row, title) ==
  LET rows == SelectSeq(Rows(json), LAMBDA r : r.obj.id.prim = row)
      found == IF rows = <<>> THEN <<>> ELSE SelectSeq(ActionsOf(rows[1]), LAMBDA a : a.title = title)
  IN IF found = <<>> THEN None ELSE found[1].handler

----------------------------------------------------------------------------
EmptyTree == Obj([id |-> Prim(Root), type |-> Prim("Root"), props |-> Obj(<<>>), children |-> Arr(<<>>)])
InitTree ==
  /\ inst = (Root :> [type |-> "Root", props |-> <<>>, children |-> <<>>])
  /\ dirty = FALSE /\ treeHandlers = <<>> /\ previous = EmptyTree
  /\ revision = 0 /\ rejected = {} /\ phase = "idle" /\ mutations = 0 /\ commits = 0 /\ made = {} /\ wire = <<>>
  /\ LET stored == Store(<<>>, EmptyTree) IN heap = stored.heap /\ tree = stored.slot.at
  /\ held = 0 /\ snaps = {} /\ presses = <<>> /\ ran = None

Main == <<wire, heap, tree, held, snaps, presses, ran>>
Published == <<previous, revision, rejected>>
Nodes == DOMAIN inst
Fresh == Cardinality(Nodes)
\* Every render makes its closures anew.
Closed(props) == [k \in DOMAIN props |-> IF props[k].kind = "f" THEN [kind |-> "f", v |-> <<commits, Cardinality(DOMAIN inst), mutations>>]
                                         ELSE props[k]]

\* A render that has work: a commit follows, or it throws and none does.
Renders ==
  /\ phase = "idle" /\ commits < MaxCommits /\ phase' = "rendering" /\ commits' = commits + 1
  /\ UNCHANGED <<inst, dirty, treeHandlers, mutations, made, Published, Main>>
Throws == phase = "rendering" /\ phase' = "idle" /\ made' = {}
          /\ UNCHANGED <<inst, dirty, treeHandlers, mutations, commits, Published, Main>>
Commits == phase = "rendering" /\ phase' = "committing"
           /\ UNCHANGED <<inst, dirty, treeHandlers, mutations, commits, made, Published, Main>>

\* createInstance with its first child, appendInitialChild: not placed yet.
CreateInstance(props, inner) ==
  /\ phase = "rendering" /\ Fresh + 2 <= MaxNodes
  /\ inst' = inst @@ (Fresh :> [type |-> "Item", props |-> Closed(props), children |-> <<Fresh + 1>>])
                  @@ (Fresh + 1 :> inner)
  /\ dirty' = TRUE /\ made' = made \cup {Fresh}
  /\ UNCHANGED <<treeHandlers, phase, mutations, commits, Published, Main>>

Mutates == phase = "committing" /\ mutations < MaxMutations /\ mutations' = mutations + 1
Rest == UNCHANGED <<phase, commits, Published, Main>>
\* What was just made, or stands somewhere already.
Placeable(child) == child \in made \/ Contains(inst[Root].children, child)

(* A fault: a row that only moves does not count as a change. *)
KeepIfThere(parent, child) == dirty' = (dirty \/ ~Contains(inst[parent].children, child))
\* Placing a node changes the tree, wherever it was.
Marks(parent, child) == dirty' = TRUE

Taken(parent, child) == SelectSeq(inst[parent].children, LAMBDA c : c # child)
\* appendChild, and to the container: from where it was to the end.
AppendChild(child) ==
  /\ Mutates /\ Placeable(child) /\ made' = made \ {child}
  /\ inst' = [inst EXCEPT ![Root].children = Append(Taken(Root, child), child)]
  /\ Marks(Root, child) /\ UNCHANGED treeHandlers /\ Rest
\* insertBefore: before a sibling, at the end when it is not there.
InsertBefore(child, sibling) ==
  /\ Mutates /\ Placeable(child) /\ child # sibling /\ made' = made \ {child}
  /\ Contains(inst[Root].children, sibling)
  /\ LET others == Taken(Root, child)
         at == CHOOSE n \in DOMAIN others : others[n] = sibling
     IN inst' = [inst EXCEPT ![Root].children = InsertAt(others, at, child)]
  /\ Marks(Root, child) /\ UNCHANGED treeHandlers /\ Rest
RemoveChild(child) ==
  /\ Mutates /\ Contains(inst[Root].children, child)
  /\ inst' = [inst EXCEPT ![Root].children = Taken(Root, child)]
  /\ dirty' = TRUE /\ UNCHANGED <<made, treeHandlers>> /\ Rest
\* clearContainer
ClearContainer ==
  /\ Mutates /\ inst[Root].children # <<>>
  /\ inst' = [inst EXCEPT ![Root].children = <<>>]
  /\ dirty' = TRUE /\ UNCHANGED <<made, treeHandlers>> /\ Rest

\* samePropsWhenSerialized: another closure in the same place says the same.
SamePropsWhenSerialized(was, next) ==
  \A k \in (DOMAIN was \cup DOMAIN next) \ NeverSerialized :
    /\ k \in DOMAIN was /\ k \in DOMAIN next
    /\ was[k] = next[k] \/ (was[k].kind = "f" /\ next[k].kind = "f")

(* A fault: a closure is registered when its row is serialised, and only then. *)
NotRebound(i, next) == treeHandlers
\* onHandlerRebound: every closure that was rebuilt is registered at once.
Rebound(i, next) ==
  LET new == {HandlerId(i, k) : k \in {k \in DOMAIN next : next[k].kind = "f"}}
  IN [h \in DOMAIN treeHandlers \cup new |-> IF h \in new THEN next[h[2]].v ELSE treeHandlers[h]]

\* commitUpdate: the props are replaced; only a change of the document counts.
CommitUpdate(i, props) ==
  /\ Mutates /\ i \in Under(Root) \ {Root} /\ ~IsText(i)
  /\ LET next == Closed(props)
     IN /\ treeHandlers' = Rebound(i, next)
        /\ inst' = [inst EXCEPT ![i].props = next]
        /\ dirty' = (dirty \/ ~SamePropsWhenSerialized(inst[i].props, next))
  /\ UNCHANGED made /\ Rest
\* commitTextUpdate, and a text hidden or shown again.
CommitTextUpdate(i, text) ==
  /\ Mutates /\ IsText(i) /\ inst[i].text # text
  /\ inst' = [inst EXCEPT ![i].text = text] /\ dirty' = TRUE /\ UNCHANGED <<made, treeHandlers>> /\ Rest

\* hideInstance and unhideInstance: a prop the page honours, and its removal.
HideInstance(i) ==
  /\ Mutates /\ i \in ToSet(inst[Root].children)
  /\ inst' = [inst EXCEPT ![i].props = Put(@, "hidden", [kind |-> "v", v |-> "yes"])]
  /\ dirty' = TRUE /\ UNCHANGED <<made, treeHandlers>> /\ Rest
UnhideInstance(i) ==
  /\ Mutates /\ i \in ToSet(inst[Root].children) /\ "hidden" \in DOMAIN inst[i].props
  /\ inst' = [inst EXCEPT ![i].props = Without(@, "hidden")]
  /\ dirty' = TRUE /\ UNCHANGED <<made, treeHandlers>> /\ Rest

\* resetAfterCommit and commit: nothing when nothing changed; else the document,
\* the handlers of what is mounted and of nothing else, and a batch when there
\* is one.
ResetAfterCommit ==
  /\ phase = "committing" /\ phase' = "idle" /\ dirty' = FALSE /\ made' = {}
  /\ IF ~dirty THEN UNCHANGED <<treeHandlers, Published, wire>>
     ELSE LET node == Serialize(Root)
              patches == Compare(previous, node, <<>>)
          IN /\ treeHandlers' = [h \in Live |-> inst[h[1]].props[h[2]].v]
             /\ previous' = node /\ rejected' = rejected \cup Dropped
             /\ revision' = IF patches = <<>> THEN revision ELSE revision + 1
             /\ wire' = IF patches = <<>> THEN wire ELSE Append(wire, [revision |-> revision + 1, patches |-> patches])
  /\ UNCHANGED <<inst, mutations, commits, heap, tree, held, snaps, presses, ran>>

workerVars == <<inst, dirty, treeHandlers, previous, revision, rejected, phase, mutations, commits, made>>

\* onNotification, RENDER.
Deliver ==
  /\ wire # <<>> /\ wire' = Tail(wire)
  /\ LET done == ApplyRenderPatches(Head(wire).patches)
     IN heap' = done.heap /\ tree' = done.document
  /\ held' = Head(wire).revision
  /\ UNCHANGED <<workerVars, snaps, presses, ran>>

\* A launch's answer, or a read without a window: the tree as it is now.
Snapshot ==
  /\ Cardinality(snaps) < MaxSnaps /\ held > 0
  /\ snaps' = snaps \cup {[at |-> tree, says |-> Read(heap, [at |-> tree])]}
  /\ UNCHANGED <<workerVars, wire, heap, tree, held, presses, ran>>

\* An action of a row is chosen by its title.
Press(row, title) ==
  /\ presses = <<>> /\ ran = None
  /\ LET h == ActionHandlerOf(Read(heap, [at |-> tree]), row, title)
     IN h # None /\ presses' = <<h>>
  /\ UNCHANGED <<workerVars, wire, heap, tree, held, snaps, ran>>
\* dispatch: what is no longer mounted is ignored. Not in the middle of a commit.
Dispatch ==
  /\ presses # <<>> /\ phase # "committing" /\ presses' = <<>>
  /\ ran' = IF presses[1] \in DOMAIN treeHandlers THEN treeHandlers[presses[1]] ELSE None
  /\ UNCHANGED <<workerVars, wire, heap, tree, held, snaps>>

Acting == {p \in ItemProps : "onAction" \in DOMAIN p}
Inner == {[text |-> "a"]} \cup {[type |-> "Action", props |-> Closed(p), children |-> <<>>] : p \in Acting}
NextTree ==
  \/ Renders \/ Throws \/ Commits \/ ClearContainer \/ ResetAfterCommit \/ Deliver \/ Snapshot \/ Dispatch
  \/ \E p \in Acting, i \in Inner : CreateInstance(p, i)
  \/ \E i \in Nodes \ {Root} :
       \/ \E p \in ItemProps : CommitUpdate(i, p)
       \/ RemoveChild(i) \/ CommitTextUpdate(i, "")
       \/ ~IsText(i) /\ (AppendChild(i) \/ HideInstance(i) \/ UnhideInstance(i))
       \/ ~IsText(i) /\ \E j \in Nodes \ {Root} : InsertBefore(i, j)
       \/ Press(i, Prim("go"))
SpecTree == InitTree /\ [][NextTree]_treeVars

----------------------------------------------------------------------------
(* The document main holds is the one the command drew once everything was     *)
(* delivered, though a commit that changed nothing was not sent: what the       *)
(* instances say now is what was last serialised, and that is what the patches    *)
(* make of main's tree (render-patch.ts, reconciler.ts `dirty`).                    *)
SameEverywhere ==
  /\ phase = "idle" /\ ~dirty => previous = Serialize(Root)
  /\ wire = <<>> => Read(heap, [at |-> tree]) = previous /\ held = revision

(* A tree that was handed out still says what it said, whatever was applied to   *)
(* the objects it shares (render-patch.ts, "cannot be observed half-written").     *)
SnapshotsKept == \A s \in snaps : Read(heap, [at |-> s.at]) = s.says

(* Every handler the last document names runs the closure of the last render,      *)
(* though the commit that made the closure may have been skipped.                    *)
HandlersFresh ==
  phase = "idle" /\ ~dirty =>
    /\ DOMAIN treeHandlers = Live
    /\ \A h \in Live : treeHandlers[h] = inst[h[1]].props[h[2]].v

TreeIntact == SameEverywhere /\ SnapshotsKept /\ HandlersFresh
================================================================================
