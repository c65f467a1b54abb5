------------------------------- MODULE Desktop -------------------------------
(***************************************************************************)
(* The keys as the desktop holds them (src/platform/fix, src/cli/tools.ts,  *)
(* offerBind of src/cli/config-ui.ts, the bind verbs of                     *)
(* src/main/settings-ipc.ts and the banner of settings/bind.tsx).  A plan   *)
(* rewrites one marked block per file, or is a list of commands for a       *)
(* desktop that has no file.  The terminal shows a plan and applies that    *)
(* one once the person says yes; the settings window plans anew right       *)
(* before it writes, and writes unasked what an edit in it made differ.     *)
(* Meanwhile the person edits the same files and the same settings.  A bind *)
(* is its key and its target, and its number in the list is its id.         *)
(***************************************************************************)
EXTENDS Naturals, Sequences, FiniteSets

CONSTANTS
  Kinds,      \* of desktop: "hyprland", "sway", "kde", "gnome"
  BindLists,  \* what [general].hotkey and [[hotkeys]] may come to ask for
  None,
  MaxChanges  \* bound: what the person changes, in settings and in files

VARIABLES
  kind, seed,   \* the desktop, and whether it has a system-wide sway config
  window,       \* whether the settings window or a terminal is open
  config,       \* what config.toml asks for, and whether it asks by itself
  file,         \* the files a plan may write
  backups,      \* what is in a lumanin-backup copy: lines, and binds of a block
  entry,        \* dconf: command and binding under each of our paths
  listed,       \* dconf: the list of custom shortcuts
  live,         \* kglobalaccel: the key each of our desktop files has now
  made,         \* the lines and shortcuts the person added
  edited,       \* the binds the person wrote into the block
  changes,
  plan,         \* what the terminal shows and asks about
  todo,         \* commands of a plan that is being applied
  asked, shown, \* the window: a plan is on its way; the difference it shows
  baseline, attempted, applying, failed,
  excused       \* history: added after the plan that was applied was made

deskVars == <<kind, seed, window, file, backups, entry, listed, live, made, edited, plan, todo, excused>>
windowVars == <<asked, shown, baseline, attempted, applying, failed>>
vars == <<deskVars, windowVars, config, changes>>

Paths == {"main", "binds", "rules"}
Ids == 1..3
Absent == [there |-> FALSE, stock |-> FALSE, lines |-> {}, block |-> "none", binds |-> <<>>, rule |-> FALSE]
Unset == [command |-> None, binding |-> None]
NoPlan == [state |-> "none", before |-> [p \in Paths |-> Absent], after |-> [p \in Paths |-> Absent], todo |-> <<>>]

Init ==
  /\ kind \in Kinds /\ seed \in BOOLEAN /\ window \in BOOLEAN
  /\ config = [explicit |-> FALSE, binds |-> CHOOSE b \in BindLists : Len(b) = 1]
  /\ file = [p \in Paths |-> Absent] /\ backups = [lines |-> {}, binds |-> {}]
  /\ entry = [i \in Ids |-> Unset] /\ listed = <<>> /\ live = [i \in Ids |-> None]
  /\ made = {} /\ edited = {} /\ changes = 0 /\ plan = NoPlan /\ todo = <<>>
  /\ asked = FALSE /\ shown = None /\ baseline = None /\ attempted = None
  /\ applying = FALSE /\ failed = FALSE /\ excused = [lines |-> {}, binds |-> {}]

(******************************** the plan ********************************)
Filed == kind # "gnome"
Actions == IF kind = "hyprland" THEN {"bind", "rule"} ELSE IF Filed THEN {"bind"} ELSE {}
Candidates == [bind |-> {"main", "binds"}, rule |-> {"main", "rules"}]

\* The action's own lines in the block of a file: what its signature matches.
Holds(f, a) == f.block = "whole" /\ (IF a = "bind" THEN f.binds # <<>> ELSE f.rule)

(* A fault: a block is enough, whoever's lines are in it.                   *)
FirstBlock(fs, a) ==
  LET with == {p \in Candidates[a] : fs[p].block = "whole"}
  IN  IF "main" \in with \/ with = {} THEN "main" ELSE CHOOSE p \in with : TRUE

\* resolveTarget: where its lines already are, else the file it names first.
ResolveTarget(fs, a) ==
  LET with == {p \in Candidates[a] : Holds(fs[p], a)}
  IN  IF "main" \in with \/ with = {} THEN "main" ELSE CHOOSE p \in with : TRUE

\* bodyFor: binds someone changed in the block stay, unless config.toml names
\* the hotkey itself.
BodyFor(f, c) == IF ~c.explicit /\ Holds(f, "bind") THEN f.binds ELSE c.binds

Blocked(f) == f.block = "cut" \/ (kind = "sway" /\ ~f.there /\ ~seed)

\* upsertBlock: the block is replaced or appended, the rest passes through.
Upsert(f, as, c) ==
  [f EXCEPT !.there = TRUE, !.block = "whole", !.stock = f.stock \/ (kind = "sway" /\ ~f.there),
            !.binds = IF "bind" \in as THEN BodyFor(f, c) ELSE <<>>, !.rule = ("rule" \in as)]

\* planFixes over the files: the actions that share one make one edit of it.
Planned(fs, c) ==
  [p \in Paths |->
    LET as == {a \in Actions : ResolveTarget(fs, a) = p}
    IN  IF as = {} \/ Blocked(fs[p]) THEN fs[p] ELSE Upsert(fs[p], as, c)]

Set(i, key, value) == [op |-> key, id |-> i, value |-> value]
IsOurs(x) == x \in Ids
\* The shortcuts of the list that are ours, or those that are not, in its order.
Those(ours) ==
  LET at == {i \in DOMAIN listed : IsOurs(listed[i]) = ours}
      nth(k) == CHOOSE i \in at : Cardinality({j \in at : j < i}) = k - 1
  IN  [k \in 1..Cardinality(at) |-> listed[nth(k)]]
Wanted(c) == [i \in DOMAIN c.binds |-> i]
Unwanted(c) == Those(FALSE) \o Wanted(c)

\* planGnomeBinds: what differs is set, the list of shortcuts last.
PlanGnomeBinds(c) ==
  LET b == c.binds
      set(i) == (IF entry[i].command = b[i][2] THEN <<>> ELSE <<Set(i, "command", b[i][2])>>)
                \o (IF entry[i].binding = b[i][1] THEN <<>> ELSE <<Set(i, "binding", b[i][1])>>)
  IN  (set(1) \o (IF Len(b) > 1 THEN set(2) ELSE <<>>) \o (IF Len(b) > 2 THEN set(3) ELSE <<>>))
      \o (IF listed = Unwanted(c) THEN <<>> ELSE <<Set(0, "list", Unwanted(c))>>)

\* planKdeLiveBinds: what is registered now is not asked, so all are set again.
PlanKdeLiveBinds(c) == [i \in DOMAIN c.binds |-> Set(i, "live", c.binds[i][1])]

CommandsFor(c) == CASE kind = "gnome" -> PlanGnomeBinds(c)
                    [] kind = "kde"   -> PlanKdeLiveBinds(c)
                    [] OTHER          -> <<>>

\* pending of planBind, and what tells two plans apart.
Pending(c) == Planned(file, c) # file \/ CommandsFor(c) # <<>>
Signature(c) == IF Pending(c) THEN <<file, Planned(file, c), CommandsFor(c)>> ELSE None

\* planRevert: every block there is, and a file left empty is removed.
Reverted ==
  [p \in Paths |->
    IF file[p].block # "whole" THEN file[p]
    ELSE IF file[p].lines = {} /\ ~file[p].stock THEN Absent
    ELSE [file[p] EXCEPT !.block = "none", !.binds = <<>>, !.rule = FALSE]]

\* The undo of the plan: each path of ours is reset, then the list is set.
Undo ==
  IF kind # "gnome" THEN <<>>
  ELSE [i \in DOMAIN Those(TRUE) |-> Set(Those(TRUE)[i], "reset", None)]
       \o <<Set(0, "list", Those(FALSE))>>

(******************************* applying it ******************************)
(* A fault: the copy is of what will be written. *)
CopyOfAfter(before, after, written) ==
  LET changed == {p \in written : before[p] # after[p]}
      late == {p \in changed : file[p].binds # before[p].binds}
  IN  /\ file' = [p \in Paths |-> IF p \in changed THEN after[p] ELSE file[p]]
      /\ backups' = [lines |-> backups.lines \cup UNION {after[p].lines : p \in changed},
                     binds |-> backups.binds \cup {after[p].binds : p \in changed}]
      /\ excused' = [lines |-> excused.lines \cup UNION {file[p].lines \ before[p].lines : p \in changed},
                     binds |-> excused.binds \cup {file[p].binds : p \in late}]

\* applyPlan: each file that changes is copied as it was when planned and
\* replaced; one that cannot be written does not stop the others.
ApplyPlan(before, after, written) ==
  LET changed == {p \in written : before[p] # after[p]}
      late == {p \in changed : file[p].binds # before[p].binds}
  IN  /\ file' = [p \in Paths |-> IF p \in changed THEN after[p] ELSE file[p]]
      /\ backups' = [lines |-> backups.lines \cup UNION {before[p].lines : p \in changed},
                     binds |-> backups.binds \cup {before[p].binds : p \in changed}]
      /\ excused' = [lines |-> excused.lines \cup UNION {file[p].lines \ before[p].lines : p \in changed},
                     binds |-> excused.binds \cup {file[p].binds : p \in late}]

(* A fault: it carries on past one that failed. *)
RunCommandOn ==
  /\ todo # <<>>
  /\ LET c == Head(todo) IN
       \/ /\ todo' = Tail(todo)
          /\ entry' = CASE c.op = "command" -> [entry EXCEPT ![c.id].command = c.value]
                        [] c.op = "binding" -> [entry EXCEPT ![c.id].binding = c.value]
                        [] c.op = "reset"   -> [entry EXCEPT ![c.id] = Unset]
                        [] OTHER            -> entry
          /\ listed' = IF c.op = "list" THEN c.value ELSE listed
          /\ excused' = IF c.op = "list"
                        THEN [excused EXCEPT !.lines = @ \cup ({listed[i] : i \in DOMAIN listed}
                                                               \ {c.value[i] : i \in DOMAIN c.value})]
                        ELSE excused
          /\ live' = IF c.op = "live" THEN [live EXCEPT ![c.id] = c.value] ELSE live
       \/ /\ todo' = Tail(todo) /\ UNCHANGED <<entry, listed, live, excused>>
  /\ UNCHANGED <<kind, seed, window, config, file, backups, made, edited, changes, plan, windowVars>>

\* runCommands: one after the other, and none after one that fails.
RunCommand ==
  /\ todo # <<>>
  /\ LET c == Head(todo) IN
       \/ /\ todo' = Tail(todo)
          /\ entry' = CASE c.op = "command" -> [entry EXCEPT ![c.id].command = c.value]
                        [] c.op = "binding" -> [entry EXCEPT ![c.id].binding = c.value]
                        [] c.op = "reset"   -> [entry EXCEPT ![c.id] = Unset]
                        [] OTHER            -> entry
          /\ listed' = IF c.op = "list" THEN c.value ELSE listed
          /\ excused' = IF c.op = "list"
                        THEN [excused EXCEPT !.lines = @ \cup ({listed[i] : i \in DOMAIN listed}
                                                               \ {c.value[i] : i \in DOMAIN c.value})]
                        ELSE excused
          /\ live' = IF c.op = "live" THEN [live EXCEPT ![c.id] = c.value] ELSE live
       \/ /\ todo' = <<>> /\ UNCHANGED <<entry, listed, live, excused>>
  /\ UNCHANGED <<kind, seed, window, config, file, backups, made, edited, changes, plan, windowVars>>

\* One more thing the person does.
Counted == changes < MaxChanges /\ changes' = changes + 1
Still == UNCHANGED <<kind, seed, window, entry, listed, live, made, edited>>

(*************************** the terminal *********************************)
\* offerBind and runFix: the plan is made and shown.  The menu asks by itself.
Plan(explicit) ==
  /\ ~window /\ plan = NoPlan /\ todo = <<>>
  /\ LET c == [config EXCEPT !.explicit = @ \/ explicit]
     IN  /\ Pending(c)
         /\ plan' = [state |-> "fix", before |-> file, after |-> Planned(file, c), todo |-> CommandsFor(c)]
  /\ Still /\ UNCHANGED <<config, file, backups, todo, excused, changes, windowVars>>

\* runUnfix.
PlanUnfix ==
  /\ ~window /\ plan = NoPlan /\ todo = <<>> /\ (Reverted # file \/ Undo # <<>>)
  /\ plan' = [state |-> "unfix", before |-> file, after |-> Reverted, todo |-> Undo]
  /\ Still /\ UNCHANGED <<config, file, backups, todo, excused, changes, windowVars>>

Yes ==
  /\ plan # NoPlan /\ todo = <<>> /\ plan' = NoPlan
  /\ \E written \in {{}, {"main"}, Paths} : ApplyPlan(plan.before, plan.after, written)
  /\ todo' = plan.todo
  /\ Still /\ UNCHANGED <<config, changes, windowVars>>

No == /\ plan # NoPlan /\ plan' = NoPlan
      /\ Still /\ UNCHANGED <<config, file, backups, todo, excused, changes, windowVars>>

(*************************** the settings window **************************)
\* An edit of a key, here or in the file: the state is pushed and a plan asked.
Change(c) ==
  /\ Counted /\ c # config /\ config' = c
  /\ asked' = window
  /\ UNCHANGED <<deskVars, shown, baseline, attempted, applying, failed>>

\* The first plan of the window is what differed before it opened.
WindowOpens ==
  /\ window
  /\ shown' = Signature(config) /\ baseline' = Signature(config)
  /\ attempted' = None /\ asked' = FALSE /\ applying' = FALSE /\ failed' = FALSE
  /\ Counted
  /\ UNCHANGED <<deskVars, config>>

PlanArrives ==
  /\ asked /\ asked' = FALSE /\ shown' = Signature(config)
  /\ UNCHANGED <<deskVars, config, changes, baseline, attempted, applying, failed>>

(* A fault: what was tried is not remembered. *)
AutoApplyAgain ==
  /\ shown # None /\ ~applying /\ shown # baseline
  /\ applying' = TRUE
  /\ UNCHANGED <<deskVars, config, changes, asked, shown, attempted, baseline, failed>>

\* The banner's effect: once for each difference that an edit made.
AutoApply ==
  /\ shown # None /\ ~applying /\ shown # baseline /\ shown # attempted
  /\ attempted' = shown /\ applying' = TRUE
  /\ UNCHANGED <<deskVars, config, changes, asked, shown, baseline, failed>>

\* Apply, for the difference that was there when the window opened.
ApplyAnyway ==
  /\ shown # None /\ ~applying /\ shown = baseline
  /\ baseline' = None /\ attempted' = shown /\ applying' = TRUE
  /\ UNCHANGED <<deskVars, config, changes, asked, shown, failed>>

\* Try again, under an outcome that lists a failure.
TryAgain ==
  /\ failed /\ ~applying /\ attempted' = None /\ failed' = FALSE /\ asked' = TRUE
  /\ Counted
  /\ UNCHANGED <<deskVars, config, shown, baseline, applying>>

\* applyBind plans from disk again; then the page asks for a new plan.
ApplyBind ==
  /\ applying /\ todo = <<>> /\ applying' = FALSE /\ asked' = TRUE
  /\ \E written \in {{}, Paths} :
       /\ ApplyPlan(file, Planned(file, config), written)
       /\ failed' = (written = {} /\ Planned(file, config) # file)
  /\ todo' = CommandsFor(config)
  /\ Still /\ UNCHANGED <<config, changes, plan, shown, baseline, attempted>>

(****************************** the person ********************************)
Hand(f, p) == /\ Counted /\ file' = [file EXCEPT ![p] = f]
              /\ UNCHANGED <<kind, seed, window, config, backups, entry, live, plan, todo, windowVars>>

Fresh == 4 + Cardinality(made)

AddLine(p) ==
  /\ Filed /\ made' = made \cup {Fresh}
  /\ Hand([file[p] EXCEPT !.there = TRUE, !.lines = @ \cup {Fresh},
                          !.stock = @ \/ (kind = "sway" /\ ~file[p].there)], p)
  /\ UNCHANGED <<listed, edited, excused>>

\* A shortcut of their own, in the desktop's settings: ids past ours.
AddShortcut ==
  /\ kind = "gnome" /\ Counted /\ made' = made \cup {Fresh}
  /\ listed' = Append(listed, Fresh)
  /\ UNCHANGED <<kind, seed, window, config, file, backups, entry, live, edited, plan, todo, excused, windowVars>>

EditBlock(p, binds) == file[p].block = "whole" /\ file[p].binds # <<>> /\ binds # file[p].binds
                       /\ Hand([file[p] EXCEPT !.binds = binds], p)
                       /\ edited' = (edited \ {file[p].binds}) \cup {binds}
                       /\ UNCHANGED <<listed, made, excused>>
CutBlock(p) == file[p].block = "whole" /\ Hand([file[p] EXCEPT !.block = "cut"], p)
               /\ UNCHANGED <<listed, made, edited, excused>>
MoveBinds ==
  /\ kind = "hyprland" /\ Counted /\ Holds(file["main"], "bind") /\ file["binds"].block = "none"
  /\ file' = [file EXCEPT !["main"].binds = <<>>,
                          !["binds"] = [@ EXCEPT !.there = TRUE, !.block = "whole", !.binds = file["main"].binds]]
  /\ UNCHANGED <<kind, seed, window, config, backups, entry, listed, live, made, edited, plan, todo, excused, windowVars>>

Next ==
  \/ RunCommand \/ PlanUnfix \/ Yes \/ No \/ MoveBinds \/ AddShortcut
  \/ \E e \in BOOLEAN : Plan(e)
  \/ \E e \in BOOLEAN, b \in BindLists : Change([explicit |-> e, binds |-> b])
  \/ WindowOpens \/ PlanArrives \/ AutoApply \/ ApplyAnyway \/ TryAgain \/ ApplyBind
  \/ \E p \in Paths : AddLine(p) \/ CutBlock(p) \/ \E b \in BindLists : EditBlock(p, b)

Spec == Init /\ [][Next]_vars
FairSpec == Spec /\ WF_vars(RunCommand) /\ WF_vars(PlanArrives) /\ WF_vars(AutoApply) /\ WF_vars(ApplyBind)

(******************************** properties ******************************)
(* What the person added is where they put it or in a copy beside it, but   *)
(* for what came after the plan that was applied had been made.             *)
LinesKept ==
  /\ made \subseteq backups.lines \cup excused.lines \cup (UNION {file[p].lines : p \in Paths})
                    \cup {listed[i] : i \in DOMAIN listed}
  /\ edited \subseteq backups.binds \cup excused.binds \cup {file[p].binds : p \in Paths}

(* A listed shortcut that has a key has a command, whichever command of a   *)
(* plan failed and wherever an undo stopped.                                *)
KeyRunsSomething ==
  \A i \in DOMAIN listed :
    IsOurs(listed[i]) /\ entry[listed[i]].binding # None => entry[listed[i]].command # None

(* sway keeps the keys of the system's file when ours is the first there is.*)
StockKept == kind = "sway" /\ file["main"].there => file["main"].stock

(* A plan leaves the binds in the one file they were moved to, and applied  *)
(* to what is there leaves nothing to plan.                                 *)
Twice(fs) == Holds(fs["main"], "bind") /\ Holds(fs["binds"], "bind")
OneHome == Twice(file) \/ ~Twice(Planned(file, config))
Idempotent == Planned(Planned(file, config), config) = Planned(file, config)

DesktopIntact == LinesKept /\ KeyRunsSomething /\ StockKept /\ OneHome /\ Idempotent

(* The window comes to rest: a write that failed, or that leaves something  *)
(* to do, is not made over and over.                                        *)
WindowRests == <>[]~applying
=============================================================================
