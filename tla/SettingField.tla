---------------------------- MODULE SettingField ----------------------------
(***************************************************************************)
(* One control of the settings window (renderer/src/settings/controls.tsx) *)
(* with the value it shows before the file confirms it (useOptimistic in   *)
(* useSettings.tsx), and the process behind the window that writes         *)
(* config.toml and pushes what it says (main/settings-app.ts).  A control  *)
(* is a switch, a menu, a menu with a row for a name of one's own, a       *)
(* number to type, or a number with pills before the field.  Every other   *)
(* writer of the file is HandEdit.  A setting that the environment         *)
(* overrides is disabled, and nothing below happens to it.                 *)
(***************************************************************************)
EXTENDS Naturals, Sequences

CONSTANTS Values,    \* what the setting may be; a switch has two of them
          Few,       \* those with a row or a pill, where there is a field too
          Default,   \* what it is when the file does not say
          Bad,       \* a text that is no number in range
          None,      \* not said, following the desktop, an empty text
          MaxSaves, MaxEdits, MaxDrafts   \* bound what the person does

VARIABLES
  kind,       \* what control it is, and whether unset follows the desktop
  file,       \* what config.toml says the setting is, or None
  conf,       \* the configuration the window's process has read
  owed,       \* a snapshot is being taken; only the latest is sent
  stirred,    \* the watcher's 120 ms have begun
  requests,   \* settings.set, in the order the page sent them
  replies,    \* their answers
  pushes,     \* settings.changed, on its way to the page
  truth,      \* the last push
  pending,    \* useOptimistic: the value shown meanwhile, with its save
  clears,     \* saves whose second after success runs
  seen,       \* the value the draft was last taken from
  draft,      \* the text in the field
  chosen,     \* the row or the pill that opens the field was picked
  problem,    \* the draft was refused
  focused,
  saves, edits, drafts

fieldVars == <<kind, file, conf, owed, stirred, requests, replies, pushes, truth, pending,
               clears, seen, draft, chosen, problem, focused, saves, edits, drafts>>
page == <<truth, pending, seen, draft, chosen, problem, focused>>
process == <<file, conf, owed, stirred, replies, pushes>>

(* The switches and menus the settings have, the theme, which is a name and  *)
(* follows the desktop unless set, numbers with pills, and a number without. *)
Kinds == [is : {"switch", "menu", "number"}, adaptive : {FALSE}]
           \cup [is : {"name"}, adaptive : {TRUE}] \cup [is : {"pills"}, adaptive : BOOLEAN]

Named == CASE kind.is \in {"name", "pills"} -> Few
           [] kind.is = "number" -> {}
           [] OTHER -> Values

(* What a setting is that the file says is v: unset, an adaptive one is the *)
(* desktop's.                                                               *)
Fallback == IF kind.adaptive THEN None ELSE Default
Resolved(v) == IF v = None THEN Fallback ELSE v

Shown == IF pending = None THEN Resolved(truth) ELSE pending.value

(* A value that only a name of one's own can be. *)
Unlisted(v) == v # None /\ v \notin Named

(* The field is there, or live, for a name or for a number no pill has. *)
HasField == chosen \/ (kind.is \in {"number", "pills"} /\ Shown \notin Named)

InitField ==
  /\ kind \in Kinds
  /\ file \in Values \cup {None} /\ conf = file /\ truth = file
  /\ seen = Resolved(file) /\ draft = seen /\ chosen = (kind.is = "name" /\ Unlisted(seen))
  /\ owed = FALSE /\ stirred = FALSE
  /\ requests = <<>> /\ replies = <<>> /\ pushes = <<>>
  /\ pending = None /\ clears = {}
  /\ problem = FALSE /\ focused = chosen
  /\ saves = 0 /\ edits = 0 /\ drafts = 0

(* One render.  The pending value goes once the truth is the same.  A value *)
(* that was not seen before becomes the draft unless the field has focus,   *)
(* and opens or closes the field for a name, which takes the focus as it    *)
(* appears and along as it goes (autoFocus of TextControl).                 *)
Follow(f, v, d) == IF v # seen /\ ~f THEN v ELSE d
Derived(v, c) == IF kind.is = "name" /\ v # seen THEN Unlisted(v) ELSE c
Focuses(f, c) == IF kind.is = "name" THEN c /\ (f \/ ~chosen) ELSE f

Render(t, p, f, d, b, c) ==
  LET q == IF p # None /\ p.value = Resolved(t) THEN None ELSE p
      v == IF q = None THEN Resolved(t) ELSE q.value
  IN  /\ truth' = t /\ pending' = q /\ seen' = v
      /\ draft' = Follow(f, v, d)
      /\ chosen' = Derived(v, c)
      /\ problem' = (b /\ (v = seen \/ f))
      /\ focused' = Focuses(f, Derived(v, c))

Sent(v) ==
  /\ saves < MaxSaves /\ saves' = saves + 1
  /\ requests' = Append(requests, [id |-> saves, value |-> v])
  /\ UNCHANGED <<kind, process, clears, edits, drafts>>

(* A save asks the process and shows the value at once, when it differs. *)
Save(v, c) ==
  /\ Sent(v)
  /\ Render(truth, IF v = Shown THEN pending ELSE [id |-> saves, value |-> v], FALSE, v, FALSE, c)

Flip(v) == kind.is = "switch" /\ v # Shown /\ Save(v, FALSE)

(* A row of the menu is saved though it is the one picked already. *)
PickRow(v) ==
  /\ kind.is \in {"menu", "name"} /\ ~focused
  /\ v \in Named \/ (v = None /\ kind.adaptive)
  /\ Save(v, FALSE)

Pill(v) ==
  /\ kind.is = "pills" /\ ~focused
  /\ v \in Named /\ (HasField \/ v # Shown)
  /\ Save(v, FALSE)

(* The last row, or pill, only opens the field; one for a name is new. *)
ChooseCustom ==
  /\ kind.is \in {"name", "pills"} /\ ~focused /\ ~chosen /\ chosen' = TRUE
  /\ draft' = IF kind.is = "name" THEN None ELSE draft
  /\ focused' = Focuses(focused, TRUE)
  /\ UNCHANGED <<kind, process, requests, truth, pending, clears, seen, problem, saves, edits,
                 drafts>>

(* The reset button is there while the file says the setting. *)
Reset == ~focused /\ truth # None /\ Sent(None) /\ UNCHANGED page

Focus ==
  /\ HasField /\ ~focused /\ focused' = TRUE
  /\ UNCHANGED <<kind, process, requests, truth, pending, clears, seen, draft, chosen, problem,
                 saves, edits, drafts>>

Type(d) ==
  /\ focused /\ HasField /\ drafts < MaxDrafts /\ drafts' = drafts + 1
  /\ d # draft /\ (d = Bad => kind.is # "name") /\ draft' = d
  /\ UNCHANGED <<kind, process, requests, truth, pending, clears, seen, chosen, problem, focused,
                 saves, edits>>

Left ==
  /\ focused' = FALSE
  /\ UNCHANGED <<kind, process, requests, truth, pending, clears, seen, draft, chosen, saves,
                 edits, drafts>>

(* Leaving a number commits whatever it holds, typed or not. *)
Blur ==
  /\ focused /\ kind.is \in {"number", "pills"}
  /\ IF draft = Bad THEN Left /\ problem' = TRUE ELSE Save(draft, chosen)

(* Leaving a name saves it when it is another; an empty one is no name. *)
BlurName ==
  /\ focused /\ kind.is = "name"
  /\ IF draft = None \/ (Unlisted(seen) /\ draft = seen)
     THEN Left /\ UNCHANGED problem ELSE Save(draft, chosen)

(* SettingsIpc.set: the default is written by deleting the key.  A written  *)
(* file is read again at once and pushed; the watcher will hear of it too.  *)
Serve ==
  /\ requests # <<>> /\ requests' = Tail(requests)
  /\ LET v == Head(requests).value IN file' = IF v = Fallback THEN None ELSE v
  /\ conf' = file' /\ owed' = TRUE /\ stirred' = (stirred \/ file' # file)
  /\ replies' = Append(replies, [id |-> Head(requests).id, ok |-> TRUE])
  /\ UNCHANGED <<kind, pushes, page, clears, saves, edits, drafts>>

(* A file that does not parse or cannot be written refuses the save. *)
Refuse ==
  /\ requests # <<>> /\ requests' = Tail(requests)
  /\ replies' = Append(replies, [id |-> Head(requests).id, ok |-> FALSE])
  /\ UNCHANGED <<kind, file, conf, owed, stirred, pushes, page, clears, saves, edits, drafts>>

HandEdit(v) ==
  /\ edits < MaxEdits /\ edits' = edits + 1
  /\ v # file /\ file' = v /\ stirred' = TRUE
  /\ UNCHANGED <<kind, conf, owed, requests, replies, pushes, page, clears, saves, drafts>>

Reread ==
  /\ stirred /\ stirred' = FALSE /\ conf' = file /\ owed' = TRUE
  /\ UNCHANGED <<kind, file, requests, replies, pushes, page, clears, saves, edits, drafts>>

(* The snapshot holds the configuration at the time it is sent; the process *)
(* is not asked for one before the page is up, and by then none can fail.   *)
Push ==
  /\ owed /\ owed' = FALSE /\ pushes' = Append(pushes, conf)
  /\ UNCHANGED <<kind, file, conf, stirred, requests, replies, page, clears, saves, edits, drafts>>

Pushed ==
  /\ pushes # <<>> /\ pushes' = Tail(pushes)
  /\ Render(Head(pushes), pending, focused, draft, problem, chosen)
  /\ UNCHANGED <<kind, file, conf, owed, stirred, requests, replies, clears, saves, edits, drafts>>

(* A fault: a save that goes through is never waited for. *)
KeepUntilTruth(id) == pending

(* The pending value of a save, unless a later one took its place; a second *)
(* that would find it gone is not followed.                                  *)
Cleared(id) == IF pending # None /\ pending.id = id THEN None ELSE pending

Replied ==
  /\ replies # <<>> /\ replies' = Tail(replies)
  /\ LET id == Head(replies).id IN
     IF Head(replies).ok
     THEN clears' = (IF Cleared(id) = pending THEN clears ELSE clears \cup {id}) /\ UNCHANGED page
     ELSE UNCHANGED clears /\ Render(truth, Cleared(id), focused, draft, problem, chosen)
  /\ UNCHANGED <<kind, file, conf, owed, stirred, requests, pushes, saves, edits, drafts>>

Second(id) ==
  /\ id \in clears /\ clears' = clears \ {id}
  /\ Render(truth, Cleared(id), focused, draft, problem, chosen)
  /\ UNCHANGED <<kind, process, requests, saves, edits, drafts>>

NextField ==
  \/ \E v \in Values : Flip(v) \/ Pill(v)
  \/ \E v \in Values \cup {None} : PickRow(v) \/ HandEdit(v)
  \/ \E d \in Values \cup {None, Bad} : Type(d)
  \/ \E id \in 0..MaxSaves : Second(id)
  \/ ChooseCustom \/ Reset \/ Focus \/ Blur \/ BlurName
  \/ Serve \/ Refuse \/ Reread \/ Push \/ Pushed \/ Replied

SpecField == InitField /\ [][NextField]_fieldVars

-----------------------------------------------------------------------------
Quiet ==
  /\ requests = <<>> /\ replies = <<>> /\ pushes = <<>> /\ clears = {}
  /\ ~owed /\ ~stirred /\ ~focused

(* "there is no client-side draft to get out of sync": once everything has  *)
(* arrived, the control shows what config.toml says, whoever wrote it and   *)
(* whichever saves were refused: a number's field too, unless it says what  *)
(* is wrong with the draft, and a menu never shows another row while a name *)
(* of one's own is set (useSettings.tsx useOptimistic, controls.tsx         *)
(* NumberControl and EnumControl).                                          *)
ShowsFile ==
  Quiet =>
    /\ Shown = Resolved(file)
    /\ kind.is \in {"number", "pills"} => problem \/ draft = Shown
    /\ kind.is = "name" /\ Unlisted(Shown) => chosen
=============================================================================
