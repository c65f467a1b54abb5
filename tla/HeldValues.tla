------------------------------- MODULE HeldValues -------------------------------
(***************************************************************************)
(* Values that the page and the worker both hold: the fields of a form       *)
(* (src/renderer/src/ext/Form.tsx, form-model.ts) and the dropdown beside     *)
(* the search box (Dropdown.tsx).  What the person does goes up as events,    *)
(* in order; what the command makes of it comes down as documents, in order,  *)
(* while the person goes on.  The command keeps what it is told of the        *)
(* fields it controls.                                                        *)
(***************************************************************************)
EXTENDS Naturals, Sequences, FiniteSets

CONSTANTS
  Fields, Controlled,  \* ids of fields; those with a value property
  Values, Empty,       \* what a field may hold; what a blank one does
  Default,             \* Default[id]: its defaultValue, or Empty
  Choices,             \* the dropdown's values, in order
  None,
  MaxEvents            \* bound: what the person and the command do of themselves

VARIABLES
  held,     \* the command: the values of the fields it controls
  picked,   \* the choice it was last told, or None
  owned,    \* it gives the dropdown a value of its own
  shown, over,  \* the fields it draws; another view over the form
  dirty,    \* it has something to draw
  up, down, \* events and documents on the way
  doc,      \* the document the page draws
  values,   \* the page: a value for each field it knows
  seen,     \* what it last saw of each controlled field
  busy,     \* fields whose file dialog is open, or None
  selected, announced,  \* the dropdown's own choice, and the last it told
  wanted,   \* the field that is to have the caret
  strayed,  \* fields that went away, were reset, or were taken back, since they were typed in
  events
heldVars == <<held, picked, owned, shown, over, dirty, up, down, doc, values, seen, busy, selected,
              announced, wanted, strayed, events>>
Command == <<held, picked, owned, shown, over>>
Page == <<doc, values, seen, busy, selected, announced, wanted, strayed>>

NoFields == [f \in {} |-> Empty]
Event(kind, f, v, all) == [kind |-> kind, id |-> f, value |-> v, payload |-> all]
Choice(v) == Event("choice", None, v, NoFields)

Doing == events < MaxEvents /\ events' = events + 1

\* readForm and readField: a view over the form hides every field.
Doc == [fields |-> IF over THEN {} ELSE shown,
        value |-> [f \in Controlled |-> held[f]],
        choice |-> IF owned THEN picked ELSE None]

\* The choice the dropdown starts from.
Fallback == Choices[1]
ShownChoice(d, own) == IF d.choice # None THEN d.choice ELSE own

InitHeld ==
  /\ held \in [Controlled -> {Empty, Default[CHOOSE f \in Fields : TRUE]}]
  /\ owned \in BOOLEAN /\ picked = (IF owned THEN Fallback ELSE None)
  /\ shown = Fields /\ over = FALSE /\ dirty = TRUE /\ up = <<>> /\ down = <<>>
  /\ doc = [fields |-> {}, value |-> [f \in Controlled |-> Empty], choice |-> None]
  /\ values = NoFields /\ seen = NoFields /\ busy = None
  /\ selected = None /\ announced = None /\ wanted = None /\ strayed = {} /\ events = 0

----------------------------------------------------------------------------
(* The command. *)

\* It hears what the person did; a submitted form it only reads.
Hear ==
  /\ up # <<>> /\ up' = Tail(up)
  /\ LET e == Head(up)
     IN /\ held' = IF e.kind = "change" /\ e.id \in Controlled THEN [held EXCEPT ![e.id] = e.value] ELSE held
        /\ picked' = IF e.kind = "choice" THEN e.value ELSE picked
  /\ dirty' = TRUE /\ UNCHANGED <<Page, owned, shown, over, down, events>>

LastSent == IF down = <<>> THEN doc ELSE down[Len(down)]
\* It changes a value of its own accord, draws other fields, covers the form
\* with another view, or uncovers it.
SetsValue(f, v) ==
  /\ Doing /\ held[f] # v /\ held' = [held EXCEPT ![f] = v] /\ dirty' = TRUE
  /\ strayed' = IF LastSent.value[f] = v THEN strayed \cup {f} ELSE strayed
  /\ UNCHANGED <<doc, values, seen, busy, selected, announced, wanted, picked, owned, shown, over, up, down>>
Shows(fields) == /\ Doing /\ fields # shown /\ shown' = fields /\ dirty' = TRUE
                 /\ UNCHANGED <<Page, held, picked, owned, over, up, down>>
Covers == /\ Doing /\ over' = ~over /\ dirty' = TRUE
          /\ UNCHANGED <<Page, held, picked, owned, shown, up, down>>

Render == /\ dirty /\ dirty' = FALSE
          /\ down' = IF Doc = LastSent THEN down ELSE Append(down, Doc)
          /\ UNCHANGED <<Command, Page, up, events>>

----------------------------------------------------------------------------
(* The page. *)

(* A fault: a field the person has typed in is no longer the command's. *)
TouchedStays(d, f) ==
  IF f \notin d.fields \cap Controlled THEN FALSE
  ELSE (f \notin DOMAIN seen \/ seen[f] # d.value[f]) /\ (f \in DOMAIN values => seen[f] = values[f])
(* A fault: it wins with every document. *)
AlwaysWins(d, f) == f \in d.fields \cap Controlled
\* A controlled field's property wins, but only when it changes.
Wins(d, f) == f \in d.fields \cap Controlled /\ (f \in DOMAIN seen => seen[f] # d.value[f])

\* The effect on the fields: what the command changed, defaults for what is new
\* and not controlled; a field that has gone takes its value with it.
FieldsEffect(d) ==
  LET fresh == {f \in d.fields \ Controlled : f \notin DOMAIN values}
      written == {f \in d.fields : Wins(d, f)}
      kept == (DOMAIN values \cap d.fields) \cup fresh \cup written
  IN /\ values' = [f \in kept |-> IF f \in written THEN d.value[f]
                                  ELSE IF f \in fresh THEN Default[f] ELSE values[f]]
     /\ seen' = [f \in DOMAIN seen \cup written |-> IF f \in written THEN d.value[f] ELSE seen[f]]
     /\ strayed' = (strayed \ written) \cup (DOMAIN values \ d.fields)

(* A fault: every new value is told, the command's own as well. *)
EchoChoice(d, value) ==
  /\ announced' = value
  /\ up' = IF announced = value THEN up ELSE Append(up, Choice(value))
\* The dropdown's effect: run when it is first drawn, and when its value or the
\* command's changes; a value the command sent down is never told back.
Announce(d, value) ==
  IF selected # None /\ d.choice = doc.choice /\ value = ShownChoice(doc, selected)
  THEN UNCHANGED <<announced, up>>
  ELSE /\ announced' = value
       /\ up' = IF announced = value \/ d.choice = value THEN up
                ELSE Append(up, Choice(value))

ApplyDoc ==
  /\ down # <<>> /\ down' = Tail(down)
  /\ LET d == Head(down)
         own == IF selected = None THEN (IF d.choice # None THEN d.choice ELSE Fallback) ELSE selected
     IN /\ doc' = d /\ FieldsEffect(d)
        /\ selected' = own /\ Announce(d, ShownChoice(d, own))
  /\ UNCHANGED <<Command, dirty, busy, wanted, events>>

\* set: the value is the page's at once, and the command is told.
Set(f, v) == /\ values' = [g \in DOMAIN values \cup {f} |-> IF g = f THEN v ELSE values[g]]
             /\ up' = Append(up, Event("change", f, v, NoFields))

Shown(f) == IF f \in DOMAIN values THEN values[f] ELSE Empty

TypeField(f, v) ==
  /\ Doing /\ f \in doc.fields /\ v # Shown(f) /\ Set(f, v) /\ strayed' = strayed \ {f}
  /\ UNCHANGED <<Command, dirty, down, doc, seen, busy, selected, announced, wanted>>

\* The file dialog: the field is the one that was there when it opened, and an
\* empty answer changes nothing.
ChooseFiles(f) == /\ Doing /\ f \in doc.fields /\ busy = None /\ busy' = f
                  /\ UNCHANGED <<Command, dirty, up, down, doc, values, seen, selected, announced, wanted, strayed>>
FilesChosen(v) ==
  /\ busy # None /\ busy' = None
  /\ IF v = None THEN UNCHANGED <<values, up, strayed>>
     ELSE /\ Set(busy, v)
          /\ strayed' = IF busy \in doc.fields THEN strayed \ {busy} ELSE strayed \cup {busy}
  /\ UNCHANGED <<Command, dirty, down, doc, seen, selected, announced, wanted, events>>

\* blur and focus carry the field's value; so does a submitted form, every
\* field's.
Leave(f, kind) ==
  /\ Doing /\ f \in doc.fields /\ up' = Append(up, Event(kind, f, Shown(f), NoFields))
  /\ UNCHANGED <<Command, Page, dirty, down>>
Payload == [f \in doc.fields |-> Shown(f)]
Submit == /\ Doing /\ doc.fields # {} /\ up' = Append(up, Event("submit", None, Empty, Payload))
          /\ UNCHANGED <<Command, Page, dirty, down>>

\* reset and focus, asked for by the command.
Reset(f) ==
  /\ Doing /\ f \in doc.fields
  /\ values' = [g \in DOMAIN values \cup {f} |-> IF g = f THEN Default[f] ELSE values[g]]
  /\ strayed' = strayed \cup {f}
  /\ UNCHANGED <<Command, dirty, up, down, doc, seen, busy, selected, announced, wanted>>
Focus(f) == /\ Doing /\ wanted' = f
            /\ UNCHANGED <<Command, dirty, up, down, doc, values, seen, busy, selected, announced, strayed>>
Caret == /\ wanted # None /\ wanted' = None
         /\ UNCHANGED <<Command, dirty, up, down, doc, values, seen, busy, selected, announced, strayed, events>>

\* A choice by the menu, or by the key: the next after the last one told.
Pick(v) == /\ selected' = v /\ announced' = v
           /\ up' = Append(up, Choice(v))
           /\ UNCHANGED <<Command, dirty, down, doc, values, seen, busy, wanted, strayed>>
Choose(v) == Doing /\ selected # None /\ Pick(v)
Position(v) == CHOOSE i \in DOMAIN Choices : Choices[i] = v
Cycle == /\ Doing /\ selected # None /\ Len(Choices) > 1
         /\ Pick(Choices[(Position(announced) % Len(Choices)) + 1])

NextHeld ==
  \/ Hear \/ Render \/ ApplyDoc \/ Covers \/ Submit \/ Caret \/ Cycle
  \/ \E f \in Controlled, v \in Values : SetsValue(f, v)
  \/ \E fields \in SUBSET Fields : Shows(fields)
  \/ \E f \in Fields : ChooseFiles(f) \/ Reset(f) \/ Focus(f) \/ \E v \in Values : TypeField(f, v)
  \/ \E f \in Fields, kind \in {"blur", "focus"} : Leave(f, kind)
  \/ \E v \in Values \cup {None} : FilesChosen(v)
  \/ \E i \in DOMAIN Choices : Choose(Choices[i])

SpecHeld == InitHeld /\ [][NextHeld]_heldVars
\* The messages of the two processes arrive, and React draws what is dirty.
FairHeld == SpecHeld /\ WF_heldVars(Hear) /\ WF_heldVars(Render) /\ WF_heldVars(ApplyDoc)

----------------------------------------------------------------------------
(* A document that says of a field what the last one said leaves alone what   *)
(* the person typed in it (Form.tsx, the effect on the fields).                 *)
StaysTyped ==
  \A f \in Controlled \cap doc.fields \cap DOMAIN values :
    (doc'.value[f] = doc.value[f] /\ f \in doc'.fields /\ doc' # doc) => values'[f] = values[f]
TypingStays == [][StaysTyped]_heldVars

(* Once the person stops, the page and the command hold the same: each field   *)
(* that stayed in the form and was neither reset nor taken back before it was    *)
(* drawn, and the dropdown (Dropdown.tsx, its effect).                           *)
Same ==
  /\ \A f \in (Controlled \cap doc.fields) \ strayed : values[f] = held[f]
  /\ ShownChoice(doc, selected) = picked
BothHoldTheSame == <>[]Same
================================================================================
