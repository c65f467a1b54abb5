------------------------------ MODULE PanelWires ------------------------------
(***************************************************************************)
(* What the daemon and the panel's page share: the pushed events, the       *)
(* replies to the page's invokes, and the invokes.  A push and a reply      *)
(* travel on channels of their own; whether they keep their order is up to  *)
(* Electron, so an instance may assume it or not.                           *)
(***************************************************************************)
EXTENDS Integers, Sequences, FiniteSets

CONSTANTS MaxSid,   \* bound: sessions launched
          Batches,  \* bound: batches each session renders
          MaxWire   \* bound: messages on their way when the user or an extension
                    \* adds another

ASSUME PanelAssumption ==
  MaxSid \in Nat \ {0} /\ Batches \in [1..MaxSid -> Nat] /\ MaxWire \in Nat \ {0}

Sid == 1..MaxSid
None == 0

(* A tree is named by the number of batches that made it.  A batch means     *)
(* something only against the tree it was computed from.                    *)
Broken == -1
Patched(tree, batch) == IF tree = batch - 1 THEN batch ELSE Broken

VARIABLES
  ordered,   \* whether pushes and replies keep their order
  toPage,    \* events pushed to the page
  replies,   \* replies to it, when they travel apart
  fromPage   \* its invokes

wires == <<ordered, toPage, replies, fromPage>>

WiresInit ==
  /\ ordered \in BOOLEAN
  /\ toPage = <<>> /\ replies = <<>> /\ fromPage = <<>>

Push(msgs) == toPage' = toPage \o msgs /\ UNCHANGED replies
Reply(msg) ==
  IF ordered THEN toPage' = Append(toPage, msg) /\ UNCHANGED replies
             ELSE replies' = Append(replies, msg) /\ UNCHANGED toPage
=============================================================================
