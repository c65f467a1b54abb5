---------------------------- MODULE CallContract ----------------------------
(***************************************************************************)
(* What one RPC hop promises its callers: a call is placed once, settles    *)
(* once, and the way it settled never changes.                              *)
(***************************************************************************)
CONSTANTS Calls, Outcomes

VARIABLE call   \* per call: "fresh", "pending", or the outcome it settled with

Init == call = [c \in Calls |-> "fresh"]

Place(c) == call[c] = "fresh" /\ call' = [call EXCEPT ![c] = "pending"]

(* A call refused on the spot goes from fresh to its outcome.               *)
Refuse(c, o) == call[c] = "fresh" /\ call' = [call EXCEPT ![c] = o]

(* Several pending calls may settle in one step, with one outcome: the far  *)
(* side went away.                                                          *)
Resolve(C, o) ==
  /\ \A c \in C : call[c] = "pending"
  /\ call' = [c \in Calls |-> IF c \in C THEN o ELSE call[c]]

Next ==
  \/ \E c \in Calls : Place(c)
  \/ \E c \in Calls, o \in Outcomes : Refuse(c, o)
  \/ \E C \in SUBSET Calls, o \in Outcomes : Resolve(C, o)

Spec == Init /\ [][Next]_call
=============================================================================
