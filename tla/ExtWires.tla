------------------------------ MODULE ExtWires ------------------------------
(***************************************************************************)
(* What the daemon, the extension host process and its worker threads       *)
(* share: the ordered message ports between them, and which of the process  *)
(* and the threads are alive.  The components only meet here.               *)
(*                                                                         *)
(* A worker is <<s, i>>: the i-th thread that ran session s.  A second one   *)
(* exists only after a reload, because a worker never serves two commands.  *)
(* JavaScript runs to completion: a handler, with the promise continuations *)
(* it settles, is one step.                                                 *)
(***************************************************************************)
EXTENDS Integers, Sequences, FiniteSets, SequencesExt

CONSTANTS Sid,        \* sessions the daemon may mint, each used once
          MaxInc,     \* bound: threads per session (1 + reloads)
          NoView,     \* those of them that run a no-view command
          MaxAsks     \* bound: service calls one worker makes

ASSUME WiresAssumption ==
  MaxInc \in Nat \ {0} /\ MaxAsks \in Nat /\ NoView \subseteq Sid

Worker == Sid \X (1..MaxInc)
Ask == 1..MaxAsks

VARIABLES
  process,   \* the host process: "none", "up", or "dead" and not yet noticed
  m2h,       \* daemon -> host
  h2m,       \* host -> daemon
  h2w,       \* host -> each worker
  w2h,       \* each worker -> host
  up,        \* threads that are running
  exited     \* threads that died on their own, the exit event not yet delivered

wires == <<process, m2h, h2m, h2w, w2h, up, exited>>

(* postMessage to a process or thread that is gone is silently dropped.     *)
ToHost(msgs) == IF process = "up" THEN m2h \o msgs ELSE m2h
ToWorker(w, m) == IF w \in up THEN [h2w EXCEPT ![w] = Append(@, m)] ELSE h2w
ToMain(msgs) == h2m \o msgs
(* A port whose writer is gone delivers one of the Prefixes of what it held. *)

WiresInit ==
  /\ process = "none" /\ m2h = <<>> /\ h2m = <<>>
  /\ h2w = [w \in Worker |-> <<>>] /\ w2h = [w \in Worker |-> <<>>]
  /\ up = {} /\ exited = {}
=============================================================================
