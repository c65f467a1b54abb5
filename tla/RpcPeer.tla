------------------------------ MODULE RpcPeer ------------------------------
(***************************************************************************)
(* One hop of JSON-RPC: the calling side of createPeer (src/node/rpc.ts),   *)
(* the serving side of the peer at the other end, and the two ordered ports *)
(* between them.  Main <-> extension host and host <-> worker are both such *)
(* a hop.                                                                   *)
(*                                                                         *)
(* timed is timeoutMs > 0.  Time is not counted: an armed timer may fire at *)
(* any moment, which covers every ratio of the deadline to the handler.     *)
(***************************************************************************)
EXTENDS Integers, Sequences, FiniteSets

CONSTANTS Methods,    \* what a caller may name
          Served,     \* the allow-list of the serving peer
          MaxCalls    \* bound: how many calls are ever placed

ASSUME RpcAssumption ==
  /\ Served \subseteq Methods
  /\ MaxCalls \in Nat \ {0}

Ids == 1..MaxCalls
Answers == {"result", "error"}
Outcomes == Answers \cup {"timeout", "disconnected"}

VARIABLES
  timed,      \* the calling peer was built with a timeout
  nextId,     \* the id the next call takes
  waiting,    \* ids in the waiting map
  timers,     \* ids whose setTimeout is armed
  disposed,   \* dispose() has run
  settled,    \* how each promise settled, in order (at most once, it is claimed)
  requests,   \* port to the serving peer
  running,    \* requests whose handler has not returned
  replies,    \* port back to the caller
  answered,   \* what the handlers came to, per id
  alive       \* the serving process is up

callerVars == <<timed, nextId, waiting, timers, disposed, settled>>
vars == <<timed, nextId, waiting, timers, disposed, settled,
          requests, running, replies, answered, alive>>

Request == [id : Ids, method : Methods]
Reply == [id : Ids, kind : Answers]

TypeOK ==
  /\ timed \in BOOLEAN
  /\ nextId \in 1..(MaxCalls + 1)
  /\ waiting \subseteq Ids
  /\ timers \subseteq Ids
  /\ disposed \in BOOLEAN
  /\ settled \in [Ids -> Seq(Outcomes)]
  /\ requests \in Seq(Request)
  /\ running \subseteq Ids
  /\ replies \in Seq(Reply)
  /\ answered \in [Ids -> SUBSET Answers]
  /\ alive \in BOOLEAN

Init ==
  /\ timed \in BOOLEAN
  /\ nextId = 1
  /\ waiting = {} /\ timers = {} /\ disposed = FALSE
  /\ settled = [i \in Ids |-> <<>>]
  /\ requests = <<>> /\ running = {} /\ replies = <<>>
  /\ answered = [i \in Ids |-> {}]
  /\ alive = TRUE

(* Faults of settle() the runs must notice: the timer left armed; the entry *)
(* left in the map; a reply settling whatever call is oldest; the entry     *)
(* dropped without telling the promise.                                     *)
SettleKeepsTimer(ids, outcome) ==
  /\ waiting' = waiting \ ids
  /\ timers' = timers
  /\ settled' = [i \in Ids |-> IF i \in ids \cap waiting
                               THEN Append(settled[i], outcome) ELSE settled[i]]
SettleKeepsEntry(ids, outcome) ==
  /\ UNCHANGED <<waiting, timers>>
  /\ settled' = [i \in Ids |-> IF i \in ids THEN <<outcome>> ELSE settled[i]]
SettleUnchecked(ids, outcome) ==
  /\ waiting' = waiting \ ids
  /\ timers' = timers \ ids
  /\ settled' = [i \in Ids |-> IF i \in ids
                               THEN Append(settled[i], outcome) ELSE settled[i]]
SettleOldest(ids, outcome) ==
  LET first == {i \in waiting : \A j \in waiting : i <= j}
  IN  /\ waiting' = waiting \ first
      /\ timers' = timers \ first
      /\ settled' = [i \in Ids |-> IF i \in first
                                   THEN Append(settled[i], outcome) ELSE settled[i]]
SettleSilently(ids, outcome) ==
  /\ waiting' = waiting \ ids
  /\ timers' = timers \ ids
  /\ UNCHANGED settled

(* settle(): each of the ids still waiting leaves the map, loses its timer  *)
(* and settles with the outcome; an id that is not waiting is ignored.      *)
Settle(ids, outcome) ==
  /\ waiting' = waiting \ ids
  /\ timers' = timers \ (ids \cap waiting)
  /\ settled' = [i \in Ids |-> IF i \in ids \cap waiting
                               THEN Append(settled[i], outcome)
                               ELSE settled[i]]

(* Faults of call(): the disposed flag not read; the timer never armed.     *)
CallAfterDispose(m) ==
  /\ nextId \in Ids
  /\ nextId' = nextId + 1
  /\ waiting' = waiting \cup {nextId}
  /\ timers' = IF timed THEN timers \cup {nextId} ELSE timers
  /\ requests' = IF alive THEN Append(requests, [id |-> nextId, method |-> m])
                          ELSE requests
  /\ UNCHANGED <<timed, settled, disposed, running, replies, answered, alive>>
CallWithoutTimer(m) ==
  /\ nextId \in Ids /\ ~disposed
  /\ nextId' = nextId + 1
  /\ waiting' = waiting \cup {nextId}
  /\ requests' = IF alive THEN Append(requests, [id |-> nextId, method |-> m])
                          ELSE requests
  /\ UNCHANGED <<timed, timers, settled, disposed, running, replies, answered, alive>>

(* call(): refused once disposed (the refusal is a promise rejected on the  *)
(* spot and never enters the map); a dead transport swallows the request.   *)
Call(m) ==
  /\ nextId \in Ids
  /\ nextId' = nextId + 1
  /\ IF disposed
       THEN /\ settled' = [settled EXCEPT ![nextId] = Append(@, "disconnected")]
            /\ UNCHANGED <<waiting, timers, requests>>
       ELSE /\ waiting' = waiting \cup {nextId}
            /\ timers' = IF timed THEN timers \cup {nextId} ELSE timers
            /\ requests' = IF alive
                             THEN Append(requests, [id |-> nextId, method |-> m])
                             ELSE requests
            /\ UNCHANGED settled
  /\ UNCHANGED <<timed, disposed, running, replies, answered, alive>>

(* handle() on a reply.  It does not look at disposed: settle does the rest. *)
HandleReply ==
  /\ replies # <<>>
  /\ replies' = Tail(replies)
  /\ Settle({Head(replies).id}, Head(replies).kind)
  /\ UNCHANGED <<timed, nextId, disposed, requests, running, answered, alive>>

TimerFires(i) ==
  /\ i \in timers
  /\ waiting' = waiting \ {i}
  /\ timers' = timers \ {i}
  /\ settled' = IF i \in waiting
                  THEN [settled EXCEPT ![i] = Append(@, "timeout")]
                  ELSE settled
  /\ UNCHANGED <<timed, nextId, disposed, requests, running, replies, answered, alive>>

(* dispose(): called by the owner of the peer when the transport died, or   *)
(* when it gives the far side up (a session ended, the daemon quits).       *)
Dispose ==
  /\ ~disposed
  /\ disposed' = TRUE
  /\ Settle(waiting, "disconnected")
  /\ UNCHANGED <<timed, nextId, requests, running, replies, answered, alive>>

(* A fault of dispatch(): an unknown method answered with neither a result  *)
(* nor an error.                                                            *)
DispatchAnswersNothing ==
  /\ alive /\ requests # <<>>
  /\ requests' = Tail(requests)
  /\ LET r == Head(requests) IN
       IF r.method \in Served
         THEN running' = running \cup {r.id} /\ UNCHANGED replies
         ELSE /\ replies' = Append(replies, [id |-> r.id, kind |-> "nothing"])
              /\ UNCHANGED running
  /\ UNCHANGED <<callerVars, answered, alive>>

(* dispatch() before its await: unknown methods are answered, known run.    *)
Dispatch ==
  /\ alive /\ requests # <<>>
  /\ requests' = Tail(requests)
  /\ LET r == Head(requests) IN
       IF r.method \in Served
         THEN /\ running' = running \cup {r.id}
              /\ UNCHANGED <<replies, answered>>
         ELSE /\ replies' = Append(replies, [id |-> r.id, kind |-> "error"])
              /\ answered' = [answered EXCEPT ![r.id] = @ \cup {"error"}]
              /\ UNCHANGED running
  /\ UNCHANGED <<callerVars, alive>>

(* dispatch() after its await: the handler returned or threw.               *)
HandlerEnds(i, kind) ==
  /\ alive /\ i \in running
  /\ running' = running \ {i}
  /\ replies' = Append(replies, [id |-> i, kind |-> kind])
  /\ answered' = [answered EXCEPT ![i] = @ \cup {kind}]
  /\ UNCHANGED <<callerVars, requests, alive>>

(* The serving process or thread dies with whatever it was doing.  Replies  *)
(* it had already posted may still be delivered.                            *)
Die ==
  /\ alive
  /\ alive' = FALSE
  /\ requests' = <<>> /\ running' = {}
  /\ UNCHANGED <<callerVars, replies, answered>>

Next ==
  \/ \E m \in Methods : Call(m)
  \/ HandleReply
  \/ \E i \in Ids : TimerFires(i)
  \/ Dispose
  \/ Dispatch
  \/ \E i \in Ids, kind \in Answers : HandlerEnds(i, kind)
  \/ Die

(* Event loops run and timers fire; handlers may never return.  An owner    *)
(* disposes of the peer of a dead transport (its exit handler does).        *)
Fairness ==
  /\ WF_vars(HandleReply)
  /\ WF_vars(Dispatch)
  /\ \A i \in Ids : WF_vars(TimerFires(i))
  /\ WF_vars(~alive /\ Dispose)

Spec == Init /\ [][Next]_vars
FairSpec == Spec /\ Fairness

----------------------------------------------------------------------------
(* What the callers see of a hop: CallContract, with a call pending while   *)
(* its entry is in the map.                                                 *)
callState == [i \in Ids |-> IF settled[i] # <<>> THEN settled[i][1]
                            ELSE IF i \in waiting THEN "pending" ELSE "fresh"]
Contract == INSTANCE CallContract WITH Calls <- Ids, call <- callState

(* The hop implements the contract: once placed, a call settles once, with  *)
(* one outcome that no later reply, timer or dispose rewrites.              *)
ImplementsContract == Contract!Spec

(* A promise settles at most once, and never while it is still in the map:  *)
(* a late reply, a timer and a dispose race for the same entry.             *)
SettledOnce ==
  \A i \in Ids : /\ Len(settled[i]) <= 1
                 /\ i \in waiting => settled[i] = <<>>

(* A call that was placed is either still in the map or settled: no path    *)
(* (timeout, dispose, late reply) drops an entry without telling its caller. *)
NoneForgotten ==
  \A i \in Ids : i < nextId => i \in waiting \/ settled[i] # <<>>

(* An answer the caller sees is one the handler of that very call gave.     *)
OwnAnswer ==
  \A i \in Ids, kind \in Answers : settled[i] = <<kind>> => kind \in answered[i]

(* An armed timer always belongs to a call that is still waiting, and in a  *)
(* timed peer every waiting call has one: settle clears what call armed.    *)
TimersMatch == timers = IF timed THEN waiting ELSE {}

(* After dispose() nothing waits: a reply still in flight finds no entry,   *)
(* and a later call is refused rather than left waiting on a dead port.     *)
DisposedEmpty == disposed => waiting = {}

(* A timed peer settles every call, whatever the far side does.             *)
TimedSettles == \A i \in Ids : (timed /\ i \in waiting) ~> (i \notin waiting)

(* An untimed peer settles every call once the far side is gone: that is    *)
(* the whole of what dispose() is for.                                      *)
DeathSettles == ~alive ~> (waiting = {})

(* What one peer promises of its calls at every moment: each settles once,  *)
(* with its own answer; none is forgotten, none keeps a timer it is done    *)
(* with, and nothing waits on a peer that is disposed of.                   *)
CallsIntact ==
  TypeOK /\ SettledOnce /\ NoneForgotten /\ OwnAnswer /\ TimersMatch /\ DisposedEmpty

(* And of their end: a timed call settles whatever the far side does, an    *)
(* untimed one when the far side is gone.                                   *)
CallsSettle == TimedSettles /\ DeathSettles
=============================================================================
