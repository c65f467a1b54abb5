--------------------------- MODULE RpcPeerProofs ---------------------------
(***************************************************************************)
(* Proofs about one RPC hop, for any allow-list, any number of calls, with  *)
(* and without a timeout.                                                   *)
(***************************************************************************)
EXTENDS RpcPeer, TLAPS

(* A promise holds nothing, or the one outcome it settled with.             *)
Unsettled(i) == settled[i] = <<>>
SettledWith(i, o) == settled[i] = <<o>>

(* The caller's half: ids not yet handed out are untouched; an id handed    *)
(* out is either waiting and unsettled, or out of the map and settled once. *)
CallerInv ==
  \A i \in Ids :
    /\ i >= nextId => i \notin waiting /\ Unsettled(i)
    /\ i \in waiting => Unsettled(i)
    /\ (i < nextId /\ i \notin waiting) => \E o \in Outcomes : SettledWith(i, o)

(* The answers: what is on its way back, and what the caller was told, is   *)
(* what some handler of that call came to.                                  *)
AnswerInv ==
  /\ \A k \in 1..Len(replies) : replies[k].kind \in answered[replies[k].id]
  /\ OwnAnswer

IInv == TypeOK /\ CallerInv /\ AnswerInv /\ TimersMatch /\ DisposedEmpty

----------------------------------------------------------------------------
(* Facts about the sequences the hop is made of.                            *)
LEMMA PortFacts ==
  ASSUME NEW S, NEW s \in Seq(S)
  PROVE  /\ <<>> \in Seq(S)
         /\ \A e \in S : /\ Append(s, e) \in Seq(S)
                         /\ Len(Append(s, e)) = Len(s) + 1
                         /\ \A k \in 1..Len(s) : Append(s, e)[k] = s[k]
                         /\ Append(s, e)[Len(s) + 1] = e
         /\ s # <<>> => /\ Head(s) \in S /\ Head(s) = s[1]
                        /\ Tail(s) \in Seq(S)
                        /\ Len(s) \in Nat \ {0}
                        /\ Len(Tail(s)) = Len(s) - 1
                        /\ \A k \in 1..Len(Tail(s)) : Tail(s)[k] = s[k + 1]
PROOF
  OBVIOUS

LEMMA OneOutcome ==
  /\ <<>> \in Seq(Outcomes) /\ Len(<<>>) = 0
  /\ \A o \in Outcomes : /\ Append(<<>>, o) = <<o>>
                         /\ <<o>> \in Seq(Outcomes)
                         /\ <<o>> # <<>> /\ Len(<<o>>) = 1 /\ <<o>>[1] = o
  /\ \A o, p \in Outcomes : <<o>> = <<p>> => o = p
PROOF
<1>1. \A o, p \in Outcomes : <<o>> = <<p>> => o = p
  <2> TAKE o, p \in Outcomes
  <2> HAVE <<o>> = <<p>>
  <2>1. <<o>>[1] = <<p>>[1]
    OBVIOUS
  <2> QED
    BY <2>1
<1> QED
  BY <1>1

(* What settle() does to the caller's half, whichever path calls it.        *)
LEMMA SettleFacts ==
  ASSUME TypeOK, CallerInv, TimersMatch,
         NEW ids \in SUBSET Ids, NEW o \in Outcomes,
         Settle(ids, o), UNCHANGED <<timed, nextId>>
  PROVE  /\ waiting' = waiting \ ids
         /\ waiting' \in SUBSET Ids /\ timers' \in SUBSET Ids
         /\ settled' \in [Ids -> Seq(Outcomes)]
         /\ TimersMatch'
         /\ CallerInv'
         /\ \A i \in Ids : IF i \in ids \cap waiting
                             THEN settled'[i] = <<o>>
                             ELSE settled'[i] = settled[i]
PROOF
<1>1. \A i \in Ids : IF i \in ids \cap waiting
                       THEN settled'[i] = <<o>> ELSE settled'[i] = settled[i]
  BY OneOutcome DEF Settle, CallerInv, Unsettled
<1>2. settled' \in [Ids -> Seq(Outcomes)]
  <2>1. settled' = [i \in Ids |-> settled'[i]]
    BY DEF Settle
  <2>2. \A i \in Ids : settled'[i] \in Seq(Outcomes)
    BY <1>1, OneOutcome DEF TypeOK
  <2> QED
    BY <2>1, <2>2
<1>3. waiting' = waiting \ ids /\ timers' = timers \ (ids \cap waiting)
  BY DEF Settle
<1>4. TimersMatch'
  BY <1>3 DEF TimersMatch
<1>5. CallerInv'
  <2> SUFFICES ASSUME NEW i \in Ids
               PROVE  /\ i >= nextId' => i \notin waiting' /\ settled'[i] = <<>>
                      /\ i \in waiting' => settled'[i] = <<>>
                      /\ (i < nextId' /\ i \notin waiting')
                            => \E p \in Outcomes : settled'[i] = <<p>>
    BY DEF CallerInv, Unsettled, SettledWith
  <2>1. CASE i \in ids \cap waiting
    BY <2>1, <1>1, <1>3 DEF CallerInv, Unsettled
  <2>2. CASE i \notin ids \cap waiting
    BY <2>2, <1>1, <1>3 DEF CallerInv, Unsettled, SettledWith
  <2> QED
    BY <2>1, <2>2
<1> QED
  BY <1>1, <1>2, <1>3, <1>4, <1>5 DEF TypeOK

----------------------------------------------------------------------------
LEMMA RpcInit == Init => IInv
PROOF
<1> SUFFICES ASSUME Init PROVE IInv
  OBVIOUS
<1>1. TypeOK
  <2>1. nextId \in 1..(MaxCalls + 1)
    BY RpcAssumption DEF Init
  <2>2. settled \in [Ids -> Seq(Outcomes)]
    BY OneOutcome DEF Init
  <2>3. answered \in [Ids -> SUBSET Answers]
    BY DEF Init
  <2>4. requests \in Seq(Request) /\ replies \in Seq(Reply)
    BY DEF Init
  <2> QED
    BY <2>1, <2>2, <2>3, <2>4 DEF Init, TypeOK
<1>2. CallerInv
  BY RpcAssumption DEF Init, CallerInv, Unsettled, Ids
<1>3. AnswerInv
  <2>1. \A i \in Ids : settled[i] = <<>>
    BY DEF Init
  <2>2. \A kind \in Answers : <<kind>> # <<>>
    OBVIOUS
  <2>3. OwnAnswer
    BY <2>1, <2>2 DEF OwnAnswer
  <2> QED
    BY <2>3 DEF Init, AnswerInv
<1>4. TimersMatch /\ DisposedEmpty
  BY DEF Init, TimersMatch, DisposedEmpty
<1> QED
  BY <1>1, <1>2, <1>3, <1>4 DEF IInv

(* Placing a call: the id leaves the free range and enters the map, or is   *)
(* settled on the spot by a disposed peer.                                  *)
LEMMA RpcCall == ASSUME IInv, NEW m \in Methods, Call(m) PROVE IInv'
PROOF
<1> USE DEF IInv
<1>1. nextId \in Ids /\ nextId' = nextId + 1 /\ nextId' \in 1..(MaxCalls + 1)
  BY RpcAssumption DEF Call, Ids
<1>2. "disconnected" \in Outcomes /\ settled[nextId] = <<>> /\ nextId \notin waiting
  BY <1>1 DEF Outcomes, CallerInv, Unsettled, Ids
<1>3. \A i \in Ids : i # nextId => settled'[i] = settled[i]
  BY <1>1 DEF Call, TypeOK
<1>4. settled'[nextId] = IF disposed THEN <<"disconnected">> ELSE <<>>
  BY <1>1, <1>2, OneOutcome DEF Call, TypeOK
<1>5. waiting' = IF disposed THEN waiting ELSE waiting \cup {nextId}
  BY DEF Call
<1>6. TypeOK'
  <2>1. settled' \in [Ids -> Seq(Outcomes)]
    <3>1. CASE disposed
      <4>1. Append(settled[nextId], "disconnected") \in Seq(Outcomes)
        BY <1>2, OneOutcome
      <4>2. settled' = [settled EXCEPT ![nextId] = Append(settled[nextId], "disconnected")]
        BY <3>1 DEF Call
      <4> QED
        BY <4>1, <4>2 DEF TypeOK
    <3>2. CASE ~disposed
      BY <3>2 DEF Call, TypeOK
    <3> QED
      BY <3>1, <3>2
  <2>2. requests' \in Seq(Request)
    <3>1. [id |-> nextId, method |-> m] \in Request
      BY <1>1 DEF Request
    <3>2. Append(requests, [id |-> nextId, method |-> m]) \in Seq(Request)
      BY <3>1, PortFacts DEF TypeOK
    <3> QED
      BY <3>2 DEF Call, TypeOK
  <2>3. waiting' \subseteq Ids /\ timers' \subseteq Ids
    BY <1>1 DEF Call, TypeOK
  <2> QED
    BY <1>1, <2>1, <2>2, <2>3 DEF Call, TypeOK
<1>7. CallerInv'
  <2> SUFFICES ASSUME NEW i \in Ids
               PROVE  /\ i >= nextId' => i \notin waiting' /\ settled'[i] = <<>>
                      /\ i \in waiting' => settled'[i] = <<>>
                      /\ (i < nextId' /\ i \notin waiting')
                            => \E p \in Outcomes : settled'[i] = <<p>>
    BY DEF CallerInv, Unsettled, SettledWith
  <2>1. CASE i = nextId
    BY <2>1, <1>1, <1>2, <1>4, <1>5 DEF Ids
  <2>2. CASE i # nextId
    BY <2>2, <1>1, <1>3, <1>5 DEF CallerInv, Unsettled, SettledWith, Ids
  <2> QED
    BY <2>1, <2>2
<1>8. AnswerInv'
  <2>1. OwnAnswer'
    <3> SUFFICES ASSUME NEW i \in Ids, NEW kind \in Answers, settled'[i] = <<kind>>
                 PROVE  kind \in answered[i]
      BY DEF OwnAnswer, Call
    <3>1. kind \in Outcomes /\ kind # "disconnected"
      BY DEF Outcomes, Answers
    <3>2. i # nextId
      BY <1>2, <1>4, <3>1, OneOutcome
    <3> QED
      BY <3>2, <1>3 DEF AnswerInv, OwnAnswer
  <2> QED
    BY <2>1 DEF AnswerInv, Call
<1>9. TimersMatch' /\ DisposedEmpty'
  BY DEF TimersMatch, DisposedEmpty, Call
<1> QED
  BY <1>6, <1>7, <1>8, <1>9

LEMMA RpcHandleReply == ASSUME IInv, HandleReply PROVE IInv'
PROOF
<1> USE DEF IInv
<1> DEFINE r == Head(replies)
<1>1. /\ r \in Reply /\ r = replies[1]
      /\ replies' = Tail(replies) /\ replies' \in Seq(Reply)
      /\ Len(replies) \in Nat \ {0} /\ Len(replies') = Len(replies) - 1
      /\ \A k \in 1..Len(replies') : replies'[k] = replies[k + 1]
  BY PortFacts DEF HandleReply, TypeOK
<1>2. r.id \in Ids /\ r.kind \in Answers /\ r.kind \in Outcomes
  BY <1>1 DEF Reply, Outcomes
<1>3. Settle({r.id}, r.kind) /\ UNCHANGED <<timed, nextId>>
  BY DEF HandleReply
<1>4. {r.id} \in SUBSET Ids
  BY <1>2
<1>5. /\ waiting' = waiting \ {r.id}
      /\ waiting' \in SUBSET Ids /\ timers' \in SUBSET Ids
      /\ settled' \in [Ids -> Seq(Outcomes)]
      /\ TimersMatch'
      /\ CallerInv'
      /\ \A i \in Ids : IF i \in {r.id} \cap waiting
                          THEN settled'[i] = <<r.kind>>
                          ELSE settled'[i] = settled[i]
  BY <1>2, <1>3, <1>4, SettleFacts
<1>6. TypeOK'
  BY <1>1, <1>5 DEF TypeOK, HandleReply
<1>7. r.kind \in answered[r.id]
  BY <1>1 DEF AnswerInv
<1>8. AnswerInv'
  <2>1. OwnAnswer'
    <3> SUFFICES ASSUME NEW i \in Ids, NEW kind \in Answers, settled'[i] = <<kind>>
                 PROVE  kind \in answered[i]
      BY DEF OwnAnswer, HandleReply
    <3>1. kind \in Outcomes
      BY DEF Outcomes
    <3>2. CASE i \in {r.id} \cap waiting
      <4>1. settled'[i] = <<r.kind>> /\ i = r.id
        BY <3>2, <1>5
      <4>2. kind = r.kind
        BY <4>1, <3>1, <1>2, OneOutcome
      <4> QED
        BY <4>1, <4>2, <1>7
    <3>3. CASE i \notin {r.id} \cap waiting
      BY <3>3, <1>5 DEF AnswerInv, OwnAnswer
    <3> QED
      BY <3>2, <3>3
  <2>2. \A k \in 1..Len(replies') : replies'[k].kind \in answered'[replies'[k].id]
    <3> TAKE k \in 1..Len(replies')
    <3>1. k + 1 \in 1..Len(replies) /\ replies'[k] = replies[k + 1]
      BY <1>1
    <3> QED
      BY <3>1 DEF AnswerInv, HandleReply
  <2> QED
    BY <2>1, <2>2 DEF AnswerInv
<1>9. DisposedEmpty'
  BY <1>5 DEF DisposedEmpty, HandleReply
<1> QED
  BY <1>5, <1>6, <1>8, <1>9

LEMMA RpcTimerFires ==
  ASSUME IInv, NEW j \in Ids, TimerFires(j) PROVE IInv'
PROOF
<1> USE DEF IInv
<1>1. timed /\ j \in waiting
  BY DEF TimerFires, TimersMatch
<1>2. {j} \in SUBSET Ids /\ "timeout" \in Outcomes /\ UNCHANGED <<timed, nextId>>
  BY DEF Outcomes, TimerFires
<1>3. Settle({j}, "timeout")
  <2>1. settled' = [i \in Ids |-> IF i \in {j} \cap waiting
                                 THEN Append(settled[i], "timeout") ELSE settled[i]]
    BY <1>1 DEF TimerFires, TypeOK
  <2> QED
    BY <1>1, <2>1 DEF TimerFires, Settle
<1>4. /\ waiting' = waiting \ {j}
      /\ waiting' \in SUBSET Ids /\ timers' \in SUBSET Ids
      /\ settled' \in [Ids -> Seq(Outcomes)]
      /\ TimersMatch'
      /\ CallerInv'
      /\ \A i \in Ids : IF i \in {j} \cap waiting
                          THEN settled'[i] = <<"timeout">>
                          ELSE settled'[i] = settled[i]
  BY <1>2, <1>3, SettleFacts
<1>5. TypeOK'
  BY <1>4 DEF TypeOK, TimerFires
<1>6. AnswerInv'
  <2>1. OwnAnswer'
    <3> SUFFICES ASSUME NEW i \in Ids, NEW kind \in Answers, settled'[i] = <<kind>>
                 PROVE  kind \in answered[i]
      BY DEF OwnAnswer, TimerFires
    <3>1. kind \in Outcomes /\ kind # "timeout"
      BY DEF Outcomes, Answers
    <3>2. settled'[i] = settled[i]
      BY <1>2, <1>4, <3>1, OneOutcome
    <3> QED
      BY <3>2 DEF AnswerInv, OwnAnswer
  <2> QED
    BY <2>1 DEF AnswerInv, TimerFires
<1>7. DisposedEmpty'
  BY <1>4 DEF DisposedEmpty, TimerFires
<1> QED
  BY <1>4, <1>5, <1>6, <1>7

LEMMA RpcDispose == ASSUME IInv, Dispose PROVE IInv'
PROOF
<1> USE DEF IInv
<1>1. waiting \in SUBSET Ids /\ "disconnected" \in Outcomes /\ UNCHANGED <<timed, nextId>>
  BY DEF Outcomes, Dispose, TypeOK
<1>2. Settle(waiting, "disconnected")
  BY DEF Dispose
<1>3. /\ waiting' = waiting \ waiting
      /\ waiting' \in SUBSET Ids /\ timers' \in SUBSET Ids
      /\ settled' \in [Ids -> Seq(Outcomes)]
      /\ TimersMatch'
      /\ CallerInv'
      /\ \A i \in Ids : IF i \in waiting \cap waiting
                          THEN settled'[i] = <<"disconnected">>
                          ELSE settled'[i] = settled[i]
  BY <1>1, <1>2, SettleFacts
<1>4. TypeOK'
  BY <1>3 DEF TypeOK, Dispose
<1>5. AnswerInv'
  <2>1. OwnAnswer'
    <3> SUFFICES ASSUME NEW i \in Ids, NEW kind \in Answers, settled'[i] = <<kind>>
                 PROVE  kind \in answered[i]
      BY DEF OwnAnswer, Dispose
    <3>1. kind \in Outcomes /\ kind # "disconnected"
      BY DEF Outcomes, Answers
    <3>2. settled'[i] = settled[i]
      BY <1>1, <1>3, <3>1, OneOutcome
    <3> QED
      BY <3>2 DEF AnswerInv, OwnAnswer
  <2> QED
    BY <2>1 DEF AnswerInv, Dispose
<1>6. DisposedEmpty'
  BY <1>3 DEF DisposedEmpty
<1> QED
  BY <1>3, <1>4, <1>5, <1>6

(* The serving side: answers are only ever added, and a reply that is       *)
(* posted is one that was added with it.                                    *)
LEMMA RpcAnswer ==
  ASSUME IInv, UNCHANGED callerVars, NEW i \in Ids, NEW kind \in Answers,
         replies' = Append(replies, [id |-> i, kind |-> kind]),
         answered' = [answered EXCEPT ![i] = @ \cup {kind}]
  PROVE  /\ replies' \in Seq(Reply) /\ answered' \in [Ids -> SUBSET Answers]
         /\ AnswerInv' /\ CallerInv' /\ TimersMatch' /\ DisposedEmpty'
PROOF
<1> USE DEF IInv
<1> DEFINE r == [id |-> i, kind |-> kind]
<1>1. r \in Reply
  BY DEF Reply
<1>2. /\ replies' \in Seq(Reply) /\ Len(replies') = Len(replies) + 1
      /\ \A k \in 1..Len(replies) : replies'[k] = replies[k]
      /\ replies'[Len(replies) + 1] = r
      /\ Len(replies) \in Nat
  BY <1>1, PortFacts DEF TypeOK
<1>3. answered' \in [Ids -> SUBSET Answers]
  BY DEF TypeOK
<1>4. \A j \in Ids : answered[j] \subseteq answered'[j]
  BY DEF TypeOK
<1>5. kind \in answered'[i]
  BY DEF TypeOK
<1>6. \A k \in 1..Len(replies') : replies'[k].kind \in answered'[replies'[k].id]
  <2> TAKE k \in 1..Len(replies')
  <2>1. CASE k \in 1..Len(replies)
    <3>1. replies[k] \in Reply
      BY <2>1 DEF TypeOK
    <3>2. replies[k].id \in Ids
      BY <3>1 DEF Reply
    <3> QED
      BY <1>2, <1>4, <2>1, <3>2 DEF AnswerInv
  <2>2. CASE k = Len(replies) + 1
    BY <1>2, <1>5, <2>2
  <2> QED
    BY <1>2, <2>1, <2>2
<1>7. AnswerInv'
  BY <1>4, <1>6 DEF AnswerInv, OwnAnswer, callerVars
<1> QED
  BY <1>2, <1>3, <1>7 DEF CallerInv, Unsettled, SettledWith, TimersMatch, DisposedEmpty,
                        callerVars

LEMMA RpcDispatch == ASSUME IInv, Dispatch PROVE IInv'
PROOF
<1> USE DEF IInv
<1> DEFINE r == Head(requests)
<1>1. r \in Request /\ requests' = Tail(requests) /\ requests' \in Seq(Request)
  BY PortFacts DEF Dispatch, TypeOK
<1>2. r.id \in Ids
  BY <1>1 DEF Request
<1>3. UNCHANGED <<callerVars, alive>>
  BY DEF Dispatch
<1>4. CASE r.method \in Served
  <2>1. running' = running \cup {r.id} /\ UNCHANGED <<replies, answered>>
    BY <1>4 DEF Dispatch
  <2>2. TypeOK'
    BY <1>1, <1>2, <1>3, <2>1 DEF TypeOK, callerVars
  <2> QED
    BY <1>3, <2>1, <2>2 DEF CallerInv, Unsettled, SettledWith, AnswerInv, OwnAnswer,
                          TimersMatch, DisposedEmpty, callerVars
<1>5. CASE r.method \notin Served
  <2>1. /\ replies' = Append(replies, [id |-> r.id, kind |-> "error"])
        /\ answered' = [answered EXCEPT ![r.id] = @ \cup {"error"}]
        /\ UNCHANGED running
    BY <1>5 DEF Dispatch
  <2>2. "error" \in Answers /\ UNCHANGED callerVars
    BY <1>3 DEF Answers
  <2>3. /\ replies' \in Seq(Reply) /\ answered' \in [Ids -> SUBSET Answers]
        /\ AnswerInv' /\ CallerInv' /\ TimersMatch' /\ DisposedEmpty'
    BY <1>2, <2>1, <2>2, RpcAnswer
  <2>4. TypeOK'
    BY <1>1, <1>3, <2>1, <2>3 DEF TypeOK, callerVars
  <2> QED
    BY <2>3, <2>4
<1> QED
  BY <1>4, <1>5

LEMMA RpcHandlerEnds ==
  ASSUME IInv, NEW i \in Ids, NEW kind \in Answers, HandlerEnds(i, kind) PROVE IInv'
PROOF
<1>1. /\ replies' \in Seq(Reply) /\ answered' \in [Ids -> SUBSET Answers]
      /\ AnswerInv' /\ CallerInv' /\ TimersMatch' /\ DisposedEmpty'
  BY RpcAnswer DEF HandlerEnds
<1>2. TypeOK'
  BY <1>1 DEF IInv, TypeOK, HandlerEnds, callerVars
<1> QED
  BY <1>1, <1>2 DEF IInv

LEMMA RpcDie == ASSUME IInv, Die PROVE IInv'
PROOF
<1>1. TypeOK'
  <2>1. requests' = <<>> /\ running' = {} /\ alive' = FALSE
    BY DEF Die
  <2>2. <<>> \in Seq(Request)
    OBVIOUS
  <2> QED
    BY <2>1, <2>2 DEF IInv, TypeOK, Die, callerVars
<1> QED
  BY <1>1 DEF IInv, CallerInv, Unsettled, SettledWith, AnswerInv, OwnAnswer,
             TimersMatch, DisposedEmpty, Die, callerVars

LEMMA RpcStutter == ASSUME IInv, UNCHANGED vars PROVE IInv'
PROOF
<1>1. TypeOK'
  BY DEF IInv, TypeOK, vars
<1> QED
  BY <1>1 DEF IInv, CallerInv, Unsettled, SettledWith, AnswerInv, OwnAnswer,
             TimersMatch, DisposedEmpty, vars

LEMMA RpcInductive == IInv /\ [Next]_vars => IInv'
PROOF
<1> SUFFICES ASSUME IInv, [Next]_vars PROVE IInv'
  OBVIOUS
<1>1. CASE \E m \in Methods : Call(m)
  BY <1>1, RpcCall
<1>2. CASE HandleReply
  BY <1>2, RpcHandleReply
<1>3. CASE \E i \in Ids : TimerFires(i)
  BY <1>3, RpcTimerFires
<1>4. CASE Dispose
  BY <1>4, RpcDispose
<1>5. CASE Dispatch
  BY <1>5, RpcDispatch
<1>6. CASE \E i \in Ids, kind \in Answers : HandlerEnds(i, kind)
  BY <1>6, RpcHandlerEnds
<1>7. CASE Die
  BY <1>7, RpcDie
<1>8. CASE UNCHANGED vars
  BY <1>8, RpcStutter
<1> QED
  BY <1>1, <1>2, <1>3, <1>4, <1>5, <1>6, <1>7, <1>8 DEF Next

LEMMA RpcInvariant == Spec => []IInv
PROOF
  BY RpcInit, RpcInductive, PTL DEF Spec

----------------------------------------------------------------------------
(* The state of a hop keeps its types, whatever the caller, the far side    *)
(* and the timers do (createPeer's waiting map, timers and ports).          *)
THEOREM RpcTypeOK == Spec => []TypeOK
PROOF
  BY RpcInvariant, PTL DEF IInv

(* No promise of createPeer settles twice, and none settles while its entry *)
(* is still in the waiting map, for every race of reply, timer and dispose. *)
THEOREM RpcSettledOnce == Spec => []SettledOnce
PROOF
<1>1. IInv => SettledOnce
  <2> SUFFICES ASSUME IInv, NEW i \in Ids
               PROVE  /\ Len(settled[i]) <= 1
                      /\ i \in waiting => settled[i] = <<>>
    BY DEF SettledOnce
  <2>1. i \in waiting => settled[i] = <<>>
    BY DEF IInv, CallerInv, Unsettled
  <2>2. settled[i] = <<>> \/ \E o \in Outcomes : settled[i] = <<o>>
    BY RpcAssumption DEF IInv, TypeOK, CallerInv, Unsettled, SettledWith, Ids
  <2>3. Len(settled[i]) <= 1
    <3>1. CASE settled[i] = <<>>
      BY <3>1
    <3>2. CASE \E o \in Outcomes : settled[i] = <<o>>
      BY <3>2
    <3> QED
      BY <2>2, <3>1, <3>2
  <2> QED
    BY <2>1, <2>3
<1> QED
  BY <1>1, RpcInvariant, PTL

(* Every call placed is waiting or settled: no path of createPeer removes   *)
(* an entry without telling the promise behind it.                          *)
THEOREM RpcNoneForgotten == Spec => []NoneForgotten
PROOF
<1>1. IInv => NoneForgotten
  <2> SUFFICES ASSUME IInv, NEW i \in Ids, i < nextId, i \notin waiting
               PROVE  settled[i] # <<>>
    BY DEF NoneForgotten
  <2>1. \E o \in Outcomes : settled[i] = <<o>>
    BY DEF IInv, CallerInv, SettledWith
  <2> QED
    BY <2>1, OneOutcome
<1> QED
  BY <1>1, RpcInvariant, PTL

(* A caller is only ever told what a handler of its own call came to; a     *)
(* timer is armed exactly for the calls still waiting; a disposed peer      *)
(* waits for nothing.                                                       *)
THEOREM RpcAnswersTimersDispose ==
  Spec => [](OwnAnswer /\ TimersMatch /\ DisposedEmpty)
PROOF
  BY RpcInvariant, PTL DEF IInv, AnswerInv

(* All of it together: CallsIntact, which the run RpcHop checks.            *)
THEOREM RpcCallsIntact == Spec => []CallsIntact
PROOF
  BY RpcTypeOK, RpcSettledOnce, RpcNoneForgotten, RpcAnswersTimersDispose, PTL DEF CallsIntact

----------------------------------------------------------------------------
(* The mapped state of a call, from the caller's half of the invariant.     *)
LEMMA CallStateFacts ==
  ASSUME IInv, NEW i \in Ids
  PROVE  /\ i >= nextId => callState[i] = "fresh"
         /\ i \in waiting => callState[i] = "pending"
         /\ \A o \in Outcomes : settled[i] = <<o>> => callState[i] = o
PROOF
<1>1. \A o \in Outcomes : <<o>> # <<>> /\ <<o>>[1] = o
  BY OneOutcome
<1>2. callState[i] = IF settled[i] # <<>> THEN settled[i][1]
                     ELSE IF i \in waiting THEN "pending" ELSE "fresh"
  BY DEF callState
<1> QED
  BY <1>1, <1>2 DEF IInv, CallerInv, Unsettled

(* Settling a set of waiting calls is the contract's Resolve.               *)
LEMMA SettleResolves ==
  ASSUME IInv, NEW ids \in SUBSET Ids, NEW o \in Outcomes,
         Settle(ids, o), UNCHANGED <<timed, nextId>>, IInv'
  PROVE  Contract!Resolve(ids \cap waiting, o)
PROOF
<1>1. \A c \in ids \cap waiting : callState[c] = "pending"
  BY CallStateFacts
<1>2. \A i \in Ids : /\ i \in ids \cap waiting => settled'[i] = <<o>>
                     /\ i \notin ids \cap waiting => settled'[i] = settled[i]
  BY SettleFacts DEF IInv
<1>3. waiting' = waiting \ ids
  BY DEF Settle
<1>4. <<o>> # <<>> /\ <<o>>[1] = o
  BY OneOutcome
<1>5. callState' = [i \in Ids |-> IF i \in ids \cap waiting THEN o ELSE callState[i]]
  BY <1>2, <1>3, <1>4 DEF callState
<1> QED
  BY <1>1, <1>5 DEF Contract!Resolve

(* Every step of the hop is a step of the contract, or leaves the callers'  *)
(* view alone.                                                              *)
LEMMA RpcStepRefines ==
  ASSUME IInv, [Next]_vars, IInv' PROVE [Contract!Next]_callState
PROOF
<1>1. ASSUME NEW m \in Methods, Call(m) PROVE Contract!Next
  <2>1. nextId \in Ids /\ settled[nextId] = <<>> /\ nextId \notin waiting
    BY <1>1 DEF Call, IInv, CallerInv, Unsettled, Ids
  <2>2. callState[nextId] = "fresh"
    BY <2>1 DEF callState
  <2>3. "disconnected" \in Outcomes
    BY DEF Outcomes
  <2>4. CASE disposed
    <3>1. settled' = [settled EXCEPT ![nextId] = <<"disconnected">>] /\ waiting' = waiting
      BY <1>1, <2>1, <2>3, <2>4, OneOutcome DEF Call
    <3>2. callState' = [callState EXCEPT ![nextId] = "disconnected"]
      <4>1. <<"disconnected">> # <<>> /\ <<"disconnected">>[1] = "disconnected"
        OBVIOUS
      <4>2. settled'[nextId] = <<"disconnected">>
        BY <3>1, <2>1 DEF IInv, TypeOK
      <4>3. \A i \in Ids : i # nextId => settled'[i] = settled[i]
        BY <3>1 DEF IInv, TypeOK
      <4>4. \A i \in Ids : callState'[i] = IF i = nextId THEN "disconnected"
                                            ELSE callState[i]
        <5> TAKE i \in Ids
        <5>1. CASE i = nextId
          BY <5>1, <2>1, <4>1, <4>2 DEF callState
        <5>2. CASE i # nextId
          BY <5>2, <3>1, <4>3 DEF callState
        <5> QED
          BY <5>1, <5>2
      <4>5. callState' = [i \in Ids |-> callState'[i]]
        BY DEF callState
      <4>6. callState = [i \in Ids |-> callState[i]]
        BY DEF callState
      <4> HIDE DEF callState
      <4> QED
        BY <2>1, <4>4, <4>5, <4>6
    <3>3. Contract!Refuse(nextId, "disconnected")
      BY <2>2, <3>2 DEF Contract!Refuse
    <3> QED
      BY <2>1, <2>3, <3>3 DEF Contract!Next
  <2>5. CASE ~disposed
    <3>1. settled' = settled /\ waiting' = waiting \cup {nextId}
      BY <1>1, <2>5 DEF Call
    <3>2. callState' = [callState EXCEPT ![nextId] = "pending"]
      BY <3>1, <2>1 DEF callState
    <3>3. Contract!Place(nextId)
      BY <2>2, <3>2 DEF Contract!Place
    <3> QED
      BY <2>1, <3>3 DEF Contract!Next
  <2> QED
    BY <2>4, <2>5
<1>2. ASSUME HandleReply PROVE Contract!Next
  <2>1. Head(replies).id \in Ids /\ Head(replies).kind \in Outcomes
    <3>1. Head(replies) \in Reply
      BY <1>2, PortFacts DEF HandleReply, IInv, TypeOK
    <3> QED
      BY <3>1 DEF Reply, Outcomes
  <2>2. /\ Settle({Head(replies).id}, Head(replies).kind) /\ UNCHANGED <<timed, nextId>>
        /\ {Head(replies).id} \in SUBSET Ids
    BY <1>2, <2>1 DEF HandleReply
  <2>3. Contract!Resolve({Head(replies).id} \cap waiting, Head(replies).kind)
    BY <2>1, <2>2, SettleResolves
  <2> QED
    BY <2>1, <2>3 DEF Contract!Next
<1>3. ASSUME NEW j \in Ids, TimerFires(j) PROVE Contract!Next
  <2>1. j \in waiting /\ "timeout" \in Outcomes /\ {j} \in SUBSET Ids
    BY <1>3 DEF TimerFires, IInv, TimersMatch, Outcomes
  <2>2. Settle({j}, "timeout") /\ UNCHANGED <<timed, nextId>>
    <3>1. settled' = [i \in Ids |-> IF i \in {j} \cap waiting
                                   THEN Append(settled[i], "timeout") ELSE settled[i]]
      BY <1>3, <2>1 DEF TimerFires, IInv, TypeOK
    <3> QED
      BY <1>3, <2>1, <3>1 DEF TimerFires, Settle
  <2>3. Contract!Resolve({j} \cap waiting, "timeout")
    BY <2>1, <2>2, SettleResolves
  <2> QED
    BY <2>1, <2>3 DEF Contract!Next
<1>4. ASSUME Dispose PROVE Contract!Next
  <2>1. waiting \in SUBSET Ids /\ "disconnected" \in Outcomes
    BY DEF IInv, TypeOK, Outcomes
  <2>2. Settle(waiting, "disconnected") /\ UNCHANGED <<timed, nextId>>
    BY <1>4 DEF Dispose
  <2>3. Contract!Resolve(waiting \cap waiting, "disconnected")
    BY <2>1, <2>2, SettleResolves
  <2> QED
    BY <2>1, <2>3 DEF Contract!Next
<1>5. ASSUME UNCHANGED <<waiting, settled>> PROVE UNCHANGED callState
  BY <1>5 DEF callState
<1>6. ASSUME Dispatch \/ Die \/ UNCHANGED vars
             \/ \E i \in Ids, kind \in Answers : HandlerEnds(i, kind)
      PROVE  UNCHANGED callState
  BY <1>5, <1>6 DEF Dispatch, Die, HandlerEnds, vars, callerVars
<1> QED
  BY <1>1, <1>2, <1>3, <1>4, <1>6 DEF Next

(* One hop of createPeer implements CallContract: calls are placed once and *)
(* settle once, and no later reply, timer or dispose rewrites the outcome.  *)
THEOREM RpcImplementsContract == Spec => ImplementsContract
PROOF
<1>1. Init => Contract!Init
  <2> SUFFICES ASSUME Init PROVE Contract!Init
    OBVIOUS
  <2>1. \A i \in Ids : settled[i] = <<>> /\ i \notin waiting
    BY DEF Init
  <2> QED
    BY <2>1 DEF Contract!Init, callState
<1>2. IInv /\ [Next]_vars /\ IInv' => [Contract!Next]_callState
  BY RpcStepRefines
<1> QED
  BY <1>1, <1>2, RpcInvariant, PTL DEF Spec, ImplementsContract, Contract!Spec
=============================================================================
