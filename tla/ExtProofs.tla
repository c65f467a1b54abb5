------------------------------ MODULE ExtProofs ------------------------------
(***************************************************************************)
(* Extension sessions, for any number of sessions, reloads, events, calls   *)
(* and misfortunes.                                                         *)
(*                                                                          *)
(* Core says who holds which thread: the threads of a session are numbered, *)
(* each is started once, and one that is up is the host's current one or is *)
(* on its way out, so that a bounded count of them follows.  What a thread  *)
(* has still to say when it dies, and what the daemon makes of a death, are *)
(* in Calls and Honest: the numbers of a thread's calls only rise along the *)
(* ports, which makes the last one shown or answered a watermark no         *)
(* duplicate can cross, and a yes that travels to the extension is of an    *)
(* alert the user said yes to.                                              *)
(*                                                                          *)
(* Two more invariants say when the parts agree, while no thread reports a  *)
(* fatal failure and lives on (NoFatal).  Still (Lone, Unborn and the       *)
(* Ledger of each session) matches a session that one side has and the      *)
(* other has not with the message that will end the difference; Tune does   *)
(* the same with what each side believes of the running actions.            *)
(***************************************************************************)
EXTENDS ExtSystem, FiniteSetTheorems, TLAPS

----------------------------------------------------------------------------
(* What the ports carry.                                                    *)

StartMsg == [type : {"create", "reload"}, sid : Sid]
AnswerMsgs(values) == [type : {"answer"}, to : Worker, ask : Ask, value : values]
Plain == [type : {"event", "destroy"}, sid : Sid] \cup AnswerMsgs({"ok", "false", "refused"})
Post == Plain \cup AnswerMsgs({"true"})
ToHostMsg == StartMsg \cup Post

ToWorkerMsg == [type : {"create", "event", "destroy"}]
               \cup AnswerMsgs({"ok", "false", "refused", "true"})

News(w) == [type : {"finished"}, sid : {w[1]}]
           \cup [type : {"busy"}, sid : {w[1]}, busy : BOOLEAN]
           \cup [type : {"failed"}, sid : {w[1]}, fatal : BOOLEAN]
           \cup [type : {"call"}, from : {w}, ask : Ask, kind : Kinds]
FromWorkerMsg(w) == [type : {"createOk", "createErr", "destroyOk"}] \cup News(w)

ToMainMsg == [type : {"created", "refused"}, sid : Sid] \cup UNION {News(w) : w \in Worker}

WireTypes ==
  /\ process \in {"none", "up", "dead"}
  /\ m2h \in Seq(ToHostMsg) /\ h2m \in Seq(ToMainMsg)
  /\ h2w \in [Worker -> Seq(ToWorkerMsg)]
  /\ w2h = [w \in Worker |-> w2h[w]]
  /\ \A w \in Worker : w2h[w] \in Seq(FromWorkerMsg(w))
  /\ up \subseteq Worker /\ exited \subseteq Worker /\ up \cap exited = {}

MainTypes ==
  /\ launch \in [Sid -> {"no", "waiting", "ok", "failed"}]
  /\ open \subseteq Sid /\ IsFiniteSet(open) /\ drain \subseteq Sid /\ hiding \subseteq Sid
  /\ busy \in [Sid -> BOOLEAN]
  /\ alerts \subseteq Worker \X Ask /\ IsFiniteSet(alerts)
  /\ human \in [Worker \X Ask -> {"none", "true", "false"}]
  /\ why \in [Sid -> Reasons]
  /\ sent \in [Sid -> Nat] /\ owed \in [Sid -> Nat] /\ reloads \in [Sid -> 0..(MaxInc - 1)]

HostTypes ==
  /\ hSess \in [Sid -> 0..MaxInc] /\ made \in [Sid -> 0..MaxInc]
  /\ hBusy \in [Worker -> BOOLEAN]
  /\ ended \subseteq Worker /\ reloading \subseteq Worker
  /\ creating \in [Worker -> {"no", "main", "reload"}]
  /\ ending \in [Worker -> {"no", "grace", "drain"}]

WorkerTypes ==
  /\ phase \in [Worker -> {"warm", "run", "drain", "down"}]
  /\ command \subseteq Worker /\ hung \subseteq Worker
  /\ running \in [Worker -> Nat] /\ ran \in [Worker -> Nat]
  /\ asks \in [Worker -> 0..MaxAsks]
  /\ outcome \in [Worker -> [Ask -> AskOutcomes]]

(* Threads are numbered as they are made, and every one that is alive is the *)
(* one in the map or is being stopped.                                      *)
Threads ==
  /\ \A s \in Sid : hSess[s] <= made[s]
  /\ \A w \in up \cup exited \cup ended : w[2] <= made[w[1]]
  /\ \A w \in Worker : ending[w] # "no" => w \in ended /\ hSess[w[1]] = 0
  /\ \A v, w \in Worker : ending[v] # "no" /\ ending[w] # "no" /\ v[1] = w[1] => v = w
  /\ \A w \in Worker : creating[w] # "no" => hSess[w[1]] = w[2] \/ ending[w] # "no"
  /\ \A w \in reloading : ending[w] # "no"
  /\ \A w \in (up \cup exited) \ ended : hSess[w[1]] = w[2]
  /\ \A w \in up \cap ended : ending[w] # "no"

(* A session is created once, before it has had any thread.                 *)
Creates ==
  \A i \in 1..Len(m2h) : m2h[i].type = "create" =>
    /\ launch[m2h[i].sid] # "no" /\ made[m2h[i].sid] = 0
    /\ \A j \in 1..Len(m2h) : m2h[j].type = "create" /\ j # i => m2h[j].sid # m2h[i].sid

(* Every thread of a session, and every one on order, is its launch's or a  *)
(* reload's, so that the number of the next is one of the bound's.          *)
Starts(q, s) == {i \in 1..Len(q) : q[i].type \in {"create", "reload"} /\ q[i].sid = s}
Coming(s) == IF \E w \in reloading : w[1] = s THEN 1 ELSE 0
Asked(s) == IF launch[s] = "no" THEN 0 ELSE 1 + reloads[s]
Bounded == \A s \in Sid : made[s] + Cardinality(Starts(m2h, s)) + Coming(s) <= Asked(s)

----------------------------------------------------------------------------
(* Ports: what taking from the front, adding behind and losing the rest do. *)

LEMMA PortFacts ==
  ASSUME NEW S, NEW q \in Seq(S)
  PROVE  /\ <<>> \in Seq(S)
         /\ Len(q) \in Nat
         /\ q # <<>> <=> Len(q) > 0
         /\ \A i \in 1..Len(q) : q[i] \in S
         /\ \A e \in S : /\ Append(q, e) \in Seq(S) /\ Append(q, e) # <<>>
                         /\ Len(Append(q, e)) = Len(q) + 1
                         /\ \A i \in 1..Len(q) : Append(q, e)[i] = q[i]
                         /\ Append(q, e)[Len(q) + 1] = e
         /\ q # <<>> => /\ Head(q) \in S /\ Head(q) = q[1]
                        /\ Tail(q) \in Seq(S)
                        /\ Len(Tail(q)) = Len(q) - 1
                        /\ \A i \in 1..Len(Tail(q)) : Tail(q)[i] = q[i + 1]
PROOF
<1>1. /\ <<>> \in Seq(S) /\ Len(q) \in Nat
      /\ q # <<>> <=> Len(q) > 0
  OBVIOUS
<1>2. \A i \in 1..Len(q) : q[i] \in S
  OBVIOUS
<1>3. \A e \in S : /\ Append(q, e) \in Seq(S) /\ Append(q, e) # <<>>
                  /\ Len(Append(q, e)) = Len(q) + 1
                  /\ \A i \in 1..Len(q) : Append(q, e)[i] = q[i]
                  /\ Append(q, e)[Len(q) + 1] = e
  <2> TAKE e \in S
  <2>1. Append(q, e) \in Seq(S) /\ Len(Append(q, e)) = Len(q) + 1
    OBVIOUS
  <2>2. Append(q, e)[Len(q) + 1] = e /\ \A i \in 1..Len(q) : Append(q, e)[i] = q[i]
    OBVIOUS
  <2>3. Append(q, e) # <<>>
    BY <2>1, <1>1
  <2> QED
    BY <2>1, <2>2, <2>3
<1>4. q # <<>> => /\ Head(q) \in S /\ Head(q) = q[1]
                 /\ Tail(q) \in Seq(S)
                 /\ Len(Tail(q)) = Len(q) - 1
                 /\ \A i \in 1..Len(Tail(q)) : Tail(q)[i] = q[i + 1]
  OBVIOUS
<1> QED
  BY <1>1, <1>2, <1>3, <1>4

LEMMA JoinFacts ==
  ASSUME NEW S, NEW q \in Seq(S), NEW r \in Seq(S)
  PROVE  /\ q \o r \in Seq(S)
         /\ Len(q \o r) = Len(q) + Len(r)
         /\ \A i \in 1..Len(q) : (q \o r)[i] = q[i]
         /\ \A i \in 1..Len(r) : (q \o r)[Len(q) + i] = r[i]
         /\ r = <<>> => q \o r = q
PROOF
<1>1. q \o r \in Seq(S) /\ Len(q \o r) = Len(q) + Len(r)
  OBVIOUS
<1>2. \A i \in 1..Len(q) : (q \o r)[i] = q[i]
  OBVIOUS
<1>3. \A i \in 1..Len(r) : (q \o r)[Len(q) + i] = r[i]
  OBVIOUS
<1>4. r = <<>> => q \o r = q
  OBVIOUS
<1> QED
  BY <1>1, <1>2, <1>3, <1>4

LEMMA PrefixFacts ==
  ASSUME NEW S, NEW q \in Seq(S), NEW p \in Prefixes(q)
  PROVE  /\ p \in Seq(S) /\ Len(p) \in 0..Len(q)
         /\ \A i \in 1..Len(p) : p[i] = q[i]
PROOF
<1>1. PICK l \in 0..Len(q) : p = SubSeq(q, 1, l)
  BY DEF Prefixes
<1>2. p \in Seq(S) /\ Len(p) = l
  BY <1>1
<1>3. \A i \in 1..Len(p) : p[i] = q[i]
  BY <1>1
<1> QED
  BY <1>2, <1>3

LEMMA SeqGrows ==
  ASSUME NEW S, NEW T, NEW q \in Seq(S), S \subseteq T
  PROVE  q \in Seq(T)
  OBVIOUS

LEMMA Built ==
  ASSUME NEW S, NEW n \in Nat, NEW f \in [1..n -> S]
  PROVE  f \in Seq(S) /\ Len(f) = n
  OBVIOUS

(* close() posts one message per session and one per alert.                 *)
LEMMA Listed ==
  ASSUME NEW S, IsFiniteSet(S)
  PROVE  /\ Cardinality(S) \in Nat
         /\ SetToSeq(S) \in [1..Cardinality(S) -> S]
         /\ \A x \in S : \E i \in 1..Cardinality(S) : SetToSeq(S)[i] = x
PROOF
<1>1. Cardinality(S) \in Nat /\ ExistsBijection(1..Cardinality(S), S)
  BY FS_CardinalityType
<1>2. PICK f \in Bijection(1..Cardinality(S), S) : TRUE
  BY <1>1 DEF ExistsBijection
<1>3. f \in [1..Cardinality(S) -> S] /\ IsInjective(f)
  BY <1>2 DEF Bijection, Injection, Surjection, IsInjective
<1>4. SetToSeq(S) \in [1..Cardinality(S) -> S] /\ IsInjective(SetToSeq(S))
  BY <1>3 DEF SetToSeq
<1> DEFINE n == Cardinality(S)
           g == SetToSeq(S)
           R == {g[i] : i \in 1..n}
<1>5. R \subseteq S /\ g \in [1..n -> R]
  BY <1>4
<1>6. g \in Bijection(1..n, R)
  BY <1>4, <1>5 DEF Bijection, Injection, Surjection
<1>7. IsFiniteSet(R) /\ Cardinality(R) = n
  BY <1>1, <1>6, FS_Interval, FS_CountingElements, FS_NatBijection DEF ExistsBijection
<1>8. R = S
  BY <1>5, <1>7, FS_Subset
<1> QED
  BY <1>1, <1>4, <1>8

LEMMA StartsFacts ==
  ASSUME NEW q \in Seq(ToHostMsg), NEW s \in Sid
  PROVE  /\ IsFiniteSet(Starts(q, s)) /\ Cardinality(Starts(q, s)) \in Nat
         /\ \A x \in Seq(Post) : Starts(q \o x, s) = Starts(q, s)
         /\ \A m \in ToHostMsg :
              Cardinality(Starts(Append(q, m), s)) =
                Cardinality(Starts(q, s))
                  + IF m.type \in {"create", "reload"} /\ m.sid = s THEN 1 ELSE 0
         /\ q # <<>> =>
              Cardinality(Starts(Tail(q), s)) =
                Cardinality(Starts(q, s))
                  - IF q[1].type \in {"create", "reload"} /\ q[1].sid = s THEN 1 ELSE 0
PROOF
<1> DEFINE Is(m) == m.type \in {"create", "reload"} /\ m.sid = s
<1>1. /\ Len(q) \in Nat /\ IsFiniteSet(1..Len(q)) /\ Starts(q, s) \subseteq 1..Len(q)
      /\ Starts(q, s) = {i \in 1..Len(q) : Is(q[i])}
  BY FS_Interval DEF Starts
<1>2. IsFiniteSet(Starts(q, s)) /\ Cardinality(Starts(q, s)) \in Nat
  BY <1>1, FS_Subset, FS_CardinalityType
<1>3. ASSUME NEW x \in Seq(Post) PROVE Starts(q \o x, s) = Starts(q, s)
  <2>0. \A m \in Post : ~Is(m)
    BY DEF Post, Plain, AnswerMsgs
  <2>1. x \in Seq(ToHostMsg) /\ \A i \in 1..Len(x) : x[i] \in Post
    BY DEF ToHostMsg
  <2>2. /\ Len(q \o x) = Len(q) + Len(x) /\ Len(x) \in Nat
        /\ \A i \in 1..Len(q) : (q \o x)[i] = q[i]
        /\ \A i \in 1..Len(x) : (q \o x)[Len(q) + i] = x[i]
    BY <2>1, JoinFacts
  <2> DEFINE y == q \o x
  <2> HIDE DEF y, Is
  <2>3. ASSUME NEW i \in (Len(q) + 1)..Len(y) PROVE ~Is(y[i])
    <3>1. i - Len(q) \in 1..Len(x) /\ Len(q) + (i - Len(q)) = i
      BY <1>1, <2>2 DEF y
    <3>2. y[i] = x[i - Len(q)]
      BY <3>1, <2>2 DEF y
    <3> QED
      BY <3>1, <3>2, <2>0, <2>1
  <2>4. {i \in 1..Len(y) : Is(y[i])} = {i \in 1..Len(q) : Is(q[i])}
    <3>1. Len(y) = Len(q) + Len(x) /\ \A i \in 1..Len(q) : y[i] = q[i]
      BY <2>2 DEF y
    <3>2. \A i \in 1..Len(y) : i \in 1..Len(q) \/ i \in (Len(q) + 1)..Len(y)
      BY <1>1, <2>2, <3>1
    <3>3. \A i \in 1..Len(q) : i \in 1..Len(y)
      BY <1>1, <2>2, <3>1
    <3> QED
      BY <2>3, <3>1, <3>2, <3>3
  <2>5. Starts(y, s) = {i \in 1..Len(y) : Is(y[i])}
    BY DEF Starts, Is
  <2> QED
    BY <1>1, <2>4, <2>5 DEF y
<1>4. ASSUME NEW m \in ToHostMsg
      PROVE  Cardinality(Starts(Append(q, m), s)) =
               Cardinality(Starts(q, s)) + IF Is(m) THEN 1 ELSE 0
  <2> DEFINE y == Append(q, m)
  <2>1. /\ Len(y) = Len(q) + 1 /\ y[Len(q) + 1] = m
        /\ \A i \in 1..Len(q) : y[i] = q[i]
    BY PortFacts
  <2> HIDE DEF y
  <2>2. Starts(y, s) = {i \in 1..Len(y) : Is(y[i])}
    BY DEF Starts
  <2> HIDE DEF Is
  <2>3. Starts(y, s) = IF Is(m) THEN Starts(q, s) \cup {Len(q) + 1} ELSE Starts(q, s)
    <3>1. \A i : i \in 1..Len(y) <=> i \in 1..Len(q) \/ i = Len(q) + 1
      BY <1>1, <2>1
    <3> QED
      BY <1>1, <2>1, <2>2, <3>1
  <2>4. Len(q) + 1 \notin Starts(q, s)
    BY <1>1
  <2>5. Cardinality(Starts(q, s) \cup {Len(q) + 1}) = Cardinality(Starts(q, s)) + 1
    BY <1>2, <2>4, FS_AddElement
  <2> QED
    BY <1>2, <2>3, <2>5 DEF y
<1>5. ASSUME q # <<>>
      PROVE  Cardinality(Starts(Tail(q), s)) =
               Cardinality(Starts(q, s)) - IF Is(q[1]) THEN 1 ELSE 0
  <2> DEFINE t == Tail(q)
             R == Starts(q, s) \ {1}
             f == [i \in R |-> i - 1]
  <2>1. /\ Len(q) > 0 /\ Len(t) = Len(q) - 1 /\ \A i \in 1..Len(t) : t[i] = q[i + 1]
    BY <1>5, PortFacts
  <2> HIDE DEF t
  <2>2. Starts(t, s) = {i \in 1..Len(t) : Is(t[i])}
    BY DEF Starts
  <2> HIDE DEF Is
  <2>3. f \in Bijection(R, Starts(t, s))
    <3>1. \A i \in R : i \in 2..Len(q) /\ Is(q[i]) /\ i - 1 \in 1..Len(t) /\ (i - 1) + 1 = i
      BY <1>1, <2>1
    <3>2. \A i \in R : t[i - 1] = q[i]
      BY <3>1, <2>1
    <3>3. f \in [R -> Starts(t, s)]
      BY <2>2, <3>1, <3>2
    <3>4. \A i, j \in R : f[i] = f[j] => i = j
      BY <3>1
    <3>5. ASSUME NEW j \in Starts(t, s) PROVE \E i \in R : f[i] = j
      <4>1. j \in 1..Len(t) /\ Is(t[j]) /\ t[j] = q[j + 1]
        BY <2>1, <2>2
      <4>2. j + 1 \in 2..Len(q) /\ (j + 1) - 1 = j
        BY <1>1, <2>1, <4>1
      <4>3. j + 1 \in R
        BY <1>1, <4>1, <4>2
      <4> QED
        BY <4>2, <4>3
    <3> QED
      BY <3>3, <3>4, <3>5 DEF Bijection, Injection, Surjection, IsInjective
  <2>4. IsFiniteSet(R) /\ Cardinality(R) = Cardinality(Starts(q, s)) - IF 1 \in Starts(q, s) THEN 1 ELSE 0
    BY <1>2, FS_RemoveElement
  <2>5. Cardinality(Starts(t, s)) = Cardinality(R)
    BY <2>3, <2>4, FS_Bijection DEF ExistsBijection
  <2>6. 1 \in Starts(q, s) <=> Is(q[1])
    BY <1>1, <2>1
  <2> QED
    BY <2>4, <2>5, <2>6 DEF t
<1> QED
  BY <1>2, <1>3, <1>4, <1>5

----------------------------------------------------------------------------
(* What main posts.                                                         *)

LEMMA Posted ==
  ASSUME NEW S, m2h \in Seq(S), NEW x \in Seq(S)
  PROVE  /\ ToHost(x) \in Seq(S)
         /\ ToHost(x) = m2h \/ ToHost(x) = m2h \o x
  BY DEF ToHost

(* close() posts a DESTROY for each session that was open, and an answer    *)
(* that is not yes for each of their alerts.                                *)
Closes(x, then) ==
  /\ \A s \in open \ open' : \E i \in 1..Len(x) : x[i] = Msg("destroy", s)
  /\ \A i \in 1..Len(x) : x[i].type = "destroy" =>
        x[i].sid \in open \ open' \/ \E j \in 1..Len(then) : x[i] = then[j]

LEMMA Closing ==
  ASSUME NEW S \in SUBSET Sid, NEW own, NEW then \in Seq(Plain), MainTypes,
         m2h \in Seq(ToHostMsg), CloseAnd(S, own, then)
  PROVE  /\ open' = open \ S /\ open' \subseteq Sid /\ IsFiniteSet(open')
         /\ drain' \subseteq Sid
         /\ alerts' \subseteq alerts /\ IsFiniteSet(alerts')
         /\ why' \in [Sid -> Reasons]
         /\ \A s \in Sid : why'[s] = IF s \in open \ open' THEN IF s \in own THEN "own" ELSE "user"
                             ELSE why[s]
         /\ \E x \in Seq(Plain) : m2h' = ToHost(x) /\ Closes(x, then)
PROOF
<1> DEFINE shut == S \cap open
           asked == {a \in alerts : a[1][1] \in S}
           d == [i \in 1..Cardinality(shut) |-> Msg("destroy", SetToSeq(shut)[i])]
           r == [i \in 1..Cardinality(asked) |-> AnswerMsg(SetToSeq(asked)[i], "false")]
           x == d \o r \o then
<1>1. IsFiniteSet(shut) /\ IsFiniteSet(asked) /\ IsFiniteSet(open \ S)
      /\ IsFiniteSet(alerts \ asked)
  BY FS_Subset DEF MainTypes
<1>2. /\ open' = open \ S /\ drain' = drain \cup {s \in shut : busy[s]}
      /\ alerts' = alerts \ asked
      /\ why' = [s \in Sid |-> IF s \notin shut THEN why[s]
                              ELSE IF s \in own THEN "own" ELSE "user"]
      /\ m2h' = ToHost(x)
  BY Zenon DEF CloseAnd
<1>3. /\ d \in Seq(Plain) /\ Len(d) = Cardinality(shut)
      /\ \A s \in shut : \E i \in 1..Len(d) : d[i] = Msg("destroy", s)
      /\ \A i \in 1..Len(d) : d[i].sid \in shut
  <2>1. /\ Cardinality(shut) \in Nat /\ SetToSeq(shut) \in [1..Cardinality(shut) -> shut]
        /\ \A e \in shut : \E i \in 1..Cardinality(shut) : SetToSeq(shut)[i] = e
    BY <1>1, Listed
  <2>2. \A s \in shut : Msg("destroy", s) \in Plain /\ Msg("destroy", s).sid = s
    BY DEF Msg, Plain, MainTypes
  <2>3. d \in [1..Cardinality(shut) -> Plain]
        /\ \A i \in 1..Cardinality(shut) : d[i] = Msg("destroy", SetToSeq(shut)[i])
    BY <2>1, <2>2
  <2>4. d \in Seq(Plain) /\ Len(d) = Cardinality(shut)
    BY <2>1, <2>3, Built
  <2> HIDE DEF d, shut
  <2>5. ASSUME NEW s \in shut PROVE \E i \in 1..Len(d) : d[i] = Msg("destroy", s)
    BY <2>1, <2>3, <2>4
  <2>6. ASSUME NEW i \in 1..Len(d) PROVE d[i].sid \in shut
    <3>1. i \in 1..Cardinality(shut) /\ SetToSeq(shut)[i] \in shut
      BY <2>1, <2>4
    <3> QED
      BY <2>2, <2>3, <3>1
  <2> QED
    BY <2>4, <2>5, <2>6
<1>4. r \in Seq(Plain) /\ \A i \in 1..Len(r) : r[i].type = "answer"
  <2>1. Cardinality(asked) \in Nat /\ SetToSeq(asked) \in [1..Cardinality(asked) -> asked]
    BY <1>1, Listed
  <2>2. \A a \in asked : AnswerMsg(a, "false") \in Plain /\ AnswerMsg(a, "false").type = "answer"
    BY DEF AnswerMsg, Plain, AnswerMsgs, MainTypes
  <2>3. r \in [1..Cardinality(asked) -> Plain]
        /\ \A i \in 1..Cardinality(asked) : r[i] = AnswerMsg(SetToSeq(asked)[i], "false")
    BY <2>1, <2>2
  <2>4. r \in Seq(Plain) /\ Len(r) = Cardinality(asked)
    BY <2>1, <2>3, Built
  <2> HIDE DEF r, asked
  <2> QED
    BY <2>1, <2>2, <2>3, <2>4
<1> HIDE DEF d, r
<1>5. /\ x \in Seq(Plain) /\ Len(x) = Len(d) + Len(r) + Len(then)
      /\ Len(d) \in Nat /\ Len(r) \in Nat /\ Len(then) \in Nat
      /\ \A i \in 1..Len(d) : x[i] = d[i]
      /\ \A i \in 1..Len(r) : x[Len(d) + i] = r[i]
      /\ \A i \in 1..Len(then) : x[Len(d) + Len(r) + i] = then[i]
  <2>1. Len(d) \in Nat /\ Len(r) \in Nat /\ Len(then) \in Nat
    BY <1>3, <1>4
  <2> DEFINE y == r \o then
  <2>2. /\ y \in Seq(Plain) /\ Len(y) = Len(r) + Len(then)
        /\ \A i \in 1..Len(r) : y[i] = r[i]
        /\ \A i \in 1..Len(then) : y[Len(r) + i] = then[i]
    BY <1>4, JoinFacts
  <2>3. x = d \o y
    BY <1>3, <1>4
  <2> HIDE DEF y, x
  <2>0. d \in Seq(Plain) /\ y \in Seq(Plain)
    BY <1>3, <2>2
  <2>4. /\ x \in Seq(Plain) /\ Len(x) = Len(d) + Len(y)
        /\ \A i \in 1..Len(d) : x[i] = d[i]
        /\ \A i \in 1..Len(y) : x[Len(d) + i] = y[i]
    BY <2>0, <2>3, JoinFacts
  <2>5. ASSUME NEW i \in 1..Len(then)
        PROVE  x[Len(d) + Len(r) + i] = then[i]
    <3>1. Len(r) + i \in 1..Len(y) /\ Len(d) + (Len(r) + i) = Len(d) + Len(r) + i
      BY <2>1, <2>2
    <3> QED
      BY <3>1, <2>2, <2>4
  <2> QED
    BY <2>1, <2>2, <2>4, <2>5
<1> HIDE DEF x
<1>6. \A s \in shut : \E i \in 1..Len(x) : x[i] = Msg("destroy", s)
  <2>1. \A i \in 1..Len(d) : i \in 1..Len(x)
    BY <1>5
  <2> QED
    BY <2>1, <1>3, <1>5
<1>7. \A i \in 1..Len(x) : x[i].type = "destroy" =>
        x[i].sid \in shut \/ \E j \in 1..Len(then) : x[i] = then[j]
  <2> TAKE i \in 1..Len(x)
  <2>2. CASE i \in 1..Len(d)
    <3> HIDE DEF shut
    <3>1. x[i] = d[i]
      BY <2>2, <1>5
    <3>2. d[i].sid \in shut
      BY <2>2, <1>3
    <3> QED
      BY <3>1, <3>2, Zenon
  <2>3. CASE i \in (Len(d) + 1)..(Len(d) + Len(r))
    <3>1. i - Len(d) \in 1..Len(r) /\ Len(d) + (i - Len(d)) = i
      BY <2>3, <1>5
    <3>2. x[i] = r[i - Len(d)]
      BY <3>1, <1>5
    <3> QED
      BY <3>1, <3>2, <1>4
  <2>4. CASE i \in (Len(d) + Len(r) + 1)..Len(x)
    <3>1. i - Len(d) - Len(r) \in 1..Len(then)
          /\ Len(d) + Len(r) + (i - Len(d) - Len(r)) = i
      BY <2>4, <1>5
    <3>2. x[i] = then[i - Len(d) - Len(r)]
      BY <3>1, <1>5
    <3> QED
      BY <3>1, <3>2
  <2> QED
    BY <2>2, <2>3, <2>4, <1>5
<1>8. open \ open' = shut
  BY <1>2
<1>9. drain' \subseteq Sid /\ why' \in [Sid -> Reasons]
      /\ \A s \in Sid : why'[s] = IF s \in open \ open' THEN IF s \in own THEN "own" ELSE "user"
                             ELSE why[s]
  BY <1>2, <1>8 DEF MainTypes, Reasons
<1>10. open' \subseteq Sid /\ IsFiniteSet(open') /\ alerts' \subseteq alerts /\ IsFiniteSet(alerts')
  BY <1>1, <1>2 DEF MainTypes
<1>11. \E y \in Seq(Plain) : m2h' = ToHost(y) /\ Closes(y, then)
  BY <1>2, <1>5, <1>6, <1>7, <1>8, Zenon DEF Closes
<1> QED
  BY <1>2, <1>9, <1>10, <1>11

(* What a step of main's leaves alone, and what it may post: only Launch    *)
(* and UserReload start a thread, and only the user says yes.               *)
MainFrame ==
  /\ MainTypes' /\ UNCHANGED <<h2w, w2h, up, exited>>
  /\ h2m' \in Seq(ToMainMsg) /\ h2m' \in {h2m, Tail(h2m)}
  /\ \A s \in Sid : /\ launch[s] # "no" => launch'[s] # "no"
                    /\ reloads'[s] >= reloads[s]

PostsPlain ==
  /\ process' = process /\ human' = human /\ reloads' = reloads
  /\ \E x \in Seq(Plain) : m2h' = ToHost(x)
  /\ \/ alerts' \subseteq alerts
     \/ /\ h2m # <<>> /\ Head(h2m).type = "call" /\ h2m' = Tail(h2m)
        /\ alerts' = alerts \cup {<<Head(h2m).from, Head(h2m).ask>>}

LEMMA Silent ==
  ASSUME m2h' = m2h, m2h \in Seq(ToHostMsg)
  PROVE  \E x \in Seq(Plain) : m2h' = ToHost(x)
PROOF
<1>1. <<>> \in Seq(Plain) /\ <<>> \in Seq(ToHostMsg)
  OBVIOUS
<1>2. m2h \o <<>> = m2h
  BY <1>1, JoinFacts
<1>3. m2h' = ToHost(<<>>)
  BY <1>2 DEF ToHost
<1> QED
  BY <1>1, <1>3, Zenon

LEMMA Alone ==
  /\ \A s \in Sid : /\ <<Msg("event", s)>> \in Seq(Plain)
                    /\ <<Msg("destroy", s)>> \in Seq(Plain)
                    /\ Msg("create", s) \in StartMsg /\ Msg("reload", s) \in StartMsg
  /\ \A a \in Worker \X Ask :
       /\ <<AnswerMsg(a, "ok")>> \in Seq(Plain)
       /\ <<AnswerMsg(a, "refused")>> \in Seq(Plain)
       /\ <<AnswerMsg(a, "false")>> \in Seq(Plain)
       /\ AnswerMsg(a, "true") \in Post
PROOF
<1>1. \A s \in Sid : /\ Msg("event", s) \in Plain /\ Msg("destroy", s) \in Plain
                     /\ Msg("create", s) \in StartMsg /\ Msg("reload", s) \in StartMsg
  BY DEF Msg, Plain, StartMsg
<1>2. \A a \in Worker \X Ask :
         /\ AnswerMsg(a, "ok") \in Plain /\ AnswerMsg(a, "refused") \in Plain
         /\ AnswerMsg(a, "false") \in Plain /\ AnswerMsg(a, "true") \in Post
  BY DEF AnswerMsg, Plain, Post, AnswerMsgs
<1>3. \A m \in Plain : <<m>> \in Seq(Plain)
  OBVIOUS
<1> QED
  BY <1>1, <1>2, <1>3

LEMMA HeadTypes ==
  ASSUME h2m \in Seq(ToMainMsg), h2m # <<>>
  PROVE  LET m == Head(h2m) IN
         /\ Tail(h2m) \in Seq(ToMainMsg)
         /\ m.type \in {"created", "refused", "busy", "failed", "finished"} => m.sid \in Sid
         /\ m.type = "busy" => m.busy \in BOOLEAN
         /\ m.type = "failed" => m.fatal \in BOOLEAN
         /\ m.type = "call" => m.from \in Worker /\ m.ask \in Ask /\ m.kind \in Kinds
PROOF
<1> DEFINE m == Head(h2m)
<1>1. Tail(h2m) \in Seq(ToMainMsg) /\ m \in ToMainMsg
  BY PortFacts
<1> HIDE DEF m
<1>2. CASE m \in [type : {"created", "refused"}, sid : Sid]
  BY <1>1, <1>2 DEF m
<1>3. CASE m \in UNION {News(w) : w \in Worker}
  <2>1. PICK w \in Worker : m \in News(w)
    BY <1>3
  <2>2. w[1] \in Sid
    BY DEF Worker
  <2> QED
    BY <1>1, <2>1, <2>2 DEF News, m
<1> QED
  BY <1>1, <1>2, <1>3 DEF ToMainMsg

LEMMA UserActions ==
  ASSUME WireTypes, MainTypes, NEW s \in Sid, UserEvent(s) \/ UserClose(s)
  PROVE  MainFrame /\ PostsPlain
PROOF
<1>0. m2h \in Seq(ToHostMsg) /\ h2m \in Seq(ToMainMsg)
  BY DEF WireTypes
<1>1. CASE UserEvent(s)
  <2>1. PostsPlain
    BY <1>1, Alone, Zenon DEF UserEvent, PostsPlain
  <2>2. MainFrame
    BY <1>0, <1>1 DEF UserEvent, MainFrame, MainTypes
  <2> QED
    BY <2>1, <2>2
<1>2. CASE UserClose(s)
  <2>1. CloseAnd({s}, {}, <<>>) /\ <<>> \in Seq(Plain) /\ {s} \in SUBSET Sid
        /\ UNCHANGED <<launch, busy, human, hiding, sent, owed, reloads, process, h2m, h2w, w2h, up, exited>>
    BY <1>2 DEF UserClose
  <2>2. /\ open' \subseteq Sid /\ IsFiniteSet(open') /\ drain' \subseteq Sid
        /\ alerts' \subseteq alerts /\ IsFiniteSet(alerts') /\ why' \in [Sid -> Reasons]
        /\ \E x \in Seq(Plain) : m2h' = ToHost(x)
    BY <1>0, <2>1, Closing
  <2>3. PostsPlain
    BY <2>1, <2>2, Zenon DEF PostsPlain
  <2>4. MainFrame
    BY <1>0, <2>1, <2>2 DEF MainFrame, MainTypes
  <2> QED
    BY <2>3, <2>4
<1> QED
  BY <1>1, <1>2

LEMMA TimerActions ==
  ASSUME WireTypes, MainTypes, Hidden \/ \E s \in Sid : StopDraining(s)
  PROVE  MainFrame /\ PostsPlain
PROOF
<1>0. m2h \in Seq(ToHostMsg) /\ h2m \in Seq(ToMainMsg)
  BY DEF WireTypes
<1>1. CASE Hidden
  <2>1. CloseAnd(open, hiding, <<>>) /\ <<>> \in Seq(Plain) /\ open \in SUBSET Sid
        /\ hiding' = {}
        /\ UNCHANGED <<launch, busy, human, sent, owed, reloads, process, h2m, h2w, w2h, up, exited>>
    BY <1>1 DEF Hidden, MainTypes
  <2>2. /\ open' \subseteq Sid /\ IsFiniteSet(open') /\ drain' \subseteq Sid
        /\ alerts' \subseteq alerts /\ IsFiniteSet(alerts') /\ why' \in [Sid -> Reasons]
        /\ \E x \in Seq(Plain) : m2h' = ToHost(x)
    BY <1>0, <2>1, Closing
  <2>3. PostsPlain
    BY <2>1, <2>2, Zenon DEF PostsPlain
  <2>4. MainFrame
    BY <1>0, <2>1, <2>2 DEF MainFrame, MainTypes
  <2> QED
    BY <2>3, <2>4
<1>2. ASSUME NEW s \in Sid, StopDraining(s)
      PROVE  MainFrame /\ PostsPlain
  <2>1. PostsPlain
    BY <1>0, <1>2, Silent, Zenon DEF StopDraining, PostsPlain, wires
  <2>2. MainFrame
    BY <1>0, <1>2 DEF StopDraining, MainFrame, MainTypes, wires, Reasons
  <2> QED
    BY <2>1, <2>2
<1> QED
  BY <1>1, <1>2

LEMMA HearingNews ==
  ASSUME WireTypes, MainTypes, HearCreated \/ HearRefused \/ HearBusy \/ HearFailed
  PROVE  MainFrame /\ PostsPlain
PROOF
<1> DEFINE m == Head(h2m)
<1>0. m2h \in Seq(ToHostMsg) /\ h2m \in Seq(ToMainMsg)
  BY DEF WireTypes
<1>1. /\ h2m # <<>> /\ h2m' = Tail(h2m) /\ Sender \in Sid
      /\ h2m' \in Seq(ToMainMsg)
      /\ m.type = "busy" => m.busy \in BOOLEAN
  BY <1>0, HeadTypes DEF HearCreated, HearRefused, HearBusy, HearFailed, Heard, Next1, Sender
<1>2. PostsPlain
  BY <1>0, Silent, Zenon DEF HearCreated, HearRefused, HearBusy, HearFailed, PostsPlain
<1>3. IsFiniteSet(open \ {Sender})
  BY FS_RemoveElement DEF MainTypes
<1> HIDE DEF m
<1>4. CASE HearCreated
  BY <1>1, <1>2, <1>4 DEF HearCreated, MainFrame, MainTypes
<1>5. CASE HearRefused
  BY <1>1, <1>2, <1>3, <1>5 DEF HearRefused, MainFrame, MainTypes, Reasons
<1>6. CASE HearBusy
  BY <1>1, <1>2, <1>6 DEF HearBusy, MainFrame, MainTypes, Heard, m
<1>7. CASE HearFailed
  <2>1. /\ open' \in {open, open \ {Sender}} /\ drain' \subseteq drain
        /\ why' = why \/ why' = [why EXCEPT ![Sender] = IF Sender \in open THEN "failed" ELSE @]
        /\ UNCHANGED <<launch, busy, alerts, human, hiding, sent, owed, reloads, h2w, w2h, up, exited>>
    BY <1>7 DEF HearFailed
  <2>2. why' \in [Sid -> Reasons]
    BY <1>1, <2>1 DEF MainTypes, Reasons
  <2>3. MainTypes'
    BY <1>3, <2>1, <2>2 DEF MainTypes
  <2>4. \A s \in Sid : reloads[s] \in Int
    BY DEF MainTypes
  <2> QED
    BY <1>1, <1>2, <2>1, <2>3, <2>4 DEF MainFrame
<1> QED
  BY <1>4, <1>5, <1>6, <1>7

LEMMA HearingEnd ==
  ASSUME WireTypes, MainTypes, HearFinished
  PROVE  MainFrame /\ PostsPlain
PROOF
<1> DEFINE s == Sender
           asked == {a \in alerts : a[1][1] = s}
           d == IF s \in open THEN <<Msg("destroy", s)>> ELSE <<>>
           r == [i \in 1..Cardinality(asked) |-> AnswerMsg(SetToSeq(asked)[i], "false")]
<1>0. m2h \in Seq(ToHostMsg) /\ h2m \in Seq(ToMainMsg)
  BY DEF WireTypes
<1>1. /\ h2m # <<>> /\ h2m' = Tail(h2m) /\ s \in Sid /\ h2m' \in Seq(ToMainMsg)
  BY <1>0, HeadTypes DEF HearFinished, Heard, Next1, Sender
<1>2. IsFiniteSet(open \ {s}) /\ IsFiniteSet(alerts \ asked) /\ IsFiniteSet(asked)
  BY FS_RemoveElement, FS_Subset DEF MainTypes
<1>3. r \in Seq(Plain)
  <2>1. Cardinality(asked) \in Nat /\ SetToSeq(asked) \in [1..Cardinality(asked) -> asked]
    BY <1>2, Listed
  <2>2. \A a \in asked : AnswerMsg(a, "false") \in Plain
    BY DEF AnswerMsg, Plain, AnswerMsgs, MainTypes
  <2>3. r \in [1..Cardinality(asked) -> Plain]
    BY <2>1, <2>2
  <2> QED
    BY <2>1, <2>3, Built
<1>4. d \in Seq(Plain)
  BY <1>1, Alone
<1>5. d \o r \in Seq(Plain)
  BY <1>3, <1>4, JoinFacts
<1>6. /\ open' = open \ {s}
      /\ drain' = (drain \ {s}) \cup (IF s \in open /\ busy[s] THEN {s} ELSE {})
      /\ alerts' = alerts \ asked
      /\ why' = [why EXCEPT ![s] = "finished"]
      /\ m2h' = ToHost(d \o r)
      /\ UNCHANGED <<launch, busy, human, hiding, sent, owed, reloads, process, h2w, w2h, up, exited>>
  BY Zenon DEF HearFinished
<1> HIDE DEF d, r
<1>7. PostsPlain
  BY <1>5, <1>6, Zenon DEF PostsPlain
<1>8. MainFrame
  BY <1>1, <1>2, <1>6 DEF MainFrame, MainTypes, Reasons
<1> QED
  BY <1>7, <1>8

LEMMA HearingCall ==
  ASSUME WireTypes, MainTypes, HearCall
  PROVE  MainFrame /\ PostsPlain
PROOF
<1> DEFINE m == Head(h2m)
           s == m.from[1]
           a == <<m.from, m.ask>>
           ok == <<AnswerMsg(a, "ok")>>
           no == <<AnswerMsg(a, "refused")>>
<1>0. m2h \in Seq(ToHostMsg) /\ h2m \in Seq(ToMainMsg)
  BY DEF WireTypes
<1>1. /\ h2m # <<>> /\ h2m' = Tail(h2m) /\ h2m' \in Seq(ToMainMsg)
      /\ m.from \in Worker /\ m.ask \in Ask
  BY <1>0, HeadTypes DEF HearCall, Heard, Next1
<1>2. s \in Sid /\ a \in Worker \X Ask
  BY <1>1 DEF Worker
<1>3. ok \in Seq(Plain) /\ no \in Seq(Plain)
  BY <1>2, Alone
<1>4. UNCHANGED <<launch, busy, human, sent, owed, reloads, process, h2w, w2h, up, exited>>
  BY DEF HearCall
<1>5. \/ /\ UNCHANGED <<open, drain, why, hiding, alerts>>
         /\ m2h' = ToHost(no) \/ m2h' = ToHost(ok)
      \/ UNCHANGED <<open, drain, why, hiding, m2h>> /\ alerts' = alerts \cup {a}
      \/ CloseAnd({s}, {s}, ok) /\ UNCHANGED hiding
      \/ CloseAnd(open, {s}, ok) /\ UNCHANGED hiding
      \/ /\ hiding' = hiding \cup {s} /\ m2h' = ToHost(ok)
         /\ UNCHANGED <<open, drain, why, alerts>>
  BY DEF HearCall
<1> HIDE DEF m, s, a, ok, no
<1>6. CASE /\ UNCHANGED <<open, drain, why, hiding, alerts>>
           /\ m2h' = ToHost(no) \/ m2h' = ToHost(ok)
  <2>1. PostsPlain
    BY <1>3, <1>4, <1>6, Zenon DEF PostsPlain
  <2>2. MainFrame
    BY <1>1, <1>4, <1>6 DEF MainFrame, MainTypes
  <2> QED
    BY <2>1, <2>2
<1>7. CASE UNCHANGED <<open, drain, why, hiding, m2h>> /\ alerts' = alerts \cup {a}
  <2>0. h2m # <<>> /\ Head(h2m).type = "call" /\ h2m' = Tail(h2m)
    BY DEF HearCall, Heard, Next1
  <2>1. PostsPlain
    BY <1>0, <1>4, <1>7, <2>0, Silent, Zenon DEF PostsPlain, a, m
  <2>2. IsFiniteSet(alerts \cup {a})
    BY FS_AddElement DEF MainTypes
  <2>3. MainFrame
    BY <1>1, <1>2, <1>4, <1>7, <2>2 DEF MainFrame, MainTypes
  <2> QED
    BY <2>1, <2>3
<1>8. ASSUME NEW S \in SUBSET Sid, CloseAnd(S, {s}, ok), UNCHANGED hiding
      PROVE  MainFrame /\ PostsPlain
  <2>2. /\ open' \subseteq Sid /\ IsFiniteSet(open') /\ drain' \subseteq Sid
        /\ alerts' \subseteq alerts /\ IsFiniteSet(alerts') /\ why' \in [Sid -> Reasons]
        /\ \E x \in Seq(Plain) : m2h' = ToHost(x)
    BY <1>0, <1>3, <1>8, Closing
  <2>3. PostsPlain
    BY <1>4, <2>2, Zenon DEF PostsPlain
  <2>4. MainFrame
    BY <1>1, <1>4, <1>8, <2>2 DEF MainFrame, MainTypes
  <2> QED
    BY <2>3, <2>4
<1>9. CASE CloseAnd({s}, {s}, ok) /\ UNCHANGED hiding
  <2>1. {s} \in SUBSET Sid
    BY <1>2
  <2> QED
    BY <1>8, <1>9, <2>1
<1>10. CASE CloseAnd(open, {s}, ok) /\ UNCHANGED hiding
  <2>1. open \in SUBSET Sid
    BY DEF MainTypes
  <2> QED
    BY <1>8, <1>10, <2>1
<1>11. CASE /\ hiding' = hiding \cup {s} /\ m2h' = ToHost(ok)
            /\ UNCHANGED <<open, drain, why, alerts>>
  <2>1. PostsPlain
    BY <1>3, <1>4, <1>11, Zenon DEF PostsPlain
  <2>2. MainFrame
    BY <1>1, <1>2, <1>4, <1>11 DEF MainFrame, MainTypes
  <2> QED
    BY <2>1, <2>2
<1> QED
  BY <1>5, <1>6, <1>7, <1>9, <1>10, <1>11

LEMMA Starting ==
  ASSUME WireTypes, MainTypes, NEW s \in Sid, Launch(s) \/ UserReload(s)
  PROVE  MainFrame
PROOF
<1>0. m2h \in Seq(ToHostMsg) /\ h2m \in Seq(ToMainMsg)
  BY DEF WireTypes
<1>1. IsFiniteSet(open \cup {s})
  BY FS_AddElement DEF MainTypes
<1>2. CASE Launch(s)
  BY <1>0, <1>1, <1>2 DEF Launch, MainFrame, MainTypes
<1>3. CASE UserReload(s)
  BY <1>0, <1>3, WiresAssumption DEF UserReload, MainFrame, MainTypes
<1> QED
  BY <1>2, <1>3

LEMMA Answering ==
  ASSUME WireTypes, MainTypes, NEW a \in Worker \X Ask, NEW value \in {"true", "false"},
         UserAnswers(a, value)
  PROVE  MainFrame
PROOF
<1>0. m2h \in Seq(ToHostMsg) /\ h2m \in Seq(ToMainMsg)
  BY DEF WireTypes
<1>1. IsFiniteSet(alerts \ {a})
  BY FS_RemoveElement DEF MainTypes
<1> QED
  BY <1>0, <1>1 DEF UserAnswers, MainFrame, MainTypes

LEMMA Exiting ==
  ASSUME WireTypes, MainTypes, HearExit
  PROVE  MainFrame
PROOF
<1>0. m2h \in Seq(ToHostMsg) /\ h2m \in Seq(ToMainMsg)
  BY DEF WireTypes
<1>1. IsFiniteSet({})
  BY FS_EmptySet
<1> QED
  BY <1>0, <1>1 DEF HearExit, MainFrame, MainTypes, Reasons

(* So a step of main's is one of five kinds.                                *)
LEMMA MainSteps ==
  ASSUME WireTypes, MainTypes, MainUser \/ MainStep
  PROVE  /\ MainFrame
         /\ \/ PostsPlain
            \/ \E s \in Sid : Launch(s) \/ UserReload(s)
            \/ \E a \in Worker \X Ask, value \in {"true", "false"} : UserAnswers(a, value)
            \/ HearExit
PROOF
<1>1. CASE \E s \in Sid : Launch(s) \/ UserReload(s)
  BY <1>1, Starting
<1>2. CASE \E s \in Sid : UserEvent(s) \/ UserClose(s)
  BY <1>2, UserActions
<1>3. CASE \E a \in Worker \X Ask, value \in {"true", "false"} : UserAnswers(a, value)
  BY <1>3, Answering
<1>4. CASE MainStep
  BY <1>4, TimerActions, HearingNews, HearingEnd, HearingCall, Exiting DEF MainStep, MainHears
<1> QED
  BY <1>1, <1>2, <1>3, <1>4 DEF MainUser

----------------------------------------------------------------------------
(* What the host takes from its ports.                                      *)

LEMMA FromMain ==
  ASSUME WireTypes, m2h # <<>>
  PROVE  /\ Tail(m2h) \in Seq(ToHostMsg) /\ Head(m2h) = m2h[1] /\ Head(m2h) \in ToHostMsg
         /\ Head(m2h).type # "answer" => Head(m2h).sid \in Sid
         /\ Head(m2h).type = "answer" => Head(m2h).to \in Worker /\ Head(m2h) \in ToWorkerMsg
PROOF
<1>1. Tail(m2h) \in Seq(ToHostMsg) /\ Head(m2h) = m2h[1] /\ Head(m2h) \in ToHostMsg
  BY PortFacts DEF WireTypes
<1> QED
  BY <1>1 DEF ToHostMsg, StartMsg, Post, Plain, AnswerMsgs, ToWorkerMsg

LEMMA FromThread ==
  ASSUME WireTypes, NEW w \in Worker, w2h[w] # <<>>
  PROVE  /\ Tail(w2h[w]) \in Seq(FromWorkerMsg(w)) /\ Head(w2h[w]) = w2h[w][1]
         /\ Head(w2h[w]).type \notin {"createOk", "createErr", "destroyOk"} =>
              Head(w2h[w]) \in News(w) /\ <<Head(w2h[w])>> \in Seq(ToMainMsg)
PROOF
<1>1. /\ Tail(w2h[w]) \in Seq(FromWorkerMsg(w)) /\ Head(w2h[w]) = w2h[w][1]
      /\ Head(w2h[w]) \in FromWorkerMsg(w)
  BY PortFacts DEF WireTypes
<1>2. Head(w2h[w]).type \notin {"createOk", "createErr", "destroyOk"} => Head(w2h[w]) \in News(w)
  BY <1>1 DEF FromWorkerMsg
<1>3. News(w) \subseteq ToMainMsg
  BY DEF ToMainMsg
<1> QED
  BY <1>1, <1>2, <1>3

LEMMA Told ==
  ASSUME WireTypes, NEW x \in Seq(ToMainMsg)
  PROVE  ToMain(x) \in Seq(ToMainMsg) /\ ToMain(x) = h2m \o x
PROOF
<1>1. h2m \in Seq(ToMainMsg)
  BY DEF WireTypes
<1> QED
  BY <1>1, JoinFacts DEF ToMain

LEMMA HostTells ==
  \A s \in Sid : /\ <<Refused(s)>> \in Seq(ToMainMsg) /\ <<Created(s)>> \in Seq(ToMainMsg)
                 /\ Refused(s) \in ToMainMsg /\ Created(s) \in ToMainMsg
PROOF
<1>1. \A s \in Sid : Refused(s) \in ToMainMsg /\ Created(s) \in ToMainMsg
  BY DEF Refused, Created, ToMainMsg
<1>2. \A m \in ToMainMsg : <<m>> \in Seq(ToMainMsg)
  OBVIOUS
<1> QED
  BY <1>1, <1>2

LEMMA ToThread ==
  ASSUME WireTypes, NEW w \in Worker, NEW m \in ToWorkerMsg
  PROVE  ToWorker(w, m) \in [Worker -> Seq(ToWorkerMsg)]
  BY PortFacts DEF ToWorker, WireTypes

----------------------------------------------------------------------------
(* What a step does to the sessions on order.                               *)

LEMMA CreatesTaken ==
  ASSUME Creates, m2h \in Seq(ToHostMsg), m2h # <<>>, m2h' = Tail(m2h), launch' = launch,
         \A s \in Sid : made'[s] = made[s] \/ (m2h[1].type = "create" /\ m2h[1].sid = s)
  PROVE  Creates'
PROOF
<1> DEFINE t == Tail(m2h)
<1>1. /\ Len(m2h) \in Nat /\ Len(m2h) > 0 /\ Len(t) = Len(m2h) - 1
      /\ \A i \in 1..Len(t) : t[i] = m2h[i + 1]
      /\ \A i \in 1..Len(m2h) : m2h[i] \in ToHostMsg
  BY PortFacts
<1> HIDE DEF t
<1>2. ASSUME NEW i \in 1..Len(t), t[i].type = "create"
      PROVE  /\ launch[t[i].sid] # "no" /\ made'[t[i].sid] = 0
             /\ \A j \in 1..Len(t) : t[j].type = "create" /\ j # i => t[j].sid # t[i].sid
  <2>1. i + 1 \in 1..Len(m2h) /\ t[i] = m2h[i + 1] /\ 1 \in 1..Len(m2h) /\ i + 1 # 1
    BY <1>1
  <2>2. /\ launch[t[i].sid] # "no" /\ made[t[i].sid] = 0
        /\ \A j \in 1..Len(m2h) : m2h[j].type = "create" /\ j # i + 1 => m2h[j].sid # t[i].sid
    BY <1>2, <2>1 DEF Creates
  <2>3. t[i].sid \in Sid
    BY <1>1, <1>2, <2>1 DEF ToHostMsg, StartMsg, Post, Plain, AnswerMsgs
  <2>4. made'[t[i].sid] = 0
    BY <2>1, <2>2, <2>3
  <2>5. \A j \in 1..Len(t) : j # i => j + 1 \in 1..Len(m2h) /\ j + 1 # i + 1 /\ t[j] = m2h[j + 1]
    BY <1>1
  <2> QED
    BY <2>2, <2>4, <2>5
<1> QED
  BY <1>2 DEF Creates, t

LEMMA CreatesKept ==
  ASSUME Creates, m2h \in Seq(ToHostMsg), m2h' = m2h,
         \A s \in Sid : launch[s] # "no" => launch'[s] # "no",
         \A s \in Sid : made'[s] = made[s] \/ made[s] # 0
  PROVE  Creates'
PROOF
<1>1. \A i \in 1..Len(m2h) : m2h[i].type = "create" => m2h[i].sid \in Sid
  BY PortFacts DEF ToHostMsg, StartMsg, Post, Plain, AnswerMsgs
<1> QED
  BY <1>1 DEF Creates

LEMMA CreatesBehind ==
  ASSUME Creates, m2h \in Seq(ToHostMsg), NEW x \in Seq(Post), m2h' = m2h \o x, made' = made,
         \A s \in Sid : launch[s] # "no" => launch'[s] # "no"
  PROVE  Creates'
PROOF
<1> DEFINE y == m2h \o x
<1>1. x \in Seq(ToHostMsg) /\ Len(x) \in Nat /\ \A i \in 1..Len(x) : x[i] \in Post
  BY DEF ToHostMsg
<1>2. /\ Len(y) = Len(m2h) + Len(x) /\ Len(m2h) \in Nat
      /\ \A i \in 1..Len(m2h) : y[i] = m2h[i] /\ m2h[i] \in ToHostMsg
      /\ \A i \in 1..Len(x) : y[Len(m2h) + i] = x[i]
  BY <1>1, JoinFacts, PortFacts
<1> HIDE DEF y
<1>3. \A i \in 1..Len(y) : y[i].type = "create" => i \in 1..Len(m2h) /\ y[i] = m2h[i]
  <2> TAKE i \in 1..Len(y)
  <2>1. CASE i \in (Len(m2h) + 1)..Len(y)
    <3>1. i - Len(m2h) \in 1..Len(x) /\ Len(m2h) + (i - Len(m2h)) = i
      BY <1>1, <1>2, <2>1
    <3>2. y[i] \in Post
      BY <1>1, <1>2, <3>1
    <3> QED
      BY <3>2 DEF Post, Plain, AnswerMsgs
  <2>2. CASE i \in 1..Len(m2h)
    BY <1>2, <2>2
  <2> QED
    BY <1>1, <1>2, <2>1, <2>2
<1>4. \A i \in 1..Len(m2h) : m2h[i].type = "create" => m2h[i].sid \in Sid
  BY PortFacts DEF ToHostMsg, StartMsg, Post, Plain, AnswerMsgs
<1>5. Creates' <=>
      \A i \in 1..Len(y) : y[i].type = "create" =>
        /\ launch'[y[i].sid] # "no" /\ made[y[i].sid] = 0
        /\ \A j \in 1..Len(y) : y[j].type = "create" /\ j # i => y[j].sid # y[i].sid
  BY DEF Creates, y
<1>6. ASSUME NEW i \in 1..Len(y), y[i].type = "create"
      PROVE  /\ launch'[y[i].sid] # "no" /\ made[y[i].sid] = 0
             /\ \A j \in 1..Len(y) : y[j].type = "create" /\ j # i => y[j].sid # y[i].sid
  <2>1. i \in 1..Len(m2h) /\ y[i] = m2h[i]
    BY <1>3, <1>6
  <2>2. /\ launch[y[i].sid] # "no" /\ made[y[i].sid] = 0 /\ y[i].sid \in Sid
        /\ \A j \in 1..Len(m2h) : m2h[j].type = "create" /\ j # i => m2h[j].sid # y[i].sid
    BY <1>4, <1>6, <2>1 DEF Creates
  <2> QED
    BY <1>3, <2>2
<1> QED
  BY <1>5, <1>6

LEMMA OneMore ==
  ASSUME MainTypes, HostTypes, WireTypes, Bounded, NEW s \in Sid,
         Cardinality(Starts(m2h, s)) > 0 \/ Coming(s) = 1
  PROVE  made[s] + 1 \in 1..MaxInc
PROOF
<1>1. Cardinality(Starts(m2h, s)) \in Nat /\ Coming(s) \in {0, 1}
  BY StartsFacts DEF WireTypes, Coming
<1>2. made[s] + Cardinality(Starts(m2h, s)) + Coming(s) <= Asked(s)
  BY DEF Bounded
<1>3. Asked(s) \in Nat /\ Asked(s) <= MaxInc
  BY WiresAssumption DEF Asked, MainTypes
<1>4. made[s] \in Nat /\ MaxInc \in Nat
  BY WiresAssumption DEF HostTypes
<1>5. Cardinality(Starts(m2h, s)) > 0 \/ Coming(s) = 1
  OBVIOUS
<1> HIDE DEF Starts, Asked, Coming
<1>6. made[s] + 1 <= Asked(s)
  BY <1>1, <1>2, <1>3, <1>4, <1>5
<1> QED
  BY <1>3, <1>4, <1>6

----------------------------------------------------------------------------
(* The steps of the host.                                                   *)

Core == WireTypes /\ MainTypes /\ HostTypes /\ Threads /\ Creates /\ Bounded

LEMMA Creating ==
  ASSUME Core, HostCreate, UNCHANGED mainVars
  PROVE  Core'
PROOF
<1> DEFINE m == Head(m2h)
           s == m.sid
           n == made[s] + 1
           w == <<s, n>>
<1>0. UNCHANGED <<launch, reloads>> /\ MainTypes' /\ m2h \in Seq(ToHostMsg)
  BY DEF mainVars, Core, MainTypes, WireTypes
<1>1. /\ m2h # <<>> /\ m.type = "create" /\ m2h' = Tail(m2h) /\ m2h' \in Seq(ToHostMsg)
      /\ m = m2h[1] /\ s \in Sid
  BY FromMain DEF HostCreate, Gets, Core
<1>2. UNCHANGED <<hBusy, ended, ending, reloading, process, w2h, exited>>
  BY DEF HostCreate
<1> HIDE DEF m, s
<1>3. \A r \in Sid :
        /\ Cardinality(Starts(m2h, r)) \in Nat
        /\ Cardinality(Starts(m2h', r)) = Cardinality(Starts(m2h, r)) - IF r = s THEN 1 ELSE 0
  BY <1>0, <1>1, StartsFacts DEF m, s
<1>4. \A r \in Sid : /\ Coming(r)' = Coming(r) /\ Asked(r)' = Asked(r) /\ made[r] \in Nat
                     /\ Coming(r) \in Nat /\ Asked(r) \in Nat
  BY <1>0, <1>2 DEF Coming, Asked, Core, HostTypes, MainTypes
<1>5. \A r \in Sid : made[r] + Cardinality(Starts(m2h, r)) + Coming(r) <= Asked(r)
  BY DEF Core, Bounded
<1>6. CASE s \in InMap \/ Cardinality(InMap) >= MaxSessions
  <2>1. h2m' = ToMain(<<Refused(s)>>) /\ UNCHANGED <<hSess, creating, made, up, h2w>>
    BY <1>6 DEF HostCreate, m, s
  <2>2. h2m' \in Seq(ToMainMsg)
    BY <1>1, <2>1, Told, HostTells DEF Core
  <2>3. WireTypes' /\ HostTypes' /\ Threads'
    BY <1>1, <1>2, <2>1, <2>2 DEF Core, WireTypes, HostTypes, Threads
  <2>4. Creates'
    BY <1>0, <1>1, <2>1, CreatesTaken DEF Core
  <2>5. Bounded'
    <3>1. ASSUME NEW r \in Sid
          PROVE  made[r] + Cardinality(Starts(m2h', r)) + Coming(r) <= Asked(r)
      <4> HIDE DEF Starts, Coming, Asked
      <4>1. made[r] + Cardinality(Starts(m2h, r)) + Coming(r) <= Asked(r)
        BY <1>5
      <4> QED
        BY <4>1, <1>3, <1>4
    <3> QED
      BY <1>4, <2>1, <3>1 DEF Bounded, Starts
  <2> QED
    BY <1>0, <2>3, <2>4, <2>5 DEF Core
<1>7. CASE ~(s \in InMap \/ Cardinality(InMap) >= MaxSessions)
  <2>1. /\ hSess' = [hSess EXCEPT ![s] = n] /\ made' = [made EXCEPT ![s] = n]
        /\ creating' = [creating EXCEPT ![w] = "main"]
        /\ up' = up \cup {w} /\ h2w' = [h2w EXCEPT ![w] = <<[type |-> "create"]>>]
        /\ h2m' = h2m
    BY <1>7 DEF HostCreate, m, s
  <2>2. made[s] = 0 /\ hSess[s] = 0
    <3>1. 1 \in 1..Len(m2h)
      BY <1>0, <1>1, PortFacts
    <3> QED
      BY <1>1, <1>7, <3>1 DEF Core, Creates, InMap, m, s
  <2>3. n \in 1..MaxInc /\ n = 1 /\ w \in Worker
    <3> HIDE DEF n
    <3>1. n = 1 /\ 1 \in 1..MaxInc
      BY <2>2, WiresAssumption DEF n
    <3> QED
      BY <1>1, <3>1 DEF Worker
  <2> HIDE DEF n
  <2>4. \A v \in Worker : v[1] = s => v \notin up \cup exited \cup ended /\ ending[v] = "no"
    BY <2>2 DEF Core, Threads, Worker, HostTypes
  <2>5. [type |-> "create"] \in ToWorkerMsg /\ <<[type |-> "create"]>> \in Seq(ToWorkerMsg)
    BY DEF ToWorkerMsg
  <2>6. WireTypes'
    BY <1>1, <1>2, <2>1, <2>3, <2>4, <2>5 DEF Core, WireTypes
  <2>7. HostTypes'
    BY <1>1, <1>2, <2>1, <2>3 DEF Core, HostTypes
  <2>8. Threads'
    BY <1>1, <1>2, <2>1, <2>2, <2>3, <2>4 DEF Core, Threads, HostTypes, WireTypes, Worker
  <2>9. Creates'
    <3>1. \A r \in Sid : made'[r] = made[r] \/ (m2h[1].type = "create" /\ m2h[1].sid = r)
      BY <1>1, <2>1 DEF Core, HostTypes, s, m
    <3> QED
      BY <1>0, <1>1, <3>1, CreatesTaken DEF Core
  <2>10. Bounded'
    <3>1. ASSUME NEW r \in Sid
          PROVE  made'[r] + Cardinality(Starts(m2h', r)) + Coming(r) <= Asked(r)
      <4>1. made'[r] = IF r = s THEN made[r] + 1 ELSE made[r]
        BY <2>1, <2>2, <2>3 DEF Core, HostTypes
      <4> HIDE DEF Starts, Coming, Asked
      <4>2. made[r] + Cardinality(Starts(m2h, r)) + Coming(r) <= Asked(r)
        BY <1>5
      <4> QED
        BY <4>1, <4>2, <1>3, <1>4
    <3> QED
      BY <1>4, <3>1 DEF Bounded, Starts
  <2> QED
    BY <1>0, <2>6, <2>7, <2>8, <2>9, <2>10 DEF Core
<1> QED
  BY <1>6, <1>7

(* A message is taken that adds no thread: at most a reload's stop begins.  *)
LEMMA BoundedTaken ==
  ASSUME Core, m2h # <<>>, m2h' = Tail(m2h), UNCHANGED <<launch, reloads, made>>,
         \A r \in Sid : Coming(r)' = Coming(r) \/
                        (m2h[1].type = "reload" /\ m2h[1].sid = r)
  PROVE  Bounded'
PROOF
<1>0. m2h \in Seq(ToHostMsg)
  BY DEF Core, WireTypes
<1>1. \A r \in Sid :
        /\ Cardinality(Starts(m2h, r)) \in Nat
        /\ Cardinality(Starts(m2h', r)) = Cardinality(Starts(m2h, r))
             - IF m2h[1].type \in {"create", "reload"} /\ m2h[1].sid = r THEN 1 ELSE 0
  BY <1>0, StartsFacts
<1>2. \A r \in Sid : /\ Coming(r)' \in {0, 1} /\ Coming(r) \in {0, 1} /\ Asked(r)' = Asked(r)
                     /\ made[r] \in Nat /\ Asked(r) \in Nat
  BY DEF Coming, Asked, Core, HostTypes, MainTypes
<1>3. ASSUME NEW r \in Sid
      PROVE  made[r] + Cardinality(Starts(m2h', r)) + Coming(r)' <= Asked(r)
  <2> DEFINE p == Coming(r)'
  <2>1. p \in {0, 1} /\ (p = Coming(r) \/ (m2h[1].type \in {"create", "reload"} /\ m2h[1].sid = r))
    BY <1>2
  <2> HIDE DEF Starts, Coming, Asked, p
  <2>2. made[r] + Cardinality(Starts(m2h, r)) + Coming(r) <= Asked(r)
    BY DEF Core, Bounded
  <2>3. made[r] + Cardinality(Starts(m2h', r)) + p <= Asked(r)
    BY <2>1, <2>2, <1>1, <1>2
  <2> QED
    BY <2>3 DEF p
<1> QED
  BY <1>2, <1>3 DEF Bounded, Starts

(* No message is taken: a thread made was one that was coming.              *)
LEMMA BoundedKept ==
  ASSUME Core, m2h' = m2h, UNCHANGED <<launch, reloads>>,
         \A r \in Sid : \/ Coming(r)' = Coming(r) /\ made'[r] = made[r]
                        \/ Coming(r)' = 0 /\ made'[r] = made[r]
                        \/ Coming(r) = 1 /\ Coming(r)' = 0 /\ made'[r] = made[r] + 1
  PROVE  Bounded'
PROOF
<1>0. m2h \in Seq(ToHostMsg)
  BY DEF Core, WireTypes
<1>1. \A r \in Sid : Cardinality(Starts(m2h, r)) \in Nat
  BY <1>0, StartsFacts
<1>2. \A r \in Sid : /\ Coming(r)' \in {0, 1} /\ Coming(r) \in {0, 1} /\ Asked(r)' = Asked(r)
                     /\ made[r] \in Nat /\ Asked(r) \in Nat
  BY DEF Coming, Asked, Core, HostTypes, MainTypes
<1>3. ASSUME NEW r \in Sid
      PROVE  made'[r] + Cardinality(Starts(m2h, r)) + Coming(r)' <= Asked(r)
  <2> DEFINE p == Coming(r)'
  <2>1. p \in {0, 1} /\ \/ p = Coming(r) /\ made'[r] = made[r]
                        \/ p = 0 /\ made'[r] = made[r]
                        \/ Coming(r) = 1 /\ p = 0 /\ made'[r] = made[r] + 1
    BY <1>2
  <2> HIDE DEF Starts, Coming, Asked, p
  <2>2. made[r] + Cardinality(Starts(m2h, r)) + Coming(r) <= Asked(r)
    BY DEF Core, Bounded
  <2>3. made'[r] + Cardinality(Starts(m2h, r)) + p <= Asked(r)
    BY <2>1, <2>2, <1>1, <1>2
  <2> QED
    BY <2>3 DEF p
<1> QED
  BY <1>2, <1>3 DEF Bounded, Starts

LEMMA Forwarding ==
  ASSUME Core, HostEvent \/ HostAnswers, UNCHANGED mainVars
  PROVE  Core'
PROOF
<1> DEFINE m == Head(m2h)
<1>0. UNCHANGED <<launch, reloads>> /\ MainTypes' /\ m2h \in Seq(ToHostMsg)
  BY DEF mainVars, Core, MainTypes, WireTypes
<1>1. /\ m2h # <<>> /\ m.type \in {"event", "answer"} /\ m2h' = Tail(m2h)
      /\ m2h' \in Seq(ToHostMsg) /\ m = m2h[1]
      /\ m.type = "event" => m.sid \in Sid
      /\ m.type = "answer" => m.to \in Worker /\ m \in ToWorkerMsg
  BY FromMain DEF HostEvent, HostAnswers, Gets, Core
<1>2. UNCHANGED <<hSess, hBusy, ended, creating, ending, reloading, made, process, h2m, w2h, up, exited>>
  BY DEF HostEvent, HostAnswers, hostVars
<1>3. h2w' \in [Worker -> Seq(ToWorkerMsg)]
  <2>1. CASE HostAnswers
    BY <1>1, <2>1, ToThread DEF HostAnswers, Core, Gets
  <2>2. CASE HostEvent
    <3>1. [type |-> "event"] \in ToWorkerMsg
      BY DEF ToWorkerMsg
    <3>2. m.sid \in InMap => Thread(m.sid) \in Worker
      BY <1>1, <2>2 DEF InMap, Thread, Worker, Core, HostTypes, HostEvent, Gets
    <3> QED
      BY <2>2, <3>1, <3>2, ToThread DEF HostEvent, Core, WireTypes
  <2> QED
    BY <2>1, <2>2
<1> HIDE DEF m
<1>4. WireTypes' /\ HostTypes' /\ Threads'
  BY <1>1, <1>2, <1>3 DEF Core, WireTypes, HostTypes, Threads
<1>5. Creates'
  BY <1>0, <1>1, <1>2, CreatesTaken DEF Core
<1>6. \A r \in Sid : Coming(r)' = Coming(r)
  BY <1>2 DEF Coming
<1>7. Bounded'
  BY <1>0, <1>1, <1>2, <1>6, BoundedTaken
<1> QED
  BY <1>0, <1>4, <1>5, <1>7 DEF Core

LEMMA Destroying ==
  ASSUME Core, HostDestroy("destroy", FALSE) \/ HostDestroy("reload", TRUE), UNCHANGED mainVars
  PROVE  Core'
PROOF
<1> DEFINE m == Head(m2h)
           s == m.sid
           w == Thread(s)
<1>0. UNCHANGED <<launch, reloads>> /\ MainTypes' /\ m2h \in Seq(ToHostMsg)
  BY DEF mainVars, Core, MainTypes, WireTypes
<1>1. /\ m2h # <<>> /\ m.type \in {"destroy", "reload"} /\ m2h' = Tail(m2h)
      /\ m2h' \in Seq(ToHostMsg) /\ m = m2h[1] /\ s \in Sid
  BY FromMain DEF HostDestroy, Gets, Core
<1>2. UNCHANGED <<hBusy, creating, made, process, h2m, w2h, up, exited>>
  BY DEF HostDestroy
<1>3. \/ s \notin InMap /\ UNCHANGED <<hSess, ended, ending, reloading, h2w>>
      \/ /\ s \in InMap
         /\ hSess' = [hSess EXCEPT ![s] = 0]
         /\ ended' = ended \cup {w}
         /\ \E e \in {"drain", "grace"} : ending' = [ending EXCEPT ![w] = e]
         /\ reloading' = reloading \/ (m.type = "reload" /\ reloading' = reloading \cup {w})
         /\ h2w' = ToWorker(w, [type |-> "destroy"])
  BY DEF HostDestroy, Gets
<1> HIDE DEF m, s
<1>4. Creates'
  BY <1>0, <1>1, <1>2, CreatesTaken DEF Core
<1>5. CASE s \notin InMap /\ UNCHANGED <<hSess, ended, ending, reloading, h2w>>
  <2>1. WireTypes' /\ HostTypes' /\ Threads'
    BY <1>1, <1>2, <1>5 DEF Core, WireTypes, HostTypes, Threads
  <2>2. \A r \in Sid : Coming(r)' = Coming(r)
    BY <1>5 DEF Coming
  <2>3. Bounded'
    BY <1>0, <1>1, <1>2, <2>2, BoundedTaken
  <2> QED
    BY <1>0, <1>4, <2>1, <2>3 DEF Core
<1>6. CASE /\ s \in InMap
           /\ hSess' = [hSess EXCEPT ![s] = 0]
           /\ ended' = ended \cup {w}
           /\ \E e \in {"drain", "grace"} : ending' = [ending EXCEPT ![w] = e]
           /\ reloading' = reloading \/ (m.type = "reload" /\ reloading' = reloading \cup {w})
           /\ h2w' = ToWorker(w, [type |-> "destroy"])
  <2>1. w \in Worker /\ w[1] = s /\ w[2] = hSess[s] /\ hSess[s] # 0
    BY <1>1, <1>6 DEF InMap, Thread, Worker, Core, HostTypes
  <2>2. [type |-> "destroy"] \in ToWorkerMsg
    BY DEF ToWorkerMsg
  <2>3. h2w' \in [Worker -> Seq(ToWorkerMsg)]
    BY <1>6, <2>1, <2>2, ToThread DEF Core
  <2> HIDE DEF w
  <2>4. WireTypes'
    BY <1>1, <1>2, <2>3 DEF Core, WireTypes
  <2>5. HostTypes'
    <3>1. ending' \in [Worker -> {"no", "grace", "drain"}]
      BY <1>6 DEF Core, HostTypes
    <3>2. 0 \in 0..MaxInc
      BY WiresAssumption
    <3>3. hSess' \in [Sid -> 0..MaxInc]
      BY <1>6, <3>2 DEF Core, HostTypes
    <3>4. ended' \subseteq Worker /\ reloading' \subseteq Worker
      BY <1>6, <2>1 DEF Core, HostTypes
    <3> QED
      BY <1>2, <3>1, <3>3, <3>4 DEF Core, HostTypes
  <2>6. \A v \in Worker : /\ v[1] \in Sid /\ v[2] \in 1..MaxInc
                          /\ v[1] = s /\ v[2] = w[2] => v = w
    BY <2>1 DEF Worker
  <2>7. \A v \in Worker : v[1] = s => ending[v] = "no"
    BY <2>1 DEF Core, Threads
  <2>8. Threads'
    <3>1. \A r \in Sid : hSess'[r] = IF r = s THEN 0 ELSE hSess[r]
      BY <1>1, <1>6 DEF Core, HostTypes
    <3>2. \A v \in Worker : /\ v # w => ending'[v] = ending[v]
                            /\ ending'[w] # "no"
      BY <1>6, <2>1 DEF Core, HostTypes
    <3>3. /\ \A r \in Sid : hSess'[r] <= made[r]
          /\ \A v \in up \cup exited \cup ended' : v[2] <= made[v[1]]
      BY <1>6, <3>1, <2>1, <1>1 DEF Core, Threads, HostTypes
    <3>4. \A v \in Worker : ending'[v] # "no" => v \in ended' /\ hSess'[v[1]] = 0
      BY <1>6, <3>1, <3>2, <2>1, <2>6 DEF Core, Threads
    <3>5. \A u, v \in Worker : ending'[u] # "no" /\ ending'[v] # "no" /\ u[1] = v[1] => u = v
      BY <3>2, <2>1, <2>7 DEF Core, Threads
    <3>6. \A v \in Worker : creating[v] # "no" => hSess'[v[1]] = v[2] \/ ending'[v] # "no"
      BY <3>1, <3>2, <2>1, <2>6 DEF Core, Threads
    <3>7. \A v \in reloading' : ending'[v] # "no"
      BY <1>6, <3>2, <2>1 DEF Core, Threads, HostTypes
    <3>8. \A v \in (up \cup exited) \ ended' : hSess'[v[1]] = v[2]
      BY <1>6, <3>1, <2>1, <2>6 DEF Core, Threads, WireTypes
    <3>9. \A v \in up \cap ended' : ending'[v] # "no"
      BY <1>6, <3>2, <2>1 DEF Core, Threads, WireTypes
    <3> QED
      BY <1>2, <3>3, <3>4, <3>5, <3>6, <3>7, <3>8, <3>9 DEF Threads
  <2>9. \A r \in Sid : Coming(r)' = Coming(r) \/ (m2h[1].type = "reload" /\ m2h[1].sid = r)
    BY <1>1, <1>6, <2>1 DEF Coming, s
  <2>10. Bounded'
    BY <1>0, <1>1, <1>2, <2>9, BoundedTaken
  <2> QED
    BY <1>0, <1>4, <2>4, <2>5, <2>8, <2>10 DEF Core
<1> QED
  BY <1>3, <1>5, <1>6

(* destroy() is over: its thread is gone, and a reload's is the next.       *)
LEMMA Finishing ==
  ASSUME Core, UNCHANGED mainVars, NEW w \in Worker, NEW rest \in Seq(FromWorkerMsg(w)),
         ending[w] # "no", FinishDestroy(w, rest)
  PROVE  Core'
PROOF
<1> DEFINE s == w[1]
           n == made[s] + 1
           x == <<s, n>>
           again == /\ w \in reloading /\ s \notin InMap
                    /\ Cardinality(InMap) < MaxSessions
<1>0. UNCHANGED <<launch, reloads>> /\ MainTypes' /\ m2h \in Seq(ToHostMsg)
  BY DEF mainVars, Core, MainTypes, WireTypes
<1>1. /\ ending' = [ending EXCEPT ![w] = "no"]
      /\ reloading' = reloading \ {w}
      /\ creating' = [v \in Worker |-> IF v = w THEN "no"
                        ELSE IF again /\ v = x THEN "reload" ELSE creating[v]]
      /\ hSess' = IF again THEN [hSess EXCEPT ![s] = n] ELSE hSess
      /\ made' = IF again THEN [made EXCEPT ![s] = n] ELSE made
      /\ up' = (up \ {w}) \cup (IF again THEN {x} ELSE {})
      /\ h2w' = [v \in Worker |-> IF v = w THEN <<>>
                   ELSE IF again /\ v = x THEN <<[type |-> "create"]>> ELSE h2w[v]]
      /\ \E left \in Prefixes(rest) : w2h' = [w2h EXCEPT ![w] = left]
      /\ h2m' = IF creating[w] = "main" THEN ToMain(<<Refused(s)>>) ELSE h2m
      /\ UNCHANGED <<hBusy, ended, process, m2h, exited>>
  BY Zenon DEF FinishDestroy
<1>2. /\ s \in Sid /\ w[2] \in 1..MaxInc /\ w \in ended /\ hSess[s] = 0
      /\ w[2] <= made[s] /\ made[s] \in 0..MaxInc /\ made[s] # 0
  BY DEF Worker, Core, Threads, HostTypes
<1>3. again => n \in 1..MaxInc
  <2> HIDE DEF n
  <2>1. again => Coming(s) = 1
    BY DEF Coming
  <2> QED
    BY <1>2, <2>1, OneMore DEF Core, n
<1>4. again => x \in Worker /\ x # w
  BY <1>2, <1>3 DEF Worker
<1>5. \A v \in Worker : /\ v[1] = s /\ v \in up \cup exited \cup ended => v # x
                        /\ v[1] = s /\ ending[v] # "no" => v = w
                        /\ v[1] = s /\ creating[v] # "no" => v = w
  BY <1>2 DEF Core, Threads, Worker
<1> HIDE DEF again, n, x
<1>6. h2m' \in Seq(ToMainMsg)
  BY <1>1, <1>2, Told, HostTells DEF Core, WireTypes
<1>7. h2w' \in [Worker -> Seq(ToWorkerMsg)]
  <2>1. <<[type |-> "create"]>> \in Seq(ToWorkerMsg) /\ <<>> \in Seq(ToWorkerMsg)
    BY DEF ToWorkerMsg
  <2>2. h2w \in [Worker -> Seq(ToWorkerMsg)]
    BY DEF Core, WireTypes
  <2> QED
    BY <1>1, <2>1, <2>2
<1>8. w2h' = [v \in Worker |-> w2h'[v]] /\ \A v \in Worker : w2h'[v] \in Seq(FromWorkerMsg(v))
  <2>1. PICK left \in Prefixes(rest) : w2h' = [w2h EXCEPT ![w] = left]
    BY <1>1
  <2>2. left \in Seq(FromWorkerMsg(w))
    BY PrefixFacts
  <2> QED
    BY <2>1, <2>2 DEF Core, WireTypes
<1>9. up' \subseteq Worker /\ up' \cap exited = {}
  <2>1. again => x \notin exited
    <3>1. again => x[1] = s
      BY DEF x
    <3> QED
      BY <1>4, <1>5, <3>1
  <2> QED
    BY <1>1, <1>4, <2>1 DEF Core, WireTypes
<1>10. WireTypes'
  BY <1>1, <1>6, <1>7, <1>8, <1>9 DEF Core, WireTypes
<1>11. HostTypes'
  BY <1>1, <1>2, <1>3 DEF Core, HostTypes
<1>12. Threads'
  <2>1. \A r \in Sid : /\ hSess'[r] = IF again /\ r = s THEN n ELSE hSess[r]
                       /\ made'[r] = IF again /\ r = s THEN n ELSE made[r]
                       /\ hSess[r] \in Nat /\ made[r] \in Nat
    BY <1>1, <1>2 DEF Core, HostTypes
  <2>2. n = made[s] + 1 /\ x[1] = s /\ x[2] = n
    BY DEF n, x
  <2>3. \A v \in Worker : ending'[v] = IF v = w THEN "no" ELSE ending[v]
    BY <1>1 DEF Core, HostTypes
  <2>4. \A v \in Worker : v[1] \in Sid /\ v[2] \in 1..MaxInc
    BY DEF Worker
  <2>5. \A r \in Sid : hSess'[r] <= made'[r]
    <3>1. \A r \in Sid : hSess[r] <= made[r]
      BY DEF Core, Threads
    <3> QED
      BY <1>2, <2>1, <2>2, <3>1
  <2>6. \A v \in up' \cup exited' \cup ended' : v[2] <= made'[v[1]]
    <3>1. ASSUME NEW v \in up \cup exited \cup ended PROVE v[2] <= made'[v[1]]
      <4>1. v \in Worker /\ v[2] <= made[v[1]]
        BY DEF Core, Threads, WireTypes, HostTypes
      <4>2. made[v[1]] <= made'[v[1]] /\ made[v[1]] \in Nat /\ made'[v[1]] \in Nat /\ v[2] \in Nat
        BY <1>2, <2>1, <2>2, <2>4, <4>1
      <4> QED
        BY <4>1, <4>2
    <3>2. again => x[2] <= made'[x[1]]
      BY <1>2, <2>1, <2>2
    <3> QED
      BY <1>1, <3>1, <3>2
  <2>7. \A v \in Worker : ending'[v] # "no" => v \in ended' /\ hSess'[v[1]] = 0
    BY <1>1, <1>5, <2>1, <2>3, <2>4 DEF Core, Threads
  <2>8. \A u, v \in Worker : ending'[u] # "no" /\ ending'[v] # "no" /\ u[1] = v[1] => u = v
    BY <2>3 DEF Core, Threads
  <2>9. \A v \in Worker : creating'[v] # "no" => hSess'[v[1]] = v[2] \/ ending'[v] # "no"
    <3>1. \A v \in Worker : /\ creating'[v] # "no" => v # w
                            /\ creating'[v] # "no" => (again /\ v = x) \/ creating[v] # "no"
      BY <1>1
    <3>2. \A v \in Worker : v[1] = s /\ v # w => creating[v] = "no"
      BY <1>5
    <3>3. \A v \in Worker : creating[v] # "no" => hSess[v[1]] = v[2] \/ ending[v] # "no"
      BY DEF Core, Threads
    <3> QED
      BY <2>1, <2>2, <2>3, <2>4, <3>1, <3>2, <3>3
  <2>10. \A v \in reloading' : ending'[v] # "no"
    BY <1>1, <2>3 DEF Core, Threads, HostTypes
  <2>11. \A v \in (up' \cup exited') \ ended' : hSess'[v[1]] = v[2]
    <3>1. ASSUME NEW v \in (up \cup exited) \ ended PROVE hSess'[v[1]] = v[2]
      <4>1. v \in Worker /\ hSess[v[1]] = v[2]
        BY <3>1 DEF Core, Threads, WireTypes
      <4>2. v[1] # s
        BY <1>2, <2>4, <4>1
      <4> QED
        BY <2>1, <2>4, <4>1, <4>2
    <3>2. again => hSess'[x[1]] = x[2]
      BY <1>2, <2>1, <2>2
    <3> QED
      BY <1>1, <3>1, <3>2
  <2>12. \A v \in up' \cap ended' : ending'[v] # "no"
    <3>1. again => x \notin ended
      BY <1>4, <1>5, <2>2
    <3> QED
      BY <1>1, <2>3, <3>1 DEF Core, Threads, WireTypes
  <2> QED
    BY <2>5, <2>6, <2>7, <2>8, <2>9, <2>10, <2>11, <2>12 DEF Threads
<1>13. Creates'
  <2>1. \A r \in Sid : made'[r] = made[r] \/ made[r] # 0
    BY <1>1, <1>2 DEF Core, HostTypes
  <2> QED
    BY <1>0, <1>1, <2>1, CreatesKept DEF Core
<1>14. Bounded'
  <2>1. \A v \in reloading : v[1] = s => v = w
    BY <1>5 DEF Core, Threads, HostTypes
  <2>2. \A r \in Sid : Coming(r)' = IF r = s THEN 0 ELSE Coming(r)
    BY <1>1, <2>1 DEF Coming
  <2>3. again => Coming(s) = 1
    BY DEF Coming, again
  <2>4. \A r \in Sid : made'[r] = IF again /\ r = s THEN made[r] + 1 ELSE made[r]
    BY <1>1, <1>2 DEF Core, HostTypes, n
  <2> HIDE DEF Coming
  <2>5. \A r \in Sid : \/ Coming(r)' = Coming(r) /\ made'[r] = made[r]
                       \/ Coming(r)' = 0 /\ made'[r] = made[r]
                       \/ Coming(r) = 1 /\ Coming(r)' = 0 /\ made'[r] = made[r] + 1
    BY <2>2, <2>3, <2>4
  <2> QED
    BY <1>0, <1>1, <2>5, BoundedKept
<1> QED
  BY <1>0, <1>10, <1>11, <1>12, <1>13, <1>14 DEF Core

LEMMA Stopping ==
  ASSUME Core, UNCHANGED mainVars, NEW w \in Worker, HostDeadline(w) \/ HostDestroyed(w)
  PROVE  Core'
PROOF
<1>1. CASE HostDeadline(w)
  <2>1. w2h[w] \in Seq(FromWorkerMsg(w))
    BY DEF Core, WireTypes
  <2> QED
    BY <1>1, <2>1, Finishing DEF HostDeadline
<1>2. CASE HostDestroyed(w)
  <2>1. w2h[w] # <<>> /\ Tail(w2h[w]) \in Seq(FromWorkerMsg(w))
    BY <1>2, FromThread DEF HostDestroyed, Hears, Core
  <2>2. CASE ending[w] # "no"
    BY <1>2, <2>1, <2>2, Finishing DEF HostDestroyed
  <2>3. CASE ending[w] = "no"
    <3>1. Take(w) /\ UNCHANGED <<hostVars, process, m2h, h2m, h2w, up, exited>>
      BY <1>2, <2>3 DEF HostDestroyed
    <3>2. WireTypes'
      BY <2>1, <3>1 DEF Core, WireTypes, Take
    <3>3. MainTypes'
      BY DEF Core, mainVars, MainTypes
    <3>4. HostTypes'
      BY <3>1 DEF Core, hostVars, HostTypes
    <3>5. Threads'
      BY <3>1 DEF Core, hostVars, Threads
    <3>6. Creates'
      BY <3>1 DEF Core, mainVars, hostVars, Creates
    <3>7. Bounded'
      BY <3>1, Zenon DEF Core, mainVars, hostVars, Bounded, Starts, Coming, Asked
    <3> QED
      BY <3>2, <3>3, <3>4, <3>5, <3>6, <3>7 DEF Core
  <2> QED
    BY <2>2, <2>3
<1> QED
  BY <1>1, <1>2

LEMMA Passing ==
  ASSUME Core, UNCHANGED mainVars, NEW w \in Worker, HostBusy(w) \/ HostRelays(w)
  PROVE  Core'
PROOF
<1> DEFINE m == Head(w2h[w])
<1>1. /\ w2h[w] # <<>> /\ Tail(w2h[w]) \in Seq(FromWorkerMsg(w))
      /\ m \in News(w) /\ <<m>> \in Seq(ToMainMsg)
      /\ m.type \in {"busy", "failed", "finished", "call"}
  BY FromThread DEF HostBusy, HostRelays, Hears, Core
<1>2. /\ Take(w) /\ h2m' = ToMain(<<m>>)
      /\ UNCHANGED <<hSess, ended, creating, ending, reloading, made, process, m2h, h2w, up, exited>>
  BY DEF HostBusy, HostRelays, hostVars
<1>3. hBusy' \in [Worker -> BOOLEAN]
  <2>1. CASE HostRelays(w)
    BY <2>1 DEF HostRelays, hostVars, Core, HostTypes
  <2>2. CASE HostBusy(w)
    <3>1. m.busy \in BOOLEAN
      BY <1>1, <2>2 DEF News, HostBusy, Hears
    <3> QED
      BY <2>2, <3>1 DEF HostBusy, Core, HostTypes
  <2> QED
    BY <2>1, <2>2
<1> HIDE DEF m
<1>4. h2m' \in Seq(ToMainMsg)
  BY <1>1, <1>2, Told DEF Core
<1>5. WireTypes'
  BY <1>1, <1>2, <1>4 DEF Core, WireTypes, Take
<1>6. MainTypes'
  BY DEF Core, mainVars, MainTypes
<1>7. HostTypes'
  BY <1>2, <1>3 DEF Core, HostTypes
<1>8. Threads'
  BY <1>2 DEF Core, Threads
<1>9. Creates'
  BY <1>2 DEF Core, mainVars, Creates
<1>10. Bounded'
  BY <1>2, Zenon DEF Core, mainVars, Bounded, Starts, Coming, Asked
<1> QED
  BY <1>5, <1>6, <1>7, <1>8, <1>9, <1>10 DEF Core

LEMMA CreateOver ==
  ASSUME Core, UNCHANGED mainVars, NEW w \in Worker, HostCreated(w) \/ HostCreateFails(w)
  PROVE  Core'
PROOF
<1> DEFINE s == w[1]
           t == Tail(w2h[w])
<1>0. UNCHANGED <<launch, reloads>> /\ MainTypes' /\ m2h \in Seq(ToHostMsg) /\ s \in Sid
  BY DEF mainVars, Core, MainTypes, WireTypes, Worker
<1>1. w2h[w] # <<>> /\ t \in Seq(FromWorkerMsg(w))
  BY FromThread DEF HostCreated, HostCreateFails, Hears, Core
<1>2. /\ ToMain(<<Refused(s)>>) \in Seq(ToMainMsg) /\ ToMain(<<Created(s)>>) \in Seq(ToMainMsg)
      /\ h2m \in Seq(ToMainMsg)
  BY <1>0, Told, HostTells DEF Core, WireTypes
<1>3. UNCHANGED <<hBusy, ending, reloading, made, process, m2h, exited>>
  BY DEF HostCreated, HostCreateFails
<1>4. Creates' /\ Bounded'
  <2>1. Creates'
    BY <1>0, <1>3, CreatesKept DEF Core
  <2>2. Bounded'
    BY <1>0, <1>3 DEF Core, Bounded, Starts, Coming, Asked
  <2> QED
    BY <2>1, <2>2
<1>5. CASE /\ Take(w) /\ h2m' \in Seq(ToMainMsg)
           /\ creating' \in {creating, [creating EXCEPT ![w] = "no"]}
           /\ UNCHANGED <<hSess, ended, up, h2w>>
  <2>1. WireTypes'
    BY <1>1, <1>3, <1>5 DEF Core, WireTypes, Take
  <2>2. HostTypes' /\ Threads'
    BY <1>3, <1>5 DEF Core, HostTypes, Threads
  <2> QED
    BY <1>0, <1>4, <2>1, <2>2 DEF Core
<1>6. CASE /\ creating[w] # "no"
           /\ hSess' = [hSess EXCEPT ![s] = 0] /\ ended' = ended \cup {w}
           /\ creating' = [creating EXCEPT ![w] = "no"]
           /\ h2m' \in Seq(ToMainMsg)
           /\ up' = up \ {w} /\ h2w' = [h2w EXCEPT ![w] = <<>>]
           /\ \E left \in Prefixes(t) : w2h' = [w2h EXCEPT ![w] = left]
  <2>0. /\ \A v \in Worker : v[1] \in Sid /\ v[2] \in 1..MaxInc
        /\ \A v \in Worker : v[1] = s /\ v[2] = w[2] => v = w
    BY DEF Worker
  <2>1. PICK left \in Prefixes(t) : w2h' = [w2h EXCEPT ![w] = left]
    BY <1>6
  <2>2. left \in Seq(FromWorkerMsg(w)) /\ <<>> \in Seq(ToWorkerMsg)
    <3>1. t \in Seq(FromWorkerMsg(w)) /\ left \in Prefixes(t)
      BY <1>1
    <3> HIDE DEF t
    <3>2. left \in Seq(FromWorkerMsg(w))
      BY <3>1, PrefixFacts
    <3> QED
      BY <3>2
  <2>3. WireTypes'
    BY <1>3, <1>6, <2>1, <2>2 DEF Core, WireTypes
  <2>4. HostTypes'
    <3>1. 0 \in 0..MaxInc
      BY WiresAssumption
    <3> QED
      BY <1>3, <1>6, <3>1 DEF Core, HostTypes
  <2>5. hSess[s] = w[2] \/ ending[w] # "no"
    BY <1>6 DEF Core, Threads
  <2>6. hSess[s] = 0 \/ hSess[s] = w[2]
    BY <2>5 DEF Core, Threads
  <2>7. w[2] <= made[s]
    BY <2>0, <2>5 DEF Core, Threads
  <2>8. \A r \in Sid : hSess'[r] = IF r = s THEN 0 ELSE hSess[r]
    BY <1>6 DEF Core, HostTypes
  <2>9. Threads'
    <3>1. \A r \in Sid : hSess'[r] <= made'[r]
      BY <1>3, <2>8 DEF Core, Threads, HostTypes
    <3>2. \A v \in up' \cup exited' \cup ended' : v[2] <= made'[v[1]]
      BY <1>3, <1>6, <2>7 DEF Core, Threads
    <3>3. \A v \in Worker : ending'[v] # "no" => v \in ended' /\ hSess'[v[1]] = 0
      BY <1>3, <1>6, <2>0, <2>8 DEF Core, Threads
    <3>4. \A u, v \in Worker : ending'[u] # "no" /\ ending'[v] # "no" /\ u[1] = v[1] => u = v
      BY <1>3 DEF Core, Threads
    <3>5. \A v \in Worker : creating'[v] # "no" => hSess'[v[1]] = v[2] \/ ending'[v] # "no"
      <4> SUFFICES ASSUME NEW v \in Worker, creating'[v] # "no"
                   PROVE  hSess'[v[1]] = v[2] \/ ending[v] # "no"
        BY <1>3
      <4>1. creating[v] # "no" /\ v # w
        BY <1>6 DEF Core, HostTypes
      <4>2. hSess[v[1]] = v[2] \/ ending[v] # "no"
        BY <4>1 DEF Core, Threads
      <4>3. v[1] = s => ending[v] # "no"
        BY <2>0, <2>6, <4>1, <4>2
      <4> QED
        BY <2>0, <2>8, <4>2, <4>3
    <3>6. \A v \in reloading' : ending'[v] # "no"
      BY <1>3 DEF Core, Threads
    <3>7. \A v \in (up' \cup exited') \ ended' : hSess'[v[1]] = v[2]
      <4> SUFFICES ASSUME NEW v \in (up' \cup exited') \ ended' PROVE hSess'[v[1]] = v[2]
        OBVIOUS
      <4>1. v \in (up \cup exited) \ ended /\ v # w /\ v \in Worker
        BY <1>3, <1>6 DEF Core, WireTypes
      <4>2. hSess[v[1]] = v[2]
        BY <4>1 DEF Core, Threads
      <4>3. v[1] # s
        BY <2>0, <2>6, <4>1, <4>2
      <4> QED
        BY <2>0, <2>8, <4>1, <4>2, <4>3
    <3>8. \A v \in up' \cap ended' : ending'[v] # "no"
      BY <1>3, <1>6 DEF Core, Threads
    <3> QED
      BY <3>1, <3>2, <3>3, <3>4, <3>5, <3>6, <3>7, <3>8 DEF Threads
  <2> QED
    BY <1>0, <1>4, <2>3, <2>4, <2>9 DEF Core
<1>7. CASE HostCreated(w)
  BY <1>2, <1>5, <1>7 DEF HostCreated
<1>8. CASE HostCreateFails(w)
  BY <1>2, <1>5, <1>6, <1>8 DEF HostCreateFails
<1> QED
  BY <1>7, <1>8

LEMMA Dying ==
  ASSUME Core, UNCHANGED mainVars, NEW w \in Worker, HostDied(w)
  PROVE  Core'
PROOF
<1> DEFINE s == w[1]
           lost == <<[type |-> "failed", sid |-> s, fatal |-> TRUE]>>
                     \o (IF creating[w] = "main" THEN <<Refused(s)>> ELSE <<>>)
<1>0. UNCHANGED <<launch, reloads>> /\ MainTypes' /\ m2h \in Seq(ToHostMsg) /\ s \in Sid
  BY DEF mainVars, Core, MainTypes, WireTypes, Worker
<1>1. /\ w \in exited /\ exited' = exited \ {w}
      /\ UNCHANGED <<hBusy, ending, reloading, made, process, m2h, h2w, w2h, up>>
  BY DEF HostDied
<1>2. Creates' /\ Bounded'
  <2>1. Creates'
    BY <1>0, <1>1, CreatesKept DEF Core
  <2>2. Bounded'
    BY <1>0, <1>1 DEF Core, Bounded, Starts, Coming, Asked
  <2> QED
    BY <2>1, <2>2
<1>3. lost \in Seq(ToMainMsg)
  <2>1. [type |-> "failed", sid |-> s, fatal |-> TRUE] \in ToMainMsg
    BY DEF ToMainMsg, News
  <2>2. <<[type |-> "failed", sid |-> s, fatal |-> TRUE]>> \in Seq(ToMainMsg)
    BY <2>1
  <2>3. (IF creating[w] = "main" THEN <<Refused(s)>> ELSE <<>>) \in Seq(ToMainMsg)
    BY <1>0, HostTells
  <2> QED
    BY <2>2, <2>3, JoinFacts
<1>4. CASE w \in ended
  <2>1. UNCHANGED <<hSess, ended, creating, h2m>>
    BY <1>4 DEF HostDied
  <2>2. WireTypes' /\ HostTypes' /\ Threads'
    BY <1>1, <2>1 DEF Core, WireTypes, HostTypes, Threads
  <2> QED
    BY <1>0, <1>2, <2>2 DEF Core
<1>5. CASE w \notin ended
  <2>0. /\ \A v \in Worker : v[1] \in Sid /\ v[2] \in 1..MaxInc
        /\ \A v \in Worker : v[1] = s /\ v[2] = w[2] => v = w
    BY DEF Worker
  <2>1. /\ ended' = ended \cup {w} /\ hSess' = [hSess EXCEPT ![s] = 0]
        /\ creating' = [creating EXCEPT ![w] = "no"]
        /\ h2m' = ToMain(lost)
    BY <1>5 DEF HostDied
  <2> HIDE DEF lost
  <2>2. WireTypes'
    BY <1>1, <1>3, <2>1, Told DEF Core, WireTypes
  <2>3. HostTypes'
    <3>1. 0 \in 0..MaxInc
      BY WiresAssumption
    <3> QED
      BY <1>1, <2>1, <3>1 DEF Core, HostTypes
  <2>4. hSess[s] = w[2] /\ w \notin up /\ w[2] <= made[s]
    BY <1>1, <1>5 DEF Core, Threads, WireTypes
  <2>5. \A r \in Sid : hSess'[r] = IF r = s THEN 0 ELSE hSess[r]
    BY <2>1 DEF Core, HostTypes
  <2>6. Threads'
    <3>1. \A r \in Sid : hSess'[r] <= made'[r]
      BY <1>1, <2>5 DEF Core, Threads, HostTypes
    <3>2. \A v \in up' \cup exited' \cup ended' : v[2] <= made'[v[1]]
      BY <1>1, <2>1, <2>4 DEF Core, Threads
    <3>3. \A v \in Worker : ending'[v] # "no" => v \in ended' /\ hSess'[v[1]] = 0
      BY <1>1, <2>0, <2>1, <2>5 DEF Core, Threads
    <3>4. \A u, v \in Worker : ending'[u] # "no" /\ ending'[v] # "no" /\ u[1] = v[1] => u = v
      BY <1>1 DEF Core, Threads
    <3>5. \A v \in Worker : creating'[v] # "no" => hSess'[v[1]] = v[2] \/ ending'[v] # "no"
      <4> SUFFICES ASSUME NEW v \in Worker, creating'[v] # "no"
                   PROVE  hSess'[v[1]] = v[2] \/ ending[v] # "no"
        BY <1>1
      <4>1. creating[v] # "no" /\ v # w
        BY <2>1 DEF Core, HostTypes
      <4>2. hSess[v[1]] = v[2] \/ ending[v] # "no"
        BY <4>1 DEF Core, Threads
      <4>3. v[1] = s => ending[v] # "no"
        BY <2>0, <2>4, <4>1, <4>2
      <4> QED
        BY <2>0, <2>5, <4>2, <4>3
    <3>6. \A v \in reloading' : ending'[v] # "no"
      BY <1>1 DEF Core, Threads
    <3>7. \A v \in (up' \cup exited') \ ended' : hSess'[v[1]] = v[2]
      <4> SUFFICES ASSUME NEW v \in (up' \cup exited') \ ended' PROVE hSess'[v[1]] = v[2]
        OBVIOUS
      <4>1. v \in (up \cup exited) \ ended /\ v # w /\ v \in Worker
        BY <1>1, <2>1 DEF Core, WireTypes
      <4>2. hSess[v[1]] = v[2]
        BY <4>1 DEF Core, Threads
      <4>3. v[1] # s
        BY <2>0, <2>4, <4>1, <4>2
      <4> QED
        BY <2>0, <2>5, <4>1, <4>2, <4>3
    <3>8. \A v \in up' \cap ended' : ending'[v] # "no"
      BY <1>1, <2>1, <2>4 DEF Core, Threads
    <3> QED
      BY <3>1, <3>2, <3>3, <3>4, <3>5, <3>6, <3>7, <3>8 DEF Threads
  <2> QED
    BY <1>0, <1>2, <2>2, <2>3, <2>6 DEF Core
<1> QED
  BY <1>4, <1>5

LEMMA Collapsing ==
  ASSUME Core, UNCHANGED mainVars, HostCrash
  PROVE  Core'
PROOF
<1>0. UNCHANGED <<launch, reloads>> /\ MainTypes' /\ m2h \in Seq(ToHostMsg)
  BY DEF mainVars, Core, MainTypes, WireTypes
<1>1. /\ process' = "dead" /\ m2h' = <<>> /\ up' = {} /\ exited' = {}
      /\ h2w' = [w \in Worker |-> <<>>] /\ w2h' = [w \in Worker |-> <<>>]
      /\ h2m' \in Prefixes(h2m)
      /\ hSess' = [s \in Sid |-> 0]
      /\ hBusy' = [w \in Worker |-> FALSE]
      /\ creating' = [w \in Worker |-> "no"] /\ ending' = [w \in Worker |-> "no"]
      /\ reloading' = {} /\ ended' = ended /\ made' = made
  BY DEF HostCrash
<1>2. WireTypes'
  <2>1. h2m' \in Seq(ToMainMsg)
    BY <1>1, PrefixFacts DEF Core, WireTypes
  <2>2. \A w \in Worker : <<>> \in Seq(FromWorkerMsg(w)) /\ <<>> \in Seq(ToWorkerMsg)
    OBVIOUS
  <2>3. <<>> \in Seq(ToHostMsg)
    OBVIOUS
  <2> QED
    BY <1>1, <2>1, <2>2, <2>3 DEF WireTypes
<1>3. HostTypes'
  <2>1. 0 \in 0..MaxInc
    BY WiresAssumption
  <2> QED
    BY <1>1, <2>1 DEF Core, HostTypes
<1>4. Threads'
  BY <1>1 DEF Core, HostTypes, Threads
<1>5. Creates'
  BY <1>1 DEF Creates
<1>6. Bounded'
  <2>1. \A r \in Sid : /\ Cardinality(Starts(m2h', r)) = 0 /\ Coming(r)' = 0
                       /\ Asked(r)' = Asked(r)
    <3>1. \A r \in Sid : Starts(<<>>, r) = {}
      BY DEF Starts
    <3> QED
      BY <1>0, <1>1, <3>1, FS_EmptySet DEF Coming, Asked
  <2>2. \A r \in Sid : /\ Cardinality(Starts(m2h, r)) \in Nat /\ Coming(r) \in {0, 1}
                       /\ Asked(r) \in Nat /\ made[r] \in Nat
    BY <1>0, StartsFacts DEF Coming, Core, HostTypes, MainTypes, Asked
  <2>3. \A r \in Sid : made[r] + Cardinality(Starts(m2h, r)) + Coming(r) <= Asked(r)
    BY DEF Core, Bounded
  <2>4. ASSUME NEW r \in Sid PROVE made'[r] + Cardinality(Starts(m2h', r)) + Coming(r)' <= Asked(r)'
    <3> DEFINE a == Cardinality(Starts(m2h', r))
               b == Coming(r)'
               c == Asked(r)'
    <3>1. a = 0 /\ b = 0 /\ c = Asked(r) /\ made' = made
      BY <1>1, <2>1
    <3> HIDE DEF a, b, c, Starts, Coming, Asked
    <3>2. made'[r] + a + b <= c
      BY <2>2, <2>3, <3>1
    <3> QED
      BY <3>2 DEF a, b, c
  <2> QED
    BY <2>4 DEF Bounded, Starts
<1> QED
  BY <1>0, <1>2, <1>3, <1>4, <1>5, <1>6 DEF Core

(* Every step of the host's keeps the core of the invariant.                *)
LEMMA HostSteps ==
  ASSUME Core, UNCHANGED mainVars,
         \/ HostFromMain
         \/ \E w \in Worker : HostFromWorker(w) \/ Deadline(w)
         \/ HostCrash
  PROVE  Core'
PROOF
<1>1. CASE HostFromMain
  BY <1>1, Creating, Forwarding, Destroying DEF HostFromMain
<1>2. ASSUME NEW w \in Worker, HostFromWorker(w) \/ Deadline(w) PROVE Core'
  BY <1>2, Stopping, Passing, CreateOver, Dying DEF HostFromWorker, Deadline
<1> QED
  BY <1>1, <1>2, Collapsing

----------------------------------------------------------------------------
(* The steps of a thread.                                                   *)

(* What a thread says that is no call.                                      *)
Talk(w) == {m \in FromWorkerMsg(w) : m.type # "call"}

(* What they have in common: one thread reads its port and writes its own.  *)
ThreadFrame(w) ==
  /\ UNCHANGED <<process, m2h, h2m, up, exited>>
  /\ \/ h2w' = h2w
     \/ h2w[w] # <<>> /\ h2w' = [h2w EXCEPT ![w] = Tail(@)]
  /\ \/ \E x \in Seq(Talk(w)) : w2h' = [w2h EXCEPT ![w] = @ \o x]
     \/ \E kind \in Kinds : CallDesktop(w, kind)

LEMMA Few ==
  ASSUME NEW S, NEW a \in S, NEW b \in S, NEW c \in S
  PROVE  <<>> \in Seq(S) /\ <<a>> \in Seq(S) /\ <<a, b>> \in Seq(S) /\ <<a, b, c>> \in Seq(S)
  OBVIOUS

LEMMA Says ==
  ASSUME NEW w \in Worker
  PROVE  /\ <<CreateOk>> \in Seq(Talk(w)) /\ <<CreateErr>> \in Seq(Talk(w))
         /\ <<DestroyOk>> \in Seq(Talk(w)) /\ <<>> \in Seq(Talk(w))
         /\ <<Failed(w, TRUE)>> \in Seq(Talk(w))
         /\ <<Failed(w, FALSE)>> \in Seq(Talk(w))
         /\ <<Finished(w)>> \in Seq(Talk(w))
         /\ <<Failed(w, TRUE), CreateOk>> \in Seq(Talk(w))
         /\ <<Failed(w, FALSE), CreateOk>> \in Seq(Talk(w))
         /\ <<Finished(w), CreateOk>> \in Seq(Talk(w))
         /\ \A n, k \in Int :
              /\ <<Busy(w, n)>> \in Seq(Talk(w))
              /\ <<Busy(w, n), Busy(w, k)>> \in Seq(Talk(w))
              /\ <<Busy(w, n), Failed(w, FALSE), Busy(w, k)>> \in Seq(Talk(w))
PROOF
<1>1. \A n \in Int : Busy(w, n) \in Talk(w)
  BY DEF Talk, Busy, FromWorkerMsg, News
<1>2. Failed(w, TRUE) \in Talk(w) /\ Failed(w, FALSE) \in Talk(w)
  BY DEF Talk, Failed, FromWorkerMsg, News
<1>3. /\ Finished(w) \in Talk(w) /\ CreateOk \in Talk(w)
      /\ CreateErr \in Talk(w) /\ DestroyOk \in Talk(w)
  BY DEF Talk, Finished, CreateOk, CreateErr, DestroyOk, FromWorkerMsg, News
<1> QED
  BY <1>1, <1>2, <1>3, Few

LEMMA Uttered ==
  ASSUME WireTypes, WorkerTypes, NEW w \in Worker, ThreadFrame(w)
  PROVE  \E x \in Seq(FromWorkerMsg(w)) : w2h' = [w2h EXCEPT ![w] = @ \o x]
PROOF
<1>1. CASE \E x \in Seq(Talk(w)) : w2h' = [w2h EXCEPT ![w] = @ \o x]
  <2>1. Talk(w) \subseteq FromWorkerMsg(w)
    BY DEF Talk
  <2> QED
    BY <1>1, <2>1, SeqGrows
<1>2. ASSUME NEW kind \in Kinds, CallDesktop(w, kind)
      PROVE  \E x \in Seq(FromWorkerMsg(w)) : w2h' = [w2h EXCEPT ![w] = @ \o x]
  <2> DEFINE m == [type |-> "call", from |-> w, ask |-> asks[w] + 1, kind |-> kind]
  <2>1. asks[w] + 1 \in Ask
    BY <1>2, WiresAssumption DEF CallDesktop, WorkerTypes, Ask
  <2>2. m \in FromWorkerMsg(w)
    BY <2>1 DEF FromWorkerMsg, News
  <2>3. w2h' = [w2h EXCEPT ![w] = @ \o <<m>>]
    BY <1>2 DEF CallDesktop, Send
  <2> HIDE DEF m
  <2>4. <<m>> \in Seq(FromWorkerMsg(w))
    BY <2>2
  <2> QED
    BY <2>3, <2>4
<1> QED
  BY <1>1, <1>2 DEF ThreadFrame

LEMMA FrameTypes ==
  ASSUME WireTypes, WorkerTypes, NEW w \in Worker, ThreadFrame(w)
  PROVE  WireTypes'
PROOF
<1>1. PICK x \in Seq(FromWorkerMsg(w)) : w2h' = [w2h EXCEPT ![w] = @ \o x]
  BY Uttered
<1>2. w2h[w] \o x \in Seq(FromWorkerMsg(w))
  BY JoinFacts DEF WireTypes
<1>3. w2h' = [v \in Worker |-> w2h'[v]] /\ \A v \in Worker : w2h'[v] \in Seq(FromWorkerMsg(v))
  BY <1>1, <1>2 DEF WireTypes
<1>4. h2w' \in [Worker -> Seq(ToWorkerMsg)]
  <2>1. h2w \in [Worker -> Seq(ToWorkerMsg)]
    BY DEF WireTypes
  <2>2. h2w[w] # <<>> => Tail(h2w[w]) \in Seq(ToWorkerMsg)
    BY <2>1, PortFacts
  <2> QED
    BY <2>1, <2>2 DEF ThreadFrame
<1> QED
  BY <1>3, <1>4 DEF ThreadFrame, WireTypes

(* A thread's step types its own state.                                     *)
LEMMA Serving ==
  ASSUME WireTypes, WorkerTypes, NEW w \in Worker, WorkerTurn(w)
  PROVE  ThreadFrame(w) /\ WorkerTypes'
PROOF
<1>0. /\ h2w[w] # <<>> /\ h2w' = [h2w EXCEPT ![w] = Tail(@)]
      /\ UNCHANGED <<process, m2h, h2m, up, exited>>
  BY DEF WorkerTurn, Start, Dispatch, Answered, Destroyed, Receives, Consume, OtherWires
<1>1. w2h = [v \in Worker |-> w2h[v]] /\ w2h[w] \in Seq(FromWorkerMsg(w))
  BY DEF WireTypes
<1>2. ASSUME UNCHANGED w2h PROVE ThreadFrame(w)
  <2>1. <<>> \in Seq(Talk(w)) /\ <<>> \in Seq(FromWorkerMsg(w))
    OBVIOUS
  <2>2. w2h[w] \o <<>> = w2h[w]
    BY <1>1, <2>1, JoinFacts
  <2>3. w2h' = [w2h EXCEPT ![w] = @ \o <<>>]
    BY <1>1, <1>2, <2>2
  <2> QED
    BY <1>0, <2>1, <2>3 DEF ThreadFrame
<1>3. ASSUME NEW x \in Seq(Talk(w)), Send(w, x) PROVE ThreadFrame(w)
  BY <1>0, <1>3 DEF ThreadFrame, Send
<1>4. CASE Start(w)
  <2>1. /\ <<CreateOk>> \in Seq(Talk(w)) /\ <<CreateErr>> \in Seq(Talk(w))
        /\ <<Failed(w, TRUE), CreateOk>> \in Seq(Talk(w))
        /\ <<Failed(w, FALSE), CreateOk>> \in Seq(Talk(w))
        /\ <<Finished(w), CreateOk>> \in Seq(Talk(w))
    BY Says
  <2>2. ThreadFrame(w)
    BY <1>2, <1>3, <1>4, <2>1, Zenon DEF Start
  <2>3. WorkerTypes'
    BY <1>4 DEF Start, WorkerTypes
  <2> QED
    BY <2>2, <2>3
<1>5. CASE Dispatch(w)
  <2>1. \A n, k \in Int :
          /\ <<Busy(w, n)>> \in Seq(Talk(w))
          /\ <<Busy(w, n), Busy(w, k)>> \in Seq(Talk(w))
          /\ <<Busy(w, n), Failed(w, FALSE), Busy(w, k)>> \in Seq(Talk(w))
    BY Says
  <2>0. running[w] \in Int /\ running[w] + 1 \in Int
    BY DEF WorkerTypes
  <2>2. ThreadFrame(w)
    BY <1>2, <1>3, <1>5, <2>0, <2>1, Zenon DEF Dispatch
  <2>3. WorkerTypes'
    BY <1>5 DEF Dispatch, WorkerTypes
  <2> QED
    BY <2>2, <2>3
<1>6. CASE Answered(w)
  <2>1. ThreadFrame(w)
    BY <1>2, <1>6 DEF Answered
  <2>2. Head(h2w[w]) \in ToWorkerMsg /\ Head(h2w[w]).type = "answer"
    BY <1>0, <1>6, PortFacts DEF WireTypes, Answered, Receives
  <2>3. Head(h2w[w]).ask \in Ask /\ Head(h2w[w]).value \in AskOutcomes
    BY <2>2 DEF ToWorkerMsg, AnswerMsgs, AskOutcomes
  <2>4. outcome' \in [Worker -> [Ask -> AskOutcomes]]
    BY <1>6, <2>3 DEF Answered, WorkerTypes
  <2>5. WorkerTypes'
    BY <1>6, <2>4 DEF Answered, WorkerTypes
  <2> QED
    BY <2>1, <2>5
<1>7. CASE Destroyed(w)
  <2>1. <<DestroyOk>> \in Seq(Talk(w))
    BY Says
  <2>2. ThreadFrame(w)
    BY <1>2, <1>3, <1>7, <2>1, Zenon DEF Destroyed
  <2>3. WorkerTypes'
    BY <1>7 DEF Destroyed, WorkerTypes
  <2> QED
    BY <2>2, <2>3
<1> QED
  BY <1>4, <1>5, <1>6, <1>7 DEF WorkerTurn

LEMMA Extending ==
  ASSUME WireTypes, WorkerTypes, NEW w \in Worker, Extension(w)
  PROVE  ThreadFrame(w) /\ WorkerTypes'
PROOF
<1>0. h2w' = h2w /\ UNCHANGED <<process, m2h, h2m, up, exited>>
  BY DEF Extension, CallDesktop, CallTimesOut, HandlerSettles, Finishes, Fatal, WorkerCeiling,
         OtherWires, wires
<1>1. w2h = [v \in Worker |-> w2h[v]] /\ w2h[w] \in Seq(FromWorkerMsg(w))
  BY DEF WireTypes
<1>2. ASSUME UNCHANGED w2h PROVE ThreadFrame(w)
  <2>1. <<>> \in Seq(Talk(w)) /\ <<>> \in Seq(FromWorkerMsg(w))
    OBVIOUS
  <2>2. w2h[w] \o <<>> = w2h[w]
    BY <1>1, <2>1, JoinFacts
  <2>3. w2h' = [w2h EXCEPT ![w] = @ \o <<>>]
    BY <1>1, <1>2, <2>2
  <2> QED
    BY <1>0, <2>1, <2>3 DEF ThreadFrame
<1>3. ASSUME NEW x \in Seq(Talk(w)), Send(w, x) PROVE ThreadFrame(w)
  BY <1>0, <1>3 DEF ThreadFrame, Send
<1>4. ASSUME NEW kind \in Kinds, CallDesktop(w, kind) PROVE ThreadFrame(w) /\ WorkerTypes'
  <2>1. asks[w] + 1 \in Ask /\ asks[w] + 1 \in 0..MaxAsks
    BY <1>4, WiresAssumption DEF CallDesktop, WorkerTypes, Ask
  <2>4. ThreadFrame(w)
    BY <1>0, <1>4 DEF ThreadFrame
  <2>5. WorkerTypes'
    <3>1. asks' \in [Worker -> 0..MaxAsks]
      BY <1>4, <2>1 DEF CallDesktop, WorkerTypes
    <3>2. outcome' \in [Worker -> [Ask -> AskOutcomes]]
      BY <1>4, <2>1 DEF CallDesktop, WorkerTypes, AskOutcomes
    <3> QED
      BY <1>4, <3>1, <3>2 DEF CallDesktop, WorkerTypes
  <2> QED
    BY <2>4, <2>5
<1>5. CASE CallTimesOut(w)
  <2>1. ThreadFrame(w)
    BY <1>2, <1>5 DEF CallTimesOut, wires
  <2>2. outcome' \in [Worker -> [Ask -> AskOutcomes]]
    BY <1>5 DEF CallTimesOut, WorkerTypes, AskOutcomes
  <2> QED
    BY <1>5, <2>1, <2>2 DEF CallTimesOut, WorkerTypes
<1>6. CASE HandlerSettles(w)
  <2> DEFINE last == phase[w] = "drain" /\ running[w] = 1
             news == <<Busy(w, running[w] - 1)>> \o (IF last THEN <<DestroyOk>> ELSE <<>>)
  <2>1. /\ <<Busy(w, running[w] - 1)>> \in Seq(Talk(w))
        /\ (IF last THEN <<DestroyOk>> ELSE <<>>) \in Seq(Talk(w))
        /\ <<Failed(w, FALSE)>> \in Seq(Talk(w))
    <3>1. running[w] - 1 \in Int
      BY DEF WorkerTypes
    <3> QED
      BY <3>1, Says
  <2>2. news \in Seq(Talk(w))
    BY <2>1, JoinFacts
  <2> HIDE DEF news
  <2>3. <<Failed(w, FALSE)>> \o news \in Seq(Talk(w))
    BY <2>1, <2>2, JoinFacts
  <2>4. Send(w, news) \/ Send(w, <<Failed(w, FALSE)>> \o news)
    BY <1>6 DEF HandlerSettles, news
  <2>5. ThreadFrame(w)
    BY <1>3, <2>2, <2>3, <2>4
  <2>6. running' \in [Worker -> Nat]
    BY <1>6 DEF HandlerSettles, WorkerTypes
  <2>7. phase' \in [Worker -> {"warm", "run", "drain", "down"}]
    BY <1>6 DEF HandlerSettles, WorkerTypes
  <2> QED
    BY <1>6, <2>5, <2>6, <2>7 DEF HandlerSettles, WorkerTypes
<1>7. CASE Finishes(w)
  <2>1. <<Finished(w)>> \in Seq(Talk(w)) /\ <<Failed(w, FALSE)>> \in Seq(Talk(w))
    BY Says
  <2>2. ThreadFrame(w)
    BY <1>3, <1>7, <2>1, Zenon DEF Finishes
  <2> QED
    BY <1>7, <2>2 DEF Finishes, WorkerTypes
<1>8. CASE Fatal(w)
  <2>1. <<Failed(w, TRUE)>> \in Seq(Talk(w))
    BY Says
  <2>2. ThreadFrame(w)
    BY <1>3, <1>8, <2>1, Zenon DEF Fatal
  <2> QED
    BY <1>8, <2>2 DEF Fatal, WorkerTypes
<1>9. CASE WorkerCeiling(w)
  <2>1. <<DestroyOk>> \in Seq(Talk(w))
    BY Says
  <2>2. ThreadFrame(w)
    BY <1>3, <1>9, <2>1, Zenon DEF WorkerCeiling
  <2> QED
    BY <1>9, <2>2 DEF WorkerCeiling, WorkerTypes
<1> QED
  BY <1>4, <1>5, <1>6, <1>7, <1>8, <1>9 DEF Extension

LEMMA ThreadSteps ==
  ASSUME Core, WorkerTypes, NEW w \in Worker, WorkerTurn(w) \/ Extension(w) \/ Crash(w),
         UNCHANGED <<mainVars, hostVars>>
  PROVE  Core' /\ WorkerTypes'
PROOF
<1>1. UNCHANGED <<m2h, launch, reloads, hSess, made, ended, ending, creating, reloading, hBusy>>
      /\ MainTypes' /\ HostTypes'
  BY DEF mainVars, hostVars, WorkerTurn, Start, Dispatch, Answered, Destroyed, Extension, CallDesktop,
         CallTimesOut, HandlerSettles, Finishes, Fatal, WorkerCeiling, OtherWires, wires, Crash,
         Core, MainTypes, HostTypes
<1>2. Creates' /\ Bounded'
  BY <1>1 DEF Core, Creates, Bounded, Starts, Coming, Asked
<1>3. CASE WorkerTurn(w) \/ Extension(w)
  <2>1. ThreadFrame(w) /\ WorkerTypes'
    BY <1>3, Serving, Extending DEF Core
  <2>2. WireTypes'
    BY <2>1, FrameTypes DEF Core
  <2>3. Threads'
    BY <1>1, <2>1 DEF Core, Threads, ThreadFrame
  <2> QED
    BY <1>1, <1>2, <2>1, <2>2, <2>3 DEF Core
<1>4. CASE Crash(w)
  <2>1. PICK left \in Prefixes(w2h[w]) : w2h' = [w2h EXCEPT ![w] = left]
    BY <1>4 DEF Crash
  <2>2. left \in Seq(FromWorkerMsg(w)) /\ <<>> \in Seq(ToWorkerMsg)
    BY PrefixFacts DEF Core, WireTypes
  <2>3. w2h' = [v \in Worker |-> w2h'[v]] /\ \A v \in Worker : w2h'[v] \in Seq(FromWorkerMsg(v))
    BY <2>1, <2>2 DEF Core, WireTypes
  <2>4. /\ w \in up /\ up' = up \ {w} /\ exited' = exited \cup {w}
        /\ h2w' = [h2w EXCEPT ![w] = <<>>] /\ UNCHANGED <<process, m2h, h2m>>
        /\ UNCHANGED workerVars
    BY <1>4 DEF Crash
  <2>5. WireTypes'
    BY <2>2, <2>3, <2>4 DEF Core, WireTypes
  <2>6. Threads'
    BY <1>1, <2>4 DEF Core, Threads
  <2>7. WorkerTypes'
    BY <2>4 DEF workerVars, WorkerTypes
  <2> QED
    BY <1>1, <1>2, <2>5, <2>6, <2>7 DEF Core
<1> QED
  BY <1>3, <1>4

----------------------------------------------------------------------------
(* The steps of the daemon.                                                 *)

LEMMA AskedGrows ==
  ASSUME Core, m2h' \in Seq(ToHostMsg), UNCHANGED <<made, reloading>>,
         \A r \in Sid : /\ Cardinality(Starts(m2h', r)) \in Nat
                        /\ Asked(r)' \in Nat
                        /\ Cardinality(Starts(m2h', r)) - Cardinality(Starts(m2h, r))
                             <= Asked(r)' - Asked(r)
  PROVE  Bounded'
PROOF
<1>1. ASSUME NEW r \in Sid PROVE (made[r] + Cardinality(Starts(m2h, r)) + Coming(r) <= Asked(r))'
  <2>1. made[r] + Cardinality(Starts(m2h, r)) + Coming(r) <= Asked(r)
    BY DEF Core, Bounded
  <2>2. /\ made' = made /\ Coming(r)' = Coming(r) /\ made[r] \in Nat /\ Coming(r) \in Nat
        /\ Asked(r) \in Nat /\ Cardinality(Starts(m2h, r)) \in Nat
    <3>1. made' = made /\ Coming(r)' = Coming(r) /\ Coming(r) \in Nat
      BY DEF Coming
    <3>2. made[r] \in Nat /\ Asked(r) \in Nat
      BY DEF Core, HostTypes, MainTypes, Asked
    <3>3. Cardinality(Starts(m2h, r)) \in Nat
      BY StartsFacts DEF Core, WireTypes
    <3> QED BY <3>1, <3>2, <3>3
  <2> DEFINE a == Cardinality(Starts(m2h', r))
             b == Coming(r)'
             c == Asked(r)'
  <2>3. a \in Nat /\ c \in Nat /\ a - Cardinality(Starts(m2h, r)) <= c - Asked(r) /\ b = Coming(r)
    BY <2>2
  <2> DEFINE a0 == Cardinality(Starts(m2h, r))
             b0 == Coming(r)
             c0 == Asked(r)
  <2>5. /\ made[r] \in Nat /\ a0 \in Nat /\ b0 \in Nat /\ c0 \in Nat /\ made[r] + a0 + b0 <= c0
        /\ a \in Nat /\ c \in Nat /\ a - a0 <= c - c0 /\ b = b0 /\ made'[r] = made[r]
    BY <2>1, <2>2, <2>3
  <2> HIDE DEF a, b, c, a0, b0, c0
  <2>4. made'[r] + a + b <= c
    BY <2>5
  <2> QED
    BY <2>4 DEF a, b, c, Starts
<1> QED
  BY <1>1 DEF Bounded

LEMMA Ordering ==
  ASSUME Core, UNCHANGED hostVars, NEW s \in Sid, Launch(s) \/ UserReload(s)
  PROVE  Core'
PROOF
<1>0. /\ m2h \in Seq(ToHostMsg) /\ h2m \in Seq(ToMainMsg)
      /\ UNCHANGED <<made, reloading, h2m, h2w, w2h, up, exited>> /\ HostTypes'
      /\ process' \in {"none", "up", "dead"}
  BY DEF Core, WireTypes, hostVars, HostTypes, Launch, UserReload
<1>1. MainTypes' /\ Threads'
  <2>1. MainTypes'
    BY Starting DEF Core, MainFrame
  <2> QED
    BY <1>0, <2>1 DEF Core, Threads, hostVars
<1>2. \A r \in Sid : Asked(r) \in Nat /\ Asked(r)' \in Nat /\ Cardinality(Starts(m2h, r)) \in Nat
                     /\ made[r] \in Nat /\ Coming(r) \in Nat
  <2>1. /\ launch \in [Sid -> {"no", "waiting", "ok", "failed"}] /\ launch' \in [Sid -> {"no", "waiting", "ok", "failed"}]
        /\ reloads \in [Sid -> 0..(MaxInc - 1)] /\ reloads' \in [Sid -> 0..(MaxInc - 1)]
        /\ made \in [Sid -> 0..MaxInc]
    BY <1>1 DEF Core, MainTypes, HostTypes
  <2>2. \A r \in Sid : Asked(r) \in Nat /\ Asked(r)' \in Nat
    BY <2>1, SMT DEF Asked
  <2>3. \A r \in Sid : made[r] \in Nat /\ Coming(r) \in Nat
    BY <2>1, SMT DEF Coming
  <2>4. \A r \in Sid : Cardinality(Starts(m2h, r)) \in Nat
    BY <1>0, StartsFacts
  <2> QED BY <2>2, <2>3, <2>4
<1>3. ASSUME NEW m \in StartMsg, m.sid = s, m2h' \in {m2h, Append(m2h, m)},
             Asked(s)' >= Asked(s) + 1, \A r \in Sid : r # s => Asked(r)' = Asked(r),
             \A r \in Sid : launch[r] # "no" => launch'[r] # "no",
             m.type = "create" => launch[s] = "no" /\ launch'[s] # "no"
      PROVE  Core'
  <2>0. m \in ToHostMsg /\ m.type \in {"create", "reload"}
    BY DEF ToHostMsg, StartMsg
  <2>1. m2h' \in Seq(ToHostMsg)
    BY <1>0, <1>3, <2>0
  <2>2. WireTypes'
    BY <1>0, <2>1 DEF Core, WireTypes
  <2>3. \A r \in Sid : Cardinality(Starts(Append(m2h, m), r)) =
                         Cardinality(Starts(m2h, r)) + IF r = s THEN 1 ELSE 0
    BY <1>0, <1>3, <2>0, StartsFacts
  <2>4. \A r \in Sid : /\ Cardinality(Starts(m2h', r)) \in Nat
                       /\ Cardinality(Starts(m2h', r)) - Cardinality(Starts(m2h, r))
                            <= Asked(r)' - Asked(r)
    <3> TAKE r \in Sid
    <3> DEFINE a == Cardinality(Starts(m2h', r))
               b == Cardinality(Starts(m2h, r))
               c == Asked(r)'
               d == Asked(r)
    <3>1. a = b \/ a = b + IF r = s THEN 1 ELSE 0
      BY <1>3, <2>3
    <3>2. b \in Nat /\ c \in Nat /\ d \in Nat /\ (r = s => c >= d + 1) /\ (r # s => c = d)
      BY <1>2, <1>3
    <3> HIDE DEF a, b, c, d
    <3>3. a \in Nat /\ a - b <= c - d
      BY <3>1, <3>2
    <3> QED
      BY <3>3 DEF a, b, c, d
  <2>5. Bounded'
    BY <1>0, <1>2, <2>1, <2>4, AskedGrows
  <2>6. Creates'
    <3>1. CASE m2h' = m2h
      BY <1>0, <1>3, <3>1, CreatesKept DEF Core
    <3>2. CASE m2h' = Append(m2h, m)
      <4> DEFINE y == Append(m2h, m)
      <4>1. /\ Len(y) = Len(m2h) + 1 /\ y[Len(m2h) + 1] = m /\ Len(m2h) \in Nat
            /\ \A i \in 1..Len(m2h) : y[i] = m2h[i] /\ m2h[i] \in ToHostMsg
        BY <1>0, <2>0, PortFacts
      <4> HIDE DEF y
      <4>2. \A i : i \in 1..Len(y) <=> i \in 1..Len(m2h) \/ i = Len(m2h) + 1
        BY <4>1
      <4>3. m.type = "create" => made[s] = 0
        <5> SUFFICES ASSUME m.type = "create" PROVE made[s] = 0
          OBVIOUS
        <5>1. Asked(s) = 0
          BY <1>3 DEF Asked
        <5>2. made[s] + Cardinality(Starts(m2h, s)) + Coming(s) <= Asked(s)
          BY DEF Core, Bounded
        <5> HIDE DEF Asked, Starts, Coming
        <5> QED
          BY <1>2, <5>1, <5>2
      <4>4. m.type = "create" => \A i \in 1..Len(m2h) : m2h[i].type = "create" => m2h[i].sid # s
        BY <1>3 DEF Core, Creates
      <4>5. \A i \in 1..Len(m2h) : m2h[i].type = "create" => m2h[i].sid \in Sid
        BY <4>1 DEF ToHostMsg, StartMsg, Post, Plain, AnswerMsgs
      <4>6. ASSUME NEW i \in 1..Len(y), y[i].type = "create"
            PROVE  /\ launch'[y[i].sid] # "no" /\ made[y[i].sid] = 0
                   /\ \A j \in 1..Len(y) : y[j].type = "create" /\ j # i => y[j].sid # y[i].sid
        <5>1. CASE i \in 1..Len(m2h)
          <6>1. /\ y[i] = m2h[i] /\ launch[y[i].sid] # "no" /\ made[y[i].sid] = 0 /\ y[i].sid \in Sid
                /\ \A j \in 1..Len(m2h) : m2h[j].type = "create" /\ j # i => m2h[j].sid # y[i].sid
            BY <4>1, <4>5, <4>6, <5>1 DEF Core, Creates
          <6>2. m.type = "create" => m.sid # y[i].sid
            BY <1>3, <4>4, <4>6, <5>1, <6>1
          <6> QED
            BY <1>3, <4>1, <4>2, <6>1, <6>2
        <5>2. CASE i = Len(m2h) + 1
          <6>1. y[i] = m /\ made[s] = 0 /\ launch'[s] # "no"
            BY <1>3, <4>1, <4>3, <4>6, <5>2
          <6>2. \A j \in 1..Len(y) : j # i => j \in 1..Len(m2h) /\ y[j] = m2h[j]
            BY <4>1, <4>2, <5>2
          <6> QED
            BY <1>3, <4>4, <4>6, <6>1, <6>2
        <5> QED
          BY <4>2, <5>1, <5>2
      <4>7. Creates' <=>
              \A i \in 1..Len(y) : y[i].type = "create" =>
                /\ launch'[y[i].sid] # "no" /\ made[y[i].sid] = 0
                /\ \A j \in 1..Len(y) : y[j].type = "create" /\ j # i => y[j].sid # y[i].sid
        BY <1>0, <3>2 DEF Creates, y
      <4> QED
        BY <4>6, <4>7
    <3> QED
      BY <1>3, <3>1, <3>2
  <2> QED
    BY <1>0, <1>1, <2>2, <2>5, <2>6 DEF Core
<1>4. CASE Launch(s)
  <2>1. m2h' \in {m2h, Append(m2h, Msg("create", s))} /\ launch[s] = "no"
        /\ launch' = [launch EXCEPT ![s] = "waiting"] /\ reloads' = reloads
    BY <1>4 DEF Launch
  <2>2. Msg("create", s) \in StartMsg /\ Msg("create", s).sid = s
    BY DEF Msg, StartMsg
  <2>3. /\ launch'[s] # "no" /\ \A r \in Sid : r # s => launch'[r] = launch[r]
    BY <2>1 DEF Core, MainTypes
  <2>4. Asked(s)' >= Asked(s) + 1 /\ \A r \in Sid : r # s => Asked(r)' = Asked(r)
    BY <2>1, <2>3 DEF Asked, Core, MainTypes
  <2> QED
    BY <1>3, <2>1, <2>2, <2>3, <2>4
<1>5. CASE UserReload(s)
  <2>1. m2h' = ToHost(<<Msg("reload", s)>>) /\ launch[s] = "ok" /\ launch' = launch
        /\ reloads' = [reloads EXCEPT ![s] = @ + 1]
    BY <1>5 DEF UserReload
  <2>2. Msg("reload", s) \in StartMsg /\ Msg("reload", s).sid = s /\ Msg("reload", s).type = "reload"
    BY DEF Msg, StartMsg
  <2>3. m2h' \in {m2h, Append(m2h, Msg("reload", s))}
    BY <1>0, <2>1, <2>2 DEF ToHost
  <2>4. Asked(s)' >= Asked(s) + 1 /\ \A r \in Sid : r # s => Asked(r)' = Asked(r)
    BY <2>1 DEF Asked, Core, MainTypes
  <2> QED
    BY <1>3, <2>1, <2>2, <2>3, <2>4
<1> QED
  BY <1>4, <1>5

LEMMA Posting ==
  ASSUME Core, UNCHANGED hostVars, MainFrame, process' \in {"none", "up", "dead"},
         m2h' = m2h \/ \E x \in Seq(Post) : m2h' = m2h \o x
  PROVE  Core'
PROOF
<1>0. /\ m2h \in Seq(ToHostMsg) /\ MainTypes'
      /\ UNCHANGED <<made, reloading, h2w, w2h, up, exited>> /\ HostTypes'
      /\ h2m' \in Seq(ToMainMsg) /\ \A r \in Sid : launch[r] # "no" => launch'[r] # "no"
  BY DEF Core, WireTypes, hostVars, HostTypes, MainFrame
<1>1. Threads'
  BY <1>0 DEF Core, Threads, hostVars
<1>2. \A x \in Seq(Post) : x \in Seq(ToHostMsg) /\ m2h \o x \in Seq(ToHostMsg)
  <2> TAKE x \in Seq(Post)
  <2>1. x \in Seq(ToHostMsg)
    BY SeqGrows DEF ToHostMsg
  <2> QED
    BY <1>0, <2>1, JoinFacts
<1>3. WireTypes'
  BY <1>0, <1>2 DEF Core, WireTypes
<1>4. Creates'
  <2>1. Creates /\ m2h \in Seq(ToHostMsg) /\ made' = made
        /\ \A r \in Sid : launch[r] # "no" => launch'[r] # "no"
    BY <1>0 DEF Core
  <2>2. CASE m2h' = m2h
    BY <2>1, <2>2, CreatesKept
  <2>3. ASSUME NEW x \in Seq(Post), m2h' = m2h \o x PROVE Creates'
    BY <2>1, <2>3, CreatesBehind
  <2> QED
    BY <2>2, <2>3
<1>5. \A r \in Sid : Starts(m2h', r) = Starts(m2h, r) /\ Cardinality(Starts(m2h, r)) \in Nat
  BY <1>0, StartsFacts
<1>6. \A r \in Sid : Asked(r)' >= Asked(r) /\ Asked(r)' \in Nat /\ Asked(r) \in Nat
  <2>1. \A r \in Sid : reloads'[r] >= reloads[r] /\ reloads'[r] \in Nat /\ reloads[r] \in Nat
    BY <1>0 DEF Core, MainTypes, MainFrame
  <2> QED
    BY <1>0, <2>1 DEF Asked
<1>7. Bounded'
  <2>1. m2h' \in Seq(ToHostMsg)
    BY <1>3 DEF WireTypes
  <2>2. \A r \in Sid : /\ Cardinality(Starts(m2h', r)) \in Nat
                       /\ Cardinality(Starts(m2h', r)) - Cardinality(Starts(m2h, r))
                            <= Asked(r)' - Asked(r)
    <3> TAKE r \in Sid
    <3> DEFINE c == Asked(r)'
               a == Cardinality(Starts(m2h, r))
    <3>1. c \in Nat /\ c >= Asked(r) /\ Asked(r) \in Nat /\ a \in Nat
      BY <1>5, <1>6
    <3> HIDE DEF c, Asked, a
    <3>2. a - a <= c - Asked(r)
      BY <3>1
    <3> QED
      BY <1>5, <3>1, <3>2 DEF c, a
  <2> QED
    BY <1>0, <1>6, <2>1, <2>2, AskedGrows
<1> QED
  BY <1>0, <1>1, <1>3, <1>4, <1>7 DEF Core

LEMMA DaemonSteps ==
  ASSUME Core, UNCHANGED hostVars, MainUser \/ MainStep
  PROVE  Core'
PROOF
<1>0. WireTypes /\ MainTypes /\ m2h \in Seq(ToHostMsg)
  BY DEF Core, WireTypes
<1>1. MainFrame
  BY <1>0, MainSteps
<1>2. CASE PostsPlain
  <2>1. PICK x \in Seq(Plain) : m2h' = ToHost(x)
    BY <1>2 DEF PostsPlain
  <2>2. x \in Seq(Post)
    BY <2>1, SeqGrows DEF Post
  <2>3. m2h' = m2h \/ m2h' = m2h \o x
    BY <2>1 DEF ToHost
  <2>4. process' \in {"none", "up", "dead"}
    BY <1>0, <1>2 DEF PostsPlain, WireTypes
  <2> QED
    BY <1>1, <2>2, <2>3, <2>4, Posting
<1>3. CASE \E s \in Sid : Launch(s) \/ UserReload(s)
  BY <1>3, Ordering
<1>4. ASSUME NEW a \in Worker \X Ask, NEW value \in {"true", "false"}, UserAnswers(a, value)
      PROVE  Core'
  <2>1. AnswerMsg(a, value) \in Post
    BY DEF AnswerMsg, Post, Plain, AnswerMsgs
  <2>2. <<AnswerMsg(a, value)>> \in Seq(Post)
    BY <2>1
  <2>3. m2h' = m2h \/ m2h' = m2h \o <<AnswerMsg(a, value)>>
    BY <1>4 DEF UserAnswers, ToHost
  <2>4. process' \in {"none", "up", "dead"}
    BY <1>0, <1>4 DEF UserAnswers, WireTypes
  <2> QED
    BY <1>1, <2>2, <2>3, <2>4, Posting
<1>5. CASE HearExit
  BY <1>1, <1>5, Posting DEF HearExit
<1> QED
  BY <1>0, <1>2, <1>3, <1>4, <1>5, MainSteps

----------------------------------------------------------------------------
(* The core of the invariant holds in every reachable state.                *)

LEMMA CoreInit == Init => Core /\ WorkerTypes
PROOF
<1> SUFFICES ASSUME Init PROVE Core /\ WorkerTypes
  OBVIOUS
<1> USE DEF Init, WiresInit, MainInit, HostInit, WorkerInit
<1>0. /\ 0 \in 0..MaxInc /\ 0 \in 0..(MaxInc - 1) /\ 0 \in 0..MaxAsks /\ IsFiniteSet({})
      /\ \A S : <<>> \in Seq(S)
  BY WiresAssumption, FS_EmptySet
<1>1. WireTypes
  BY <1>0 DEF WireTypes
<1>2. MainTypes
  BY <1>0 DEF MainTypes, Reasons
<1>3. HostTypes
  BY <1>0 DEF HostTypes
<1>4. Threads
  BY DEF Threads
<1>5. Creates
  BY DEF Creates
<1>6. Bounded
  <2>1. \A s \in Sid : Starts(m2h, s) = {} /\ Coming(s) = 0 /\ Asked(s) = 0 /\ made[s] = 0
    BY DEF Starts, Coming, Asked
  <2> HIDE DEF Starts, Coming, Asked
  <2>2. \A s \in Sid : Cardinality(Starts(m2h, s)) = 0
    BY <2>1, FS_EmptySet
  <2>3. \A s \in Sid : made[s] + Cardinality(Starts(m2h, s)) + Coming(s) <= Asked(s)
    BY <2>1, <2>2
  <2> QED
    BY <2>3 DEF Bounded
<1>7. WorkerTypes
  BY <1>0 DEF WorkerTypes, AskOutcomes
<1> QED
  BY <1>1, <1>2, <1>3, <1>4, <1>5, <1>6, <1>7 DEF Core

LEMMA CoreStep == Core /\ WorkerTypes /\ [Next]_vars => Core' /\ WorkerTypes'
PROOF
<1> SUFFICES ASSUME Core, WorkerTypes, [Next]_vars PROVE Core' /\ WorkerTypes'
  OBVIOUS
<1>1. CASE (MainUser \/ MainStep) /\ UNCHANGED <<hostVars, workerVars>>
  <2>1. WorkerTypes'
    BY <1>1 DEF workerVars, WorkerTypes
  <2> QED
    BY <1>1, <2>1, DaemonSteps
<1>2. CASE (HostFromMain \/ \E w \in Worker : HostFromWorker(w) \/ Deadline(w))
             /\ UNCHANGED <<mainVars, workerVars>>
  <2>1. WorkerTypes'
    BY <1>2 DEF workerVars, WorkerTypes
  <2> QED
    BY <1>2, <2>1, HostSteps
<1>3. CASE \E w \in Worker : (WorkerTurn(w) \/ Extension(w)) /\ UNCHANGED <<mainVars, hostVars>>
  BY <1>3, ThreadSteps
<1>4. CASE \E w \in Worker : Crash(w) /\ UNCHANGED <<mainVars, hostVars>>
  BY <1>4, ThreadSteps
<1>5. CASE "hostCrash" \in Faults /\ HostCrash /\ UNCHANGED <<mainVars, workerVars>>
  <2>1. WorkerTypes'
    BY <1>5 DEF workerVars, WorkerTypes
  <2> QED
    BY <1>5, <2>1, HostSteps
<1>6. CASE UNCHANGED vars
  <2>1. UNCHANGED wires /\ UNCHANGED mainVars /\ UNCHANGED hostVars /\ UNCHANGED workerVars
    BY <1>6 DEF vars
  <2>2. WireTypes' /\ WorkerTypes'
    BY <2>1 DEF wires, workerVars, Core, WireTypes, WorkerTypes
  <2>3. MainTypes' /\ HostTypes'
    BY <2>1 DEF mainVars, hostVars, Core, MainTypes, HostTypes
  <2>4. Threads' /\ Creates' /\ Bounded'
    BY <2>1 DEF wires, mainVars, hostVars, Core, Threads, Creates, Bounded, Starts, Coming, Asked
  <2> QED
    BY <2>2, <2>3, <2>4 DEF Core
<1> QED
  BY <1>1, <1>2, <1>3, <1>4, <1>5, <1>6 DEF Next

LEMMA CoreHolds == Spec => [](Core /\ WorkerTypes)
  BY CoreInit, CoreStep, PTL DEF Spec

(* A thread that runs belongs to a session of the host or is being stopped, *)
(* whatever overlaps with what.                                             *)
THEOREM NoThreadLeaks == Spec => []NoLeakedThread
PROOF
<1>1. Core => NoLeakedThread
  BY DEF Core, Threads, NoLeakedThread, WireTypes
<1> QED
  BY <1>1, CoreHolds, PTL

----------------------------------------------------------------------------
(* An extension is told "yes" only by the user.                             *)

IsCall(m, v) == m.type = "call" /\ m.from = v

InOrder(q, v) ==
  \A i, j \in 1..Len(q) : i < j /\ IsCall(q[i], v) /\ IsCall(q[j], v) => q[i].ask < q[j].ask

(* The calls of a thread arrive in the order of their numbers, and none of  *)
(* them twice: what still travels is later than what was shown or answered. *)
Calls ==
  /\ \A v \in Worker :
       /\ InOrder(h2m, v) /\ InOrder(w2h[v], v)
       /\ \A i \in 1..Len(h2m), j \in 1..Len(w2h[v]) :
            IsCall(h2m[i], v) /\ IsCall(w2h[v][j], v) => h2m[i].ask < w2h[v][j].ask
       /\ \A i \in 1..Len(h2m) : IsCall(h2m[i], v) => h2m[i].ask <= asks[v]
       /\ \A j \in 1..Len(w2h[v]) : IsCall(w2h[v][j], v) => w2h[v][j].ask <= asks[v]
  /\ \A a \in Worker \X Ask : a \in alerts \/ human[a] # "none" =>
       /\ \A i \in 1..Len(h2m) : IsCall(h2m[i], a[1]) => a[2] < h2m[i].ask
       /\ \A j \in 1..Len(w2h[a[1]]) : IsCall(w2h[a[1]][j], a[1]) => a[2] < w2h[a[1]][j].ask
       /\ a[2] <= asks[a[1]]
  /\ \A a \in alerts : human[a] = "none"

(* A yes on its way to the extension is the user's.                         *)
Yes(m) == m.type = "answer" /\ m.value = "true"
Honest ==
  /\ \A i \in 1..Len(m2h) : Yes(m2h[i]) => human[<<m2h[i].to, m2h[i].ask>>] = "true"
  /\ \A w \in Worker : \A i \in 1..Len(h2w[w]) :
       Yes(h2w[w][i]) => human[<<w, h2w[w][i].ask>>] = "true"
  /\ ConfirmedByUser

----------------------------------------------------------------------------
(* A port keeps its calls, or some of them, in their order.                 *)
Sub(p, q) ==
  \E f \in [1..Len(p) -> Int] :
    /\ \A i \in 1..Len(p) : p[i].type = "call" => f[i] \in 1..Len(q) /\ q[f[i]] = p[i]
    /\ \A i, j \in 1..Len(p) : i < j /\ p[i].type = "call" /\ p[j].type = "call" => f[i] < f[j]

LEMMA SubFacts ==
  ASSUME NEW S, NEW q \in Seq(S)
  PROVE  /\ Sub(q, q) /\ Sub(<<>>, q)
         /\ q # <<>> => Sub(Tail(q), q)
         /\ \A p \in Prefixes(q) : Sub(p, q)
         /\ q # <<>> => \A p \in Prefixes(Tail(q)) : Sub(p, q)
         /\ \A x \in Seq(S) : (\A i \in 1..Len(x) : x[i].type # "call") => Sub(q \o x, q)
PROOF
<1>0. Len(q) \in Nat
  OBVIOUS
<1>1. Sub(q, q)
  <2> DEFINE f == [i \in 1..Len(q) |-> i]
  <2>1. f \in [1..Len(q) -> Int] /\ \A i \in 1..Len(q) : f[i] = i
    OBVIOUS
  <2> HIDE DEF f
  <2> QED
    BY <2>1 DEF Sub
<1>2. Sub(<<>>, q)
  <2> DEFINE f == [i \in {} |-> i]
  <2>1. Len(<<>>) = 0 /\ 1..0 = {} /\ f \in [{} -> Int]
    OBVIOUS
  <2> HIDE DEF f
  <2> QED
    BY <2>1 DEF Sub
<1>3. ASSUME NEW p, NEW d \in {0, 1}, Len(p) \in Nat, Len(p) + d <= Len(q),
             \A i \in 1..Len(p) : p[i] = q[i + d]
      PROVE  Sub(p, q)
  <2> DEFINE f == [i \in 1..Len(p) |-> i + d]
  <2>1. f \in [1..Len(p) -> Int]
    BY <1>3
  <2>2. \A i \in 1..Len(p) : f[i] = i + d /\ f[i] \in 1..Len(q)
    BY <1>0, <1>3
  <2>3. \A i, j \in 1..Len(p) : i < j => f[i] < f[j]
    BY <1>3, <2>2
  <2> HIDE DEF f
  <2> QED
    BY <1>3, <2>1, <2>2, <2>3 DEF Sub
<1>4. q # <<>> => Sub(Tail(q), q)
  <2> SUFFICES ASSUME q # <<>> PROVE Sub(Tail(q), q)
    OBVIOUS
  <2> DEFINE p == Tail(q)
  <2>1. Len(p) = Len(q) - 1 /\ Len(q) > 0 /\ \A i \in 1..Len(p) : p[i] = q[i + 1]
    BY PortFacts
  <2> HIDE DEF p
  <2>2. Len(p) \in Nat /\ Len(p) + 1 <= Len(q)
    BY <1>0, <2>1
  <2>3. Sub(p, q)
    BY <1>3, <2>1, <2>2
  <2> QED
    BY <2>3 DEF p
<1>5. \A p \in Prefixes(q) : Sub(p, q)
  <2> TAKE p \in Prefixes(q)
  <2>1. Len(p) \in 0..Len(q) /\ \A i \in 1..Len(p) : p[i] = q[i]
    BY PrefixFacts
  <2>2. Len(p) \in Nat /\ Len(p) + 0 <= Len(q) /\ \A i \in 1..Len(p) : p[i] = q[i + 0]
    BY <1>0, <2>1
  <2> QED
    BY <1>3, <2>2
<1>6. q # <<>> => \A p \in Prefixes(Tail(q)) : Sub(p, q)
  <2> SUFFICES ASSUME q # <<>>, NEW p \in Prefixes(Tail(q)) PROVE Sub(p, q)
    OBVIOUS
  <2>1. /\ Tail(q) \in Seq(S) /\ Len(Tail(q)) \in Nat /\ Len(Tail(q)) + 1 = Len(q)
        /\ \A i \in 1..Len(Tail(q)) : Tail(q)[i] = q[i + 1]
    BY PortFacts
  <2>2. Len(p) \in 0..Len(Tail(q)) /\ \A i \in 1..Len(p) : p[i] = Tail(q)[i]
    BY <2>1, PrefixFacts
  <2>3. \A i \in 1..Len(p) : i \in 1..Len(Tail(q))
    BY <2>1, <2>2
  <2>4. Len(p) \in Nat /\ Len(p) + 1 <= Len(q) /\ \A i \in 1..Len(p) : p[i] = q[i + 1]
    BY <1>0, <2>1, <2>2, <2>3
  <2> QED
    BY <1>3, <2>4
<1>7. ASSUME NEW x \in Seq(S), \A i \in 1..Len(x) : x[i].type # "call"
      PROVE  Sub(q \o x, q)
  <2> DEFINE p == q \o x
             f == [i \in 1..Len(p) |-> i]
  <2>1. /\ Len(p) = Len(q) + Len(x) /\ Len(x) \in Nat
        /\ \A i \in 1..Len(q) : p[i] = q[i]
        /\ \A i \in 1..Len(x) : p[Len(q) + i] = x[i]
    BY JoinFacts
  <2> HIDE DEF p
  <2>2. \A i \in 1..Len(p) : p[i].type = "call" => i \in 1..Len(q)
    <3> SUFFICES ASSUME NEW i \in 1..Len(p), i > Len(q) PROVE p[i].type # "call"
      BY <1>0, <2>1
    <3>1. i - Len(q) \in 1..Len(x) /\ Len(q) + (i - Len(q)) = i
      BY <1>0, <2>1
    <3>2. p[i] = x[i - Len(q)]
      BY <2>1, <3>1
    <3> QED
      BY <1>7, <3>1, <3>2
  <2>3. f \in [1..Len(p) -> Int] /\ \A i \in 1..Len(p) : f[i] = i
    OBVIOUS
  <2> HIDE DEF f
  <2>4. Sub(p, q)
    BY <2>1, <2>2, <2>3 DEF Sub
  <2> QED
    BY <2>4 DEF p
<1> QED
  BY <1>1, <1>2, <1>4, <1>5, <1>6, <1>7

(* A step that adds no call, no alert and no answer of the user's.          *)
LEMMA Calmer ==
  ASSUME Calls, Sub(h2m', h2m), \A v \in Worker : Sub(w2h'[v], w2h[v]),
         alerts' \subseteq alerts, human' = human, asks' = asks
  PROVE  Calls'
PROOF
<1>1. PICK f \in [1..Len(h2m') -> Int] :
        /\ \A i \in 1..Len(h2m') : h2m'[i].type = "call" => f[i] \in 1..Len(h2m) /\ h2m[f[i]] = h2m'[i]
        /\ \A i, j \in 1..Len(h2m') :
             i < j /\ h2m'[i].type = "call" /\ h2m'[j].type = "call" => f[i] < f[j]
  BY DEF Sub
<1>2. ASSUME NEW v \in Worker
      PROVE  /\ InOrder(h2m', v) /\ InOrder(w2h'[v], v)
             /\ \A i \in 1..Len(h2m'), j \in 1..Len(w2h'[v]) :
                  IsCall(h2m'[i], v) /\ IsCall(w2h'[v][j], v) => h2m'[i].ask < w2h'[v][j].ask
             /\ \A i \in 1..Len(h2m') : IsCall(h2m'[i], v) => h2m'[i].ask <= asks[v]
             /\ \A j \in 1..Len(w2h'[v]) : IsCall(w2h'[v][j], v) => w2h'[v][j].ask <= asks[v]
  <2>1. PICK g \in [1..Len(w2h'[v]) -> Int] :
          /\ \A i \in 1..Len(w2h'[v]) : w2h'[v][i].type = "call" =>
               g[i] \in 1..Len(w2h[v]) /\ w2h[v][g[i]] = w2h'[v][i]
          /\ \A i, j \in 1..Len(w2h'[v]) :
               i < j /\ w2h'[v][i].type = "call" /\ w2h'[v][j].type = "call" => g[i] < g[j]
    BY DEF Sub
  <2>2. InOrder(h2m', v)
    <3> SUFFICES ASSUME NEW i \in 1..Len(h2m'), NEW j \in 1..Len(h2m'), i < j,
                        IsCall(h2m'[i], v), IsCall(h2m'[j], v)
                 PROVE  h2m'[i].ask < h2m'[j].ask
      BY DEF InOrder
    <3>1. /\ f[i] \in 1..Len(h2m) /\ h2m[f[i]] = h2m'[i]
          /\ f[j] \in 1..Len(h2m) /\ h2m[f[j]] = h2m'[j] /\ f[i] < f[j]
      BY <1>1 DEF IsCall
    <3>2. InOrder(h2m, v)
      BY DEF Calls
    <3> QED
      BY <3>1, <3>2 DEF InOrder
  <2>3. InOrder(w2h'[v], v)
    <3> SUFFICES ASSUME NEW i \in 1..Len(w2h'[v]), NEW j \in 1..Len(w2h'[v]), i < j,
                        IsCall(w2h'[v][i], v), IsCall(w2h'[v][j], v)
                 PROVE  w2h'[v][i].ask < w2h'[v][j].ask
      BY DEF InOrder
    <3>1. /\ g[i] \in 1..Len(w2h[v]) /\ w2h[v][g[i]] = w2h'[v][i]
          /\ g[j] \in 1..Len(w2h[v]) /\ w2h[v][g[j]] = w2h'[v][j] /\ g[i] < g[j]
      BY <2>1 DEF IsCall
    <3>2. InOrder(w2h[v], v)
      BY DEF Calls
    <3> QED
      BY <3>1, <3>2 DEF InOrder
  <2>4. \A i \in 1..Len(h2m'), j \in 1..Len(w2h'[v]) :
          IsCall(h2m'[i], v) /\ IsCall(w2h'[v][j], v) => h2m'[i].ask < w2h'[v][j].ask
    <3> SUFFICES ASSUME NEW i \in 1..Len(h2m'), NEW j \in 1..Len(w2h'[v]),
                        IsCall(h2m'[i], v), IsCall(w2h'[v][j], v)
                 PROVE  h2m'[i].ask < w2h'[v][j].ask
      OBVIOUS
    <3>1. f[i] \in 1..Len(h2m) /\ h2m[f[i]] = h2m'[i]
      BY <1>1 DEF IsCall
    <3>2. g[j] \in 1..Len(w2h[v]) /\ w2h[v][g[j]] = w2h'[v][j]
      BY <2>1 DEF IsCall
    <3>3. h2m[f[i]].ask < w2h[v][g[j]].ask
      BY <3>1, <3>2 DEF Calls
    <3> QED
      BY <3>1, <3>2, <3>3
  <2>5. \A i \in 1..Len(h2m') : IsCall(h2m'[i], v) => h2m'[i].ask <= asks[v]
    BY <1>1 DEF Calls, IsCall
  <2>6. \A j \in 1..Len(w2h'[v]) : IsCall(w2h'[v][j], v) => w2h'[v][j].ask <= asks[v]
    BY <2>1 DEF Calls, IsCall
  <2> QED
    BY <2>2, <2>3, <2>4, <2>5, <2>6
<1>3. ASSUME NEW a \in Worker \X Ask, a \in alerts' \/ human[a] # "none"
      PROVE  /\ \A i \in 1..Len(h2m') : IsCall(h2m'[i], a[1]) => a[2] < h2m'[i].ask
             /\ \A j \in 1..Len(w2h'[a[1]]) : IsCall(w2h'[a[1]][j], a[1]) => a[2] < w2h'[a[1]][j].ask
             /\ a[2] <= asks[a[1]]
  <2> DEFINE v == a[1]
  <2>0. v \in Worker
    OBVIOUS
  <2>1. PICK g \in [1..Len(w2h'[v]) -> Int] :
          \A i \in 1..Len(w2h'[v]) : w2h'[v][i].type = "call" =>
               g[i] \in 1..Len(w2h[v]) /\ w2h[v][g[i]] = w2h'[v][i]
    BY <2>0 DEF Sub
  <2>2. /\ \A i \in 1..Len(h2m) : IsCall(h2m[i], v) => a[2] < h2m[i].ask
        /\ \A j \in 1..Len(w2h[v]) : IsCall(w2h[v][j], v) => a[2] < w2h[v][j].ask
        /\ a[2] <= asks[v]
    BY <1>3 DEF Calls
  <2>3. \A i \in 1..Len(h2m') : IsCall(h2m'[i], v) => a[2] < h2m'[i].ask
    BY <1>1, <2>2 DEF IsCall
  <2>4. \A j \in 1..Len(w2h'[v]) : IsCall(w2h'[v][j], v) => a[2] < w2h'[v][j].ask
    BY <2>1, <2>2 DEF IsCall
  <2> QED
    BY <2>2, <2>3, <2>4
<1>4. \A a \in alerts' : human[a] = "none"
  BY DEF Calls
<1> QED
  BY <1>2, <1>3, <1>4 DEF Calls

(* The host takes a call, or whatever else it passes on, from a thread's    *)
(* port and puts it behind the others.                                      *)
LEMMA Relayed ==
  ASSUME Core, Calls, WorkerTypes, NEW w \in Worker, w2h[w] # <<>>,
         Head(w2h[w]) \in News(w), w2h' = [w2h EXCEPT ![w] = Tail(@)],
         h2m' = h2m \o <<Head(w2h[w])>>, UNCHANGED <<alerts, human, asks>>
  PROVE  Calls'
PROOF
<1> DEFINE m == Head(w2h[w])
           q == h2m \o <<m>>
           t == Tail(w2h[w])
<1>1. m \in ToMainMsg /\ h2m \in Seq(ToMainMsg) /\ w2h[w] \in Seq(FromWorkerMsg(w))
  BY DEF ToMainMsg, Core, WireTypes
<1>2. /\ Len(q) = Len(h2m) + 1 /\ q[Len(h2m) + 1] = m /\ Len(h2m) \in Nat
      /\ \A i \in 1..Len(h2m) : q[i] = h2m[i]
  <2>1. q = Append(h2m, m)
    BY <1>1
  <2> QED
    BY <1>1, <2>1, PortFacts
<1>3. /\ Len(w2h[w]) \in Nat /\ Len(w2h[w]) > 0 /\ Len(t) = Len(w2h[w]) - 1
      /\ m = w2h[w][1] /\ \A i \in 1..Len(t) : t[i] = w2h[w][i + 1]
  BY <1>1, PortFacts
<1>4. m.type = "call" => m.from = w
  BY DEF News
<1>5. \A v \in Worker : w2h'[v] = IF v = w THEN t ELSE w2h[v]
  BY DEF Core, WireTypes
<1> HIDE DEF m, q, t
<1>6. h2m' = q
  BY DEF q, m
<1>7. \A i : i \in 1..Len(q) <=> i \in 1..Len(h2m) \/ i = Len(h2m) + 1
  BY <1>2
<1>8. \A i \in 1..Len(t) : i + 1 \in 1..Len(w2h[w]) /\ i + 1 > 1 /\ 1 \in 1..Len(w2h[w])
  BY <1>3
<1>9. 1 \in 1..Len(w2h[w]) /\ \A i \in 1..Len(h2m) : i < Len(h2m) + 1 /\ ~(Len(h2m) + 1 < i)
  BY <1>2, <1>3
<1>10. ASSUME NEW v \in Worker
      PROVE  /\ InOrder(q, v) /\ InOrder(w2h'[v], v)
             /\ \A i \in 1..Len(q), j \in 1..Len(w2h'[v]) :
                  IsCall(q[i], v) /\ IsCall(w2h'[v][j], v) => q[i].ask < w2h'[v][j].ask
             /\ \A i \in 1..Len(q) : IsCall(q[i], v) => q[i].ask <= asks[v]
             /\ \A j \in 1..Len(w2h'[v]) : IsCall(w2h'[v][j], v) => w2h'[v][j].ask <= asks[v]
  <2>1. /\ InOrder(h2m, v) /\ InOrder(w2h[v], v)
        /\ \A i \in 1..Len(h2m), j \in 1..Len(w2h[v]) :
             IsCall(h2m[i], v) /\ IsCall(w2h[v][j], v) => h2m[i].ask < w2h[v][j].ask
        /\ \A i \in 1..Len(h2m) : IsCall(h2m[i], v) => h2m[i].ask <= asks[v]
        /\ \A j \in 1..Len(w2h[v]) : IsCall(w2h[v][j], v) => w2h[v][j].ask <= asks[v]
    BY DEF Calls
  <2>2. InOrder(q, v)
    <3> SUFFICES ASSUME NEW i \in 1..Len(q), NEW j \in 1..Len(q), i < j, IsCall(q[i], v), IsCall(q[j], v)
                 PROVE  q[i].ask < q[j].ask
      BY DEF InOrder
    <3>1. i \in 1..Len(h2m) /\ q[i] = h2m[i]
      BY <1>2, <1>7, <1>9
    <3>2. CASE j \in 1..Len(h2m)
      BY <1>2, <2>1, <3>1, <3>2 DEF InOrder
    <3>3. CASE j = Len(h2m) + 1
      <4>1. q[j] = w2h[w][1] /\ v = w
        BY <1>2, <1>3, <1>4, <3>3 DEF IsCall
      <4> QED
        BY <1>9, <2>1, <3>1, <4>1
    <3> QED
      BY <1>7, <3>2, <3>3
  <2>3. InOrder(w2h'[v], v)
    <3>1. CASE v # w
      BY <1>5, <2>1, <3>1
    <3>2. CASE v = w
      <4>1. \A i, j \in 1..Len(t) : i < j => i + 1 < j + 1
        BY <1>3
      <4>2. InOrder(t, v)
        BY <1>3, <1>8, <2>1, <3>2, <4>1 DEF InOrder
      <4> QED
        BY <1>5, <3>2, <4>2
    <3> QED
      BY <3>1, <3>2
  <2>4. \A i \in 1..Len(q), j \in 1..Len(w2h'[v]) :
                  IsCall(q[i], v) /\ IsCall(w2h'[v][j], v) => q[i].ask < w2h'[v][j].ask
    <3>1. CASE v # w
      <4>1. \A i \in 1..Len(q) : IsCall(q[i], v) => i \in 1..Len(h2m) /\ q[i] = h2m[i]
        BY <1>2, <1>4, <1>7, <3>1 DEF IsCall
      <4> QED
        BY <1>5, <2>1, <3>1, <4>1
    <3>2. CASE v = w
      <4> SUFFICES ASSUME NEW i \in 1..Len(q), NEW j \in 1..Len(t), IsCall(q[i], v), IsCall(t[j], v)
                   PROVE  q[i].ask < t[j].ask
        BY <1>5, <3>2
      <4>1. j + 1 \in 1..Len(w2h[w]) /\ t[j] = w2h[w][j + 1] /\ 1 < j + 1
        BY <1>3, <1>8
      <4>2. CASE i \in 1..Len(h2m)
        BY <1>2, <2>1, <3>2, <4>1, <4>2
      <4>3. CASE i = Len(h2m) + 1
        <5>1. q[i] = w2h[w][1]
          BY <1>2, <1>3, <4>3
        <5> QED
          BY <1>9, <2>1, <3>2, <4>1, <5>1 DEF InOrder
      <4> QED
        BY <1>7, <4>2, <4>3
    <3> QED
      BY <3>1, <3>2
  <2>5. \A i \in 1..Len(q) : IsCall(q[i], v) => q[i].ask <= asks[v]
    <3> SUFFICES ASSUME NEW i \in 1..Len(q), IsCall(q[i], v) PROVE q[i].ask <= asks[v]
      OBVIOUS
    <3>1. CASE i \in 1..Len(h2m)
      BY <1>2, <2>1, <3>1
    <3>2. CASE i = Len(h2m) + 1
      <4>1. q[i] = w2h[w][1] /\ v = w
        BY <1>2, <1>3, <1>4, <3>2 DEF IsCall
      <4> QED
        BY <1>9, <2>1, <4>1
    <3> QED
      BY <1>7, <3>1, <3>2
  <2>6. \A j \in 1..Len(w2h'[v]) : IsCall(w2h'[v][j], v) => w2h'[v][j].ask <= asks[v]
    <3>1. CASE v = w
      <4>1. w2h'[v] = t
        BY <1>5, <3>1
      <4>2. \A j \in 1..Len(t) : t[j] = w2h[v][j + 1] /\ j + 1 \in 1..Len(w2h[v])
        BY <1>3, <1>8, <3>1
      <4>3. \A j \in 1..Len(t) : IsCall(t[j], v) => t[j].ask <= asks[v]
        BY <2>1, <4>2
      <4> QED
        BY <4>1, <4>3
    <3>2. CASE v # w
      BY <1>5, <2>1, <3>2
    <3> QED
      BY <3>1, <3>2
  <2> QED
    BY <2>2, <2>3, <2>4, <2>5, <2>6
<1>11. ASSUME NEW a \in Worker \X Ask, a \in alerts \/ human[a] # "none"
      PROVE  /\ \A i \in 1..Len(q) : IsCall(q[i], a[1]) => a[2] < q[i].ask
             /\ \A j \in 1..Len(w2h'[a[1]]) : IsCall(w2h'[a[1]][j], a[1]) => a[2] < w2h'[a[1]][j].ask
             /\ a[2] <= asks[a[1]]
  <2> DEFINE v == a[1]
  <2>0. v \in Worker
    OBVIOUS
  <2>1. /\ \A i \in 1..Len(h2m) : IsCall(h2m[i], v) => a[2] < h2m[i].ask
        /\ \A j \in 1..Len(w2h[v]) : IsCall(w2h[v][j], v) => a[2] < w2h[v][j].ask
        /\ a[2] <= asks[v]
    BY <1>11 DEF Calls
  <2> HIDE DEF v
  <2>2. \A i \in 1..Len(q) : IsCall(q[i], v) => a[2] < q[i].ask
    <3> SUFFICES ASSUME NEW i \in 1..Len(q), IsCall(q[i], v) PROVE a[2] < q[i].ask
      OBVIOUS
    <3>1. CASE i \in 1..Len(h2m)
      BY <1>2, <2>1, <3>1
    <3>2. CASE i = Len(h2m) + 1
      <4>1. q[i] = w2h[w][1] /\ v = w
        BY <1>2, <1>3, <1>4, <3>2 DEF IsCall
      <4> QED
        BY <1>9, <2>1, <4>1
    <3> QED
      BY <1>7, <3>1, <3>2
  <2>3. \A j \in 1..Len(w2h'[v]) : IsCall(w2h'[v][j], v) => a[2] < w2h'[v][j].ask
    <3>1. CASE v = w
      <4>1. w2h'[v] = t
        BY <1>5, <2>0, <3>1
      <4>2. \A j \in 1..Len(t) : t[j] = w2h[v][j + 1] /\ j + 1 \in 1..Len(w2h[v])
        BY <1>3, <1>8, <3>1
      <4>3. \A j \in 1..Len(t) : IsCall(t[j], v) => a[2] < t[j].ask
        BY <2>1, <4>2
      <4> QED
        BY <4>1, <4>3
    <3>2. CASE v # w
      BY <1>5, <2>0, <2>1, <3>2
    <3> QED
      BY <3>1, <3>2
  <2> QED
    BY <2>1, <2>2, <2>3 DEF v
<1>12. \A a \in alerts : human[a] = "none"
  BY DEF Calls
<1> QED
  BY <1>6, <1>10, <1>11, <1>12 DEF Calls

(* An alert is shown, the head of the port being the call that asks for it. *)
LEMMA Shown ==
  ASSUME Core, Calls, WorkerTypes, h2m # <<>>, Head(h2m).type = "call", h2m' = Tail(h2m),
         alerts' = alerts \cup {<<Head(h2m).from, Head(h2m).ask>>},
         UNCHANGED <<w2h, human, asks>>
  PROVE  Calls'
PROOF
<1> DEFINE m == Head(h2m)
           b == <<m.from, m.ask>>
           t == Tail(h2m)
<1>1. /\ h2m \in Seq(ToMainMsg) /\ Len(h2m) \in Nat /\ Len(h2m) > 0 /\ Len(t) = Len(h2m) - 1
      /\ m = h2m[1] /\ \A i \in 1..Len(t) : t[i] = h2m[i + 1]
  BY PortFacts DEF Core, WireTypes
<1>2. /\ m.from \in Worker /\ m.ask \in Ask /\ IsCall(m, m.from) /\ b \in Worker \X Ask
      /\ b[1] = m.from /\ b[2] = m.ask
  BY <1>1, HeadTypes DEF IsCall
<1> HIDE DEF m, t, b
<1>3. /\ 1 \in 1..Len(h2m) /\ \A i \in 1..Len(t) : i + 1 \in 1..Len(h2m) /\ 1 < i + 1
      /\ \A i, j \in 1..Len(t) : i < j => i + 1 < j + 1
  BY <1>1
<1>4. h2m' = t /\ alerts' = alerts \cup {b} /\ w2h' = w2h /\ human' = human /\ asks' = asks
  BY DEF t, b, m
<1>5. ASSUME NEW v \in Worker
      PROVE  /\ InOrder(t, v) /\ InOrder(w2h[v], v)
             /\ \A i \in 1..Len(t), j \in 1..Len(w2h[v]) :
                  IsCall(t[i], v) /\ IsCall(w2h[v][j], v) => t[i].ask < w2h[v][j].ask
             /\ \A i \in 1..Len(t) : IsCall(t[i], v) => t[i].ask <= asks[v]
             /\ \A j \in 1..Len(w2h[v]) : IsCall(w2h[v][j], v) => w2h[v][j].ask <= asks[v]
  <2>1. InOrder(t, v)
    BY <1>1, <1>3 DEF Calls, InOrder
  <2> QED
    BY <1>1, <1>3, <2>1 DEF Calls
<1>6. ASSUME NEW a \in Worker \X Ask, a \in alerts \/ human[a] # "none"
      PROVE  /\ \A i \in 1..Len(t) : IsCall(t[i], a[1]) => a[2] < t[i].ask
             /\ \A j \in 1..Len(w2h[a[1]]) : IsCall(w2h[a[1]][j], a[1]) => a[2] < w2h[a[1]][j].ask
             /\ a[2] <= asks[a[1]]
  BY <1>1, <1>3, <1>6 DEF Calls
<1>7. /\ \A i \in 1..Len(t) : IsCall(t[i], b[1]) => b[2] < t[i].ask
      /\ \A j \in 1..Len(w2h[b[1]]) : IsCall(w2h[b[1]][j], b[1]) => b[2] < w2h[b[1]][j].ask
      /\ b[2] <= asks[b[1]]
  BY <1>1, <1>2, <1>3 DEF Calls, InOrder
<1>8. human[b] = "none"
  <2>1. ~(m.ask < m.ask)
    BY <1>2 DEF Ask
  <2> QED
    BY <1>1, <1>2, <1>3, <2>1 DEF Calls
<1> QED
  BY <1>4, <1>5, <1>6, <1>7, <1>8 DEF Calls

(* A new call is later than every other of its thread.                      *)
LEMMA Asking ==
  ASSUME Core, Calls, WorkerTypes, NEW w \in Worker, NEW kind \in Kinds, CallDesktop(w, kind),
         UNCHANGED <<alerts, human>>
  PROVE  Calls'
PROOF
<1> DEFINE m == [type |-> "call", from |-> w, ask |-> asks[w] + 1, kind |-> kind]
           o == w2h[w]
           q == o \o <<m>>
<1>0. /\ w2h' = [w2h EXCEPT ![w] = q] /\ asks' = [asks EXCEPT ![w] = @ + 1] /\ h2m' = h2m
      /\ asks[w] \in Nat /\ asks[w] + 1 \in Ask
  BY WiresAssumption DEF CallDesktop, Send, OtherWires, WorkerTypes, Ask
<1>1. m \in FromWorkerMsg(w) /\ o \in Seq(FromWorkerMsg(w))
  BY <1>0 DEF FromWorkerMsg, News, Core, WireTypes
<1>2. /\ Len(q) = Len(o) + 1 /\ q[Len(o) + 1] = m /\ Len(o) \in Nat
      /\ \A i \in 1..Len(o) : q[i] = o[i]
  <2>1. q = Append(o, m)
    BY <1>1
  <2> QED
    BY <1>1, <2>1, PortFacts
<1>3. m.from = w /\ m.ask = asks[w] + 1 /\ m.type = "call"
  OBVIOUS
<1>4. \A v \in Worker : /\ w2h'[v] = IF v = w THEN q ELSE w2h[v]
                        /\ asks'[v] = IF v = w THEN asks[w] + 1 ELSE asks[v]
                        /\ asks[v] \in Nat
  BY <1>0 DEF Core, WireTypes, WorkerTypes
<1>5. /\ \A v \in Worker : \A i \in 1..Len(h2m) : IsCall(h2m[i], v) => h2m[i].ask \in Ask
      /\ \A i \in 1..Len(o) : IsCall(o[i], w) => o[i].ask \in Ask
  <2>1. \A i \in 1..Len(h2m) : h2m[i] \in ToMainMsg
    BY PortFacts DEF Core, WireTypes
  <2>2. \A n \in ToMainMsg : n.type = "call" => n.ask \in Ask
    BY DEF ToMainMsg, News
  <2>3. \A n \in FromWorkerMsg(w) : n.type = "call" => n.ask \in Ask
    BY DEF FromWorkerMsg, News
  <2>4. \A i \in 1..Len(o) : o[i] \in FromWorkerMsg(w)
    BY <1>1, PortFacts
  <2> QED
    BY <2>1, <2>2, <2>3, <2>4 DEF IsCall
<1> HIDE DEF m, o, q
<1>6. /\ \A i : i \in 1..Len(q) <=> i \in 1..Len(o) \/ i = Len(o) + 1
      /\ \A i \in 1..Len(o) : i < Len(o) + 1 /\ ~(Len(o) + 1 < i)
      /\ ~(Len(o) + 1 < Len(o) + 1)
  BY <1>2
<1>7. \A n \in Ask : n <= asks[w] => n < asks[w] + 1 /\ n <= asks[w] + 1
  BY <1>0 DEF Ask
<1>8. ASSUME NEW v \in Worker
      PROVE  /\ InOrder(h2m, v) /\ InOrder(w2h'[v], v)
             /\ \A i \in 1..Len(h2m), j \in 1..Len(w2h'[v]) :
                  IsCall(h2m[i], v) /\ IsCall(w2h'[v][j], v) => h2m[i].ask < w2h'[v][j].ask
             /\ \A i \in 1..Len(h2m) : IsCall(h2m[i], v) => h2m[i].ask <= asks'[v]
             /\ \A j \in 1..Len(w2h'[v]) : IsCall(w2h'[v][j], v) => w2h'[v][j].ask <= asks'[v]
  <2>1. /\ InOrder(h2m, v) /\ InOrder(w2h[v], v)
        /\ \A i \in 1..Len(h2m), j \in 1..Len(w2h[v]) :
             IsCall(h2m[i], v) /\ IsCall(w2h[v][j], v) => h2m[i].ask < w2h[v][j].ask
        /\ \A i \in 1..Len(h2m) : IsCall(h2m[i], v) => h2m[i].ask <= asks[v]
        /\ \A j \in 1..Len(w2h[v]) : IsCall(w2h[v][j], v) => w2h[v][j].ask <= asks[v]
    BY DEF Calls
  <2>2. CASE v # w
    BY <1>4, <2>1, <2>2
  <2>3. CASE v = w
    <3>1. /\ InOrder(o, w)
          /\ \A i \in 1..Len(h2m), j \in 1..Len(o) :
               IsCall(h2m[i], w) /\ IsCall(o[j], w) => h2m[i].ask < o[j].ask
          /\ \A i \in 1..Len(h2m) : IsCall(h2m[i], w) =>
               h2m[i].ask < asks[w] + 1 /\ h2m[i].ask <= asks[w] + 1
          /\ \A j \in 1..Len(o) : IsCall(o[j], w) => o[j].ask < asks[w] + 1 /\ o[j].ask <= asks[w] + 1
      BY <1>5, <1>7, <2>1, <2>3 DEF o
    <3>2. InOrder(q, w)
      BY <1>2, <1>3, <1>6, <3>1 DEF InOrder
    <3>3. \A i \in 1..Len(h2m), j \in 1..Len(q) :
            IsCall(h2m[i], w) /\ IsCall(q[j], w) => h2m[i].ask < q[j].ask
      BY <1>2, <1>3, <1>6, <3>1
    <3>4. \A j \in 1..Len(q) : IsCall(q[j], w) => q[j].ask <= asks[w] + 1
      <4>1. asks[w] + 1 <= asks[w] + 1
        BY <1>0
      <4> QED
        BY <1>2, <1>3, <1>6, <3>1, <4>1
    <3> QED
      BY <1>4, <2>1, <2>3, <3>1, <3>2, <3>3, <3>4
  <2> QED
    BY <2>2, <2>3
<1>9. ASSUME NEW a \in Worker \X Ask, a \in alerts \/ human[a] # "none"
      PROVE  /\ \A i \in 1..Len(h2m) : IsCall(h2m[i], a[1]) => a[2] < h2m[i].ask
             /\ \A j \in 1..Len(w2h'[a[1]]) : IsCall(w2h'[a[1]][j], a[1]) => a[2] < w2h'[a[1]][j].ask
             /\ a[2] <= asks'[a[1]]
  <2> DEFINE v == a[1]
  <2>0. v \in Worker /\ a[2] \in Ask
    OBVIOUS
  <2>1. /\ \A i \in 1..Len(h2m) : IsCall(h2m[i], v) => a[2] < h2m[i].ask
        /\ \A j \in 1..Len(w2h[v]) : IsCall(w2h[v][j], v) => a[2] < w2h[v][j].ask
        /\ a[2] <= asks[v]
    BY <1>9 DEF Calls
  <2> HIDE DEF v
  <2>2. CASE v # w
    BY <1>4, <2>0, <2>1, <2>2 DEF v
  <2>3. CASE v = w
    <3>1. a[2] < asks[w] + 1 /\ a[2] <= asks[w] + 1
      BY <1>7, <2>0, <2>1, <2>3
    <3>2. \A j \in 1..Len(q) : IsCall(q[j], w) => a[2] < q[j].ask
      BY <1>2, <1>3, <1>6, <2>1, <2>3, <3>1 DEF o
    <3> QED
      BY <1>4, <2>0, <2>1, <2>3, <3>1, <3>2 DEF v
  <2> QED
    BY <2>2, <2>3
<1>10. \A a \in alerts : human[a] = "none"
  BY DEF Calls
<1> QED
  BY <1>0, <1>8, <1>9, <1>10 DEF Calls

LEMMA Answer ==
  ASSUME Core, Calls, NEW a \in Worker \X Ask, NEW value \in {"true", "false"},
         UserAnswers(a, value), UNCHANGED asks
  PROVE  Calls'
PROOF
<1>1. /\ a \in alerts /\ alerts' = alerts \ {a} /\ human' = [human EXCEPT ![a] = value]
      /\ UNCHANGED <<h2m, w2h>>
  BY DEF UserAnswers
<1>2. \A b \in Worker \X Ask : human'[b] = IF b = a THEN value ELSE human[b]
  BY <1>1 DEF Core, MainTypes
<1>3. \A b \in Worker \X Ask : b \in alerts' \/ human'[b] # "none" => b \in alerts \/ human[b] # "none"
  BY <1>1, <1>2
<1>4. \A b \in alerts' : human'[b] = "none"
  BY <1>1, <1>2 DEF Calls, Core, MainTypes
<1>5. \A b \in Worker \X Ask : b \in alerts' \/ human'[b] # "none" =>
       /\ \A i \in 1..Len(h2m) : IsCall(h2m[i], b[1]) => b[2] < h2m[i].ask
       /\ \A j \in 1..Len(w2h[b[1]]) : IsCall(w2h[b[1]][j], b[1]) => b[2] < w2h[b[1]][j].ask
       /\ b[2] <= asks[b[1]]
  BY <1>3 DEF Calls
<1> QED
  BY <1>1, <1>4, <1>5 DEF Calls

----------------------------------------------------------------------------
(* Every step keeps the calls of a thread in order.                         *)

LEMMA SameFor ==
  ASSUME WireTypes, UNCHANGED w2h
  PROVE  \A v \in Worker : Sub(w2h'[v], w2h[v])
PROOF
<1> SUFFICES ASSUME NEW v \in Worker PROVE Sub(w2h[v], w2h[v])
  OBVIOUS
<1>1. w2h[v] \in Seq(FromWorkerMsg(v))
  BY DEF WireTypes
<1> QED
  BY <1>1, SubFacts

LEMMA CallsOfMain ==
  ASSUME Core, Calls, WorkerTypes, MainUser \/ MainStep, UNCHANGED <<hostVars, workerVars>>
  PROVE  Calls'
PROOF
<1>0. WireTypes /\ MainTypes /\ h2m \in Seq(ToMainMsg) /\ UNCHANGED asks
  BY DEF Core, WireTypes, workerVars
<1>1. MainFrame
  BY <1>0, MainSteps
<1>2. \A v \in Worker : Sub(w2h'[v], w2h[v])
  BY <1>0, <1>1, SameFor DEF MainFrame
<1>3. Sub(h2m, h2m) /\ (h2m # <<>> => Sub(Tail(h2m), h2m))
  BY <1>0, SubFacts
<1>4. CASE PostsPlain
  <2>1. CASE alerts' \subseteq alerts
    <3>1. Sub(h2m', h2m)
      <4>1. CASE h2m' = h2m
        BY <1>3, <4>1
      <4>2. CASE h2m' = Tail(h2m) /\ h2m # <<>>
        BY <1>3, <4>2
      <4>3. CASE h2m' = Tail(h2m) /\ h2m = <<>>
        <5>1. h2m' \in Seq(ToMainMsg) /\ Len(h2m') = 0
          BY <1>1, <4>3 DEF MainFrame
        <5>2. h2m' = <<>>
          BY <5>1, PortFacts
        <5> QED
          BY <1>3, <4>3, <5>2
      <4> QED
        BY <1>1, <4>1, <4>2, <4>3 DEF MainFrame
    <3> QED
      BY <1>0, <1>2, <1>4, <2>1, <3>1, Calmer DEF PostsPlain
  <2>2. CASE /\ h2m # <<>> /\ Head(h2m).type = "call" /\ h2m' = Tail(h2m)
             /\ alerts' = alerts \cup {<<Head(h2m).from, Head(h2m).ask>>}
    BY <1>0, <1>1, <1>4, <2>2, Shown DEF PostsPlain, MainFrame
  <2> QED
    BY <1>4, <2>1, <2>2 DEF PostsPlain
<1>5. CASE \E s \in Sid : Launch(s) \/ UserReload(s)
  <2>1. UNCHANGED <<h2m, alerts, human>>
    BY <1>5 DEF Launch, UserReload
  <2> QED
    BY <1>0, <1>2, <1>3, <2>1, Calmer
<1>6. CASE \E a \in Worker \X Ask, value \in {"true", "false"} : UserAnswers(a, value)
  BY <1>0, <1>6, Answer
<1>7. CASE HearExit
  <2>1. UNCHANGED <<h2m, human>> /\ alerts' = {}
    BY <1>7 DEF HearExit
  <2> QED
    BY <1>0, <1>2, <1>3, <2>1, Calmer
<1> QED
  BY <1>0, <1>4, <1>5, <1>6, <1>7, MainSteps

(* What the host adds to main's port of its own accord is no call.          *)
LEMMA Added ==
  ASSUME h2m \in Seq(ToMainMsg), NEW s \in Sid, NEW w \in Worker, w[1] = s
  PROVE  /\ Sub(ToMain(<<Refused(s)>>), h2m) /\ Sub(ToMain(<<Created(s)>>), h2m)
         /\ Sub(ToMain(<<[type |-> "failed", sid |-> s, fatal |-> TRUE]>>), h2m)
         /\ Sub(ToMain(<<[type |-> "failed", sid |-> s, fatal |-> TRUE]>> \o <<Refused(s)>>), h2m)
         /\ Sub(ToMain(<<[type |-> "failed", sid |-> s, fatal |-> TRUE]>> \o <<>>), h2m)
PROOF
<1> DEFINE f == [type |-> "failed", sid |-> s, fatal |-> TRUE]
           N == {m \in ToMainMsg : m.type # "call"}
<1>1. Refused(s) \in N /\ Created(s) \in N /\ f \in N
  BY DEF Refused, Created, ToMainMsg, News
<1> HIDE DEF f
<1>2. <<Refused(s)>> \in Seq(N) /\ <<Created(s)>> \in Seq(N) /\ <<f>> \in Seq(N) /\ <<>> \in Seq(N)
  BY <1>1
<1>3. <<f>> \o <<Refused(s)>> \in Seq(N) /\ <<f>> \o <<>> \in Seq(N)
  BY <1>2, JoinFacts
<1>4. \A x \in Seq(N) : x \in Seq(ToMainMsg) /\ \A i \in 1..Len(x) : x[i].type # "call"
  <2> TAKE x \in Seq(N)
  <2>1. \A i \in 1..Len(x) : x[i] \in N
    BY PortFacts
  <2>2. x \in Seq(ToMainMsg)
    BY SeqGrows
  <2> QED
    BY <2>1, <2>2
<1>5. \A x \in Seq(N) : Sub(h2m \o x, h2m)
  BY <1>4, SubFacts
<1> QED
  BY <1>2, <1>3, <1>5 DEF ToMain, f

LEMMA CallsOfHost ==
  ASSUME Core, Calls, WorkerTypes, UNCHANGED <<mainVars, workerVars>>,
         \/ HostFromMain
         \/ \E w \in Worker : HostFromWorker(w) \/ Deadline(w)
         \/ HostCrash
  PROVE  Calls'
PROOF
<1>0. WireTypes /\ h2m \in Seq(ToMainMsg) /\ UNCHANGED <<alerts, human, asks>>
      /\ Sub(h2m, h2m)
  BY SubFacts DEF Core, WireTypes, mainVars, workerVars
<1>1. CASE HostFromMain
  <2>1. UNCHANGED w2h
    BY <1>1 DEF HostFromMain, HostCreate, HostEvent, HostDestroy, HostAnswers
  <2>2. Sub(h2m', h2m)
    <3>1. CASE HostCreate
      <4>1. m2h # <<>> /\ Head(m2h).type = "create"
        BY <3>1 DEF HostCreate, Gets
      <4>2. Head(m2h).sid \in Sid /\ <<Head(m2h).sid, 1>> \in Worker
        BY <1>0, <4>1, FromMain, WiresAssumption DEF Worker
      <4>3. h2m' = h2m \/ h2m' = ToMain(<<Refused(Head(m2h).sid)>>)
        BY <3>1 DEF HostCreate
      <4> QED
        BY <1>0, <4>2, <4>3, Added
    <3>2. CASE ~HostCreate
      BY <1>0, <1>1, <3>2 DEF HostFromMain, HostEvent, HostDestroy, HostAnswers
    <3> QED
      BY <3>1, <3>2
  <2> QED
    BY <1>0, <2>1, <2>2, SameFor, Calmer
<1>2. ASSUME NEW w \in Worker, HostFromWorker(w) \/ Deadline(w)
      PROVE  Calls'
  <2> DEFINE s == w[1]
  <2>0. s \in Sid /\ w2h = [v \in Worker |-> w2h[v]] /\ w2h[w] \in Seq(FromWorkerMsg(w))
        /\ \A v \in Worker : Sub(w2h[v], w2h[v])
    BY <1>0, SubFacts DEF Worker, WireTypes
  <2>1. ASSUME NEW q, Sub(q, w2h[w]), w2h' = [w2h EXCEPT ![w] = q], Sub(h2m', h2m)
        PROVE  Calls'
    <3>1. \A v \in Worker : Sub(w2h'[v], w2h[v])
      BY <2>0, <2>1
    <3> QED
      BY <1>0, <2>1, <3>1, Calmer
  <2>2. ASSUME w2h' = [w2h EXCEPT ![w] = Tail(@)], w2h[w] # <<>>, Sub(h2m', h2m)
        PROVE  Calls'
    <3>1. Sub(Tail(w2h[w]), w2h[w])
      BY <2>0, <2>2, SubFacts
    <3> QED
      BY <2>1, <2>2, <3>1
  <2>3. /\ Sub(ToMain(<<Refused(s)>>), h2m) /\ Sub(ToMain(<<Created(s)>>), h2m)
        /\ Sub(ToMain(<<[type |-> "failed", sid |-> s, fatal |-> TRUE]>> \o <<Refused(s)>>), h2m)
        /\ Sub(ToMain(<<[type |-> "failed", sid |-> s, fatal |-> TRUE]>> \o <<>>), h2m)
    BY <1>0, <2>0, Added
  <2> HIDE DEF s
  <2>4. CASE HostCreated(w)
    <3>1. w2h' = [w2h EXCEPT ![w] = Tail(@)] /\ w2h[w] # <<>>
          /\ (h2m' = h2m \/ h2m' = ToMain(<<Created(s)>>))
      BY <2>4 DEF HostCreated, Hears, Take, s
    <3> QED
      BY <1>0, <2>2, <2>3, <3>1
  <2>5. CASE HostCreateFails(w)
    <3>1. w2h[w] # <<>> /\ (h2m' = h2m \/ h2m' = ToMain(<<Refused(s)>>))
      BY <2>5 DEF HostCreateFails, Hears, s
    <3>2. CASE creating[w] = "no"
      BY <1>0, <2>2, <2>3, <2>5, <3>1, <3>2 DEF HostCreateFails, Take
    <3>3. CASE creating[w] # "no"
      <4>1. PICK left \in Prefixes(Tail(w2h[w])) : w2h' = [w2h EXCEPT ![w] = left]
        BY <2>5, <3>3 DEF HostCreateFails
      <4>2. Sub(left, w2h[w])
        BY <2>0, <3>1, SubFacts
      <4> QED
        BY <1>0, <2>1, <2>3, <3>1, <4>1, <4>2
    <3> QED
      BY <3>2, <3>3
  <2>6. ASSUME NEW rest, rest = w2h[w] \/ (w2h[w] # <<>> /\ rest = Tail(w2h[w])),
               FinishDestroy(w, rest)
        PROVE  Calls'
    <3>1. PICK left \in Prefixes(rest) : w2h' = [w2h EXCEPT ![w] = left]
      BY <2>6 DEF FinishDestroy
    <3>2. Sub(left, w2h[w])
      BY <2>0, <2>6, SubFacts
    <3>3. h2m' = h2m \/ h2m' = ToMain(<<Refused(s)>>)
      BY <2>6 DEF FinishDestroy, s
    <3> QED
      BY <1>0, <2>1, <2>3, <3>1, <3>2, <3>3
  <2>7. CASE HostDestroyed(w)
    <3>1. w2h[w] # <<>>
      BY <2>7 DEF HostDestroyed, Hears
    <3>2. CASE ending[w] # "no"
      BY <2>6, <2>7, <3>1, <3>2 DEF HostDestroyed
    <3>3. CASE ending[w] = "no"
      BY <1>0, <2>2, <2>7, <3>1, <3>3 DEF HostDestroyed, Take
    <3> QED
      BY <3>2, <3>3
  <2>8. CASE HostBusy(w) \/ HostRelays(w)
    <3>1. /\ w2h[w] # <<>> /\ w2h' = [w2h EXCEPT ![w] = Tail(@)]
          /\ h2m' = h2m \o <<Head(w2h[w])>>
          /\ Head(w2h[w]).type \in {"busy", "failed", "finished", "call"}
      BY <2>8 DEF HostBusy, HostRelays, Hears, Take, ToMain
    <3>2. Head(w2h[w]) \in FromWorkerMsg(w)
      BY <2>0, <3>1, PortFacts
    <3>3. Head(w2h[w]) \in News(w)
      BY <3>1, <3>2 DEF FromWorkerMsg
    <3> QED
      BY <1>0, <3>1, <3>3, Relayed
  <2>9. CASE HostDied(w)
    <3>1. UNCHANGED w2h
      BY <2>9 DEF HostDied
    <3>2. \/ h2m' = h2m
          \/ h2m' = ToMain(<<[type |-> "failed", sid |-> s, fatal |-> TRUE]>> \o <<Refused(s)>>)
          \/ h2m' = ToMain(<<[type |-> "failed", sid |-> s, fatal |-> TRUE]>> \o <<>>)
      BY <2>9 DEF HostDied, s
    <3> QED
      BY <1>0, <2>3, <3>1, <3>2, SameFor, Calmer
  <2>10. CASE Deadline(w)
    BY <2>6, <2>10 DEF Deadline, HostDeadline
  <2> QED
    BY <1>2, <2>4, <2>5, <2>7, <2>8, <2>9, <2>10 DEF HostFromWorker
<1>3. CASE HostCrash
  <2>1. Sub(h2m', h2m)
    BY <1>0, <1>3, SubFacts DEF HostCrash
  <2>2. \A v \in Worker : Sub(w2h'[v], w2h[v])
    <3> SUFFICES ASSUME NEW v \in Worker PROVE Sub(w2h'[v], w2h[v])
      OBVIOUS
    <3>1. w2h'[v] = <<>> /\ w2h[v] \in Seq(FromWorkerMsg(v))
      BY <1>0, <1>3 DEF HostCrash, WireTypes
    <3> QED
      BY <3>1, SubFacts
  <2> QED
    BY <1>0, <2>1, <2>2, Calmer
<1> QED
  BY <1>1, <1>2, <1>3

LEMMA CallsOfThread ==
  ASSUME Core, Calls, WorkerTypes, NEW w \in Worker, WorkerTurn(w) \/ Extension(w) \/ Crash(w),
         UNCHANGED <<mainVars, hostVars>>
  PROVE  Calls'
PROOF
<1>0. WireTypes /\ UNCHANGED <<alerts, human>> /\ h2m' = h2m /\ Sub(h2m', h2m)
      /\ w2h = [v \in Worker |-> w2h[v]] /\ w2h[w] \in Seq(FromWorkerMsg(w))
  <2>1. WireTypes /\ UNCHANGED <<alerts, human>> /\ w2h = [v \in Worker |-> w2h[v]]
        /\ w2h[w] \in Seq(FromWorkerMsg(w)) /\ h2m \in Seq(ToMainMsg)
    BY DEF Core, WireTypes, mainVars
  <2>2. h2m' = h2m
    BY DEF WorkerTurn, Start, Dispatch, Answered, Destroyed, Extension, CallDesktop,
           CallTimesOut, HandlerSettles, Finishes, Fatal, WorkerCeiling, OtherWires, wires, Crash
  <2> QED
    BY <2>1, <2>2, SubFacts
<1>1. \A v \in Worker : Sub(w2h[v], w2h[v])
  BY <1>0, SubFacts DEF WireTypes
<1>2. ASSUME NEW kind \in Kinds, CallDesktop(w, kind) PROVE Calls'
  BY <1>0, <1>2, Asking
<1>3. ASSUME \A kind \in Kinds : ~CallDesktop(w, kind) PROVE UNCHANGED asks
  BY <1>3 DEF WorkerTurn, Start, Dispatch, Answered, Destroyed, Extension, CallTimesOut,
              HandlerSettles, Finishes, Fatal, WorkerCeiling, Crash, workerVars
<1>4. ASSUME NEW q, Sub(q, w2h[w]), w2h' = [w2h EXCEPT ![w] = q], UNCHANGED asks
      PROVE  Calls'
  <2>1. \A v \in Worker : Sub(w2h'[v], w2h[v])
    BY <1>0, <1>1, <1>4
  <2> QED
    BY <1>0, <1>4, <2>1, Calmer
<1>5. CASE (WorkerTurn(w) \/ Extension(w)) /\ \A kind \in Kinds : ~CallDesktop(w, kind)
  <2>1. ThreadFrame(w)
    BY <1>0, <1>5, Serving, Extending
  <2>2. PICK x \in Seq(Talk(w)) : w2h' = [w2h EXCEPT ![w] = @ \o x]
    BY <1>5, <2>1 DEF ThreadFrame
  <2>3. Talk(w) \subseteq FromWorkerMsg(w)
    BY DEF Talk
  <2>4. x \in Seq(FromWorkerMsg(w)) /\ \A i \in 1..Len(x) : x[i] \in Talk(w)
    BY <2>3, SeqGrows, PortFacts
  <2>5. \A i \in 1..Len(x) : x[i].type # "call"
    BY <2>4 DEF Talk
  <2>6. Sub(w2h[w] \o x, w2h[w])
    BY <1>0, <2>4, <2>5, SubFacts
  <2> QED
    BY <1>3, <1>4, <1>5, <2>2, <2>6
<1>6. CASE Crash(w)
  <2>1. PICK left \in Prefixes(w2h[w]) : w2h' = [w2h EXCEPT ![w] = left]
    BY <1>6 DEF Crash
  <2>2. Sub(left, w2h[w])
    BY <1>0, SubFacts
  <2>3. UNCHANGED asks
    BY <1>6 DEF Crash, workerVars
  <2> QED
    BY <1>4, <2>1, <2>2, <2>3
<1> QED
  BY <1>2, <1>5, <1>6

LEMMA CallsStep == Core /\ WorkerTypes /\ Calls /\ [Next]_vars => Calls'
PROOF
<1> SUFFICES ASSUME Core, WorkerTypes, Calls, [Next]_vars PROVE Calls'
  OBVIOUS
<1>1. CASE (MainUser \/ MainStep) /\ UNCHANGED <<hostVars, workerVars>>
  BY <1>1, CallsOfMain
<1>2. CASE (HostFromMain \/ \E w \in Worker : HostFromWorker(w) \/ Deadline(w))
             /\ UNCHANGED <<mainVars, workerVars>>
  BY <1>2, CallsOfHost
<1>3. CASE \E w \in Worker : (WorkerTurn(w) \/ Extension(w)) /\ UNCHANGED <<mainVars, hostVars>>
  BY <1>3, CallsOfThread
<1>4. CASE \E w \in Worker : Crash(w) /\ UNCHANGED <<mainVars, hostVars>>
  BY <1>4, CallsOfThread
<1>5. CASE "hostCrash" \in Faults /\ HostCrash /\ UNCHANGED <<mainVars, workerVars>>
  BY <1>5, CallsOfHost
<1>6. CASE UNCHANGED vars
  <2>1. UNCHANGED <<h2m, w2h, alerts, human, asks>>
    BY <1>6 DEF vars, wires, mainVars, workerVars
  <2> QED
    BY <2>1 DEF Calls, InOrder
<1> QED
  BY <1>1, <1>2, <1>3, <1>4, <1>5, <1>6 DEF Next

----------------------------------------------------------------------------
(* A yes that travels, or has arrived, is the user's.                       *)

LEMMA HonestPort ==
  ASSUME Core, Honest, human' = human, m2h' \in Seq(ToHostMsg), UNCHANGED <<h2w, outcome>>,
         \A i \in 1..Len(m2h') : ~Yes(m2h'[i]) \/ \E j \in 1..Len(m2h) : m2h'[i] = m2h[j]
  PROVE  Honest'
  BY DEF Honest, ConfirmedByUser

LEMMA HonestOfMain ==
  ASSUME Core, Calls, Honest, MainUser \/ MainStep, UNCHANGED <<hostVars, workerVars>>
  PROVE  Honest'
PROOF
<1>0. WireTypes /\ MainTypes /\ m2h \in Seq(ToHostMsg) /\ UNCHANGED outcome
  BY DEF Core, WireTypes, workerVars
<1>1. MainFrame /\ UNCHANGED h2w
  BY <1>0, MainSteps DEF MainFrame
<1>2. ASSUME NEW S, S \subseteq ToHostMsg, NEW x \in Seq(S), \A m \in S : ~Yes(m),
             m2h' = m2h \/ m2h' = m2h \o x, human' = human
      PROVE  Honest'
  <2>1. x \in Seq(ToHostMsg) /\ \A i \in 1..Len(x) : ~Yes(x[i])
    BY <1>2, SeqGrows, PortFacts
  <2>2. CASE m2h' = m2h
    BY <1>0, <1>1, <1>2, <2>2, HonestPort
  <2>3. CASE m2h' = m2h \o x
    <3> DEFINE q == m2h \o x
    <3>1. /\ Len(q) = Len(m2h) + Len(x) /\ Len(x) \in Nat /\ Len(m2h) \in Nat
          /\ q \in Seq(ToHostMsg)
          /\ \A i \in 1..Len(m2h) : q[i] = m2h[i]
          /\ \A i \in 1..Len(x) : q[Len(m2h) + i] = x[i]
      BY <1>0, <2>1, JoinFacts, PortFacts
    <3> HIDE DEF q
    <3>2. \A i \in 1..Len(q) : ~Yes(q[i]) \/ \E j \in 1..Len(m2h) : q[i] = m2h[j]
      <4> SUFFICES ASSUME NEW i \in 1..Len(q), ~(i \in 1..Len(m2h)) PROVE ~Yes(q[i])
        BY <3>1
      <4>1. i - Len(m2h) \in 1..Len(x) /\ Len(m2h) + (i - Len(m2h)) = i
        BY <3>1
      <4>2. q[i] = x[i - Len(m2h)]
        BY <3>1, <4>1
      <4> QED
        BY <2>1, <4>1, <4>2
    <3>3. m2h' = q
      BY <2>3 DEF q
    <3> QED
      BY <1>0, <1>1, <1>2, <3>1, <3>2, <3>3, HonestPort
  <2> QED
    BY <1>2, <2>2, <2>3
<1>3. CASE PostsPlain
  <2>1. PICK x \in Seq(Plain) : m2h' = ToHost(x)
    BY <1>3 DEF PostsPlain
  <2>2. m2h' = m2h \/ m2h' = m2h \o x
    BY <2>1 DEF ToHost
  <2>3. \A m \in Plain : ~Yes(m)
    BY DEF Plain, AnswerMsgs, Yes
  <2>4. Plain \subseteq ToHostMsg
    BY DEF ToHostMsg, Post
  <2> QED
    BY <1>2, <1>3, <2>1, <2>2, <2>3, <2>4 DEF PostsPlain
<1>4. ASSUME NEW s \in Sid, Launch(s) \/ UserReload(s) PROVE Honest'
  <2>1. PICK x \in {<<Msg("create", s)>>, <<Msg("reload", s)>>} : m2h' = m2h \/ m2h' = m2h \o x
    <3>1. Append(m2h, Msg("create", s)) = m2h \o <<Msg("create", s)>>
      BY <1>0
    <3> QED
      BY <1>4, <3>1 DEF Launch, UserReload, ToHost
  <2>2. Msg("create", s) \in StartMsg /\ Msg("reload", s) \in StartMsg
    BY DEF StartMsg, Msg
  <2>3. x \in Seq(StartMsg)
    <3>1. <<Msg("create", s)>> \in Seq(StartMsg) /\ <<Msg("reload", s)>> \in Seq(StartMsg)
      BY <2>2, Few
    <3> QED
      BY <2>1, <3>1
  <2>4. \A m \in StartMsg : ~Yes(m)
    BY DEF StartMsg, Yes
  <2>5. StartMsg \subseteq ToHostMsg
    BY DEF ToHostMsg
  <2>6. human' = human
    BY <1>4 DEF Launch, UserReload
  <2> QED
    BY <1>2, <2>1, <2>3, <2>4, <2>5, <2>6
<1>5. ASSUME NEW a \in Worker \X Ask, NEW value \in {"true", "false"}, UserAnswers(a, value)
      PROVE  Honest'
  <2> DEFINE m == AnswerMsg(a, value)
  <2>1. /\ a \in alerts /\ human' = [human EXCEPT ![a] = value] /\ m2h' = ToHost(<<m>>)
    BY <1>5 DEF UserAnswers
  <2>2. human[a] = "none"
    BY <2>1 DEF Calls
  <2>3. \A b \in Worker \X Ask : human[b] = "true" => human'[b] = "true"
    BY <1>0, <2>1, <2>2 DEF MainTypes
  <2>4. m \in ToHostMsg /\ <<m.to, m.ask>> = a /\ m.value = value
    BY DEF AnswerMsg, ToHostMsg, Post, Plain, AnswerMsgs
  <2>5. Yes(m) => human'[<<m.to, m.ask>>] = "true"
    BY <1>0, <2>1, <2>4 DEF MainTypes, Yes
  <2> HIDE DEF m
  <2>6. <<m>> \in Seq(ToHostMsg) /\ Append(m2h, m) = m2h \o <<m>>
    BY <1>0, <2>4
  <2>7. m2h' = m2h \/ m2h' = Append(m2h, m)
    BY <2>1, <2>6 DEF ToHost
  <2>8. \A i \in 1..Len(m2h) : Yes(m2h[i]) => m2h[i].to \in Worker /\ m2h[i].ask \in Ask
    <3>1. \A i \in 1..Len(m2h) : m2h[i] \in ToHostMsg
      BY <1>0, PortFacts
    <3>2. \A n \in ToHostMsg : Yes(n) => n.to \in Worker /\ n.ask \in Ask
      BY DEF ToHostMsg, StartMsg, Post, Plain, AnswerMsgs, Yes
    <3> QED
      BY <3>1, <3>2
  <2>9. \A i \in 1..Len(m2h) : Yes(m2h[i]) => human'[<<m2h[i].to, m2h[i].ask>>] = "true"
    BY <2>3, <2>8 DEF Honest
  <2>10. \A i \in 1..Len(m2h') : Yes(m2h'[i]) => human'[<<m2h'[i].to, m2h'[i].ask>>] = "true"
    <3>1. CASE m2h' = m2h
      BY <2>9, <3>1
    <3>2. CASE m2h' = Append(m2h, m)
      <4> DEFINE q == Append(m2h, m)
      <4>1. /\ Len(q) = Len(m2h) + 1 /\ Len(m2h) \in Nat /\ q[Len(m2h) + 1] = m
            /\ \A i \in 1..Len(m2h) : q[i] = m2h[i]
        BY <1>0, <2>4, PortFacts
      <4> HIDE DEF q
      <4>2. \A i \in 1..Len(q) : i \in 1..Len(m2h) \/ i = Len(m2h) + 1
        BY <4>1
      <4>3. \A i \in 1..Len(q) : Yes(q[i]) => human'[<<q[i].to, q[i].ask>>] = "true"
        BY <2>5, <2>9, <4>1, <4>2
      <4>4. m2h' = q
        BY <3>2 DEF q
      <4> QED
        BY <4>3, <4>4
    <3> QED
      BY <2>7, <3>1, <3>2
  <2>11. \A w \in Worker : \A i \in 1..Len(h2w[w]) :
           Yes(h2w[w][i]) => human'[<<w, h2w[w][i].ask>>] = "true"
    <3> SUFFICES ASSUME NEW w \in Worker, NEW i \in 1..Len(h2w[w]), Yes(h2w[w][i])
                 PROVE  human'[<<w, h2w[w][i].ask>>] = "true"
      OBVIOUS
    <3>1. h2w[w] \in Seq(ToWorkerMsg)
      BY <1>0 DEF WireTypes
    <3>2. h2w[w][i] \in ToWorkerMsg
      BY <3>1, PortFacts
    <3>3. h2w[w][i].ask \in Ask
      BY <3>2 DEF ToWorkerMsg, AnswerMsgs, Yes
    <3>4. human[<<w, h2w[w][i].ask>>] = "true"
      BY DEF Honest
    <3> QED
      BY <2>3, <3>3, <3>4
  <2>12. ConfirmedByUser'
    BY <1>0, <2>3 DEF Honest, ConfirmedByUser
  <2> QED
    BY <1>0, <1>1, <2>10, <2>11, <2>12 DEF Honest
<1>6. CASE HearExit
  BY <1>0, <1>1, <1>6, HonestPort DEF HearExit
<1> QED
  BY <1>0, <1>3, <1>4, <1>5, <1>6, MainSteps

LEMMA HonestOfHost ==
  ASSUME Core, Honest, UNCHANGED <<mainVars, workerVars>>,
         \/ HostFromMain
         \/ \E w \in Worker : HostFromWorker(w) \/ Deadline(w)
         \/ HostCrash
  PROVE  Honest'
PROOF
<1>0. WireTypes /\ m2h \in Seq(ToHostMsg) /\ h2w \in [Worker -> Seq(ToWorkerMsg)]
      /\ UNCHANGED <<human, outcome>>
  BY DEF Core, WireTypes, mainVars, workerVars
<1>1. ASSUME m2h' = m2h \/ (m2h # <<>> /\ m2h' = Tail(m2h)) \/ m2h' = <<>>,
             \A w \in Worker : \A i \in 1..Len(h2w'[w]) :
               \/ ~Yes(h2w'[w][i])
               \/ \E j \in 1..Len(h2w[w]) : h2w'[w][i] = h2w[w][j]
               \/ m2h # <<>> /\ h2w'[w][i] = Head(m2h) /\ Head(m2h).to = w
      PROVE  Honest'
  <2>1. m2h # <<>> => /\ Head(m2h) = m2h[1] /\ 1 \in 1..Len(m2h) /\ Len(Tail(m2h)) = Len(m2h) - 1
                      /\ \A i \in 1..Len(Tail(m2h)) : Tail(m2h)[i] = m2h[i + 1] /\ i + 1 \in 1..Len(m2h)
    BY <1>0, PortFacts
  <2>2. \A i \in 1..Len(m2h') : Yes(m2h'[i]) => human[<<m2h'[i].to, m2h'[i].ask>>] = "true"
    <3>1. CASE m2h' = <<>>
      BY <3>1
    <3>2. CASE m2h' = m2h
      BY <3>2 DEF Honest
    <3>3. CASE m2h # <<>> /\ m2h' = Tail(m2h)
      BY <2>1, <3>3 DEF Honest
    <3> QED
      BY <1>1, <3>1, <3>2, <3>3
  <2>3. \A w \in Worker : \A i \in 1..Len(h2w'[w]) :
          Yes(h2w'[w][i]) => human[<<w, h2w'[w][i].ask>>] = "true"
    BY <1>1, <2>1 DEF Honest
  <2>4. ConfirmedByUser'
    BY <1>0 DEF Honest, ConfirmedByUser
  <2> QED
    BY <1>0, <2>2, <2>3, <2>4 DEF Honest
<1>2. ASSUME UNCHANGED h2w
      PROVE  \A w \in Worker : \A i \in 1..Len(h2w'[w]) :
               \E j \in 1..Len(h2w[w]) : h2w'[w][i] = h2w[w][j]
  BY <1>2
<1>3. ASSUME NEW w \in Worker, NEW m \in ToWorkerMsg, h2w' = [h2w EXCEPT ![w] = Append(@, m)]
      PROVE  \A v \in Worker : \A i \in 1..Len(h2w'[v]) :
               \/ \E j \in 1..Len(h2w[v]) : h2w'[v][i] = h2w[v][j]
               \/ v = w /\ h2w'[v][i] = m
  <2> SUFFICES ASSUME NEW v \in Worker, NEW i \in 1..Len(h2w'[v]), v = w
               PROVE  \/ \E j \in 1..Len(h2w[w]) : h2w'[v][i] = h2w[w][j]
                      \/ h2w'[v][i] = m
    BY <1>0, <1>3
  <2> DEFINE q == Append(h2w[w], m)
  <2>1. h2w[w] \in Seq(ToWorkerMsg)
    BY <1>0
  <2>2. /\ Len(q) = Len(h2w[w]) + 1 /\ Len(h2w[w]) \in Nat /\ q[Len(h2w[w]) + 1] = m
        /\ \A j \in 1..Len(h2w[w]) : q[j] = h2w[w][j]
    BY <2>1, PortFacts
  <2>3. h2w'[v] = q
    BY <1>0, <1>3
  <2> HIDE DEF q
  <2>4. i \in 1..Len(h2w[w]) \/ i = Len(h2w[w]) + 1
    BY <2>2, <2>3
  <2> QED
    BY <2>2, <2>3, <2>4
<1>4. ASSUME NEW w \in Worker, NEW m \in ToWorkerMsg,
             h2w' = ToWorker(w, m) \/ h2w' = h2w
      PROVE  \A v \in Worker : \A i \in 1..Len(h2w'[v]) :
               \/ \E j \in 1..Len(h2w[v]) : h2w'[v][i] = h2w[v][j]
               \/ v = w /\ h2w'[v][i] = m
  <2>1. CASE UNCHANGED h2w
    BY <1>2, <2>1
  <2>2. CASE h2w' = [h2w EXCEPT ![w] = Append(@, m)]
    BY <1>3, <2>2
  <2> QED
    BY <1>4, <2>1, <2>2 DEF ToWorker
<1>5. CASE HostFromMain
  <2>1. m2h # <<>> /\ m2h' = Tail(m2h)
    BY <1>5 DEF HostFromMain, HostCreate, HostEvent, HostDestroy, HostAnswers, Gets
  <2>2. CASE HostCreate
    <3> DEFINE c == <<Head(m2h).sid, made[Head(m2h).sid] + 1>>
    <3>1. h2w' = h2w \/ h2w' = [h2w EXCEPT ![c] = <<[type |-> "create"]>>]
      BY <2>2 DEF HostCreate
    <3> HIDE DEF c
    <3>2. Len(<<[type |-> "create"]>>) = 1 /\ ~Yes(<<[type |-> "create"]>>[1])
      BY DEF Yes
    <3>3. \A v \in Worker : h2w'[v] = h2w[v] \/ h2w'[v] = <<[type |-> "create"]>>
      BY <1>0, <3>1
    <3>4. \A v \in Worker : \A i \in 1..Len(h2w'[v]) :
             ~Yes(h2w'[v][i]) \/ \E j \in 1..Len(h2w[v]) : h2w'[v][i] = h2w[v][j]
      BY <3>2, <3>3
    <3> QED
      BY <1>1, <2>1, <3>4
  <2>3. ASSUME NEW s \in Sid, NEW m \in {[type |-> "event"], [type |-> "destroy"]},
               s \in InMap, h2w' = ToWorker(Thread(s), m) \/ h2w' = h2w
        PROVE  Honest'
    <3>1. Thread(s) \in Worker
      BY <2>3 DEF Core, HostTypes, InMap, Thread, Worker
    <3>2. m \in ToWorkerMsg /\ ~Yes(m)
      BY DEF ToWorkerMsg, Yes
    <3> QED
      BY <1>1, <1>4, <2>1, <2>3, <3>1, <3>2
  <2>4. ASSUME UNCHANGED h2w PROVE Honest'
    BY <1>1, <1>2, <2>1, <2>4
  <2>5. Head(m2h).type # "answer" => Head(m2h).sid \in Sid
    BY <1>0, <2>1, FromMain
  <2>6. CASE HostEvent
    BY <2>3, <2>4, <2>5, <2>6 DEF HostEvent, Gets
  <2>7. CASE HostDestroy("destroy", FALSE) \/ HostDestroy("reload", TRUE)
    BY <2>3, <2>4, <2>5, <2>7 DEF HostDestroy, Gets
  <2>8. CASE HostAnswers
    <3>1. /\ Head(m2h).to \in Worker /\ Head(m2h) \in ToWorkerMsg
          /\ h2w' = ToWorker(Head(m2h).to, Head(m2h))
      BY <1>0, <2>1, <2>8, FromMain DEF HostAnswers, Gets
    <3> QED
      BY <1>1, <1>4, <2>1, <3>1
  <2> QED
    BY <1>5, <2>2, <2>6, <2>7, <2>8 DEF HostFromMain
<1>6. ASSUME NEW w \in Worker, HostFromWorker(w) \/ Deadline(w)
      PROVE  Honest'
  <2>1. m2h' = m2h
    BY <1>6 DEF HostFromWorker, HostCreated, HostCreateFails, HostDestroyed, HostBusy, HostRelays,
                HostDied, Deadline, HostDeadline, FinishDestroy
  <2>2. Len(<<[type |-> "create"]>>) = 1 /\ ~Yes(<<[type |-> "create"]>>[1]) /\ Len(<<>>) = 0
    BY DEF Yes
  <2>3. ASSUME NEW rest, FinishDestroy(w, rest)
        PROVE  \A v \in Worker : h2w'[v] \in {h2w[v], <<>>, <<[type |-> "create"]>>}
    BY <2>3 DEF FinishDestroy
  <2>4. \A v \in Worker : h2w'[v] \in {h2w[v], <<>>, <<[type |-> "create"]>>}
    <3>1. CASE UNCHANGED h2w
      BY <3>1
    <3>2. CASE HostDestroyed(w) \/ Deadline(w)
      BY <2>3, <3>1, <3>2 DEF HostDestroyed, Deadline, HostDeadline
    <3>3. CASE HostCreateFails(w)
      BY <1>0, <3>3 DEF HostCreateFails
    <3> QED
      BY <1>6, <3>1, <3>2, <3>3 DEF HostFromWorker, HostCreated, HostBusy, HostRelays, HostDied
  <2>5. \A v \in Worker : \A i \in 1..Len(h2w'[v]) :
           ~Yes(h2w'[v][i]) \/ \E j \in 1..Len(h2w[v]) : h2w'[v][i] = h2w[v][j]
    BY <2>2, <2>4
  <2> QED
    BY <1>1, <2>1, <2>5
<1>7. CASE HostCrash
  <2>1. m2h' = <<>> /\ \A w \in Worker : h2w'[w] = <<>>
    BY <1>7 DEF HostCrash
  <2> QED
    BY <1>1, <2>1
<1> QED
  BY <1>5, <1>6, <1>7

LEMMA HonestOfThread ==
  ASSUME Core, Honest, WorkerTypes, NEW w \in Worker, WorkerTurn(w) \/ Extension(w) \/ Crash(w),
         UNCHANGED <<mainVars, hostVars>>
  PROVE  Honest'
PROOF
<1>0. WireTypes /\ h2w \in [Worker -> Seq(ToWorkerMsg)] /\ UNCHANGED human
      /\ h2w[w] \in Seq(ToWorkerMsg)
  BY DEF Core, WireTypes, mainVars
<1>1. m2h' = m2h
  BY DEF WorkerTurn, Start, Dispatch, Answered, Destroyed, Extension, CallDesktop,
         CallTimesOut, HandlerSettles, Finishes, Fatal, WorkerCeiling, OtherWires, wires, Crash
<1>2. \/ h2w' = h2w
      \/ h2w[w] # <<>> /\ h2w' = [h2w EXCEPT ![w] = Tail(@)]
      \/ h2w' = [h2w EXCEPT ![w] = <<>>]
  <2>1. CASE WorkerTurn(w) \/ Extension(w)
    BY <1>0, <2>1, Serving, Extending, Zenon DEF ThreadFrame
  <2>2. CASE Crash(w)
    BY <2>2 DEF Crash
  <2> QED
    BY <2>1, <2>2
<1>3. /\ h2w[w] # <<>> => /\ Head(h2w[w]) = h2w[w][1] /\ 1 \in 1..Len(h2w[w])
                          /\ \A i \in 1..Len(Tail(h2w[w])) :
                               Tail(h2w[w])[i] = h2w[w][i + 1] /\ i + 1 \in 1..Len(h2w[w])
      /\ Len(<<>>) = 0
  BY <1>0, PortFacts
<1>4. \A v \in Worker : \A i \in 1..Len(h2w'[v]) : \E j \in 1..Len(h2w[v]) : h2w'[v][i] = h2w[v][j]
  <2> SUFFICES ASSUME NEW v \in Worker, NEW i \in 1..Len(h2w'[v])
               PROVE  \E j \in 1..Len(h2w[v]) : h2w'[v][i] = h2w[v][j]
    OBVIOUS
  <2>1. CASE h2w'[v] = h2w[v]
    BY <2>1
  <2>2. CASE v = w /\ h2w[w] # <<>> /\ h2w'[v] = Tail(h2w[w])
    BY <1>3, <2>2
  <2>3. CASE h2w'[v] = <<>>
    BY <1>3, <2>3
  <2> QED
    BY <1>0, <1>2, <2>1, <2>2, <2>3
<1>5. \A v \in Worker : \A i \in 1..Len(h2w'[v]) :
        Yes(h2w'[v][i]) => human[<<v, h2w'[v][i].ask>>] = "true"
  BY <1>4 DEF Honest
<1>6. ASSUME \A v \in Worker, k \in Ask : outcome'[v][k] = "true" =>
               \/ outcome[v][k] = "true"
               \/ v = w /\ h2w[w] # <<>> /\ Yes(Head(h2w[w])) /\ k = Head(h2w[w]).ask
      PROVE  ConfirmedByUser'
  BY <1>0, <1>3, <1>6 DEF Honest, ConfirmedByUser
<1>7. ConfirmedByUser'
  <2>1. CASE UNCHANGED outcome
    BY <1>6, <2>1
  <2>2. ASSUME NEW kind \in Kinds, CallDesktop(w, kind) PROVE ConfirmedByUser'
    BY <1>6, <2>2 DEF CallDesktop, WorkerTypes
  <2>3. CASE CallTimesOut(w)
    BY <1>6, <2>3 DEF CallTimesOut, WorkerTypes
  <2>4. CASE Answered(w)
    <3>1. /\ h2w[w] # <<>> /\ Head(h2w[w]).type = "answer"
          /\ outcome' = [outcome EXCEPT ![w][Head(h2w[w]).ask] =
                           IF @ = "out" THEN Head(h2w[w]).value ELSE @]
      BY <2>4 DEF Answered, Receives
    <3> QED
      BY <1>6, <3>1 DEF WorkerTypes, Yes
  <2> QED
    BY <2>1, <2>2, <2>3, <2>4 DEF WorkerTurn, Extension, Start, Dispatch, Destroyed, HandlerSettles,
       Finishes, Fatal, WorkerCeiling, Crash, workerVars
<1> QED
  BY <1>0, <1>1, <1>5, <1>7 DEF Honest

LEMMA HonestStep == Core /\ WorkerTypes /\ Calls /\ Honest /\ [Next]_vars => Honest'
PROOF
<1> SUFFICES ASSUME Core, WorkerTypes, Calls, Honest, [Next]_vars PROVE Honest'
  OBVIOUS
<1>1. CASE (MainUser \/ MainStep) /\ UNCHANGED <<hostVars, workerVars>>
  BY <1>1, HonestOfMain
<1>2. CASE (HostFromMain \/ \E w \in Worker : HostFromWorker(w) \/ Deadline(w))
             /\ UNCHANGED <<mainVars, workerVars>>
  BY <1>2, HonestOfHost
<1>3. CASE \E w \in Worker : (WorkerTurn(w) \/ Extension(w)) /\ UNCHANGED <<mainVars, hostVars>>
  BY <1>3, HonestOfThread
<1>4. CASE \E w \in Worker : Crash(w) /\ UNCHANGED <<mainVars, hostVars>>
  BY <1>4, HonestOfThread
<1>5. CASE "hostCrash" \in Faults /\ HostCrash /\ UNCHANGED <<mainVars, workerVars>>
  BY <1>5, HonestOfHost
<1>6. CASE UNCHANGED vars
  <2>1. UNCHANGED <<m2h, h2w, human, outcome>>
    BY <1>6 DEF vars, wires, mainVars, workerVars
  <2> QED
    BY <2>1 DEF Honest, ConfirmedByUser
<1> QED
  BY <1>1, <1>2, <1>3, <1>4, <1>5, <1>6 DEF Next

LEMMA HonestInit == Init => Calls /\ Honest
PROOF
<1> SUFFICES ASSUME Init PROVE Calls /\ Honest
  OBVIOUS
<1> USE DEF Init, WiresInit, MainInit, WorkerInit
<1>1. Len(h2m) = 0 /\ Len(m2h) = 0 /\ \A w \in Worker : Len(w2h[w]) = 0 /\ Len(h2w[w]) = 0
  OBVIOUS
<1>2. alerts = {} /\ \A a \in Worker \X Ask : human[a] = "none"
  OBVIOUS
<1>3. Calls
  BY <1>1, <1>2 DEF Calls, InOrder
<1>4. \A w \in Worker, k \in Ask : outcome[w][k] = "unasked"
  OBVIOUS
<1>5. Honest
  BY <1>1, <1>4 DEF Honest, ConfirmedByUser
<1> QED
  BY <1>3, <1>5

(* An extension is told "yes" only if the user said yes to that very alert. *)
THEOREM OnlyTheUserConfirms == Spec => []ConfirmedByUser
PROOF
<1>1. Honest => ConfirmedByUser
  BY DEF Honest
<1>2. Init => Calls /\ Honest
  BY HonestInit
<1>3. (Core /\ WorkerTypes) /\ (Calls /\ Honest) /\ [Next]_vars => (Calls /\ Honest)'
  BY CallsStep, HonestStep
<1> QED
  BY <1>1, <1>2, <1>3, CoreHolds, PTL DEF Spec

----------------------------------------------------------------------------
(* What a port holds, and in which order: a message of M somewhere, none of *)
(* N behind one of M, one of N behind every one of M.                       *)

Has(q, M) == \E i \in 1..Len(q) : q[i] \in M
Never(q, M, N) == \A i, j \in 1..Len(q) : i < j /\ q[i] \in M => q[j] \notin N
Followed(q, M, N) ==
  \A i \in 1..Len(q) : q[i] \in M => \E j \in 1..Len(q) : i < j /\ q[j] \in N

LEMMA NoneHeld ==
  ASSUME NEW M, NEW N
  PROVE  ~Has(<<>>, M) /\ Never(<<>>, M, N) /\ Followed(<<>>, M, N)
  BY DEF Has, Never, Followed

LEMMA OneHeld ==
  ASSUME NEW m, NEW M, NEW N
  PROVE  /\ Has(<<m>>, M) <=> m \in M
         /\ Never(<<m>>, M, N)
         /\ Followed(<<m>>, M, N) <=> m \notin M
PROOF
<1>1. Len(<<m>>) = 1 /\ <<m>>[1] = m /\ 1..1 = {1} /\ ~(1 < 1)
  OBVIOUS
<1> QED
  BY <1>1 DEF Has, Never, Followed

LEMMA TakenFrom ==
  ASSUME NEW S, NEW q \in Seq(S), q # <<>>, NEW M, NEW N
  PROVE  /\ Has(q, M) <=> Head(q) \in M \/ Has(Tail(q), M)
         /\ Never(q, M, N) => Never(Tail(q), M, N) /\ (Head(q) \in M => ~Has(Tail(q), N))
         /\ Followed(q, M, N) => Followed(Tail(q), M, N) /\ (Head(q) \in M => Has(Tail(q), N))
PROOF
<1> DEFINE t == Tail(q)
<1>1. /\ Len(q) \in Nat /\ Len(q) > 0 /\ Head(q) = q[1] /\ Len(t) = Len(q) - 1
      /\ \A i \in 1..Len(t) : t[i] = q[i + 1]
  BY PortFacts
<1> HIDE DEF t
<1>2. /\ 1 \in 1..Len(q)
      /\ \A i \in 1..Len(t) : i + 1 \in 1..Len(q) /\ 1 < i + 1 /\ t[i] = q[i + 1]
      /\ \A i \in 1..Len(q) : i # 1 => i - 1 \in 1..Len(t) /\ t[i - 1] = q[i]
      /\ \A i, j \in 1..Len(t) : i < j => i + 1 < j + 1
      /\ \A i, j \in 1..Len(q) : i < j => j # 1 /\ (i # 1 => i - 1 < j - 1)
  BY <1>1
<1>3. Has(q, M) <=> q[1] \in M \/ Has(t, M)
  BY <1>2 DEF Has
<1>4. Never(q, M, N) => Never(t, M, N) /\ (q[1] \in M => ~Has(t, N))
  BY <1>2 DEF Has, Never
<1>5. ASSUME Followed(q, M, N)
      PROVE  Followed(t, M, N) /\ (q[1] \in M => Has(t, N))
  <2>1. ASSUME NEW i \in 1..Len(t), t[i] \in M PROVE \E j \in 1..Len(t) : i < j /\ t[j] \in N
    <3>1. i + 1 \in 1..Len(q) /\ q[i + 1] \in M
      BY <1>2, <2>1
    <3>2. PICK j \in 1..Len(q) : i + 1 < j /\ q[j] \in N
      BY <1>5, <3>1 DEF Followed
    <3>3. j - 1 \in 1..Len(t) /\ i < j - 1 /\ t[j - 1] = q[j]
      BY <1>1, <1>2, <3>2
    <3> QED
      BY <3>2, <3>3
  <2>2. ASSUME q[1] \in M PROVE Has(t, N)
    <3>1. PICK j \in 1..Len(q) : 1 < j /\ q[j] \in N
      BY <1>2, <1>5, <2>2 DEF Followed
    <3>2. j - 1 \in 1..Len(t) /\ t[j - 1] = q[j]
      BY <1>2, <3>1
    <3> QED
      BY <3>1, <3>2 DEF Has
  <2> QED
    BY <2>1, <2>2 DEF Followed
<1> QED
  BY <1>1, <1>3, <1>4, <1>5 DEF t

LEMMA PutBehind ==
  ASSUME NEW S, NEW q \in Seq(S), NEW x \in Seq(S), NEW M, NEW N
  PROVE  /\ Has(q \o x, M) <=> Has(q, M) \/ Has(x, M)
         /\ Never(q \o x, M, N) <=> Never(q, M, N) /\ Never(x, M, N) /\ ~(Has(q, M) /\ Has(x, N))
         /\ (Followed(q, M, N) \/ Has(x, N)) /\ Followed(x, M, N) => Followed(q \o x, M, N)
PROOF
<1> DEFINE y == q \o x
<1>1. /\ Len(y) = Len(q) + Len(x) /\ Len(q) \in Nat /\ Len(x) \in Nat
      /\ \A i \in 1..Len(q) : y[i] = q[i]
      /\ \A i \in 1..Len(x) : y[Len(q) + i] = x[i]
  BY JoinFacts
<1> HIDE DEF y
<1>2. /\ \A i \in 1..Len(q) : i \in 1..Len(y) /\ y[i] = q[i]
      /\ \A i \in 1..Len(x) : Len(q) + i \in 1..Len(y) /\ y[Len(q) + i] = x[i]
      /\ \A i \in 1..Len(y) : i \in 1..Len(q) \/ (i - Len(q) \in 1..Len(x) /\ y[i] = x[i - Len(q)])
  <2>1. \A i \in 1..Len(q) : i \in 1..Len(y)
    BY <1>1
  <2>2. \A i \in 1..Len(x) : Len(q) + i \in 1..Len(y)
    BY <1>1
  <2>3. ASSUME NEW i \in 1..Len(y), i \notin 1..Len(q)
        PROVE  i - Len(q) \in 1..Len(x) /\ y[i] = x[i - Len(q)]
    <3>1. i - Len(q) \in 1..Len(x) /\ Len(q) + (i - Len(q)) = i
      BY <1>1, <2>3
    <3>2. y[Len(q) + (i - Len(q))] = x[i - Len(q)]
      BY <1>1, <3>1
    <3> QED
      BY <3>1, <3>2
  <2> QED
    BY <1>1, <2>1, <2>2, <2>3
<1>3. Has(y, M) <=> Has(q, M) \/ Has(x, M)
  <2>1. Has(q, M) => Has(y, M)
    BY <1>2 DEF Has
  <2>2. Has(x, M) => Has(y, M)
    BY <1>2 DEF Has
  <2>3. Has(y, M) => Has(q, M) \/ Has(x, M)
    BY <1>2 DEF Has
  <2> QED
    BY <2>1, <2>2, <2>3
<1>4. Never(y, M, N) => Never(q, M, N) /\ Never(x, M, N) /\ ~(Has(q, M) /\ Has(x, N))
  <2> SUFFICES ASSUME Never(y, M, N)
               PROVE  Never(q, M, N) /\ Never(x, M, N) /\ ~(Has(q, M) /\ Has(x, N))
    OBVIOUS
  <2>1. Never(q, M, N)
    BY <1>2 DEF Never
  <2>2. \A i, j \in 1..Len(x) : i < j => Len(q) + i < Len(q) + j
    BY <1>1
  <2>3. Never(x, M, N)
    BY <1>2, <2>2 DEF Never
  <2>4. \A i \in 1..Len(q), j \in 1..Len(x) : i < Len(q) + j
    BY <1>1
  <2>5. ~(Has(q, M) /\ Has(x, N))
    BY <1>2, <2>4 DEF Never, Has
  <2> QED
    BY <2>1, <2>3, <2>5
<1>5. Never(q, M, N) /\ Never(x, M, N) /\ ~(Has(q, M) /\ Has(x, N)) => Never(y, M, N)
  <2> SUFFICES ASSUME Never(q, M, N), Never(x, M, N), ~(Has(q, M) /\ Has(x, N)),
                      NEW i \in 1..Len(y), NEW j \in 1..Len(y), i < j, y[i] \in M
               PROVE  y[j] \notin N
    BY DEF Never
  <2>1. CASE i \in 1..Len(q) /\ j \in 1..Len(q)
    BY <1>2, <2>1 DEF Never
  <2>2. CASE i \in 1..Len(q) /\ j \notin 1..Len(q)
    BY <1>2, <2>2 DEF Has
  <2>3. CASE i \notin 1..Len(q)
    <3>1. j \notin 1..Len(q) /\ i - Len(q) < j - Len(q)
      BY <1>1, <2>3
    <3> QED
      BY <1>2, <2>3, <3>1 DEF Never
  <2> QED
    BY <2>1, <2>2, <2>3
<1>6. ASSUME Followed(q, M, N) \/ Has(x, N), Followed(x, M, N),
             NEW i \in 1..Len(y), y[i] \in M
      PROVE  \E j \in 1..Len(y) : i < j /\ y[j] \in N
  <2>1. CASE i \in 1..Len(q) /\ Has(x, N)
    <3>1. PICK j \in 1..Len(x) : x[j] \in N
      BY <2>1 DEF Has
    <3>2. Len(q) + j \in 1..Len(y) /\ i < Len(q) + j /\ y[Len(q) + j] \in N
      BY <1>1, <1>2, <2>1, <3>1
    <3> QED
      BY <3>2
  <2>2. CASE i \in 1..Len(q) /\ Followed(q, M, N)
    BY <1>2, <1>6, <2>2 DEF Followed
  <2>3. CASE i \notin 1..Len(q)
    <3>1. i - Len(q) \in 1..Len(x) /\ x[i - Len(q)] \in M
      BY <1>2, <1>6, <2>3
    <3>2. PICK j \in 1..Len(x) : i - Len(q) < j /\ x[j] \in N
      BY <1>6, <3>1 DEF Followed
    <3>3. Len(q) + j \in 1..Len(y) /\ y[Len(q) + j] = x[j]
      BY <1>2
    <3>4. i < Len(q) + j
      BY <1>1, <3>2
    <3> QED
      BY <3>2, <3>3, <3>4
  <2> QED
    BY <1>6, <2>1, <2>2, <2>3
<1>7. (Followed(q, M, N) \/ Has(x, N)) /\ Followed(x, M, N) => Followed(y, M, N)
  BY <1>6 DEF Followed
<1> QED
  BY <1>3, <1>4, <1>5, <1>7 DEF y

LEMMA CutShort ==
  ASSUME NEW S, NEW q \in Seq(S), NEW p \in Prefixes(q), NEW M, NEW N
  PROVE  /\ Has(p, M) => Has(q, M)
         /\ Never(q, M, N) => Never(p, M, N) /\ (Has(p, M) /\ Has(q, N) => Has(p, N))
PROOF
<1>1. Len(p) \in 0..Len(q) /\ \A i \in 1..Len(p) : p[i] = q[i]
  BY PrefixFacts
<1>2. Len(q) \in Nat /\ \A i \in 1..Len(p) : i \in 1..Len(q)
  BY <1>1
<1>3. \A i \in 1..Len(p), j \in 1..Len(q) : j \in 1..Len(p) \/ i < j
  BY <1>1, <1>2
<1>4. Has(p, M) => Has(q, M)
  BY <1>1, <1>2 DEF Has
<1>5. Never(q, M, N) => Never(p, M, N)
  BY <1>1, <1>2 DEF Never
<1>6. Never(q, M, N) /\ Has(p, M) /\ Has(q, N) => Has(p, N)
  BY <1>1, <1>2, <1>3 DEF Never, Has
<1> QED
  BY <1>4, <1>5, <1>6

----------------------------------------------------------------------------
(* What a thread says: the kinds of message that matter here.               *)

NoFatal == "fatal" \notin Faults

Of(type, s) == [type : {type}, sid : {s}]
Fatals(s) == [type : {"failed"}, sid : {s}, fatal : {TRUE}]
Tells(s, b) == [type : {"busy"}, sid : {s}, busy : {b}]
CallsOf(w) == [type : {"call"}, from : {w}, ask : Ask, kind : Kinds]
Spoken(s) == UNION {News(w) : w \in {v \in Worker : v[1] = s}}

(* A thread's step adds x to what it said: nothing about its handlers, a    *)
(* handler that started, and may be over, one that settled, or a call.      *)
Adds(w, x) ==
  /\ w \in up /\ x \in Seq(FromWorkerMsg(w)) /\ w2h' = [w2h EXCEPT ![w] = @ \o x]
  /\ ~Has(x, Fatals(w[1]))

Idles(w, x) ==
  /\ UNCHANGED <<running, ran>>
  /\ ~Has(x, Tells(w[1], TRUE)) /\ ~Has(x, Tells(w[1], FALSE)) /\ ~Has(x, CallsOf(w))

Begins(w, x) ==
  /\ ran' = [ran EXCEPT ![w] = @ + 1]
  /\ ~Has(x, CallsOf(w)) /\ Has(x, Tells(w[1], TRUE))
  /\ \/ /\ running' = [running EXCEPT ![w] = @ + 1]
        /\ ~Has(x, Tells(w[1], FALSE))
     \/ /\ running' = running
        /\ running[w] > 0 => ~Has(x, Tells(w[1], FALSE))
        /\ running[w] = 0 => /\ Has(x, Tells(w[1], FALSE))
                             /\ Followed(x, Tells(w[1], TRUE), Tells(w[1], FALSE))
                             /\ Never(x, Tells(w[1], FALSE), Tells(w[1], TRUE))

Ends(w, x) ==
  /\ running[w] > 0 /\ running' = [running EXCEPT ![w] = @ - 1] /\ ran' = ran
  /\ ~Has(x, CallsOf(w))
  /\ running[w] > 1 => Has(x, Tells(w[1], TRUE)) /\ ~Has(x, Tells(w[1], FALSE))
  /\ running[w] = 1 => Has(x, Tells(w[1], FALSE)) /\ ~Has(x, Tells(w[1], TRUE))

Asks(w, x) ==
  /\ UNCHANGED <<running, ran>>
  /\ running[w] > 0 \/ w[1] \in NoView
  /\ ~Has(x, Tells(w[1], TRUE)) /\ ~Has(x, Tells(w[1], FALSE)) /\ Has(x, CallsOf(w))

Utters(w) == \E x : Adds(w, x) /\ (Idles(w, x) \/ Begins(w, x) \/ Ends(w, x) \/ Asks(w, x))

(* Of the kinds above, a message is of one at most.                         *)
LEMMA Sorted ==
  /\ \A t, s : \A m \in Of(t, s) : m.type = t /\ m.sid = s
  /\ \A s : \A m \in Fatals(s) : m.type = "failed" /\ m.sid = s /\ m.fatal = TRUE
  /\ \A s, b : \A m \in Tells(s, b) : m.type = "busy" /\ m.sid = s /\ m.busy = b
  /\ \A w : \A m \in CallsOf(w) : m.type = "call" /\ m.from = w
  BY DEF Of, Fatals, Tells, CallsOf

LEMMA Kinship ==
  ASSUME NEW w \in Worker
  PROVE  LET s == w[1] IN
         /\ \A m \in {CreateOk, CreateErr, DestroyOk, Finished(w), Failed(w, FALSE)} :
              /\ m \in FromWorkerMsg(w) /\ m \notin Fatals(s) /\ m \notin CallsOf(w)
              /\ m \notin Tells(s, TRUE) /\ m \notin Tells(s, FALSE)
         /\ \A n \in Int :
              /\ Busy(w, n) \in FromWorkerMsg(w) /\ Busy(w, n) \notin Fatals(s)
              /\ Busy(w, n) \notin CallsOf(w)
              /\ n > 0 => Busy(w, n) \in Tells(s, TRUE) /\ Busy(w, n) \notin Tells(s, FALSE)
              /\ ~(n > 0) => Busy(w, n) \in Tells(s, FALSE) /\ Busy(w, n) \notin Tells(s, TRUE)
         /\ \A k \in Ask, kind \in Kinds :
              LET m == [type |-> "call", from |-> w, ask |-> k, kind |-> kind] IN
              /\ m \in FromWorkerMsg(w) /\ m \notin Fatals(s) /\ m \in CallsOf(w)
              /\ m \notin Tells(s, TRUE) /\ m \notin Tells(s, FALSE)
PROOF
<1> DEFINE s == w[1]
<1>1. ASSUME NEW m \in {CreateOk, CreateErr, DestroyOk, Finished(w), Failed(w, FALSE)}
      PROVE  /\ m \in FromWorkerMsg(w) /\ m \notin Fatals(s) /\ m \notin CallsOf(w)
             /\ m \notin Tells(s, TRUE) /\ m \notin Tells(s, FALSE)
  <2>1. m.type \notin {"busy", "call"} /\ (m.type = "failed" => m.fatal = FALSE)
    BY <1>1 DEF CreateOk, CreateErr, DestroyOk, Finished, Failed
  <2>2. m \in FromWorkerMsg(w)
    <3>1. CreateOk \in FromWorkerMsg(w) /\ CreateErr \in FromWorkerMsg(w) /\ DestroyOk \in FromWorkerMsg(w)
      BY DEF CreateOk, CreateErr, DestroyOk, FromWorkerMsg
    <3>2. Finished(w) \in FromWorkerMsg(w)
      BY DEF Finished, FromWorkerMsg, News
    <3>3. Failed(w, FALSE) \in FromWorkerMsg(w)
      BY DEF Failed, FromWorkerMsg, News
    <3> QED
      BY <1>1, <3>1, <3>2, <3>3
  <2>3. m \notin CallsOf(w) /\ m \notin Tells(s, TRUE) /\ m \notin Tells(s, FALSE)
    BY <2>1 DEF CallsOf, Tells
  <2>4. m \notin Fatals(s)
    <3> SUFFICES ASSUME m \in Fatals(s) PROVE FALSE
      OBVIOUS
    <3>1. m.type = "failed" /\ m.fatal = TRUE
      BY DEF Fatals
    <3> QED
      BY <2>1, <3>1
  <2> QED
    BY <2>2, <2>3, <2>4
<1>2. ASSUME NEW n \in Int
      PROVE  /\ Busy(w, n) \in FromWorkerMsg(w) /\ Busy(w, n) \notin Fatals(s)
             /\ Busy(w, n) \notin CallsOf(w)
             /\ n > 0 => Busy(w, n) \in Tells(s, TRUE) /\ Busy(w, n) \notin Tells(s, FALSE)
             /\ ~(n > 0) => Busy(w, n) \in Tells(s, FALSE) /\ Busy(w, n) \notin Tells(s, TRUE)
  <2>1. ASSUME NEW c \in BOOLEAN, NEW m, m = [type |-> "busy", sid |-> s, busy |-> c]
        PROVE  /\ m \in FromWorkerMsg(w) /\ m \notin Fatals(s) /\ m \notin CallsOf(w)
               /\ c = TRUE => m \in Tells(s, TRUE) /\ m \notin Tells(s, FALSE)
               /\ c = FALSE => m \in Tells(s, FALSE) /\ m \notin Tells(s, TRUE)
    <3>1. m \in FromWorkerMsg(w) /\ m \notin Fatals(s) /\ m \notin CallsOf(w)
      BY <2>1 DEF FromWorkerMsg, News, Fatals, CallsOf
    <3>2. /\ c = TRUE => m \in Tells(s, TRUE) /\ m \notin Tells(s, FALSE)
          /\ c = FALSE => m \in Tells(s, FALSE) /\ m \notin Tells(s, TRUE)
      BY <2>1 DEF Tells
    <3> QED
      BY <3>1, <3>2
  <2> DEFINE c == n > 0
  <2>2. c \in BOOLEAN /\ Busy(w, n) = [type |-> "busy", sid |-> s, busy |-> c]
    BY DEF Busy
  <2>3. (n > 0 => c = TRUE) /\ (~(n > 0) => c = FALSE)
    OBVIOUS
  <2> HIDE DEF c
  <2> QED
    BY <2>1, <2>2, <2>3
<1>3. ASSUME NEW k \in Ask, NEW kind \in Kinds
      PROVE  LET m == [type |-> "call", from |-> w, ask |-> k, kind |-> kind] IN
             /\ m \in FromWorkerMsg(w) /\ m \notin Fatals(s) /\ m \in CallsOf(w)
             /\ m \notin Tells(s, TRUE) /\ m \notin Tells(s, FALSE)
  BY <1>3 DEF FromWorkerMsg, News, Fatals, CallsOf, Tells
<1> QED
  BY <1>1, <1>2, <1>3

LEMMA TwoHeld ==
  ASSUME NEW a, NEW b, NEW M, NEW N
  PROVE  /\ Has(<<a, b>>, M) <=> a \in M \/ b \in M
         /\ (a \in M => b \notin N) => Never(<<a, b>>, M, N)
         /\ (a \in M => b \in N) /\ b \notin M => Followed(<<a, b>>, M, N)
PROOF
<1>1. Len(<<a, b>>) = 2 /\ <<a, b>>[1] = a /\ <<a, b>>[2] = b /\ 1..2 = {1, 2}
      /\ ~(1 < 1) /\ ~(2 < 2) /\ ~(2 < 1) /\ 1 < 2
  OBVIOUS
<1> QED
  BY <1>1 DEF Has, Never, Followed

LEMMA ThreeHeld ==
  ASSUME NEW a, NEW b, NEW c, NEW M, NEW N, b \notin M, b \notin N
  PROVE  /\ Has(<<a, b, c>>, M) <=> a \in M \/ c \in M
         /\ (a \in M => c \notin N) => Never(<<a, b, c>>, M, N)
         /\ (a \in M => c \in N) /\ c \notin M => Followed(<<a, b, c>>, M, N)
PROOF
<1> DEFINE x == <<a, b, c>>
<1>1. Len(x) = 3 /\ x[1] = a /\ x[2] = b /\ x[3] = c /\ 1..3 = {1, 2, 3}
      /\ ~(1 < 1) /\ ~(2 < 2) /\ ~(2 < 1) /\ ~(3 < 3) /\ ~(3 < 1) /\ ~(3 < 2) /\ 1 < 3
  OBVIOUS
<1> HIDE DEF x
<1>2. /\ Has(x, M) <=> a \in M \/ c \in M
      /\ (a \in M => c \notin N) => Never(x, M, N)
      /\ (a \in M => c \in N) /\ c \notin M => Followed(x, M, N)
  BY <1>1 DEF Has, Never, Followed
<1> QED
  BY <1>2 DEF x

(* What a thread says that is not about its handlers.                       *)
Aside(w) == {CreateOk, CreateErr, DestroyOk, Finished(w), Failed(w, FALSE)}

LEMMA AsideWords ==
  ASSUME NEW w \in Worker, NEW a \in Aside(w), NEW b \in Aside(w)
  PROVE  \A x \in {<<>>, <<a>>, <<a, b>>} :
           /\ x \in Seq(FromWorkerMsg(w)) /\ ~Has(x, Fatals(w[1])) /\ ~Has(x, CallsOf(w))
           /\ ~Has(x, Tells(w[1], TRUE)) /\ ~Has(x, Tells(w[1], FALSE))
PROOF
<1>1. \A m \in {a, b} : /\ m \in FromWorkerMsg(w) /\ m \notin Fatals(w[1]) /\ m \notin CallsOf(w)
                        /\ m \notin Tells(w[1], TRUE) /\ m \notin Tells(w[1], FALSE)
  BY Kinship DEF Aside
<1>2. <<>> \in Seq(FromWorkerMsg(w)) /\ <<a>> \in Seq(FromWorkerMsg(w)) /\ <<a, b>> \in Seq(FromWorkerMsg(w))
  BY <1>1
<1>3. \A M \in {Fatals(w[1]), CallsOf(w), Tells(w[1], TRUE), Tells(w[1], FALSE)} :
        ~Has(<<>>, M) /\ ~Has(<<a>>, M) /\ ~Has(<<a, b>>, M)
  <2> TAKE M \in {Fatals(w[1]), CallsOf(w), Tells(w[1], TRUE), Tells(w[1], FALSE)}
  <2>1. a \notin M /\ b \notin M
    BY <1>1
  <2>2. ~Has(<<>>, M)
    BY NoneHeld
  <2>3. Has(<<a>>, M) <=> a \in M
    BY OneHeld
  <2>4. Has(<<a, b>>, M) <=> a \in M \/ b \in M
    BY TwoHeld
  <2> QED
    BY <2>1, <2>2, <2>3, <2>4
<1> QED
  BY <1>2, <1>3

LEMMA Idling ==
  ASSUME NEW w \in Worker, NEW a \in Aside(w), NEW b \in Aside(w), NEW x \in {<<>>, <<a>>, <<a, b>>},
         w \in up, Send(w, x), UNCHANGED <<running, ran>>
  PROVE  Utters(w)
  BY AsideWords, Zenon DEF Utters, Adds, Idles, Send

LEMMA Beginning ==
  ASSUME NoFatal, WireTypes, WorkerTypes, NEW w \in Worker, Dispatch(w), phase[w] # "down"
  PROVE  Utters(w)
PROOF
<1> DEFINE s == w[1]
           n == running[w]
           p == Busy(w, n + 1)
           q == Busy(w, n)
           f == Failed(w, FALSE)
<1>1. n \in Nat /\ n \in Int /\ n + 1 \in Int /\ n + 1 > 0
  BY DEF WorkerTypes
<1>2. w \in up /\ ran' = [ran EXCEPT ![w] = @ + 1]
  BY Zenon DEF Dispatch, Receives, Turns
<1>3. \/ running' = [running EXCEPT ![w] = @ + 1] /\ Send(w, <<p>>)
      \/ running' = running /\ (Send(w, <<p, q>>) \/ Send(w, <<p, f, q>>))
  BY Zenon DEF Dispatch
<1>4. /\ p \in FromWorkerMsg(w) /\ p \notin Fatals(s) /\ p \notin CallsOf(w)
      /\ p \in Tells(s, TRUE) /\ p \notin Tells(s, FALSE)
  BY <1>1, Kinship
<1>5. /\ q \in FromWorkerMsg(w) /\ q \notin Fatals(s) /\ q \notin CallsOf(w)
      /\ n > 0 => q \in Tells(s, TRUE) /\ q \notin Tells(s, FALSE)
      /\ ~(n > 0) => q \in Tells(s, FALSE) /\ q \notin Tells(s, TRUE)
  BY <1>1, Kinship
<1>6. /\ f \in FromWorkerMsg(w) /\ f \notin Fatals(s) /\ f \notin CallsOf(w)
      /\ f \notin Tells(s, TRUE) /\ f \notin Tells(s, FALSE)
  BY Kinship
<1>7. <<p>> \in Seq(FromWorkerMsg(w)) /\ <<p, q>> \in Seq(FromWorkerMsg(w)) /\ <<p, f, q>> \in Seq(FromWorkerMsg(w))
  BY <1>4, <1>5, <1>6, Few
<1> HIDE DEF p, q, f, n
<1>8. CASE running' = [running EXCEPT ![w] = @ + 1] /\ Send(w, <<p>>)
  <2> DEFINE x == <<p>>
  <2>1. ~Has(x, Fatals(s)) /\ ~Has(x, CallsOf(w)) /\ Has(x, Tells(s, TRUE)) /\ ~Has(x, Tells(s, FALSE))
    <3>1. \A M : Has(x, M) <=> p \in M
      BY OneHeld
    <3> HIDE DEF x
    <3> QED
      BY <1>4, <3>1
  <2> QED
    BY <1>2, <1>7, <1>8, <2>1, Zenon DEF Utters, Adds, Begins, Send
<1>9. CASE running' = running /\ (Send(w, <<p, q>>) \/ Send(w, <<p, f, q>>))
  <2>1. ASSUME NEW x \in {<<p, q>>, <<p, f, q>>}
        PROVE  /\ ~Has(x, Fatals(s)) /\ ~Has(x, CallsOf(w)) /\ Has(x, Tells(s, TRUE))
               /\ n > 0 => ~Has(x, Tells(s, FALSE))
               /\ ~(n > 0) => /\ Has(x, Tells(s, FALSE))
                              /\ Followed(x, Tells(s, TRUE), Tells(s, FALSE))
                              /\ Never(x, Tells(s, FALSE), Tells(s, TRUE))
    <3> DEFINE Facts(y) ==
          /\ \A M \in {Fatals(s), CallsOf(w), Tells(s, TRUE), Tells(s, FALSE)} :
               Has(y, M) <=> p \in M \/ q \in M
          /\ q \notin Tells(s, TRUE) /\ q \in Tells(s, FALSE)
               => Followed(y, Tells(s, TRUE), Tells(s, FALSE))
          /\ p \notin Tells(s, FALSE) => Never(y, Tells(s, FALSE), Tells(s, TRUE))
    <3>1. Facts(<<p, q>>)
      <4>1. \A M, N :
              /\ Has(<<p, q>>, M) <=> p \in M \/ q \in M
              /\ (p \in M => q \notin N) => Never(<<p, q>>, M, N)
              /\ (p \in M => q \in N) /\ q \notin M => Followed(<<p, q>>, M, N)
        BY TwoHeld
      <4> HIDE DEF s
      <4> QED
        BY <4>1
    <3>2. Facts(<<p, f, q>>)
      <4>1. \A M, N : f \notin M /\ f \notin N =>
              /\ Has(<<p, f, q>>, M) <=> p \in M \/ q \in M
              /\ (p \in M => q \notin N) => Never(<<p, f, q>>, M, N)
              /\ (p \in M => q \in N) /\ q \notin M => Followed(<<p, f, q>>, M, N)
        BY ThreeHeld
      <4> HIDE DEF s
      <4> QED
        BY <1>6, <4>1
    <3>3. Facts(x)
      BY <2>1, <3>1, <3>2
    <3> HIDE DEF s
    <3> QED
      BY <1>4, <1>5, <3>3
  <2>2. running[w] > 0 <=> ~(running[w] = 0)
    BY <1>1 DEF n
  <2>3. PICK x \in {<<p, q>>, <<p, f, q>>} : Send(w, x)
    BY <1>9
  <2>4. x \in Seq(FromWorkerMsg(w))
    BY <1>7
  <2>5. Begins(w, x)
    BY <1>2, <1>9, <2>1, <2>2 DEF Begins, n
  <2> QED
    BY <1>2, <2>1, <2>3, <2>4, <2>5, Zenon DEF Utters, Adds, Send
<1> QED
  BY <1>3, <1>8, <1>9

LEMMA Ending ==
  ASSUME WireTypes, WorkerTypes, NEW w \in Worker, HandlerSettles(w)
  PROVE  Utters(w)
PROOF
<1> DEFINE s == w[1]
           last == phase[w] = "drain" /\ running[w] = 1
           n == running[w] - 1
           q == Busy(w, n)
           f == Failed(w, FALSE)
           e == IF last THEN <<DestroyOk>> ELSE <<>>
           g == <<q>> \o e
<1>1. /\ n \in Int /\ (n > 0 <=> running[w] > 1) /\ running[w] \in Nat
      /\ w \in up /\ ran' = ran /\ running[w] > 0 /\ running' = [running EXCEPT ![w] = @ - 1]
  BY DEF HandlerSettles, Turns, WorkerTypes
<1>2. Send(w, g) \/ Send(w, <<f>> \o g)
  BY DEF HandlerSettles
<1>3. /\ q \in FromWorkerMsg(w) /\ q \notin Fatals(s) /\ q \notin CallsOf(w)
      /\ n > 0 => q \in Tells(s, TRUE) /\ q \notin Tells(s, FALSE)
      /\ ~(n > 0) => q \in Tells(s, FALSE) /\ q \notin Tells(s, TRUE)
  BY <1>1, Kinship
<1>4. \A x \in {<<f>>, e} :
         /\ x \in Seq(FromWorkerMsg(w)) /\ ~Has(x, Fatals(s)) /\ ~Has(x, CallsOf(w))
         /\ ~Has(x, Tells(s, TRUE)) /\ ~Has(x, Tells(s, FALSE))
  <2>1. f \in Aside(w) /\ DestroyOk \in Aside(w)
    BY DEF Aside
  <2>2. \A a \in Aside(w) : \A x \in {<<>>, <<a>>} :
         /\ x \in Seq(FromWorkerMsg(w)) /\ ~Has(x, Fatals(s)) /\ ~Has(x, CallsOf(w))
         /\ ~Has(x, Tells(s, TRUE)) /\ ~Has(x, Tells(s, FALSE))
    BY AsideWords
  <2> QED
    BY <2>1, <2>2
<1> HIDE DEF e, f, q, n
<1>5. <<q>> \in Seq(FromWorkerMsg(w)) /\ g \in Seq(FromWorkerMsg(w)) /\ <<f>> \o g \in Seq(FromWorkerMsg(w))
  <2>1. <<q>> \in Seq(FromWorkerMsg(w)) /\ e \in Seq(FromWorkerMsg(w)) /\ <<f>> \in Seq(FromWorkerMsg(w))
    BY <1>3, <1>4
  <2>2. g \in Seq(FromWorkerMsg(w))
    BY <2>1, JoinFacts
  <2> QED
    BY <2>1, <2>2, JoinFacts
<1>6. /\ \A M : Has(g, M) <=> Has(<<q>>, M) \/ Has(e, M)
      /\ \A M : Has(<<f>> \o g, M) <=> Has(<<f>>, M) \/ Has(g, M)
  <2>1. e \in Seq(FromWorkerMsg(w)) /\ <<f>> \in Seq(FromWorkerMsg(w))
    BY <1>4
  <2> QED
    BY <1>5, <2>1, PutBehind
<1>7. \A M : Has(<<q>>, M) <=> q \in M
  BY OneHeld
<1> HIDE DEF g
<1>8. \A x \in {g, <<f>> \o g} :
        /\ ~Has(x, Fatals(s)) /\ ~Has(x, CallsOf(w))
        /\ n > 0 => Has(x, Tells(s, TRUE)) /\ ~Has(x, Tells(s, FALSE))
        /\ ~(n > 0) => Has(x, Tells(s, FALSE)) /\ ~Has(x, Tells(s, TRUE))
  <2>1. ~Has(g, Fatals(s)) /\ ~Has(g, CallsOf(w))
    BY <1>3, <1>4, <1>6, <1>7
  <2>2. /\ n > 0 => Has(g, Tells(s, TRUE)) /\ ~Has(g, Tells(s, FALSE))
        /\ ~(n > 0) => Has(g, Tells(s, FALSE)) /\ ~Has(g, Tells(s, TRUE))
    BY <1>3, <1>4, <1>6, <1>7
  <2>3. ~Has(<<f>> \o g, Fatals(s)) /\ ~Has(<<f>> \o g, CallsOf(w))
    BY <1>4, <1>6, <2>1
  <2>4. /\ n > 0 => Has(<<f>> \o g, Tells(s, TRUE)) /\ ~Has(<<f>> \o g, Tells(s, FALSE))
        /\ ~(n > 0) => Has(<<f>> \o g, Tells(s, FALSE)) /\ ~Has(<<f>> \o g, Tells(s, TRUE))
    BY <1>4, <1>6, <2>2
  <2> QED
    BY <2>1, <2>2, <2>3, <2>4
<1>9. PICK x \in {g, <<f>> \o g} : Send(w, x)
  BY <1>2
<1>10. x \in Seq(FromWorkerMsg(w)) /\ ~Has(x, Fatals(s)) /\ ~Has(x, CallsOf(w))
  BY <1>5, <1>8
<1>11. /\ n > 0 => Has(x, Tells(s, TRUE)) /\ ~Has(x, Tells(s, FALSE))
       /\ ~(n > 0) => Has(x, Tells(s, FALSE)) /\ ~Has(x, Tells(s, TRUE))
  BY <1>8
<1>12. /\ running[w] > 1 => n > 0
       /\ running[w] = 1 => ~(n > 0)
  BY <1>1
<1> QED
  BY <1>1, <1>9, <1>10, <1>11, <1>12, Zenon DEF Utters, Adds, Ends, Send

LEMMA Calling ==
  ASSUME WireTypes, WorkerTypes, NEW w \in Worker, NEW kind \in Kinds, CallDesktop(w, kind)
  PROVE  Utters(w)
PROOF
<1> DEFINE k == asks[w] + 1
           m == [type |-> "call", from |-> w, ask |-> k, kind |-> kind]
<1>1. k \in Ask
  BY WiresAssumption DEF CallDesktop, WorkerTypes, Ask
<1>2. /\ w \in up /\ UNCHANGED <<running, ran>> /\ Send(w, <<m>>)
      /\ running[w] > 0 \/ w[1] \in NoView
  BY Zenon DEF CallDesktop, Turns
<1> HIDE DEF k
<1>3. /\ m \in FromWorkerMsg(w) /\ m \notin Fatals(w[1]) /\ m \in CallsOf(w)
      /\ m \notin Tells(w[1], TRUE) /\ m \notin Tells(w[1], FALSE)
  BY <1>1, Kinship
<1> HIDE DEF m
<1>4. <<m>> \in Seq(FromWorkerMsg(w))
  BY <1>3
<1>5. /\ ~Has(<<m>>, Fatals(w[1])) /\ Has(<<m>>, CallsOf(w))
      /\ ~Has(<<m>>, Tells(w[1], TRUE)) /\ ~Has(<<m>>, Tells(w[1], FALSE))
  BY <1>3, OneHeld
<1> QED
  BY <1>2, <1>4, <1>5, Zenon DEF Utters, Adds, Asks, Send

(* Every step of a thread that does not end it is one of the four.          *)
LEMMA Speaking ==
  ASSUME NoFatal, WireTypes, WorkerTypes, NEW w \in Worker, WorkerTurn(w) \/ Extension(w)
  PROVE  Utters(w)
PROOF
<1>1. w2h = [v \in Worker |-> w2h[v]] /\ w2h[w] \in Seq(FromWorkerMsg(w))
  BY DEF WireTypes
<1>2. \A a \in {CreateOk, CreateErr, DestroyOk, Finished(w), Failed(w, FALSE)} : a \in Aside(w)
  BY DEF Aside
<1>3. ASSUME UNCHANGED w2h, w \in up, UNCHANGED <<running, ran>> PROVE Utters(w)
  <2>1. w2h[w] \o <<>> = w2h[w]
    <3>1. <<>> \in Seq(FromWorkerMsg(w))
      OBVIOUS
    <3> QED
      BY <1>1, <3>1, JoinFacts
  <2>2. Send(w, <<>>)
    BY <1>1, <1>3, <2>1 DEF Send
  <2>3. <<>> \in {<<>>, <<CreateOk>>, <<CreateOk, CreateOk>>}
    OBVIOUS
  <2> QED
    BY <1>2, <1>3, <2>2, <2>3, Idling
<1>4. ASSUME NEW a \in Aside(w), NEW b \in Aside(w), NEW x \in {<<>>, <<a>>, <<a, b>>},
             w \in up, Send(w, x), UNCHANGED <<running, ran>>
      PROVE  Utters(w)
  BY <1>4, Idling
<1>5. CASE Start(w)
  <2>1. w \in up /\ UNCHANGED <<running, ran>>
    BY <1>5, Zenon DEF Start, Receives, Turns
  <2>2. \/ UNCHANGED w2h
        \/ \E a, b \in Aside(w) : Send(w, <<a>>) \/ Send(w, <<a, b>>)
    BY <1>2, <1>5, Zenon DEF Start, NoFatal
  <2>3. ASSUME NEW a \in Aside(w), NEW b \in Aside(w), Send(w, <<a>>) \/ Send(w, <<a, b>>)
        PROVE  Utters(w)
    BY <1>4, <2>1, <2>3
  <2> QED
    BY <1>3, <2>1, <2>2, <2>3
<1>6. CASE Dispatch(w)
  <2>1. CASE phase[w] = "down"
    <3>1. UNCHANGED w2h /\ w \in up /\ UNCHANGED <<running, ran>>
      BY <1>6, <2>1 DEF Dispatch, Receives, Turns
    <3> QED
      BY <1>3, <3>1
  <2>2. CASE phase[w] # "down"
    BY <1>6, <2>2, Beginning
  <2> QED
    BY <2>1, <2>2
<1>7. CASE Answered(w) \/ CallTimesOut(w)
  <2>1. UNCHANGED w2h /\ w \in up /\ UNCHANGED <<running, ran>>
    BY <1>7 DEF Answered, CallTimesOut, Receives, Turns, wires
  <2> QED
    BY <1>3, <2>1
<1>8. CASE Destroyed(w)
  <2>1. w \in up /\ UNCHANGED <<running, ran>> /\ (UNCHANGED w2h \/ Send(w, <<DestroyOk>>))
    BY <1>8 DEF Destroyed, Receives, Turns
  <2> QED
    BY <1>2, <1>3, <1>4, <2>1
<1>9. CASE WorkerCeiling(w)
  <2>1. w \in up /\ UNCHANGED <<running, ran>> /\ Send(w, <<DestroyOk>>)
    BY <1>9 DEF WorkerCeiling, Turns
  <2> QED
    BY <1>2, <1>4, <2>1
<1>10. CASE Finishes(w)
  <2>1. w \in up /\ UNCHANGED <<running, ran>> /\ (Send(w, <<Finished(w)>>) \/ Send(w, <<Failed(w, FALSE)>>))
    BY <1>10 DEF Finishes, Turns
  <2> QED
    BY <1>2, <1>4, <2>1
<1>11. ~Fatal(w)
  BY DEF Fatal, NoFatal
<1>12. CASE \E kind \in Kinds : CallDesktop(w, kind)
  BY <1>12, Calling
<1>13. CASE HandlerSettles(w)
  BY <1>13, Ending
<1> QED
  BY <1>5, <1>6, <1>7, <1>8, <1>9, <1>10, <1>11, <1>12, <1>13 DEF WorkerTurn, Extension

----------------------------------------------------------------------------
(* What a reader, or a writer's end, leaves of a port.                      *)
Left(q, p) ==
  \/ p = q \/ p \in Prefixes(q)
  \/ q # <<>> /\ (p = Tail(q) \/ p \in Prefixes(Tail(q)))

LEMMA LeftFacts ==
  ASSUME NEW S, NEW q \in Seq(S), NEW p, Left(q, p), NEW M, NEW N
  PROVE  /\ p \in Seq(S) /\ (q = <<>> => p = <<>>)
         /\ Has(p, M) => Has(q, M)
         /\ Never(q, M, N) => /\ Never(p, M, N)
                              /\ Has(p, M) /\ Has(q, N) => Has(p, N) \/ Head(q) \in N
PROOF
<1>1. CASE p = q
  BY <1>1
<1>2. CASE p \in Prefixes(q)
  <2>1. p \in Seq(S) /\ Len(p) \in 0..Len(q)
    BY <1>2, PrefixFacts
  <2>2. q = <<>> => p = <<>>
    BY <2>1, PortFacts
  <2> QED
    BY <1>2, <2>1, <2>2, CutShort
<1>3. ASSUME q # <<>>, p = Tail(q) \/ p \in Prefixes(Tail(q))
      PROVE  /\ p \in Seq(S)
             /\ Has(p, M) => Has(q, M)
             /\ Never(q, M, N) => /\ Never(p, M, N)
                                  /\ Has(p, M) /\ Has(q, N) => Has(p, N) \/ Head(q) \in N
  <2> DEFINE t == Tail(q)
  <2>1. /\ t \in Seq(S) /\ (Has(t, M) => Has(q, M))
        /\ Has(q, N) => Head(q) \in N \/ Has(t, N)
        /\ Never(q, M, N) => Never(t, M, N)
    BY <1>3, PortFacts, TakenFrom
  <2>2. ASSUME p \in Prefixes(t)
        PROVE  /\ p \in Seq(S) /\ (Has(p, M) => Has(t, M))
               /\ Never(t, M, N) => Never(p, M, N) /\ (Has(p, M) /\ Has(t, N) => Has(p, N))
    BY <2>1, <2>2, PrefixFacts, CutShort
  <2> HIDE DEF t
  <2>3. p = t \/ p \in Prefixes(t)
    BY <1>3 DEF t
  <2> QED
    BY <2>1, <2>2, <2>3
<1> QED
  BY <1>1, <1>2, <1>3 DEF Left

LEMMA LeftHolds ==
  ASSUME NEW S, NEW q \in Seq(S), NEW p, p = q \/ Left(q, p)
  PROVE  (\A M : Has(p, M) => Has(q, M)) /\ (q = <<>> => p = <<>>)
PROOF
<1>1. Left(q, p)
  BY DEF Left
<1>2. ASSUME NEW M PROVE (Has(p, M) => Has(q, M)) /\ (q = <<>> => p = <<>>)
  <2>1. /\ p \in Seq(S) /\ (q = <<>> => p = <<>>)
        /\ Has(p, M) => Has(q, M)
        /\ Never(q, M, M) => Never(p, M, M) /\ (Has(p, M) /\ Has(q, M) => Has(p, M) \/ Head(q) \in M)
    BY <1>1, LeftFacts
  <2> QED
    BY <2>1
<1>3. (Has(p, S) => Has(q, S)) /\ (q = <<>> => p = <<>>)
  BY <1>2
<1> QED
  BY <1>2, <1>3

----------------------------------------------------------------------------
(* Without a reload that finds a session, what the host does with a thread  *)
(* is one of five things.                                                   *)
Lone == reloading = {} /\ \A w \in Worker : creating[w] # "reload"

Cuts(w) == \E p : Left(w2h[w], p) /\ w2h' = [w2h EXCEPT ![w] = p]

Stops(w) ==
  /\ ending[w] # "no" /\ ending' = [ending EXCEPT ![w] = "no"]
  /\ creating' = [creating EXCEPT ![w] = "no"]
  /\ up' = up \ {w} /\ h2w' = [h2w EXCEPT ![w] = <<>>] /\ Cuts(w)
  /\ h2m' = h2m \/ h2m' = h2m \o <<Refused(w[1])>>
  /\ UNCHANGED <<hSess, hBusy, ended, made, process, m2h, exited, reloading>>

Drops(w) ==
  /\ w2h[w] # <<>> /\ Head(w2h[w]).type \in {"createOk", "createErr", "destroyOk"} /\ Take(w)
  /\ creating' = creating \/ creating' = [creating EXCEPT ![w] = "no"]
  /\ h2m' = h2m \/ h2m' = h2m \o <<Created(w[1])>>
  /\ UNCHANGED <<hSess, hBusy, ended, ending, reloading, made, process, m2h, h2w, up, exited>>

Fails(w) ==
  /\ w2h[w] # <<>> /\ creating[w] = "main" /\ creating' = [creating EXCEPT ![w] = "no"]
  /\ hSess' = [hSess EXCEPT ![w[1]] = 0] /\ ended' = ended \cup {w}
  /\ up' = up \ {w} /\ h2w' = [h2w EXCEPT ![w] = <<>>] /\ Cuts(w)
  /\ h2m' = h2m \o <<Refused(w[1])>>
  /\ UNCHANGED <<hBusy, ending, reloading, made, process, m2h, exited>>

Passes(w) ==
  /\ w2h[w] # <<>> /\ Head(w2h[w]) \in News(w) /\ Take(w)
  /\ h2m' = h2m \o <<Head(w2h[w])>>
  /\ IF Head(w2h[w]).type = "busy" /\ hSess[w[1]] # 0
       THEN hBusy' = [hBusy EXCEPT ![<<w[1], hSess[w[1]]>>] = Head(w2h[w]).busy]
       ELSE hBusy' = hBusy
  /\ UNCHANGED <<hSess, ended, creating, ending, reloading, made, process, m2h, h2w, up, exited>>

Dies(w) ==
  /\ w \in exited /\ w2h[w] = <<>> /\ exited' = exited \ {w}
  /\ \/ w \in ended /\ UNCHANGED <<hSess, ended, creating, h2m>>
     \/ /\ w \notin ended /\ ended' = ended \cup {w}
        /\ hSess' = [hSess EXCEPT ![w[1]] = 0]
        /\ creating' = [creating EXCEPT ![w] = "no"]
        /\ \/ h2m' = h2m \o <<Failed(w, TRUE)>>
           \/ h2m' = h2m \o <<Failed(w, TRUE), Refused(w[1])>>
  /\ UNCHANGED <<hBusy, ending, reloading, made, process, m2h, h2w, w2h, up>>

LEMMA Stopped ==
  ASSUME Core, Lone, NEW w \in Worker, ending[w] # "no",
         NEW rest, rest = w2h[w] \/ (w2h[w] # <<>> /\ rest = Tail(w2h[w])), FinishDestroy(w, rest)
  PROVE  Stops(w)
PROOF
<1> DEFINE s == w[1]
           n == made[s] + 1
           again == /\ w \in reloading /\ s \notin InMap
                    /\ Cardinality(InMap) < MaxSessions
<1>1. /\ ending' = [ending EXCEPT ![w] = "no"]
      /\ reloading' = reloading \ {w}
      /\ creating' = [v \in Worker |-> IF v = w THEN "no"
                        ELSE IF again /\ v = <<s, n>> THEN "reload" ELSE creating[v]]
      /\ hSess' = IF again THEN [hSess EXCEPT ![s] = n] ELSE hSess
      /\ made' = IF again THEN [made EXCEPT ![s] = n] ELSE made
      /\ up' = (up \ {w}) \cup (IF again THEN {<<s, n>>} ELSE {})
      /\ h2w' = [v \in Worker |-> IF v = w THEN <<>>
                   ELSE IF again /\ v = <<s, n>> THEN <<[type |-> "create"]>> ELSE h2w[v]]
      /\ \E left \in Prefixes(rest) : w2h' = [w2h EXCEPT ![w] = left]
      /\ h2m' = IF creating[w] = "main" THEN ToMain(<<Refused(s)>>) ELSE h2m
      /\ UNCHANGED <<hBusy, ended, process, m2h, exited>>
  BY Zenon DEF FinishDestroy
<1>2. ~again /\ reloading' = reloading
  BY <1>1 DEF Lone
<1> HIDE DEF again
<1>3. creating' = [creating EXCEPT ![w] = "no"] /\ h2w' = [h2w EXCEPT ![w] = <<>>]
  BY <1>1, <1>2 DEF Core, HostTypes, WireTypes
<1>4. up' = up \ {w} /\ hSess' = hSess /\ made' = made
  BY <1>1, <1>2
<1>5. h2m' = h2m \/ h2m' = h2m \o <<Refused(s)>>
  BY <1>1 DEF ToMain
<1>6. Cuts(w)
  <2>1. \A left \in Prefixes(rest) : Left(w2h[w], left)
    BY DEF Left
  <2> QED
    BY <1>1, <2>1 DEF Cuts
<1> QED
  BY <1>1, <1>2, <1>3, <1>4, <1>5, <1>6 DEF Stops

LEMMA Chained ==
  ASSUME NEW a, NEW b
  PROVE  <<a>> \o <<>> = <<a>> /\ <<a>> \o <<b>> = <<a, b>>
PROOF
<1> DEFINE p == <<a>>
           q == <<b>>
           x == p \o q
           y == <<a, b>>
<1>1. p \in Seq({a, b}) /\ q \in Seq({a, b}) /\ <<>> \in Seq({a, b})
  OBVIOUS
<1>2. Len(p) = 1 /\ Len(q) = 1 /\ p[1] = a /\ q[1] = b
  OBVIOUS
<1>3. y \in Seq({a, b}) /\ Len(y) = 2 /\ y[1] = a /\ y[2] = b
  OBVIOUS
<1> HIDE DEF p, q, y
<1>4. /\ p \o <<>> = p /\ x \in Seq({a, b}) /\ Len(x) = Len(p) + Len(q)
      /\ \A i \in 1..Len(p) : x[i] = p[i]
      /\ \A i \in 1..Len(q) : x[Len(p) + i] = q[i]
  BY <1>1, JoinFacts
<1> HIDE DEF x
<1>5. Len(x) = 2 /\ x[1] = a /\ x[2] = b
  BY <1>2, <1>4
<1>6. x = y
  BY <1>3, <1>4, <1>5
<1> QED
  BY <1>4, <1>6 DEF p, q, x, y

LEMMA Outcomes ==
  ASSUME Core, Lone, NEW w \in Worker, HostFromWorker(w) \/ Deadline(w)
  PROVE  process = "up" /\ (Stops(w) \/ Drops(w) \/ Fails(w) \/ Passes(w) \/ Dies(w))
PROOF
<1>0. process = "up"
  BY DEF HostFromWorker, HostCreated, HostCreateFails, HostDestroyed, HostBusy, HostRelays,
         HostDied, Deadline, HostDeadline, Hears
<1> DEFINE Does == Stops(w) \/ Drops(w) \/ Fails(w) \/ Passes(w) \/ Dies(w)
<1>a. /\ Stops(w) => Does
      /\ Drops(w) => Does
      /\ Fails(w) => Does
      /\ Passes(w) => Does
      /\ Dies(w) => Does
  OBVIOUS
<1> SUFFICES Does
  BY <1>0
<1> HIDE DEF Does
<1>1. CASE Deadline(w)
  <2>1. ending[w] # "no" /\ FinishDestroy(w, w2h[w])
    BY <1>1 DEF Deadline, HostDeadline
  <2>2. Stops(w)
    BY <2>1, Stopped, Zenon
  <2> QED
    BY <2>2, <1>a
<1>2. CASE HostDestroyed(w)
  <2>1. CASE ending[w] # "no"
    <3>1. w2h[w] # <<>> /\ FinishDestroy(w, Tail(w2h[w]))
      BY <1>2, <2>1 DEF HostDestroyed, Hears
    <3> QED
      BY <2>1, <3>1, <1>a, Stopped
  <2>2. CASE ending[w] = "no"
    BY <1>2, <2>2, <1>a DEF HostDestroyed, Hears, Drops, hostVars
  <2> QED
    BY <2>1, <2>2
<1>3. CASE HostCreated(w)
  BY <1>3, <1>a DEF HostCreated, Hears, Drops, ToMain
<1>4. CASE HostCreateFails(w)
  <2>1. CASE creating[w] = "no"
    BY <1>4, <2>1, <1>a DEF HostCreateFails, Hears, Drops
  <2>2. CASE creating[w] # "no"
    <3>1. creating[w] = "main"
      BY <2>2 DEF Lone, Core, HostTypes
    <3>2. /\ w2h[w] # <<>> /\ hSess' = [hSess EXCEPT ![w[1]] = 0] /\ ended' = ended \cup {w}
          /\ creating' = [creating EXCEPT ![w] = "no"] /\ h2m' = ToMain(<<Refused(w[1])>>)
          /\ up' = up \ {w} /\ h2w' = [h2w EXCEPT ![w] = <<>>]
          /\ \E left \in Prefixes(Tail(w2h[w])) : w2h' = [w2h EXCEPT ![w] = left]
          /\ UNCHANGED <<hBusy, ending, reloading, made, process, m2h, exited>>
      BY <1>4, <2>2, <3>1, Zenon DEF HostCreateFails, Hears
    <3>3. \A left \in Prefixes(Tail(w2h[w])) : Left(w2h[w], left)
      BY <3>2 DEF Left
    <3>4. Cuts(w)
      BY <3>2, <3>3 DEF Cuts
    <3> QED
      BY <3>1, <3>2, <3>4, <1>a, Zenon DEF Fails, ToMain
  <2> QED
    BY <2>1, <2>2
<1>5. CASE HostBusy(w) \/ HostRelays(w)
  <2>1. w2h[w] # <<>> /\ Head(w2h[w]) \in News(w) /\ w[1] \in Sid
    BY <1>5, FromThread DEF HostBusy, HostRelays, Hears, Core, Worker
  <2>2. /\ Take(w) /\ h2m' = h2m \o <<Head(w2h[w])>>
        /\ UNCHANGED <<hSess, ended, creating, ending, reloading, made, process, m2h, h2w, up, exited>>
    BY <1>5 DEF HostBusy, HostRelays, hostVars, ToMain
  <2>3. IF Head(w2h[w]).type = "busy" /\ hSess[w[1]] # 0
          THEN hBusy' = [hBusy EXCEPT ![<<w[1], hSess[w[1]]>>] = Head(w2h[w]).busy]
          ELSE hBusy' = hBusy
    <3>1. CASE HostBusy(w)
      BY <2>1, <3>1 DEF HostBusy, Hears, InMap, Thread
    <3>2. CASE HostRelays(w)
      BY <3>2 DEF HostRelays, Hears, hostVars
    <3> QED
      BY <1>5, <3>1, <3>2
  <2> QED
    BY <2>1, <2>2, <2>3, <1>a, Zenon DEF Passes
<1>6. CASE HostDied(w)
  <2>1. /\ w \in exited /\ w2h[w] = <<>> /\ exited' = exited \ {w}
        /\ UNCHANGED <<hBusy, ending, reloading, made, process, m2h, h2w, w2h, up>>
    BY <1>6 DEF HostDied
  <2>2. CASE w \in ended
    BY <1>6, <2>1, <2>2, <1>a DEF HostDied, Dies
  <2>3. CASE w \notin ended
    <3> DEFINE y == <<Failed(w, TRUE)>>
                    \o (IF creating[w] = "main" THEN <<Refused(w[1])>> ELSE <<>>)
    <3>1. /\ ended' = ended \cup {w} /\ hSess' = [hSess EXCEPT ![w[1]] = 0]
          /\ creating' = [creating EXCEPT ![w] = "no"] /\ h2m' = h2m \o y
      BY <1>6, <2>3, Zenon DEF HostDied, ToMain, Failed
    <3>2. y = <<Failed(w, TRUE)>> \/ y = <<Failed(w, TRUE), Refused(w[1])>>
      BY Chained
    <3> HIDE DEF y
    <3>3. \/ h2m' = h2m \o <<Failed(w, TRUE)>>
          \/ h2m' = h2m \o <<Failed(w, TRUE), Refused(w[1])>>
      BY <3>1, <3>2
    <3> QED
      BY <2>1, <2>3, <3>1, <3>3, <1>a, Zenon DEF Dies
  <2> QED
    BY <2>2, <2>3
<1> QED
  BY <1>1, <1>2, <1>3, <1>4, <1>5, <1>6 DEF HostFromWorker

----------------------------------------------------------------------------
(* What main, the host and the ports hold of one session.                   *)

Gone(s) == hSess[s] = 0 /\ ~Has(m2h, Of("create", s))
Doomed(s) ==
  \/ Has(m2h, Of("reload", s)) \/ why[s] \in {"failed", "exit"}
  \/ Has(h2m, Of("refused", s)) \/ Has(h2m, Fatals(s))

Once(s) ==
  /\ made[s] <= 1
  /\ Doomed(s) => Gone(s)
  /\ <<s, 1>> \in ended => hSess[s] = 0
  /\ hSess[s] # 0 => <<s, 1>> \in up \cup exited
  /\ process # "up" => m2h = <<>> /\ hSess[s] = 0

Fresh(s) ==
  /\ s \in open \/ launch[s] = "no" => s \notin drain /\ why[s] = "open"
  /\ launch[s] = "no" => /\ s \notin open \cup hiding /\ made[s] = 0 /\ ~Doomed(s)
                         /\ ~Has(m2h, Of("destroy", s))

Matched(s) ==
  /\ process = "none" => s \notin open /\ h2m = <<>>
  /\ s \in open /\ process = "up" =>
       \/ Has(m2h, Of("create", s)) \/ hSess[s] # 0
       \/ Has(h2m, Of("refused", s)) \/ Has(h2m, Fatals(s))
  /\ Has(m2h, Of("destroy", s)) => s \notin open
  /\ s \notin open /\ hSess[s] # 0 => Has(m2h, Of("destroy", s))
  /\ s \notin open => Followed(m2h, Of("create", s), Of("destroy", s))

Unborn ==
  /\ \A w \in Worker : ~Has(w2h[w], Fatals(w[1]))
  /\ \A w \in Worker : made[w[1]] < w[2] =>
       w2h[w] = <<>> /\ running[w] = 0 /\ ran[w] = 0 /\ ~hBusy[w]
  /\ \A s \in Sid : made[s] = 0 => ~Has(h2m, Spoken(s)) /\ ~busy[s]

----------------------------------------------------------------------------
(* What main does with a session, short of launching it.                    *)
Takes == h2m' = h2m \/ (h2m # <<>> /\ h2m' = Tail(h2m))

Parts(s) ==
  /\ s \in open' => s \in open
  /\ launch[s] # "no" => launch'[s] # "no"
  /\ why'[s] # why[s] => s \notin open' /\ launch[s] # "no"
  /\ why'[s] \in {"failed", "exit"} => Doomed(s) \/ process # "up"
  /\ s \in drain' => s \in drain \/ (s \in open /\ s \notin open')
  /\ s \in hiding' => s \in hiding \/ launch[s] # "no"
  /\ Takes
  /\ s \in open' /\ h2m # <<>> /\ h2m' = Tail(h2m) =>
       Head(h2m) \notin Of("refused", s) /\ Head(h2m) \notin Fatals(s)

Posts(s) ==
  \/ /\ process' = "up" /\ (process = "up" \/ s \notin open)
     /\ \E x \in Seq(ToHostMsg) :
          /\ m2h' = m2h \o x /\ ~Has(x, Of("create", s))
          /\ Has(x, Of("reload", s)) => Doomed(s) /\ launch[s] # "no"
          /\ Has(x, Of("destroy", s)) => s \in open /\ s \notin open'
          /\ s \in open /\ s \notin open' => Has(x, Of("destroy", s)) \/ Doomed(s)
  \/ /\ process # "up" /\ process' # "up" /\ m2h' = m2h
     /\ process' = "none" => process = "none" \/ (s \notin open' /\ h2m' = <<>>)

Deals(s) == Parts(s) /\ Posts(s)

LEMMA PlainSays ==
  ASSUME NEW x \in Seq(Plain), NEW s
  PROVE  x \in Seq(ToHostMsg) /\ ~Has(x, Of("create", s)) /\ ~Has(x, Of("reload", s))
PROOF
<1>1. Plain \subseteq ToHostMsg
  BY DEF ToHostMsg, Post
<1>2. \A i \in 1..Len(x) : x[i] \in Plain
  BY PortFacts
<1>3. \A m \in Plain : m \notin Of("create", s) /\ m \notin Of("reload", s)
  BY DEF Plain, AnswerMsgs, Of
<1> QED
  BY <1>1, <1>2, <1>3, SeqGrows DEF Has

LEMMA Posting1 ==
  ASSUME NEW s, NEW x \in Seq(Plain), m2h' = ToHost(x), process' = process,
         Has(x, Of("destroy", s)) => s \in open /\ s \notin open',
         s \in open /\ s \notin open' => Has(x, Of("destroy", s)) \/ Doomed(s)
  PROVE  Posts(s)
PROOF
<1>1. x \in Seq(ToHostMsg) /\ ~Has(x, Of("create", s)) /\ ~Has(x, Of("reload", s))
  BY PlainSays
<1>2. CASE process = "up"
  BY <1>1, <1>2, Zenon DEF Posts, ToHost
<1>3. CASE process # "up"
  BY <1>3 DEF Posts, ToHost
<1> QED
  BY <1>2, <1>3

(* Nothing posted about the session.                                        *)
LEMMA Posting0 ==
  ASSUME NEW s, m2h \in Seq(ToHostMsg), process' = process, s \in open => s \in open' \/ Doomed(s),
         \/ m2h' = m2h
         \/ \E m \in Plain : m.type # "destroy" /\ m2h' = ToHost(<<m>>)
  PROVE  Posts(s)
PROOF
<1>1. PICK x \in Seq(Plain) : m2h' = ToHost(x) /\ ~Has(x, Of("destroy", s))
  <2>1. CASE m2h' = m2h
    <3>1. <<>> \in Seq(Plain) /\ <<>> \in Seq(ToHostMsg)
      OBVIOUS
    <3>2. m2h' = ToHost(<<>>)
      BY <2>1, <3>1, JoinFacts DEF ToHost
    <3> QED
      BY <3>1, <3>2, NoneHeld
  <2>2. ASSUME NEW m \in Plain, m.type # "destroy", m2h' = ToHost(<<m>>)
        PROVE  \E x \in Seq(Plain) : m2h' = ToHost(x) /\ ~Has(x, Of("destroy", s))
    <3>1. <<m>> \in Seq(Plain) /\ m \notin Of("destroy", s)
      BY <2>2 DEF Of
    <3>2. ~Has(<<m>>, Of("destroy", s))
      BY <3>1, OneHeld
    <3> QED
      BY <2>2, <3>1, <3>2
  <2> QED
    BY <2>1, <2>2
<1> QED
  BY <1>1, Posting1

LEMMA Closed1 ==
  ASSUME NEW S \in SUBSET Sid, NEW own, NEW then \in Seq(Plain), MainTypes,
         m2h \in Seq(ToHostMsg), CloseAnd(S, own, then), process' = process,
         NEW s \in Sid, ~Has(then, Of("destroy", s))
  PROVE  /\ open' = open \ S /\ Posts(s)
         /\ s \in drain' => s \in drain \/ (s \in open /\ s \notin open')
         /\ why'[s] = IF s \in open \ open' THEN IF s \in own THEN "own" ELSE "user" ELSE why[s]
PROOF
<1>0. /\ open' = open \ S
      /\ \A r \in Sid : why'[r] = IF r \in open \ open' THEN IF r \in own THEN "own" ELSE "user"
                             ELSE why[r]
  BY Closing
<1>1. /\ open' = open \ S
      /\ why'[s] = IF s \in open \ open' THEN IF s \in own THEN "own" ELSE "user" ELSE why[s]
  BY <1>0
<1>2. PICK x \in Seq(Plain) : m2h' = ToHost(x) /\ Closes(x, then)
  BY Closing
<1>3. Msg("destroy", s) \in Of("destroy", s)
  BY DEF Msg, Of
<1>4. s \in open /\ s \notin open' => Has(x, Of("destroy", s))
  BY <1>2, <1>3 DEF Has, Closes
<1>5. Has(x, Of("destroy", s)) => s \in open /\ s \notin open'
  <2> SUFFICES ASSUME NEW i \in 1..Len(x), x[i] \in Of("destroy", s)
               PROVE  s \in open /\ s \notin open'
    BY DEF Has
  <2>1. x[i].type = "destroy" /\ x[i].sid = s
    BY Sorted
  <2>2. ~\E j \in 1..Len(then) : x[i] = then[j]
    BY DEF Has
  <2> QED
    BY <1>2, <2>1, <2>2 DEF Closes
<1>6. Posts(s)
  BY <1>2, <1>4, <1>5, Posting1
<1>7. s \in drain' => s \in drain \/ (s \in open /\ s \notin open')
  BY DEF CloseAnd
<1> QED
  BY <1>1, <1>6, <1>7

LEMMA HeardSpoken ==
  ASSUME Core, Unborn, h2m # <<>>
  PROVE  LET m == Head(h2m) IN
         /\ Tail(h2m) \in Seq(ToMainMsg)
         /\ m.type \in {"created", "refused", "busy", "failed", "finished"} => m.sid \in Sid
         /\ m.type \in {"busy", "failed", "finished"} => made[m.sid] # 0
         /\ m.type = "call" => m.from \in Worker /\ m.from[1] \in Sid /\ made[m.from[1]] # 0
PROOF
<1> DEFINE m == Head(h2m)
<1>1. h2m \in Seq(ToMainMsg)
  BY DEF Core, WireTypes
<1>2. Tail(h2m) \in Seq(ToMainMsg) /\ m \in ToMainMsg /\ \A M : m \in M => Has(h2m, M)
  BY <1>1, PortFacts, TakenFrom
<1> HIDE DEF m
<1>3. CASE m \in [type : {"created", "refused"}, sid : Sid]
  BY <1>2, <1>3 DEF m
<1>4. ASSUME NEW w \in Worker, m \in News(w)
      PROVE  /\ m.type \in {"busy", "failed", "finished", "call"}
             /\ m.type # "call" => m.sid = w[1]
             /\ m.type = "call" => m.from = w
             /\ w[1] \in Sid /\ made[w[1]] # 0
  <2>1. w[1] \in Sid
    BY DEF Worker
  <2>2. m \in Spoken(w[1])
    BY <1>4 DEF Spoken
  <2>3. made[w[1]] # 0
    BY <1>2, <2>1, <2>2 DEF Unborn
  <2> QED
    BY <1>4, <2>1, <2>3 DEF News
<1>5. CASE \E w \in Worker : m \in News(w)
  BY <1>2, <1>4, <1>5 DEF m
<1>6. (\E w \in Worker : m \in News(w)) \/ m \in [type : {"created", "refused"}, sid : Sid]
  BY <1>2 DEF ToMainMsg
<1> QED
  BY <1>3, <1>5, <1>6 DEF m

LEMMA Dealing ==
  ASSUME Core, Unborn, NEW s \in Sid, Once(s), Fresh(s), Matched(s),
         MainUser \/ MainStep, ~Launch(s)
  PROVE  Deals(s)
PROOF
<1>0. /\ MainTypes /\ m2h \in Seq(ToHostMsg) /\ h2m \in Seq(ToMainMsg)
      /\ s \in open => launch[s] # "no" /\ s \notin drain /\ why[s] = "open"
      /\ launch[s] = "no" => made[s] = 0 /\ s \notin drain /\ s \notin open /\ why[s] = "open"
  BY DEF Core, WireTypes, Fresh
<1>1. ASSUME NEW r \in Sid, Launch(r) PROVE Deals(s)
  <2>1. r # s
    BY <1>1
  <2>2. Parts(s)
    <3>1. /\ UNCHANGED <<drain, hiding, why, h2m>> /\ open' = open \cup {r}
          /\ launch' = [launch EXCEPT ![r] = "waiting"]
      BY <1>1 DEF Launch
    <3>2. h2m # <<>> => h2m # Tail(h2m)
      BY <1>0, PortFacts
    <3> QED
      BY <1>0, <2>1, <3>1, <3>2 DEF Parts, Takes, MainTypes, Doomed
  <2>3. Posts(s)
    <3>1. CASE process = "dead"
      BY <1>1, <3>1 DEF Launch, Posts
    <3>2. CASE process # "dead"
      <4> DEFINE x == <<Msg("create", r)>>
      <4>1. Msg("create", r) \in ToHostMsg
        BY Alone DEF ToHostMsg
      <4>2. /\ Msg("create", r) \notin Of("create", s) /\ Msg("create", r) \notin Of("reload", s)
            /\ Msg("create", r) \notin Of("destroy", s)
        BY <2>1 DEF Msg, Of
      <4>3. x \in Seq(ToHostMsg)
        BY <4>1
      <4>4. ~Has(x, Of("create", s)) /\ ~Has(x, Of("reload", s)) /\ ~Has(x, Of("destroy", s))
        BY <4>2, OneHeld
      <4>5. m2h' = m2h \o x
        BY <1>0, <1>1, <3>2, <4>1 DEF Launch
      <4>6. process' = "up" /\ (process = "up" \/ s \notin open)
        BY <1>1, <3>2 DEF Launch, Matched, Core, WireTypes
      <4>7. s \in open => s \in open'
        BY <1>1 DEF Launch
      <4> HIDE DEF x
      <4> QED
        BY <4>3, <4>4, <4>5, <4>6, <4>7 DEF Posts
    <3> QED
      BY <3>1, <3>2
  <2> QED
    BY <2>2, <2>3 DEF Deals
<1>2. ASSUME NEW r \in Sid, UserReload(r) PROVE Deals(s)
  <2>1. /\ UNCHANGED <<launch, open, drain, hiding, why, process, h2m>> /\ m2h' = ToHost(<<Msg("reload", r)>>)
        /\ launch[r] = "ok" /\ why[r] \in {"failed", "exit"}
    BY <1>2 DEF UserReload
  <2>2. Parts(s)
    BY <2>1, <1>0, PortFacts DEF Parts, Takes, Doomed
  <2>3. Posts(s)
    <3>1. CASE process # "up"
      BY <2>1, <3>1 DEF ToHost, Posts
    <3>2. CASE process = "up"
      <4> DEFINE x == <<Msg("reload", r)>>
      <4>1. Msg("reload", r) \in ToHostMsg
        BY Alone DEF ToHostMsg
      <4>2. /\ Msg("reload", r) \notin Of("create", s) /\ (Msg("reload", r) \in Of("reload", s) => r = s)
            /\ Msg("reload", r) \notin Of("destroy", s)
        BY DEF Msg, Of
      <4>3. x \in Seq(ToHostMsg)
        BY <4>1
      <4>4. ~Has(x, Of("create", s)) /\ (Has(x, Of("reload", s)) => r = s) /\ ~Has(x, Of("destroy", s))
        BY <4>2, OneHeld
      <4>5. m2h' = m2h \o x
        BY <2>1, <3>2 DEF ToHost
      <4>6. r = s => Doomed(s) /\ launch[s] # "no"
        BY <2>1 DEF Doomed
      <4> HIDE DEF x
      <4> QED
        BY <2>1, <3>2, <4>3, <4>4, <4>5, <4>6 DEF Posts
    <3> QED
      BY <3>1, <3>2
  <2> QED
    BY <2>2, <2>3 DEF Deals
<1>a. h2m # <<>> => h2m # Tail(h2m)
  BY <1>0, PortFacts
<1>b. ASSUME h2m' = h2m, UNCHANGED <<launch, open, drain, hiding, why>> PROVE Parts(s)
  BY <1>0, <1>a, <1>b DEF Parts, Takes, Doomed
<1>c. \A a \in Worker \X Ask, value \in {"ok", "false", "refused"} :
        AnswerMsg(a, value) \in Plain /\ AnswerMsg(a, value).type # "destroy"
  BY DEF AnswerMsg, Plain, AnswerMsgs
<1>3. ASSUME NEW r \in Sid, UserEvent(r) PROVE Deals(s)
  <2>1. Parts(s)
    BY <1>3, <1>b DEF UserEvent
  <2>2. Msg("event", r) \in Plain /\ Msg("event", r).type # "destroy"
    BY DEF Msg, Plain
  <2>3. m2h' = ToHost(<<Msg("event", r)>>) /\ process' = process /\ open' = open
    BY <1>3 DEF UserEvent
  <2>4. Posts(s)
    BY <1>0, <2>2, <2>3, Posting0
  <2> QED
    BY <2>1, <2>4 DEF Deals
<1>4. ASSUME NEW a \in Worker \X Ask, NEW value \in {"true", "false"}, UserAnswers(a, value)
      PROVE  Deals(s)
  <2>1. Parts(s)
    BY <1>4, <1>b DEF UserAnswers
  <2> DEFINE m == AnswerMsg(a, value)
  <2>2. m \in Post /\ m.type = "answer"
    BY DEF AnswerMsg, Plain, Post, AnswerMsgs
  <2>3. m2h' = ToHost(<<m>>) /\ process' = process /\ open' = open
    BY <1>4 DEF UserAnswers
  <2> HIDE DEF m
  <2>4. m \notin Of("create", s) /\ m \notin Of("reload", s) /\ m \notin Of("destroy", s)
    BY <2>2, Sorted
  <2>5. <<m>> \in Seq(ToHostMsg)
    BY <2>2 DEF ToHostMsg
  <2>6. /\ ~Has(<<m>>, Of("create", s)) /\ ~Has(<<m>>, Of("reload", s))
        /\ ~Has(<<m>>, Of("destroy", s))
    BY <2>4, OneHeld
  <2>7. Posts(s)
    BY <2>3, <2>5, <2>6 DEF ToHost, Posts
  <2> QED
    BY <2>1, <2>7 DEF Deals
<1>5. ASSUME NEW r \in Sid, StopDraining(r) PROVE Deals(s)
  <2>1. /\ r \in drain /\ drain' = drain \ {r} /\ why' = [why EXCEPT ![r] = "ceiling"]
        /\ UNCHANGED <<launch, open, hiding, process, m2h, h2m>>
    BY <1>5 DEF StopDraining, wires
  <2>2. Parts(s)
    BY <1>0, <1>a, <2>1 DEF Parts, Takes, Doomed, MainTypes
  <2>3. Posts(s)
    BY <1>0, <2>1, Posting0
  <2> QED
    BY <2>2, <2>3 DEF Deals
<1>d. /\ <<>> \in Seq(Plain) /\ ~Has(<<>>, Of("destroy", s))
      /\ \A own : \A S \in SUBSET Sid, then \in Seq(Plain) :
           ~Has(then, Of("destroy", s)) /\ CloseAnd(S, own, then) /\ process' = process =>
             /\ open' = open \ S /\ Posts(s)
             /\ s \in drain' => s \in drain \/ (s \in open /\ s \notin open')
             /\ why'[s] = IF s \in open \ open' THEN IF s \in own THEN "own" ELSE "user" ELSE why[s]
  <2>1. <<>> \in Seq(Plain) /\ ~Has(<<>>, Of("destroy", s))
    BY NoneHeld
  <2> QED
    BY <1>0, <2>1, Closed1
<1>6. CASE (\E r \in Sid : UserClose(r)) \/ Hidden
  <2>0. \E S \in SUBSET Sid : \E own : CloseAnd(S, own, <<>>)
    BY <1>0, <1>6 DEF UserClose, Hidden, MainTypes
  <2>1. PICK S \in SUBSET Sid : \E own : CloseAnd(S, own, <<>>)
    BY <2>0
  <2>2. /\ UNCHANGED <<launch, process, h2m>> /\ hiding' \subseteq hiding
    BY <1>6 DEF UserClose, Hidden
  <2>3. Deals(s)
    BY <1>0, <1>a, <1>d, <2>1, <2>2 DEF Deals, Parts, Takes, Doomed
  <2> QED
    BY <2>3
<1> DEFINE m == Head(h2m)
<1>e. h2m # <<>> =>
        /\ m.type \in {"created", "refused", "busy", "failed", "finished"} => m.sid \in Sid
        /\ m.type \in {"busy", "failed", "finished"} => launch[m.sid] # "no" \/ m.sid # s
        /\ m.type = "call" => /\ m.from \in Worker /\ m.from[1] \in Sid /\ m.ask \in Ask
                              /\ launch[m.from[1]] # "no" \/ m.from[1] # s
        /\ \A M : m \in M => Has(h2m, M)
  <2>1. h2m # <<>> => \A M : m \in M => Has(h2m, M)
    BY <1>0, TakenFrom
  <2> HIDE DEF m
  <2>2. h2m # <<>> =>
          /\ m.type \in {"created", "refused", "busy", "failed", "finished"} => m.sid \in Sid
          /\ m.type \in {"busy", "failed", "finished"} => made[m.sid] # 0
          /\ m.type = "call" => m.from \in Worker /\ m.from[1] \in Sid /\ made[m.from[1]] # 0
    BY HeardSpoken DEF m
  <2>3. h2m # <<>> /\ m.type = "call" => m.ask \in Ask
    BY <1>0, HeadTypes DEF m
  <2> QED
    BY <1>0, <2>1, <2>2, <2>3
<1>f. /\ m \in Of("refused", s) => m.type = "refused" /\ m.sid = s
      /\ m \in Fatals(s) => m.type = "failed" /\ m.sid = s /\ m.fatal = TRUE
  BY Sorted
<1> HIDE DEF m
<1>7. CASE HearCreated \/ HearBusy
  <2>1. /\ h2m # <<>> /\ m.type \in {"created", "busy"} /\ h2m' = Tail(h2m) /\ m.sid \in Sid
        /\ launch[s] # "no" => launch'[s] # "no"
        /\ UNCHANGED <<open, hiding, why, process, m2h>> /\ drain' \subseteq drain
    BY <1>0, <1>7, <1>e DEF HearCreated, HearBusy, Heard, Next1, Sender, m, MainTypes
  <2>2. Parts(s)
    BY <1>0, <1>a, <1>f, <2>1 DEF Parts, Takes, Doomed, m
  <2>3. Posts(s)
    BY <1>0, <2>1, Posting0
  <2> QED
    BY <2>2, <2>3 DEF Deals
<1>8. CASE HearRefused
  <2>1. /\ h2m # <<>> /\ m.type = "refused" /\ h2m' = Tail(h2m) /\ m.sid \in Sid
        /\ launch' = [launch EXCEPT ![m.sid] = "failed"] /\ open' = open \ {m.sid}
        /\ why' = [why EXCEPT ![m.sid] = IF m.sid \in open THEN "refused" ELSE @]
        /\ UNCHANGED <<drain, hiding, process, m2h>>
    BY <1>8, <1>e DEF HearRefused, Heard, Next1, Sender, m
  <2>2. m.sid = s => m \in Of("refused", s) \/ Doomed(s)
    <3>1. CASE m \in [type : {"created", "refused"}, sid : Sid]
      BY <2>1, <3>1 DEF Of
    <3>2. ASSUME NEW w \in Worker, m \in News(w) PROVE FALSE
      BY <2>1, <3>2 DEF News
    <3>3. m \in ToMainMsg
      BY <1>0, <2>1, PortFacts DEF m
    <3> QED
      BY <3>1, <3>2, <3>3 DEF ToMainMsg
  <2>3. m.sid = s => Doomed(s)
    BY <1>e, <2>1, <2>2 DEF Doomed
  <2>4. Parts(s)
    BY <1>0, <1>a, <1>f, <2>1, <2>3 DEF Parts, Takes, m, MainTypes, Doomed
  <2>5. Posts(s)
    BY <1>0, <2>1, <2>3, Posting0
  <2> QED
    BY <2>4, <2>5 DEF Deals
<1>9. CASE HearFailed
  <2>1. /\ h2m # <<>> /\ m.type = "failed" /\ h2m' = Tail(h2m) /\ m.sid \in Sid
        /\ UNCHANGED <<launch, hiding, process, m2h>>
    BY <1>9, <1>e DEF HearFailed, Heard, Next1, Sender, m
  <2>2. CASE ~m.fatal
    <3>1. UNCHANGED <<open, drain, why>>
      BY <1>9, <2>2 DEF HearFailed, m
    <3>2. m \notin Fatals(s)
      BY <2>2, <1>f
    <3>3. Parts(s)
      BY <1>0, <1>a, <1>f, <2>1, <3>1, <3>2 DEF Parts, Takes, Doomed, m
    <3>4. Posts(s)
      BY <1>0, <2>1, <3>1, Posting0
    <3> QED
      BY <3>3, <3>4 DEF Deals
  <2>3. CASE m.fatal
    <3>1. /\ open' = open \ {m.sid} /\ drain' = drain \ {m.sid}
          /\ why' = [why EXCEPT ![m.sid] = IF m.sid \in open THEN "failed" ELSE @]
      BY <1>9, <2>3 DEF HearFailed, m, Sender
    <3>2. m.sid = s => m \in Fatals(s)
      <4>1. ASSUME NEW w \in Worker, m \in News(w), m.sid = s PROVE m \in Fatals(s)
        <5>1. m \in [type : {"failed"}, sid : {w[1]}, fatal : BOOLEAN] /\ m.fatal = TRUE
          BY <2>1, <2>3, <4>1 DEF News
        <5>2. w[1] = s
          BY <4>1, <5>1
        <5> QED
          BY <5>1, <5>2 DEF Fatals
      <4>2. m \in ToMainMsg /\ m \notin [type : {"created", "refused"}, sid : Sid]
        BY <1>0, <2>1, PortFacts DEF m
      <4> QED
        BY <4>1, <4>2 DEF ToMainMsg
    <3>3. m.sid = s => Doomed(s) /\ launch[s] # "no"
      BY <1>e, <2>1, <3>2 DEF Doomed
    <3>4. Parts(s)
      BY <1>0, <1>a, <1>f, <2>1, <3>1, <3>3 DEF Parts, Takes, m, MainTypes, Doomed
    <3>5. Posts(s)
      BY <1>0, <2>1, <3>1, <3>3, Posting0
    <3> QED
      BY <3>4, <3>5 DEF Deals
  <2> QED
    BY <2>2, <2>3
<1>10. CASE HearFinished
  <2> DEFINE r == m.sid
             asked == {a \in alerts : a[1][1] = r}
             g == [i \in 1..Cardinality(asked) |-> AnswerMsg(SetToSeq(asked)[i], "false")]
             d == IF r \in open THEN <<Msg("destroy", r)>> ELSE <<>>
  <2>1. /\ h2m # <<>> /\ m.type = "finished" /\ h2m' = Tail(h2m) /\ r \in Sid
        /\ open' = open \ {r} /\ why' = [why EXCEPT ![r] = "finished"]
        /\ drain' = (drain \ {r}) \cup (IF r \in open /\ busy[r] THEN {r} ELSE {})
        /\ m2h' = ToHost(d \o g)
        /\ UNCHANGED <<launch, hiding, process>>
    BY <1>10, <1>e DEF HearFinished, Heard, Next1, Sender, m
  <2>2. Parts(s)
    <3>1. /\ open' = open \ {r} /\ why' = [why EXCEPT ![r] = "finished"]
          /\ s \in drain' => s \in drain \/ (s \in open /\ s = r)
          /\ UNCHANGED <<launch, hiding, process>> /\ h2m # <<>> /\ h2m' = Tail(h2m)
          /\ m.type = "finished" /\ r \in Sid
      BY <2>1
    <3>2. r = s => launch[s] # "no"
      BY <1>e, <2>1
    <3> HIDE DEF r
    <3>3. /\ s \in open' => s \in open
          /\ why'[s] # why[s] => s \notin open' /\ launch[s] # "no"
          /\ why'[s] \in {"failed", "exit"} => Doomed(s)
          /\ s \in drain' => s \in drain \/ (s \in open /\ s \notin open')
      BY <1>0, <3>1, <3>2 DEF MainTypes, Doomed
    <3>4. m \notin Of("refused", s) /\ m \notin Fatals(s)
      BY <1>f, <3>1
    <3> QED
      BY <3>1, <3>3, <3>4 DEF Parts, Takes, m
  <2>3. g \in Seq(Plain) /\ \A i \in 1..Len(g) : g[i].type = "answer"
    <3>1. IsFiniteSet(asked) /\ asked \subseteq alerts /\ alerts \subseteq Worker \X Ask
      BY <1>0, FS_Subset DEF MainTypes
    <3>2. Cardinality(asked) \in Nat /\ SetToSeq(asked) \in [1..Cardinality(asked) -> asked]
      BY <3>1, Listed
    <3> HIDE DEF asked
    <3>3. g \in [1..Cardinality(asked) -> Plain] /\ \A i \in 1..Cardinality(asked) : g[i].type = "answer"
      <4>1. \A i \in 1..Cardinality(asked) : SetToSeq(asked)[i] \in Worker \X Ask
        BY <3>1, <3>2
      <4>2. \A a \in Worker \X Ask : AnswerMsg(a, "false").type = "answer"
        BY DEF AnswerMsg
      <4> QED
        BY <4>1, <4>2, <1>c
    <3> HIDE DEF g
    <3> QED
      BY <3>2, <3>3, Built
  <2>4. ~Has(g, Of("destroy", s))
    <3>1. \A i \in 1..Len(g) : g[i] \notin Of("destroy", s)
      <4> TAKE i \in 1..Len(g)
      <4>1. g[i].type = "answer"
        BY <2>3
      <4> HIDE DEF g
      <4> QED
        BY <4>1, Sorted
    <3> HIDE DEF g
    <3> QED
      BY <3>1 DEF Has
  <2>5. d \in Seq(Plain) /\ (Has(d, Of("destroy", s)) <=> s = r /\ s \in open)
    <3>1. CASE r \in open
      <4>1. Msg("destroy", r) \in Of("destroy", s) <=> s = r
        BY DEF Msg, Of
      <4> QED
        BY <3>1, <4>1, <2>1, Alone, OneHeld
    <3>2. CASE r \notin open
      BY <1>d, <3>2
    <3> QED
      BY <3>1, <3>2
  <2> HIDE DEF g, d, r
  <2>6. d \o g \in Seq(Plain) /\ (Has(d \o g, Of("destroy", s)) <=> s = r /\ s \in open)
    BY <2>3, <2>4, <2>5, JoinFacts, PutBehind
  <2>7. Posts(s)
    BY <2>1, <2>6, Posting1
  <2> QED
    BY <2>2, <2>7 DEF Deals
<1>11. CASE HearCall
  <2> DEFINE r == m.from[1]
             a == <<m.from, m.ask>>
             ok == <<AnswerMsg(a, "ok")>>
             Quietly == UNCHANGED <<open, drain, why, hiding>>
  <2>1. /\ h2m # <<>> /\ m.type = "call" /\ h2m' = Tail(h2m)
        /\ UNCHANGED <<launch, process>>
        /\ \/ m2h' = ToHost(<<AnswerMsg(a, "refused")>>) /\ Quietly
           \/ m2h' = ToHost(ok) /\ Quietly
           \/ m2h' = m2h /\ Quietly
           \/ CloseAnd({r}, {r}, ok) /\ hiding' = hiding
           \/ CloseAnd(open, {r}, ok) /\ hiding' = hiding
           \/ /\ hiding' = hiding \cup {r} /\ m2h' = ToHost(ok)
              /\ UNCHANGED <<open, drain, why>>
    BY <1>11, Zenon DEF HearCall, Heard, Next1, m
  <2>2. a \in Worker \X Ask /\ r \in Sid /\ (r = s => launch[s] # "no")
    BY <1>e, <2>1
  <2>3. ok \in Seq(Plain) /\ ~Has(ok, Of("destroy", s))
    <3>1. AnswerMsg(a, "ok") \in Plain /\ AnswerMsg(a, "ok") \notin Of("destroy", s)
      BY <2>2, <1>c, Sorted
    <3> HIDE DEF a
    <3> QED
      BY <3>1, OneHeld
  <2> HIDE DEF a, r
  <2>4. CASE Quietly /\ (m2h' = ToHost(<<AnswerMsg(a, "refused")>>) \/ m2h' = ToHost(ok) \/ m2h' = m2h)
    <3>1. Parts(s)
      BY <1>0, <1>a, <1>f, <2>1, <2>4 DEF Parts, Takes, Doomed, m
    <3>2. Posts(s)
      BY <1>0, <1>c, <2>1, <2>2, <2>4, Posting0
    <3> QED
      BY <3>1, <3>2 DEF Deals
  <2>5. CASE (CloseAnd({r}, {r}, ok) \/ CloseAnd(open, {r}, ok)) /\ hiding' = hiding
    <3>1. PICK S \in SUBSET Sid : CloseAnd(S, {r}, ok)
      BY <1>0, <2>2, <2>5 DEF MainTypes
    <3> HIDE DEF ok
    <3>2. /\ open' = open \ S /\ Posts(s)
          /\ s \in drain' => s \in drain \/ (s \in open /\ s \notin open')
          /\ why'[s] \in {"own", "user", why[s]} /\ (why'[s] # why[s] => s \in open \ open')
      BY <1>d, <2>1, <2>3, <3>1
    <3>3. Parts(s)
      BY <1>0, <1>a, <1>f, <2>1, <2>5, <3>2 DEF Parts, Takes, Doomed, m
    <3> QED
      BY <3>2, <3>3 DEF Deals
  <2>6. CASE hiding' = hiding \cup {r} /\ m2h' = ToHost(ok) /\ UNCHANGED <<open, drain, why>>
    <3>1. Parts(s)
      BY <1>0, <1>a, <1>f, <2>1, <2>2, <2>6 DEF Parts, Takes, Doomed, m
    <3>2. Posts(s)
      BY <1>0, <1>c, <2>1, <2>2, <2>6, Posting0
    <3> QED
      BY <3>1, <3>2 DEF Deals
  <2> QED
    BY <2>1, <2>4, <2>5, <2>6
<1>12. CASE HearExit
  <2>1. /\ process = "dead" /\ h2m = <<>> /\ process' = "none" /\ open' = {} /\ h2m' = h2m
        /\ launch' = [r \in Sid |-> IF launch[r] = "waiting" THEN "failed" ELSE launch[r]]
        /\ why' = [r \in Sid |-> IF r \in open THEN "exit" ELSE why[r]]
        /\ UNCHANGED <<drain, hiding, m2h>>
    BY <1>12 DEF HearExit
  <2>2. Parts(s)
    BY <1>0, <2>1 DEF Parts, Takes, MainTypes
  <2>3. Posts(s)
    BY <2>1 DEF Posts
  <2> QED
    BY <2>2, <2>3 DEF Deals
<1> QED
  BY <1>1, <1>2, <1>3, <1>4, <1>5, <1>6, <1>7, <1>8, <1>9, <1>10, <1>11, <1>12
  DEF MainUser, MainStep, MainHears

Ledger(s) == Once(s) /\ Fresh(s) /\ Matched(s)

----------------------------------------------------------------------------
(* What each step makes of a session's entries.                             *)

LEMMA LedgerOfMain ==
  ASSUME Core, NEW s \in Sid, Ledger(s), Deals(s), UNCHANGED <<hSess, made, ended, up, exited>>
  PROVE  Ledger(s)'
PROOF
<1>0. /\ Once(s) /\ Fresh(s) /\ Matched(s) /\ Parts(s)
      /\ m2h \in Seq(ToHostMsg) /\ h2m \in Seq(ToMainMsg)
      /\ process \in {"none", "up", "dead"}
  BY DEF Ledger, Deals, Core, WireTypes
<1>1. \A M : Has(h2m', M) => Has(h2m, M)
  BY <1>0, TakenFrom DEF Parts, Takes
<1>2. \A M \in {Of("refused", s), Fatals(s)} : s \in open' /\ Has(h2m, M) => Has(h2m', M)
  <2> SUFFICES ASSUME NEW M \in {Of("refused", s), Fatals(s)}, s \in open', Has(h2m, M)
               PROVE  Has(h2m', M)
    OBVIOUS
  <2>1. CASE h2m' = h2m
    BY <2>1
  <2>2. CASE h2m # <<>> /\ h2m' = Tail(h2m)
    <3>1. Head(h2m) \notin M
      BY <1>0, <2>2 DEF Parts
    <3>2. Has(h2m, M) <=> Head(h2m) \in M \/ Has(Tail(h2m), M)
      BY <1>0, <2>2, TakenFrom
    <3> QED
      BY <2>2, <3>1, <3>2
  <2> QED
    BY <1>0, <2>1, <2>2 DEF Parts, Takes
<1>3. h2m = <<>> => h2m' = <<>>
  BY <1>0 DEF Parts, Takes
<1>4. PICK x \in Seq(ToHostMsg) :
        /\ m2h' = m2h \o x /\ ~Has(x, Of("create", s))
        /\ Has(x, Of("reload", s)) => Doomed(s) /\ launch[s] # "no"
        /\ Has(x, Of("destroy", s)) => s \in open /\ s \notin open'
        /\ s \in open /\ s \notin open' => Has(x, Of("destroy", s)) \/ Doomed(s) \/ process # "up"
        /\ process' = "up" => process = "up" \/ s \notin open
        /\ process' = "none" => process = "none" \/ (s \notin open' /\ h2m' = <<>>)
        /\ process' # "up" => process # "up" /\ m2h' = m2h
  <2>1. CASE process # "up" /\ process' # "up" /\ m2h' = m2h
             /\ (process' = "none" => process = "none" \/ (s \notin open' /\ h2m' = <<>>))
    <3>1. <<>> \in Seq(ToHostMsg) /\ m2h' = m2h \o <<>>
      <4>1. <<>> \in Seq(ToHostMsg)
        OBVIOUS
      <4> QED
        BY <1>0, <2>1, <4>1, JoinFacts
    <3>2. \A M : ~Has(<<>>, M)
      BY NoneHeld
    <3> QED
      BY <2>1, <3>1, <3>2
  <2>2. CASE /\ process' = "up" /\ (process = "up" \/ s \notin open)
             /\ \E x \in Seq(ToHostMsg) :
                  /\ m2h' = m2h \o x /\ ~Has(x, Of("create", s))
                  /\ Has(x, Of("reload", s)) => Doomed(s) /\ launch[s] # "no"
                  /\ Has(x, Of("destroy", s)) => s \in open /\ s \notin open'
                  /\ s \in open /\ s \notin open' => Has(x, Of("destroy", s)) \/ Doomed(s)
    BY <2>2
  <2> QED
    BY <2>1, <2>2 DEF Deals, Posts
<1>5. \A M : Has(m2h', M) <=> Has(m2h, M) \/ Has(x, M)
  BY <1>0, <1>4, PutBehind
<1>6. process # "up" => m2h = <<>> /\ hSess[s] = 0 /\ Gone(s)
  BY <1>0, NoneHeld DEF Once, Gone
<1>7. Doomed(s)' => (Doomed(s) \/ process # "up") /\ (launch[s] = "no" => Doomed(s))
  BY <1>0, <1>1, <1>4, <1>5 DEF Doomed, Parts, Fresh
<1>8. Gone(s) => Gone(s)'
  BY <1>4, <1>5 DEF Gone
<1>9. Once(s)'
  BY <1>0, <1>4, <1>6, <1>7, <1>8 DEF Once
<1>10. Fresh(s)'
  BY <1>0, <1>4, <1>5, <1>7 DEF Fresh, Parts
<1>11. Matched(s)'
  <2>1. process' = "none" => s \notin open' /\ h2m' = <<>>
    BY <1>0, <1>3, <1>4 DEF Matched, Parts
  <2>2. s \in open' /\ process' = "up" =>
          \/ Has(m2h', Of("create", s)) \/ hSess'[s] # 0
          \/ Has(h2m', Of("refused", s)) \/ Has(h2m', Fatals(s))
    BY <1>0, <1>2, <1>4, <1>5 DEF Matched, Parts
  <2>3. Has(m2h', Of("destroy", s)) => s \notin open'
    BY <1>0, <1>4, <1>5 DEF Matched, Parts
  <2>4. s \notin open' /\ hSess'[s] # 0 => Has(m2h', Of("destroy", s))
    <3>1. Doomed(s) => hSess[s] = 0
      BY <1>0 DEF Once, Gone
    <3> QED
      BY <1>0, <1>4, <1>5, <1>6, <3>1 DEF Matched
  <2>5. s \notin open' => Followed(m2h', Of("create", s), Of("destroy", s))
    <3>1. Followed(x, Of("create", s), Of("destroy", s))
      BY <1>4 DEF Has, Followed
    <3>2. Doomed(s) \/ process # "up" => Followed(m2h, Of("create", s), Of("destroy", s))
      BY <1>0, <1>6 DEF Once, Gone, Has, Followed
    <3>3. s \notin open' => Followed(m2h, Of("create", s), Of("destroy", s)) \/ Has(x, Of("destroy", s))
      BY <1>0, <1>4, <3>2 DEF Matched
    <3> QED
      BY <1>0, <1>4, <3>1, <3>3, PutBehind
  <2> QED
    BY <2>1, <2>2, <2>3, <2>4, <2>5 DEF Matched
<1> QED
  BY <1>9, <1>10, <1>11 DEF Ledger

LEMMA LedgerOfLaunch ==
  ASSUME Core, NEW s \in Sid, Ledger(s), Launch(s), UNCHANGED <<hSess, made, ended>>
  PROVE  Ledger(s)'
PROOF
<1>0. /\ Once(s) /\ Fresh(s) /\ Matched(s) /\ launch[s] = "no"
      /\ m2h \in Seq(ToHostMsg) /\ process \in {"none", "up", "dead"}
      /\ hSess[s] <= made[s] /\ hSess[s] \in Nat
  BY DEF Ledger, Launch, Core, WireTypes, HostTypes, Threads
<1>1. /\ s \notin open \cup hiding /\ s \notin drain /\ why[s] = "open" /\ made[s] = 0 /\ ~Doomed(s)
      /\ ~Has(m2h, Of("destroy", s)) /\ hSess[s] = 0
  BY <1>0 DEF Fresh
<1>2. /\ launch'[s] = "waiting" /\ s \in open'
      /\ UNCHANGED <<drain, hiding, why, h2m, up, exited>>
      /\ process' = IF process = "none" THEN "up" ELSE process
  BY DEF Launch, Core, MainTypes
<1>3. \A M \in {Of("reload", s), Of("destroy", s)} : Has(m2h', M) <=> Has(m2h, M)
  <2>1. Msg("create", s) \in ToHostMsg /\ <<Msg("create", s)>> \in Seq(ToHostMsg)
    BY Alone DEF ToHostMsg
  <2>2. m2h' = m2h \/ m2h' = m2h \o <<Msg("create", s)>>
    BY <1>0, <2>1 DEF Launch
  <2>3. \A M \in {Of("reload", s), Of("destroy", s)} : Msg("create", s) \notin M
    BY DEF Msg, Of
  <2> DEFINE x == <<Msg("create", s)>>
  <2>4. \A M \in {Of("reload", s), Of("destroy", s)} : ~Has(x, M)
    BY <2>3, OneHeld
  <2>5. x \in Seq(ToHostMsg) /\ (m2h' = m2h \/ m2h' = m2h \o x)
    BY <2>1, <2>2
  <2> HIDE DEF x
  <2>6. \A M : Has(m2h \o x, M) <=> Has(m2h, M) \/ Has(x, M)
    BY <1>0, <2>5, PutBehind
  <2> QED
    BY <2>4, <2>5, <2>6
<1>4. process' = "up" => Has(m2h', Of("create", s))
  <2> SUFFICES ASSUME process' = "up" PROVE Has(m2h', Of("create", s))
    OBVIOUS
  <2>1. Msg("create", s) \in ToHostMsg /\ <<Msg("create", s)>> \in Seq(ToHostMsg)
    BY Alone DEF ToHostMsg
  <2>2. m2h' = m2h \o <<Msg("create", s)>>
    BY <1>0, <1>2, <2>1 DEF Launch
  <2>3. Msg("create", s) \in Of("create", s)
    BY DEF Msg, Of
  <2>4. Has(<<Msg("create", s)>>, Of("create", s))
    BY <2>3, OneHeld
  <2> QED
    BY <1>0, <2>1, <2>2, <2>4, PutBehind
<1>5. process' # "up" => m2h' = m2h /\ process # "up"
  BY <1>0, <1>2 DEF Launch
<1>6. ~Doomed(s)'
  BY <1>1, <1>2, <1>3 DEF Doomed
<1>7. Once(s)'
  BY <1>0, <1>1, <1>2, <1>5, <1>6 DEF Once
<1>8. Fresh(s)'
  BY <1>1, <1>2 DEF Fresh
<1>9. Matched(s)'
  BY <1>1, <1>2, <1>3, <1>4 DEF Matched
<1> QED
  BY <1>7, <1>8, <1>9 DEF Ledger

(* A step of the host that starts no thread for the session.                *)
LEMMA LedgerKept ==
  ASSUME Core, NEW s \in Sid, Ledger(s), UNCHANGED mainVars, process = "up", process' = "up",
         made'[s] = made[s],
         NEW y \in Seq(ToMainMsg), h2m' = h2m \o y,
         m2h' = m2h \/ (m2h # <<>> /\ m2h' = Tail(m2h)),
         hSess'[s] = hSess[s] \/
           (hSess'[s] = 0 /\ (s \notin open \/ Has(y, Of("refused", s)) \/ Has(y, Fatals(s)))),
         Has(y, Of("refused", s)) \/ Has(y, Fatals(s)) => launch[s] # "no" /\ Gone(s)',
         m2h' # m2h => /\ Head(m2h) \in Of("create", s) => Has(y, Of("refused", s))
                       /\ Head(m2h) \in Of("destroy", s) => hSess'[s] = 0,
         <<s, 1>> \in ended' => hSess'[s] = 0,
         hSess'[s] # 0 => <<s, 1>> \in up' \cup exited'
  PROVE  Ledger(s)'
PROOF
<1>0. /\ Once(s) /\ Fresh(s) /\ Matched(s)
      /\ m2h \in Seq(ToHostMsg) /\ h2m \in Seq(ToMainMsg)
      /\ UNCHANGED <<launch, open, drain, hiding, why>>
  BY DEF Ledger, Core, WireTypes, mainVars
<1>1. \A M : Has(h2m', M) <=> Has(h2m, M) \/ Has(y, M)
  BY <1>0, PutBehind
<1>2. \A M : /\ Has(m2h', M) => Has(m2h, M)
             /\ Has(m2h, M) => Has(m2h', M) \/ (m2h' # m2h /\ Head(m2h) \in M)
  <2> TAKE M
  <2>1. CASE m2h' = m2h
    BY <2>1
  <2>2. CASE m2h' # m2h
    BY <1>0, <2>2, TakenFrom
  <2> QED
    BY <2>1, <2>2
<1>3. Gone(s) => Gone(s)'
  BY <1>2 DEF Gone
<1>4. Doomed(s)' => Gone(s)' /\ launch[s] # "no"
  BY <1>0, <1>1, <1>2, <1>3 DEF Doomed, Once, Fresh
<1>5. Once(s)'
  BY <1>0, <1>4 DEF Once
<1>6. Fresh(s)'
  BY <1>0, <1>2, <1>4 DEF Fresh
<1>7. Matched(s)'
  <2>1. s \in open => \/ Has(m2h', Of("create", s)) \/ hSess'[s] # 0
                      \/ Has(h2m', Of("refused", s)) \/ Has(h2m', Fatals(s))
    BY <1>0, <1>1, <1>2 DEF Matched
  <2>2. Has(m2h', Of("destroy", s)) => s \notin open
    BY <1>0, <1>2 DEF Matched
  <2>3. s \notin open /\ hSess'[s] # 0 => Has(m2h', Of("destroy", s))
    BY <1>0, <1>2 DEF Matched
  <2>4. s \notin open => Followed(m2h', Of("create", s), Of("destroy", s))
    <3>1. CASE m2h' = m2h
      BY <1>0, <3>1 DEF Matched
    <3>2. CASE m2h' # m2h
      <4>1. m2h # <<>> /\ m2h' = Tail(m2h)
        BY <3>2
      <4>2. \A M, N : Followed(m2h, M, N) => Followed(Tail(m2h), M, N)
        BY <1>0, <4>1, TakenFrom
      <4>3. s \notin open => Followed(m2h, Of("create", s), Of("destroy", s))
        BY <1>0 DEF Matched
      <4> QED
        BY <4>1, <4>2, <4>3
    <3> QED
      BY <3>1, <3>2
  <2> QED
    BY <1>0, <2>1, <2>2, <2>3, <2>4 DEF Matched
<1> QED
  BY <1>5, <1>6, <1>7 DEF Ledger

----------------------------------------------------------------------------
(* What the host does with the daemon's messages.                           *)

LEMMA Ordered ==
  ASSUME Core, NEW s \in Sid
  PROVE  /\ Has(m2h, Of("create", s)) => made[s] = 0 /\ launch[s] # "no"
         /\ m2h # <<>> /\ Head(m2h) \in Of("create", s) => ~Has(Tail(m2h), Of("create", s))
         /\ made[s] = 0 => hSess[s] = 0
PROOF
<1>1. m2h \in Seq(ToHostMsg) /\ hSess[s] <= made[s] /\ hSess[s] \in Nat
  BY DEF Core, WireTypes, Threads, HostTypes
<1>2. Has(m2h, Of("create", s)) => made[s] = 0 /\ launch[s] # "no"
  BY Sorted DEF Has, Core, Creates
<1>3. ASSUME m2h # <<>>, Head(m2h) \in Of("create", s), NEW i \in 1..Len(Tail(m2h)),
             Tail(m2h)[i] \in Of("create", s)
      PROVE  FALSE
  <2>1. /\ 1 \in 1..Len(m2h) /\ m2h[1] = Head(m2h) /\ i + 1 \in 1..Len(m2h) /\ i + 1 # 1
        /\ m2h[i + 1] = Tail(m2h)[i]
    BY <1>1, <1>3, PortFacts
  <2>2. m2h[1].type = "create" /\ m2h[1].sid = s /\ m2h[i + 1].type = "create" /\ m2h[i + 1].sid = s
    BY <1>3, <2>1, Sorted
  <2> QED
    BY <2>1, <2>2 DEF Core, Creates
<1>4. m2h # <<>> /\ Head(m2h) \in Of("create", s) => ~Has(Tail(m2h), Of("create", s))
  BY <1>3 DEF Has
<1> QED
  BY <1>1, <1>2, <1>4

LEMMA HeadOfHost ==
  ASSUME Core, m2h # <<>>
  PROVE  LET m == Head(m2h) IN
         /\ Tail(m2h) \in Seq(ToHostMsg) /\ \A M : m \in M => Has(m2h, M)
         /\ m.type \in {"create", "reload", "event", "destroy"} =>
              m.sid \in Sid /\ \A t, s : m \in Of(t, s) <=> m.type = t /\ m.sid = s
         /\ \A t, s : m.type # t => m \notin Of(t, s)
PROOF
<1> DEFINE m == Head(m2h)
<1>1. m2h \in Seq(ToHostMsg)
  BY DEF Core, WireTypes
<1>2. Tail(m2h) \in Seq(ToHostMsg) /\ m \in ToHostMsg /\ \A M : m \in M => Has(m2h, M)
  BY <1>1, PortFacts, TakenFrom
<1> HIDE DEF m
<1>3. \A t, s : m.type # t => m \notin Of(t, s)
  BY Sorted
<1>4. ASSUME m.type \in {"create", "reload", "event", "destroy"}
      PROVE  m.sid \in Sid /\ \A t, s : m \in Of(t, s) <=> m.type = t /\ m.sid = s
  <2>1. m \in [type : {"create", "reload", "event", "destroy"}, sid : Sid]
    BY <1>2, <1>4 DEF ToHostMsg, StartMsg, Post, Plain, AnswerMsgs
  <2> QED
    BY <2>1 DEF Of
<1> QED
  BY <1>2, <1>3, <1>4 DEF m

LEMMA LedgerOfHost ==
  ASSUME Core, Lone, HostFromMain, UNCHANGED mainVars, NEW s \in Sid, Ledger(s)
  PROVE  Ledger(s)'
PROOF
<1> DEFINE m == Head(m2h)
<1>0. /\ Once(s) /\ Fresh(s) /\ Matched(s) /\ m2h \in Seq(ToHostMsg) /\ h2m \in Seq(ToMainMsg)
      /\ UNCHANGED <<launch, open, drain, hiding, why>>
      /\ hSess \in [Sid -> 0..MaxInc] /\ made \in [Sid -> 0..MaxInc] /\ hSess[s] <= made[s]
  BY DEF Ledger, Core, WireTypes, HostTypes, mainVars, Threads
<1>1. process = "up" /\ process' = "up" /\ m2h # <<>> /\ m2h' = Tail(m2h)
  BY DEF HostFromMain, HostCreate, HostEvent, HostDestroy, HostAnswers, Gets
<1>2. /\ \A M : m \in M => Has(m2h, M)
      /\ m.type \in {"create", "reload", "event", "destroy"} =>
              m.sid \in Sid /\ \A t, r : m \in Of(t, r) <=> m.type = t /\ m.sid = r
      /\ \A t, r : m.type # t => m \notin Of(t, r)
  BY <1>1, HeadOfHost
<1>a. /\ <<>> \in Seq(ToMainMsg) /\ h2m \o <<>> = h2m
      /\ ~Has(<<>>, Of("refused", s)) /\ ~Has(<<>>, Fatals(s))
  <2>1. <<>> \in Seq(ToMainMsg)
    OBVIOUS
  <2> QED
    BY <1>0, <2>1, JoinFacts, NoneHeld
<1> HIDE DEF m
(* Nothing of the session's changes but, maybe, that it leaves the map.     *)
<1>b. ASSUME made'[s] = made[s], h2m' = h2m, hSess'[s] = hSess[s] \/ (hSess'[s] = 0 /\ s \notin open),
             m \notin Of("create", s), m \in Of("destroy", s) => hSess'[s] = 0,
             <<s, 1>> \in ended' => hSess'[s] = 0,
             hSess'[s] # 0 => <<s, 1>> \in up' \cup exited'
      PROVE  Ledger(s)'
  <2>1. h2m' = h2m \o <<>>
    BY <1>a, <1>b
  <2> QED
    BY <1>0, <1>1, <1>a, <1>b, <2>1, LedgerKept DEF m
<1>3. CASE HostCreate
  <2>1. m.type = "create" /\ UNCHANGED <<ended, exited>>
    BY <1>3 DEF HostCreate, Gets, m
  <2>2. m.sid \in Sid /\ (m \in Of("create", s) <=> m.sid = s) /\ m \notin Of("destroy", s)
    BY <1>2, <2>1
  <2>3. CASE m.sid \in InMap \/ Cardinality(InMap) >= MaxSessions
    <3> DEFINE y == <<Refused(m.sid)>>
    <3>1. h2m' = ToMain(y) /\ UNCHANGED <<hSess, made, up>>
      BY <1>3, <2>3 DEF HostCreate, m
    <3>2. Refused(m.sid) \in ToMainMsg
      BY <2>2 DEF Refused, ToMainMsg
    <3>3. (Refused(m.sid) \in Of("refused", s) <=> m.sid = s) /\ Refused(m.sid) \notin Fatals(s)
      <4>1. Refused(m.sid) \in Of("refused", s) <=> m.sid = s
        BY DEF Refused, Of
      <4>2. Refused(m.sid).type = "refused"
        BY DEF Refused
      <4> QED
        BY <4>1, <4>2, Sorted
    <3>4. (Has(y, Of("refused", s)) <=> m.sid = s) /\ ~Has(y, Fatals(s)) /\ y \in Seq(ToMainMsg)
      <4>1. \A M : Has(y, M) <=> Refused(m.sid) \in M
        BY OneHeld
      <4>2. y \in Seq(ToMainMsg)
        BY <3>2
      <4> HIDE DEF y
      <4> QED
        BY <3>3, <4>1, <4>2
    <3> HIDE DEF y
    <3>5. h2m' = h2m \o y
      BY <3>1 DEF ToMain
    <3>6. m.sid = s => launch[s] # "no" /\ Gone(s)'
      <4>1. m.sid = s => /\ Has(m2h, Of("create", s)) /\ made[s] = 0 /\ launch[s] # "no" /\ hSess[s] = 0
                         /\ ~Has(Tail(m2h), Of("create", s))
        BY <1>1, <1>2, <2>2, Ordered DEF m
      <4> QED
        BY <1>1, <3>1, <4>1 DEF Gone
    <3>7. <<s, 1>> \in ended' => hSess'[s] = 0
      BY <1>0, <2>1, <3>1 DEF Once
    <3>8. hSess'[s] # 0 => <<s, 1>> \in up' \cup exited'
      BY <1>0, <2>1, <3>1 DEF Once
    <3> QED
      BY <1>0, <1>1, <2>2, <3>1, <3>4, <3>5, <3>6, <3>7, <3>8, LedgerKept DEF m
  <2>4. CASE ~(m.sid \in InMap \/ Cardinality(InMap) >= MaxSessions)
    <3>1. /\ hSess' = [hSess EXCEPT ![m.sid] = made[m.sid] + 1]
          /\ made' = [made EXCEPT ![m.sid] = @ + 1] /\ h2m' = h2m
          /\ up' = up \cup {<<m.sid, made[m.sid] + 1>>}
      BY <1>3, <2>4 DEF HostCreate, m
    <3>2. CASE m.sid # s
      <4>1. hSess'[s] = hSess[s] /\ made'[s] = made[s]
        BY <1>0, <3>1, <3>2
      <4>2. <<s, 1>> \in ended' => hSess'[s] = 0
        BY <1>0, <2>1, <4>1 DEF Once
      <4>3. hSess'[s] # 0 => <<s, 1>> \in up' \cup exited'
        BY <1>0, <2>1, <3>1, <4>1 DEF Once
      <4> QED
        BY <1>b, <2>2, <3>1, <3>2, <4>1, <4>2, <4>3
    <3>3. CASE m.sid = s
      <4>1. /\ Has(m2h, Of("create", s)) /\ made[s] = 0 /\ launch[s] # "no" /\ hSess[s] = 0
            /\ ~Has(m2h', Of("create", s))
        BY <1>1, <1>2, <2>2, <3>3, Ordered DEF m
      <4>2. hSess'[s] = 1 /\ made'[s] = 1 /\ <<s, 1>> \in up'
        BY <1>0, <3>1, <3>3, <4>1
      <4>3. \A M, N : /\ Has(m2h', M) => Has(m2h, M)
                      /\ Followed(m2h, M, N) => Followed(m2h', M, N) /\ (m \in M => Has(m2h', N))
        BY <1>0, <1>1, TakenFrom DEF m
      <4>4. ~Doomed(s) /\ ~Doomed(s)'
        <5>1. ~Doomed(s)
          BY <1>0, <4>1 DEF Once, Gone
        <5>2. \A M : Has(m2h', M) => Has(m2h, M)
          BY <4>3
        <5> QED
          BY <1>0, <3>1, <5>1, <5>2 DEF Doomed
      <4>5. <<s, 1>> \notin ended'
        <5>1. \A w \in ended : w[2] <= made[w[1]]
          BY DEF Core, Threads
        <5>2. <<s, 1>> \notin ended
          BY <4>1, <5>1
        <5> QED
          BY <2>1, <5>2
      <4>6. Once(s)'
        BY <1>1, <4>2, <4>4, <4>5 DEF Once
      <4>7. Fresh(s)'
        BY <1>0, <4>1 DEF Fresh
      <4>8. Has(m2h', Of("destroy", s)) => s \notin open'
        BY <1>0, <4>3 DEF Matched
      <4>9. s \notin open' => /\ Followed(m2h', Of("create", s), Of("destroy", s))
                              /\ Has(m2h', Of("destroy", s))
        <5>1. s \notin open' => Followed(m2h, Of("create", s), Of("destroy", s))
          BY <1>0 DEF Matched
        <5>2. m \in Of("create", s)
          BY <2>2, <3>3
        <5> QED
          BY <4>3, <5>1, <5>2
      <4>10. Matched(s)'
        BY <1>1, <4>2, <4>8, <4>9 DEF Matched
      <4> QED
        BY <4>6, <4>7, <4>10 DEF Ledger
    <3> QED
      BY <3>2, <3>3
  <2> QED
    BY <2>3, <2>4
<1>4. CASE HostEvent \/ HostAnswers
  <2>1. m.type \in {"event", "answer"} /\ UNCHANGED <<hostVars, h2m, up, exited>>
    BY <1>4 DEF HostEvent, HostAnswers, Gets, m
  <2>2. UNCHANGED <<hSess, made, ended>>
    BY <2>1 DEF hostVars
  <2>3. m \notin Of("create", s) /\ m \notin Of("destroy", s)
    BY <1>2, <2>1
  <2> QED
    BY <1>0, <1>b, <2>1, <2>2, <2>3 DEF Once
<1>5. ASSUME NEW type \in {"destroy", "reload"}, NEW via, HostDestroy(type, via)
      PROVE  Ledger(s)'
  <2> DEFINE r == m.sid
  <2>1. m.type = type /\ UNCHANGED <<made, h2m, up, exited>>
    BY <1>5 DEF HostDestroy, Gets, m
  <2>2. r \in Sid /\ (m \in Of(type, s) <=> r = s) /\ m \notin Of("create", s)
    BY <1>2, <1>5, <2>1
  <2>3. m \in Of("destroy", s) => r = s
    BY <1>2, <1>5, <2>1
  <2>4. IF hSess[r] = 0 THEN UNCHANGED <<hSess, ended>>
        ELSE hSess' = [hSess EXCEPT ![r] = 0] /\ ended' = ended \cup {<<r, hSess[r]>>}
    BY <1>5, <2>2 DEF HostDestroy, InMap, Thread, m
  <2> HIDE DEF r
  <2>5. hSess'[s] = IF r = s THEN 0 ELSE hSess[s]
    BY <1>0, <2>2, <2>4
  <2>6. r = s => s \notin open \/ hSess[s] = 0
    <3>1. CASE type = "destroy"
      BY <1>0, <1>2, <2>2, <3>1 DEF Matched
    <3>2. CASE type = "reload"
      BY <1>0, <1>2, <2>2, <3>2 DEF Doomed, Once, Gone
    <3> QED
      BY <1>5, <3>1, <3>2
  <2>7. <<s, 1>> \in ended' => hSess'[s] = 0
    BY <1>0, <2>4, <2>5 DEF Once
  <2>8. hSess'[s] # 0 => <<s, 1>> \in up' \cup exited'
    BY <1>0, <2>1, <2>5 DEF Once
  <2> QED
    BY <1>b, <2>1, <2>2, <2>3, <2>5, <2>6, <2>7, <2>8
<1> QED
  BY <1>3, <1>4, <1>5 DEF HostFromMain

----------------------------------------------------------------------------
(* What the host does with its threads.                                     *)

LEMMA LedgerOfThreads ==
  ASSUME Core, Lone, Unborn, UNCHANGED mainVars, NEW s \in Sid, Ledger(s),
         NEW w \in Worker, HostFromWorker(w) \/ Deadline(w)
  PROVE  Ledger(s)'
PROOF
<1>0. /\ Once(s) /\ Fresh(s) /\ Matched(s) /\ m2h \in Seq(ToHostMsg) /\ h2m \in Seq(ToMainMsg)
      /\ hSess \in [Sid -> 0..MaxInc] /\ made \in [Sid -> 0..MaxInc] /\ hSess[s] <= made[s]
      /\ w[1] \in Sid /\ w[2] \in Nat /\ w[2] >= 1 /\ w = <<w[1], w[2]>>
  BY DEF Ledger, Core, WireTypes, HostTypes, mainVars, Threads, Worker
<1>1. process = "up" /\ (Stops(w) \/ Drops(w) \/ Fails(w) \/ Passes(w) \/ Dies(w))
  BY Outcomes
<1>2. process' = process /\ UNCHANGED <<made, m2h>>
  BY <1>1 DEF Stops, Drops, Fails, Passes, Dies
<1>3. made[s] # 0 => launch[s] # "no" /\ ~Has(m2h, Of("create", s)) /\ ~Has(m2h', Of("create", s))
  BY <1>0, <1>2, Ordered DEF Fresh
<1> DEFINE R == Of("refused", s)
           F == Fatals(s)
(* What is reported of the session, if anything, is that it is gone.        *)
<1>a. ASSUME NEW y \in Seq(ToMainMsg), h2m' = h2m \o y,
             hSess'[s] = hSess[s] \/ (hSess'[s] = 0 /\ (Has(y, R) \/ Has(y, F))),
             Has(y, R) \/ Has(y, F) => made[s] # 0 /\ hSess'[s] = 0,
             <<s, 1>> \in ended' => hSess'[s] = 0,
             hSess'[s] # 0 => <<s, 1>> \in up' \cup exited'
      PROVE  Ledger(s)'
  <2>1. Has(y, R) \/ Has(y, F) => launch[s] # "no" /\ Gone(s)'
    BY <1>3, <1>a DEF Gone
  <2> QED
    BY <1>0, <1>1, <1>2, <1>a, <2>1, LedgerKept
<1>b. /\ <<>> \in Seq(ToMainMsg) /\ h2m \o <<>> = h2m /\ ~Has(<<>>, R) /\ ~Has(<<>>, F)
  <2>1. <<>> \in Seq(ToMainMsg)
    OBVIOUS
  <2> QED
    BY <1>0, <2>1, JoinFacts, NoneHeld
<1>c. /\ <<Refused(w[1])>> \in Seq(ToMainMsg) /\ <<Created(w[1])>> \in Seq(ToMainMsg)
      /\ Refused(w[1]) \in R <=> s = w[1]
      /\ Refused(w[1]) \notin F /\ Created(w[1]) \notin R /\ Created(w[1]) \notin F
  <2>1. Refused(w[1]) \in ToMainMsg /\ Created(w[1]) \in ToMainMsg
    BY <1>0 DEF Refused, Created, ToMainMsg
  <2>2. Refused(w[1]).type = "refused" /\ Created(w[1]).type = "created"
    BY DEF Refused, Created
  <2>3. Refused(w[1]) \in R <=> s = w[1]
    BY DEF Refused, Of
  <2> QED
    BY <2>1, <2>2, <2>3, Sorted
<1>d. /\ Failed(w, TRUE) \in ToMainMsg /\ Failed(w, TRUE) \notin R
      /\ Failed(w, TRUE) \in F <=> s = w[1]
  <2>1. Failed(w, TRUE) \in News(w) /\ Failed(w, TRUE).type = "failed"
    BY DEF Failed, News
  <2>2. Failed(w, TRUE) \in F <=> s = w[1]
    BY DEF Failed, Fatals
  <2>3. Failed(w, TRUE) \in ToMainMsg
    BY <2>1, Zenon DEF ToMainMsg
  <2>4. Failed(w, TRUE) \notin R
    <3>1. Failed(w, TRUE).type # "refused"
      BY <2>1
    <3>2. \A y \in Of("refused", s) : y.type = "refused"
      BY Sorted, Zenon
    <3> QED
      BY <3>1, <3>2, Zenon
  <2> QED
    BY <2>2, <2>3, <2>4
<1>e. /\ <<s, 1>> \in ended => hSess[s] = 0
      /\ hSess[s] # 0 => <<s, 1>> \in up \cup exited
      /\ hSess[s] \in {0, 1}
  BY <1>0 DEF Once
<1>f. /\ ending[w] # "no" => w \in ended /\ hSess[w[1]] = 0
      /\ w \in up \cup exited \cup ended => w[2] <= made[w[1]]
      /\ creating[w] # "no" => hSess[w[1]] = w[2] \/ ending[w] # "no"
  BY DEF Core, Threads
<1>g. w \in up \cup exited \cup ended \/ ending[w] # "no" \/ creating[w] # "no" => made[w[1]] # 0
  <2>1. hSess[w[1]] <= made[w[1]] /\ hSess[w[1]] \in Nat /\ made[w[1]] \in Nat
    BY <1>0 DEF Core, Threads
  <2> QED
    BY <1>0, <1>f, <2>1
<1>h. \A m, M : Has(<<m>>, M) <=> m \in M
  BY OneHeld
<1> HIDE DEF R, F
<1>4. CASE Stops(w)
  <2>1. /\ UNCHANGED <<hSess, ended, exited>> /\ up' = up \ {w} /\ ending[w] # "no"
        /\ h2m' = h2m \/ h2m' = h2m \o <<Refused(w[1])>>
    BY <1>4 DEF Stops
  <2>2. <<s, 1>> \in ended' => hSess'[s] = 0
    BY <1>e, <2>1
  <2>3. hSess'[s] # 0 => <<s, 1>> \in up' \cup exited'
    <3>1. hSess[s] # 0 => <<s, 1>> # w
      BY <1>f, <2>1
    <3> QED
      BY <1>e, <2>1, <3>1
  <2>4. CASE h2m' = h2m
    BY <1>a, <1>b, <2>1, <2>2, <2>3, <2>4
  <2>5. CASE h2m' = h2m \o <<Refused(w[1])>>
    <3>1. Has(<<Refused(w[1])>>, R) \/ Has(<<Refused(w[1])>>, F) => made[s] # 0 /\ hSess'[s] = 0
      BY <1>c, <1>f, <1>g, <1>h, <2>1
    <3> QED
      BY <1>a, <1>c, <2>1, <2>2, <2>3, <2>5, <3>1
  <2> QED
    BY <2>1, <2>4, <2>5
<1>5. CASE Drops(w)
  <2>1. /\ UNCHANGED <<hSess, ended, up, exited>>
        /\ h2m' = h2m \/ h2m' = h2m \o <<Created(w[1])>>
    BY <1>5 DEF Drops
  <2>2. /\ <<s, 1>> \in ended' => hSess'[s] = 0
        /\ hSess'[s] # 0 => <<s, 1>> \in up' \cup exited'
    BY <1>e, <2>1
  <2>3. CASE h2m' = h2m
    BY <1>a, <1>b, <2>1, <2>2, <2>3
  <2>4. CASE h2m' = h2m \o <<Created(w[1])>>
    <3>1. ~Has(<<Created(w[1])>>, R) /\ ~Has(<<Created(w[1])>>, F)
      BY <1>c, <1>h
    <3> QED
      BY <1>a, <1>c, <2>1, <2>2, <2>4, <3>1
  <2> QED
    BY <2>1, <2>3, <2>4
<1>6. CASE Fails(w)
  <2>1. /\ creating[w] = "main" /\ hSess' = [hSess EXCEPT ![w[1]] = 0] /\ ended' = ended \cup {w}
        /\ up' = up \ {w} /\ h2m' = h2m \o <<Refused(w[1])>> /\ UNCHANGED exited
    BY <1>6 DEF Fails
  <2>2. hSess'[s] = IF s = w[1] THEN 0 ELSE hSess[s]
    BY <1>0, <2>1
  <2>3. <<s, 1>> = w => s = w[1]
    OBVIOUS
  <2>4. /\ <<s, 1>> \in ended' => hSess'[s] = 0
        /\ hSess'[s] # 0 => <<s, 1>> \in up' \cup exited'
    BY <1>e, <2>1, <2>2, <2>3
  <2>5. (Has(<<Refused(w[1])>>, R) <=> s = w[1]) /\ ~Has(<<Refused(w[1])>>, F)
    BY <1>c, <1>h
  <2>6. s = w[1] => made[s] # 0
    BY <1>g, <2>1
  <2> QED
    BY <1>a, <1>c, <2>1, <2>2, <2>4, <2>5, <2>6
<1>7. CASE Passes(w)
  <2> DEFINE m == Head(w2h[w])
  <2>1. /\ UNCHANGED <<hSess, ended, up, exited>> /\ w2h[w] # <<>> /\ m \in News(w)
        /\ h2m' = h2m \o <<m>>
    BY <1>7 DEF Passes
  <2>2. /\ <<s, 1>> \in ended' => hSess'[s] = 0
        /\ hSess'[s] # 0 => <<s, 1>> \in up' \cup exited'
    BY <1>e, <2>1
  <2>3. m \notin Fatals(w[1])
    <3>1. w2h[w] \in Seq(FromWorkerMsg(w)) /\ ~Has(w2h[w], Fatals(w[1]))
      BY DEF Core, WireTypes, Unborn
    <3> QED
      BY <2>1, <3>1, TakenFrom
  <2> HIDE DEF m
  <2>4. m \in ToMainMsg /\ m \notin R /\ m \notin F
    <3>1. m \in ToMainMsg
      BY <2>1 DEF ToMainMsg
    <3>2. m.type # "refused"
      BY <2>1 DEF News
    <3>3. m.type = "failed" => m.sid = w[1]
      BY <2>1 DEF News
    <3>4. m \notin R
      BY <3>2, Sorted DEF R
    <3>5. m \notin F
      <4> SUFFICES ASSUME m \in F PROVE FALSE
        OBVIOUS
      <4>1. m.type = "failed" /\ m.sid = s
        BY Sorted DEF F
      <4>2. s = w[1]
        BY <3>3, <4>1
      <4> QED
        BY <2>3, <4>2 DEF F
    <3> QED
      BY <3>1, <3>4, <3>5
  <2>5. <<m>> \in Seq(ToMainMsg) /\ ~Has(<<m>>, R) /\ ~Has(<<m>>, F)
    <3>1. ~Has(<<m>>, R) /\ ~Has(<<m>>, F)
      BY <1>h, <2>4
    <3> QED
      BY <2>4, <3>1
  <2> QED
    BY <1>a, <2>1, <2>2, <2>5
<1>8. CASE Dies(w)
  <2>1. w \in exited /\ exited' = exited \ {w} /\ up' = up
    BY <1>8 DEF Dies
  <2>2. CASE w \in ended
    <3>1. UNCHANGED <<hSess, ended, h2m>>
      BY <1>8, <2>2 DEF Dies
    <3>2. /\ <<s, 1>> \in ended' => hSess'[s] = 0
          /\ hSess'[s] # 0 => <<s, 1>> \in up' \cup exited'
      BY <1>e, <2>1, <2>2, <3>1
    <3> QED
      BY <1>a, <1>b, <3>1, <3>2
  <2>3. CASE w \notin ended
    <3>1. /\ ended' = ended \cup {w} /\ hSess' = [hSess EXCEPT ![w[1]] = 0]
          /\ \/ h2m' = h2m \o <<Failed(w, TRUE)>>
             \/ h2m' = h2m \o <<Failed(w, TRUE), Refused(w[1])>>
      BY <1>8, <2>3 DEF Dies
    <3>2. hSess'[s] = IF s = w[1] THEN 0 ELSE hSess[s]
      BY <1>0, <3>1
    <3>3. <<s, 1>> = w => s = w[1]
      OBVIOUS
    <3>4. /\ <<s, 1>> \in ended' => hSess'[s] = 0
          /\ hSess'[s] # 0 => <<s, 1>> \in up' \cup exited'
      BY <1>e, <2>1, <3>1, <3>2, <3>3
    <3>5. s = w[1] => made[s] # 0
      BY <1>g, <2>1
    <3>6. ASSUME NEW y \in {<<Failed(w, TRUE)>>, <<Failed(w, TRUE), Refused(w[1])>>}
          PROVE  /\ y \in Seq(ToMainMsg) /\ (Has(y, F) <=> s = w[1])
                 /\ Has(y, R) => s = w[1]
      <4> DEFINE a == Failed(w, TRUE)
                 b == Refused(w[1])
      <4>1. /\ a \in ToMainMsg /\ b \in ToMainMsg /\ a \notin R /\ b \notin F
            /\ (a \in F <=> s = w[1]) /\ (b \in R <=> s = w[1])
        <5>1. b \in ToMainMsg
          BY <1>0 DEF Refused, ToMainMsg
        <5> QED
          BY <1>c, <1>d, <5>1
      <4>2. \A M : (Has(<<a, b>>, M) <=> a \in M \/ b \in M) /\ (Has(<<a>>, M) <=> a \in M)
        BY TwoHeld, OneHeld
      <4>3. y \in {<<a>>, <<a, b>>}
        BY <3>6
      <4> HIDE DEF a, b
      <4>4. <<a>> \in Seq(ToMainMsg) /\ <<a, b>> \in Seq(ToMainMsg)
        BY <4>1
      <4> QED
        BY <4>1, <4>2, <4>3, <4>4
    <3>7. PICK y \in {<<Failed(w, TRUE)>>, <<Failed(w, TRUE), Refused(w[1])>>} : h2m' = h2m \o y
      BY <3>1
    <3> QED
      BY <1>a, <3>2, <3>4, <3>5, <3>6, <3>7
  <2> QED
    BY <2>2, <2>3
<1> QED
  BY <1>1, <1>4, <1>5, <1>6, <1>7, <1>8

LEMMA LedgerOfCrash ==
  ASSUME Core, HostCrash, UNCHANGED mainVars, NEW s \in Sid, Ledger(s)
  PROVE  Ledger(s)'
PROOF
<1>0. /\ Once(s) /\ Fresh(s) /\ Matched(s) /\ h2m \in Seq(ToMainMsg)
      /\ UNCHANGED <<launch, open, drain, hiding, why>>
  BY DEF Ledger, Core, WireTypes, mainVars
<1>1. /\ process' = "dead" /\ m2h' = <<>> /\ h2m' \in Prefixes(h2m) /\ hSess'[s] = 0
      /\ UNCHANGED <<ended, made>>
  BY DEF HostCrash
<1>2. \A M : ~Has(m2h', M) /\ (Has(h2m', M) => Has(h2m, M))
  BY <1>0, <1>1, NoneHeld, CutShort
<1>3. \A M, N : Followed(m2h', M, N)
  BY <1>2 DEF Has, Followed
<1>4. Once(s)' /\ Fresh(s)'
  BY <1>0, <1>1, <1>2 DEF Once, Fresh, Gone, Doomed
<1>5. Matched(s)'
  BY <1>1, <1>2, <1>3 DEF Matched
<1> QED
  BY <1>4, <1>5 DEF Ledger

LEMMA LedgerStill ==
  ASSUME NEW s \in Sid, Ledger(s), UNCHANGED <<mainVars, hostVars, process, m2h, h2m>>,
         up' \cup exited' = up \cup exited
  PROVE  Ledger(s)'
PROOF
<1>1. Gone(s)' = Gone(s) /\ Doomed(s)' = Doomed(s)
  BY DEF Gone, Doomed, mainVars, hostVars
<1>2. Once(s)' /\ Fresh(s)' /\ Matched(s)'
  BY <1>1 DEF Ledger, Once, Fresh, Matched, mainVars, hostVars
<1> QED
  BY <1>2 DEF Ledger

LEMMA LoneStep ==
  ASSUME Core, Lone, \A s \in Sid : Once(s), Next
  PROVE  Lone'
PROOF
<1>0. /\ creating \in [Worker -> {"no", "main", "reload"}] /\ hSess \in [Sid -> 0..MaxInc]
      /\ reloading = {} /\ \A w \in Worker : creating[w] # "reload"
  BY DEF Core, HostTypes, Lone
<1>1. CASE UNCHANGED <<reloading, creating>>
  BY <1>1 DEF Lone
<1>2. CASE HostCreate
  <2>1. /\ UNCHANGED reloading
        /\ creating' = creating \/ \E w : creating' = [creating EXCEPT ![w] = "main"]
    BY <1>2, Zenon DEF HostCreate
  <2> QED
    BY <1>0, <2>1 DEF Lone
<1>3. CASE HostEvent \/ HostAnswers \/ HostDestroy("destroy", FALSE)
  <2>1. UNCHANGED <<reloading, creating>>
    BY <1>3 DEF HostEvent, HostAnswers, HostDestroy, hostVars
  <2> QED
    BY <1>1, <2>1
<1>4. CASE HostDestroy("reload", TRUE)
  <2> DEFINE m == Head(m2h)
  <2>1. m2h # <<>> /\ m.type = "reload" /\ UNCHANGED creating
    BY <1>4 DEF HostDestroy, Gets
  <2>2. m.sid \in Sid /\ Has(m2h, Of("reload", m.sid))
    BY <2>1, HeadOfHost
  <2>3. hSess[m.sid] = 0
    BY <2>2 DEF Once, Doomed, Gone
  <2>4. m.sid \notin InMap
    BY <2>3 DEF InMap
  <2>5. UNCHANGED reloading
    BY <1>4, <2>4 DEF HostDestroy
  <2> QED
    BY <1>1, <2>1, <2>5
<1>5. ASSUME NEW w \in Worker, HostFromWorker(w) \/ Deadline(w) PROVE Lone'
  <2>1. /\ UNCHANGED reloading
        /\ creating' = creating \/ creating' = [creating EXCEPT ![w] = "no"]
    BY <1>5, Outcomes DEF Stops, Drops, Fails, Passes, Dies
  <2> QED
    BY <1>0, <2>1 DEF Lone
<1>6. CASE HostCrash
  BY <1>6 DEF HostCrash, Lone
<1>7. CASE UNCHANGED hostVars
  BY <1>1, <1>7 DEF hostVars
<1> QED
  BY <1>2, <1>3, <1>4, <1>5, <1>6, <1>7 DEF Next, HostFromMain

----------------------------------------------------------------------------
(* A thread that was not made has said nothing, and nobody heard it.        *)

(* What main does to the port it reads, and to its busy flags.              *)
LEMMA Heeding ==
  ASSUME Core, MainUser \/ MainStep
  PROVE  /\ Takes /\ UNCHANGED <<h2w, w2h, up, exited>>
         /\ \/ busy' = busy /\ h2m' = h2m
            \/ busy' = busy /\ h2m # <<>> /\ Head(h2m).type # "busy" /\ h2m' = Tail(h2m)
            \/ /\ h2m # <<>> /\ Head(h2m).type = "busy" /\ h2m' = Tail(h2m)
               /\ busy' = [busy EXCEPT ![Head(h2m).sid] =
                             IF Head(h2m).sid \in open \cup drain THEN Head(h2m).busy ELSE @]
PROOF
<1> DEFINE Silently == busy' = busy /\ h2m' = h2m
           Else == busy' = busy /\ h2m # <<>> /\ Head(h2m).type # "busy" /\ h2m' = Tail(h2m)
           Busily == /\ h2m # <<>> /\ Head(h2m).type = "busy" /\ h2m' = Tail(h2m)
                     /\ busy' = [busy EXCEPT ![Head(h2m).sid] =
                             IF Head(h2m).sid \in open \cup drain THEN Head(h2m).busy ELSE @]
           Frame == UNCHANGED <<h2w, w2h, up, exited>>
           Goal == Frame /\ (Silently \/ Else \/ Busily)
<1>a. /\ Frame /\ Silently => Goal
      /\ Frame /\ Else => Goal
      /\ Frame /\ Busily => Goal
      /\ Goal => Takes
  BY DEF Takes
<1> SUFFICES Goal
  BY <1>a
<1> HIDE DEF Goal
<1>1. CASE HearBusy
  BY <1>1, <1>a, Zenon DEF HearBusy, Heard, Next1, Sender
<1>2. CASE \E s \in Sid : Launch(s) \/ UserEvent(s) \/ UserClose(s) \/ UserReload(s)
  BY <1>2, <1>a DEF Launch, UserEvent, UserClose, UserReload
<1>3. CASE \E a \in Worker \X Ask, value \in {"true", "false"} : UserAnswers(a, value)
  BY <1>3, <1>a DEF UserAnswers
<1>4. CASE HearCreated \/ HearRefused \/ HearFailed
  BY <1>4, <1>a DEF HearCreated, HearRefused, HearFailed, Heard, Next1
<1>5. CASE HearFinished \/ HearCall
  <2>1. /\ h2m # <<>> /\ Head(h2m).type \in {"finished", "call"} /\ h2m' = Tail(h2m)
        /\ busy' = busy /\ Frame
    BY <1>5, Zenon DEF HearFinished, HearCall, Heard, Next1
  <2> QED
    BY <2>1, <1>a
<1>6. CASE Hidden \/ HearExit \/ \E s \in Sid : StopDraining(s)
  BY <1>6, <1>a DEF Hidden, HearExit, StopDraining, wires
<1> QED
  BY <1>1, <1>2, <1>3, <1>4, <1>5, <1>6 DEF MainUser, MainStep, MainHears

LEMMA UnbornOfMain ==
  ASSUME Core, Unborn, MainUser \/ MainStep, UNCHANGED <<hostVars, workerVars>>
  PROVE  Unborn'
PROOF
<1>0. /\ UNCHANGED <<made, hBusy, running, ran>> /\ busy \in [Sid -> BOOLEAN]
      /\ h2m \in Seq(ToMainMsg)
  BY DEF hostVars, workerVars, Core, MainTypes, WireTypes
<1>1. Takes /\ UNCHANGED w2h
  BY Heeding
<1>2. \A M : Has(h2m', M) => Has(h2m, M)
  BY <1>0, <1>1, TakenFrom DEF Takes
<1>3. \A s \in Sid : busy'[s] = busy[s] \/ made[s] # 0
  <2>1. CASE busy' = busy
    BY <2>1
  <2>2. CASE busy' # busy
    <3>1. /\ h2m # <<>> /\ Head(h2m).type = "busy"
          /\ busy' = [busy EXCEPT ![Head(h2m).sid] =
                         IF Head(h2m).sid \in open \cup drain THEN Head(h2m).busy ELSE @]
      BY <2>2, Heeding
    <3>2. made[Head(h2m).sid] # 0
      BY <3>1, HeardSpoken
    <3> QED
      BY <1>0, <3>1, <3>2
  <2> QED
    BY <2>1, <2>2
<1>4. \A s \in Sid : made[s] = 0 => ~Has(h2m', Spoken(s)) /\ ~busy'[s]
  BY <1>2, <1>3 DEF Unborn
<1> QED
  BY <1>0, <1>1, <1>4 DEF Unborn

LEMMA UnbornOfHost ==
  ASSUME Core, Unborn, HostFromMain, UNCHANGED <<mainVars, workerVars>>
  PROVE  Unborn'
PROOF
<1>0. /\ UNCHANGED <<busy, running, ran>> /\ made \in [Sid -> 0..MaxInc] /\ h2m \in Seq(ToMainMsg)
      /\ \A w \in Worker : w[1] \in Sid /\ w[2] \in Nat
  BY DEF mainVars, workerVars, Core, HostTypes, WireTypes, Worker
<1>1. UNCHANGED <<w2h, hBusy>>
  BY DEF HostFromMain, HostCreate, HostEvent, HostDestroy, HostAnswers, hostVars
<1>2. \A s \in Sid : made'[s] = made[s] \/ made'[s] = made[s] + 1
  <2>1. made' = made \/ \E r : made' = [made EXCEPT ![r] = @ + 1]
    BY Zenon DEF HostFromMain, HostCreate, HostEvent, HostDestroy, HostAnswers, hostVars
  <2> QED
    BY <1>0, <2>1
<1>3. \A s \in Sid : made[s] \in Nat /\ (made'[s] = 0 => made[s] = 0)
  BY <1>0, <1>2
<1>4. \A w \in Worker : made'[w[1]] < w[2] => made[w[1]] < w[2]
  BY <1>0, <1>2, <1>3
<1>5. \A s \in Sid : Has(h2m', Spoken(s)) => Has(h2m, Spoken(s))
  <2>1. CASE h2m' = h2m
    BY <2>1
  <2>2. CASE h2m' # h2m
    <3> DEFINE r == Head(m2h).sid
               y == <<Refused(r)>>
    <3>1. HostCreate /\ h2m' = h2m \o y /\ m2h # <<>> /\ Head(m2h).type = "create"
      BY <2>2 DEF HostFromMain, HostCreate, HostEvent, HostDestroy, HostAnswers, ToMain, Gets
    <3>2. r \in Sid
      BY <3>1, HeadOfHost
    <3> HIDE DEF r
    <3>3. Refused(r) \in ToMainMsg /\ \A s : Refused(r) \notin Spoken(s)
      BY <3>2 DEF Refused, ToMainMsg, Spoken, News
    <3>4. y \in Seq(ToMainMsg) /\ \A s : ~Has(y, Spoken(s))
      BY <3>3, OneHeld
    <3> HIDE DEF y
    <3> QED
      BY <1>0, <3>1, <3>4, PutBehind
  <2> QED
    BY <2>1, <2>2
<1> QED
  BY <1>0, <1>1, <1>3, <1>4, <1>5 DEF Unborn

LEMMA UnbornOfThreads ==
  ASSUME Core, Lone, Unborn, NEW w \in Worker, HostFromWorker(w) \/ Deadline(w),
         UNCHANGED <<mainVars, workerVars>>
  PROVE  Unborn'
PROOF
<1>0. /\ UNCHANGED <<busy, running, ran>> /\ h2m \in Seq(ToMainMsg)
      /\ w[1] \in Sid /\ w[2] \in Nat /\ w[2] >= 1 /\ w2h = [v \in Worker |-> w2h[v]]
      /\ \A v \in Worker : w2h[v] \in Seq(FromWorkerMsg(v)) /\ v[1] \in Sid /\ v[2] \in Nat /\ v[2] >= 1
      /\ \A s \in Sid : made[s] \in Nat /\ hSess[s] \in Nat /\ hSess[s] <= made[s]
      /\ hBusy \in [Worker -> BOOLEAN]
  BY DEF mainVars, workerVars, Core, HostTypes, WireTypes, Worker, Threads
<1>1. Stops(w) \/ Drops(w) \/ Fails(w) \/ Passes(w) \/ Dies(w)
  BY Outcomes
<1>2. UNCHANGED made
  BY <1>1 DEF Stops, Drops, Fails, Passes, Dies
<1>3. \A v \in Worker : /\ \A M : Has(w2h'[v], M) => Has(w2h[v], M)
                        /\ w2h[v] = <<>> => w2h'[v] = <<>>
  <2>1. \E p : (p = w2h[w] \/ Left(w2h[w], p)) /\ w2h' = [w2h EXCEPT ![w] = p]
    <3>1. CASE Stops(w) \/ Fails(w)
      BY <3>1 DEF Stops, Fails, Cuts
    <3>2. CASE Drops(w) \/ Passes(w)
      <4>1. w2h[w] # <<>> /\ w2h' = [w2h EXCEPT ![w] = Tail(w2h[w])]
        BY <3>2 DEF Drops, Passes, Take
      <4>2. Left(w2h[w], Tail(w2h[w]))
        BY <4>1 DEF Left
      <4> QED
        BY <4>1, <4>2
    <3>3. CASE Dies(w)
      <4>1. w2h' = [w2h EXCEPT ![w] = w2h[w]]
        BY <1>0, <3>3 DEF Dies
      <4> QED
        BY <4>1
    <3> QED
      BY <1>1, <3>1, <3>2, <3>3
  <2>2. PICK p : (p = w2h[w] \/ Left(w2h[w], p)) /\ w2h' = [w2h EXCEPT ![w] = p]
    BY <2>1
  <2>3. (\A M : Has(p, M) => Has(w2h[w], M)) /\ (w2h[w] = <<>> => p = <<>>)
    <3>1. w2h[w] \in Seq(FromWorkerMsg(w)) /\ (p = w2h[w] \/ Left(w2h[w], p))
      BY <1>0, <2>2
    <3> QED
      BY <3>1, LeftHolds
  <2>4. \A v \in Worker : w2h'[v] = IF v = w THEN p ELSE w2h[v]
    BY <1>0, <2>2
  <2> QED
    BY <2>3, <2>4
<1>4. \A v \in Worker : hBusy'[v] = hBusy[v] \/ v[2] <= made[v[1]]
  <2>1. CASE hBusy' = hBusy
    BY <2>1
  <2>2. CASE hBusy' # hBusy
    <3>1. hSess[w[1]] # 0 /\ hBusy' = [hBusy EXCEPT ![<<w[1], hSess[w[1]]>>] = Head(w2h[w]).busy]
      BY <1>1, <2>2 DEF Stops, Drops, Fails, Passes, Dies
    <3>2. ASSUME NEW v \in Worker, hBusy'[v] # hBusy[v] PROVE v[2] <= made[v[1]]
      <4>1. v = <<w[1], hSess[w[1]]>>
        BY <1>0, <3>1, <3>2
      <4> QED
        BY <1>0, <4>1
    <3> QED
      BY <3>2
  <2> QED
    BY <2>1, <2>2
<1>5. ASSUME NEW s \in Sid, Has(h2m', Spoken(s)) PROVE Has(h2m, Spoken(s)) \/ made[s] # 0
  <2> DEFINE About == News(w) \cup [type : {"created", "refused"}, sid : {w[1]}]
  <2>1. made[w[1]] # 0
    <3>1. /\ w \in up \cup exited \cup ended => w[2] <= made[w[1]]
          /\ ending[w] # "no" => w \in ended
      BY DEF Core, Threads
    <3>2. w2h[w] # <<>> => ~(made[w[1]] < w[2])
      BY DEF Unborn
    <3>3. ending[w] # "no" \/ w2h[w] # <<>> \/ w \in exited
      BY <1>1 DEF Stops, Drops, Fails, Passes, Dies
    <3> QED
      BY <1>0, <3>1, <3>2, <3>3
  <2>2. \E y \in Seq(About) : h2m' = h2m \o y
    <3>1. Refused(w[1]) \in About /\ Created(w[1]) \in About /\ Failed(w, TRUE) \in About
      BY DEF Refused, Created, Failed, News
    <3>2. w2h[w] # <<>> /\ Head(w2h[w]) \in News(w) => Head(w2h[w]) \in About
      OBVIOUS
    <3> HIDE DEF About
    <3>3. CASE h2m' = h2m
      <4>1. <<>> \in Seq(About) /\ <<>> \in Seq(ToMainMsg)
        OBVIOUS
      <4> QED
        BY <1>0, <3>3, <4>1, JoinFacts
    <3>4. CASE h2m' = h2m \o <<Refused(w[1])>> \/ h2m' = h2m \o <<Created(w[1])>>
      <4>1. <<Refused(w[1])>> \in Seq(About) /\ <<Created(w[1])>> \in Seq(About)
        BY <3>1
      <4> QED
        BY <3>4, <4>1
    <3>5. CASE h2m' = h2m \o <<Failed(w, TRUE)>> \/ h2m' = h2m \o <<Failed(w, TRUE), Refused(w[1])>>
      <4>1. <<Failed(w, TRUE)>> \in Seq(About) /\ <<Failed(w, TRUE), Refused(w[1])>> \in Seq(About)
        BY <3>1, Few
      <4> QED
        BY <3>5, <4>1
    <3>6. CASE Passes(w)
      <4>1. Head(w2h[w]) \in About /\ h2m' = h2m \o <<Head(w2h[w])>>
        BY <3>2, <3>6 DEF Passes
      <4>2. <<Head(w2h[w])>> \in Seq(About)
        BY <4>1
      <4> QED
        BY <4>1, <4>2
    <3> QED
      BY <1>1, <3>3, <3>4, <3>5, <3>6, Zenon DEF Stops, Drops, Fails, Dies
  <2>3. PICK y \in Seq(About) : h2m' = h2m \o y
    BY <2>2
  <2>4. About \subseteq ToMainMsg
    BY <1>0 DEF ToMainMsg
  <2>5. s # w[1] => \A m \in About : m \notin Spoken(s)
    <3> SUFFICES ASSUME s # w[1], NEW m \in About, NEW v \in Worker, v[1] = s, m \in News(v)
                 PROVE  FALSE
      BY DEF Spoken
    <3>1. m.type \in {"finished", "busy", "failed", "call"} /\ (m.type # "call" => m.sid = s)
          /\ (m.type = "call" => m.from = v)
      BY DEF News
    <3>2. m.type # "call" => m.sid = w[1]
      BY DEF News
    <3>3. m.type = "call" => m.from = w
      BY <3>1 DEF News
    <3> QED
      BY <3>1, <3>2, <3>3
  <2> HIDE DEF About
  <2>6. y \in Seq(ToMainMsg)
    BY <2>3, <2>4, SeqGrows
  <2>7. Has(h2m, Spoken(s)) \/ Has(y, Spoken(s))
    BY <1>0, <1>5, <2>3, <2>6, PutBehind
  <2>8. s # w[1] => ~Has(y, Spoken(s))
    <3>1. \A i \in 1..Len(y) : y[i] \in About
      BY <2>3, PortFacts
    <3> QED
      BY <2>5, <3>1 DEF Has
  <2> QED
    BY <2>1, <2>7, <2>8
<1>6. \A v \in Worker : made[v[1]] < v[2] => hBusy'[v] = hBusy[v]
  BY <1>0, <1>4
<1> QED
  BY <1>0, <1>2, <1>3, <1>5, <1>6 DEF Unborn

LEMMA UnbornOfWorkers ==
  ASSUME NoFatal, Core, WorkerTypes, Unborn, NEW w \in Worker, WorkerTurn(w) \/ Extension(w),
         UNCHANGED <<mainVars, hostVars>>
  PROVE  Unborn'
PROOF
<1>0. /\ UNCHANGED <<made, busy, hBusy>> /\ w[1] \in Sid /\ w2h = [v \in Worker |-> w2h[v]]
      /\ w2h[w] \in Seq(FromWorkerMsg(w))
      /\ running \in [Worker -> Nat] /\ ran \in [Worker -> Nat]
  BY DEF mainVars, hostVars, Core, WireTypes, WorkerTypes, Worker
<1>1. UNCHANGED h2m
  BY DEF WorkerTurn, Extension, Start, Dispatch, Answered, Destroyed, CallDesktop, CallTimesOut,
         HandlerSettles, Finishes, Fatal, WorkerCeiling, OtherWires, wires
<1>2. PICK x : Adds(w, x) /\ (Idles(w, x) \/ Begins(w, x) \/ Ends(w, x) \/ Asks(w, x))
  BY Speaking DEF Utters, Core
<1>3. /\ w \in up /\ x \in Seq(FromWorkerMsg(w)) /\ w2h' = [w2h EXCEPT ![w] = @ \o x]
      /\ ~Has(x, Fatals(w[1]))
  BY <1>2 DEF Adds
<1>4. w[2] <= made[w[1]] /\ w[2] \in Nat /\ made[w[1]] \in Nat
  BY <1>0, <1>3 DEF Core, Threads, HostTypes, Worker
<1>5. \A v \in Worker : v # w => w2h'[v] = w2h[v] /\ running'[v] = running[v] /\ ran'[v] = ran[v]
  BY <1>0, <1>2, <1>3 DEF Idles, Begins, Ends, Asks
<1>6. ~Has(w2h'[w], Fatals(w[1]))
  <2>1. w2h'[w] = w2h[w] \o x
    BY <1>0, <1>3
  <2>2. ~Has(w2h[w], Fatals(w[1]))
    BY DEF Unborn
  <2>3. \A M : Has(w2h[w] \o x, M) <=> Has(w2h[w], M) \/ Has(x, M)
    BY <1>0, <1>3, PutBehind
  <2> QED
    BY <1>3, <2>1, <2>2, <2>3
<1>7. ~(made[w[1]] < w[2])
  BY <1>4
<1> QED
  BY <1>0, <1>1, <1>5, <1>6, <1>7 DEF Unborn

LEMMA UnbornOfCrashes ==
  ASSUME Core, Unborn,
         \/ (\E w \in Worker : Crash(w)) /\ UNCHANGED <<mainVars, hostVars>>
         \/ HostCrash /\ UNCHANGED <<mainVars, workerVars>>
  PROVE  Unborn'
PROOF
<1>0. /\ h2m \in Seq(ToMainMsg) /\ w2h = [v \in Worker |-> w2h[v]]
      /\ \A v \in Worker : w2h[v] \in Seq(FromWorkerMsg(v))
  BY DEF Core, WireTypes
<1>1. ASSUME NEW w \in Worker, Crash(w), UNCHANGED <<mainVars, hostVars>> PROVE Unborn'
  <2>1. UNCHANGED <<busy, made, hBusy, running, ran, h2m>>
    BY <1>1 DEF Crash, mainVars, hostVars, workerVars
  <2>2. PICK p \in Prefixes(w2h[w]) : w2h' = [w2h EXCEPT ![w] = p]
    BY <1>1 DEF Crash
  <2>3. (\A M : Has(p, M) => Has(w2h[w], M)) /\ (w2h[w] = <<>> => p = <<>>)
    <3>1. w2h[w] \in Seq(FromWorkerMsg(w)) /\ (p = w2h[w] \/ Left(w2h[w], p))
      BY <1>0, <2>2 DEF Left
    <3> QED
      BY <3>1, LeftHolds
  <2>4. \A v \in Worker : w2h'[v] = IF v = w THEN p ELSE w2h[v]
    BY <1>0, <2>2
  <2>5. \A v \in Worker : /\ \A M : Has(w2h'[v], M) => Has(w2h[v], M)
                          /\ w2h[v] = <<>> => w2h'[v] = <<>>
    BY <2>3, <2>4
  <2> QED
    BY <2>1, <2>5 DEF Unborn
<1>2. ASSUME HostCrash, UNCHANGED <<mainVars, workerVars>> PROVE Unborn'
  <2>1. /\ UNCHANGED <<busy, made, running, ran>> /\ h2m' \in Prefixes(h2m)
        /\ w2h' = [w \in Worker |-> <<>>] /\ hBusy' = [w \in Worker |-> FALSE]
    BY <1>2 DEF HostCrash, mainVars, workerVars
  <2>2. \A M : Has(h2m', M) => Has(h2m, M)
    BY <1>0, <2>1, CutShort
  <2>3. \A w \in Worker : w2h'[w] = <<>> /\ ~hBusy'[w] /\ ~Has(w2h'[w], Fatals(w[1]))
    BY <2>1, NoneHeld
  <2> QED
    BY <2>1, <2>2, <2>3 DEF Unborn
<1> QED
  BY <1>1, <1>2

----------------------------------------------------------------------------
Still == Lone /\ Unborn /\ \A s \in Sid : Ledger(s)

LEMMA StillInit == Init => Still
PROOF
<1> SUFFICES ASSUME Init PROVE Still
  OBVIOUS
<1> USE DEF Init, WiresInit, MainInit, HostInit, WorkerInit
<1>1. Lone
  BY DEF Lone
<1>2. (\A M : ~Has(m2h, M) /\ ~Has(h2m, M)) /\ \A w \in Worker : \A M : ~Has(w2h[w], M)
  BY NoneHeld
<1>3. Unborn
  BY <1>2 DEF Unborn
<1>4. ASSUME NEW s \in Sid PROVE Ledger(s)
  BY <1>2, NoneHeld DEF Ledger, Once, Fresh, Matched, Gone, Doomed
<1> QED
  BY <1>1, <1>3, <1>4 DEF Still

LEMMA StillStep ==
  ASSUME NoFatal, Core, WorkerTypes, Still, [Next]_vars
  PROVE  Still'
PROOF
<1>0. Lone /\ Unborn /\ \A s \in Sid : Ledger(s) /\ Once(s) /\ Fresh(s) /\ Matched(s)
  BY DEF Still, Ledger
<1>1. CASE (MainUser \/ MainStep) /\ UNCHANGED <<hostVars, workerVars>>
  <2>1. Unborn' /\ Lone'
    BY <1>0, <1>1, UnbornOfMain, LoneStep DEF Next
  <2>2. UNCHANGED <<hSess, made, ended, up, exited>>
    BY <1>1, Heeding DEF hostVars
  <2>3. ASSUME NEW s \in Sid PROVE Ledger(s)'
    <3>1. CASE Launch(s)
      BY <1>0, <2>2, <3>1, LedgerOfLaunch
    <3>2. CASE ~Launch(s)
      <4>1. Deals(s)
        BY <1>0, <1>1, <3>2, Dealing
      <4> QED
        BY <1>0, <2>2, <4>1, LedgerOfMain
    <3> QED
      BY <3>1, <3>2
  <2> QED
    BY <2>1, <2>3 DEF Still
<1>2. CASE HostFromMain /\ UNCHANGED <<mainVars, workerVars>>
  <2>1. Unborn' /\ Lone'
    BY <1>0, <1>2, UnbornOfHost, LoneStep DEF Next
  <2>2. ASSUME NEW s \in Sid PROVE Ledger(s)'
    BY <1>0, <1>2, LedgerOfHost
  <2> QED
    BY <2>1, <2>2 DEF Still
<1>3. ASSUME NEW w \in Worker, HostFromWorker(w) \/ Deadline(w), UNCHANGED <<mainVars, workerVars>>
      PROVE  Still'
  <2>1. Unborn' /\ Lone'
    BY <1>0, <1>3, UnbornOfThreads, LoneStep DEF Next
  <2>2. ASSUME NEW s \in Sid PROVE Ledger(s)'
    BY <1>0, <1>3, LedgerOfThreads
  <2> QED
    BY <2>1, <2>2 DEF Still
<1>4. ASSUME NEW w \in Worker, WorkerTurn(w) \/ Extension(w), UNCHANGED <<mainVars, hostVars>>
      PROVE  Still'
  <2>1. Unborn' /\ Lone'
    BY <1>0, <1>4, UnbornOfWorkers, LoneStep DEF Next
  <2>2. UNCHANGED <<process, m2h, h2m, up, exited>>
    BY <1>4 DEF WorkerTurn, Extension, Start, Dispatch, Answered, Destroyed, CallDesktop, CallTimesOut,
         HandlerSettles, Finishes, Fatal, WorkerCeiling, OtherWires, wires
  <2>3. ASSUME NEW s \in Sid PROVE Ledger(s)'
    BY <1>0, <1>4, <2>2, LedgerStill
  <2> QED
    BY <2>1, <2>3 DEF Still
<1>5. ASSUME NEW w \in Worker, Crash(w), UNCHANGED <<mainVars, hostVars>>
      PROVE  Still'
  <2>1. Unborn' /\ Lone'
    BY <1>0, <1>5, UnbornOfCrashes, LoneStep DEF Next
  <2>2. UNCHANGED <<process, m2h, h2m>> /\ up' \cup exited' = up \cup exited
    BY <1>5 DEF Crash
  <2>3. ASSUME NEW s \in Sid PROVE Ledger(s)'
    BY <1>0, <1>5, <2>2, LedgerStill
  <2> QED
    BY <2>1, <2>3 DEF Still
<1>6. CASE "hostCrash" \in Faults /\ HostCrash /\ UNCHANGED <<mainVars, workerVars>>
  <2>1. Unborn' /\ Lone'
    BY <1>0, <1>6, UnbornOfCrashes, LoneStep DEF Next
  <2>2. ASSUME NEW s \in Sid PROVE Ledger(s)'
    BY <1>0, <1>6, LedgerOfCrash
  <2> QED
    BY <2>1, <2>2 DEF Still
<1>7. CASE UNCHANGED vars
  <2>1. UNCHANGED <<mainVars, hostVars, process, m2h, h2m, w2h, up, exited, running, ran>>
    BY <1>7 DEF vars, wires, workerVars
  <2>2. ASSUME NEW s \in Sid PROVE Ledger(s)'
    BY <1>0, <2>1, LedgerStill
  <2>3. Lone' /\ Unborn'
    BY <1>0, <2>1 DEF Lone, Unborn, mainVars, hostVars
  <2> QED
    BY <2>2, <2>3 DEF Still
<1> QED
  BY <1>1, <1>2, <1>3, <1>4, <1>5, <1>6, <1>7 DEF Next

LEMMA StillHolds ==
  ASSUME NoFatal
  PROVE  Spec => []Still
PROOF
<1>1. Core /\ WorkerTypes /\ Still /\ [Next]_vars => Still'
  BY StillStep
<1> QED
  BY <1>1, StillInit, CoreHolds, PTL DEF Spec

LEMMA StillAgrees ==
  ASSUME Core, Still
  PROVE  SessionsAgree /\ FinishedIsStopped
PROOF
<1>1. SUFFICES ASSUME Quiet
              PROVE  open = InMap /\ \A s \in Sid : why[s] = "finished" => s \notin open \cup InMap
  BY DEF SessionsAgree, FinishedIsStopped
<1>2. (\A M : ~Has(m2h, M) /\ ~Has(h2m, M)) /\ process # "dead"
  BY <1>1, NoneHeld DEF Quiet
<1>3. process \in {"none", "up", "dead"} /\ open \subseteq Sid
  BY DEF Core, WireTypes, MainTypes
<1>4. ASSUME NEW s \in Sid
      PROVE  (s \in open <=> hSess[s] # 0) /\ (why[s] = "finished" => s \notin open)
  BY <1>2, <1>3 DEF Still, Ledger, Once, Fresh, Matched
<1> QED
  BY <1>3, <1>4 DEF InMap

----------------------------------------------------------------------------
(* What is held of "an action is still running": by the thread, on its way, *)
(* by the host and by main.                                                 *)

First(s) == <<s, 1>>

InTune(s, b, c) ==
  /\ Followed(w2h[First(s)], Tells(s, c), Tells(s, b))
  /\ ~Has(w2h[First(s)], Tells(s, b)) =>
       /\ Followed(h2m, Tells(s, c), Tells(s, b))
       /\ hSess[s] = 1 => hBusy[First(s)] = b
       /\ s \in open /\ ~Has(h2m, Tells(s, b)) => busy[s] = b

Tuned(s) ==
  First(s) \in up => /\ running[First(s)] > 0 => InTune(s, TRUE, FALSE)
                     /\ running[First(s)] = 0 => InTune(s, FALSE, TRUE)

LEMMA FirstFacts ==
  ASSUME Core, WorkerTypes, Still, NEW s \in Sid
  PROVE  /\ First(s) \in Worker /\ First(s)[1] = s /\ First(s)[2] = 1 /\ running[First(s)] \in Nat
         /\ hSess[s] \in {0, 1} /\ made[s] \in {0, 1} /\ (hSess[s] = 1 => made[s] = 1)
         /\ First(s) \in up \cup exited \cup ended => made[s] = 1
         /\ \A v \in Worker : v[1] = s /\ v # First(s) =>
              v \notin up \cup exited \cup ended /\ w2h[v] = <<>> /\ running[v] = 0
         /\ ~Has(m2h, Of("create", s)) \/ made[s] = 0
         /\ w2h[First(s)] \in Seq(FromWorkerMsg(First(s))) /\ h2m \in Seq(ToMainMsg)
PROOF
<1>1. 1 \in 1..MaxInc
  BY WiresAssumption
<1>2. First(s) \in Worker /\ First(s)[1] = s /\ First(s)[2] = 1
  BY <1>1 DEF First, Worker
<1>3. made[s] \in Nat /\ hSess[s] \in Nat /\ hSess[s] <= made[s] /\ made[s] <= 1
  <2>1. made[s] \in Nat /\ hSess[s] \in Nat /\ hSess[s] <= made[s]
    BY DEF Core, HostTypes, Threads
  <2>2. made[s] <= 1
    BY DEF Still, Ledger, Once
  <2> QED
    BY <2>1, <2>2
<1>4. \A w \in up \cup exited \cup ended : w[2] <= made[w[1]]
  BY DEF Core, Threads
<1>5. ASSUME NEW v \in Worker, v[1] = s, v # First(s)
      PROVE  v \notin up \cup exited \cup ended /\ w2h[v] = <<>> /\ running[v] = 0
  <2>1. v[2] \in Nat /\ v[2] > 1
    BY <1>5 DEF Worker, First
  <2>2. made[v[1]] < v[2]
    BY <1>3, <1>5, <2>1
  <2>3. ~(v[2] <= made[v[1]])
    BY <1>3, <1>5, <2>1
  <2>4. v \notin up \cup exited \cup ended
    BY <1>4, <2>3
  <2>5. w2h[v] = <<>> /\ running[v] = 0
    BY <2>2 DEF Still, Unborn
  <2> QED
    BY <2>4, <2>5
<1>6. First(s) \in up \cup exited \cup ended => made[s] = 1
  <2> SUFFICES ASSUME First(s) \in up \cup exited \cup ended PROVE made[s] = 1
    OBVIOUS
  <2>1. First(s)[2] <= made[First(s)[1]]
    BY <1>4
  <2> QED
    BY <1>2, <1>3, <2>1
<1>7. ~Has(m2h, Of("create", s)) \/ made[s] = 0
  BY Ordered
<1>8. w2h[First(s)] \in Seq(FromWorkerMsg(First(s))) /\ h2m \in Seq(ToMainMsg) /\ running[First(s)] \in Nat
  <2>1. \A v \in Worker : w2h[v] \in Seq(FromWorkerMsg(v)) /\ running[v] \in Nat
    BY DEF Core, WireTypes, WorkerTypes
  <2> QED
    BY <1>2, <2>1 DEF Core, WireTypes
<1>9. hSess[s] \in {0, 1} /\ made[s] \in {0, 1} /\ (hSess[s] = 1 => made[s] = 1)
  BY <1>3
<1> QED
  BY <1>2, <1>5, <1>6, <1>7, <1>8, <1>9

LEMMA TunedOfMain ==
  ASSUME Core, WorkerTypes, Still, NEW s \in Sid, Tuned(s), MainUser \/ MainStep,
         UNCHANGED <<hostVars, workerVars>>
  PROVE  Tuned(s)'
PROOF
<1>0. UNCHANGED <<hSess, hBusy, running, w2h, up>> /\ h2m \in Seq(ToMainMsg) /\ busy \in [Sid -> BOOLEAN]
  BY Heeding DEF hostVars, workerVars, Core, WireTypes, MainTypes
<1> SUFFICES ASSUME First(s) \in up
             PROVE  /\ running[First(s)] > 0 => InTune(s, TRUE, FALSE)'
                    /\ running[First(s)] = 0 => InTune(s, FALSE, TRUE)'
  BY <1>0 DEF Tuned, First
<1>1. s \in open' => s \in open
  <2>1. launch[s] # "no"
    BY FirstFacts DEF Still, Ledger, Fresh
  <2>2. ~Launch(s)
    BY <2>1 DEF Launch
  <2>3. Deals(s)
    BY <2>2, Dealing DEF Still, Ledger
  <2> QED
    BY <2>3 DEF Deals, Parts
<1>2. ASSUME NEW b \in BOOLEAN, NEW c \in BOOLEAN, b # c, InTune(s, b, c) PROVE InTune(s, b, c)'
  <2> DEFINE B == Tells(s, b)
             C == Tells(s, c)
  <2>1. /\ Followed(w2h[First(s)], C, B)
        /\ ~Has(w2h[First(s)], B) =>
               /\ Followed(h2m, C, B)
               /\ hSess[s] = 1 => hBusy[First(s)] = b
               /\ s \in open /\ ~Has(h2m, B) => busy[s] = b
    BY <1>2 DEF InTune
  <2>a. /\ ~Has(w2h[First(s)], B) =>
               /\ Followed(h2m', C, B)
               /\ s \in open /\ ~Has(h2m', B) => busy'[s] = b
        => InTune(s, b, c)'
    BY <1>0, <1>1, <2>1 DEF InTune, First
  <2>b. /\ \A m \in B : m.type = "busy" /\ m.sid = s /\ m.busy = b
        /\ \A m \in C : m.type = "busy" /\ m.sid = s /\ m.busy = c
        /\ \A m : m \in Tells(s, TRUE) \/ m \in Tells(s, FALSE) => m \in B \/ m \in C
    <3>1. (b = TRUE /\ c = FALSE) \/ (b = FALSE /\ c = TRUE)
      BY <1>2
    <3> QED
      BY <3>1, Sorted
  <2> HIDE DEF B, C
  <2>2. CASE h2m' = h2m /\ busy' = busy
    BY <2>1, <2>2, <2>a
  <2>3. CASE h2m # <<>> /\ h2m' = Tail(h2m)
    <3> DEFINE m == Head(h2m)
    <3>a. /\ Has(h2m, B) <=> m \in B \/ Has(Tail(h2m), B)
          /\ Followed(h2m, C, B) =>
               Followed(Tail(h2m), C, B) /\ (m \in C => Has(Tail(h2m), B))
      BY <1>0, <2>3, TakenFrom
    <3>1. /\ Has(h2m, B) <=> m \in B \/ Has(h2m', B)
          /\ Followed(h2m, C, B) => Followed(h2m', C, B) /\ (m \in C => Has(h2m', B))
      BY <3>a, <2>3
    <3>2. /\ m.type # "busy" => busy' = busy
          /\ m.type = "busy" => busy' = [busy EXCEPT ![m.sid] = IF m.sid \in open \cup drain THEN m.busy ELSE @]
      <4>1. h2m' # h2m
        BY <1>0, <2>3, PortFacts
      <4> QED
        BY <4>1, Heeding
    <3>3. m.type = "busy" =>
            m.sid \in Sid /\ (m \in Tells(m.sid, TRUE) \/ m \in Tells(m.sid, FALSE))
      <4> SUFFICES ASSUME m.type = "busy"
                   PROVE  m.sid \in Sid /\ (m \in Tells(m.sid, TRUE) \/ m \in Tells(m.sid, FALSE))
        OBVIOUS
      <4>1. m \in ToMainMsg
        BY <1>0, <2>3, PortFacts
      <4> HIDE DEF m
      <4>2. PICK w \in Worker : m \in News(w)
        BY <4>1 DEF ToMainMsg
      <4>3. m \in [type : {"busy"}, sid : {w[1]}, busy : BOOLEAN] /\ w[1] \in Sid
        BY <4>2 DEF News, Worker
      <4> QED
        BY <4>3 DEF Tells
    <3> HIDE DEF m
    <3>4. ASSUME ~Has(w2h[First(s)], B), s \in open, ~Has(h2m', B)
          PROVE  busy'[s] = b
      <4>0. Followed(h2m, C, B) /\ (~Has(h2m, B) => busy[s] = b)
        BY <2>1, <3>4
      <4>1. m \notin C
        BY <4>0, <3>1, <3>4
      <4>2. CASE m \in B
        <5>1. m.type = "busy" /\ m.sid = s /\ m.busy = b
          BY <4>2, <2>b
        <5> QED
          BY <1>0, <3>2, <3>4, <5>1
      <4>3. CASE m \notin B
        <5>1. ~Has(h2m, B)
          BY <3>1, <3>4, <4>3
        <5>2. m.type = "busy" => m.sid # s /\ m.sid \in Sid
          BY <2>b, <3>3, <4>1, <4>3
        <5>3. busy'[s] = busy[s]
          BY <1>0, <3>2, <5>2
        <5> QED
          BY <4>0, <5>1, <5>3
      <4> QED
        BY <4>2, <4>3
    <3>5. Followed(h2m, C, B) => Followed(h2m', C, B)
      BY <3>1
    <3> QED
      BY <2>1, <2>a, <3>4, <3>5
  <2> QED
    BY <2>2, <2>3, Heeding
<1>3. /\ running[First(s)] > 0 => InTune(s, TRUE, FALSE)
      /\ running[First(s)] = 0 => InTune(s, FALSE, TRUE)
  BY DEF Tuned
<1> QED
  BY <1>2, <1>3

(* A step of the host that says nothing of the session's handlers.          *)
LEMMA TunedKept ==
  ASSUME Core, WorkerTypes, Still, NEW s \in Sid, Tuned(s),
         UNCHANGED <<mainVars, workerVars>>,
         First(s) \in up' => First(s) \in up,
         First(s) \in up' =>
           \/ w2h'[First(s)] = w2h[First(s)]
           \/ /\ w2h[First(s)] # <<>> /\ w2h'[First(s)] = Tail(w2h[First(s)])
              /\ Head(w2h[First(s)]).type # "busy",
         NEW y \in Seq(ToMainMsg), h2m' = h2m \o y,
         ~Has(y, Tells(s, TRUE)), ~Has(y, Tells(s, FALSE)),
         hSess'[s] = 1 => hSess[s] = 1, hBusy'[First(s)] = hBusy[First(s)]
  PROVE  Tuned(s)'
PROOF
<1>0. UNCHANGED <<running, open, busy>>
  BY DEF mainVars, workerVars
<1> SUFFICES ASSUME First(s) \in up'
             PROVE  /\ running[First(s)] > 0 => InTune(s, TRUE, FALSE)'
                    /\ running[First(s)] = 0 => InTune(s, FALSE, TRUE)'
  BY <1>0 DEF Tuned, First
<1>1. w2h[First(s)] \in Seq(FromWorkerMsg(First(s))) /\ h2m \in Seq(ToMainMsg)
  BY FirstFacts
<1>2. ASSUME NEW b \in BOOLEAN, NEW c \in BOOLEAN, InTune(s, b, c) PROVE InTune(s, b, c)'
  <2> DEFINE B == Tells(s, b)
             C == Tells(s, c)
             q == w2h[First(s)]
  <2>1. /\ Followed(q, C, B)
        /\ ~Has(q, B) =>
               /\ Followed(h2m, C, B)
               /\ hSess[s] = 1 => hBusy[First(s)] = b
               /\ s \in open /\ ~Has(h2m, B) => busy[s] = b
    BY <1>2 DEF InTune
  <2>2. ~Has(y, B) /\ ~Has(y, C)
    <3>1. b \in {TRUE, FALSE} /\ c \in {TRUE, FALSE}
      OBVIOUS
    <3> QED
      BY <3>1
  <2>b. \A m : m.type # "busy" => m \notin B
    BY Sorted
  <2>a. /\ Followed(w2h'[First(s)], C, B)
        /\ ~Has(w2h'[First(s)], B) =>
               /\ Followed(h2m', C, B)
               /\ hSess'[s] = 1 => hBusy'[First(s)] = b
               /\ s \in open /\ ~Has(h2m', B) => busy[s] = b
        => InTune(s, b, c)'
    BY <1>0 DEF InTune, First
  <2> HIDE DEF B, C, q
  <2>0. q \in Seq(FromWorkerMsg(First(s)))
    BY <1>1 DEF q
  <2>3. Followed(w2h'[First(s)], C, B) /\ (Has(q, B) => Has(w2h'[First(s)], B))
    <3>1. CASE w2h'[First(s)] = q
      BY <2>1, <3>1
    <3>2. CASE q # <<>> /\ w2h'[First(s)] = Tail(q) /\ Head(q).type # "busy"
      <4>1. Head(q) \notin B
        BY <3>2, <2>b
      <4>2. /\ Has(q, B) <=> Head(q) \in B \/ Has(Tail(q), B)
            /\ Followed(q, C, B) => Followed(Tail(q), C, B)
        BY <2>0, <3>2, TakenFrom
      <4> QED
        BY <2>1, <3>2, <4>1, <4>2
    <3> QED
      BY <3>1, <3>2 DEF q
  <2>4. (Has(h2m', B) <=> Has(h2m, B)) /\ (Followed(h2m, C, B) => Followed(h2m', C, B))
    <3>1. Followed(y, C, B)
      BY <2>2 DEF Has, Followed
    <3>2. /\ Has(h2m \o y, B) <=> Has(h2m, B) \/ Has(y, B)
          /\ Followed(h2m, C, B) /\ Followed(y, C, B) => Followed(h2m \o y, C, B)
      BY <1>1, PutBehind
    <3> QED
      BY <2>2, <3>1, <3>2
  <2> QED
    BY <2>1, <2>3, <2>4, <2>a
<1>3. /\ running[First(s)] > 0 => InTune(s, TRUE, FALSE)
      /\ running[First(s)] = 0 => InTune(s, FALSE, TRUE)
  BY DEF Tuned
<1> QED
  BY <1>2, <1>3

(* The host's own reports say nothing of handlers.                          *)
LEMMA Reports ==
  ASSUME NEW s \in Sid, NEW r \in Sid, NEW v \in Worker,
         NEW y \in {<<>>, <<Refused(r)>>, <<Created(r)>>, <<Failed(v, TRUE)>>,
                    <<Failed(v, TRUE), Refused(r)>>}
  PROVE  y \in Seq(ToMainMsg) /\ ~Has(y, Tells(s, TRUE)) /\ ~Has(y, Tells(s, FALSE))
PROOF
<1> DEFINE a == Failed(v, TRUE)
           b == Refused(r)
           c == Created(r)
<1>1. a \in ToMainMsg /\ b \in ToMainMsg /\ c \in ToMainMsg
  <2>1. Failed(v, TRUE) \in News(v)
    BY DEF Failed, News
  <2>2. a \in ToMainMsg
    BY <2>1, Zenon DEF ToMainMsg
  <2> QED
    BY <2>2 DEF Refused, Created, ToMainMsg
<1>2. a.type # "busy" /\ b.type # "busy" /\ c.type # "busy"
  BY DEF Failed, Refused, Created
<1> HIDE DEF a, b, c
<1>3. \A M \in {Tells(s, TRUE), Tells(s, FALSE)} :
        ~Has(<<>>, M) /\ ~Has(<<a>>, M) /\ ~Has(<<b>>, M) /\ ~Has(<<c>>, M) /\ ~Has(<<a, b>>, M)
  <2> TAKE M \in {Tells(s, TRUE), Tells(s, FALSE)}
  <2>1. a \notin M /\ b \notin M /\ c \notin M
    BY <1>2, Sorted
  <2>2. /\ Has(<<a>>, M) <=> a \in M
        /\ Has(<<b>>, M) <=> b \in M
        /\ Has(<<c>>, M) <=> c \in M
    BY OneHeld
  <2>3. Has(<<a, b>>, M) <=> a \in M \/ b \in M
    BY TwoHeld
  <2> QED
    BY <2>1, <2>2, <2>3, NoneHeld
<1>4. \A z \in {<<>>, <<b>>, <<c>>, <<a>>, <<a, b>>} : z \in Seq(ToMainMsg)
  <2>1. <<>> \in Seq(ToMainMsg) /\ <<b>> \in Seq(ToMainMsg) /\ <<c>> \in Seq(ToMainMsg)
    BY <1>1
  <2>2. <<a>> \in Seq(ToMainMsg) /\ <<a, b>> \in Seq(ToMainMsg)
    BY <1>1
  <2> QED
    BY <2>1, <2>2
<1>5. y \in {<<>>, <<b>>, <<c>>, <<a>>, <<a, b>>}
  BY DEF a, b, c
<1> QED
  BY <1>3, <1>4, <1>5

LEMMA TunedOfHost ==
  ASSUME Core, WorkerTypes, Still, NEW s \in Sid, Tuned(s), HostFromMain,
         UNCHANGED <<mainVars, workerVars>>
  PROVE  Tuned(s)'
PROOF
<1> DEFINE m == Head(m2h)
           f == First(s)
<1>0. /\ hSess \in [Sid -> 0..MaxInc] /\ made \in [Sid -> 0..MaxInc] /\ h2m \in Seq(ToMainMsg)
      /\ f \in Worker /\ f[1] = s /\ f[2] = 1 /\ f = <<s, 1>>
  BY FirstFacts DEF Core, HostTypes, WireTypes, First
<1>1. m2h # <<>> /\ UNCHANGED <<w2h, hBusy>>
  BY DEF HostFromMain, HostCreate, HostEvent, HostDestroy, HostAnswers, Gets, hostVars
<1>2. m.type \in {"create", "reload", "event", "destroy"} => m.sid \in Sid
  BY <1>1, HeadOfHost
<1>3. h2m \o <<>> = h2m
  <2>1. <<>> \in Seq(ToMainMsg)
    OBVIOUS
  <2> QED
    BY <1>0, <2>1, JoinFacts
<1>a. ASSUME NEW r \in Sid, NEW y \in {<<>>, <<Refused(r)>>}, h2m' = h2m \o y,
             f \in up' => f \in up, hSess'[s] = 1 => hSess[s] = 1
      PROVE  Tuned(s)'
  <2>1. y \in Seq(ToMainMsg) /\ ~Has(y, Tells(s, TRUE)) /\ ~Has(y, Tells(s, FALSE))
    <3>1. y \in {<<>>, <<Refused(r)>>, <<Created(r)>>, <<Failed(f, TRUE)>>,
                 <<Failed(f, TRUE), Refused(r)>>}
      OBVIOUS
    <3> HIDE DEF f
    <3> QED
      BY <1>0, <3>1, Reports
  <2>2. w2h'[First(s)] = w2h[First(s)] /\ hBusy'[First(s)] = hBusy[First(s)]
    BY <1>1 DEF First
  <2> QED
    BY <1>a, <2>1, <2>2, TunedKept
<1> HIDE DEF m, f
<1>4. CASE HostCreate
  <2>1. m.type = "create" /\ m.sid \in Sid
    BY <1>2, <1>4 DEF HostCreate, Gets, m
  <2>2. CASE m.sid \in InMap \/ Cardinality(InMap) >= MaxSessions
    <3>1. h2m' = h2m \o <<Refused(m.sid)>> /\ UNCHANGED <<hSess, up>>
      BY <1>4, <2>2 DEF HostCreate, ToMain, m
    <3> QED
      BY <1>a, <2>1, <3>1
  <2>3. CASE ~(m.sid \in InMap \/ Cardinality(InMap) >= MaxSessions)
    <3>1. /\ hSess' = [hSess EXCEPT ![m.sid] = made[m.sid] + 1] /\ h2m' = h2m
          /\ up' = up \cup {<<m.sid, made[m.sid] + 1>>}
      BY <1>4, <2>3 DEF HostCreate, m
    <3>2. CASE m.sid # s
      <4>1. hSess'[s] = hSess[s] /\ (f \in up' => f \in up) /\ h2m' = h2m \o <<>>
        BY <1>0, <1>3, <3>1, <3>2
      <4> QED
        BY <1>a, <4>1
    <3>3. CASE m.sid = s
      <4>1. made[s] = 0
        <5>1. Has(m2h, Of("create", s))
          BY <1>1, <2>1, <3>3, HeadOfHost DEF m
        <5> QED
          BY <5>1, Ordered
      <4>2. /\ w2h[f] = <<>> /\ running[f] = 0 /\ hBusy[f] = FALSE
            /\ ~Has(h2m, Spoken(s)) /\ busy[s] = FALSE
        <5>1. made[f[1]] < f[2]
          BY <1>0, <4>1
        <5>2. hBusy[f] \in BOOLEAN /\ busy[s] \in BOOLEAN
          BY <1>0 DEF Core, HostTypes, MainTypes
        <5> QED
          BY <1>0, <4>1, <5>1, <5>2 DEF Still, Unborn
      <4>3. ~Has(h2m, Tells(s, TRUE)) /\ ~Has(h2m, Tells(s, FALSE))
        <5>1. Tells(s, TRUE) \subseteq News(f) /\ Tells(s, FALSE) \subseteq News(f)
          BY <1>0 DEF Tells, News
        <5>2. News(f) \subseteq Spoken(s)
          BY <1>0 DEF Spoken
        <5> QED
          BY <4>2, <5>1, <5>2 DEF Has
      <4>4. UNCHANGED <<running, busy>>
        BY DEF mainVars, workerVars
      <4>5. Followed(h2m', Tells(s, TRUE), Tells(s, FALSE))
        BY <3>1, <4>3 DEF Followed, Has
      <4>6. InTune(s, FALSE, TRUE)'
        BY <1>1, <3>1, <4>2, <4>4, <4>5, NoneHeld DEF InTune, f, First
      <4>7. running'[First(s)] = 0 /\ ~(running'[First(s)] > 0)
        BY <4>2, <4>4 DEF f
      <4> HIDE DEF f
      <4>8. running'[First(s)] = 0 => InTune(s, FALSE, TRUE)'
        BY <4>6
      <4> QED
        BY <4>7, <4>8, Zenon DEF Tuned, First
    <3> QED
      BY <3>2, <3>3
  <2> QED
    BY <2>2, <2>3
<1>5. CASE HostEvent \/ HostAnswers
  <2>1. UNCHANGED <<h2m, up, hSess>>
    BY <1>5 DEF HostEvent, HostAnswers, hostVars
  <2> QED
    BY <1>3, <1>a, <2>1
<1>6. ASSUME NEW type \in {"destroy", "reload"}, NEW via, HostDestroy(type, via) PROVE Tuned(s)'
  <2>1. m.sid \in Sid /\ UNCHANGED <<h2m, up>>
    BY <1>2, <1>6 DEF HostDestroy, Gets, m
  <2>2. hSess' = hSess \/ hSess' = [hSess EXCEPT ![m.sid] = 0]
    BY <1>6, Zenon DEF HostDestroy, m
  <2>3. hSess'[s] = 1 => hSess[s] = 1
    BY <1>0, <2>1, <2>2
  <2> QED
    BY <1>3, <1>a, <2>1, <2>3
<1> QED
  BY <1>4, <1>5, <1>6 DEF HostFromMain

(* The host takes the thread's word of its handlers: it records it and      *)
(* passes it on.                                                            *)
LEMMA TunedPassing ==
  ASSUME Core, WorkerTypes, Still, NEW s \in Sid, Tuned(s), Passes(First(s)),
         Head(w2h[First(s)]).type = "busy", UNCHANGED <<mainVars, workerVars>>
  PROVE  Tuned(s)'
PROOF
<1> DEFINE f == First(s)
           q == w2h[f]
           m == Head(q)
<1>0. /\ f \in Worker /\ f[1] = s /\ f[2] = 1 /\ f = <<s, 1>>
      /\ q \in Seq(FromWorkerMsg(f)) /\ h2m \in Seq(ToMainMsg) /\ hBusy \in [Worker -> BOOLEAN]
      /\ w2h = [v \in Worker |-> w2h[v]]
      /\ UNCHANGED <<running, open, busy>> /\ hSess[s] \in {0, 1}
  BY FirstFacts DEF Core, HostTypes, WireTypes, First, mainVars, workerVars
<1>1. /\ q # <<>> /\ m \in News(f) /\ w2h' = [w2h EXCEPT ![f] = Tail(q)] /\ h2m' = h2m \o <<m>>
      /\ hSess[s] # 0 => hBusy' = [hBusy EXCEPT ![<<s, hSess[s]>>] = m.busy]
      /\ UNCHANGED <<hSess, up>>
  BY <1>0 DEF Passes, Take
<1>2. m \in ToMainMsg /\ m.busy \in BOOLEAN /\ m \in Tells(s, m.busy) /\ m.type = "busy"
  <2>1. m \in ToMainMsg
    BY <1>0, <1>1, Zenon DEF ToMainMsg
  <2> HIDE DEF f, q
  <2>2. m \in [type : {"busy"}, sid : {s}, busy : BOOLEAN]
    <3>1. m.type = "busy"
      BY DEF q, f
    <3> HIDE DEF m
    <3> QED
      BY <1>0, <1>1, <3>1 DEF News
  <2> HIDE DEF m
  <2> QED
    BY <2>1, <2>2 DEF Tells
<1> SUFFICES ASSUME f \in up
             PROVE  /\ running[f] > 0 => InTune(s, TRUE, FALSE)'
                    /\ running[f] = 0 => InTune(s, FALSE, TRUE)'
  BY <1>0, <1>1 DEF Tuned, First
<1>3. ASSUME NEW b \in BOOLEAN, NEW c \in BOOLEAN, b # c, InTune(s, b, c) PROVE InTune(s, b, c)'
  <2> DEFINE B == Tells(s, b)
             C == Tells(s, c)
  <2>1. Followed(q, C, B)
    BY <1>3 DEF InTune
  <2>2. /\ Followed(w2h'[f], C, B)
        /\ ~Has(w2h'[f], B) =>
             /\ Followed(h2m', C, B)
             /\ hSess'[s] = 1 => hBusy'[f] = b
             /\ s \in open' /\ ~Has(h2m', B) => busy'[s] = b
        => InTune(s, b, c)'
    BY DEF InTune, First
  <2>3. (m.busy = b => m \in B /\ m \notin C) /\ (m.busy # b => m \in C)
    <3> HIDE DEF q, f, m
    <3>1. m.busy # b => m.busy = c
      BY <1>2, <1>3
    <3>2. m.busy = b => m \notin Tells(s, c)
      BY <1>3, Sorted
    <3> QED
      BY <1>2, <3>1, <3>2
  <2>4. w2h'[f] = Tail(q)
    BY <1>0, <1>1
  <2> HIDE DEF B, C, q, f
  <2>5. Followed(Tail(q), C, B) /\ (m \in C => Has(Tail(q), B))
    BY <1>0, <1>1, <2>1, TakenFrom
  <2>6. CASE m.busy # b
    BY <2>2, <2>3, <2>4, <2>5, <2>6
  <2>7. CASE m.busy = b
    <3> HIDE DEF m
    <3> DEFINE x == <<m>>
    <3>1. x \in Seq(ToMainMsg)
      BY <1>2
    <3>2. Has(x, B) /\ Followed(x, C, B)
      BY <2>3, <2>7, OneHeld
    <3> HIDE DEF x
    <3>3. Has(h2m \o x, B) /\ Followed(h2m \o x, C, B)
      BY <1>0, <3>1, <3>2, PutBehind
    <3>4. h2m' = h2m \o x
      BY <1>1 DEF x
    <3>5. hSess'[s] = 1 => hBusy'[f] = b
      BY <1>0, <1>1, <2>7
    <3> QED
      BY <2>2, <2>4, <2>5, <3>3, <3>4, <3>5
  <2> QED
    BY <2>6, <2>7
<1>4. /\ running[f] > 0 => InTune(s, TRUE, FALSE)
      /\ running[f] = 0 => InTune(s, FALSE, TRUE)
  BY <1>1 DEF Tuned
<1> QED
  BY <1>3, <1>4

LEMMA TunedOfThreads ==
  ASSUME Core, WorkerTypes, Still, NEW s \in Sid, Tuned(s),
         NEW v \in Worker, HostFromWorker(v) \/ Deadline(v), UNCHANGED <<mainVars, workerVars>>
  PROVE  Tuned(s)'
PROOF
<1> DEFINE f == First(s)
<1>0. /\ h2m \in Seq(ToMainMsg) /\ w2h = [u \in Worker |-> w2h[u]]
      /\ hSess \in [Sid -> 0..MaxInc] /\ hBusy \in [Worker -> BOOLEAN]
      /\ f \in Worker /\ f[1] = s /\ v[1] \in Sid
  BY FirstFacts DEF Core, HostTypes, WireTypes, Worker
<1>1. Stops(v) \/ Drops(v) \/ Fails(v) \/ Passes(v) \/ Dies(v)
  BY Outcomes DEF Still
<1>2. v # f => w2h'[f] = w2h[f]
  <2>1. \E p : w2h' = [w2h EXCEPT ![v] = p]
    <3>1. CASE Dies(v)
      <4>1. w2h' = [w2h EXCEPT ![v] = w2h[v]]
        BY <1>0, <3>1 DEF Dies
      <4> QED
        BY <4>1
    <3>2. CASE Drops(v) \/ Passes(v)
      <4>1. w2h' = [w2h EXCEPT ![v] = Tail(w2h[v])]
        BY <3>2 DEF Drops, Passes, Take
      <4> QED
        BY <4>1
    <3>3. CASE Stops(v) \/ Fails(v)
      BY <3>3, Zenon DEF Stops, Fails, Cuts
    <3> QED
      BY <1>1, <3>1, <3>2, <3>3
  <2>2. PICK p : w2h' = [w2h EXCEPT ![v] = p]
    BY <2>1
  <2> HIDE DEF f
  <2> QED
    BY <1>0, <2>2
<1>3. up' \subseteq up /\ (v = f /\ (Stops(v) \/ Fails(v)) => f \notin up')
  BY <1>1 DEF Stops, Drops, Fails, Passes, Dies
<1>4. \A r \in Sid : hSess'[r] = 1 => hSess[r] = 1
  <2>1. hSess' = hSess \/ hSess' = [hSess EXCEPT ![v[1]] = 0]
    BY <1>1 DEF Stops, Drops, Fails, Passes, Dies
  <2> QED
    BY <1>0, <2>1
<1>5. Tuned(s) /\ (f \notin up' => Tuned(s)')
  BY DEF Tuned, First
<1>6. CASE Stops(v) \/ Drops(v) \/ Fails(v) \/ Dies(v)
  <2>1. hBusy' = hBusy
    BY <1>6 DEF Stops, Drops, Fails, Dies
  <2>2. \E y \in {<<>>, <<Refused(v[1])>>, <<Created(v[1])>>, <<Failed(v, TRUE)>>,
                  <<Failed(v, TRUE), Refused(v[1])>>} : h2m' = h2m \o y
    <3> DEFINE Y == {<<>>, <<Refused(v[1])>>, <<Created(v[1])>>, <<Failed(v, TRUE)>>,
                     <<Failed(v, TRUE), Refused(v[1])>>}
    <3>1. h2m \o <<>> = h2m
      <4>1. <<>> \in Seq(ToMainMsg)
        OBVIOUS
      <4> QED
        BY <1>0, <4>1, JoinFacts
    <3>2. /\ <<>> \in Y /\ <<Refused(v[1])>> \in Y /\ <<Created(v[1])>> \in Y
          /\ <<Failed(v, TRUE)>> \in Y /\ <<Failed(v, TRUE), Refused(v[1])>> \in Y
      BY Zenon
    <3>3. \/ h2m' = h2m \/ h2m' = h2m \o <<Refused(v[1])>> \/ h2m' = h2m \o <<Created(v[1])>>
          \/ h2m' = h2m \o <<Failed(v, TRUE)>> \/ h2m' = h2m \o <<Failed(v, TRUE), Refused(v[1])>>
      BY <1>6, Zenon DEF Stops, Drops, Fails, Dies
    <3> HIDE DEF Y
    <3>4. \E y \in Y : h2m' = h2m \o y
      BY <3>1, <3>2, <3>3, Zenon
    <3> QED
      BY <3>4 DEF Y
  <2>3. PICK y \in {<<>>, <<Refused(v[1])>>, <<Created(v[1])>>, <<Failed(v, TRUE)>>,
                    <<Failed(v, TRUE), Refused(v[1])>>} : h2m' = h2m \o y
    BY <2>2
  <2>4. y \in Seq(ToMainMsg) /\ ~Has(y, Tells(s, TRUE)) /\ ~Has(y, Tells(s, FALSE))
    BY <1>0, <2>3, Reports
  <2>5. f \in up' => \/ w2h'[f] = w2h[f]
                     \/ w2h[f] # <<>> /\ w2h'[f] = Tail(w2h[f]) /\ Head(w2h[f]).type # "busy"
    <3>1. CASE v = f /\ Drops(v)
      <4> HIDE DEF f
      <4>1. w2h' = [w2h EXCEPT ![f] = Tail(w2h[f])] /\ w2h[f] # <<>> /\ Head(w2h[f]).type # "busy"
        BY <3>1 DEF Drops, Take
      <4> QED
        BY <1>0, <4>1
    <3>2. CASE Dies(v)
      BY <3>2 DEF Dies
    <3> QED
      BY <1>2, <1>3, <1>6, <3>1, <3>2
  <2> QED
    BY <1>3, <1>4, <2>1, <2>3, <2>4, <2>5, TunedKept
<1>7. CASE Passes(v) /\ ~(v = f /\ Head(w2h[v]).type = "busy")
  <2> DEFINE m == Head(w2h[v])
  <2>1. /\ w2h[v] # <<>> /\ m \in News(v) /\ w2h' = [w2h EXCEPT ![v] = Tail(w2h[v])]
        /\ h2m' = h2m \o <<m>>
        /\ IF m.type = "busy" /\ hSess[v[1]] # 0
             THEN hBusy' = [hBusy EXCEPT ![<<v[1], hSess[v[1]]>>] = m.busy]
             ELSE hBusy' = hBusy
    BY <1>7 DEF Passes, Take
  <2>2. v # f => v[1] # s
    BY <2>1, FirstFacts
  <2> HIDE DEF m
  <2>3. m \in ToMainMsg /\ m \notin Tells(s, TRUE) /\ m \notin Tells(s, FALSE)
    <3>1. m \in ToMainMsg
      BY <2>1, Zenon DEF ToMainMsg
    <3>2. m.type = "busy" => m.sid = v[1]
      BY <2>1 DEF News
    <3>3. m.type = "busy" => v # f
      BY <1>7 DEF m
    <3> QED
      BY <2>2, <3>1, <3>2, <3>3, Sorted
  <2> DEFINE y == <<m>>
  <2>4. y \in Seq(ToMainMsg) /\ ~Has(y, Tells(s, TRUE)) /\ ~Has(y, Tells(s, FALSE))
    <3>1. /\ Has(<<m>>, Tells(s, TRUE)) <=> m \in Tells(s, TRUE)
          /\ Has(<<m>>, Tells(s, FALSE)) <=> m \in Tells(s, FALSE)
      BY OneHeld
    <3>2. <<m>> \in Seq(ToMainMsg)
      BY <2>3
    <3>3. ~Has(y, Tells(s, TRUE)) /\ ~Has(y, Tells(s, FALSE))
      BY <2>3, <3>1, Zenon
    <3> QED
      BY <3>2, <3>3
  <2>5. h2m' = h2m \o y
    BY <2>1
  <2> HIDE DEF y
  <2>6. hBusy'[f] = hBusy[f]
    <3>1. CASE hBusy' = hBusy
      BY <3>1
    <3>2. CASE m.type = "busy" /\ hBusy' = [hBusy EXCEPT ![<<v[1], hSess[v[1]]>>] = m.busy]
      <4>1. v # f
        BY <1>7, <3>2 DEF m
      <4>2. <<v[1], hSess[v[1]]>> # f
        BY <1>0, <2>2, <4>1
      <4> HIDE DEF f
      <4> QED
        BY <1>0, <3>2, <4>2
    <3> QED
      BY <2>1, <3>1, <3>2
  <2>7. \/ w2h'[f] = w2h[f]
        \/ w2h[f] # <<>> /\ w2h'[f] = Tail(w2h[f]) /\ Head(w2h[f]).type # "busy"
    <3>1. CASE v = f
      <4>1. Head(w2h[f]).type # "busy"
        BY <1>7, <3>1
      <4> HIDE DEF f
      <4> QED
        BY <1>0, <2>1, <3>1, <4>1
    <3> QED
      BY <1>2, <3>1
  <2> QED
    BY <1>3, <1>4, <2>4, <2>5, <2>6, <2>7, TunedKept
<1>8. CASE Passes(v) /\ v = f /\ Head(w2h[v]).type = "busy"
  BY <1>8, TunedPassing
<1> QED
  BY <1>1, <1>6, <1>7, <1>8

(* A thread's own step: what it says of its handlers is what they are.      *)
LEMMA TunedOfWorkers ==
  ASSUME NoFatal, Core, WorkerTypes, Still, NEW s \in Sid, Tuned(s),
         NEW w \in Worker, WorkerTurn(w) \/ Extension(w), UNCHANGED <<mainVars, hostVars>>
  PROVE  Tuned(s)'
PROOF
<1> DEFINE f == First(s)
           q == w2h[f]
<1>0. /\ f \in Worker /\ f[1] = s /\ w2h = [v \in Worker |-> w2h[v]]
      /\ running \in [Worker -> Nat] /\ UNCHANGED <<hSess, hBusy, open, busy>>
      /\ q \in Seq(FromWorkerMsg(f))
  BY FirstFacts DEF Core, WireTypes, WorkerTypes, mainVars, hostVars
<1>1. UNCHANGED <<up, h2m>>
  BY DEF WorkerTurn, Extension, Start, Dispatch, Answered, Destroyed, CallDesktop, CallTimesOut,
         HandlerSettles, Finishes, Fatal, WorkerCeiling, OtherWires, wires
<1>2. PICK x : Adds(w, x) /\ (Idles(w, x) \/ Begins(w, x) \/ Ends(w, x) \/ Asks(w, x))
  BY Speaking DEF Utters, Core
<1>3. w \in up /\ x \in Seq(FromWorkerMsg(w)) /\ w2h' = [w2h EXCEPT ![w] = @ \o x]
  BY <1>2 DEF Adds
<1> HIDE DEF f
<1>4. CASE w # f
  <2>1. w2h'[f] = w2h[f] /\ running'[f] = running[f]
    BY <1>0, <1>2, <1>3, <1>4 DEF Idles, Begins, Ends, Asks
  <2> QED
    BY <1>0, <1>1, <2>1 DEF Tuned, InTune, f, First
<1>5. CASE w = f
  <2>1. w2h'[f] = q \o x /\ x \in Seq(FromWorkerMsg(f))
    BY <1>0, <1>3, <1>5
  <2> HIDE DEF q
  <2> DEFINE T == Tells(s, TRUE)
             F == Tells(s, FALSE)
  (* It said what they are.                                                 *)
  <2>2. ASSUME NEW b \in BOOLEAN, NEW c \in BOOLEAN,
               Has(x, Tells(s, b)), Followed(x, Tells(s, c), Tells(s, b))
        PROVE  InTune(s, b, c)'
    <3> DEFINE B == Tells(s, b)
               C == Tells(s, c)
    <3>1. Has(x, B) /\ Followed(x, C, B)
      BY <2>2
    <3>2. Followed(w2h'[f], C, B) /\ Has(w2h'[f], B) => InTune(s, b, c)'
      BY DEF InTune, f, First
    <3> HIDE DEF B, C
    <3>3. Has(q \o x, B) /\ Followed(q \o x, C, B)
      BY <1>0, <2>1, <3>1, PutBehind
    <3> QED
      BY <2>1, <3>2, <3>3
  (* It said nothing of them.                                               *)
  <2>3. ASSUME ~Has(x, T), ~Has(x, F), NEW b \in BOOLEAN, NEW c \in BOOLEAN, InTune(s, b, c)
        PROVE  InTune(s, b, c)'
    <3> DEFINE B == Tells(s, b)
               C == Tells(s, c)
    <3>1. ~Has(x, B) /\ ~Has(x, C)
      <4>1. (b = TRUE \/ b = FALSE) /\ (c = TRUE \/ c = FALSE)
        OBVIOUS
      <4> QED
        BY <2>3, <4>1
    <3>2. Followed(q, C, B)
      BY <2>3 DEF InTune, f, q
    <3>3. Followed(w2h'[f], C, B) /\ (Has(q, B) <=> Has(w2h'[f], B)) => InTune(s, b, c)'
      BY <1>0, <1>1, <2>3 DEF InTune, f, q, First
    <3> HIDE DEF B, C
    <3>4. Followed(x, C, B)
      BY <3>1 DEF Has, Followed
    <3>5. (Has(q \o x, B) <=> Has(q, B) \/ Has(x, B)) /\ Followed(q \o x, C, B)
      BY <1>0, <2>1, <3>2, <3>4, PutBehind
    <3> QED
      BY <2>1, <3>1, <3>3, <3>5
  <2>4. f \in up /\ w[1] = s
    BY <1>0, <1>3, <1>5
  <2>5. /\ running[f] > 0 => InTune(s, TRUE, FALSE)
        /\ running[f] = 0 => InTune(s, FALSE, TRUE)
    BY <2>4 DEF Tuned, f
  <2>a. ASSUME running'[f] > 0 => InTune(s, TRUE, FALSE)',
               running'[f] = 0 => InTune(s, FALSE, TRUE)'
        PROVE  Tuned(s)'
    BY <2>a DEF Tuned, f, First
  <2>b. \A M, N : ~Has(x, M) => Followed(x, M, N)
    BY DEF Has, Followed
  <2>6. CASE Idles(w, x) \/ Asks(w, x)
    <3>1. running' = running /\ ~Has(x, T) /\ ~Has(x, F)
      BY <2>4, <2>6 DEF Idles, Asks
    <3> QED
      BY <2>3, <2>5, <2>a, <3>1
  <2>c. running[f] \in Nat
    BY <1>0
  <2>7. CASE Begins(w, x)
    <3>1. CASE running' = [running EXCEPT ![w] = @ + 1] /\ Has(x, T) /\ ~Has(x, F)
      <4>1. running'[f] = running[f] + 1
        BY <1>0, <1>5, <3>1
      <4>2. ~(running'[f] = 0)
        BY <2>c, <4>1
      <4>3. InTune(s, TRUE, FALSE)'
        BY <2>2, <2>b, <3>1
      <4> QED
        BY <2>a, <4>2, <4>3
    <3>2. CASE running' = running /\ running[f] > 0 /\ Has(x, T) /\ ~Has(x, F)
      <4>1. ~(running'[f] = 0)
        BY <2>c, <3>2
      <4>2. InTune(s, TRUE, FALSE)'
        BY <2>2, <2>b, <3>2
      <4> QED
        BY <2>a, <4>1, <4>2
    <3>3. CASE running' = running /\ running[f] = 0 /\ Has(x, F) /\ Followed(x, T, F)
      <4>1. ~(running'[f] > 0)
        BY <2>c, <3>3
      <4>2. InTune(s, FALSE, TRUE)'
        BY <2>2, <3>3
      <4> QED
        BY <2>a, <4>1, <4>2
    <3>4. running[f] > 0 \/ running[f] = 0
      BY <2>c
    <3> QED
      BY <1>5, <2>4, <2>7, <3>1, <3>2, <3>3, <3>4 DEF Begins
  <2>8. CASE Ends(w, x)
    <3>1. running'[f] = running[f] - 1 /\ running[f] > 0
      BY <1>0, <1>5, <2>8 DEF Ends
    <3>2. CASE running[f] > 1
      <4>1. Has(x, T) /\ ~Has(x, F)
        BY <1>5, <2>4, <2>8, <3>2 DEF Ends
      <4>2. InTune(s, TRUE, FALSE)'
        BY <2>2, <2>b, <4>1
      <4>3. ~(running'[f] = 0)
        BY <2>c, <3>1, <3>2
      <4> QED
        BY <2>a, <4>2, <4>3
    <3>3. CASE running[f] = 1
      <4>1. Has(x, F) /\ ~Has(x, T)
        BY <1>5, <2>4, <2>8, <3>3 DEF Ends
      <4>2. InTune(s, FALSE, TRUE)'
        BY <2>2, <2>b, <4>1
      <4>3. ~(running'[f] > 0)
        BY <2>c, <3>1, <3>3
      <4> QED
        BY <2>a, <4>2, <4>3
    <3>4. running[f] > 1 \/ running[f] = 1
      BY <2>c, <3>1
    <3> QED
      BY <3>2, <3>3, <3>4
  <2> QED
    BY <1>2, <2>6, <2>7, <2>8
<1> QED
  BY <1>4, <1>5

LEMMA TunedOfCrashes ==
  ASSUME Core, WorkerTypes, Still, NEW s \in Sid, Tuned(s),
         \/ (\E w \in Worker : Crash(w)) /\ UNCHANGED <<mainVars, hostVars>>
         \/ HostCrash /\ UNCHANGED <<mainVars, workerVars>>
  PROVE  Tuned(s)'
PROOF
<1> DEFINE f == First(s)
<1>1. ASSUME NEW w \in Worker, Crash(w), UNCHANGED <<mainVars, hostVars>> PROVE Tuned(s)'
  <2>1. /\ UNCHANGED <<busy, open, hSess, hBusy, running, h2m>> /\ up' = up \ {w}
        /\ f \in Worker /\ w2h = [v \in Worker |-> w2h[v]]
    BY <1>1, FirstFacts DEF Crash, mainVars, hostVars, workerVars, Core, WireTypes
  <2>2. PICK p \in Prefixes(w2h[w]) : w2h' = [w2h EXCEPT ![w] = p]
    BY <1>1 DEF Crash
  <2> HIDE DEF f
  <2>3. f \in up' => f \in up /\ w2h'[f] = w2h[f]
    BY <2>1, <2>2
  <2> QED
    BY <2>1, <2>3 DEF Tuned, InTune, f, First
<1>2. CASE HostCrash
  BY <1>2 DEF HostCrash, Tuned
<1> QED
  BY <1>1, <1>2

Tune == \A s \in Sid : Tuned(s)

LEMMA TuneStep ==
  ASSUME NoFatal, Core, WorkerTypes, Still, Tune, [Next]_vars
  PROVE  Tune'
PROOF
<1> SUFFICES ASSUME NEW s \in Sid PROVE Tuned(s)'
  BY DEF Tune
<1>0. Tuned(s)
  BY DEF Tune
<1>1. CASE (MainUser \/ MainStep) /\ UNCHANGED <<hostVars, workerVars>>
  BY <1>0, <1>1, TunedOfMain
<1>2. CASE HostFromMain /\ UNCHANGED <<mainVars, workerVars>>
  BY <1>0, <1>2, TunedOfHost
<1>3. ASSUME NEW w \in Worker, HostFromWorker(w) \/ Deadline(w), UNCHANGED <<mainVars, workerVars>>
      PROVE  Tuned(s)'
  BY <1>0, <1>3, TunedOfThreads
<1>4. ASSUME NEW w \in Worker, WorkerTurn(w) \/ Extension(w), UNCHANGED <<mainVars, hostVars>>
      PROVE  Tuned(s)'
  BY <1>0, <1>4, TunedOfWorkers
<1>5. CASE \/ (\E w \in Worker : Crash(w)) /\ UNCHANGED <<mainVars, hostVars>>
           \/ HostCrash /\ UNCHANGED <<mainVars, workerVars>>
  BY <1>0, <1>5, TunedOfCrashes
<1>6. CASE UNCHANGED vars
  <2>1. UNCHANGED <<mainVars, hostVars, h2m, w2h, up, running>>
    BY <1>6 DEF vars, wires, workerVars
  <2> QED
    BY <1>0, <2>1 DEF Tuned, InTune, mainVars, hostVars, First
<1> QED
  BY <1>1, <1>2, <1>3, <1>4, <1>5, <1>6 DEF Next

LEMMA TuneHolds ==
  ASSUME NoFatal
  PROVE  Spec => []Tune
PROOF
<1>1. Init => Tune
  BY DEF Init, WiresInit, Tune, Tuned
<1>2. Core /\ WorkerTypes /\ Still /\ Tune /\ [Next]_vars => Tune'
  BY TuneStep
<1> QED
  BY <1>1, <1>2, CoreHolds, StillHolds, PTL DEF Spec

LEMMA TuneAgrees ==
  ASSUME Core, WorkerTypes, Still, Tune
  PROVE  BusyAgrees
PROOF
<1> SUFFICES ASSUME Quiet, NEW s \in open \cap InMap
             PROVE  /\ busy[s] = (running[Thread(s)] > 0)
                    /\ hBusy[Thread(s)] = (running[Thread(s)] > 0)
  BY DEF BusyAgrees
<1>1. s \in Sid /\ s \in open /\ hSess[s] # 0
  BY DEF InMap
<1> DEFINE f == First(s)
           n == running[f]
<1>2. hSess[s] = 1 /\ Thread(s) = f /\ n \in Nat /\ f \in Worker
  BY <1>1, FirstFacts DEF Thread, First
<1>3. f \in up
  BY <1>1 DEF Still, Ledger, Once, First, Quiet
<1>4. \A M : ~Has(h2m, M) /\ ~Has(w2h[f], M)
  BY <1>2, NoneHeld DEF Quiet
<1>5. /\ n > 0 => InTune(s, TRUE, FALSE)
      /\ n = 0 => InTune(s, FALSE, TRUE)
  BY <1>1, <1>3 DEF Tune, Tuned
<1>6. \A b, c \in BOOLEAN : InTune(s, b, c) => hBusy[f] = b /\ busy[s] = b
  BY <1>1, <1>2, <1>4 DEF InTune
<1>7. (n > 0 => hBusy[f] = TRUE /\ busy[s] = TRUE) /\ (~(n > 0) => hBusy[f] = FALSE /\ busy[s] = FALSE)
  <2>1. n > 0 \/ n = 0
    BY <1>2
  <2> HIDE DEF n, f
  <2> QED
    BY <1>5, <1>6, <2>1
<1> HIDE DEF n
<1> DEFINE r == n > 0
<1>8. (r = TRUE \/ r = FALSE) /\ (r => hBusy[f] = TRUE /\ busy[s] = TRUE)
      /\ (~r => hBusy[f] = FALSE /\ busy[s] = FALSE)
  BY <1>7
<1> HIDE DEF r
<1>9. hBusy[f] = r /\ busy[s] = r
  BY <1>8
<1> QED
  BY <1>2, <1>9, Zenon DEF n, r

(* When nothing is under way, a command that reported itself finished is    *)
(* open on neither side: its report stops it in the daemon, the destroy the *)
(* daemon answers it with stops it in the host.  NoFatal: no thread reports *)
(* a fatal failure and lives on, which the host forwards without forgetting *)
(* the session (host.ts:884).                                               *)
THEOREM FinishedStops ==
  ASSUME NoFatal
  PROVE  Spec => []FinishedIsStopped
PROOF
<1>1. Core /\ Still => FinishedIsStopped
  BY StillAgrees
<1> QED
  BY <1>1, CoreHolds, StillHolds, PTL

(* When nothing is under way, the daemon and the host hold the same         *)
(* sessions, no thread runs but theirs, and both know of each whether one   *)
(* of its actions still runs, so that neither closes it under an action nor *)
(* waits for one that has ended.                                            *)
THEOREM AgreesWhenQuiet ==
  ASSUME NoFatal
  PROVE  Spec => []ViewsAgree
PROOF
<1>1. Core /\ Still => SessionsAgree
  BY StillAgrees
<1>2. Core /\ WorkerTypes /\ Still /\ Tune => BusyAgrees
  BY TuneAgrees
<1>3. SessionsAgree /\ BusyAgrees /\ NoLeakedThread => ViewsAgree
  BY DEF ViewsAgree
<1> QED
  BY <1>1, <1>2, <1>3, NoThreadLeaks, CoreHolds, StillHolds, TuneHolds, PTL
=============================================================================
