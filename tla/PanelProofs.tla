----------------------------- MODULE PanelProofs -----------------------------
(***************************************************************************)
(* The panel of PanelSystem, for any number of sessions, batches and acts   *)
(* of the user, and whether or not Electron keeps pushes and replies in      *)
(* order.  The invariants, in the order they rest on one another:            *)
(*   IInv     a batch travels whole and in order to the daemon, so every     *)
(*            tree in the daemon, on a wire and on the page is the one its   *)
(*            revision names;                                                *)
(*   SaidInv  what is on its way to the page was true when it was said and   *)
(*            still is: of a session that exists, no newer than the daemon   *)
(*            is; with KeyInv, whose session it shows;                       *)
(*   FetchInv a batch the page missed is being fetched, and what comes       *)
(*            brings it;                                                     *)
(*   HiddenInv, BackInv  what is open while the panel is hidden crossed the  *)
(*            hide or will show the panel again, and the page is, or is      *)
(*            about to be, back at the root;                                 *)
(*   InOrder  where order is kept: a launch is answered, told and closed at  *)
(*            most once and in that order (OnceInv), nothing falls between    *)
(*            what the page draws and what is on its way (CurrentInv), and   *)
(*            the end of a session follows whatever shows it (DeadInv).      *)
(***************************************************************************)
EXTENDS PanelSystem, Functions, TLAPS

Kinds == {"render", "created", "failed", "ended", "refused", "launch"}
HostMsg == [kind : Kinds, batch : Nat]

Count(m) == IF m.kind = "render" THEN 1 ELSE 0

(* Between the revision the daemon has and the last batch sent there is no   *)
(* batch missing, and none twice.                                           *)
Chain(q, from, to) ==
  /\ q = <<>> => from = to
  /\ q # <<>> => q[1].batch = from + Count(q[1]) /\ q[Len(q)].batch = to
  /\ \A i \in 1..(Len(q) - 1) : q[i + 1].batch = q[i].batch + Count(q[i + 1])

HostInv ==
  /\ minted \in 0..MaxSid
  /\ open \subseteq 1..minted
  /\ rendered \in [Sid -> Nat] /\ mRev \in [Sid -> Nat]
  /\ fromHost \in [Sid -> Seq(HostMsg)]
  /\ worker \in [Sid -> {"none", "starting", "on", "over"}]
  /\ mTree = mRev
  /\ \A s \in Sid : s > minted =>
       /\ worker[s] = "none" /\ rendered[s] = 0 /\ mRev[s] = 0 /\ fromHost[s] = <<>>
  /\ \A s \in open : Chain(fromHost[s], mRev[s], rendered[s])

Genuine == {i \in [sid : Sid, rev : Nat, tree : Nat, failed : BOOLEAN,
                   standalone : {"yes", "no", "unsaid"}] : i.tree = i.rev}

PageMsg ==
  [type : {"visibility"}, visible : BOOLEAN]
  \cup [type : {"ended"}, sid : Sid, failed : BOOLEAN]
  \cup [type : {"render"}, sid : Sid, rev : Nat]
  \cup [type : {"started", "launched"}, info : Genuine]
  \cup {m \in [type : {"attached"}, sid : Nat, there : BOOLEAN, rev : Nat, tree : Nat] :
          m.tree = m.rev}

AskMsg == [type : {"launch", "hide"}] \cup [type : {"close", "attach"}, sid : Nat]

WireInv ==
  /\ toPage \in Seq(PageMsg) /\ replies \in Seq(PageMsg)
  /\ fromPage \in Seq(AskMsg)

PageInv ==
  /\ active \in Sid \cup {None} /\ resyncing \in Nat
  /\ rev \in Nat /\ tree \in Nat
  /\ TreeIsGenuine

IInv == HostInv /\ WireInv /\ PageInv

----------------------------------------------------------------------------
(* What taking from the front of a port and adding behind it do to it.       *)
LEMMA PortFacts ==
  ASSUME NEW S, NEW q \in Seq(S)
  PROVE  /\ <<>> \in Seq(S)
         /\ Len(q) \in Nat
         /\ q # <<>> <=> Len(q) > 0
         /\ \A i \in 1..Len(q) : q[i] \in S
         /\ \A e \in S : /\ Append(q, e) \in Seq(S) /\ Append(q, e) # <<>>
                         /\ Len(Append(q, e)) = Len(q) + 1
                         /\ \A i \in 1..Len(q) : Append(q, e)[i] = q[i]
                         /\ Append(q, e)[Len(q) + 1] = e
         /\ q # <<>> => /\ Head(q) \in S /\ Head(q) = q[1]
                        /\ Tail(q) \in Seq(S)
                        /\ Len(Tail(q)) = Len(q) - 1
                        /\ \A i \in 1..Len(Tail(q)) : Tail(q)[i] = q[i + 1]
PROOF
<1>1. /\ <<>> \in Seq(S) /\ Len(q) \in Nat
      /\ q # <<>> <=> Len(q) > 0
  OBVIOUS
<1>2. \A i \in 1..Len(q) : q[i] \in S
  OBVIOUS
<1>3. \A e \in S : /\ Append(q, e) \in Seq(S) /\ Append(q, e) # <<>>
                  /\ Len(Append(q, e)) = Len(q) + 1
                  /\ \A i \in 1..Len(q) : Append(q, e)[i] = q[i]
                  /\ Append(q, e)[Len(q) + 1] = e
  <2> TAKE e \in S
  <2>1. Append(q, e) \in Seq(S) /\ Len(Append(q, e)) = Len(q) + 1
    OBVIOUS
  <2>2. Append(q, e)[Len(q) + 1] = e /\ \A i \in 1..Len(q) : Append(q, e)[i] = q[i]
    OBVIOUS
  <2>3. Append(q, e) # <<>>
    BY <2>1, <1>1
  <2> QED
    BY <2>1, <2>2, <2>3
<1>4. q # <<>> => /\ Head(q) \in S /\ Head(q) = q[1]
                 /\ Tail(q) \in Seq(S)
                 /\ Len(Tail(q)) = Len(q) - 1
                 /\ \A i \in 1..Len(Tail(q)) : Tail(q)[i] = q[i + 1]
  OBVIOUS
<1> QED
  BY <1>1, <1>2, <1>3, <1>4

(* A batch is taken from the front of a chain, or a message added behind.   *)
LEMMA ChainTakes ==
  ASSUME NEW q \in Seq(HostMsg), NEW from \in Nat, NEW to \in Nat,
         q # <<>>, Chain(q, from, to)
  PROVE  /\ Chain(Tail(q), from + Count(Head(q)), to)
         /\ Head(q).batch = from + Count(Head(q))
PROOF
<1> DEFINE t == Tail(q)
<1>1. /\ Len(q) \in Nat /\ Len(q) > 0 /\ Head(q) = q[1]
      /\ t \in Seq(HostMsg) /\ Len(t) = Len(q) - 1
      /\ \A i \in 1..Len(t) : t[i] = q[i + 1]
      /\ t # <<>> <=> Len(t) > 0
  BY PortFacts
<1> HIDE DEF t
<1>2. /\ q[1].batch = from + Count(q[1]) /\ q[Len(q)].batch = to
      /\ \A i \in 1..(Len(q) - 1) : q[i + 1].batch = q[i].batch + Count(q[i + 1])
  BY DEF Chain
<1>3. t = <<>> => from + Count(Head(q)) = to
  <2> SUFFICES ASSUME t = <<>> PROVE q[1].batch = to
    BY <1>1, <1>2
  <2>1. Len(q) = 1
    BY <1>1
  <2> QED
    BY <2>1, <1>2
<1>4. t # <<>> => t[1].batch = from + Count(Head(q)) + Count(t[1]) /\ t[Len(t)].batch = to
  <2> SUFFICES ASSUME t # <<>>
               PROVE  t[1].batch = q[1].batch + Count(t[1]) /\ t[Len(t)].batch = to
    BY <1>1, <1>2
  <2>1. t[1] = q[2] /\ t[Len(t)] = q[Len(q)] /\ 1 \in 1..(Len(q) - 1)
    BY <1>1
  <2> QED
    BY <2>1, <1>2
<1>5. ASSUME NEW i \in 1..(Len(t) - 1)
      PROVE  t[i + 1].batch = t[i].batch + Count(t[i + 1])
  <2>1. t[i] = q[i + 1] /\ t[i + 1] = q[i + 1 + 1] /\ i + 1 \in 1..(Len(q) - 1)
    BY <1>1
  <2> QED
    BY <2>1, <1>2
<1>6. Chain(t, from + Count(Head(q)), to)
  BY <1>3, <1>4, <1>5 DEF Chain
<1> QED
  BY <1>1, <1>2, <1>6 DEF t

(* A message of session s behind the others, a batch being one more.        *)
LEMMA ChainGrows ==
  ASSUME NEW q \in Seq(HostMsg), NEW from \in Nat, NEW to \in Nat,
         NEW m \in HostMsg, Chain(q, from, to), m.batch = to + Count(m)
  PROVE  Append(q, m) \in Seq(HostMsg) /\ Chain(Append(q, m), from, m.batch)
PROOF
<1> DEFINE a == Append(q, m)
<1>1. /\ Len(q) \in Nat /\ (q # <<>> <=> Len(q) > 0)
      /\ a \in Seq(HostMsg) /\ a # <<>> /\ Len(a) = Len(q) + 1
      /\ \A i \in 1..Len(q) : a[i] = q[i]
      /\ a[Len(q) + 1] = m
  BY PortFacts
<1> HIDE DEF a
<1>2. a[Len(a)].batch = m.batch
  BY <1>1
<1>3. CASE q = <<>>
  <2>1. Len(a) = 1 /\ a[1] = m /\ from = to
    BY <1>1, <1>3 DEF Chain
  <2> QED
    BY <2>1, <1>1, <1>2 DEF Chain, a
<1>4. CASE q # <<>>
  <2>1. a[1].batch = from + Count(a[1])
    BY <1>1, <1>4 DEF Chain
  <2>2. ASSUME NEW i \in 1..(Len(a) - 1)
        PROVE  a[i + 1].batch = a[i].batch + Count(a[i + 1])
    <3>1. CASE i = Len(q)
      BY <3>1, <1>1, <1>4 DEF Chain
    <3>2. CASE i # Len(q)
      <4>1. i \in 1..(Len(q) - 1) /\ a[i] = q[i] /\ a[i + 1] = q[i + 1]
        BY <3>2, <1>1
      <4> QED
        BY <4>1, <1>4 DEF Chain
    <3> QED
      BY <3>1, <3>2
  <2> QED
    BY <2>1, <2>2, <1>1, <1>2 DEF Chain, a
<1> QED
  BY <1>3, <1>4
----------------------------------------------------------------------------
(* Sessions the daemon knows may move on, each keeping its chain, and others  *)
(* be launched or dropped.                                                   *)
LEMMA HostMoves ==
  ASSUME HostInv,
         NEW S \in SUBSET (1..minted),
         minted' \in minted..MaxSid,
         open' \subseteq open \cup ((minted + 1)..minted'),
         rendered' \in [Sid -> Nat], mRev' \in [Sid -> Nat], mTree' = mRev',
         fromHost' \in [Sid -> Seq(HostMsg)],
         worker' \in [Sid -> {"none", "starting", "on", "over"}],
         \A t \in Sid \ S : /\ fromHost'[t] = fromHost[t]
                            /\ rendered'[t] = rendered[t] /\ mRev'[t] = mRev[t],
         \A t \in Sid : t > minted' => worker'[t] = worker[t],
         \A t \in S : t \in open' => Chain(fromHost'[t], mRev'[t], rendered'[t])
  PROVE  HostInv'
PROOF
<1>1. minted \in 0..MaxSid /\ MaxSid \in Nat /\ Sid = 1..MaxSid
  BY PanelAssumption DEF HostInv, Sid
<1>2. minted' \in 0..MaxSid
  BY <1>1
<1>3. open' \subseteq 1..minted'
  BY <1>1 DEF HostInv
<1>4. ASSUME NEW t \in Sid, t > minted'
      PROVE  worker'[t] = "none" /\ rendered'[t] = 0 /\ mRev'[t] = 0 /\ fromHost'[t] = <<>>
  <2>1. t > minted /\ t \notin S
    BY <1>1, <1>4
  <2> QED
    BY <2>1, <1>4 DEF HostInv
<1>5. ASSUME NEW t \in open'
      PROVE  Chain(fromHost'[t], mRev'[t], rendered'[t])
  <2>1. t \in Sid
    BY <1>1, <1>3, <1>2
  <2>2. CASE t \in S
    BY <2>2
  <2>3. CASE t \notin S /\ t \in open
    BY <2>1, <2>3 DEF HostInv
  <2>4. CASE t \notin S /\ t \notin open
    <3>1. t > minted
      BY <2>4, <1>1
    <3>2. fromHost'[t] = <<>> /\ mRev'[t] = 0 /\ rendered'[t] = 0
      BY <3>1, <2>1, <2>4 DEF HostInv
    <3> QED
      BY <3>2 DEF Chain
  <2> QED
    BY <2>2, <2>3, <2>4
<1> QED
  BY <1>2, <1>3, <1>4, <1>5 DEF HostInv

(* One message, or the two of a command that was over before its launch was  *)
(* answered, behind the others of session s.                                 *)
LEMMA SaysOne ==
  ASSUME HostInv, NEW s \in Sid, NEW k \in Kinds, rendered'[s] \in Nat, Says(s, <<k>>)
  PROVE  /\ [kind |-> k, batch |-> rendered'[s]] \in HostMsg
         /\ fromHost' = [fromHost EXCEPT ![s] = Append(@, [kind |-> k, batch |-> rendered'[s]])]
PROOF
<1> DEFINE m == [kind |-> k, batch |-> rendered'[s]]
<1>1. m \in HostMsg
  BY DEF HostMsg
<1>2. [i \in DOMAIN <<k>> |-> [kind |-> <<k>>[i], batch |-> rendered'[s]]] = <<m>>
  OBVIOUS
<1>3. fromHost[s] \in Seq(HostMsg)
  BY DEF HostInv
<1> HIDE DEF m
<1>4. fromHost[s] \o <<m>> = Append(fromHost[s], m)
  BY <1>1, <1>3
<1>5. fromHost' = [fromHost EXCEPT ![s] = @ \o <<m>>]
  BY <1>2 DEF Says, m
<1>6. fromHost' = [fromHost EXCEPT ![s] = Append(@, m)]
  BY <1>4, <1>5
<1> QED
  BY <1>1, <1>6 DEF m

LEMMA SaysTwo ==
  ASSUME HostInv, NEW s \in Sid, NEW j \in Kinds, NEW k \in Kinds, rendered'[s] \in Nat,
         Says(s, <<j, k>>)
  PROVE  /\ [kind |-> j, batch |-> rendered'[s]] \in HostMsg
         /\ [kind |-> k, batch |-> rendered'[s]] \in HostMsg
         /\ fromHost' = [fromHost EXCEPT ![s] =
              Append(Append(@, [kind |-> j, batch |-> rendered'[s]]),
                     [kind |-> k, batch |-> rendered'[s]])]
PROOF
<1> DEFINE m == [kind |-> j, batch |-> rendered'[s]]
           n == [kind |-> k, batch |-> rendered'[s]]
<1>1. m \in HostMsg /\ n \in HostMsg
  BY DEF HostMsg
<1>2. [i \in DOMAIN <<j, k>> |-> [kind |-> <<j, k>>[i], batch |-> rendered'[s]]] = <<m, n>>
  OBVIOUS
<1>3. fromHost[s] \in Seq(HostMsg)
  BY DEF HostInv
<1> HIDE DEF m, n
<1>4. fromHost[s] \o <<m, n>> = Append(Append(fromHost[s], m), n)
  BY <1>1, <1>3
<1>5. fromHost' = [fromHost EXCEPT ![s] = @ \o <<m, n>>]
  BY <1>2 DEF Says, m, n
<1>6. fromHost' = [fromHost EXCEPT ![s] = Append(Append(@, m), n)]
  BY <1>4, <1>5
<1> QED
  BY <1>1, <1>6 DEF m, n

(* The extension: whatever it says keeps its session's chain.               *)
LEMMA ExtensionKeeps ==
  ASSUME HostInv, NEW s \in Sid, Extension(s)
  PROVE  HostInv'
PROOF
<1>1. worker[s] # "none"
  BY DEF Extension, Renders, Starts, Ends, LaunchesAnother, Becomes
<1>2. s \in 1..minted /\ minted \in minted..MaxSid /\ s \in Sid /\ Sid \subseteq Nat
  BY <1>1, PanelAssumption DEF HostInv, Sid
<1>3. /\ rendered \in [Sid -> Nat] /\ mRev \in [Sid -> Nat] /\ mTree = mRev
      /\ fromHost \in [Sid -> Seq(HostMsg)]
      /\ rendered[s] \in Nat /\ mRev[s] \in Nat /\ fromHost[s] \in Seq(HostMsg)
      /\ s \in open => Chain(fromHost[s], mRev[s], rendered[s])
      /\ worker \in [Sid -> {"none", "starting", "on", "over"}]
  BY DEF HostInv
<1>4. UNCHANGED <<minted, open, mTree, mRev>>
  BY DEF Extension, Renders, Starts, Ends, LaunchesAnother, Says
<1>5. ASSUME NEW q \in Seq(HostMsg), fromHost' = [fromHost EXCEPT ![s] = q],
             rendered' \in [Sid -> Nat],
             \A t \in Sid : t # s => rendered'[t] = rendered[t],
             worker' \in [Sid -> {"none", "starting", "on", "over"}],
             \A t \in Sid : t # s => worker'[t] = worker[t],
             s \in open => Chain(q, mRev[s], rendered'[s])
      PROVE  HostInv'
  <2>1. {s} \in SUBSET (1..minted)
    BY <1>2
  <2>2. fromHost' \in [Sid -> Seq(HostMsg)] /\ fromHost'[s] = q
        /\ \A t \in Sid \ {s} : fromHost'[t] = fromHost[t]
    BY <1>3, <1>5
  <2>3. \A t \in Sid : t > minted => t # s
    BY <1>2
  <2>4. /\ minted' \in minted..MaxSid
        /\ open' \subseteq open \cup ((minted + 1)..minted')
        /\ mRev' \in [Sid -> Nat] /\ mTree' = mRev'
        /\ \A t \in Sid \ {s} : rendered'[t] = rendered[t] /\ mRev'[t] = mRev[t]
        /\ \A t \in Sid : t > minted' => worker'[t] = worker[t]
        /\ \A t \in {s} : t \in open' => Chain(fromHost'[t], mRev'[t], rendered'[t])
    BY <1>2, <1>3, <1>4, <1>5, <2>2, <2>3
  <2> QED
    BY <1>5, <2>1, <2>2, <2>4, HostMoves
<1>6. ASSUME NEW k \in Kinds \ {"render"}, Says(s, <<k>>), UNCHANGED rendered,
             worker' \in [Sid -> {"none", "starting", "on", "over"}],
             \A t \in Sid : t # s => worker'[t] = worker[t]
      PROVE  HostInv'
  <2> DEFINE m == [kind |-> k, batch |-> rendered'[s]]
  <2>1. m \in HostMsg /\ fromHost' = [fromHost EXCEPT ![s] = Append(@, m)]
    BY <1>3, <1>6, SaysOne
  <2>2. m.batch = rendered[s] + Count(m) /\ m.batch = rendered'[s]
    BY <1>3, <1>6 DEF Count
  <2> HIDE DEF m
  <2>3. Append(fromHost[s], m) \in Seq(HostMsg)
    BY <1>3, <2>1, PortFacts
  <2>4. s \in open => Chain(Append(fromHost[s], m), mRev[s], rendered'[s])
    BY <1>3, <2>1, <2>2, ChainGrows
  <2> QED
    BY <1>3, <1>5, <1>6, <2>1, <2>3, <2>4
<1>7. ASSUME Renders(s) PROVE HostInv'
  <2> DEFINE m == [kind |-> "render", batch |-> rendered'[s]]
  <2>1. rendered' = [rendered EXCEPT ![s] = @ + 1] /\ Says(s, <<"render">>) /\ UNCHANGED worker
    BY <1>7 DEF Renders
  <2>2. rendered' \in [Sid -> Nat] /\ rendered'[s] = rendered[s] + 1
        /\ \A t \in Sid : t # s => rendered'[t] = rendered[t]
    BY <1>3, <2>1
  <2>3. m \in HostMsg /\ fromHost' = [fromHost EXCEPT ![s] = Append(@, m)]
    BY <2>1, <2>2, SaysOne DEF Kinds
  <2>4. m.batch = rendered[s] + Count(m) /\ m.batch = rendered'[s]
    BY <2>2 DEF Count
  <2> HIDE DEF m
  <2>5. Append(fromHost[s], m) \in Seq(HostMsg)
    BY <1>3, <2>3, PortFacts
  <2>6. s \in open => Chain(Append(fromHost[s], m), mRev[s], rendered'[s])
    BY <1>3, <2>3, <2>4, ChainGrows
  <2> QED
    BY <1>3, <1>5, <2>1, <2>2, <2>3, <2>5, <2>6
<1>8. ASSUME NEW j \in Kinds \ {"render"}, NEW k \in Kinds \ {"render"},
             Says(s, <<j, k>>), UNCHANGED rendered,
             worker' \in [Sid -> {"none", "starting", "on", "over"}],
             \A t \in Sid : t # s => worker'[t] = worker[t]
      PROVE  HostInv'
  <2> DEFINE m == [kind |-> j, batch |-> rendered'[s]]
             n == [kind |-> k, batch |-> rendered'[s]]
  <2>1. /\ m \in HostMsg /\ n \in HostMsg
        /\ fromHost' = [fromHost EXCEPT ![s] = Append(Append(@, m), n)]
    BY <1>3, <1>8, SaysTwo
  <2>2. /\ m.batch = rendered[s] + Count(m) /\ m.batch = rendered'[s]
        /\ n.batch = rendered[s] + Count(n) /\ n.batch = rendered'[s]
    BY <1>3, <1>8 DEF Count
  <2> HIDE DEF m, n
  <2>3. Append(fromHost[s], m) \in Seq(HostMsg)
    BY <1>3, <2>1, PortFacts
  <2>4. Append(Append(fromHost[s], m), n) \in Seq(HostMsg)
    BY <2>1, <2>3, PortFacts
  <2>5. s \in open => Chain(Append(fromHost[s], m), mRev[s], rendered[s])
    BY <1>3, <1>8, <2>1, <2>2, ChainGrows
  <2>6. s \in open => Chain(Append(Append(fromHost[s], m), n), mRev[s], rendered'[s])
    BY <1>3, <1>8, <2>1, <2>2, <2>3, <2>5, ChainGrows
  <2> QED
    BY <1>3, <1>5, <1>8, <2>1, <2>4, <2>6
<1>9. ASSUME NEW was, NEW now \in {"on", "over"}, Becomes(s, was, now)
      PROVE  /\ worker' \in [Sid -> {"none", "starting", "on", "over"}]
             /\ \A t \in Sid : t # s => worker'[t] = worker[t]
  BY <1>3, <1>9 DEF Becomes
<1>10. ASSUME Starts(s) PROVE HostInv'
  <2>1. CASE Becomes(s, "starting", "on") /\ Says(s, <<"created">>)
    BY <2>1, <1>10, <1>6, <1>9 DEF Starts, Kinds
  <2>2. CASE /\ Becomes(s, "starting", "over")
             /\ \E end \in {"failed", "ended"} : Says(s, <<end, "created">>)
    BY <2>2, <1>10, <1>8, <1>9 DEF Starts, Kinds
  <2>3. CASE Becomes(s, "starting", "over") /\ Says(s, <<"refused">>)
    BY <2>3, <1>10, <1>6, <1>9 DEF Starts, Kinds
  <2> QED
    BY <1>10, <2>1, <2>2, <2>3 DEF Starts
<1>11. ASSUME Ends(s) PROVE HostInv'
  BY <1>11, <1>6, <1>9 DEF Ends, Kinds
<1>12. ASSUME LaunchesAnother(s) PROVE HostInv'
  BY <1>3, <1>12, <1>6 DEF LaunchesAnother, extension, Kinds
<1> QED
  BY <1>7, <1>10, <1>11, <1>12 DEF Extension
----------------------------------------------------------------------------
(* What the daemon's steps do to its sessions.                              *)
LEMMA Launches ==
  ASSUME HostInv, NEW who, NewSession(who)
  PROVE  /\ minted' \in minted..MaxSid
         /\ open' \subseteq open \cup ((minted + 1)..minted')
         /\ worker' \in [Sid -> {"none", "starting", "on", "over"}]
         /\ \A t \in Sid : t > minted' => worker'[t] = worker[t]
PROOF
<1>1. minted \in 0..MaxSid /\ MaxSid \in Nat /\ minted < MaxSid /\ minted' = minted + 1
  BY PanelAssumption DEF HostInv, NewSession, MayLaunch, Fresh
<1>2. open' = open \cup {minted + 1} /\ worker' = [worker EXCEPT ![minted + 1] = "starting"]
  BY DEF NewSession, Fresh
<1>3. worker \in [Sid -> {"none", "starting", "on", "over"}]
  BY DEF HostInv
<1> QED
  BY <1>1, <1>2, <1>3 DEF Sid

(* A step that takes no message of a host: sessions are dropped, or one is  *)
(* launched.                                                                *)
LEMMA Settles ==
  ASSUME HostInv, UNCHANGED <<rendered, fromHost, mTree, mRev>>,
         \/ UNCHANGED <<minted, worker>> /\ open' \subseteq open
         \/ \E who \in Askers : NewSession(who)
  PROVE  HostInv'
PROOF
<1>1. /\ minted' \in minted..MaxSid
      /\ open' \subseteq open \cup ((minted + 1)..minted')
      /\ worker' \in [Sid -> {"none", "starting", "on", "over"}]
      /\ \A t \in Sid : t > minted' => worker'[t] = worker[t]
  <2>1. CASE UNCHANGED <<minted, worker>> /\ open' \subseteq open
    BY <2>1, PanelAssumption DEF HostInv
  <2>2. CASE \E who \in Askers : NewSession(who)
    BY <2>2, Launches
  <2> QED
    BY <2>1, <2>2
<1>2. /\ rendered' \in [Sid -> Nat] /\ mRev' \in [Sid -> Nat] /\ mTree' = mRev'
      /\ fromHost' \in [Sid -> Seq(HostMsg)]
  BY DEF HostInv
<1>3. {} \in SUBSET (1..minted)
  OBVIOUS
<1>4. /\ \A t \in Sid \ {} : /\ fromHost'[t] = fromHost[t]
                          /\ rendered'[t] = rendered[t] /\ mRev'[t] = mRev[t]
      /\ \A t \in {} : t \in open' => Chain(fromHost'[t], mRev'[t], rendered'[t])
  OBVIOUS
<1> QED
  BY <1>1, <1>2, <1>3, <1>4, HostMoves

(* A message taken from session s's port, the daemon's revision moving on   *)
(* with a batch, and whatever the message leads to.                         *)
LEMMA Takes ==
  ASSUME HostInv, NEW s \in Sid, NEW k \in Kinds, Hears(s, k), UNCHANGED rendered,
         mRev' \in [Sid -> Nat], mTree' = mRev',
         \A t \in Sid : t # s => mRev'[t] = mRev[t],
         s \in open => mRev'[s] = mRev[s] + Count(Head(fromHost[s])),
         \/ UNCHANGED <<minted, worker>> /\ open' \subseteq open
         \/ \E who \in Askers : NewSession(who)
  PROVE  HostInv'
PROOF
<1>1. /\ fromHost[s] \in Seq(HostMsg) /\ fromHost[s] # <<>>
      /\ fromHost \in [Sid -> Seq(HostMsg)]
      /\ fromHost' = [fromHost EXCEPT ![s] = Tail(@)]
      /\ mRev[s] \in Nat /\ rendered[s] \in Nat
      /\ s \in open => Chain(fromHost[s], mRev[s], rendered[s])
  BY DEF HostInv, Hears
<1>2. minted \in Nat /\ Sid \subseteq Nat /\ s \in 1..minted /\ open \subseteq 1..minted
      /\ minted \in 0..MaxSid
  BY <1>1, PanelAssumption DEF HostInv, Sid
<1>3. Tail(fromHost[s]) \in Seq(HostMsg)
  BY <1>1, PortFacts
<1>4. /\ fromHost' \in [Sid -> Seq(HostMsg)] /\ fromHost'[s] = Tail(fromHost[s])
      /\ \A t \in Sid : t # s => fromHost'[t] = fromHost[t]
  BY <1>1, <1>3
<1>5. /\ minted' \in minted..MaxSid
      /\ open' \subseteq open \cup ((minted + 1)..minted')
      /\ worker' \in [Sid -> {"none", "starting", "on", "over"}]
      /\ \A t \in Sid : t > minted' => worker'[t] = worker[t]
  <2>1. CASE UNCHANGED <<minted, worker>> /\ open' \subseteq open
    BY <2>1, <1>2, PanelAssumption DEF HostInv
  <2>2. CASE \E who \in Askers : NewSession(who)
    BY <2>2, Launches
  <2> QED
    BY <2>1, <2>2
<1>6. s \in open' => s \in open
  BY <1>2, <1>5
<1>7. s \in open => Chain(Tail(fromHost[s]), mRev'[s], rendered'[s])
  BY <1>1, ChainTakes
<1>8. \A t \in {s} : t \in open' => Chain(fromHost'[t], mRev'[t], rendered'[t])
  BY <1>4, <1>6, <1>7
<1>9. {s} \in SUBSET (1..minted)
  BY <1>2
<1>10. rendered' \in [Sid -> Nat]
  BY DEF HostInv
<1>11. \A t \in Sid \ {s} : /\ fromHost'[t] = fromHost[t]
                            /\ rendered'[t] = rendered[t] /\ mRev'[t] = mRev[t]
  BY <1>4
<1> QED
  BY <1>4, <1>5, <1>8, <1>9, <1>10, <1>11, HostMoves

(* Each message of a host, a batch being the only one that moves a tree on. *)
LEMMA HearsKeeps ==
  ASSUME HostInv, NEW s \in Sid, DaemonHears(s)
  PROVE  HostInv'
PROOF
<1>1. mRev \in [Sid -> Nat] /\ mTree = mRev /\ fromHost \in [Sid -> Seq(HostMsg)]
  BY DEF HostInv
<1>2. ASSUME NEW k \in Kinds \ {"render"}, Hears(s, k), UNCHANGED <<rendered, mTree, mRev>>,
             \/ UNCHANGED <<minted, worker>> /\ open' \subseteq open
             \/ \E who \in Askers : NewSession(who)
      PROVE  HostInv'
  <2>1. Count(Head(fromHost[s])) = 0
    BY <1>2 DEF Hears, Count
  <2>2. mRev[s] + 0 = mRev[s]
    BY <1>1
  <2> QED
    BY <1>1, <1>2, <2>1, <2>2, Takes
<1>3. ASSUME HearRender(s) PROVE HostInv'
  <2> DEFINE n == Head(fromHost[s]).batch
  <2>1. Hears(s, "render") /\ UNCHANGED <<minted, worker, rendered, open>>
    BY <1>3 DEF HearRender, Same
  <2>2. Count(Head(fromHost[s])) = 1
    BY <2>1 DEF Hears, Count
  <2>3. CASE s \notin open
    BY <1>1, <1>3, <2>1, <2>3, Takes DEF HearRender, Kinds
  <2>4. CASE s \in open
    <3>1. n = mRev[s] + 1 /\ n \in Nat
      <4>1. /\ fromHost[s] \in Seq(HostMsg) /\ fromHost[s] # <<>>
            /\ mRev[s] \in Nat /\ rendered[s] \in Nat
            /\ Chain(fromHost[s], mRev[s], rendered[s])
        BY <2>1, <2>4 DEF HostInv, Hears
      <4> QED
        BY <4>1, <2>2, ChainTakes
    <3> HIDE DEF n
    <3>2. mRev' = [mRev EXCEPT ![s] = n] /\ mTree' = [mTree EXCEPT ![s] = Patched(@, n)]
      BY <1>3, <2>4 DEF HearRender, n
    <3>3. Patched(mTree[s], n) = n
      BY <1>1, <3>1 DEF Patched
    <3>4. mTree' = mRev' /\ mRev' \in [Sid -> Nat] /\ mRev'[s] = mRev[s] + 1
          /\ \A t \in Sid : t # s => mRev'[t] = mRev[t]
      BY <1>1, <3>1, <3>2, <3>3
    <3> QED
      BY <2>1, <2>2, <3>4, Takes DEF Kinds
  <2> QED
    BY <2>3, <2>4
<1>4. ASSUME HearCreated(s) PROVE HostInv'
  BY <1>2, <1>4 DEF HearCreated, Same, Kinds
<1>5. ASSUME HearRefused(s) PROVE HostInv'
  BY <1>2, <1>5 DEF HearRefused, Same, Kinds
<1>6. ASSUME HearFailed(s) PROVE HostInv'
  BY <1>2, <1>6 DEF HearFailed, Same, Kinds
<1>7. ASSUME HearEnded(s) PROVE HostInv'
  BY <1>2, <1>7 DEF HearEnded, Same, Kinds
<1>8. ASSUME HearLaunch(s) PROVE HostInv'
  BY <1>2, <1>8 DEF HearLaunch, Kinds, Askers
<1> QED
  BY <1>3, <1>4, <1>5, <1>6, <1>7, <1>8 DEF DaemonHears

(* The page's invokes, the keys and the window.                             *)
LEMMA ServesKeeps ==
  ASSUME HostInv, DaemonServes \/ Keys
  PROVE  HostInv'
PROOF
<1>1. Hides => open' \subseteq open
  BY DEF Hides
<1>2. CASE DaemonServes
  <2>1. UNCHANGED <<rendered, fromHost, mTree, mRev>>
    BY <1>2 DEF DaemonServes, ServeLaunch, ServeHide, ServeClose, ServeAttach, Still
  <2>2. \/ UNCHANGED <<minted, worker>> /\ open' \subseteq open
        \/ \E who \in Askers : NewSession(who)
    BY <1>1, <1>2 DEF DaemonServes, ServeLaunch, ServeHide, ServeClose, ServeAttach, Askers
  <2> QED
    BY <2>1, <2>2, Settles
<1>3. CASE Keys
  <2>1. UNCHANGED <<rendered, fromHost, mTree, mRev>>
    BY <1>3 DEF Keys, VerbShow, VerbHide, VerbOpen, Rest
  <2>2. \/ UNCHANGED <<minted, worker>> /\ open' \subseteq open
        \/ \E who \in Askers : NewSession(who)
    BY <1>1, <1>3 DEF Keys, VerbShow, VerbHide, VerbOpen, Askers
  <2> QED
    BY <2>1, <2>2, Settles
<1> QED
  BY <1>2, <1>3
----------------------------------------------------------------------------
(* The wires carry what the daemon and the page put there.                  *)
LEMMA PageMessages ==
  /\ \A shown \in BOOLEAN : Visibility(shown) \in PageMsg
  /\ \A s \in Sid, crashed \in BOOLEAN : Ended(s, crashed) \in PageMsg
  /\ \A s \in Sid, n \in Nat : [type |-> "render", sid |-> s, rev |-> n] \in PageMsg
  /\ \A i \in Genuine : /\ [type |-> "started", info |-> i] \in PageMsg
                        /\ [type |-> "launched", info |-> i] \in PageMsg
  /\ \A s \in Nat, there \in BOOLEAN, n \in Nat :
       [type |-> "attached", sid |-> s, there |-> there, rev |-> n, tree |-> n] \in PageMsg
PROOF
  BY DEF PageMsg, Visibility, Ended

(* What the page may read off a message of each type.                       *)
LEMMA PageMessagesHold ==
  ASSUME NEW m \in PageMsg
  PROVE  /\ m.type = "render" => m.sid \in Sid /\ m.rev \in Nat
         /\ m.type \in {"started", "launched"} => m.info \in Genuine
         /\ m.type = "attached" => m.sid \in Nat /\ m.rev \in Nat /\ m.tree = m.rev
PROOF
<1>1. CASE m \in [type : {"visibility"}, visible : BOOLEAN]
  BY <1>1
<1>2. CASE m \in [type : {"ended"}, sid : Sid, failed : BOOLEAN]
  BY <1>2
<1>3. CASE m \in [type : {"render"}, sid : Sid, rev : Nat]
  BY <1>3
<1>4. CASE m \in [type : {"started", "launched"}, info : Genuine]
  BY <1>4
<1>5. CASE m \in {n \in [type : {"attached"}, sid : Nat, there : BOOLEAN,
                         rev : Nat, tree : Nat] : n.tree = n.rev}
  BY <1>5
<1> QED
  BY <1>1, <1>2, <1>3, <1>4, <1>5 DEF PageMsg

(* The same of the page's invokes.                                          *)
LEMMA AskMessages ==
  /\ [type |-> "launch"] \in AskMsg /\ [type |-> "hide"] \in AskMsg
  /\ \A s \in Nat : Attach(s) \in AskMsg /\ [type |-> "close", sid |-> s] \in AskMsg
  /\ \A m \in AskMsg : m.type = "attach" => m.sid \in Nat
PROOF
<1>1. ASSUME NEW m \in AskMsg, m.type = "attach" PROVE m.sid \in Nat
  <2>1. m \in [type : {"close", "attach"}, sid : Nat]
    BY <1>1 DEF AskMsg
  <2> QED
    BY <2>1
<1> QED
  BY <1>1 DEF AskMsg, Attach

(* Putting messages behind a wire, and taking one from its front.           *)
LEMMA Joins ==
  ASSUME NEW S, NEW q \in Seq(S)
  PROVE  /\ q \o <<>> \in Seq(S)
         /\ \A a \in S : <<a>> \in Seq(S) /\ q \o <<a>> \in Seq(S)
         /\ \A a, b \in S : <<a, b>> \in Seq(S) /\ q \o <<a, b>> \in Seq(S)
         /\ \A r \in Seq(S) : q \o r \in Seq(S)
         /\ \A a \in S : Append(q, a) \in Seq(S)
         /\ q # <<>> => Head(q) \in S /\ Tail(q) \in Seq(S)
PROOF
  OBVIOUS

(* What Info() says of a session is genuine: the daemon's tree is the one its *)
(* revision names.                                                          *)
LEMMA InfoIsGenuine ==
  ASSUME HostInv, NEW s \in Sid, NEW alone \in {"yes", "no", "unsaid"}
  PROVE  Info(s, alone) \in Genuine
PROOF
<1>1. mRev[s] \in Nat /\ mTree[s] = mRev[s]
  BY DEF HostInv
<1> QED
  BY <1>1 DEF Info, Genuine

(* Every step of the daemon puts genuine messages on the wires only.        *)
LEMMA HidesTells ==
  ASSUME WireInv, Hides
  PROVE  toPage' \in Seq(PageMsg) /\ replies' \in Seq(PageMsg)
PROOF
<1>1. CASE ~visible
  BY <1>1 DEF Hides, WireInv
<1>2. CASE visible
  <2>1. toPage' = toPage \o <<Visibility(FALSE)>> /\ replies' = replies
    BY <1>2 DEF Hides, Push
  <2> QED
    BY <2>1, PageMessages, Joins DEF WireInv
<1> QED
  BY <1>1, <1>2

LEMMA ReplyTells ==
  ASSUME WireInv, NEW m \in PageMsg, Reply(m)
  PROVE  toPage' \in Seq(PageMsg) /\ replies' \in Seq(PageMsg)
PROOF
  BY Joins DEF WireInv, Reply

LEMMA HearsTells ==
  ASSUME HostInv, WireInv, NEW s \in Sid, DaemonHears(s)
  PROVE  WireInv'
PROOF
<1>1. fromPage' = fromPage
  BY DEF DaemonHears, HearRender, HearCreated, HearRefused, HearFailed, HearEnded, HearLaunch,
         Same, wires
<1>2. ASSUME toPage' \in Seq(PageMsg), replies' \in Seq(PageMsg) PROVE WireInv'
  BY <1>1, <1>2 DEF WireInv
<1>3. ASSUME UNCHANGED <<toPage, replies>> PROVE WireInv'
  BY <1>2, <1>3 DEF WireInv
<1>4. ASSUME NEW m \in PageMsg, Push(<<m>>) PROVE WireInv'
  <2>1. toPage \o <<m>> \in Seq(PageMsg) /\ replies \in Seq(PageMsg)
    BY Joins DEF WireInv
  <2> QED
    BY <1>2, <1>4, <2>1 DEF Push
<1>5. ASSUME HearRender(s) PROVE WireInv'
  <2> DEFINE n == Head(fromHost[s]).batch
  <2>1. n \in Nat
    <3>1. fromHost[s] \in Seq(HostMsg) /\ fromHost[s] # <<>>
      BY <1>5 DEF HearRender, Hears, HostInv
    <3>2. Head(fromHost[s]) \in HostMsg
      BY <3>1, Joins
    <3> QED
      BY <3>2 DEF HostMsg
  <2>2. CASE s \notin open
    BY <1>3, <1>5, <2>2 DEF HearRender
  <2>3. CASE s \in open
    <3>1. \/ UNCHANGED <<toPage, replies>>
          \/ Push(<<[type |-> "render", sid |-> s, rev |-> n]>>)
      BY <1>5, <2>3 DEF HearRender
    <3> HIDE DEF n
    <3>2. [type |-> "render", sid |-> s, rev |-> n] \in PageMsg
      BY <2>1, PageMessages
    <3> QED
      BY <1>3, <1>4, <3>1, <3>2
  <2> QED
    BY <2>2, <2>3
<1>6. ASSUME HearCreated(s) PROVE WireInv'
  <2>1. CASE Reply([type |-> "launched", info |-> Info(s, "no")])
    <3>1. [type |-> "launched", info |-> Info(s, "no")] \in PageMsg
      BY InfoIsGenuine, PageMessages
    <3> QED
      BY <1>2, <2>1, <3>1, ReplyTells
  <2>2. ASSUME NEW alone \in {"yes", "no", "unsaid"},
               Push(<<[type |-> "started", info |-> Info(s, alone)], Visibility(TRUE)>>)
        PROVE  WireInv'
    <3> DEFINE m == [type |-> "started", info |-> Info(s, alone)]
    <3>1. m \in PageMsg /\ Visibility(TRUE) \in PageMsg
      BY InfoIsGenuine, PageMessages
    <3>2. toPage' = toPage \o <<m, Visibility(TRUE)>> /\ replies' = replies
      BY <2>2 DEF Push
    <3> HIDE DEF m
    <3>3. toPage \o <<m, Visibility(TRUE)>> \in Seq(PageMsg) /\ replies \in Seq(PageMsg)
      BY <3>1, Joins DEF WireInv
    <3> QED
      BY <1>2, <3>2, <3>3
  <2> QED
    BY <1>3, <1>6, <2>1, <2>2 DEF HearCreated
<1>7. ASSUME HearRefused(s) PROVE WireInv'
  BY <1>3, <1>7 DEF HearRefused
<1>8. ASSUME HearFailed(s) PROVE WireInv'
  BY <1>4, <1>8, PageMessages DEF HearFailed
<1>9. ASSUME HearEnded(s) PROVE WireInv'
  BY <1>4, <1>9, PageMessages DEF HearEnded
<1>10. ASSUME HearLaunch(s) PROVE WireInv'
  BY <1>3, <1>10 DEF HearLaunch, wires
<1> QED
  BY <1>5, <1>6, <1>7, <1>8, <1>9, <1>10 DEF DaemonHears

LEMMA ServesTells ==
  ASSUME HostInv, WireInv, DaemonServes
  PROVE  WireInv'
PROOF
<1>1. fromPage \in Seq(AskMsg) /\ fromPage # <<>> /\ fromPage' = Tail(fromPage)
  BY DEF DaemonServes, ServeLaunch, ServeHide, ServeClose, ServeAttach, Asked, WireInv
<1>2. fromPage' \in Seq(AskMsg) /\ Head(fromPage) \in AskMsg
  BY <1>1, Joins
<1>3. ASSUME toPage' \in Seq(PageMsg), replies' \in Seq(PageMsg) PROVE WireInv'
  BY <1>2, <1>3 DEF WireInv
<1>4. ASSUME UNCHANGED <<toPage, replies>> PROVE WireInv'
  BY <1>3, <1>4 DEF WireInv
<1>5. ASSUME ServeAttach PROVE WireInv'
  <2> DEFINE s == Asks.sid
             there == s \in open
             r == IF there THEN mRev[s] ELSE 0
             t == IF there THEN mTree[s] ELSE 0
  <2>1. s \in Nat
    BY <1>2, <1>5, AskMessages DEF ServeAttach, Asked, Asks
  <2>2. r \in Nat /\ t = r
    <3>1. open \subseteq Sid
      BY PanelAssumption DEF HostInv, Sid
    <3>2. ASSUME s \in open PROVE mRev[s] \in Nat /\ mTree[s] = mRev[s]
      BY <3>1, <3>2 DEF HostInv
    <3> QED
      BY <3>2
  <2>3. Reply([type |-> "attached", sid |-> s, there |-> there, rev |-> r, tree |-> t])
    BY <1>5 DEF ServeAttach
  <2>4. there \in BOOLEAN
    OBVIOUS
  <2> HIDE DEF s, there, r, t
  <2>5. [type |-> "attached", sid |-> s, there |-> there, rev |-> r, tree |-> t] \in PageMsg
    BY <2>1, <2>2, <2>4, PageMessages
  <2> QED
    BY <1>3, <2>3, <2>5, ReplyTells
<1>6. ASSUME ServeLaunch \/ ServeHide \/ ServeClose PROVE WireInv'
  BY <1>3, <1>4, <1>6, HidesTells DEF ServeLaunch, ServeHide, ServeClose
<1> QED
  BY <1>5, <1>6 DEF DaemonServes

LEMMA KeysTell ==
  ASSUME WireInv, Keys
  PROVE  WireInv'
PROOF
<1>1. fromPage' = fromPage
  BY DEF Keys, VerbShow, VerbHide, VerbOpen, Rest
<1>2. ASSUME toPage' \in Seq(PageMsg), replies' \in Seq(PageMsg) PROVE WireInv'
  BY <1>1, <1>2 DEF WireInv
<1>3. ASSUME VerbShow PROVE WireInv'
  <2>1. toPage' = toPage \o <<Visibility(TRUE)>> /\ replies' = replies
    BY <1>3 DEF VerbShow, Push
  <2>2. toPage \o <<Visibility(TRUE)>> \in Seq(PageMsg) /\ replies \in Seq(PageMsg)
    BY PageMessages, Joins DEF WireInv
  <2> QED
    BY <1>2, <2>1, <2>2
<1>4. ASSUME NEW t \in Target, VerbOpen(t) PROVE WireInv'
  <2>1. Hides \/ UNCHANGED <<toPage, replies>>
    BY <1>4 DEF VerbOpen
  <2> QED
    BY <1>2, <2>1, HidesTells DEF WireInv
<1>5. ASSUME VerbHide PROVE WireInv'
  BY <1>2, <1>5, HidesTells DEF VerbHide
<1> QED
  BY <1>3, <1>4, <1>5 DEF Keys

----------------------------------------------------------------------------
(* The page: what it hears is genuine, and a batch is only applied to the    *)
(* tree it follows.                                                         *)
LEMMA PushTaken ==
  ASSUME WireInv, NEW what, Pushed(what)
  PROVE  /\ Head(toPage) \in PageMsg /\ Head(toPage).type = what
         /\ toPage' \in Seq(PageMsg) /\ replies' \in Seq(PageMsg)
PROOF
<1>1. toPage # <<>> /\ toPage' = Tail(toPage) /\ replies' = replies
  BY DEF Pushed
<1> QED
  BY <1>1, Joins DEF Pushed, WireInv

(* The same of a reply, on whichever wire it travels.                       *)
LEMMA AnswerTaken ==
  ASSUME WireInv, NEW what, Answered(what)
  PROVE  /\ News \in PageMsg /\ News.type = what
         /\ toPage' \in Seq(PageMsg) /\ replies' \in Seq(PageMsg)
PROOF
<1>1. CASE ordered
  BY <1>1, PushTaken DEF Answered, News
<1>2. CASE ~ordered
  <2>1. replies # <<>> /\ replies' = Tail(replies) /\ toPage' = toPage
    BY <1>2 DEF Answered
  <2> QED
    BY <1>2, <2>1, Joins DEF Answered, News, WireInv
<1> QED
  BY <1>1, <1>2

LEMMA BeginIsGenuine ==
  ASSUME PageInv, NEW info \in Genuine, Begin(info)
  PROVE  PageInv'
PROOF
<1>1. info.sid \in Sid /\ info.rev \in Nat /\ info.tree = info.rev
  BY DEF Genuine
<1> QED
  BY <1>1 DEF PageInv, TreeIsGenuine, Begin

(* Dropping the session shown leaves nothing drawn.                         *)
LEMMA EndAsks ==
  ASSUME WireInv, PageInv, NEW then \in {<<>>, <<[type |-> "hide"]>>}, EndWith(then)
  PROVE  PageInv' /\ fromPage' \in Seq(AskMsg)
PROOF
<1>1. then \in Seq(AskMsg)
  <2>1. [type |-> "hide"] \in AskMsg /\ <<>> \in Seq(AskMsg)
    BY AskMessages
  <2>2. <<[type |-> "hide"]>> \in Seq(AskMsg)
    BY <2>1, Joins
  <2> QED
    BY <2>1, <2>2
<1>2. active \in Nat
  BY PanelAssumption DEF PageInv, Sid, None
<1> DEFINE first == IF active = None THEN <<>> ELSE <<[type |-> "close", sid |-> active]>>
<1>3. first \in Seq(AskMsg)
  <2>1. [type |-> "close", sid |-> active] \in AskMsg
    BY <1>2, AskMessages
  <2> QED
    BY <2>1, Joins
<1>4. fromPage' = fromPage \o (first \o then)
  BY DEF EndWith, Invoke
<1> HIDE DEF first
<1>5. fromPage \o (first \o then) \in Seq(AskMsg)
  BY <1>1, <1>3, Joins DEF WireInv
<1>6. PageInv'
  BY DEF EndWith, PageInv, TreeIsGenuine
<1> QED
  BY <1>4, <1>5, <1>6

(* A gap is fetched, never patched over.                                    *)
LEMMA ResyncAsks ==
  ASSUME WireInv, NEW s \in Sid, Resync(s)
  PROVE  resyncing' = s /\ fromPage' \in Seq(AskMsg)
PROOF
<1>1. s \in Nat
  BY PanelAssumption DEF Sid
<1>2. Attach(s) \in AskMsg
  BY <1>1, AskMessages
<1>3. fromPage \o <<Attach(s)>> \in Seq(AskMsg)
  BY <1>2, Joins DEF WireInv
<1> QED
  BY <1>3 DEF Resync, Invoke, WireInv

LEMMA RenderIsGenuine ==
  ASSUME WireInv, PageInv, OnRender
  PROVE  WireInv' /\ PageInv'
PROOF
<1> DEFINE m == Head(toPage)
<1>1. Pushed("render") /\ UNCHANGED active
  BY DEF OnRender
<1>2. m \in PageMsg /\ m.type = "render" /\ toPage' \in Seq(PageMsg) /\ replies' \in Seq(PageMsg)
  BY <1>1, PushTaken
<1>3. m.sid \in Sid /\ m.rev \in Nat
  BY <1>2, PageMessagesHold
<1>4. CASE UNCHANGED <<rev, tree, seen, resyncing, again, fromPage>>
  BY <1>1, <1>2, <1>4 DEF WireInv, PageInv, TreeIsGenuine
<1>5. CASE m.sid = active /\ Resync(m.sid) /\ UNCHANGED <<rev, tree>>
  <2>1. resyncing' = m.sid /\ fromPage' \in Seq(AskMsg)
    BY <1>3, <1>5, ResyncAsks
  <2>2. resyncing' \in Nat
    BY <1>3, <2>1, PanelAssumption DEF Sid
  <2> QED
    BY <1>1, <1>2, <1>5, <2>1, <2>2 DEF WireInv, PageInv, TreeIsGenuine
<1>6. CASE /\ m.sid = active /\ m.rev = rev + 1
           /\ rev' = m.rev /\ tree' = Patched(tree, m.rev)
           /\ UNCHANGED <<resyncing, again, fromPage>>
  <2>1. active # None
    BY <1>3, <1>6, PanelAssumption DEF Sid, None
  <2>2. tree = m.rev - 1
    BY <1>6, <2>1 DEF PageInv, TreeIsGenuine
  <2>3. rev' = m.rev /\ tree' = m.rev
    BY <1>6, <2>2 DEF Patched
  <2> QED
    BY <1>1, <1>2, <1>3, <1>6, <2>3 DEF WireInv, PageInv, TreeIsGenuine
<1> QED
  BY <1>4, <1>5, <1>6 DEF OnRender

LEMMA AttachedIsGenuine ==
  ASSUME WireInv, PageInv, OnAttached
  PROVE  WireInv' /\ PageInv'
PROOF
<1> DEFINE m == News
           taken == m.there /\ m.sid = active /\ m.rev > rev
           more == again /\ resyncing = m.sid /\ active = m.sid
<1>1. Answered("attached") /\ UNCHANGED active
  BY DEF OnAttached
<1>2. m \in PageMsg /\ m.type = "attached" /\ toPage' \in Seq(PageMsg) /\ replies' \in Seq(PageMsg)
  BY <1>1, AnswerTaken
<1>3. m.sid \in Nat /\ m.rev \in Nat /\ m.tree = m.rev
  BY <1>2, PageMessagesHold
<1>4. /\ rev' = IF taken THEN m.rev ELSE rev
      /\ tree' = IF taken THEN m.tree ELSE tree
      /\ IF resyncing # m.sid THEN UNCHANGED <<resyncing, again>>
         ELSE resyncing' = (IF more THEN m.sid ELSE None) /\ again' = FALSE
      /\ fromPage' = fromPage \o (IF more THEN <<Attach(m.sid)>> ELSE <<>>)
  BY DEF OnAttached, Invoke
<1> HIDE DEF m, taken, more
<1>5. rev' \in Nat /\ tree' \in Nat /\ TreeIsGenuine'
  BY <1>1, <1>3, <1>4 DEF PageInv, TreeIsGenuine
<1>6. resyncing' \in Nat
  BY <1>3, <1>4 DEF PageInv, None
<1>7. fromPage' \in Seq(AskMsg)
  <2>1. fromPage \o <<Attach(m.sid)>> \in Seq(AskMsg) /\ fromPage \o <<>> \in Seq(AskMsg)
    BY <1>3, AskMessages, Joins DEF WireInv
  <2> QED
    BY <1>4, <2>1
<1> QED
  BY <1>1, <1>2, <1>5, <1>6, <1>7 DEF WireInv, PageInv

LEMMA PageKeeps ==
  ASSUME WireInv, PageInv, PageHears
  PROVE  WireInv' /\ PageInv'
PROOF
<1>1. ASSUME OnVisibility PROVE WireInv' /\ PageInv'
  <2>1. toPage' \in Seq(PageMsg) /\ replies' \in Seq(PageMsg)
    BY <1>1, PushTaken DEF OnVisibility
  <2>2. CASE UNCHANGED <<pageVars, fromPage>>
    BY <2>1, <2>2 DEF WireInv, PageInv, TreeIsGenuine, pageVars
  <2>3. CASE EndWith(<<>>)
    BY <2>1, <2>3, EndAsks DEF WireInv
  <2> QED
    BY <1>1, <2>2, <2>3 DEF OnVisibility
<1>2. ASSUME OnStarted PROVE WireInv' /\ PageInv'
  <2>1. /\ toPage' \in Seq(PageMsg) /\ replies' \in Seq(PageMsg)
        /\ Head(toPage) \in PageMsg /\ Head(toPage).type = "started"
    BY <1>2, PushTaken DEF OnStarted
  <2>2. Head(toPage).info \in Genuine
    BY <2>1, PageMessagesHold
  <2> QED
    BY <1>2, <2>1, <2>2, BeginIsGenuine DEF OnStarted, WireInv
<1>3. ASSUME OnLaunched PROVE WireInv' /\ PageInv'
  <2>1. /\ toPage' \in Seq(PageMsg) /\ replies' \in Seq(PageMsg)
        /\ News \in PageMsg /\ News.type = "launched"
    BY <1>3, AnswerTaken DEF OnLaunched
  <2>2. News.info \in Genuine
    BY <2>1, PageMessagesHold
  <2> QED
    BY <1>3, <2>1, <2>2, BeginIsGenuine DEF OnLaunched, WireInv
<1>4. ASSUME OnEnded PROVE WireInv' /\ PageInv'
  <2>1. toPage' \in Seq(PageMsg) /\ replies' \in Seq(PageMsg)
    BY <1>4, PushTaken DEF OnEnded
  <2>2. /\ UNCHANGED <<rev, resyncing, fromPage>>
        /\ \/ UNCHANGED <<active, tree>>
           \/ active' = None /\ tree' = 0
    BY <1>4 DEF OnEnded
  <2> QED
    BY <2>1, <2>2 DEF WireInv, PageInv, TreeIsGenuine
<1> QED
  BY <1>1, <1>2, <1>3, <1>4, RenderIsGenuine, AttachedIsGenuine DEF PageHears

(* What the user does only asks, or drops the session shown.                *)
LEMMA UserKeeps ==
  ASSUME WireInv, PageInv, PageUser
  PROVE  WireInv' /\ PageInv'
PROOF
<1>1. UNCHANGED <<toPage, replies>>
  BY DEF PageUser, ActivateRow, EscapeAtRoot, Exit
<1>2. ASSUME NEW m \in AskMsg, Invoke(<<m>>), UNCHANGED pageVars PROVE WireInv' /\ PageInv'
  <2>1. fromPage \o <<m>> \in Seq(AskMsg)
    BY Joins DEF WireInv
  <2> QED
    BY <1>1, <1>2, <2>1 DEF WireInv, PageInv, TreeIsGenuine, Invoke, pageVars
<1>3. ASSUME ActivateRow PROVE WireInv' /\ PageInv'
  BY <1>2, <1>3, AskMessages DEF ActivateRow
<1>4. ASSUME EscapeAtRoot PROVE WireInv' /\ PageInv'
  BY <1>2, <1>4, AskMessages DEF EscapeAtRoot
<1>5. ASSUME Exit PROVE WireInv' /\ PageInv'
  BY <1>1, <1>5, EndAsks DEF Exit, WireInv
<1> QED
  BY <1>3, <1>4, <1>5 DEF PageUser

----------------------------------------------------------------------------
(* The invariant holds at the start, and every step keeps it.               *)
LEMMA PanelInit == Init => IInv
PROOF
<1> SUFFICES ASSUME Init PROVE IInv
  OBVIOUS
<1>1. HostInv
  <2>1. minted = 0 /\ open = {} /\ minted \in 0..MaxSid
    BY PanelAssumption DEF Init, DaemonInit
  <2>2. fromHost \in [Sid -> Seq(HostMsg)]
    BY DEF Init, DaemonInit
  <2> QED
    BY <2>1, <2>2 DEF Init, DaemonInit, HostInv
<1>2. WireInv
  BY DEF Init, WiresInit, WireInv
<1>3. PageInv
  BY DEF Init, PageInit, PageInv, TreeIsGenuine, None
<1> QED
  BY <1>1, <1>2, <1>3 DEF IInv

LEMMA PanelNext == IInv /\ [Next]_vars => IInv'
PROOF
<1> SUFFICES ASSUME IInv, [Next]_vars PROVE IInv'
  OBVIOUS
<1> USE DEF IInv
<1>1. UNCHANGED daemonVars => HostInv'
  BY DEF HostInv, daemonVars
<1>2. UNCHANGED wires => WireInv'
  BY DEF WireInv, wires
<1>3. UNCHANGED pageVars => PageInv'
  BY DEF PageInv, TreeIsGenuine, pageVars
<1>4. CASE \E s \in Sid : Extension(s) /\ UNCHANGED <<wires, pageVars, acts>>
  BY <1>2, <1>3, <1>4, ExtensionKeeps
<1>5. CASE \E s \in Sid : DaemonHears(s) /\ UNCHANGED <<pageVars, acts>>
  BY <1>3, <1>5, HearsKeeps, HearsTells
<1>6. CASE DaemonServes /\ UNCHANGED <<pageVars, acts>>
  BY <1>3, <1>6, ServesKeeps, ServesTells
<1>7. CASE PageHears /\ UNCHANGED <<daemonVars, acts>>
  BY <1>1, <1>7, PageKeeps
<1>8. CASE Acts /\ Keys /\ UNCHANGED pageVars
  BY <1>3, <1>8, ServesKeeps, KeysTell
<1>9. CASE Acts /\ PageUser /\ UNCHANGED daemonVars
  BY <1>1, <1>9, UserKeeps
<1>10. CASE UNCHANGED vars
  BY <1>1, <1>2, <1>3, <1>10 DEF vars
<1> QED
  BY <1>4, <1>5, <1>6, <1>7, <1>8, <1>9, <1>10 DEF Next

----------------------------------------------------------------------------
(* What is on a wire, in whatever order.                                    *)
LEMMA WireHolds ==
  ASSUME NEW S, NEW q \in Seq(S)
  PROVE  /\ Range(q) \subseteq S
         /\ Range(q) = {} <=> q = <<>>
         /\ \A a \in S : Range(Append(q, a)) = Range(q) \cup {a}
         /\ \A r \in Seq(S) : Range(q \o r) = Range(q) \cup Range(r)
         /\ \A a \in S : Range(<<a>>) = {a}
         /\ \A a, b \in S : Range(<<a, b>>) = {a, b}
         /\ q # <<>> => Range(q) = {Head(q)} \cup Range(Tail(q))
PROOF
<1>1. ASSUME NEW r \in Seq(S) PROVE Range(r) = {r[i] : i \in 1..Len(r)} /\ Range(r) \subseteq S
  <2>1. DOMAIN r = 1..Len(r) /\ \A i \in 1..Len(r) : r[i] \in S
    OBVIOUS
  <2> QED
    BY <2>1 DEF Range
<1>2. Range(q) = {} <=> q = <<>>
  <2>1. q = <<>> => Range(q) = {}
    BY DEF Range
  <2>2. ASSUME q # <<>> PROVE Range(q) # {}
    <3>1. 1 \in 1..Len(q)
      BY <2>2, PortFacts
    <3>2. q[1] \in {q[i] : i \in 1..Len(q)}
      BY <3>1
    <3> QED
      BY <3>2, <1>1
  <2> QED
    BY <2>1, <2>2
<1>3. ASSUME NEW a \in S PROVE Range(Append(q, a)) = Range(q) \cup {a}
  <2> DEFINE p == Append(q, a)
  <2>1. /\ Len(q) \in Nat /\ p \in Seq(S) /\ Len(p) = Len(q) + 1
        /\ \A i \in 1..Len(q) : p[i] = q[i]
        /\ p[Len(q) + 1] = a
    BY PortFacts
  <2> HIDE DEF p
  <2>2. {p[i] : i \in 1..Len(p)} = {q[i] : i \in 1..Len(q)} \cup {a}
    <3>1. ASSUME NEW i \in 1..Len(p) PROVE p[i] \in {q[j] : j \in 1..Len(q)} \cup {a}
      BY <2>1
    <3>2. ASSUME NEW j \in 1..Len(q) PROVE q[j] \in {p[i] : i \in 1..Len(p)}
      <4>1. j \in 1..Len(p) /\ p[j] = q[j]
        BY <2>1
      <4> QED
        BY <4>1
    <3>3. a \in {p[i] : i \in 1..Len(p)}
      <4>1. Len(q) + 1 \in 1..Len(p)
        BY <2>1
      <4> QED
        BY <4>1, <2>1
    <3> QED
      BY <3>1, <3>2, <3>3
  <2> QED
    BY <1>1, <2>1, <2>2 DEF p
<1>4. ASSUME NEW r \in Seq(S) PROVE Range(q \o r) = Range(q) \cup Range(r)
  <2> DEFINE p == q \o r
  <2>1. /\ Len(q) \in Nat /\ Len(r) \in Nat /\ p \in Seq(S) /\ Len(p) = Len(q) + Len(r)
        /\ \A i \in 1..Len(q) : p[i] = q[i]
        /\ \A i \in 1..Len(r) : p[Len(q) + i] = r[i]
    OBVIOUS
  <2> HIDE DEF p
  <2>2. {p[i] : i \in 1..Len(p)} = {q[i] : i \in 1..Len(q)} \cup {r[i] : i \in 1..Len(r)}
    <3>1. ASSUME NEW i \in 1..Len(p)
          PROVE  p[i] \in {q[j] : j \in 1..Len(q)} \cup {r[j] : j \in 1..Len(r)}
      <4>1. CASE i \in 1..Len(q)
        BY <2>1, <4>1
      <4>2. CASE i \notin 1..Len(q)
        <5>1. i - Len(q) \in 1..Len(r) /\ Len(q) + (i - Len(q)) = i
          BY <2>1, <4>2
        <5> QED
          BY <2>1, <5>1
      <4> QED
        BY <4>1, <4>2
    <3>2. ASSUME NEW j \in 1..Len(q) PROVE q[j] \in {p[i] : i \in 1..Len(p)}
      <4>1. j \in 1..Len(p) /\ p[j] = q[j]
        BY <2>1
      <4> QED
        BY <4>1
    <3>3. ASSUME NEW j \in 1..Len(r) PROVE r[j] \in {p[i] : i \in 1..Len(p)}
      <4>1. Len(q) + j \in 1..Len(p) /\ p[Len(q) + j] = r[j]
        BY <2>1
      <4> QED
        BY <4>1
    <3> QED
      BY <3>1, <3>2, <3>3
  <2> QED
    BY <1>1, <2>1, <2>2 DEF p
<1>5. ASSUME NEW a \in S PROVE Range(<<a>>) = {a}
  BY DEF Range
<1>6. ASSUME NEW a \in S, NEW b \in S PROVE Range(<<a, b>>) = {a, b}
  BY DEF Range
<1>7. ASSUME q # <<>> PROVE Range(q) = {Head(q)} \cup Range(Tail(q))
  <2> DEFINE t == Tail(q)
  <2>1. /\ Len(q) \in Nat /\ Len(q) > 0 /\ t \in Seq(S) /\ Len(t) = Len(q) - 1
        /\ Head(q) = q[1]
        /\ \A i \in 1..Len(t) : t[i] = q[i + 1]
    BY <1>7, PortFacts
  <2> HIDE DEF t
  <2>2. {q[i] : i \in 1..Len(q)} = {q[1]} \cup {t[i] : i \in 1..Len(t)}
    <3>1. ASSUME NEW i \in 1..Len(q) PROVE q[i] \in {q[1]} \cup {t[j] : j \in 1..Len(t)}
      <4>1. CASE i # 1
        <5>1. i - 1 \in 1..Len(t) /\ t[i - 1] = q[i - 1 + 1] /\ i - 1 + 1 = i
          BY <2>1, <4>1
        <5> QED
          BY <5>1
      <4> QED
        BY <4>1
    <3>2. ASSUME NEW j \in 1..Len(t) PROVE t[j] \in {q[i] : i \in 1..Len(q)}
      <4>1. j + 1 \in 1..Len(q) /\ t[j] = q[j + 1]
        BY <2>1
      <4> QED
        BY <4>1
    <3>3. q[1] \in {q[i] : i \in 1..Len(q)}
      <4>1. 1 \in 1..Len(q)
        BY <2>1
      <4> QED
        BY <4>1
    <3> QED
      BY <3>1, <3>2, <3>3
  <2> QED
    BY <1>1, <2>1, <2>2 DEF t
<1> QED
  BY <1>1, <1>2, <1>3, <1>4, <1>5, <1>6, <1>7

----------------------------------------------------------------------------
(* What the daemon said stays true: revisions only grow, and who asked for a *)
(* session is never forgotten.                                              *)
Coming == Range(toPage) \cup Range(replies)

TrueNow(m) ==
  /\ m.type \in {"started", "launched"} =>
       /\ m.info.sid \in 1..minted /\ m.info.rev <= mRev[m.info.sid]
       /\ asker[m.info.sid] # "background"
       /\ m.type = "launched" <=> asker[m.info.sid] = "row"
       /\ m.type = "started" /\ asker[m.info.sid] \in Target => m.info.standalone = "yes"
  /\ m.type = "render" =>
       m.sid \in 1..minted /\ asker[m.sid] # "background" /\ m.rev <= mRev[m.sid]

SaidInv ==
  /\ asker \in [Sid -> Askers \cup {"none"}]
  /\ \A m \in Coming : TrueNow(m)
  /\ active \in 0..minted /\ seen \in Nat
  /\ active # None => seen <= mRev[active] /\ asker[active] # "background"

(* Escape closes the window just when a key opened what is shown.           *)
KeyInv ==
  active # None =>
    /\ asker[active] \in Target => standalone
    /\ asker[active] = "row" => ~standalone

Grows ==
  /\ minted' \in minted..MaxSid
  /\ \A s \in 1..minted : asker'[s] = asker[s] /\ mRev[s] <= mRev'[s]
  /\ asker' \in [Sid -> Askers \cup {"none"}]

LEMMA LaunchGrows ==
  ASSUME HostInv, SaidInv, NEW who \in Askers, NewSession(who), UNCHANGED mRev
  PROVE  Grows
PROOF
<1>1. minted \in 0..MaxSid /\ MaxSid \in Nat /\ minted < MaxSid /\ minted' = minted + 1
      /\ mRev \in [Sid -> Nat]
  BY PanelAssumption DEF HostInv, NewSession, MayLaunch, Fresh
<1>2. asker' = [asker EXCEPT ![minted + 1] = who] /\ asker \in [Sid -> Askers \cup {"none"}]
  BY DEF NewSession, Fresh, SaidInv
<1>3. \A s \in 1..minted : s \in Sid /\ s # minted + 1 /\ mRev[s] <= mRev[s]
  BY <1>1 DEF Sid
<1>4. asker' \in [Sid -> Askers \cup {"none"}]
  BY <1>2
<1>5. \A s \in 1..minted : asker'[s] = asker[s]
  BY <1>2, <1>3
<1> QED
  BY <1>1, <1>3, <1>4, <1>5 DEF Grows

(* The next batch of an open session is the one its tree waits for; the      *)
(* page is told, unless the session was started in the background.          *)
LEMMA NextBatch ==
  ASSUME HostInv, NEW s \in open, HearRender(s)
  PROVE  /\ Head(fromHost[s]).batch = mRev[s] + 1 /\ mRev[s] \in Nat /\ s \in Sid
         /\ mRev' = [mRev EXCEPT ![s] = mRev[s] + 1]
         /\ asker[s] # "background" =>
              toPage' = toPage \o <<[type |-> "render", sid |-> s, rev |-> mRev[s] + 1]>>
         /\ asker[s] = "background" => UNCHANGED toPage
         /\ UNCHANGED replies
PROOF
<1>1. s \in Sid
  BY PanelAssumption DEF HostInv, Sid
<1>2. /\ fromHost[s] \in Seq(HostMsg) /\ fromHost[s] # <<>>
      /\ mRev[s] \in Nat /\ rendered[s] \in Nat
      /\ Chain(fromHost[s], mRev[s], rendered[s])
      /\ Head(fromHost[s]).kind = "render"
  BY <1>1 DEF HostInv, HearRender, Hears
<1>3. Head(fromHost[s]).batch = mRev[s] + 1
  BY <1>2, ChainTakes DEF Count
<1> QED
  BY <1>1, <1>2, <1>3 DEF HearRender, Push

LEMMA StepGrows ==
  ASSUME IInv, SaidInv, [Next]_vars
  PROVE  Grows
PROOF
<1>1. minted \in 0..MaxSid /\ mRev \in [Sid -> Nat] /\ HostInv /\ MaxSid \in Nat
  BY PanelAssumption DEF IInv, HostInv
<1>2. ASSUME UNCHANGED <<minted, asker, mRev>> PROVE Grows
  <2>1. \A s \in 1..minted : mRev[s] \in Nat
    BY <1>1 DEF Sid
  <2> QED
    BY <1>1, <1>2, <2>1 DEF Grows, SaidInv
<1>3. ASSUME NEW s \in Sid, Extension(s) PROVE Grows
  BY <1>2, <1>3 DEF Extension, Renders, Starts, Ends, LaunchesAnother, Says
<1>4. ASSUME NEW s \in Sid, DaemonHears(s) PROVE Grows
  <2>1. CASE HearRender(s)
    <3>1. CASE s \notin open
      BY <1>2, <2>1, <3>1 DEF HearRender, Same
    <3>2. CASE s \in open
      <4>1. mRev[s] \in Nat /\ mRev' = [mRev EXCEPT ![s] = mRev[s] + 1]
        BY <1>1, <2>1, <3>2, NextBatch
      <4>2. UNCHANGED <<minted, asker>>
        BY <2>1 DEF HearRender, Same
      <4>3. \A t \in 1..minted : mRev[t] \in Nat /\ mRev[t] <= mRev'[t]
        BY <1>1, <4>1 DEF Sid
      <4> QED
        BY <1>1, <4>2, <4>3 DEF Grows, SaidInv
    <3> QED
      BY <3>1, <3>2
  <2>2. CASE HearLaunch(s)
    <3>1. UNCHANGED mRev /\ ((\E who \in {"command", "background"} : NewSession(who))
                               \/ UNCHANGED <<minted, asker>>)
      BY <2>2 DEF HearLaunch
    <3> QED
      BY <1>1, <1>2, <3>1, LaunchGrows DEF Askers
  <2>3. CASE HearCreated(s) \/ HearRefused(s) \/ HearFailed(s) \/ HearEnded(s)
    BY <1>2, <2>3 DEF HearCreated, HearRefused, HearFailed, HearEnded, Same
  <2> QED
    BY <1>4, <2>1, <2>2, <2>3 DEF DaemonHears
<1>5. ASSUME DaemonServes PROVE Grows
  <2>1. UNCHANGED mRev /\ (NewSession("row") \/ UNCHANGED <<minted, asker>>)
    BY <1>5 DEF DaemonServes, ServeLaunch, ServeHide, ServeClose, ServeAttach, Still
  <2> QED
    BY <1>1, <1>2, <2>1, LaunchGrows DEF Askers
<1>6. ASSUME Keys PROVE Grows
  <2>1. UNCHANGED mRev /\ ((\E t \in Target : NewSession(t)) \/ UNCHANGED <<minted, asker>>)
    BY <1>6 DEF Keys, VerbShow, VerbHide, VerbOpen, Rest
  <2> QED
    BY <1>1, <1>2, <2>1, LaunchGrows DEF Askers
<1>7. UNCHANGED daemonVars => Grows
  BY <1>2 DEF daemonVars
<1> QED
  BY <1>3, <1>4, <1>5, <1>6, <1>7 DEF Next, vars

LEMMA TruthLasts ==
  ASSUME HostInv, HostInv', Grows, NEW m \in PageMsg, TrueNow(m)
  PROVE  TrueNow(m)'
PROOF
<1>1. minted \in 0..MaxSid /\ MaxSid \in Nat /\ minted' \in minted..MaxSid
      /\ mRev \in [Sid -> Nat] /\ mRev' \in [Sid -> Nat]
  BY PanelAssumption DEF HostInv, Grows
<1>2. \A s \in 1..minted : s \in 1..minted' /\ mRev[s] \in Nat /\ mRev'[s] \in Nat
                           /\ mRev[s] <= mRev'[s] /\ asker'[s] = asker[s]
  BY <1>1 DEF Sid, Grows
<1>3. CASE m.type \in {"started", "launched"}
  <2>1. m.info.rev \in Nat /\ m.info.sid \in 1..minted /\ m.type # "render"
    BY <1>3, PageMessagesHold DEF Genuine, TrueNow
  <2>2. m.info.rev <= mRev'[m.info.sid]
    BY <1>2, <1>3, <2>1 DEF TrueNow
  <2> QED
    BY <1>2, <1>3, <2>1, <2>2 DEF TrueNow
<1>4. CASE m.type = "render"
  <2>1. m.rev \in Nat /\ m.sid \in 1..minted
    BY <1>4, PageMessagesHold DEF TrueNow
  <2>2. m.rev <= mRev'[m.sid]
    BY <1>2, <1>4, <2>1 DEF TrueNow
  <2> QED
    BY <1>2, <1>4, <2>1, <2>2 DEF TrueNow
<1>5. CASE m.type \notin {"started", "launched", "render"}
  BY <1>5 DEF TrueNow
<1> QED
  BY <1>3, <1>4, <1>5

(* What the daemon says is true when it says it.                            *)
LEMMA PushSpeaks ==
  ASSUME WireInv, NEW msgs \in Seq(PageMsg), Push(msgs)
  PROVE  Coming' = Coming \cup Range(msgs)
PROOF
<1>1. Range(toPage \o msgs) = Range(toPage) \cup Range(msgs)
  BY WireHolds DEF WireInv
<1> QED
  BY <1>1 DEF Push, Coming

LEMMA ReplySpeaks ==
  ASSUME WireInv, NEW m \in PageMsg, Reply(m)
  PROVE  Coming' = Coming \cup {m}
PROOF
<1>1. Range(Append(toPage, m)) = Range(toPage) \cup {m}
  BY WireHolds DEF WireInv
<1>2. Range(Append(replies, m)) = Range(replies) \cup {m}
  BY WireHolds DEF WireInv
<1> QED
  BY <1>1, <1>2 DEF Reply, Coming

LEMMA OneSpeaks ==
  ASSUME WireInv, NEW m \in PageMsg, Push(<<m>>)
  PROVE  Coming' = Coming \cup {m}
PROOF
<1>1. <<m>> \in Seq(PageMsg) /\ Range(<<m>>) = {m}
  BY Joins, WireHolds DEF WireInv
<1> QED
  BY <1>1, PushSpeaks

LEMMA HidesSpeaks ==
  ASSUME WireInv, Hides
  PROVE  Coming \subseteq Coming' /\ Coming' \subseteq Coming \cup {Visibility(FALSE)}
PROOF
<1>1. Visibility(FALSE) \in PageMsg
  BY PageMessages
<1>2. UNCHANGED <<toPage, replies>> \/ Push(<<Visibility(FALSE)>>)
  BY DEF Hides
<1> QED
  BY <1>1, <1>2, OneSpeaks DEF Coming

LEMMA PlainMessagesTrue ==
  /\ \A shown \in BOOLEAN : TrueNow(Visibility(shown))'
  /\ \A s \in Sid, crashed \in BOOLEAN : TrueNow(Ended(s, crashed))'
  /\ \A m : m.type = "attached" => TrueNow(m)'
PROOF
  BY DEF TrueNow, Visibility, Ended

LEMMA HearsSpeaks ==
  ASSUME IInv, SaidInv, NEW s \in Sid, DaemonHears(s)
  PROVE  Coming \subseteq Coming' /\ \A m \in Coming' \ Coming : TrueNow(m)'
PROOF
<1>1. HostInv /\ WireInv /\ minted \in 0..MaxSid /\ MaxSid \in Nat
      /\ mRev \in [Sid -> Nat] /\ fromHost \in [Sid -> Seq(HostMsg)]
  BY PanelAssumption DEF IInv, HostInv
<1>2. ASSUME UNCHANGED <<toPage, replies>>
      PROVE  Coming \subseteq Coming' /\ \A m \in Coming' \ Coming : TrueNow(m)'
  BY <1>2 DEF Coming
<1>3. ASSUME NEW m \in PageMsg, Coming' = Coming \cup {m}, TrueNow(m)'
      PROVE  Coming \subseteq Coming' /\ \A n \in Coming' \ Coming : TrueNow(n)'
  BY <1>3
<1>4. s \in 1..minted
  <2>1. fromHost[s] # <<>>
    BY DEF DaemonHears, HearRender, HearCreated, HearRefused, HearFailed, HearEnded, HearLaunch, Hears
  <2> QED
    BY <1>1, <2>1 DEF HostInv, Sid
<1>5. CASE HearRender(s)
  <2>1. CASE s \notin open
    BY <1>2, <1>5, <2>1 DEF HearRender
  <2>2. CASE s \in open /\ asker[s] = "background"
    BY <1>1, <1>2, <1>5, <2>2, NextBatch
  <2>3. CASE s \in open /\ asker[s] # "background"
    <3>0. PICK m : m = [type |-> "render", sid |-> s, rev |-> mRev[s] + 1]
      OBVIOUS
    <3>1. /\ mRev[s] \in Nat /\ mRev'[s] = mRev[s] + 1 /\ UNCHANGED <<minted, asker>>
          /\ toPage' = toPage \o <<m>> /\ UNCHANGED replies
      <4>1. UNCHANGED <<minted, asker>>
        BY <1>5 DEF HearRender, Same
      <4> QED
        BY <1>1, <1>5, <2>3, <3>0, <4>1, NextBatch
    <3>2. m \in PageMsg
      BY <3>0, <3>1, PageMessages
    <3>3. TrueNow(m)'
      BY <1>1, <1>4, <2>3, <3>0, <3>1 DEF TrueNow
    <3>4. Coming' = Coming \cup {m}
      BY <1>1, <3>1, <3>2, OneSpeaks DEF Push
    <3> QED
      BY <1>3, <3>2, <3>3, <3>4
  <2> QED
    BY <2>1, <2>2, <2>3
<1>6. CASE HearCreated(s)
  <2>1. UNCHANGED <<minted, mRev, asker>> /\ mRev[s] \in Nat
    BY <1>1, <1>6 DEF HearCreated, Same
  <2>2. CASE asker[s] = "row" /\ Reply([type |-> "launched", info |-> Info(s, "no")])
    <3>0. PICK m : m = [type |-> "launched", info |-> Info(s, "no")]
      OBVIOUS
    <3>1. m \in PageMsg
      BY <1>1, <3>0, InfoIsGenuine, PageMessages
    <3>2. m.type = "launched" /\ m.info.sid = s /\ m.info.rev = mRev[s]
      BY <3>0 DEF Info
    <3>3. TrueNow(m)'
      BY <1>4, <2>1, <2>2, <3>2 DEF TrueNow
    <3>4. Coming' = Coming \cup {m}
      BY <1>1, <2>2, <3>0, <3>1, ReplySpeaks
    <3> QED
      BY <1>3, <3>1, <3>3, <3>4
  <2>3. ASSUME asker[s] \notin {"row", "background"}, NEW alone \in {"yes", "unsaid"},
               asker[s] \in Target => alone = "yes",
               Push(<<[type |-> "started", info |-> Info(s, alone)], Visibility(TRUE)>>)
        PROVE  Coming \subseteq Coming' /\ \A m \in Coming' \ Coming : TrueNow(m)'
    <3>0. PICK m : m = [type |-> "started", info |-> Info(s, alone)]
      OBVIOUS
    <3>1. m \in PageMsg /\ Visibility(TRUE) \in PageMsg
      BY <1>1, <3>0, InfoIsGenuine, PageMessages
    <3>2. m.type = "started" /\ m.info.sid = s /\ m.info.rev = mRev[s] /\ m.info.standalone = alone
      BY <3>0 DEF Info
    <3>3. TrueNow(m)'
      BY <1>4, <2>1, <2>3, <3>2 DEF TrueNow
    <3>4. <<m, Visibility(TRUE)>> \in Seq(PageMsg) /\ Range(<<m, Visibility(TRUE)>>) = {m, Visibility(TRUE)}
      <4>1. toPage \in Seq(PageMsg)
        BY <1>1 DEF WireInv
      <4>2. <<m, Visibility(TRUE)>> \in Seq(PageMsg)
        BY <3>1, <4>1, Joins
      <4>3. Range(<<m, Visibility(TRUE)>>) = {m, Visibility(TRUE)}
        <5>1. \A a, b \in PageMsg : Range(<<a, b>>) = {a, b}
          BY <4>1, WireHolds
        <5> QED
          BY <3>1, <5>1, Zenon
      <4> QED
        BY <4>2, <4>3
    <3>5. Coming' = Coming \cup {m, Visibility(TRUE)}
      BY <1>1, <2>3, <3>0, <3>4, PushSpeaks
    <3> QED
      BY <3>3, <3>5, PlainMessagesTrue
  <2>4. CASE asker[s] \notin {"row", "background"}
    BY <1>6, <2>3, <2>4 DEF HearCreated
  <2>5. CASE asker[s] = "background"
    BY <1>2, <1>6, <2>5 DEF HearCreated
  <2> QED
    BY <1>6, <2>2, <2>4, <2>5 DEF HearCreated
<1>7. CASE HearRefused(s)
  BY <1>2, <1>7 DEF HearRefused
<1>8. CASE HearFailed(s)
  <2>1. Push(<<Ended(s, TRUE)>>) /\ Ended(s, TRUE) \in PageMsg
    BY <1>8, PageMessages DEF HearFailed
  <2>2. Coming' = Coming \cup {Ended(s, TRUE)}
    BY <1>1, <2>1, OneSpeaks
  <2> QED
    BY <1>3, <2>1, <2>2, PlainMessagesTrue
<1>9. CASE HearEnded(s)
  <2>1. Push(<<Ended(s, FALSE)>>) /\ Ended(s, FALSE) \in PageMsg
    BY <1>9, PageMessages DEF HearEnded
  <2>2. Coming' = Coming \cup {Ended(s, FALSE)}
    BY <1>1, <2>1, OneSpeaks
  <2> QED
    BY <1>3, <2>1, <2>2, PlainMessagesTrue
<1>10. CASE HearLaunch(s)
  BY <1>2, <1>10 DEF HearLaunch, wires
<1> QED
  BY <1>5, <1>6, <1>7, <1>8, <1>9, <1>10 DEF DaemonHears

LEMMA AttachSpeaks ==
  ASSUME IInv, ServeAttach
  PROVE  LET s == Asks.sid
             m == [type |-> "attached", sid |-> s, there |-> s \in open,
                   rev |-> IF s \in open THEN mRev[s] ELSE 0,
                   tree |-> IF s \in open THEN mTree[s] ELSE 0]
         IN  Coming' = Coming \cup {m}
PROOF
<1> DEFINE s == Asks.sid
           there == s \in open
           r == IF there THEN mRev[s] ELSE 0
           t == IF there THEN mTree[s] ELSE 0
<1>1. HostInv /\ WireInv /\ fromPage \in Seq(AskMsg) /\ fromPage # <<>>
      /\ Head(fromPage).type = "attach"
  BY DEF IInv, WireInv, ServeAttach, Asked
<1>2. s \in Nat
  <2>1. Head(fromPage) \in AskMsg
    BY <1>1, Joins
  <2> QED
    BY <1>1, <2>1, AskMessages DEF Asks
<1>3. r \in Nat /\ t = r
  <2>1. open \subseteq Sid
    BY <1>1, PanelAssumption DEF HostInv, Sid
  <2>2. ASSUME s \in open PROVE mRev[s] \in Nat /\ mTree[s] = mRev[s]
    BY <1>1, <2>1, <2>2 DEF HostInv
  <2> QED
    BY <2>2
<1>4. Reply([type |-> "attached", sid |-> s, there |-> there, rev |-> r, tree |-> t])
  BY DEF ServeAttach
<1>5. there \in BOOLEAN
  OBVIOUS
<1>6. [type |-> "attached", sid |-> s, there |-> there, rev |-> r, tree |-> t] \in PageMsg
  <2> HIDE DEF s, there, r, t
  <2> QED
    BY <1>2, <1>3, <1>5, PageMessages
<1>7. Coming' = Coming \cup {[type |-> "attached", sid |-> s, there |-> there, rev |-> r, tree |-> t]}
  <2> HIDE DEF s, there, r, t
  <2> QED
    BY <1>1, <1>4, <1>6, ReplySpeaks
<1> QED
  BY <1>7

LEMMA ServesSpeaks ==
  ASSUME IInv, SaidInv, DaemonServes \/ Keys
  PROVE  Coming \subseteq Coming' /\ \A m \in Coming' \ Coming : TrueNow(m)'
PROOF
<1>1. WireInv
  BY DEF IInv
<1>2. ASSUME Coming' \subseteq Coming \cup {Visibility(FALSE), Visibility(TRUE)}, Coming \subseteq Coming'
      PROVE  Coming \subseteq Coming' /\ \A m \in Coming' \ Coming : TrueNow(m)'
  BY <1>2, PlainMessagesTrue
<1>3. ASSUME Hides \/ UNCHANGED <<toPage, replies>>
      PROVE  Coming' \subseteq Coming \cup {Visibility(FALSE), Visibility(TRUE)} /\ Coming \subseteq Coming'
  BY <1>1, <1>3, HidesSpeaks DEF Coming
<1>4. CASE ServeLaunch \/ ServeHide \/ ServeClose \/ VerbHide \/ \E t \in Target : VerbOpen(t)
  BY <1>2, <1>3, <1>4 DEF ServeLaunch, ServeHide, ServeClose, VerbHide, VerbOpen
<1>5. CASE VerbShow
  <2>1. Push(<<Visibility(TRUE)>>) /\ Visibility(TRUE) \in PageMsg
    BY <1>5, PageMessages DEF VerbShow
  <2>2. Coming' = Coming \cup {Visibility(TRUE)}
    BY <1>1, <2>1, OneSpeaks
  <2> QED
    BY <1>2, <2>2
<1>6. CASE ServeAttach
  BY <1>6, AttachSpeaks, PlainMessagesTrue
<1> QED
  BY <1>4, <1>5, <1>6 DEF DaemonServes, Keys

(* What the page hears had been said.                                       *)
LEMMA PushHeard ==
  ASSUME WireInv, NEW what, Pushed(what)
  PROVE  Head(toPage) \in Coming /\ Coming = Coming' \cup {Head(toPage)}
PROOF
<1>1. Range(toPage) = {Head(toPage)} \cup Range(Tail(toPage))
  BY WireHolds DEF WireInv, Pushed
<1> QED
  BY <1>1 DEF Pushed, Coming

LEMMA AnswerHeard ==
  ASSUME WireInv, NEW what, Answered(what)
  PROVE  News \in Coming /\ Coming = Coming' \cup {News}
PROOF
<1>1. CASE ordered
  BY <1>1, PushHeard DEF Answered, News
<1>2. CASE ~ordered
  <2>1. Range(replies) = {Head(replies)} \cup Range(Tail(replies))
    BY <1>2, WireHolds DEF WireInv, Answered
  <2> QED
    BY <1>2, <2>1 DEF Answered, Coming, News
<1> QED
  BY <1>1, <1>2

LEMMA PageHearsSaid ==
  ASSUME WireInv, PageHears
  PROVE  Coming' \subseteq Coming
PROOF
<1>1. ASSUME OnVisibility \/ OnStarted \/ OnRender \/ OnEnded PROVE Coming' \subseteq Coming
  BY <1>1, PushHeard DEF OnVisibility, OnStarted, OnRender, OnEnded
<1>2. ASSUME OnLaunched \/ OnAttached PROVE Coming' \subseteq Coming
  BY <1>2, AnswerHeard DEF OnLaunched, OnAttached
<1> QED
  BY <1>1, <1>2 DEF PageHears

(* What the page shows is what it was told of, or nothing.                  *)
LEMMA PageShowsSaid ==
  ASSUME IInv, SaidInv, KeyInv, UNCHANGED daemonVars, PageHears \/ PageUser
  PROVE  /\ active' \in 0..minted' /\ seen' \in Nat
         /\ active' # None => seen' <= mRev'[active'] /\ asker'[active'] # "background"
         /\ KeyInv'
PROOF
<1> DEFINE Goal == /\ active' \in 0..minted' /\ seen' \in Nat
                   /\ active' # None => seen' <= mRev'[active'] /\ asker'[active'] # "background"
                   /\ KeyInv'
<1>1. /\ WireInv /\ UNCHANGED <<minted, mRev, asker>> /\ minted \in Nat
      /\ active \in 0..minted /\ seen \in Nat
      /\ active # None => seen <= mRev[active] /\ asker[active] # "background"
      /\ \A m \in Coming : m \in PageMsg /\ TrueNow(m)
  <2>1. Coming \subseteq PageMsg
    BY WireHolds DEF IInv, WireInv, Coming
  <2> QED
    BY <2>1, PanelAssumption DEF IInv, HostInv, SaidInv, daemonVars
<1>2. ASSUME UNCHANGED <<active, standalone, seen>> PROVE Goal
  BY <1>1, <1>2 DEF KeyInv
<1>3. ASSUME active' = None, UNCHANGED seen PROVE Goal
  BY <1>1, <1>3 DEF KeyInv, None
<1>4. ASSUME NEW m \in Coming, m.type \in {"started", "launched"}, Begin(m.info),
             /\ m.type = "started" => (m.info.standalone = "yes" => standalone')
             /\ m.type = "launched" => ~standalone'
      PROVE  Goal
  <2>1. /\ m.info.sid \in 1..minted /\ m.info.rev \in Nat /\ m.info.rev <= mRev[m.info.sid]
        /\ asker[m.info.sid] # "background"
        /\ m.type = "launched" <=> asker[m.info.sid] = "row"
        /\ m.type = "started" /\ asker[m.info.sid] \in Target => m.info.standalone = "yes"
    BY <1>1, <1>4, PageMessagesHold DEF TrueNow, Genuine
  <2>2. active' = m.info.sid /\ seen' = m.info.rev
    BY <1>4 DEF Begin
  <2>3. "launched" # "started"
    OBVIOUS
  <2>4. asker[m.info.sid] = "row" => asker[m.info.sid] \notin Target
    BY TargetAssumption
  <2>5. KeyInv'
    BY <1>1, <1>4, <2>1, <2>2, <2>3, <2>4 DEF KeyInv
  <2> QED
    BY <1>1, <2>1, <2>2, <2>5
<1>5. CASE OnVisibility
  BY <1>2, <1>3, <1>5 DEF OnVisibility, EndWith, pageVars
<1>6. CASE OnStarted
  <2>1. Head(toPage) \in Coming /\ Head(toPage).type = "started"
    BY <1>1, <1>6, PushHeard DEF OnStarted, Pushed
  <2> QED
    BY <1>4, <1>6, <2>1 DEF OnStarted
<1>7. CASE OnLaunched
  <2>1. News \in Coming /\ News.type = "launched"
    BY <1>1, <1>7, AnswerHeard, AnswerTaken DEF OnLaunched
  <2> QED
    BY <1>4, <1>7, <2>1 DEF OnLaunched
<1>8. CASE OnRender
  <2> DEFINE m == Head(toPage)
  <2>1. m \in Coming /\ m.type = "render" /\ UNCHANGED <<active, standalone>>
    BY <1>1, <1>8, PushHeard DEF OnRender, Pushed
  <2>2. seen' = seen \/ (m.sid = active /\ seen' = m.rev)
    BY <1>8 DEF OnRender
  <2>3. m.rev \in Nat /\ m.sid \in 1..minted /\ m.rev <= mRev[m.sid]
    BY <1>1, <2>1, PageMessagesHold DEF TrueNow
  <2> HIDE DEF m
  <2> QED
    BY <1>1, <1>2, <2>1, <2>2, <2>3 DEF KeyInv
<1>9. CASE OnAttached
  BY <1>2, <1>9 DEF OnAttached
<1>10. CASE OnEnded
  BY <1>2, <1>3, <1>10 DEF OnEnded
<1>11. CASE PageUser
  BY <1>2, <1>3, <1>11 DEF PageUser, ActivateRow, EscapeAtRoot, Exit, EndWith, pageVars
<1> QED
  BY <1>5, <1>6, <1>7, <1>8, <1>9, <1>10, <1>11 DEF PageHears

LEMMA SaidInit == Init => SaidInv /\ KeyInv
PROOF
<1> SUFFICES ASSUME Init PROVE SaidInv /\ KeyInv
  OBVIOUS
<1>1. toPage = <<>> /\ replies = <<>> /\ active = None /\ seen = 0 /\ minted = 0
      /\ asker = [s \in Sid |-> "none"]
  BY DEF Init, WiresInit, DaemonInit, PageInit
<1>2. Coming = {}
  BY <1>1 DEF Coming, Range
<1> QED
  BY <1>1, <1>2 DEF SaidInv, KeyInv, None

LEMMA SaidNext == IInv /\ IInv' /\ SaidInv /\ KeyInv /\ [Next]_vars => SaidInv' /\ KeyInv'
PROOF
<1> SUFFICES ASSUME IInv, IInv', SaidInv, KeyInv, [Next]_vars PROVE SaidInv' /\ KeyInv'
  OBVIOUS
<1>1. Grows
  BY StepGrows
<1>2. Coming \subseteq PageMsg
  BY WireHolds DEF IInv, WireInv, Coming
<1>3. \A m \in Coming : TrueNow(m)'
  BY <1>1, <1>2, TruthLasts DEF IInv, SaidInv
<1>4. ASSUME UNCHANGED pageVars, \A m \in Coming' \ Coming : TrueNow(m)'
      PROVE  SaidInv' /\ KeyInv'
  <2>1. \A m \in Coming' : TrueNow(m)'
    BY <1>3, <1>4
  <2>2. active' = active /\ seen' = seen /\ standalone' = standalone
    BY <1>4 DEF pageVars
  <2>3. minted \in Nat /\ minted' \in Nat /\ minted <= minted' /\ mRev \in [Sid -> Nat] /\ mRev' \in [Sid -> Nat]
        /\ 1..minted \subseteq Sid
    <3>1. minted \in 0..MaxSid /\ minted' \in minted..MaxSid /\ MaxSid \in Nat
      BY <1>1, PanelAssumption DEF IInv, HostInv, Grows
    <3>2. mRev \in [Sid -> Nat] /\ mRev' \in [Sid -> Nat]
      BY DEF IInv, HostInv
    <3> QED
      BY <3>1, <3>2 DEF Sid
  <2>4. /\ active \in 0..minted /\ seen \in Nat
        /\ active # None => seen <= mRev[active] /\ asker[active] # "background"
    BY DEF SaidInv
  <2>5. active # None => active \in 1..minted /\ mRev[active] \in Nat /\ mRev'[active] \in Nat
                         /\ mRev[active] <= mRev'[active] /\ asker'[active] = asker[active]
    BY <1>1, <2>3, <2>4 DEF Grows, None
  <2>6. /\ active' \in 0..minted' /\ seen' \in Nat
        /\ active' # None => seen' <= mRev'[active'] /\ asker'[active'] # "background"
    BY <2>2, <2>3, <2>4, <2>5
  <2>7. KeyInv'
    BY <2>2, <2>5 DEF KeyInv
  <2> QED
    BY <1>1, <2>1, <2>6, <2>7 DEF SaidInv, Grows
<1>5. ASSUME UNCHANGED daemonVars, PageHears \/ PageUser PROVE SaidInv' /\ KeyInv'
  <2>1. Coming' \subseteq Coming
    BY <1>5, PageHearsSaid DEF IInv, PageUser, ActivateRow, EscapeAtRoot, Exit, Coming
  <2> QED
    BY <1>1, <1>3, <1>5, <2>1, PageShowsSaid DEF SaidInv, Grows
<1>6. UNCHANGED <<toPage, replies>> => Coming' \subseteq Coming
  BY DEF Coming
<1>7. CASE \E s \in Sid : Extension(s) /\ UNCHANGED <<wires, pageVars, acts>>
  BY <1>4, <1>6, <1>7 DEF wires
<1>8. CASE \E s \in Sid : DaemonHears(s) /\ UNCHANGED <<pageVars, acts>>
  BY <1>4, <1>8, HearsSpeaks
<1>9. CASE (DaemonServes \/ Keys) /\ UNCHANGED pageVars
  BY <1>4, <1>9, ServesSpeaks
<1>10. CASE (PageHears \/ PageUser) /\ UNCHANGED daemonVars
  BY <1>5, <1>10
<1>11. CASE UNCHANGED vars
  BY <1>4, <1>6, <1>11 DEF vars, wires
<1> QED
  BY <1>7, <1>8, <1>9, <1>10, <1>11 DEF Next

----------------------------------------------------------------------------
(* A batch that went missing is being fetched: the invoke is on its way, or  *)
(* its answer is, or another round will follow.                             *)
Fetches(s) == Attach(s) \in Range(fromPage)
Fetched(s) == \E m \in Coming : m.type = "attached" /\ m.sid = s
Brought(s) == \E m \in Coming : m.type = "attached" /\ m.sid = s /\ m.there /\ m.rev >= seen

FetchInv ==
  \A s \in Sid :
    /\ resyncing = s => Fetches(s) \/ Fetched(s)
    /\ active = s /\ s \in open /\ rev < seen =>
         Fetches(s) \/ Brought(s) \/ (again /\ resyncing = s)

LEMMA InvokeAsks ==
  ASSUME WireInv, NEW msgs \in Seq(AskMsg), Invoke(msgs)
  PROVE  Range(fromPage') = Range(fromPage) \cup Range(msgs)
PROOF
<1>1. Range(fromPage \o msgs) = Range(fromPage) \cup Range(msgs)
  BY WireHolds DEF WireInv
<1> QED
  BY <1>1 DEF Invoke

LEMMA EndStillAsks ==
  ASSUME WireInv, PageInv, NEW then \in {<<>>, <<[type |-> "hide"]>>}, EndWith(then)
  PROVE  Range(fromPage) \subseteq Range(fromPage')
PROOF
<1> DEFINE first == IF active = None THEN <<>> ELSE <<[type |-> "close", sid |-> active]>>
<1>1. first \in Seq(AskMsg) /\ then \in Seq(AskMsg)
  <2>1. active \in Nat
    BY PanelAssumption DEF PageInv, Sid, None
  <2>2. [type |-> "close", sid |-> active] \in AskMsg /\ [type |-> "hide"] \in AskMsg
    BY <2>1, AskMessages
  <2> HIDE DEF first
  <2>3. first = <<>> \/ first = <<[type |-> "close", sid |-> active]>>
    BY DEF first
  <2>4. <<>> \in Seq(AskMsg) /\ \A a \in AskMsg : <<a>> \in Seq(AskMsg)
    OBVIOUS
  <2> QED
    BY <2>2, <2>3, <2>4
<1>2. Invoke(first \o then)
  BY DEF EndWith
<1> HIDE DEF first
<1>3. first \o then \in Seq(AskMsg)
  BY <1>1
<1> QED
  BY <1>2, <1>3, InvokeAsks

(* No step launches anew what had ended.                                    *)
LEMMA OpenOnce ==
  ASSUME IInv, [Next]_vars, NEW s \in 1..minted, s \in open'
  PROVE  s \in open
PROOF
<1>1. minted \in Nat
  BY PanelAssumption DEF IInv, HostInv
<1>2. (\E who : NewSession(who)) => s \in open
  BY <1>1 DEF NewSession, Fresh
<1>3. Hides => s \in open
  BY DEF Hides
<1>4. UNCHANGED daemonVars \/ UNCHANGED open => s \in open
  BY DEF daemonVars
<1>5. ASSUME NEW t \in Sid, Extension(t) PROVE s \in open
  BY <1>5 DEF Extension, Renders, Starts, Ends, LaunchesAnother, Says
<1>6. ASSUME NEW t \in Sid, DaemonHears(t) PROVE s \in open
  BY <1>2, <1>6 DEF DaemonHears, HearRender, HearCreated, HearRefused, HearFailed, HearEnded, HearLaunch
<1>7. ASSUME DaemonServes PROVE s \in open
  BY <1>2, <1>3, <1>7 DEF DaemonServes, ServeLaunch, ServeHide, ServeClose, ServeAttach
<1>8. ASSUME Keys PROVE s \in open
  BY <1>2, <1>3, <1>8 DEF Keys, VerbShow, VerbHide, VerbOpen
<1> QED
  BY <1>4, <1>5, <1>6, <1>7, <1>8 DEF Next, vars

(* The daemon: what is asked for is answered, with all that was rendered.    *)
LEMMA DaemonFetches ==
  ASSUME IInv, SaidInv, FetchInv, [Next]_vars, UNCHANGED pageVars, Coming \subseteq Coming',
         \/ UNCHANGED fromPage
         \/ DaemonServes
  PROVE  FetchInv'
PROOF
<1>1. /\ minted \in Nat /\ open \subseteq 1..minted /\ minted <= MaxSid
      /\ active \in 0..minted /\ active' = active /\ seen' = seen /\ rev' = rev
      /\ again' = again /\ resyncing' = resyncing
      /\ fromPage \in Seq(AskMsg) /\ seen \in Nat /\ rev \in Nat
  BY PanelAssumption DEF IInv, HostInv, SaidInv, WireInv, PageInv, pageVars
<1>2. \A s \in Sid : active = s /\ s \in open' => s \in open
  <2>1. \A s \in Sid : active = s => s \in 1..minted
    BY <1>1 DEF Sid
  <2> QED
    BY <2>1, OpenOnce
<1>3. \A s \in Sid : Fetched(s) => Fetched(s)'
  BY DEF Fetched
<1>4. \A s \in Sid : Brought(s) => Brought(s)'
  BY <1>1 DEF Brought
<1>5. CASE UNCHANGED fromPage
  <2>1. \A s \in Sid : Fetches(s) => Fetches(s)'
    BY <1>5 DEF Fetches
  <2> QED
    BY <1>1, <1>2, <1>3, <1>4, <2>1 DEF FetchInv
<1>6. CASE DaemonServes
  <2>1. fromPage # <<>> /\ fromPage' = Tail(fromPage)
    BY <1>6 DEF DaemonServes, ServeLaunch, ServeHide, ServeClose, ServeAttach, Asked
  <2>2. Range(fromPage) = {Head(fromPage)} \cup Range(fromPage')
    BY <1>1, <2>1, WireHolds
  <2>3. CASE ServeAttach
    <3>1. PICK s, m : /\ s = Asks.sid
                      /\ m = [type |-> "attached", sid |-> s, there |-> s \in open,
                              rev |-> IF s \in open THEN mRev[s] ELSE 0,
                              tree |-> IF s \in open THEN mTree[s] ELSE 0]
      OBVIOUS
    <3>2. Coming' = Coming \cup {m}
      BY <2>3, <3>1, AttachSpeaks
    <3>3. \A u \in Sid : Attach(u) = Head(fromPage) => u = s
      BY <3>1 DEF Attach, Asks
    <3>4. m.type = "attached" /\ m.sid = s /\ (s \in open => m.there /\ m.rev = mRev[s])
      BY <3>1
    <3>5. Fetched(s)'
      BY <3>2, <3>4 DEF Fetched
    <3>6. s = active /\ s \in open => Brought(s)'
      <4>1. ASSUME s = active, s \in open PROVE m.rev >= seen'
        <5>1. s \in Sid /\ active # None
          BY <1>1, <4>1, PanelAssumption DEF None, Sid
        <5>2. mRev[s] \in Nat
          BY <5>1 DEF IInv, HostInv
        <5>3. seen <= mRev[s]
          BY <4>1, <5>1 DEF SaidInv
        <5> QED
          BY <1>1, <3>4, <4>1, <5>2, <5>3
      <4> QED
        BY <3>2, <3>4, <4>1 DEF Brought
    <3>7. \A u \in Sid : Fetches(u) => Fetches(u)' \/ u = s
      BY <2>2, <3>3 DEF Fetches
    <3> QED
      BY <1>1, <1>2, <1>3, <1>4, <3>5, <3>6, <3>7 DEF FetchInv
  <2>4. CASE ~ServeAttach
    <3>1. Head(fromPage).type # "attach"
      BY <1>6, <2>4 DEF DaemonServes, ServeLaunch, ServeHide, ServeClose, Asked
    <3>2. \A s \in Sid : Fetches(s) => Fetches(s)'
      <4>1. \A s \in Sid : Attach(s).type = "attach"
        BY DEF Attach
      <4> QED
        BY <2>2, <3>1, <4>1 DEF Fetches
    <3> QED
      BY <1>1, <1>2, <1>3, <1>4, <3>2 DEF FetchInv
  <2> QED
    BY <2>3, <2>4
<1> QED
  BY <1>5, <1>6

(* A tree that was fetched: it brings the batches missed, or is asked for    *)
(* again.                                                                   *)
LEMMA AttachedFetches ==
  ASSUME IInv, IInv', SaidInv, FetchInv, UNCHANGED daemonVars, OnAttached
  PROVE  FetchInv'
PROOF
<1> DEFINE m == News
           taken == m.there /\ m.sid = active /\ m.rev > rev
           more == again /\ resyncing = m.sid /\ active = m.sid
<1>1. /\ WireInv /\ PageInv /\ open' = open /\ active' = active /\ seen' = seen
      /\ seen \in Nat /\ rev \in Nat /\ rev' \in Nat
  BY DEF IInv, SaidInv, PageInv, daemonVars, OnAttached
<1>2. m \in PageMsg /\ m.type = "attached" /\ m.sid \in Nat /\ m.rev \in Nat
      /\ Coming = Coming' \cup {m}
  <2>1. m \in PageMsg /\ m.type = "attached"
    BY <1>1, AnswerTaken DEF OnAttached
  <2>2. Coming = Coming' \cup {m}
    BY <1>1, AnswerHeard DEF OnAttached
  <2> QED
    BY <2>1, <2>2, PageMessagesHold
<1>3. /\ rev' = IF taken THEN m.rev ELSE rev
      /\ IF resyncing # m.sid THEN UNCHANGED <<resyncing, again>>
         ELSE resyncing' = (IF more THEN m.sid ELSE None) /\ again' = FALSE
      /\ Invoke(IF more THEN <<Attach(m.sid)>> ELSE <<>>)
  BY DEF OnAttached
<1> HIDE DEF m
<1>4. Range(fromPage) \subseteq Range(fromPage') /\ (more => Attach(m.sid) \in Range(fromPage'))
  <2>1. Attach(m.sid) \in AskMsg
    BY <1>2, AskMessages
  <2>2. <<Attach(m.sid)>> \in Seq(AskMsg) /\ <<>> \in Seq(AskMsg)
    BY <2>1
  <2>3. Range(<<Attach(m.sid)>>) = {Attach(m.sid)}
    BY <1>1, <2>1, WireHolds DEF WireInv
  <2>4. CASE more
    BY <1>1, <1>3, <2>2, <2>3, <2>4, InvokeAsks
  <2>5. CASE ~more
    BY <1>1, <1>3, <2>2, <2>5, InvokeAsks
  <2> QED
    BY <2>4, <2>5
<1>5. \A s \in Sid : /\ Fetches(s) => Fetches(s)'
                     /\ more /\ s = m.sid => Fetches(s)'
                     /\ s # m.sid /\ Fetched(s) => Fetched(s)'
  BY <1>2, <1>4 DEF Fetches, Fetched
<1>6. \A s \in Sid : active = s /\ Brought(s) /\ ~Brought(s)' => taken \/ rev >= seen
  <2> SUFFICES ASSUME NEW s \in Sid, active = s, Brought(s), ~Brought(s)', ~(rev >= seen)
               PROVE  taken
    OBVIOUS
  <2>1. m.sid = s /\ m.there /\ m.rev >= seen
    BY <1>1, <1>2 DEF Brought
  <2>2. m.rev > rev
    BY <1>1, <1>2, <2>1
  <2> QED
    BY <2>1, <2>2
<1>7. \A s \in Sid : active = s /\ Brought(s) /\ ~Brought(s)' => ~(rev' < seen')
  <2> SUFFICES ASSUME NEW s \in Sid, active = s, Brought(s), ~Brought(s)' PROVE ~(rev' < seen')
    OBVIOUS
  <2>1. m.sid = s /\ m.there /\ m.rev >= seen
    BY <1>1, <1>2 DEF Brought
  <2>2. CASE taken
    BY <1>1, <1>2, <1>3, <2>1, <2>2
  <2>3. CASE ~taken
    BY <1>1, <1>3, <1>6, <2>3
  <2> QED
    BY <2>2, <2>3
<1>8. rev' < seen' => rev < seen
  <2>1. CASE taken
    BY <1>1, <1>2, <1>3, <2>1
  <2>2. CASE ~taken
    BY <1>1, <1>3, <2>2
  <2> QED
    BY <2>1, <2>2
<1>9. ASSUME NEW s \in Sid, resyncing' = s PROVE Fetches(s)' \/ Fetched(s)'
  <2>1. None \notin Sid
    BY PanelAssumption DEF None, Sid
  <2>2. CASE resyncing # m.sid
    BY <1>3, <1>5, <1>9, <2>2 DEF FetchInv
  <2>3. CASE resyncing = m.sid
    BY <1>3, <1>5, <1>9, <2>1, <2>3
  <2> QED
    BY <2>2, <2>3
<1>10. ASSUME NEW s \in Sid, active' = s, s \in open', rev' < seen'
       PROVE  Fetches(s)' \/ Brought(s)' \/ (again' /\ resyncing' = s)
  <2>1. Fetches(s) \/ Brought(s) \/ (again /\ resyncing = s)
    BY <1>1, <1>8, <1>10 DEF FetchInv
  <2>2. CASE Fetches(s)
    BY <1>5, <2>2
  <2>3. CASE Brought(s)
    BY <1>1, <1>7, <1>10, <2>3
  <2>4. CASE again /\ resyncing = s
    <3>1. CASE resyncing # m.sid
      BY <1>3, <2>4, <3>1
    <3>2. CASE resyncing = m.sid
      BY <1>1, <1>5, <1>10, <2>4, <3>2
    <3> QED
      BY <3>1, <3>2
  <2> QED
    BY <2>1, <2>2, <2>3, <2>4
<1> QED
  BY <1>9, <1>10 DEF FetchInv

(* The page: a message that is no answer to a fetch leaves what is on its    *)
(* way alone.                                                               *)
LEMMA PageFetches ==
  ASSUME IInv, IInv', SaidInv, FetchInv, UNCHANGED daemonVars, PageHears \/ PageUser
  PROVE  FetchInv'
PROOF
<1>1. /\ WireInv /\ PageInv /\ open' = open /\ 0 \notin open
      /\ seen \in Nat /\ rev \in Nat /\ rev' \in Nat /\ None \notin Sid
      /\ \A m \in Coming : m \in PageMsg
  <2>1. Coming \subseteq PageMsg
    BY WireHolds DEF IInv, WireInv, Coming
  <2> QED
    BY <2>1, PanelAssumption DEF IInv, HostInv, SaidInv, PageInv, daemonVars, None, Sid
<1>2. ASSUME \A m \in Coming : m.type = "attached" => m \in Coming',
             Range(fromPage) \subseteq Range(fromPage'), UNCHANGED <<resyncing, again>>,
             \/ UNCHANGED <<active, rev, seen>>
             \/ active' = None
             \/ rev' = seen'
      PROVE  FetchInv'
  <2>1. \A s \in Sid : Fetches(s) => Fetches(s)'
    BY <1>2 DEF Fetches
  <2>2. \A s \in Sid : Fetched(s) => Fetched(s)'
    BY <1>2 DEF Fetched
  <2>3. CASE UNCHANGED <<active, rev, seen>>
    <3>1. \A s \in Sid : Brought(s) => Brought(s)'
      BY <1>2, <2>3 DEF Brought
    <3> QED
      BY <1>1, <1>2, <2>1, <2>2, <2>3, <3>1 DEF FetchInv
  <2>4. CASE active' = None
    BY <1>1, <1>2, <2>1, <2>2, <2>4 DEF FetchInv
  <2>5. CASE rev' = seen'
    BY <1>1, <1>2, <2>1, <2>2, <2>5 DEF FetchInv
  <2> QED
    BY <1>2, <2>3, <2>4, <2>5
<1>3. ASSUME NEW what, what # "attached", Pushed(what)
      PROVE  \A m \in Coming : m.type = "attached" => m \in Coming'
  BY <1>1, <1>3, PushHeard DEF Pushed
<1>4. Range(fromPage) \subseteq Range(fromPage)
  OBVIOUS
<1>5. CASE OnVisibility
  <2>1. CASE UNCHANGED <<pageVars, fromPage>>
    BY <1>2, <1>3, <1>5, <2>1 DEF OnVisibility, pageVars
  <2>2. CASE EndWith(<<>>)
    <3>1. Range(fromPage) \subseteq Range(fromPage')
      BY <1>1, <2>2, EndStillAsks
    <3> QED
      BY <1>2, <1>3, <1>5, <2>2, <3>1 DEF OnVisibility, EndWith
  <2> QED
    BY <1>5, <2>1, <2>2 DEF OnVisibility
<1>6. CASE OnStarted
  BY <1>2, <1>3, <1>6 DEF OnStarted, Begin
<1>7. CASE OnLaunched
  <2>1. \A m \in Coming : m.type = "attached" => m \in Coming'
    BY <1>1, <1>7, AnswerHeard, AnswerTaken DEF OnLaunched
  <2> QED
    BY <1>2, <1>7, <2>1 DEF OnLaunched, Begin
<1>8. CASE OnEnded
  BY <1>2, <1>3, <1>8 DEF OnEnded
<1>9. CASE PageUser
  <2>1. Coming' = Coming
    BY <1>9 DEF PageUser, ActivateRow, EscapeAtRoot, Exit, Coming
  <2>2. CASE ActivateRow \/ EscapeAtRoot
    <3>1. Range(fromPage) \subseteq Range(fromPage')
      <4>1. ASSUME NEW m \in AskMsg, Invoke(<<m>>) PROVE Range(fromPage) \subseteq Range(fromPage')
        <5>1. <<m>> \in Seq(AskMsg)
          OBVIOUS
        <5> QED
          BY <1>1, <4>1, <5>1, InvokeAsks
      <4> QED
        BY <2>2, <4>1, AskMessages DEF ActivateRow, EscapeAtRoot
    <3> QED
      BY <1>2, <2>1, <2>2, <3>1 DEF ActivateRow, EscapeAtRoot, pageVars
  <2>3. CASE Exit
    <3>1. Range(fromPage) \subseteq Range(fromPage')
      BY <1>1, <2>3, EndStillAsks DEF Exit
    <3> QED
      BY <1>2, <2>1, <2>3, <3>1 DEF Exit, EndWith
  <2> QED
    BY <1>9, <2>2, <2>3 DEF PageUser
<1>10. CASE OnRender
  <2> DEFINE m == Head(toPage)
  <2>1. m \in Coming /\ m \in PageMsg /\ m.type = "render" /\ m.sid \in Sid /\ m.rev \in Nat
        /\ active' = active
    <3>1. m \in Coming /\ m.type = "render"
      BY <1>1, <1>10, PushHeard DEF OnRender, Pushed
    <3> QED
      BY <1>1, <1>10, <3>1, PageMessagesHold DEF OnRender
  <2>2. \A n \in Coming : n.type = "attached" => n \in Coming'
    BY <1>3, <1>10 DEF OnRender
  <2>3. CASE UNCHANGED <<rev, tree, seen, resyncing, again, fromPage>>
    BY <1>2, <2>1, <2>2, <2>3
  <2>4. CASE rev' = m.rev /\ seen' = m.rev /\ UNCHANGED <<resyncing, again, fromPage>>
    BY <1>2, <2>1, <2>2, <2>4
  <2>5. CASE Resync(m.sid) /\ m.sid = active /\ UNCHANGED rev
    <3> HIDE DEF m
    <3>1. Attach(m.sid) \in AskMsg /\ <<Attach(m.sid)>> \in Seq(AskMsg)
      <4>1. m.sid \in Nat
        BY <2>1, PanelAssumption DEF Sid
      <4>2. Attach(m.sid) \in AskMsg
        BY <4>1, AskMessages
      <4> QED
        BY <4>2
    <3>2. \A s \in Sid : Fetched(s) => Fetched(s)'
      BY <2>2 DEF Fetched
    <3>3. CASE resyncing = m.sid
      <4>1. again' /\ UNCHANGED <<resyncing, fromPage>>
        BY <2>5, <3>3 DEF Resync
      <4>2. \A s \in Sid : Fetches(s) => Fetches(s)'
        BY <4>1 DEF Fetches
      <4> QED
        BY <2>1, <2>5, <3>2, <3>3, <4>1, <4>2 DEF FetchInv
    <3>4. CASE resyncing # m.sid
      <4>1. resyncing' = m.sid /\ Invoke(<<Attach(m.sid)>>)
        BY <2>5, <3>4 DEF Resync
      <4>2. Range(fromPage') = Range(fromPage) \cup {Attach(m.sid)}
        <5>1. Range(<<Attach(m.sid)>>) = {Attach(m.sid)}
          BY <1>1, <3>1, WireHolds DEF WireInv
        <5> QED
          BY <1>1, <3>1, <4>1, <5>1, InvokeAsks
      <4>3. \A s \in Sid : s = m.sid => Fetches(s)'
        BY <4>2 DEF Fetches
      <4> QED
        BY <2>1, <2>5, <4>1, <4>3 DEF FetchInv
    <3> QED
      BY <3>3, <3>4
  <2> QED
    BY <1>10, <2>3, <2>4, <2>5 DEF OnRender
<1>11. CASE OnAttached
  BY <1>11, AttachedFetches
<1> QED
  BY <1>5, <1>6, <1>7, <1>8, <1>9, <1>10, <1>11 DEF PageHears

LEMMA FetchInit == Init => FetchInv
PROOF
<1> SUFFICES ASSUME Init PROVE FetchInv
  OBVIOUS
<1>1. resyncing = None /\ active = None
  BY DEF Init, PageInit
<1>2. None \notin Sid
  BY PanelAssumption DEF None, Sid
<1> QED
  BY <1>1, <1>2 DEF FetchInv

LEMMA FetchNext == IInv /\ IInv' /\ SaidInv /\ FetchInv /\ [Next]_vars => FetchInv'
PROOF
<1> SUFFICES ASSUME IInv, IInv', SaidInv, FetchInv, [Next]_vars PROVE FetchInv'
  OBVIOUS
<1>1. UNCHANGED <<toPage, replies>> => Coming \subseteq Coming'
  BY DEF Coming
<1>2. CASE \E s \in Sid : Extension(s) /\ UNCHANGED <<wires, pageVars, acts>>
  BY <1>1, <1>2, DaemonFetches DEF wires
<1>3. CASE \E s \in Sid : DaemonHears(s) /\ UNCHANGED <<pageVars, acts>>
  <2>1. UNCHANGED fromPage
    BY <1>3 DEF DaemonHears, HearRender, HearCreated, HearRefused, HearFailed, HearEnded,
                HearLaunch, Same, wires
  <2> QED
    BY <1>3, <2>1, HearsSpeaks, DaemonFetches
<1>4. CASE DaemonServes /\ UNCHANGED <<pageVars, acts>>
  BY <1>4, ServesSpeaks, DaemonFetches
<1>5. CASE Keys /\ UNCHANGED pageVars
  <2>1. UNCHANGED fromPage
    BY <1>5 DEF Keys, VerbShow, VerbHide, VerbOpen, Rest
  <2> QED
    BY <1>5, <2>1, ServesSpeaks, DaemonFetches
<1>6. CASE (PageHears \/ PageUser) /\ UNCHANGED daemonVars
  BY <1>6, PageFetches
<1>7. CASE UNCHANGED vars
  BY <1>1, <1>7, DaemonFetches DEF vars, wires
<1> QED
  BY <1>2, <1>3, <1>4, <1>5, <1>6, <1>7 DEF Next

(* With nothing on its way nothing is being fetched.                        *)
LEMMA QuietIsDrawn ==
  ASSUME IInv, SaidInv, FetchInv
  PROVE  SeenIsDrawn
PROOF
<1> SUFFICES ASSUME Quiet, NEW s \in open, active = s PROVE rev >= seen
  BY DEF SeenIsDrawn, Showing
<1>1. Coming = {} /\ Range(fromPage) = {}
  BY DEF Quiet, Coming, Range
<1>2. s \in Sid
  BY PanelAssumption DEF IInv, HostInv, Sid
<1>3. ~(rev < seen)
  <2>1. None \notin Sid
    BY PanelAssumption DEF None, Sid
  <2>2. ~Fetches(s) /\ ~Fetched(s) /\ ~Brought(s)
    BY <1>1 DEF Fetches, Fetched, Brought
  <2> QED
    BY <1>2, <2>1, <2>2 DEF FetchInv
<1>4. rev \in Nat /\ seen \in Nat
  BY DEF IInv, PageInv, SaidInv
<1> QED
  BY <1>3, <1>4
----------------------------------------------------------------------------
(* A launch that is to be answered, or was refused.                         *)
Answers == {"created", "refused"}
AnswerDue(s) == \E m \in Range(fromHost[s]) : m.kind \in Answers
Ahead(s) == worker[s] = "starting" \/ AnswerDue(s)

LEMMA UnansweredIs ==
  ASSUME NEW s \in Sid
  PROVE  s \in Unanswered <=>
           worker[s] = "starting" \/ \E m \in Range(fromHost[s]) : m.kind = "created"
PROOF
  BY DEF Unanswered, Range

(* What an extension says stands behind what it said, and a launch is        *)
(* answered once.                                                           *)
LEMMA ExtensionSays ==
  ASSUME HostInv, NEW s \in Sid, Extension(s)
  PROVE  /\ UNCHANGED <<visible, panelTarget, minted, asker, open, mTree, mRev, mFailed, astray>>
         /\ fromHost' \in [Sid -> Seq(HostMsg)]
         /\ \A t \in Sid : t # s => worker'[t] = worker[t] /\ fromHost'[t] = fromHost[t]
         /\ \E m \in HostMsg :
              \/ /\ fromHost'[s] = Append(fromHost[s], m) /\ m.kind \notin Answers
                 /\ worker'[s] = "starting" <=> worker[s] = "starting"
              \/ /\ m.kind \in Answers /\ worker[s] = "starting" /\ worker'[s] # "starting"
                 /\ \/ fromHost'[s] = Append(fromHost[s], m)
                    \/ \E n \in HostMsg : /\ n.kind \notin Answers
                                          /\ fromHost'[s] = Append(Append(fromHost[s], n), m)
PROOF
<1>1. HostInv'
  BY ExtensionKeeps
<1>2. /\ fromHost \in [Sid -> Seq(HostMsg)] /\ fromHost' \in [Sid -> Seq(HostMsg)]
      /\ rendered' \in [Sid -> Nat] /\ rendered'[s] \in Nat
      /\ worker \in [Sid -> {"none", "starting", "on", "over"}]
  BY <1>1 DEF HostInv
<1>3. UNCHANGED <<visible, panelTarget, minted, asker, open, mTree, mRev, mFailed, astray>>
  BY DEF Extension, Renders, Starts, Ends, LaunchesAnother, Says
<1>4. \A t \in Sid : t # s => worker'[t] = worker[t] /\ fromHost'[t] = fromHost[t]
  BY <1>2 DEF Extension, Renders, Starts, Ends, LaunchesAnother, Says, Becomes, extension
<1>5. ASSUME NEW k \in Kinds, Says(s, <<k>>)
      PROVE  \E m \in HostMsg : m.kind = k /\ fromHost'[s] = Append(fromHost[s], m)
  <2>1. /\ [kind |-> k, batch |-> rendered'[s]] \in HostMsg
        /\ fromHost' = [fromHost EXCEPT ![s] = Append(@, [kind |-> k, batch |-> rendered'[s]])]
    BY <1>2, <1>5, SaysOne
  <2>2. fromHost'[s] = Append(fromHost[s], [kind |-> k, batch |-> rendered'[s]])
    BY <1>2, <2>1
  <2> QED
    BY <2>1, <2>2
<1>6. ASSUME NEW j \in Kinds, NEW k \in Kinds, Says(s, <<j, k>>)
      PROVE  \E n, m \in HostMsg : /\ n.kind = j /\ m.kind = k
                                   /\ fromHost'[s] = Append(Append(fromHost[s], n), m)
  <2>1. /\ [kind |-> j, batch |-> rendered'[s]] \in HostMsg
        /\ [kind |-> k, batch |-> rendered'[s]] \in HostMsg
        /\ fromHost' = [fromHost EXCEPT ![s] =
             Append(Append(@, [kind |-> j, batch |-> rendered'[s]]),
                    [kind |-> k, batch |-> rendered'[s]])]
    BY <1>2, <1>6, SaysTwo
  <2>2. fromHost'[s] = Append(Append(fromHost[s], [kind |-> j, batch |-> rendered'[s]]),
                              [kind |-> k, batch |-> rendered'[s]])
    BY <1>2, <2>1
  <2> QED
    BY <2>1, <2>2
<1>7. \A was, now : Becomes(s, was, now) => worker[s] = was /\ worker'[s] = now
  BY <1>2 DEF Becomes
<1>8. "created" \in Kinds /\ "refused" \in Kinds /\ "failed" \in Kinds /\ "ended" \in Kinds
      /\ "render" \in Kinds /\ "launch" \in Kinds
  BY DEF Kinds
<1> DEFINE Spoke ==
      \E m \in HostMsg :
        \/ /\ fromHost'[s] = Append(fromHost[s], m) /\ m.kind \notin Answers
           /\ worker'[s] = "starting" <=> worker[s] = "starting"
        \/ /\ m.kind \in Answers /\ worker[s] = "starting" /\ worker'[s] # "starting"
           /\ \/ fromHost'[s] = Append(fromHost[s], m)
              \/ \E n \in HostMsg : /\ n.kind \notin Answers
                                    /\ fromHost'[s] = Append(Append(fromHost[s], n), m)
<1>9. Spoke
  <2>1. CASE Renders(s)
    <3>1. \E m \in HostMsg : m.kind = "render" /\ fromHost'[s] = Append(fromHost[s], m)
      BY <1>5, <1>8, <2>1 DEF Renders
    <3> QED
      BY <2>1, <3>1 DEF Renders, Answers
  <2>2. CASE LaunchesAnother(s)
    <3>1. \E m \in HostMsg : m.kind = "launch" /\ fromHost'[s] = Append(fromHost[s], m)
      BY <1>5, <1>8, <2>2 DEF LaunchesAnother
    <3> QED
      BY <2>2, <3>1 DEF LaunchesAnother, extension, Answers
  <2>3. CASE Ends(s)
    <3>1. \E m \in HostMsg : m.kind \in {"failed", "ended"} /\ fromHost'[s] = Append(fromHost[s], m)
      BY <1>5, <1>8, <2>3 DEF Ends
    <3>2. worker[s] = "on" /\ worker'[s] = "over"
      BY <1>7, <2>3 DEF Ends
    <3> QED
      BY <3>1, <3>2 DEF Answers
  <2>4. CASE Starts(s)
    <3>1. CASE Becomes(s, "starting", "on") /\ Says(s, <<"created">>)
      <4>1. \E m \in HostMsg : m.kind = "created" /\ fromHost'[s] = Append(fromHost[s], m)
        BY <1>5, <1>8, <3>1
      <4>2. worker[s] = "starting" /\ worker'[s] = "on"
        BY <1>7, <3>1
      <4> QED
        BY <4>1, <4>2 DEF Answers
    <3>2. ASSUME NEW end \in {"failed", "ended"}, Becomes(s, "starting", "over"), Says(s, <<end, "created">>)
          PROVE  Spoke
      <4>1. \E n, m \in HostMsg : /\ n.kind = end /\ m.kind = "created"
                                  /\ fromHost'[s] = Append(Append(fromHost[s], n), m)
        BY <1>6, <1>8, <3>2
      <4>2. worker[s] = "starting" /\ worker'[s] = "over"
        BY <1>7, <3>2
      <4> QED
        BY <3>2, <4>1, <4>2 DEF Answers
    <3>3. CASE Becomes(s, "starting", "over") /\ Says(s, <<"refused">>)
      <4>1. \E m \in HostMsg : m.kind = "refused" /\ fromHost'[s] = Append(fromHost[s], m)
        BY <1>5, <1>8, <3>3
      <4>2. worker[s] = "starting" /\ worker'[s] = "over"
        BY <1>7, <3>3
      <4> QED
        BY <4>1, <4>2 DEF Answers
    <3> QED
      BY <2>4, <3>1, <3>2, <3>3 DEF Starts
  <2> QED
    BY <2>1, <2>2, <2>3, <2>4 DEF Extension
<1> QED
  BY <1>2, <1>3, <1>4, <1>9

----------------------------------------------------------------------------
(* While the panel is hidden what is open has been asked for by a key or a   *)
(* command, and will show it, or crossed the hide, or was started behind it. *)
Quietly == {"row", "background"}   \* whose sessions leave a hidden panel hidden

HiddenInv ==
  ~visible => \A s \in Sid :
    /\ s \in open => s \in astray \/ (asker[s] \notin Quietly /\ Ahead(s))
    /\ asker[s] = "row" /\ s \in Unanswered => s \in astray

LEMMA ExtensionAhead ==
  ASSUME HostInv, NEW s \in Sid, Extension(s)
  PROVE  \A t \in Sid : /\ Ahead(t) => Ahead(t)'
                        /\ t \in Unanswered' => t \in Unanswered
PROOF
<1>1. \A t \in Sid : t # s => worker'[t] = worker[t] /\ fromHost'[t] = fromHost[t]
  BY ExtensionSays
<1>2. ASSUME NEW t \in Sid, t # s
      PROVE  (Ahead(t) => Ahead(t)') /\ (t \in Unanswered' => t \in Unanswered)
  BY <1>1, <1>2 DEF Ahead, AnswerDue, Unanswered
<1>3. fromHost[s] \in Seq(HostMsg)
  BY DEF HostInv
<1>4. \A m \in HostMsg : /\ Append(fromHost[s], m) \in Seq(HostMsg)
                         /\ Range(Append(fromHost[s], m)) = Range(fromHost[s]) \cup {m}
  BY <1>3, Joins, WireHolds
<1>5. \A n, m \in HostMsg :
        Range(Append(Append(fromHost[s], n), m)) = Range(fromHost[s]) \cup {n, m}
  <2> TAKE n, m \in HostMsg
  <2>1. PICK q \in Seq(HostMsg) : q = Append(fromHost[s], n) /\ Range(q) = Range(fromHost[s]) \cup {n}
    BY <1>4
  <2>2. Range(Append(q, m)) = Range(q) \cup {m}
    BY WireHolds
  <2> QED
    BY <2>1, <2>2
<1>6. /\ Range(fromHost[s]) \subseteq Range(fromHost'[s])
      /\ worker[s] = "starting" => worker'[s] = "starting" \/ \E m \in Range(fromHost'[s]) : m.kind \in Answers
      /\ worker'[s] = "starting" => worker[s] = "starting"
      /\ \A m \in Range(fromHost'[s]) \ Range(fromHost[s]) :
           m.kind \in Answers => worker[s] = "starting"
  <2>1. ASSUME NEW m \in HostMsg, fromHost'[s] = Append(fromHost[s], m), m.kind \notin Answers,
               worker'[s] = "starting" <=> worker[s] = "starting"
        PROVE  <1>6
    BY <1>4, <2>1
  <2>2. ASSUME NEW m \in HostMsg, fromHost'[s] = Append(fromHost[s], m), m.kind \in Answers,
               worker[s] = "starting", worker'[s] # "starting"
        PROVE  <1>6
    BY <1>4, <2>2
  <2>3. ASSUME NEW m \in HostMsg, NEW n \in HostMsg,
               fromHost'[s] = Append(Append(fromHost[s], n), m),
               n.kind \notin Answers, m.kind \in Answers,
               worker[s] = "starting", worker'[s] # "starting"
        PROVE  <1>6
    BY <1>5, <2>3
  <2> QED
    BY <2>1, <2>2, <2>3, ExtensionSays
<1>7. (Ahead(s) => Ahead(s)') /\ (s \in Unanswered' => s \in Unanswered)
  <2>1. Ahead(s) => Ahead(s)'
    BY <1>6 DEF Ahead, AnswerDue
  <2>2. s \in Unanswered' <=>
           worker'[s] = "starting" \/ \E m \in Range(fromHost'[s]) : m.kind = "created"
    BY DEF Unanswered, Range
  <2>3. s \in Unanswered <=>
           worker[s] = "starting" \/ \E m \in Range(fromHost[s]) : m.kind = "created"
    BY UnansweredIs
  <2> QED
    BY <1>6, <2>1, <2>2, <2>3 DEF Answers
<1> QED
  BY <1>2, <1>7

(* The answers under way to the daemon are those there were.                *)
SameAnswers ==
  \A t \in Sid : {m \in Range(fromHost'[t]) : m.kind \in Answers}
                  = {m \in Range(fromHost[t]) : m.kind \in Answers}

(* A launch asks for a session nobody had.                                  *)
LEMMA LaunchAhead ==
  ASSUME IInv, SaidInv, NEW who \in Askers, NewSession(who), SameAnswers
  PROVE  /\ Fresh \in Sid /\ Fresh \notin open /\ Fresh > minted
         /\ open' = open \cup {Fresh} /\ asker'[Fresh] = who /\ worker'[Fresh] = "starting"
         /\ \A t \in Sid : t # Fresh =>
              /\ asker'[t] = asker[t] /\ worker'[t] = worker[t]
              /\ Ahead(t) => Ahead(t)'
              /\ t \in Unanswered' => t \in Unanswered
PROOF
<1>1. /\ minted \in 0..MaxSid /\ MaxSid \in Nat /\ minted < MaxSid /\ open \subseteq 1..minted
      /\ worker \in [Sid -> {"none", "starting", "on", "over"}]
      /\ asker \in [Sid -> Askers \cup {"none"}]
  BY PanelAssumption DEF IInv, HostInv, SaidInv, NewSession, MayLaunch
<1>2. Fresh \in Sid /\ Fresh \notin open /\ Fresh > minted
  BY <1>1 DEF Fresh, Sid
<1>3. /\ open' = open \cup {Fresh} /\ asker' = [asker EXCEPT ![Fresh] = who]
      /\ worker' = [worker EXCEPT ![Fresh] = "starting"]
  BY DEF NewSession
<1>4. asker'[Fresh] = who /\ worker'[Fresh] = "starting"
      /\ \A t \in Sid : t # Fresh => asker'[t] = asker[t] /\ worker'[t] = worker[t]
  BY <1>1, <1>2, <1>3
<1>5. \A t \in Sid : t # Fresh => (Ahead(t) => Ahead(t)') /\ (t \in Unanswered' => t \in Unanswered)
  <2> SUFFICES ASSUME NEW t \in Sid, t # Fresh
               PROVE  (Ahead(t) => Ahead(t)') /\ (t \in Unanswered' => t \in Unanswered)
    OBVIOUS
  <2>1. \A m : m.kind \in Answers =>
          (m \in Range(fromHost'[t]) <=> m \in Range(fromHost[t]))
    BY DEF SameAnswers
  <2>2. t \in Unanswered' => worker'[t] = "starting" \/ \E m \in Range(fromHost'[t]) : m.kind = "created"
    BY DEF Unanswered, Range
  <2>3. "created" \in Answers
    BY DEF Answers
  <2>4. t \in Unanswered' => t \in Unanswered
    BY <1>4, <2>1, <2>2, <2>3, UnansweredIs
  <2>5. Ahead(t) => Ahead(t)'
    BY <1>4, <2>1 DEF Ahead, AnswerDue
  <2> QED
    BY <2>4, <2>5
<1> QED
  BY <1>2, <1>3, <1>4, <1>5

(* A message of a host is taken; only an answer settles the launch.         *)
LEMMA HearsAhead ==
  ASSUME HostInv, NEW s \in Sid, NEW k, Hears(s, k), UNCHANGED worker
  PROVE  \A t \in Sid : /\ t \in Unanswered' => t \in Unanswered
                        /\ Ahead(t) => Ahead(t)' \/ (t = s /\ k \in Answers)
PROOF
<1>1. /\ fromHost \in [Sid -> Seq(HostMsg)] /\ fromHost[s] \in Seq(HostMsg)
      /\ fromHost[s] # <<>> /\ Head(fromHost[s]).kind = k
      /\ fromHost' = [fromHost EXCEPT ![s] = Tail(@)]
  BY DEF HostInv, Hears
<1>2. fromHost'[s] = Tail(fromHost[s]) /\ \A t \in Sid : t # s => fromHost'[t] = fromHost[t]
  BY <1>1
<1>3. Range(fromHost[s]) = {Head(fromHost[s])} \cup Range(fromHost'[s])
  BY <1>1, <1>2, WireHolds
<1>4. ASSUME NEW t \in Sid
      PROVE  Ahead(t) => Ahead(t)' \/ (t = s /\ k \in Answers)
  BY <1>1, <1>2, <1>3 DEF Ahead, AnswerDue
<1>5. ASSUME NEW t \in Sid, t \in Unanswered' PROVE t \in Unanswered
  <2>1. worker'[t] = "starting" \/ \E m \in Range(fromHost'[t]) : m.kind = "created"
    BY <1>5 DEF Unanswered, Range
  <2> QED
    BY <1>2, <1>3, <2>1, UnansweredIs
<1> QED
  BY <1>4, <1>5

LEMMA HearsAnswers ==
  ASSUME HostInv, NEW s \in Sid, NEW k, k \notin Answers, Hears(s, k)
  PROVE  SameAnswers
PROOF
<1>1. /\ fromHost \in [Sid -> Seq(HostMsg)] /\ fromHost[s] \in Seq(HostMsg)
      /\ fromHost[s] # <<>> /\ Head(fromHost[s]).kind = k
      /\ fromHost' = [fromHost EXCEPT ![s] = Tail(@)]
  BY DEF HostInv, Hears
<1>2. fromHost'[s] = Tail(fromHost[s]) /\ \A t \in Sid : t # s => fromHost'[t] = fromHost[t]
  BY <1>1
<1>3. Range(fromHost[s]) = {Head(fromHost[s])} \cup Range(fromHost'[s])
  BY <1>1, <1>2, WireHolds
<1> QED
  BY <1>1, <1>2, <1>3 DEF SameAnswers

LEMMA HiddenNext == IInv /\ SaidInv /\ HiddenInv /\ [Next]_vars => HiddenInv'
PROOF
<1> SUFFICES ASSUME IInv, SaidInv, HiddenInv, [Next]_vars, ~visible' PROVE HiddenInv'
  BY DEF HiddenInv
<1>0. HostInv
  BY DEF IInv
<1>1. ASSUME UNCHANGED <<fromHost, worker, asker>>, Hides PROVE HiddenInv'
  <2>1. Unanswered' = Unanswered /\ \A s \in Sid : Ahead(s) <=> Ahead(s)'
    BY <1>1 DEF Unanswered, Ahead, AnswerDue
  <2>2. CASE visible
    <3>1. open' = {} /\ astray' = astray \cup Unanswered
      BY <1>1, <2>2 DEF Hides
    <3> QED
      BY <2>1, <3>1 DEF HiddenInv
  <2>3. CASE ~visible
    <3>1. UNCHANGED <<open, astray>>
      BY <1>1, <2>3 DEF Hides
    <3> QED
      BY <1>1, <2>1, <2>3, <3>1 DEF HiddenInv
  <2> QED
    BY <2>2, <2>3
<1>2. ASSUME ~visible, UNCHANGED asker, open' \subseteq open, astray \subseteq astray',
             \A t \in Sid : /\ t \in Unanswered' => t \in Unanswered
                            /\ t \in open' /\ Ahead(t) => Ahead(t)' \/ asker[t] \in Quietly
      PROVE  HiddenInv'
  BY <1>2 DEF HiddenInv
<1>3. ASSUME ~visible, NEW who \in Askers, NewSession(who), SameAnswers, astray \subseteq astray',
             who \in Quietly => Fresh \in astray'
      PROVE  HiddenInv'
  <2>1. PICK s : s = Fresh
    OBVIOUS
  <2>2. /\ s \in Sid /\ open' = open \cup {s} /\ asker'[s] = who /\ worker'[s] = "starting"
        /\ \A t \in Sid : t # s =>
             /\ asker'[t] = asker[t] /\ worker'[t] = worker[t]
             /\ Ahead(t) => Ahead(t)'
             /\ t \in Unanswered' => t \in Unanswered
    BY <1>3, <2>1, LaunchAhead
  <2>3. Ahead(s)'
    BY <2>2 DEF Ahead
  <2>4. ASSUME NEW t \in Sid, t # s
        PROVE  /\ t \in open' => t \in astray' \/ (asker'[t] \notin Quietly /\ Ahead(t)')
               /\ asker'[t] = "row" /\ t \in Unanswered' => t \in astray'
    BY <1>3, <2>2, <2>4 DEF HiddenInv
  <2> QED
    BY <1>3, <2>1, <2>2, <2>3, <2>4 DEF HiddenInv, Quietly
<1>4. ASSUME UNCHANGED daemonVars PROVE HiddenInv'
  BY <1>4 DEF daemonVars, HiddenInv, Ahead, AnswerDue, Unanswered
<1>5. ASSUME NEW s \in Sid, Extension(s) PROVE HiddenInv'
  <2>1. UNCHANGED <<visible, asker, open, astray>>
    BY <1>0, <1>5, ExtensionSays
  <2>2. \A t \in Sid : (Ahead(t) => Ahead(t)') /\ (t \in Unanswered' => t \in Unanswered)
    BY <1>0, <1>5, ExtensionAhead
  <2> QED
    BY <1>2, <2>1, <2>2
<1>6. ASSUME NEW s \in Sid, DaemonHears(s) PROVE HiddenInv'
  <2>1. ASSUME NEW k, k \notin Answers, Hears(s, k), UNCHANGED <<visible, asker, worker>>,
               open' \subseteq open, astray \subseteq astray'
        PROVE  HiddenInv'
    BY <1>0, <1>2, <2>1, HearsAhead
  <2>2. CASE HearRender(s)
    BY <2>1, <2>2 DEF HearRender, Same, Answers
  <2>3. CASE HearFailed(s)
    BY <2>1, <2>3 DEF HearFailed, Same, Answers
  <2>4. CASE HearEnded(s)
    BY <2>1, <2>4 DEF HearEnded, Same, Answers
  <2>5. CASE HearRefused(s)
    <3>1. UNCHANGED <<visible, asker, worker, astray>> /\ open' = open \ {s} /\ Hears(s, "refused")
      BY <2>5 DEF HearRefused, Same
    <3> QED
      BY <1>0, <1>2, <3>1, HearsAhead
  <2>6. CASE HearCreated(s)
    <3>1. UNCHANGED <<visible, asker, worker, open, astray>> /\ asker[s] \in Quietly /\ Hears(s, "created")
      BY <2>6 DEF HearCreated, Same, Quietly
    <3> QED
      BY <1>0, <1>2, <3>1, HearsAhead
  <2>7. CASE HearLaunch(s)
    <3>1. Hears(s, "launch") /\ UNCHANGED visible /\ SameAnswers
      BY <1>0, <2>7, HearsAnswers DEF HearLaunch, Answers
    <3>2. CASE UNCHANGED <<minted, asker, worker, open, astray>>
      BY <2>1, <3>1, <3>2 DEF Answers
    <3>3. ASSUME NEW who \in {"command", "background"}, NewSession(who),
                 astray' = IF who = "background" /\ ~visible THEN astray \cup {Fresh} ELSE astray
          PROVE  HiddenInv'
      BY <1>3, <3>1, <3>3 DEF Askers, Quietly
    <3> QED
      BY <2>7, <3>2, <3>3 DEF HearLaunch
  <2> QED
    BY <1>6, <2>2, <2>3, <2>4, <2>5, <2>6, <2>7 DEF DaemonHears
<1>7. ASSUME DaemonServes PROVE HiddenInv'
  <2>1. UNCHANGED fromHost /\ SameAnswers
    BY <1>7 DEF DaemonServes, ServeLaunch, ServeHide, ServeClose, ServeAttach, Still, SameAnswers
  <2>2. CASE Hides /\ UNCHANGED <<minted, asker, worker>>
    BY <1>1, <2>1, <2>2
  <2>3. CASE /\ NewSession("row") /\ UNCHANGED visible
             /\ astray' = IF visible THEN astray ELSE astray \cup {Fresh}
    BY <1>3, <2>1, <2>3 DEF Askers
  <2>4. CASE ServeClose \/ ServeAttach
    <3>1. UNCHANGED <<visible, asker, worker, astray>> /\ open' \subseteq open
      BY <2>4 DEF ServeClose, ServeAttach
    <3>2. \A t \in Sid : (Ahead(t) => Ahead(t)') /\ (t \in Unanswered' => t \in Unanswered)
      BY <2>1, <3>1 DEF Ahead, AnswerDue, Unanswered
    <3> QED
      BY <1>2, <3>1, <3>2
  <2> QED
    BY <1>7, <2>2, <2>3, <2>4 DEF DaemonServes, ServeLaunch, ServeHide
<1>8. ASSUME Keys PROVE HiddenInv'
  <2>1. UNCHANGED fromHost /\ SameAnswers
    BY <1>8 DEF Keys, VerbShow, VerbHide, VerbOpen, Rest, SameAnswers
  <2>2. CASE VerbShow
    BY <2>2 DEF VerbShow
  <2>3. CASE VerbHide
    BY <1>1, <2>1, <2>3 DEF VerbHide
  <2>4. ASSUME NEW t \in Target, VerbOpen(t) PROVE HiddenInv'
    <3>1. CASE Hides /\ UNCHANGED <<minted, asker, worker>>
      BY <1>1, <2>1, <3>1
    <3>2. CASE NewSession(t) /\ UNCHANGED <<visible, astray>>
      BY <1>3, <2>1, <3>2, TargetAssumption DEF Askers, Quietly
    <3> QED
      BY <2>4, <3>1, <3>2 DEF VerbOpen
  <2> QED
    BY <1>8, <2>2, <2>3, <2>4 DEF Keys
<1> QED
  BY <1>4, <1>5, <1>6, <1>7, <1>8 DEF Next, vars

----------------------------------------------------------------------------
LEMMA HiddenInit == Init => HiddenInv
PROOF
<1> SUFFICES ASSUME Init, NEW s \in Sid PROVE s \notin open /\ s \notin Unanswered
  BY DEF HiddenInv
<1>1. open = {} /\ worker[s] = "none" /\ fromHost[s] = <<>>
  BY DEF Init, DaemonInit
<1> QED
  BY <1>1 DEF Unanswered

(* Nothing after the i-th message puts a session on a page that was sent    *)
(* back to the root, but what crossed the hide.                             *)
Harmless(m, away) ==
  m.type # "started" /\ (m.type = "launched" => m.info.sid \in away)
BackAfter(q, i, away) == \A j \in (i + 1)..Len(q) : Harmless(q[j], away)

(* Once hidden the page is back at the root, or is told to go there.        *)
BackInv ==
  ordered =>
    /\ replies = <<>>
    /\ ~visible =>
         \/ active \in astray \cup {None} /\ BackAfter(toPage, 0, astray)
         \/ \E i \in 1..Len(toPage) :
              toPage[i] = Visibility(FALSE) /\ BackAfter(toPage, i, astray)

LEMMA BackGrows ==
  ASSUME NEW q \in Seq(PageMsg), NEW m \in PageMsg, NEW i \in 0..Len(q), NEW away, NEW more,
         away \subseteq more, BackAfter(q, i, away), Harmless(m, more)
  PROVE  BackAfter(Append(q, m), i, more)
PROOF
<1> DEFINE p == Append(q, m)
<1>1. /\ Len(q) \in Nat /\ Len(p) = Len(q) + 1 /\ p[Len(q) + 1] = m
      /\ \A j \in 1..Len(q) : p[j] = q[j]
  BY PortFacts
<1> HIDE DEF p
<1>2. ASSUME NEW j \in (i + 1)..Len(p) PROVE Harmless(p[j], more)
  <2>1. CASE j = Len(q) + 1
    BY <1>1, <2>1
  <2>2. CASE j # Len(q) + 1
    <3>1. j \in (i + 1)..Len(q) /\ p[j] = q[j]
      BY <1>1, <2>2
    <3>2. Harmless(q[j], away)
      BY <3>1 DEF BackAfter
    <3> QED
      BY <3>1, <3>2 DEF Harmless
  <2> QED
    BY <2>1, <2>2
<1> QED
  BY <1>2 DEF BackAfter, p

LEMMA BackTakes ==
  ASSUME NEW q \in Seq(PageMsg), q # <<>>, NEW away
  PROVE  /\ \A i \in 1..Len(q) : BackAfter(q, i, away) => BackAfter(Tail(q), i - 1, away)
         /\ BackAfter(q, 0, away) => BackAfter(Tail(q), 0, away) /\ Harmless(Head(q), away)
PROOF
<1> DEFINE p == Tail(q)
<1>1. /\ Len(q) \in Nat /\ Len(q) > 0 /\ Len(p) = Len(q) - 1 /\ Head(q) = q[1]
      /\ \A j \in 1..Len(p) : p[j] = q[j + 1]
  BY PortFacts
<1> HIDE DEF p
<1>2. ASSUME NEW i \in 1..Len(q), BackAfter(q, i, away), NEW j \in (i - 1 + 1)..Len(p)
      PROVE  Harmless(p[j], away)
  <2>1. j + 1 \in (i + 1)..Len(q) /\ p[j] = q[j + 1]
    BY <1>1
  <2> QED
    BY <1>2, <2>1 DEF BackAfter
<1>3. ASSUME BackAfter(q, 0, away)
      PROVE  Harmless(q[1], away) /\ \A j \in (0 + 1)..Len(p) : Harmless(p[j], away)
  <2>1. 1 \in (0 + 1)..Len(q)
    BY <1>1
  <2>2. ASSUME NEW j \in (0 + 1)..Len(p) PROVE Harmless(p[j], away)
    <3>1. j + 1 \in (0 + 1)..Len(q) /\ p[j] = q[j + 1]
      BY <1>1
    <3> QED
      BY <1>3, <3>1 DEF BackAfter
  <2> QED
    BY <1>3, <2>1, <2>2 DEF BackAfter
<1> QED
  BY <1>1, <1>2, <1>3 DEF BackAfter, p

(* What the daemon tells a page in order: nothing, or one message more, or   *)
(* the two that announce a session.                                         *)
LEMMA PushAppends ==
  ASSUME WireInv
  PROVE  /\ \A m \in PageMsg : Push(<<m>>) => toPage' = Append(toPage, m) /\ UNCHANGED replies
         /\ \A m, n \in PageMsg : Push(<<m, n>>) =>
              toPage' = Append(Append(toPage, m), n) /\ UNCHANGED replies
PROOF
<1>1. ASSUME NEW m \in PageMsg, Push(<<m>>)
      PROVE  toPage' = Append(toPage, m) /\ UNCHANGED replies
  <2>1. toPage \o <<m>> = Append(toPage, m)
    BY DEF WireInv
  <2> QED
    BY <1>1, <2>1 DEF Push
<1>2. ASSUME NEW m \in PageMsg, NEW n \in PageMsg, Push(<<m, n>>)
      PROVE  toPage' = Append(Append(toPage, m), n) /\ UNCHANGED replies
  <2>1. toPage \o <<m, n>> = Append(Append(toPage, m), n)
    BY DEF WireInv
  <2> QED
    BY <1>2, <2>1 DEF Push
<1> QED
  BY <1>1, <1>2

(* A hidden panel that stays hidden is told of no session but those that     *)
(* crossed the hide.                                                        *)
LEMMA HiddenTells ==
  ASSUME IInv, SaidInv, HiddenInv, ordered, ~visible, ~visible',
         (\E s \in Sid : DaemonHears(s)) \/ DaemonServes \/ Keys
  PROVE  /\ UNCHANGED replies /\ astray \subseteq astray'
         /\ \/ UNCHANGED toPage
            \/ \E m \in PageMsg : toPage' = Append(toPage, m) /\ Harmless(m, astray')
PROOF
<1>1. HostInv /\ WireInv
  BY DEF IInv
<1> DEFINE Goal == /\ UNCHANGED replies /\ astray \subseteq astray'
                   /\ \/ UNCHANGED toPage
                      \/ \E m \in PageMsg : toPage' = Append(toPage, m) /\ Harmless(m, astray')
<1>2. ASSUME astray \subseteq astray', UNCHANGED <<toPage, replies>> PROVE Goal
  BY <1>2
<1>3. ASSUME NEW m \in PageMsg, astray \subseteq astray', toPage' = Append(toPage, m),
             UNCHANGED replies, Harmless(m, astray')
      PROVE  Goal
  BY <1>3
<1>4. ASSUME NEW s \in Sid, HearRender(s) PROVE Goal
  <2>1. CASE s \notin open
    BY <1>2, <1>4, <2>1 DEF HearRender
  <2>2. CASE s \in open /\ asker[s] # "background"
    <3>1. PICK m : m = [type |-> "render", sid |-> s, rev |-> mRev[s] + 1]
      OBVIOUS
    <3>2. mRev[s] \in Nat /\ toPage' = toPage \o <<m>> /\ UNCHANGED replies
      BY <1>1, <1>4, <2>2, <3>1, NextBatch
    <3>3. m \in PageMsg
      BY <3>1, <3>2, PageMessages
    <3>4. toPage' = Append(toPage, m)
      BY <1>1, <3>2, <3>3, PushAppends DEF Push
    <3>5. Harmless(m, astray') /\ astray' = astray
      BY <1>4, <3>1 DEF HearRender, Harmless
    <3> QED
      BY <1>3, <3>2, <3>3, <3>4, <3>5
  <2>3. CASE s \in open /\ asker[s] = "background"
    <3>1. UNCHANGED <<toPage, replies, astray>>
      BY <1>1, <1>4, <2>3, NextBatch DEF HearRender
    <3> QED
      BY <1>2, <3>1
  <2> QED
    BY <2>1, <2>2, <2>3
<1>5. ASSUME NEW s \in Sid, HearCreated(s), asker[s] # "background" PROVE Goal
  <2>1. /\ asker[s] = "row" /\ Reply([type |-> "launched", info |-> Info(s, "no")])
        /\ UNCHANGED astray /\ Hears(s, "created")
    BY <1>5 DEF HearCreated
  <2>2. PICK m : m = [type |-> "launched", info |-> Info(s, "no")]
    OBVIOUS
  <2>3. m \in PageMsg
    BY <1>1, <2>2, InfoIsGenuine, PageMessages
  <2>4. toPage' = Append(toPage, m) /\ UNCHANGED replies
    BY <2>1, <2>2 DEF Reply
  <2>5. s \in Unanswered
    <3>1. fromHost[s] \in Seq(HostMsg) /\ fromHost[s] # <<>> /\ Head(fromHost[s]).kind = "created"
      BY <1>1, <2>1 DEF HostInv, Hears
    <3>2. Head(fromHost[s]) \in Range(fromHost[s])
      BY <3>1, WireHolds
    <3> QED
      BY <3>1, <3>2, UnansweredIs
  <2>6. Harmless(m, astray')
    BY <2>1, <2>2, <2>5 DEF HiddenInv, Harmless, Info
  <2> QED
    BY <1>3, <2>1, <2>3, <2>4, <2>6
<1>6. ASSUME NEW s \in Sid, HearFailed(s) \/ HearEnded(s) PROVE Goal
  <2>1. PICK crashed \in BOOLEAN : Push(<<Ended(s, crashed)>>)
    BY <1>6 DEF HearFailed, HearEnded
  <2>2. Ended(s, crashed) \in PageMsg /\ Harmless(Ended(s, crashed), astray')
    BY PageMessages DEF Harmless, Ended
  <2>3. toPage' = Append(toPage, Ended(s, crashed)) /\ UNCHANGED replies
    BY <1>1, <2>1, <2>2, PushAppends
  <2> QED
    BY <1>3, <1>6, <2>2, <2>3 DEF HearFailed, HearEnded
<1>7. ASSUME NEW s \in Sid, HearRefused(s) \/ HearLaunch(s) PROVE Goal
  <2>1. UNCHANGED <<toPage, replies>> /\ astray \subseteq astray'
    BY <1>7 DEF HearRefused, HearLaunch, wires
  <2> QED
    BY <1>2, <2>1
<1>8. ASSUME ServeAttach PROVE Goal
  <2>1. PICK m : /\ m.type = "attached" /\ Reply(m)
    BY <1>8 DEF ServeAttach
  <2>2. toPage' = Append(toPage, m) /\ UNCHANGED replies
    BY <2>1 DEF Reply
  <2>3. WireInv'
    BY <1>1, <1>8, ServesTells DEF DaemonServes
  <2>4. m \in PageMsg
    <3>1. Append(toPage, m) \in Seq(PageMsg) /\ Append(toPage, m) = toPage \o <<m>>
      BY <1>1, <2>2, <2>3 DEF WireInv
    <3> QED
      BY <1>1, <3>1 DEF WireInv
  <2>5. Harmless(m, astray') /\ astray' = astray
    BY <1>8, <2>1 DEF Harmless, ServeAttach
  <2> QED
    BY <1>3, <2>2, <2>4, <2>5
<1>9. ASSUME ServeLaunch \/ ServeHide \/ ServeClose PROVE Goal
  BY <1>2, <1>9 DEF ServeLaunch, ServeHide, ServeClose, Hides
<1>10. ASSUME Keys PROVE Goal
  BY <1>2, <1>10 DEF Keys, VerbShow, VerbHide, VerbOpen, Hides
<1>11. ASSUME NEW s \in Sid, HearCreated(s), asker[s] = "background" PROVE Goal
  BY <1>2, <1>11 DEF HearCreated
<1> QED
  BY <1>4, <1>5, <1>6, <1>7, <1>8, <1>9, <1>10, <1>11 DEF DaemonHears, DaemonServes

----------------------------------------------------------------------------
LEMMA OrderedReplies ==
  ASSUME [Next]_vars, ordered
  PROVE  ordered' /\ (replies = <<>> => replies' = <<>>)
PROOF
<1>1. \A m : Reply(m) => UNCHANGED replies
  BY DEF Reply
<1>2. \A m : Push(m) => UNCHANGED replies
  BY DEF Push
<1>3. Hides => UNCHANGED replies
  BY <1>2 DEF Hides
<1>4. \A what : Pushed(what) => UNCHANGED <<ordered, replies>>
  BY DEF Pushed
<1>5. UNCHANGED wires => UNCHANGED <<ordered, replies>>
  BY DEF wires
<1>6. ASSUME NEW s \in Sid, DaemonHears(s) PROVE UNCHANGED <<ordered, replies>>
  BY <1>1, <1>2, <1>5, <1>6 DEF DaemonHears, HearRender, HearCreated, HearRefused, HearFailed, HearEnded,
     HearLaunch, Same
<1>7. ASSUME DaemonServes PROVE UNCHANGED <<ordered, replies>>
  BY <1>1, <1>3, <1>7 DEF DaemonServes, ServeLaunch, ServeHide, ServeClose, ServeAttach, Still
<1>8. ASSUME Keys PROVE UNCHANGED <<ordered, replies>>
  BY <1>2, <1>3, <1>8 DEF Keys, VerbShow, VerbHide, VerbOpen, Rest
<1>9. ASSUME PageHears PROVE UNCHANGED <<ordered, replies>>
  BY <1>4, <1>9 DEF PageHears, OnVisibility, OnStarted, OnLaunched, OnRender, OnAttached, OnEnded, Answered
<1>10. ASSUME PageUser PROVE UNCHANGED <<ordered, replies>>
  BY <1>10 DEF PageUser, ActivateRow, EscapeAtRoot, Exit
<1> QED
  BY <1>5, <1>6, <1>7, <1>8, <1>9, <1>10 DEF Next, vars

(* Whoever hides the panel tells the page.                                  *)
LEMMA HidingTells ==
  ASSUME IInv, [Next]_vars, visible, ~visible'
  PROVE  toPage' = Append(toPage, Visibility(FALSE)) /\ UNCHANGED pageVars
PROOF
<1>1. WireInv /\ Visibility(FALSE) \in PageMsg
  BY PageMessages DEF IInv
<1>2. ASSUME Hides PROVE toPage' = Append(toPage, Visibility(FALSE))
  BY <1>1, <1>2, PushAppends DEF Hides
<1>3. UNCHANGED daemonVars => FALSE
  BY DEF daemonVars
<1>4. ASSUME NEW s \in Sid, Extension(s) \/ DaemonHears(s) PROVE FALSE
  BY <1>4 DEF Extension, Renders, Starts, Ends, LaunchesAnother, Says,
     DaemonHears, HearRender, HearCreated, HearRefused, HearFailed, HearEnded, HearLaunch
<1>5. ASSUME DaemonServes PROVE Hides
  BY <1>5 DEF DaemonServes, ServeLaunch, ServeHide, ServeClose, ServeAttach
<1>6. ASSUME Keys PROVE Hides
  BY <1>6 DEF Keys, VerbShow, VerbHide, VerbOpen
<1> QED
  BY <1>2, <1>3, <1>4, <1>5, <1>6 DEF Next, vars

(* The page takes the messages in their order.                              *)
LEMMA PageBack ==
  ASSUME IInv, BackInv, ordered, ~visible, PageHears, UNCHANGED <<visible, astray>>
  PROVE  \/ active' \in astray \cup {None} /\ BackAfter(toPage', 0, astray)
         \/ \E i \in 1..Len(toPage') :
              toPage'[i] = Visibility(FALSE) /\ BackAfter(toPage', i, astray)
PROOF
<1>1. /\ toPage \in Seq(PageMsg) /\ toPage # <<>> /\ toPage' = Tail(toPage)
  BY DEF IInv, WireInv, PageHears, OnVisibility, OnStarted, OnLaunched, OnRender, OnAttached, OnEnded,
         Pushed, Answered
<1>2. /\ Len(toPage) \in Nat /\ Len(toPage') = Len(toPage) - 1 /\ Head(toPage) = toPage[1]
      /\ \A j \in 1..Len(toPage') : toPage'[j] = toPage[j + 1]
  BY <1>1, PortFacts
<1>3. ASSUME active \in astray \cup {None}, BackAfter(toPage, 0, astray)
      PROVE  active' \in astray \cup {None} /\ BackAfter(toPage', 0, astray)
  <2>1. BackAfter(toPage', 0, astray) /\ Harmless(Head(toPage), astray)
    BY <1>1, <1>3, BackTakes
  <2>2. ASSUME OnVisibility PROVE active' \in {active, None}
    BY <2>2 DEF OnVisibility, EndWith, pageVars
  <2>3. ~OnStarted
    BY <2>1 DEF OnStarted, Pushed, Harmless
  <2>4. ASSUME OnLaunched PROVE active' \in astray
    BY <2>1, <2>4 DEF OnLaunched, Answered, Pushed, News, Begin, Harmless
  <2>5. ASSUME OnRender \/ OnAttached \/ OnEnded PROVE active' \in {active, None}
    BY <2>5 DEF OnRender, OnAttached, OnEnded
  <2> QED
    BY <1>3, <2>1, <2>2, <2>3, <2>4, <2>5 DEF PageHears
<1>4. ASSUME NEW i \in 1..Len(toPage), toPage[i] = Visibility(FALSE), BackAfter(toPage, i, astray)
      PROVE  \/ active' \in astray \cup {None} /\ BackAfter(toPage', 0, astray)
             \/ \E j \in 1..Len(toPage') :
                  toPage'[j] = Visibility(FALSE) /\ BackAfter(toPage', j, astray)
  <2>1. BackAfter(toPage', i - 1, astray)
    BY <1>1, <1>4, BackTakes
  <2>2. CASE i = 1
    <3>1. Head(toPage) = Visibility(FALSE)
      BY <1>2, <1>4, <2>2
    <3>2. Head(toPage).type = "visibility" /\ ~Head(toPage).visible
      BY <3>1 DEF Visibility
    <3>3. OnVisibility
      BY <3>2 DEF PageHears, OnStarted, OnLaunched, OnRender, OnAttached, OnEnded, Pushed, Answered
    <3>4. active' = None
      BY <3>2, <3>3 DEF OnVisibility, EndWith
    <3>5. i - 1 = 0
      BY <2>2
    <3>6. BackAfter(toPage', 0, astray)
      BY <2>1, <3>5
    <3> QED
      BY <3>4, <3>6
  <2>3. CASE i # 1
    <3>1. i - 1 \in 1..Len(toPage') /\ toPage'[i - 1] = toPage[i - 1 + 1] /\ i - 1 + 1 = i
      BY <1>2, <2>3
    <3> QED
      BY <1>4, <2>1, <3>1
  <2> QED
    BY <2>2, <2>3
<1> QED
  BY <1>3, <1>4 DEF BackInv

LEMMA BackInit == Init => BackInv
PROOF
<1> SUFFICES ASSUME Init PROVE BackInv
  OBVIOUS
<1>1. replies = <<>> /\ toPage = <<>> /\ active = None
  BY DEF Init, WiresInit, PageInit
<1>2. \A j \in (0 + 1)..Len(toPage) : FALSE
  BY <1>1
<1> QED
  BY <1>1, <1>2 DEF BackInv, BackAfter

LEMMA BackNext == IInv /\ SaidInv /\ HiddenInv /\ BackInv /\ [Next]_vars => BackInv'
PROOF
<1> SUFFICES ASSUME IInv, SaidInv, HiddenInv, BackInv, [Next]_vars, ordered' PROVE BackInv'
  BY DEF BackInv
<1>1. ordered
  BY DEF Next, vars, wires, DaemonHears, HearRender, HearCreated, HearRefused, HearFailed, HearEnded,
     HearLaunch, Same, DaemonServes, ServeLaunch, ServeHide, ServeClose, ServeAttach, Still, Keys,
     VerbShow, VerbHide, VerbOpen, Rest, PageHears, OnVisibility, OnStarted, OnLaunched, OnRender,
     OnAttached, OnEnded, Pushed, Answered, PageUser, ActivateRow, EscapeAtRoot, Exit
<1>2. replies' = <<>> /\ replies = <<>>
  BY <1>1, OrderedReplies DEF BackInv
<1> DEFINE Goal == \/ active' \in astray' \cup {None} /\ BackAfter(toPage', 0, astray')
                   \/ \E i \in 1..Len(toPage') :
                        toPage'[i] = Visibility(FALSE) /\ BackAfter(toPage', i, astray')
<1> SUFFICES ASSUME ~visible' PROVE Goal
  BY <1>2 DEF BackInv
<1>3. toPage \in Seq(PageMsg) /\ Len(toPage) \in Nat
  BY PortFacts DEF IInv, WireInv
<1>4. CASE visible
  <2>1. toPage' = Append(toPage, Visibility(FALSE))
    BY <1>4, HidingTells
  <2>2. PICK m \in PageMsg : m = Visibility(FALSE)
    BY PageMessages
  <2>3. Len(toPage') = Len(toPage) + 1 /\ toPage'[Len(toPage) + 1] = Visibility(FALSE)
    <3>1. Len(Append(toPage, m)) = Len(toPage) + 1 /\ Append(toPage, m)[Len(toPage) + 1] = m
      BY <1>3, PortFacts
    <3> QED
      BY <2>1, <2>2, <3>1
  <2>4. Len(toPage') \in 1..Len(toPage') /\ \A j \in (Len(toPage') + 1)..Len(toPage') : FALSE
    BY <1>3, <2>3
  <2>5. BackAfter(toPage', Len(toPage'), astray')
    BY <2>4 DEF BackAfter
  <2> QED
    BY <2>3, <2>4, <2>5
<1>5. CASE ~visible
  <2>1. \/ active \in astray \cup {None} /\ BackAfter(toPage, 0, astray)
        \/ \E i \in 1..Len(toPage) :
             toPage[i] = Visibility(FALSE) /\ BackAfter(toPage, i, astray)
    BY <1>1, <1>5 DEF BackInv
  <2>2. ASSUME UNCHANGED toPage, UNCHANGED pageVars, astray \subseteq astray' PROVE Goal
    <3>1. \A i \in Int : BackAfter(toPage, i, astray) => BackAfter(toPage', i, astray')
      BY <2>2 DEF BackAfter, Harmless
    <3>2. active' = active /\ toPage' = toPage
      BY <2>2 DEF pageVars
    <3>3. CASE active \in astray \cup {None} /\ BackAfter(toPage, 0, astray)
      <4>1. BackAfter(toPage', 0, astray')
        BY <3>1, <3>3
      <4>2. active' \in astray' \cup {None}
        BY <2>2, <3>2, <3>3
      <4> QED
        BY <4>1, <4>2
    <3>4. ASSUME NEW i \in 1..Len(toPage), toPage[i] = Visibility(FALSE), BackAfter(toPage, i, astray)
          PROVE  Goal
      <4>1. BackAfter(toPage', i, astray')
        BY <3>1, <3>4
      <4>2. i \in 1..Len(toPage') /\ toPage'[i] = Visibility(FALSE)
        BY <3>2, <3>4
      <4> QED
        BY <4>1, <4>2, Zenon
    <3> QED
      BY <2>1, <3>3, <3>4
  <2>3. ASSUME NEW m \in PageMsg, toPage' = Append(toPage, m), Harmless(m, astray'),
               UNCHANGED pageVars, astray \subseteq astray'
        PROVE  Goal
    <3>1. \A i \in 0..Len(toPage) : BackAfter(toPage, i, astray) => BackAfter(toPage', i, astray')
      BY <1>3, <2>3, BackGrows
    <3>2. Len(toPage') = Len(toPage) + 1 /\ \A i \in 1..Len(toPage) : toPage'[i] = toPage[i]
      BY <1>3, <2>3, PortFacts
    <3>3. active' = active
      BY <2>3 DEF pageVars
    <3>4. 0 \in 0..Len(toPage) /\ \A i \in 1..Len(toPage) : i \in 0..Len(toPage) /\ i \in 1..Len(toPage')
      BY <1>3, <3>2
    <3> QED
      BY <2>1, <2>3, <3>1, <3>2, <3>3, <3>4
  <2>4. ASSUME NEW s \in Sid, Extension(s), UNCHANGED <<wires, pageVars, acts>> PROVE Goal
    BY <2>2, <2>4, ExtensionSays DEF IInv, wires
  <2>5. CASE /\ (\E s \in Sid : DaemonHears(s)) \/ DaemonServes \/ Keys
             /\ UNCHANGED pageVars
    <3>1. /\ astray \subseteq astray'
          /\ \/ UNCHANGED toPage
             \/ \E m \in PageMsg : toPage' = Append(toPage, m) /\ Harmless(m, astray')
      BY <1>1, <1>5, <2>5, HiddenTells
    <3> QED
      BY <2>2, <2>3, <2>5, <3>1
  <2>6. CASE PageHears /\ UNCHANGED daemonVars
    <3>1. UNCHANGED <<visible, astray>>
      BY <2>6 DEF daemonVars
    <3> QED
      BY <1>1, <1>5, <2>6, <3>1, PageBack
  <2>7. CASE PageUser
    BY <1>5, <2>7 DEF PageUser
  <2>8. CASE UNCHANGED vars
    BY <2>2, <2>8 DEF vars, wires, daemonVars
  <2> QED
    BY <2>4, <2>5, <2>6, <2>7, <2>8 DEF Next
<1> QED
  BY <1>4, <1>5

LEMMA QuietIsHidden ==
  ASSUME IInv, HiddenInv, BackInv
  PROVE  HiddenRunsNothing
PROOF
<1> SUFFICES ASSUME Quiet, ordered, ~visible
             PROVE  open \subseteq astray /\ active \in astray \cup {None}
  BY DEF HiddenRunsNothing
<1>1. \A s \in Sid : fromHost[s] = <<>> /\ worker[s] # "starting"
  BY DEF Quiet
<1>2. \A s \in Sid : ~Ahead(s)
  BY <1>1 DEF Ahead, AnswerDue, Range
<1>3. open \subseteq Sid
  BY PanelAssumption DEF IInv, HostInv, Sid
<1>4. \A i \in 1..Len(toPage) : FALSE
  BY DEF Quiet
<1> QED
  BY <1>2, <1>3, <1>4 DEF HiddenInv, BackInv

----------------------------------------------------------------------------
(* What the page is told of a session: that it is there, a batch, its end.  *)
Announces(m, s) == m.type \in {"started", "launched"} /\ m.info.sid = s
Draws(m, s) == m.type = "render" /\ m.sid = s
Kills(m, s) == m = Visibility(FALSE) \/ (m.type = "ended" /\ m.sid = s)

(* The j-th message is followed by one that takes s from the page, and so    *)
(* is every one that puts it there.                                         *)
KilledAfter(q, j, s) == \E i \in (j + 1)..Len(q) : Kills(q[i], s)
Doomed(q, s) ==
  \A j \in 1..Len(q) : Announces(q[j], s) /\ ~q[j].info.failed => KilledAfter(q, j, s)

LEMMA KillGrows ==
  ASSUME NEW q \in Seq(PageMsg), NEW m \in PageMsg, NEW s, NEW j \in 0..Len(q),
         KilledAfter(q, j, s) \/ Kills(m, s)
  PROVE  KilledAfter(Append(q, m), j, s)
PROOF
<1> DEFINE p == Append(q, m)
<1>1. /\ Len(q) \in Nat /\ Len(p) = Len(q) + 1 /\ p[Len(q) + 1] = m
      /\ \A i \in 1..Len(q) : p[i] = q[i]
  BY PortFacts
<1> HIDE DEF p
<1>2. CASE Kills(m, s)
  <2>1. Len(p) \in (j + 1)..Len(p) /\ p[Len(p)] = m
    BY <1>1
  <2> QED
    BY <1>2, <2>1 DEF KilledAfter, p
<1>3. CASE KilledAfter(q, j, s)
  <2>1. PICK i \in (j + 1)..Len(q) : Kills(q[i], s)
    BY <1>3 DEF KilledAfter
  <2>2. i \in (j + 1)..Len(p) /\ p[i] = q[i]
    BY <1>1
  <2> QED
    BY <2>1, <2>2 DEF KilledAfter, p
<1> QED
  BY <1>2, <1>3

LEMMA DoomGrows ==
  ASSUME NEW q \in Seq(PageMsg), NEW m \in PageMsg, NEW s,
         \/ Doomed(q, s) /\ (Announces(m, s) => m.info.failed)
         \/ Kills(m, s)
  PROVE  Doomed(Append(q, m), s)
PROOF
<1> DEFINE p == Append(q, m)
<1>1. /\ Len(q) \in Nat /\ Len(p) = Len(q) + 1 /\ p[Len(q) + 1] = m
      /\ \A i \in 1..Len(q) : p[i] = q[i]
  BY PortFacts
<1> HIDE DEF p
<1>2. Kills(m, s) => ~Announces(m, s)
  BY DEF Kills, Announces, Visibility
<1>3. ASSUME NEW j \in 1..Len(p), Announces(p[j], s), ~p[j].info.failed
      PROVE  KilledAfter(p, j, s)
  <2>1. j # Len(q) + 1
    BY <1>1, <1>2, <1>3
  <2>2. j \in 1..Len(q) /\ j \in 0..Len(q) /\ p[j] = q[j]
    BY <1>1, <2>1
  <2>3. KilledAfter(q, j, s) \/ Kills(m, s)
    BY <1>3, <2>2 DEF Doomed
  <2> QED
    BY <2>2, <2>3, KillGrows DEF p
<1> QED
  BY <1>3 DEF Doomed, p

LEMMA KillTakes ==
  ASSUME NEW q \in Seq(PageMsg), q # <<>>, NEW s
  PROVE  /\ \A j \in 1..Len(q) : KilledAfter(q, j, s) => KilledAfter(Tail(q), j - 1, s)
         /\ KilledAfter(q, 0, s) => KilledAfter(Tail(q), 0, s) \/ Kills(Head(q), s)
PROOF
<1> DEFINE p == Tail(q)
<1>1. /\ Len(q) \in Nat /\ Len(q) > 0 /\ Len(p) = Len(q) - 1 /\ Head(q) = q[1]
      /\ \A j \in 1..Len(p) : p[j] = q[j + 1]
  BY PortFacts
<1> HIDE DEF p
<1>2. ASSUME NEW j \in 1..Len(q), KilledAfter(q, j, s) PROVE KilledAfter(p, j - 1, s)
  <2>1. PICK i \in (j + 1)..Len(q) : Kills(q[i], s)
    BY <1>2 DEF KilledAfter
  <2>2. i - 1 \in (j - 1 + 1)..Len(p) /\ p[i - 1] = q[i - 1 + 1] /\ i - 1 + 1 = i
    BY <1>1
  <2> QED
    BY <2>1, <2>2 DEF KilledAfter
<1>3. ASSUME KilledAfter(q, 0, s), ~Kills(Head(q), s) PROVE KilledAfter(p, 0, s)
  <2>1. PICK i \in (0 + 1)..Len(q) : Kills(q[i], s)
    BY <1>3 DEF KilledAfter
  <2>2. i # 1
    BY <1>1, <1>3, <2>1
  <2>3. i - 1 \in (0 + 1)..Len(p) /\ p[i - 1] = q[i - 1 + 1] /\ i - 1 + 1 = i
    BY <1>1, <2>2
  <2> QED
    BY <2>1, <2>3 DEF KilledAfter
<1> QED
  BY <1>2, <1>3 DEF p

LEMMA DoomTakes ==
  ASSUME NEW q \in Seq(PageMsg), q # <<>>, NEW s, Doomed(q, s)
  PROVE  /\ Doomed(Tail(q), s)
         /\ Announces(Head(q), s) /\ ~Head(q).info.failed => KilledAfter(Tail(q), 0, s)
PROOF
<1> DEFINE p == Tail(q)
<1>1. /\ Len(q) \in Nat /\ Len(q) > 0 /\ Len(p) = Len(q) - 1 /\ Head(q) = q[1]
      /\ \A j \in 1..Len(p) : p[j] = q[j + 1]
  BY PortFacts
<1>2. \A j \in 1..Len(q) : KilledAfter(q, j, s) => KilledAfter(p, j - 1, s)
  BY KillTakes
<1> HIDE DEF p
<1>3. ASSUME NEW j \in 1..Len(p), Announces(p[j], s), ~p[j].info.failed
      PROVE  KilledAfter(p, j, s)
  <2>1. j + 1 \in 1..Len(q) /\ p[j] = q[j + 1] /\ j + 1 - 1 = j
    BY <1>1
  <2>2. KilledAfter(q, j + 1, s)
    BY <1>3, <2>1 DEF Doomed
  <2>3. KilledAfter(p, j + 1 - 1, s)
    BY <1>2, <2>1, <2>2
  <2> QED
    BY <2>1, <2>3
<1>4. ASSUME Announces(q[1], s), ~q[1].info.failed PROVE KilledAfter(p, 0, s)
  <2>1. 1 \in 1..Len(q) /\ 1 - 1 = 0
    BY <1>1
  <2>2. KilledAfter(p, 1 - 1, s)
    BY <1>2, <1>4, <2>1 DEF Doomed
  <2> QED
    BY <2>1, <2>2
<1> QED
  BY <1>1, <1>3, <1>4 DEF Doomed, p

(* No batch from r to top is missing behind the j-th message, and those of a *)
(* session come in the order of their revisions.                            *)
Complete(q, j, s, r, top) ==
  \A n \in (r + 1)..top : \E k \in (j + 1)..Len(q) : Draws(q[k], s) /\ q[k].rev = n
Rising(q, s) ==
  \A j, k \in 1..Len(q) : j < k /\ Draws(q[j], s) /\ Draws(q[k], s) => q[j].rev < q[k].rev
Steady(q, s, top) ==
  /\ Rising(q, s)
  /\ \A j \in 1..Len(q) : Draws(q[j], s) => q[j].rev <= top
  /\ \A j \in 1..Len(q) : Announces(q[j], s) =>
       q[j].info.rev <= top /\ Complete(q, j, s, q[j].info.rev, top)

LEMMA CompleteGrows ==
  ASSUME NEW q \in Seq(PageMsg), NEW m \in PageMsg, NEW s, NEW j \in 0..Len(q),
         NEW r \in Nat, NEW top \in Nat, NEW higher \in Nat,
         Draws(m, s) => m.rev = top + 1,
         higher = IF Draws(m, s) THEN top + 1 ELSE top,
         Complete(q, j, s, r, top)
  PROVE  Complete(Append(q, m), j, s, r, higher)
PROOF
<1> DEFINE p == Append(q, m)
<1>1. /\ Len(q) \in Nat /\ Len(p) = Len(q) + 1 /\ p[Len(q) + 1] = m
      /\ \A i \in 1..Len(q) : p[i] = q[i]
  BY PortFacts
<1> HIDE DEF p
<1>2. ASSUME NEW n \in (r + 1)..higher
      PROVE  \E k \in (j + 1)..Len(p) : Draws(p[k], s) /\ p[k].rev = n
  <2>1. CASE n \in (r + 1)..top
    <3>1. PICK k \in (j + 1)..Len(q) : Draws(q[k], s) /\ q[k].rev = n
      BY <2>1 DEF Complete
    <3>2. k \in (j + 1)..Len(p) /\ p[k] = q[k]
      BY <1>1
    <3> QED
      BY <3>1, <3>2
  <2>2. CASE n \notin (r + 1)..top
    <3>1. Draws(m, s) /\ n = top + 1
      BY <2>2
    <3>2. Len(q) + 1 \in (j + 1)..Len(p)
      BY <1>1
    <3> QED
      BY <1>1, <3>1, <3>2
  <2> QED
    BY <2>1, <2>2
<1> QED
  BY <1>2 DEF Complete, p

LEMMA SteadyGrows ==
  ASSUME NEW q \in Seq(PageMsg), NEW m \in PageMsg, NEW s,
         NEW top \in Nat, NEW higher \in Nat,
         Draws(m, s) => m.rev = top + 1,
         higher = IF Draws(m, s) THEN top + 1 ELSE top,
         Announces(m, s) => m.info.rev = top,
         Steady(q, s, top)
  PROVE  Steady(Append(q, m), s, higher)
PROOF
<1> DEFINE p == Append(q, m)
<1>1. /\ Len(q) \in Nat /\ Len(p) = Len(q) + 1 /\ p[Len(q) + 1] = m
      /\ \A i \in 1..Len(q) : p[i] = q[i] /\ q[i] \in PageMsg
  BY PortFacts
<1> HIDE DEF p
<1>2. top <= higher /\ (Announces(m, s) => higher = top)
  BY DEF Draws, Announces
<1>3. \A i \in 1..Len(q) : /\ Draws(q[i], s) => q[i].rev \in Nat /\ q[i].rev <= top
                           /\ Announces(q[i], s) => q[i].info.rev \in Nat /\ q[i].info.rev <= top
  BY <1>1, PageMessagesHold DEF Draws, Announces, Genuine, Steady
<1>4. Rising(p, s)
  <2> SUFFICES ASSUME NEW j \in 1..Len(p), NEW k \in 1..Len(p), j < k, Draws(p[j], s), Draws(p[k], s)
               PROVE  p[j].rev < p[k].rev
    BY DEF Rising
  <2>1. j \in 1..Len(q) /\ p[j] = q[j]
    BY <1>1
  <2>2. CASE k = Len(q) + 1
    BY <1>1, <1>3, <2>1, <2>2
  <2>3. CASE k # Len(q) + 1
    <3>1. k \in 1..Len(q) /\ p[k] = q[k]
      BY <1>1, <2>3
    <3> QED
      BY <2>1, <3>1 DEF Steady, Rising
  <2> QED
    BY <2>2, <2>3
<1>5. ASSUME NEW j \in 1..Len(p), Draws(p[j], s) PROVE p[j].rev <= higher
  <2>1. CASE j = Len(q) + 1
    BY <1>1, <1>5, <2>1
  <2>2. CASE j # Len(q) + 1
    <3>1. j \in 1..Len(q) /\ p[j] = q[j]
      BY <1>1, <2>2
    <3> QED
      BY <1>2, <1>3, <1>5, <3>1
  <2> QED
    BY <2>1, <2>2
<1>6. ASSUME NEW j \in 1..Len(p), Announces(p[j], s)
      PROVE  p[j].info.rev <= higher /\ Complete(p, j, s, p[j].info.rev, higher)
  <2>1. CASE j = Len(q) + 1
    <3>1. p[j].info.rev = top /\ higher = top
      BY <1>1, <1>2, <1>6, <2>1
    <3>2. \A n \in (top + 1)..top : FALSE
      OBVIOUS
    <3> QED
      BY <3>1, <3>2 DEF Complete
  <2>2. CASE j # Len(q) + 1
    <3>1. j \in 1..Len(q) /\ j \in 0..Len(q) /\ p[j] = q[j]
      BY <1>1, <2>2
    <3>2. q[j].info.rev \in Nat /\ q[j].info.rev <= top /\ Complete(q, j, s, q[j].info.rev, top)
      BY <1>3, <1>6, <3>1 DEF Steady
    <3>3. Complete(p, j, s, q[j].info.rev, higher)
      BY <3>1, <3>2, CompleteGrows DEF p
    <3> QED
      BY <1>2, <3>1, <3>2, <3>3
  <2> QED
    BY <2>1, <2>2
<1> QED
  BY <1>4, <1>5, <1>6 DEF Steady, p

LEMMA CompleteTakes ==
  ASSUME NEW q \in Seq(PageMsg), q # <<>>, NEW s, NEW r \in Nat, NEW top \in Nat
  PROVE  /\ \A j \in 1..Len(q) : Complete(q, j, s, r, top) => Complete(Tail(q), j - 1, s, r, top)
         /\ Complete(q, 0, s, r, top) /\ (Draws(Head(q), s) => Head(q).rev <= r)
              => Complete(Tail(q), 0, s, r, top)
         /\ Complete(q, 0, s, r, top) /\ Draws(Head(q), s) /\ Head(q).rev = r + 1
              => Complete(Tail(q), 0, s, r + 1, top)
PROOF
<1> DEFINE p == Tail(q)
<1>1. /\ Len(q) \in Nat /\ Len(q) > 0 /\ Len(p) = Len(q) - 1 /\ Head(q) = q[1]
      /\ \A j \in 1..Len(p) : p[j] = q[j + 1]
  BY PortFacts
<1> HIDE DEF p
<1>2. ASSUME NEW j \in 0..Len(q), NEW n \in Nat,
             \E k \in (j + 1)..Len(q) : Draws(q[k], s) /\ q[k].rev = n,
             j > 0 \/ ~Draws(q[1], s) \/ q[1].rev # n
      PROVE  \E k \in (IF j = 0 THEN 1 ELSE j)..Len(p) : Draws(p[k], s) /\ p[k].rev = n
  <2>1. PICK k \in (j + 1)..Len(q) : Draws(q[k], s) /\ q[k].rev = n
    BY <1>2
  <2>2. k # 1
    BY <1>2, <2>1
  <2>3. k - 1 \in (IF j = 0 THEN 1 ELSE j)..Len(p) /\ p[k - 1] = q[k - 1 + 1] /\ k - 1 + 1 = k
    BY <1>1, <2>2
  <2> QED
    BY <2>1, <2>3
<1>3. ASSUME NEW j \in 1..Len(q), Complete(q, j, s, r, top) PROVE Complete(p, j - 1, s, r, top)
  <2> SUFFICES ASSUME NEW n \in (r + 1)..top
               PROVE  \E k \in (j - 1 + 1)..Len(p) : Draws(p[k], s) /\ p[k].rev = n
    BY DEF Complete
  <2>1. \E k \in (j + 1)..Len(q) : Draws(q[k], s) /\ q[k].rev = n
    BY <1>3 DEF Complete
  <2>2. \E k \in (IF j = 0 THEN 1 ELSE j)..Len(p) : Draws(p[k], s) /\ p[k].rev = n
    BY <1>2, <2>1
  <2>3. (IF j = 0 THEN 1 ELSE j) = j - 1 + 1
    OBVIOUS
  <2> QED
    BY <2>2, <2>3
<1>4. ASSUME Complete(q, 0, s, r, top), NEW n \in (r + 1)..top, ~Draws(q[1], s) \/ q[1].rev # n
      PROVE  \E k \in (0 + 1)..Len(p) : Draws(p[k], s) /\ p[k].rev = n
  <2>1. \E k \in (0 + 1)..Len(q) : Draws(q[k], s) /\ q[k].rev = n
    BY <1>4 DEF Complete
  <2>2. 0 \in 0..Len(q) /\ n \in Nat
    BY <1>1
  <2>3. \E k \in (IF 0 = 0 THEN 1 ELSE 0)..Len(p) : Draws(p[k], s) /\ p[k].rev = n
    BY <1>2, <1>4, <2>1, <2>2
  <2> QED
    BY <2>3
<1>5. ASSUME Complete(q, 0, s, r, top), Draws(q[1], s) => q[1].rev <= r
      PROVE  Complete(p, 0, s, r, top)
  <2>1. ASSUME NEW n \in (r + 1)..top PROVE ~Draws(q[1], s) \/ q[1].rev # n
    BY <1>5
  <2> QED
    BY <1>4, <1>5, <2>1 DEF Complete
<1>6. ASSUME Complete(q, 0, s, r, top), Draws(q[1], s), q[1].rev = r + 1
      PROVE  Complete(p, 0, s, r + 1, top)
  <2>1. ASSUME NEW n \in (r + 1 + 1)..top PROVE n \in (r + 1)..top /\ q[1].rev # n
    BY <1>6
  <2> QED
    BY <1>4, <1>6, <2>1 DEF Complete
<1> QED
  BY <1>1, <1>3, <1>5, <1>6 DEF p

(* What stands in front is the next batch, if it is news.                   *)
LEMMA NextDrawn ==
  ASSUME NEW q \in Seq(PageMsg), q # <<>>, NEW s, NEW r \in Nat, NEW top \in Nat,
         Steady(q, s, top), Complete(q, 0, s, r, top), Draws(Head(q), s), ~(Head(q).rev <= r)
  PROVE  Head(q).rev = r + 1
PROOF
<1>1. /\ Len(q) \in Nat /\ Len(q) > 0 /\ Head(q) = q[1] /\ Head(q) \in PageMsg
      /\ 1 \in 1..Len(q)
  BY PortFacts
<1>2. Head(q).rev \in Nat
  BY <1>1, PageMessagesHold DEF Draws
<1>3. Head(q).rev <= top
  BY <1>1 DEF Steady
<1>4. r + 1 \in (r + 1)..top
  BY <1>2, <1>3
<1>5. PICK k \in (0 + 1)..Len(q) : Draws(q[k], s) /\ q[k].rev = r + 1
  BY <1>4 DEF Complete
<1>6. k = 1 \/ (1 < k /\ k \in 1..Len(q))
  BY <1>1
<1>7. 1 < k => q[1].rev < q[k].rev
  BY <1>1, <1>5, <1>6 DEF Steady, Rising
<1> QED
  BY <1>1, <1>2, <1>5, <1>6, <1>7

LEMMA SteadyTakes ==
  ASSUME NEW q \in Seq(PageMsg), q # <<>>, NEW s, NEW top \in Nat, Steady(q, s, top)
  PROVE  /\ Steady(Tail(q), s, top)
         /\ Announces(Head(q), s) => /\ Head(q).info.rev <= top
                                     /\ Complete(Tail(q), 0, s, Head(q).info.rev, top)
PROOF
<1> DEFINE p == Tail(q)
<1>1. /\ Len(q) \in Nat /\ Len(q) > 0 /\ Len(p) = Len(q) - 1 /\ Head(q) = q[1]
      /\ \A j \in 1..Len(p) : p[j] = q[j + 1]
      /\ \A j \in 1..Len(q) : q[j] \in PageMsg
  BY PortFacts
<1>2. \A j \in 1..Len(q) : Announces(q[j], s) =>
         /\ q[j].info.rev \in Nat /\ q[j].info.rev <= top
         /\ Complete(p, j - 1, s, q[j].info.rev, top)
  <2> SUFFICES ASSUME NEW j \in 1..Len(q), Announces(q[j], s)
               PROVE  /\ q[j].info.rev \in Nat /\ q[j].info.rev <= top
                      /\ Complete(p, j - 1, s, q[j].info.rev, top)
    OBVIOUS
  <2>1. q[j].info.rev \in Nat
    BY <1>1, PageMessagesHold DEF Announces, Genuine
  <2>2. q[j].info.rev <= top /\ Complete(q, j, s, q[j].info.rev, top)
    BY DEF Steady
  <2> QED
    BY <2>1, <2>2, CompleteTakes
<1> HIDE DEF p
<1>3. \A j \in 1..Len(p) : j + 1 \in 1..Len(q) /\ p[j] = q[j + 1] /\ j + 1 - 1 = j
  BY <1>1
<1>4. Rising(p, s)
  <2> SUFFICES ASSUME NEW j \in 1..Len(p), NEW k \in 1..Len(p), j < k, Draws(p[j], s), Draws(p[k], s)
               PROVE  p[j].rev < p[k].rev
    BY DEF Rising
  <2>1. j + 1 < k + 1
    OBVIOUS
  <2> QED
    BY <1>3, <2>1 DEF Steady, Rising
<1>5. \A j \in 1..Len(p) : Draws(p[j], s) => p[j].rev <= top
  BY <1>3 DEF Steady
<1>6. ASSUME NEW j \in 1..Len(p), Announces(p[j], s)
      PROVE  p[j].info.rev <= top /\ Complete(p, j, s, p[j].info.rev, top)
  <2>1. q[j + 1].info.rev <= top /\ Complete(p, j + 1 - 1, s, q[j + 1].info.rev, top)
    BY <1>2, <1>3, <1>6
  <2> QED
    BY <1>3, <2>1
<1>7. Announces(q[1], s) => q[1].info.rev <= top /\ Complete(p, 0, s, q[1].info.rev, top)
  <2>1. 1 \in 1..Len(q) /\ 1 - 1 = 0
    BY <1>1
  <2>2. Announces(q[1], s) => q[1].info.rev <= top /\ Complete(p, 1 - 1, s, q[1].info.rev, top)
    BY <1>2, <2>1
  <2> QED
    BY <2>1, <2>2
<1> QED
  BY <1>1, <1>4, <1>5, <1>6, <1>7 DEF Steady, p

----------------------------------------------------------------------------
(* At most one message of a sequence is of a kind.                          *)
Once(q, kind) == \A i, j \in 1..Len(q) : q[i] \in kind /\ q[j] \in kind => i = j

LEMMA OnceGrows ==
  ASSUME NEW S, NEW q \in Seq(S), NEW m \in S, NEW kind, Once(q, kind),
         m \notin kind \/ \A e \in Range(q) : e \notin kind
  PROVE  Once(Append(q, m), kind)
PROOF
<1> DEFINE p == Append(q, m)
<1>1. /\ Len(q) \in Nat /\ Len(p) = Len(q) + 1 /\ p[Len(q) + 1] = m
      /\ \A i \in 1..Len(q) : p[i] = q[i]
  BY PortFacts
<1>2. \A i \in 1..Len(q) : q[i] \in Range(q)
  BY DEF Range
<1> HIDE DEF p
<1> SUFFICES ASSUME NEW i \in 1..Len(p), NEW j \in 1..Len(p), p[i] \in kind, p[j] \in kind
             PROVE  i = j
  BY DEF Once, p
<1>3. CASE m \notin kind
  <2>1. i \in 1..Len(q) /\ j \in 1..Len(q)
    BY <1>1, <1>3
  <2> QED
    BY <1>1, <2>1 DEF Once
<1>4. CASE \A e \in Range(q) : e \notin kind
  <2>1. \A k \in 1..Len(p) : p[k] \in kind => k = Len(q) + 1
    BY <1>1, <1>2, <1>4
  <2> QED
    BY <2>1
<1> QED
  BY <1>3, <1>4

LEMMA OnceTakes ==
  ASSUME NEW S, NEW q \in Seq(S), q # <<>>, NEW kind, Once(q, kind)
  PROVE  /\ Once(Tail(q), kind)
         /\ Head(q) \in kind => \A e \in Range(Tail(q)) : e \notin kind
PROOF
<1> DEFINE p == Tail(q)
<1>1. /\ Len(q) \in Nat /\ Len(q) > 0 /\ Len(p) = Len(q) - 1 /\ Head(q) = q[1]
      /\ \A j \in 1..Len(p) : p[j] = q[j + 1]
      /\ p \in Seq(S)
  BY PortFacts
<1> HIDE DEF p
<1>2. \A j \in 1..Len(p) : j + 1 \in 1..Len(q) /\ p[j] = q[j + 1]
  BY <1>1
<1>3. Once(p, kind)
  <2> SUFFICES ASSUME NEW i \in 1..Len(p), NEW j \in 1..Len(p), p[i] \in kind, p[j] \in kind
               PROVE  i = j
    BY DEF Once
  <2>1. i + 1 = j + 1
    BY <1>2 DEF Once
  <2> QED
    BY <2>1
<1>4. ASSUME Head(q) \in kind, NEW e \in Range(p) PROVE e \notin kind
  <2>1. PICK j \in 1..Len(p) : p[j] = e
    BY <1>1 DEF Range
  <2>2. 1 \in 1..Len(q) /\ j + 1 # 1
    BY <1>1
  <2> QED
    BY <1>1, <1>2, <1>4, <2>1, <2>2 DEF Once
<1> QED
  BY <1>3, <1>4 DEF p

(* A launch is answered once, told to the page once, and never closed before *)
(* it was shown.                                                            *)
AnswerMsgs == {m \in HostMsg : m.kind \in Answers}
Announcing(s) == {m \in PageMsg : Announces(m, s)}
Told(s) == \E m \in Range(toPage) : m \in Announcing(s)
Closing(s) == \E m \in Range(fromPage) : m.type = "close" /\ m.sid = s

OnceOf(s) ==
  /\ worker[s] = "starting" => ~AnswerDue(s)
  /\ Once(fromHost[s], AnswerMsgs)
  /\ Once(toPage, Announcing(s))
  /\ Ahead(s) => ~Told(s) /\ active # s
  /\ Told(s) => active # s
  /\ Closing(s) => s <= minted /\ ~Ahead(s) /\ ~Told(s) /\ active # s

DaemonMoves == (\E s \in Sid : DaemonHears(s)) \/ DaemonServes \/ Keys

LEMMA DaemonTakes ==
  ASSUME IInv, DaemonMoves, NEW s \in Sid
  PROVE  /\ \/ fromHost'[s] = fromHost[s]
            \/ fromHost[s] # <<>> /\ fromHost'[s] = Tail(fromHost[s])
         /\ worker'[s] = worker[s] \/ s > minted
         /\ minted' >= minted
         /\ Range(fromPage') \subseteq Range(fromPage)
PROOF
<1>1. /\ fromHost \in [Sid -> Seq(HostMsg)] /\ minted \in 0..MaxSid /\ MaxSid \in Nat
      /\ worker \in [Sid -> {"none", "starting", "on", "over"}]
      /\ fromPage \in Seq(AskMsg)
  BY PanelAssumption DEF IInv, HostInv, WireInv
<1>2. \A who : NewSession(who) => /\ worker'[s] = worker[s] \/ s > minted
                                  /\ minted' >= minted
  BY <1>1 DEF NewSession, Fresh
<1>3. UNCHANGED <<minted, worker>> => /\ worker'[s] = worker[s] \/ s > minted
                                      /\ minted' >= minted
  BY <1>1
<1>4. ASSUME NEW t \in Sid, DaemonHears(t)
      PROVE  /\ \/ fromHost'[s] = fromHost[s]
                \/ fromHost[s] # <<>> /\ fromHost'[s] = Tail(fromHost[s])
             /\ worker'[s] = worker[s] \/ s > minted
             /\ minted' >= minted
             /\ UNCHANGED fromPage
  <2>1. PICK k : Hears(t, k)
    BY <1>4 DEF DaemonHears, HearRender, HearCreated, HearRefused, HearFailed, HearEnded, HearLaunch
  <2>2. \/ fromHost'[s] = fromHost[s]
        \/ fromHost[s] # <<>> /\ fromHost'[s] = Tail(fromHost[s])
    BY <1>1, <2>1 DEF Hears
  <2>3. UNCHANGED <<minted, worker>> \/ \E who : NewSession(who)
    BY <1>4 DEF DaemonHears, HearRender, HearCreated, HearRefused, HearFailed, HearEnded, HearLaunch, Same
  <2>4. UNCHANGED fromPage
    BY <1>4 DEF DaemonHears, HearRender, HearCreated, HearRefused, HearFailed, HearEnded, HearLaunch, Same, wires
  <2> QED
    BY <1>2, <1>3, <2>2, <2>3, <2>4
<1>5. ASSUME DaemonServes \/ Keys
      PROVE  /\ fromHost' = fromHost
             /\ worker'[s] = worker[s] \/ s > minted
             /\ minted' >= minted
  <2>1. fromHost' = fromHost
    BY <1>5 DEF DaemonServes, ServeLaunch, ServeHide, ServeClose, ServeAttach, Still, Keys,
       VerbShow, VerbHide, VerbOpen, Rest
  <2>2. UNCHANGED <<minted, worker>> \/ \E who : NewSession(who)
    BY <1>5 DEF DaemonServes, ServeLaunch, ServeHide, ServeClose, ServeAttach, Keys,
       VerbShow, VerbHide, VerbOpen
  <2> QED
    BY <1>2, <1>3, <2>1, <2>2
<1>6. ASSUME DaemonServes PROVE Range(fromPage') \subseteq Range(fromPage)
  <2>1. fromPage # <<>> /\ fromPage' = Tail(fromPage)
    BY <1>6 DEF DaemonServes, ServeLaunch, ServeHide, ServeClose, ServeAttach, Asked
  <2> QED
    BY <1>1, <2>1, WireHolds
<1>7. Keys => UNCHANGED fromPage
  BY DEF Keys, VerbShow, VerbHide, VerbOpen, Rest
<1> QED
  BY <1>4, <1>5, <1>6, <1>7 DEF DaemonMoves

(* The answers stay single while the daemon takes them.                     *)
LEMMA AnswersOnce ==
  ASSUME IInv, DaemonMoves, NEW s \in Sid,
         worker[s] = "starting" => ~AnswerDue(s), Once(fromHost[s], AnswerMsgs)
  PROVE  /\ worker'[s] = "starting" => ~AnswerDue(s)'
         /\ Once(fromHost'[s], AnswerMsgs)
         /\ Ahead(s)' => Ahead(s) \/ s > minted
PROOF
<1>1. /\ \/ fromHost'[s] = fromHost[s]
         \/ fromHost[s] # <<>> /\ fromHost'[s] = Tail(fromHost[s])
      /\ worker'[s] = worker[s] \/ s > minted
  BY DaemonTakes
<1>2. fromHost[s] \in Seq(HostMsg) /\ (s > minted => fromHost[s] = <<>>)
  BY DEF IInv, HostInv
<1>3. Once(fromHost'[s], AnswerMsgs)
  BY <1>1, <1>2, OnceTakes
<1>4. Range(fromHost'[s]) \subseteq Range(fromHost[s])
  BY <1>1, <1>2, WireHolds
<1>5. AnswerDue(s)' => AnswerDue(s)
  BY <1>4 DEF AnswerDue
<1>6. s > minted => ~AnswerDue(s)
  BY <1>2 DEF AnswerDue, Range
<1> QED
  BY <1>1, <1>3, <1>5, <1>6 DEF Ahead

LEMMA AnsweredOnce ==
  ASSUME IInv, NEW s \in Sid, OnceOf(s), NEW k \in Answers, Hears(s, k), UNCHANGED worker
  PROVE  Ahead(s) /\ ~Ahead(s)'
PROOF
<1>1. /\ fromHost[s] \in Seq(HostMsg) /\ fromHost[s] # <<>> /\ Head(fromHost[s]).kind = k
      /\ fromHost'[s] = Tail(fromHost[s])
  BY DEF IInv, HostInv, Hears
<1>2. Head(fromHost[s]) \in AnswerMsgs /\ Head(fromHost[s]) \in Range(fromHost[s])
  BY <1>1, PortFacts, WireHolds DEF AnswerMsgs
<1>3. AnswerDue(s)
  BY <1>1, <1>2 DEF AnswerDue
<1>4. \A e \in Range(Tail(fromHost[s])) : e \notin AnswerMsgs
  BY <1>1, <1>2, OnceTakes DEF OnceOf
<1>5. Range(Tail(fromHost[s])) \subseteq HostMsg
  BY <1>1, PortFacts, WireHolds
<1>6. ~AnswerDue(s)'
  BY <1>1, <1>4, <1>5 DEF AnswerDue, AnswerMsgs
<1> QED
  BY <1>3, <1>6 DEF Ahead, OnceOf

----------------------------------------------------------------------------
LEMMA RenderTells ==
  ASSUME IInv, NEW s \in open, HearRender(s), asker[s] # "background"
  PROVE  \E m \in PageMsg :
           /\ m = [type |-> "render", sid |-> s, rev |-> mRev[s] + 1]
           /\ toPage' = Append(toPage, m)
           /\ mRev' = [mRev EXCEPT ![s] = mRev[s] + 1]
PROOF
<1>1. PICK m : m = [type |-> "render", sid |-> s, rev |-> mRev[s] + 1]
  OBVIOUS
<1>2. /\ s \in Sid /\ mRev[s] \in Nat /\ toPage' = toPage \o <<m>> /\ UNCHANGED replies
      /\ mRev' = [mRev EXCEPT ![s] = mRev[s] + 1]
  BY <1>1, NextBatch DEF IInv
<1>3. m \in PageMsg
  BY <1>1, <1>2, PageMessages
<1>4. toPage' = Append(toPage, m)
  BY <1>2, <1>3, PushAppends DEF IInv, Push
<1> QED
  BY <1>1, <1>2, <1>3, <1>4

(* A session started in the background is one the page is told nothing of.  *)
LEMMA BackgroundTells ==
  ASSUME IInv, NEW s \in Sid, asker[s] = "background",
         HearCreated(s) \/ (s \in open /\ HearRender(s))
  PROVE  UNCHANGED toPage
PROOF
  BY NextBatch DEF IInv, HearCreated

LEMMA CreatedHears ==
  ASSUME NEW s, HearCreated(s)
  PROVE  UNCHANGED <<open, astray, mRev, mFailed, worker>> /\ Hears(s, "created")
PROOF
  BY DEF HearCreated, Same

LEMMA CreatedTells ==
  ASSUME IInv, ordered, NEW s \in Sid, HearCreated(s), asker[s] # "background"
  PROVE  \E m \in PageMsg :
           /\ Announces(m, s) /\ m.info.rev = mRev[s] /\ (m.info.failed <=> s \in mFailed)
           /\ \/ toPage' = Append(toPage, m)
              \/ toPage' = Append(Append(toPage, m), Visibility(TRUE))
PROOF
<1>1. HostInv /\ WireInv
  BY DEF IInv
<1>2. CASE asker[s] = "row"
  <2>1. PICK m : m = [type |-> "launched", info |-> Info(s, "no")]
    OBVIOUS
  <2>2. m \in PageMsg
    BY <1>1, <2>1, InfoIsGenuine, PageMessages
  <2>3. toPage' = Append(toPage, m)
    BY <1>2, <2>1 DEF HearCreated, Reply
  <2>4. Announces(m, s) /\ m.info.rev = mRev[s] /\ (m.info.failed <=> s \in mFailed)
    BY <2>1 DEF Announces, Info
  <2> QED
    BY <1>1, <2>2, <2>3, <2>4
<1>3. CASE asker[s] # "row"
  <2>1. PICK alone \in {"yes", "unsaid"} :
          Push(<<[type |-> "started", info |-> Info(s, alone)], Visibility(TRUE)>>)
    BY <1>3 DEF HearCreated
  <2>2. PICK m : m = [type |-> "started", info |-> Info(s, alone)]
    OBVIOUS
  <2>3. m \in PageMsg /\ Visibility(TRUE) \in PageMsg
    BY <1>1, <2>2, InfoIsGenuine, PageMessages
  <2>4. toPage' = Append(Append(toPage, m), Visibility(TRUE))
    BY <1>1, <2>1, <2>2, <2>3, PushAppends
  <2>5. Announces(m, s) /\ m.info.rev = mRev[s] /\ (m.info.failed <=> s \in mFailed)
    BY <2>2 DEF Announces, Info
  <2> QED
    BY <1>1, <2>3, <2>4, <2>5
<1> QED
  BY <1>2, <1>3

(* What the daemon says to the page in one step.                            *)
LEMMA DaemonTells ==
  ASSUME IInv, ordered, DaemonMoves, ~ServeAttach
  PROVE  \/ UNCHANGED <<toPage, mRev>>
         \/ /\ UNCHANGED mRev
            /\ \E m \in PageMsg : m.type \in {"visibility", "ended"} /\ toPage' = Append(toPage, m)
         \/ \E s \in open : HearRender(s)
         \/ \E s \in Sid : HearCreated(s)
PROOF
<1> DEFINE Plain == \/ UNCHANGED <<toPage, mRev>>
                    \/ /\ UNCHANGED mRev
                       /\ \E m \in PageMsg : /\ m.type \in {"visibility", "ended"}
                                             /\ toPage' = Append(toPage, m)
<1>1. WireInv
  BY DEF IInv
<1>2. ASSUME NEW shown \in BOOLEAN, Push(<<Visibility(shown)>>), UNCHANGED mRev PROVE Plain
  <2>1. toPage' = Append(toPage, Visibility(shown)) /\ Visibility(shown) \in PageMsg
    BY <1>1, <1>2, PushAppends, PageMessages
  <2>2. Visibility(shown).type = "visibility"
    BY DEF Visibility
  <2> QED
    BY <1>2, <2>1, <2>2
<1>3. ASSUME Hides, UNCHANGED mRev PROVE Plain
  BY <1>2, <1>3 DEF Hides
<1>4. ASSUME NEW s \in Sid, HearFailed(s) \/ HearEnded(s) PROVE Plain
  <2>1. PICK crashed \in BOOLEAN : Push(<<Ended(s, crashed)>>) /\ UNCHANGED mRev
    BY <1>4 DEF HearFailed, HearEnded
  <2>2. toPage' = Append(toPage, Ended(s, crashed)) /\ Ended(s, crashed) \in PageMsg
    BY <1>1, <2>1, PushAppends, PageMessages
  <2>3. Ended(s, crashed).type = "ended"
    BY DEF Ended
  <2> QED
    BY <2>1, <2>2, <2>3
<1>5. ASSUME NEW s \in Sid, HearRefused(s) \/ HearLaunch(s) PROVE Plain
  BY <1>5 DEF HearRefused, HearLaunch, wires
<1>6. ASSUME NEW s \in Sid, HearRender(s), s \notin open PROVE Plain
  BY <1>6 DEF HearRender
<1>7. ASSUME ServeLaunch \/ ServeHide \/ ServeClose PROVE Plain
  BY <1>3, <1>7 DEF ServeLaunch, ServeHide, ServeClose, Still
<1>8. ASSUME Keys PROVE Plain
  BY <1>2, <1>3, <1>8 DEF Keys, VerbShow, VerbHide, VerbOpen, Rest
<1> QED
  BY <1>4, <1>5, <1>6, <1>7, <1>8 DEF DaemonMoves, DaemonHears, DaemonServes

(* Announcements only come from answered launches.                          *)
LEMMA AnnouncedOnce ==
  ASSUME IInv, ordered, DaemonMoves, ~ServeAttach,
         NEW s \in Sid, OnceOf(s)
  PROVE  /\ Once(toPage', Announcing(s))
         /\ Told(s)' => Told(s) \/ HearCreated(s)
PROOF
<1>1. toPage \in Seq(PageMsg) /\ Once(toPage, Announcing(s))
  BY DEF IInv, WireInv, OnceOf
<1>2. \A m \in PageMsg : Append(toPage, m) \in Seq(PageMsg)
                         /\ Range(Append(toPage, m)) = Range(toPage) \cup {m}
  BY <1>1, Joins, WireHolds
<1>3. ASSUME NEW m \in PageMsg, ~Announces(m, s), toPage' = Append(toPage, m)
      PROVE  Once(toPage', Announcing(s)) /\ (Told(s)' => Told(s))
  <2>1. m \notin Announcing(s)
    BY <1>3 DEF Announcing
  <2>2. Once(toPage', Announcing(s))
    BY <1>1, <1>3, <2>1, OnceGrows
  <2> QED
    BY <1>2, <1>3, <2>1, <2>2 DEF Told, Announcing
<1>4. ASSUME UNCHANGED toPage PROVE Once(toPage', Announcing(s)) /\ (Told(s)' => Told(s))
  BY <1>1, <1>4 DEF Told, Announcing
<1>5. ASSUME NEW m \in PageMsg, m.type \in {"visibility", "ended"}, toPage' = Append(toPage, m)
      PROVE  Once(toPage', Announcing(s)) /\ (Told(s)' => Told(s))
  BY <1>3, <1>5 DEF Announces
<1>6. ASSUME NEW t \in open, HearRender(t), asker[t] # "background"
      PROVE  Once(toPage', Announcing(s)) /\ (Told(s)' => Told(s))
  <2>1. PICK m \in PageMsg : /\ m = [type |-> "render", sid |-> t, rev |-> mRev[t] + 1]
                             /\ toPage' = Append(toPage, m)
    BY <1>6, RenderTells
  <2> QED
    BY <1>3, <2>1 DEF Announces
<1>7. ASSUME NEW t \in Sid, HearCreated(t), asker[t] # "background"
      PROVE  Once(toPage', Announcing(s)) /\ (Told(s)' => Told(s) \/ t = s)
  <2>1. PICK m \in PageMsg : /\ Announces(m, t)
                             /\ \/ toPage' = Append(toPage, m)
                                \/ toPage' = Append(Append(toPage, m), Visibility(TRUE))
    BY <1>7, CreatedTells
  <2>2. PICK v \in PageMsg : v = Visibility(TRUE)
    BY PageMessages
  <2>3. PICK p \in Seq(PageMsg) : p = Append(toPage, m) /\ Range(p) = Range(toPage) \cup {m}
    BY <1>2
  <2>4. m \in Announcing(s) => t = s
    BY <2>1 DEF Announcing, Announces
  <2>5. v \notin Announcing(s)
    BY <2>2 DEF Announcing, Announces, Visibility
  <2>6. Once(p, Announcing(s))
    <3>1. m \notin Announcing(s) \/ \A e \in Range(toPage) : e \notin Announcing(s)
      <4>1. CASE t = s
        <5>1. Ahead(s)
          BY <1>7, <4>1, AnsweredOnce, CreatedHears DEF Answers
        <5> QED
          BY <5>1 DEF OnceOf, Told
      <4> QED
        BY <2>4, <4>1
    <3> QED
      BY <1>1, <2>3, <3>1, OnceGrows
  <2>7. Once(Append(p, v), Announcing(s)) /\ Range(Append(p, v)) = Range(p) \cup {v}
    <3>1. Once(Append(p, v), Announcing(s))
      BY <2>5, <2>6, OnceGrows
    <3> QED
      BY <3>1, WireHolds
  <2>8. toPage' = p \/ toPage' = Append(p, v)
    BY <2>1, <2>2, <2>3
  <2>9. Once(toPage', Announcing(s)) /\ Range(toPage') \subseteq Range(toPage) \cup {m, v}
    BY <2>3, <2>6, <2>7, <2>8
  <2> QED
    BY <2>4, <2>5, <2>9 DEF Told, Announcing
<1>8. ASSUME NEW t \in Sid, asker[t] = "background", HearCreated(t) \/ (t \in open /\ HearRender(t))
      PROVE  Once(toPage', Announcing(s)) /\ (Told(s)' => Told(s))
  BY <1>4, <1>8, BackgroundTells
<1>9. open \subseteq Sid
  BY PanelAssumption DEF IInv, HostInv, Sid
<1> QED
  BY <1>4, <1>5, <1>6, <1>7, <1>8, <1>9, DaemonTells

----------------------------------------------------------------------------
OnceInv == \A s \in Sid : OnceOf(s)

(* Where order is kept nothing is fetched.                                  *)
NoFetch ==
  /\ resyncing = None
  /\ \A m \in Range(toPage) : m.type # "attached"
  /\ \A m \in Range(fromPage) : m.type # "attach"

LEMMA NothingAsked ==
  ASSUME IInv, NoFetch
  PROVE  ~ServeAttach
PROOF
<1> SUFFICES ASSUME ServeAttach PROVE FALSE
  OBVIOUS
<1>1. fromPage \in Seq(AskMsg) /\ fromPage # <<>> /\ Head(fromPage).type = "attach"
  BY DEF IInv, WireInv, ServeAttach, Asked
<1>2. Head(fromPage) \in Range(fromPage)
  BY <1>1, WireHolds
<1> QED
  BY <1>1, <1>2 DEF NoFetch

LEMMA OnceByDaemon ==
  ASSUME IInv, SaidInv, ordered, NoFetch, OnceInv, DaemonMoves, UNCHANGED pageVars
  PROVE  OnceInv'
PROOF
<1> SUFFICES ASSUME NEW s \in Sid PROVE OnceOf(s)'
  BY DEF OnceInv
<1>1. OnceOf(s) /\ active' = active
  BY DEF OnceInv, pageVars
<1>2. /\ worker'[s] = "starting" => ~AnswerDue(s)'
      /\ Once(fromHost'[s], AnswerMsgs)
      /\ Ahead(s)' => Ahead(s) \/ s > minted
  BY <1>1, AnswersOnce DEF OnceOf
<1>3. /\ Once(toPage', Announcing(s))
      /\ Told(s)' => Told(s) \/ HearCreated(s)
  BY <1>1, NothingAsked, AnnouncedOnce
<1>4. HearCreated(s) => Ahead(s) /\ ~Ahead(s)'
  BY <1>1, AnsweredOnce, CreatedHears DEF Answers
<1>5. (Closing(s)' => Closing(s)) /\ (s <= minted => s <= minted')
  <2>1. Range(fromPage') \subseteq Range(fromPage) /\ minted' >= minted
    BY DaemonTakes
  <2>2. minted \in Nat /\ minted' \in Nat
    <3>1. minted \in 0..MaxSid /\ (UNCHANGED minted \/ minted' = minted + 1)
      BY DEF IInv, HostInv, DaemonMoves, DaemonHears, HearRender, HearCreated, HearRefused, HearFailed,
         HearEnded, HearLaunch, Same, DaemonServes, ServeLaunch, ServeHide, ServeClose, ServeAttach,
         Keys, VerbShow, VerbHide, VerbOpen, NewSession, Fresh
    <3> QED
      BY <3>1
  <2>3. Closing(s)' => Closing(s)
    BY <2>1 DEF Closing
  <2> QED
    BY <2>1, <2>2, <2>3 DEF Sid
<1>6. s > minted => ~Told(s) /\ active # s /\ ~Ahead(s)
  <2> SUFFICES ASSUME s > minted PROVE ~Told(s) /\ active # s /\ ~Ahead(s)
    OBVIOUS
  <2>1. minted \in Nat /\ active \in 0..minted
    BY PanelAssumption DEF IInv, HostInv, SaidInv
  <2>2. fromHost[s] = <<>> /\ worker[s] = "none"
    BY DEF IInv, HostInv
  <2>3. ~Told(s)
    <3> SUFFICES ASSUME NEW m \in Range(toPage), Announces(m, s) PROVE FALSE
      BY DEF Told, Announcing
    <3>1. m.info.sid \in 1..minted /\ m.info.sid = s
      BY DEF SaidInv, Coming, TrueNow, Announces
    <3> QED
      BY <2>1, <3>1
  <2> QED
    BY <2>1, <2>2, <2>3 DEF Ahead, AnswerDue, Range, Sid
<1>7. Closing(s) => s <= minted /\ ~Ahead(s) /\ ~Told(s) /\ active # s
  BY <1>1 DEF OnceOf
<1>8. s > minted => ~(s <= minted)
  BY PanelAssumption DEF IInv, HostInv, Sid
<1>9. Ahead(s)' => ~Told(s)' /\ active' # s
  BY <1>1, <1>2, <1>3, <1>4, <1>6 DEF OnceOf
<1>10. Told(s)' => active' # s
  BY <1>1, <1>3, <1>4 DEF OnceOf
<1>11. Closing(s)' => s <= minted' /\ ~Ahead(s)' /\ ~Told(s)' /\ active' # s
  BY <1>1, <1>2, <1>3, <1>4, <1>5, <1>7, <1>8
<1> QED
  BY <1>2, <1>3, <1>9, <1>10, <1>11 DEF OnceOf

LEMMA OnceByExtension ==
  ASSUME IInv, OnceInv, NEW t \in Sid, Extension(t), UNCHANGED <<wires, pageVars>>
  PROVE  OnceInv'
PROOF
<1> SUFFICES ASSUME NEW s \in Sid PROVE OnceOf(s)'
  BY DEF OnceInv
<1>0. HostInv /\ fromHost[s] \in Seq(HostMsg)
  BY DEF IInv, HostInv
<1>1. OnceOf(s) /\ UNCHANGED <<active, toPage, fromPage, minted>>
  BY <1>0, ExtensionSays DEF OnceInv, pageVars, wires
<1>2. (Told(s)' <=> Told(s)) /\ (Closing(s)' <=> Closing(s))
  BY <1>1 DEF Told, Closing
<1>3. ASSUME /\ worker'[s] = "starting" => ~AnswerDue(s)'
             /\ Once(fromHost'[s], AnswerMsgs)
             /\ Ahead(s)' => Ahead(s)
      PROVE  OnceOf(s)'
  BY <1>1, <1>2, <1>3 DEF OnceOf
<1>4. CASE t # s
  <2>1. worker'[s] = worker[s] /\ fromHost'[s] = fromHost[s]
    BY <1>0, <1>4, ExtensionSays
  <2> QED
    BY <1>1, <1>3, <2>1 DEF OnceOf, Ahead, AnswerDue
<1>5. CASE t = s
  <2>1. ASSUME NEW q \in Seq(HostMsg), NEW m \in HostMsg, m.kind \notin Answers,
               Once(q, AnswerMsgs)
        PROVE  /\ Append(q, m) \in Seq(HostMsg) /\ Once(Append(q, m), AnswerMsgs)
               /\ Range(Append(q, m)) = Range(q) \cup {m}
    <3>1. m \notin AnswerMsgs
      BY <2>1 DEF AnswerMsgs
    <3>2. Once(Append(q, m), AnswerMsgs)
      BY <2>1, <3>1, OnceGrows
    <3> QED
      BY <3>2, Joins, WireHolds
  <2>2. ASSUME NEW q \in Seq(HostMsg), NEW m \in HostMsg, Once(q, AnswerMsgs),
               \A e \in Range(q) : e.kind \notin Answers
        PROVE  Once(Append(q, m), AnswerMsgs) /\ Range(Append(q, m)) = Range(q) \cup {m}
    <3>1. \A e \in Range(q) : e \notin AnswerMsgs
      BY <2>2 DEF AnswerMsgs
    <3>2. Once(Append(q, m), AnswerMsgs)
      BY <2>2, <3>1, OnceGrows
    <3> QED
      BY <3>2, WireHolds
  <2>3. Once(fromHost[s], AnswerMsgs) /\ (worker[s] = "starting" => ~AnswerDue(s))
    BY <1>1 DEF OnceOf
  <2>4. ASSUME NEW m \in HostMsg, fromHost'[s] = Append(fromHost[s], m), m.kind \notin Answers,
               worker'[s] = "starting" <=> worker[s] = "starting"
        PROVE  OnceOf(s)'
    <3>1. Once(fromHost'[s], AnswerMsgs) /\ Range(fromHost'[s]) = Range(fromHost[s]) \cup {m}
      BY <1>0, <2>1, <2>3, <2>4
    <3>2. AnswerDue(s)' <=> AnswerDue(s)
      BY <2>4, <3>1 DEF AnswerDue
    <3> QED
      BY <1>3, <2>3, <2>4, <3>1, <3>2 DEF Ahead
  <2>5. ASSUME worker[s] = "starting", worker'[s] # "starting", NEW m \in HostMsg,
               fromHost'[s] = Append(fromHost[s], m)
        PROVE  OnceOf(s)'
    <3>1. \A e \in Range(fromHost[s]) : e.kind \notin Answers
      BY <2>3, <2>5 DEF AnswerDue
    <3>2. Once(fromHost'[s], AnswerMsgs)
      BY <1>0, <2>2, <2>3, <2>5, <3>1
    <3> QED
      BY <1>3, <2>5, <3>2 DEF Ahead
  <2>6. ASSUME worker[s] = "starting", worker'[s] # "starting", NEW m \in HostMsg,
               NEW n \in HostMsg, n.kind \notin Answers,
               fromHost'[s] = Append(Append(fromHost[s], n), m)
        PROVE  OnceOf(s)'
    <3>0. /\ Append(fromHost[s], n) \in Seq(HostMsg) /\ Once(Append(fromHost[s], n), AnswerMsgs)
          /\ Range(Append(fromHost[s], n)) = Range(fromHost[s]) \cup {n}
      <4>1. PICK r \in Seq(HostMsg) : r = fromHost[s] /\ Once(r, AnswerMsgs)
        BY <1>0, <2>3
      <4> QED
        BY <2>1, <2>6, <4>1
    <3>1. PICK q \in Seq(HostMsg) : /\ q = Append(fromHost[s], n) /\ Once(q, AnswerMsgs)
                                    /\ Range(q) = Range(fromHost[s]) \cup {n}
      BY <3>0
    <3>2. \A e \in Range(q) : e.kind \notin Answers
      BY <2>3, <2>6, <3>1 DEF AnswerDue
    <3>3. Once(fromHost'[s], AnswerMsgs)
      <4>1. Once(Append(q, m), AnswerMsgs)
        BY <2>2, <3>1, <3>2
      <4> QED
        BY <2>6, <3>1, <4>1
    <3> QED
      BY <1>3, <2>6, <3>3 DEF Ahead
  <2> QED
    BY <1>0, <1>5, <2>4, <2>5, <2>6, ExtensionSays
<1> QED
  BY <1>4, <1>5

----------------------------------------------------------------------------
(* Ending a session closes it, and may hide the panel: it asks nothing else. *)
LEMMA EndCloses ==
  ASSUME WireInv, PageInv, NEW then \in {<<>>, <<[type |-> "hide"]>>}, EndWith(then)
  PROVE  \A m \in Range(fromPage') \ Range(fromPage) :
           m.type = "hide" \/ (m.type = "close" /\ m.sid = active /\ active # None)
PROOF
<1> DEFINE first == IF active = None THEN <<>> ELSE <<[type |-> "close", sid |-> active]>>
<1>1. PICK c \in AskMsg : c = [type |-> "close", sid |-> active]
  <2>1. active \in Nat
    BY PanelAssumption DEF PageInv, Sid, None
  <2> QED
    BY <2>1, AskMessages
<1>2. PICK h \in AskMsg : h = [type |-> "hide"]
  BY AskMessages
<1>3. active' = None /\ Invoke(first \o then)
  BY DEF EndWith
<1>4. <<>> \in Seq(AskMsg) /\ <<c>> \in Seq(AskMsg) /\ <<h>> \in Seq(AskMsg)
  BY Joins DEF WireInv
<1>5. Range(<<>>) = {} /\ Range(<<c>>) = {c} /\ Range(<<h>>) = {h}
  <2>1. Range(<<c>>) = {c} /\ Range(<<h>>) = {h}
    BY WireHolds DEF WireInv
  <2> QED
    BY <2>1 DEF Range
<1>6. first \in Seq(AskMsg) /\ Range(first) = IF active = None THEN {} ELSE {c}
  BY <1>1, <1>4, <1>5
<1>7. then \in Seq(AskMsg) /\ Range(then) \subseteq {h}
  BY <1>2, <1>4, <1>5
<1> HIDE DEF first
<1>8. first \o then \in Seq(AskMsg) /\ Range(first \o then) = Range(first) \cup Range(then)
  BY <1>6, <1>7, WireHolds
<1>9. Range(fromPage') = Range(fromPage) \cup Range(first \o then)
  BY <1>3, <1>8, InvokeAsks
<1> QED
  BY <1>1, <1>2, <1>3, <1>6, <1>7, <1>8, <1>9

LEMMA PageShows ==
  ASSUME IInv, ordered, PageHears \/ PageUser
  PROVE  /\ toPage' = toPage \/ (toPage # <<>> /\ toPage' = Tail(toPage))
         /\ \/ active' \in {active, None}
            \/ toPage # <<>> /\ toPage' = Tail(toPage) /\ Announces(Head(toPage), active')
         /\ \A m \in Range(fromPage') \ Range(fromPage) :
              m.type = "close" => m.sid = active /\ active # None /\ active' = None
PROOF
<1> DEFINE Goal ==
      /\ toPage' = toPage \/ (toPage # <<>> /\ toPage' = Tail(toPage))
      /\ \/ active' \in {active, None}
         \/ toPage # <<>> /\ toPage' = Tail(toPage) /\ Announces(Head(toPage), active')
      /\ \A m \in Range(fromPage') \ Range(fromPage) :
           m.type = "close" => m.sid = active /\ active # None /\ active' = None
<1>1. WireInv /\ active \in Nat
  BY PanelAssumption DEF IInv, PageInv, Sid, None
<1>2. \A what : Pushed(what) =>
        /\ toPage # <<>> /\ toPage' = Tail(toPage) /\ Head(toPage).type = what
  BY DEF Pushed
<1>3. \A what : Answered(what) =>
        /\ toPage # <<>> /\ toPage' = Tail(toPage) /\ Head(toPage).type = what /\ News = Head(toPage)
  BY DEF Answered, Pushed, News
<1>4. ASSUME NEW then \in {<<>>, <<[type |-> "hide"]>>}, EndWith(then)
      PROVE  /\ active' = None
             /\ \A m \in Range(fromPage') \ Range(fromPage) :
                  m.type = "close" => m.sid = active /\ active # None
  <2>1. active' = None
    BY <1>4 DEF EndWith
  <2> QED
    BY <1>4, <2>1, EndCloses DEF IInv
<1>5. \A s \in Nat : Invoke(<<Attach(s)>>) => \A m \in Range(fromPage') \ Range(fromPage) : m.type # "close"
  <2> SUFFICES ASSUME NEW s \in Nat, Invoke(<<Attach(s)>>), NEW m \in Range(fromPage') \ Range(fromPage)
               PROVE  m.type # "close"
    OBVIOUS
  <2>1. PICK a \in AskMsg : a = Attach(s)
    BY AskMessages
  <2>2. <<a>> \in Seq(AskMsg) /\ Range(<<a>>) = {a}
    BY <1>1, WireHolds DEF WireInv
  <2>3. Range(fromPage') = Range(fromPage) \cup {a}
    BY <1>1, <2>1, <2>2, InvokeAsks
  <2> QED
    BY <2>1, <2>3 DEF Attach
<1>6. Invoke(<<>>) => Range(fromPage') = Range(fromPage)
  <2>1. <<>> \in Seq(AskMsg) /\ Range(<<>>) = {}
    BY DEF Range
  <2> QED
    BY <1>1, <2>1, InvokeAsks
<1>7. CASE OnVisibility
  <2>1. UNCHANGED fromPage => Range(fromPage') = Range(fromPage)
    BY Zenon
  <2> QED
    BY <1>2, <1>4, <1>7, <2>1 DEF OnVisibility, pageVars
<1>8. CASE OnStarted
  BY <1>2, <1>8 DEF OnStarted, Begin, Announces
<1>9. CASE OnLaunched
  BY <1>3, <1>9 DEF OnLaunched, Begin, Announces
<1>10. CASE OnRender
  <2>1. toPage # <<>> /\ toPage' = Tail(toPage) /\ Head(toPage).type = "render" /\ UNCHANGED active
    BY <1>2, <1>10 DEF OnRender
  <2>2. Head(toPage).sid \in Nat
    BY <1>1, <2>1, PortFacts, PageMessagesHold, PanelAssumption DEF WireInv, Sid
  <2>3. UNCHANGED fromPage \/ Invoke(<<Attach(Head(toPage).sid)>>)
    BY <1>10 DEF OnRender, Resync
  <2> QED
    BY <1>5, <2>1, <2>2, <2>3
<1>11. CASE OnAttached
  <2>1. toPage # <<>> /\ toPage' = Tail(toPage) /\ Head(toPage).type = "attached" /\ UNCHANGED active
        /\ News = Head(toPage)
    BY <1>3, <1>11 DEF OnAttached
  <2>2. News.sid \in Nat
    BY <1>1, <2>1, PortFacts, PageMessagesHold DEF WireInv
  <2>3. Invoke(<<>>) \/ Invoke(<<Attach(News.sid)>>)
    BY <1>11 DEF OnAttached
  <2> QED
    BY <1>5, <1>6, <2>1, <2>2, <2>3
<1>12. CASE OnEnded
  BY <1>2, <1>12 DEF OnEnded
<1>13. CASE PageUser
  <2>1. UNCHANGED toPage
    BY <1>13 DEF PageUser, ActivateRow, EscapeAtRoot, Exit
  <2>2. CASE Exit
    BY <1>4, <2>1, <2>2 DEF Exit
  <2>3. CASE ActivateRow \/ EscapeAtRoot
    <3>1. PICK a \in AskMsg : a.type \in {"launch", "hide"} /\ Invoke(<<a>>) /\ UNCHANGED active
      BY <2>3, AskMessages DEF ActivateRow, EscapeAtRoot, pageVars
    <3>2. <<a>> \in Seq(AskMsg) /\ Range(<<a>>) = {a}
      BY <1>1, WireHolds DEF WireInv
    <3>3. Range(fromPage') = Range(fromPage) \cup {a}
      BY <1>1, <3>1, <3>2, InvokeAsks
    <3> QED
      BY <2>1, <3>1, <3>3
  <2> QED
    BY <1>13, <2>2, <2>3 DEF PageUser
<1> QED
  BY <1>7, <1>8, <1>9, <1>10, <1>11, <1>12, <1>13 DEF PageHears

LEMMA OnceByPage ==
  ASSUME IInv, IInv', SaidInv, ordered, OnceInv, UNCHANGED daemonVars, PageHears \/ PageUser
  PROVE  OnceInv'
PROOF
<1> SUFFICES ASSUME NEW s \in Sid PROVE OnceOf(s)'
  BY DEF OnceInv
<1>1. /\ OnceOf(s) /\ UNCHANGED <<worker, fromHost, minted>>
      /\ toPage \in Seq(PageMsg) /\ toPage' \in Seq(PageMsg)
  BY DEF OnceInv, daemonVars, IInv, WireInv
<1>2. (AnswerDue(s)' <=> AnswerDue(s)) /\ (Ahead(s)' <=> Ahead(s))
  BY <1>1 DEF Ahead, AnswerDue
<1>3. toPage' = toPage \/ (toPage # <<>> /\ toPage' = Tail(toPage))
  BY PageShows
<1>4. Once(toPage', Announcing(s))
  BY <1>1, <1>3, OnceTakes DEF OnceOf
<1>5. Told(s)' => Told(s)
  <2>1. Range(toPage') \subseteq Range(toPage)
    <3>1. toPage # <<>> => Range(toPage) = {Head(toPage)} \cup Range(Tail(toPage))
      BY <1>1, WireHolds
    <3> QED
      BY <1>3, <3>1
  <2> QED
    BY <2>1 DEF Told, Announcing
<1>6. active' = s => \/ active = s
                     \/ toPage # <<>> /\ toPage' = Tail(toPage) /\ Announces(Head(toPage), s)
  BY PageShows DEF Sid, None
<1>7. ASSUME toPage # <<>>, toPage' = Tail(toPage), Announces(Head(toPage), s)
      PROVE  Told(s) /\ ~Told(s)'
  <2>1. Head(toPage) \in Range(toPage) /\ Head(toPage) \in PageMsg
    BY <1>1, <1>7, WireHolds, PortFacts
  <2>2. Head(toPage) \in Announcing(s)
    BY <1>7, <2>1 DEF Announcing
  <2>3. \A e \in Range(Tail(toPage)) : e \notin Announcing(s)
    BY <1>1, <1>7, <2>2, OnceTakes DEF OnceOf
  <2> QED
    BY <1>7, <2>1, <2>2, <2>3 DEF Told, Announcing
<1>8. Ahead(s)' => ~Told(s)' /\ active' # s
  BY <1>1, <1>2, <1>5, <1>6, <1>7 DEF OnceOf
<1>9. Told(s)' => active' # s
  BY <1>1, <1>5, <1>6, <1>7 DEF OnceOf
<1>10. Closing(s)' => Closing(s) \/ (active = s /\ active' = None)
  BY PageShows DEF Closing
<1>11. active = s => s <= minted /\ ~Ahead(s) /\ ~Told(s)
  <2>1. minted \in Nat /\ active \in 0..minted
    BY PanelAssumption DEF IInv, HostInv, SaidInv
  <2> QED
    BY <1>1, <2>1 DEF OnceOf
<1>12. Closing(s)' => s <= minted /\ ~Ahead(s) /\ ~Told(s) /\ active' # s
  <2>1. active = s /\ active' = None => active' # s
    BY DEF Sid, None
  <2>2. ASSUME Closing(s) PROVE s <= minted /\ ~Ahead(s) /\ ~Told(s) /\ active' # s
    BY <1>1, <1>6, <1>7, <2>2 DEF OnceOf
  <2> QED
    BY <1>10, <1>11, <2>1, <2>2
<1>13. Closing(s)' => s <= minted' /\ ~Ahead(s)' /\ ~Told(s)' /\ active' # s
  BY <1>1, <1>2, <1>5, <1>12
<1> QED
  BY <1>1, <1>2, <1>4, <1>8, <1>9, <1>13 DEF OnceOf

----------------------------------------------------------------------------
(* Where order is kept, what the page has not drawn yet of a session is on   *)
(* its way, whole and in order.                                             *)
CurrentOf(s) ==
  /\ Steady(toPage, s, mRev[s])
  /\ active = s => rev <= mRev[s] /\ Complete(toPage, 0, s, rev, mRev[s])
CurrentInv == NoFetch /\ \A s \in Sid : CurrentOf(s)

LEMMA CurrentByDaemon ==
  ASSUME IInv, SaidInv, ordered, CurrentInv, OnceInv, DaemonMoves, UNCHANGED pageVars
  PROVE  CurrentInv'
PROOF
<1>1. toPage \in Seq(PageMsg) /\ mRev \in [Sid -> Nat] /\ rev \in Nat /\ UNCHANGED <<active, rev, resyncing>>
  BY DEF IInv, WireInv, HostInv, PageInv, pageVars
<1>2. Range(fromPage') \subseteq Range(fromPage) /\ ~ServeAttach
  BY NothingAsked, DaemonTakes, PanelAssumption DEF CurrentInv, Sid
<1>3. \A m \in PageMsg : Append(toPage, m) \in Seq(PageMsg)
                         /\ Range(Append(toPage, m)) = Range(toPage) \cup {m}
  BY <1>1, Joins, WireHolds
<1>4. ASSUME NEW s \in Sid, NEW q \in Seq(PageMsg), NEW m \in PageMsg, NEW higher \in Nat,
             Draws(m, s) => m.rev = mRev[s] + 1,
             higher = IF Draws(m, s) THEN mRev[s] + 1 ELSE mRev[s],
             Announces(m, s) => m.info.rev = mRev[s],
             Steady(q, s, mRev[s]),
             active = s => rev <= mRev[s] /\ Complete(q, 0, s, rev, mRev[s])
      PROVE  /\ Steady(Append(q, m), s, higher)
             /\ active = s => rev <= higher /\ Complete(Append(q, m), 0, s, rev, higher)
  <2>1. mRev[s] \in Nat /\ mRev[s] <= higher /\ Len(q) \in Nat /\ 0 \in 0..Len(q)
    BY <1>1, <1>4, PortFacts
  <2>2. Steady(Append(q, m), s, higher)
    BY <1>4, <2>1, SteadyGrows
  <2>3. active = s => Complete(Append(q, m), 0, s, rev, higher)
    BY <1>1, <1>4, <2>1, CompleteGrows
  <2> QED
    BY <1>1, <1>4, <2>1, <2>2, <2>3
<1>5. ASSUME \A m \in Range(toPage') : m.type # "attached",
             \A s \in Sid : CurrentOf(s)'
      PROVE  CurrentInv'
  BY <1>1, <1>2, <1>5 DEF CurrentInv, NoFetch
<1>6. ASSUME NEW m \in PageMsg, m.type # "attached", toPage' = Append(toPage, m),
             \A s \in Sid : /\ Draws(m, s) => m.rev = mRev[s] + 1
                            /\ mRev'[s] = IF Draws(m, s) THEN mRev[s] + 1 ELSE mRev[s]
                            /\ Announces(m, s) => m.info.rev = mRev[s]
      PROVE  CurrentInv'
  <2>1. \A e \in Range(toPage') : e.type # "attached"
    BY <1>3, <1>6 DEF CurrentInv, NoFetch
  <2>2. ASSUME NEW s \in Sid PROVE CurrentOf(s)'
    <3>1. mRev'[s] \in Nat /\ CurrentOf(s)
      BY <1>1, <1>6 DEF CurrentInv
    <3>2. /\ Steady(Append(toPage, m), s, mRev'[s])
          /\ active = s => rev <= mRev'[s] /\ Complete(Append(toPage, m), 0, s, rev, mRev'[s])
      BY <1>1, <1>4, <1>6, <3>1 DEF CurrentOf
    <3> QED
      BY <1>1, <1>6, <3>2 DEF CurrentOf
  <2> QED
    BY <1>5, <2>1, <2>2
<1>7. CASE UNCHANGED <<toPage, mRev>>
  <2>1. \A s \in Sid : CurrentOf(s)'
    BY <1>1, <1>7 DEF CurrentInv, CurrentOf
  <2>2. \A m \in Range(toPage') : m.type # "attached"
    BY <1>7 DEF CurrentInv, NoFetch
  <2> QED
    BY <1>5, <2>1, <2>2
<1>8. ASSUME NEW m \in PageMsg, m.type \in {"visibility", "ended"}, toPage' = Append(toPage, m), UNCHANGED mRev
      PROVE  CurrentInv'
  <2>1. \A s \in Sid : ~Draws(m, s) /\ ~Announces(m, s)
    BY <1>8 DEF Draws, Announces
  <2> QED
    BY <1>6, <1>8, <2>1
<1>9. ASSUME NEW t \in open, HearRender(t), asker[t] # "background" PROVE CurrentInv'
  <2>1. PICK m \in PageMsg : /\ m = [type |-> "render", sid |-> t, rev |-> mRev[t] + 1]
                             /\ toPage' = Append(toPage, m)
                             /\ mRev' = [mRev EXCEPT ![t] = mRev[t] + 1]
    BY <1>9, RenderTells
  <2>2. \A s \in Sid : /\ Draws(m, s) <=> s = t
                       /\ ~Announces(m, s)
    BY <2>1 DEF Draws, Announces
  <2>3. \A s \in Sid : mRev'[s] = IF s = t THEN mRev[s] + 1 ELSE mRev[s]
    BY <1>1, <2>1
  <2> QED
    BY <1>6, <2>1, <2>2, <2>3
<1>10. ASSUME NEW t \in Sid, HearCreated(t), asker[t] # "background" PROVE CurrentInv'
  <2>1. PICK m \in PageMsg :
          /\ Announces(m, t) /\ m.info.rev = mRev[t]
          /\ \/ toPage' = Append(toPage, m)
             \/ toPage' = Append(Append(toPage, m), Visibility(TRUE))
    BY <1>10, CreatedTells
  <2>2. UNCHANGED mRev
    BY <1>10, CreatedHears
  <2>3. \A s \in Sid : ~Draws(m, s) /\ (Announces(m, s) => m.info.rev = mRev[s])
    BY <2>1 DEF Draws, Announces
  <2>4. m.type # "attached"
    BY <2>1 DEF Announces
  <2>5. CASE toPage' = Append(toPage, m)
    BY <1>6, <2>2, <2>3, <2>4, <2>5
  <2>6. CASE toPage' = Append(Append(toPage, m), Visibility(TRUE))
    <3>1. PICK v \in PageMsg : v = Visibility(TRUE)
      BY PageMessages
    <3>2. v.type # "attached" /\ \A s \in Sid : ~Draws(v, s) /\ ~Announces(v, s)
      BY <3>1 DEF Visibility, Draws, Announces
    <3>3. PICK p \in Seq(PageMsg) : p = Append(toPage, m) /\ Range(p) = Range(toPage) \cup {m}
      BY <1>3
    <3>4. toPage' = Append(p, v) /\ Range(Append(p, v)) = Range(p) \cup {v}
      <4>1. toPage' = Append(p, v)
        BY <2>6, <3>1, <3>3
      <4> QED
        BY <4>1, WireHolds
    <3>5. \A e \in Range(toPage') : e.type # "attached"
      BY <2>4, <3>2, <3>3, <3>4 DEF CurrentInv, NoFetch
    <3>6. ASSUME NEW s \in Sid PROVE CurrentOf(s)'
      <4>1. mRev[s] \in Nat /\ mRev'[s] = mRev[s] /\ CurrentOf(s)
        BY <1>1, <2>2 DEF CurrentInv
      <4>2. /\ Steady(p, s, mRev[s])
            /\ active = s => rev <= mRev[s] /\ Complete(p, 0, s, rev, mRev[s])
        BY <1>1, <1>4, <2>3, <3>3, <4>1 DEF CurrentOf
      <4>3. /\ Steady(Append(p, v), s, mRev[s])
            /\ active = s => rev <= mRev[s] /\ Complete(Append(p, v), 0, s, rev, mRev[s])
        BY <1>4, <3>2, <3>3, <4>1, <4>2
      <4> QED
        BY <1>1, <3>4, <4>1, <4>3 DEF CurrentOf
    <3> QED
      BY <1>5, <3>5, <3>6
  <2> QED
    BY <2>1, <2>5, <2>6
<1>11. open \subseteq Sid
  BY PanelAssumption DEF IInv, HostInv, Sid
<1>12. ASSUME NEW t \in Sid, HearCreated(t), asker[t] = "background" PROVE CurrentInv'
  <2>1. UNCHANGED <<toPage, mRev>>
    BY <1>12, BackgroundTells, CreatedHears
  <2> QED
    BY <1>7, <2>1
<1>13. ASSUME NEW t \in open, HearRender(t), asker[t] = "background" PROVE CurrentInv'
  <2>1. /\ t \in Sid /\ UNCHANGED toPage
        /\ \A s \in Sid : s # t => mRev'[s] = mRev[s]
    BY <1>1, <1>11, <1>13, BackgroundTells, NextBatch DEF IInv
  <2>2. \A m \in Range(toPage) : ~Draws(m, t) /\ ~Announces(m, t) /\ m.type # "attached"
    BY <1>13 DEF SaidInv, Coming, TrueNow, Draws, Announces, CurrentInv, NoFetch
  <2>3. active # t
    BY <1>13, <2>1 DEF SaidInv, Sid, None
  <2>4. CurrentOf(t)'
    <3>1. \A i \in 1..Len(toPage) : toPage[i] \in Range(toPage)
      BY <1>1, PortFacts DEF Range
    <3>2. \A i \in 1..Len(toPage) : ~Draws(toPage[i], t) /\ ~Announces(toPage[i], t)
      BY <2>2, <3>1
    <3>3. Steady(toPage, t, mRev'[t])
      BY <3>2 DEF Steady, Rising
    <3> QED
      BY <1>1, <2>1, <2>3, <3>3 DEF CurrentOf
  <2>5. ASSUME NEW s \in Sid, s # t PROVE CurrentOf(s)'
    BY <1>1, <2>1, <2>5 DEF CurrentInv, CurrentOf
  <2> QED
    BY <1>5, <2>1, <2>2, <2>4, <2>5
<1> QED
  BY <1>2, <1>7, <1>8, <1>9, <1>10, <1>12, <1>13, DaemonTells

LEMMA CurrentByPage ==
  ASSUME IInv, ordered, CurrentInv, UNCHANGED daemonVars, PageHears \/ PageUser
  PROVE  CurrentInv'
PROOF
<1>1. /\ toPage \in Seq(PageMsg) /\ fromPage \in Seq(AskMsg) /\ mRev \in [Sid -> Nat]
      /\ rev \in Nat /\ UNCHANGED mRev
  BY DEF IInv, WireInv, HostInv, PageInv, daemonVars
<1>2. \A what : Pushed(what) =>
        /\ toPage # <<>> /\ toPage' = Tail(toPage) /\ Head(toPage).type = what
  BY DEF Pushed
<1>3. \A what : Answered(what) =>
        /\ toPage # <<>> /\ toPage' = Tail(toPage) /\ Head(toPage).type = what /\ News = Head(toPage)
  BY DEF Answered, Pushed, News
<1>4. toPage # <<>> => /\ Head(toPage) \in PageMsg /\ Head(toPage) \in Range(toPage)
                       /\ Range(Tail(toPage)) \subseteq Range(toPage)
  BY <1>1, PortFacts, WireHolds
<1>5. ASSUME toPage # <<>>, toPage' = Tail(toPage), UNCHANGED resyncing,
             \A m \in Range(fromPage') : m.type # "attach",
             \A s \in Sid : active' = s =>
               rev' <= mRev[s] /\ Complete(toPage', 0, s, rev', mRev[s])
      PROVE  CurrentInv'
  <2>1. \A s \in Sid : Steady(toPage', s, mRev[s])
    BY <1>1, <1>5, SteadyTakes DEF CurrentInv, CurrentOf
  <2>2. NoFetch'
    BY <1>4, <1>5 DEF CurrentInv, NoFetch
  <2> QED
    BY <1>1, <1>5, <2>1, <2>2 DEF CurrentInv, CurrentOf
<1>6. ASSUME toPage # <<>>, NEW s \in Sid, active = s, Draws(Head(toPage), s) => Head(toPage).rev <= rev
      PROVE  rev <= mRev[s] /\ Complete(Tail(toPage), 0, s, rev, mRev[s])
  <2>1. mRev[s] \in Nat /\ CurrentOf(s)
    BY <1>1 DEF CurrentInv
  <2> QED
    BY <1>1, <1>6, <2>1, CompleteTakes DEF CurrentOf
<1>7. ASSUME toPage # <<>>, NEW s \in Sid, Announces(Head(toPage), s)
      PROVE  /\ Head(toPage).info.rev <= mRev[s]
             /\ Complete(Tail(toPage), 0, s, Head(toPage).info.rev, mRev[s])
  <2>1. mRev[s] \in Nat /\ CurrentOf(s)
    BY <1>1 DEF CurrentInv
  <2> QED
    BY <1>1, <1>7, <2>1, SteadyTakes DEF CurrentOf
<1>8. \A m \in Range(fromPage) : m.type # "attach"
  BY DEF CurrentInv, NoFetch
<1>9. ASSUME NEW then \in {<<>>, <<[type |-> "hide"]>>}, EndWith(then)
      PROVE  /\ active' = None /\ UNCHANGED resyncing
             /\ \A m \in Range(fromPage') : m.type # "attach"
  <2>1. active' = None /\ UNCHANGED resyncing
    BY <1>9 DEF EndWith
  <2>2. \A m \in Range(fromPage') \ Range(fromPage) : m.type # "attach"
    BY <1>9, EndCloses DEF IInv
  <2> QED
    BY <1>8, <2>1, <2>2
<1>10. CASE OnVisibility
  <2>1. toPage # <<>> /\ toPage' = Tail(toPage) /\ Head(toPage).type = "visibility"
    BY <1>2, <1>10 DEF OnVisibility
  <2>2. CASE UNCHANGED <<pageVars, fromPage>>
    <3>1. UNCHANGED <<active, rev, resyncing, fromPage>>
      BY <2>2 DEF pageVars
    <3>2. \A s \in Sid : ~Draws(Head(toPage), s)
      BY <2>1 DEF Draws
    <3> QED
      BY <1>5, <1>6, <1>8, <2>1, <3>1, <3>2
  <2>3. CASE EndWith(<<>>)
    <3>1. \A s \in Sid : s # None
      BY DEF Sid, None
    <3> QED
      BY <1>5, <1>9, <2>1, <2>3, <3>1
  <2> QED
    BY <1>10, <2>2, <2>3 DEF OnVisibility
<1>11. CASE OnStarted \/ OnLaunched
  <2>1. /\ toPage # <<>> /\ toPage' = Tail(toPage) /\ Head(toPage).type \in {"started", "launched"}
        /\ Begin(Head(toPage).info) /\ UNCHANGED fromPage
    BY <1>2, <1>3, <1>11 DEF OnStarted, OnLaunched
  <2>2. active' = Head(toPage).info.sid /\ rev' = Head(toPage).info.rev /\ UNCHANGED resyncing
    BY <2>1 DEF Begin
  <2>3. \A s \in Sid : active' = s => Announces(Head(toPage), s)
    BY <2>1, <2>2 DEF Announces
  <2> QED
    BY <1>5, <1>7, <1>8, <2>1, <2>2, <2>3
<1>12. CASE OnRender
  <2>1. PICK m \in PageMsg : m = Head(toPage)
    BY <1>2, <1>4, <1>12 DEF OnRender
  <2>2. /\ toPage # <<>> /\ toPage' = Tail(toPage) /\ m.type = "render" /\ UNCHANGED active
        /\ m.sid \in Sid /\ m.rev \in Nat
    BY <1>2, <1>12, <2>1, PageMessagesHold DEF OnRender
  <2>3. CASE m.sid # active \/ m.rev <= rev
    <3>1. UNCHANGED <<rev, resyncing, fromPage>>
      BY <1>12, <2>1, <2>3 DEF OnRender
    <3>2. \A s \in Sid : active = s => (Draws(Head(toPage), s) => Head(toPage).rev <= rev)
      BY <2>1, <2>3 DEF Draws
    <3> QED
      BY <1>5, <1>6, <1>8, <2>2, <3>1, <3>2
  <2>4. CASE ~(m.sid # active \/ m.rev <= rev)
    <3>1. m.sid = active /\ Draws(Head(toPage), active) /\ active \in Sid /\ ~(Head(toPage).rev <= rev)
      BY <2>1, <2>2, <2>4 DEF Draws
    <3>2. mRev[active] \in Nat /\ CurrentOf(active)
      BY <1>1, <3>1 DEF CurrentInv
    <3>3. m.rev = rev + 1
      BY <1>1, <2>1, <2>2, <3>1, <3>2, NextDrawn DEF CurrentOf
    <3>4. rev' = rev + 1 /\ UNCHANGED <<resyncing, fromPage>>
      BY <1>12, <2>1, <2>4, <3>3 DEF OnRender
    <3>5. Complete(Tail(toPage), 0, active, rev + 1, mRev[active])
      BY <1>1, <2>1, <2>2, <3>1, <3>2, <3>3, CompleteTakes DEF CurrentOf
    <3>6. m.rev <= mRev[active]
      <4>1. Head(toPage) = toPage[1] /\ 1 \in 1..Len(toPage)
        BY <1>1, <2>2, PortFacts
      <4> QED
        BY <2>1, <3>1, <3>2, <4>1 DEF CurrentOf, Steady
    <3>7. \A s \in Sid : active' = s => rev' <= mRev[s] /\ Complete(toPage', 0, s, rev', mRev[s])
      BY <2>2, <3>3, <3>4, <3>5, <3>6
    <3> QED
      BY <1>5, <1>8, <2>2, <3>4, <3>7
  <2> QED
    BY <2>3, <2>4
<1>13. ASSUME OnAttached PROVE FALSE
  BY <1>3, <1>4, <1>13 DEF OnAttached, CurrentInv, NoFetch
<1>14. CASE OnEnded
  <2>1. /\ toPage # <<>> /\ toPage' = Tail(toPage) /\ Head(toPage).type = "ended"
        /\ active' \in {active, None} /\ UNCHANGED <<rev, resyncing, fromPage>>
    BY <1>2, <1>14 DEF OnEnded
  <2>2. \A s \in Sid : ~Draws(Head(toPage), s) /\ s # None
    BY <2>1 DEF Draws, Sid, None
  <2> QED
    BY <1>5, <1>6, <1>8, <2>1, <2>2
<1>15. CASE PageUser
  <2>1. ASSUME UNCHANGED <<toPage, resyncing>>, \A m \in Range(fromPage') : m.type # "attach",
               active' = None \/ UNCHANGED <<active, rev>>
        PROVE  CurrentInv'
    <3>1. \A s \in Sid : s # None
      BY DEF Sid, None
    <3>2. \A s \in Sid : CurrentOf(s)'
      BY <1>1, <2>1, <3>1 DEF CurrentInv, CurrentOf
    <3>3. NoFetch'
      BY <2>1 DEF CurrentInv, NoFetch
    <3> QED
      BY <3>2, <3>3 DEF CurrentInv
  <2>2. CASE Exit
    BY <1>9, <2>1, <2>2 DEF Exit
  <2>3. CASE ActivateRow \/ EscapeAtRoot
    <3>1. PICK a \in AskMsg : a.type \in {"launch", "hide"} /\ Invoke(<<a>>)
      BY <2>3, AskMessages DEF ActivateRow, EscapeAtRoot
    <3>2. <<a>> \in Seq(AskMsg) /\ Range(<<a>>) = {a}
      BY <1>1, WireHolds, Joins
    <3>3. Range(fromPage') = Range(fromPage) \cup {a}
      BY <3>1, <3>2, InvokeAsks DEF IInv
    <3>4. UNCHANGED <<toPage, resyncing, active, rev>>
      BY <2>3 DEF ActivateRow, EscapeAtRoot, pageVars
    <3> QED
      BY <1>8, <2>1, <3>1, <3>3, <3>4
  <2> QED
    BY <1>15, <2>2, <2>3 DEF PageUser
<1> QED
  BY <1>10, <1>11, <1>12, <1>13, <1>14, <1>15 DEF PageHears

----------------------------------------------------------------------------
(* A session that is neither open nor astray is failed where its launch may  *)
(* still be told, and whatever shows it is about to be taken away.          *)
DeadOf(s) ==
  s \notin open \cup astray =>
    /\ s \in Unanswered => s \in mFailed
    /\ Showing(s) => KilledAfter(toPage, 0, s)
    /\ Doomed(toPage, s)
DeadInv == \A s \in Sid : DeadOf(s)

LEMMA DeadGrows ==
  ASSUME NEW q \in Seq(PageMsg), NEW m \in PageMsg, NEW s,
         Showing(s) => KilledAfter(q, 0, s), Doomed(q, s),
         Announces(m, s) => m.info.failed
  PROVE  /\ Showing(s) => KilledAfter(Append(q, m), 0, s)
         /\ Doomed(Append(q, m), s)
PROOF
<1>1. 0 \in 0..Len(q)
  BY PortFacts
<1>2. Showing(s) => KilledAfter(Append(q, m), 0, s)
  BY <1>1, KillGrows
<1>3. Doomed(Append(q, m), s)
  BY DoomGrows
<1> QED
  BY <1>2, <1>3

(* The message that ends a session dooms whatever showed it.                *)
LEMMA DeadTold ==
  ASSUME NEW q \in Seq(PageMsg), NEW m \in PageMsg, NEW s, Kills(m, s)
  PROVE  KilledAfter(Append(q, m), 0, s) /\ Doomed(Append(q, m), s)
PROOF
<1>1. 0 \in 0..Len(q)
  BY PortFacts
<1>2. KilledAfter(Append(q, m), 0, s)
  BY <1>1, KillGrows
<1>3. Doomed(Append(q, m), s)
  BY DoomGrows
<1> QED
  BY <1>2, <1>3

(* A session nothing tells the page of, and that is not shown, may go.       *)
LEMMA DeadUntold ==
  ASSUME WireInv, NEW s \in Sid, ~Told(s), active # s
  PROVE  (Showing(s) => KilledAfter(toPage, 0, s)) /\ Doomed(toPage, s)
PROOF
<1>1. \A j \in 1..Len(toPage) : toPage[j] \in Range(toPage) /\ toPage[j] \in PageMsg
  BY PortFacts DEF WireInv, Range
<1>2. \A j \in 1..Len(toPage) : ~Announces(toPage[j], s)
  BY <1>1 DEF Told, Announcing
<1> QED
  BY <1>2 DEF Doomed, Showing

(* What the daemon hears of the hosts.                                      *)
LEMMA DeadByHosts ==
  ASSUME IInv, SaidInv, ordered, OnceInv, DeadInv, UNCHANGED pageVars,
         NEW t \in Sid, DaemonHears(t), NEW s \in Sid, s \notin open' \cup astray'
  PROVE  DeadOf(s)'
PROOF
<1>0. /\ HostInv /\ WireInv /\ toPage \in Seq(PageMsg) /\ s \in 1..MaxSid
      /\ fromHost[t] \in Seq(HostMsg)
  BY DEF IInv, HostInv, WireInv, Sid
<1>1. UNCHANGED <<active, failure>> /\ (Showing(s)' <=> Showing(s))
  BY DEF pageVars, Showing
<1>2. OnceOf(s) /\ OnceOf(t) /\ DeadOf(s)
  BY DEF OnceInv, DeadInv
<1>3. ASSUME s \in Unanswered' => s \in mFailed',
             Showing(s) => KilledAfter(toPage', 0, s), Doomed(toPage', s)
      PROVE  DeadOf(s)'
  BY <1>1, <1>3 DEF DeadOf
<1>4. ASSUME NEW k, Hears(t, k), UNCHANGED worker
      PROVE  s \in Unanswered' => s \in Unanswered
  BY <1>0, <1>4, HearsAhead
<1>5. ASSUME s \notin open \cup astray, UNCHANGED toPage, s \in Unanswered' => s \in Unanswered,
             mFailed \subseteq mFailed'
      PROVE  DeadOf(s)'
  BY <1>2, <1>3, <1>5 DEF DeadOf
<1>6. CASE HearRender(t)
  <2>1. Hears(t, "render") /\ UNCHANGED <<worker, open, astray, mFailed>>
    BY <1>6 DEF HearRender, Same
  <2>2. CASE t \notin open
    <3>1. UNCHANGED toPage
      BY <1>6, <2>2 DEF HearRender
    <3> QED
      BY <1>4, <1>5, <2>1, <3>1
  <2>3. CASE t \in open /\ asker[t] # "background"
    <3>1. PICK m \in PageMsg : /\ m = [type |-> "render", sid |-> t, rev |-> mRev[t] + 1]
                               /\ toPage' = Append(toPage, m)
      BY <1>6, <2>3, RenderTells
    <3>2. ~Announces(m, s)
      BY <3>1 DEF Announces
    <3>3. /\ Showing(s) => KilledAfter(toPage', 0, s)
          /\ Doomed(toPage', s)
      BY <1>0, <1>2, <2>1, <3>1, <3>2, DeadGrows DEF DeadOf
    <3> QED
      BY <1>2, <1>3, <1>4, <2>1, <3>3 DEF DeadOf
  <2>4. CASE t \in open /\ asker[t] = "background"
    <3>1. UNCHANGED toPage
      BY <1>6, <2>4, BackgroundTells
    <3> QED
      BY <1>4, <1>5, <2>1, <3>1
  <2> QED
    BY <2>2, <2>3, <2>4
<1>11. CASE HearCreated(t) /\ asker[t] = "background"
  <2>1. Hears(t, "created") /\ UNCHANGED <<worker, open, astray, mFailed>>
    BY <1>11, CreatedHears
  <2>2. UNCHANGED toPage
    BY <1>11, BackgroundTells
  <2> QED
    BY <1>4, <1>5, <2>1, <2>2
<1>7. CASE HearCreated(t) /\ asker[t] # "background"
  <2>1. Hears(t, "created") /\ UNCHANGED <<worker, open, astray, mFailed>>
    BY <1>7, CreatedHears
  <2>2. PICK m \in PageMsg :
          /\ Announces(m, t) /\ (m.info.failed <=> t \in mFailed)
          /\ \/ toPage' = Append(toPage, m)
             \/ toPage' = Append(Append(toPage, m), Visibility(TRUE))
    BY <1>7, CreatedTells
  <2>3. t \in Unanswered
    <3>1. fromHost[t] # <<>> /\ Head(fromHost[t]).kind = "created"
      BY <2>1 DEF Hears
    <3>2. Head(fromHost[t]) \in Range(fromHost[t])
      BY <1>0, <3>1, WireHolds
    <3> QED
      BY <3>1, <3>2, UnansweredIs
  <2>4. Announces(m, s) => m.info.failed
    <3>1. Announces(m, s) => s = t
      BY <2>2 DEF Announces
    <3> QED
      BY <1>2, <2>1, <2>2, <2>3, <3>1 DEF DeadOf
  <2>5. PICK p \in Seq(PageMsg) : p = Append(toPage, m)
    BY <1>0, Joins
  <2>6. (Showing(s) => KilledAfter(p, 0, s)) /\ Doomed(p, s)
    BY <1>0, <1>2, <2>1, <2>4, <2>5, DeadGrows DEF DeadOf
  <2>7. PICK v \in PageMsg : v = Visibility(TRUE)
    BY PageMessages
  <2>8. ~Announces(v, s)
    BY <2>7 DEF Announces, Visibility
  <2>9. (Showing(s) => KilledAfter(Append(p, v), 0, s)) /\ Doomed(Append(p, v), s)
    BY <2>6, <2>8, DeadGrows
  <2>10. toPage' = p \/ toPage' = Append(p, v)
    BY <2>2, <2>5, <2>7
  <2>11. (Showing(s) => KilledAfter(toPage', 0, s)) /\ Doomed(toPage', s)
    BY <2>6, <2>9, <2>10
  <2> QED
    BY <1>2, <1>3, <1>4, <2>1, <2>11 DEF DeadOf
<1>8. CASE HearRefused(t)
  <2>1. Hears(t, "refused") /\ UNCHANGED <<worker, astray, mFailed, toPage>> /\ open' = open \ {t}
    BY <1>8 DEF HearRefused, Same
  <2>2. CASE s # t
    BY <1>4, <1>5, <2>1, <2>2
  <2>3. CASE s = t
    <3>1. Ahead(s) /\ ~Ahead(s)'
      BY <1>2, <2>1, <2>3, AnsweredOnce DEF Answers
    <3>2. s \notin Unanswered'
      BY <3>1 DEF Unanswered, Ahead, AnswerDue, Answers, Range
    <3>3. ~Told(s) /\ active # s
      BY <1>2, <3>1 DEF OnceOf
    <3>4. (Showing(s) => KilledAfter(toPage, 0, s)) /\ Doomed(toPage, s)
      BY <1>0, <3>3, DeadUntold
    <3> QED
      BY <1>3, <2>1, <3>2, <3>4
  <2> QED
    BY <2>2, <2>3
<1>9. CASE HearFailed(t) \/ HearEnded(t)
  <2>1. PICK crashed \in BOOLEAN : Push(<<Ended(t, crashed)>>)
    BY <1>9 DEF HearFailed, HearEnded
  <2>2. PICK m \in PageMsg : m = Ended(t, crashed)
    BY PageMessages
  <2>3. toPage' = Append(toPage, m)
    BY <1>0, <2>1, <2>2, PushAppends
  <2>4. ~Announces(m, s) /\ Kills(m, t)
    BY <2>2 DEF Announces, Kills, Ended
  <2>5. /\ UNCHANGED worker /\ open' = open \ {t} /\ mFailed \subseteq mFailed' /\ astray \subseteq astray'
        /\ s \in Unanswered' => s \in Unanswered
    <3>1. PICK k : Hears(t, k)
      BY <1>9 DEF HearFailed, HearEnded
    <3>2. UNCHANGED worker /\ open' = open \ {t} /\ mFailed \subseteq mFailed' /\ astray \subseteq astray'
      BY <1>9 DEF HearFailed, HearEnded, Same
    <3> QED
      BY <1>4, <3>1, <3>2
  <2>6. CASE s \notin open \cup astray
    <3>1. /\ Showing(s) => KilledAfter(toPage', 0, s)
          /\ Doomed(toPage', s)
      BY <1>0, <1>2, <2>3, <2>4, <2>6, DeadGrows DEF DeadOf
    <3> QED
      BY <1>2, <1>3, <2>5, <2>6, <3>1 DEF DeadOf
  <2>7. CASE s \in open \cup astray
    <3>1. s = t /\ s \in open
      BY <2>5, <2>7
    <3>2. KilledAfter(toPage', 0, s) /\ Doomed(toPage', s)
      BY <1>0, <2>3, <2>4, <3>1, DeadTold
    <3>3. s \in Unanswered => s \in mFailed' \/ s \in astray'
      BY <1>9, <3>1 DEF HearFailed, HearEnded
    <3> QED
      BY <1>3, <2>5, <3>2, <3>3
  <2> QED
    BY <2>6, <2>7
<1>10. CASE HearLaunch(t)
  <2>1. /\ Hears(t, "launch") /\ UNCHANGED <<mFailed, toPage>> /\ SameAnswers
        /\ astray \subseteq astray'
    BY <1>0, <1>10, HearsAnswers DEF HearLaunch, wires, Answers
  <2>2. CASE UNCHANGED <<minted, asker, worker, open, astray>>
    BY <1>4, <1>5, <2>1, <2>2
  <2>3. ASSUME NEW who \in {"command", "background"}, NewSession(who) PROVE DeadOf(s)'
    <3>1. /\ open' = open \cup {Fresh}
          /\ \A u \in Sid : u # Fresh => (u \in Unanswered' => u \in Unanswered)
      BY <2>1, <2>3, LaunchAhead DEF Askers
    <3>2. s # Fresh /\ s \notin open \cup astray
      BY <2>1, <3>1
    <3> QED
      BY <1>5, <2>1, <3>1, <3>2
  <2> QED
    BY <1>10, <2>2, <2>3 DEF HearLaunch
<1> QED
  BY <1>6, <1>7, <1>8, <1>9, <1>10, <1>11 DEF DaemonHears

(* What it serves the page and the keys.                                    *)
LEMMA DeadByAsks ==
  ASSUME IInv, SaidInv, ordered, CurrentInv, OnceInv, DeadInv, UNCHANGED pageVars,
         DaemonServes \/ Keys, NEW s \in Sid, s \notin open' \cup astray'
  PROVE  DeadOf(s)'
PROOF
<1>0. HostInv /\ WireInv /\ toPage \in Seq(PageMsg) /\ fromPage \in Seq(AskMsg)
  BY DEF IInv, HostInv, WireInv
<1>1. UNCHANGED <<active, failure>> /\ (Showing(s)' <=> Showing(s))
  BY DEF pageVars, Showing
<1>2. OnceOf(s) /\ DeadOf(s)
  BY DEF OnceInv, DeadInv
<1>3. ASSUME s \in Unanswered' => s \in mFailed',
             Showing(s) => KilledAfter(toPage', 0, s), Doomed(toPage', s)
      PROVE  DeadOf(s)'
  BY <1>1, <1>3 DEF DeadOf
<1>4. ASSUME s \notin open \cup astray, UNCHANGED <<toPage, mFailed>>, s \in Unanswered' => s \in Unanswered
      PROVE  DeadOf(s)'
  BY <1>2, <1>3, <1>4 DEF DeadOf
<1>5. UNCHANGED <<fromHost, mFailed>> /\ SameAnswers
  BY DEF DaemonServes, ServeLaunch, ServeHide, ServeClose, ServeAttach, Still, Keys,
     VerbShow, VerbHide, VerbOpen, Rest, SameAnswers
<1>6. UNCHANGED worker => (s \in Unanswered' => s \in Unanswered)
  BY <1>5 DEF Unanswered
<1>7. ASSUME Hides, UNCHANGED worker PROVE DeadOf(s)'
  <2>1. CASE ~visible
    BY <1>4, <1>5, <1>6, <1>7, <2>1 DEF Hides
  <2>2. CASE visible
    <3>1. Push(<<Visibility(FALSE)>>) /\ astray' = astray \cup Unanswered
      BY <1>7, <2>2 DEF Hides
    <3>2. PICK m \in PageMsg : m = Visibility(FALSE)
      BY PageMessages
    <3>3. toPage' = Append(toPage, m) /\ Kills(m, s)
      BY <1>0, <3>1, <3>2, PushAppends DEF Kills
    <3>4. KilledAfter(toPage', 0, s) /\ Doomed(toPage', s)
      BY <1>0, <3>3, DeadTold
    <3> QED
      BY <1>3, <1>6, <1>7, <3>1, <3>4
  <2> QED
    BY <2>1, <2>2
<1>8. ASSUME NEW who \in Askers, NewSession(who), UNCHANGED toPage, astray \subseteq astray' PROVE DeadOf(s)'
  <2>1. /\ open' = open \cup {Fresh}
        /\ \A u \in Sid : u # Fresh => (u \in Unanswered' => u \in Unanswered)
    BY <1>5, <1>8, LaunchAhead
  <2> QED
    BY <1>4, <1>5, <1>8, <2>1
<1>9. CASE ServeLaunch
  <2>1. CASE Hides /\ UNCHANGED <<minted, asker, worker>>
    BY <1>7, <2>1
  <2>2. CASE /\ NewSession("row") /\ UNCHANGED toPage
             /\ astray' = IF visible THEN astray ELSE astray \cup {Fresh}
    BY <1>8, <2>2 DEF Askers
  <2> QED
    BY <1>9, <2>1, <2>2 DEF ServeLaunch
<1>10. CASE ServeHide
  BY <1>7, <1>10 DEF ServeHide
<1>11. CASE ServeClose
  <2>1. /\ UNCHANGED <<worker, astray, toPage>> /\ open' = open \ {Asks.sid}
        /\ fromPage # <<>> /\ Asks = Head(fromPage) /\ Asks.type = "close"
    BY <1>11 DEF ServeClose, Asked, Asks
  <2>2. Asks \in Range(fromPage)
    BY <1>0, <2>1, WireHolds
  <2>3. CASE s \notin open
    BY <1>4, <1>5, <1>6, <2>1, <2>3
  <2>4. CASE s \in open
    <3>1. Closing(s)
      BY <2>1, <2>2, <2>4 DEF Closing
    <3>2. ~Ahead(s) /\ ~Told(s) /\ active # s
      BY <1>2, <3>1 DEF OnceOf
    <3>3. s \notin Unanswered
      BY <3>2, UnansweredIs DEF Ahead, AnswerDue, Answers
    <3>4. (Showing(s) => KilledAfter(toPage, 0, s)) /\ Doomed(toPage, s)
      BY <1>0, <3>2, DeadUntold
    <3> QED
      BY <1>3, <1>6, <2>1, <3>3, <3>4
  <2> QED
    BY <2>3, <2>4
<1>12. ~ServeAttach
  BY NothingAsked DEF CurrentInv
<1>13. CASE Keys
  <2>1. CASE VerbShow
    <3>1. Push(<<Visibility(TRUE)>>) /\ UNCHANGED <<worker, open, astray>>
      BY <2>1 DEF VerbShow
    <3>2. PICK m \in PageMsg : m = Visibility(TRUE)
      BY PageMessages
    <3>3. toPage' = Append(toPage, m) /\ ~Announces(m, s)
      BY <1>0, <3>1, <3>2, PushAppends DEF Announces, Visibility
    <3>4. (Showing(s) => KilledAfter(toPage', 0, s)) /\ Doomed(toPage', s)
      BY <1>0, <1>2, <3>1, <3>3, DeadGrows DEF DeadOf
    <3> QED
      BY <1>2, <1>3, <1>5, <1>6, <3>1, <3>4 DEF DeadOf
  <2>2. CASE VerbHide
    BY <1>7, <2>2 DEF VerbHide
  <2>3. ASSUME NEW t \in Target, VerbOpen(t) PROVE DeadOf(s)'
    <3>1. CASE Hides /\ UNCHANGED <<minted, asker, worker>>
      BY <1>7, <3>1
    <3>2. CASE NewSession(t) /\ UNCHANGED <<astray, toPage>>
      BY <1>8, <3>2 DEF Askers
    <3> QED
      BY <2>3, <3>1, <3>2 DEF VerbOpen
  <2> QED
    BY <1>13, <2>1, <2>2, <2>3 DEF Keys
<1> QED
  BY <1>9, <1>10, <1>11, <1>12, <1>13 DEF DaemonServes

----------------------------------------------------------------------------
LEMMA DeadByPage ==
  ASSUME IInv, ordered, DeadInv, CurrentInv, UNCHANGED daemonVars, PageHears \/ PageUser,
         NEW s \in Sid, s \notin open \cup astray
  PROVE  DeadOf(s)'
PROOF
<1>1. /\ toPage \in Seq(PageMsg) /\ UNCHANGED <<open, astray, worker, fromHost, mFailed>>
      /\ s # None
  BY DEF IInv, WireInv, daemonVars, Sid, None
<1>2. /\ s \in Unanswered' => s \in mFailed'
      /\ Showing(s) => KilledAfter(toPage, 0, s)
      /\ Doomed(toPage, s)
  BY <1>1 DEF DeadInv, DeadOf, Unanswered
<1>3. \A what : Pushed(what) =>
        /\ toPage # <<>> /\ toPage' = Tail(toPage) /\ Head(toPage).type = what
  BY DEF Pushed
<1>4. \A what : Answered(what) =>
        /\ toPage # <<>> /\ toPage' = Tail(toPage) /\ Head(toPage).type = what /\ News = Head(toPage)
  BY DEF Answered, Pushed, News
<1>5. ASSUME toPage # <<>>, toPage' = Tail(toPage),
             Showing(s)' => \/ Showing(s) /\ ~Kills(Head(toPage), s)
                            \/ Announces(Head(toPage), s) /\ ~Head(toPage).info.failed
      PROVE  DeadOf(s)'
  <2>1. Doomed(Tail(toPage), s)
        /\ (Announces(Head(toPage), s) /\ ~Head(toPage).info.failed => KilledAfter(Tail(toPage), 0, s))
    BY <1>1, <1>2, <1>5, DoomTakes
  <2>2. Showing(s) /\ ~Kills(Head(toPage), s) => KilledAfter(Tail(toPage), 0, s)
    BY <1>1, <1>2, <1>5, KillTakes
  <2> QED
    BY <1>1, <1>2, <1>5, <2>1, <2>2 DEF DeadOf
<1>6. ASSUME UNCHANGED toPage, Showing(s)' => Showing(s) PROVE DeadOf(s)'
  BY <1>1, <1>2, <1>6 DEF DeadOf
<1>7. \A then : EndWith(then) => active' = None
  BY DEF EndWith
<1>8. CASE OnVisibility
  <2>1. toPage # <<>> /\ toPage' = Tail(toPage) /\ Head(toPage).type = "visibility"
    BY <1>3, <1>8 DEF OnVisibility
  <2>2. CASE Head(toPage).visible
    <3>1. UNCHANGED <<active, failure>>
      BY <1>8, <2>2 DEF OnVisibility, pageVars
    <3>2. ~Kills(Head(toPage), s)
      BY <2>1, <2>2 DEF Kills, Visibility
    <3> QED
      BY <1>5, <2>1, <3>1, <3>2 DEF Showing
  <2>3. CASE ~Head(toPage).visible
    <3>1. active' = None
      BY <1>7, <1>8, <2>3 DEF OnVisibility
    <3> QED
      BY <1>1, <1>5, <2>1, <3>1 DEF Showing
  <2> QED
    BY <2>2, <2>3
<1>9. CASE OnStarted \/ OnLaunched
  <2>1. /\ toPage # <<>> /\ toPage' = Tail(toPage) /\ Head(toPage).type \in {"started", "launched"}
        /\ Begin(Head(toPage).info)
    BY <1>3, <1>4, <1>9 DEF OnStarted, OnLaunched
  <2>2. active' = Head(toPage).info.sid /\ failure' = Head(toPage).info.failed
    BY <2>1 DEF Begin
  <2> QED
    BY <1>5, <2>1, <2>2 DEF Showing, Announces
<1>10. CASE OnRender
  <2>1. toPage # <<>> /\ toPage' = Tail(toPage) /\ Head(toPage).type = "render" /\ UNCHANGED <<active, failure>>
    BY <1>3, <1>10 DEF OnRender
  <2>2. ~Kills(Head(toPage), s)
    BY <2>1 DEF Kills, Visibility
  <2> QED
    BY <1>5, <2>1, <2>2 DEF Showing
<1>11. ASSUME OnAttached PROVE FALSE
  <2>1. Head(toPage).type = "attached" /\ Head(toPage) \in Range(toPage)
    BY <1>1, <1>4, <1>11, WireHolds DEF OnAttached
  <2> QED
    BY <2>1 DEF CurrentInv, NoFetch
<1>12. CASE OnEnded
  <2>1. toPage # <<>> /\ toPage' = Tail(toPage) /\ Head(toPage).type = "ended"
    BY <1>3, <1>12 DEF OnEnded
  <2>2. Head(toPage) \in PageMsg /\ Head(toPage) # Visibility(FALSE)
    BY <1>1, <2>1, PortFacts DEF Visibility
  <2>3. CASE Head(toPage).sid = active
    <3>1. active' = None \/ failure'
      BY <1>12, <2>3 DEF OnEnded
    <3> QED
      BY <1>1, <1>5, <2>1, <3>1 DEF Showing
  <2>4. CASE Head(toPage).sid # active
    <3>1. active' = active /\ (failure => failure')
      BY <1>12, <2>4 DEF OnEnded
    <3>2. Showing(s)' => Showing(s) /\ ~Kills(Head(toPage), s)
      BY <2>2, <2>4, <3>1 DEF Showing, Kills
    <3> QED
      BY <1>5, <2>1, <3>2
  <2> QED
    BY <2>3, <2>4
<1>13. CASE PageUser
  <2>1. UNCHANGED toPage /\ (active' = None \/ UNCHANGED <<active, failure>>)
    BY <1>7, <1>13 DEF PageUser, ActivateRow, EscapeAtRoot, Exit, pageVars
  <2> QED
    BY <1>1, <1>6, <2>1 DEF Showing
<1> QED
  BY <1>8, <1>9, <1>10, <1>11, <1>12, <1>13 DEF PageHears

InOrder == ordered => OnceInv /\ CurrentInv /\ DeadInv

LEMMA InOrderInit == Init => InOrder
PROOF
<1> SUFFICES ASSUME Init PROVE OnceInv /\ CurrentInv /\ DeadInv
  BY DEF InOrder
<1>1. /\ toPage = <<>> /\ fromPage = <<>> /\ active = None /\ resyncing = None
      /\ \A s \in Sid : fromHost[s] = <<>> /\ worker[s] = "none" /\ s # None
  BY DEF Init, WiresInit, DaemonInit, PageInit, Sid, None
<1>2. \A q, i : q = <<>> => i \notin 1..Len(q)
  OBVIOUS
<1>3. Range(<<>>) = {}
  BY DEF Range
<1>4. NoFetch
  BY <1>1, <1>3 DEF NoFetch
<1>5. ASSUME NEW s \in Sid PROVE OnceOf(s) /\ CurrentOf(s) /\ DeadOf(s)
  <2>1. ~Ahead(s) /\ ~Told(s) /\ ~Closing(s) /\ s \notin Unanswered
    BY <1>1, <1>3, UnansweredIs DEF Ahead, AnswerDue, Told, Closing
  <2>2. OnceOf(s)
    BY <1>1, <1>2, <2>1 DEF OnceOf, Once, Ahead
  <2>3. CurrentOf(s)
    BY <1>1, <1>2 DEF CurrentOf, Steady, Rising
  <2>4. DeadOf(s)
    BY <1>1, <1>2, <2>1 DEF DeadOf, Doomed, Showing
  <2> QED
    BY <2>2, <2>3, <2>4
<1> QED
  BY <1>4, <1>5 DEF OnceInv, CurrentInv, DeadInv

LEMMA InOrderNext == IInv /\ IInv' /\ SaidInv /\ InOrder /\ [Next]_vars => InOrder'
PROOF
<1> SUFFICES ASSUME IInv, IInv', SaidInv, InOrder, [Next]_vars, ordered'
             PROVE  OnceInv' /\ CurrentInv' /\ DeadInv'
  BY DEF InOrder
<1>1. ordered /\ OnceInv /\ CurrentInv /\ DeadInv
  BY DEF InOrder, Next, vars, wires, DaemonHears, HearRender, HearCreated, HearRefused, HearFailed, HearEnded,
     HearLaunch, Same, DaemonServes, ServeLaunch, ServeHide, ServeClose, ServeAttach, Still, Keys,
     VerbShow, VerbHide, VerbOpen, Rest, PageHears, OnVisibility, OnStarted, OnLaunched, OnRender,
     OnAttached, OnEnded, Pushed, Answered, PageUser, ActivateRow, EscapeAtRoot, Exit
<1>2. ASSUME NEW t \in Sid, Extension(t), UNCHANGED <<wires, pageVars>>
      PROVE  OnceInv' /\ CurrentInv' /\ DeadInv'
  <2>1. OnceInv'
    BY <1>1, <1>2, OnceByExtension
  <2>2. /\ UNCHANGED <<open, astray, mRev, mFailed, toPage, fromPage, active, failure, rev, resyncing>>
        /\ \A s \in Sid : s \in Unanswered' => s \in Unanswered
    BY <1>2, ExtensionSays, ExtensionAhead DEF IInv, wires, pageVars
  <2>3. CurrentInv'
    BY <1>1, <2>2 DEF CurrentInv, NoFetch, CurrentOf
  <2>4. DeadInv'
    BY <1>1, <2>2 DEF DeadInv, DeadOf, Showing
  <2> QED
    BY <2>1, <2>3, <2>4
<1>3. ASSUME DaemonMoves, UNCHANGED pageVars
      PROVE  OnceInv' /\ CurrentInv' /\ DeadInv'
  <2>1. OnceInv'
    BY <1>1, <1>3, OnceByDaemon DEF CurrentInv
  <2>2. CurrentInv'
    BY <1>1, <1>3, CurrentByDaemon
  <2>3. ASSUME NEW s \in Sid PROVE DeadOf(s)'
    <3>1. CASE s \in open' \cup astray'
      BY <3>1 DEF DeadOf
    <3>2. CASE s \notin open' \cup astray'
      BY <1>1, <1>3, <3>2, DeadByHosts, DeadByAsks DEF DaemonMoves
    <3> QED
      BY <3>1, <3>2
  <2> QED
    BY <2>1, <2>2, <2>3 DEF DeadInv
<1>4. ASSUME PageHears \/ PageUser, UNCHANGED daemonVars
      PROVE  OnceInv' /\ CurrentInv' /\ DeadInv'
  <2>1. OnceInv' /\ CurrentInv'
    BY <1>1, <1>4, OnceByPage, CurrentByPage
  <2>2. ASSUME NEW s \in Sid PROVE DeadOf(s)'
    <3>1. CASE s \in open \cup astray
      BY <1>4, <3>1 DEF DeadOf, daemonVars
    <3>2. CASE s \notin open \cup astray
      BY <1>1, <1>4, <3>2, DeadByPage
    <3> QED
      BY <3>1, <3>2
  <2> QED
    BY <2>1, <2>2 DEF DeadInv
<1>5. CASE UNCHANGED vars
  <2>1. /\ UNCHANGED <<open, astray, mRev, mFailed, toPage, fromPage, active, failure, rev, resyncing>>
        /\ UNCHANGED <<worker, fromHost, minted>>
    BY <1>5 DEF vars, wires, daemonVars, pageVars
  <2>2. OnceInv'
    BY <1>1, <2>1 DEF OnceInv, OnceOf, Ahead, AnswerDue, Told, Closing
  <2>3. CurrentInv'
    BY <1>1, <2>1 DEF CurrentInv, NoFetch, CurrentOf
  <2>4. DeadInv'
    BY <1>1, <2>1 DEF DeadInv, DeadOf, Showing, Unanswered
  <2> QED
    BY <2>2, <2>3, <2>4
<1> QED
  BY <1>2, <1>3, <1>4, <1>5 DEF Next, DaemonMoves

(* Once nothing is under way, what is on the wires no more is on the screen. *)
LEMMA QuietIsCurrent ==
  ASSUME IInv, InOrder
  PROVE  DrawnIsCurrent
PROOF
<1> SUFFICES ASSUME Quiet, ordered, NEW s \in open, Showing(s)
             PROVE  tree = mTree[s] /\ rev = mRev[s]
  BY DEF DrawnIsCurrent
<1>1. /\ s \in Sid /\ mRev[s] \in Nat /\ mTree = mRev /\ rev \in Nat
      /\ active = s /\ active # None /\ tree = rev /\ toPage = <<>>
  BY PanelAssumption DEF IInv, HostInv, PageInv, TreeIsGenuine, Quiet, Showing, Sid, None
<1>2. rev <= mRev[s] /\ Complete(<<>>, 0, s, rev, mRev[s])
  BY <1>1 DEF InOrder, CurrentInv, CurrentOf
<1>3. \A k : k \notin (0 + 1)..Len(<<>>)
  OBVIOUS
<1>4. \A n \in (rev + 1)..mRev[s] : FALSE
  BY <1>2, <1>3 DEF Complete
<1>5. rev = mRev[s]
  BY <1>1, <1>2, <1>4
<1> QED
  BY <1>1, <1>5

LEMMA QuietIsAlive ==
  ASSUME IInv, InOrder
  PROVE  DeadIsNotShown
PROOF
<1> SUFFICES ASSUME Quiet, ordered, NEW s \in Sid, s \notin astray, Showing(s), s \notin open
             PROVE  FALSE
  BY DEF DeadIsNotShown
<1>1. KilledAfter(<<>>, 0, s)
  BY DEF InOrder, DeadInv, DeadOf, Quiet
<1>2. \A k : k \notin (0 + 1)..Len(<<>>)
  OBVIOUS
<1> QED
  BY <1>1, <1>2 DEF KilledAfter

LEMMA QuietIsTheKeys ==
  ASSUME KeyInv
  PROVE  StandaloneIsTheKeys
BY DEF KeyInv, StandaloneIsTheKeys, Sid, None

FullInv == IInv /\ SaidInv /\ KeyInv /\ FetchInv /\ HiddenInv /\ BackInv /\ InOrder

LEMMA FullInit == Init => FullInv
BY PanelInit, SaidInit, FetchInit, HiddenInit, BackInit, InOrderInit DEF FullInv

LEMMA FullNext == FullInv /\ [Next]_vars => FullInv'
BY PanelNext, SaidNext, FetchNext, HiddenNext, BackNext, InOrderNext DEF FullInv

LEMMA FullTells == FullInv => PageTellsTruth /\ HiddenRunsNothing
BY QuietIsDrawn, QuietIsCurrent, QuietIsAlive, QuietIsTheKeys, QuietIsHidden DEF FullInv, PageTellsTruth

----------------------------------------------------------------------------
(* The page never draws a tree that existed on neither side: useSession.ts    *)
(* applies a batch only to the tree it was computed from, whether that tree  *)
(* came with a launch, a fetch or the batches before, for any number of      *)
(* sessions and batches and with pushes and replies in any relative order.  *)
THEOREM PanelTreeIsGenuine == Spec => []TreeIsGenuine
PROOF
<1>1. IInv => TreeIsGenuine
  BY DEF IInv, PageInv
<1> QED
  BY <1>1, PanelInit, PanelNext, PTL DEF Spec

(* What the extension host and the daemon agree on: the batches of an open   *)
(* session reach host.ts once each and in order, and the tree it keeps is    *)
(* the one its revision names, so every snapshot it hands out is genuine.    *)
THEOREM HostBatchesInOrder == Spec => []HostInv
PROOF
<1>1. IInv => HostInv
  BY DEF IInv
<1> QED
  BY <1>1, PanelInit, PanelNext, PTL DEF Spec

(* A panel that is hidden runs nothing and is back at the root, whatever hid  *)
(* it: daemon.ts closes every session in its hide handler, window.ts tells    *)
(* the page, and App.tsx goes back to the list, in any interleaving with      *)
(* launches, ends and crashes; only a launch that crossed the hide is left,   *)
(* and a command an action started in the background behind the panel it hid. *)
THEOREM PanelHiddenRunsNothing == Spec => []HiddenRunsNothing
PROOF
<1>1. FullInv => HiddenRunsNothing
  BY FullTells
<1> QED
  BY <1>1, FullInit, FullNext, PTL DEF Spec

(* The page tells the truth once nothing is under way: useSession.ts has      *)
(* drawn every batch it was told of, by a fetch where one was missed; with    *)
(* messages in order it draws exactly what LiveSession holds and shows no      *)
(* session that is over; and Escape leads back to where it was opened from.   *)
THEOREM PanelTellsTruth == Spec => []PageTellsTruth
PROOF
<1>1. FullInv => PageTellsTruth
  BY FullTells
<1> QED
  BY <1>1, FullInit, FullNext, PTL DEF Spec
=============================================================================
