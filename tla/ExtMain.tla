------------------------------- MODULE ExtMain -------------------------------
(***************************************************************************)
(* The daemon's side of extension sessions (src/main/extensions/host.ts and  *)
(* alerts.ts): launching, events, closing, draining, alerts, and what it    *)
(* makes of the host's notifications and of the host's death.  The user and *)
(* the renderer are the environment.                                        *)
(***************************************************************************)
EXTENDS ExtWires

CONSTANTS MaxEvents,   \* bound: events the user sends per session
          UserMay,     \* what the user does here, of UserActs
          Kinds        \* the service calls made here, of CallKinds

UserActs == {"close", "reload"}
CallKinds == {"service", "alert", "hide", "pop"}
ASSUME MainAssumption ==
  MaxEvents \in Nat /\ UserMay \subseteq UserActs /\ Kinds \subseteq CallKinds

VARIABLES
  launch,    \* launch()'s promise: "no", "waiting", "ok", "failed"
  open,      \* keys of the sessions map
  busy,      \* LiveSession.busy
  drain,     \* keys of the draining map
  alerts,    \* the alert registry: who is waiting for an answer
  human,     \* what the user answered, per alert
  hiding,    \* sessions whose hide of the window has not raised its event yet
  why,       \* how the session last left the open map
  sent,      \* events forwarded
  owed,      \* those of them forwarded while the session was open
  reloads    \* reloads asked for

mainVars == <<launch, open, busy, drain, alerts, human, hiding, why, sent, owed, reloads>>

MainInit ==
  /\ launch = [s \in Sid |-> "no"]
  /\ open = {} /\ drain = {} /\ alerts = {} /\ hiding = {}
  /\ busy = [s \in Sid |-> FALSE]
  /\ human = [a \in Worker \X Ask |-> "none"]
  /\ why = [s \in Sid |-> "open"]
  /\ sent = [s \in Sid |-> 0] /\ owed = [s \in Sid |-> 0]
  /\ reloads = [s \in Sid |-> 0]

Reasons == {"open", "user", "own", "failed", "finished", "refused", "exit", "ceiling"}

Msg(type, s) == [type |-> type, sid |-> s]
AnswerMsg(a, value) == [type |-> "answer", to |-> a[1], ask |-> a[2], value |-> value]

(* ensure(): a host that is not running is forked; one that died unnoticed  *)
(* still looks alive and swallows what it is sent.  The pause after a death *)
(* is in HostSupervisor.                                                    *)
Launch(s) ==
  /\ launch[s] = "no"
  /\ launch' = [launch EXCEPT ![s] = "waiting"]
  /\ open' = open \cup {s}
  /\ process' = IF process = "none" THEN "up" ELSE process
  /\ m2h' = IF process = "dead" THEN m2h ELSE Append(m2h, Msg("create", s))
  /\ UNCHANGED <<busy, drain, alerts, human, hiding, why, sent, owed, reloads, h2m, h2w, w2h, up, exited>>

(* The renderer sends an event to the session it shows; main does not check  *)
(* that the session is still there.                                         *)
UserEvent(s) ==
  /\ launch[s] = "ok" /\ s \notin NoView /\ sent[s] < MaxEvents
  /\ sent' = [sent EXCEPT ![s] = @ + 1]
  /\ owed' = IF s \in open THEN [owed EXCEPT ![s] = @ + 1] ELSE owed
  /\ m2h' = ToHost(<<Msg("event", s)>>)
  /\ UNCHANGED <<launch, open, busy, drain, alerts, human, hiding, why, reloads,
                 process, h2m, h2w, w2h, up, exited>>

(* The Reload button is on the error card only, so main has forgotten the    *)
(* session by the time it asks the host to reload it.                       *)
UserReload(s) ==
  /\ "reload" \in UserMay /\ launch[s] = "ok" /\ why[s] \in {"failed", "exit"}
  /\ reloads[s] < MaxInc - 1
  /\ reloads' = [reloads EXCEPT ![s] = @ + 1]
  /\ m2h' = ToHost(<<Msg("reload", s)>>)
  /\ UNCHANGED <<launch, open, busy, drain, alerts, human, hiding, why, sent, owed, process, h2m, h2w, w2h, up, exited>>

(* Faults of close(): its alerts confirmed; a busy session not kept; the    *)
(* DESTROY sent ahead of the events already on their way.                   *)
CloseOvertakes(S, own, then) ==
  LET shut == S \cap open
      asked == {a \in alerts : a[1][1] \in S}
  IN /\ open' = open \ S
     /\ drain' = drain \cup {s \in shut : busy[s]}
     /\ alerts' = alerts \ asked
     /\ why' = [s \in Sid |-> IF s \notin shut THEN why[s]
                           ELSE IF s \in own THEN "own" ELSE "user"]
     /\ m2h' = IF process # "up" THEN m2h
               ELSE [i \in 1..Cardinality(shut) |-> Msg("destroy", SetToSeq(shut)[i])]
                    \o m2h
                    \o [i \in 1..Cardinality(asked) |-> AnswerMsg(SetToSeq(asked)[i], "false")]
                    \o then
CloseConfirms(S, own, then) ==
  LET shut == S \cap open
      asked == {a \in alerts : a[1][1] \in S}
  IN /\ open' = open \ S
     /\ drain' = drain \cup {s \in shut : busy[s]}
     /\ alerts' = alerts \ asked
     /\ why' = [s \in Sid |-> IF s \notin shut THEN why[s]
                           ELSE IF s \in own THEN "own" ELSE "user"]
     /\ m2h' = ToHost([i \in 1..Cardinality(shut) |-> Msg("destroy", SetToSeq(shut)[i])]
               \o [i \in 1..Cardinality(asked) |-> AnswerMsg(SetToSeq(asked)[i], "true")]
               \o then)
CloseForgetsBusy(S, own, then) ==
  LET shut == S \cap open
      asked == {a \in alerts : a[1][1] \in S}
  IN /\ open' = open \ S
     /\ UNCHANGED drain
     /\ alerts' = alerts \ asked
     /\ why' = [s \in Sid |-> IF s \notin shut THEN why[s]
                           ELSE IF s \in own THEN "own" ELSE "user"]
     /\ m2h' = ToHost([i \in 1..Cardinality(shut) |-> Msg("destroy", SetToSeq(shut)[i])]
               \o [i \in 1..Cardinality(asked) |-> AnswerMsg(SetToSeq(asked)[i], "false")]
               \o then)

(* close() of each of S (of which those in own close themselves), and then   *)
(* whatever the caller posts.  Alerts                                       *)
(* are dismissed whether or not the session is still open; their answers    *)
(* leave a microtask later than the DESTROYs.  A busy session stays         *)
(* addressable in the draining map.                                         *)
CloseAnd(S, own, then) ==
  LET shut == S \cap open
      asked == {a \in alerts : a[1][1] \in S}
  IN /\ open' = open \ S
     /\ drain' = drain \cup {s \in shut : busy[s]}
     /\ alerts' = alerts \ asked
     /\ why' = [s \in Sid |-> IF s \notin shut THEN why[s]
                           ELSE IF s \in own THEN "own" ELSE "user"]
     /\ m2h' = ToHost([i \in 1..Cardinality(shut) |-> Msg("destroy", SetToSeq(shut)[i])]
               \o [i \in 1..Cardinality(asked) |-> AnswerMsg(SetToSeq(asked)[i], "false")]
               \o then)

UserClose(s) ==
  /\ "close" \in UserMay
  /\ s \in open \/ \E a \in alerts : a[1][1] = s
  /\ CloseAnd({s}, {}, <<>>)
  /\ UNCHANGED <<launch, busy, human, hiding, sent, owed, reloads, process, h2m, h2w, w2h, up, exited>>

(* The hide event closes every session that is open.                        *)
Hidden ==
  /\ hiding # {}
  /\ hiding' = {}
  /\ CloseAnd(open, hiding, <<>>)
  /\ UNCHANGED <<launch, busy, human, sent, owed, reloads, process, h2m, h2w, w2h, up, exited>>

UserAnswers(a, value) ==
  /\ a \in alerts
  /\ alerts' = alerts \ {a}
  /\ human' = [human EXCEPT ![a] = value]
  /\ m2h' = ToHost(<<AnswerMsg(a, value)>>)
  /\ UNCHANGED <<launch, open, busy, drain, hiding, why, sent, owed, reloads,
                 process, h2m, h2w, w2h, up, exited>>

(* A fault of the 90 s timer: waiting for a busy session to fall idle.      *)
StopDrainingIdle(s) ==
  /\ s \in drain /\ ~busy[s]
  /\ drain' = drain \ {s}
  /\ why' = [why EXCEPT ![s] = "ceiling"]
  /\ UNCHANGED <<launch, open, busy, alerts, human, hiding, sent, owed, reloads>> /\ UNCHANGED wires

(* The 90 s timer of a draining session.                                    *)
StopDraining(s) ==
  /\ s \in drain
  /\ drain' = drain \ {s}
  /\ why' = [why EXCEPT ![s] = "ceiling"]
  /\ UNCHANGED <<launch, open, busy, alerts, human, hiding, sent, owed, reloads>> /\ UNCHANGED wires

----------------------------------------------------------------------------
(* What main does with the message at the head of the host's port.          *)
Heard(type) == h2m # <<>> /\ Head(h2m).type = type
Next1 == h2m' = Tail(h2m)
Sender == Head(h2m).sid

HearCreated ==
  /\ Heard("created") /\ Next1
  /\ launch' = [launch EXCEPT ![Sender] = "ok"]
  /\ UNCHANGED <<open, busy, drain, alerts, human, hiding, why, sent, owed, reloads,
                 process, m2h, h2w, w2h, up, exited>>

HearRefused ==
  /\ Heard("refused") /\ Next1
  /\ launch' = [launch EXCEPT ![Sender] = "failed"]
  /\ open' = open \ {Sender}
  /\ why' = [why EXCEPT ![Sender] = IF Sender \in open THEN "refused" ELSE @]
  /\ UNCHANGED <<busy, drain, alerts, human, hiding, sent, owed, reloads,
                 process, m2h, h2w, w2h, up, exited>>

HearBusy ==
  /\ Heard("busy") /\ Next1
  /\ busy' = [busy EXCEPT ![Sender] = IF Sender \in open \cup drain
                                       THEN Head(h2m).busy ELSE @]
  /\ drain' = IF Head(h2m).busy THEN drain ELSE drain \ {Sender}
  /\ UNCHANGED <<launch, open, alerts, human, hiding, why, sent, owed, reloads,
                 process, m2h, h2w, w2h, up, exited>>

(* onFailure(): a fatal failure forgets the session and shows the card; any  *)
(* other is a toast.                                                        *)
HearFailed ==
  /\ Heard("failed") /\ Next1
  /\ IF Head(h2m).fatal
       THEN /\ open' = open \ {Sender}
            /\ drain' = drain \ {Sender}
            /\ why' = [why EXCEPT ![Sender] = IF Sender \in open THEN "failed" ELSE @]
       ELSE UNCHANGED <<open, drain, why>>
  /\ UNCHANGED <<launch, busy, alerts, human, hiding, sent, owed, reloads,
                 process, m2h, h2w, w2h, up, exited>>

(* A fault: the session forgotten and its worker not told.                  *)
HearFinishedForgets ==
  /\ Heard("finished") /\ Next1
  /\ open' = open \ {Sender}
  /\ why' = [why EXCEPT ![Sender] = "finished"]
  /\ UNCHANGED <<drain, alerts, launch, busy, human, hiding, sent, owed, reloads,
                 process, m2h, h2w, w2h, up, exited>>

(* SESSION_FINISHED: the drain of that session stops before the close that  *)
(* may start one.                                                           *)
HearFinished ==
  /\ Heard("finished") /\ Next1
  /\ LET s == Sender
         asked == {a \in alerts : a[1][1] = s}
     IN /\ open' = open \ {s}
        /\ drain' = (drain \ {s}) \cup (IF s \in open /\ busy[s] THEN {s} ELSE {})
        /\ alerts' = alerts \ asked
        /\ why' = [why EXCEPT ![s] = "finished"]
        /\ m2h' = ToHost((IF s \in open THEN <<Msg("destroy", s)>> ELSE <<>>)
             \o [i \in 1..Cardinality(asked) |-> AnswerMsg(SetToSeq(asked)[i], "false")])
  /\ UNCHANGED <<launch, busy, human, hiding, sent, owed, reloads, process, h2w, w2h, up, exited>>

(* A service call.  owner(): the session must be open or draining.          *)
HearCall ==
  /\ Heard("call") /\ Next1
  /\ LET m == Head(h2m)
         s == m.from[1]
         a == <<m.from, m.ask>>
         ok == <<AnswerMsg(a, "ok")>>
         Quietly == UNCHANGED <<open, drain, why, hiding>>
     IN \/ /\ s \notin open \cup drain
           /\ m2h' = ToHost(<<AnswerMsg(a, "refused")>>)
           /\ Quietly /\ UNCHANGED alerts
        \/ /\ s \in open \cup drain /\ m.kind = "service"
           /\ m2h' = ToHost(ok)
           /\ Quietly /\ UNCHANGED alerts
        \/ /\ s \in open \cup drain /\ m.kind = "alert"
           /\ alerts' = alerts \cup {a}
           /\ Quietly /\ UNCHANGED m2h
        \/ /\ s \in open \cup drain /\ m.kind = "pop"
           /\ CloseAnd({s}, {s}, ok)
           /\ UNCHANGED hiding
        \/ /\ s \in open \cup drain /\ m.kind = "hide"
           /\ CloseAnd(open, {s}, ok)
           /\ UNCHANGED hiding
        \/ /\ s \in open \cup drain /\ m.kind = "hide"
           /\ hiding' = hiding \cup {s}
           /\ m2h' = ToHost(ok)
           /\ UNCHANGED <<open, drain, why, alerts>>
  /\ UNCHANGED <<launch, busy, human, sent, owed, reloads, process, h2w, w2h, up, exited>>

(* A fault: the sessions of the dead host kept.                             *)
HearExitKeepsSessions ==
  /\ process = "dead" /\ h2m = <<>>
  /\ process' = "none"
  /\ launch' = [s \in Sid |-> IF launch[s] = "waiting" THEN "failed" ELSE launch[s]]
  /\ UNCHANGED <<open, busy, drain, alerts, why, human, hiding, sent, owed, reloads,
                 m2h, h2m, h2w, w2h, up, exited>>

(* onHostExit(): every launch still awaited fails, every session ends,      *)
(* every alert is dismissed (into a port nobody reads).  The draining map   *)
(* is left as it is.                                                        *)
HearExit ==
  /\ process = "dead" /\ h2m = <<>>
  /\ process' = "none"
  /\ launch' = [s \in Sid |-> IF launch[s] = "waiting" THEN "failed" ELSE launch[s]]
  /\ open' = {} /\ alerts' = {}
  /\ why' = [s \in Sid |-> IF s \in open THEN "exit" ELSE why[s]]
  /\ UNCHANGED <<busy, drain, human, hiding, sent, owed, reloads, m2h, h2m, h2w, w2h, up, exited>>
=============================================================================
