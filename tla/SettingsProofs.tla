---------------------------- MODULE SettingsProofs ----------------------------
(***************************************************************************)
(* What holds of the settings and the update (MCSettings) for every value  *)
(* of the constants.  A behaviour of Spec is one of one of the instances,  *)
(* so an inductive invariant of the instance is one of Spec while it is of *)
(* that part: the others leave its variables alone.                        *)
(***************************************************************************)
EXTENDS MCSettings, FiniteSetTheorems, TLAPS

(****************************** the update ******************************)
Known == Nat \cup {None}
Checks == [newest : Known, problem : BOOLEAN, dirty : BOOLEAN]
Daemons == {None} \cup [code : Nat, says : Nat]
Steps == {"rest", "fetch", "compare", "answer", "pull", "script", "quit", "start"}

Runs == [at : Steps, saw : {None} \cup Checks, expect : Known]
Outcomes == {None} \cup [ok : BOOLEAN, restarted : BOOLEAN, wanted : Known, ran : Daemons]

(* What the variables hold. *)
UpdateTypeOK ==
  /\ remote \in Nat /\ origin \in Nat /\ head \in Nat /\ built \in Known /\ dirty \in BOOLEAN
  /\ daemon \in Daemons
  /\ job \in [U!Jobs -> Runs]
  /\ check \in {None} \cup Checks
  /\ outcome \in Outcomes
  /\ agreed \in SUBSET Nat /\ broken \in BOOLEAN

(* Whatever was fetched or pulled, the remote has. *)
Behind(c) == c # None => c <= remote
RemoteIsAhead == origin <= remote /\ head <= remote /\ (check # None => Behind(check.newest))

(* How far a run has come, and what therefore holds of the commit that was *)
(* agreed to: it was, the checkout has it, the build has it, the daemon    *)
(* has it.                                                                  *)
Pledged(j) == job[j].at \in {"pull", "script", "quit", "start"} \/ (j = "apply" /\ job[j].at # "rest")
Keeps(j) ==
  /\ job[j].at = "answer" => job[j].saw \in Checks /\ Behind(job[j].saw.newest)
  /\ Pledged(j) => job[j].expect \in agreed /\ job[j].expect <= remote
  /\ job[j].at \in {"script", "quit", "start"} => job[j].expect <= head
  /\ job[j].at \in {"quit", "start"} /\ built # None => job[j].expect <= built
  /\ job[j].at = "start" /\ daemon # None => job[j].expect <= daemon.code
RunsKeep == \A j \in U!Jobs : Keeps(j)

(* A daemon on other code than the build is about to be told to quit. *)
OldIsToQuit ==
  ~broken /\ daemon # None => daemon.code = built \/ \E j \in U!Jobs : job[j].at = "quit"

UpdateInv == UpdateTypeOK /\ RemoteIsAhead /\ RunsKeep /\ OldIsToQuit /\ U!AskedFirst /\ U!RestartedRunsIt

-----------------------------------------------------------------------------
LEMMA UpdateInitially == U!InitUpdate => UpdateInv
<1> SUFFICES ASSUME U!InitUpdate PROVE UpdateInv
  OBVIOUS
<1>1. /\ remote = 0 /\ origin = 0 /\ head = 0 /\ built = 0 /\ dirty \in BOOLEAN /\ check = None
      /\ outcome = None /\ agreed = {} /\ broken = FALSE /\ job = [j \in U!Jobs |-> U!Resting]
  BY DEF U!InitUpdate
<1>2. daemon \in Daemons /\ (daemon # None => daemon.code = 0)
  BY DEF U!InitUpdate, Daemons
<1>3. U!Resting \in Runs /\ U!Resting.at = "rest"
  BY DEF U!Resting, Runs, Steps, Known
<1>4. UpdateTypeOK
  BY <1>1, <1>2, <1>3 DEF UpdateTypeOK, Known, Outcomes
<1>5. RemoteIsAhead /\ U!AskedFirst /\ U!RestartedRunsIt /\ OldIsToQuit
  BY <1>1, <1>2 DEF RemoteIsAhead, U!AskedFirst, U!RestartedRunsIt, OldIsToQuit
<1>6. RunsKeep
  BY <1>1, <1>3 DEF RunsKeep, Keeps, Pledged
<1> QED BY <1>4, <1>5, <1>6 DEF UpdateInv

LEMMA EndsTyped ==
  ASSUME job \in [U!Jobs -> Runs], NEW j \in U!Jobs, U!Ends(j) \/ U!Goes(j, "start")
  PROVE  job' \in [U!Jobs -> Runs]
  BY DEF U!Ends, U!Goes, U!Resting, Runs, Steps, Known

LEMMA SaysTyped ==
  ASSUME UpdateTypeOK, NEW ok \in BOOLEAN, NEW was \in BOOLEAN, NEW ran \in Daemons, U!Says(ok, was, ran)
  PROVE  outcome' \in Outcomes
  BY DEF UpdateTypeOK, U!Says, Outcomes, Runs, U!Jobs

LEMMA TypePreserved ==
  ASSUME UpdateInv, U!NextUpdate PROVE UpdateTypeOK'
<1> USE DEF UpdateInv, UpdateTypeOK, Known, Checks, Daemons, Steps, Runs, Outcomes, U!Resting, U!Goes, U!Ends
<1>1. CASE U!PressCheck \/ U!PressUpdateNow \/ U!PressCancel \/ U!RunUpdate \/ U!Shows \/ U!RemoteMoves \/ U!Consented
  BY <1>1 DEF U!PressCheck, U!PressUpdateNow, U!PressCancel, U!RunUpdate, U!Shows, U!RemoteMoves, U!Consented, U!Jobs, RunsKeep, Keeps
<1>2. CASE U!PressPull
  BY <1>2 DEF U!PressPull, U!Jobs
<1>3. CASE U!Moved
  BY <1>3 DEF U!Moved, U!Says, U!Jobs
<1>4. CASE U!Press
  BY <1>4 DEF U!Press, U!Started
<1>5. ASSUME NEW yes \in BOOLEAN, U!Answers(yes) PROVE UpdateTypeOK'
  BY <1>5 DEF U!Answers, U!Jobs, RunsKeep, Keeps
<1>6. ASSUME NEW j \in U!Jobs, U!Fetch(j) \/ U!FetchFails(j) \/ U!Compare(j) PROVE UpdateTypeOK'
  BY <1>6 DEF U!Fetch, U!FetchFails, U!Compare, U!Saw, U!Newest
<1>7. ASSUME NEW j \in U!Jobs \ {"check"}, U!Pull(j) \/ U!Script(j) PROVE UpdateTypeOK'
  BY <1>7 DEF U!Pull, U!Script
<1>8. ASSUME NEW j \in U!Jobs \ {"check"}, U!PullRefused(j) \/ U!ScriptFails(j) PROVE UpdateTypeOK'
  <2>1. U!Ends(j) /\ (outcome' = outcome \/ U!Says(FALSE, FALSE, None))
    BY <1>8 DEF U!PullRefused, U!ScriptFails, U!Fails
  <2>2. /\ UNCHANGED <<remote, origin, head, dirty, daemon, check, agreed>>
        /\ built' \in {built, None, head} /\ broken' \in BOOLEAN
    BY <1>8 DEF U!PullRefused, U!ScriptFails
  <2>3. outcome' \in Outcomes
    BY <2>1, SaysTyped DEF U!Fails
  <2>4. job' \in [U!Jobs -> Runs]
    BY <2>1, EndsTyped
  <2> QED BY <2>2, <2>3, <2>4
<1>9. ASSUME NEW j \in U!Jobs \ {"check"}, U!Quit(j) \/ U!Start(j) PROVE UpdateTypeOK'
  <2>1. U!Started \in Daemons
    BY DEF U!Started
  <2>2. daemon' \in Daemons /\ UNCHANGED <<remote, origin, head, dirty, built, agreed, broken>>
    BY <1>9, <2>1 DEF U!Quit, U!Start
  <2>3. \/ \E was \in BOOLEAN, ran \in Daemons : U!Done(j, was, ran)
        \/ U!Goes(j, "start") /\ UNCHANGED <<outcome, check>>
    <3>1. CASE U!Quit(j)
      BY <3>1 DEF U!Quit
    <3>2. CASE U!Start(j)
      BY <3>2, <2>2 DEF U!Start
    <3> QED BY <1>9, <3>1, <3>2
  <2>4. job' \in [U!Jobs -> Runs]
    BY <2>3, EndsTyped DEF U!Done
  <2>5. outcome' \in Outcomes /\ check' \in {None} \cup Checks
    BY <2>3, SaysTyped DEF U!Done
  <2> QED BY <2>2, <2>4, <2>5
<1> QED BY <1>1, <1>2, <1>3, <1>4, <1>5, <1>6, <1>7, <1>8, <1>9 DEF U!NextUpdate

LEMMA AheadPreserved ==
  ASSUME UpdateInv, U!NextUpdate PROVE RemoteIsAhead'
<1>1. /\ remote \in Nat /\ origin \in Nat /\ head \in Nat
      /\ (check # None => check.newest \in Known)
      /\ origin <= remote /\ head <= remote /\ (check # None => Behind(check.newest))
  BY DEF UpdateInv, UpdateTypeOK, RemoteIsAhead, Checks
<1> USE <1>1 DEF Known, RemoteIsAhead, Behind
<1>2. CASE U!Shows
  BY <1>2 DEF U!Shows, UpdateInv, RunsKeep, Keeps, U!Jobs
<1>3. ASSUME NEW j \in U!Jobs \ {"check"}, U!Quit(j) \/ U!Start(j) PROVE RemoteIsAhead'
  <2>1. check' = None \/ check' = check
    BY <1>3 DEF U!Quit, U!Start, U!Done
  <2> QED BY <1>3, <2>1 DEF U!Quit, U!Start
<1>4. CASE U!PressCheck \/ U!PressUpdateNow \/ U!PressPull \/ U!PressCancel \/ U!RunUpdate \/ U!Consented \/ U!Moved \/ U!Press
           \/ \E yes \in BOOLEAN : U!Answers(yes)
  <2>1. UNCHANGED <<remote, origin, head, check>>
    BY <1>4 DEF U!PressCheck, U!PressUpdateNow, U!PressPull, U!PressCancel, U!RunUpdate, U!Consented, U!Moved, U!Press, U!Answers
  <2> QED BY <2>1
<1>5. CASE U!RemoteMoves
  BY <1>5 DEF U!RemoteMoves
<1>6. ASSUME NEW j \in U!Jobs, U!Fetch(j) \/ U!FetchFails(j) \/ U!Compare(j) PROVE RemoteIsAhead'
  <2>1. UNCHANGED <<remote, head, check>> /\ origin' \in {origin, remote}
    BY <1>6 DEF U!Fetch, U!FetchFails, U!Compare
  <2> QED BY <2>1
<1>7. ASSUME NEW j \in U!Jobs \ {"check"}, U!Pull(j) \/ U!PullRefused(j) \/ U!Script(j) \/ U!ScriptFails(j) PROVE RemoteIsAhead'
  <2>1. UNCHANGED <<remote, check>> /\ origin' \in {origin, remote} /\ head' \in {head, remote}
    BY <1>7 DEF U!Pull, U!PullRefused, U!Script, U!ScriptFails
  <2> QED BY <2>1
<1> QED BY <1>2, <1>3, <1>4, <1>5, <1>6, <1>7 DEF U!NextUpdate

(* What a step may do to everything but the runs. *)
Grows ==
  /\ remote <= remote' /\ head <= head' /\ agreed \subseteq agreed'
  /\ built' \in {built, None, head}
  /\ daemon' \in {daemon, None} \/ (built # None /\ daemon' = [code |-> built, says |-> head])

LEMMA WorldGrows ==
  ASSUME UpdateInv, U!NextUpdate PROVE Grows
<1>1. remote \in Nat /\ head \in Nat /\ head <= remote
  BY DEF UpdateInv, UpdateTypeOK, RemoteIsAhead
<1> USE <1>1 DEF Grows
<1>2. CASE U!PressCheck \/ U!PressUpdateNow \/ U!PressPull \/ U!PressCancel \/ U!RunUpdate \/ U!Shows \/ U!Consented \/ U!Moved
           \/ \E yes \in BOOLEAN : U!Answers(yes)
  <2>1. UNCHANGED <<remote, head, built, daemon>> /\ agreed \subseteq agreed'
    BY <1>2 DEF U!PressCheck, U!PressUpdateNow, U!PressPull, U!PressCancel, U!RunUpdate, U!Shows, U!Consented, U!Moved, U!Answers
  <2> QED BY <2>1
<1>3. CASE U!RemoteMoves
  BY <1>3 DEF U!RemoteMoves
<1>4. CASE U!Press
  BY <1>4 DEF U!Press, U!Started
<1>5. ASSUME NEW j \in U!Jobs, U!Fetch(j) \/ U!FetchFails(j) \/ U!Compare(j) PROVE Grows
  <2>1. UNCHANGED <<remote, head, built, daemon, agreed>>
    BY <1>5 DEF U!Fetch, U!FetchFails, U!Compare
  <2> QED BY <2>1
<1>6. ASSUME NEW j \in U!Jobs \ {"check"}, U!Pull(j) \/ U!PullRefused(j) \/ U!Script(j) \/ U!ScriptFails(j) PROVE Grows
  BY <1>6 DEF U!Pull, U!PullRefused, U!Script, U!ScriptFails
<1>7. ASSUME NEW j \in U!Jobs \ {"check"}, U!Quit(j) \/ U!Start(j) PROVE Grows
  <2>1. UNCHANGED <<remote, head, built, agreed>> /\ (daemon' = None \/ daemon' = daemon \/ daemon' = U!Started)
    BY <1>7 DEF U!Quit, U!Start
  <2> QED BY <2>1 DEF U!Started
<1> QED BY <1>2, <1>3, <1>4, <1>5, <1>6, <1>7 DEF U!NextUpdate

(* A run that does not move keeps what it had. *)
LEMMA OthersKeep ==
  ASSUME UpdateInv, UpdateTypeOK', Grows, NEW j \in U!Jobs, job'[j] = job[j]
  PROVE  Keeps(j)'
<1>1. /\ remote \in Nat /\ head \in Nat /\ built \in Known /\ agreed \in SUBSET Nat
      /\ remote' \in Nat /\ head' \in Nat /\ job[j].saw \in {None} \cup Checks
      /\ (daemon # None => daemon.code \in Nat) /\ job[j].at \in Steps
  BY DEF UpdateInv, UpdateTypeOK, Daemons, Runs
<1>2. Keeps(j)
  BY DEF UpdateInv, RunsKeep
<1>3. (job[j].at = "answer" => job[j].saw \in Checks /\ Behind(job[j].saw.newest))'
  BY <1>1, <1>2 DEF Keeps, Behind, Grows, Checks, Known
<1>4. (Pledged(j) => job[j].expect \in agreed /\ job[j].expect <= remote)'
  <2>1. Pledged(j)' => job[j].expect \in agreed /\ job[j].expect <= remote
    BY <1>2 DEF Keeps, Pledged
  <2>3. remote <= remote' /\ agreed \subseteq agreed'
    BY DEF Grows
  <2>2. ASSUME NEW e \in agreed PROVE e \in agreed' /\ (e <= remote => e <= remote')
    <3>1. e \in Nat
      BY <1>1
    <3> QED BY <1>1, <2>3, <3>1
  <2> QED BY <2>1, <2>2
<1>5. job[j].at \in {"script", "quit", "start"} => job[j].expect \in Nat /\ job[j].expect <= head
  BY <1>1, <1>2 DEF Keeps, Pledged
<1>6. (job[j].at \in {"script", "quit", "start"} => job[j].expect <= head)'
  BY <1>1, <1>5 DEF Grows
<1>7. (job[j].at \in {"quit", "start"} /\ built # None => job[j].expect <= built)'
  BY <1>1, <1>2, <1>5 DEF Keeps, Grows
<1>8. (job[j].at = "start" /\ daemon # None => job[j].expect <= daemon.code)'
  BY <1>1, <1>2, <1>5 DEF Keeps, Grows
<1> QED BY <1>3, <1>4, <1>6, <1>7, <1>8 DEF Keeps

LEMMA RunsKeepPreserved ==
  ASSUME UpdateInv, U!NextUpdate, UpdateTypeOK' PROVE RunsKeep'
<1>1. Grows
  BY WorldGrows
<1>2. ASSUME NEW j \in U!Jobs, \A i \in U!Jobs \ {j} : job'[i] = job[i], Keeps(j)' PROVE RunsKeep'
  BY <1>1, <1>2, OthersKeep DEF RunsKeep
<1>3. ASSUME UNCHANGED job PROVE RunsKeep'
  BY <1>1, <1>3, OthersKeep DEF RunsKeep
<1>4. /\ job \in [U!Jobs -> Runs] /\ remote \in Nat /\ head \in Nat /\ built \in Known /\ agreed \in SUBSET Nat
      /\ head <= remote /\ (origin \in Nat /\ origin <= remote)
      /\ (check # None => check \in Checks /\ Behind(check.newest))
      /\ (daemon # None => daemon.code \in Nat)
  BY DEF UpdateInv, UpdateTypeOK, RemoteIsAhead, Daemons
<1>5. \A j \in U!Jobs : Keeps(j) /\ job[j] \in Runs
  BY <1>4 DEF UpdateInv, RunsKeep
<1>6. U!Resting.at = "rest"
  BY DEF U!Resting
<1>7. ASSUME NEW j \in U!Jobs, U!Ends(j) PROVE RunsKeep'
  <2>1. job'[j].at = "rest" /\ \A i \in U!Jobs \ {j} : job'[i] = job[i]
    BY <1>4, <1>6, <1>7 DEF U!Ends
  <2>2. Keeps(j)'
    BY <2>1 DEF Keeps, Pledged
  <2> QED BY <1>2, <2>1, <2>2
<1>8. ASSUME NEW j \in U!Jobs, NEW at \in Steps, U!Goes(j, at)
      PROVE  /\ \A i \in U!Jobs \ {j} : job'[i] = job[i]
             /\ job'[j].at = at /\ job'[j].saw = job[j].saw /\ job'[j].expect = job[j].expect
  BY <1>4, <1>8 DEF U!Goes, Runs
<1>10. CASE U!PressUpdateNow \/ U!PressCancel \/ U!Press \/ U!RemoteMoves
  BY <1>3, <1>10 DEF U!PressUpdateNow, U!PressCancel, U!Press, U!RemoteMoves
<1>11. CASE U!PressCheck
  <2>1. U!Goes("check", "fetch")
    BY <1>11 DEF U!PressCheck
  <2>2. Keeps("check")'
    BY <2>1, <1>8 DEF Keeps, Pledged, U!Jobs, Steps
  <2> QED BY <1>2, <1>8, <2>1, <2>2 DEF U!Jobs, Steps
<1>12. CASE U!RunUpdate
  <2>1. U!Goes("update", "fetch")
    BY <1>12 DEF U!RunUpdate
  <2>2. Keeps("update")'
    BY <2>1, <1>8 DEF Keeps, Pledged, U!Jobs, Steps
  <2> QED BY <1>2, <1>8, <2>1, <2>2 DEF U!Jobs, Steps
<1>13. CASE U!PressPull
  <2>1. /\ job'["apply"] = [at |-> "fetch", saw |-> None, expect |-> check.newest]
        /\ \A i \in U!Jobs \ {"apply"} : job'[i] = job[i]
    BY <1>4, <1>13 DEF U!PressPull, U!Jobs
  <2>2. check.newest \in agreed' /\ check.newest <= remote'
    BY <1>4, <1>13 DEF U!PressPull, Behind
  <2>3. Keeps("apply")'
    BY <2>1, <2>2 DEF Keeps, Pledged
  <2> QED BY <1>2, <2>1, <2>3 DEF U!Jobs
<1>14. CASE U!Shows
  BY <1>7, <1>14 DEF U!Shows, U!Jobs
<1>15. CASE U!Moved
  BY <1>7, <1>15 DEF U!Moved, U!Jobs
<1>16. CASE U!Consented
  <2>1. U!Goes("apply", "pull") /\ job["apply"].at = "answer" /\ UNCHANGED <<remote, agreed>>
    BY <1>16 DEF U!Consented
  <2>2. Keeps("apply")'
    BY <2>1, <1>5, <1>8 DEF Keeps, Pledged, U!Jobs, Steps
  <2> QED BY <1>2, <1>8, <2>1, <2>2 DEF U!Jobs, Steps
<1>17. ASSUME NEW yes \in BOOLEAN, U!Answers(yes) PROVE RunsKeep'
  <2> DEFINE saw == job["update"].saw
  <2>1. CASE U!Ends("update")
    BY <1>7, <2>1 DEF U!Jobs
  <2>2. CASE ~U!Ends("update")
    <3>1. /\ job' = [job EXCEPT !["update"].at = "pull", !["update"].expect = saw.newest]
          /\ saw.newest # None /\ agreed' = agreed \cup {saw.newest} /\ remote' = remote
          /\ job["update"].at = "answer"
      BY <1>17, <2>2 DEF U!Answers
    <3>2. /\ job'["update"].at = "pull" /\ job'["update"].expect = saw.newest
          /\ \A i \in U!Jobs \ {"update"} : job'[i] = job[i]
      BY <1>4, <3>1 DEF U!Jobs, Runs
    <3>3. saw.newest <= remote'
      BY <1>5, <3>1 DEF Keeps, Behind, U!Jobs
    <3>4. Keeps("update")'
      BY <3>1, <3>2, <3>3 DEF Keeps, Pledged
    <3> QED BY <1>2, <3>2, <3>4 DEF U!Jobs
  <2> QED BY <2>1, <2>2
<1>18. ASSUME NEW j \in U!Jobs, U!Fetch(j) PROVE RunsKeep'
  <2>1. U!Goes(j, "compare") /\ job[j].at = "fetch" /\ UNCHANGED <<remote, agreed>>
    BY <1>18 DEF U!Fetch
  <2>2. Keeps(j)'
    BY <2>1, <1>5, <1>8 DEF Keeps, Pledged, Steps
  <2> QED BY <1>2, <1>8, <2>1, <2>2 DEF Steps
<1>19. ASSUME NEW j \in U!Jobs, U!FetchFails(j) \/ U!Compare(j) PROVE RunsKeep'
  <2>1. \E went \in BOOLEAN : job' = [job EXCEPT ![j].at = "answer", ![j].saw = U!Saw(went)]
    BY <1>19 DEF U!FetchFails, U!Compare
  <2>2. PICK went \in BOOLEAN : job' = [job EXCEPT ![j].at = "answer", ![j].saw = U!Saw(went)]
    BY <2>1
  <2>3. UNCHANGED <<remote, agreed>> /\ job[j].at \in {"fetch", "compare"}
    BY <1>19 DEF U!FetchFails, U!Compare
  <2>4. /\ job'[j].at = "answer" /\ job'[j].saw = U!Saw(went) /\ job'[j].expect = job[j].expect
        /\ \A i \in U!Jobs \ {j} : job'[i] = job[i]
    BY <1>4, <2>2 DEF Runs
  <2>5. dirty \in BOOLEAN
    BY DEF UpdateInv, UpdateTypeOK
  <2>6. U!Saw(went) \in Checks /\ (U!Saw(went).newest # None => U!Saw(went).newest <= remote)
    BY <1>4, <2>5 DEF U!Saw, U!Newest, Checks, Known
  <2>7. Keeps(j)'
    BY <1>5, <2>3, <2>4, <2>6 DEF Keeps, Pledged, Behind
  <2> QED BY <1>2, <2>4, <2>7
<1>20. ASSUME NEW j \in U!Jobs \ {"check"}, U!Pull(j) PROVE RunsKeep'
  <2>1. U!Goes(j, "script") /\ job[j].at = "pull" /\ UNCHANGED <<remote, agreed>> /\ head' = remote
    BY <1>20 DEF U!Pull
  <2>2. Keeps(j)'
    BY <2>1, <1>5, <1>8 DEF Keeps, Pledged, Steps
  <2> QED BY <1>2, <1>8, <2>1, <2>2 DEF Steps
<1>21. ASSUME NEW j \in U!Jobs \ {"check"}, U!PullRefused(j) \/ U!ScriptFails(j) PROVE RunsKeep'
  BY <1>7, <1>21 DEF U!PullRefused, U!ScriptFails, U!Fails
<1>22. ASSUME NEW j \in U!Jobs \ {"check"}, U!Script(j) PROVE RunsKeep'
  <2>1. /\ U!Goes(j, "quit") /\ job[j].at = "script" /\ UNCHANGED <<remote, head, agreed, daemon>>
        /\ built' = head
    BY <1>22 DEF U!Script
  <2>2. Keeps(j)'
    BY <2>1, <1>5, <1>8 DEF Keeps, Pledged, Steps
  <2> QED BY <1>2, <1>8, <2>1, <2>2 DEF Steps
<1>23. ASSUME NEW j \in U!Jobs \ {"check"}, U!Start(j) PROVE RunsKeep'
  BY <1>7, <1>23 DEF U!Start, U!Done
<1>24. ASSUME NEW j \in U!Jobs \ {"check"}, U!Quit(j) PROVE RunsKeep'
  <2>1. CASE U!Ends(j)
    BY <1>7, <2>1
  <2>2. CASE ~U!Ends(j)
    <3>1. /\ U!Goes(j, "start") /\ job[j].at = "quit" /\ UNCHANGED <<remote, head, agreed, built>>
          /\ daemon' = None
      BY <1>24, <2>2 DEF U!Quit, U!Done
    <3>2. Keeps(j)'
      BY <3>1, <1>5, <1>8 DEF Keeps, Pledged, Steps
    <3> QED BY <1>2, <1>8, <3>1, <3>2 DEF Steps
  <2> QED BY <2>1, <2>2
<1> QED BY <1>10, <1>11, <1>12, <1>13, <1>14, <1>15, <1>16, <1>17, <1>18, <1>19, <1>20, <1>21, <1>22, <1>23, <1>24
        DEF U!NextUpdate

LEMMA AskedPreserved ==
  ASSUME UpdateInv, U!NextUpdate PROVE U!AskedFirst'
<1>1. U!AskedFirst /\ Grows
  BY WorldGrows DEF UpdateInv
<1>2. CASE head' = head
  BY <1>1, <1>2 DEF U!AskedFirst, Grows
<1>3. ASSUME NEW j \in U!Jobs \ {"check"}, U!Pull(j) PROVE U!AskedFirst'
  <2>1. job[j].expect \in agreed /\ job[j].expect <= remote /\ head' = remote /\ agreed' = agreed
    BY <1>3 DEF U!Pull, UpdateInv, RunsKeep, Keeps, Pledged
  <2> QED BY <2>1 DEF U!AskedFirst
<1>4. head' = head \/ \E j \in U!Jobs \ {"check"} : U!Pull(j)
  BY DEF U!NextUpdate, U!PressCheck, U!PressUpdateNow, U!PressPull, U!PressCancel, U!RunUpdate, U!Shows, U!Consented, U!Moved, U!Press,
         U!RemoteMoves, U!Answers, U!Fetch, U!FetchFails, U!Compare, U!PullRefused, U!Script, U!ScriptFails, U!Quit, U!Start
<1> QED BY <1>2, <1>3, <1>4

LEMMA ToldPreserved ==
  ASSUME UpdateInv, U!NextUpdate, UpdateTypeOK' PROVE U!RestartedRunsIt'
<1>1. U!RestartedRunsIt /\ UpdateTypeOK /\ RunsKeep
  BY DEF UpdateInv
<1>2. CASE outcome' = outcome
  BY <1>1, <1>2 DEF U!RestartedRunsIt
<1>3. CASE outcome' = None
  BY <1>3 DEF U!RestartedRunsIt
<1>4. ASSUME NEW ok \in BOOLEAN, U!Says(ok, FALSE, None) PROVE U!RestartedRunsIt'
  BY <1>4 DEF U!RestartedRunsIt, U!Says
<1>5. ASSUME NEW j \in U!Jobs \ {"check"}, U!Start(j) PROVE U!RestartedRunsIt'
  <2>1. CASE j # "apply"
    BY <1>2, <1>5, <2>1 DEF U!Start, U!Done
  <2>2. CASE j = "apply"
    <3>1. U!Says(TRUE, daemon' # None, daemon') /\ job["apply"].at = "start"
      BY <1>5, <2>2 DEF U!Start, U!Done
    <3>2. /\ job["apply"].expect \in Nat
          /\ built # None => job["apply"].expect <= built /\ built \in Nat
          /\ daemon # None => job["apply"].expect <= daemon.code /\ daemon.code \in Nat
      BY <1>1, <3>1 DEF UpdateTypeOK, RunsKeep, Keeps, Pledged, U!Jobs, Known, Daemons
    <3>3. daemon' # None => daemon'.code >= job["apply"].expect
      BY <1>5, <3>2 DEF U!Start, U!Started
    <3>4. outcome'.restarted = (daemon' # None) /\ outcome'.ran = daemon' /\ outcome'.wanted = job["apply"].expect
      BY <3>1 DEF U!Says
    <3> QED BY <3>3, <3>4 DEF U!RestartedRunsIt
  <2> QED BY <2>1, <2>2
<1>6. ASSUME NEW j \in U!Jobs \ {"check"}, U!PullRefused(j) \/ U!ScriptFails(j) PROVE U!RestartedRunsIt'
  BY <1>2, <1>4, <1>6 DEF U!PullRefused, U!ScriptFails, U!Fails
<1>7. ASSUME NEW j \in U!Jobs \ {"check"}, U!Quit(j) PROVE U!RestartedRunsIt'
  BY <1>2, <1>4, <1>7 DEF U!Quit, U!Done
<1>8. CASE U!Moved
  BY <1>4, <1>8 DEF U!Moved
<1>9. CASE U!PressCheck \/ U!PressUpdateNow \/ U!PressPull \/ U!PressCancel \/ U!RunUpdate \/ U!Shows \/ U!Consented \/ U!Press \/ U!RemoteMoves
           \/ (\E yes \in BOOLEAN : U!Answers(yes)) \/ (\E j \in U!Jobs : U!Fetch(j) \/ U!FetchFails(j) \/ U!Compare(j))
           \/ \E j \in U!Jobs \ {"check"} : U!Pull(j) \/ U!Script(j)
  <2>1. outcome' = outcome \/ outcome' = None
    BY <1>9 DEF U!PressCheck, U!PressUpdateNow, U!PressPull, U!PressCancel, U!RunUpdate, U!Shows, U!Consented, U!Press, U!RemoteMoves,
                U!Answers, U!Fetch, U!FetchFails, U!Compare, U!Pull, U!Script
  <2> QED BY <1>2, <1>3, <2>1
<1> QED BY <1>5, <1>6, <1>7, <1>8, <1>9 DEF U!NextUpdate

LEMMA OldPreserved ==
  ASSUME UpdateInv, U!NextUpdate PROVE OldIsToQuit'
<1>1. OldIsToQuit /\ job \in [U!Jobs -> Runs]
  BY DEF UpdateInv, UpdateTypeOK
<1>2. ASSUME UNCHANGED <<built, daemon, broken>>, \A j \in U!Jobs : job[j].at = "quit" => job'[j].at = "quit"
      PROVE  OldIsToQuit'
  BY <1>1, <1>2 DEF OldIsToQuit
<1>3. ASSUME NEW j \in U!Jobs, job[j].at # "quit", UNCHANGED <<built, daemon, broken>>,
             \A i \in U!Jobs \ {j} : job'[i] = job[i]
      PROVE  OldIsToQuit'
  BY <1>2, <1>3
<1>4. ASSUME UNCHANGED <<built, daemon, broken, job>> PROVE OldIsToQuit'
  BY <1>2, <1>4
<1> USE DEF U!Goes, U!Ends
<1>5. CASE U!PressUpdateNow \/ U!PressCancel \/ U!RemoteMoves
  BY <1>4, <1>5 DEF U!PressUpdateNow, U!PressCancel, U!RemoteMoves
<1>6. CASE U!PressCheck \/ U!Shows
  BY <1>1, <1>3, <1>6 DEF U!PressCheck, U!Shows, U!Jobs
<1>7. CASE U!PressPull \/ U!Consented \/ U!Moved
  BY <1>1, <1>3, <1>7 DEF U!PressPull, U!Consented, U!Moved, U!Jobs
<1>8. CASE U!RunUpdate \/ \E yes \in BOOLEAN : U!Answers(yes)
  BY <1>1, <1>3, <1>8 DEF U!RunUpdate, U!Answers, U!Jobs
<1>9. CASE U!Press
  BY <1>1, <1>9 DEF U!Press, U!Started, OldIsToQuit
<1>10. ASSUME NEW j \in U!Jobs, U!Fetch(j) \/ U!FetchFails(j) \/ U!Compare(j) PROVE OldIsToQuit'
  BY <1>1, <1>3, <1>10 DEF U!Fetch, U!FetchFails, U!Compare
<1>11. ASSUME NEW j \in U!Jobs \ {"check"}, U!Pull(j) \/ U!PullRefused(j) PROVE OldIsToQuit'
  BY <1>1, <1>3, <1>11 DEF U!Pull, U!PullRefused, U!Fails
<1>12. ASSUME NEW j \in U!Jobs \ {"check"}, U!Script(j) PROVE OldIsToQuit'
  <2>1. job'[j].at = "quit"
    BY <1>1, <1>12 DEF U!Script, Runs
  <2> QED BY <2>1 DEF OldIsToQuit
<1>13. ASSUME NEW j \in U!Jobs \ {"check"}, U!ScriptFails(j) PROVE OldIsToQuit'
  BY <1>13 DEF U!ScriptFails, OldIsToQuit
<1>14. ASSUME NEW j \in U!Jobs \ {"check"}, U!Quit(j) PROVE OldIsToQuit'
  BY <1>14 DEF U!Quit, OldIsToQuit
<1>15. ASSUME NEW j \in U!Jobs \ {"check"}, U!Start(j) PROVE OldIsToQuit'
  <2>1. UNCHANGED <<built, broken>> /\ job[j].at = "start" /\ \A i \in U!Jobs \ {j} : job'[i] = job[i]
    BY <1>1, <1>15 DEF U!Start, U!Done
  <2>2. CASE daemon' = daemon
    BY <1>3, <2>1, <2>2
  <2>3. CASE daemon' # daemon
    BY <1>15, <2>1, <2>3 DEF U!Start, U!Started, OldIsToQuit
  <2> QED BY <2>2, <2>3
<1> QED BY <1>5, <1>6, <1>7, <1>8, <1>9, <1>10, <1>11, <1>12, <1>13, <1>14, <1>15 DEF U!NextUpdate

LEMMA UpdateInductive ==
  UpdateInv /\ [U!NextUpdate]_(U!updateVars) => UpdateInv'
<1>1. CASE U!NextUpdate
  BY <1>1, TypePreserved, AheadPreserved, RunsKeepPreserved, AskedPreserved, ToldPreserved, OldPreserved DEF UpdateInv
<1>2. CASE UNCHANGED U!updateVars
  BY <1>2 DEF U!updateVars, UpdateInv, UpdateTypeOK, RemoteIsAhead, Behind, RunsKeep, Keeps, Pledged, OldIsToQuit, U!AskedFirst,
              U!RestartedRunsIt
<1> QED BY <1>1, <1>2

LEMMA PromisesFollow == UpdateInv => U!UpdateIntact
<1> SUFFICES ASSUME UpdateInv PROVE U!NoneLeftOnOld
  BY DEF UpdateInv, U!UpdateIntact
<1> QED BY DEF UpdateInv, OldIsToQuit, U!NoneLeftOnOld

(* An update keeps its promises (Update!UpdateIntact), for every history of  *)
(* the remote, any presses and failures, and both updaters at once: nobody's *)
(* checkout moves before somebody said yes, an update that says it restarted *)
(* the launcher left the commit agreed to running, or a newer one, and no    *)
(* daemon stays on code older than the build, if a daemon answers its pings  *)
(* and goes when told (node/update.ts, settings-ipc.ts updateApply,          *)
(* cli/update.ts).                                                           *)
THEOREM UpdateKeepsItsPromises == Spec => []UpdateIntact
<1> DEFINE Inv == part = "update" => UpdateInv
<1>1. Init => Inv
  BY UpdateInitially DEF Init
<1>2. Inv /\ [Next]_vars => Inv'
  <2> SUFFICES ASSUME UpdateInv, part = "update", [Next]_vars PROVE UpdateInv'
    BY DEF Next, vars
  <2>1. [U!NextUpdate]_(U!updateVars)
    BY DEF Next, vars, U!updateVars
  <2> QED BY <2>1, UpdateInductive
<1>3. Inv => UpdateIntact
  BY PromisesFollow DEF UpdateIntact
<1> QED BY <1>1, <1>2, <1>3, PTL DEF Spec

(***************************** one control ******************************)
Settable == Values \cup {Default, None, Bad}
Pending == [id : Nat, value : Settable]
Reply == [id : Nat, ok : BOOLEAN]

(* A value shown before the file has it is of a save that is on its way, is *)
(* answered or was answered less than a second ago; the newest push says    *)
(* what the process has read, unless one is owed, and that is what the file *)
(* says, unless the watcher stirs; a number's draft that has no focus is    *)
(* what is shown, or says what is wrong with it; and the field for a name   *)
(* is open while a name of one's own is shown.                              *)
FieldTypeOK ==
  /\ file \in Settable /\ conf \in Settable /\ truth \in Settable /\ seen \in Settable /\ draft \in Settable
  /\ pending \in {None} \cup Pending
  /\ requests \in Seq(Pending) /\ replies \in Seq(Reply) /\ pushes \in Seq(Settable)
  /\ saves \in Nat /\ problem \in BOOLEAN /\ focused \in BOOLEAN /\ chosen \in BOOLEAN
OnItsWay(id) ==
  \/ \E i \in DOMAIN requests : requests[i].id = id
  \/ \E i \in DOMAIN replies : replies[i].id = id
  \/ id \in clears
PendingIsSaved == pending # None => OnItsWay(pending.id)
Newest == IF pushes = <<>> THEN truth ELSE pushes[Len(pushes)]
PushIsOwed == owed \/ Newest = conf
ReadIsOwed == stirred \/ conf = file
DraftIsShown ==
  /\ seen = F!Shown
  /\ kind.is \in {"number", "pills"} => focused \/ problem \/ draft = seen
  /\ kind.is = "name" /\ F!Unlisted(seen) => chosen
FieldInv == FieldTypeOK /\ PendingIsSaved /\ PushIsOwed /\ ReadIsOwed /\ DraftIsShown

LEMMA PendingIsSome == \A p \in Pending : p # None
  BY NoneIsApart DEF Pending, Settable

LEMMA ResolvedTyped == ASSUME NEW v \in Settable PROVE F!Resolved(v) \in Settable
  BY DEF F!Resolved, F!Fallback, Settable

(* A render leaves the draft at what is shown, if it was: it does after a    *)
(* save of v with v as the draft, and whenever nothing but the truth or the  *)
(* pending value changes.                                                    *)
LEMMA Rendered ==
  ASSUME FieldInv, NEW t \in Settable, NEW p \in {None} \cup Pending, NEW f \in BOOLEAN, NEW d \in Settable,
         NEW b \in BOOLEAN, NEW c \in BOOLEAN, F!Render(t, p, f, d, b, c), kind' = kind,
         \/ f /\ c = chosen
         \/ ~focused /\ d = draft /\ b = problem /\ c = chosen
         \/ /\ (t = truth /\ p = pending /\ d = F!Shown) \/ (p \in Pending /\ d = p.value)
            /\ c = chosen \/ ~(kind.is = "name" /\ F!Unlisted(d))
  PROVE  /\ truth' = t /\ (pending' = None \/ pending' = p) /\ pending' \in {None} \cup Pending
         /\ seen' \in Settable /\ draft' \in Settable /\ problem' \in BOOLEAN /\ focused' \in BOOLEAN
         /\ chosen' \in BOOLEAN /\ DraftIsShown'
<1> DEFINE q == IF p # None /\ p.value = F!Resolved(t) THEN None ELSE p
           v == IF q = None THEN F!Resolved(t) ELSE q.value
           derived == IF kind.is = "name" /\ v # seen THEN F!Unlisted(v) ELSE c
<1>1. /\ truth' = t /\ pending' = q /\ seen' = v /\ draft' = (IF v # seen /\ ~f THEN v ELSE d)
      /\ problem' = (b /\ (v = seen \/ f)) /\ chosen' = derived
      /\ focused' = IF kind.is = "name" THEN derived /\ (f \/ ~chosen) ELSE f
  BY DEF F!Render, F!Follow, F!Derived, F!Focuses
<1>2. /\ seen = F!Shown /\ truth \in Settable /\ (pending # None => pending \in Pending)
      /\ kind.is \in {"number", "pills"} => focused \/ problem \/ draft = seen
      /\ kind.is = "name" /\ F!Unlisted(seen) => chosen
      /\ chosen \in BOOLEAN
  BY DEF FieldInv, FieldTypeOK, DraftIsShown
<1>3. (q = None \/ q = p) /\ q \in {None} \cup Pending /\ (p \in Pending => p # None)
  BY PendingIsSome
<1>4. v \in Settable
  <2>1. CASE q = None
    BY <2>1, ResolvedTyped
  <2>2. CASE q # None
    BY <1>3, <2>2 DEF Pending
  <2> QED BY <2>1, <2>2
<1>5. seen' = F!Shown'
  BY <1>1 DEF F!Shown, F!Resolved, F!Fallback
<1>6. p \in Pending => v = p.value
  BY <1>3
<1>7. t = truth /\ p = pending => v = F!Shown
  <2>1. CASE pending = None
    BY <2>1 DEF F!Shown
  <2>2. CASE pending # None
    BY <1>2, <1>6, <2>2 DEF F!Shown
  <2> QED BY <2>1, <2>2
<1>8. derived \in BOOLEAN
  BY DEF F!Unlisted
<1>9. F!Unlisted(seen)' = F!Unlisted(v)
  BY <1>1 DEF F!Unlisted, F!Named
<1> HIDE DEF q, v
<1>10. ASSUME kind.is = "name", F!Unlisted(v) PROVE derived
  <2>1. CASE v # seen
    BY <1>10, <2>1
  <2>2. CASE v = seen
    BY <1>2, <1>6, <1>7, <1>10, <2>2
  <2> QED BY <2>1, <2>2
<1> HIDE DEF derived
<1>11. kind.is = "name" /\ F!Unlisted(seen)' => chosen'
  BY <1>1, <1>9, <1>10
<1>12. ASSUME kind.is \in {"number", "pills"} PROVE focused' \/ problem' \/ draft' = v
  <2>1. focused' = f
    BY <1>1, <1>12
  <2> QED BY <1>1, <1>2, <1>6, <1>7, <1>12, <2>1
<1>13. DraftIsShown'
  BY <1>1, <1>5, <1>11, <1>12 DEF DraftIsShown
<1> QED BY <1>1, <1>3, <1>4, <1>8, <1>13

LEMMA Queued ==
  ASSUME NEW Kind, NEW w \in Seq(Kind), NEW x \in Kind
  PROVE  /\ Append(w, x) \in Seq(Kind) /\ Append(w, x) # <<>> /\ Append(w, x)[Len(Append(w, x))] = x
         /\ \E i \in DOMAIN Append(w, x) : Append(w, x)[i] = x
         /\ \A i \in DOMAIN w : i \in DOMAIN Append(w, x) /\ Append(w, x)[i] = w[i]
<1>1. /\ Append(w, x) \in Seq(Kind) /\ Append(w, x) # <<>> /\ Append(w, x)[Len(Append(w, x))] = x
      /\ Len(Append(w, x)) \in DOMAIN Append(w, x)
  OBVIOUS
<1>2. \A i \in DOMAIN w : i \in DOMAIN Append(w, x) /\ Append(w, x)[i] = w[i]
  OBVIOUS
<1> QED BY <1>1, <1>2

LEMMA Dequeued ==
  ASSUME NEW Kind, NEW w \in Seq(Kind), w # <<>>
  PROVE  /\ Tail(w) \in Seq(Kind) /\ Head(w) \in Kind
         /\ \A i \in DOMAIN w : w[i] = Head(w) \/ \E k \in DOMAIN Tail(w) : Tail(w)[k] = w[i]
 <1>1. Tail(w) \in Seq(Kind) /\ Head(w) \in Kind
  OBVIOUS
<1>2. ASSUME NEW i \in DOMAIN w PROVE w[i] = Head(w) \/ \E k \in DOMAIN Tail(w) : Tail(w)[k] = w[i]
  <2>1. CASE i = 1
    BY <2>1
  <2>2. CASE i # 1
    <3>1. i - 1 \in DOMAIN Tail(w) /\ Tail(w)[i - 1] = w[i]
      BY <2>2
    <3> QED BY <3>1
  <2> QED BY <2>1, <2>2
<1> QED BY <1>1, <1>2

LEMMA LastStays ==
  ASSUME NEW Kind, NEW w \in Seq(Kind), w # <<>>
  PROVE  IF Tail(w) = <<>> THEN w[Len(w)] = Head(w) ELSE Tail(w)[Len(Tail(w))] = w[Len(w)]
<1>3. Len(w) \in Nat \ {0} /\ Len(Tail(w)) = Len(w) - 1 /\ Head(w) = w[1]
  OBVIOUS
<1>4. ASSUME Tail(w) = <<>> PROVE w[Len(w)] = Head(w)
  <2> DEFINE n == Len(w)
             m == Len(Tail(w))
  <2>1. Len(<<>>) = 0
    OBVIOUS
  <2>2. m = 0
    BY <1>4, <2>1, Zenon
  <2>3. n \in Nat /\ m = n - 1
    BY <1>3
  <2> HIDE DEF n, m
  <2>4. n = 1
    BY <2>2, <2>3
  <2> QED BY <1>3, <2>4 DEF n
<1>5. ASSUME Tail(w) # <<>> PROVE Tail(w)[Len(Tail(w))] = w[Len(w)]
  <2>1. Len(w) - 1 \in 1..Len(Tail(w)) 
    BY <1>3, <1>5
  <2> QED BY <1>3, <2>1
<1> QED BY <1>4, <1>5

LEMMA FieldInductive == FieldInv /\ [F!NextField]_(F!fieldVars) => FieldInv'
<1> SUFFICES ASSUME FieldInv, [F!NextField]_(F!fieldVars) PROVE FieldInv'
  OBVIOUS
<1>0. FieldTypeOK /\ PendingIsSaved /\ PushIsOwed /\ ReadIsOwed /\ DraftIsShown
  BY DEF FieldInv
<1> USE DEF FieldTypeOK
<1>1. F!Shown \in Settable
  BY <1>0, ResolvedTyped DEF F!Shown, Pending
<1>a. /\ F!Shown' = F!Shown \/ ~UNCHANGED <<kind, truth, pending>>
      /\ \A v : F!Unlisted(v)' = F!Unlisted(v) \/ kind' # kind
  BY DEF F!Shown, F!Resolved, F!Fallback, F!Unlisted, F!Named
<1>b. ASSUME NEW v \in Settable, F!Sent(v)
      PROVE  /\ UNCHANGED <<kind, file, conf, owed, stirred, replies, pushes, clears>> /\ saves' \in Nat
             /\ requests' \in Seq(Pending) /\ (\E i \in DOMAIN requests' : requests'[i] = [id |-> saves, value |-> v])
             /\ \A i \in DOMAIN requests : i \in DOMAIN requests' /\ requests'[i] = requests[i]
             /\ [id |-> saves, value |-> v] \in Pending
             /\ \A id : OnItsWay(id) => OnItsWay(id)'
  <2> DEFINE save == [id |-> saves, value |-> v]
  <2>1. /\ saves' = saves + 1 /\ requests' = Append(requests, save)
        /\ UNCHANGED <<kind, file, conf, owed, stirred, replies, pushes, clears>>
    BY <1>b DEF F!Sent, F!process
  <2>2. save \in Pending /\ save.id = saves
    BY <1>0 DEF Pending
  <2> HIDE DEF save
  <2>3. /\ requests' \in Seq(Pending) /\ (\E i \in DOMAIN requests' : requests'[i] = save)
        /\ \A i \in DOMAIN requests : i \in DOMAIN requests' /\ requests'[i] = requests[i]
    <3>1. requests \in Seq(Pending)
      BY <1>0
    <3> QED BY <2>1, <2>2, <3>1, Queued
  <2>4. \A id : OnItsWay(id) => OnItsWay(id)'
    BY <2>1, <2>3 DEF OnItsWay
  <2>5. saves' \in Nat
    BY <1>0, <2>1
  <2> QED BY <2>1, <2>2, <2>3, <2>4, <2>5 DEF save
<1>2. ASSUME NEW v \in Settable, NEW c \in BOOLEAN, F!Save(v, c),
             c = chosen \/ ~(kind.is = "name" /\ F!Unlisted(v))
      PROVE  FieldInv'
  <2> DEFINE save == [id |-> saves, value |-> v]
             p == IF v = F!Shown THEN pending ELSE save
  <2>1. F!Sent(v) /\ F!Render(truth, p, FALSE, v, FALSE, c)
    BY <1>2 DEF F!Save
  <2>2. /\ UNCHANGED <<kind, file, conf, owed, stirred, replies, pushes, clears>> /\ saves' \in Nat
        /\ requests' \in Seq(Pending) /\ save \in Pending
        /\ \A id : OnItsWay(id) => OnItsWay(id)'
    BY <1>b, <2>1
  <2>3. PICK i \in DOMAIN requests' : requests'[i] = save
    BY <1>b, <2>1
  <2>4. save.value = v /\ save.id = saves
    OBVIOUS
  <2> HIDE DEF save
  <2>5. /\ p \in {None} \cup Pending
        /\ (p = pending /\ v = F!Shown) \/ (p = save /\ p \in Pending /\ v = p.value)
    BY <1>0, <2>2, <2>4
  <2> HIDE DEF p
  <2>6. /\ truth' = truth /\ (pending' = None \/ pending' = p) /\ pending' \in {None} \cup Pending
        /\ seen' \in Settable /\ draft' \in Settable /\ problem' \in BOOLEAN /\ focused' \in BOOLEAN
        /\ chosen' \in BOOLEAN /\ DraftIsShown'
    <3>1. truth \in Settable /\ kind' = kind
      BY <1>0, <2>2
    <3> QED BY <1>2, <2>1, <2>5, <3>1, Rendered
  <2>7. PendingIsSaved'
    <3>1. CASE pending' = pending
      BY <1>0, <2>2, <3>1 DEF PendingIsSaved
    <3>2. CASE pending' = save
      BY <2>3, <3>2 DEF PendingIsSaved, OnItsWay
    <3>3. CASE pending' = None
      BY <3>3 DEF PendingIsSaved
    <3> QED BY <2>5, <2>6, <3>1, <3>2, <3>3
  <2>8. PushIsOwed' /\ ReadIsOwed'
    BY <1>0, <2>2, <2>6 DEF PushIsOwed, ReadIsOwed, Newest
  <2>9. FieldTypeOK'
    BY <1>0, <2>2, <2>6
  <2> QED BY <2>6, <2>7, <2>8, <2>9 DEF FieldInv
<1>3. ASSUME NEW v \in Values \cup {None}, F!PickRow(v) \/ F!Flip(v) \/ F!Pill(v) PROVE FieldInv'
  <2>1. F!Save(v, FALSE) /\ ~(kind.is = "name" /\ F!Unlisted(v))
    BY <1>3 DEF F!PickRow, F!Flip, F!Pill, F!Unlisted
  <2>2. v \in Settable
    BY DEF Settable
  <2> QED BY <1>2, <2>1, <2>2
<1>4. CASE F!Blur \/ F!BlurName
  <2>1. CASE F!Left /\ problem' \in BOOLEAN /\ (problem' \/ kind.is = "name")
    <3>1. /\ focused' = FALSE
          /\ UNCHANGED <<kind, file, conf, owed, stirred, requests, replies, pushes, truth, pending, clears, seen, draft, chosen, saves>>
      BY <2>1 DEF F!Left, F!process
    <3>2. PendingIsSaved' /\ PushIsOwed' /\ ReadIsOwed'
      BY <1>0, <3>1 DEF PendingIsSaved, OnItsWay, PushIsOwed, Newest, ReadIsOwed
    <3>3. DraftIsShown'
      BY <1>0, <1>a, <2>1, <3>1 DEF DraftIsShown
    <3> QED BY <1>0, <2>1, <3>1, <3>2, <3>3 DEF FieldInv
  <2>2. CASE F!Save(draft, chosen)
    BY <1>0, <1>2, <2>2
  <2> QED BY <1>0, <1>4, <2>1, <2>2 DEF F!Blur, F!BlurName
<1>5. CASE F!Focus \/ F!ChooseCustom \/ \E d \in Values \cup {None, Bad} : F!Type(d)
  <2>1. /\ UNCHANGED <<kind, file, conf, owed, stirred, requests, replies, pushes, truth, pending, clears, seen, problem, saves>>
        /\ focused' \in BOOLEAN /\ draft' \in Settable /\ chosen' \in BOOLEAN /\ (chosen => chosen')
        /\ kind.is \in {"number", "pills"} => focused' \/ (focused' = focused /\ draft' = draft)
    BY <1>0, <1>5 DEF F!Focus, F!Type, F!ChooseCustom, F!Focuses, F!process, Settable
  <2>2. PendingIsSaved' /\ PushIsOwed' /\ ReadIsOwed'
    BY <1>0, <2>1 DEF PendingIsSaved, OnItsWay, PushIsOwed, Newest, ReadIsOwed
  <2>3. DraftIsShown'
    <3>1. seen' = F!Shown' /\ (F!Unlisted(seen)' <=> F!Unlisted(seen))
      BY <1>0, <2>1 DEF DraftIsShown, F!Shown, F!Resolved, F!Fallback, F!Unlisted, F!Named
    <3>2. kind.is = "name" /\ F!Unlisted(seen) => chosen
      BY <1>0 DEF DraftIsShown
    <3>3. kind.is \in {"number", "pills"} => focused \/ problem \/ draft = seen
      BY <1>0 DEF DraftIsShown
    <3> QED BY <2>1, <3>1, <3>2, <3>3 DEF DraftIsShown
  <2> QED BY <1>0, <2>1, <2>2, <2>3 DEF FieldInv
<1>6. CASE F!Reset
  <2>1. F!Sent(None) /\ UNCHANGED <<truth, pending, seen, draft, chosen, problem, focused>> /\ None \in Settable
    BY <1>6 DEF F!Reset, F!page, Settable
  <2>2. /\ UNCHANGED <<kind, file, conf, owed, stirred, replies, pushes, clears>> /\ saves' \in Nat
        /\ requests' \in Seq(Pending) /\ \A id : OnItsWay(id) => OnItsWay(id)'
    BY <1>b, <2>1
  <2>3. PendingIsSaved' /\ PushIsOwed' /\ ReadIsOwed'
    BY <1>0, <2>1, <2>2 DEF PendingIsSaved, PushIsOwed, Newest, ReadIsOwed
  <2>4. DraftIsShown'
    BY <1>0, <1>a, <2>1, <2>2 DEF DraftIsShown
  <2> QED BY <1>0, <2>1, <2>2, <2>3, <2>4 DEF FieldInv
<1>7. CASE F!Serve \/ F!Refuse
  <2>1. /\ requests # <<>> /\ requests' = Tail(requests)
        /\ UNCHANGED <<kind, pushes, truth, pending, draft, seen, problem, clears, focused, chosen, saves>>
        /\ \/ file' \in {None, Head(requests).value} /\ conf' = file' /\ owed' = TRUE
           \/ UNCHANGED <<file, conf, owed, stirred>>
    BY <1>7 DEF F!Serve, F!Refuse, F!page
  <2>2. requests \in Seq(Pending) /\ Head(requests) \in Pending /\ Head(requests).value \in Settable /\ Head(requests).id \in Nat
    <3>1. requests \in Seq(Pending)
      BY <1>0
    <3>2. Head(requests) \in Pending
      BY <2>1, <3>1, Dequeued
    <3> QED BY <3>1, <3>2 DEF Pending
  <2>3. PICK ok \in BOOLEAN : replies' = Append(replies, [id |-> Head(requests).id, ok |-> ok])
    BY <1>7 DEF F!Serve, F!Refuse
  <2> DEFINE reply == [id |-> Head(requests).id, ok |-> ok]
  <2>4. reply \in Reply /\ reply.id = Head(requests).id /\ replies' = Append(replies, reply)
    BY <2>2, <2>3 DEF Reply
  <2> HIDE DEF reply
  <2>5. /\ replies' \in Seq(Reply) /\ (\E i \in DOMAIN replies' : replies'[i] = reply)
        /\ \A i \in DOMAIN replies : i \in DOMAIN replies' /\ replies'[i] = replies[i]
    <3>1. replies \in Seq(Reply)
      BY <1>0
    <3> QED BY <2>4, <3>1, Queued
  <2>6. /\ requests' \in Seq(Pending)
        /\ \A i \in DOMAIN requests : requests[i] = Head(requests) \/ \E k \in DOMAIN requests' : requests'[k] = requests[i]
    <3>1. requests \in Seq(Pending) /\ requests # <<>> /\ requests' = Tail(requests)
      BY <2>1, <2>2
    <3>2. /\ Tail(requests) \in Seq(Pending)
          /\ \A i \in DOMAIN requests : requests[i] = Head(requests) \/ \E k \in DOMAIN Tail(requests) : Tail(requests)[k] = requests[i]
      BY <3>1, Dequeued
    <3> QED BY <3>1, <3>2, Zenon
  <2>7. \A id : OnItsWay(id) => OnItsWay(id)'
    <3> SUFFICES ASSUME NEW id, OnItsWay(id) PROVE OnItsWay(id)'
      OBVIOUS
    <3>1. CASE \E i \in DOMAIN requests : requests[i].id = id
      BY <2>4, <2>5, <2>6, <3>1 DEF OnItsWay
    <3>2. CASE \E i \in DOMAIN replies : replies[i].id = id
      BY <2>5, <3>2 DEF OnItsWay
    <3>3. CASE id \in clears
      BY <2>1, <3>3 DEF OnItsWay
    <3> QED BY <3>1, <3>2, <3>3 DEF OnItsWay
  <2>8. file' \in Settable /\ conf' \in Settable
    BY <1>0, <2>1, <2>2 DEF Settable
  <2>9. PendingIsSaved'
    BY <1>0, <2>1, <2>7 DEF PendingIsSaved
  <2>10. PushIsOwed' /\ ReadIsOwed'
    BY <1>0, <2>1 DEF PushIsOwed, Newest, ReadIsOwed
  <2>11. DraftIsShown'
    BY <1>0, <1>a, <2>1 DEF DraftIsShown
  <2> QED BY <1>0, <2>1, <2>5, <2>6, <2>8, <2>9, <2>10, <2>11 DEF FieldInv
<1>8. ASSUME NEW v \in Values \cup {None}, F!HandEdit(v) PROVE FieldInv'
  <2>1. /\ file' = v /\ stirred' = TRUE /\ v \in Settable
        /\ UNCHANGED <<kind, conf, owed, requests, replies, pushes, truth, pending, draft, seen, problem, clears, focused, chosen, saves>>
    BY <1>8 DEF F!HandEdit, F!page, Settable
  <2>2. PendingIsSaved' /\ PushIsOwed' /\ ReadIsOwed'
    BY <1>0, <2>1 DEF PendingIsSaved, OnItsWay, PushIsOwed, Newest, ReadIsOwed
  <2>3. DraftIsShown'
    BY <1>0, <1>a, <2>1 DEF DraftIsShown
  <2> QED BY <1>0, <2>1, <2>2, <2>3 DEF FieldInv
<1>9. CASE F!Reread
  <2>1. /\ conf' = file /\ owed' = TRUE
        /\ UNCHANGED <<kind, file, requests, replies, pushes, truth, pending, draft, seen, problem, clears, focused, chosen, saves>>
    BY <1>9 DEF F!Reread, F!page
  <2>2. PendingIsSaved' /\ PushIsOwed' /\ ReadIsOwed'
    BY <1>0, <2>1 DEF PendingIsSaved, OnItsWay, PushIsOwed, Newest, ReadIsOwed
  <2>3. DraftIsShown'
    BY <1>0, <1>a, <2>1 DEF DraftIsShown
  <2> QED BY <1>0, <2>1, <2>2, <2>3 DEF FieldInv
<1>10. CASE F!Push
  <2>1. /\ pushes' = Append(pushes, conf)
        /\ UNCHANGED <<kind, file, conf, stirred, requests, replies, truth, pending, draft, seen, problem, clears, focused, chosen, saves>>
    BY <1>10 DEF F!Push, F!page
  <2>2. pushes' \in Seq(Settable) /\ Newest' = conf'
    BY <1>0, <2>1, Queued DEF Newest
  <2>3. PendingIsSaved' /\ PushIsOwed' /\ ReadIsOwed'
    BY <1>0, <2>1, <2>2 DEF PendingIsSaved, OnItsWay, PushIsOwed, ReadIsOwed
  <2>4. DraftIsShown'
    BY <1>0, <1>a, <2>1 DEF DraftIsShown
  <2> QED BY <1>0, <1>10, <2>1, <2>2, <2>3, <2>4 DEF FieldInv
<1>11. CASE F!Pushed
  <2>1. /\ pushes # <<>> /\ pushes' = Tail(pushes) /\ F!Render(Head(pushes), pending, focused, draft, problem, chosen)
        /\ UNCHANGED <<kind, file, conf, owed, stirred, requests, replies, clears, saves>>
    BY <1>11 DEF F!Pushed
  <2>2. /\ pushes' \in Seq(Settable) /\ Head(pushes) \in Settable
        /\ pushes' = <<>> => pushes[Len(pushes)] = Head(pushes)
        /\ pushes' # <<>> => pushes'[Len(pushes')] = pushes[Len(pushes)]
    <3>1. pushes \in Seq(Settable) /\ pushes # <<>> /\ pushes' = Tail(pushes)
      BY <1>0, <2>1
    <3>2. /\ Tail(pushes) \in Seq(Settable) /\ Head(pushes) \in Settable
      BY <3>1, Dequeued
    <3>3. IF Tail(pushes) = <<>> THEN pushes[Len(pushes)] = Head(pushes)
          ELSE Tail(pushes)[Len(Tail(pushes))] = pushes[Len(pushes)]
      BY <3>1, LastStays
    <3> QED BY <3>1, <3>2, <3>3, Zenon
  <2>3. /\ truth' = Head(pushes) /\ (pending' = None \/ pending' = pending) /\ pending' \in {None} \cup Pending
        /\ seen' \in Settable /\ draft' \in Settable /\ problem' \in BOOLEAN /\ focused' \in BOOLEAN
        /\ chosen' \in BOOLEAN /\ DraftIsShown'
    <3> DEFINE t == Head(pushes)
    <3>1. /\ FieldInv /\ t \in Settable /\ pending \in {None} \cup Pending /\ focused \in BOOLEAN /\ draft \in Settable
          /\ problem \in BOOLEAN /\ chosen \in BOOLEAN /\ kind' = kind
          /\ F!Render(t, pending, focused, draft, problem, chosen)
          /\ focused \/ (~focused /\ draft = draft /\ problem = problem /\ chosen = chosen)
      BY <1>0, <2>1, <2>2
    <3> HIDE DEF t
    <3>2. truth' = t /\ (pending' = None \/ pending' = pending) /\ pending' \in {None} \cup Pending
      BY <3>1, Rendered
    <3>3. /\ seen' \in Settable /\ draft' \in Settable /\ problem' \in BOOLEAN /\ focused' \in BOOLEAN
          /\ chosen' \in BOOLEAN /\ DraftIsShown'
      BY <3>1, Rendered
    <3> QED BY <3>2, <3>3 DEF t
  <2>4. Newest' = Newest
    BY <2>1, <2>2, <2>3 DEF Newest
  <2>5. PendingIsSaved' /\ PushIsOwed' /\ ReadIsOwed'
    BY <1>0, <2>1, <2>3, <2>4 DEF PendingIsSaved, OnItsWay, PushIsOwed, ReadIsOwed
  <2> QED BY <1>0, <2>1, <2>2, <2>3, <2>5 DEF FieldInv
<1>12. ASSUME NEW id, F!Render(truth, F!Cleared(id), focused, draft, problem, chosen),
              UNCHANGED <<kind, file, conf, owed, stirred, requests, pushes, saves>>, replies' \in Seq(Reply),
              \A k : k # id /\ OnItsWay(k) => OnItsWay(k)'
       PROVE  FieldInv'
  <2>1. F!Cleared(id) \in {None} \cup Pending /\ (F!Cleared(id) = None \/ (F!Cleared(id) = pending /\ pending.id # id))
    BY <1>0 DEF F!Cleared
  <2>2. /\ truth' = truth /\ (pending' = None \/ pending' = F!Cleared(id)) /\ pending' \in {None} \cup Pending
        /\ seen' \in Settable /\ draft' \in Settable /\ problem' \in BOOLEAN /\ focused' \in BOOLEAN
        /\ chosen' \in BOOLEAN /\ DraftIsShown'
    BY <1>0, <1>12, <2>1, Rendered
  <2>3. PendingIsSaved'
    BY <1>0, <1>12, <2>1, <2>2 DEF PendingIsSaved
  <2>4. PushIsOwed' /\ ReadIsOwed'
    BY <1>0, <1>12, <2>2 DEF PushIsOwed, ReadIsOwed, Newest
  <2> QED BY <1>0, <1>12, <2>2, <2>3, <2>4 DEF FieldInv
<1>13. CASE F!Replied
  <2>0. PICK id : id = Head(replies).id
    OBVIOUS
  <2>1. /\ replies # <<>> /\ replies' = Tail(replies) /\ UNCHANGED <<kind, file, conf, owed, stirred, requests, pushes, saves>>
        /\ IF Head(replies).ok
           THEN /\ clears' = (IF F!Cleared(id) = pending THEN clears ELSE clears \cup {id})
                /\ UNCHANGED <<truth, pending, draft, seen, problem, focused, chosen>>
           ELSE UNCHANGED clears /\ F!Render(truth, F!Cleared(id), focused, draft, problem, chosen)
    BY <1>13, <2>0 DEF F!Replied, F!page
  <2>2. /\ replies' \in Seq(Reply)
        /\ \A i \in DOMAIN replies : replies[i] = Head(replies) \/ \E k \in DOMAIN replies' : replies'[k] = replies[i]
    <3>1. replies \in Seq(Reply) /\ replies # <<>> /\ replies' = Tail(replies)
      BY <1>0, <2>1
    <3>2. /\ Tail(replies) \in Seq(Reply)
          /\ \A i \in DOMAIN replies : replies[i] = Head(replies) \/ \E k \in DOMAIN Tail(replies) : Tail(replies)[k] = replies[i]
      BY <3>1, Dequeued
    <3> QED BY <3>1, <3>2, Zenon
  <2>3. \A k : k # id /\ OnItsWay(k) => OnItsWay(k)'
    BY <2>0, <2>1, <2>2 DEF OnItsWay
  <2>4. CASE ~Head(replies).ok
    BY <1>12, <2>1, <2>2, <2>3, <2>4
  <2>5. CASE Head(replies).ok
    <3>1. pending # None /\ pending.id = id => OnItsWay(id)'
      BY <2>1, <2>5 DEF OnItsWay, F!Cleared
    <3>2. PendingIsSaved'
      BY <1>0, <2>1, <2>3, <2>5, <3>1 DEF PendingIsSaved
    <3>3. PushIsOwed' /\ ReadIsOwed' /\ DraftIsShown'
      BY <1>0, <1>a, <2>1, <2>5 DEF PushIsOwed, Newest, ReadIsOwed, DraftIsShown
    <3> QED BY <1>0, <2>1, <2>2, <2>5, <3>2, <3>3 DEF FieldInv
  <2> QED BY <2>4, <2>5
<1>14. ASSUME NEW id, F!Second(id) PROVE FieldInv'
  <2>1. /\ clears' = clears \ {id} /\ F!Render(truth, F!Cleared(id), focused, draft, problem, chosen)
        /\ UNCHANGED <<kind, file, conf, owed, stirred, requests, replies, pushes, saves>>
    BY <1>14 DEF F!Second, F!process
  <2>2. \A k : k # id /\ OnItsWay(k) => OnItsWay(k)'
    BY <2>1 DEF OnItsWay
  <2>3. replies' \in Seq(Reply)
    BY <1>0, <2>1
  <2> QED BY <1>12, <2>1, <2>2, <2>3
<1>15. CASE UNCHANGED F!fieldVars
  BY <1>0, <1>a, <1>15 DEF F!fieldVars, FieldInv, PendingIsSaved, OnItsWay, PushIsOwed, Newest, ReadIsOwed, DraftIsShown
<1> QED BY <1>3, <1>4, <1>5, <1>6, <1>7, <1>8, <1>9, <1>10, <1>11, <1>13, <1>14, <1>15 DEF F!NextField

(* A control comes to show what the file says, or what is wrong with its     *)
(* draft, once everything has arrived: for any values, saves, refusals and   *)
(* edits by hand, in every order of answers, pushes and seconds that run out *)
(* (useSettings.tsx useOptimistic, controls.tsx NumberControl,               *)
(* settings-app.ts).                                                         *)
THEOREM ControlShowsFile == Spec => []ShowsFile
<1> DEFINE Inv == part = "field" => FieldInv
<1>1. Init => Inv
  <2> SUFFICES ASSUME F!InitField PROVE FieldInv
    BY DEF Init
  <2>1. requests = <<>> /\ replies = <<>> /\ pushes = <<>> /\ file \in Settable
    BY DEF F!InitField, Settable
  <2>2. PendingIsSaved /\ PushIsOwed /\ ReadIsOwed /\ DraftIsShown
    BY DEF F!InitField, PendingIsSaved, PushIsOwed, Newest, ReadIsOwed, DraftIsShown, F!Shown
  <2>3. FieldTypeOK
    <3>1. <<>> \in Seq(Pending) /\ <<>> \in Seq(Reply) /\ <<>> \in Seq(Settable)
      OBVIOUS
    <3>2. /\ conf = file /\ truth = file /\ seen = F!Resolved(file) /\ draft = seen /\ pending = None
          /\ problem = FALSE /\ focused = chosen /\ saves = 0
      BY DEF F!InitField
    <3>4. chosen \in BOOLEAN /\ focused \in BOOLEAN
      BY <3>2 DEF F!InitField, F!Unlisted
    <3>3. seen \in Settable
      BY <2>1, <3>2, ResolvedTyped
    <3> QED BY <2>1, <3>1, <3>2, <3>3, <3>4 DEF FieldTypeOK
  <2> QED BY <2>2, <2>3 DEF FieldInv
<1>2. Inv /\ [Next]_vars => Inv'
  <2> SUFFICES ASSUME FieldInv, part = "field", [Next]_vars PROVE FieldInv'
    BY DEF Next, vars
  <2>1. [F!NextField]_(F!fieldVars)
    BY DEF Next, vars, F!fieldVars
  <2> QED BY <2>1, FieldInductive
<1>3. Inv => ShowsFile
  <2> SUFFICES ASSUME FieldInv, F!Quiet
               PROVE  /\ F!Shown = F!Resolved(file)
                      /\ kind.is \in {"number", "pills"} => problem \/ draft = F!Shown
                      /\ kind.is = "name" /\ F!Unlisted(F!Shown) => chosen
    BY DEF ShowsFile, F!ShowsFile
  <2>1. pending = None
    BY DEF FieldInv, PendingIsSaved, OnItsWay, F!Quiet
  <2>2. truth = file
    BY DEF FieldInv, PushIsOwed, ReadIsOwed, Newest, F!Quiet
  <2> QED BY <2>1, <2>2 DEF FieldInv, DraftIsShown, F!Shown, F!Quiet
<1> QED BY <1>1, <1>2, <1>3, PTL DEF Spec
(**************************** config.toml *******************************)
(* A change is in a backup, or was lost in a way the code accepts. *)
Held == {c \in Nat : \E i \in DOMAIN backups : c \in backups[i]}
Saved == excused \cup Held

(* What a writer copied, and nobody wrote over since, is what its rename   *)
(* replaces: all of it is in a backup, or was when backups were fewer.     *)
ConfigTypeOK ==
  /\ made \in Nat
  /\ file \in [state : {"absent", "whole", "broken", "locked"}, has : SUBSET Nat]
  /\ backups \in Seq(SUBSET Nat) /\ Len(backups) <= Kept
  /\ doc \in [Writers -> [existed : BOOLEAN, original : SUBSET Nat, draft : SUBSET Nat]]
  /\ step \in [Writers -> {"closed", "idle", "copied"}]
EmptyUntilThere == file.state = "absent" => file.has = {}
CopiedIsSaved ==
  \A w \in Writers : step[w] = "copied" /\ w \notin crossed /\ doc[w].existed => file.has \subseteq Saved
Found(c) == c \in file.has \cup Saved \/ \E w \in Writers : step[w] = "copied" /\ c \in doc[w].draft
ConfigInv == ConfigTypeOK /\ EmptyUntilThere /\ CopiedIsSaved /\ \A c \in 1..made : Found(c)

(* The oldest backup is the only one pruning takes, and only the last of   *)
(* the number kept.                                                         *)
LEMMA PruningTakesTheOldest ==
  ASSUME NEW b \in Seq(SUBSET Nat), Len(b) <= Kept, NEW x \in SUBSET Nat
  PROVE  LET p == C!Pruned(Append(b, x)) IN
         /\ p \in Seq(SUBSET Nat) /\ Len(p) <= Kept
         /\ \E i \in DOMAIN p : p[i] = x
         /\ \A i \in DOMAIN b : \/ \E j \in DOMAIN p : p[j] = b[i]
                                \/ Len(b) = Kept /\ b[i] = Head(b)
<1> DEFINE a == Append(b, x)
           p == C!Pruned(a)
<1>1. /\ a \in Seq(SUBSET Nat) /\ Len(a) = Len(b) + 1 /\ Len(b) \in Nat
      /\ a[Len(a)] = x /\ \A i \in 1..Len(b) : a[i] = b[i]
  OBVIOUS
<1>2. CASE Len(b) < Kept
  <2>1. p = a
    BY <1>1, <1>2, ConfigAssumption DEF C!Pruned
  <2> QED BY <1>1, <1>2, <2>1, ConfigAssumption
<1>3. CASE Len(b) = Kept
  <2>1. p = Tail(a) /\ a # <<>>
    BY <1>1, <1>3, ConfigAssumption DEF C!Pruned
  <2> HIDE DEF p, a
  <2>2. p \in Seq(SUBSET Nat) /\ Len(p) = Len(b) /\ \A i \in 1..Len(b) : p[i] = a[i + 1]
    BY <1>1, <2>1
  <2>3. p[Len(b)] = x /\ Len(b) \in DOMAIN p
    BY <1>1, <1>3, <2>2, ConfigAssumption
  <2>4. ASSUME NEW i \in DOMAIN b, i # 1 PROVE p[i - 1] = b[i] /\ i - 1 \in DOMAIN p
    <3>1. i \in 1..Len(b) /\ i - 1 \in 1..Len(b) /\ (i - 1) + 1 = i
      BY <1>1, <2>4
    <3>2. p[i - 1] = a[i] /\ a[i] = b[i]
      BY <1>1, <2>2, <3>1
    <3> QED BY <2>2, <3>1, <3>2
  <2>5. Head(b) = b[1]
    BY <1>3, ConfigAssumption
  <2> QED BY <1>3, <2>2, <2>3, <2>4, <2>5 DEF p, a
<1> QED BY <1>2, <1>3, ConfigAssumption, <1>1

LEMMA ConfigInitially == C!Init => ConfigInv
<1> SUFFICES ASSUME C!Init PROVE ConfigInv
  OBVIOUS
<1>1. ConfigTypeOK
  <2>1. <<>> \in Seq(SUBSET Nat) /\ Len(<<>>) <= Kept
    BY ConfigAssumption
  <2>2. backups = <<>> /\ made = 0 /\ doc = [w \in Writers |-> C!Closed]
        /\ step = [w \in Writers |-> "closed"]
        /\ file \in {C!Nothing, [state |-> "whole", has |-> {}]}
    BY DEF C!Init
  <2> QED BY <2>1, <2>2 DEF ConfigTypeOK, C!Closed, C!Nothing
<1>2. EmptyUntilThere
  BY DEF EmptyUntilThere, C!Init, C!Nothing
<1>3. CopiedIsSaved /\ 1..made = {}
  BY DEF CopiedIsSaved, C!Init
<1> QED BY <1>1, <1>2, <1>3 DEF ConfigInv

(* The copy: what was saved stays so, and what the file holds joins it. *)
LEMMA CopyKeeps ==
  ASSUME ConfigInv, NEW w \in Writers, step[w] # "copied",
         NEW d \in [existed : BOOLEAN, original : SUBSET Nat, draft : SUBSET Nat],
         C!CopyAside(w, d)
  PROVE  ConfigInv'
<1> USE DEF ConfigInv
<1>1. /\ made \in Nat /\ made' = made + 1 /\ file' = file
      /\ doc' = [doc EXCEPT ![w] = [d EXCEPT !.draft = d.draft \cup {made + 1}]]
      /\ step' = [step EXCEPT ![w] = "copied"] /\ crossed' = crossed \ {w}
      /\ backups' = IF d.existed THEN C!Pruned(Append(backups, file.has)) ELSE backups
      /\ excused' = excused \cup (IF Len(backups) = Kept /\ d.existed THEN Head(backups) ELSE {})
  BY DEF C!CopyAside, ConfigTypeOK
<1>2. backups \in Seq(SUBSET Nat) /\ Len(backups) <= Kept /\ file.has \in SUBSET Nat
  BY DEF ConfigTypeOK
<1>3. /\ backups' \in Seq(SUBSET Nat) /\ Len(backups') <= Kept
      /\ d.existed => \E i \in DOMAIN backups' : backups'[i] = file.has
      /\ \A i \in DOMAIN backups : \/ \E j \in DOMAIN backups' : backups'[j] = backups[i]
                                   \/ Len(backups) = Kept /\ d.existed /\ backups[i] = Head(backups)
  <2>1. CASE d.existed
    BY <1>1, <1>2, <2>1, PruningTakesTheOldest
  <2>2. CASE ~d.existed
    BY <1>1, <1>2, <2>2
  <2> QED BY <2>1, <2>2
<1>4. Saved \subseteq Saved'
  BY <1>1, <1>3 DEF Saved, Held
<1>5. d.existed => file.has \subseteq Saved'
  BY <1>2, <1>3 DEF Saved, Held
<1>6. [d EXCEPT !.draft = d.draft \cup {made + 1}] \in [existed : BOOLEAN, original : SUBSET Nat, draft : SUBSET Nat]
      /\ [d EXCEPT !.draft = d.draft \cup {made + 1}].existed = d.existed
      /\ made + 1 \in [d EXCEPT !.draft = d.draft \cup {made + 1}].draft
  BY <1>1
<1>7. ConfigTypeOK'
  BY <1>1, <1>3, <1>6 DEF ConfigTypeOK
<1>8. doc \in [Writers -> [existed : BOOLEAN, original : SUBSET Nat, draft : SUBSET Nat]]
      /\ step \in [Writers -> {"closed", "idle", "copied"}]
  BY DEF ConfigTypeOK
<1>9. step'[w] = "copied" /\ doc'[w].existed = d.existed /\ made + 1 \in doc'[w].draft
  BY <1>1, <1>6, <1>8
<1>10. \A v \in Writers \ {w} : step'[v] = step[v] /\ doc'[v] = doc[v] /\ (v \in crossed' <=> v \in crossed)
  BY <1>1, <1>8
<1>11. CopiedIsSaved'
  BY <1>1, <1>4, <1>5, <1>9, <1>10 DEF CopiedIsSaved
<1>12. \A c \in 1..made' : Found(c)'
  <2> SUFFICES ASSUME NEW c \in 1..made' PROVE Found(c)'
    OBVIOUS
  <2>1. CASE c = made + 1
    BY <1>9, <2>1 DEF Found
  <2>2. CASE c # made + 1
    <3>1. Found(c)
      BY <1>1, <2>2
    <3> QED BY <1>1, <1>4, <1>10, <3>1 DEF Found
  <2> QED BY <2>1, <2>2
<1> QED BY <1>1, <1>7, <1>11, <1>12 DEF EmptyUntilThere

(* The rename: what it replaces was saved, unless the code accepts its loss.*)
LEMMA RenameKeeps ==
  ASSUME ConfigInv, NEW w \in Writers, C!Rename(w) PROVE ConfigInv'
<1> USE DEF ConfigInv
<1>1. /\ step[w] = "copied" /\ file' = [state |-> "whole", has |-> doc[w].draft]
      /\ excused' = excused \cup (IF w \in crossed \/ ~doc[w].existed THEN file.has ELSE {})
      /\ doc' = [doc EXCEPT ![w] = IF w = Menu
               THEN [existed |-> TRUE, original |-> doc[w].draft, draft |-> doc[w].draft]
               ELSE C!Closed]
      /\ step' = [step EXCEPT ![w] = IF w = Menu THEN "idle" ELSE "closed"]
      /\ crossed' = (crossed \ {w}) \cup {v \in Writers \ {w} : step[v] = "copied"}
      /\ backups' = backups /\ made' = made
  BY DEF C!Rename
<1>2. /\ doc \in [Writers -> [existed : BOOLEAN, original : SUBSET Nat, draft : SUBSET Nat]]
      /\ step \in [Writers -> {"closed", "idle", "copied"}] /\ doc[w].draft \in SUBSET Nat
  BY DEF ConfigTypeOK
<1>3. ConfigTypeOK'
  BY <1>1, <1>2 DEF ConfigTypeOK, C!Closed
<1>4. Saved \subseteq Saved' /\ file.has \subseteq Saved' /\ file'.has = doc[w].draft
  BY <1>1 DEF Saved, Held, CopiedIsSaved
<1>5. step'[w] # "copied" /\ \A v \in Writers \ {w} : step'[v] = step[v] /\ doc'[v] = doc[v]
  BY <1>1, <1>2
<1>6. CopiedIsSaved'
  BY <1>1, <1>5 DEF CopiedIsSaved
<1>7. \A c \in 1..made' : Found(c)'
  BY <1>1, <1>4, <1>5 DEF Found
<1> QED BY <1>1, <1>3, <1>6, <1>7 DEF EmptyUntilThere

(* Another hand writes: nothing in the file goes, and whoever had copied it *)
(* is overtaken.                                                             *)
LEMMA HandKeeps == ASSUME ConfigInv, C!Hand PROVE ConfigInv'
<1> USE DEF ConfigInv
<1>1. /\ file \in [state : {"absent", "whole", "broken", "locked"}, has : SUBSET Nat] /\ made \in Nat
      /\ (file.state = "absent" => file.has = {})
  BY DEF ConfigTypeOK, EmptyUntilThere
<1>2. /\ crossed' = crossed \cup {w \in Writers : step[w] = "copied"}
      /\ UNCHANGED <<backups, doc, step, excused>>
  BY DEF C!Hand, C!HandMends, C!Locks, C!Ensure, C!HandSaves, C!Crosses
<1>3. /\ file' \in [state : {"absent", "whole", "broken", "locked"}, has : SUBSET Nat]
      /\ file.has \subseteq file'.has /\ file'.state # "absent"
      /\ made' = made \/ (made' = made + 1 /\ made + 1 \in file'.has)
  <2>1. CASE C!HandMends
    BY <1>1, <2>1 DEF C!HandMends
  <2>2. CASE C!Locks
    BY <1>1, <2>2 DEF C!Locks
  <2>3. CASE C!Ensure
    BY <1>1, <2>3 DEF C!Ensure
  <2>4. ASSUME NEW s \in {"whole", "broken"}, C!HandSaves(s)
        PROVE  /\ file' = [state |-> s, has |-> file.has \cup {made + 1}] /\ made' = made + 1
    BY <2>4 DEF C!HandSaves
  <2>5. ASSUME NEW s \in {"whole", "broken"}, file' = [state |-> s, has |-> file.has \cup {made + 1}]
        PROVE  /\ file' \in [state : {"absent", "whole", "broken", "locked"}, has : SUBSET Nat]
               /\ file.has \subseteq file'.has /\ file'.state # "absent" /\ made + 1 \in file'.has
    BY <1>1, <2>5
  <2> QED BY <2>1, <2>2, <2>3, <2>4, <2>5 DEF C!Hand
<1>4. ConfigTypeOK'
  BY <1>1, <1>2, <1>3 DEF ConfigTypeOK
<1>5. CopiedIsSaved'
  BY <1>2 DEF CopiedIsSaved
<1>6. \A c \in 1..made' : Found(c)'
  <2> SUFFICES ASSUME NEW c \in 1..made' PROVE Found(c)'
    OBVIOUS
  <2>1. CASE c \in 1..made
    BY <1>2, <1>3, <2>1 DEF Found, Saved, Held
  <2>2. CASE c \notin 1..made
    <3>1. made' = made + 1 /\ c = made + 1
      BY <1>1, <1>3, <2>2
    <3> QED BY <1>3, <3>1 DEF Found
  <2> QED BY <2>1, <2>2
<1> QED BY <1>3, <1>4, <1>5, <1>6 DEF EmptyUntilThere

LEMMA ConfigInductive == ASSUME ConfigInv, [C!Next]_(C!vars) PROVE ConfigInv'
<1> USE DEF ConfigInv
<1>1. /\ made \in Nat
      /\ file \in [state : {"absent", "whole", "broken", "locked"}, has : SUBSET Nat]
      /\ doc \in [Writers -> [existed : BOOLEAN, original : SUBSET Nat, draft : SUBSET Nat]]
      /\ step \in [Writers -> {"closed", "idle", "copied"}] /\ Menu \in Writers
  BY ConfigAssumption DEF ConfigTypeOK
<1>2. C!Document \in [existed : BOOLEAN, original : SUBSET Nat, draft : SUBSET Nat]
  BY <1>1 DEF C!Document, C!Load
<1>3. ASSUME UNCHANGED <<file, backups, made, excused, crossed>>,
             doc' \in [Writers -> [existed : BOOLEAN, original : SUBSET Nat, draft : SUBSET Nat]],
             step' \in [Writers -> {"closed", "idle", "copied"}],
             \A w \in Writers : \/ step'[w] = step[w] /\ doc'[w] = doc[w]
                                \/ step[w] # "copied" /\ step'[w] # "copied"
      PROVE  ConfigInv'
  <2>1. ConfigTypeOK' /\ EmptyUntilThere'
    BY <1>3 DEF ConfigTypeOK, EmptyUntilThere
  <2>2. Saved' = Saved
    BY <1>3 DEF Saved, Held
  <2>3. CopiedIsSaved'
    BY <1>3, <2>2 DEF CopiedIsSaved
  <2>4. \A c \in 1..made' : Found(c)'
    BY <1>3, <2>2 DEF Found
  <2> QED BY <2>1, <2>3, <2>4
<1>4. CASE C!Open
  <2>1. /\ step[Menu] = "closed" /\ UNCHANGED <<file, backups, made, excused, crossed>>
        /\ doc' = [doc EXCEPT ![Menu] = C!Document] /\ step' = [step EXCEPT ![Menu] = "idle"]
    BY <1>4 DEF C!Open
  <2> QED BY <1>1, <1>2, <1>3, <2>1
<1>5. CASE C!MenuFails \/ C!Leave
  <2>1. /\ step[Menu] = "idle" /\ UNCHANGED <<file, backups, made, excused, crossed>>
        /\ doc' = [doc EXCEPT ![Menu] = C!Closed] /\ step' = [step EXCEPT ![Menu] = "closed"]
    BY <1>5 DEF C!MenuFails, C!Leave
  <2>2. C!Closed \in [existed : BOOLEAN, original : SUBSET Nat, draft : SUBSET Nat]
    BY DEF C!Closed
  <2> QED BY <1>1, <1>3, <2>1, <2>2
<1>6. CASE C!MenuSets
  BY <1>1, <1>6, CopyKeeps DEF C!MenuSets
<1>7. ASSUME NEW w \in Writers, C!WindowSets(w) PROVE ConfigInv'
  BY <1>1, <1>2, <1>7, CopyKeeps DEF C!WindowSets
<1>8. ASSUME NEW w \in Writers, C!Rename(w) PROVE ConfigInv'
  BY <1>8, RenameKeeps
<1>9. CASE C!Hand
  BY <1>9, HandKeeps
<1>10. CASE C!ReloadVerb \/ C!Pushed \/ UNCHANGED C!vars \/ \E f \in Followers : C!Reload(f)
  <2>1. UNCHANGED <<file, backups, made, excused, crossed, doc, step>>
    BY <1>10 DEF C!ReloadVerb, C!Pushed, C!Reload, C!vars
  <2> QED BY <1>1, <1>3, <2>1
<1> QED BY <1>4, <1>5, <1>6, <1>7, <1>8, <1>9, <1>10 DEF C!Next

(* No change anyone made to config.toml is lost, whoever else writes and     *)
(* however old the draft of the menu is: for any number of writers, changes  *)
(* and backups kept (config-file.ts writeConfigDocument, config-ui.ts,       *)
(* settings-ipc.ts).                                                         *)
THEOREM NoChangeIsLost == Spec => []ChangesKept
<1> DEFINE Inv == part = "config" => ConfigInv
<1>1. Init => Inv
  BY ConfigInitially DEF Init
<1>2. Inv /\ [Next]_vars => Inv'
  <2> SUFFICES ASSUME ConfigInv, part = "config", [Next]_vars PROVE ConfigInv'
    BY DEF Next, vars
  <2>1. [C!Next]_(C!vars)
    BY DEF Next, vars, C!vars
  <2> QED BY <2>1, ConfigInductive
<1>3. Inv => ChangesKept
  BY DEF ConfigInv, Found, Saved, Held, ChangesKept, C!ChangesKept
<1> QED BY <1>1, <1>2, <1>3, PTL DEF Spec
(****************************** the desktop *****************************)
DeskFiles == [there : BOOLEAN, stock : BOOLEAN, lines : SUBSET Nat, block : {"none", "whole", "cut"},
              binds : {<<>>} \cup BindLists, rule : BOOLEAN]
Configs == [explicit : BOOLEAN, binds : BindLists]

(* A file with a block is there, one without has no binds, and one that is   *)
(* there under sway has the lines of the system's.                           *)
Sound(f) ==
  /\ f \in DeskFiles
  /\ f.block # "none" => f.there
  /\ f.block = "none" => f.binds = <<>>
  /\ kind = "sway" /\ f.there => f.stock
FilesSound(fs) == fs \in [D!Paths -> DeskFiles] /\ \A p \in D!Paths : Sound(fs[p])

(* A list of commands never leaves a shortcut with a key and no command:     *)
(* the command is there or set before, and a list that resets sets no keys.  *)
IsSequence(t) == t \in Seq({t[i] : i \in DOMAIN t})
SetBefore(t, k) == \E j \in DOMAIN t : j < k /\ t[j].op = "command" /\ t[j].id = t[k].id
Resets(t) == \E k \in DOMAIN t : t[k].op = "reset"
SetsKeys(t) == \E k \in DOMAIN t : t[k].op = "binding"
KeysLast(t) ==
  \A k \in DOMAIN t :
    /\ t[k].op = "command" => t[k].id \in D!Ids /\ t[k].value # None
    /\ t[k].op = "binding" => t[k].id \in D!Ids /\ (entry[t[k].id].command # None \/ SetBefore(t, k))
    /\ t[k].op = "list" => IsSequence(t[k].value)
SafeSteps(t) == IsSequence(t) /\ KeysLast(t) /\ ~(Resets(t) /\ SetsKeys(t))

DeskTypeOK ==
  /\ kind \in {"hyprland", "sway", "kde", "gnome"} /\ window \in BOOLEAN /\ config \in Configs
  /\ IsFiniteSet(made) /\ made \subseteq Nat /\ edited \subseteq BindLists
  /\ excused = [lines |-> excused.lines, binds |-> excused.binds]
  /\ DOMAIN entry = D!Ids /\ \A i \in D!Ids : entry[i] = [command |-> entry[i].command, binding |-> entry[i].binding]
  /\ IsSequence(listed)
(* The terminal plans, or the window does, and neither while it applies.     *)
OneSurface ==
  /\ asked \/ applying \/ failed \/ shown # None => window
  /\ plan # D!NoPlan => ~window /\ todo = <<>>
PlanSound == FilesSound(plan.before) /\ FilesSound(plan.after)
EntriesRun == \A i \in D!Ids : entry[i].binding # None => entry[i].command # None
DeskInv ==
  /\ DeskTypeOK /\ OneSurface /\ FilesSound(file) /\ PlanSound
  /\ EntriesRun /\ SafeSteps(todo) /\ SafeSteps(plan.todo) /\ D!LinesKept

-----------------------------------------------------------------------------
(* A plan of the files, for any files and any configuration.                 *)
LEMMA Targets ==
  ASSUME NEW fs
  PROVE  /\ D!ResolveTarget(fs, "bind") =
              IF ~D!Holds(fs["main"], "bind") /\ D!Holds(fs["binds"], "bind") THEN "binds" ELSE "main"
         /\ D!ResolveTarget(fs, "rule") =
              IF ~D!Holds(fs["main"], "rule") /\ D!Holds(fs["rules"], "rule") THEN "rules" ELSE "main"
<1>1. D!Candidates["bind"] = {"main", "binds"} /\ D!Candidates["rule"] = {"main", "rules"}
  BY DEF D!Candidates
<1>2. ASSUME NEW a, NEW other, other # "main", D!Candidates[a] = {"main", other}
      PROVE  D!ResolveTarget(fs, a) =
               IF ~D!Holds(fs["main"], a) /\ D!Holds(fs[other], a) THEN other ELSE "main"
  <2> DEFINE with == {p \in D!Candidates[a] : D!Holds(fs[p], a)}
  <2>1. D!ResolveTarget(fs, a) = IF "main" \in with \/ with = {} THEN "main" ELSE CHOOSE p \in with : TRUE
    BY DEF D!ResolveTarget
  <2>2. CASE ~D!Holds(fs["main"], a) /\ D!Holds(fs[other], a)
    <3>1. with = {other}
      BY <1>2, <2>2
    <3>2. (CHOOSE p \in {other} : TRUE) = other
      OBVIOUS
    <3> QED BY <1>2, <2>1, <2>2, <3>1, <3>2
  <2>3. CASE ~(~D!Holds(fs["main"], a) /\ D!Holds(fs[other], a))
    <3>1. "main" \in with \/ with = {}
      BY <1>2, <2>3
    <3> QED BY <2>1, <2>3, <3>1
  <2> QED BY <2>2, <2>3
<1> QED BY <1>1, <1>2

(* What a plan makes of one file: it is sound, holds the actions it was      *)
(* planned for, and is what a second plan would make of it.                  *)
LEMMA UpsertIs ==
  ASSUME NEW f, Sound(f), NEW c \in Configs, NEW as, ~D!Blocked(f),
         kind \in {"hyprland", "sway", "kde", "gnome"}
  PROVE  LET g == D!Upsert(f, as, c) IN
         /\ Sound(g) /\ ~D!Blocked(g)
         /\ D!Holds(g, "bind") <=> "bind" \in as
         /\ D!Holds(g, "rule") <=> "rule" \in as
         /\ D!Upsert(g, as, c) = g
<1> DEFINE g == D!Upsert(f, as, c)
<1>1. c.binds \in BindLists /\ c.binds # <<>> /\ c.explicit \in BOOLEAN
  BY BindsAssumption DEF Configs
<1>2. f \in DeskFiles
  BY DEF Sound
<1>3. /\ g.there = TRUE /\ g.block = "whole" /\ g.lines = f.lines
      /\ g.stock = (f.stock \/ (kind = "sway" /\ ~f.there))
      /\ g.binds = (IF "bind" \in as THEN D!BodyFor(f, c) ELSE <<>>)
      /\ g.rule = ("rule" \in as)
  BY <1>2 DEF D!Upsert, DeskFiles
<1>4. D!BodyFor(f, c) \in BindLists /\ D!BodyFor(f, c) # <<>>
  BY <1>1, <1>2, BindsAssumption DEF D!BodyFor, D!Holds, DeskFiles
<1>5. g \in DeskFiles
  <2>1. (f.stock \/ (kind = "sway" /\ ~f.there)) \in BOOLEAN /\ ("rule" \in as) \in BOOLEAN
    BY <1>2 DEF DeskFiles
  <2>2. (IF "bind" \in as THEN D!BodyFor(f, c) ELSE <<>>) \in {<<>>} \cup BindLists
    BY <1>4
  <2> QED BY <1>2, <2>1, <2>2 DEF D!Upsert, DeskFiles
<1>6. Sound(g) /\ ~D!Blocked(g)
  BY <1>3, <1>5 DEF Sound, D!Blocked
<1>7. (D!Holds(g, "bind") <=> "bind" \in as) /\ (D!Holds(g, "rule") <=> "rule" \in as)
  BY <1>3, <1>4 DEF D!Holds
<1>8. "bind" \in as => D!BodyFor(g, c) = g.binds
  BY <1>3, <1>7 DEF D!BodyFor
<1>9. D!Upsert(g, as, c) = g
  <2> DEFINE h == D!Upsert(g, as, c)
  <2>1. /\ h.there = TRUE /\ h.block = "whole" /\ h.lines = g.lines
        /\ h.stock = (g.stock \/ (kind = "sway" /\ ~g.there))
        /\ h.binds = (IF "bind" \in as THEN D!BodyFor(g, c) ELSE <<>>)
        /\ h.rule = ("rule" \in as)
    BY <1>5 DEF D!Upsert, DeskFiles
  <2>2. h.stock = g.stock
    BY <1>3, <2>1
  <2>3. h.binds = g.binds
    BY <1>3, <1>8, <2>1
  <2>4. h = [g EXCEPT !.there = h.there, !.block = h.block, !.stock = h.stock, !.binds = h.binds, !.rule = h.rule]
    BY <1>5, <2>1 DEF D!Upsert, DeskFiles
  <2> HIDE DEF h, g
  <2>5. h = [g EXCEPT !.there = g.there, !.block = g.block, !.stock = g.stock, !.binds = g.binds, !.rule = g.rule]
    BY <1>3, <2>1, <2>2, <2>3, <2>4
  <2> QED BY <1>5, <2>5 DEF h, g, DeskFiles
<1> QED BY <1>6, <1>7, <1>9

LEMMA PlannedIs ==
  ASSUME NEW fs, FilesSound(fs), NEW c \in Configs, kind \in {"hyprland", "sway", "kde", "gnome"}
  PROVE  /\ FilesSound(D!Planned(fs, c))
         /\ D!Twice(D!Planned(fs, c)) => D!Twice(fs)
         /\ D!Planned(D!Planned(fs, c), c) = D!Planned(fs, c)
<1> DEFINE as(p) == {a \in D!Actions : D!ResolveTarget(fs, a) = p}
           g == D!Planned(fs, c)
<1>1. D!Actions \in SUBSET {"bind", "rule"} /\ "binds" # "rules" /\ D!Paths = {"main", "binds", "rules"}
  BY DEF D!Actions, D!Paths
<1>2. \A p \in D!Paths : g[p] = IF as(p) = {} \/ D!Blocked(fs[p]) THEN fs[p] ELSE D!Upsert(fs[p], as(p), c)
  BY DEF D!Planned
<1>3. g = [p \in D!Paths |-> g[p]]
  BY DEF D!Planned
<1> HIDE DEF g
<1>4. \A p \in D!Paths : Sound(fs[p])
  BY DEF FilesSound
<1>5. ASSUME NEW p \in D!Paths, as(p) # {}, ~D!Blocked(fs[p])
      PROVE  /\ Sound(g[p]) /\ ~D!Blocked(g[p]) /\ D!Upsert(g[p], as(p), c) = g[p]
             /\ D!Holds(g[p], "bind") <=> "bind" \in as(p)
             /\ D!Holds(g[p], "rule") <=> "rule" \in as(p)
  <2>1. g[p] = D!Upsert(fs[p], as(p), c) /\ Sound(fs[p])
    BY <1>2, <1>4, <1>5
  <2> HIDE DEF as
  <2>2. LET h == D!Upsert(fs[p], as(p), c) IN
        /\ Sound(h) /\ ~D!Blocked(h)
        /\ D!Holds(h, "bind") <=> "bind" \in as(p)
        /\ D!Holds(h, "rule") <=> "rule" \in as(p)
        /\ D!Upsert(h, as(p), c) = h
    BY <1>5, <2>1, UpsertIs
  <2> QED BY <2>1, <2>2
<1>6. \A p \in D!Paths : as(p) = {} \/ D!Blocked(fs[p]) => g[p] = fs[p]
  BY <1>2
<1>7. \A p \in D!Paths : Sound(g[p])
  BY <1>4, <1>5, <1>6
<1>8. FilesSound(g)
  BY <1>3, <1>7 DEF FilesSound, Sound
<1>9. \A p \in D!Paths : D!Holds(fs[p], "bind") \/ D!Holds(fs[p], "rule") => ~D!Blocked(fs[p])
  BY <1>4 DEF Sound, D!Holds, D!Blocked
<1>10. /\ "bind" \in as("main") => D!Holds(fs["main"], "bind") \/ ~D!Holds(fs["binds"], "bind")
       /\ "bind" \in as("binds") => ~D!Holds(fs["main"], "bind") /\ D!Holds(fs["binds"], "bind")
       /\ "rule" \in as("main") => D!Holds(fs["main"], "rule") \/ ~D!Holds(fs["rules"], "rule")
       /\ "rule" \in as("rules") => ~D!Holds(fs["main"], "rule") /\ D!Holds(fs["rules"], "rule")
       /\ "bind" \notin as("rules") /\ "rule" \notin as("binds")
       /\ "bind" \in D!Actions => "bind" \in as("main") \cup as("binds")
       /\ "rule" \in D!Actions => "rule" \in as("main") \cup as("rules")
  BY Targets
<1>11. D!Twice(g) => D!Twice(fs)
  <2> SUFFICES ASSUME D!Holds(g["main"], "bind"), D!Holds(g["binds"], "bind") PROVE D!Twice(fs)
    BY DEF D!Twice
  <2>1. D!Holds(fs["main"], "bind") \/ "bind" \in as("main")
    BY <1>1, <1>5, <1>6
  <2>2. D!Holds(fs["binds"], "bind") \/ "bind" \in as("binds")
    BY <1>1, <1>5, <1>6
  <2>3. D!Holds(fs["binds"], "bind")
    BY <1>10, <2>2
  <2>4. ~("bind" \in as("main") /\ "bind" \in as("binds"))
    OBVIOUS
  <2>5. D!Holds(fs["main"], "bind")
    <3>1. CASE "bind" \in as("main")
      BY <1>10, <2>3, <3>1
    <3> QED BY <2>1, <3>1
  <2> QED BY <2>3, <2>5 DEF D!Twice
<1>12. ASSUME "bind" \in D!Actions PROVE D!ResolveTarget(g, "bind") = D!ResolveTarget(fs, "bind")
  <2>1. CASE "bind" \in as("main")
    <3>1. as("binds") = {} /\ g["binds"] = fs["binds"]
      BY <1>1, <1>6, <1>10, <2>1
    <3>2. D!Holds(fs["main"], "bind") => D!Holds(g["main"], "bind")
      BY <1>1, <1>5, <1>9, <2>1
    <3>3. D!ResolveTarget(g, "bind") = "main"
      BY <1>10, <2>1, <3>1, <3>2, Targets
    <3> QED BY <2>1, <3>3
  <2>2. CASE "bind" \in as("binds")
    <3>1. "bind" \notin as("main")
      BY <2>2
    <3>2. ~D!Holds(g["main"], "bind")
      BY <1>1, <1>5, <1>6, <1>10, <2>2, <3>1
    <3>3. D!Holds(g["binds"], "bind")
      BY <1>1, <1>5, <1>9, <1>10, <2>2
    <3>4. D!ResolveTarget(g, "bind") = "binds"
      BY <3>2, <3>3, Targets
    <3> QED BY <2>2, <3>4
  <2> QED BY <1>10, <1>12, <2>1, <2>2
<1>13. ASSUME "rule" \in D!Actions PROVE D!ResolveTarget(g, "rule") = D!ResolveTarget(fs, "rule")
  <2>1. CASE "rule" \in as("main")
    <3>1. as("rules") = {} /\ g["rules"] = fs["rules"]
      BY <1>1, <1>6, <1>10, <2>1
    <3>2. D!Holds(fs["main"], "rule") => D!Holds(g["main"], "rule")
      BY <1>1, <1>5, <1>9, <2>1
    <3>3. D!ResolveTarget(g, "rule") = "main"
      BY <1>10, <2>1, <3>1, <3>2, Targets
    <3> QED BY <2>1, <3>3
  <2>2. CASE "rule" \in as("rules")
    <3>1. "rule" \notin as("main")
      BY <2>2
    <3>2. ~D!Holds(g["main"], "rule")
      BY <1>1, <1>5, <1>6, <1>10, <2>2, <3>1
    <3>3. D!Holds(g["rules"], "rule")
      BY <1>1, <1>5, <1>9, <1>10, <2>2
    <3>4. D!ResolveTarget(g, "rule") = "rules"
      BY <3>2, <3>3, Targets
    <3> QED BY <2>2, <3>4
  <2> QED BY <1>10, <1>13, <2>1, <2>2
<1>14. D!Planned(g, c) = g
  <2>1. \A p \in D!Paths : {a \in D!Actions : D!ResolveTarget(g, a) = p} = as(p)
    BY <1>1, <1>12, <1>13
  <2>2. \A p \in D!Paths : D!Planned(g, c)[p] =
          IF as(p) = {} \/ D!Blocked(g[p]) THEN g[p] ELSE D!Upsert(g[p], as(p), c)
    BY <2>1 DEF D!Planned
  <2>3. \A p \in D!Paths : D!Planned(g, c)[p] = g[p]
    BY <1>5, <1>6, <2>2
  <2>4. D!Planned(g, c) = [p \in D!Paths |-> D!Planned(g, c)[p]]
    BY DEF D!Planned
  <2> QED BY <1>3, <2>3, <2>4
<1> QED BY <1>8, <1>11, <1>14 DEF g

LEMMA RevertedIs ==
  ASSUME FilesSound(file) PROVE FilesSound(D!Reverted)
<1>1. ASSUME NEW p \in D!Paths PROVE Sound(D!Reverted[p])
  <2> DEFINE f == file[p]
             g == [f EXCEPT !.block = "none", !.binds = <<>>, !.rule = FALSE]
  <2>1. f \in DeskFiles /\ Sound(f)
    BY DEF FilesSound, Sound
  <2>2. D!Reverted[p] \in {f, D!Absent, g}
    BY DEF D!Reverted
  <2>3. Sound(D!Absent)
    BY DEF D!Absent, Sound, DeskFiles
  <2>4. Sound(g)
    <3>1. g \in DeskFiles /\ g.there = f.there /\ g.stock = f.stock /\ g.block = "none" /\ g.binds = <<>>
      BY <2>1 DEF DeskFiles
    <3>2. f.block # "whole" \/ g.block = "none"
      BY <3>1
    <3> QED BY <2>1, <3>1 DEF Sound
  <2> QED BY <2>1, <2>2, <2>3, <2>4
<1>2. D!Reverted = [p \in D!Paths |-> D!Reverted[p]]
  BY DEF D!Reverted
<1> QED BY <1>1, <1>2 DEF FilesSound, Sound

-----------------------------------------------------------------------------
(* Lists of commands. *)
LEMMA SequenceOf == ASSUME NEW X, NEW r \in Seq(X) PROVE IsSequence(r)
<1>1. r = [i \in 1..Len(r) |-> r[i]] /\ Len(r) \in Nat /\ DOMAIN r = 1..Len(r)
  OBVIOUS
<1>2. \A i \in 1..Len(r) : r[i] \in {r[j] : j \in DOMAIN r}
  BY <1>1
<1> QED BY <1>1, <1>2 DEF IsSequence

ResetsOf(f) == [i \in DOMAIN f |-> D!Set(f[i], "reset", None)]

LEMMA ResetsAreSequence == ASSUME NEW f, \E n \in Nat : DOMAIN f = 1..n PROVE IsSequence(ResetsOf(f))
<1>1. ResetsOf(f) \in Seq({D!Set(f[i], "reset", None) : i \in DOMAIN f})
  BY DEF ResetsOf
<1> QED BY <1>1, SequenceOf

LEMMA SequencesJoin ==
  ASSUME NEW s, NEW t, IsSequence(s), IsSequence(t) PROVE IsSequence(s \o t)
<1> DEFINE A == {s[i] : i \in DOMAIN s}
           B == {t[i] : i \in DOMAIN t}
<1>1. s \in Seq(A) /\ t \in Seq(B)
  BY DEF IsSequence
<1> HIDE DEF A, B
<1>2. s \in Seq(A \cup B) /\ t \in Seq(A \cup B)
  BY <1>1
<1>3. s \o t \in Seq(A \cup B)
  BY <1>2
<1> QED BY <1>3, SequenceOf

LEMMA Joined ==
  ASSUME NEW s, NEW t, IsSequence(s), IsSequence(t), KeysLast(s),
         \A k \in DOMAIN t :
           /\ t[k].op = "command" => t[k].id \in D!Ids /\ t[k].value # None
           /\ t[k].op = "binding" => /\ t[k].id \in D!Ids
                                     /\ \/ entry[t[k].id].command # None \/ SetBefore(t, k)
                                        \/ \E j \in DOMAIN s : s[j].op = "command" /\ s[j].id = t[k].id
           /\ t[k].op = "list" => IsSequence(t[k].value)
  PROVE  /\ IsSequence(s \o t) /\ KeysLast(s \o t)
         /\ Resets(s \o t) => Resets(s) \/ Resets(t)
         /\ SetsKeys(s \o t) => SetsKeys(s) \/ SetsKeys(t)
<1> DEFINE A == {s[i] : i \in DOMAIN s}
           B == {t[i] : i \in DOMAIN t}
           r == s \o t
           n == Len(s)
<1>0. s \in Seq(A) /\ t \in Seq(B)
  BY DEF IsSequence
<1>1. s \in Seq(A \cup B) /\ t \in Seq(A \cup B)
  <2> HIDE DEF A, B
  <2> QED BY <1>0
<1> HIDE DEF A, B
<1>2. /\ r \in Seq(A \cup B) /\ n \in Nat /\ Len(t) \in Nat /\ Len(r) = n + Len(t)
      /\ DOMAIN s = 1..n /\ DOMAIN t = 1..Len(t) /\ DOMAIN r = 1..(n + Len(t))
      /\ \A k \in DOMAIN s : r[k] = s[k]
      /\ \A k \in DOMAIN t : r[n + k] = t[k]
  BY <1>1
<1> HIDE DEF r, n
<1>3. \A k \in DOMAIN r : k \in DOMAIN s \/ (k - n \in DOMAIN t /\ r[k] = t[k - n])
  <2> SUFFICES ASSUME NEW k \in DOMAIN r, k \notin DOMAIN s PROVE k - n \in DOMAIN t /\ r[k] = t[k - n]
    OBVIOUS
  <2>1. k - n \in DOMAIN t /\ n + (k - n) = k
    BY <1>2
  <2> QED BY <1>2, <2>1
<1>4. IsSequence(r)
  BY <1>2, SequenceOf
<1>5. KeysLast(r)
  <2> SUFFICES ASSUME NEW k \in DOMAIN r
               PROVE  /\ r[k].op = "command" => r[k].id \in D!Ids /\ r[k].value # None
                      /\ r[k].op = "binding" => r[k].id \in D!Ids /\ (entry[r[k].id].command # None \/ SetBefore(r, k))
                      /\ r[k].op = "list" => IsSequence(r[k].value)
    BY DEF KeysLast
  <2>1. CASE k \in DOMAIN s
    <3>1. r[k] = s[k] /\ k \in 1..n
      BY <1>2, <2>1
    <3>2. SetBefore(s, k) => SetBefore(r, k)
      <4> SUFFICES ASSUME NEW j \in DOMAIN s, j < k, s[j].op = "command", s[j].id = s[k].id PROVE SetBefore(r, k)
        BY DEF SetBefore
      <4>1. j \in DOMAIN r /\ r[j] = s[j]
        BY <1>2
      <4> QED BY <3>1, <4>1 DEF SetBefore
    <3> QED BY <2>1, <3>1, <3>2 DEF KeysLast
  <2>2. CASE k \notin DOMAIN s
    <3>1. k - n \in DOMAIN t /\ r[k] = t[k - n]
      BY <1>3, <2>2
    <3>2. SetBefore(t, k - n) => SetBefore(r, k)
      <4> SUFFICES ASSUME NEW j \in DOMAIN t, j < k - n, t[j].op = "command", t[j].id = t[k - n].id PROVE SetBefore(r, k)
        BY DEF SetBefore
      <4>1. n + j \in DOMAIN r /\ r[n + j] = t[j] /\ n + j < k
        BY <1>2, <3>1
      <4> QED BY <3>1, <4>1 DEF SetBefore
    <3>3. (\E j \in DOMAIN s : s[j].op = "command" /\ s[j].id = r[k].id) => SetBefore(r, k)
      <4> SUFFICES ASSUME NEW j \in DOMAIN s, s[j].op = "command", s[j].id = r[k].id PROVE SetBefore(r, k)
        OBVIOUS
      <4>1. j \in DOMAIN r /\ r[j] = s[j] /\ j < k
        BY <1>2, <2>2
      <4> QED BY <4>1 DEF SetBefore
    <3> QED BY <3>1, <3>2, <3>3
  <2> QED BY <2>1, <2>2
<1>6. ASSUME NEW op, NEW k \in DOMAIN r, r[k].op = op
      PROVE (\E j \in DOMAIN s : s[j].op = op) \/ (\E j \in DOMAIN t : t[j].op = op)
  BY <1>2, <1>3, <1>6
<1>7. (Resets(r) => Resets(s) \/ Resets(t)) /\ (SetsKeys(r) => SetsKeys(s) \/ SetsKeys(t))
  BY <1>6 DEF Resets, SetsKeys
<1> QED BY <1>4, <1>5, <1>7 DEF r

LEMMA NoSteps == SafeSteps(<<>>) /\ IsSequence(<<>>) /\ KeysLast(<<>>) /\ ~Resets(<<>>) /\ ~SetsKeys(<<>>)
<1>1. <<>> \in Seq({}) /\ DOMAIN <<>> = {}
  OBVIOUS
<1> QED BY <1>1, SequenceOf DEF SafeSteps, KeysLast, Resets, SetsKeys

LEMMA OneStep == ASSUME NEW x PROVE IsSequence(<<x>>) /\ DOMAIN <<x>> = {1} /\ <<x>>[1] = x
<1>1. <<x>> \in Seq({x}) /\ DOMAIN <<x>> = {1} /\ <<x>>[1] = x
  OBVIOUS
<1> QED BY <1>1, SequenceOf

LEMMA Counts == \A X : D!Cardinality(X) = Cardinality(X)
  BY Zenon DEF D!Cardinality, Cardinality

LEMMA ThoseIs == ASSUME IsSequence(listed), NEW ours PROVE IsSequence(D!Those(ours)) /\ \E n \in Nat : DOMAIN D!Those(ours) = 1..n
<1> DEFINE at == {i \in DOMAIN listed : D!IsOurs(listed[i]) = ours}
           nth(k) == CHOOSE i \in at : D!Cardinality({j \in at : j < i}) = k - 1
<1>1. DOMAIN listed = 1..Len(listed) /\ Len(listed) \in Nat
  BY DEF IsSequence
<1>2. IsFiniteSet(at) /\ D!Cardinality(at) \in Nat
  <2>1. IsFiniteSet(1..Len(listed)) /\ at \subseteq 1..Len(listed)
    BY <1>1, FS_Interval
  <2> HIDE DEF at
  <2>2. IsFiniteSet(at)
    BY <2>1, FS_Subset
  <2> QED BY <2>2, FS_CardinalityType, Counts
<1>3. D!Those(ours) = [k \in 1..D!Cardinality(at) |-> listed[nth(k)]]
  BY DEF D!Those
<1> DEFINE n == D!Cardinality(at)
           r == [k \in 1..n |-> listed[nth(k)]]
<1>4. n \in Nat /\ D!Those(ours) = r
  BY <1>2, <1>3
<1> HIDE DEF n, at, nth
<1>5. r \in Seq({listed[nth(k)] : k \in 1..n}) /\ DOMAIN r = 1..n
  BY <1>4
<1> HIDE DEF r
<1> QED BY <1>4, <1>5, SequenceOf

(* A list that sets keys and commands only, each key after its command.      *)
Sets(t) == IsSequence(t) /\ KeysLast(t) /\ ~Resets(t)

LEMMA SetsJoined == ASSUME NEW s, NEW t, Sets(s), Sets(t) PROVE Sets(s \o t)
  BY Joined DEF Sets, KeysLast

LEMMA OneSets ==
  ASSUME NEW x, x.op \in {"command", "binding", "list", "live"}, x.op \in {"command", "binding"} => x.id \in D!Ids,
         x.op = "command" => x.value # None,
         x.op = "binding" => entry[x.id].command # None,
         x.op = "list" => IsSequence(x.value)
  PROVE  Sets(<<x>>)
<1>1. IsSequence(<<x>>) /\ DOMAIN <<x>> = {1} /\ <<x>>[1] = x
  BY OneStep
<1> QED BY <1>1 DEF Sets, KeysLast, Resets

LEMMA ShortcutSets ==
  ASSUME NEW i \in D!Ids, NEW b, b[i][2] # None
  PROVE  Sets((IF entry[i].command = b[i][2] THEN <<>> ELSE <<D!Set(i, "command", b[i][2])>>)
              \o (IF entry[i].binding = b[i][1] THEN <<>> ELSE <<D!Set(i, "binding", b[i][1])>>))
<1> DEFINE x == D!Set(i, "command", b[i][2])
           y == D!Set(i, "binding", b[i][1])
           s == IF entry[i].command = b[i][2] THEN <<>> ELSE <<x>>
           t == IF entry[i].binding = b[i][1] THEN <<>> ELSE <<y>>
<1>1. x.op = "command" /\ x.id = i /\ x.value = b[i][2] /\ y.op = "binding" /\ y.id = i
  BY DEF D!Set
<1> HIDE DEF x, y
<1>2. Sets(s)
  BY <1>1, OneSets, NoSteps DEF Sets
<1>3. IsSequence(t) /\ ~Resets(t) /\ \A k \in DOMAIN t : t[k] = y
  BY <1>1, OneStep, NoSteps DEF Resets
<1>4. entry[i].command # None \/ \E j \in DOMAIN s : s[j].op = "command" /\ s[j].id = i
  <2>1. CASE entry[i].command = b[i][2]
    BY <2>1
  <2>2. CASE entry[i].command # b[i][2]
    BY <1>1, <2>2, OneStep
  <2> QED BY <2>1, <2>2
<1> HIDE DEF s, t
<1>5. IsSequence(s \o t) /\ KeysLast(s \o t) /\ (Resets(s \o t) => Resets(s) \/ Resets(t))
  BY <1>1, <1>2, <1>3, <1>4, Joined DEF Sets
<1>6. Sets(s \o t)
  BY <1>2, <1>3, <1>5 DEF Sets
<1> QED BY <1>6 DEF s, t, x, y

LEMMA CommandsSafe == ASSUME DeskTypeOK, NEW c \in Configs PROVE SafeSteps(D!CommandsFor(c))
<1>0. PICK b \in BindLists : b = c.binds
  BY DEF Configs
<1>1. Len(b) \in 1..3 /\ DOMAIN b = 1..Len(b) /\ \A i \in DOMAIN b : b[i][2] # None
  BY BindsAssumption
<1>2. CASE kind = "gnome"
  <2> DEFINE set(i) == (IF entry[i].command = b[i][2] THEN <<>> ELSE <<D!Set(i, "command", b[i][2])>>)
                       \o (IF entry[i].binding = b[i][1] THEN <<>> ELSE <<D!Set(i, "binding", b[i][1])>>)
             two == IF Len(b) > 1 THEN set(2) ELSE <<>>
             three == IF Len(b) > 2 THEN set(3) ELSE <<>>
             last == IF listed = D!Unwanted(c) THEN <<>> ELSE <<D!Set(0, "list", D!Unwanted(c))>>
  <2>1. D!CommandsFor(c) = (set(1) \o two \o three) \o last
    <3>1. D!CommandsFor(c) = D!PlanGnomeBinds(c)
      BY <1>2 DEF D!CommandsFor
    <3> QED BY <1>0, <3>1, Zenon DEF D!PlanGnomeBinds
  <2>2. \A i \in DOMAIN b : i \in D!Ids /\ Sets(set(i))
    BY <1>1, ShortcutSets DEF D!Ids
  <2>3. Sets(<<>>)
    BY NoSteps DEF Sets
  <2>4. Sets(set(1)) /\ Sets(two) /\ Sets(three)
    <3> HIDE DEF set
    <3>1. 1 \in DOMAIN b /\ (Len(b) > 1 => 2 \in DOMAIN b) /\ (Len(b) > 2 => 3 \in DOMAIN b)
      <4>1. PICK n \in 1..3 : n = Len(b) /\ DOMAIN b = 1..n
        BY <1>1
      <4> QED BY <4>1
    <3> QED BY <2>2, <2>3, <3>1
  <2>5. Sets(last)
    <3>1. IsSequence(D!Wanted(c))
      <4>1. D!Wanted(c) \in Seq(1..3)
        BY <1>0, <1>1 DEF D!Wanted
      <4> QED BY <4>1, SequenceOf
    <3>2. IsSequence(D!Those(FALSE))
      BY ThoseIs DEF DeskTypeOK
    <3>4. IsSequence(D!Unwanted(c))
      BY <3>1, <3>2, SequencesJoin DEF D!Unwanted
    <3> DEFINE x == D!Set(0, "list", D!Unwanted(c))
    <3>5. x.op = "list" /\ x.value = D!Unwanted(c)
      BY DEF D!Set
    <3> HIDE DEF x
    <3>6. Sets(<<x>>)
      BY <3>4, <3>5, OneSets
    <3> QED BY <2>3, <3>6 DEF x
  <2> HIDE DEF set, two, three, last
  <2>6. Sets(set(1) \o two)
    BY <2>4, SetsJoined
  <2>7. Sets(set(1) \o two \o three)
    BY <2>4, <2>6, SetsJoined
  <2>8. Sets(D!CommandsFor(c))
    BY <2>1, <2>5, <2>7, SetsJoined
  <2> QED BY <2>8 DEF SafeSteps, Sets
<1>3. CASE kind = "kde"
  <2>1. D!CommandsFor(c) = [i \in DOMAIN b |-> D!Set(i, "live", b[i][1])]
    BY <1>0, <1>3 DEF D!CommandsFor, D!PlanKdeLiveBinds
  <2> DEFINE r == [i \in DOMAIN b |-> D!Set(i, "live", b[i][1])]
  <2>2. r \in Seq({D!Set(i, "live", b[i][1]) : i \in DOMAIN b})
    BY <1>1
  <2>3. \A k \in DOMAIN r : r[k].op = "live"
    BY DEF D!Set
  <2> HIDE DEF r
  <2>4. SafeSteps(r)
    BY <2>2, <2>3, SequenceOf DEF SafeSteps, KeysLast, Resets
  <2> QED BY <2>1, <2>4 DEF r
<1>4. CASE kind \notin {"gnome", "kde"}
  BY <1>4, NoSteps DEF D!CommandsFor
<1> QED BY <1>2, <1>3, <1>4

LEMMA UndoSafe == ASSUME DeskTypeOK PROVE SafeSteps(D!Undo)
<1>1. CASE kind # "gnome"
  BY <1>1, NoSteps DEF D!Undo
<1>2. CASE kind = "gnome"
  <2> DEFINE r == ResetsOf(D!Those(TRUE))
             x == D!Set(0, "list", D!Those(FALSE))
  <2>1. D!Undo = r \o <<x>>
    BY <1>2 DEF D!Undo, ResetsOf
  <2>2. IsSequence(D!Those(FALSE)) /\ \E n \in Nat : DOMAIN D!Those(TRUE) = 1..n
    BY ThoseIs DEF DeskTypeOK
  <2>3. IsSequence(r)
    BY <2>2, ResetsAreSequence, Zenon
  <2>4. \A k \in DOMAIN r : r[k].op = "reset"
    BY DEF D!Set, ResetsOf
  <2>5. x.op = "list" /\ x.value = D!Those(FALSE)
    BY DEF D!Set
  <2> HIDE DEF r, x
  <2>6. IsSequence(r) /\ KeysLast(r) /\ ~SetsKeys(r)
    BY <2>3, <2>4 DEF KeysLast, SetsKeys
  <2>7. IsSequence(<<x>>) /\ ~SetsKeys(<<x>>) /\ \A k \in DOMAIN <<x>> : <<x>>[k] = x
    BY <2>5, OneStep DEF SetsKeys
  <2>8. IsSequence(r \o <<x>>) /\ KeysLast(r \o <<x>>) /\ (SetsKeys(r \o <<x>>) => SetsKeys(r) \/ SetsKeys(<<x>>))
    BY <2>2, <2>5, <2>6, <2>7, Joined
  <2> QED BY <2>1, <2>6, <2>7, <2>8 DEF SafeSteps
<1> QED BY <1>1, <1>2

-----------------------------------------------------------------------------
LEMMA RestOf ==
  ASSUME NEW t, IsSequence(t), t # <<>>
  PROVE  /\ IsSequence(Tail(t)) /\ 1 \in DOMAIN t /\ Head(t) = t[1]
         /\ \A k \in DOMAIN Tail(t) : k + 1 \in DOMAIN t /\ Tail(t)[k] = t[k + 1] /\ k \in Nat
         /\ \A k \in DOMAIN t : k \in Nat /\ (k # 1 => k - 1 \in DOMAIN Tail(t))
<1> DEFINE A == {t[i] : i \in DOMAIN t}
<1>1. t \in Seq(A)
  BY DEF IsSequence
<1> HIDE DEF A
<1>2. /\ Tail(t) \in Seq(A) /\ Len(t) \in Nat /\ Len(t) >= 1 /\ DOMAIN t = 1..Len(t)
      /\ Head(t) = t[1] /\ DOMAIN Tail(t) = 1..(Len(t) - 1)
  BY <1>1
<1>3. \A k \in 1..(Len(t) - 1) : Tail(t)[k] = t[k + 1]
  BY <1>1, <1>2
<1>4. IsSequence(Tail(t))
  BY <1>2, SequenceOf
<1>5. \A k \in 1..Len(t) : k \in Nat /\ (k # 1 => k - 1 \in 1..(Len(t) - 1))
  BY <1>2
<1>6. \A k \in 1..(Len(t) - 1) : k + 1 \in 1..Len(t) /\ k \in Nat
  BY <1>2
<1> QED BY <1>2, <1>3, <1>4, <1>5, <1>6

(* One command, done or failed. *)
LEMMA CommandKeeps == ASSUME DeskInv, D!RunCommand PROVE DeskInv'
<1> DEFINE c == todo[1]
<1>0. IsSequence(todo) /\ todo # <<>> /\ KeysLast(todo) /\ ~(Resets(todo) /\ SetsKeys(todo)) /\ plan = D!NoPlan
  BY DEF DeskInv, SafeSteps, D!RunCommand, OneSurface
<1>1. /\ 1 \in DOMAIN todo /\ Head(todo) = c /\ IsSequence(Tail(todo))
      /\ \A k \in DOMAIN Tail(todo) : k + 1 \in DOMAIN todo /\ Tail(todo)[k] = todo[k + 1] /\ k \in Nat
      /\ \A k \in DOMAIN todo : k \in Nat /\ (k # 1 => k - 1 \in DOMAIN Tail(todo))
  BY <1>0, RestOf
<1>2. UNCHANGED <<kind, seed, window, config, file, backups, made, edited, changes, plan, asked, shown, applying, failed>>
  BY DEF D!RunCommand, D!windowVars
<1>a. SafeSteps(plan.todo)' /\ FilesSound(file)' /\ PlanSound' /\ OneSurface'
  <2>1. D!NoPlan.todo = <<>>
    BY DEF D!NoPlan
  <2>2. SafeSteps(plan.todo)'
    BY <1>0, <1>2, <2>1, NoSteps DEF SafeSteps, KeysLast, SetsKeys, Resets, SetBefore
  <2>3. FilesSound(file)' /\ PlanSound'
    BY <1>2 DEF DeskInv, FilesSound, PlanSound, Sound
  <2> QED BY <1>0, <1>2, <2>2, <2>3 DEF OneSurface, DeskInv
<1>3. CASE todo' = <<>> /\ UNCHANGED <<entry, listed, live, excused>>
  <2>1. DeskTypeOK' /\ EntriesRun' /\ D!LinesKept'
    BY <1>2, <1>3 DEF DeskInv, DeskTypeOK, EntriesRun, D!LinesKept
  <2>2. SafeSteps(todo)'
    BY <1>3, NoSteps DEF SafeSteps, KeysLast, SetsKeys, Resets, SetBefore
  <2> QED BY <1>a, <2>1, <2>2 DEF DeskInv
<1>4. CASE ~(todo' = <<>> /\ UNCHANGED <<entry, listed, live, excused>>)
  <2>1. /\ todo' = Tail(todo)
        /\ entry' = CASE c.op = "command" -> [entry EXCEPT ![c.id].command = c.value]
                      [] c.op = "binding" -> [entry EXCEPT ![c.id].binding = c.value]
                      [] c.op = "reset"   -> [entry EXCEPT ![c.id] = D!Unset]
                      [] OTHER            -> entry
        /\ listed' = IF c.op = "list" THEN c.value ELSE listed
        /\ excused' = IF c.op = "list"
                      THEN [excused EXCEPT !.lines = @ \cup ({listed[i] : i \in DOMAIN listed}
                                                             \ {c.value[i] : i \in DOMAIN c.value})]
                      ELSE excused
    BY <1>1, <1>4 DEF D!RunCommand
  <2>2. /\ c.op = "command" => c.id \in D!Ids /\ c.value # None
        /\ c.op = "binding" => c.id \in D!Ids /\ entry[c.id].command # None
        /\ c.op = "list" => IsSequence(c.value)
    BY <1>0, <1>1 DEF KeysLast, SetBefore
  <2>3. DOMAIN entry = D!Ids /\ \A i \in D!Ids : entry[i] = [command |-> entry[i].command, binding |-> entry[i].binding]
    BY DEF DeskInv, DeskTypeOK
  <2>4. /\ DOMAIN entry' = D!Ids
        /\ \A i \in D!Ids : entry'[i] = [command |-> entry'[i].command, binding |-> entry'[i].binding]
    BY <2>1, <2>3 DEF D!Unset
  <2>5. \A i \in D!Ids : entry'[i].command = CASE c.op = "command" /\ i = c.id -> c.value
                                               [] c.op = "reset" /\ i = c.id -> None
                                               [] OTHER -> entry[i].command
    BY <2>1, <2>3 DEF D!Unset
  <2>6. \A i \in D!Ids : entry'[i].binding = CASE c.op = "binding" /\ i = c.id -> c.value
                                               [] c.op = "reset" /\ i = c.id -> None
                                               [] OTHER -> entry[i].binding
    BY <2>1, <2>3 DEF D!Unset
  <2>7. EntriesRun'
    <3> SUFFICES ASSUME NEW i \in D!Ids, entry'[i].binding # None PROVE entry'[i].command # None
      BY DEF EntriesRun
    <3>1. entry[i].binding # None => entry[i].command # None
      BY DEF DeskInv, EntriesRun
    <3> QED BY <2>2, <2>5, <2>6, <3>1
  <2>8. ~(Resets(Tail(todo)) /\ SetsKeys(Tail(todo)))
    BY <1>0, <1>1 DEF Resets, SetsKeys
  <2>9. KeysLast(todo)'
    <3> SUFFICES ASSUME NEW k \in DOMAIN Tail(todo)
                 PROVE  LET t == Tail(todo) IN
                        /\ t[k].op = "command" => t[k].id \in D!Ids /\ t[k].value # None
                        /\ t[k].op = "binding" => t[k].id \in D!Ids /\ (entry'[t[k].id].command # None \/ SetBefore(t, k))
                        /\ t[k].op = "list" => IsSequence(t[k].value)
      BY <2>1 DEF KeysLast, SetBefore
    <3> DEFINE x == todo[k + 1]
    <3>1. k + 1 \in DOMAIN todo /\ Tail(todo)[k] = x
      BY <1>1
    <3>2. /\ x.op = "command" => x.id \in D!Ids /\ x.value # None
          /\ x.op = "binding" => x.id \in D!Ids /\ (entry[x.id].command # None \/ SetBefore(todo, k + 1))
          /\ x.op = "list" => IsSequence(x.value)
      BY <1>0, <3>1 DEF KeysLast
    <3>3. x.op = "binding" => c.op # "reset"
      BY <1>0, <1>1, <3>1 DEF Resets, SetsKeys
    <3>4. x.op = "binding" /\ entry[x.id].command # None => entry'[x.id].command # None
      BY <2>2, <2>5, <3>2, <3>3
    <3>5. x.op = "binding" /\ SetBefore(todo, k + 1) => entry'[x.id].command # None \/ SetBefore(Tail(todo), k)
      <4> SUFFICES ASSUME x.op = "binding", NEW j \in DOMAIN todo, j < k + 1, todo[j].op = "command", todo[j].id = x.id
                   PROVE  entry'[x.id].command # None \/ SetBefore(Tail(todo), k)
        BY DEF SetBefore
      <4>1. CASE j = 1
        BY <2>2, <2>5, <4>1
      <4>2. CASE j # 1
        <5>1. j - 1 \in DOMAIN Tail(todo) /\ Tail(todo)[j - 1] = todo[j] /\ j - 1 < k
          <6>1. j - 1 \in DOMAIN Tail(todo) /\ j \in Nat /\ k \in Nat
            BY <1>1, <4>2
          <6>2. Tail(todo)[j - 1] = todo[(j - 1) + 1] /\ (j - 1) + 1 = j
            BY <1>1, <6>1
          <6> QED BY <6>1, <6>2
        <5> QED BY <3>1, <5>1 DEF SetBefore
      <4> QED BY <4>1, <4>2
    <3> QED BY <3>1, <3>2, <3>4, <3>5
  <2>10. SafeSteps(todo)'
    BY <1>1, <2>1, <2>8, <2>9 DEF SafeSteps, Resets, SetsKeys, IsSequence
  <2>11. IsSequence(listed') /\ excused' = [lines |-> excused'.lines, binds |-> excused'.binds]
         /\ excused.lines \subseteq excused'.lines /\ excused'.binds = excused.binds
         /\ {listed[i] : i \in DOMAIN listed} \subseteq excused'.lines \cup {listed'[i] : i \in DOMAIN listed'}
    <3>1. IsSequence(listed) /\ excused = [lines |-> excused.lines, binds |-> excused.binds]
      BY DEF DeskInv, DeskTypeOK
    <3>2. CASE c.op # "list"
      BY <2>1, <3>1, <3>2
    <3>3. CASE c.op = "list"
      BY <2>1, <2>2, <3>1, <3>3
    <3> QED BY <3>2, <3>3
  <2>12. D!LinesKept'
    <3> DEFINE put == UNION {file[p].lines : p \in D!Paths}
               are == {listed[i] : i \in DOMAIN listed}
    <3>1. /\ made \subseteq backups.lines \cup excused.lines \cup put \cup are
          /\ edited \subseteq backups.binds \cup excused.binds \cup {file[p].binds : p \in D!Paths}
      BY DEF DeskInv, D!LinesKept
    <3>2. put' = put
      BY <1>2
    <3>3. are \subseteq excused'.lines \cup are'
      BY <2>11
    <3> HIDE DEF put, are
    <3>4. made' \subseteq backups'.lines \cup excused'.lines \cup put' \cup are'
      BY <1>2, <2>11, <3>1, <3>2, <3>3
    <3>5. edited' \subseteq backups'.binds \cup excused'.binds \cup {file'[p].binds : p \in D!Paths}
      BY <1>2, <2>11, <3>1
    <3> QED BY <3>4, <3>5 DEF D!LinesKept, put, are
  <2>13. DeskTypeOK'
    BY <1>2, <2>4, <2>11 DEF DeskInv, DeskTypeOK, IsSequence
  <2> QED BY <1>a, <2>7, <2>10, <2>12, <2>13 DEF DeskInv
<1> QED BY <1>3, <1>4

(* A plan is applied to files that may have changed since it was made.       *)
LEMMA ApplyKeeps ==
  ASSUME FilesSound(file), NEW before, NEW after, FilesSound(before), FilesSound(after), D!LinesKept,
         NEW written \in SUBSET D!Paths, D!ApplyPlan(before, after, written),
         UNCHANGED <<kind, made, edited, listed>>
  PROVE  /\ FilesSound(file)' /\ D!LinesKept'
         /\ excused' = [lines |-> excused'.lines, binds |-> excused'.binds]
<1> DEFINE changed == {p \in written : before[p] # after[p]}
           late == {p \in changed : file[p].binds # before[p].binds}
<1>1. /\ file' = [p \in D!Paths |-> IF p \in changed THEN after[p] ELSE file[p]]
      /\ backups' = [lines |-> backups.lines \cup UNION {before[p].lines : p \in changed},
                     binds |-> backups.binds \cup {before[p].binds : p \in changed}]
      /\ excused' = [lines |-> excused.lines \cup UNION {file[p].lines \ before[p].lines : p \in changed},
                     binds |-> excused.binds \cup {file[p].binds : p \in late}]
  BY DEF D!ApplyPlan
<1>2. changed \subseteq D!Paths
  OBVIOUS
<1>3. FilesSound(file)'
  <2>1. \A p \in D!Paths : file'[p] = after[p] \/ file'[p] = file[p]
    BY <1>1
  <2>2. \A p \in D!Paths : Sound(file'[p])
    BY <2>1 DEF FilesSound
  <2>3. file' \in [D!Paths -> DeskFiles]
    BY <1>1, <2>2 DEF Sound
  <2> QED BY <2>2, <2>3 DEF FilesSound, Sound
<1>4. ASSUME NEW x \in made
      PROVE  x \in backups'.lines \cup excused'.lines \cup (UNION {file'[p].lines : p \in D!Paths})
                   \cup {listed'[i] : i \in DOMAIN listed'}
  <2>1. x \in backups.lines \/ x \in excused.lines \/ (\E p \in D!Paths : x \in file[p].lines)
        \/ x \in {listed[i] : i \in DOMAIN listed}
    BY DEF D!LinesKept
  <2>2. ASSUME NEW p \in D!Paths, x \in file[p].lines
        PROVE  x \in backups'.lines \/ x \in excused'.lines \/ \E q \in D!Paths : x \in file'[q].lines
    <3>1. CASE p \notin changed
      BY <1>1, <2>2, <3>1
    <3>2. CASE p \in changed /\ x \in before[p].lines
      BY <1>1, <3>2
    <3>3. CASE p \in changed /\ x \notin before[p].lines
      BY <1>1, <2>2, <3>3
    <3> QED BY <3>1, <3>2, <3>3
  <2>3. backups.lines \subseteq backups'.lines /\ excused.lines \subseteq excused'.lines
    BY <1>1
  <2> QED BY <2>1, <2>2, <2>3
<1>5. ASSUME NEW x \in edited
      PROVE  x \in backups'.binds \cup excused'.binds \cup {file'[p].binds : p \in D!Paths}
  <2>1. x \in backups.binds \/ x \in excused.binds \/ (\E p \in D!Paths : x = file[p].binds)
    BY DEF D!LinesKept
  <2>2. ASSUME NEW p \in D!Paths, x = file[p].binds
        PROVE  x \in backups'.binds \/ x \in excused'.binds \/ \E q \in D!Paths : x = file'[q].binds
    <3>1. CASE p \notin changed
      BY <1>1, <2>2, <3>1
    <3>2. CASE p \in changed /\ x = before[p].binds
      BY <1>1, <3>2
    <3>3. CASE p \in changed /\ x # before[p].binds
      BY <1>1, <2>2, <3>3
    <3> QED BY <3>1, <3>2, <3>3
  <2>3. backups.binds \subseteq backups'.binds /\ excused.binds \subseteq excused'.binds
    BY <1>1
  <2> QED BY <2>1, <2>2, <2>3
<1>6. D!LinesKept'
  BY <1>4, <1>5 DEF D!LinesKept
<1>7. excused' = [lines |-> excused'.lines, binds |-> excused'.binds]
  BY <1>1
<1> QED BY <1>3, <1>6, <1>7

(* A file the person changes keeps its lines, and its binds unless they are  *)
(* what is changed.                                                           *)
LEMMA HandKeepsLines ==
  ASSUME D!LinesKept, file \in [D!Paths -> DeskFiles], NEW p \in D!Paths, NEW f, file' = [file EXCEPT ![p] = f],
         file[p].lines \subseteq f.lines,
         made' \subseteq made \cup f.lines,
         \A x \in edited' : x = f.binds \/ (x \in edited /\ x # file[p].binds),
         UNCHANGED <<listed, backups, excused>>
  PROVE  D!LinesKept'
<1>1. file'[p] = f /\ \A q \in D!Paths : q # p => file'[q] = file[q]
  OBVIOUS
<1>2. ASSUME NEW x \in made'
      PROVE  x \in backups'.lines \cup excused'.lines \cup (UNION {file'[q].lines : q \in D!Paths})
                   \cup {listed'[i] : i \in DOMAIN listed'}
  <2>1. x \in f.lines \/ x \in backups.lines \/ x \in excused.lines \/ (\E q \in D!Paths : x \in file[q].lines)
        \/ x \in {listed[i] : i \in DOMAIN listed}
    BY <1>2 DEF D!LinesKept
  <2>2. x \in f.lines \/ (\E q \in D!Paths : x \in file[q].lines) => \E q \in D!Paths : x \in file'[q].lines
    BY <1>1
  <2> QED BY <2>1, <2>2
<1>3. ASSUME NEW x \in edited'
      PROVE  x \in backups'.binds \cup excused'.binds \cup {file'[q].binds : q \in D!Paths}
  <2>1. CASE x = f.binds
    BY <1>1, <2>1
  <2>2. CASE x \in edited /\ x # file[p].binds
    <3>1. x \in backups.binds \/ x \in excused.binds \/ \E q \in D!Paths : x = file[q].binds
      BY <2>2 DEF D!LinesKept
    <3> QED BY <1>1, <2>2, <3>1
  <2> QED BY <2>1, <2>2
<1> QED BY <1>2, <1>3 DEF D!LinesKept

LEMMA FrameKeeps ==
  ASSUME DeskInv, UNCHANGED <<kind, window, entry>>, config' \in Configs, OneSurface',
         FilesSound(file)', D!LinesKept', IsSequence(listed'),
         IsFiniteSet(made'), made' \subseteq Nat, edited' \subseteq BindLists,
         excused' = [lines |-> excused'.lines, binds |-> excused'.binds],
         plan' = plan \/ (FilesSound(plan'.before) /\ FilesSound(plan'.after) /\ SafeSteps(plan'.todo)),
         todo' = todo \/ SafeSteps(todo')
  PROVE  DeskInv'
<1>1. DeskTypeOK' /\ EntriesRun'
  BY DEF DeskInv, DeskTypeOK, EntriesRun, IsSequence
<1>2. ASSUME NEW t, SafeSteps(t) PROVE IsSequence(t) /\ KeysLast(t)' /\ ~(Resets(t) /\ SetsKeys(t))
  BY <1>2 DEF SafeSteps, KeysLast
<1>3. SafeSteps(todo)' /\ SafeSteps(plan.todo)'
  <2>1. SafeSteps(todo') /\ SafeSteps(plan'.todo)
    BY DEF DeskInv
  <2>2. \A t : SafeSteps(t) => (IsSequence(t) /\ KeysLast(t)' /\ ~(Resets(t) /\ SetsKeys(t)))
    BY <1>2
  <2> QED BY <2>1, <2>2 DEF SafeSteps, KeysLast, IsSequence, Resets, SetsKeys, SetBefore
<1>4. PlanSound'
  <2>1. FilesSound(plan'.before) /\ FilesSound(plan'.after)
    BY DEF DeskInv, PlanSound
  <2> QED BY <2>1 DEF PlanSound, FilesSound, Sound
<1> QED BY <1>1, <1>3, <1>4 DEF DeskInv

LEMMA DeskInductive == ASSUME DeskInv, [D!Next]_(D!vars) PROVE DeskInv'
<1>0. /\ kind \in {"hyprland", "sway", "kde", "gnome"} /\ config \in Configs
      /\ IsFiniteSet(made) /\ made \subseteq Nat /\ edited \subseteq BindLists
      /\ excused = [lines |-> excused.lines, binds |-> excused.binds] /\ IsSequence(listed)
      /\ FilesSound(file) /\ D!LinesKept /\ file \in [D!Paths -> DeskFiles]
      /\ \A p \in D!Paths : Sound(file[p]) /\ file[p] \in DeskFiles
  BY DEF DeskInv, DeskTypeOK, FilesSound, Sound
<1>1. ASSUME UNCHANGED <<kind, window, file, entry, listed, made, edited, backups, excused, todo>>,
             config' \in Configs, OneSurface',
             plan' = plan \/ (FilesSound(plan'.before) /\ FilesSound(plan'.after) /\ SafeSteps(plan'.todo))
      PROVE  DeskInv'
  <2>1. FilesSound(file)' /\ D!LinesKept'
    BY <1>0, <1>1 DEF FilesSound, Sound, D!LinesKept
  <2> QED BY <1>0, <1>1, <2>1, FrameKeeps
<1>2. FilesSound(D!NoPlan.before) /\ FilesSound(D!NoPlan.after) /\ SafeSteps(D!NoPlan.todo)
  <2>1. Sound(D!Absent)
    BY DEF D!Absent, Sound, DeskFiles
  <2>2. FilesSound([p \in D!Paths |-> D!Absent])
    BY <2>1 DEF FilesSound, Sound
  <2> QED BY <2>2, NoSteps DEF D!NoPlan
<1>3. ASSUME NEW e \in BOOLEAN, D!Plan(e) PROVE DeskInv'
  <2>1. PICK c : /\ c = [config EXCEPT !.explicit = @ \/ e]
                 /\ plan' = [state |-> "fix", before |-> file, after |-> D!Planned(file, c), todo |-> D!CommandsFor(c)]
    BY <1>3 DEF D!Plan
  <2>2. c \in Configs
    BY <1>0, <2>1 DEF Configs
  <2>3. FilesSound(plan'.before) /\ FilesSound(plan'.after) /\ SafeSteps(plan'.todo)
    BY <1>0, <2>1, <2>2, PlannedIs, CommandsSafe DEF DeskInv
  <2>4. /\ UNCHANGED <<kind, window, file, entry, listed, made, edited, backups, excused, todo, config, asked, applying, failed, shown>>
        /\ ~window /\ todo = <<>>
    BY <1>3 DEF D!Plan, D!Still, D!windowVars
  <2>5. OneSurface'
    BY <2>4 DEF DeskInv, OneSurface
  <2> QED BY <1>0, <1>1, <2>3, <2>4, <2>5
<1>4. CASE D!PlanUnfix
  <2>1. /\ UNCHANGED <<kind, window, file, entry, listed, made, edited, backups, excused, todo, config, asked, applying, failed, shown>>
        /\ ~window /\ todo = <<>>
        /\ plan' = [state |-> "unfix", before |-> file, after |-> D!Reverted, todo |-> D!Undo]
    BY <1>4 DEF D!PlanUnfix, D!Still, D!windowVars
  <2>2. FilesSound(plan'.before) /\ FilesSound(plan'.after) /\ SafeSteps(plan'.todo)
    BY <1>0, <2>1, RevertedIs, UndoSafe DEF DeskInv
  <2>3. OneSurface'
    BY <2>1 DEF DeskInv, OneSurface
  <2> QED BY <1>0, <1>1, <2>1, <2>2, <2>3
<1>5. CASE D!No
  <2>1. /\ UNCHANGED <<kind, window, file, entry, listed, made, edited, backups, excused, todo, config, asked, applying, failed, shown>>
        /\ plan' = D!NoPlan
    BY <1>5 DEF D!No, D!Still, D!windowVars
  <2>2. OneSurface'
    BY <2>1 DEF DeskInv, OneSurface
  <2> QED BY <1>0, <1>1, <1>2, <2>1, <2>2
<1>6. ASSUME NEW e \in BOOLEAN, NEW b \in BindLists, D!Change([explicit |-> e, binds |-> b]) PROVE DeskInv'
  <2>1. /\ UNCHANGED <<kind, window, file, entry, listed, made, edited, backups, excused, todo, plan, applying, failed, shown>>
        /\ config' = [explicit |-> e, binds |-> b] /\ asked' = window
    BY <1>6 DEF D!Change, D!deskVars
  <2>2. OneSurface' /\ config' \in Configs
    BY <2>1 DEF DeskInv, OneSurface, Configs
  <2> QED BY <1>1, <2>1, <2>2
<1>7. CASE D!WindowOpens \/ D!PlanArrives \/ D!AutoApply \/ D!ApplyAnyway \/ D!TryAgain
  <2>1. UNCHANGED <<kind, window, file, entry, listed, made, edited, backups, excused, todo, plan, config>>
    BY <1>7 DEF D!WindowOpens, D!PlanArrives, D!AutoApply, D!ApplyAnyway, D!TryAgain, D!deskVars
  <2>2. window
    BY <1>7 DEF D!WindowOpens, D!PlanArrives, D!AutoApply, D!ApplyAnyway, D!TryAgain, DeskInv, OneSurface
  <2>3. OneSurface'
    BY <2>1, <2>2 DEF DeskInv, OneSurface
  <2> QED BY <1>0, <1>1, <2>1, <2>3
<1>8. CASE D!Yes
  <2>1. PICK written \in {{}, {"main"}, D!Paths} : D!ApplyPlan(plan.before, plan.after, written)
    BY <1>8 DEF D!Yes
  <2>2. /\ UNCHANGED <<kind, window, entry, listed, made, edited, config, asked, applying, failed, shown>>
        /\ plan' = D!NoPlan /\ todo' = plan.todo
    BY <1>8 DEF D!Yes, D!Still, D!windowVars
  <2>3. written \in SUBSET D!Paths
    BY DEF D!Paths
  <2>4. /\ FilesSound(file)' /\ D!LinesKept'
        /\ excused' = [lines |-> excused'.lines, binds |-> excused'.binds]
    BY <1>0, <2>1, <2>2, <2>3, ApplyKeeps DEF DeskInv, PlanSound
  <2>5. OneSurface' /\ SafeSteps(todo')
    BY <2>2 DEF DeskInv, OneSurface
  <2> QED BY <1>0, <1>2, <2>2, <2>4, <2>5, FrameKeeps
<1>9. CASE D!ApplyBind
  <2>1. PICK written \in {{}, D!Paths} : D!ApplyPlan(file, D!Planned(file, config), written)
    BY <1>9 DEF D!ApplyBind
  <2>2. /\ UNCHANGED <<kind, window, entry, listed, made, edited, config, plan, shown>>
        /\ todo' = D!CommandsFor(config) /\ window /\ plan = D!NoPlan
    BY <1>9 DEF D!ApplyBind, D!Still, DeskInv, OneSurface
  <2>3. written \in SUBSET D!Paths /\ FilesSound(D!Planned(file, config))
    BY <1>0, PlannedIs
  <2>4. /\ FilesSound(file)' /\ D!LinesKept'
        /\ excused' = [lines |-> excused'.lines, binds |-> excused'.binds]
    BY <1>0, <2>1, <2>2, <2>3, ApplyKeeps
  <2>5. OneSurface' /\ SafeSteps(todo')
    BY <1>0, <2>2, CommandsSafe DEF DeskInv, OneSurface
  <2> QED BY <1>0, <2>2, <2>4, <2>5, FrameKeeps
<1>10. CASE D!RunCommand
  BY <1>10, CommandKeeps
<1>11. ASSUME NEW f, NEW p \in D!Paths, D!Hand(f, p), f \in DeskFiles, file[p].lines \subseteq f.lines,
              f.block # "none" => f.there,
              f.block = "none" => f.binds = <<>>,
              kind = "sway" /\ f.there => f.stock,
              IsFiniteSet(made'), made' \subseteq Nat, made' \subseteq made \cup f.lines, edited' \subseteq BindLists,
              \A x \in edited' : x = f.binds \/ (x \in edited /\ x # file[p].binds),
              UNCHANGED <<listed, excused>>
       PROVE  DeskInv'
  <2>1. /\ UNCHANGED <<kind, window, entry, config, backups, plan, todo, asked, applying, failed, shown>>
        /\ file' = [file EXCEPT ![p] = f]
    BY <1>11 DEF D!Hand, D!windowVars
  <2>2. D!LinesKept'
    BY <1>0, <1>11, <2>1, HandKeepsLines
  <2>3. FilesSound(file)'
    <3>1. file' \in [D!Paths -> DeskFiles] /\ \A q \in D!Paths : file'[q] = IF q = p THEN f ELSE file[q]
      BY <1>0, <1>11, <2>1
    <3>2. Sound(f)'
      BY <1>11, <2>1 DEF Sound
    <3> QED BY <1>0, <2>1, <3>1, <3>2 DEF FilesSound, Sound
  <2>4. OneSurface'
    BY <2>1 DEF DeskInv, OneSurface
  <2> QED BY <1>0, <1>11, <2>1, <2>2, <2>3, <2>4, FrameKeeps
<1>12. D!Fresh \in Nat /\ IsFiniteSet(made \cup {D!Fresh})
  <2>1. Cardinality(made) \in Nat
    BY <1>0, FS_CardinalityType
  <2>2. D!Fresh = 4 + Cardinality(made)
    BY Counts DEF D!Fresh
  <2>3. IsFiniteSet(made \cup {D!Fresh})
    BY <1>0, FS_AddElement
  <2> QED BY <2>1, <2>2, <2>3
<1>13. ASSUME NEW p \in D!Paths, D!AddLine(p) PROVE DeskInv'
  <2> DEFINE f == [file[p] EXCEPT !.there = TRUE, !.lines = @ \cup {D!Fresh},
                                  !.stock = @ \/ (kind = "sway" /\ ~file[p].there)]
  <2>1. /\ D!Hand(f, p) /\ made' = made \cup {D!Fresh} /\ UNCHANGED <<listed, edited, excused>>
    BY <1>13 DEF D!AddLine
  <2>2. /\ f \in DeskFiles /\ f.there = TRUE /\ f.lines = file[p].lines \cup {D!Fresh} /\ f.block = file[p].block
        /\ f.binds = file[p].binds /\ f.stock = (file[p].stock \/ (kind = "sway" /\ ~file[p].there))
    <3>1. file[p] \in DeskFiles /\ (file[p].stock \/ (kind = "sway" /\ ~file[p].there)) \in BOOLEAN
      BY <1>0 DEF DeskFiles
    <3> QED BY <1>12, <3>1 DEF DeskFiles
  <2>3. /\ f.block = "none" => f.binds = <<>>
        /\ kind = "sway" /\ f.there => f.stock
    BY <1>0, <2>2 DEF Sound
  <2> HIDE DEF f
  <2> QED BY <1>0, <1>11, <1>12, <2>1, <2>2, <2>3
<1>14. ASSUME NEW p \in D!Paths, NEW b \in BindLists, D!EditBlock(p, b) PROVE DeskInv'
  <2> DEFINE f == [file[p] EXCEPT !.binds = b]
  <2>1. /\ D!Hand(f, p) /\ edited' = (edited \ {file[p].binds}) \cup {b} /\ UNCHANGED <<listed, made, excused>>
        /\ file[p].block = "whole"
    BY <1>14 DEF D!EditBlock
  <2>2. /\ f \in DeskFiles /\ f.there = file[p].there /\ f.lines = file[p].lines /\ f.block = "whole"
        /\ f.binds = b /\ f.stock = file[p].stock
    BY <1>0, <2>1 DEF DeskFiles
  <2>3. f.there /\ (kind = "sway" /\ f.there => f.stock)
    BY <1>0, <2>1, <2>2 DEF Sound
  <2>4. edited' \subseteq BindLists
    BY <1>0, <2>1
  <2> HIDE DEF f
  <2> QED BY <1>0, <1>11, <2>1, <2>2, <2>3, <2>4
<1>15. ASSUME NEW p \in D!Paths, D!CutBlock(p) PROVE DeskInv'
  <2> DEFINE f == [file[p] EXCEPT !.block = "cut"]
  <2>1. /\ D!Hand(f, p) /\ UNCHANGED <<listed, made, edited, excused>> /\ file[p].block = "whole"
    BY <1>15 DEF D!CutBlock
  <2>2. /\ f \in DeskFiles /\ f.there = file[p].there /\ f.lines = file[p].lines /\ f.block = "cut"
        /\ f.binds = file[p].binds /\ f.stock = file[p].stock
    BY <1>0, <2>1 DEF DeskFiles
  <2>3. f.there /\ (kind = "sway" /\ f.there => f.stock)
    BY <1>0, <2>1, <2>2 DEF Sound
  <2> HIDE DEF f
  <2> QED BY <1>0, <1>11, <2>1, <2>2, <2>3
<1>16. CASE D!AddShortcut
  <2>1. /\ UNCHANGED <<kind, window, entry, config, file, backups, edited, plan, todo, excused, asked, applying, failed, shown>>
        /\ made' = made \cup {D!Fresh} /\ listed' = Append(listed, D!Fresh)
    BY <1>16 DEF D!AddShortcut, D!windowVars
  <2>2. IsSequence(listed') /\ {listed'[i] : i \in DOMAIN listed'} = {listed[i] : i \in DOMAIN listed} \cup {D!Fresh}
    <3> DEFINE A == {listed[i] : i \in DOMAIN listed}
               B == A \cup {D!Fresh}
    <3>1. listed \in Seq(A)
      BY <1>0 DEF IsSequence
    <3>2. listed \in Seq(B) /\ D!Fresh \in B
      <4> HIDE DEF A
      <4> QED BY <3>1
    <3>3. listed' \in Seq(B)
      <4> HIDE DEF B
      <4> QED BY <2>1, <3>2
    <3>4. IsSequence(listed')
      BY <3>3, SequenceOf
    <3>5. /\ Len(listed) \in Nat /\ DOMAIN listed = 1..Len(listed) /\ DOMAIN listed' = 1..(Len(listed) + 1)
          /\ listed'[Len(listed) + 1] = D!Fresh /\ \A i \in DOMAIN listed : listed'[i] = listed[i]
      <4> HIDE DEF B
      <4> QED BY <2>1, <3>2
    <3> QED BY <3>4, <3>5
  <2>3. D!LinesKept'
    BY <1>0, <2>1, <2>2 DEF D!LinesKept
  <2>4. FilesSound(file)' /\ OneSurface'
    BY <1>0, <2>1 DEF FilesSound, Sound, DeskInv, OneSurface
  <2> QED BY <1>0, <1>12, <2>1, <2>2, <2>3, <2>4, FrameKeeps
<1>17. CASE D!MoveBinds
  <2> DEFINE f == [file["main"] EXCEPT !.binds = <<>>]
             g == [file["binds"] EXCEPT !.there = TRUE, !.block = "whole", !.binds = file["main"].binds]
  <2>1. /\ UNCHANGED <<kind, window, entry, config, backups, listed, made, edited, plan, todo, excused, asked, applying, failed, shown>>
        /\ kind = "hyprland" /\ file["main"].block = "whole" /\ file["binds"].block = "none"
        /\ file' = [file EXCEPT !["main"] = f, !["binds"] = g]
    BY <1>17 DEF D!MoveBinds, D!Holds, D!windowVars
  <2>2. "main" \in D!Paths /\ "binds" \in D!Paths
    BY DEF D!Paths
  <2>3. /\ f \in DeskFiles /\ f.lines = file["main"].lines /\ f.there = file["main"].there /\ f.block = "whole"
        /\ g \in DeskFiles /\ g.lines = file["binds"].lines /\ g.there = TRUE /\ g.block = "whole"
        /\ f.binds = <<>> /\ g.binds = file["main"].binds
    BY <1>0, <2>1, <2>2 DEF DeskFiles
  <2>4. Sound(f) /\ Sound(g)
    BY <1>0, <2>1, <2>2, <2>3 DEF Sound
  <2> HIDE DEF f, g
  <2>5. /\ file' \in [D!Paths -> DeskFiles] /\ file'["main"] = f /\ file'["binds"] = g
        /\ \A p \in D!Paths : p \notin {"main", "binds"} => file'[p] = file[p]
    BY <1>0, <2>1, <2>2, <2>3
  <2>6. FilesSound(file)'
    BY <1>0, <2>1, <2>4, <2>5 DEF FilesSound, Sound
  <2>7. D!LinesKept'
    <3>1. \A p \in D!Paths : file'[p].lines = file[p].lines
      BY <2>3, <2>5
    <3>2. ASSUME NEW x \in edited PROVE x # <<>>
      <4>1. Len(x) \in 1..3 /\ Len(<<>>) = 0
        BY <1>0, BindsAssumption
      <4> QED BY <4>1
    <3>3. file["binds"].binds = <<>>
      BY <1>0, <2>1, <2>2 DEF Sound
    <3>4. ASSUME NEW x \in edited, NEW p \in D!Paths, x = file[p].binds
          PROVE  \E q \in D!Paths : x = file'[q].binds
      <4>1. CASE p = "main"
        BY <2>2, <2>3, <2>5, <3>4, <4>1
      <4>2. CASE p # "main"
        BY <2>2, <2>5, <3>2, <3>3, <3>4, <4>2
      <4> QED BY <4>1, <4>2
    <3>5. ASSUME NEW x \in edited PROVE x \in backups'.binds \cup excused'.binds \cup {file'[q].binds : q \in D!Paths}
      <4>1. x \in backups.binds \/ x \in excused.binds \/ \E p \in D!Paths : x = file[p].binds
        BY <1>0 DEF D!LinesKept
      <4> QED BY <2>1, <3>4, <4>1
    <3>6. (UNION {file'[p].lines : p \in D!Paths}) = UNION {file[p].lines : p \in D!Paths}
      BY <3>1
    <3> QED BY <1>0, <2>1, <3>5, <3>6 DEF D!LinesKept
  <2>8. OneSurface'
    BY <2>1 DEF DeskInv, OneSurface
  <2> QED BY <1>0, <2>1, <2>6, <2>7, <2>8, FrameKeeps
<1>18. CASE UNCHANGED D!vars
  <2>1. UNCHANGED <<kind, window, file, entry, listed, made, edited, backups, excused, todo, plan, config, asked, applying, failed, shown>>
    BY <1>18 DEF D!vars, D!deskVars, D!windowVars
  <2>2. OneSurface'
    BY <2>1 DEF DeskInv, OneSurface
  <2> QED BY <1>0, <1>1, <2>1, <2>2
<1> QED BY <1>3, <1>4, <1>5, <1>6, <1>7, <1>8, <1>9, <1>10, <1>13, <1>14, <1>15, <1>16, <1>17, <1>18 DEF D!Next

(* The files and shortcuts of the desktop hold what the plan said and nothing *)
(* the person wrote is lost; a listed key runs something; a second plan finds *)
(* nothing to do and the binds stay in one file: for any lists of binds and   *)
(* any number of changes by hand (platform/fix/plan.ts, apply.ts, gnome.ts).  *)
THEOREM DesktopStaysWhole == Spec => []DesktopIntact
<1> DEFINE Inv == part = "desktop" => DeskInv
<1>1. Init => Inv
  <2> SUFFICES ASSUME D!Init PROVE DeskInv
    BY DEF Init
  <2>1. PICK b \in BindLists : config = [explicit |-> FALSE, binds |-> b]
    BY BindsAssumption DEF D!Init
  <2>2. Sound(D!Absent)
    BY DEF D!Absent, Sound, DeskFiles
  <2>3. FilesSound([p \in D!Paths |-> D!Absent])
    BY <2>2 DEF FilesSound, Sound
  <2>4. FilesSound(file) /\ PlanSound /\ SafeSteps(plan.todo) /\ SafeSteps(todo)
    BY <2>3, NoSteps DEF D!Init, D!NoPlan, PlanSound
  <2>5. DeskTypeOK /\ EntriesRun
    <3>1. /\ kind \in {"hyprland", "sway", "kde", "gnome"} /\ window \in BOOLEAN
          /\ entry = [i \in D!Ids |-> D!Unset] /\ listed = <<>> /\ made = {} /\ edited = {}
          /\ excused = [lines |-> {}, binds |-> {}]
      BY DEF D!Init
    <3>2. config \in Configs
      BY <2>1 DEF Configs
    <3>3. IsFiniteSet(made) /\ IsSequence(listed)
      BY <3>1, NoSteps, FS_EmptySet
    <3>4. /\ DOMAIN entry = D!Ids /\ EntriesRun
          /\ \A i \in D!Ids : entry[i] = [command |-> entry[i].command, binding |-> entry[i].binding]
      BY <3>1 DEF D!Unset, EntriesRun
    <3> QED BY <3>1, <3>2, <3>3, <3>4 DEF DeskTypeOK
  <2>6. OneSurface /\ D!LinesKept
    BY DEF D!Init, OneSurface, D!LinesKept
  <2> QED BY <2>4, <2>5, <2>6 DEF DeskInv
<1>2. Inv /\ [Next]_vars => Inv'
  <2> SUFFICES ASSUME DeskInv, part = "desktop", [Next]_vars PROVE DeskInv'
    BY DEF Next, vars
  <2>1. [D!Next]_(D!vars)
    BY DEF Next, vars, D!vars, D!deskVars, D!windowVars
  <2> QED BY <2>1, DeskInductive
<1>3. Inv => DesktopIntact
  <2> SUFFICES ASSUME DeskInv PROVE D!DesktopIntact
    BY DEF DesktopIntact
  <2>1. D!KeyRunsSomething
    BY DEF DeskInv, EntriesRun, D!KeyRunsSomething, D!IsOurs
  <2>2. D!StockKept
    BY DEF DeskInv, FilesSound, Sound, D!StockKept, D!Paths
  <2>3. D!OneHome /\ D!Idempotent
    BY PlannedIs DEF DeskInv, DeskTypeOK, D!OneHome, D!Idempotent
  <2> QED BY <2>1, <2>2, <2>3 DEF DeskInv, D!DesktopIntact
<1> QED BY <1>1, <1>2, <1>3, PTL DEF Spec
===============================================================================
