-------------------------- MODULE IngestionRunsProofs --------------------------
(***************************************************************************)
(* Theorems about IngestionRuns, for any processes, shares and runs.  The  *)
(* ids of issues are bounded in the model, so that they are not used up is *)
(* part of the invariant: there is no issue without a commit that failed.  *)
(***************************************************************************)
EXTENDS IngestionRuns, FiniteSetTheorems, WellFoundedInduction, TLAPS

-----------------------------------------------------------------------------
(* The share whose turn it is, and the commits that failed.                 *)

\* A set of naturals that is not empty has a least element.
LEMMA LeastNatural ==
  ASSUME NEW S \in SUBSET Nat, S # {}
  PROVE  \E m \in S : \A n \in S : m <= n
<1>1. IsWellFoundedOn(OpToRel(<, Nat), Nat)  BY NatLessThanWellFounded
<1>2. PICK m \in S : \A n \in S : ~ (<<n, m>> \in OpToRel(<, Nat))
  BY <1>1, WFMin
<1>3. \A n \in S : ~ (n < m)  BY <1>2 DEF OpToRel
<1> QED  BY <1>3

\* The shares are processed in order: one that is left comes next.
LEMMA ShareIsLeft ==
  ASSUME NEW w, todo[w] \in SUBSET Shares, todo[w] # {}
  PROVE  Share(w) \in todo[w] /\ Share(w) \in Shares
<1>1. todo[w] \subseteq Nat  BY ConstantsAssumption DEF Shares
<1>2. \E s \in todo[w] : \A t \in todo[w] : s <= t  BY <1>1, LeastNatural
<1> QED  BY <1>2 DEF Share

Final == {"succeeded", "partial"}

Busy(w) == pc[w] # "idle"

\* The commits of the model, and those that recorded a failure.
Commits == RunIds \X Shares
Failures == {k \in Commits : done[k[1]][k[2]] = "failed"}

LEMMA CommitsAreFinite ==
  /\ IsFiniteSet(Commits)
  /\ Cardinality(Commits) = MaxRuns * NumShares
  /\ MaxRuns * NumShares \in Nat
<1>1. /\ IsFiniteSet(RunIds) /\ Cardinality(RunIds) = MaxRuns
      /\ IsFiniteSet(Shares) /\ Cardinality(Shares) = NumShares
  BY FS_Interval, ConstantsAssumption DEF RunIds, Shares
<1>2. IsFiniteSet(Commits) /\ Cardinality(Commits) = MaxRuns * NumShares
  BY <1>1, FS_Product DEF Commits
<1>3. MaxRuns * NumShares \in Nat  BY <1>2, FS_CardinalityType
<1> QED  BY <1>2, <1>3

\* A share that is still to be committed leaves a failure to come.
LEMMA FailuresAreFew ==
  ASSUME NEW k \in Commits, k \notin Failures
  PROVE  /\ IsFiniteSet(Failures) /\ Cardinality(Failures) \in Nat
         /\ Cardinality(Failures) + 1 <= MaxRuns * NumShares
         /\ Cardinality(Failures \cup {k}) = Cardinality(Failures) + 1
<1>1. Failures \subseteq Commits /\ Failures \cup {k} \subseteq Commits  BY DEF Failures
<1>2. IsFiniteSet(Failures)  BY <1>1, CommitsAreFinite, FS_Subset
<1>3. Cardinality(Failures \cup {k}) = Cardinality(Failures) + 1  BY <1>2, FS_AddElement
<1>4. Cardinality(Failures \cup {k}) <= MaxRuns * NumShares
  BY <1>1, CommitsAreFinite, FS_Subset
<1>5. Cardinality(Failures) \in Nat  BY <1>2, FS_CardinalityType
<1> QED  BY <1>2, <1>3, <1>4, <1>5

-----------------------------------------------------------------------------
(* The inductive invariant.                                                 *)

\* A run that is under way is no one else's, not finished, and knows what it did:
\* which shares it has committed, and which of these failed.
RunsInOrder ==
    /\ \A w \in Writers : Busy(w) =>
          /\ run[w] \in 1..lastRun
          /\ runStatus[run[w]] \notin Final
          /\ failed[w] \cap todo[w] = {}
          /\ \A s \in Shares :
                done[run[w]][s] = IF s \in todo[w] THEN "none"
                                  ELSE IF s \in failed[w] THEN "failed" ELSE "ok"
    /\ \A w \in Writers : ~Busy(w) => failed[w] = {}
    /\ \A w \in Writers : pc[w] \in {"store", "report"} => todo[w] # {}
    /\ \A v, w \in Writers : Busy(v) /\ Busy(w) /\ v # w => run[v] # run[w]
    /\ \A r \in RunIds : r > lastRun =>
          runStatus[r] \notin Final /\ \A s \in Shares : done[r][s] = "none"

\* No issue without a commit that failed.
IssuesAreCounted == issues <= Cardinality(Failures)

\* As long as no two runs overlap: one process at most is at work, what it has
\* loaded of its share's issues is what is open, and the issues are honest.
AloneIsHonest ==
    ~overlapped =>
        /\ \A v, w \in Writers : Busy(v) /\ Busy(w) => v = w
        /\ \A w \in Writers :
              pc[w] \in {"store", "report"} => sawOpen[w] = OpenIssues(Share(w))
        /\ \A s \in Shares :
              /\ OpenIssues(s) # {} <=> lastOutcome[s] = "failed"
              /\ \A i, j \in OpenIssues(s) : i = j

RunsInv == TypeOK /\ RunsInOrder /\ IssuesAreCounted /\ AloneIsHonest /\ StatusIsHonest


\* No run, no issue, no outcome.
LEMMA InitRuns == Init => RunsInv
<1> SUFFICES ASSUME Init  PROVE RunsInv
  OBVIOUS
<1>0. MaxRuns * NumShares \in Nat  BY CommitsAreFinite
<1>1. TypeOK
  <2>1. issues \in 0..(MaxRuns * NumShares) /\ lastRun \in 0..MaxRuns
    BY <1>0, ConstantsAssumption DEF Init
  <2>2. done \in [RunIds -> [Shares -> Outcomes \cup {"none"}]]  BY DEF Init
  <2> QED  BY <2>1, <2>2 DEF Init, TypeOK, NoRun
<1>2. RunsInOrder
  <2>1. \A w \in Writers : pc[w] = "idle"  BY DEF Init
  <2>2. \A w \in Writers : failed[w] = {}  BY DEF Init
  <2>3. \A r \in RunIds : runStatus[r] = "absent" /\ \A s \in Shares : done[r][s] = "none"
    BY DEF Init
  <2> QED  BY <2>1, <2>2, <2>3 DEF RunsInOrder, Busy, Final
<1>3. IssuesAreCounted
  <2>1. Failures \subseteq Commits  BY DEF Failures
  <2>2. Cardinality(Failures) \in Nat
    BY <2>1, CommitsAreFinite, FS_Subset, FS_CardinalityType
  <2> QED  BY <2>2 DEF Init, IssuesAreCounted
<1>4. AloneIsHonest  BY DEF Init, AloneIsHonest, Busy, OpenIssues
<1>5. StatusIsHonest  BY DEF Init, StatusIsHonest
<1> QED  BY <1>1, <1>2, <1>3, <1>4, <1>5 DEF RunsInv

\* Issues and their counting, where no commit recorded anything.
LEMMA CountKept ==
  ASSUME RunsInv, done' = done, issues' = issues
  PROVE  IssuesAreCounted'
<1>1. Failures' = Failures  BY DEF Failures, Commits
<1> QED  BY <1>1 DEF RunsInv, IssuesAreCounted

\* A process leaves the pipeline.  It may have closed its run with status st.
LEMMA LeaveRuns ==
  ASSUME RunsInv, NEW w \in Writers, Busy(w), Leave(w),
         NEW st \in {"running", "absent", "succeeded", "partial"},
         runStatus' = [runStatus EXCEPT ![run[w]] = st],
         st = "succeeded" => \A s \in Shares : done[run[w]][s] = "ok",
         st = "partial" => /\ \A s \in Shares : done[run[w]][s] # "none"
                           /\ \E s \in Shares : done[run[w]][s] = "failed",
         UNCHANGED <<pipeline, stored, issues, issueOf, open, lastRun, overlapped, histVars>>,
         died' \in SUBSET RunIds
  PROVE  RunsInv'
<1> USE DEF RunsInv
<1>1. /\ pc' = [pc EXCEPT ![w] = "idle"] /\ run' = [run EXCEPT ![w] = NoRun]
      /\ todo' = [todo EXCEPT ![w] = {}] /\ failed' = [failed EXCEPT ![w] = {}]
      /\ sawOpen' = [sawOpen EXCEPT ![w] = {}] /\ sawRow' = [sawRow EXCEPT ![w] = FALSE]
      /\ UNCHANGED <<pipeline, stored, issues, issueOf, open, lastRun, overlapped,
                     lastOutcome, done>>
  BY DEF Leave, histVars
<1>2. TypeOK'  BY <1>1 DEF TypeOK
<1>3. run[w] \in RunIds /\ run[w] <= lastRun
  BY ConstantsAssumption DEF RunsInOrder, TypeOK, RunIds
<1>4. /\ \A v \in Writers : Busy(v)' => Busy(v) /\ v # w
      /\ \A v \in Writers \ {w} :
            /\ pc'[v] = pc[v] /\ run'[v] = run[v] /\ todo'[v] = todo[v]
            /\ failed'[v] = failed[v] /\ sawOpen'[v] = sawOpen[v]
      /\ pc'[w] = "idle"
  BY <1>1 DEF Busy, TypeOK
<1>5. \A v \in Writers \ {w} : Busy(v) => run[v] # run[w]  BY DEF RunsInOrder
<1>6. \A r \in RunIds : runStatus'[r] = IF r = run[w] THEN st ELSE runStatus[r]
  BY <1>3 DEF TypeOK
<1>7. RunsInOrder'
  <2>1. \A v \in Writers : Busy(v)' =>
          /\ run'[v] \in 1..lastRun' /\ runStatus'[run'[v]] \notin Final
          /\ failed'[v] \cap todo'[v] = {}
          /\ \A s \in Shares :
                done'[run'[v]][s] = IF s \in todo'[v] THEN "none"
                                    ELSE IF s \in failed'[v] THEN "failed" ELSE "ok"
    <3> SUFFICES ASSUME NEW v \in Writers, v # w, Busy(v)
                 PROVE  /\ run[v] \in 1..lastRun /\ runStatus'[run[v]] \notin Final
                        /\ failed[v] \cap todo[v] = {}
                        /\ \A s \in Shares :
                             done[run[v]][s] = IF s \in todo[v] THEN "none"
                                               ELSE IF s \in failed[v] THEN "failed" ELSE "ok"
      BY <1>1, <1>4
    <3>1. run[v] \in RunIds  BY ConstantsAssumption DEF RunsInOrder, TypeOK, RunIds
    <3> QED  BY <3>1, <1>5, <1>6 DEF RunsInOrder
  <2>2. /\ \A v \in Writers : ~Busy(v)' => failed'[v] = {}
        /\ \A v \in Writers : pc'[v] \in {"store", "report"} => todo'[v] # {}
    BY <1>1, <1>4 DEF RunsInOrder, Busy, TypeOK
  <2>3. \A u, v \in Writers : Busy(u)' /\ Busy(v)' /\ u # v => run'[u] # run'[v]
    BY <1>4 DEF RunsInOrder
  <2>4. \A r \in RunIds : r > lastRun' =>
          runStatus'[r] \notin Final /\ \A s \in Shares : done'[r][s] = "none"
    BY <1>1, <1>3, <1>6, ConstantsAssumption DEF RunsInOrder, TypeOK, RunIds
  <2> QED  BY <2>1, <2>2, <2>3, <2>4 DEF RunsInOrder
<1>8. AloneIsHonest'
  <2> SUFFICES ASSUME ~overlapped
               PROVE  /\ \A u, v \in Writers : Busy(u)' /\ Busy(v)' => u = v
                      /\ \A v \in Writers :
                           pc'[v] \in {"store", "report"} => sawOpen'[v] = OpenIssues(Share(v))'
                      /\ \A s \in Shares :
                           /\ OpenIssues(s)' # {} <=> lastOutcome'[s] = "failed"
                           /\ \A i, j \in OpenIssues(s)' : i = j
    BY <1>1 DEF AloneIsHonest
  <2>1. \A v \in Writers : ~ Busy(v)'  BY <1>4 DEF AloneIsHonest
  <2>2. \A s \in Shares : OpenIssues(s)' = OpenIssues(s)  BY <1>1 DEF OpenIssues
  <2> QED  BY <1>1, <2>1, <2>2 DEF AloneIsHonest, Busy
<1>9. StatusIsHonest'  BY <1>1, <1>6 DEF StatusIsHonest
<1> QED  BY <1>1, <1>2, <1>7, <1>8, <1>9, CountKept


\* start_run: a new run, of which nothing is said yet.
LEMMA StartRuns ==
  ASSUME RunsInv, NEW w \in Writers, StartRun(w)
  PROVE  RunsInv'
<1> USE DEF RunsInv
<1> DEFINE n == lastRun + 1
           st == IF RollsBack THEN "running" ELSE runStatus[n]
<1>1. /\ pc' = [pc EXCEPT ![w] = "fetch"] /\ run' = [run EXCEPT ![w] = n]
      /\ todo' = [todo EXCEPT ![w] = Shares] /\ lastRun' = n /\ pc[w] = "idle"
      /\ runStatus' = [runStatus EXCEPT ![n] = st]
      /\ overlapped' = (overlapped \/ \E v \in Writers : pc[v] # "idle")
      /\ UNCHANGED <<stored, issues, issueOf, open, failed, sawOpen, sawRow, died, pipeline,
                     lastOutcome, done>>
  BY DEF StartRun, histVars
<1>2. n \in RunIds /\ lastRun \in Nat /\ n > lastRun
  BY ConstantsAssumption DEF StartRun, TypeOK, RunIds
<1>3. /\ st \in {"running", "absent"}
      /\ \A s \in Shares : done[n][s] = "none"
  BY <1>2 DEF RunsInOrder, TypeOK, Final
<1> HIDE DEF st
<1>4. TypeOK'
  <2>1. runStatus' \in [RunIds -> {"absent", "running", "succeeded", "partial"}]
    BY <1>1, <1>3 DEF TypeOK
  <2>2. n \in 0..MaxRuns  BY <1>2, ConstantsAssumption DEF RunIds
  <2>3. overlapped' \in BOOLEAN  BY <1>1 DEF TypeOK
  <2> QED  BY <1>1, <1>2, <2>1, <2>2, <2>3 DEF TypeOK
<1>5. /\ \A v \in Writers \ {w} :
            /\ pc'[v] = pc[v] /\ run'[v] = run[v] /\ todo'[v] = todo[v]
      /\ pc'[w] = "fetch" /\ run'[w] = n /\ todo'[w] = Shares
  BY <1>1 DEF TypeOK
<1>6. \A r \in RunIds : runStatus'[r] = IF r = n THEN st ELSE runStatus[r]
  BY <1>1, <1>2 DEF TypeOK
<1>7. \A v \in Writers \ {w} : Busy(v)' => Busy(v) /\ run[v] \in RunIds /\ run[v] < n
  BY <1>2, <1>5, ConstantsAssumption DEF Busy, RunsInOrder, RunIds
<1>8. failed[w] = {}  BY <1>1 DEF RunsInOrder, Busy
<1>9. RunsInOrder'
  <2>1. ASSUME NEW v \in Writers, Busy(v)'
        PROVE  /\ run'[v] \in 1..n /\ runStatus'[run'[v]] \notin Final
               /\ failed'[v] \cap todo'[v] = {}
               /\ \A s \in Shares :
                     done'[run'[v]][s] = IF s \in todo'[v] THEN "none"
                                         ELSE IF s \in failed'[v] THEN "failed" ELSE "ok"
    <3>1. CASE v = w  BY <3>1, <1>1, <1>2, <1>3, <1>5, <1>6, <1>8 DEF Final, RunIds
    <3>2. CASE v # w
      <4>1. run[v] \in RunIds /\ run[v] < n /\ Busy(v)  BY <2>1, <3>2, <1>7
      <4>2. run[v] \in 1..n /\ runStatus'[run[v]] = runStatus[run[v]]
        BY <4>1, <1>2, <1>6 DEF RunIds
      <4> QED  BY <4>1, <4>2, <3>2, <1>1, <1>5 DEF RunsInOrder
    <3> QED  BY <3>1, <3>2
  <2>2. /\ \A v \in Writers : ~Busy(v)' => failed'[v] = {}
        /\ \A v \in Writers : pc'[v] \in {"store", "report"} => todo'[v] # {}
    BY <1>1, <1>5 DEF RunsInOrder, Busy
  <2>3. ASSUME NEW u \in Writers, NEW v \in Writers, Busy(u)', Busy(v)', u # v
        PROVE  run'[u] # run'[v]
    BY <2>3, <1>2, <1>5, <1>7 DEF RunsInOrder, RunIds
  <2>4. ASSUME NEW r \in RunIds, r > n
        PROVE  runStatus'[r] \notin Final /\ \A s \in Shares : done'[r][s] = "none"
    BY <2>4, <1>1, <1>2, <1>6 DEF RunsInOrder, RunIds
  <2> QED  BY <2>1, <2>2, <2>3, <2>4, <1>1 DEF RunsInOrder
<1>10. AloneIsHonest'
  <2> SUFFICES ASSUME ~overlapped'  PROVE AloneIsHonest'
    BY DEF AloneIsHonest
  <2>1. ~overlapped /\ \A v \in Writers : pc[v] = "idle"  BY <1>1
  <2>2. \A v \in Writers : v # w => ~Busy(v)'  BY <2>1, <1>5 DEF Busy
  <2>3. \A v \in Writers : pc'[v] \notin {"store", "report"}  BY <2>1, <1>5
  <2>4. \A s \in Shares : OpenIssues(s)' = OpenIssues(s)  BY <1>1 DEF OpenIssues
  <2> QED  BY <1>1, <2>1, <2>2, <2>3, <2>4 DEF AloneIsHonest
<1>11. StatusIsHonest'  BY <1>1, <1>3, <1>6 DEF StatusIsHonest, RunIds
<1> QED  BY <1>1, <1>4, <1>9, <1>10, <1>11, CountKept

\* What a transaction loads changes nothing that is stored.
LEMMA LoadRuns ==
  ASSUME RunsInv, NEW w \in Writers,
         (\E outcome \in Outcomes : Fetch(w, outcome)) \/ (StoreRefused(w) /\ RollsBack)
  PROVE  RunsInv'
<1> USE DEF RunsInv
<1>1. PICK place \in {"store", "report"} : pc' = [pc EXCEPT ![w] = place]
  BY DEF Fetch, StoreRefused
<1>2. /\ Busy(w) /\ todo[w] # {}
      /\ sawOpen' = [sawOpen EXCEPT ![w] = OpenIssues(Share(w))]
      /\ sawRow' \in [Writers -> BOOLEAN]
      /\ UNCHANGED <<stored, runStatus, issues, issueOf, open, lastRun, run, todo, failed,
                     pipeline, died, overlapped, lastOutcome, done>>
  <2>1. CASE \E outcome \in Outcomes : Fetch(w, outcome)
    <3>1. PICK outcome \in Outcomes : Fetch(w, outcome)  BY <2>1
    <3> DEFINE isThere == Share(w) \in stored
    <3>2. isThere \in BOOLEAN /\ (sawRow' = [sawRow EXCEPT ![w] = isThere] \/ sawRow' = sawRow)
      BY <3>1 DEF Fetch
    <3> HIDE DEF isThere
    <3>3. sawRow' \in [Writers -> BOOLEAN]  BY <3>2 DEF TypeOK
    <3> QED  BY <3>1, <3>3 DEF Fetch, Busy, dbVars, envVars, histVars
  <2>2. CASE StoreRefused(w) /\ RollsBack
    <3>1. todo[w] # {}  BY <2>2 DEF StoreRefused, RunsInOrder
    <3>2. sawRow' \in [Writers -> BOOLEAN]  BY <2>2 DEF StoreRefused, TypeOK
    <3> QED  BY <2>2, <3>1, <3>2 DEF StoreRefused, Busy, dbVars, envVars, histVars
  <2> QED  BY <2>1, <2>2
<1>3. \A v \in Writers : /\ pc'[v] = IF v = w THEN place ELSE pc[v]
                         /\ sawOpen'[v] = IF v = w THEN OpenIssues(Share(w)) ELSE sawOpen[v]
  BY <1>1, <1>2 DEF TypeOK
<1>4. \A v \in Writers : Busy(v)' = Busy(v)  BY <1>2, <1>3 DEF Busy
<1>5. \A s \in Shares : OpenIssues(s) \in SUBSET IssueIds
  <2>1. open \subseteq 1..issues /\ issues \in 0..(MaxRuns * NumShares)  BY DEF TypeOK
  <2>2. 1..issues \subseteq IssueIds  BY <2>1, CommitsAreFinite DEF IssueIds
  <2> QED  BY <2>1, <2>2 DEF OpenIssues
<1>6. TypeOK'
  <2>1. todo[w] \in SUBSET Shares  BY DEF TypeOK
  <2>2. OpenIssues(Share(w)) \in SUBSET IssueIds  BY <1>2, <1>5, <2>1, ShareIsLeft
  <2> QED  BY <1>1, <1>2, <2>2 DEF TypeOK
<1>7. RunsInOrder'
  <2>1. \A v \in Writers : pc'[v] \in {"store", "report"} => todo'[v] # {}
    BY <1>2, <1>3 DEF RunsInOrder
  <2> QED  BY <1>2, <1>4, <2>1 DEF RunsInOrder
<1>8. AloneIsHonest'
  <2>1. \A v \in Writers : Share(v)' = Share(v)  BY <1>2 DEF Share
  <2>2. \A s : OpenIssues(s)' = OpenIssues(s)  BY <1>2 DEF OpenIssues
  <2> QED  BY <1>2, <1>3, <1>4, <2>1, <2>2 DEF AloneIsHonest
<1>9. StatusIsHonest'  BY <1>2 DEF StatusIsHonest
<1> QED  BY <1>2, <1>6, <1>7, <1>8, <1>9, CountKept

\* What the commit for one share changes, in its process and in the table of runs.
Committed(w, outcome) ==
    /\ Busy(w) /\ run[w] \in RunIds /\ Share(w) \in todo[w] /\ Share(w) \in Shares
    /\ <<run[w], Share(w)>> \in Commits \ Failures
    /\ run' = run
    /\ \A v \in Writers \ {w} : /\ pc'[v] = pc[v] /\ todo'[v] = todo[v]
                                /\ failed'[v] = failed[v] /\ sawOpen'[v] = sawOpen[v]
    /\ pc'[w] = "fetch" /\ todo'[w] = todo[w] \ {Share(w)}
    /\ failed'[w] = IF outcome = "ok" THEN failed[w] ELSE failed[w] \cup {Share(w)}
    /\ \A r \in RunIds : runStatus'[r] = IF r = run[w] THEN "running" ELSE runStatus[r]
    /\ done'[run[w]][Share(w)] = outcome
    /\ \A r \in RunIds, s \in Shares :
          r # run[w] \/ s # Share(w) => done'[r][s] = done[r][s]
    /\ \A s \in Shares : lastOutcome'[s] = IF s = Share(w) THEN outcome ELSE lastOutcome[s]
    /\ \A v \in Writers : Busy(v)' = Busy(v)

LEMMA CommitFacts ==
  ASSUME RunsInv, NEW w \in Writers, pc[w] \in {"store", "report"},
         NEW outcome \in Outcomes, CommitShare(w, outcome)
  PROVE  Committed(w, outcome)
<1> USE DEF RunsInv
<1>1. Busy(w) /\ todo[w] # {}  BY DEF Busy, RunsInOrder
<1>2. run[w] \in RunIds  BY <1>1, ConstantsAssumption DEF RunsInOrder, TypeOK, RunIds
<1>3. Share(w) \in todo[w] /\ Share(w) \in Shares
  <2>1. todo[w] \in SUBSET Shares  BY DEF TypeOK
  <2> QED  BY <1>1, <2>1, ShareIsLeft
<1>4. done[run[w]][Share(w)] = "none"  BY <1>1, <1>3 DEF RunsInOrder
<1>5. <<run[w], Share(w)>> \in Commits \ Failures
  BY <1>2, <1>3, <1>4 DEF Commits, Failures
<1>6. /\ run' = run
      /\ \A v \in Writers \ {w} : /\ pc'[v] = pc[v] /\ todo'[v] = todo[v]
                                  /\ failed'[v] = failed[v] /\ sawOpen'[v] = sawOpen[v]
      /\ pc'[w] = "fetch" /\ todo'[w] = todo[w] \ {Share(w)}
      /\ failed'[w] = IF outcome = "ok" THEN failed[w] ELSE failed[w] \cup {Share(w)}
  BY DEF CommitShare, TypeOK
<1>7. \A r \in RunIds : runStatus'[r] = IF r = run[w] THEN "running" ELSE runStatus[r]
  BY <1>2 DEF CommitShare, TypeOK
<1>8. /\ done'[run[w]][Share(w)] = outcome
      /\ \A r \in RunIds, s \in Shares :
            r # run[w] \/ s # Share(w) => done'[r][s] = done[r][s]
  BY <1>2, <1>3 DEF CommitShare, TypeOK
<1>9. \A s \in Shares : lastOutcome'[s] = IF s = Share(w) THEN outcome ELSE lastOutcome[s]
  BY <1>3 DEF CommitShare, TypeOK
<1>10. \A v \in Writers : Busy(v)' = Busy(v)  BY <1>1, <1>6 DEF Busy
<1> QED  BY <1>1, <1>2, <1>3, <1>5, <1>6, <1>7, <1>8, <1>9, <1>10 DEF Committed

\* The process and its run are in order again after it.
LEMMA CommitInOrder ==
  ASSUME RunsInv, NEW w \in Writers, pc[w] \in {"store", "report"},
         NEW outcome \in Outcomes, CommitShare(w, outcome), lastRun' = lastRun
  PROVE  RunsInOrder' /\ StatusIsHonest'
<1>0. Committed(w, outcome)  BY CommitFacts
<1>1. /\ Busy(w) /\ run[w] \in RunIds /\ Share(w) \in todo[w] /\ Share(w) \in Shares
      /\ run' = run
      /\ \A v \in Writers \ {w} : /\ pc'[v] = pc[v] /\ todo'[v] = todo[v]
                                  /\ failed'[v] = failed[v]
      /\ pc'[w] = "fetch" /\ todo'[w] = todo[w] \ {Share(w)}
      /\ failed'[w] = IF outcome = "ok" THEN failed[w] ELSE failed[w] \cup {Share(w)}
      /\ \A r \in RunIds : runStatus'[r] = IF r = run[w] THEN "running" ELSE runStatus[r]
      /\ done'[run[w]][Share(w)] = outcome
      /\ \A r \in RunIds, s \in Shares :
            r # run[w] \/ s # Share(w) => done'[r][s] = done[r][s]
      /\ \A v \in Writers : Busy(v)' = Busy(v)
  BY <1>0 DEF Committed
<1> USE DEF RunsInv
<1>2. ASSUME NEW v \in Writers, Busy(v)
      PROVE  /\ run'[v] \in 1..lastRun' /\ runStatus'[run'[v]] \notin Final
             /\ failed'[v] \cap todo'[v] = {}
             /\ \A s \in Shares :
                   done'[run'[v]][s] = IF s \in todo'[v] THEN "none"
                                       ELSE IF s \in failed'[v] THEN "failed" ELSE "ok"
  <2>1. run[v] \in 1..lastRun /\ run[v] \in RunIds
    BY <1>2, ConstantsAssumption DEF RunsInOrder, TypeOK, RunIds
  <2>2. runStatus'[run[v]] \notin Final
    BY <1>1, <1>2, <2>1 DEF RunsInOrder, Final
  <2>3. CASE v = w
    <3>1. failed[w] \cap todo[w] = {} /\
          \A s \in Shares : done[run[w]][s] = IF s \in todo[w] THEN "none"
                                              ELSE IF s \in failed[w] THEN "failed" ELSE "ok"
      BY <1>1 DEF RunsInOrder
    <3>2. failed'[w] \cap todo'[w] = {}  BY <1>1, <3>1
    <3>3. Share(w) \notin failed[w] /\ (outcome = "ok" \/ outcome = "failed")
      BY <1>1, <3>1 DEF Outcomes
    <3>4. \A s \in Shares : done'[run[w]][s] = IF s \in todo'[w] THEN "none"
                                               ELSE IF s \in failed'[w] THEN "failed" ELSE "ok"
      BY <1>1, <3>1, <3>3
    <3> QED  BY <1>1, <2>1, <2>2, <2>3, <3>2, <3>4
  <2>4. CASE v # w
    <3>1. run[v] # run[w]  BY <1>1, <1>2, <2>4 DEF RunsInOrder
    <3>2. \A s \in Shares : done'[run[v]][s] = done[run[v]][s]  BY <1>1, <2>1, <3>1
    <3> QED  BY <1>1, <1>2, <2>1, <2>2, <2>4, <3>2 DEF RunsInOrder
  <2> QED  BY <2>3, <2>4
<1>3. /\ \A v \in Writers : ~Busy(v)' => failed'[v] = {}
      /\ \A v \in Writers : pc'[v] \in {"store", "report"} => todo'[v] # {}
      /\ \A u, v \in Writers : Busy(u)' /\ Busy(v)' /\ u # v => run'[u] # run'[v]
  BY <1>1 DEF RunsInOrder
<1>4. ASSUME NEW r \in RunIds, r > lastRun'
      PROVE  runStatus'[r] \notin Final /\ \A s \in Shares : done'[r][s] = "none"
  <2>1. r # run[w]  BY <1>1, <1>4, ConstantsAssumption DEF RunsInOrder, TypeOK, RunIds
  <2> QED  BY <1>1, <1>4, <2>1 DEF RunsInOrder
<1>5. RunsInOrder'  BY <1>1, <1>2, <1>3, <1>4 DEF RunsInOrder
<1>6. StatusIsHonest'
  <2>1. runStatus'[run[w]] = "running"  BY <1>1
  <2>2. \A r \in RunIds \ {run[w]} : /\ runStatus'[r] = runStatus[r]
                                     /\ \A s \in Shares : done'[r][s] = done[r][s]
    BY <1>1
  <2> QED  BY <2>1, <2>2 DEF StatusIsHonest
<1> QED  BY <1>5, <1>6

\* The types, given those of the issues.
LEMMA CommitTypes ==
  ASSUME RunsInv, NEW w \in Writers, pc[w] \in {"store", "report"},
         NEW outcome \in Outcomes, CommitShare(w, outcome),
         UNCHANGED <<pipeline, lastRun, died, overlapped>>,
         stored' \in SUBSET Shares,
         issues' \in 0..(MaxRuns * NumShares),
         issueOf' \in [IssueIds -> Shares \cup {0}],
         open' \in SUBSET (1..issues')
  PROVE  TypeOK'
<1>1. run[w] \in RunIds /\ Share(w) \in Shares  BY CommitFacts DEF Committed
<1>2. done' \in [RunIds -> [Shares -> Outcomes \cup {"none"}]]
  <2>1. [done[run[w]] EXCEPT ![Share(w)] = outcome] \in [Shares -> Outcomes \cup {"none"}]
    BY <1>1 DEF RunsInv, TypeOK
  <2>2. done' = [done EXCEPT ![run[w]] = [done[run[w]] EXCEPT ![Share(w)] = outcome]]
    BY DEF CommitShare, RunsInv, TypeOK
  <2> QED  BY <2>1, <2>2 DEF RunsInv, TypeOK
<1>3. /\ runStatus' \in [RunIds -> {"absent", "running", "succeeded", "partial"}]
      /\ lastOutcome' \in [Shares -> Outcomes \cup {"none"}]
  BY DEF CommitShare, RunsInv, TypeOK
<1>4. /\ todo' \in [Writers -> SUBSET Shares] /\ failed' \in [Writers -> SUBSET Shares]
      /\ sawOpen' \in [Writers -> SUBSET IssueIds] /\ sawRow' \in [Writers -> BOOLEAN]
      /\ run' = run /\ pc' \in [Writers -> {"idle", "fetch", "store", "report"}]
  BY <1>1 DEF CommitShare, RunsInv, TypeOK
<1> QED  BY <1>2, <1>3, <1>4 DEF RunsInv, TypeOK

\* Store: the share is stored and the issues that were open are closed.
LEMMA StoreRuns ==
  ASSUME RunsInv, NEW w \in Writers, Store(w)
  PROVE  RunsInv'
<1>1. /\ pc[w] = "store" /\ CommitShare(w, "ok") /\ "ok" \in Outcomes
      /\ stored' = stored \cup {Share(w)} /\ open' = open \ sawOpen[w]
      /\ UNCHANGED <<issues, issueOf, lastRun, pipeline, died, overlapped>>
  BY DEF Store, ResolveIssues, envVars, Outcomes
<1>2. Committed(w, "ok")  BY <1>1, CommitFacts
<1>3. TypeOK'
  <2>1. Share(w) \in Shares  BY <1>2 DEF Committed
  <2>2. stored' \in SUBSET Shares /\ open' \in SUBSET (1..issues')
    BY <1>1, <2>1 DEF RunsInv, TypeOK
  <2>3. issues' \in 0..(MaxRuns * NumShares) /\ issueOf' \in [IssueIds -> Shares \cup {0}]
    BY <1>1 DEF RunsInv, TypeOK
  <2> QED  BY <1>1, <2>2, <2>3, CommitTypes
<1>4. RunsInOrder' /\ StatusIsHonest'  BY <1>1, CommitInOrder
<1>5. IssuesAreCounted'
  <2>1. \A k \in Commits : done'[k[1]][k[2]] = "failed" <=> done[k[1]][k[2]] = "failed"
    <3> SUFFICES ASSUME NEW r \in RunIds, NEW s \in Shares
                 PROVE  done'[r][s] = "failed" <=> done[r][s] = "failed"
      BY DEF Commits
    <3>1. CASE r = run[w] /\ s = Share(w)
      <4>1. done[run[w]][Share(w)] # "failed"
        BY <1>2 DEF Committed, Failures
      <4> QED  BY <1>2, <3>1, <4>1 DEF Committed
    <3>2. CASE r # run[w] \/ s # Share(w)  BY <1>2, <3>2 DEF Committed
    <3> QED  BY <3>1, <3>2
  <2>2. Failures' = Failures  BY <2>1 DEF Failures, Commits
  <2> QED  BY <1>1, <2>2 DEF RunsInv, IssuesAreCounted
<1>6. AloneIsHonest'
  <2> SUFFICES ASSUME ~overlapped  PROVE AloneIsHonest'
    BY <1>1 DEF AloneIsHonest
  <2>1. /\ sawOpen[w] = OpenIssues(Share(w))
        /\ \A v \in Writers : Busy(v) => v = w
        /\ \A s \in Shares : /\ OpenIssues(s) # {} <=> lastOutcome[s] = "failed"
                             /\ \A i, j \in OpenIssues(s) : i = j
    BY <1>1, <1>2 DEF RunsInv, AloneIsHonest, Committed
  <2>2. /\ \A u, v \in Writers : Busy(u)' /\ Busy(v)' => u = v
        /\ \A v \in Writers : pc'[v] \notin {"store", "report"}
    BY <1>2, <2>1 DEF Committed, Busy
  <2>3. \A s \in Shares : OpenIssues(s)' = IF s = Share(w) THEN {} ELSE OpenIssues(s)
    BY <1>1, <2>1 DEF OpenIssues
  <2>4. \A s \in Shares : lastOutcome'[s] = IF s = Share(w) THEN "ok" ELSE lastOutcome[s]
    BY <1>2 DEF Committed
  <2> QED  BY <2>1, <2>2, <2>3, <2>4 DEF AloneIsHonest
<1> QED  BY <1>3, <1>4, <1>5, <1>6 DEF RunsInv

\* Report: the share has failed, and has an open issue if it had none.
LEMMA ReportRuns ==
  ASSUME RunsInv, NEW w \in Writers, Report(w)
  PROVE  RunsInv'
<1> DEFINE k == <<run[w], Share(w)>>
<1>1. /\ pc[w] = "report" /\ CommitShare(w, "failed") /\ "failed" \in Outcomes
      /\ RecordIssue(w)
      /\ UNCHANGED <<stored, lastRun, pipeline, died, overlapped>>
  BY DEF Report, envVars, Outcomes
<1>2. Committed(w, "failed")  BY <1>1, CommitFacts
<1>3. /\ Share(w) \in Shares /\ k \in Commits /\ k \notin Failures
  BY <1>2 DEF Committed
<1>4. Failures' = Failures \cup {k}
  <2>1. \A r \in RunIds, s \in Shares :
          done'[r][s] = "failed" <=> done[r][s] = "failed" \/ (r = run[w] /\ s = Share(w))
    BY <1>2 DEF Committed
  <2> QED  BY <1>2, <2>1 DEF Failures, Commits, Committed
<1>5. /\ Cardinality(Failures) \in Nat /\ Cardinality(Failures) + 1 <= MaxRuns * NumShares
      /\ Cardinality(Failures') = Cardinality(Failures) + 1
  BY <1>3, <1>4, FailuresAreFew
<1>6. /\ issues \in Nat /\ MaxRuns * NumShares \in Nat /\ issues <= Cardinality(Failures)
      /\ open \subseteq 1..issues
  BY CommitsAreFinite DEF RunsInv, TypeOK, IssuesAreCounted
<1>7. issues + 1 \in 1..(MaxRuns * NumShares)  BY <1>5, <1>6
<1>8. /\ issues' \in 0..(MaxRuns * NumShares) /\ issues' \in {issues, issues + 1}
      /\ issueOf' \in [IssueIds -> Shares \cup {0}]
      /\ open' \in SUBSET (1..issues')
  <2>1. CASE sawOpen[w] # {}
    <3>1. UNCHANGED <<issues, issueOf, open>>  BY <1>1, <2>1 DEF RecordIssue
    <3> QED  BY <3>1 DEF RunsInv, TypeOK
  <2>2. CASE sawOpen[w] = {}
    <3>1. /\ issues' = issues + 1 /\ open' = open \cup {issues + 1}
          /\ issueOf' = [issueOf EXCEPT ![issues + 1] = Share(w)]
      BY <1>1, <2>2 DEF RecordIssue
    <3>2. issueOf' \in [IssueIds -> Shares \cup {0}]  BY <1>3, <3>1 DEF RunsInv, TypeOK
    <3>3. open' \in SUBSET (1..(issues + 1))  BY <1>6, <3>1
    <3>4. issues' \in 0..(MaxRuns * NumShares)  BY <1>7, <3>1, <1>6
    <3> QED  BY <3>1, <3>2, <3>3, <3>4
  <2> QED  BY <2>1, <2>2
<1>9. TypeOK'
  <2>1. stored' \in SUBSET Shares  BY <1>1 DEF RunsInv, TypeOK
  <2> QED  BY <1>1, <1>8, <2>1, CommitTypes
<1>10. RunsInOrder' /\ StatusIsHonest'  BY <1>1, CommitInOrder
<1>11. IssuesAreCounted'  BY <1>5, <1>6, <1>8 DEF IssuesAreCounted
<1>12. AloneIsHonest'
  <2> SUFFICES ASSUME ~overlapped  PROVE AloneIsHonest'
    BY <1>1 DEF AloneIsHonest
  <2>1. /\ sawOpen[w] = OpenIssues(Share(w))
        /\ \A v \in Writers : Busy(v) => v = w
        /\ \A s \in Shares : /\ OpenIssues(s) # {} <=> lastOutcome[s] = "failed"
                             /\ \A i, j \in OpenIssues(s) : i = j
    BY <1>1, <1>2 DEF RunsInv, AloneIsHonest, Committed
  <2>2. /\ \A u, v \in Writers : Busy(u)' /\ Busy(v)' => u = v
        /\ \A v \in Writers : pc'[v] \notin {"store", "report"}
    BY <1>2, <2>1 DEF Committed, Busy
  <2>3. ASSUME NEW s \in Shares
        PROVE  /\ s # Share(w) => OpenIssues(s)' = OpenIssues(s)
               /\ s = Share(w) => OpenIssues(s)' # {}
               /\ \A i, j \in OpenIssues(s)' : i = j
    <3>1. CASE sawOpen[w] # {}
      <4>1. UNCHANGED <<issueOf, open>>  BY <1>1, <3>1 DEF RecordIssue
      <4>2. OpenIssues(s)' = OpenIssues(s)  BY <4>1 DEF OpenIssues
      <4> QED  BY <2>1, <3>1, <4>2
    <3>2. CASE sawOpen[w] = {}
      <4> DEFINE n == issues + 1
      <4>1. /\ open' = open \cup {n} /\ issueOf' = [issueOf EXCEPT ![n] = Share(w)]
            /\ n \in IssueIds /\ n \notin open
        BY <1>1, <1>6, <1>7, <3>2 DEF RecordIssue, IssueIds
      <4> HIDE DEF n
      <4>2. \A i \in open' : issueOf'[i] = IF i = n THEN Share(w) ELSE issueOf[i]
        <5>1. open \subseteq IssueIds /\ issueOf \in [IssueIds -> Shares \cup {0}]
          BY <1>6, CommitsAreFinite DEF RunsInv, TypeOK, IssueIds
        <5> QED  BY <4>1, <5>1
      <4>3. OpenIssues(s)' = IF s = Share(w) THEN OpenIssues(s) \cup {n} ELSE OpenIssues(s)
        BY <4>1, <4>2 DEF OpenIssues
      <4>4. s = Share(w) => OpenIssues(s) = {}  BY <2>1, <3>2
      <4> QED  BY <2>1, <4>3, <4>4
    <3> QED  BY <3>1, <3>2
  <2>4. \A s \in Shares : lastOutcome'[s] = IF s = Share(w) THEN "failed" ELSE lastOutcome[s]
    BY <1>2 DEF Committed
  <2> QED  BY <1>3, <2>1, <2>2, <2>3, <2>4 DEF AloneIsHonest
<1> QED  BY <1>9, <1>10, <1>11, <1>12 DEF RunsInv

\* A process gives its run up: it dies, or its session can not go on.  The run's
\* row stays as it was committed last.
LEMMA GiveUpRuns ==
  ASSUME RunsInv, NEW w \in Writers, Die(w) \/ (StoreRefused(w) /\ ~RollsBack)
  PROVE  RunsInv'
<1>1. /\ Busy(w) /\ Leave(w)
      /\ UNCHANGED <<pipeline, stored, runStatus, issues, issueOf, open, lastRun, overlapped,
                     histVars>>
  BY DEF Die, StoreRefused, Busy, dbVars, envVars
<1>2. run[w] \in RunIds
  BY <1>1, ConstantsAssumption DEF RunsInv, RunsInOrder, TypeOK, RunIds
<1>3. died' \in SUBSET RunIds  BY <1>2 DEF Die, StoreRefused, envVars, RunsInv, TypeOK
<1> DEFINE st == runStatus[run[w]]
<1>4. st \in {"running", "absent", "succeeded", "partial"} /\ st \notin Final
  BY <1>1, <1>2 DEF RunsInv, RunsInOrder, TypeOK
<1>5. runStatus' = [runStatus EXCEPT ![run[w]] = st]  BY <1>1, <1>2 DEF RunsInv, TypeOK
<1> HIDE DEF st
<1> QED  BY <1>1, <1>3, <1>4, <1>5, LeaveRuns DEF Final

\* finish_run: every share is done, and the status says which failed.
LEMMA FinishRuns ==
  ASSUME RunsInv, NEW w \in Writers, FinishRun(w)
  PROVE  RunsInv'
<1>1. /\ Busy(w) /\ todo[w] = {} /\ Leave(w)
      /\ runStatus' = [runStatus EXCEPT ![run[w]] = FinalStatus(w)]
      /\ UNCHANGED <<pipeline, stored, issues, issueOf, open, lastRun, overlapped, died, histVars>>
  BY DEF FinishRun, Busy, envVars
<1>2. /\ \A s \in Shares : done[run[w]][s] = IF s \in failed[w] THEN "failed" ELSE "ok"
      /\ failed[w] \in SUBSET Shares
  BY <1>1 DEF RunsInv, RunsInOrder, TypeOK
<1>3. /\ FinalStatus(w) \in {"running", "absent", "succeeded", "partial"}
      /\ FinalStatus(w) = "succeeded" => \A s \in Shares : done[run[w]][s] = "ok"
      /\ FinalStatus(w) = "partial" => /\ \A s \in Shares : done[run[w]][s] # "none"
                                       /\ \E s \in Shares : done[run[w]][s] = "failed"
  BY <1>2 DEF FinalStatus
<1>4. died' \in SUBSET RunIds  BY <1>1 DEF RunsInv, TypeOK
<1> QED  BY <1>1, <1>3, <1>4, LeaveRuns

\* Every step keeps the invariant.
LEMMA StepRuns == RunsInv /\ [Next]_vars => RunsInv'
<1> SUFFICES ASSUME RunsInv, [Next]_vars  PROVE RunsInv'
  OBVIOUS
<1>1. CASE UNCHANGED vars
  <2>1. /\ UNCHANGED <<pipeline, stored, runStatus, lastRun, issues, issueOf, open, pc, run,
                       todo, failed, sawOpen, sawRow, died, overlapped, lastOutcome, done>>
    BY <1>1 DEF vars, dbVars, localVars, histVars
  <2>2. TypeOK'  BY <2>1 DEF RunsInv, TypeOK
  <2>3. RunsInOrder'  BY <2>1 DEF RunsInv, RunsInOrder, Busy
  <2>4. IssuesAreCounted'  BY <2>1, CountKept
  <2>5. AloneIsHonest'  BY <2>1 DEF RunsInv, AloneIsHonest, Busy, OpenIssues, Share
  <2>6. StatusIsHonest'  BY <2>1 DEF RunsInv, StatusIsHonest
  <2> QED  BY <2>2, <2>3, <2>4, <2>5, <2>6 DEF RunsInv
<1>2. ASSUME NEW w \in Writers, StartRun(w) \/ Step(w) \/ Die(w)
      PROVE  RunsInv'
  <2>1. CASE StartRun(w)  BY <2>1, StartRuns
  <2>2. CASE \E outcome \in Outcomes : Fetch(w, outcome)  BY <2>2, LoadRuns
  <2>3. CASE Store(w)  BY <2>3, StoreRuns
  <2>4. CASE StoreRefused(w)  BY <2>4, LoadRuns, GiveUpRuns
  <2>5. CASE Report(w)  BY <2>5, ReportRuns
  <2>6. CASE FinishRun(w)  BY <2>6, FinishRuns
  <2>7. CASE Die(w)  BY <2>7, GiveUpRuns
  <2> QED  BY <1>2, <2>1, <2>2, <2>3, <2>4, <2>5, <2>6, <2>7 DEF Step
<1> QED  BY <1>1, <1>2 DEF Next

LEMMA RunsStay == Spec => []RunsInv
<1> QED  BY InitRuns, StepRuns, PTL DEF Spec

-----------------------------------------------------------------------------
(* Theorems.                                                                *)

\* Every variable stays in its type; in particular the ids of issues suffice for
\* one issue per run and share, which is all the pipelines record.
THEOREM TypeCorrect == Spec => []TypeOK
<1>1. RunsInv => TypeOK  BY DEF RunsInv
<1> QED  BY <1>1, RunsStay, PTL

\* finish_run: a run that says "succeeded" has stored every share, one that says
\* "partial" has processed every share and failed on one, however many processes
\* run, die or are refused a row.
THEOREM FinishedRunsAreHonest == Spec => []StatusIsHonest
<1>1. RunsInv => StatusIsHonest  BY DEF RunsInv
<1> QED  BY <1>1, RunsStay, PTL

\* record_issue and resolve_issues: while no two runs overlap, a share has exactly
\* one open issue if the last commit for it recorded a failure, and none otherwise,
\* over any number of runs, retries and deaths.
THEOREM IssuesTellTheTruth == Spec => []IssuesAreHonest
<1>1. ASSUME RunsInv  PROVE IssuesAreHonest
  <2> SUFFICES ASSUME ~overlapped, NEW s \in Shares
               PROVE  /\ OpenIssues(s) # {} <=> lastOutcome[s] = "failed"
                      /\ Cardinality(OpenIssues(s)) <= 1
    BY DEF IssuesAreHonest
  <2>1. /\ OpenIssues(s) # {} <=> lastOutcome[s] = "failed"
        /\ \A i, j \in OpenIssues(s) : i = j
    BY <1>1 DEF RunsInv, AloneIsHonest
  <2>2. CASE OpenIssues(s) = {}  BY <2>1, <2>2, FS_EmptySet
  <2>3. CASE OpenIssues(s) # {}
    <3>1. PICK i \in OpenIssues(s) : OpenIssues(s) = {i}  BY <2>1, <2>3
    <3>2. Cardinality({i}) = 1  BY FS_Singleton
    <3> QED  BY <2>1, <3>1, <3>2
  <2> QED  BY <2>2, <2>3
<1> QED  BY <1>1, RunsStay, PTL
=============================================================================
