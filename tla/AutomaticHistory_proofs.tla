------------------------ MODULE AutomaticHistory_proofs ------------------------
(***************************************************************************)
(* Proofs about AutomaticHistory, for any number of ticks, any grace       *)
(* period, tolerance, retention and analysis window.                       *)
(*                                                                         *)
(* The code sees two timestamps and must not take one attempt for another. *)
(* What keeps it right about the newest attempt is the pace of the native  *)
(* manager (Native): an attempt that has not succeeded began later than    *)
(* the tolerance allows the last success to reach, or is one of those that *)
(* began too near to it, the named exception.  What keeps the streak       *)
(* right about older attempts is that a success somewhere at or after an   *)
(* open attempt is always given to one at or after it (MatchedTable).  The *)
(* file is an earlier table and must be right as well, because a restart   *)
(* goes on from it.                                                        *)
(***************************************************************************)
EXTENDS AutomaticHistory, FiniteSetTheorems, WellFoundedInduction, TLAPS

\* The newest attempt a table has concluded on is judged right.
JudgedRight(table) ==
  \A t \in Times :
    table[t] \in {"success", "failed"} /\ (\A later \in Times : later > t => table[later] = "absent")
      => truth[t] = table[t] \/ (t \in near /\ table[t] = "success")

\* A table holds attempts that were made.
Known(table) == \A t \in Times : table[t] # "absent" => truth[t] # "none"

\* What the native manager guarantees.
Native ==
  /\ \A t \in Times : truth[t] # "none" => t <= attempt
  /\ \A t \in Times : truth[t] = "running" => t = attempt
  /\ \A t \in Times : truth[t] = "success" => success # 0 /\ t <= success
  /\ attempt # 0 => truth[attempt] # "none"
  /\ attempt # 0 /\ success # 0 /\ truth[attempt] # "success" =>
       attempt > success + Tolerance \/ attempt \in near

IInv ==
  /\ TypeOK
  /\ Native
  /\ Known(status) /\ Known(disk)
  /\ JudgedRight(status) /\ JudgedRight(disk)
  /\ StreakIsReal

Tables == [Times -> Status]

-----------------------------------------------------------------------------
\* The constants are numbers, and there is a tick.
LEMMA Bounds ==
  /\ MaxTime \in Nat \ {0} /\ Grace \in Nat /\ Tolerance \in Nat
  /\ Retention \in Nat /\ Window \in Nat
  BY TimeAssumption

\* A set of attempts that is not empty has a newest one, and Max finds it.
LEMMA MaxOfTimes ==
  ASSUME NEW S \in SUBSET Times, S # {}
  PROVE  Max(S) \in S /\ \A t \in S : t <= Max(S)
<1> DEFINE Ages  == {MaxTime - t : t \in S}
           Below == OpToRel(<, Nat)
<1>1. Ages \in SUBSET Nat /\ Ages # {}
  <2>1. \A t \in S : MaxTime - t \in Nat
    BY Bounds DEF Times
  <2> QED
    BY <2>1
<1>2. IsWellFoundedOn(Below, Nat)
  BY NatLessThanWellFounded
<1>3. \A x, y \in Nat : x < y => <<x, y>> \in Below
  BY DEF OpToRel
<1> HIDE DEF Below
<1>4. PICK age \in Ages : \A other \in Ages : ~ (<<other, age>> \in Below)
  <2> HIDE DEF Ages
  <2> QED
    BY <1>1, <1>2, WFMin, Zenon
<1>5. ASSUME NEW other \in Ages PROVE age <= other
  <2> HIDE DEF Ages
  <2>1. age \in Nat /\ other \in Nat /\ ~ (other < age)
    BY <1>1, <1>3, <1>4, Zenon
  <2> QED
    BY <2>1
<1>6. PICK newest \in S : age = MaxTime - newest
  BY <1>4
<1>7. ASSUME NEW t \in S PROVE newest >= t
  <2>1. MaxTime - t \in Ages
    OBVIOUS
  <2>2. age <= MaxTime - t
    BY <1>5, <2>1
  <2> QED
    BY <1>6, <2>2, Bounds DEF Times
<1>8. Max(S) \in S /\ \A t \in S : Max(S) >= t
  BY <1>7 DEF Max
<1> QED
  BY <1>8, Bounds DEF Times

\* A rate of whole counts is a percentage.
LEMMA RateIsPercent ==
  ASSUME NEW s \in Nat, NEW f \in Nat
  PROVE  Rate(s, f) \in 0..100
<1>1. CASE s + f # 0
  <2> DEFINE n == s + f
             q == (s * 100) \div n
  <2>1. n \in Nat \ {0} /\ s <= n /\ s * 100 \in Nat
    BY <1>1
  <2> QED
   BY <1>1 DEF Rate
<1> QED BY <1>1 DEF Rate

\* The two counts of the metrics are counts, so that what is published is typed.
LEMMA MetricsType ==
  ASSUME NEW table \in Tables
  PROVE  MetricsOf(table).rate \in 0..100 /\ MetricsOf(table).streak \in SUBSET Times
<1> DEFINE inWindow == {t \in Times : t + Window >= now}
           good     == {t \in inWindow : table[t] = "success"}
           bad      == {t \in inWindow : table[t] = "failed"}
<1>1. IsFiniteSet(Times)
  BY Bounds, FS_Interval DEF Times
<1>2. good \in SUBSET Times /\ bad \in SUBSET Times
  OBVIOUS
<1>3. Cardinality(good) \in Nat /\ Cardinality(bad) \in Nat
  <2> HIDE DEF good, bad
  <2> QED
    BY <1>1, <1>2, FS_Subset, FS_CardinalityType
<1>4. Rate(Cardinality(good), Cardinality(bad)) \in 0..100
  <2> HIDE DEF good, bad
  <2> QED
    BY <1>3, RateIsPercent
<1>5. MetricsOf(table) = [rate |-> Rate(Cardinality(good), Cardinality(bad)),
                          streak |-> Streak(table)]
  BY DEF MetricsOf
<1> HIDE DEF good, bad
<1> QED
  BY <1>4, <1>5 DEF Streak

-----------------------------------------------------------------------------
(* The four steps of async_observe *)

\* Recording adds the attempt shown, if it was not there.
LEMMA RecordedTable ==
  ASSUME TypeOK, Native, Known(status)
  PROVE  LET next == Recorded(status, attempt) IN
         /\ next \in Tables /\ Known(next)
         /\ attempt # 0 => next[attempt] # "absent"
         /\ \A t \in Times : next[t] # status[t] => next[t] = "pending"
<1>1. attempt # 0 => attempt \in Times
  BY Bounds DEF TypeOK, Times
<1> QED
  BY <1>1 DEF TypeOK, Native, Known, Recorded, Tables, Status

\* Matching turns one open attempt into a success, the newest that the last
\* success can belong to.
LEMMA MatchedTable ==
  ASSUME NEW table \in Tables, success \in Nat
  PROVE  LET next == Matched(table, success) IN
         /\ next \in Tables
         /\ \A t \in Times : next[t] = "absent" <=> table[t] = "absent"
         /\ \A t \in Times : next[t] # table[t] =>
              /\ next[t] = "success" /\ table[t] \in Open
              /\ success # 0 /\ t <= success + Tolerance
         /\ \A t \in Times : success # 0 /\ t <= success /\ table[t] \in Open =>
              \E later \in Times : later >= t /\ next[later] = "success"
<1> DEFINE C == Candidates(table, success)
           next == Matched(table, success)
<1>1. C \in SUBSET Times
  BY DEF Candidates
<1>2. \A t \in Times : t \in C <=> table[t] \in Open /\ t <= success + Tolerance
  BY DEF Candidates
<1>3. \A t \in Times : t <= success => t <= success + Tolerance
  BY Bounds DEF Times
<1>4. CASE success = 0 \/ C = {}
  <2>1. next = table
    BY <1>4 DEF Matched
  <2> HIDE DEF next, C
  <2> QED
    BY <1>2, <1>3, <1>4, <2>1 DEF next
<1>5. CASE success # 0 /\ C # {}
  <2> DEFINE newest == Max(C)
  <2>1. next = [table EXCEPT ![newest] = "success"]
    BY <1>5 DEF Matched
  <2> HIDE DEF next, C
  <2>2. newest \in C /\ \A t \in C : t <= newest
    BY <1>1, <1>5, MaxOfTimes
  <2>3. newest \in Times /\ next[newest] = "success"
    BY <1>1, <2>1, <2>2 DEF Tables
  <2>4. table[newest] \in Open /\ newest <= success + Tolerance
    BY <1>2, <2>2, <2>3
  <2> HIDE DEF newest
  <2>5. next \in Tables /\ \A t \in Times : t # newest => next[t] = table[t]
    BY <2>1 DEF Tables, Status
  <2>6. \A t \in Times : success # 0 /\ t <= success /\ table[t] \in Open =>
          newest >= t
    BY <1>2, <1>3, <2>2, <2>3, Bounds DEF Times
  <2> QED
    BY <1>5, <2>3, <2>4, <2>5, <2>6 DEF next, Open
<1> QED
  BY <1>4, <1>5

\* One observation: the new table is right about its newest attempt, and every
\* attempt in its streak failed.
LEMMA ObservedTable ==
  ASSUME IInv, NEW inProgress \in BOOLEAN, Running => inProgress
  PROVE  LET next == Observed(inProgress) IN
         /\ next \in Tables /\ Known(next) /\ JudgedRight(next)
         /\ \A t \in Streak(next) : truth[t] = "failed"
<1> DEFINE recorded == Recorded(status, attempt)
           matched  == Matched(recorded, success)
           resolved == Resolved(matched, inProgress)
           next     == Retained(resolved)
<1> USE DEF IInv
<1>1. /\ recorded \in Tables /\ Known(recorded)
      /\ attempt # 0 => recorded[attempt] # "absent"
      /\ \A t \in Times : recorded[t] # status[t] => recorded[t] = "pending"
  BY RecordedTable
<1>2. /\ matched \in Tables
      /\ \A t \in Times : matched[t] = "absent" <=> recorded[t] = "absent"
      /\ \A t \in Times : matched[t] # recorded[t] =>
           /\ matched[t] = "success" /\ recorded[t] \in Open
           /\ success # 0 /\ t <= success + Tolerance
      /\ \A t \in Times : success # 0 /\ t <= success /\ recorded[t] \in Open =>
           \E later \in Times : later >= t /\ matched[later] = "success"
  <2> HIDE DEF recorded
  <2>1. success \in Nat
    BY DEF TypeOK, Times
  <2> QED
    BY <1>1, <2>1, MatchedTable
<1> HIDE DEF recorded, matched
<1>3. /\ resolved \in Tables
      /\ \A t \in Times : resolved[t] # matched[t] =>
           matched[t] = "pending" /\ resolved[t] = "failed" /\ ~inProgress
  BY <1>2 DEF Resolved, Tables, Status
<1>4. /\ next \in Tables
      /\ \A t \in Times : next[t] = IF t + Retention < now THEN "absent" ELSE resolved[t]
  BY <1>3 DEF Retained, Tables, Status
<1> HIDE DEF resolved, next
<1>5. Known(next)
  BY <1>1, <1>2, <1>3, <1>4 DEF Known
<1>6. ASSUME NEW t \in Times, status[t] \in {"success", "failed"}, t = attempt
      PROVE  truth[t] = status[t] \/ (t \in near /\ status[t] = "success")
  <2>1. \A later \in Times : later > t => status[later] = "absent"
    BY <1>6 DEF Known, Native, TypeOK, Times
  <2> QED
    BY <1>6, <2>1 DEF JudgedRight
<1>7. ASSUME NEW t \in Streak(next) PROVE truth[t] = "failed"
  <2>1. /\ t \in Times /\ next[t] = "failed"
        /\ \A later \in Times : later > t => next[later] # "success"
    BY <1>7 DEF Streak
  <2>2. resolved[t] = "failed" /\ ~ (t + Retention < now)
    BY <1>4, <2>1
  <2>3. matched[t] = recorded[t] /\ recorded[t] \in Open
    BY <1>2, <1>3, <2>1, <2>2 DEF Open
  <2>4. truth[t] # "none"
    BY <1>5, <2>1 DEF Known
  <2>5. truth[t] # "success"
    <3> SUFFICES ASSUME truth[t] = "success" PROVE FALSE
      OBVIOUS
    <3>1. success # 0 /\ t <= success
      BY <2>1 DEF Native
    <3>2. PICK later \in Times : later >= t /\ matched[later] = "success"
      BY <1>2, <2>1, <2>3, <3>1
    <3>3. resolved[later] = "success" /\ ~ (later + Retention < now)
      BY <1>3, <2>1, <2>2, <3>2, Bounds DEF Times, TypeOK
    <3>4. next[later] = "success"
      BY <1>4, <3>3
    <3> QED
      BY <2>1, <3>2, <3>4 DEF Times
  <2>6. truth[t] # "running"
    <3> SUFFICES ASSUME truth[t] = "running" PROVE FALSE
      OBVIOUS
    <3>1. t = attempt /\ t # 0
      BY <2>1, Bounds DEF Native, Times
    <3>2. inProgress
      BY <3>1 DEF Running
    <3>3. status[t] = "failed"
      BY <1>1, <1>3, <2>1, <2>2, <2>3, <3>2
    <3> QED
      BY <1>6, <2>1, <3>1, <3>3
  <2> QED
    BY <2>1, <2>4, <2>5, <2>6 DEF TypeOK
<1>8. JudgedRight(next)
  <2> SUFFICES ASSUME NEW t \in Times, next[t] \in {"success", "failed"},
                      \A later \in Times : later > t => next[later] = "absent"
               PROVE  truth[t] = next[t] \/ (t \in near /\ next[t] = "success")
    BY DEF JudgedRight
  <2>1. ~ (t + Retention < now) /\ resolved[t] = next[t]
    BY <1>4
  <2>2. t = attempt
    <3>1. t <= attempt /\ attempt \in Times
      BY <1>5, Bounds DEF Known, Native, TypeOK, Times
    <3>2. resolved[attempt] # "absent"
      BY <1>1, <1>2, <1>3, <3>1 DEF Times
    <3>3. next[attempt] # "absent"
      BY <1>4, <2>1, <3>1, <3>2, Bounds DEF Times, TypeOK
    <3> QED
      BY <3>1, <3>3 DEF Times
  <2>3. CASE next[t] = "failed"
    <3>1. t \in Streak(next)
      BY <2>3 DEF Streak
    <3> QED
      BY <1>7, <2>3, <3>1
  <2>4. CASE next[t] = "success"
    <3>1. matched[t] = "success"
      BY <1>3, <2>1, <2>4
    <3>2. CASE recorded[t] = "success"
      <4>1. status[t] = "success"
        BY <1>1, <3>2
      <4> QED
        BY <1>6, <2>2, <2>4, <4>1
    <3>3. CASE recorded[t] # "success"
      <4>1. success # 0 /\ t <= success + Tolerance
        BY <1>2, <3>1, <3>3
      <4> QED
        BY <2>2, <2>4, <4>1, Bounds DEF Native, TypeOK, Times
    <3> QED
      BY <3>2, <3>3
  <2> QED
    BY <2>3, <2>4
<1> QED
  BY <1>4, <1>5, <1>7, <1>8 DEF Observed, next, resolved, matched, recorded

-----------------------------------------------------------------------------
\* There is no attempt, and no table, to be wrong about.
LEMMA InitInvariant == Init => IInv
<1> SUFFICES ASSUME Init PROVE IInv
  OBVIOUS
<1>1. TypeOK
  <2>1. now \in Times /\ attempt \in 0..now /\ success \in 0..now
    BY Bounds DEF Init, Times
  <2>2. truth \in [Times -> {"none", "running", "success", "failed"}]
    BY DEF Init
  <2>3. status \in [Times -> Status] /\ disk \in [Times -> Status]
    BY DEF Init, Nothing, Status
  <2>4. metrics.rate = 0 /\ metrics.streak = {} /\ saveDue \in BOOLEAN
       /\ near \in SUBSET Times
    BY DEF Init
  <2>5. metrics.rate \in 0..100 /\ metrics.streak \in SUBSET Times
    BY <2>4
  <2> QED
    BY <2>1, <2>2, <2>3, <2>4, <2>5 DEF TypeOK
<1>2. Native /\ Known(status) /\ Known(disk)
  BY DEF Init, Native, Known, Nothing
<1>3. JudgedRight(status) /\ JudgedRight(disk) /\ StreakIsReal
  BY DEF Init, JudgedRight, StreakIsReal, Nothing
<1> QED
  BY <1>1, <1>2, <1>3 DEF IInv

\* The tables and the streak stay right when only an attempt that none of them
\* has judged changes its truth, and none of the tables changes.
LEMMA TablesStayRight ==
  ASSUME IInv, NEW changed \in Times, truth[changed] \in {"none", "running"},
         \A t \in Times : t # changed => truth'[t] = truth[t],
         truth'[changed] # "none", near \subseteq near',
         UNCHANGED <<status, disk, metrics>>
  PROVE  /\ Known(status)' /\ Known(disk)'
         /\ JudgedRight(status)' /\ JudgedRight(disk)' /\ StreakIsReal'
<1> USE DEF IInv
<1>1. Known(status)' /\ Known(disk)'
  BY DEF Known
<1>2. JudgedRight(status)' /\ JudgedRight(disk)'
  BY DEF JudgedRight, Status, TypeOK
<1>3. StreakIsReal'
  BY DEF StreakIsReal, TypeOK
<1> QED
  BY <1>1, <1>2, <1>3

\* The invariant is kept by every step.
LEMMA Invariance == IInv /\ [Next]_vars => IInv'
<1> SUFFICES ASSUME IInv, [Next]_vars PROVE IInv'
  OBVIOUS
<1> USE DEF IInv
<1>1. CASE Tick
  <2>1. TypeOK'
    BY <1>1, Bounds DEF Tick, TypeOK, native, Times
  <2> QED
    BY <1>1, <2>1 DEF Tick, native, Native, Known, JudgedRight, StreakIsReal
<1>2. CASE AttemptBegins
  <2>1. /\ now \in Times /\ truth[now] = "none" /\ attempt' = now
        /\ truth' = [truth EXCEPT ![now] = "running"]
        /\ near' = near \/ near' = near \union {now}
        /\ UNCHANGED <<now, success, status, disk, saveDue, metrics>>
    BY <1>2 DEF AttemptBegins, Native, TypeOK, Times
  <2>2. TypeOK'
    <3>1. near' \in SUBSET Times
      BY <2>1 DEF TypeOK
    <3> QED
      BY <2>1, <3>1, Bounds DEF TypeOK, Times
  <2>3. Native'
    <3>1. \A t \in Times : t # now => truth'[t] = truth[t] /\ truth[t] # "running"
      BY <1>2, <2>1, Bounds DEF AttemptBegins, Native, TypeOK, Running, Times
    <3>2. truth'[now] = "running"
      BY <2>1 DEF TypeOK
    <3>3. \A t \in Times : truth'[t] # "none" => t <= now
      BY <1>2, <2>1, <3>1 DEF AttemptBegins, Native, TypeOK, Times
    <3>4. success = 0 \/ now > success + Tolerance \/ now \in near'
      BY <1>2, Bounds DEF AttemptBegins, TypeOK, Times
    <3> QED
      BY <2>1, <3>1, <3>2, <3>3, <3>4 DEF Native
  <2>4. truth'[now] = "running" /\ \A t \in Times : t # now => truth'[t] = truth[t]
    BY <2>1 DEF TypeOK
  <2> QED
    BY <2>1, <2>2, <2>3, <2>4, TablesStayRight
<1>3. CASE AttemptSucceeds \/ AttemptFails
  <2>1. /\ attempt \in Times /\ truth[attempt] = "running"
        /\ UNCHANGED <<now, attempt, near, status, disk, saveDue, metrics>>
        /\ \/ success' = now /\ truth' = [truth EXCEPT ![attempt] = "success"]
           \/ success' = success /\ truth' = [truth EXCEPT ![attempt] = "failed"]
    BY <1>3, Bounds DEF AttemptSucceeds, AttemptFails, Running, TypeOK, Times
  <2>2. TypeOK'
    BY <2>1, Bounds DEF TypeOK, Times
  <2>3. Native'
    BY <2>1, Bounds DEF Native, TypeOK, Times
  <2>4. truth'[attempt] # "none" /\ \A t \in Times : t # attempt => truth'[t] = truth[t]
    BY <2>1 DEF TypeOK
  <2> QED
    BY <2>1, <2>2, <2>3, <2>4, TablesStayRight
<1>4. CASE Refresh
  <2>1. PICK otherBackup \in BOOLEAN :
          LET table == Observed(Running \/ otherBackup)
          IN  /\ status' = table
              /\ saveDue' = (saveDue \/ SaveWorthy(Running \/ otherBackup))
              /\ metrics' = MetricsOf(table)
              /\ UNCHANGED <<now, native, disk>>
    BY <1>4 DEF Refresh
  <2>2. /\ status' \in Tables /\ Known(status') /\ JudgedRight(status')
        /\ \A t \in Streak(status') : truth[t] = "failed"
    BY <2>1, ObservedTable
  <2>3. metrics'.rate \in 0..100 /\ metrics'.streak \in SUBSET Times
    BY <2>1, <2>2, MetricsType
  <2>4. saveDue' \in BOOLEAN
    BY <2>1, Zenon
  <2>5. metrics'.streak = Streak(status')
    BY <2>1 DEF MetricsOf
  <2>6. UNCHANGED <<now, attempt, success, truth, near, disk>>
    BY <2>1 DEF native
  <2>7. TypeOK'
    BY <2>2, <2>3, <2>4, <2>6 DEF TypeOK, Tables
  <2>8. Native' /\ Known(status)' /\ Known(disk)'
    BY <2>2, <2>6 DEF Native, Known
  <2>9. JudgedRight(status)' /\ JudgedRight(disk)' /\ StreakIsReal'
    BY <2>2, <2>5, <2>6 DEF JudgedRight, StreakIsReal
  <2> QED
    BY <2>7, <2>8, <2>9
<1>5. CASE Save
  BY <1>5 DEF Save, native, TypeOK, Native, Known, JudgedRight, StreakIsReal
<1>6. CASE Restart
  <2>1. /\ status' = disk /\ saveDue' = FALSE
        /\ metrics' = [rate |-> 0, streak |-> {}]
        /\ UNCHANGED <<now, attempt, success, near, disk>>
    BY <1>6 DEF Restart
  <2>2. metrics'.rate = 0 /\ metrics'.streak = {} /\ saveDue' \in BOOLEAN
    BY <2>1
  <2>3. metrics'.rate \in 0..100 /\ metrics'.streak \in SUBSET Times
    BY <2>2
  <2>4. CASE ~Running
    <3>1. truth' = truth
      BY <1>6, <2>4 DEF Restart
    <3>2. TypeOK'
      BY <2>1, <2>2, <2>3, <3>1 DEF TypeOK
    <3>3. Native' /\ Known(status)' /\ Known(disk)'
      BY <2>1, <3>1 DEF Native, Known
    <3>4. JudgedRight(status)' /\ JudgedRight(disk)' /\ StreakIsReal'
      BY <2>1, <2>2, <3>1 DEF JudgedRight, StreakIsReal
    <3> QED
      BY <3>2, <3>3, <3>4
  <2>5. CASE Running
    <3>1. /\ truth' = [truth EXCEPT ![attempt] = "failed"]
          /\ attempt # 0 /\ truth[attempt] = "running"
      BY <1>6, <2>5, Zenon DEF Restart, Running
    <3>2. attempt \in Times
      BY <3>1, Bounds DEF TypeOK, Times
    <3>3. /\ truth'[attempt] = "failed"
          /\ \A t \in Times : t # attempt => truth'[t] = truth[t]
      BY <3>1, <3>2 DEF TypeOK
    <3>4. TypeOK'
      BY <2>1, <2>2, <2>3, <3>1 DEF TypeOK
    <3>5. Native'
      BY <2>1, <3>1, <3>2, <3>3 DEF Native
    <3>6. Known(status)' /\ Known(disk)'
      BY <2>1, <3>3 DEF Known
    <3>7. JudgedRight(status)' /\ JudgedRight(disk)'
      BY <2>1, <3>1, <3>3 DEF JudgedRight
    <3>8. StreakIsReal'
      BY <2>2 DEF StreakIsReal
    <3> QED
      BY <3>4, <3>5, <3>6, <3>7, <3>8
  <2> QED
    BY <2>4, <2>5
<1>7. CASE UNCHANGED vars
  BY <1>7 DEF vars, native, TypeOK, Native, Known, JudgedRight, StreakIsReal
<1> QED
  BY <1>1, <1>2, <1>3, <1>4, <1>5, <1>6, <1>7 DEF Next

-----------------------------------------------------------------------------
\* Every variable keeps its type, and the published success rate is a percentage
\* whatever the window (AutomaticHistoryMetrics).
THEOREM TypeCorrect == Spec => []TypeOK
<1>1. IInv => TypeOK
  BY DEF IInv
<1> QED
  BY <1>1, InitInvariant, Invariance, PTL DEF Spec

\* Every attempt in the published streak of consecutive failures failed in truth,
\* whatever refreshes, successes and saves a crash has swallowed.
THEOREM StreaksAreReal == Spec => []StreakIsReal
<1>1. IInv => StreakIsReal
  BY DEF IInv
<1> QED
  BY <1>1, InitInvariant, Invariance, PTL DEF Spec

\* The history is right about the newest attempt it has concluded on, although a
\* success does not say which attempt it belongs to (_match_success); only an
\* attempt that began within the tolerance of a success may borrow it.
THEOREM NewestIsRight == Spec => []NewestIsJudgedRight
<1>1. IInv => NewestIsJudgedRight
  BY DEF IInv, JudgedRight, NewestIsJudgedRight
<1> QED
  BY <1>1, InitInvariant, Invariance, PTL DEF Spec

===============================================================================
