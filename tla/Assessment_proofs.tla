-------------------------- MODULE Assessment_proofs --------------------------
(***************************************************************************)
(* What is shown of the state of the backups is earned, for every set of   *)
(* backups, agents and answers of the manager, any day and any number of   *)
(* refreshes, outages and steps of checks.                                 *)
(*                                                                         *)
(* A snapshot goes on being shown while the day and the verdict in memory  *)
(* move on, and an outage is computed from the snapshot before it.  What   *)
(* is kept of it (GoodSnapshot) is therefore stated for a day: its problem *)
(* flags agree with its fields, what was stale or overdue on its own day   *)
(* still is, and its score is that of its problems at an age the newest    *)
(* backup has had.  That an outage does not raise the score needs the      *)
(* score to fall with problems and age (ScoreWorsens), and "ready" the     *)
(* weights to leave no way to the threshold without a passed check         *)
(* (FailedCheckCosts).  Both scores are sums over sets, by MapThenSumSet.  *)
(*                                                                         *)
(* Induction on a finite set is done with its smallest counterexample      *)
(* (SmallestSet), for which the library needs no operator as a parameter.  *)
(***************************************************************************)
EXTENDS Assessment, TLAPS, FiniteSetTheorems, WellFoundedInduction

\* Among finite sets there is one that contains no other of them: what the
\* lemmas below argue by induction on a finite set with.
LEMMA SmallestSet ==
  ASSUME NEW S, IsFiniteSet(S), NEW Family, Family \subseteq SUBSET S, Family # {}
  PROVE  \E T \in Family : \A U \in Family : U \subseteq T => U = T
<1>1. IsWellFoundedOn(StrictSubsetOrdering(S), FiniteSubsetsOf(S))
  BY FS_StrictSubsetOrderingWellFounded
<1>2. Family \subseteq FiniteSubsetsOf(S)
  BY FS_Subset, Zenon DEF FiniteSubsetsOf
<1>3. PICK T \in Family : \A U \in Family : <<U, T>> \notin StrictSubsetOrdering(S)
  BY <1>1, <1>2, WFMin
<1>4. \A U \in Family : U \subseteq T /\ U # T => <<U, T>> \in StrictSubsetOrdering(S)
  <2> SUFFICES ASSUME NEW U \in Family, U \subseteq T, U # T
               PROVE  <<U, T>> \in StrictSubsetOrdering(S)
    OBVIOUS
  <2> U \in SUBSET S /\ T \in SUBSET S
    BY <1>3
  <2> QED BY DEF StrictSubsetOrdering
<1>5. \A U \in Family : U \subseteq T => U = T
  BY <1>3, <1>4
<1> QED BY <1>5

\* A finite set of numbers has a greatest one, which is what Max chooses.
LEMMA MaximumExists ==
  ASSUME NEW S, IsFiniteSet(S), S # {}, S \subseteq Int
  PROVE  \E x \in S : \A y \in S : x >= y
<1>0. SUFFICES ASSUME ~ \E x \in S : \A y \in S : x >= y PROVE FALSE
  OBVIOUS
<1> DEFINE Bad == {T \in SUBSET S : T # {} /\ ~ \E x \in T : \A y \in T : x >= y}
<1>1. S \in Bad
  BY <1>0
<1>2. PICK T \in Bad : \A U \in Bad : U \subseteq T => U = T
  <2>1. Bad \subseteq SUBSET S /\ Bad # {} /\ IsFiniteSet(S)
    BY <1>1
  <2> HIDE DEF Bad
  <2> QED BY ONLY <2>1, SmallestSet
<1>3. PICK x \in T : TRUE
  BY <1>2
<1>4. T \ {x} \notin Bad
  BY <1>2, <1>3
<1>5. CASE T = {x}
  BY <1>5, <1>2
<1>6. CASE T # {x}
  <2>1. PICK m \in T \ {x} : \A y \in T \ {x} : m >= y
    BY <1>4, <1>6, <1>2, <1>3
  <2>2. m \in Int /\ x \in Int /\ \A y \in T : y \in Int
    BY <1>2, <2>1, <1>3
  <2>3. (\A y \in T : m >= y) \/ (\A y \in T : x >= y)
    BY <2>1, <2>2
  <2> QED BY <2>3, <2>1, <1>2, <1>3
<1> QED BY <1>5, <1>6

\* A set of numbers has a least one.
LEMMA LeastNumber ==
  ASSUME NEW N, N \subseteq Nat, NEW k \in N
  PROVE  \E n \in N : \A m \in N : n <= m
<1> DEFINE Below == {n \in Int : -n \in N /\ -n <= k}
<1>1. IsFiniteSet(Below) /\ Below # {} /\ Below \subseteq Int
  <2>1. IsFiniteSet((-k)..0)
    BY FS_Interval
  <2>2. Below \in SUBSET ((-k)..0)
    OBVIOUS
  <2>3. -k \in Below
    OBVIOUS
  <2> QED BY <2>1, <2>2, <2>3, FS_Subset
<1>2. PICK x \in Below : \A y \in Below : x >= y
  <2> HIDE DEF Below
  <2> QED BY <1>1, MaximumExists, Zenon
<1>3. \A m \in N : -x <= m
  <2> SUFFICES ASSUME NEW m \in N PROVE -x <= m
    OBVIOUS
  <2>1. m \in Nat /\ k \in Nat
    OBVIOUS
  <2>2. CASE m <= k
    <3>1. -m \in Below
      BY <2>1, <2>2
    <3>2. x >= -m
      BY <3>1, <1>2
    <3> QED BY <3>2, <2>1, <1>2
  <2> QED BY <2>1, <2>2, <1>2
<1> QED BY <1>2, <1>3

Chosen(T) == CHOOSE x \in T : TRUE
Sums(S, f, iter) ==
  iter = [T \in SUBSET S |-> IF T = {} THEN 0 ELSE f[Chosen(T)] + iter[T \ {Chosen(T)}]]

\* MapThenSumSet chooses a function of partial sums.  There is one.
LEMMA SumExists ==
  ASSUME NEW S, IsFiniteSet(S), NEW f \in [S -> Nat]
  PROVE  \E iter : Sums(S, f, iter)
<1> DEFINE Small(n) == {T \in SUBSET S : Cardinality(T) <= n}
           Entry(F, T) == IF T = {} THEN 0 ELSE f[Chosen(T)] + F[T \ {Chosen(T)}]
           Upto(n) == \E F : F \in [Small(n) -> Nat] /\ \A T \in Small(n) : F[T] = Entry(F, T)
<1>1. \A T \in SUBSET S : /\ IsFiniteSet(T) /\ Cardinality(T) \in Nat
                          /\ Cardinality(T) = 0 <=> T = {}
                          /\ T # {} => /\ Chosen(T) \in T
                                       /\ Cardinality(T \ {Chosen(T)}) = Cardinality(T) - 1
  <2> TAKE T \in SUBSET S
  <2>1. IsFiniteSet(T)
    BY FS_Subset
  <2>2. Cardinality(T) \in Nat
    BY <2>1, FS_CardinalityType
  <2>3. Cardinality(T) = 0 <=> T = {}
    BY <2>1, FS_EmptySet
  <2>4. T # {} => Chosen(T) \in T
    BY DEF Chosen
  <2> QED BY <2>1, <2>2, <2>3, <2>4, FS_RemoveElement
<1>2. Upto(0)
  <2> DEFINE F == [T \in Small(0) |-> 0]
  <2>1. \A T \in Small(0) : T = {}
    <3> SUFFICES ASSUME NEW T \in SUBSET S, Cardinality(T) <= 0 PROVE T = {}
      OBVIOUS
    <3>1. Cardinality(T) \in Nat /\ (Cardinality(T) = 0 => T = {})
      BY <1>1, Zenon
    <3>2. Cardinality(T) = 0
      BY <3>1
    <3> QED BY <3>1, <3>2
  <2>2. F \in [Small(0) -> Nat] /\ \A T \in Small(0) : F[T] = Entry(F, T)
    BY <2>1
  <2> QED BY <2>2
<1>3. \A n \in Nat : Upto(n) => Upto(n + 1)
  <2> SUFFICES ASSUME NEW n \in Nat,
                      NEW F, F \in [Small(n) -> Nat], \A T \in Small(n) : F[T] = Entry(F, T)
               PROVE Upto(n + 1)
    BY Zenon
  <2> DEFINE G == [T \in Small(n + 1) |-> Entry(F, T)]
  <2>1. \A T \in Small(n + 1) : T # {} => T \ {Chosen(T)} \in Small(n)
    BY <1>1
  <2>2. \A T \in Small(n) : T \in Small(n + 1) /\ G[T] = F[T]
    <3> TAKE T \in Small(n)
    <3>1. Cardinality(T) \in Nat /\ Cardinality(T) <= n
      BY <1>1, Zenon
    <3>2. T \in Small(n + 1)
      BY <3>1
    <3> QED BY <3>2, Zenon
  <2>3. \A T \in Small(n + 1) : G[T] = Entry(G, T)
    BY <2>1, <2>2
  <2>4. G \in [Small(n + 1) -> Nat]
    <3> SUFFICES ASSUME NEW T \in Small(n + 1) PROVE Entry(F, T) \in Nat
      OBVIOUS
    <3> CASE T = {}
      OBVIOUS
    <3> CASE T # {}
      <4>1. f[Chosen(T)] \in Nat /\ F[T \ {Chosen(T)}] \in Nat
        BY <1>1, <2>1
      <4> HIDE DEF Small
      <4> QED BY <4>1
    <3> QED OBVIOUS
  <2> HIDE DEF G, Small, Entry
  <2> QED BY <2>3, <2>4, Zenon
<1>4. \A n \in Nat : Upto(n)
  <2> SUFFICES ASSUME NEW k \in Nat, ~ Upto(k) PROVE FALSE
    OBVIOUS
  <2> DEFINE N == {n \in Nat : ~ Upto(n)}
  <2> HIDE DEF Upto
  <2>1. PICK n \in N : \A m \in N : n <= m
    <3>1. N \subseteq Nat /\ k \in N
      OBVIOUS
    <3> HIDE DEF N
    <3> QED BY <3>1, LeastNumber
  <2>2. n \in Nat /\ n # 0
    BY <2>1, <1>2
  <2>3. n - 1 \in Nat /\ n - 1 \notin N /\ n = (n - 1) + 1
    BY <2>1, <2>2
  <2> QED BY <2>3, <2>1, <1>3
<1>5. PICK F : /\ F \in [Small(Cardinality(S)) -> Nat]
               /\ \A T \in Small(Cardinality(S)) : F[T] = Entry(F, T)
  <2>1. Cardinality(S) \in Nat
    BY <1>1
  <2>2. Upto(Cardinality(S))
    BY <2>1, <1>4, Zenon
  <2> QED BY <2>2, Zenon
<1>6. Small(Cardinality(S)) = SUBSET S
  BY FS_Subset
<1> QED BY <1>5, <1>6 DEF Sums

\* A sum with smaller summands is no greater.
LEMMA SumsCompare ==
  ASSUME NEW S, IsFiniteSet(S), NEW f \in [S -> Nat], NEW g \in [S -> Nat],
         \A x \in S : f[x] <= g[x],
         NEW F, Sums(S, f, F), NEW G, Sums(S, g, G)
  PROVE  F[S] \in Nat /\ G[S] \in Nat /\ F[S] <= G[S]
<1> DEFINE Good(T) == F[T] \in Nat /\ G[T] \in Nat /\ F[T] <= G[T]
           Bad == {T \in SUBSET S : ~ Good(T)}
<1> SUFFICES ASSUME S \in Bad PROVE FALSE
  OBVIOUS
<1>1. PICK T \in Bad : \A U \in Bad : U \subseteq T => U = T
  <2>1. Bad \subseteq SUBSET S /\ Bad # {}
    BY Zenon
  <2> HIDE DEF Bad
  <2> QED BY <2>1, SmallestSet
<1>2. T \in SUBSET S /\ ~ Good(T)
  BY <1>1
<1>3. /\ F[T] = IF T = {} THEN 0 ELSE f[Chosen(T)] + F[T \ {Chosen(T)}]
      /\ G[T] = IF T = {} THEN 0 ELSE g[Chosen(T)] + G[T \ {Chosen(T)}]
  BY <1>2, Zenon DEF Sums
<1>4. T # {}
  BY <1>2, <1>3
<1>5. Chosen(T) \in T /\ Chosen(T) \in S
  BY <1>4, <1>2 DEF Chosen
<1>6. Good(T \ {Chosen(T)})
  BY <1>1, <1>2, <1>5
<1>7. f[Chosen(T)] \in Nat /\ g[Chosen(T)] \in Nat /\ f[Chosen(T)] <= g[Chosen(T)]
  BY <1>5
<1> QED BY <1>2, <1>3, <1>4, <1>6, <1>7

\* No summand exceeds the sum.
LEMMA SumIsAtLeast ==
  ASSUME NEW S, IsFiniteSet(S), NEW f \in [S -> Nat], NEW F, Sums(S, f, F), NEW x \in S
  PROVE  F[S] \in Nat /\ F[S] >= f[x]
<1> DEFINE Good(T) == F[T] \in Nat /\ (x \in T => F[T] >= f[x])
           Bad == {T \in SUBSET S : ~ Good(T)}
<1> SUFFICES ASSUME S \in Bad PROVE FALSE
  OBVIOUS
<1>1. PICK T \in Bad : \A U \in Bad : U \subseteq T => U = T
  <2>1. Bad \subseteq SUBSET S /\ Bad # {}
    BY Zenon
  <2> HIDE DEF Bad
  <2> QED BY <2>1, SmallestSet
<1>2. T \in SUBSET S /\ ~ Good(T)
  BY <1>1
<1>3. /\ F[T] = IF T = {} THEN 0 ELSE f[Chosen(T)] + F[T \ {Chosen(T)}]
  BY <1>2, Zenon DEF Sums
<1>4. T # {}
  BY <1>2, <1>3
<1>5. Chosen(T) \in T /\ Chosen(T) \in S
  BY <1>4, <1>2 DEF Chosen
<1>6. Good(T \ {Chosen(T)})
  BY <1>1, <1>2, <1>5
<1>7. f[Chosen(T)] \in Nat /\ f[x] \in Nat
  BY <1>5
<1>8. F[T] \in Nat
  BY <1>3, <1>4, <1>6, <1>7
<1>9. CASE Chosen(T) = x
  BY <1>2, <1>3, <1>4, <1>6, <1>7, <1>9
<1>10. CASE Chosen(T) # x
  <2>1. x \in T /\ x \in T \ {Chosen(T)}
    BY <1>2, <1>8, <1>10
  <2>2. F[T \ {Chosen(T)}] \in Nat /\ F[T \ {Chosen(T)}] >= f[x]
    BY <2>1, <1>6
  <2> QED BY <1>2, <1>3, <1>4, <1>7, <2>2
<1> QED BY <1>9, <1>10

-----------------------------------------------------------------------------
(* The inductive invariant *)

SnapshotFields ==
  {"monitored", "latest", "summaries", "history", "integrity", "active", "flags", "status",
   "score", "rating", "readiness", "readinessStatus", "recommendation", "simulation",
   "planWarnings", "contentChanged", "externalMissing", "evidence", "risks"}

Shaped(d) == DOMAIN d = SnapshotFields

Histories == [rate : (0..100) \union {None}, failures : Nat, resolved : Nat]

\* A list of records: finite, each at a position of its own.
Listed(records) ==
  /\ IsFiniteSet(records)
  /\ \A r \in records : /\ r.id \in Backups
                        /\ r.pos \in Int /\ r.made \in Int
                        /\ IsFiniteSet(DOMAIN r.copies)
  /\ \A r, q \in records : r.pos = q.pos => r = q

\* The problems of a snapshot in the two forms it has them in.
Consistent(d) ==
  /\ d.flags = d.active \ {"backup_integrity_failed"}
  /\ d.active \intersect VerdictKeys = IntegrityProblems(d.latest, d.integrity)

\* The problems that age are still there today, and the score is the one of
\* some day up to today.
AgesOf(latest, now) == IF latest = None THEN {None} ELSE 0..Age(now, latest.made)

Locations(latest) == IF latest = None THEN 0 ELSE Cardinality(DOMAIN latest.copies)

Aged(d, now) ==
  /\ "backup_stale" \in d.active => Freshness(d.monitored, now).stale
  /\ "automatic_backup_overdue" \in d.active => Freshness(d.monitored, now).overdue
  /\ "required_location_missing" \in d.active => RequiredLocationMissing(d.latest, d.summaries)
  /\ \E age \in AgesOf(d.latest, now) :
       d.score = HealthScore(d.active, d.history, age, Locations(d.latest))

Summarised(summaries) ==
  \A a \in Agents : DOMAIN summaries[a] = {"newest", "count", "error", "stale", "problem"}

GoodSnapshot(d, now) ==
  /\ Shaped(d)
  /\ Summarised(d.summaries)
  /\ Listed(d.monitored)
  /\ d.latest = Newest(d.monitored)
  /\ d.history \in Histories
  /\ Consistent(d)
  /\ Aged(d, now)

\* The verdict in memory is the last one about its backup, and a checksum in
\* it is one of that backup.
Judged ==
  /\ verdicts = [b \in Backups |-> verdicts[b]]
  /\ integrity.status # "not_checked" \/ integrity.sha # None =>
       integrity.backup \in Backups /\ verdicts[integrity.backup] = integrity
  /\ integrity.sha # None => integrity.sha \in Checksums(integrity.backup)

\* The running check is about a known backup.
CheckSound ==
  checking # None =>
    /\ checking = [record |-> checking.record, previous |-> checking.previous,
                   verified |-> checking.verified, tested |-> checking.tested]
    /\ checking.record.id \in Backups
    /\ checking.verified # None => checking.verified.sha \in Checksums(checking.record.id)

\* The stored runtime test is about the content of its backup, and what it
\* says passed was proved.
Proven ==
  runtime # None =>
    /\ runtime.sha \in Checksums(runtime.backup)
    /\ runtime.passed => runtime.sha \in proved

\* Before the first refresh there is no snapshot, and no check either.
Shown(now) ==
  \/ data = None /\ checking = None /\ startup # "reported"
  \/ GoodSnapshot(data, now)

\* The repair issues follow the snapshot from the first one published after
\* the start phase on; before that there are none.
Reported ==
  /\ startup \in {"held", "settled", "reported"}
  /\ issues = IF startup = "reported" /\ IssuesEnabled THEN IssuesOf(data) ELSE {}

IInv ==
  /\ clock \in Nat
  /\ Shown(clock)
  /\ Reported
  /\ Judged
  /\ CheckSound
  /\ Proven

-----------------------------------------------------------------------------
(* Maxima *)

\* Max of a finite set is in it.
LEMMA MaxIsReached ==
  ASSUME NEW S, IsFiniteSet(S), S # {}, S \subseteq Int
  PROVE  Max(S) \in S /\ \A y \in S : Max(S) >= y
BY MaximumExists, Zenon DEF Max

\* Max and Min of the few numbers they are used for.
LEMMA MaxOfTwo ==
  ASSUME NEW a \in Int, NEW b \in Int
  PROVE  Max({a, b}) = IF a >= b THEN a ELSE b
<1>1. \E x \in {a, b} : \A y \in {a, b} : x >= y
  OBVIOUS
<1>2. Max({a, b}) \in {a, b} /\ \A y \in {a, b} : Max({a, b}) >= y
  BY <1>1, Zenon DEF Max
<1> QED BY <1>2

LEMMA MinOfTwo ==
  ASSUME NEW a \in Int, NEW b \in Int
  PROVE  Min({a, b}) = IF a <= b THEN a ELSE b
<1>1. \E x \in {a, b} : \A y \in {a, b} : x =< y
  OBVIOUS
<1>2. Min({a, b}) \in {a, b} /\ \A y \in {a, b} : Min({a, b}) =< y
  BY <1>1, Zenon DEF Min
<1> QED BY <1>2

LEMMA MaxOfThree ==
  ASSUME NEW a \in Int, NEW b \in Int, NEW c \in Int
  PROVE  Max({a, b, c}) \in {a, b, c} /\ \A y \in {a, b, c} : Max({a, b, c}) >= y
<1>1. \E x \in {a, b, c} : \A y \in {a, b, c} : x >= y
  OBVIOUS
<1> QED BY <1>1, Zenon DEF Max

-----------------------------------------------------------------------------
(* The newest of a list *)

\* What is left of a list by a filter is a list.
LEMMA ListedPart ==
  ASSUME NEW R, Listed(R), NEW Q, Q \subseteq R
  PROVE  Listed(Q)
<1>1. IsFiniteSet(Q)
  BY FS_Subset DEF Listed
<1> QED BY <1>1, Zenon DEF Listed

\* Newest of a list that is not empty is a record of the list.
LEMMA NewestIsListed ==
  ASSUME NEW R, Listed(R), R # {}
  PROVE  Newest(R) \in R
<1> DEFINE First(T, r) == \A q \in T \ {r} : Precedes(r, q)
           Bad == {T \in SUBSET R : T # {} /\ ~ \E r \in T : First(T, r)}
<1>1. SUFFICES R \notin Bad
  <2>1. \E r \in R : First(R, r)
    BY <1>1
  <2> QED BY <2>1, Zenon DEF Newest
<1>2. SUFFICES ASSUME R \in Bad PROVE FALSE
  OBVIOUS
<1>3. PICK T \in Bad : \A U \in Bad : U \subseteq T => U = T
  <2>1. Bad \subseteq SUBSET R /\ Bad # {} /\ IsFiniteSet(R)
    BY <1>2 DEF Listed
  <2> HIDE DEF Bad
  <2> QED BY ONLY <2>1, SmallestSet
<1>4. PICK x \in T : TRUE
  BY <1>3
<1>5. T \ {x} \notin Bad
  BY <1>3, <1>4
<1>6. CASE T = {x}
  <2>1. First(T, x)
    BY <1>6
  <2> QED BY <2>1, <1>3, <1>4
<1>7. CASE T # {x}
  <2>1. PICK m \in T \ {x} : First(T \ {x}, m)
    BY <1>5, <1>7, <1>3, <1>4
  <2>2. \A r \in T : r \in R /\ r.made \in Int /\ r.pos \in Int
    BY <1>3 DEF Listed
  <2>3. m \in T /\ x \in T /\ m.pos # x.pos
    BY <2>1, <1>4, <1>3 DEF Listed
  <2>4. Precedes(m, x) \/ Precedes(x, m)
    BY <2>2, <2>3 DEF Precedes
  <2>5. CASE Precedes(m, x)
    <3>1. First(T, m)
      BY <2>1, <2>5, <2>3
    <3> QED BY <3>1, <2>3, <1>3
  <2>6. CASE Precedes(x, m)
    <3>1. \A q \in T \ {x} : Precedes(x, q)
      <4> SUFFICES ASSUME NEW q \in T \ {x} PROVE Precedes(x, q)
        OBVIOUS
      <4>1. q = m \/ Precedes(m, q)
        BY <2>1
      <4>2. q \in T
        OBVIOUS
      <4> QED BY <4>1, <4>2, <2>2, <2>3, <2>6 DEF Precedes
    <3>2. First(T, x)
      BY <3>1
    <3> QED BY <3>2, <2>3, <1>3
  <2> QED BY <2>4, <2>5, <2>6
<1> QED BY <1>6, <1>7

\* What the manager answers is read as a list of records.
LEMMA AnswerIsListed ==
  ASSUME NEW reading \in Readings
  PROVE  Listed(Monitored(Normalize(reading.backups)))
<1> DEFINE kept == {r \in {raw \in reading.backups : raw.valid} :
                      \A q \in {raw \in reading.backups : raw.valid} : q.id = r.id => r.pos <= q.pos}
           Record == [raw \in kept |-> NormalizeBackup(raw)]
           all == {NormalizeBackup(raw) : raw \in kept}
<1>1. Normalize(reading.backups) = all
  BY Zenon DEF Normalize
<1>2. IsFiniteSet(kept)
  BY ReadingsAssumption, FS_Subset
<1>3. IsFiniteSet(all)
  <2>1. Record \in Surjection(kept, all)
    BY DEF Surjection
  <2> HIDE DEF Record, kept, all
  <2> QED BY <1>2, <2>1, FS_Surjection
<1>4. \A raw \in kept : LET r == NormalizeBackup(raw)
                        IN r.id = raw.id /\ r.pos = raw.pos /\ r.made = raw.made
                           /\ DOMAIN r.copies = DOMAIN raw.copies
  BY Zenon DEF NormalizeBackup
<1>5. \A raw \in kept : raw \in reading.backups
  OBVIOUS
<1>6. Listed(all)
  <2> HIDE DEF kept
  <2>1. \A r \in all : \E raw \in kept : r = NormalizeBackup(raw)
    OBVIOUS
  <2>2. \A r \in all : r.id \in Backups /\ r.pos \in Int /\ r.made \in Int
                       /\ IsFiniteSet(DOMAIN r.copies)
    BY <2>1, <1>4, <1>5, ReadingsAssumption
  <2>3. \A r, q \in all : r.pos = q.pos => r = q
    BY <2>1, <1>4, <1>5, ReadingsAssumption
  <2> QED BY <1>3, <2>2, <2>3 DEF Listed
<1> QED BY <1>1, <1>6, ListedPart DEF Monitored

-----------------------------------------------------------------------------
(* What grows old *)

\* A backup does not get younger.
LEMMA AgeGrows ==
  ASSUME NEW now \in Int, NEW later \in Int, now <= later, NEW made \in Int
  PROVE  Age(now, made) \in Nat /\ Age(later, made) \in Nat /\ Age(now, made) <= Age(later, made)
BY MaxOfTwo DEF Age

\* A backup that was stale, or overdue, still is on a later day.
LEMMA FreshnessAges ==
  ASSUME NEW R, Listed(R), NEW now \in Int, NEW later \in Int, now <= later
  PROVE  /\ Freshness(R, now).stale => Freshness(R, later).stale
         /\ Freshness(R, now).overdue => Freshness(R, later).overdue
<1> DEFINE latest == Newest(R)
           autos == {r \in R : r.automatic}
           manuals == {r \in R : ~r.automatic}
           auto == Newest(autos)
           manual == Newest(manuals)
           age(t) == IF latest = None THEN None ELSE Age(t, latest.made)
<1>1. \A t \in {now, later} : /\ Freshness(R, t).stale = (age(t) # None /\ age(t) > MaxAge)
                              /\ Freshness(R, t).overdue = Overdue(auto, manual, t)
  BY Zenon DEF Freshness
<1>2. latest # None => latest.made \in Int
  BY NewestIsListed, Zenon DEF Newest, Listed
<1>3. auto # None => auto.made \in Int
  <2>1. Listed(autos)
    BY ListedPart
  <2> HIDE DEF autos
  <2> QED BY <2>1, NewestIsListed, Zenon DEF Newest, Listed
<1>4. manual # None => manual.made \in Int
  <2>1. Listed(manuals)
    BY ListedPart
  <2> HIDE DEF manuals
  <2> QED BY <2>1, NewestIsListed, Zenon DEF Newest, Listed
<1>5. MaxAge \in Int
  BY InventoryAssumption
<1> HIDE DEF latest, auto, manual
<1>6. (age(now) # None /\ age(now) > MaxAge) => (age(later) # None /\ age(later) > MaxAge)
  <2> CASE latest = None
    OBVIOUS
  <2> CASE latest # None
    <3>1. Age(now, latest.made) \in Nat /\ Age(later, latest.made) \in Nat
          /\ Age(now, latest.made) <= Age(later, latest.made)
      BY <1>2, AgeGrows
    <3>2. None \notin Nat
      BY InventoryAssumption
    <3> QED BY <3>1, <3>2, <1>5
  <2> QED OBVIOUS
<1>7. Overdue(auto, manual, now) => Overdue(auto, manual, later)
  <2> SUFFICES ASSUME Overdue(auto, manual, now) PROVE Overdue(auto, manual, later)
    OBVIOUS
  <2>1. CASE auto = None
    <3>1. manual = None \/ manual.incomplete \/ Age(now, manual.made) > MaxAge
      BY <2>1 DEF Overdue
    <3>2. manual # None /\ Age(now, manual.made) > MaxAge => Age(later, manual.made) > MaxAge
      <4> SUFFICES ASSUME manual # None, Age(now, manual.made) > MaxAge
                   PROVE  Age(later, manual.made) > MaxAge
        OBVIOUS
      <4>1. /\ Age(now, manual.made) \in Nat /\ Age(later, manual.made) \in Nat
            /\ Age(now, manual.made) <= Age(later, manual.made)
        BY <1>4, AgeGrows
      <4> QED BY <4>1, <1>5
    <3> QED BY <3>1, <3>2, <2>1 DEF Overdue
  <2>2. CASE auto # None
    <3>1. Age(now, auto.made) > MaxAge => Age(later, auto.made) > MaxAge
      <4>1. /\ Age(now, auto.made) \in Nat /\ Age(later, auto.made) \in Nat
            /\ Age(now, auto.made) <= Age(later, auto.made)
        BY <2>2, <1>3, AgeGrows
      <4> QED BY <4>1, <1>5
    <3> QED BY <3>1, <2>2 DEF Overdue
  <2> QED BY <2>1, <2>2
<1> QED BY <1>1, <1>6, <1>7

-----------------------------------------------------------------------------
(* The health score *)

\* The ages a deduction may be asked for: an unknown one only without a stale
\* backup.
Ages(active) == IF "backup_stale" \in active THEN Nat ELSE Nat \union {None}

\* A deduction is a percentage, and no smaller on a later day.
LEMMA DeductionOf ==
  ASSUME NEW p \in DOMAIN Problems, NEW age, NEW later, NEW locations \in Nat,
         p = "backup_stale" => age \in Nat /\ later \in Nat /\ age <= later
  PROVE  /\ Deduction(p, age, locations) \in 0..100
         /\ Deduction(p, later, locations) \in 0..100
         /\ Deduction(p, age, locations) <= Deduction(p, later, locations)
<1>1. CASE p = "backup_stale"
  <2>1. MaxAge \in Nat
    BY InventoryAssumption
  <2>2. /\ StaleDeduction(age) = IF age >= 3 * MaxAge THEN 35
                                 ELSE IF 2 * age >= 3 * MaxAge THEN 25 ELSE 20
        /\ StaleDeduction(later) = IF later >= 3 * MaxAge THEN 35
                                   ELSE IF 2 * later >= 3 * MaxAge THEN 25 ELSE 20
    BY <1>1, <2>1 DEF StaleDeduction
  <2>3. /\ Deduction(p, age, locations) = StaleDeduction(age)
        /\ Deduction(p, later, locations) = StaleDeduction(later)
    BY <1>1, Zenon DEF Deduction
  <2>4. /\ StaleDeduction(age) \in 0..100 /\ StaleDeduction(later) \in 0..100
        /\ StaleDeduction(age) <= StaleDeduction(later)
    BY <1>1, <2>1, <2>2
  <2> QED BY <2>3, <2>4
<1>2. CASE p = "backup_not_redundant"
  <2>1. /\ Deduction(p, age, locations) = RedundancyDeduction(locations)
        /\ Deduction(p, later, locations) = RedundancyDeduction(locations)
    BY <1>2 DEF Deduction
  <2>2. MinLocations - locations \in Int
    BY InventoryAssumption
  <2>3. Max({0, MinLocations - locations}) \in Nat
    BY <2>2, MaxOfTwo
  <2>4. RedundancyDeduction(locations) \in 0..100
    <3> DEFINE lacking == 10 + 5 * Max({0, MinLocations - locations})
    <3>1. lacking \in Nat
      BY <2>3
    <3>2. RedundancyDeduction(locations) = Min({25, lacking})
      BY DEF RedundancyDeduction
    <3> HIDE DEF lacking
    <3>3. Min({25, lacking}) = IF 25 <= lacking THEN 25 ELSE lacking
      BY <3>1, MinOfTwo
    <3> QED BY <3>1, <3>2, <3>3
  <2> QED BY <2>1, <2>4
<1>3. CASE p \notin {"backup_stale", "backup_not_redundant"}
  <2>1. /\ Deduction(p, age, locations) = Problems[p].deduction
        /\ Deduction(p, later, locations) = Problems[p].deduction
    BY <1>3 DEF Deduction
  <2>2. Problems[p].deduction \in 0..100
    BY DEF Problems, Problem
  <2> QED BY <2>1, <2>2
<1> QED BY <1>1, <1>2, <1>3

\* Of more problems the heaviest is no lighter.
LEMMA HeaviestGrows ==
  ASSUME NEW group, group \subseteq DOMAIN Problems, NEW active, NEW more, active \subseteq more,
         NEW age, NEW later, NEW locations \in Nat,
         "backup_stale" \in more => later \in Nat,
         "backup_stale" \in active => age \in Nat /\ age <= later
  PROVE  /\ Heaviest(group, active, age, locations) \in Nat
         /\ Heaviest(group, more, later, locations) \in Nat
         /\ Heaviest(group, active, age, locations) <= Heaviest(group, more, later, locations)
<1> DEFINE Values(set, a) == {0} \union {Deduction(p, a, locations) : p \in group \intersect set}
<1>1. ASSUME NEW set, NEW a, "backup_stale" \in set => a \in Nat
      PROVE  /\ Max(Values(set, a)) \in Values(set, a) /\ Values(set, a) \subseteq Nat
             /\ \A y \in Values(set, a) : Max(Values(set, a)) >= y
  <2>1. \A p \in group \intersect set : Deduction(p, a, locations) \in 0..100
    BY <1>1, DeductionOf
  <2>2. Values(set, a) \subseteq 0..100
    BY <2>1
  <2>3. IsFiniteSet(Values(set, a))
    <3>1. 0 \in Int /\ 100 \in Int
      OBVIOUS
    <3>2. IsFiniteSet(0..100)
      BY ONLY <3>1, FS_Interval
    <3> HIDE DEF Values
    <3> QED BY <2>2, <3>2, FS_Subset
  <2>4. Values(set, a) # {} /\ Values(set, a) \subseteq Int /\ Values(set, a) \subseteq Nat
    BY <2>2
  <2> HIDE DEF Values
  <2> QED BY <2>3, <2>4, MaxIsReached
<1>2. /\ Max(Values(active, age)) \in Values(active, age) /\ Values(active, age) \subseteq Nat
  <2> HIDE DEF Values
  <2> QED BY <1>1
<1>3. /\ Max(Values(more, later)) \in Values(more, later) /\ Values(more, later) \subseteq Nat
      /\ \A y \in Values(more, later) : Max(Values(more, later)) >= y
  <2> HIDE DEF Values
  <2> QED BY <1>1
<1>4. \A x \in Values(active, age) : \E y \in Values(more, later) : x <= y
  <2> TAKE x \in Values(active, age)
  <2>1. CASE x = 0
    BY <2>1
  <2>2. CASE x # 0
    <3>1. PICK p \in group \intersect active : x = Deduction(p, age, locations)
      BY <2>2
    <3>2. x <= Deduction(p, later, locations)
      BY <3>1, DeductionOf
    <3> QED BY <3>1, <3>2
  <2> QED BY <2>1, <2>2
<1>5. Max(Values(active, age)) <= Max(Values(more, later))
  <2> HIDE DEF Values
  <2>1. PICK y \in Values(more, later) : Max(Values(active, age)) <= y
    BY <1>2, <1>4
  <2> QED BY <2>1, <1>2, <1>3
<1>6. /\ Heaviest(group, active, age, locations) = Max(Values(active, age))
      /\ Heaviest(group, more, later, locations) = Max(Values(more, later))
  BY Zenon DEF Heaviest
<1> HIDE DEF Values
<1> QED BY <1>2, <1>3, <1>5, <1>6

\* The sums of the two scores are finite ones.
LEMMA GroupsAreFinite == IsFiniteSet(DeductionGroups) /\ IsFiniteSet(DOMAIN Weights)
<1> DEFINE G1 == {"no_backup", "manager_unavailable"}
           G3 == {"latest_backup_incomplete", "backup_size_suspicious"}
           G4 == {"backup_stale", "automatic_backup_overdue"}
           G5 == {"storage_error", "required_location_missing", "backup_not_redundant"}
<1>1. IsFiniteSet(DeductionGroups)
  <2>1. DeductionGroups =
          (((({} \union {G1}) \union {VerdictKeys}) \union {G3}) \union {G4}) \union {G5}
    BY DEF DeductionGroups
  <2> HIDE DEF G1, G3, G4, G5
  <2> QED BY <2>1, FS_EmptySet, FS_AddElement
<1>2. IsFiniteSet(DOMAIN Weights)
  <2> DEFINE A == (((({} \union {"backup_current"}) \union {"backup_complete"})
                   \union {"homeassistant_included"}) \union {"database_included"})
                   \union {"integrity_verified"}
             B == (({} \union {"database_verified"}) \union {"independent_copy"})
                   \union {"multiple_failure_domains"}
             C == (({} \union {"copy_sizes_consistent"}) \union {"content_stable"})
                   \union {"external_dependencies_protected"}
  <2>1. DOMAIN Weights = (A \union B) \union C
    BY DEF Weights
  <2>2. IsFiniteSet(A)
    BY FS_EmptySet, FS_AddElement
  <2>3. IsFiniteSet(B)
    BY FS_EmptySet, FS_AddElement
  <2>4. IsFiniteSet(C)
    BY FS_EmptySet, FS_AddElement
  <2> HIDE DEF A, B, C
  <2>5. IsFiniteSet(A \union B)
    BY <2>2, <2>3, FS_Union
  <2> QED BY <2>1, <2>4, <2>5, FS_Union
<1> QED BY <1>1, <1>2

Grouped(active, age, locations) ==
  MapThenSumSet(LAMBDA g : Heaviest(g, active, age, locations), DeductionGroups)

GroupValues(active, age, locations) ==
  [g \in DeductionGroups |-> Heaviest(g, active, age, locations)]

\* The deductions of the groups are a sum of what each contributes.
LEMMA GroupedIsSum ==
  ASSUME NEW active, NEW age, NEW locations,
         GroupValues(active, age, locations) \in [DeductionGroups -> Nat]
  PROVE  \E F : /\ Sums(DeductionGroups, GroupValues(active, age, locations), F)
                /\ Grouped(active, age, locations) = F[DeductionGroups]
<1> DEFINE f == GroupValues(active, age, locations)
           IsIter(iter) ==
             iter = [s \in SUBSET DeductionGroups |->
                       IF s = {} THEN 0
                       ELSE Heaviest(Chosen(s), active, age, locations) + iter[s \ {Chosen(s)}]]
           F == CHOOSE iter : IsIter(iter)
<1>1. Grouped(active, age, locations) = F[DeductionGroups]
  BY DEF Grouped, MapThenSumSet, MapThenFoldSet, Chosen
<1>2. \A s \in SUBSET DeductionGroups : s # {} =>
        f[Chosen(s)] = Heaviest(Chosen(s), active, age, locations)
  BY DEF Chosen, GroupValues
<1>3. \A iter : IsIter(iter) <=> Sums(DeductionGroups, f, iter)
  <2> HIDE DEF f
  <2> QED BY <1>2 DEF Sums
<1>4. \E iter : Sums(DeductionGroups, f, iter)
  BY GroupsAreFinite, SumExists
<1>5. IsIter(F)
  <2> HIDE DEF IsIter, f
  <2> QED BY <1>3, <1>4, Zenon
<1> HIDE DEF F, IsIter
<1> QED BY <1>1, <1>3, <1>5

\* More problems, and older ones, do not lower the sum.
LEMMA GroupedGrows ==
  ASSUME NEW active, NEW more, active \subseteq more,
         NEW age, NEW later, NEW locations \in Nat,
         "backup_stale" \in more => later \in Nat,
         "backup_stale" \in active => age \in Nat /\ age <= later
  PROVE  /\ Grouped(active, age, locations) \in Nat
         /\ Grouped(more, later, locations) \in Nat
         /\ Grouped(active, age, locations) <= Grouped(more, later, locations)
<1> DEFINE f == GroupValues(active, age, locations)
           g == GroupValues(more, later, locations)
<1>1. \A group \in DeductionGroups : group \subseteq DOMAIN Problems
  BY DEF DeductionGroups, VerdictKeys, Problems
<1>2. \A group \in DeductionGroups :
        /\ Heaviest(group, active, age, locations) \in Nat
        /\ Heaviest(group, more, later, locations) \in Nat
        /\ Heaviest(group, active, age, locations) <= Heaviest(group, more, later, locations)
  BY <1>1, HeaviestGrows
<1>3. /\ f \in [DeductionGroups -> Nat] /\ g \in [DeductionGroups -> Nat]
      /\ \A x \in DeductionGroups : f[x] <= g[x]
  BY <1>2 DEF GroupValues
<1>4. PICK F : Sums(DeductionGroups, f, F) /\ Grouped(active, age, locations) = F[DeductionGroups]
  BY <1>3, GroupedIsSum
<1>5. PICK G : Sums(DeductionGroups, g, G) /\ Grouped(more, later, locations) = G[DeductionGroups]
  BY <1>3, GroupedIsSum
<1> HIDE DEF f, g
<1> QED BY <1>3, <1>4, <1>5, SumsCompare, GroupsAreFinite

\* What the automatic history deducts is a percentage, too.
LEMMA HistoryDeductions ==
  ASSUME NEW history \in Histories
  PROVE  RateDeduction(history) \in 0..100 /\ StreakDeduction(history) \in 0..100
<1>1. RateDeduction(history) \in 0..100
  <2>1. CASE history.resolved < 3 \/ history.rate = None
    BY <2>1 DEF RateDeduction
  <2>2. CASE ~(history.resolved < 3 \/ history.rate = None)
    <3>1. history.rate \in 0..100
      BY <2>2 DEF Histories
    <3> QED BY <2>2, <3>1 DEF RateDeduction
  <2> QED BY <2>1, <2>2
<1>2. StreakDeduction(history) \in 0..100
  <2> DEFINE streak == Min({history.failures, history.resolved})
             deduction == 5 * streak
  <2>1. history.failures \in Nat /\ history.resolved \in Nat
    BY DEF Histories
  <2>2. streak \in Nat
    BY <2>1, MinOfTwo
  <2>3. deduction \in Nat
    BY <2>2
  <2>4. StreakDeduction(history) = Min({15, deduction})
    BY DEF StreakDeduction
  <2> HIDE DEF deduction
  <2>5. Min({15, deduction}) = IF 15 <= deduction THEN 15 ELSE deduction
    BY <2>3, MinOfTwo
  <2> QED BY <2>3, <2>4, <2>5
<1> QED BY <1>1, <1>2

\* More problems, and older ones, never make for a better score.
LEMMA ScoreWorsens ==
  ASSUME NEW active, NEW more, active \subseteq more, NEW history \in Histories,
         NEW age, NEW later, NEW locations \in Nat,
         "backup_stale" \in more => later \in Nat,
         "backup_stale" \in active => age \in Nat /\ age <= later
  PROVE  /\ HealthScore(active, history, age, locations) \in Nat
         /\ HealthScore(more, history, later, locations) \in Nat
         /\ HealthScore(more, history, later, locations)
              <= HealthScore(active, history, age, locations)
<1> DEFINE Automation(set, a) == Max({Heaviest(AutomationGroup, set, a, locations),
                                      RateDeduction(history), StreakDeduction(history)})
           Raw(set, a) == 100 - Grouped(set, a, locations) - Automation(set, a)
<1>1. \A set, a : HealthScore(set, history, a, locations) =
                    IF "no_backup" \in set THEN 0 ELSE Max({0, Raw(set, a)})
  BY Zenon DEF HealthScore, Grouped
<1>2. /\ Grouped(active, age, locations) \in Nat /\ Grouped(more, later, locations) \in Nat
      /\ Grouped(active, age, locations) <= Grouped(more, later, locations)
  BY GroupedGrows
<1>3. /\ Automation(active, age) \in Nat /\ Automation(more, later) \in Nat
      /\ Automation(active, age) <= Automation(more, later)
  <2> DEFINE h == Heaviest(AutomationGroup, active, age, locations)
             k == Heaviest(AutomationGroup, more, later, locations)
             r == RateDeduction(history)
             s == StreakDeduction(history)
  <2>1. AutomationGroup \subseteq DOMAIN Problems
    BY DEF AutomationGroup, Problems
  <2>2. h \in Nat /\ k \in Nat /\ h <= k
    BY <2>1, HeaviestGrows
  <2>3. r \in Nat /\ s \in Nat
    BY HistoryDeductions
  <2> HIDE DEF h, k, r, s
  <2>4. Max({h, r, s}) \in {h, r, s} /\ \A y \in {h, r, s} : Max({h, r, s}) >= y
    BY <2>2, <2>3, MaxOfThree
  <2>5. Max({k, r, s}) \in {k, r, s} /\ \A y \in {k, r, s} : Max({k, r, s}) >= y
    BY <2>2, <2>3, MaxOfThree
  <2>6. /\ Max({h, r, s}) \in Nat /\ Max({k, r, s}) \in Nat
        /\ Max({h, r, s}) <= Max({k, r, s})
    BY <2>2, <2>3, <2>4, <2>5
  <2> QED BY <2>6 DEF h, k, r, s
<1> HIDE DEF Automation
<1>4. Raw(active, age) \in Int /\ Raw(more, later) \in Int /\ Raw(more, later) <= Raw(active, age)
  BY <1>2, <1>3
<1> HIDE DEF Raw
<1>5. /\ Max({0, Raw(active, age)}) = IF 0 >= Raw(active, age) THEN 0 ELSE Raw(active, age)
      /\ Max({0, Raw(more, later)}) = IF 0 >= Raw(more, later) THEN 0 ELSE Raw(more, later)
  BY <1>4, MaxOfTwo
<1>6. /\ HealthScore(active, history, age, locations) =
           IF "no_backup" \in active THEN 0
           ELSE IF 0 >= Raw(active, age) THEN 0 ELSE Raw(active, age)
      /\ HealthScore(more, history, later, locations) =
           IF "no_backup" \in more THEN 0
           ELSE IF 0 >= Raw(more, later) THEN 0 ELSE Raw(more, later)
  BY <1>1, <1>5
<1> QED BY <1>4, <1>6

-----------------------------------------------------------------------------
(* Snapshots *)

\* What the three ways to change a snapshot leave alone.
LEMMA HealthApplied ==
  ASSUME NEW d, Shaped(d), NEW active, NEW age
  PROVE  LET e == WithHealth(d, active, age)
         IN /\ Shaped(e)
            /\ e.active = active
            /\ e.flags = active \ {"backup_integrity_failed"}
            /\ e.score = HealthScore(active, d.history, age, Locations(d.latest))
            /\ e.monitored = d.monitored /\ e.latest = d.latest /\ e.summaries = d.summaries
            /\ e.history = d.history /\ e.integrity = d.integrity
            /\ e.evidence = d.evidence
BY Zenon DEF WithHealth, Locations, Shaped, SnapshotFields

LEMMA RecoveryApplied ==
  ASSUME NEW d, Shaped(d), NEW recovery
  PROVE  LET e == WithRecovery(d, recovery)
         IN /\ Shaped(e)
            /\ e.active = d.active /\ e.flags = d.flags /\ e.score = d.score
            /\ e.monitored = d.monitored /\ e.latest = d.latest /\ e.summaries = d.summaries
            /\ e.history = d.history /\ e.integrity = d.integrity
            /\ e.evidence = d.evidence
            /\ e.readinessStatus = recovery.status
BY Zenon DEF WithRecovery, Shaped, SnapshotFields

LEMMA FoldApplied ==
  ASSUME NEW d, Shaped(d), NEW result, NEW running, NEW record
  PROVE  LET e == FoldProgress(d, result, running, record)
         IN /\ Shaped(e)
            /\ e.active = d.active /\ e.flags = d.flags /\ e.score = d.score
            /\ e.monitored = d.monitored /\ e.latest = d.latest /\ e.summaries = d.summaries
            /\ e.history = d.history /\ e.integrity = d.integrity
            /\ e.evidence = d.evidence
BY Zenon DEF FoldProgress, Shaped, SnapshotFields

\* The issues drawn from the fields of a snapshot are its active problems.
LEMMA IssuesAreProblems ==
  ASSUME NEW d, Consistent(d)
  PROVE  IssuesOf(d) =
           {p \in d.active : p = "automatic_backup_overdue" => "no_backup" \notin d.active}
<1>1. d.flags \ VerdictKeys = d.active \ VerdictKeys
  BY DEF Consistent, VerdictKeys
<1>2. "no_backup" \in d.flags <=> "no_backup" \in d.active
  BY DEF Consistent
<1>3. "automatic_backup_overdue" \notin VerdictKeys
  BY DEF VerdictKeys
<1> HIDE DEF VerdictKeys
<1> QED BY <1>1, <1>2, <1>3 DEF Consistent, IssuesOf

\* What a snapshot is judged by is not touched when only its view is.
LEMMA SameIsGood ==
  ASSUME NEW now, NEW d, GoodSnapshot(d, now), NEW e, Shaped(e),
         e.active = d.active, e.flags = d.flags, e.score = d.score,
         e.monitored = d.monitored, e.latest = d.latest, e.summaries = d.summaries,
         e.history = d.history, e.integrity = d.integrity
  PROVE  GoodSnapshot(e, now)
BY Zenon DEF GoodSnapshot, Consistent, Aged

\* The newest backup is one of those the manager may list.
LEMMA NewestIsKnown ==
  ASSUME NEW R, Listed(R), NEW latest, latest = Newest(R)
  PROVE  /\ latest # None => latest.made \in Int /\ latest.id \in Backups
         /\ Locations(latest) \in Nat
<1>1. CASE latest = None
  BY <1>1 DEF Locations
<1>2. CASE latest # None
  <2>1. latest \in R
    BY <1>2, NewestIsListed DEF Newest
  <2>2. latest.made \in Int /\ latest.id \in Backups /\ IsFiniteSet(DOMAIN latest.copies)
    BY <2>1, Zenon DEF Listed
  <2> QED BY <1>2, <2>2, FS_CardinalityType DEF Locations
<1> QED BY <1>1, <1>2

\* An age the newest backup has had by now, it has had later as well.
LEMMA AgesGrow ==
  ASSUME NEW R, Listed(R), NEW latest, latest = Newest(R),
         NEW now \in Nat, NEW later \in Nat, now <= later
  PROVE  AgesOf(latest, now) \subseteq AgesOf(latest, later)
<1>1. CASE latest = None
  BY <1>1 DEF AgesOf
<1>2. CASE latest # None
  <2>1. latest.made \in Int
    BY <1>2, NewestIsKnown
  <2>2. /\ Age(now, latest.made) \in Nat /\ Age(later, latest.made) \in Nat
        /\ Age(now, latest.made) <= Age(later, latest.made)
    <3>1. now \in Int /\ later \in Int
      OBVIOUS
    <3> QED BY <2>1, <3>1, AgeGrows
  <2> QED BY <1>2, <2>2 DEF AgesOf
<1> QED BY <1>1, <1>2

\* A good snapshot still is one on a later day.
LEMMA GrownOldIsGood ==
  ASSUME NEW d, NEW now \in Nat, NEW later \in Nat, now <= later, GoodSnapshot(d, now)
  PROVE  GoodSnapshot(d, later)
<1>1. Listed(d.monitored) /\ d.latest = Newest(d.monitored) /\ Aged(d, now)
  BY DEF GoodSnapshot
<1>2. /\ Freshness(d.monitored, now).stale => Freshness(d.monitored, later).stale
      /\ Freshness(d.monitored, now).overdue => Freshness(d.monitored, later).overdue
  BY <1>1, FreshnessAges
<1>3. AgesOf(d.latest, now) \subseteq AgesOf(d.latest, later)
  BY <1>1, AgesGrow
<1>4. Aged(d, later)
  BY <1>1, <1>2, <1>3, Zenon DEF Aged
<1> QED BY <1>4, Zenon DEF GoodSnapshot

\* The age a refresh computes is one of the ages of the newest backup, and a
\* number when the backup is stale.
LEMMA FreshAge ==
  ASSUME NEW R, Listed(R), NEW latest, latest = Newest(R), NEW now \in Nat
  PROVE  LET fresh == Freshness(R, now)
         IN /\ fresh.age \in AgesOf(latest, now)
            /\ fresh.stale => fresh.age \in Nat
            /\ latest # None => fresh.age = Age(now, latest.made) /\ fresh.age \in Nat
            /\ latest = None => fresh.age = None
<1>1. /\ Freshness(R, now).age = IF latest = None THEN None ELSE Age(now, latest.made)
      /\ Freshness(R, now).stale = (Freshness(R, now).age # None /\ Freshness(R, now).age > MaxAge)
  BY Zenon DEF Freshness
<1>2. CASE latest = None
  BY <1>1, <1>2 DEF AgesOf
<1>3. CASE latest # None
  <2>1. latest.made \in Int
    BY <1>3, NewestIsKnown
  <2>2. Age(now, latest.made) \in Nat
    <3>1. now \in Int /\ now <= now
      OBVIOUS
    <3> QED BY <2>1, <3>1, AgeGrows
  <2> QED BY <1>1, <1>3, <2>2 DEF AgesOf
<1> QED BY <1>2, <1>3

\* Nothing but the verdict raises a problem of a verdict, and only an outage
\* the one that the manager cannot be read.
LEMMA FlagsOfRefresh ==
  ASSUME NEW monitored, NEW latest, NEW fresh, NEW native, NEW summaries, NEW result, NEW now
  PROVE  LET active == ProblemFlags(monitored, latest, fresh, native, summaries, result, now)
         IN /\ active \intersect VerdictKeys = IntegrityProblems(latest, result)
            /\ "manager_unavailable" \notin active
            /\ "backup_stale" \in active => fresh.stale
            /\ "automatic_backup_overdue" \in active => fresh.overdue
            /\ "required_location_missing" \in active => RequiredLocationMissing(latest, summaries)
<1> DEFINE other == ProblemFlags(monitored, latest, fresh, native, summaries, result, now)
                      \ IntegrityProblems(latest, result)
<1>1. IntegrityProblems(latest, result) \subseteq VerdictKeys
  BY DEF IntegrityProblems, VerdictProblems
<1>2. \A p \in VerdictKeys : p \notin other
  BY DEF VerdictKeys, ProblemFlags
<1>3. {"manager_unavailable", "backup_stale", "automatic_backup_overdue",
       "required_location_missing"} \intersect VerdictKeys = {}
  BY DEF VerdictKeys
<1>4. /\ "manager_unavailable" \notin other
      /\ "backup_stale" \in other => fresh.stale
      /\ "automatic_backup_overdue" \in other => fresh.overdue
      /\ "required_location_missing" \in other => RequiredLocationMissing(latest, summaries)
  BY DEF ProblemFlags
<1>5. IntegrityProblems(latest, result)
        \subseteq ProblemFlags(monitored, latest, fresh, native, summaries, result, now)
  BY DEF ProblemFlags
<1> HIDE DEF VerdictKeys
<1> QED BY <1>1, <1>2, <1>3, <1>4, <1>5

\* What grows old in the summaries does not touch their errors.
LEMMA AgedSummary ==
  ASSUME NEW summary, NEW now,
         DOMAIN summary = {"newest", "count", "error", "stale", "problem"}
  PROVE  /\ DOMAIN AgeSummary(summary, now) = {"newest", "count", "error", "stale", "problem"}
         /\ AgeSummary(summary, now).error = summary.error
BY Zenon DEF AgeSummary

\* A refresh makes a good snapshot, in which the manager is not missing.
LEMMA SnapshotIsGood ==
  ASSUME NEW reading \in Readings, clock \in Nat
  PROVE  /\ GoodSnapshot(Snapshot(reading), clock)
         /\ "manager_unavailable" \notin Snapshot(reading).active
<1> DEFINE monitored == Monitored(Normalize(reading.backups))
           latest    == Newest(monitored)
           fresh     == Freshness(monitored, clock)
           summaries == AgentSummaries(monitored, reading.errors, clock)
           active    == ProblemFlags(monitored, latest, fresh, reading.native, summaries,
                                     integrity, clock)
           recovery  == Assess(latest, integrity, monitored, fresh.stale)
           base      == Assembled(monitored, latest, summaries, reading.history, recovery)
           health    == WithHealth(base, active, fresh.age)
           s         == Snapshot(reading)
<1>1. Listed(monitored)
  BY AnswerIsListed
<1>2. s = WithRecovery(health, recovery)
  BY Zenon DEF Snapshot
<1>3. Summarised(summaries)
  <2> SUFFICES ASSUME NEW a \in Agents
               PROVE  DOMAIN summaries[a] = {"newest", "count", "error", "stale", "problem"}
    BY Zenon DEF Summarised
  <2> DEFINE newest == Newest({r \in monitored : HoldsCopy(r, a)})
             summary == [newest  |-> IF newest = None THEN None ELSE newest.made,
                         count   |-> Cardinality({r \in monitored : HoldsCopy(r, a)}),
                         error   |-> a \in reading.errors,
                         stale   |-> TRUE,
                         problem |-> TRUE]
  <2>1. summaries[a] = AgeSummary(summary, clock)
    BY Zenon DEF AgentSummaries, AgentSummary
  <2>2. DOMAIN summary = {"newest", "count", "error", "stale", "problem"}
    BY Zenon
  <2> HIDE DEF summary, summaries
  <2> QED BY <2>1, <2>2, AgedSummary
<1>4. reading.history \in Histories
  BY ReadingsAssumption DEF Histories
<1>5. Shaped(base) /\ base.monitored = monitored /\ base.latest = latest
      /\ base.summaries = summaries /\ base.history = reading.history /\ base.integrity = integrity
  BY Zenon DEF Shaped, Assembled, SnapshotFields
<1>6. /\ active \intersect VerdictKeys = IntegrityProblems(latest, integrity)
      /\ "manager_unavailable" \notin active
      /\ "backup_stale" \in active => fresh.stale
      /\ "automatic_backup_overdue" \in active => fresh.overdue
      /\ "required_location_missing" \in active => RequiredLocationMissing(latest, summaries)
  BY FlagsOfRefresh, Zenon
<1>7. fresh.age \in AgesOf(latest, clock)
  BY <1>1, FreshAge, Zenon
<1> HIDE DEF base, recovery, active, summaries, fresh, latest, monitored
<1>8. /\ Shaped(health) /\ health.active = active
      /\ health.flags = active \ {"backup_integrity_failed"}
      /\ health.score = HealthScore(active, reading.history, fresh.age, Locations(latest))
      /\ health.monitored = monitored /\ health.latest = latest /\ health.summaries = summaries
      /\ health.history = reading.history /\ health.integrity = integrity
  <2>1. /\ Shaped(health) /\ health.active = active
        /\ health.flags = active \ {"backup_integrity_failed"}
        /\ health.score = HealthScore(active, base.history, fresh.age, Locations(base.latest))
        /\ health.monitored = base.monitored /\ health.latest = base.latest
        /\ health.summaries = base.summaries
        /\ health.history = base.history /\ health.integrity = base.integrity
    <3>1. Shaped(base)
      BY <1>5
    <3> QED BY ONLY <3>1, HealthApplied
  <2> QED BY <2>1, <1>5
<1> HIDE DEF health, s
<1>9. /\ Shaped(s) /\ s.active = active
      /\ s.flags = active \ {"backup_integrity_failed"}
      /\ s.score = HealthScore(active, reading.history, fresh.age, Locations(latest))
      /\ s.monitored = monitored /\ s.latest = latest /\ s.summaries = summaries
      /\ s.history = reading.history /\ s.integrity = integrity
  BY <1>2, <1>8, RecoveryApplied, Zenon
<1>10. Consistent(s)
  BY <1>6, <1>9, Zenon DEF Consistent
<1>11. Aged(s, clock)
  <2>1. "backup_stale" \in active => Freshness(monitored, clock).stale
    BY <1>6 DEF fresh
  <2>2. "automatic_backup_overdue" \in active => Freshness(monitored, clock).overdue
    BY <1>6 DEF fresh
  <2> QED BY <1>6, <1>7, <1>9, <2>1, <2>2, Zenon DEF Aged
<1>12. s.latest = Newest(s.monitored)
  BY <1>9 DEF latest
<1>13. GoodSnapshot(s, clock)
  BY <1>1, <1>3, <1>4, <1>9, <1>10, <1>11, <1>12, Zenon DEF GoodSnapshot
<1>14. "manager_unavailable" \notin s.active
  BY <1>6, <1>9
<1> QED BY <1>13, <1>14 DEF s

\* An outage keeps every problem, and its score is no better.
LEMMA OutageIsWorse ==
  ASSUME NEW d, clock \in Nat, GoodSnapshot(d, clock)
  PROVE  /\ GoodSnapshot(Outage(d), clock)
         /\ d.active \subseteq Outage(d).active
         /\ Outage(d).score \in Nat /\ d.score \in Nat /\ Outage(d).score <= d.score
<1> DEFINE fresh     == Freshness(d.monitored, clock)
           summaries == [a \in Agents |-> AgeSummary(d.summaries[a], clock)]
           active    == CarriedFlags(d)
                          \union {"manager_unavailable"}
                          \union {p \in {"backup_stale"} : fresh.stale}
                          \union {p \in {"automatic_backup_overdue"} : fresh.overdue}
                          \union {p \in {"required_location_missing"} :
                                    RequiredLocationMissing(d.latest, summaries)}
           recovery  == Assess(d.latest, d.integrity, d.monitored, fresh.stale)
           base      == [d EXCEPT !.summaries = summaries]
           health    == WithHealth(base, active, fresh.age)
           o         == Outage(d)
<1>1. /\ Listed(d.monitored) /\ d.latest = Newest(d.monitored) /\ d.history \in Histories
      /\ Shaped(d) /\ Summarised(d.summaries) /\ Consistent(d) /\ Aged(d, clock)
  BY DEF GoodSnapshot
<1>2. o = WithRecovery(health, recovery)
  BY Zenon DEF Outage
<1>3. /\ Shaped(base) /\ base.monitored = d.monitored /\ base.latest = d.latest
      /\ base.summaries = summaries /\ base.history = d.history /\ base.integrity = d.integrity
  BY <1>1, Zenon DEF Shaped, SnapshotFields
<1>4. /\ Summarised(summaries)
      /\ RequiredLocationMissing(d.latest, d.summaries)
           => RequiredLocationMissing(d.latest, summaries)
  <2>1. \A a \in Agents :
          /\ DOMAIN summaries[a] = {"newest", "count", "error", "stale", "problem"}
          /\ summaries[a].error = d.summaries[a].error
    BY <1>1, AgedSummary DEF Summarised
  <2> HIDE DEF summaries
  <2> QED BY <2>1, Zenon DEF Summarised, RequiredLocationMissing
<1>5. d.active \subseteq active
  <2>1. /\ "backup_stale" \in d.active => "backup_stale" \in active
        /\ "automatic_backup_overdue" \in d.active => "automatic_backup_overdue" \in active
        /\ "required_location_missing" \in d.active => "required_location_missing" \in active
    BY <1>1, <1>4 DEF Aged
  <2>2. "backup_integrity_failed" \in d.active => "backup_integrity_failed" \in active
    BY DEF CarriedFlags
  <2>3. \A p \in d.active \ {"backup_stale", "automatic_backup_overdue",
                             "required_location_missing", "backup_integrity_failed"} : p \in active
    BY <1>1 DEF CarriedFlags, Consistent
  <2> HIDE DEF active
  <2> QED BY <2>1, <2>2, <2>3
<1>6. active \intersect VerdictKeys = IntegrityProblems(d.latest, d.integrity)
  <2>1. active \intersect VerdictKeys = d.active \intersect VerdictKeys
    BY <1>1, <1>5 DEF CarriedFlags, Consistent, VerdictKeys
  <2> QED BY <2>1, <1>1 DEF Consistent
<1>7. /\ "backup_stale" \in active => fresh.stale
      /\ "automatic_backup_overdue" \in active => fresh.overdue
      /\ "required_location_missing" \in active => RequiredLocationMissing(d.latest, summaries)
  BY DEF CarriedFlags
<1>8. /\ fresh.age \in AgesOf(d.latest, clock)
      /\ fresh.stale => fresh.age \in Nat
      /\ d.latest # None => fresh.age = Age(clock, d.latest.made) /\ fresh.age \in Nat
      /\ d.latest = None => fresh.age = None
  BY <1>1, FreshAge, Zenon
<1> HIDE DEF base, recovery, active, summaries, fresh
<1>9. /\ Shaped(health) /\ health.active = active
      /\ health.flags = active \ {"backup_integrity_failed"}
      /\ health.score = HealthScore(active, d.history, fresh.age, Locations(d.latest))
      /\ health.monitored = d.monitored /\ health.latest = d.latest
      /\ health.summaries = summaries
      /\ health.history = d.history /\ health.integrity = d.integrity
  <2>1. /\ Shaped(health) /\ health.active = active
        /\ health.flags = active \ {"backup_integrity_failed"}
        /\ health.score = HealthScore(active, base.history, fresh.age, Locations(base.latest))
        /\ health.monitored = base.monitored /\ health.latest = base.latest
        /\ health.summaries = base.summaries
        /\ health.history = base.history /\ health.integrity = base.integrity
    <3>1. Shaped(base)
      BY <1>3
    <3> QED BY ONLY <3>1, HealthApplied
  <2> QED BY <2>1, <1>3
<1> HIDE DEF health, o
<1>10. /\ Shaped(o) /\ o.active = active
       /\ o.flags = active \ {"backup_integrity_failed"}
       /\ o.score = HealthScore(active, d.history, fresh.age, Locations(d.latest))
       /\ o.monitored = d.monitored /\ o.latest = d.latest /\ o.summaries = summaries
       /\ o.history = d.history /\ o.integrity = d.integrity
  BY <1>2, <1>9, RecoveryApplied, Zenon
<1>11. GoodSnapshot(o, clock)
  <2>1. Consistent(o)
    BY <1>6, <1>10, Zenon DEF Consistent
  <2>2. Freshness(d.monitored, clock) = fresh
    BY DEF fresh
  <2>3. Aged(o, clock)
    BY <1>7, <1>8, <1>10, <2>2, Zenon DEF Aged
  <2> QED BY <1>1, <1>4, <1>10, <2>1, <2>3, Zenon DEF GoodSnapshot
<1>12. o.score \in Nat /\ d.score \in Nat /\ o.score <= d.score
  <2>1. PICK age \in AgesOf(d.latest, clock) :
          d.score = HealthScore(d.active, d.history, age, Locations(d.latest))
    BY <1>1, Zenon DEF Aged
  <2>2. Locations(d.latest) \in Nat
    BY <1>1, NewestIsKnown
  <2>3. d.latest # None => age \in Nat /\ age <= fresh.age
    BY <1>8, <2>1 DEF AgesOf
  <2>4. "backup_stale" \in d.active => fresh.stale
    BY <1>1 DEF Aged, fresh
  <2>5. fresh.stale => d.latest # None
    <3>1. None \notin Nat
      BY InventoryAssumption
    <3> QED BY <3>1, <1>8
  <2>6. "backup_stale" \in active => fresh.age \in Nat
    BY <1>7, <1>8
  <2>7. "backup_stale" \in d.active => age \in Nat /\ age <= fresh.age
    BY <2>3, <2>4, <2>5
  <2> QED BY <1>1, <1>5, <1>10, <2>1, <2>2, <2>6, <2>7, ScoreWorsens
<1> QED BY <1>5, <1>10, <1>11, <1>12 DEF o

-----------------------------------------------------------------------------
(* What a refresh claims about the newest backup *)

CheckValues(answers) == [c \in DOMAIN Weights |-> CheckDeduction(c, answers[c])]

\* The score loses at least the weight of any failed check.
LEMMA FailedCheckCosts ==
  ASSUME NEW latest, latest # None, NEW answers, NEW c \in DOMAIN Weights, answers[c] = FALSE
  PROVE  /\ ReadinessScore(latest, answers) \in Int
         /\ ReadinessScore(latest, answers) <= 100 - Weights[c]
<1> DEFINE f == CheckValues(answers)
           IsIter(iter) ==
             iter = [s \in SUBSET DOMAIN Weights |->
                       IF s = {} THEN 0
                       ELSE CheckDeduction(Chosen(s), answers[Chosen(s)]) + iter[s \ {Chosen(s)}]]
           F == CHOOSE iter : IsIter(iter)
<1>1. ReadinessScore(latest, answers) = 100 - F[DOMAIN Weights]
  BY DEF ReadinessScore, MapThenSumSet, MapThenFoldSet, Chosen
<1>2. \A x \in DOMAIN Weights : Weights[x] \in Nat
  BY DEF Weights
<1>3. f \in [DOMAIN Weights -> Nat]
  <2> SUFFICES ASSUME NEW x \in DOMAIN Weights PROVE CheckDeduction(x, answers[x]) \in Nat
    BY DEF CheckValues
  <2>1. Weights[x] \in Nat /\ Weights[x] \div 2 \in Nat
    BY <1>2
  <2>2. None # FALSE
    BY InventoryAssumption
  <2> QED BY <2>1, <2>2 DEF CheckDeduction
<1>4. \A s \in SUBSET DOMAIN Weights : s # {} =>
        f[Chosen(s)] = CheckDeduction(Chosen(s), answers[Chosen(s)])
  BY Zenon DEF Chosen, CheckValues
<1>5. \A iter : IsIter(iter) <=> Sums(DOMAIN Weights, f, iter)
  <2> HIDE DEF f
  <2> QED BY <1>4 DEF Sums
<1>6. IsIter(F)
  <2>1. \E iter : Sums(DOMAIN Weights, f, iter)
    <3> HIDE DEF f
    <3> QED BY <1>3, GroupsAreFinite, SumExists
  <2> HIDE DEF IsIter, f
  <2> QED BY <1>5, <2>1, Zenon
<1>7. f[c] = Weights[c]
  <2>1. CheckDeduction(c, FALSE) = Weights[c]
    <3>1. None # FALSE
      BY InventoryAssumption
    <3> QED BY <3>1 DEF CheckDeduction
  <2> QED BY <2>1 DEF CheckValues
<1> HIDE DEF F, IsIter, f
<1>8. F[DOMAIN Weights] \in Nat /\ F[DOMAIN Weights] >= f[c]
  BY <1>3, <1>5, <1>6, GroupsAreFinite, SumIsAtLeast
<1> QED BY <1>1, <1>2, <1>7, <1>8

\* "ready" needs a check of this very backup that passed: without one the
\* score is below what "ready" asks for, whatever else was documented.
LEMMA ReadyIsVerified ==
  ASSUME NEW latest, latest # None, NEW result, NEW monitored, NEW stale, NEW protected,
         NEW evidence,
         ReadinessStatus(ReadinessScore(latest, ReadinessChecks(latest, result, monitored,
                                                                stale, protected)),
                         evidence) = "ready"
  PROVE  result.backup = latest.id /\ result.status \in Passed
<1> DEFINE answers == ReadinessChecks(latest, result, monitored, stale, protected)
           score  == ReadinessScore(latest, answers)
<1>1. SUFFICES ASSUME ~ (result.backup = latest.id /\ result.status \in Passed) PROVE FALSE
  OBVIOUS
<1>2. answers.integrity_verified = (result.backup = latest.id /\ result.status \in Passed)
  BY Zenon DEF ReadinessChecks
<1>3. answers["integrity_verified"] = FALSE
  BY <1>1, <1>2
<1>4. "integrity_verified" \in DOMAIN Weights /\ Weights["integrity_verified"] = 16
  BY DEF Weights
<1> HIDE DEF answers
<1>5. score \in Int /\ score <= 100 - Weights["integrity_verified"]
  BY <1>3, <1>4, FailedCheckCosts
<1>6. score \in Int /\ score <= 84
  BY <1>4, <1>5
<1> HIDE DEF score
<1>7. ReadinessStatus(score, evidence) # "ready"
  BY <1>6 DEF ReadinessStatus
<1> QED BY <1>7 DEF score, answers

\* The simulation passes only on a passed check of this very backup.
LEMMA SimulationOf ==
  ASSUME NEW latest, latest # None, NEW result, NEW running,
         SimulationPassed(SimulationStatus(latest, result, running)) = TRUE
  PROVE  result.backup = latest.id /\ result.status \in Passed
<1> DEFINE status == SimulationStatus(latest, result, running)
<1>1. status \in {"passed", "warning"}
  <2>1. None # TRUE
    BY InventoryAssumption
  <2> HIDE DEF status
  <2>2. status \in {"failed", "aborted", "password_required"} => SimulationPassed(status) = FALSE
    BY DEF SimulationPassed
  <2>3. status \notin {"passed", "warning", "failed", "aborted", "password_required"} =>
          SimulationPassed(status) = None
    BY DEF SimulationPassed
  <2> QED BY <2>1, <2>2, <2>3 DEF status
<1>2. running # latest.id
  BY <1>1 DEF SimulationStatus
<1>3. HasRun(latest, result)
  BY <1>1, <1>2 DEF SimulationStatus
<1>4. ~ Blocking(latest, result)
  <2> SUFFICES ASSUME Blocking(latest, result) PROVE FALSE
    OBVIOUS
  <2>1. status \in {"password_required", "aborted", "inconclusive", "failed"}
    BY <1>2, <1>3 DEF SimulationStatus
  <2> QED BY <1>1, <2>1
<1> QED BY <1>3, <1>4 DEF HasRun, Blocking

\* What the snapshot of a refresh claims rests on the verdict in memory, about
\* that very backup, and on the stored runtime test.
LEMMA ClaimsOfRefresh ==
  ASSUME NEW reading \in Readings, Snapshot(reading).latest # None
  PROVE  LET s == Snapshot(reading)
         IN /\ s.evidence = "structurally_verified" =>
                 integrity.backup = s.latest.id /\ integrity.status \in Passed
            /\ s.evidence = "runtime_ready" => VerifiedFor(runtime, s.latest, integrity)
            /\ s.readinessStatus = "ready" =>
                 integrity.backup = s.latest.id /\ integrity.status \in Passed
<1> DEFINE monitored == Monitored(Normalize(reading.backups))
           latest    == Newest(monitored)
           fresh     == Freshness(monitored, clock)
           summaries == AgentSummaries(monitored, reading.errors, clock)
           active    == ProblemFlags(monitored, latest, fresh, reading.native, summaries,
                                     integrity, clock)
           recovery  == Assess(latest, integrity, monitored, fresh.stale)
           base      == Assembled(monitored, latest, summaries, reading.history, recovery)
           health    == WithHealth(base, active, fresh.age)
           s         == Snapshot(reading)
           protected  == DependenciesProtected(items, DetectedDependencies(Domains, latest), clock)
           table      == ReadinessChecks(latest, integrity, monitored, fresh.stale, protected)
           simulation == SimulationStatus(latest, integrity, Running)
           external   == RestorePassed(restore, clock)
           evidence   == EvidenceLevel(latest, SimulationPassed(simulation), external,
                                       VerifiedFor(runtime, latest, integrity))
<1>1. s = WithRecovery(health, recovery)
  BY Zenon DEF Snapshot
<1>2. Shaped(base) /\ base.latest = latest /\ base.evidence = recovery.evidence
  BY Zenon DEF Shaped, Assembled, SnapshotFields
<1>3. /\ recovery.evidence = evidence
      /\ recovery.status = ReadinessStatus(ReadinessScore(latest, table), evidence)
  BY Zenon DEF Assess
<1> HIDE DEF base, recovery, active, summaries, fresh, latest, monitored, evidence
<1>4. Shaped(health) /\ health.latest = base.latest /\ health.evidence = base.evidence
  <2>1. Shaped(base)
    BY <1>2
  <2> QED BY ONLY <2>1, HealthApplied
<1> HIDE DEF health, s
<1>5. /\ s.latest = health.latest /\ s.evidence = health.evidence
      /\ s.readinessStatus = recovery.status
  BY <1>1, <1>4, RecoveryApplied, Zenon
<1>6. s.latest = latest /\ s.evidence = evidence
      /\ s.readinessStatus = ReadinessStatus(ReadinessScore(latest, table), evidence)
  BY <1>2, <1>3, <1>4, <1>5
<1>7. latest # None
  BY <1>6 DEF s
<1>8. s.evidence = "structurally_verified" => SimulationPassed(simulation) = TRUE
  BY <1>6, <1>7 DEF evidence, EvidenceLevel
<1>9. s.evidence = "runtime_ready" => VerifiedFor(runtime, latest, integrity)
  BY <1>6, <1>7 DEF evidence, EvidenceLevel
<1>10. s.evidence = "structurally_verified" =>
         integrity.backup = latest.id /\ integrity.status \in Passed
  BY <1>7, <1>8, SimulationOf
<1>11. s.readinessStatus = "ready" =>
         integrity.backup = latest.id /\ integrity.status \in Passed
  <2> SUFFICES ASSUME s.readinessStatus = "ready"
               PROVE  integrity.backup = latest.id /\ integrity.status \in Passed
    OBVIOUS
  <2>1. ReadinessStatus(ReadinessScore(latest, ReadinessChecks(latest, integrity, monitored,
                                                               fresh.stale, protected)),
                        evidence) = "ready"
    BY <1>6
  <2> HIDE DEF protected, table
  <2> QED BY ONLY <1>7, <2>1, ReadyIsVerified
<1> QED BY <1>6, <1>9, <1>10, <1>11 DEF s

-----------------------------------------------------------------------------
(* The invariant is inductive *)

\* A verdict names its backup, and no checksum that is not one of its copies'.
LEMMA VerdictIsKnown ==
  ASSUME NEW b, NEW previous, NEW result \in VerdictsOn(b, previous)
  PROVE  /\ result.backup = b
         /\ result.sha # None => result.sha \in Checksums(b)
         /\ result.status \in Passed => result.sha \in Checksums(b)
<1>1. CASE result \in Unread(b)
  BY <1>1 DEF Unread, Passed
<1>2. CASE result \in Downloaded(b, previous)
  <2>1. PICK status \in Outcomes : result \in OfStatus(b, status)
    BY <1>2, Zenon DEF Downloaded
  <2> QED BY <2>1 DEF OfStatus
<1> QED BY <1>1, <1>2 DEF VerdictsOn

\* A new verdict replaces the one about its backup.
LEMMA VerdictIsJudged ==
  ASSUME Judged, NEW b \in Backups, NEW previous, NEW result \in VerdictsOn(b, previous),
         integrity' = result, verdicts' = [verdicts EXCEPT ![result.backup] = result]
  PROVE  Judged'
<1>1. result.backup = b /\ (result.sha # None => result.sha \in Checksums(b))
  BY VerdictIsKnown
<1>2. verdicts = [x \in Backups |-> verdicts[x]]
  BY DEF Judged
<1>3. verdicts' = [x \in Backups |-> verdicts'[x]] /\ verdicts'[b] = result
  BY <1>1, <1>2
<1> QED BY <1>1, <1>3 DEF Judged

\* A step of a check changes nothing of the snapshot but the view.
LEMMA FoldIsGood ==
  ASSUME NEW d, NEW now, GoodSnapshot(d, now), NEW result, NEW running, NEW record
  PROVE  LET e == FoldProgress(d, result, running, record)
         IN /\ GoodSnapshot(e, now)
            /\ e.active = d.active /\ e.score = d.score
<1> DEFINE e == FoldProgress(d, result, running, record)
<1>1. Shaped(d)
  BY DEF GoodSnapshot
<1>2. /\ Shaped(e)
      /\ e.active = d.active /\ e.flags = d.flags /\ e.score = d.score
      /\ e.monitored = d.monitored /\ e.latest = d.latest /\ e.summaries = d.summaries
      /\ e.history = d.history /\ e.integrity = d.integrity
  BY <1>1, FoldApplied
<1> HIDE DEF e
<1>3. GoodSnapshot(e, now)
  BY <1>2, SameIsGood
<1> QED BY <1>2, <1>3 DEF e

\* Whatever is published is shown, and reported unless the hold forbids it.
LEMMA PublishIsShown ==
  ASSUME NEW d, GoodSnapshot(d, clock), Publish(d), clock' = clock, Reported
  PROVE  Shown(clock)' /\ Reported'
<1>1. data' = d /\ clock' = clock
  BY DEF Publish
<1>2. GoodSnapshot(data', clock')
  BY <1>1
<1>3. Shown(clock)'
  BY <1>2 DEF Shown
<1>4. CASE startup = "held"
  <2>1. issues = {} /\ issues' = issues /\ startup' = "held"
    BY <1>4 DEF Publish, Reported
  <2>2. Reported'
    BY <2>1 DEF Reported
  <2> QED BY <1>3, <2>2
<1>5. CASE startup # "held"
  <2>1. startup' = "reported" /\ issues' = IF IssuesEnabled THEN IssuesOf(d) ELSE {}
    BY <1>5 DEF Publish
  <2> QED BY <1>1, <1>3, <2>1 DEF Reported
<1> QED BY <1>4, <1>5

\* At first nothing is shown and nothing has been checked.
LEMMA InitIsGood == Init => IInv
<1> SUFFICES ASSUME Init PROVE IInv
  OBVIOUS
<1>1. Judged
  BY Zenon DEF Init, Judged, NotChecked
<1>2. Reported
  BY DEF Init, Reported
<1> QED BY <1>1, <1>2 DEF Init, IInv, Shown, CheckSound, Proven

\* The parts of IInv are kept together: a snapshot is good because verdicts are
\* sound, and each action touches few of them.
LEMMA StepIsGood == IInv /\ [Next]_vars => IInv'
<1> SUFFICES ASSUME IInv, [Next]_vars PROVE IInv'
  OBVIOUS
<1>0. clock \in Nat /\ Shown(clock) /\ Reported /\ Judged /\ CheckSound /\ Proven
  BY DEF IInv
<1> DEFINE Same == UNCHANGED <<integrity, checking, runtime, verdicts, proved>>
<1>1. ASSUME Same PROVE Judged' /\ CheckSound' /\ Proven'
  BY <1>0, <1>1 DEF Judged, CheckSound, Proven
<1>2. ASSUME clock' \in Nat, Shown(clock)', Reported', Judged', CheckSound', Proven' PROVE IInv'
  BY <1>2 DEF IInv
<1>3. CASE Tick
  <2>1. /\ clock' \in Nat /\ clock <= clock' /\ Same
        /\ data' = data /\ issues' = issues /\ startup' = startup
    BY <1>0, <1>3 DEF Tick
  <2>2. GoodSnapshot(data, clock) => GoodSnapshot(data, clock')
    BY <1>0, <2>1, GrownOldIsGood
  <2>3. Shown(clock)' /\ Reported'
    BY <1>0, <2>1, <2>2 DEF Shown, Reported, Same
  <2> QED BY <1>1, <1>2, <2>1, <2>3
<1>4. ASSUME NEW reading \in Readings, Refresh(reading) PROVE IInv'
  <2>1. Publish(Snapshot(reading)) /\ clock' = clock /\ Same
    BY <1>4 DEF Refresh
  <2>2. Shown(clock)' /\ Reported'
    BY <1>0, <2>1, SnapshotIsGood, PublishIsShown
  <2> QED BY <1>0, <1>1, <1>2, <2>1, <2>2
<1>5. CASE ManagerFails
  <2>1. data # None /\ Publish(Outage(data)) /\ clock' = clock /\ Same
    BY <1>5 DEF ManagerFails
  <2>2. GoodSnapshot(Outage(data), clock)
    BY <1>0, <2>1, OutageIsWorse DEF Shown
  <2>3. Shown(clock)' /\ Reported'
    BY <1>0, <2>1, <2>2, PublishIsShown
  <2> QED BY <1>0, <1>1, <1>2, <2>1, <2>3
\* The steps of a check publish the same snapshot under another view.
<1>6. ASSUME NEW result, NEW running, NEW record, GoodSnapshot(data, clock), clock' = clock,
             Publish(FoldProgress(data, result, running, record))
      PROVE  Shown(clock)' /\ Reported'
  <2>1. GoodSnapshot(FoldProgress(data, result, running, record), clock)
    BY <1>6, FoldIsGood
  <2> QED BY <1>0, <1>6, <2>1, PublishIsShown
<1>7. CASE StartCheck
  <2>1. /\ data # None /\ data.latest # None /\ clock' = clock
        /\ checking' = [record |-> data.latest, previous |-> integrity,
                        verified |-> None, tested |-> FALSE]
        /\ Publish(FoldProgress(data, integrity, data.latest, data.latest))
        /\ UNCHANGED <<integrity, runtime, verdicts, proved>>
    BY <1>7 DEF StartCheck
  <2>2. GoodSnapshot(data, clock)
    BY <1>0, <2>1 DEF Shown
  <2>3. data.latest.id \in Backups
    BY <2>1, <2>2, NewestIsKnown DEF GoodSnapshot
  <2>4. CheckSound'
    BY <2>1, <2>3 DEF CheckSound
  <2>5. Judged' /\ Proven'
    BY <1>0, <2>1 DEF Judged, Proven
  <2>6. Shown(clock)' /\ Reported'
    BY <2>1, <2>2, <1>6
  <2> QED BY <1>0, <1>2, <2>1, <2>4, <2>5, <2>6
<1>8. CASE StartRuntimeTest
  <2>1. PICK result \in VerdictsOn(checking.record.id, checking.previous) :
          /\ result.status \in Passed
          /\ checking' = [checking EXCEPT !.verified = result]
          /\ integrity' = result
          /\ verdicts' = [verdicts EXCEPT ![result.backup] = result]
          /\ Publish(FoldProgress(data, result, checking.record, checking.record))
    BY <1>8, Zenon DEF StartRuntimeTest
  <2>2. checking # None /\ clock' = clock /\ UNCHANGED <<runtime, proved>>
    BY <1>8 DEF StartRuntimeTest
  <2>3. checking.record.id \in Backups
    BY <1>0, <2>2 DEF CheckSound
  <2>4. Judged'
    BY <1>0, <2>1, <2>3, VerdictIsJudged
  <2>5. result.sha \in Checksums(checking.record.id)
    BY <2>1, VerdictIsKnown
  <2>6. CheckSound'
    BY <1>0, <2>1, <2>2, <2>3, <2>5 DEF CheckSound
  <2>7. Proven'
    BY <1>0, <2>2 DEF Proven
  <2>8. Shown(clock)' /\ Reported'
    <3>1. GoodSnapshot(data, clock)
      BY <1>0, <2>2 DEF Shown
    <3> QED BY <2>1, <2>2, <3>1, <1>6
  <2> QED BY <1>0, <1>2, <2>2, <2>4, <2>6, <2>7, <2>8
<1>9. CASE EndRuntimeTest
  <2>1. PICK passed \in BOOLEAN :
          /\ runtime' = [backup |-> checking.record.id, sha |-> checking.verified.sha,
                         passed |-> passed]
          /\ proved' = IF passed THEN proved \union {checking.verified.sha} ELSE proved
          /\ Publish(FoldProgress(data, integrity, checking.record, checking.record))
    BY <1>9, Zenon DEF EndRuntimeTest
  <2>2. /\ checking # None /\ checking.verified # None
        /\ checking' = [checking EXCEPT !.tested = TRUE]
        /\ clock' = clock /\ UNCHANGED <<integrity, verdicts>>
    BY <1>9 DEF EndRuntimeTest
  <2>3. CheckSound'
    BY <1>0, <2>2 DEF CheckSound
  <2>4. Judged'
    BY <1>0, <2>2 DEF Judged
  <2>5. Proven'
    BY <1>0, <2>1, <2>2 DEF CheckSound, Proven
  <2>6. Shown(clock)' /\ Reported'
    <3>1. GoodSnapshot(data, clock)
      BY <1>0, <2>2 DEF Shown
    <3> QED BY <2>1, <2>2, <3>1, <1>6
  <2> QED BY <1>0, <1>2, <2>2, <2>3, <2>4, <2>5, <2>6
<1>10. CASE FinishCheck
  <2>1. PICK result \in VerdictsOn(checking.record.id, checking.previous) :
          /\ integrity' = result
          /\ verdicts' = [verdicts EXCEPT ![result.backup] = result]
          /\ Publish(FoldProgress(data, result, None, checking.record))
    BY <1>10, Zenon DEF FinishCheck
  <2>2. checking # None /\ checking' = None /\ clock' = clock /\ UNCHANGED <<runtime, proved>>
    BY <1>10 DEF FinishCheck
  <2>3. checking.record.id \in Backups
    BY <1>0, <2>2 DEF CheckSound
  <2>4. Judged'
    BY <1>0, <2>1, <2>3, VerdictIsJudged
  <2>5. CheckSound' /\ Proven'
    BY <1>0, <2>2 DEF CheckSound, Proven
  <2>6. Shown(clock)' /\ Reported'
    <3>1. GoodSnapshot(data, clock)
      BY <1>0, <2>2 DEF Shown
    <3> QED BY <2>1, <2>2, <3>1, <1>6
  <2> QED BY <1>0, <1>2, <2>2, <2>4, <2>5, <2>6
<1>11. CASE DocumentRestore
  <2>1. clock' = clock /\ data' = data /\ issues' = issues /\ startup' = startup /\ Same
    BY <1>11 DEF DocumentRestore
  <2>2. Shown(clock)' /\ Reported'
    BY <1>0, <2>1 DEF Shown, Reported, Same
  <2> QED BY <1>0, <1>1, <1>2, <2>1, <2>2
<1>12. CASE SetItem
  <2>1. clock' = clock /\ data' = data /\ issues' = issues /\ startup' = startup /\ Same
    BY <1>12 DEF SetItem
  <2>2. Shown(clock)' /\ Reported'
    BY <1>0, <2>1 DEF Shown, Reported, Same
  <2> QED BY <1>0, <1>1, <1>2, <2>1, <2>2
<1>13. CASE Settle
  <2>1. clock' = clock /\ data' = data /\ issues' = issues /\ Same
    BY <1>13 DEF Settle
  <2>2. startup = "held" /\ startup' = "settled"
    BY <1>13 DEF Settle
  <2>3. Shown(clock)' /\ Reported'
    BY <1>0, <2>1, <2>2 DEF Shown, Reported, Same
  <2> QED BY <1>0, <1>1, <1>2, <2>1, <2>3
<1>14. CASE UNCHANGED vars
  <2>1. clock' = clock /\ data' = data /\ issues' = issues /\ startup' = startup /\ Same
    BY <1>14 DEF vars
  <2>2. Shown(clock)' /\ Reported'
    BY <1>0, <2>1 DEF Shown, Reported, Same
  <2> QED BY <1>0, <1>1, <1>2, <2>1, <2>2
<1> QED BY <1>3, <1>4, <1>5, <1>7, <1>8, <1>9, <1>10, <1>11, <1>12, <1>13, <1>14 DEF Next

\* The invariant the theorems follow from.
LEMMA Inductive == Spec => []IInv
BY InitIsGood, StepIsGood, PTL DEF Spec

-----------------------------------------------------------------------------
(* Theorems *)

\* From the first snapshot after the start phase on the repair issues are the
\* active problems: repairs.py computes them from the fields of the snapshot and
\* its verdict, and they agree with the list _evaluate_problem_state made, after
\* refreshes, outages and steps of checks.  Before that, and with the option
\* off, there are none (_sync_repair_issues).
THEOREM IssuesAreTheProblems == Spec => []IssuesMatchProblems
<1>1. IInv => IssuesMatchProblems
  <2> SUFFICES ASSUME IInv PROVE IssuesMatchProblems
    OBVIOUS
  <2>1. CASE startup = "reported" /\ IssuesEnabled
    <3>1. Consistent(data) /\ issues = IssuesOf(data)
      BY <2>1 DEF IInv, Shown, Reported, GoodSnapshot
    <3> QED BY <2>1, <3>1, IssuesAreProblems DEF IssuesMatchProblems
  <2>2. CASE ~ (startup = "reported" /\ IssuesEnabled)
    BY <2>2, Zenon DEF IInv, Reported, IssuesMatchProblems
  <2> QED BY <2>1, <2>2
<1> QED BY <1>1, Inductive, PTL

\* While the backup manager cannot be read no problem disappears and the
\* health score does not rise (_manager_error_snapshot).
THEOREM OutagesHideNothing == Spec => OutageHidesNothing
<1> DEFINE Hides == ~ (data # None /\ "manager_unavailable" \in data'.active =>
                         /\ data.active \subseteq data'.active
                         /\ data'.score <= data.score)
<1>1. IInv /\ [Next]_vars => [~ Hides]_vars
  <2> SUFFICES ASSUME IInv, Next, data # None, "manager_unavailable" \in data'.active
               PROVE  data.active \subseteq data'.active /\ data'.score <= data.score
    OBVIOUS
  <2>1. clock \in Nat /\ GoodSnapshot(data, clock)
    BY DEF IInv, Shown
  <2>2. data.score \in Nat
    BY <2>1, OutageIsWorse
  <2>3. ASSUME data'.active = data.active, data'.score = data.score
        PROVE  data.active \subseteq data'.active /\ data'.score <= data.score
    BY <2>2, <2>3
  <2>4. ASSUME NEW reading \in Readings, Refresh(reading) PROVE FALSE
    BY <2>1, <2>4, SnapshotIsGood DEF Refresh, Publish
  <2>5. CASE ManagerFails
    BY <2>1, <2>5, OutageIsWorse DEF ManagerFails, Publish
  <2>6. ASSUME NEW result, NEW running, NEW record,
               Publish(FoldProgress(data, result, running, record))
        PROVE  data'.active = data.active /\ data'.score = data.score
    BY <2>1, <2>6, FoldIsGood DEF Publish
  <2>7. CASE StartCheck
    BY <2>3, <2>6, <2>7 DEF StartCheck
  <2>8. CASE StartRuntimeTest
    BY <2>3, <2>6, <2>8 DEF StartRuntimeTest
  <2>9. CASE EndRuntimeTest
    BY <2>3, <2>6, <2>9 DEF EndRuntimeTest
  <2>10. CASE FinishCheck
    BY <2>3, <2>6, <2>10 DEF FinishCheck
  <2>11. CASE Tick \/ Settle \/ DocumentRestore \/ SetItem
    BY <2>3, <2>11 DEF Tick, Settle, DocumentRestore, SetItem
  <2> QED BY <2>4, <2>5, <2>7, <2>8, <2>9, <2>10, <2>11 DEF Next
<1> QED BY <1>1, Inductive, PTL DEF Spec, OutageHidesNothing

\* A refresh claims nothing of the newest backup that the last verdict about
\* that backup, or the runner, did not show: also when the verdict in memory
\* is meanwhile about another backup (_async_build_snapshot).
THEOREM ClaimsAreEarned == Spec => EvidenceIsReal
<1> DEFINE Earned == Overclaims' => ~ \E reading \in Readings : Refresh(reading)
<1>1. IInv /\ [Next]_vars => Earned
  <2> SUFFICES ASSUME IInv, NEW reading \in Readings, Refresh(reading), Overclaims'
               PROVE  FALSE
    OBVIOUS
  <2> DEFINE s == Snapshot(reading)
             b == s.latest.id
  <2>1. data' = s /\ verdicts' = verdicts /\ proved' = proved
    BY DEF Refresh, Publish
  <2>2. Judged /\ Proven
    BY DEF IInv
  <2> HIDE DEF s
  <2>3. /\ s.latest # None
        /\ \/ s.evidence = "structurally_verified" /\ verdicts[b].status \notin Passed
           \/ s.evidence = "runtime_ready" /\ verdicts[b].sha \notin proved
           \/ s.readinessStatus = "ready" /\ verdicts[b].status \notin Passed
    BY <2>1 DEF Overclaims
  <2>4. /\ s.evidence = "structurally_verified" =>
             integrity.backup = b /\ integrity.status \in Passed
        /\ s.evidence = "runtime_ready" => VerifiedFor(runtime, s.latest, integrity)
        /\ s.readinessStatus = "ready" =>
             integrity.backup = b /\ integrity.status \in Passed
    BY <2>3, ClaimsOfRefresh DEF s
  <2>5. integrity.backup = b /\ integrity.status \in Passed => verdicts[b].status \in Passed
    BY <2>2 DEF Judged, Passed
  <2>6. VerifiedFor(runtime, s.latest, integrity) => verdicts[b].sha \in proved
    <3> SUFFICES ASSUME VerifiedFor(runtime, s.latest, integrity)
                 PROVE  verdicts[b].sha \in proved
      OBVIOUS
    <3>1. /\ runtime # None /\ runtime.passed /\ runtime.backup = b
          /\ integrity.sha # None /\ runtime.sha = integrity.sha
      BY DEF VerifiedFor
    <3>2. /\ runtime.sha \in Checksums(b) /\ runtime.sha \in proved
          /\ integrity.sha \in Checksums(integrity.backup)
          /\ verdicts[integrity.backup] = integrity
      BY <2>2, <3>1 DEF Proven, Judged
    <3>3. integrity.backup = b
      BY <3>1, <3>2 DEF Checksums
    <3> QED BY <3>1, <3>2, <3>3
  <2> QED BY <2>3, <2>4, <2>5, <2>6
<1> QED BY <1>1, Inductive, PTL DEF Spec, EvidenceIsReal
=============================================================================
