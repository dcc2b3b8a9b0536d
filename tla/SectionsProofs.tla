--------------------------- MODULE SectionsProofs ---------------------------
(***************************************************************************)
(* Every property of Sections as a theorem of Spec, for any requests,      *)
(* changelogs, batches, overlap of calls and order of answers.             *)
(*                                                                         *)
(* Two invariants carry them.  Shape: a call's jobs are numbered as its    *)
(* keys are, its analyses are those of its keys, and its sections are      *)
(* made of them.  Sound: what a call was told, what a job counted before   *)
(* the LLM answered, and what the cache keeps agree with a changelog that  *)
(* has only grown since.  Lemmas say what passing time takes away from     *)
(* such an agreement (Later): nothing.                                     *)
(***************************************************************************)
EXTENDS Sections, ArrangementsProofs

USE DEF Edits

LEMMA ConstantFacts ==
  /\ \A b \in Briefings : Requests[b] \subseteq Request
  /\ Log0 \in [Keys -> Seq(Entry)] /\ None \notin Detail
  /\ Unknown \subseteq Keys /\ Moved \subseteq Keys /\ Edited \subseteq Keys
  /\ BatchSize \in Nat \ {0} /\ MaxRetries \in Nat \ {0} /\ MaxConcurrency \in Nat \ {0}
  /\ CacheMax \in Nat /\ MaxLog \in Nat /\ LastDay \in Nat
  /\ MaxAnalysed \in Nat /\ TopN \in Nat /\ NoDay \notin Int
  /\ Facts \in [Keys -> [Edits -> IssueFacts]]
  BY SectionsAssumption, BlockersAssumption

-----------------------------------------------------------------------------
(* Lists.                                                                  *)

LEMMA UpToFacts ==
  ASSUME NEW S, NEW s \in Seq(S), NEW n \in Nat
  PROVE  /\ UpTo(n, s) \in Seq(S) /\ Len(UpTo(n, s)) = IF n < Len(s) THEN n ELSE Len(s)
         /\ DOMAIN UpTo(n, s) = 1..Len(UpTo(n, s))
         /\ \A i \in 1..Len(UpTo(n, s)) : i \in 1..Len(s) /\ UpTo(n, s)[i] = s[i]
  BY DEF UpTo, Lesser

\* What was read of a changelog does not change as it grows.
LEMMA UpToAppended ==
  ASSUME NEW S, NEW s \in Seq(S), NEW e \in S, NEW n \in Nat, n <= Len(s)
  PROVE  UpTo(n, Append(s, e)) = UpTo(n, s)
<1>1. /\ Append(s, e) \in Seq(S) /\ Len(Append(s, e)) = Len(s) + 1 /\ Len(s) \in Nat
      /\ \A i \in 1..Len(s) : Append(s, e)[i] = s[i]
  OBVIOUS
<1>2. /\ UpTo(n, Append(s, e)) \in Seq(S) /\ Len(UpTo(n, Append(s, e))) = n
      /\ \A i \in 1..n : UpTo(n, Append(s, e))[i] = Append(s, e)[i]
  <2>0. PICK t : t = Append(s, e)
    OBVIOUS
  <2>1. t = Append(s, e) /\ t \in Seq(S) /\ n < Len(t)
    BY <1>1, <2>0
  <2>2. /\ UpTo(n, t) \in Seq(S) /\ Len(UpTo(n, t)) = n
        /\ \A i \in 1..Len(UpTo(n, t)) : UpTo(n, t)[i] = t[i]
    BY <2>1, UpToFacts
  <2>3. QED
    BY <2>1, <2>2
<1>3. /\ UpTo(n, s) \in Seq(S) /\ Len(UpTo(n, s)) = n
      /\ \A i \in 1..n : UpTo(n, s)[i] = s[i]
  BY UpToFacts
<1>4. \A i \in 1..n : UpTo(n, Append(s, e))[i] = UpTo(n, s)[i]
  BY <1>1, <1>2, <1>3
<1>5. QED
  BY <1>2, <1>3, <1>4

-----------------------------------------------------------------------------
(* Days blocked.                                                           *)

\* The days of a spell whose dated entries are at I: the greatest there is.
LEMMA SpellGreatest ==
  ASSUME NEW s \in Seq(Entry), NEW day \in Nat, NEW I \in SUBSET (1..Len(s)), I # {},
         \A i \in I : s[i].day \in Int
  PROVE  \E m \in I : \A i \in I : day - s[i].day <= day - s[m].day
<1> DEFINE R == {p \in I \X I : \/ s[p[1]].day > s[p[2]].day
                                \/ s[p[1]].day = s[p[2]].day /\ p[1] < p[2]}
           N == Cardinality(I)
<1>1. IsFiniteSet(I) /\ N \in Nat /\ N # 0
  <2>1. IsFiniteSet(I)
    <3>1. 1..Len(s) \in SUBSET (1..Len(s)) /\ Len(s) \in Int
      OBVIOUS
    <3>2. IsFiniteSet(1..Len(s))
      BY <3>1, FS_Interval
    <3>3. QED
      BY <3>2, FS_Subset
  <2>2. QED
    BY <2>1, FS_CardinalityType, FS_EmptySet
<1>2. Orders(R, I)
  <2>1. \A x, y \in I : <<x, y>> \in R <=> \/ s[x].day > s[y].day
                                           \/ s[x].day = s[y].day /\ x < y
    OBVIOUS
  <2> HIDE DEF R
  <2>2. \A x \in I : x \in Int /\ s[x].day \in Int
    OBVIOUS
  <2>3. \A x, y, z \in I : <<x, y>> \in R /\ <<y, z>> \in R => <<x, z>> \in R
    BY <2>1, <2>2
  <2>4. \A x \in I : <<x, x>> \notin R
    BY <2>1, <2>2
  <2>5. ASSUME NEW x \in I, NEW y \in I PROVE x = y \/ <<x, y>> \in R \/ <<y, x>> \in R
    <3>1. x \in Int /\ y \in Int /\ s[x].day \in Int /\ s[y].day \in Int
      BY <2>2
    <3>2. /\ s[x].day > s[y].day \/ s[x].day = s[y].day \/ s[y].day > s[x].day
          /\ x = y \/ x < y \/ y < x
      BY <3>1
    <3>3. QED
      BY <2>1, <3>2
  <2>6. QED
    BY <2>3, <2>4, <2>5 DEF Orders
<1>3. \A x, y \in I : day - s[x].day < day - s[y].day => <<y, x>> \in R \/ <<x, y>> \in R
  OBVIOUS
<1>4. \A x, y \in I : <<x, y>> \in R => day - s[x].day <= day - s[y].day
  OBVIOUS
<1> HIDE DEF R
<1> DEFINE m == Arranged(I, R)[N]
<1>5. m \in I /\ Place(I, R, m) = N
  BY <1>1, <1>2, ArrangedFacts
<1>6. ASSUME NEW x \in I PROVE x = m \/ <<x, m>> \in R
  <2>1. \A y \in I : Place(I, R, y) \in 1..N
    BY <1>1, <1>2, PlaceFacts
  <2>2. \A y \in I : <<m, y>> \in R => Place(I, R, m) < Place(I, R, y)
    BY <1>1, <1>2, <1>5, PlaceFacts
  <2>3. \A y \in I : <<m, y>> \notin R
    BY <1>1, <1>5, <2>1, <2>2
  <2>4. QED
    BY <1>2, <1>5, <2>3 DEF Orders
<1> HIDE DEF m
<1>7. \A x \in I : s[x].day \in Int
  OBVIOUS
<1>8. ASSUME NEW x \in I PROVE day - s[x].day <= day - s[m].day
  <2>1. CASE x = m
    BY <1>7, <2>1
  <2>2. CASE <<x, m>> \in R
    BY <1>4, <1>5, <2>2
  <2>3. QED
    BY <1>6, <2>1, <2>2
<1>9. QED
  BY <1>5, <1>8

\* _compute_days_blocked against its reference, and the reference as days go by.
LEMMA SpellFacts ==
  ASSUME NEW s \in Seq(Entry), NEW day \in Nat, NEW later \in Nat, day <= later
  PROVE  /\ DaysBlocked(s, day) \in Nat /\ Spell(s, day) \in Nat
         /\ DaysBlocked(s, day) <= Spell(s, day) /\ Spell(s, day) <= Spell(s, later)
<1> DEFINE spell == {i \in DOMAIN s : \A j \in i..Len(s) : s[j].to \in BlockedStatuses}
           dated == {i \in spell : s[i].day # NoDay}
<1>1. /\ Len(s) \in Nat /\ DOMAIN s = 1..Len(s) /\ dated \subseteq 1..Len(s)
      /\ \A i \in 1..Len(s) : s[i] \in Entry
  OBVIOUS
<1>2. \A i \in dated : s[i].day \in Int
  BY <1>1 DEF Entry
<1>3. s # <<>> /\ s[Len(s)].to \in BlockedStatuses /\ s[Len(s)].day # NoDay => Len(s) \in dated
  BY <1>1
<1>4. \A t \in Nat : Spell(s, t) = IF dated = {} THEN 0
                                   ELSE CHOOSE n \in {Greater(0, t - s[i].day) : i \in dated} :
                                          \A i \in dated : t - s[i].day <= n
  BY DEF Spell
<1> HIDE DEF spell, dated
<1>5. ASSUME NEW t \in Nat, dated # {}
      PROVE  /\ Spell(s, t) \in Nat /\ \A i \in dated : t - s[i].day <= Spell(s, t)
             /\ \E i \in dated : Spell(s, t) = Greater(0, t - s[i].day)
  <2>1. PICK m \in dated : \A i \in dated : t - s[i].day <= t - s[m].day
    BY <1>1, <1>2, <1>5, SpellGreatest
  <2>2. PICK n : n = Greater(0, t - s[m].day)
    OBVIOUS
  <2>3. n \in Nat /\ t - s[m].day <= n
    BY <1>2, <2>2 DEF Greater
  <2>4. \A i \in dated : t - s[i].day <= n
    BY <1>2, <2>1, <2>3
  <2>5. \E k \in {Greater(0, t - s[i].day) : i \in dated} : \A i \in dated : t - s[i].day <= k
    BY <2>2, <2>4
  <2>6. /\ Spell(s, t) \in {Greater(0, t - s[i].day) : i \in dated}
        /\ \A i \in dated : t - s[i].day <= Spell(s, t)
    BY <1>4, <1>5, <2>5
  <2>7. \A i \in dated : Greater(0, t - s[i].day) \in Nat
    BY <1>2 DEF Greater
  <2>8. QED
    BY <2>6, <2>7
<1>6. \A t \in Nat : dated = {} => Spell(s, t) = 0
  BY <1>4
<1>7. Spell(s, day) \in Nat /\ Spell(s, later) \in Nat
  BY <1>5, <1>6
<1>8. Spell(s, day) <= Spell(s, later)
  <2>1. CASE dated = {}
    BY <1>6, <2>1
  <2>2. CASE dated # {}
    <3>1. PICK i \in dated : Spell(s, day) = Greater(0, day - s[i].day)
      BY <1>5, <2>2
    <3>2. later - s[i].day <= Spell(s, later) /\ s[i].day \in Int
      BY <1>2, <1>5, <2>2
    <3>3. QED
      BY <1>7, <3>1, <3>2 DEF Greater
  <2>3. QED
    BY <2>1, <2>2
<1>9. DaysBlocked(s, day) \in Nat /\ DaysBlocked(s, day) <= Spell(s, day)
  <2>1. CASE s = <<>> \/ s[Len(s)].to \notin BlockedStatuses \/ s[Len(s)].day = NoDay
    BY <1>7, <2>1 DEF DaysBlocked
  <2>2. CASE ~(s = <<>> \/ s[Len(s)].to \notin BlockedStatuses \/ s[Len(s)].day = NoDay)
    <3>1. DaysBlocked(s, day) = Greater(0, day - s[Len(s)].day) /\ Len(s) \in dated
      BY <1>3, <2>2 DEF DaysBlocked
    <3>2. day - s[Len(s)].day <= Spell(s, day) /\ s[Len(s)].day \in Int
      BY <1>2, <1>5, <3>1
    <3>3. QED
      BY <1>7, <3>1, <3>2 DEF Greater
  <2>3. QED
    BY <2>1, <2>2
<1>10. QED
  BY <1>7, <1>8, <1>9

-----------------------------------------------------------------------------
(* Which issues are analysed.                                              *)

LEMMA FirstsFacts ==
  ASSUME NEW topics \in Seq(Seq(Keys))
  PROVE  /\ IsFiniteSet(Firsts(topics)) /\ Orders(Earlier(topics), Firsts(topics))
         /\ \A p \in Firsts(topics) : topics[p[1]][p[2]] \in Keys
<1> DEFINE rows == {{t} \X DOMAIN topics[t] : t \in DOMAIN topics}
           f == [t \in DOMAIN topics |-> {t} \X DOMAIN topics[t]]
<1>1. /\ DOMAIN topics = 1..Len(topics) /\ Len(topics) \in Nat
      /\ \A t \in 1..Len(topics) : topics[t] \in Seq(Keys)
  OBVIOUS
<1>2. \A t \in 1..Len(topics) : /\ DOMAIN topics[t] = 1..Len(topics[t]) /\ Len(topics[t]) \in Nat
                                /\ \A i \in 1..Len(topics[t]) : topics[t][i] \in Keys
  BY <1>1
<1>3. \A n \in Nat : IsFiniteSet(1..n)
  BY FS_Interval
<1>4. \A row \in rows : IsFiniteSet(row)
  <2>1. ASSUME NEW t \in DOMAIN topics
        PROVE  IsFiniteSet({t} \X DOMAIN topics[t])
    <3>1. IsFiniteSet({t})
      BY FS_Singleton
    <3>2. IsFiniteSet(DOMAIN topics[t])
      BY <1>1, <1>2, <1>3
    <3>3. QED
      BY <3>1, <3>2, FS_Product
  <2>2. QED
    BY <2>1
<1>5. IsFiniteSet(rows)
  <2>1. f \in Surjection(DOMAIN topics, rows)
    BY DEF Surjection
  <2>2. IsFiniteSet(DOMAIN topics)
    BY <1>1, <1>3
  <2> HIDE DEF f, rows
  <2>3. QED
    BY <2>1, <2>2, FS_Surjection
<1>6. IsFiniteSet(Positions(topics))
  BY <1>4, <1>5, FS_UNION DEF Positions
<1>7. Firsts(topics) \in SUBSET Positions(topics)
  BY DEF Firsts
<1>8. \A p \in Positions(topics) :
        /\ p = <<p[1], p[2]>> /\ p[1] \in Nat /\ p[2] \in Nat
        /\ p[1] \in 1..Len(topics) /\ p[2] \in 1..Len(topics[p[1]])
  BY <1>1, <1>2 DEF Positions
<1>9. \A p, q \in Positions(topics) :
        <<p, q>> \in Earlier(topics) <=> \/ p[1] < q[1]
                                         \/ p[1] = q[1] /\ p[2] < q[2]
  BY DEF Earlier
<1>10. Orders(Earlier(topics), Firsts(topics))
  <2>0. \A p \in Positions(topics) : p[1] \in Nat /\ p[2] \in Nat
    BY <1>8
  <2>1. ASSUME NEW x \in Positions(topics), NEW y \in Positions(topics), NEW z \in Positions(topics),
               <<x, y>> \in Earlier(topics), <<y, z>> \in Earlier(topics)
        PROVE  <<x, z>> \in Earlier(topics)
    <3>1. /\ x[1] \in Nat /\ y[1] \in Nat /\ z[1] \in Nat
          /\ x[2] \in Nat /\ y[2] \in Nat /\ z[2] \in Nat
      BY <2>0
    <3>2. /\ x[1] < y[1] \/ (x[1] = y[1] /\ x[2] < y[2])
          /\ y[1] < z[1] \/ (y[1] = z[1] /\ y[2] < z[2])
      BY <1>9, <2>1
    <3>3. x[1] < z[1] \/ (x[1] = z[1] /\ x[2] < z[2])
      BY <3>1, <3>2
    <3>4. QED
      BY <1>9, <3>3
  <2>2. \A x \in Positions(topics) : <<x, x>> \notin Earlier(topics)
    BY <1>9, <2>0
  <2>3. ASSUME NEW x \in Positions(topics), NEW y \in Positions(topics)
        PROVE  x = y \/ <<x, y>> \in Earlier(topics) \/ <<y, x>> \in Earlier(topics)
    <3>1. /\ x[1] \in Nat /\ x[2] \in Nat /\ y[1] \in Nat /\ y[2] \in Nat
          /\ x = <<x[1], x[2]>> /\ y = <<y[1], y[2]>>
      BY <1>8
    <3>2. /\ x[1] < y[1] \/ x[1] = y[1] \/ y[1] < x[1]
          /\ x[2] < y[2] \/ x[2] = y[2] \/ y[2] < x[2]
      BY <3>1
    <3>3. CASE x[1] = y[1] /\ x[2] = y[2]
      BY <3>1, <3>3
    <3>4. CASE ~(x[1] = y[1] /\ x[2] = y[2])
      BY <1>9, <3>2, <3>4
    <3>5. QED
      BY <3>3, <3>4
  <2>4. QED
    BY <1>7, <2>1, <2>2, <2>3 DEF Orders
<1>11. QED
  BY <1>2, <1>6, <1>7, <1>8, <1>10, FS_Subset

LEMMA KeptKeysFacts ==
  ASSUME NEW topics \in Seq(Seq(Keys))
  PROVE  /\ KeptKeys(topics) \in Seq(Keys) /\ Len(KeptKeys(topics)) \in Nat
         /\ DOMAIN KeptKeys(topics) = 1..Len(KeptKeys(topics))
         /\ Len(KeptKeys(topics)) <= MaxAnalysed
<1> DEFINE first == Arranged(Firsts(topics), Earlier(topics))
           keys == [n \in DOMAIN first |-> topics[first[n][1]][first[n][2]]]
           N == Cardinality(Firsts(topics))
<1>1. N \in Nat /\ first \in [1..N -> Firsts(topics)]
  BY FirstsFacts, ArrangedFacts
<1>2. keys \in Seq(Keys)
  <2>1. \A n \in 1..N : keys[n] \in Keys
    BY <1>1, FirstsFacts
  <2>2. DOMAIN keys = 1..N
    BY <1>1
  <2>3. QED
    BY <1>1, <2>1, <2>2, SMTT(30)
<1>3. KeptKeys(topics) = UpTo(MaxAnalysed, keys)
  BY DEF KeptKeys
<1> HIDE DEF keys
<1>4. MaxAnalysed \in Nat
  BY ConstantFacts
<1>5. /\ UpTo(MaxAnalysed, keys) \in Seq(Keys)
      /\ Len(UpTo(MaxAnalysed, keys)) = IF MaxAnalysed < Len(keys) THEN MaxAnalysed ELSE Len(keys)
  BY <1>2, <1>4, UpToFacts
<1>6. QED
  BY <1>2, <1>3, <1>4, <1>5

\* The issues of a topic that are lost and those that are kept.
LEMMA DroppedFacts ==
  ASSUME NEW topics \in Seq(Seq(Keys)), NEW t \in DOMAIN topics
  PROVE  LET topic == topics[t]
             kept  == {i \in DOMAIN topic : topic[i] \in ToSet(KeptKeys(topics))}
         IN  /\ Dropped(topics, t) \in Nat /\ Cardinality(kept) \in Nat
             /\ Cardinality(kept) + Dropped(topics, t) = Len(topic)
             /\ t \in Skipped(topics)
                  <=> topic # <<>> /\ \A i \in DOMAIN topic : topic[i] \notin ToSet(KeptKeys(topics))
<1> DEFINE topic == topics[t]
           kept == {i \in DOMAIN topic : topic[i] \in ToSet(KeptKeys(topics))}
           lost == {i \in DOMAIN topic : topic[i] \notin ToSet(KeptKeys(topics))}
<1>1. topic \in Seq(Keys) /\ DOMAIN topic = 1..Len(topic) /\ Len(topic) \in Nat
  OBVIOUS
<1>2. IsFiniteSet(DOMAIN topic) /\ Cardinality(DOMAIN topic) = Len(topic)
  BY <1>1, FS_Interval, IntervalSize
<1>3. /\ kept \in SUBSET (DOMAIN topic) /\ lost = DOMAIN topic \ kept
      /\ Dropped(topics, t) = Cardinality(lost)
  BY DEF Dropped
<1>4. \A i \in DOMAIN topic : topic[i] \notin ToSet(KeptKeys(topics)) <=> i \notin kept
  OBVIOUS
<1> HIDE DEF topic, kept, lost
<1>5. IsFiniteSet(kept) /\ Cardinality(kept) \in Nat
  BY <1>2, <1>3, FS_Subset, FS_CardinalityType
<1>6. IsFiniteSet(lost) /\ Cardinality(lost) = Cardinality(DOMAIN topic) - Cardinality(DOMAIN topic \cap kept)
  BY <1>2, <1>3, FS_Difference
<1>7. DOMAIN topic \cap kept = kept
  BY <1>3
<1>8. Cardinality(lost) \in Nat /\ Cardinality(kept) + Cardinality(lost) = Len(topic)
  <2>1. Cardinality(lost) \in Nat
    BY <1>6, FS_CardinalityType
  <2>2. Cardinality(lost) = Len(topic) - Cardinality(kept)
    BY <1>2, <1>6, <1>7
  <2>3. QED
    BY <1>1, <1>5, <2>1, <2>2
<1>9. Cardinality(kept) = 0 <=> kept = {}
  BY <1>5, FS_EmptySet
<1>10. t \in Skipped(topics) <=> Cardinality(lost) > 0 /\ Cardinality(lost) = Len(topic)
  BY <1>3 DEF Skipped, topic
<1>11. topic # <<>> <=> Len(topic) > 0
  BY <1>1
<1>12. kept = {} <=> \A i \in DOMAIN topic : i \notin kept
  BY <1>3
<1>13. t \in Skipped(topics)
         <=> topic # <<>> /\ \A i \in DOMAIN topic : topic[i] \notin ToSet(KeptKeys(topics))
  BY <1>1, <1>4, <1>5, <1>8, <1>9, <1>10, <1>11, <1>12
<1>14. QED
  BY <1>3, <1>5, <1>8, <1>13 DEF topic, kept

-----------------------------------------------------------------------------
(* Ranking.                                                                *)

LEMMA ScoreInt ==
  ASSUME NEW a \in Analysis, NEW day \in Nat
  PROVE  Score(a, day) \in Int
<1>1. a.key \in Keys /\ a.days \in Nat /\ a.edits \in Edits
  BY DEF Analysis
<1>2. PICK facts \in IssueFacts : facts = Facts[a.key][a.edits]
  BY <1>1, ConstantFacts
<1>3. facts.links \in Nat
  BY DEF IssueFacts
<1>4. PICK p, d : p = PriorityScore(facts.priority) /\ d = DueScore(facts.due, day)
  OBVIOUS
<1>5. p \in Int /\ d \in Int
  BY <1>4 DEF PriorityScore, DueScore
<1>6. QED
  BY <1>1, <1>2, <1>3, <1>4, <1>5 DEF Score, Lesser

\* What the score makes of the grades of an issue's facts.
GradeWeights == [n \in 0..3 |-> CASE n = 0 -> 0 [] n = 1 -> 15 [] n = 2 -> 30 [] n = 3 -> 40]

Weighted(g) == GradeWeights[g.priority] + 2 * g.days + 5 * g.links + 10 * g.due + 10 * g.flagged

LEMMA ScoreOfGrades ==
  ASSUME NEW a \in Analysis, NEW day \in Nat
  PROVE  /\ Grades(a, day) \in [priority : 0..3, days : 0..15, links : 0..5, due : 0..2, flagged : 0..1]
         /\ Score(a, day) = Weighted(Grades(a, day))
<1> DEFINE g == Grades(a, day)
<1>1. CASE a.kind # "analysed"
  <2>1. g = [priority |-> 0, days |-> 0, links |-> 0, due |-> 0, flagged |-> 0]
    BY <1>1 DEF Grades
  <2>2. Score(a, day) = 0
    BY <1>1 DEF Score
  <2>3. GradeWeights[0] = 0
    BY DEF GradeWeights
  <2>4. QED
    BY <2>1, <2>2, <2>3 DEF Weighted
<1>2. CASE a.kind = "analysed"
  <2>1. a.key \in Keys /\ a.days \in Nat /\ a.edits \in Edits
    BY DEF Analysis
  <2>2. PICK facts \in IssueFacts : facts = Facts[a.key][a.edits]
    BY <2>1, ConstantFacts
  <2>3. /\ facts.priority \in {"Blocker", "Critical", "High", "other"} /\ facts.links \in Nat
        /\ facts.due \in Int \cup {NoDay} /\ facts.flagged \in BOOLEAN
    BY DEF IssueFacts
  <2>4. PICK p : p = CASE facts.priority = "Blocker"  -> 3
                       [] facts.priority = "Critical" -> 2
                       [] facts.priority = "High"     -> 1
                       [] OTHER                       -> 0
    OBVIOUS
  <2>5. p \in 0..3 /\ GradeWeights[p] = PriorityScore(facts.priority)
    BY <2>3, <2>4 DEF GradeWeights, PriorityScore
  <2>6. PICK due : due = IF facts.due = NoDay \/ facts.due < day \/ facts.due > day + 14 THEN 0
                         ELSE IF facts.due <= day + 7 THEN 2 ELSE 1
    OBVIOUS
  <2>7. due \in 0..2 /\ DueScore(facts.due, day) = 10 * due
    BY <2>3, <2>6 DEF DueScore
  <2>8. PICK flagged : flagged = IF facts.flagged THEN 1 ELSE 0
    OBVIOUS
  <2>9. flagged \in 0..1 /\ (IF facts.flagged THEN 10 ELSE 0) = 10 * flagged
    BY <2>3, <2>8
  <2>10. PICK days, links : days = Lesser(a.days, 15) /\ links = Lesser(facts.links, 5)
    OBVIOUS
  <2>11. /\ days \in 0..15 /\ Lesser(2 * a.days, 30) = 2 * days
         /\ links \in 0..5 /\ Lesser(5 * facts.links, 25) = 5 * links
    BY <2>1, <2>3, <2>10 DEF Lesser
  <2>12. g = [priority |-> p, days |-> days, links |-> links, due |-> due, flagged |-> flagged]
    BY <1>2, <2>2, <2>4, <2>6, <2>8, <2>10 DEF Grades
  <2>13. Score(a, day) = PriorityScore(facts.priority) + Lesser(2 * a.days, 30)
           + Lesser(5 * facts.links, 25) + DueScore(facts.due, day) + IF facts.flagged THEN 10 ELSE 0
    BY <1>2, <2>2 DEF Score
  <2>14. Score(a, day) = GradeWeights[p] + 2 * days + 5 * links + 10 * due + 10 * flagged
    BY <2>5, <2>7, <2>9, <2>11, <2>13
  <2>15. g \in [priority : 0..3, days : 0..15, links : 0..5, due : 0..2, flagged : 0..1]
    BY <2>5, <2>7, <2>9, <2>11, <2>12
  <2>16. Weighted(g) = GradeWeights[p] + 2 * days + 5 * links + 10 * due + 10 * flagged
    BY <2>12 DEF Weighted
  <2>17. QED
    BY <2>14, <2>15, <2>16
<1>3. QED
  BY <1>1, <1>2

\* A more urgent issue has a higher score.
LEMMA ScoreMonotone ==
  ASSUME NEW x \in Analysis, NEW y \in Analysis, NEW day \in Nat, AtLeast(x, y, day)
  PROVE  /\ Score(x, day) \in Int /\ Score(y, day) \in Int /\ Score(x, day) >= Score(y, day)
         /\ Outranks(x, y, day) => Score(x, day) > Score(y, day)
<1> DEFINE G == [priority : 0..3, days : 0..15, links : 0..5, due : 0..2, flagged : 0..1]
<1>1. PICK g \in G, h \in G : g = Grades(x, day) /\ h = Grades(y, day)
  BY ScoreOfGrades
<1>2. Score(x, day) = Weighted(g) /\ Score(y, day) = Weighted(h)
  BY <1>1, ScoreOfGrades
<1>3. PICK gp \in 0..3, gd \in 0..15, gl \in 0..5, gu \in 0..2, gf \in 0..1 :
        gp = g.priority /\ gd = g.days /\ gl = g.links /\ gu = g.due /\ gf = g.flagged
  OBVIOUS
<1>4. PICK hp \in 0..3, hd \in 0..15, hl \in 0..5, hu \in 0..2, hf \in 0..1 :
        hp = h.priority /\ hd = h.days /\ hl = h.links /\ hu = h.due /\ hf = h.flagged
  OBVIOUS
<1>5. gp >= hp /\ gd >= hd /\ gl >= hl /\ gu >= hu /\ gf >= hf
  BY <1>1, <1>3, <1>4 DEF AtLeast
<1>6. PICK p, q : p = GradeWeights[gp] /\ q = GradeWeights[hp]
  OBVIOUS
<1>7. /\ Weighted(g) = p + 2 * gd + 5 * gl + 10 * gu + 10 * gf
      /\ Weighted(h) = q + 2 * hd + 5 * hl + 10 * hu + 10 * hf
  BY <1>3, <1>4, <1>6 DEF Weighted
<1>8. p \in Int /\ q \in Int /\ p >= q /\ (gp # hp => p > q)
  <2>1. GradeWeights[0] = 0 /\ GradeWeights[1] = 15 /\ GradeWeights[2] = 30 /\ GradeWeights[3] = 40
    BY DEF GradeWeights
  <2>2. /\ gp = 0 \/ gp = 1 \/ gp = 2 \/ gp = 3
        /\ hp = 0 \/ hp = 1 \/ hp = 2 \/ hp = 3
    OBVIOUS
  <2>3. QED
    BY <1>5, <1>6, <2>1, <2>2
<1>9. Weighted(g) \in Int /\ Weighted(h) \in Int /\ Weighted(g) >= Weighted(h)
  BY <1>5, <1>7, <1>8
<1>10. ASSUME Outranks(x, y, day)
       PROVE  Weighted(g) > Weighted(h)
  <2>1. g # h
    BY <1>1, <1>10 DEF Outranks
  <2>2. gp # hp \/ gd # hd \/ gl # hl \/ gu # hu \/ gf # hf
    BY <1>3, <1>4, <2>1
  <2>3. CASE gp # hp
    BY <1>5, <1>7, <1>8, <2>3
  <2>4. CASE gd # hd \/ gl # hl \/ gu # hu \/ gf # hf
    BY <1>5, <1>7, <1>8, <2>4
  <2>5. QED
    BY <2>2, <2>3, <2>4
<1>11. QED
  BY <1>2, <1>9, <1>10

\* RankingEngine.rank: y is not shown unless x is shown before it, if wherever y is in the
\* list there is an x with a higher score, or with the same score and earlier.
LEMMA RankFacts ==
  ASSUME NEW list \in Seq(Analysis), NEW day \in Nat
  PROVE  /\ Rank(list, day) \in Seq(Analysis)
         /\ \A x, y :
              (\A n \in DOMAIN list : list[n] = y => \E m \in DOMAIN list :
                 /\ list[m] = x
                 /\ \/ Score(list[m], day) > Score(list[n], day)
                    \/ Score(list[m], day) = Score(list[n], day) /\ m < n)
              => Precedes(Rank(list, day), x, y)
<1> DEFINE D == DOMAIN list
           S(i) == Score(list[i], day)
           R == {p \in D \X D : \/ S(p[1]) > S(p[2])
                                \/ S(p[1]) = S(p[2]) /\ p[1] < p[2]}
           order == Arranged(D, R)
           N == Len(list)
           sorted == [i \in D |-> list[order[i]]]
<1>1. D = 1..N /\ N \in Nat /\ \A i \in D : list[i] \in Analysis
  OBVIOUS
<1>2. IsFiniteSet(D) /\ Cardinality(D) = N
  BY <1>1, FS_Interval, IntervalSize
<1>3. \A i \in D : S(i) \in Int /\ i \in Int
  BY <1>1, ScoreInt
<1>4. \A x, y \in D : <<x, y>> \in R <=> \/ S(x) > S(y)
                                         \/ S(x) = S(y) /\ x < y
  OBVIOUS
<1>5. Rank(list, day) = UpTo(TopN, sorted)
  BY DEF Rank, ByScore
<1> HIDE DEF R, S
<1>6. Orders(R, D)
  <2>1. \A x, y, z \in D : <<x, y>> \in R /\ <<y, z>> \in R => <<x, z>> \in R
    BY <1>3, <1>4
  <2>2. \A x \in D : <<x, x>> \notin R
    BY <1>3, <1>4
  <2>3. ASSUME NEW x \in D, NEW y \in D
        PROVE  x = y \/ <<x, y>> \in R \/ <<y, x>> \in R
    <3>1. S(x) \in Int /\ S(y) \in Int /\ x \in Int /\ y \in Int
      BY <1>3
    <3>2. /\ S(x) > S(y) \/ S(x) = S(y) \/ S(y) > S(x)
          /\ x = y \/ x < y \/ y < x
      BY <3>1
    <3>3. QED
      BY <1>4, <3>2
  <2>4. QED
    BY <2>1, <2>2, <2>3 DEF Orders
<1>7. /\ order \in [1..N -> D]
      /\ \A x \in D : Place(D, R, x) \in 1..N /\ order[Place(D, R, x)] = x
      /\ \A n \in 1..N : Place(D, R, order[n]) = n
  BY <1>2, <1>6, ArrangedFacts
<1> HIDE DEF order
<1>8. sorted \in Seq(Analysis) /\ Len(sorted) = N /\ \A n \in 1..N : sorted[n] = list[order[n]]
  <2>1. \A n \in 1..N : list[order[n]] \in Analysis
    BY <1>1, <1>7
  <2>2. QED
    BY <1>1, <2>1
<1> HIDE DEF sorted
<1>9. PICK top : top = UpTo(TopN, sorted)
  OBVIOUS
<1>10. /\ top \in Seq(Analysis) /\ Len(top) = IF TopN < N THEN TopN ELSE N
       /\ DOMAIN top = 1..Len(top) /\ TopN \in Nat
       /\ \A n \in 1..Len(top) : n \in 1..N /\ top[n] = list[order[n]]
  <2>1. TopN \in Nat
    BY ConstantFacts
  <2>2. /\ UpTo(TopN, sorted) \in Seq(Analysis)
        /\ Len(UpTo(TopN, sorted)) = IF TopN < Len(sorted) THEN TopN ELSE Len(sorted)
        /\ DOMAIN UpTo(TopN, sorted) = 1..Len(UpTo(TopN, sorted))
        /\ \A i \in 1..Len(UpTo(TopN, sorted)) :
             i \in 1..Len(sorted) /\ UpTo(TopN, sorted)[i] = sorted[i]
    BY <1>8, <2>1, UpToFacts
  <2>3. QED
    BY <1>8, <1>9, <2>1, <2>2
<1>11. ASSUME NEW x, NEW y,
              \A n \in D : list[n] = y => \E m \in D : list[m] = x /\ <<m, n>> \in R
       PROVE  Precedes(top, x, y)
  <2>1. ASSUME NEW n \in DOMAIN top, top[n] = y
        PROVE  \E m \in 1..n - 1 : top[m] = x
    <3>1. n \in 1..N /\ n <= Len(top) /\ list[order[n]] = y /\ n \in Nat
      BY <1>1, <1>10, <2>1
    <3>2. PICK p \in D : p = order[n] /\ Place(D, R, p) = n
      BY <1>7, <3>1
    <3>3. PICK m \in D : list[m] = x /\ <<m, p>> \in R
      BY <1>11, <3>1, <3>2
    <3>4. Place(D, R, m) < Place(D, R, p)
      BY <1>2, <1>6, <3>3, PlaceFacts
    <3>5. PICK k \in 1..N : k = Place(D, R, m) /\ order[k] = m
      BY <1>7
    <3>6. k < n /\ k \in Nat /\ k \in 1..n - 1
      BY <1>1, <3>1, <3>2, <3>4, <3>5
    <3>7. k \in 1..Len(top)
      BY <1>1, <1>10, <3>1, <3>6
    <3>8. top[k] = x
      BY <1>10, <3>3, <3>5, <3>7
    <3>9. QED
      BY <3>6, <3>8
  <2>2. QED
    BY <2>1 DEF Precedes
<1>12. ASSUME NEW x, NEW y,
              \A n \in D : list[n] = y => \E m \in D :
                /\ list[m] = x
                /\ \/ Score(list[m], day) > Score(list[n], day)
                   \/ Score(list[m], day) = Score(list[n], day) /\ m < n
       PROVE  \A n \in D : list[n] = y => \E m \in D : list[m] = x /\ <<m, n>> \in R
  BY <1>4, <1>12 DEF S
<1>13. Rank(list, day) = top
  BY <1>5, <1>9
<1>14. QED
  BY <1>10, <1>11, <1>12, <1>13

-----------------------------------------------------------------------------
(* Batches.                                                                *)

LEMMA Ordering ==
  ASSUME NEW m \in Nat, NEW n \in Nat, m <= n, NEW b \in Nat
  PROVE  m * b \in Nat /\ n * b \in Nat /\ m * b <= n * b
<1>1. PICK d \in Nat : n = m + d
  <2>1. n - m \in Nat /\ n = m + (n - m)
    OBVIOUS
  <2>2. QED
    BY <2>1
<1>2. n * b = m * b + d * b
  BY <1>1
<1>3. d * b \in Nat /\ m * b \in Nat
  OBVIOUS
<1>4. QED
  BY <1>2, <1>3

\* The batches of n keys are numbered without a gap, and every key is in one.
LEMMA BatchesFacts ==
  ASSUME NEW n \in Nat
  PROVE  /\ \E m \in 0..n : {i \in 1..n : (i - 1) * BatchSize < n} = 1..m
         /\ \A k \in 1..n : \E i \in {i \in 1..n : (i - 1) * BatchSize < n} :
              k > (i - 1) * BatchSize /\ k <= i * BatchSize
<1> DEFINE I == {i \in 1..n : (i - 1) * BatchSize < n}
<1>1. PICK b \in Nat \ {0} : b = BatchSize
  BY ConstantFacts
<1>2. ASSUME NEW i \in 1..n, NEW k \in 1..n, i <= k, (k - 1) * b < n
      PROVE  (i - 1) * b < n
  <2>1. i - 1 \in Nat /\ k - 1 \in Nat /\ i - 1 <= k - 1 /\ b \in Nat
    BY <1>2
  <2>2. PICK x \in Nat, y \in Nat : x = i - 1 /\ y = k - 1
    BY <2>1
  <2>3. x * b \in Nat /\ y * b \in Nat /\ x * b <= y * b
    BY <2>1, <2>2, Ordering
  <2>4. QED
    BY <1>2, <2>2, <2>3
<1>3. \E m \in 0..n : I = 1..m
  <2>1. CASE n = 0
    <3>1. I = 1..0
      BY <2>1
    <3>2. QED
      BY <3>1
  <2>2. CASE n # 0
    <3>1. 1 \in I
      <4>1. (1 - 1) * b = 0
        OBVIOUS
      <4>2. QED
        BY <1>1, <2>2, <4>1
    <3>2. I \in SUBSET (0..n) /\ I # {}
      BY <3>1
    <3>3. PICK m \in I : \A y \in I : y <= m
      BY <3>2, Extremes
    <3>4. \A i \in 1..m : i \in I
      BY <1>1, <1>2, <3>3
    <3>5. I = 1..m
      BY <3>3, <3>4
    <3>6. QED
      BY <3>3, <3>5
  <2>3. QED
    BY <2>1, <2>2
<1>4. ASSUME NEW k \in 1..n
      PROVE  \E i \in I : k > (i - 1) * b /\ k <= i * b
  <2> DEFINE J == {i \in 1..k : (i - 1) * b < k}
  <2>1. 1 \in J
    <3>1. (1 - 1) * b = 0
      OBVIOUS
    <3>2. QED
      BY <3>1
  <2>2. J \in SUBSET (0..k) /\ J # {} /\ k \in Nat
    BY <2>1
  <2>3. PICK i \in J : \A y \in J : y <= i
    BY <2>2, Extremes
  <2>4. i \in 1..k /\ (i - 1) * b < k
    BY <2>3
  <2>5. (i - 1) * b \in Nat /\ i * b \in Nat
    <3>1. i - 1 \in Nat /\ i \in Nat
      BY <2>4
    <3>2. PICK x \in Nat : x = i - 1
      BY <3>1
    <3>3. x * b \in Nat /\ i * b \in Nat
      BY <3>1
    <3>4. QED
      BY <3>2, <3>3
  <2>6. i \in I
    BY <1>1, <2>4, <2>5
  <2>7. k <= i * b
    <3>1. CASE i < k
      <4>1. i + 1 \in 1..k /\ i + 1 \notin J
        BY <2>3, <2>4, <3>1
      <4>2. ~(((i + 1) - 1) * b < k)
        BY <4>1
      <4>3. (i + 1) - 1 = i
        BY <2>4
      <4>4. QED
        BY <2>5, <4>2, <4>3
    <3>2. CASE i = k
      <4>1. PICK d \in Nat : b = 1 + d
        <5>1. b - 1 \in Nat /\ b = 1 + (b - 1)
          OBVIOUS
        <5>2. QED
          BY <5>1
      <4>2. k * b = k + k * d /\ k * d \in Nat
        BY <2>2, <4>1
      <4>3. QED
        BY <3>2, <4>2
    <3>3. QED
      BY <2>4, <3>1, <3>2
  <2>8. QED
    BY <2>4, <2>6, <2>7
<1>5. QED
  BY <1>1, <1>3, <1>4

-----------------------------------------------------------------------------
(* The analyses of a topic.                                                *)

LEMMA TopicFacts ==
  ASSUME NEW b \in Briefings, NEW topics \in Seq(Seq(Keys)), topics = call[b].req.topics,
         call[b].keys = KeptKeys(topics), call[b].analyses \in Seq(Analysis),
         Len(call[b].analyses) = Len(call[b].keys),
         \A i \in DOMAIN call[b].keys : call[b].analyses[i].key = call[b].keys[i],
         NEW t \in DOMAIN topics
  PROVE  /\ TopicAnalyses(b, t) \in Seq(Analysis)
         /\ Dropped(topics, t) \in Nat
         /\ Len(TopicAnalyses(b, t)) + Dropped(topics, t) = Len(topics[t])
<1> DEFINE topic == topics[t]
           I == {i \in DOMAIN topic : topic[i] \in ToSet(call[b].keys)}
           kept == Picked(topic, I)
           Of(k) == CHOOSE a \in ToSet(call[b].analyses) : a.key = k
<1>1. topic \in Seq(Keys) /\ I \in SUBSET (1..Len(topic))
  OBVIOUS
<1>2. /\ Cardinality(I) \in Nat /\ kept \in Seq(Keys) /\ Len(kept) = Cardinality(I)
      /\ \A n \in 1..Len(kept) : \E i \in I : kept[n] = topic[i]
  <2>1. PICK J \in SUBSET (1..Len(topic)) : J = I
    BY <1>1
  <2>2. topic \in Seq(Keys)
    BY <1>1
  <2> HIDE DEF topic, I
  <2>3. /\ Cardinality(J) \in Nat /\ Picked(topic, J) \in Seq(Keys)
        /\ Len(Picked(topic, J)) = Cardinality(J)
        /\ \A n \in 1..Len(Picked(topic, J)) : \E i \in J : Picked(topic, J)[n] = topic[i]
    BY <2>2, PickedFacts
  <2>4. QED
    BY <2>1, <2>3
<1>3. TopicAnalyses(b, t) = [i \in DOMAIN kept |-> Of(kept[i])]
  BY DEF TopicAnalyses
<1>4. /\ DOMAIN call[b].analyses = DOMAIN call[b].keys
      /\ \A i \in DOMAIN call[b].keys : call[b].analyses[i] \in Analysis
  <2>1. KeptKeys(topics) \in Seq(Keys)
    BY KeptKeysFacts
  <2>2. QED
    BY <2>1
<1>5. ASSUME NEW k \in ToSet(call[b].keys)
      PROVE  Of(k) \in Analysis
  <2>1. PICK i \in DOMAIN call[b].keys : call[b].keys[i] = k
    BY DEF ToSet
  <2>2. call[b].analyses[i] \in ToSet(call[b].analyses) /\ call[b].analyses[i].key = k
    BY <1>4, <2>1 DEF ToSet
  <2>3. Of(k) \in ToSet(call[b].analyses)
    BY <2>2
  <2>4. QED
    BY <1>4, <2>3 DEF ToSet
<1>6. \A n \in 1..Len(kept) : kept[n] \in ToSet(call[b].keys)
  BY <1>2
<1> HIDE DEF kept, Of
<1>7. TopicAnalyses(b, t) \in Seq(Analysis) /\ Len(TopicAnalyses(b, t)) = Cardinality(I)
  <2>1. PICK N \in Nat : N = Cardinality(I)
    BY <1>2
  <2>2. Len(kept) = N /\ kept \in Seq(Keys)
    BY <1>2, <2>1
  <2>3. DOMAIN kept = 1..N
    BY <2>2
  <2>4. \A n \in 1..N : Of(kept[n]) \in Analysis
    BY <1>5, <1>6, <2>2
  <2>5. PICK list : list = TopicAnalyses(b, t)
    OBVIOUS
  <2>6. DOMAIN list = 1..N /\ \A n \in 1..N : list[n] = Of(kept[n])
    BY <1>3, <2>3, <2>5
  <2>7. list \in [DOMAIN kept -> Analysis]
    BY <1>3, <2>3, <2>4, <2>5
  <2>8. list \in Seq(Analysis) /\ Len(list) = N
    BY <2>3, <2>6, <2>7
  <2>9. QED
    BY <2>1, <2>5, <2>8
<1>8. Dropped(topics, t) \in Nat /\ Cardinality(I) + Dropped(topics, t) = Len(topic)
  BY DroppedFacts
<1>9. QED
  BY <1>7, <1>8

-----------------------------------------------------------------------------
(* The first invariant.                                                    *)

\* TopicAnalyses of a call with these locals.
TopicOf(topic, keys, analyses) ==
  LET kept  == Picked(topic, {i \in DOMAIN topic : topic[i] \in ToSet(keys)})
      Of(k) == CHOOSE a \in ToSet(analyses) : a.key = k
  IN  [i \in DOMAIN kept |-> Of(kept[i])]

SectionsShape(x) ==
  /\ DOMAIN x.sections = DOMAIN x.req.topics
  /\ \A t \in DOMAIN x.req.topics :
       /\ x.sections[t].top = Rank(TopicOf(x.req.topics[t], x.keys, x.analyses), x.ranked)
       /\ x.sections[t].dropped = Dropped(x.req.topics, t)

\* What the locals of a call are at each of its awaits.
LocalsShape(x) ==
  /\ Len(x.keys) <= MaxAnalysed
  /\ x.at # "idle" => /\ x.req \in Request
                      /\ x.keys = KeptKeys(x.req.topics)
                      /\ x.skipped = Skipped(x.req.topics)
  /\ x.at = "fetch" =>
       /\ x.analyses = <<>>
       /\ DOMAIN x.batches = {i \in 1..Len(x.keys) : (i - 1) * BatchSize < Len(x.keys)}
  /\ x.at # "fetch" => x.batches = <<>>
  /\ x.at \in {"analyse", "done"} => Len(x.analyses) = Len(x.keys)
  /\ x.at = "done" => SectionsShape(x)

\* The analysis of b's issue i is there.
Ready(b, i) == \/ call[b].at = "analyse" /\ job[<<b, i>>].pc = "done"
               \/ call[b].at = "done"

\* The jobs of a call: one per key while it analyses, numbered as the keys are, and none
\* otherwise.
CallShape(b) ==
  /\ LocalsShape(call[b])
  /\ \A i \in 1..MaxAnalysed :
       job[<<b, i>>].pc # "none" <=> call[b].at = "analyse" /\ i <= Len(call[b].keys)
  /\ \A i \in 1..Len(call[b].keys) : Ready(b, i) =>
       call[b].analyses[i] \in Analysis /\ call[b].analyses[i].key = call[b].keys[i]

\* Who holds or awaits a permit does so once, and an entry of the cache is of its key.
Shape ==
  /\ TypeOK
  /\ IsInjective(sem) /\ \A i \in DOMAIN sem : job[sem[i]].pc \in {"sem", "llm"}
  /\ \A i \in DOMAIN cache : cache[i].key = <<cache[i].analysis.key, cache[i].analysis.stamp>>
  /\ \A j \in Jobs : job[j].pc = "llm" => DetailOf(j) # None
  /\ \A b \in Briefings : CallShape(b)

-----------------------------------------------------------------------------
(* The second invariant.  Its parts take changelogs and days as            *)
(* parameters, so that lemmas can say what becomes of them as time passes. *)

\* What the call x was told of issue k: nothing the backend does not have and, if x
\* refreshes, nothing from before x.
Told(x, k, d, logs) == d # None =>
  /\ d.stamp <= Len(logs[k])
  /\ x.req.force => x.since.issues[k].stamp <= d.stamp /\ x.since.issues[k].edits <= d.edits

\* The days of a changelog as they were counted on one of the days from first to last.
CountedBetween(days, s, first, last) == \E day \in first..last : days = DaysBlocked(s, day)

\* What is said of the days of an issue whose changelog had n entries.
DaysSound(s, n, days, day) == n <= Len(s) /\ days <= Spell(UpTo(n, s), day)

JobSound(x, k, days, logs, day) ==
  /\ DaysSound(logs[k], x.details[k].stamp, days, day)
  /\ x.req.force => CountedBetween(days, UpTo(x.details[k].stamp, logs[k]), x.since.day, day)

AnalysisSound(x, a, logs, day, last) ==
  /\ a.kind = "missing" => x.details[a.key] = None
  /\ a.kind = "analysed" =>
       /\ x.details[a.key] # None /\ a.stamp = x.details[a.key].stamp
       /\ DaysSound(logs[a.key], a.stamp, a.days, day)
       /\ x.req.refs[a.key] # 0 => a.refs # 0
       /\ x.req.force =>
            /\ a.edits = x.details[a.key].edits /\ a.refs = x.req.refs[a.key]
            /\ CountedBetween(a.days, UpTo(a.stamp, logs[a.key]), x.since.day, last)

EntrySound(a, logs, day) == a.kind = "analysed" /\ DaysSound(logs[a.key], a.stamp, a.days, day)

\* A batch that was answered without an error tells of all its issues that exist; what
\* details are missing is an error or the issue does not exist.
Answered(x) ==
  /\ x.at = "fetch" =>
       \A i \in DOMAIN x.batches : x.batches[i].pc = "ok" /\ x.batches[i].error = "none" =>
         \A n \in 1..Len(x.keys) : n > (i - 1) * BatchSize /\ n <= i * BatchSize =>
           x.batches[i].details[x.keys[n]] # None \/ x.keys[n] \in Unknown
  /\ x.at \in {"analyse", "done"} =>
       \A n \in 1..Len(x.keys) :
         x.details[x.keys[n]] = None => x.keys[n] \in Unknown \/ x.error # "none"

\* The day up to which a call may have counted.
Until(x) == IF x.at = "done" THEN x.ranked ELSE today

CallSound(b) ==
  /\ Answered(call[b])
  /\ call[b].at # "idle" /\ call[b].req.force =>
       /\ call[b].since.day <= today
       /\ \A k \in Keys : /\ call[b].since.issues[k].stamp <= Len(log[k])
                          /\ call[b].since.issues[k].edits <= edits[k]
  /\ \A i \in DOMAIN call[b].batches, k \in Keys : Told(call[b], k, call[b].batches[i].details[k], log)
  /\ \A k \in Keys : Told(call[b], k, call[b].details[k], log)
  /\ \A i \in 1..Len(call[b].keys) : Ready(b, i) =>
       AnalysisSound(call[b], call[b].analyses[i], log, today, Until(call[b]))

Sound ==
  /\ Len(cache) <= CacheMax
  /\ \A i, n \in DOMAIN cache : cache[i].key = cache[n].key => i = n
  /\ \A i \in DOMAIN cache : EntrySound(cache[i].analysis, log, today)
  /\ \A j \in Jobs : job[j].pc = "llm" => JobSound(call[j[1]], Key(j), job[j].days, log, today)
  /\ \A b \in Briefings : CallSound(b)

-----------------------------------------------------------------------------
(* Types.                                                                  *)

LEMMA JobsFacts ==
  /\ \A b \in Briefings, i \in 1..MaxAnalysed :
       <<b, i>> \in Jobs /\ <<b, i>>[1] = b /\ <<b, i>>[2] = i
  /\ \A j \in Jobs : j[1] \in Briefings /\ j[2] \in 1..MaxAnalysed /\ j = <<j[1], j[2]>>
  BY DEF Jobs

LEMMA CallFacts ==
  ASSUME NEW x \in Call
  PROVE  /\ x.keys \in Seq(Keys) /\ Len(x.keys) \in Nat /\ DOMAIN x.keys = 1..Len(x.keys)
         /\ \A i \in 1..Len(x.keys) : x.keys[i] \in Keys
         /\ \A k \in Keys : x.details[k] \in Detail \cup {None}
         /\ x.analyses \in Seq(Analysis \cup {None}) /\ Len(x.analyses) \in Nat
         /\ DOMAIN x.analyses = 1..Len(x.analyses)
         /\ x.batches \in Seq(Batch) /\ Len(x.batches) \in Nat
         /\ DOMAIN x.batches = 1..Len(x.batches)
         /\ \A i \in 1..Len(x.batches) : x.batches[i] \in Batch
         /\ x.req \in Request /\ x.ranked \in Nat
         /\ x.req.topics \in Seq(Seq(Keys)) /\ x.req.refs \in [Keys -> Nat] /\ x.req.force \in BOOLEAN
         /\ x.since.day \in Nat
         /\ \A k \in Keys : x.since.issues[k].stamp \in Nat /\ x.since.issues[k].edits \in Edits
         /\ x.details \in Details /\ x.sections \in Seq(Section) /\ x.error \in Error
         /\ x.skipped \subseteq Nat /\ x.at \in {"idle", "fetch", "analyse", "done"}
<1>1. x.req \in Request
  BY DEF Call
<1>3. /\ x.keys \in Seq(Keys) /\ x.analyses \in Seq(Analysis \cup {None}) /\ x.batches \in Seq(Batch)
      /\ x.details \in Details /\ x.ranked \in Nat
      /\ x.since \in [day : Nat, issues : [Keys -> Detail]]
      /\ x.sections \in Seq(Section) /\ x.error \in Error
      /\ x.skipped \subseteq Nat /\ x.at \in {"idle", "fetch", "analyse", "done"}
  BY DEF Call
<1>4. \A k \in Keys : x.details[k] \in Detail \cup {None}
  BY <1>3 DEF Details
<1>5. \A k \in Keys : x.since.issues[k].stamp \in Nat /\ x.since.issues[k].edits \in Edits
  <2>1. \A k \in Keys : x.since.issues[k] \in Detail
    BY <1>3
  <2>2. QED
    BY <2>1 DEF Detail
<1>6. x.req.topics \in Seq(Seq(Keys)) /\ x.req.refs \in [Keys -> Nat] /\ x.req.force \in BOOLEAN
  BY <1>1 DEF Request
<1>7. /\ Len(x.keys) \in Nat /\ DOMAIN x.keys = 1..Len(x.keys)
      /\ \A i \in 1..Len(x.keys) : x.keys[i] \in Keys
  BY <1>3
<1>8. /\ Len(x.analyses) \in Nat /\ DOMAIN x.analyses = 1..Len(x.analyses)
      /\ Len(x.batches) \in Nat /\ DOMAIN x.batches = 1..Len(x.batches)
  BY <1>3
<1>9. \A i \in 1..Len(x.batches) : x.batches[i] \in Batch
  BY <1>3
<1>10. x.since.day \in Nat
  BY <1>3
<1>11. QED
  BY <1>1, <1>3, <1>4, <1>5, <1>6, <1>7, <1>8, <1>9, <1>10

LEMMA RunningFacts ==
  ASSUME Shape, NEW j \in Jobs, job[j].pc # "none"
  PROVE  /\ j[1] \in Briefings /\ call[j[1]] \in Call /\ call[j[1]].at = "analyse"
         /\ j[2] \in 1..Len(call[j[1]].keys) /\ Key(j) = call[j[1]].keys[j[2]]
         /\ Key(j) \in Keys /\ DetailOf(j) = call[j[1]].details[Key(j)]
         /\ DetailOf(j) \in Detail \cup {None}
         /\ Len(call[j[1]].analyses) = Len(call[j[1]].keys)
         /\ j[2] \in DOMAIN call[j[1]].analyses
<1>1. j[1] \in Briefings /\ j[2] \in 1..MaxAnalysed /\ j = <<j[1], j[2]>>
  BY JobsFacts
<1>2. call[j[1]] \in Call /\ CallShape(j[1])
  BY <1>1 DEF Shape, TypeOK
<1>3. call[j[1]].at = "analyse" /\ j[2] <= Len(call[j[1]].keys)
  BY <1>1, <1>2 DEF CallShape
<1>4. /\ Len(call[j[1]].keys) \in Nat /\ DOMAIN call[j[1]].analyses = 1..Len(call[j[1]].analyses)
      /\ \A i \in 1..Len(call[j[1]].keys) : call[j[1]].keys[i] \in Keys
      /\ \A k \in Keys : call[j[1]].details[k] \in Detail \cup {None}
  BY <1>2, CallFacts
<1>5. j[2] \in 1..Len(call[j[1]].keys) /\ Len(call[j[1]].analyses) = Len(call[j[1]].keys)
  BY <1>1, <1>2, <1>3, <1>4 DEF CallShape, LocalsShape
<1>6. QED
  BY <1>1, <1>2, <1>3, <1>4, <1>5 DEF Key, DetailOf

-----------------------------------------------------------------------------
(* Steps of a job.                                                         *)

\* The locals but for the analyses, and but for the analysis i.
SameBut(x, y, i) ==
  /\ y.at = x.at /\ y.req = x.req /\ y.keys = x.keys /\ y.skipped = x.skipped
  /\ y.since = x.since /\ y.batches = x.batches /\ y.details = x.details /\ y.error = x.error
  /\ y.sections = x.sections /\ y.ranked = x.ranked
  /\ Len(y.analyses) = Len(x.analyses)
  /\ \A n \in 1..Len(x.analyses) : n # i => y.analyses[n] = x.analyses[n]

LEMMA ReturnsFacts ==
  ASSUME Shape, NEW j \in Jobs, job[j].pc # "none", NEW a \in Analysis, Returns(j, a)
  PROVE  /\ call' \in [Briefings -> Call] /\ \A b \in Briefings : b # j[1] => call'[b] = call[b]
         /\ SameBut(call[j[1]], call'[j[1]], j[2]) /\ call'[j[1]].analyses[j[2]] = a
         /\ job' \in [Jobs -> Job] /\ \A i \in Jobs : i # j => job'[i] = job[i]
         /\ job'[j].pc = "done"
         /\ sem' \in Seq(Jobs) /\ IsInjective(sem') /\ ToSet(sem') = ToSet(sem) \ {j}
         /\ today' = today /\ log' = log /\ edits' = edits
<1>1. PICK b, i, x : b = j[1] /\ i = j[2] /\ x = call[b]
  OBVIOUS
<1>2. b \in Briefings /\ x \in Call /\ i \in DOMAIN x.analyses /\ call \in [Briefings -> Call]
  BY <1>1, RunningFacts DEF Shape, TypeOK
<1>3. /\ call' = [call EXCEPT ![b].analyses[i] = a]
      /\ job' = [job EXCEPT ![j] = [NoJob EXCEPT !.pc = "done"]]
      /\ sem' = RemoveFirst(sem, j)
      /\ today' = today /\ log' = log /\ edits' = edits
  BY <1>1 DEF Returns
<1>4. x.analyses \in Seq(Analysis \cup {None}) /\ DOMAIN x.analyses = 1..Len(x.analyses)
  BY <1>2, CallFacts
<1>5. PICK list : list = [x.analyses EXCEPT ![i] = a]
  OBVIOUS
<1>6. /\ list \in Seq(Analysis \cup {None}) /\ Len(list) = Len(x.analyses) /\ list[i] = a
      /\ \A n \in 1..Len(x.analyses) : n # i => list[n] = x.analyses[n]
  BY <1>2, <1>4, <1>5
<1>7. PICK y : y = [x EXCEPT !.analyses = list]
  OBVIOUS
<1>8. y \in Call
  BY <1>2, <1>6, <1>7 DEF Call
<1>9. SameBut(x, y, i) /\ y.analyses[i] = a
  BY <1>2, <1>6, <1>7 DEF Call, SameBut
<1>10. call' = [call EXCEPT ![b] = y]
  BY <1>1, <1>2, <1>3, <1>5, <1>7 DEF Call
<1>11. /\ call' \in [Briefings -> Call] /\ call'[b] = y
       /\ \A c \in Briefings : c # b => call'[c] = call[c]
  BY <1>2, <1>8, <1>10
<1>12. /\ job' \in [Jobs -> Job] /\ (\A n \in Jobs : n # j => job'[n] = job[n])
       /\ job'[j].pc = "done"
  <2>1. job \in [Jobs -> Job] /\ [NoJob EXCEPT !.pc = "done"] \in Job
    BY DEF Shape, TypeOK, Job, NoJob
  <2>2. [NoJob EXCEPT !.pc = "done"].pc = "done"
    BY DEF NoJob
  <2>3. QED
    BY <1>3, <2>1, <2>2
<1>13. sem' \in Seq(Jobs) /\ IsInjective(sem') /\ ToSet(sem') = ToSet(sem) \ {j}
  <2>1. sem \in Seq(Jobs) /\ IsInjective(sem)
    BY DEF Shape, TypeOK
  <2>2. QED
    BY <1>3, <2>1, RemoveFirstFacts
<1>14. QED
  BY <1>1, <1>3, <1>9, <1>11, <1>12, <1>13

LEMMA CallShapeKept ==
  ASSUME TypeOK, NEW b \in Briefings, CallShape(b), call'[b] = call[b],
         \A i \in 1..MaxAnalysed : job'[<<b, i>>] = job[<<b, i>>]
  PROVE  CallShape(b)'
<1>1. call[b] \in Call
  BY DEF TypeOK
<1>2. Len(call[b].keys) \in Nat /\ Len(call[b].keys) <= MaxAnalysed /\ MaxAnalysed \in Nat
  BY <1>1, CallFacts, ConstantFacts DEF CallShape, LocalsShape
<1>3. \A i \in 1..Len(call[b].keys) : i \in 1..MaxAnalysed
  BY <1>2
<1>4. \A i \in 1..Len(call[b].keys) : Ready(b, i)' <=> Ready(b, i)
  BY <1>3 DEF Ready
<1>5. QED
  BY <1>4 DEF CallShape

\* A job that returns with an analysis of its issue.
LEMMA ReturnsKeepsShape ==
  ASSUME Shape, NEW j \in Jobs, job[j].pc # "none", NEW a \in Analysis, a.key = Key(j), Returns(j, a),
         cache' \in Seq([key : Keys \X Nat, analysis : Analysis]),
         \A i \in DOMAIN cache' :
           cache'[i].key = <<cache'[i].analysis.key, cache'[i].analysis.stamp>>
  PROVE  Shape'
<1>1. PICK b, n : b = j[1] /\ n = j[2]
  OBVIOUS
<1>2. /\ b \in Briefings /\ call[b] \in Call /\ call[b].at = "analyse"
      /\ n \in 1..Len(call[b].keys) /\ Key(j) = call[b].keys[n]
      /\ Len(call[b].analyses) = Len(call[b].keys)
  BY <1>1, RunningFacts
<1>3. /\ call' \in [Briefings -> Call] /\ \A c \in Briefings : c # b => call'[c] = call[c]
      /\ SameBut(call[b], call'[b], n) /\ call'[b].analyses[n] = a
      /\ job' \in [Jobs -> Job] /\ \A i \in Jobs : i # j => job'[i] = job[i]
      /\ job'[j].pc = "done"
      /\ sem' \in Seq(Jobs) /\ IsInjective(sem') /\ ToSet(sem') = ToSet(sem) \ {j}
      /\ today' = today /\ log' = log /\ edits' = edits
  BY <1>1, ReturnsFacts
<1>4. TypeOK /\ (\A i \in DOMAIN sem : job[sem[i]].pc \in {"sem", "llm"})
      /\ (\A i \in Jobs : job[i].pc = "llm" => DetailOf(i) # None)
      /\ \A c \in Briefings : CallShape(c)
  BY DEF Shape
<1>5. TypeOK'
  BY <1>3, <1>4 DEF TypeOK
<1>6. \A i \in DOMAIN sem' : job'[sem'[i]].pc \in {"sem", "llm"}
  <2>1. sem \in Seq(Jobs)
    BY <1>4 DEF TypeOK
  <2>2. ASSUME NEW i \in DOMAIN sem'
        PROVE  job'[sem'[i]].pc \in {"sem", "llm"}
    <3>1. sem'[i] \in ToSet(sem) /\ sem'[i] # j
      BY <1>3, <2>2 DEF ToSet
    <3>2. PICK k \in DOMAIN sem : sem[k] = sem'[i]
      BY <3>1 DEF ToSet
    <3>3. sem[k] \in Jobs
      BY <2>1
    <3>4. QED
      BY <1>3, <1>4, <3>1, <3>2, <3>3
  <2>3. QED
    BY <2>2
<1>7. \A i \in Jobs : job'[i].pc = "llm" => DetailOf(i)' # None
  <2>1. ASSUME NEW i \in Jobs, job'[i].pc = "llm"
        PROVE  DetailOf(i)' # None
    <3>1. i # j /\ job[i].pc = "llm" /\ i[1] \in Briefings
      BY <1>3, <2>1, JobsFacts
    <3>2. call'[i[1]].details = call[i[1]].details /\ call'[i[1]].keys = call[i[1]].keys
      BY <1>3, <3>1 DEF SameBut
    <3>3. QED
      BY <1>4, <3>1, <3>2 DEF DetailOf, Key
  <2>2. QED
    BY <2>1
<1>8. CallShape(b)'
  <2>1. LocalsShape(call'[b])
    BY <1>2, <1>3, <1>4 DEF SameBut, CallShape, LocalsShape
  <2>2. ASSUME NEW i \in 1..MaxAnalysed
        PROVE  job'[<<b, i>>].pc # "none" <=> call'[b].at = "analyse" /\ i <= Len(call'[b].keys)
    <3>1. <<b, i>> \in Jobs /\ j = <<b, n>>
      BY <1>1, <1>2, JobsFacts
    <3>2. job[<<b, i>>].pc # "none" <=> call'[b].at = "analyse" /\ i <= Len(call'[b].keys)
      BY <1>2, <1>3, <1>4 DEF CallShape, SameBut
    <3>3. QED
      BY <1>3, <3>1, <3>2
  <2>3. ASSUME NEW i \in 1..Len(call'[b].keys), Ready(b, i)'
        PROVE  call'[b].analyses[i] \in Analysis /\ call'[b].analyses[i].key = call'[b].keys[i]
    <3>1. i \in 1..Len(call[b].keys) /\ call'[b].keys = call[b].keys /\ call'[b].at = "analyse"
      BY <1>2, <1>3, <2>3 DEF SameBut
    <3>2. CASE i = n
      BY <1>2, <1>3, <3>1, <3>2
    <3>3. CASE i # n
      <4>1. Len(call[b].keys) \in Nat /\ Len(call[b].keys) <= MaxAnalysed /\ MaxAnalysed \in Nat
        BY <1>2, <1>4, CallFacts, ConstantFacts DEF CallShape, LocalsShape
      <4>2. i \in 1..MaxAnalysed
        BY <3>1, <4>1
      <4>3. <<b, i>> \in Jobs /\ <<b, i>> # j
        BY <1>1, <1>2, <3>3, <4>2, JobsFacts
      <4>4. Ready(b, i)
        BY <1>2, <1>3, <2>3, <3>1, <4>3 DEF Ready
      <4>5. call[b].analyses[i] \in Analysis /\ call[b].analyses[i].key = call[b].keys[i]
        BY <1>2, <1>4, <3>1, <4>4 DEF CallShape
      <4>6. call'[b].analyses[i] = call[b].analyses[i]
        BY <1>2, <1>3, <3>1, <3>3 DEF SameBut
      <4>7. QED
        BY <3>1, <4>5, <4>6
    <3>4. QED
      BY <3>2, <3>3
  <2>4. QED
    BY <2>1, <2>2, <2>3 DEF CallShape
<1>9. ASSUME NEW c \in Briefings, c # b
      PROVE  CallShape(c)'
  <2>1. \A i \in 1..MaxAnalysed : job'[<<c, i>>] = job[<<c, i>>]
    BY <1>1, <1>3, <1>9, JobsFacts
  <2>2. call'[c] = call[c] /\ CallShape(c)
    BY <1>3, <1>4, <1>9
  <2>3. QED
    BY <1>4, <2>1, <2>2, CallShapeKept
<1>10. QED
  BY <1>3, <1>5, <1>6, <1>7, <1>8, <1>9 DEF Shape

Entries == [key : Keys \X Nat, analysis : Analysis]

Unique(s) == \A i, n \in DOMAIN s : s[i].key = s[n].key => i = n

\* The bounded dict: nothing comes into it but what is put, no key is there twice, and it
\* does not outgrow its bound.
LEMMA PutFacts ==
  ASSUME cache \in Seq(Entries), NEW k \in Keys \X Nat, NEW a \in Analysis, Put(k, a)
  PROVE  /\ cache' \in Seq(Entries)
         /\ \A i \in DOMAIN cache' : \/ cache'[i] = [key |-> k, analysis |-> a]
                                     \/ \E n \in DOMAIN cache : cache'[i] = cache[n]
         /\ Len(cache) <= CacheMax /\ Unique(cache) => Len(cache') <= CacheMax /\ Unique(cache')
<1>1. PICK e : e = [key |-> k, analysis |-> a]
  OBVIOUS
<1>2. e \in Entries /\ e.key = k
  BY <1>1 DEF Entries
<1>3. PICK kept : kept = IF Len(cache) >= CacheMax THEN Tail(cache) ELSE cache
  OBVIOUS
<1>4. /\ CacheMax \in Nat /\ Len(cache) \in Nat /\ DOMAIN cache = 1..Len(cache)
      /\ \A i \in 1..Len(cache) : cache[i] \in Entries
  BY ConstantFacts
<1>5. CASE CacheMax = 0
  <2>1. cache' = cache
    BY <1>5 DEF Put
  <2>2. QED
    BY <2>1
<1>6. CASE CacheMax # 0
  <2>1. kept \in Seq(Entries) /\ DOMAIN kept = 1..Len(kept) /\ Len(kept) \in Nat
        /\ (\A i \in 1..Len(kept) : \E n \in 1..Len(cache) : kept[i] = cache[n])
        /\ (Unique(cache) => Unique(kept)) /\ (Len(cache) <= CacheMax => Len(kept) < CacheMax)
    <3>1. CASE Len(cache) >= CacheMax
      <4>1. kept = Tail(cache) /\ cache # <<>>
        BY <1>3, <1>4, <1>6, <3>1
      <4>2. /\ kept \in Seq(Entries) /\ Len(kept) = Len(cache) - 1 /\ Len(cache) > 0
            /\ \A i \in 1..Len(kept) : kept[i] = cache[i + 1]
        BY <1>4, <4>1
      <4>3. DOMAIN kept = 1..Len(kept) /\ Len(kept) \in Nat
        BY <4>2
      <4>4. \A i \in 1..Len(kept) : i + 1 \in 1..Len(cache)
        BY <1>4, <4>2
      <4>5. ASSUME Unique(cache), NEW i \in 1..Len(kept), NEW n \in 1..Len(kept), kept[i].key = kept[n].key
            PROVE  i = n
        <5>1. PICK p \in DOMAIN cache, q \in DOMAIN cache : p = i + 1 /\ q = n + 1
          BY <1>4, <4>4
        <5>2. cache[p].key = cache[q].key
          BY <4>2, <4>5, <5>1
        <5>3. p = q
          BY <4>5, <5>2 DEF Unique
        <5>4. QED
          BY <4>3, <5>1, <5>3
      <4>6. Unique(cache) => Unique(kept)
        BY <4>3, <4>5 DEF Unique
      <4>7. Len(cache) <= CacheMax => Len(kept) < CacheMax
        BY <1>4, <4>2
      <4>8. QED
        BY <4>2, <4>3, <4>4, <4>6, <4>7
    <3>2. CASE ~(Len(cache) >= CacheMax)
      BY <1>3, <1>4, <3>2
    <3>3. QED
      BY <3>1, <3>2
  <2>2. CASE \E i \in DOMAIN kept : kept[i].key = k
    <3>1. cache' = [i \in 1..Len(kept) |-> IF kept[i].key = k THEN e ELSE kept[i]]
      BY <1>1, <1>3, <1>6, <2>1, <2>2 DEF Put
    <3>2. \A i \in 1..Len(kept) : kept[i] \in Entries
      BY <2>1
    <3>3. /\ cache' \in Seq(Entries) /\ Len(cache') = Len(kept) /\ DOMAIN cache' = 1..Len(kept)
          /\ \A i \in 1..Len(kept) : /\ cache'[i].key = kept[i].key
                                     /\ cache'[i] = e \/ cache'[i] = kept[i]
      BY <1>2, <2>1, <3>1, <3>2
    <3>4. Unique(kept) => Unique(cache')
      BY <2>1, <3>3 DEF Unique
    <3>5. ASSUME NEW i \in DOMAIN cache'
          PROVE  cache'[i] = e \/ \E n \in DOMAIN cache : cache'[i] = cache[n]
      <4>1. i \in 1..Len(kept) /\ (cache'[i] = e \/ cache'[i] = kept[i])
        BY <3>3, <3>5
      <4>2. \E n \in 1..Len(cache) : kept[i] = cache[n]
        BY <2>1, <4>1
      <4>3. QED
        BY <1>4, <4>1, <4>2
    <3>6. QED
      BY <1>1, <1>4, <2>1, <3>3, <3>4, <3>5
  <2>3. CASE ~\E i \in DOMAIN kept : kept[i].key = k
    <3>1. cache' = Append(kept, e)
      BY <1>1, <1>3, <1>6, <2>3 DEF Put
    <3>2. PICK N \in Nat : N = Len(kept)
      BY <2>1
    <3>3. /\ cache' \in Seq(Entries) /\ Len(cache') = N + 1 /\ DOMAIN cache' = 1..N + 1
          /\ cache'[N + 1] = e /\ \A i \in 1..N : cache'[i] = kept[i]
      BY <1>2, <2>1, <3>1, <3>2
    <3>4. \A i \in 1..N + 1 : i = N + 1 \/ i \in 1..N
      BY <3>2
    <3>5. Unique(kept) => Unique(cache')
      BY <1>2, <2>1, <2>3, <3>2, <3>3, <3>4 DEF Unique
    <3>6. ASSUME NEW i \in DOMAIN cache'
          PROVE  cache'[i] = e \/ \E n \in DOMAIN cache : cache'[i] = cache[n]
      <4>1. i = N + 1 \/ i \in 1..N
        BY <3>3, <3>4, <3>6
      <4>2. CASE i = N + 1
        BY <3>3, <4>2
      <4>3. CASE i \in 1..N
        <5>1. cache'[i] = kept[i] /\ \E n \in 1..Len(cache) : kept[i] = cache[n]
          BY <2>1, <3>2, <3>3, <4>3
        <5>2. QED
          BY <1>4, <5>1
      <4>4. QED
        BY <4>1, <4>2, <4>3
    <3>7. QED
      BY <1>1, <1>4, <2>1, <3>2, <3>3, <3>5, <3>6
  <2>4. QED
    BY <2>2, <2>3
<1>7. QED
  BY <1>5, <1>6

\* What each step of a job does: it asks the LLM, or returns with an analysis of its issue.
Result(j) == [key |-> Key(j), kind |-> "analysed", stamp |-> DetailOf(j).stamp,
              days |-> job[j].days, edits |-> DetailOf(j).edits, refs |-> RefsOf(j)]

LEMMA RefsFacts ==
  ASSUME Shape, NEW j \in Jobs, Key(j) \in Keys
  PROVE  RefsOf(j) \in Nat
<1>1. j[1] \in Briefings /\ call[j[1]] \in Call
  BY JobsFacts DEF Shape, TypeOK
<1>2. call[j[1]].req.refs \in [Keys -> Nat]
  BY <1>1, CallFacts
<1>3. QED
  BY <1>2 DEF RefsOf

LEMMA ResultFacts ==
  ASSUME Shape, NEW j \in Jobs, job[j].pc = "llm"
  PROVE  /\ Result(j) \in Analysis /\ Result(j).key = Key(j) /\ DetailOf(j) \in Detail
         /\ CacheKey(j) = <<Result(j).key, Result(j).stamp>> /\ CacheKey(j) \in Keys \X Nat
<1>1. Key(j) \in Keys /\ DetailOf(j) \in Detail
  BY RunningFacts DEF Shape
<1>2. RefsOf(j) \in Nat /\ job[j].days \in Nat
  BY <1>1, RefsFacts DEF Shape, TypeOK, Job
<1>3. DetailOf(j).stamp \in Nat /\ DetailOf(j).edits \in Edits
  BY <1>1 DEF Detail
<1>4. QED
  BY <1>1, <1>2, <1>3 DEF Result, Analysis, CacheKey

LEMMA DegradedFacts ==
  ASSUME NEW k \in Keys, NEW reason \in {"missing", "failed"}
  PROVE  Degraded(k, reason) \in Analysis /\ Degraded(k, reason).key = k /\ Degraded(k, reason).kind = reason
  BY DEF Degraded, Analysis

LEMMA ReusedFacts ==
  ASSUME Shape, NEW j \in Jobs, Reused(j)
  PROVE  /\ job[j].pc = "sem" /\ DetailOf(j) \in Detail /\ ~MustAnalyse(j) /\ UNCHANGED cache
         /\ \E i \in DOMAIN cache, a \in Analysis :
              /\ Returns(j, a) /\ cache[i].key = CacheKey(j) /\ cache[i] \in Entries
              /\ a.key = Key(j) /\ cache[i].analysis.key = Key(j)
              /\ a.stamp = DetailOf(j).stamp /\ cache[i].analysis.stamp = a.stamp
              /\ a.kind = cache[i].analysis.kind /\ a.days = cache[i].analysis.days
              /\ RefsOf(j) # 0 => a.refs # 0
              /\ a.refs = RefsOf(j) \/ a.refs = cache[i].analysis.refs
<1>1. job[j].pc = "sem" /\ DetailOf(j) # None /\ ~MustAnalyse(j) /\ UNCHANGED cache
  BY DEF Reused, Permitted
<1>2. Key(j) \in Keys /\ DetailOf(j) \in Detail
  BY <1>1, RunningFacts
<1>3. PICK e \in Hits(j) : Returns(j, Reattached(e.analysis, RefsOf(j)))
  BY DEF Reused
<1>4. cache \in Seq(Entries)
  BY DEF Shape, TypeOK, Entries
<1>5. PICK i \in DOMAIN cache : cache[i] = e /\ e.key = CacheKey(j)
  BY <1>3 DEF Hits, ToSet
<1>6. e \in Entries /\ e.key = <<e.analysis.key, e.analysis.stamp>>
  <2>1. cache[i] \in Entries
    BY <1>4, <1>5
  <2>2. QED
    BY <1>5, <2>1 DEF Shape
<1>7. e.analysis \in Analysis /\ e.analysis.key = Key(j) /\ e.analysis.stamp = DetailOf(j).stamp
  BY <1>5, <1>6 DEF CacheKey, Entries
<1>8. PICK a : a = Reattached(e.analysis, RefsOf(j))
  OBVIOUS
<1>9. /\ a \in Analysis /\ a.key = e.analysis.key /\ a.stamp = e.analysis.stamp
      /\ a.kind = e.analysis.kind /\ a.days = e.analysis.days
      /\ RefsOf(j) # 0 => a.refs # 0
      /\ a.refs = RefsOf(j) \/ a.refs = e.analysis.refs
  <2>1. RefsOf(j) \in Nat
    BY <1>2, RefsFacts
  <2>2. CASE RefsOf(j) # 0 /\ e.analysis.refs = 0
    <3>1. a = [e.analysis EXCEPT !.refs = RefsOf(j)]
      BY <1>8, <2>2 DEF Reattached
    <3>2. QED
      BY <1>7, <2>1, <2>2, <3>1 DEF Analysis
  <2>3. CASE ~(RefsOf(j) # 0 /\ e.analysis.refs = 0)
    BY <1>7, <1>8, <2>3 DEF Reattached
  <2>4. QED
    BY <2>2, <2>3
<1>10. QED
  BY <1>1, <1>2, <1>3, <1>5, <1>6, <1>7, <1>8, <1>9

LEMMA NotFoundKeepsShape ==
  ASSUME Shape, NEW j \in Jobs, NotFound(j) \/ AnalysisFails(j)
  PROVE  Shape'
<1>1. PICK reason \in {"missing", "failed"} : Returns(j, Degraded(Key(j), reason))
  BY DEF NotFound, AnalysisFails
<1>2. job[j].pc # "none" /\ cache' = cache
  BY DEF NotFound, AnalysisFails, Permitted
<1>3. Key(j) \in Keys
  BY <1>2, RunningFacts
<1>4. PICK a \in Analysis : a = Degraded(Key(j), reason) /\ a.key = Key(j)
  BY <1>3, DegradedFacts
<1>5. /\ cache' \in Seq([key : Keys \X Nat, analysis : Analysis])
      /\ \A i \in DOMAIN cache' : cache'[i].key = <<cache'[i].analysis.key, cache'[i].analysis.stamp>>
  BY <1>2 DEF Shape, TypeOK
<1>6. QED
  BY <1>1, <1>2, <1>4, <1>5, ReturnsKeepsShape

LEMMA ReusedKeepsShape ==
  ASSUME Shape, NEW j \in Jobs, Reused(j)
  PROVE  Shape'
<1>1. job[j].pc # "none" /\ cache' = cache
  BY ReusedFacts
<1>2. PICK a \in Analysis : Returns(j, a) /\ a.key = Key(j)
  BY ReusedFacts
<1>3. /\ cache' \in Seq([key : Keys \X Nat, analysis : Analysis])
      /\ \A i \in DOMAIN cache' : cache'[i].key = <<cache'[i].analysis.key, cache'[i].analysis.stamp>>
  BY <1>1 DEF Shape, TypeOK
<1>4. QED
  BY <1>1, <1>2, <1>3, ReturnsKeepsShape

LEMMA AnalysedFacts ==
  ASSUME Shape, NEW j \in Jobs, Analysed(j)
  PROVE  /\ job[j].pc = "llm" /\ Returns(j, Result(j)) /\ Put(CacheKey(j), Result(j))
         /\ cache' \in Seq(Entries)
         /\ \A i \in DOMAIN cache' : \/ cache'[i] = [key |-> CacheKey(j), analysis |-> Result(j)]
                                     \/ \E n \in DOMAIN cache : cache'[i] = cache[n]
         /\ Len(cache) <= CacheMax /\ Unique(cache) => Len(cache') <= CacheMax /\ Unique(cache')
<1>1. job[j].pc = "llm" /\ Returns(j, Result(j)) /\ Put(CacheKey(j), Result(j))
  BY DEF Analysed, Result
<1>2. PICK k \in Keys \X Nat, a \in Analysis : k = CacheKey(j) /\ a = Result(j)
  BY <1>1, ResultFacts
<1>3. cache \in Seq(Entries) /\ Put(k, a)
  BY <1>1, <1>2 DEF Shape, TypeOK, Entries
<1>4. /\ cache' \in Seq(Entries)
      /\ \A i \in DOMAIN cache' : \/ cache'[i] = [key |-> k, analysis |-> a]
                                  \/ \E n \in DOMAIN cache : cache'[i] = cache[n]
      /\ Len(cache) <= CacheMax /\ Unique(cache) => Len(cache') <= CacheMax /\ Unique(cache')
  BY <1>3, PutFacts
<1>5. QED
  BY <1>1, <1>2, <1>4

LEMMA AnalysedKeepsShape ==
  ASSUME Shape, NEW j \in Jobs, Analysed(j)
  PROVE  Shape'
<1>1. PICK k, a : k = CacheKey(j) /\ a = Result(j)
  OBVIOUS
<1>2. job[j].pc = "llm" /\ Returns(j, a) /\ cache' \in Seq(Entries)
  BY <1>1, AnalysedFacts
<1>3. a \in Analysis /\ a.key = Key(j) /\ k = <<a.key, a.stamp>>
  BY <1>1, <1>2, ResultFacts
<1>4. ASSUME NEW i \in DOMAIN cache'
      PROVE  cache'[i].key = <<cache'[i].analysis.key, cache'[i].analysis.stamp>>
  <2>1. cache'[i] = [key |-> k, analysis |-> a] \/ \E n \in DOMAIN cache : cache'[i] = cache[n]
    BY <1>1, <1>4, AnalysedFacts
  <2>2. CASE cache'[i] = [key |-> k, analysis |-> a]
    BY <1>3, <2>2
  <2>3. CASE \E n \in DOMAIN cache : cache'[i] = cache[n]
    BY <2>3 DEF Shape
  <2>4. QED
    BY <2>1, <2>2, <2>3
<1>5. cache' \in Seq([key : Keys \X Nat, analysis : Analysis])
  BY <1>2 DEF Entries
<1>6. QED
  BY <1>2, <1>3, <1>4, <1>5, ReturnsKeepsShape

LEMMA AskLLMKeepsShape ==
  ASSUME Shape, NEW j \in Jobs, AskLLM(j)
  PROVE  Shape'
<1>1. PICK x : x = [pc |-> "llm", days |-> DaysBlocked(LogOf(j), today)]
  OBVIOUS
<1>2. /\ job[j].pc = "sem" /\ DetailOf(j) # None /\ job' = [job EXCEPT ![j] = x]
      /\ today' = today /\ log' = log /\ edits' = edits /\ cache' = cache /\ sem' = sem /\ call' = call
  BY <1>1 DEF AskLLM, Permitted
<1>3. /\ TypeOK /\ IsInjective(sem) /\ (\A i \in DOMAIN sem : job[sem[i]].pc \in {"sem", "llm"})
      /\ (\A i \in DOMAIN cache : cache[i].key = <<cache[i].analysis.key, cache[i].analysis.stamp>>)
      /\ (\A i \in Jobs : job[i].pc = "llm" => DetailOf(i) # None)
      /\ \A b \in Briefings : CallShape(b)
  BY DEF Shape
<1>4. Key(j) \in Keys /\ DetailOf(j) \in Detail
  BY <1>2, RunningFacts
<1>5. LogOf(j) \in Seq(Entry)
  <2>1. log[Key(j)] \in Seq(Entry) /\ DetailOf(j).stamp \in Nat
    BY <1>3, <1>4 DEF TypeOK, Detail
  <2>2. QED
    BY <2>1, UpToFacts DEF LogOf
<1>6. x \in Job /\ x.pc = "llm"
  <2>1. today \in Nat /\ LastDay \in Nat
    BY <1>3, ConstantFacts DEF TypeOK
  <2>2. DaysBlocked(LogOf(j), today) \in Nat
    BY <1>5, <2>1, SpellFacts
  <2>3. QED
    BY <1>1, <2>2 DEF Job
<1>7. job' \in [Jobs -> Job] /\ job'[j] = x /\ \A i \in Jobs : i # j => job'[i] = job[i]
  BY <1>2, <1>3, <1>6 DEF TypeOK
<1>8. TypeOK'
  BY <1>2, <1>3, <1>7 DEF TypeOK
<1>9. \A i \in DOMAIN sem' : job'[sem'[i]].pc \in {"sem", "llm"}
  <2>1. \A i \in DOMAIN sem : sem[i] \in Jobs
    BY <1>3 DEF TypeOK
  <2>2. QED
    BY <1>2, <1>3, <1>6, <1>7, <2>1
<1>10. \A i \in Jobs : job'[i].pc = "llm" => DetailOf(i)' # None
  BY <1>2, <1>3, <1>7 DEF DetailOf, Key
<1>11. ASSUME NEW b \in Briefings
       PROVE  CallShape(b)'
  <2>1. call[b] \in Call
    BY <1>3 DEF TypeOK
  <2>2. Len(call[b].keys) \in Nat /\ Len(call[b].keys) <= MaxAnalysed /\ MaxAnalysed \in Nat
    BY <1>3, <2>1, CallFacts, ConstantFacts DEF CallShape, LocalsShape
  <2>3. \A i \in 1..MaxAnalysed : /\ job'[<<b, i>>].pc # "none" <=> job[<<b, i>>].pc # "none"
                                  /\ job'[<<b, i>>].pc = "done" <=> job[<<b, i>>].pc = "done"
    BY <1>2, <1>6, <1>7, JobsFacts
  <2>4. \A i \in 1..Len(call[b].keys) : i \in 1..MaxAnalysed
    BY <2>2
  <2>5. \A i \in 1..Len(call[b].keys) : Ready(b, i)' <=> Ready(b, i)
    BY <1>2, <2>3, <2>4 DEF Ready
  <2>6. QED
    BY <1>2, <1>3, <2>3, <2>5 DEF CallShape
<1>12. QED
  BY <1>2, <1>3, <1>8, <1>9, <1>10, <1>11 DEF Shape

LEMMA JobStepKeepsShape ==
  ASSUME Shape, NEW j \in Jobs, JobStep(j)
  PROVE  Shape'
  BY NotFoundKeepsShape, ReusedKeepsShape, AnalysedKeepsShape, AskLLMKeepsShape DEF JobStep

-----------------------------------------------------------------------------
(* Steps of a call.                                                        *)

LEMMA TopicAnalysesOf ==
  \A b, t : TopicAnalyses(b, t) = TopicOf(call[b].req.topics[t], call[b].keys, call[b].analyses)
  BY DEF TopicAnalyses, TopicOf

\* While b fetches it has no jobs.
LEMMA FetchingKeepsShape ==
  ASSUME Shape, NEW b \in Briefings, call[b].at \in {"idle", "fetch"},
         NEW x \in Call, x.at = "fetch", LocalsShape(x), call' = [call EXCEPT ![b] = x],
         UNCHANGED <<today, log, edits, cache, sem, job>>
  PROVE  Shape'
<1>1. /\ TypeOK /\ IsInjective(sem) /\ (\A i \in DOMAIN sem : job[sem[i]].pc \in {"sem", "llm"})
      /\ (\A i \in DOMAIN cache : cache[i].key = <<cache[i].analysis.key, cache[i].analysis.stamp>>)
      /\ (\A i \in Jobs : job[i].pc = "llm" => DetailOf(i) # None)
      /\ \A c \in Briefings : CallShape(c)
  BY DEF Shape
<1>2. /\ call' \in [Briefings -> Call] /\ call'[b] = x
      /\ \A c \in Briefings : c # b => call'[c] = call[c]
  BY <1>1 DEF TypeOK
<1>3. TypeOK'
  BY <1>1, <1>2 DEF TypeOK
<1>4. \A i \in 1..MaxAnalysed : job[<<b, i>>].pc = "none"
  BY <1>1 DEF CallShape
<1>5. CallShape(b)'
  BY <1>2, <1>4 DEF CallShape, Ready
<1>6. ASSUME NEW c \in Briefings, c # b PROVE CallShape(c)'
  <2>1. call'[c] = call[c] /\ CallShape(c) /\ \A i \in 1..MaxAnalysed : job'[<<c, i>>] = job[<<c, i>>]
    BY <1>1, <1>2, <1>6
  <2>2. QED
    BY <1>1, <2>1, CallShapeKept
<1>7. ASSUME NEW i \in Jobs, job'[i].pc = "llm"
      PROVE  DetailOf(i)' # None
  <2>1. i[1] \in Briefings /\ i[1] # b
    BY <1>4, <1>7, JobsFacts
  <2>2. QED
    BY <1>1, <1>2, <1>7, <2>1 DEF DetailOf, Key
<1>8. QED
  BY <1>1, <1>3, <1>5, <1>6, <1>7 DEF Shape

\* A batch that goes on from b's batch i.
LEMMA BatchGoesFacts ==
  ASSUME Shape, NEW b \in Briefings, NEW i, Posting(b, i), NEW batch \in Batch, BatchGoes(b, i, batch)
  PROVE  /\ call[b].at = "fetch" /\ i \in 1..Len(call[b].batches)
         /\ UNCHANGED <<today, log, edits, cache, sem, job>>
         /\ \E x \in Call :
              /\ call' = [call EXCEPT ![b] = x] /\ x.at = "fetch" /\ LocalsShape(x)
              /\ x.req = call[b].req /\ x.keys = call[b].keys /\ x.since = call[b].since
              /\ x.details = call[b].details /\ x.error = call[b].error
              /\ DOMAIN x.batches = DOMAIN call[b].batches /\ x.batches[i] = batch
              /\ \A n \in DOMAIN x.batches : n # i => x.batches[n] = call[b].batches[n]
<1>1. call \in [Briefings -> Call] /\ LocalsShape(call[b])
  BY DEF Shape, TypeOK, CallShape
<1>2. PICK c \in Call : c = call[b]
  BY <1>1
<1>3. c.batches \in Seq(Batch) /\ DOMAIN c.batches = 1..Len(c.batches) /\ i \in DOMAIN c.batches
  BY <1>2, CallFacts DEF Posting
<1>4. c.at = "fetch"
  <2>1. c.batches # <<>>
    BY <1>3
  <2>2. QED
    BY <1>1, <1>2, <2>1 DEF LocalsShape
<1>5. PICK list : list = [c.batches EXCEPT ![i] = batch]
  OBVIOUS
<1>6. /\ list \in Seq(Batch) /\ DOMAIN list = DOMAIN c.batches /\ list[i] = batch
      /\ \A n \in DOMAIN list : n # i => list[n] = c.batches[n]
  BY <1>3, <1>5
<1>7. PICK x : x = [c EXCEPT !.batches = list]
  OBVIOUS
<1>8. x \in Call
  BY <1>6, <1>7 DEF Call
<1>9. /\ x.at = c.at /\ x.req = c.req /\ x.keys = c.keys /\ x.since = c.since
      /\ x.details = c.details /\ x.error = c.error /\ x.batches = list
      /\ x.skipped = c.skipped /\ x.analyses = c.analyses
  BY <1>7 DEF Call
<1>10. call' = [call EXCEPT ![b] = x]
  BY <1>1, <1>2, <1>5, <1>7 DEF BatchGoes, Call
<1>11. LocalsShape(x)
  BY <1>1, <1>2, <1>4, <1>6, <1>9 DEF LocalsShape
<1>12. UNCHANGED <<today, log, edits, cache, sem, job>>
  BY DEF BatchGoes
<1>13. QED
  BY <1>2, <1>3, <1>4, <1>6, <1>8, <1>9, <1>10, <1>11, <1>12

\* What becomes of a batch: it is tried again, or has an answer, or fails.
LEMMA BatchStepFacts ==
  ASSUME Shape, NEW b \in Briefings, NEW i \in DOMAIN call[b].batches, BatchStep(b, i)
  PROVE  Posting(b, i) /\ \E batch \in Batch :
           /\ BatchGoes(b, i, batch)
           /\ \/ /\ batch.pc = "ok"
                 /\ \A k \in Keys : batch.details[k] = IF k \in Chunk(b, i) \ Unknown THEN Issues[k] ELSE None
              \/ /\ batch.pc = "ok" => batch.error # "none"
                 /\ \A k \in Keys : batch.details[k] = None
<1>1. Posting(b, i)
  BY DEF BatchStep, BatchAnswered, BatchErrs, TriesAgain, BatchFails
<1>2. call[b].batches[i].tries \in Nat
  <2>1. call[b] \in Call /\ i \in 1..Len(call[b].batches)
    BY CallFacts DEF Shape, TypeOK
  <2>2. call[b].batches[i] \in Batch
    BY <2>1, CallFacts
  <2>3. QED
    BY <2>2 DEF Batch
<1>3. NewBatch \in Batch /\ \A k \in Keys : NewBatch.details[k] = None
  BY DEF NewBatch, NoDetails, Batch, Details, Error
<1>4. CASE BatchAnswered(b, i)
  <2>1. PICK d : d = [k \in Keys |-> IF k \in Chunk(b, i) \ Unknown THEN Issues[k] ELSE None]
    OBVIOUS
  <2>2. Issues \in [Keys -> Detail]
    <3>1. log \in [Keys -> Seq(Entry)] /\ edits \in [Keys -> Edits]
      BY DEF Shape, TypeOK
    <3>2. \A k \in Keys : Len(log[k]) \in Nat /\ edits[k] \in Edits
      BY <3>1
    <3>3. QED
      BY <3>2 DEF Issues, Detail
  <2>3. d \in Details /\ \A k \in Keys : d[k] = IF k \in Chunk(b, i) \ Unknown THEN Issues[k] ELSE None
    BY <2>1, <2>2 DEF Details
  <2>4. PICK error \in {"none", "empty"} :
          BatchGoes(b, i, [NewBatch EXCEPT !.pc = "ok", !.error = error, !.details = d])
    BY <1>4, <2>1 DEF BatchAnswered
  <2>5. PICK batch : batch = [NewBatch EXCEPT !.pc = "ok", !.error = error, !.details = d]
    OBVIOUS
  <2>6. batch \in Batch /\ batch.pc = "ok" /\ batch.details = d
    BY <2>3, <2>5 DEF NewBatch, Batch, Error
  <2>7. QED
    BY <1>1, <2>3, <2>4, <2>5, <2>6
<1>5. CASE BatchErrs(b, i)
  <2>1. PICK error \in {"empty", "text"} :
          BatchGoes(b, i, [NewBatch EXCEPT !.pc = "ok", !.error = error])
    BY <1>5 DEF BatchErrs
  <2>2. PICK batch : batch = [NewBatch EXCEPT !.pc = "ok", !.error = error]
    OBVIOUS
  <2>3. batch \in Batch /\ batch.error # "none" /\ batch.details = NewBatch.details
    BY <1>3, <2>1, <2>2 DEF NewBatch, Batch, Error
  <2>4. QED
    BY <1>1, <1>3, <2>1, <2>2, <2>3
<1>6. CASE TriesAgain(b, i)
  <2>0. PICK n \in Nat : n = call[b].batches[i].tries + 1
    BY <1>2
  <2>1. PICK batch : batch = [NewBatch EXCEPT !.tries = n]
    OBVIOUS
  <2>2. batch \in Batch /\ batch.pc = "post" /\ batch.details = NewBatch.details
    BY <1>3, <2>1 DEF NewBatch, Batch
  <2>3. BatchGoes(b, i, batch)
    BY <1>6, <2>0, <2>1 DEF TriesAgain
  <2>4. QED
    BY <1>1, <1>3, <2>2, <2>3
<1>7. CASE BatchFails(b, i)
  <2>1. PICK batch : batch = [NewBatch EXCEPT !.pc = "failed"]
    OBVIOUS
  <2>2. batch \in Batch /\ batch.pc = "failed" /\ batch.details = NewBatch.details
    BY <1>3, <2>1 DEF NewBatch, Batch
  <2>3. BatchGoes(b, i, batch)
    BY <1>7, <2>1 DEF BatchFails
  <2>4. QED
    BY <1>1, <1>3, <2>2, <2>3
<1>8. QED
  BY <1>4, <1>5, <1>6, <1>7 DEF BatchStep

LEMMA BatchStepKeepsShape ==
  ASSUME Shape, NEW b \in Briefings, NEW i \in DOMAIN call[b].batches, BatchStep(b, i)
  PROVE  Shape'
<1>1. PICK batch \in Batch : Posting(b, i) /\ BatchGoes(b, i, batch)
  BY BatchStepFacts
<1>2. /\ call[b].at = "fetch" /\ UNCHANGED <<today, log, edits, cache, sem, job>>
      /\ \E x \in Call : call' = [call EXCEPT ![b] = x] /\ x.at = "fetch" /\ LocalsShape(x)
  BY <1>1, BatchGoesFacts
<1>3. QED
  BY <1>2, FetchingKeepsShape

LEMMA NoCallFacts ==
  /\ NoCall \in Call
  /\ NoCall.keys = <<>> /\ NoCall.analyses = <<>> /\ NoCall.batches = <<>> /\ NoCall.at = "idle"
  /\ \A k \in Keys : NoCall.details[k] = None
<1>1. NoCall.since \in [day : Nat, issues : [Keys -> Detail]]
  BY DEF NoCall, Detail
<1>2. NoDetails \in Details /\ \A k \in Keys : NoDetails[k] = None
  BY DEF NoDetails, Details
<1> DEFINE since == [day |-> 0, issues |-> [k \in Keys |-> [stamp |-> 0, edits |-> 0]]]
<1>3. NoCall = [at |-> "idle", req |-> NoRequest, keys |-> <<>>, skipped |-> {}, since |-> since,
                batches |-> <<>>, details |-> NoDetails, error |-> "none", analyses |-> <<>>,
                sections |-> <<>>, ranked |-> 0]
  BY DEF NoCall
<1>4. since \in [day : Nat, issues : [Keys -> Detail]]
  BY <1>1, <1>3
<1> HIDE DEF since
<1>5. NoRequest \in Request
  BY DEF NoRequest, Request
<1>6. NoCall \in Call
  BY ONLY <1>2, <1>3, <1>4, <1>5 DEF Call, Error
<1>7. QED
  BY <1>2, <1>3, <1>6

LEMMA BeginFacts ==
  ASSUME Shape, NEW b \in Briefings, Begin(b)
  PROVE  /\ call[b].at = "idle" /\ UNCHANGED <<today, log, edits, cache, sem, job>>
         /\ \E x \in Call :
              /\ call' = [call EXCEPT ![b] = x] /\ x.at = "fetch" /\ LocalsShape(x)
              /\ x.req \in Request
              /\ x.req.force => x.since.day = today /\ x.since.issues = Issues
              /\ \A i \in DOMAIN x.batches : x.batches[i] = NewBatch
              /\ \A k \in Keys : x.details[k] = None
<1>1. /\ call[b].at = "idle" /\ UNCHANGED <<today, log, edits, cache, sem, job>>
      /\ call \in [Briefings -> Call]
  BY DEF Begin, Shape, TypeOK
<1>2. PICK req \in Requests[b] :
        LET keys    == KeptKeys(req.topics)
            batches == {i \in DOMAIN keys : (i - 1) * BatchSize < Len(keys)}
        IN  call' = [call EXCEPT ![b] =
              [NoCall EXCEPT !.at = "fetch", !.req = req, !.keys = keys, !.skipped = Skipped(req.topics),
                 !.since = IF req.force THEN [day |-> today, issues |-> Issues] ELSE @,
                 !.batches = [i \in batches |-> NewBatch]]]
  BY DEF Begin
<1>3. PICK keys : keys = KeptKeys(req.topics)
  OBVIOUS
<1>4. PICK I : I = {i \in DOMAIN keys : (i - 1) * BatchSize < Len(keys)}
  OBVIOUS
<1>5. PICK since : since = IF req.force THEN [day |-> today, issues |-> Issues] ELSE NoCall.since
  OBVIOUS
<1>6. PICK batches : batches = [i \in I |-> NewBatch]
  OBVIOUS
<1>7. PICK skipped : skipped = Skipped(req.topics)
  OBVIOUS
<1>8. PICK x : x = [NoCall EXCEPT !.at = "fetch", !.req = req, !.keys = keys, !.skipped = skipped,
                      !.since = since, !.batches = batches]
  OBVIOUS
<1>9. req \in Request /\ req.topics \in Seq(Seq(Keys))
  BY ConstantFacts DEF Request
<1>10. /\ keys \in Seq(Keys) /\ Len(keys) \in Nat /\ DOMAIN keys = 1..Len(keys)
       /\ Len(keys) <= MaxAnalysed
  BY <1>3, <1>9, KeptKeysFacts
<1>11. since \in [day : Nat, issues : [Keys -> Detail]]
  <2>1. NoCall.since \in [day : Nat, issues : [Keys -> Detail]]
    BY NoCallFacts DEF Call
  <2>2. today \in Nat /\ log \in [Keys -> Seq(Entry)] /\ edits \in [Keys -> Edits]
    BY ConstantFacts DEF Shape, TypeOK
  <2>3. \A k \in Keys : Len(log[k]) \in Nat /\ edits[k] \in Edits
    BY <2>2
  <2>4. Issues \in [Keys -> Detail]
    BY <2>3 DEF Issues, Detail
  <2>5. QED
    BY <1>5, <2>1, <2>2, <2>4
<1>12. batches \in Seq(Batch) /\ DOMAIN batches = I /\ \A i \in I : batches[i] = NewBatch
  <2>1. PICK m \in 0..Len(keys) : I = 1..m
    BY <1>4, <1>10, BatchesFacts
  <2>2. NewBatch \in Batch
    BY DEF NewBatch, NoDetails, Batch, Details, Error
  <2>3. QED
    BY <1>6, <2>1, <2>2
<1>13. skipped \subseteq Nat
  BY <1>7, <1>9 DEF Skipped
<1>14. x \in Call
  <2>1. req \in Request /\ keys \in Seq(Keys) /\ batches \in Seq(Batch) /\ skipped \subseteq Nat
    BY <1>9, <1>10, <1>12, <1>13
  <2>2. NoCall \in Call
    BY NoCallFacts
  <2>3. QED
    BY ONLY <1>8, <1>11, <2>1, <2>2 DEF Call
<1>15. /\ x.at = "fetch" /\ x.req = req /\ x.keys = keys /\ x.skipped = skipped /\ x.since = since
       /\ x.batches = batches /\ x.analyses = NoCall.analyses /\ x.details = NoCall.details
  BY <1>8, NoCallFacts DEF Call
<1>16. LocalsShape(x)
  BY <1>3, <1>4, <1>7, <1>9, <1>10, <1>12, <1>15, NoCallFacts DEF LocalsShape
<1>17. call' = [call EXCEPT ![b] = x]
  BY <1>2, <1>3, <1>4, <1>5, <1>6, <1>7, <1>8 DEF NoCall
<1>18. req.force => since.day = today /\ since.issues = Issues
  BY <1>5
<1>19. QED
  BY <1>1, <1>9, <1>12, <1>14, <1>15, <1>16, <1>17, <1>18, NoCallFacts

LEMMA BeginKeepsShape ==
  ASSUME Shape, NEW b \in Briefings, Begin(b)
  PROVE  Shape'
<1>1. /\ call[b].at = "idle" /\ UNCHANGED <<today, log, edits, cache, sem, job>>
      /\ \E x \in Call : call' = [call EXCEPT ![b] = x] /\ x.at = "fetch" /\ LocalsShape(x)
  BY BeginFacts
<1>2. QED
  BY <1>1, FetchingKeepsShape

\* The analysis starts with these details.
LEMMA StartFacts ==
  ASSUME Shape, NEW b \in Briefings, call[b].at = "fetch", NEW details \in Details, NEW error \in Error,
         StartAnalysis(b, details, error)
  PROVE  /\ UNCHANGED <<today, log, edits, cache>>
         /\ job' \in [Jobs -> Job] /\ \A j \in Jobs : j[1] # b => job'[j] = job[j]
         /\ \A i \in 1..MaxAnalysed :
              /\ job[<<b, i>>].pc = "none"
              /\ job'[<<b, i>>].pc = IF i <= Len(call[b].keys) THEN "sem" ELSE "none"
         /\ \E x \in Call :
              /\ call' = [call EXCEPT ![b] = x] /\ x.at = "analyse" /\ LocalsShape(x)
              /\ x.req = call[b].req /\ x.keys = call[b].keys /\ x.since = call[b].since
              /\ x.batches = <<>> /\ x.details = details /\ x.error = error
<1>1. call \in [Briefings -> Call] /\ CallShape(b) /\ job \in [Jobs -> Job] /\ LocalsShape(call[b])
  BY DEF Shape, TypeOK, CallShape
<1>2. PICK c \in Call : c = call[b]
  BY <1>1
<1>3. /\ c.keys \in Seq(Keys) /\ Len(c.keys) \in Nat /\ DOMAIN c.keys = 1..Len(c.keys)
      /\ Len(c.keys) <= MaxAnalysed /\ MaxAnalysed \in Nat
  BY <1>1, <1>2, CallFacts, ConstantFacts DEF LocalsShape
<1>4. PICK list : list = [i \in 1..Len(c.keys) |-> None]
  OBVIOUS
<1>5. list \in Seq(Analysis \cup {None}) /\ Len(list) = Len(c.keys)
  BY <1>3, <1>4
<1>6. PICK x : x = [c EXCEPT !.at = "analyse", !.batches = <<>>, !.details = details, !.error = error,
                             !.analyses = list]
  OBVIOUS
<1>7. x \in Call
  <2>1. <<>> \in Seq(Batch)
    OBVIOUS
  <2>2. PICK none \in Seq(Batch) : none = <<>>
    BY <2>1
  <2>3. x = [c EXCEPT !.at = "analyse", !.batches = none, !.details = details, !.error = error,
                      !.analyses = list]
    BY <1>6, <2>2
  <2>4. QED
    BY <1>5, <2>3 DEF Call
<1>8. /\ x.at = "analyse" /\ x.req = c.req /\ x.keys = c.keys /\ x.since = c.since /\ x.skipped = c.skipped
      /\ x.batches = <<>> /\ x.details = details /\ x.error = error /\ x.analyses = list
  BY <1>6 DEF Call
<1>9. LocalsShape(x)
  BY <1>1, <1>2, <1>5, <1>8 DEF LocalsShape
<1>10. call' = [call EXCEPT ![b] = x]
  BY <1>1, <1>2, <1>3, <1>4, <1>6 DEF StartAnalysis, Call
<1>11. /\ job' = [j \in Jobs |-> IF j[1] = b /\ j[2] \in 1..Len(c.keys)
                                 THEN [NoJob EXCEPT !.pc = "sem"] ELSE job[j]]
       /\ UNCHANGED <<today, log, edits, cache>>
  BY <1>2, <1>3 DEF StartAnalysis
<1>12. [NoJob EXCEPT !.pc = "sem"] \in Job /\ [NoJob EXCEPT !.pc = "sem"].pc = "sem"
  BY DEF NoJob, Job
<1>13. job' \in [Jobs -> Job] /\ \A j \in Jobs : j[1] # b => job'[j] = job[j]
  BY <1>1, <1>11, <1>12
<1>14. ASSUME NEW i \in 1..MaxAnalysed
       PROVE  /\ job[<<b, i>>].pc = "none"
              /\ job'[<<b, i>>].pc = IF i <= Len(call[b].keys) THEN "sem" ELSE "none"
  <2>1. job[<<b, i>>].pc = "none"
    BY <1>1 DEF CallShape
  <2>2. <<b, i>> \in Jobs /\ <<b, i>>[1] = b /\ <<b, i>>[2] = i
    BY JobsFacts
  <2>3. i <= Len(call[b].keys) <=> i \in 1..Len(c.keys)
    BY <1>2, <1>3
  <2>4. QED
    BY <1>11, <1>12, <2>1, <2>2, <2>3
<1>15. QED
  BY <1>2, <1>7, <1>8, <1>9, <1>10, <1>11, <1>13, <1>14

\* Two queues in one.
LEMMA ConcatFacts ==
  ASSUME NEW S, NEW u \in Seq(S), NEW w \in Seq(S)
  PROVE  /\ u \o w \in Seq(S) /\ DOMAIN (u \o w) = 1..Len(u) + Len(w)
         /\ \A i \in 1..Len(u) : (u \o w)[i] = u[i]
         /\ \A i \in Len(u) + 1..Len(u) + Len(w) : (u \o w)[i] = w[i - Len(u)]
OBVIOUS

LEMMA StartKeepsShape ==
  ASSUME Shape, NEW b \in Briefings, call[b].at = "fetch", NEW details \in Details, NEW error \in Error,
         StartAnalysis(b, details, error)
  PROVE  Shape'
<1>1. /\ TypeOK /\ IsInjective(sem) /\ (\A i \in DOMAIN sem : job[sem[i]].pc \in {"sem", "llm"})
      /\ (\A i \in DOMAIN cache : cache[i].key = <<cache[i].analysis.key, cache[i].analysis.stamp>>)
      /\ (\A i \in Jobs : job[i].pc = "llm" => DetailOf(i) # None)
      /\ \A c \in Briefings : CallShape(c)
  BY DEF Shape
<1>2. /\ UNCHANGED <<today, log, edits, cache>>
      /\ job' \in [Jobs -> Job] /\ \A j \in Jobs : j[1] # b => job'[j] = job[j]
      /\ \A i \in 1..MaxAnalysed :
           /\ job[<<b, i>>].pc = "none"
           /\ job'[<<b, i>>].pc = IF i <= Len(call[b].keys) THEN "sem" ELSE "none"
  BY StartFacts
<1>3. PICK x \in Call :
        /\ call' = [call EXCEPT ![b] = x] /\ x.at = "analyse" /\ LocalsShape(x) /\ x.keys = call[b].keys
  BY StartFacts
<1>4. /\ call' \in [Briefings -> Call] /\ call'[b] = x
      /\ \A c \in Briefings : c # b => call'[c] = call[c]
  BY <1>1, <1>3 DEF TypeOK
<1>5. PICK N \in Nat : N = Len(call[b].keys) /\ N <= MaxAnalysed /\ DOMAIN call[b].keys = 1..N
  <2>1. call[b] \in Call /\ LocalsShape(call[b])
    BY <1>1 DEF TypeOK, CallShape
  <2>2. QED
    BY <2>1, CallFacts DEF LocalsShape
<1>6. MaxAnalysed \in Nat /\ \A i \in 1..N : i \in 1..MaxAnalysed
  BY <1>5, ConstantFacts
<1>7. PICK s, t : s = sem /\ t = [i \in 1..N |-> <<b, i>>]
  OBVIOUS
<1>8. s \in Seq(Jobs) /\ t \in Seq(Jobs) /\ Len(t) = N /\ Len(s) \in Nat /\ \A i \in 1..N : t[i] = <<b, i>>
  <2>1. \A i \in 1..N : <<b, i>> \in Jobs
    BY <1>6, JobsFacts
  <2>2. QED
    BY <1>1, <1>7, <2>1 DEF TypeOK
<1>9. sem' = s \o t
  BY <1>5, <1>7 DEF StartAnalysis
<1>10. /\ sem' \in Seq(Jobs) /\ DOMAIN sem' = 1..Len(s) + N
       /\ \A i \in 1..Len(s) : sem'[i] = s[i]
       /\ \A i \in Len(s) + 1..Len(s) + N : i - Len(s) \in 1..N /\ sem'[i] = <<b, i - Len(s)>>
  <2>1. PICK n, r : n = Len(s) /\ r = s \o t
    OBVIOUS
  <2>2. n \in Nat /\ sem' = r
    BY ONLY <1>8, <1>9, <2>1, Zenon
  <2>3. /\ r \in Seq(Jobs) /\ DOMAIN r = 1..n + N
        /\ \A i \in 1..n : r[i] = s[i]
        /\ \A i \in n + 1..n + N : r[i] = t[i - n]
    BY ONLY <1>8, <2>1, ConcatFacts
  <2>4. \A i \in n + 1..n + N : i - n \in 1..N
    BY <1>5, <2>2
  <2>5. \A i \in n + 1..n + N : i - n \in 1..N /\ r[i] = <<b, i - n>>
    BY ONLY <1>8, <2>3, <2>4
  <2>6. QED
    BY ONLY <2>1, <2>2, <2>3, <2>5
<1>11. \A i \in 1..Len(s) : s[i] \in Jobs /\ i \in DOMAIN sem /\ s[i][1] # b
  <2>1. ASSUME NEW i \in 1..Len(s)
        PROVE  s[i] \in Jobs /\ i \in DOMAIN sem /\ s[i][1] # b
    <3>1. s[i] \in Jobs /\ i \in DOMAIN sem
      BY <1>7, <1>8
    <3>2. job[s[i]].pc # "none"
      BY <1>1, <1>7, <3>1
    <3>3. QED
      BY <1>2, <3>1, <3>2, JobsFacts
  <2>2. QED
    BY <2>1
<1>12. \A i \in 1..Len(s) + N : i \in 1..Len(s) \/ i \in Len(s) + 1..Len(s) + N
  BY <1>8
<1>13. IsInjective(sem')
  <2>1. ASSUME NEW i \in DOMAIN sem', NEW k \in DOMAIN sem', sem'[i] = sem'[k]
        PROVE  i = k
    <3>1. CASE i \in 1..Len(s) /\ k \in 1..Len(s)
      BY <1>1, <1>7, <1>10, <1>11, <2>1, <3>1 DEF IsInjective
    <3>2. CASE i \in 1..Len(s) /\ k \in Len(s) + 1..Len(s) + N
      <4>1. sem'[i][1] # b
        BY <1>10, <1>11, <3>2
      <4>2. sem'[k][1] = b
        BY <1>10, <3>2
      <4>3. QED
        BY <2>1, <4>1, <4>2
    <3>3. CASE i \in Len(s) + 1..Len(s) + N /\ k \in 1..Len(s)
      <4>1. sem'[k][1] # b
        BY <1>10, <1>11, <3>3
      <4>2. sem'[i][1] = b
        BY <1>10, <3>3
      <4>3. QED
        BY <2>1, <4>1, <4>2
    <3>4. CASE i \in Len(s) + 1..Len(s) + N /\ k \in Len(s) + 1..Len(s) + N
      <4>1. <<b, i - Len(s)>> = <<b, k - Len(s)>>
        BY <1>10, <2>1, <3>4
      <4>2. i - Len(s) = k - Len(s)
        BY <4>1
      <4>3. i \in Nat /\ k \in Nat
        BY <1>8, <3>4
      <4>4. QED
        BY <1>8, <4>2, <4>3
    <3>5. QED
      BY <1>10, <1>12, <2>1, <3>1, <3>2, <3>3, <3>4
  <2>2. QED
    BY <2>1 DEF IsInjective
<1>14. \A i \in DOMAIN sem' : job'[sem'[i]].pc \in {"sem", "llm"}
  <2>1. ASSUME NEW i \in 1..Len(s)
        PROVE  job'[sem'[i]].pc \in {"sem", "llm"}
    BY <1>1, <1>2, <1>7, <1>10, <1>11, <2>1
  <2>2. ASSUME NEW i \in Len(s) + 1..Len(s) + N
        PROVE  job'[sem'[i]].pc \in {"sem", "llm"}
    <3>1. PICK n \in 1..N : sem'[i] = <<b, n>>
      BY <1>10, <2>2
    <3>2. n \in 1..MaxAnalysed /\ n <= Len(call[b].keys)
      BY <1>5, <1>6, <3>1
    <3>3. QED
      BY <1>2, <3>1, <3>2
  <2>3. QED
    BY <1>10, <1>12, <2>1, <2>2
<1>15. TypeOK'
  BY <1>1, <1>2, <1>4, <1>10 DEF TypeOK
<1>16. CallShape(b)'
  <2>1. \A i \in 1..N : ~Ready(b, i)'
    BY <1>2, <1>3, <1>4, <1>5, <1>6 DEF Ready
  <2>2. \A i \in 1..MaxAnalysed :
          job'[<<b, i>>].pc # "none" <=> call'[b].at = "analyse" /\ i <= Len(call'[b].keys)
    BY <1>2, <1>3, <1>4
  <2>3. QED
    BY <1>3, <1>4, <1>5, <2>1, <2>2 DEF CallShape
<1>17. ASSUME NEW c \in Briefings, c # b PROVE CallShape(c)'
  <2>1. \A i \in 1..MaxAnalysed : job'[<<c, i>>] = job[<<c, i>>]
    BY <1>2, <1>17, JobsFacts
  <2>2. call'[c] = call[c] /\ CallShape(c)
    BY <1>1, <1>4, <1>17
  <2>3. QED
    BY <1>1, <2>1, <2>2, CallShapeKept
<1>18. ASSUME NEW i \in Jobs, job'[i].pc = "llm"
       PROVE  DetailOf(i)' # None
  <2>1. i[1] \in Briefings /\ i[1] # b
    BY <1>2, <1>18, JobsFacts
  <2>2. job[i].pc = "llm" /\ call'[i[1]] = call[i[1]]
    BY <1>2, <1>4, <1>18, <2>1
  <2>3. QED
    BY <1>1, <2>2 DEF DetailOf, Key
<1>19. QED
  BY <1>1, <1>2, <1>13, <1>14, <1>15, <1>16, <1>17, <1>18 DEF Shape

\* The merged answer has an error if a batch's answer has one.
LEMMA ErrorOfFacts ==
  ASSUME NEW batches \in Seq(Batch)
  PROVE  /\ ErrorOf(batches) \in Error
         /\ ErrorOf(batches) = "none" => \A i \in DOMAIN batches : batches[i].error = "none"
<1>1. DOMAIN batches = 1..Len(batches) /\ Len(batches) \in Nat
  OBVIOUS
<1>2. \A i \in DOMAIN batches : batches[i].error \in Error
  <2>1. \A i \in DOMAIN batches : batches[i] \in Batch
    OBVIOUS
  <2>2. QED
    BY <2>1 DEF Batch
<1>3. PICK errs : errs = {i \in DOMAIN batches : batches[i].error # "none"}
  OBVIOUS
<1>4. CASE errs = {}
  BY <1>3, <1>4 DEF ErrorOf, Error
<1>5. CASE errs # {}
  <2>1. errs \in SUBSET (0..Len(batches)) /\ Len(batches) \in Nat
    BY <1>1, <1>3
  <2>2. Min(errs) \in errs
    BY <1>5, <2>1, MinMax
  <2>3. ErrorOf(batches) = batches[Min(errs)].error
    BY <1>3, <1>5 DEF ErrorOf
  <2>4. QED
    BY <1>2, <1>3, <2>2, <2>3
<1>6. QED
  BY <1>4, <1>5

\* How the details were put together: from the answers of the batches, all of them if
\* there was no error.
LEMMA FetchedFacts ==
  ASSUME Shape, NEW b \in Briefings, Fetched(b) \/ FetchFails(b)
  PROVE  /\ call[b].at = "fetch"
         /\ \E details \in Details, error \in Error :
              /\ StartAnalysis(b, details, error)
              /\ \A k \in Keys : \/ details[k] = None
                                 \/ \E i \in DOMAIN call[b].batches : details[k] = call[b].batches[i].details[k]
              /\ \/ error # "none"
                 \/ \A i \in DOMAIN call[b].batches :
                      /\ call[b].batches[i].pc = "ok" /\ call[b].batches[i].error = "none"
                      /\ \A k \in Keys : call[b].batches[i].details[k] # None => details[k] # None
<1>1. call[b].at = "fetch"
  BY DEF Fetched, FetchFails
<1>2. CASE Fetched(b)
  <2>1. PICK batches : batches = call[b].batches
    OBVIOUS
  <2>2. batches \in Seq(Batch) /\ \A i \in DOMAIN batches : batches[i] \in Batch
    BY <2>1, CallFacts DEF Shape, TypeOK
  <2> DEFINE Found(k) == {batches[i].details[k] : i \in DOMAIN batches} \ {None}
             Of(k) == IF Found(k) = {} THEN None ELSE CHOOSE d \in Found(k) : TRUE
  <2>3. PICK details : details = [k \in Keys |-> Of(k)]
    OBVIOUS
  <2>4. ASSUME NEW k \in Keys
        PROVE  /\ Of(k) \in Detail \cup {None}
               /\ Of(k) = None \/ \E i \in DOMAIN batches : Of(k) = batches[i].details[k]
               /\ \A i \in DOMAIN batches : batches[i].details[k] # None => Of(k) # None
    <3>1. ASSUME NEW d \in Found(k)
          PROVE  d \in Detail /\ d # None /\ \E i \in DOMAIN batches : d = batches[i].details[k]
      BY <2>2, <3>1 DEF Batch, Details
    <3>2. CASE Found(k) = {}
      BY <3>2
    <3>3. CASE Found(k) # {}
      <4>1. Of(k) \in Found(k)
        BY <3>3
      <4>2. QED
        BY <3>1, <4>1
    <3>4. QED
      BY <3>2, <3>3
  <2>5. StartAnalysis(b, details, ErrorOf(batches))
    BY <1>2, <2>1, <2>3, SMTT(30) DEF Fetched
  <2> HIDE DEF Of
  <2>6. /\ details \in Details /\ \A k \in Keys : details[k] = Of(k)
    BY <2>3, <2>4 DEF Details
  <2>7. PICK error : error = ErrorOf(batches)
    OBVIOUS
  <2>8. error \in Error /\ (error = "none" => \A i \in DOMAIN batches : batches[i].error = "none")
    BY <2>2, <2>7, ErrorOfFacts
  <2>9. error # "none" \/ \A i \in DOMAIN batches : batches[i].pc = "ok" /\ batches[i].error = "none"
    BY <1>2, <2>1, <2>8 DEF Fetched
  <2>10. QED
    BY <1>1, <2>1, <2>4, <2>5, <2>6, <2>7, <2>8, <2>9
<1>3. CASE FetchFails(b)
  <2>1. StartAnalysis(b, NoDetails, "text") /\ "text" \in Error /\ "text" # "none"
    BY <1>3 DEF FetchFails, Error
  <2>2. NoDetails \in Details /\ \A k \in Keys : NoDetails[k] = None
    BY DEF NoDetails, Details
  <2>3. QED
    BY <1>1, <2>1, <2>2
<1>4. QED
  BY <1>2, <1>3

LEMMA FetchedKeepsShape ==
  ASSUME Shape, NEW b \in Briefings, Fetched(b) \/ FetchFails(b)
  PROVE  Shape'
<1>1. call[b].at = "fetch" /\ \E details \in Details, error \in Error : StartAnalysis(b, details, error)
  BY FetchedFacts
<1>2. QED
  BY <1>1, StartKeepsShape

\* When b ranks, all its analyses are there, and what it reports is made from them.
LEMMA RankedFacts ==
  ASSUME Shape, NEW b \in Briefings, Ranked(b)
  PROVE  /\ UNCHANGED <<today, log, edits, cache, sem>>
         /\ \A i \in 1..Len(call[b].keys) : Ready(b, i)
         /\ job' \in [Jobs -> Job] /\ \A j \in Jobs : j[1] # b => job'[j] = job[j]
         /\ \A i \in 1..MaxAnalysed : /\ job[<<b, i>>].pc \in {"none", "done"}
                                      /\ job'[<<b, i>>].pc = "none"
         /\ \E x \in Call :
              /\ call' = [call EXCEPT ![b] = x] /\ x.at = "done" /\ LocalsShape(x)
              /\ x.req = call[b].req /\ x.keys = call[b].keys /\ x.since = call[b].since
              /\ x.batches = <<>> /\ x.details = call[b].details /\ x.error = call[b].error
              /\ x.analyses = call[b].analyses /\ x.ranked = today
              /\ call[b].at = "fetch" => x.keys = <<>>
<1>1. call \in [Briefings -> Call] /\ CallShape(b) /\ job \in [Jobs -> Job] /\ LocalsShape(call[b])
  BY DEF Shape, TypeOK, CallShape
<1>2. PICK c \in Call : c = call[b]
  BY <1>1
<1>3. /\ c.keys \in Seq(Keys) /\ Len(c.keys) \in Nat /\ DOMAIN c.keys = 1..Len(c.keys)
      /\ Len(c.keys) <= MaxAnalysed /\ MaxAnalysed \in Nat
      /\ \A i \in 1..Len(c.keys) : i \in 1..MaxAnalysed
  <2>1. /\ c.keys \in Seq(Keys) /\ Len(c.keys) \in Nat /\ DOMAIN c.keys = 1..Len(c.keys)
        /\ Len(c.keys) <= MaxAnalysed /\ MaxAnalysed \in Nat
    BY <1>1, <1>2, CallFacts, ConstantFacts DEF LocalsShape
  <2>2. QED
    BY <2>1
<1>4. \/ c.at = "analyse" /\ \A i \in 1..Len(c.keys) : job[<<b, i>>].pc = "done"
      \/ c.at = "fetch" /\ c.keys = <<>>
  BY <1>2, <1>3 DEF Ranked
<1>5. \A i \in 1..Len(c.keys) : Ready(b, i)
  BY <1>2, <1>3, <1>4 DEF Ready
<1>6. /\ c.analyses \in Seq(Analysis) /\ Len(c.analyses) = Len(c.keys)
      /\ \A i \in 1..Len(c.keys) : c.analyses[i].key = c.keys[i]
  <2>1. Len(c.analyses) = Len(c.keys)
    BY <1>1, <1>2, <1>3, <1>4 DEF LocalsShape
  <2>2. \A i \in 1..Len(c.keys) : c.analyses[i] \in Analysis /\ c.analyses[i].key = c.keys[i]
    BY <1>1, <1>2, <1>5 DEF CallShape
  <2>3. c.analyses \in Seq(Analysis \cup {None})
    BY CallFacts
  <2>4. c.analyses \in Seq(Analysis)
    BY <1>3, <2>1, <2>2, <2>3
  <2>5. QED
    BY <2>1, <2>2, <2>4
<1>7. PICK topics \in Seq(Seq(Keys)) : topics = c.req.topics
  BY CallFacts
<1>8. c.keys = KeptKeys(topics)
  BY <1>1, <1>2, <1>4, <1>7 DEF LocalsShape
<1>9. today \in Nat
  BY ConstantFacts DEF Shape, TypeOK
<1>10. PICK list :
         list = [t \in DOMAIN topics |-> [top |-> Rank(TopicAnalyses(b, t), today), dropped |-> Dropped(topics, t)]]
  OBVIOUS
<1>11. ASSUME NEW t \in DOMAIN topics
       PROVE  [top |-> Rank(TopicAnalyses(b, t), today), dropped |-> Dropped(topics, t)] \in Section
  <2>1. TopicAnalyses(b, t) \in Seq(Analysis) /\ Dropped(topics, t) \in Nat
    BY <1>2, <1>3, <1>6, <1>7, <1>8, TopicFacts
  <2>2. Rank(TopicAnalyses(b, t), today) \in Seq(Analysis)
    <3>1. PICK all \in Seq(Analysis) : all = TopicAnalyses(b, t)
      BY <2>1
    <3>2. Rank(all, today) \in Seq(Analysis)
      BY <1>9, RankFacts
    <3>3. QED
      BY <3>1, <3>2
  <2>3. QED
    BY <2>1, <2>2 DEF Section
<1>12. list \in Seq(Section) /\ DOMAIN list = DOMAIN topics
  <2>1. PICK n \in Nat : DOMAIN topics = 1..n
    BY <1>7
  <2> DEFINE Report(t) == [top |-> Rank(TopicAnalyses(b, t), today), dropped |-> Dropped(topics, t)]
  <2>2. list \in [DOMAIN topics -> Section]
    <3>1. list = [t \in DOMAIN topics |-> Report(t)] /\ \A t \in DOMAIN topics : Report(t) \in Section
      BY <1>10, <1>11
    <3> HIDE DEF Report
    <3>2. QED
      BY <3>1
  <2>3. DOMAIN list = 1..n /\ list \in [1..n -> Section]
    BY <2>1, <2>2
  <2>4. list \in Seq(Section)
    BY <2>3
  <2>5. QED
    BY <2>1, <2>3, <2>4
<1>13. PICK x : x = [c EXCEPT !.at = "done", !.ranked = today, !.sections = list]
  OBVIOUS
<1>14. x \in Call
  BY <1>9, <1>12, <1>13 DEF Call
<1>15. /\ x.at = "done" /\ x.req = c.req /\ x.keys = c.keys /\ x.since = c.since /\ x.skipped = c.skipped
       /\ x.batches = c.batches /\ x.details = c.details /\ x.error = c.error /\ x.analyses = c.analyses
       /\ x.ranked = today /\ x.sections = list
  BY <1>13 DEF Call
<1>16. c.batches = <<>>
  <2>1. CASE c.at = "analyse"
    BY <1>1, <1>2, <2>1 DEF LocalsShape
  <2>2. CASE c.at = "fetch" /\ c.keys = <<>>
    <3>0. DOMAIN c.batches \subseteq 1..Len(c.keys) /\ Len(c.keys) = 0
      BY <1>1, <1>2, <2>2 DEF LocalsShape
    <3>1. DOMAIN c.batches = {}
      BY <3>0
    <3>2. c.batches \in Seq(Batch)
      BY CallFacts
    <3>3. DOMAIN c.batches = 1..Len(c.batches) /\ Len(c.batches) \in Nat
      BY <3>2
    <3>4. Len(c.batches) = 0
      <4>1. Len(c.batches) # 0 => 1 \in 1..Len(c.batches)
        BY <3>3
      <4>2. QED
        BY <3>1, <3>3, <4>1
    <3>5. QED
      BY <3>2, <3>4
  <2>3. QED
    BY <1>4, <2>1, <2>2
<1>17. SectionsShape(x)
  <2>1. \A t \in DOMAIN topics : /\ list[t].top = Rank(TopicAnalyses(b, t), today)
                                 /\ list[t].dropped = Dropped(topics, t)
    BY <1>10
  <2>2. \A t \in DOMAIN topics : TopicAnalyses(b, t) = TopicOf(topics[t], c.keys, c.analyses)
    BY <1>2, <1>7, TopicAnalysesOf
  <2>3. QED
    BY <1>7, <1>12, <1>15, <2>1, <2>2 DEF SectionsShape
<1>18. LocalsShape(x)
  BY <1>1, <1>2, <1>4, <1>6, <1>15, <1>16, <1>17 DEF LocalsShape
<1>19. call' = [call EXCEPT ![b] = x]
  BY <1>1, <1>2, <1>7, <1>10, <1>13 DEF Ranked, Call
<1>20. /\ job' = [j \in Jobs |-> IF j[1] = b THEN NoJob ELSE job[j]]
       /\ UNCHANGED <<today, log, edits, cache, sem>>
  BY DEF Ranked
<1>21. NoJob \in Job /\ NoJob.pc = "none"
  BY DEF NoJob, Job
<1>22. job' \in [Jobs -> Job] /\ \A j \in Jobs : j[1] # b => job'[j] = job[j]
  BY <1>1, <1>20, <1>21
<1>23. ASSUME NEW i \in 1..MaxAnalysed
       PROVE  job[<<b, i>>].pc \in {"none", "done"} /\ job'[<<b, i>>].pc = "none"
  <2>1. <<b, i>> \in Jobs /\ <<b, i>>[1] = b
    BY JobsFacts
  <2>2. job[<<b, i>>].pc # "none" => c.at = "analyse" /\ i <= Len(c.keys)
    BY <1>1, <1>2 DEF CallShape
  <2>3. job[<<b, i>>].pc # "none" => job[<<b, i>>].pc = "done"
    BY <1>3, <1>4, <2>2
  <2>4. QED
    BY <1>20, <1>21, <2>1, <2>3
<1>24. c.at = "fetch" => x.keys = <<>>
  BY <1>4, <1>15
<1>25. QED
  BY <1>2, <1>5, <1>14, <1>15, <1>16, <1>18, <1>19, <1>20, <1>22, <1>23, <1>24

LEMMA RankedKeepsShape ==
  ASSUME Shape, NEW b \in Briefings, Ranked(b)
  PROVE  Shape'
<1>1. /\ TypeOK /\ IsInjective(sem) /\ (\A i \in DOMAIN sem : job[sem[i]].pc \in {"sem", "llm"})
      /\ (\A i \in DOMAIN cache : cache[i].key = <<cache[i].analysis.key, cache[i].analysis.stamp>>)
      /\ (\A i \in Jobs : job[i].pc = "llm" => DetailOf(i) # None)
      /\ \A c \in Briefings : CallShape(c)
  BY DEF Shape
<1>2. /\ UNCHANGED <<today, log, edits, cache, sem>>
      /\ job' \in [Jobs -> Job] /\ \A j \in Jobs : j[1] # b => job'[j] = job[j]
      /\ \A i \in 1..MaxAnalysed : /\ job[<<b, i>>].pc \in {"none", "done"}
                                   /\ job'[<<b, i>>].pc = "none"
      /\ \A i \in 1..Len(call[b].keys) : Ready(b, i)
  BY RankedFacts
<1>3. PICK x \in Call :
        /\ call' = [call EXCEPT ![b] = x] /\ x.at = "done" /\ LocalsShape(x) /\ x.keys = call[b].keys
        /\ x.analyses = call[b].analyses
  BY RankedFacts
<1>4. /\ call' \in [Briefings -> Call] /\ call'[b] = x
      /\ \A c \in Briefings : c # b => call'[c] = call[c]
  BY <1>1, <1>3 DEF TypeOK
<1>5. TypeOK'
  BY <1>1, <1>2, <1>4 DEF TypeOK
<1>6. ASSUME NEW i \in DOMAIN sem'
      PROVE  job'[sem'[i]].pc \in {"sem", "llm"}
  <2>1. sem'[i] \in Jobs /\ job[sem'[i]].pc \in {"sem", "llm"}
    BY <1>1, <1>2, <1>6 DEF TypeOK
  <2>2. sem'[i][1] # b
    BY <1>2, <2>1, JobsFacts
  <2>3. QED
    BY <1>2, <2>1, <2>2
<1>7. ASSUME NEW j \in Jobs, job'[j].pc = "llm"
      PROVE  DetailOf(j)' # None
  <2>1. j[1] \in Briefings /\ j[1] # b
    BY <1>2, <1>7, JobsFacts
  <2>2. job[j].pc = "llm" /\ call'[j[1]] = call[j[1]]
    BY <1>2, <1>4, <1>7, <2>1
  <2>3. QED
    BY <1>1, <2>2 DEF DetailOf, Key
<1>8. CallShape(b)'
  <2>1. \A i \in 1..Len(call[b].keys) :
          call[b].analyses[i] \in Analysis /\ call[b].analyses[i].key = call[b].keys[i]
    BY <1>1, <1>2 DEF CallShape
  <2>2. QED
    BY <1>2, <1>3, <1>4, <2>1 DEF CallShape
<1>9. ASSUME NEW c \in Briefings, c # b PROVE CallShape(c)'
  <2>1. \A i \in 1..MaxAnalysed : job'[<<c, i>>] = job[<<c, i>>]
    BY <1>2, <1>9, JobsFacts
  <2>2. call'[c] = call[c] /\ CallShape(c)
    BY <1>1, <1>4, <1>9
  <2>3. QED
    BY <1>1, <2>1, <2>2, CallShapeKept
<1>10. QED
  BY <1>1, <1>2, <1>5, <1>6, <1>7, <1>8, <1>9 DEF Shape

-----------------------------------------------------------------------------
(* Steps of Jira and of the calendar.                                      *)

TransitionStep(k, entry) ==
  /\ entry \in Entry
  /\ log' = [log EXCEPT ![k] = Append(log[k], entry)]
  /\ UNCHANGED <<today, edits, cache, sem, job, call>>

LEMMA TransitionFacts ==
  ASSUME Shape, NEW k \in Keys, Transition(k)
  PROVE  \E entry : TransitionStep(k, entry)
<1>1. PICK status \in Statuses :
        /\ log' = [log EXCEPT ![k] = Append(log[k], [to |-> status, day |-> today])]
        /\ UNCHANGED <<today, edits, cache, sem, job, call>>
  BY DEF Transition
<1>2. PICK entry : entry = [to |-> status, day |-> today]
  OBVIOUS
<1>3. today \in Int
  BY ConstantFacts DEF Shape, TypeOK
<1>4. entry \in Entry
  BY <1>2, <1>3 DEF Entry
<1>5. QED
  BY <1>1, <1>2, <1>4 DEF TransitionStep

LEMMA WorldKeepsShape ==
  ASSUME Shape, UNCHANGED <<cache, sem, job, call>>,
         today' \in 0..LastDay, log' \in [Keys -> Seq(Entry)], edits' \in [Keys -> Edits]
  PROVE  Shape'
<1>1. TypeOK /\ TypeOK'
  BY DEF Shape, TypeOK
<1>2. ASSUME NEW b \in Briefings
      PROVE  CallShape(b)'
  BY <1>1, CallShapeKept DEF Shape
<1>3. \A j \in Jobs : job[j].pc = "llm" => DetailOf(j)' # None
  BY DEF Shape, DetailOf, Key
<1>4. QED
  BY <1>1, <1>2, <1>3 DEF Shape

LEMMA EnvironmentKeepsShape ==
  ASSUME Shape, (\E k \in Keys : Transition(k) \/ Edit(k)) \/ NextDay \/ UNCHANGED vars
  PROVE  Shape'
<1>1. /\ today \in 0..LastDay /\ LastDay \in Nat
      /\ log \in [Keys -> Seq(Entry)] /\ edits \in [Keys -> Edits]
  BY ConstantFacts DEF Shape, TypeOK
<1>2. CASE \E k \in Keys : Transition(k)
  <2>1. PICK k \in Keys : Transition(k)
    BY <1>2
  <2>2. PICK entry : TransitionStep(k, entry)
    BY <2>1, TransitionFacts
  <2>3. log[k] \in Seq(Entry) /\ entry \in Entry
    BY <1>1, <2>2 DEF TransitionStep
  <2>4. Append(log[k], entry) \in Seq(Entry)
    BY <2>3
  <2>5. log' \in [Keys -> Seq(Entry)]
    BY <1>1, <2>2, <2>4 DEF TransitionStep
  <2>6. QED
    BY <1>1, <2>2, <2>5, WorldKeepsShape DEF TransitionStep
<1>3. CASE \E k \in Keys : Edit(k)
  <2>1. PICK k \in Keys : Edit(k)
    BY <1>3
  <2>2. edits' \in [Keys -> Edits] /\ UNCHANGED <<today, log, cache, sem, job, call>>
    BY <1>1, <2>1 DEF Edit
  <2>3. QED
    BY <1>1, <2>2, WorldKeepsShape
<1>4. CASE NextDay
  <2>1. today' \in 0..LastDay /\ UNCHANGED <<log, edits, cache, sem, job, call>>
    BY <1>1, <1>4 DEF NextDay
  <2>2. QED
    BY <1>1, <2>1, WorldKeepsShape
<1>5. CASE UNCHANGED vars
  BY <1>1, <1>5, WorldKeepsShape DEF vars
<1>6. QED
  BY <1>2, <1>3, <1>4, <1>5

-----------------------------------------------------------------------------
(* The first invariant holds.                                              *)

LEMMA InitShape == Init => Shape
<1> SUFFICES ASSUME Init PROVE Shape
  OBVIOUS
<1>1. /\ today = 0 /\ log = Log0 /\ edits = [k \in Keys |-> 0] /\ cache = <<>> /\ sem = <<>>
      /\ job = [j \in Jobs |-> NoJob] /\ call = [b \in Briefings |-> NoCall]
  BY DEF Init
<1>2. NoJob \in Job /\ NoJob.pc = "none" /\ NoCall \in Call /\ NoCall.at = "idle"
  BY NoCallFacts DEF NoJob, Job
<1>3. TypeOK
  BY <1>1, <1>2, ConstantFacts DEF TypeOK
<1>4. LocalsShape(NoCall)
  BY NoCallFacts, ConstantFacts DEF LocalsShape
<1>5. \A b \in Briefings, i \in 1..MaxAnalysed : job[<<b, i>>].pc = "none"
  BY <1>1, <1>2, JobsFacts
<1>6. \A b \in Briefings : CallShape(b)
  BY <1>1, <1>2, <1>4, <1>5, NoCallFacts DEF CallShape, Ready
<1>7. IsInjective(sem) /\ (\A i \in DOMAIN sem : job[sem[i]].pc \in {"sem", "llm"})
      /\ \A i \in DOMAIN cache : cache[i].key = <<cache[i].analysis.key, cache[i].analysis.stamp>>
  BY <1>1 DEF IsInjective
<1>8. \A j \in Jobs : job[j].pc = "none"
  BY <1>1, <1>2
<1>9. QED
  BY <1>3, <1>6, <1>7, <1>8 DEF Shape

\* What the actions of Next come down to.
LEMMA NextCases ==
  ASSUME [Next]_vars
  PROVE  \/ \E j \in Jobs : NotFound(j) \/ Reused(j) \/ AskLLM(j) \/ Analysed(j) \/ AnalysisFails(j)
         \/ \E b \in Briefings : Begin(b) \/ Fetched(b) \/ FetchFails(b) \/ Ranked(b)
         \/ \E b \in Briefings : \E i \in DOMAIN call[b].batches : BatchStep(b, i)
         \/ (\E k \in Keys : Transition(k) \/ Edit(k)) \/ NextDay \/ UNCHANGED vars
  BY DEF Next, JobStep, CallStep, Finished

LEMMA NextKeepsShape == Shape /\ [Next]_vars => Shape'
<1> SUFFICES ASSUME Shape, [Next]_vars PROVE Shape'
  OBVIOUS
<1>1. CASE \E j \in Jobs : NotFound(j) \/ Reused(j) \/ AskLLM(j) \/ Analysed(j) \/ AnalysisFails(j)
  BY <1>1, JobStepKeepsShape DEF JobStep
<1>2. CASE \E b \in Briefings : Begin(b) \/ Fetched(b) \/ FetchFails(b) \/ Ranked(b)
  BY <1>2, BeginKeepsShape, FetchedKeepsShape, RankedKeepsShape
<1>3. CASE \E b \in Briefings : \E i \in DOMAIN call[b].batches : BatchStep(b, i)
  BY <1>3, BatchStepKeepsShape
<1>4. CASE (\E k \in Keys : Transition(k) \/ Edit(k)) \/ NextDay \/ UNCHANGED vars
  BY <1>4, EnvironmentKeepsShape
<1>5. QED
  BY <1>1, <1>2, <1>3, <1>4, NextCases

LEMMA ShapeHolds == Spec => []Shape
<1>1. Shape /\ [Next]_vars => Shape'
  BY NextKeepsShape
<1>2. QED
  BY <1>1, InitShape, PTL DEF Spec

-----------------------------------------------------------------------------
(* What a finished briefing reports.                                       *)

LEMMA DoneFacts ==
  ASSUME Shape, NEW b \in Briefings, Done(b)
  PROVE  /\ call[b] \in Call /\ call[b].at = "done" /\ call[b].req.topics \in Seq(Seq(Keys))
         /\ call[b].keys = KeptKeys(call[b].req.topics) /\ call[b].skipped = Skipped(call[b].req.topics)
         /\ call[b].analyses \in Seq(Analysis) /\ Len(call[b].analyses) = Len(call[b].keys)
         /\ \A i \in DOMAIN call[b].keys : call[b].analyses[i].key = call[b].keys[i]
         /\ \A a \in ToSet(call[b].analyses) : \E i \in 1..Len(call[b].keys) :
              a = call[b].analyses[i] /\ a.key = call[b].keys[i] /\ a \in Analysis /\ Ready(b, i)
         /\ SectionsShape(call[b])
<1>1. call[b] \in Call /\ CallShape(b) /\ call[b].at = "done"
  BY DEF Shape, TypeOK, Done
<1>2. /\ call[b].keys = KeptKeys(call[b].req.topics) /\ call[b].skipped = Skipped(call[b].req.topics)
      /\ Len(call[b].analyses) = Len(call[b].keys) /\ SectionsShape(call[b])
  BY <1>1 DEF CallShape, LocalsShape
<1>3. \A i \in 1..Len(call[b].keys) : Ready(b, i)
  BY <1>1 DEF Ready
<1>4. \A i \in 1..Len(call[b].keys) :
        call[b].analyses[i] \in Analysis /\ call[b].analyses[i].key = call[b].keys[i]
  BY <1>1, <1>3 DEF CallShape
<1>5. PICK list : list = call[b].analyses
  OBVIOUS
<1>6. PICK n \in Nat : n = Len(call[b].keys) /\ DOMAIN call[b].keys = 1..n
  BY <1>1, CallFacts
<1>7. list \in Seq(Analysis \cup {None}) /\ Len(list) = n
  BY <1>1, <1>2, <1>5, <1>6, CallFacts
<1>8. list \in Seq(Analysis) /\ DOMAIN list = 1..n
  BY <1>4, <1>5, <1>6, <1>7
<1>9. ASSUME NEW a \in ToSet(list)
      PROVE  \E i \in 1..n : a = list[i]
  BY <1>8, <1>9 DEF ToSet
<1>10. call[b].req.topics \in Seq(Seq(Keys))
  BY <1>1, CallFacts
<1>11. QED
  BY <1>1, <1>2, <1>3, <1>4, <1>5, <1>6, <1>8, <1>9, <1>10

\* The analyses of a topic are as many as it has kept issues, and are what RankFacts is about.
LEMMA SectionFacts ==
  ASSUME Shape, NEW b \in Briefings, Done(b), NEW t \in DOMAIN call[b].sections
  PROVE  /\ t \in DOMAIN call[b].req.topics
         /\ TopicAnalyses(b, t) \in Seq(Analysis)
         /\ call[b].sections[t].top = Rank(TopicAnalyses(b, t), call[b].ranked)
         /\ call[b].sections[t].dropped = Dropped(call[b].req.topics, t)
         /\ Len(TopicAnalyses(b, t)) + call[b].sections[t].dropped = Len(call[b].req.topics[t])
<1>1. /\ t \in DOMAIN call[b].req.topics
      /\ call[b].sections[t].top =
           Rank(TopicOf(call[b].req.topics[t], call[b].keys, call[b].analyses), call[b].ranked)
      /\ call[b].sections[t].dropped = Dropped(call[b].req.topics, t)
  BY DoneFacts DEF SectionsShape
<1>2. PICK topics \in Seq(Seq(Keys)) : topics = call[b].req.topics
  BY DoneFacts
<1>3. /\ call[b].keys = KeptKeys(topics) /\ call[b].analyses \in Seq(Analysis)
      /\ Len(call[b].analyses) = Len(call[b].keys)
      /\ \A i \in DOMAIN call[b].keys : call[b].analyses[i].key = call[b].keys[i]
  BY <1>2, DoneFacts
<1>4. /\ TopicAnalyses(b, t) \in Seq(Analysis)
      /\ Len(TopicAnalyses(b, t)) + Dropped(topics, t) = Len(topics[t])
  BY <1>1, <1>2, <1>3, TopicFacts
<1>5. QED
  BY <1>1, <1>2, <1>4, TopicAnalysesOf

\* Every variable has its type: in particular no step leaves an analysis of another kind or
\* a job that runs for a briefing that is not there.
THEOREM TypeCorrect == Spec => []TypeOK
<1>1. Shape => TypeOK
  BY DEF Shape
<1>2. QED
  BY <1>1, ShapeHolds, PTL

\* briefing_orchestrator.py:610-618, 663-668: every issue of a topic is analysed or
\* counted as dropped in its section, and a topic without any issue left is an error of
\* the briefing.
THEOREM EveryIssueAccounted == Spec => []DroppedAreCounted
<1>1. ASSUME Shape, NEW b \in Briefings, Done(b), NEW t \in DOMAIN call[b].sections
      PROVE  LET topic == call[b].req.topics[t]
             IN  /\ Len(TopicAnalyses(b, t)) + call[b].sections[t].dropped = Len(topic)
                 /\ t \in call[b].skipped
                      <=> topic # <<>> /\ \A i \in DOMAIN topic : topic[i] \notin ToSet(call[b].keys)
  <2>1. PICK topics \in Seq(Seq(Keys)) :
          /\ topics = call[b].req.topics /\ call[b].keys = KeptKeys(topics) /\ call[b].skipped = Skipped(topics)
    BY <1>1, DoneFacts
  <2>2. t \in DOMAIN topics /\ Len(TopicAnalyses(b, t)) + call[b].sections[t].dropped = Len(topics[t])
    BY <1>1, <2>1, SectionFacts
  <2>3. t \in Skipped(topics)
          <=> topics[t] # <<>> /\ \A i \in DOMAIN topics[t] : topics[t][i] \notin ToSet(KeptKeys(topics))
    BY <2>2, DroppedFacts
  <2>4. QED
    BY <2>1, <2>2, <2>3
<1>2. Shape => DroppedAreCounted
  BY <1>1 DEF DroppedAreCounted
<1>3. QED
  BY <1>2, ShapeHolds, PTL

\* ranking_engine.py:59-62, 69-101: for every number of issues, limit and facts, what is
\* shown of a topic are its most urgent issues in the order of their urgency, as far as the
\* facts alone decide it, and else in the order of the topic.
THEOREM MoreUrgentFirst == Spec => []NoneIsPassedOver
<1>1. ASSUME Shape, NEW b \in Briefings, Done(b), NEW t \in DOMAIN call[b].sections,
             NEW x \in ToSet(TopicAnalyses(b, t)), NEW y \in ToSet(TopicAnalyses(b, t)),
             \/ Outranks(x, y, call[b].ranked)
             \/ AtLeast(x, y, call[b].ranked) /\ Precedes(TopicAnalyses(b, t), x, y)
      PROVE  Precedes(call[b].sections[t].top, x, y)
  <2>1. PICK list \in Seq(Analysis), day \in Nat : list = TopicAnalyses(b, t) /\ day = call[b].ranked
    BY <1>1, SectionFacts, DoneFacts, CallFacts
  <2>2. call[b].sections[t].top = Rank(list, day)
    BY <1>1, <2>1, SectionFacts
  <2>3. DOMAIN list = 1..Len(list) /\ Len(list) \in Nat /\ \A n \in DOMAIN list : list[n] \in Analysis
    OBVIOUS
  <2>4. x \in Analysis /\ y \in Analysis /\ \E m \in DOMAIN list : list[m] = x
    BY <1>1, <2>1, <2>3 DEF ToSet
  <2>5. AtLeast(x, y, day) /\ (Outranks(x, y, day) \/ Precedes(list, x, y))
    BY <1>1, <2>1 DEF Outranks
  <2>6. /\ Score(x, day) \in Int /\ Score(y, day) \in Int /\ Score(x, day) >= Score(y, day)
        /\ Outranks(x, y, day) => Score(x, day) > Score(y, day)
    BY <2>4, <2>5, ScoreMonotone
  <2>7. ASSUME NEW n \in DOMAIN list, list[n] = y
        PROVE  \E m \in DOMAIN list : /\ list[m] = x
                                      /\ \/ Score(list[m], day) > Score(list[n], day)
                                         \/ Score(list[m], day) = Score(list[n], day) /\ m < n
    <3>1. CASE Outranks(x, y, day)
      BY <2>4, <2>6, <2>7, <3>1
    <3>2. CASE Precedes(list, x, y)
      <4>1. PICK m \in 1..n - 1 : list[m] = x
        BY <2>7, <3>2 DEF Precedes
      <4>2. m \in DOMAIN list /\ m < n
        BY <2>3, <2>7, <4>1
      <4>3. Score(x, day) > Score(y, day) \/ Score(x, day) = Score(y, day)
        BY <2>6
      <4>4. QED
        BY <2>7, <4>1, <4>2, <4>3
    <3>3. QED
      BY <2>5, <3>1, <3>2
  <2>8. Precedes(Rank(list, day), x, y)
    BY <2>7, RankFacts
  <2>9. QED
    BY <2>2, <2>8
<1>2. Shape => NoneIsPassedOver
  BY <1>1 DEF NoneIsPassedOver
<1>3. QED
  BY <1>2, ShapeHolds, PTL

-----------------------------------------------------------------------------
(* The second invariant, as time passes.                                   *)

\* Changelogs only get longer at their end.
Grown(logs, later) ==
  \A k \in Keys : /\ Len(logs[k]) <= Len(later[k])
                  /\ \A n \in Nat : n <= Len(logs[k]) => UpTo(n, later[k]) = UpTo(n, logs[k])

Later ==
  /\ today \in Nat /\ today' \in Nat /\ today <= today'
  /\ log \in [Keys -> Seq(Entry)] /\ log' \in [Keys -> Seq(Entry)] /\ Grown(log, log')
  /\ edits \in [Keys -> Edits] /\ edits' \in [Keys -> Edits] /\ \A k \in Keys : edits[k] <= edits'[k]

LEMMA LaterFacts ==
  ASSUME Shape, [Next]_vars
  PROVE  Later
<1>1. /\ today \in Nat /\ LastDay \in Nat
      /\ log \in [Keys -> Seq(Entry)] /\ edits \in [Keys -> Edits]
  BY ConstantFacts DEF Shape, TypeOK
<1>2. /\ today' \in Nat /\ log' \in [Keys -> Seq(Entry)] /\ edits' \in [Keys -> Edits]
  <2>1. TypeOK'
    BY NextKeepsShape DEF Shape
  <2>2. QED
    BY <1>1, <2>1 DEF TypeOK
<1>3. \A k \in Keys : Len(log[k]) \in Nat
  BY <1>1
<1>4. log' = log => Grown(log, log')
  BY <1>3 DEF Grown
<1>5. \A k \in Keys : edits[k] \in Edits /\ edits[k] <= edits[k]
  BY <1>1
<1>6. CASE \E k \in Keys : Transition(k)
  <2>1. PICK k \in Keys : Transition(k)
    BY <1>6
  <2>2. PICK entry : TransitionStep(k, entry)
    BY <2>1, TransitionFacts
  <2>3. /\ entry \in Entry /\ log' = [log EXCEPT ![k] = Append(log[k], entry)]
        /\ today' = today /\ edits' = edits
    BY <2>2 DEF TransitionStep
  <2>4. PICK s \in Seq(Entry) : s = log[k]
    BY <1>1
  <2>5. Len(Append(s, entry)) = Len(s) + 1 /\ Len(s) \in Nat
    BY <2>3
  <2>6. \A n \in Nat : n <= Len(s) => UpTo(n, Append(s, entry)) = UpTo(n, s)
    BY <2>3, UpToAppended
  <2>7. log'[k] = Append(s, entry) /\ \A m \in Keys : m # k => log'[m] = log[m]
    BY <1>1, <2>3, <2>4
  <2>8. Grown(log, log')
    <3>1. ASSUME NEW m \in Keys
          PROVE  /\ Len(log[m]) <= Len(log'[m])
                 /\ \A n \in Nat : n <= Len(log[m]) => UpTo(n, log'[m]) = UpTo(n, log[m])
      <4>1. CASE m = k
        <5>1. log[m] = s /\ log'[m] = Append(s, entry)
          BY <2>4, <2>7, <4>1
        <5>2. QED
          BY <2>5, <2>6, <5>1
      <4>2. CASE m # k
        <5>1. log'[m] = log[m] /\ Len(log[m]) <= Len(log[m])
          BY <1>3, <2>7, <3>1, <4>2
        <5>2. QED
          BY <5>1
      <4>3. QED
        BY <4>1, <4>2
    <3>2. QED
      BY <3>1 DEF Grown
  <2>9. QED
    BY <1>1, <1>2, <1>5, <2>3, <2>8 DEF Later
<1>7. CASE \E k \in Keys : Edit(k)
  <2>1. log' = log /\ today' = today /\ \A k \in Keys : edits[k] <= edits'[k]
    BY <1>1, <1>5, <1>7 DEF Edit
  <2>2. QED
    BY <1>1, <1>2, <1>4, <2>1 DEF Later
<1>8. CASE NextDay
  <2>1. log' = log /\ edits' = edits /\ today <= today'
    BY <1>1, <1>8 DEF NextDay
  <2>2. QED
    BY <1>1, <1>2, <1>4, <1>5, <2>1 DEF Later
<1>9. CASE UNCHANGED <<today, log, edits>>
  BY <1>1, <1>2, <1>4, <1>5, <1>9 DEF Later
<1>10. QED
  <2>1. ASSUME \E j \in Jobs : NotFound(j) \/ Reused(j) \/ AskLLM(j) \/ Analysed(j) \/ AnalysisFails(j)
        PROVE  UNCHANGED <<today, log, edits>>
    BY <2>1 DEF NotFound, Reused, AskLLM, Analysed, AnalysisFails, Returns
  <2>2. ASSUME \E b \in Briefings : Begin(b) \/ Fetched(b) \/ FetchFails(b) \/ Ranked(b)
        PROVE  UNCHANGED <<today, log, edits>>
    BY <2>2 DEF Begin, Fetched, FetchFails, StartAnalysis, Ranked
  <2>3. ASSUME \E b \in Briefings : \E i \in DOMAIN call[b].batches : BatchStep(b, i)
        PROVE  UNCHANGED <<today, log, edits>>
    BY <2>3 DEF BatchStep, BatchAnswered, BatchErrs, TriesAgain, BatchFails, BatchGoes
  <2>4. ASSUME UNCHANGED vars
        PROVE  UNCHANGED <<today, log, edits>>
    BY <2>4 DEF vars
  <2>5. QED
    BY <1>6, <1>7, <1>8, <1>9, <2>1, <2>2, <2>3, <2>4, NextCases

\* What was counted once stays true: a spell of blocked days does not get shorter.
LEMMA DaysKept ==
  ASSUME NEW logs \in [Keys -> Seq(Entry)], NEW later \in [Keys -> Seq(Entry)], Grown(logs, later),
         NEW day \in Nat, NEW next \in Nat, day <= next, NEW k \in Keys, NEW n \in Nat, NEW days \in Nat,
         DaysSound(logs[k], n, days, day)
  PROVE  DaysSound(later[k], n, days, next)
<1>1. n <= Len(logs[k]) /\ days <= Spell(UpTo(n, logs[k]), day)
  BY DEF DaysSound
<1>2. UpTo(n, later[k]) = UpTo(n, logs[k]) /\ Len(logs[k]) <= Len(later[k])
  BY <1>1 DEF Grown
<1>3. PICK s \in Seq(Entry) : s = UpTo(n, logs[k])
  BY UpToFacts
<1>4. Spell(s, day) \in Nat /\ Spell(s, next) \in Nat /\ Spell(s, day) <= Spell(s, next)
  <2>1. next <= next
    OBVIOUS
  <2>2. QED
    BY <2>1, SpellFacts
<1>5. n <= Len(later[k])
  <2>1. Len(logs[k]) \in Nat /\ Len(later[k]) \in Nat
    OBVIOUS
  <2>2. QED
    BY <1>1, <1>2, <2>1
<1>6. QED
  BY <1>1, <1>2, <1>3, <1>4, <1>5 DEF DaysSound

LEMMA CountedKept ==
  ASSUME NEW days, NEW s, NEW first \in Nat, NEW last \in Nat, NEW next \in Nat, last <= next,
         CountedBetween(days, s, first, last)
  PROVE  CountedBetween(days, s, first, next)
<1>1. first..last \subseteq first..next
  OBVIOUS
<1>2. QED
  BY <1>1 DEF CountedBetween

LEMMA AnalysisKept ==
  ASSUME NEW logs \in [Keys -> Seq(Entry)], NEW later \in [Keys -> Seq(Entry)], Grown(logs, later),
         NEW day \in Nat, NEW next \in Nat, day <= next, NEW last \in Nat, NEW end \in Nat, last <= end,
         NEW x \in Call, NEW a \in Analysis, AnalysisSound(x, a, logs, day, last)
  PROVE  AnalysisSound(x, a, later, next, end)
<1>1. a.key \in Keys /\ a.stamp \in Nat /\ a.days \in Nat /\ x.since.day \in Nat
  BY CallFacts DEF Analysis
<1>2. PICK k \in Keys, n \in Nat, days \in Nat, first \in Nat :
        k = a.key /\ n = a.stamp /\ days = a.days /\ first = x.since.day
  BY <1>1
<1>3. ASSUME DaysSound(logs[k], n, days, day)
      PROVE  DaysSound(later[k], n, days, next) /\ UpTo(n, later[k]) = UpTo(n, logs[k])
  <2>1. DaysSound(later[k], n, days, next)
    BY <1>3, DaysKept
  <2>2. UpTo(n, later[k]) = UpTo(n, logs[k])
    BY <1>3 DEF DaysSound, Grown
  <2>3. QED
    BY <2>1, <2>2
<1>4. \A s : CountedBetween(days, s, first, last) => CountedBetween(days, s, first, end)
  BY CountedKept
<1>5. QED
  BY <1>2, <1>3, <1>4 DEF AnalysisSound

LEMMA EntryKept ==
  ASSUME NEW logs \in [Keys -> Seq(Entry)], NEW later \in [Keys -> Seq(Entry)], Grown(logs, later),
         NEW day \in Nat, NEW next \in Nat, day <= next, NEW a \in Analysis, EntrySound(a, logs, day)
  PROVE  EntrySound(a, later, next)
<1>1. PICK k \in Keys, n \in Nat, days \in Nat : k = a.key /\ n = a.stamp /\ days = a.days
  BY DEF Analysis
<1>2. DaysSound(logs[k], n, days, day)
  BY <1>1 DEF EntrySound
<1>3. DaysSound(later[k], n, days, next)
  BY <1>2, DaysKept
<1>4. QED
  BY <1>1, <1>3 DEF EntrySound

LEMMA JobKept ==
  ASSUME NEW logs \in [Keys -> Seq(Entry)], NEW later \in [Keys -> Seq(Entry)], Grown(logs, later),
         NEW day \in Nat, NEW next \in Nat, day <= next, NEW x \in Call, NEW k \in Keys,
         x.details[k] # None, NEW days \in Nat, JobSound(x, k, days, logs, day)
  PROVE  JobSound(x, k, days, later, next)
<1>1. x.details[k] \in Detail /\ x.since.day \in Nat
  BY CallFacts
<1>2. PICK n \in Nat, first \in Nat : n = x.details[k].stamp /\ first = x.since.day
  BY <1>1 DEF Detail
<1>3. DaysSound(logs[k], n, days, day)
  BY <1>2 DEF JobSound
<1>4. DaysSound(later[k], n, days, next) /\ UpTo(n, later[k]) = UpTo(n, logs[k])
  <2>1. DaysSound(later[k], n, days, next)
    BY <1>3, DaysKept
  <2>2. UpTo(n, later[k]) = UpTo(n, logs[k])
    BY <1>3 DEF DaysSound, Grown
  <2>3. QED
    BY <2>1, <2>2
<1>5. \A s : CountedBetween(days, s, first, day) => CountedBetween(days, s, first, next)
  BY CountedKept
<1>6. QED
  BY <1>2, <1>4, <1>5 DEF JobSound

LEMMA ToldKept ==
  ASSUME NEW logs \in [Keys -> Seq(Entry)], NEW later \in [Keys -> Seq(Entry)], Grown(logs, later),
         NEW x, NEW k \in Keys, NEW d \in Detail \cup {None}, Told(x, k, d, logs)
  PROVE  Told(x, k, d, later)
<1>1. d # None => d.stamp \in Nat
  BY DEF Detail
<1>2. Len(logs[k]) \in Nat /\ Len(later[k]) \in Nat /\ Len(logs[k]) <= Len(later[k])
  BY DEF Grown
<1>3. QED
  BY <1>1, <1>2 DEF Told

\* A call that a step leaves alone, and its jobs.
LEMMA CallSoundKept ==
  ASSUME Shape, Later, NEW b \in Briefings, CallSound(b), call'[b] = call[b],
         \A i \in 1..MaxAnalysed : job'[<<b, i>>].pc = "done" <=> job[<<b, i>>].pc = "done"
  PROVE  CallSound(b)'
<1>1. PICK x \in Call : x = call[b]
  BY DEF Shape, TypeOK
<1>2. CallShape(b) /\ Len(x.keys) \in Nat /\ Len(x.keys) <= MaxAnalysed /\ MaxAnalysed \in Nat
  BY <1>1, CallFacts, ConstantFacts DEF Shape, CallShape, LocalsShape
<1>3. \A i \in 1..Len(x.keys) : Ready(b, i)' <=> Ready(b, i)
  <2>1. \A i \in 1..Len(x.keys) : i \in 1..MaxAnalysed
    BY <1>2
  <2>2. QED
    BY <1>1, <2>1 DEF Ready
<1>4. PICK L \in [Keys -> Seq(Entry)], M \in [Keys -> Seq(Entry)], d \in Nat, e \in Nat :
        L = log /\ M = log' /\ d = today /\ e = today' /\ d <= e /\ Grown(L, M)
  BY DEF Later
<1>5. ASSUME NEW i \in 1..Len(x.keys), Ready(b, i)
      PROVE  AnalysisSound(x, x.analyses[i], M, e, Until(x)')
  <2>1. PICK a \in Analysis : a = x.analyses[i]
    BY <1>1, <1>2, <1>5 DEF CallShape
  <2>2. PICK u \in Nat, v \in Nat : u = Until(x) /\ v = Until(x)' /\ u <= v
    <3>1. x.ranked \in Nat
      BY CallFacts
    <3>2. Until(x) \in Nat /\ Until(x)' \in Nat /\ Until(x) <= Until(x)'
      BY <1>4, <3>1 DEF Until
    <3>3. QED
      BY <3>2
  <2>3. AnalysisSound(x, a, L, d, u)
    BY <1>1, <1>4, <1>5, <2>1, <2>2 DEF CallSound
  <2>4. AnalysisSound(x, a, M, e, v)
    BY <1>4, <2>3, <2>2, AnalysisKept
  <2>5. QED
    BY <2>1, <2>2, <2>4
<1>6. ASSUME NEW k \in Keys
      PROVE  /\ Told(x, k, x.details[k], M)
             /\ \A i \in DOMAIN x.batches : Told(x, k, x.batches[i].details[k], M)
  <2>1. Told(x, k, x.details[k], M)
    <3>1. PICK y \in Detail \cup {None} : y = x.details[k]
      BY CallFacts
    <3>2. Told(x, k, y, L)
      BY <1>1, <1>4, <3>1 DEF CallSound
    <3>3. QED
      BY <1>4, <3>1, <3>2, ToldKept
  <2>2. ASSUME NEW i \in DOMAIN x.batches
        PROVE  Told(x, k, x.batches[i].details[k], M)
    <3>1. x.batches[i] \in Batch
      BY CallFacts
    <3>2. PICK y \in Detail \cup {None} : y = x.batches[i].details[k]
      BY <3>1 DEF Batch, Details
    <3>3. Told(x, k, y, L)
      BY <1>1, <1>4, <3>2 DEF CallSound
    <3>4. QED
      BY <1>4, <3>2, <3>3, ToldKept
  <2>3. QED
    BY <2>1, <2>2
<1>7. ASSUME x.at # "idle", x.req.force, NEW k \in Keys
      PROVE  x.since.day <= e /\ x.since.issues[k].stamp <= Len(M[k]) /\ x.since.issues[k].edits <= edits'[k]
  <2>1. x.since.day <= d /\ x.since.issues[k].stamp <= Len(L[k]) /\ x.since.issues[k].edits <= edits[k]
    BY <1>1, <1>4, <1>7 DEF CallSound
  <2>2. x.since.day \in Nat /\ x.since.issues[k].stamp \in Nat /\ x.since.issues[k].edits \in Edits
    BY CallFacts
  <2>3. /\ Len(L[k]) \in Nat /\ Len(M[k]) \in Nat /\ Len(L[k]) <= Len(M[k])
        /\ edits[k] \in Edits /\ edits'[k] \in Edits /\ edits[k] <= edits'[k]
    BY <1>4 DEF Later, Grown
  <2>4. QED
    BY <1>4, <2>1, <2>2, <2>3
<1>8. x.at # "idle" /\ x.req.force => x.since.day <= e
  <2>1. x.at # "idle" /\ x.req.force => x.since.day <= d
    BY <1>1, <1>4 DEF CallSound
  <2>2. x.since.day \in Nat
    BY CallFacts
  <2>3. QED
    BY <1>4, <2>1, <2>2
<1>9. Answered(x)
  BY <1>1 DEF CallSound
<1>10. QED
  BY <1>1, <1>3, <1>4, <1>5, <1>6, <1>7, <1>8, <1>9 DEF CallSound

LEMMA JobSoundKept ==
  ASSUME Shape, Sound, Later, NEW j \in Jobs, job[j].pc = "llm", job'[j] = job[j], call'[j[1]] = call[j[1]]
  PROVE  JobSound(call'[j[1]], Key(j)', job'[j].days, log', today')
<1>1. PICK x \in Call, k \in Keys : x = call[j[1]] /\ k = Key(j) /\ x.details[k] = DetailOf(j) /\ DetailOf(j) # None
  BY RunningFacts DEF Shape
<1>2. Key(j)' = k
  BY <1>1 DEF Key
<1>3. PICK days \in Nat : days = job[j].days
  BY DEF Shape, TypeOK, Job
<1>4. PICK L \in [Keys -> Seq(Entry)], M \in [Keys -> Seq(Entry)], d \in Nat, e \in Nat :
        L = log /\ M = log' /\ d = today /\ e = today' /\ d <= e /\ Grown(L, M)
  BY DEF Later
<1>5. JobSound(x, k, days, L, d)
  BY <1>1, <1>3, <1>4 DEF Sound
<1>6. JobSound(x, k, days, M, e)
  <2>1. x.details[k] # None
    BY <1>1
  <2>2. Grown(L, M) /\ d <= e
    BY <1>4
  <2>3. QED
    BY <1>5, <2>1, <2>2, JobKept
<1>7. QED
  BY <1>1, <1>2, <1>3, <1>4, <1>6

LEMMA WorldKeepsSound ==
  ASSUME Shape, Sound, Later, UNCHANGED <<cache, sem, job, call>>
  PROVE  Sound'
<1>1. ASSUME NEW b \in Briefings
      PROVE  CallSound(b)'
  BY CallSoundKept DEF Sound
<1>2. ASSUME NEW j \in Jobs, job[j].pc = "llm"
      PROVE  JobSound(call'[j[1]], Key(j)', job'[j].days, log', today')
  BY <1>2, JobSoundKept
<1>3. ASSUME NEW i \in DOMAIN cache
      PROVE  EntrySound(cache[i].analysis, log', today')
  <2>0. cache \in Seq(Entries)
    BY DEF Shape, TypeOK, Entries
  <2>1. cache[i] \in Entries
    BY <2>0
  <2>2. PICK a \in Analysis : a = cache[i].analysis
    BY <2>1 DEF Entries
  <2>3. PICK L \in [Keys -> Seq(Entry)], M \in [Keys -> Seq(Entry)], d \in Nat, e \in Nat :
          L = log /\ M = log' /\ d = today /\ e = today' /\ d <= e /\ Grown(L, M)
    BY DEF Later
  <2>4. EntrySound(a, L, d)
    BY <2>2, <2>3 DEF Sound
  <2>5. EntrySound(a, M, e)
    BY <2>3, <2>4, EntryKept
  <2>6. QED
    BY <2>2, <2>3, <2>5
<1>4. Len(cache') <= CacheMax /\ \A i, n \in DOMAIN cache' : cache'[i].key = cache'[n].key => i = n
  BY DEF Sound
<1>5. QED
  BY <1>1, <1>2, <1>3, <1>4 DEF Sound

\* A job that returns with an analysis that is sound for its call.
LEMMA ReturnsKeepsSound ==
  ASSUME Shape, Sound, Later, NEW j \in Jobs, job[j].pc # "none", NEW a \in Analysis, Returns(j, a),
         AnalysisSound(call[j[1]], a, log, today, today),
         Len(cache') <= CacheMax, Unique(cache'),
         \A i \in DOMAIN cache' : EntrySound(cache'[i].analysis, log, today)
  PROVE  Sound'
<1>1. PICK b, n : b = j[1] /\ n = j[2]
  OBVIOUS
<1>2. PICK x \in Call : x = call[b] /\ x.at = "analyse" /\ b \in Briefings /\ n \in 1..Len(x.keys)
  BY <1>1, RunningFacts
<1>3. PICK y : y = call'[b]
  OBVIOUS
<1>4. /\ \A c \in Briefings : c # b => call'[c] = call[c]
      /\ SameBut(x, y, n) /\ y.analyses[n] = a
      /\ \A i \in Jobs : i # j => job'[i] = job[i]
      /\ job'[j].pc = "done"
      /\ today' = today /\ log' = log /\ edits' = edits
  BY <1>1, <1>2, <1>3, ReturnsFacts
<1>5. /\ y.at = x.at /\ y.req = x.req /\ y.keys = x.keys /\ y.since = x.since
      /\ y.batches = x.batches /\ y.details = x.details /\ y.error = x.error
      /\ Len(x.analyses) = Len(x.keys)
      /\ \A i \in 1..Len(x.keys) : i # n => y.analyses[i] = x.analyses[i]
  BY <1>1, <1>2, <1>4, RunningFacts DEF SameBut
<1>6. CallSound(b) /\ CallShape(b)
  BY <1>2 DEF Sound, Shape
<1>7. Len(x.keys) \in Nat /\ Len(x.keys) <= MaxAnalysed /\ MaxAnalysed \in Nat
  BY <1>2, <1>6, CallFacts, ConstantFacts DEF CallShape, LocalsShape
<1>8. ASSUME NEW i \in 1..Len(x.keys), Ready(b, i)'
      PROVE  AnalysisSound(y, y.analyses[i], log, today, today)
  <2>1. CASE i = n
    <3>1. AnalysisSound(x, a, log, today, today)
      BY <1>1, <1>2
    <3>2. QED
      BY <1>4, <1>5, <2>1, <3>1 DEF AnalysisSound
  <2>2. CASE i # n
    <3>1. i \in 1..MaxAnalysed
      BY <1>7
    <3>2. <<b, i>> \in Jobs /\ <<b, i>> # j
      BY <1>1, <1>2, <2>2, <3>1, JobsFacts
    <3>3. Ready(b, i)
      BY <1>2, <1>3, <1>4, <1>5, <1>8, <3>2 DEF Ready
    <3>4. AnalysisSound(x, x.analyses[i], log, today, today)
      BY <1>2, <1>6, <3>3 DEF CallSound, Until
    <3>5. QED
      BY <1>5, <2>2, <3>4 DEF AnalysisSound
  <2>3. QED
    BY <2>1, <2>2
<1>9. CallSound(b)'
  <2>1. Answered(y)
    BY <1>2, <1>5, <1>6 DEF Answered, CallSound
  <2>2. y.at # "idle" /\ y.req.force =>
          /\ y.since.day <= today
          /\ \A k \in Keys : y.since.issues[k].stamp <= Len(log[k]) /\ y.since.issues[k].edits <= edits[k]
    BY <1>2, <1>5, <1>6 DEF CallSound
  <2>3. /\ \A i \in DOMAIN y.batches, k \in Keys : Told(y, k, y.batches[i].details[k], log)
        /\ \A k \in Keys : Told(y, k, y.details[k], log)
    BY <1>2, <1>5, <1>6 DEF CallSound, Told
  <2>4. \A i \in 1..Len(y.keys) : Ready(b, i)' => AnalysisSound(y, y.analyses[i], log, today, Until(y)')
    BY <1>2, <1>4, <1>5, <1>8 DEF Until
  <2>5. QED
    BY <1>3, <1>4, <2>1, <2>2, <2>3, <2>4 DEF CallSound
<1>10. ASSUME NEW c \in Briefings, c # b
       PROVE  CallSound(c)'
  <2>1. \A i \in 1..MaxAnalysed : job'[<<c, i>>].pc = "done" <=> job[<<c, i>>].pc = "done"
    BY <1>1, <1>4, <1>10, JobsFacts
  <2>2. call'[c] = call[c] /\ CallSound(c)
    BY <1>4, <1>10 DEF Sound
  <2>3. QED
    BY <2>1, <2>2, CallSoundKept
<1>11. ASSUME NEW i \in Jobs, job'[i].pc = "llm"
       PROVE  JobSound(call'[i[1]], Key(i)', job'[i].days, log', today')
  <2>1. i # j /\ job'[i] = job[i] /\ i[1] \in Briefings
    BY <1>4, <1>11, JobsFacts
  <2>2. CASE i[1] # b
    BY <1>4, <1>11, <2>1, <2>2, JobSoundKept
  <2>3. CASE i[1] = b
    <3>1. JobSound(x, Key(i), job[i].days, log, today)
      BY <1>2, <1>11, <2>1, <2>3 DEF Sound
    <3>2. Key(i)' = Key(i)
      BY <1>2, <1>3, <1>5, <2>3 DEF Key
    <3>3. JobSound(y, Key(i), job[i].days, log, today)
      BY <1>5, <3>1 DEF JobSound
    <3>4. QED
      BY <1>3, <1>4, <2>1, <2>3, <3>2, <3>3
  <2>4. QED
    BY <2>2, <2>3
<1>12. QED
  BY <1>4, <1>9, <1>10, <1>11 DEF Sound, Unique

LEMMA NotFoundKeepsSound ==
  ASSUME Shape, Sound, Later, NEW j \in Jobs, NotFound(j) \/ AnalysisFails(j)
  PROVE  Sound'
<1>1. PICK reason \in {"missing", "failed"} :
        Returns(j, Degraded(Key(j), reason)) /\ (reason = "missing" => DetailOf(j) = None)
  BY DEF NotFound, AnalysisFails
<1>2. job[j].pc # "none" /\ cache' = cache
  BY DEF NotFound, AnalysisFails, Permitted
<1>3. Key(j) \in Keys /\ DetailOf(j) = call[j[1]].details[Key(j)]
  BY <1>2, RunningFacts
<1>4. PICK a \in Analysis : a = Degraded(Key(j), reason) /\ a.key = Key(j) /\ a.kind = reason
  BY <1>3, DegradedFacts
<1>5. AnalysisSound(call[j[1]], a, log, today, today)
  BY <1>1, <1>3, <1>4 DEF AnalysisSound
<1>6. /\ Len(cache') <= CacheMax /\ Unique(cache')
      /\ \A i \in DOMAIN cache' : EntrySound(cache'[i].analysis, log, today)
  BY <1>2 DEF Sound, Unique
<1>7. QED
  BY <1>1, <1>2, <1>4, <1>5, <1>6, ReturnsKeepsSound

LEMMA ReusedKeepsSound ==
  ASSUME Shape, Sound, Later, NEW j \in Jobs, Reused(j)
  PROVE  Sound'
<1>1. job[j].pc # "none" /\ cache' = cache /\ DetailOf(j) # None /\ ~MustAnalyse(j)
  <2>1. job[j].pc = "sem" /\ UNCHANGED cache /\ ~MustAnalyse(j)
    BY ReusedFacts
  <2>2. QED
    BY <2>1 DEF Reused
<1>2. PICK i \in DOMAIN cache, a \in Analysis :
        /\ Returns(j, a) /\ a.key = Key(j) /\ cache[i].analysis.key = Key(j)
        /\ a.stamp = DetailOf(j).stamp /\ cache[i].analysis.stamp = a.stamp
        /\ a.kind = cache[i].analysis.kind /\ a.days = cache[i].analysis.days
        /\ RefsOf(j) # 0 => a.refs # 0
  BY ReusedFacts
<1>3. Key(j) \in Keys /\ DetailOf(j) = call[j[1]].details[Key(j)]
  BY <1>1, RunningFacts
<1>4. EntrySound(cache[i].analysis, log, today)
  BY <1>2 DEF Sound
<1>5. ~call[j[1]].req.force
  BY <1>1 DEF MustAnalyse
<1>6. AnalysisSound(call[j[1]], a, log, today, today)
  BY <1>1, <1>2, <1>3, <1>4, <1>5 DEF AnalysisSound, EntrySound, RefsOf
<1>7. /\ Len(cache') <= CacheMax /\ Unique(cache')
      /\ \A n \in DOMAIN cache' : EntrySound(cache'[n].analysis, log, today)
  BY <1>1 DEF Sound, Unique
<1>8. QED
  BY <1>1, <1>2, <1>6, <1>7, ReturnsKeepsSound

LEMMA AnalysedKeepsSound ==
  ASSUME Shape, Sound, Later, NEW j \in Jobs, Analysed(j)
  PROVE  Sound'
<1>1. PICK k, a : k = CacheKey(j) /\ a = Result(j)
  OBVIOUS
<1>2. job[j].pc = "llm" /\ Returns(j, a)
  BY <1>1, AnalysedFacts
<1>3. PICK x \in Call, key \in Keys, d \in Detail : x = call[j[1]] /\ key = Key(j) /\ d = DetailOf(j) /\ x.details[key] = d /\ d # None
  <2>1. DetailOf(j) # None
    BY <1>2 DEF Shape
  <2>2. /\ call[j[1]] \in Call /\ Key(j) \in Keys /\ DetailOf(j) = call[j[1]].details[Key(j)]
        /\ DetailOf(j) \in Detail \cup {None}
    <3>1. job[j].pc # "none"
      BY <1>2
    <3>2. QED
      BY <3>1, RunningFacts
  <2>3. PICK x \in Call, key \in Keys : x = call[j[1]] /\ key = Key(j)
    BY <2>2
  <2>4. PICK d \in Detail : d = DetailOf(j)
    BY <2>1, <2>2
  <2>5. d # None /\ x.details[key] = d
    BY <2>1, <2>2, <2>3, <2>4
  <2>6. QED
    BY <2>3, <2>4, <2>5
<1>4. /\ a \in Analysis /\ a.key = key /\ a.kind = "analysed" /\ a.stamp = d.stamp /\ a.days = job[j].days
      /\ a.edits = d.edits /\ a.refs = x.req.refs[key]
  BY <1>1, <1>2, <1>3, ResultFacts DEF Result, RefsOf
<1>5. JobSound(x, key, a.days, log, today)
  BY <1>2, <1>3, <1>4 DEF Sound
<1>6. AnalysisSound(x, a, log, today, today)
  BY <1>3, <1>4, <1>5 DEF AnalysisSound, JobSound
<1>7. EntrySound(a, log, today)
  BY <1>3, <1>4, <1>5 DEF EntrySound, JobSound
<1>8. ASSUME NEW i \in DOMAIN cache'
      PROVE  EntrySound(cache'[i].analysis, log, today)
  <2>1. cache'[i] = [key |-> k, analysis |-> a] \/ \E n \in DOMAIN cache : cache'[i] = cache[n]
    BY <1>1, <1>8, AnalysedFacts
  <2>2. CASE cache'[i] = [key |-> k, analysis |-> a]
    BY <1>7, <2>2
  <2>3. CASE \E n \in DOMAIN cache : cache'[i] = cache[n]
    BY <2>3 DEF Sound
  <2>4. QED
    BY <2>1, <2>2, <2>3
<1>9. Len(cache') <= CacheMax /\ Unique(cache')
  <2>1. Len(cache) <= CacheMax /\ Unique(cache)
    BY DEF Sound, Unique
  <2>2. QED
    BY <2>1, AnalysedFacts
<1>10. QED
  BY <1>2, <1>3, <1>4, <1>6, <1>8, <1>9, ReturnsKeepsSound

LEMMA AskLLMKeepsSound ==
  ASSUME Shape, Sound, Later, NEW j \in Jobs, AskLLM(j)
  PROVE  Sound'
<1>1. PICK days : days = DaysBlocked(LogOf(j), today)
  OBVIOUS
<1>2. /\ job[j].pc = "sem" /\ DetailOf(j) # None
      /\ job' = [job EXCEPT ![j] = [pc |-> "llm", days |-> days]]
      /\ today' = today /\ log' = log /\ edits' = edits /\ cache' = cache /\ call' = call
  BY <1>1 DEF AskLLM, Permitted
<1>3. /\ job'[j] = [pc |-> "llm", days |-> days]
      /\ \A i \in Jobs : i # j => job'[i] = job[i]
  BY <1>2 DEF Shape, TypeOK
<1>4. PICK x \in Call, k \in Keys : x = call[j[1]] /\ k = Key(j)
  BY <1>2, RunningFacts
<1>5. PICK d \in Detail : d = DetailOf(j) /\ x.details[k] = d
  BY <1>2, <1>4, RunningFacts
<1>6. j[1] \in Briefings /\ x.at = "analyse" /\ d # None /\ CallSound(j[1])
  BY <1>2, <1>4, <1>5, RunningFacts DEF Sound
<1>7. Told(x, k, d, log)
  BY <1>4, <1>5, <1>6 DEF CallSound
<1>8. PICK n \in Nat, s \in Seq(Entry), day \in Nat : n = d.stamp /\ s = UpTo(n, log[k]) /\ day = today
  <2>1. d.stamp \in Nat /\ log[k] \in Seq(Entry) /\ today \in Nat
    BY DEF Detail, Later
  <2>2. UpTo(d.stamp, log[k]) \in Seq(Entry)
    BY <2>1, UpToFacts
  <2>3. QED
    BY <2>1, <2>2
<1>9. days = DaysBlocked(s, day)
  BY <1>1, <1>4, <1>5, <1>8 DEF LogOf
<1>10. DaysBlocked(s, day) <= Spell(s, day)
  <2>1. day <= day
    OBVIOUS
  <2>2. QED
    BY <2>1, SpellFacts
<1>11. DaysSound(log[k], n, days, today)
  BY <1>6, <1>7, <1>8, <1>9, <1>10 DEF Told, DaysSound
<1>12. ASSUME x.req.force
       PROVE  CountedBetween(days, s, x.since.day, today)
  <2>1. x.since.day <= today
    BY <1>4, <1>6, <1>12 DEF CallSound
  <2>2. x.since.day \in Nat
    BY CallFacts
  <2>3. day \in x.since.day..today
    BY <1>8, <2>1, <2>2
  <2>4. QED
    BY <1>9, <2>3 DEF CountedBetween
<1>13. JobSound(x, k, days, log, today)
  BY <1>5, <1>8, <1>11, <1>12 DEF JobSound
<1>14. ASSUME NEW i \in Jobs, job'[i].pc = "llm"
       PROVE  JobSound(call'[i[1]], Key(i)', job'[i].days, log', today')
  <2>1. CASE i = j
    BY <1>2, <1>3, <1>4, <1>13, <2>1 DEF Key
  <2>2. CASE i # j
    BY <1>2, <1>3, <1>14, <2>2 DEF Sound, Key
  <2>3. QED
    BY <2>1, <2>2
<1>15. ASSUME NEW b \in Briefings
       PROVE  CallSound(b)'
  <2>1. \A i \in 1..MaxAnalysed : job'[<<b, i>>].pc = "done" <=> job[<<b, i>>].pc = "done"
    BY <1>2, <1>3, JobsFacts
  <2>2. CallSound(b) /\ call'[b] = call[b]
    BY <1>2 DEF Sound
  <2>3. QED
    BY <2>1, <2>2, CallSoundKept
<1>16. QED
  BY <1>2, <1>14, <1>15 DEF Sound

\* A step of call b that leaves Jira, the cache and the jobs of other calls alone, after which
\* none of b's jobs waits for the LLM.
LEMMA CallStepKeepsSound ==
  ASSUME Shape, Sound, Later, NEW b \in Briefings, NEW x \in Call, call' = [call EXCEPT ![b] = x],
         UNCHANGED <<today, log, edits, cache>>,
         \A j \in Jobs : j[1] # b => job'[j] = job[j],
         \A i \in 1..MaxAnalysed : job'[<<b, i>>].pc # "llm",
         CallSound(b)'
  PROVE  Sound'
<1>1. call'[b] = x /\ \A c \in Briefings : c # b => call'[c] = call[c]
  BY DEF Shape, TypeOK
<1>2. ASSUME NEW c \in Briefings, c # b
      PROVE  CallSound(c)'
  <2>1. \A i \in 1..MaxAnalysed : job'[<<c, i>>].pc = "done" <=> job[<<c, i>>].pc = "done"
    BY <1>2, JobsFacts
  <2>2. call'[c] = call[c] /\ CallSound(c)
    BY <1>1, <1>2 DEF Sound
  <2>3. QED
    BY <2>1, <2>2, CallSoundKept
<1>3. ASSUME NEW j \in Jobs, job'[j].pc = "llm"
      PROVE  JobSound(call'[j[1]], Key(j)', job'[j].days, log', today')
  <2>1. j[1] \in Briefings /\ j[1] # b
    BY <1>3, JobsFacts
  <2>2. job[j].pc = "llm" /\ job'[j] = job[j] /\ call'[j[1]] = call[j[1]]
    BY <1>1, <1>3, <2>1
  <2>3. QED
    BY <2>2, JobSoundKept
<1>4. QED
  BY <1>2, <1>3 DEF Sound

LEMMA IssuesFacts ==
  ASSUME Later, NEW k \in Keys
  PROVE  Issues[k] \in Detail /\ Issues[k] # None /\ Issues[k].stamp = Len(log[k]) /\ Issues[k].edits = edits[k]
<1>1. Len(log[k]) \in Nat /\ edits[k] \in Edits
  BY DEF Later
<1>2. Issues[k] = [stamp |-> Len(log[k]), edits |-> edits[k]]
  BY DEF Issues
<1>3. QED
  BY <1>1, <1>2, ConstantFacts DEF Detail

LEMMA BatchStepKeepsSound ==
  ASSUME Shape, Sound, Later, NEW b \in Briefings, NEW i \in DOMAIN call[b].batches, BatchStep(b, i)
  PROVE  Sound'
<1>1. PICK batch \in Batch :
        /\ Posting(b, i) /\ BatchGoes(b, i, batch)
        /\ \/ /\ batch.pc = "ok"
              /\ \A k \in Keys : batch.details[k] = IF k \in Chunk(b, i) \ Unknown THEN Issues[k] ELSE None
           \/ /\ batch.pc = "ok" => batch.error # "none"
              /\ \A k \in Keys : batch.details[k] = None
  BY BatchStepFacts
<1>2. PICK c \in Call : c = call[b]
  BY DEF Shape, TypeOK
<1>3. c.at = "fetch" /\ UNCHANGED <<today, log, edits, cache, sem, job>>
  BY <1>1, <1>2, BatchGoesFacts
<1>4. PICK x \in Call :
        /\ call' = [call EXCEPT ![b] = x] /\ x.at = "fetch"
        /\ x.req = c.req /\ x.keys = c.keys /\ x.since = c.since
        /\ x.details = c.details
        /\ DOMAIN x.batches = DOMAIN c.batches /\ x.batches[i] = batch
        /\ \A n \in DOMAIN x.batches : n # i => x.batches[n] = c.batches[n]
  BY <1>1, <1>2, BatchGoesFacts
<1>5. call'[b] = x
  BY <1>4 DEF Shape, TypeOK
<1>6. CallSound(b) /\ CallShape(b)
  BY DEF Sound, Shape
<1>7. c.keys \in Seq(Keys) /\ DOMAIN c.keys = 1..Len(c.keys) /\ \A n \in 1..Len(c.keys) : c.keys[n] \in Keys
  BY CallFacts
<1>8. ASSUME NEW m \in DOMAIN x.batches, x.batches[m].pc = "ok", x.batches[m].error = "none",
             NEW n \in 1..Len(x.keys), n > (m - 1) * BatchSize, n <= m * BatchSize
      PROVE  x.batches[m].details[x.keys[n]] # None \/ x.keys[n] \in Unknown
  <2>1. CASE m = i
    <3>1. c.keys[n] \in Chunk(b, i) /\ c.keys[n] \in Keys
      BY <1>2, <1>4, <1>7, <1>8, <2>1 DEF Chunk
    <3>2. batch.details[c.keys[n]] = IF c.keys[n] \in Chunk(b, i) \ Unknown THEN Issues[c.keys[n]] ELSE None
      BY <1>1, <1>4, <1>8, <2>1, <3>1
    <3>3. Issues[c.keys[n]] # None
      BY <3>1, IssuesFacts
    <3>4. QED
      BY <1>4, <2>1, <3>1, <3>2, <3>3
  <2>2. CASE m # i
    BY <1>2, <1>3, <1>4, <1>6, <1>8, <2>2 DEF CallSound, Answered
  <2>3. QED
    BY <2>1, <2>2
<1>9. Answered(x)
  BY <1>4, <1>8 DEF Answered
<1>10. c.req.force =>
         /\ c.since.day <= today
         /\ \A k \in Keys : c.since.issues[k].stamp <= Len(log[k]) /\ c.since.issues[k].edits <= edits[k]
  BY <1>2, <1>3, <1>6 DEF CallSound
<1>11. ASSUME NEW m \in DOMAIN x.batches, NEW k \in Keys
       PROVE  Told(x, k, x.batches[m].details[k], log)
  <2>1. CASE m = i
    <3>1. CASE batch.details[k] = None
      BY <1>4, <2>1, <3>1 DEF Told
    <3>2. CASE batch.details[k] = Issues[k]
      <4>1. Issues[k].stamp = Len(log[k]) /\ Issues[k].edits = edits[k] /\ Len(log[k]) <= Len(log[k])
        <5>1. Len(log[k]) \in Nat
          BY DEF Later
        <5>2. QED
          BY <5>1, IssuesFacts
      <4>2. QED
        BY <1>4, <1>10, <2>1, <3>2, <4>1 DEF Told
    <3>3. QED
      BY <1>1, <3>1, <3>2
  <2>2. CASE m # i
    BY <1>2, <1>4, <1>6, <2>2 DEF CallSound, Told
  <2>3. QED
    BY <2>1, <2>2
<1>12. \A k \in Keys : Told(x, k, x.details[k], log)
  BY <1>2, <1>4, <1>6 DEF CallSound, Told
<1>13. \A n : ~Ready(b, n)'
  BY <1>4, <1>5 DEF Ready
<1>14. CallSound(b)'
  BY <1>3, <1>4, <1>5, <1>9, <1>10, <1>11, <1>12, <1>13 DEF CallSound
<1>15. \A n \in 1..MaxAnalysed : job'[<<b, n>>].pc # "llm"
  BY <1>2, <1>3, <1>6 DEF CallShape
<1>16. QED
  BY <1>3, <1>4, <1>14, <1>15, CallStepKeepsSound

LEMMA BeginKeepsSound ==
  ASSUME Shape, Sound, Later, NEW b \in Briefings, Begin(b)
  PROVE  Sound'
<1>1. call[b].at = "idle" /\ UNCHANGED <<today, log, edits, cache, sem, job>>
  BY BeginFacts
<1>2. PICK x \in Call :
        /\ call' = [call EXCEPT ![b] = x] /\ x.at = "fetch"
        /\ x.req.force => x.since.day = today /\ x.since.issues = Issues
        /\ \A i \in DOMAIN x.batches : x.batches[i] = NewBatch
        /\ \A k \in Keys : x.details[k] = None
  BY BeginFacts
<1>3. call'[b] = x
  BY <1>2 DEF Shape, TypeOK
<1>4. NewBatch.pc = "post" /\ \A k \in Keys : NewBatch.details[k] = None
  BY DEF NewBatch, NoDetails
<1>5. Answered(x)
  BY <1>2, <1>4 DEF Answered
<1>6. ASSUME x.req.force, NEW k \in Keys
      PROVE  x.since.issues[k].stamp <= Len(log[k]) /\ x.since.issues[k].edits <= edits[k]
  <2>1. Len(log[k]) \in Nat /\ edits[k] \in Edits
    BY DEF Later
  <2>2. Issues[k].stamp = Len(log[k]) /\ Issues[k].edits = edits[k]
    BY IssuesFacts
  <2>3. QED
    BY <1>2, <1>6, <2>1, <2>2
<1>7. x.req.force => x.since.day <= today
  BY <1>2 DEF Later
<1>8. \A k \in Keys : /\ Told(x, k, x.details[k], log)
                      /\ \A i \in DOMAIN x.batches : Told(x, k, x.batches[i].details[k], log)
  BY <1>2, <1>4 DEF Told
<1>9. \A n : ~Ready(b, n)'
  BY <1>2, <1>3 DEF Ready
<1>10. CallSound(b)'
  BY <1>1, <1>3, <1>5, <1>6, <1>7, <1>8, <1>9 DEF CallSound
<1>11. \A n \in 1..MaxAnalysed : job'[<<b, n>>].pc # "llm"
  BY <1>1 DEF Shape, CallShape
<1>12. QED
  BY <1>1, <1>2, <1>10, <1>11, CallStepKeepsSound

LEMMA FetchedKeepsSound ==
  ASSUME Shape, Sound, Later, NEW b \in Briefings, Fetched(b) \/ FetchFails(b)
  PROVE  Sound'
<1>1. PICK c \in Call : c = call[b]
  BY DEF Shape, TypeOK
<1>2. PICK details \in Details, error \in Error :
        /\ StartAnalysis(b, details, error)
        /\ \A k \in Keys : \/ details[k] = None
                           \/ \E i \in DOMAIN c.batches : details[k] = c.batches[i].details[k]
        /\ \/ error # "none"
           \/ \A i \in DOMAIN c.batches :
                /\ c.batches[i].pc = "ok" /\ c.batches[i].error = "none"
                /\ \A k \in Keys : c.batches[i].details[k] # None => details[k] # None
  BY <1>1, FetchedFacts
<1>3. c.at = "fetch"
  BY <1>1, FetchedFacts
<1>4. /\ UNCHANGED <<today, log, edits, cache>>
      /\ \A j \in Jobs : j[1] # b => job'[j] = job[j]
      /\ \A i \in 1..MaxAnalysed : job'[<<b, i>>].pc \in {"none", "sem"}
  BY <1>1, <1>2, <1>3, StartFacts
<1>5. PICK x \in Call :
        /\ call' = [call EXCEPT ![b] = x] /\ x.at = "analyse"
        /\ x.req = c.req /\ x.keys = c.keys /\ x.since = c.since
        /\ x.batches = <<>> /\ x.details = details /\ x.error = error
  BY <1>1, <1>2, <1>3, StartFacts
<1>6. call'[b] = x
  BY <1>5 DEF Shape, TypeOK
<1>7. CallSound(b) /\ CallShape(b) /\ LocalsShape(c)
  BY <1>1 DEF Sound, Shape, CallShape
<1>8. /\ Len(c.keys) \in Nat /\ Len(c.keys) <= MaxAnalysed /\ MaxAnalysed \in Nat
      /\ \A n \in 1..Len(c.keys) : c.keys[n] \in Keys
  BY <1>7, CallFacts, ConstantFacts DEF LocalsShape
<1>9. ASSUME error = "none", NEW n \in 1..Len(c.keys)
      PROVE  details[c.keys[n]] # None \/ c.keys[n] \in Unknown
  <2>1. DOMAIN c.batches = {i \in 1..Len(c.keys) : (i - 1) * BatchSize < Len(c.keys)}
    BY <1>3, <1>7 DEF LocalsShape
  <2>2. PICK i \in DOMAIN c.batches : n > (i - 1) * BatchSize /\ n <= i * BatchSize
    BY <1>8, <2>1, BatchesFacts
  <2>3. c.batches[i].details[c.keys[n]] # None \/ c.keys[n] \in Unknown
    BY <1>1, <1>2, <1>3, <1>7, <1>9, <2>2 DEF CallSound, Answered
  <2>4. QED
    BY <1>2, <1>8, <1>9, <2>3
<1>10. Answered(x)
  BY <1>5, <1>9 DEF Answered
<1>11. ASSUME NEW k \in Keys
       PROVE  Told(x, k, details[k], log)
  <2>1. CASE details[k] = None
    BY <2>1 DEF Told
  <2>2. CASE \E i \in DOMAIN c.batches : details[k] = c.batches[i].details[k]
    <3>1. PICK i \in DOMAIN c.batches : details[k] = c.batches[i].details[k]
      BY <2>2
    <3>2. Told(c, k, details[k], log)
      BY <1>1, <1>7, <3>1 DEF CallSound
    <3>3. QED
      BY <1>5, <3>2 DEF Told
  <2>3. QED
    BY <1>2, <2>1, <2>2
<1>12. x.req.force =>
         /\ x.since.day <= today
         /\ \A k \in Keys : x.since.issues[k].stamp <= Len(log[k]) /\ x.since.issues[k].edits <= edits[k]
  BY <1>1, <1>3, <1>5, <1>7 DEF CallSound
<1>13. \A n \in 1..Len(x.keys) : ~Ready(b, n)'
  <2>1. \A n \in 1..Len(x.keys) : n \in 1..MaxAnalysed
    BY <1>5, <1>8
  <2>2. QED
    BY <1>4, <1>5, <1>6, <2>1 DEF Ready
<1>14. DOMAIN x.batches = {}
  BY <1>5
<1>15. CallSound(b)'
  BY <1>4, <1>5, <1>6, <1>10, <1>11, <1>12, <1>13, <1>14 DEF CallSound
<1>16. \A n \in 1..MaxAnalysed : job'[<<b, n>>].pc # "llm"
  BY <1>4
<1>17. QED
  BY <1>4, <1>5, <1>15, <1>16, CallStepKeepsSound

LEMMA RankedKeepsSound ==
  ASSUME Shape, Sound, Later, NEW b \in Briefings, Ranked(b)
  PROVE  Sound'
<1>1. PICK c \in Call : c = call[b]
  BY DEF Shape, TypeOK
<1>2. /\ UNCHANGED <<today, log, edits, cache>>
      /\ \A i \in 1..Len(c.keys) : Ready(b, i)
      /\ \A j \in Jobs : j[1] # b => job'[j] = job[j]
      /\ \A i \in 1..MaxAnalysed : job'[<<b, i>>].pc = "none"
  BY <1>1, RankedFacts
<1>3. PICK x \in Call :
        /\ call' = [call EXCEPT ![b] = x] /\ x.at = "done"
        /\ x.req = c.req /\ x.keys = c.keys /\ x.since = c.since
        /\ x.batches = <<>> /\ x.details = c.details /\ x.error = c.error
        /\ x.analyses = c.analyses /\ x.ranked = today
        /\ c.at = "fetch" => x.keys = <<>>
  BY <1>1, RankedFacts
<1>4. call'[b] = x
  BY <1>3 DEF Shape, TypeOK
<1>5. CallSound(b) /\ c.at \in {"fetch", "analyse"}
  BY <1>1 DEF Sound, Ranked
<1>6. Answered(x)
  <2>1. CASE c.at = "fetch"
    <3>1. Len(x.keys) = 0
      BY <1>3, <2>1
    <3>2. QED
      BY <1>3, <3>1 DEF Answered
  <2>2. CASE c.at = "analyse"
    BY <1>1, <1>3, <1>5, <2>2 DEF Answered, CallSound
  <2>3. QED
    BY <1>5, <2>1, <2>2
<1>7. ASSUME NEW i \in 1..Len(x.keys)
      PROVE  AnalysisSound(x, x.analyses[i], log, today, today)
  <2>1. AnalysisSound(c, c.analyses[i], log, today, today)
    BY <1>1, <1>2, <1>3, <1>5 DEF CallSound, Until
  <2>2. QED
    BY <1>3, <2>1 DEF AnalysisSound
<1>8. \A k \in Keys : Told(x, k, x.details[k], log)
  BY <1>1, <1>3, <1>5 DEF CallSound, Told
<1>9. x.req.force =>
        /\ x.since.day <= today
        /\ \A k \in Keys : x.since.issues[k].stamp <= Len(log[k]) /\ x.since.issues[k].edits <= edits[k]
  BY <1>1, <1>3, <1>5 DEF CallSound
<1>10. DOMAIN x.batches = {}
  BY <1>3
<1>11. Until(x)' = today
  BY <1>3 DEF Until
<1>12. CallSound(b)'
  BY <1>2, <1>3, <1>4, <1>6, <1>7, <1>8, <1>9, <1>10, <1>11 DEF CallSound
<1>13. \A n \in 1..MaxAnalysed : job'[<<b, n>>].pc # "llm"
  BY <1>2
<1>14. QED
  BY <1>2, <1>3, <1>12, <1>13, CallStepKeepsSound

-----------------------------------------------------------------------------
(* The second invariant holds.                                             *)

LEMMA InitSound == Init => Sound
<1> SUFFICES ASSUME Init PROVE Sound
  OBVIOUS
<1>1. Shape /\ cache = <<>> /\ CacheMax \in Nat
  BY InitShape, ConstantFacts DEF Init
<1>2. /\ \A j \in Jobs : job[j].pc = "none"
      /\ \A b \in Briefings : call[b] = NoCall
  BY DEF Init, NoJob
<1>3. Len(cache) = 0 /\ DOMAIN cache = {}
  BY <1>1
<1>4. \A k \in Keys : Told(NoCall, k, NoCall.details[k], log)
  BY NoCallFacts DEF Told
<1>5. Answered(NoCall) /\ Len(NoCall.keys) = 0 /\ DOMAIN NoCall.batches = {}
  BY NoCallFacts DEF Answered
<1>6. ASSUME NEW b \in Briefings
      PROVE  CallSound(b)
  BY <1>2, <1>4, <1>5, NoCallFacts DEF CallSound
<1>7. QED
  BY <1>1, <1>2, <1>3, <1>6 DEF Sound

LEMMA NextKeepsSound == Shape /\ Sound /\ [Next]_vars => Sound'
<1> SUFFICES ASSUME Shape, Sound, [Next]_vars PROVE Sound'
  OBVIOUS
<1>1. Later
  BY LaterFacts
<1>2. CASE \E j \in Jobs : NotFound(j) \/ Reused(j) \/ AskLLM(j) \/ Analysed(j) \/ AnalysisFails(j)
  BY <1>1, <1>2, NotFoundKeepsSound, ReusedKeepsSound, AskLLMKeepsSound, AnalysedKeepsSound
<1>3. CASE \E b \in Briefings : Begin(b) \/ Fetched(b) \/ FetchFails(b) \/ Ranked(b)
  BY <1>1, <1>3, BeginKeepsSound, FetchedKeepsSound, RankedKeepsSound
<1>4. CASE \E b \in Briefings : \E i \in DOMAIN call[b].batches : BatchStep(b, i)
  BY <1>1, <1>4, BatchStepKeepsSound
<1>5. CASE (\E k \in Keys : Transition(k) \/ Edit(k)) \/ NextDay \/ UNCHANGED vars
  <2>1. UNCHANGED <<cache, sem, job, call>>
    BY <1>5 DEF Transition, Edit, NextDay, vars
  <2>2. QED
    BY <1>1, <2>1, WorldKeepsSound
<1>6. QED
  BY <1>2, <1>3, <1>4, <1>5, NextCases

LEMMA SoundHolds == Spec => [](Shape /\ Sound)
<1>1. Shape /\ Sound /\ [Next]_vars => (Shape /\ Sound)'
  BY NextKeepsShape, NextKeepsSound
<1>2. Init => Shape /\ Sound
  BY InitShape, InitSound
<1>3. QED
  BY <1>1, <1>2, PTL DEF Spec

-----------------------------------------------------------------------------
(* Where references come from.                                             *)

\* Some briefing found these pages for issue k.
FoundFor(calls, k, refs) ==
  \E d \in Briefings : calls[d].at # "idle" /\ calls[d].req.refs[k] = refs

TracedOf(calls, x) == x.kind = "analysed" => FoundFor(calls, x.key, x.refs)

Traced ==
  /\ \A i \in DOMAIN cache : FoundFor(call, cache[i].analysis.key, cache[i].analysis.refs)
  /\ \A b \in Briefings : \A i \in 1..Len(call[b].keys) : Ready(b, i) => TracedOf(call, call[b].analyses[i])

\* A briefing keeps what it was called with.
LEMMA CallsKept ==
  ASSUME Shape, [Next]_vars, NEW d \in Briefings, call[d].at # "idle"
  PROVE  call'[d].at # "idle" /\ call'[d].req = call[d].req
<1>1. call \in [Briefings -> Call]
  BY DEF Shape, TypeOK
<1>2. ASSUME NEW b \in Briefings, NEW x, call' = [call EXCEPT ![b] = x],
             call[b].at = "idle" \/ (x.at # "idle" /\ x.req = call[b].req)
      PROVE  call'[d].at # "idle" /\ call'[d].req = call[d].req
  BY <1>1, <1>2
<1>3. CASE \E j \in Jobs : NotFound(j) \/ Reused(j) \/ AskLLM(j) \/ Analysed(j) \/ AnalysisFails(j)
  <2>1. PICK j \in Jobs : NotFound(j) \/ Reused(j) \/ AskLLM(j) \/ Analysed(j) \/ AnalysisFails(j)
    BY <1>3
  <2>2. CASE call' = call
    BY <2>2
  <2>3. CASE \E a : Returns(j, a)
    <3>1. PICK a : call' = [call EXCEPT ![j[1]].analyses[j[2]] = a]
      BY <2>3 DEF Returns
    <3>2. PICK x : x = [call[j[1]] EXCEPT !.analyses[j[2]] = a] /\ call' = [call EXCEPT ![j[1]] = x]
      BY <3>1
    <3>3. j[1] \in Briefings /\ call[j[1]] \in Call
      BY <1>1, JobsFacts
    <3>4. x.at = call[j[1]].at /\ x.req = call[j[1]].req
      BY <3>2, <3>3 DEF Call
    <3>5. QED
      BY <1>1, <3>2, <3>3, <3>4
  <2>4. QED
    BY <2>1, <2>2, <2>3 DEF NotFound, Reused, AskLLM, Analysed, AnalysisFails
<1>4. CASE \E b \in Briefings : Begin(b) \/ Fetched(b) \/ FetchFails(b) \/ Ranked(b)
  <2>1. PICK b \in Briefings : Begin(b) \/ Fetched(b) \/ FetchFails(b) \/ Ranked(b)
    BY <1>4
  <2>2. CASE Begin(b)
    BY <1>2, <2>2, BeginFacts
  <2>3. CASE Fetched(b) \/ FetchFails(b)
    <3>1. call[b].at = "fetch" /\ \E details \in Details, error \in Error : StartAnalysis(b, details, error)
      BY <2>3, FetchedFacts
    <3>2. \E x \in Call : call' = [call EXCEPT ![b] = x] /\ x.at = "analyse" /\ x.req = call[b].req
      BY <3>1, StartFacts
    <3>3. QED
      BY <1>2, <3>2
  <2>4. CASE Ranked(b)
    <3>1. \E x \in Call : call' = [call EXCEPT ![b] = x] /\ x.at = "done" /\ x.req = call[b].req
      BY <2>4, RankedFacts
    <3>2. QED
      BY <1>2, <3>1
  <2>5. QED
    BY <2>1, <2>2, <2>3, <2>4
<1>5. CASE \E b \in Briefings : \E i \in DOMAIN call[b].batches : BatchStep(b, i)
  <2>1. PICK b \in Briefings : \E i \in DOMAIN call[b].batches : BatchStep(b, i)
    BY <1>5
  <2>2. PICK i \in DOMAIN call[b].batches : BatchStep(b, i)
    BY <2>1
  <2>3. PICK batch \in Batch : Posting(b, i) /\ BatchGoes(b, i, batch)
    BY <2>2, BatchStepFacts
  <2>4. \E x \in Call : call' = [call EXCEPT ![b] = x] /\ x.at = "fetch" /\ x.req = call[b].req
    BY <2>3, BatchGoesFacts
  <2>5. QED
    BY <1>2, <2>4
<1>6. CASE (\E k \in Keys : Transition(k) \/ Edit(k)) \/ NextDay \/ UNCHANGED vars
  BY <1>6 DEF Transition, Edit, NextDay, vars
<1>7. QED
  BY <1>3, <1>4, <1>5, <1>6, NextCases

LEMMA FoundKept ==
  ASSUME Shape, [Next]_vars, NEW k, NEW refs, FoundFor(call, k, refs)
  PROVE  FoundFor(call', k, refs)
<1>1. PICK d \in Briefings : call[d].at # "idle" /\ call[d].req.refs[k] = refs
  BY DEF FoundFor
<1>2. call'[d].at # "idle" /\ call'[d].req = call[d].req
  BY <1>1, CallsKept
<1>3. QED
  BY <1>1, <1>2 DEF FoundFor

\* What a step adds to the cache or to a call has to be traced; the rest was before.
LEMMA TracedKept ==
  ASSUME Shape, Traced, [Next]_vars,
         \A i \in DOMAIN cache' : \/ \E n \in DOMAIN cache : cache'[i] = cache[n]
                                  \/ FoundFor(call, cache'[i].analysis.key, cache'[i].analysis.refs),
         \A b \in Briefings : \A i \in 1..Len(call'[b].keys) : Ready(b, i)' =>
           \/ /\ i \in 1..Len(call[b].keys) /\ Ready(b, i)
              /\ call'[b].analyses[i] = call[b].analyses[i]
           \/ TracedOf(call, call'[b].analyses[i])
  PROVE  Traced'
<1>1. ASSUME NEW i \in DOMAIN cache'
      PROVE  FoundFor(call', cache'[i].analysis.key, cache'[i].analysis.refs)
  <2>1. PICK k, refs : k = cache'[i].analysis.key /\ refs = cache'[i].analysis.refs
    OBVIOUS
  <2>2. FoundFor(call, k, refs)
    BY <1>1, <2>1 DEF Traced, TracedOf
  <2>3. FoundFor(call', k, refs)
    BY <2>2, FoundKept
  <2>4. QED
    BY <2>1, <2>3 DEF FoundFor
<1>2. ASSUME NEW b \in Briefings, NEW i \in 1..Len(call'[b].keys), Ready(b, i)',
             call'[b].analyses[i].kind = "analysed"
      PROVE  FoundFor(call', call'[b].analyses[i].key, call'[b].analyses[i].refs)
  <2>1. PICK a : a = call'[b].analyses[i]
    OBVIOUS
  <2>2. TracedOf(call, a)
    BY <1>2, <2>1 DEF Traced, TracedOf
  <2>3. FoundFor(call, a.key, a.refs)
    BY <1>2, <2>1, <2>2 DEF TracedOf
  <2>4. FoundFor(call', a.key, a.refs)
    BY <2>3, FoundKept
  <2>5. QED
    BY <2>1, <2>4 DEF FoundFor
<1>3. QED
  BY <1>1, <1>2 DEF Traced, TracedOf

\* A job returns an analysis whose references are traced.
LEMMA ReturnsKeepsTraced ==
  ASSUME Shape, Traced, [Next]_vars, NEW j \in Jobs, job[j].pc # "none", NEW a \in Analysis,
         Returns(j, a), TracedOf(call, a),
         \A i \in DOMAIN cache' : \/ \E n \in DOMAIN cache : cache'[i] = cache[n]
                                  \/ FoundFor(call, cache'[i].analysis.key, cache'[i].analysis.refs)
  PROVE  Traced'
<1>1. PICK b, n : b = j[1] /\ n = j[2] /\ j = <<b, n>>
  BY JobsFacts
<1>2. /\ \A c \in Briefings : c # b => call'[c] = call[c]
      /\ SameBut(call[b], call'[b], n) /\ call'[b].analyses[n] = a
      /\ \A i \in Jobs : i # j => job'[i] = job[i]
  BY <1>1, ReturnsFacts
<1>3. /\ b \in Briefings /\ call'[b].at = call[b].at /\ call'[b].keys = call[b].keys
      /\ \A i \in 1..Len(call[b].keys) : i # n => call'[b].analyses[i] = call[b].analyses[i]
  BY <1>1, <1>2, RunningFacts DEF SameBut
<1>4. \A c \in Briefings : \A i \in 1..Len(call[c].keys) : i \in 1..MaxAnalysed
  <2>1. ASSUME NEW c \in Briefings
        PROVE  Len(call[c].keys) \in Nat /\ Len(call[c].keys) <= MaxAnalysed /\ MaxAnalysed \in Nat
    BY CallFacts, ConstantFacts DEF Shape, TypeOK, CallShape, LocalsShape
  <2>2. QED
    BY <2>1
<1>5. ASSUME NEW c \in Briefings, NEW i \in 1..Len(call'[c].keys), Ready(c, i)'
      PROVE  \/ /\ i \in 1..Len(call[c].keys) /\ Ready(c, i)
                /\ call'[c].analyses[i] = call[c].analyses[i]
             \/ TracedOf(call, call'[c].analyses[i])
  <2>1. i \in 1..Len(call[c].keys) /\ call'[c].at = call[c].at
    BY <1>2, <1>3, <1>5
  <2>2. <<c, i>> \in Jobs
    BY <1>4, <2>1, JobsFacts
  <2>3. CASE <<c, i>> = j
    <3>1. c = b /\ i = n
      BY <1>1, <2>3
    <3>2. QED
      BY <1>2, <3>1
  <2>4. CASE <<c, i>> # j
    <3>1. job'[<<c, i>>] = job[<<c, i>>]
      BY <1>2, <2>2, <2>4
    <3>2. Ready(c, i)
      BY <1>5, <2>1, <3>1 DEF Ready
    <3>3. c # b \/ i # n
      BY <1>1, <2>4
    <3>4. call'[c].analyses[i] = call[c].analyses[i]
      BY <1>2, <1>3, <2>1, <3>3
    <3>5. QED
      BY <2>1, <3>2, <3>4
  <2>5. QED
    BY <2>3, <2>4
<1>6. QED
  BY <1>5, TracedKept

\* A call moves on, and what it has ready it had before.
LEMMA CallKeepsTraced ==
  ASSUME Shape, Traced, [Next]_vars, UNCHANGED cache,
         NEW b \in Briefings, NEW x \in Call, call' = [call EXCEPT ![b] = x],
         \A j \in Jobs : j[1] # b => job'[j] = job[j],
         \A i \in 1..Len(x.keys) : Ready(b, i)' =>
           Ready(b, i) /\ x.keys = call[b].keys /\ x.analyses = call[b].analyses
  PROVE  Traced'
<1>1. call'[b] = x /\ \A c \in Briefings : c # b => call'[c] = call[c]
  BY DEF Shape, TypeOK
<1>2. \A c \in Briefings : \A i \in 1..Len(call[c].keys) : i \in 1..MaxAnalysed
  <2>1. ASSUME NEW c \in Briefings
        PROVE  Len(call[c].keys) \in Nat /\ Len(call[c].keys) <= MaxAnalysed /\ MaxAnalysed \in Nat
    BY CallFacts, ConstantFacts DEF Shape, TypeOK, CallShape, LocalsShape
  <2>2. QED
    BY <2>1
<1>3. ASSUME NEW c \in Briefings, NEW i \in 1..Len(call'[c].keys), Ready(c, i)'
      PROVE  /\ i \in 1..Len(call[c].keys) /\ Ready(c, i)
             /\ call'[c].analyses[i] = call[c].analyses[i]
  <2>1. CASE c = b
    BY <1>1, <1>3, <2>1
  <2>2. CASE c # b
    <3>1. call'[c] = call[c] /\ i \in 1..Len(call[c].keys)
      BY <1>1, <1>3, <2>2
    <3>2. <<c, i>> \in Jobs /\ <<c, i>>[1] = c
      BY <1>2, <3>1, JobsFacts
    <3>3. job'[<<c, i>>] = job[<<c, i>>]
      BY <2>2, <3>2
    <3>4. QED
      BY <1>3, <3>1, <3>3 DEF Ready
  <2>3. QED
    BY <2>1, <2>2
<1>4. QED
  BY <1>3, TracedKept

LEMMA JobKeepsTraced ==
  ASSUME Shape, Traced, [Next]_vars, NEW j \in Jobs,
         NotFound(j) \/ Reused(j) \/ AskLLM(j) \/ Analysed(j) \/ AnalysisFails(j)
  PROVE  Traced'
<1>1. ASSUME NEW b \in Briefings, b = j[1], job[j].pc # "none"
      PROVE  FoundFor(call, Key(j), RefsOf(j))
  <2>1. call[b].at # "idle" /\ call[b].req.refs[Key(j)] = RefsOf(j)
    BY <1>1, RunningFacts DEF RefsOf
  <2>2. QED
    BY <2>1 DEF FoundFor
<1>2. j[1] \in Briefings
  BY JobsFacts
<1>3. CASE NotFound(j) \/ AnalysisFails(j)
  <2>1. PICK reason \in {"missing", "failed"} : Returns(j, Degraded(Key(j), reason))
    BY <1>3 DEF NotFound, AnalysisFails
  <2>2. job[j].pc # "none" /\ cache' = cache
    BY <1>3 DEF NotFound, AnalysisFails, Permitted
  <2>3. Key(j) \in Keys
    BY <2>2, RunningFacts
  <2>4. PICK a \in Analysis : a = Degraded(Key(j), reason) /\ a.kind = reason
    BY <2>3, DegradedFacts
  <2>5. TracedOf(call, a)
    BY <2>4 DEF TracedOf
  <2>6. QED
    BY <2>1, <2>2, <2>4, <2>5, ReturnsKeepsTraced
<1>4. CASE Reused(j)
  <2>1. job[j].pc # "none" /\ cache' = cache
    BY <1>4, ReusedFacts
  <2>2. PICK i \in DOMAIN cache, a \in Analysis :
          /\ Returns(j, a) /\ a.key = Key(j) /\ cache[i].analysis.key = Key(j)
          /\ a.refs = RefsOf(j) \/ a.refs = cache[i].analysis.refs
    BY <1>4, ReusedFacts
  <2>3. FoundFor(call, Key(j), RefsOf(j))
    BY <1>1, <1>2, <2>1
  <2>4. FoundFor(call, Key(j), cache[i].analysis.refs)
    BY <2>2 DEF Traced
  <2>5. TracedOf(call, a)
    BY <2>2, <2>3, <2>4 DEF TracedOf
  <2>6. QED
    BY <2>1, <2>2, <2>5, ReturnsKeepsTraced
<1>5. CASE Analysed(j)
  <2>1. job[j].pc = "llm"
    BY <1>5, AnalysedFacts
  <2>2. PICK a \in Analysis : a = Result(j) /\ a.key = Key(j) /\ a.refs = RefsOf(j)
    BY <2>1, ResultFacts DEF Result
  <2>3. FoundFor(call, a.key, a.refs)
    BY <1>1, <1>2, <2>1, <2>2
  <2>4. /\ Returns(j, a) /\ TracedOf(call, a)
        /\ \A i \in DOMAIN cache' : \/ cache'[i] = [key |-> CacheKey(j), analysis |-> a]
                                    \/ \E n \in DOMAIN cache : cache'[i] = cache[n]
    BY <1>5, <2>2, <2>3, AnalysedFacts DEF TracedOf
  <2>5. \A i \in DOMAIN cache' : \/ \E n \in DOMAIN cache : cache'[i] = cache[n]
                                 \/ FoundFor(call, cache'[i].analysis.key, cache'[i].analysis.refs)
    BY <2>3, <2>4
  <2>6. QED
    BY <2>1, <2>4, <2>5, ReturnsKeepsTraced
<1>6. CASE AskLLM(j)
  <2>1. PICK days : job' = [job EXCEPT ![j] = [pc |-> "llm", days |-> days]]
    BY <1>6 DEF AskLLM
  <2>2. call' = call /\ cache' = cache
    BY <1>6 DEF AskLLM
  <2>3. \A i : job'[i].pc = "done" => job[i].pc = "done"
    BY <2>1 DEF Shape, TypeOK
  <2>4. \A b \in Briefings : \A i \in 1..Len(call'[b].keys) : Ready(b, i)' => Ready(b, i)
    BY <2>2, <2>3 DEF Ready
  <2>5. QED
    BY <2>2, <2>4, TracedKept
<1>7. QED
  BY <1>3, <1>4, <1>5, <1>6

LEMMA CallStepKeepsTraced ==
  ASSUME Shape, Traced, [Next]_vars, NEW b \in Briefings,
         Begin(b) \/ Fetched(b) \/ FetchFails(b) \/ Ranked(b)
  PROVE  Traced'
<1>1. call \in [Briefings -> Call]
  BY DEF Shape, TypeOK
<1>2. CASE Begin(b)
  <2>1. PICK x \in Call : call' = [call EXCEPT ![b] = x] /\ x.at = "fetch" /\ job' = job /\ cache' = cache
    BY <1>2, BeginFacts
  <2>2. \A i \in 1..Len(x.keys) : ~Ready(b, i)'
    BY <1>1, <2>1 DEF Ready
  <2>3. QED
    BY <2>1, <2>2, CallKeepsTraced
<1>3. CASE Fetched(b) \/ FetchFails(b)
  <2>1. call[b].at = "fetch" /\ \E details \in Details, error \in Error : StartAnalysis(b, details, error)
    BY <1>3, FetchedFacts
  <2>2. PICK details \in Details, error \in Error : StartAnalysis(b, details, error)
    BY <2>1
  <2>3. /\ cache' = cache /\ \A j \in Jobs : j[1] # b => job'[j] = job[j]
        /\ \A i \in 1..MaxAnalysed : job'[<<b, i>>].pc \in {"sem", "none"}
    BY <2>1, <2>2, StartFacts
  <2>4. PICK x \in Call : call' = [call EXCEPT ![b] = x] /\ x.at = "analyse" /\ LocalsShape(x)
    BY <2>1, <2>2, StartFacts
  <2>5. Len(x.keys) \in Nat /\ Len(x.keys) <= MaxAnalysed /\ MaxAnalysed \in Nat
    BY <2>4, CallFacts, ConstantFacts DEF LocalsShape
  <2>6. \A i \in 1..Len(x.keys) : ~Ready(b, i)'
    <3>1. \A i \in 1..Len(x.keys) : job'[<<b, i>>].pc # "done"
      BY <2>3, <2>5
    <3>2. QED
      BY <1>1, <2>4, <3>1 DEF Ready
  <2>7. QED
    BY <2>3, <2>4, <2>6, CallKeepsTraced
<1>4. CASE Ranked(b)
  <2>1. /\ cache' = cache /\ \A j \in Jobs : j[1] # b => job'[j] = job[j]
        /\ \A i \in 1..Len(call[b].keys) : Ready(b, i)
    BY <1>4, RankedFacts
  <2>2. PICK x \in Call : /\ call' = [call EXCEPT ![b] = x] /\ x.keys = call[b].keys
                          /\ x.analyses = call[b].analyses
    BY <1>4, RankedFacts
  <2>3. QED
    BY <2>1, <2>2, CallKeepsTraced
<1>5. QED
  BY <1>2, <1>3, <1>4

LEMMA NextKeepsTraced == Shape /\ Traced /\ [Next]_vars => Traced'
<1> SUFFICES ASSUME Shape, Traced, [Next]_vars PROVE Traced'
  OBVIOUS
<1>1. CASE \E j \in Jobs : NotFound(j) \/ Reused(j) \/ AskLLM(j) \/ Analysed(j) \/ AnalysisFails(j)
  BY <1>1, JobKeepsTraced
<1>2. CASE \E b \in Briefings : Begin(b) \/ Fetched(b) \/ FetchFails(b) \/ Ranked(b)
  BY <1>2, CallStepKeepsTraced
<1>3. CASE \E b \in Briefings : \E i \in DOMAIN call[b].batches : BatchStep(b, i)
  <2>1. PICK b \in Briefings : \E i \in DOMAIN call[b].batches : BatchStep(b, i)
    BY <1>3
  <2>2. PICK i \in DOMAIN call[b].batches : BatchStep(b, i)
    BY <2>1
  <2>3. PICK batch \in Batch : Posting(b, i) /\ BatchGoes(b, i, batch)
    BY <2>2, BatchStepFacts
  <2>4. cache' = cache /\ job' = job
    BY <2>3, BatchGoesFacts
  <2>5. PICK x \in Call : call' = [call EXCEPT ![b] = x] /\ x.at = "fetch"
    BY <2>3, BatchGoesFacts
  <2>6. \A n \in 1..Len(x.keys) : ~Ready(b, n)'
    BY <2>5 DEF Ready, Shape, TypeOK
  <2>7. QED
    BY <2>4, <2>5, <2>6, CallKeepsTraced
<1>4. CASE (\E k \in Keys : Transition(k) \/ Edit(k)) \/ NextDay \/ UNCHANGED vars
  <2>1. UNCHANGED <<cache, job, call>>
    BY <1>4 DEF Transition, Edit, NextDay, vars
  <2>2. \A b \in Briefings : \A i \in 1..Len(call'[b].keys) : Ready(b, i)' => Ready(b, i)
    BY <2>1 DEF Ready
  <2>3. QED
    BY <2>1, <2>2, TracedKept
<1>5. QED
  BY <1>1, <1>2, <1>3, <1>4, NextCases

LEMMA TracedHolds == Spec => [](Shape /\ Traced)
<1>1. Shape /\ Traced /\ [Next]_vars => (Shape /\ Traced)'
  BY NextKeepsShape, NextKeepsTraced
<1>2. Init => Shape /\ Traced
  <2>1. Init => cache = <<>> /\ \A b \in Briefings : call[b].at = "idle"
    BY DEF Init, NoCall
  <2>2. Init => Traced
    BY <2>1 DEF Traced, Ready
  <2>3. QED
    BY <2>2, InitShape
<1>3. QED
  BY <1>1, <1>2, PTL DEF Spec

-----------------------------------------------------------------------------
(* Theorems of the second invariant.                                       *)

\* What the invariant says of the analyses of a finished briefing.
LEMMA ReportedFacts ==
  ASSUME Shape, Sound, NEW b \in Briefings, Done(b), NEW a \in ToSet(call[b].analyses)
  PROVE  /\ a \in Analysis /\ a.key \in Keys /\ \E n \in 1..Len(call[b].keys) : a.key = call[b].keys[n]
         /\ AnalysisSound(call[b], a, log, today, call[b].ranked)
         /\ Told(call[b], a.key, call[b].details[a.key], log)
         /\ Answered(call[b])
<1>1. CallSound(b) /\ call[b].at = "done"
  BY DEF Sound, Done
<1>2. PICK n \in 1..Len(call[b].keys) :
        a = call[b].analyses[n] /\ a.key = call[b].keys[n] /\ a \in Analysis /\ Ready(b, n)
  BY DoneFacts
<1>3. AnalysisSound(call[b], call[b].analyses[n], log, today, Until(call[b]))
  BY <1>1, <1>2 DEF CallSound
<1>4. AnalysisSound(call[b], a, log, today, call[b].ranked)
  BY <1>1, <1>2, <1>3 DEF Until
<1>5. a.key \in Keys
  BY <1>2 DEF Analysis
<1>6. QED
  BY <1>1, <1>2, <1>4, <1>5 DEF CallSound

\* issue_analyser.py:140-144: whatever its bound and however many jobs wait for the LLM at
\* once, the cache keeps its bound, holds no key twice, and what it holds under a changelog
\* is that changelog's.
THEOREM CacheHonest == Spec => []CacheIsHonest
<1>1. ASSUME Shape, Sound, NEW e \in ToSet(cache)
      PROVE  /\ e.key = <<e.analysis.key, e.analysis.stamp>>
             /\ e.analysis.days <= Spell(UpTo(e.analysis.stamp, log[e.analysis.key]), today)
  <2>1. PICK i \in DOMAIN cache : e = cache[i]
    BY <1>1 DEF ToSet
  <2>2. EntrySound(e.analysis, log, today)
    BY <1>1, <2>1 DEF Sound
  <2>3. e.key = <<e.analysis.key, e.analysis.stamp>>
    BY <1>1, <2>1 DEF Shape
  <2>4. QED
    BY <2>2, <2>3 DEF EntrySound, DaysSound
<1>2. Shape /\ Sound => CacheIsHonest
  BY <1>1 DEF CacheIsHonest, Sound
<1>3. QED
  BY <1>2, SoundHolds, PTL

\* issue_analyser.py:4, 130-138: what a briefing reports of an issue's status is that of the
\* changelog it fetched, and its blocked days are no more than there were.
THEOREM StatusFetched == Spec => []StatusAsFetched
<1>1. ASSUME Shape, Sound, NEW b \in Briefings, Done(b), NEW a \in WithFacts(b)
      PROVE  /\ call[b].details[a.key] # None /\ a.stamp = call[b].details[a.key].stamp
             /\ a.days <= Spell(UpTo(a.stamp, log[a.key]), today)
  <2>1. a \in ToSet(call[b].analyses) /\ a.kind = "analysed"
    BY <1>1 DEF WithFacts
  <2>2. AnalysisSound(call[b], a, log, today, call[b].ranked)
    BY <1>1, <2>1, ReportedFacts
  <2>3. QED
    BY <2>1, <2>2 DEF AnalysisSound, DaysSound
<1>2. Shape /\ Sound => StatusAsFetched
  BY <1>1 DEF StatusAsFetched
<1>3. QED
  BY <1>2, SoundHolds, PTL

\* issue_analyser.py:92: a briefing with force_refresh has no fact from before it began,
\* whatever was cached by then or by others meanwhile.
THEOREM RefreshedCurrent == Spec => []RefreshedIsCurrent
<1>1. ASSUME Shape, Sound, NEW b \in Briefings, Done(b), call[b].req.force, NEW a \in WithFacts(b)
      PROVE  LET since == call[b].since.issues[a.key]
             IN  /\ a.stamp >= since.stamp /\ a.edits >= since.edits
                 /\ \E day \in call[b].since.day..call[b].ranked :
                      a.days = DaysBlocked(UpTo(a.stamp, log[a.key]), day)
  <2>1. a \in ToSet(call[b].analyses) /\ a.kind = "analysed"
    BY <1>1 DEF WithFacts
  <2>2. /\ AnalysisSound(call[b], a, log, today, call[b].ranked)
        /\ Told(call[b], a.key, call[b].details[a.key], log)
    BY <1>1, <2>1, ReportedFacts
  <2>3. /\ call[b].details[a.key] # None /\ a.stamp = call[b].details[a.key].stamp
        /\ a.edits = call[b].details[a.key].edits
        /\ CountedBetween(a.days, UpTo(a.stamp, log[a.key]), call[b].since.day, call[b].ranked)
    BY <1>1, <2>1, <2>2 DEF AnalysisSound
  <2>4. call[b].since.issues[a.key].stamp <= a.stamp /\ call[b].since.issues[a.key].edits <= a.edits
    BY <1>1, <2>2, <2>3 DEF Told
  <2>5. a.stamp \in Nat /\ a.edits \in Edits /\ a.key \in Keys
    BY <1>1, <2>1, ReportedFacts DEF Analysis
  <2>6. call[b].since.issues[a.key].stamp \in Nat /\ call[b].since.issues[a.key].edits \in Edits
    BY <1>1, <2>5, DoneFacts, CallFacts
  <2>7. QED
    BY <2>3, <2>4, <2>5, <2>6 DEF CountedBetween
<1>2. Shape /\ Sound => RefreshedIsCurrent
  BY <1>1 DEF RefreshedIsCurrent
<1>3. QED
  BY <1>2, SoundHolds, PTL

\* issue_analyser.py:134-138: whatever is cached and whoever cached it, an issue that a
\* briefing finds pages for is reported with pages that some briefing found for it, and with
\* the briefing's own if it refreshes.
THEOREM ReferencesShown == Spec => []ReferencesAreShown
<1>1. ASSUME Shape, Sound, Traced, NEW b \in Briefings, Done(b), NEW a \in WithFacts(b)
      PROVE  /\ call[b].req.refs[a.key] # 0 => a.refs # 0
             /\ FoundFor(call, a.key, a.refs)
             /\ call[b].req.force => a.refs = call[b].req.refs[a.key]
  <2>1. a \in ToSet(call[b].analyses) /\ a.kind = "analysed"
    BY <1>1 DEF WithFacts
  <2>2. AnalysisSound(call[b], a, log, today, call[b].ranked)
    BY <1>1, <2>1, ReportedFacts
  <2>3. PICK n \in 1..Len(call[b].keys) : a = call[b].analyses[n] /\ Ready(b, n)
    BY <1>1, <2>1, DoneFacts
  <2>4. FoundFor(call, a.key, a.refs)
    BY <1>1, <2>1, <2>3 DEF Traced, TracedOf
  <2>5. QED
    BY <2>1, <2>2, <2>4 DEF AnalysisSound
<1>2. Shape /\ Sound /\ Traced => ReferencesAreShown
  BY <1>1 DEF ReferencesAreShown, FoundFor
<1>3. QED
  BY <1>2, SoundHolds, TracedHolds, PTL

\* atlasmind_lite_client.py:143-149, issue_analyser.py:89-91: whatever the size of the batches
\* and whichever of them fail or err, an issue without details is one that Jira does not know,
\* or the merged answer carries an error, if only an empty one.
THEOREM MissingExplained == Spec => []MissingIsExplained
<1>1. ASSUME Shape, Sound, NEW b \in Briefings, Done(b), NEW a \in ToSet(call[b].analyses), a.kind = "missing"
      PROVE  a.key \in Unknown \/ call[b].error # "none"
  <2>1. /\ AnalysisSound(call[b], a, log, today, call[b].ranked)
        /\ Answered(call[b])
    BY <1>1, ReportedFacts
  <2>2. PICK n \in 1..Len(call[b].keys) : a.key = call[b].keys[n]
    BY <1>1, ReportedFacts
  <2>3. call[b].details[a.key] = None
    BY <1>1, <2>1 DEF AnalysisSound
  <2>4. QED
    BY <1>1, <2>1, <2>2, <2>3 DEF Answered, Done
<1>2. Shape /\ Sound => MissingIsExplained
  BY <1>1 DEF MissingIsExplained
<1>3. QED
  BY <1>2, SoundHolds, PTL
=============================================================================
