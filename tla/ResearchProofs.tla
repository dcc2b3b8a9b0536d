--------------------------- MODULE ResearchProofs ---------------------------
(***************************************************************************)
(* What the runs find to hold of Research, as theorems of Spec, for any    *)
(* pages, texts, answers of the LLM, requests and interleavings.           *)
(*                                                                         *)
(* Four invariants carry them.  Shape: locks and permits are queues of     *)
(* just the jobs that need them, and a call's jobs are numbered as its     *)
(* pages are.  Ordered: the texts of a page are ordered as they came       *)
(* through its locks, wherever they are kept or on their way.  Sound: what *)
(* a call has at hand is what its response may say of it.  Backed: topics  *)
(* are of one briefing, and so is their evidence.  Lemmas say what         *)
(* a step of a job may do (Moves), and a step of a call or of a briefing   *)
(* (Aside), so that the later invariants do not look at actions again.     *)
(***************************************************************************)
EXTENDS Research, ArrangementsProofs

\* No page is in the list twice.
NoRepeats(hits) == \A i, n \in DOMAIN hits : hits[i].page = hits[n].page => i = n

LEMMA ConstantFacts ==
  /\ 1 \in Versions /\ Versions \subseteq Nat \ {0} /\ Absent \notin Versions
  /\ IsFiniteSet(Pages) /\ Cardinality(Pages) \in Nat /\ NoPage \notin Pages
  /\ Requests \subseteq Request /\ Searches \cap Topics = {}
  /\ MaxPagesTotal \in Nat /\ MaxConcurrent \in Nat /\ MaxExtractions \in Nat \ {0}
<1>1. PICK n \in Nat \ {0} : Versions = 1..n
  <2>1. PICK n : n = Cardinality(Versions)
    OBVIOUS
  <2>2. n \in Nat /\ Versions = 1..n /\ Versions # {}
    BY <2>1, ConfluenceAssumption, FS_CardinalityType
  <2>3. QED
    BY <2>2
<1>2. IsFiniteSet(Pages) /\ NoPage \notin Pages /\ Cardinality(Pages) \in Nat
  BY ConfluenceAssumption, FS_CardinalityType
<1>3. QED
  BY <1>1, <1>2, ResearchAssumption DEF Absent

-----------------------------------------------------------------------------
(* Lists of hits.                                                          *)

LEMMA UpToFacts ==
  ASSUME NEW S, NEW s \in Seq(S), NEW n \in Nat
  PROVE  /\ UpTo(n, s) \in Seq(S) /\ Len(UpTo(n, s)) = IF n < Len(s) THEN n ELSE Len(s)
         /\ \A i \in 1..Len(UpTo(n, s)) : i \in 1..Len(s) /\ UpTo(n, s)[i] = s[i]
  BY DEF UpTo

LEMMA UpToHits ==
  ASSUME NEW s \in Seq(Hit), NoRepeats(s), NEW n \in Nat
  PROVE  NoRepeats(UpTo(n, s))
  BY UpToFacts DEF NoRepeats

\* A list in which no page is twice is no longer than there are pages: jobs
\* can be numbered by them.
LEMMA AtMostAllPages ==
  ASSUME NEW s \in Seq(Hit), NoRepeats(s)
  PROVE  Len(s) <= Cardinality(Pages)
<1> DEFINE f == [i \in 1..Len(s) |-> s[i].page]
<1>1. f \in Injection(1..Len(s), Pages)
  <2>1. \A i \in 1..Len(s) : s[i] \in Hit
    OBVIOUS
  <2>2. f \in [1..Len(s) -> Pages]
    BY <2>1 DEF Hit
  <2>3. IsInjective(f)
    BY DEF IsInjective, NoRepeats
  <2>4. QED
    BY <2>2, <2>3 DEF Injection
<1> HIDE DEF f
<1>2. Cardinality(1..Len(s)) <= Cardinality(Pages)
  BY <1>1, ConstantFacts, FS_Injection
<1>3. Len(s) \in Nat
  OBVIOUS
<1>4. Cardinality(1..Len(s)) = Len(s)
  BY <1>3, IntervalSize
<1>5. QED
  BY <1>2, <1>4

LEMMA DedupedFacts ==
  ASSUME NEW s \in Seq(Hit)
  PROVE  /\ Deduped(s) \in Seq(Hit) /\ NoRepeats(Deduped(s))
         /\ \A n \in 1..Len(Deduped(s)) : \E i \in 1..Len(s) : Deduped(s)[n] = s[i]
<1> DEFINE I == {i \in DOMAIN s : \A n \in 1..i - 1 : s[n].page # s[i].page}
<1>1. I \in SUBSET (1..Len(s))
  OBVIOUS
<1>2. \A i, j \in I : i < j => s[i].page # s[j].page
  OBVIOUS
<1> HIDE DEF I
<1>3. /\ Picked(s, I) \in Seq(Hit)
      /\ \A n \in 1..Len(Picked(s, I)) : \E i \in I : Picked(s, I)[n] = s[i]
      /\ \A n, m \in 1..Len(Picked(s, I)) :
           n < m => \E i, j \in I : i < j /\ Picked(s, I)[n] = s[i] /\ Picked(s, I)[m] = s[j]
  BY <1>1, PickedFacts
<1>4. \A n, m \in 1..Len(Picked(s, I)) : n < m => Picked(s, I)[n].page # Picked(s, I)[m].page
  BY <1>2, <1>3
<1>5. NoRepeats(Picked(s, I))
  BY <1>3, <1>4 DEF NoRepeats
<1>6. Deduped(s) = Picked(s, I)
  BY DEF Deduped, I
<1>7. QED
  BY <1>1, <1>3, <1>5, <1>6

LEMMA PinsFacts ==
  ASSUME NEW urls \in Seq(Url)
  PROVE  /\ PinsOf(urls) \in Seq(Pages) /\ IsInjective(PinsOf(urls))
         /\ Len(PinsOf(urls)) \in Nat /\ Len(PinsOf(urls)) <= Cardinality(Pages)
<1> DEFINE ids == [i \in DOMAIN urls |-> PageId(urls[i])]
           I == {i \in DOMAIN ids : ids[i] # NoPage /\ \A n \in 1..i - 1 : ids[n] # ids[i]}
           pins == Picked(ids, I)
<1>1. \A i \in 1..Len(urls) : urls[i] \in Url
  OBVIOUS
<1>2. ids \in Seq(Pages \cup {NoPage}) /\ Len(ids) = Len(urls) /\ DOMAIN ids = 1..Len(urls)
  <2>1. \A i \in 1..Len(urls) : PageId(urls[i]) \in Pages \cup {NoPage}
    BY <1>1 DEF PageId, Url
  <2>2. DOMAIN urls = 1..Len(urls) /\ Len(urls) \in Nat
    OBVIOUS
  <2>3. QED
    BY <2>1, <2>2
<1>3. PinsOf(urls) = pins
  BY DEF PinsOf
<1> HIDE DEF ids
<1>4. I \in SUBSET (1..Len(ids)) /\ \A i \in I : ids[i] \in Pages
  <2>1. \A i \in 1..Len(ids) : ids[i] \in Pages \cup {NoPage}
    BY <1>2
  <2>2. DOMAIN ids = 1..Len(ids)
    BY <1>2
  <2>3. \A i \in I : i \in 1..Len(ids) /\ ids[i] # NoPage
    BY <2>2
  <2>4. QED
    BY <2>1, <2>3
<1>5. \A i, j \in I : i < j => ids[i] # ids[j]
  <2>1. \A i \in I : i \in Nat \ {0}
    BY <1>4
  <2>2. \A j \in I : \A n \in 1..j - 1 : ids[n] # ids[j]
    OBVIOUS
  <2>3. QED
    BY <2>1, <2>2
<1> HIDE DEF I
<1>6. /\ pins \in Seq(Pages \cup {NoPage})
      /\ \A n \in 1..Len(pins) : \E i \in I : pins[n] = ids[i]
      /\ \A n, m \in 1..Len(pins) :
           n < m => \E i, j \in I : i < j /\ pins[n] = ids[i] /\ pins[m] = ids[j]
  BY <1>2, <1>4, PickedFacts, ZenonT(60)
<1> HIDE DEF pins
<1>7. pins \in Seq(Pages)
  <2>1. \A n \in 1..Len(pins) : pins[n] \in Pages
    BY <1>4, <1>6
  <2>2. QED
    BY <1>6, <2>1
<1>8. \A n, m \in 1..Len(pins) : n < m => pins[n] # pins[m]
  BY <1>5, <1>6
<1>9. IsInjective(pins)
  BY <1>7, <1>8 DEF IsInjective
<1>10. pins \in Injection(1..Len(pins), Pages)
  BY <1>7, <1>9 DEF Injection
<1>11. Len(pins) <= Cardinality(Pages)
  <2>1. Cardinality(1..Len(pins)) <= Cardinality(Pages)
    BY <1>10, ConstantFacts, FS_Injection
  <2>2. Len(pins) \in Nat
    BY <1>7
  <2>3. QED
    BY <2>1, <2>2, IntervalSize
<1>12. QED
  BY <1>3, <1>7, <1>9, <1>11

\* Pinned pages first, then hits of other pages, up to the limit.
LEMMA MergedFacts ==
  ASSUME NEW pinned \in Seq(Hit), NoRepeats(pinned), NEW hits \in Seq(Hit), NoRepeats(hits),
         NEW limit \in Nat
  PROVE  LET merged == Merged(pinned, hits, limit)
         IN  /\ merged \in Seq(Hit) /\ NoRepeats(merged) /\ Len(merged) <= limit
             /\ \A n \in 1..Len(merged) :
                  \/ n <= Len(pinned) /\ merged[n] = pinned[n]
                  \/ /\ n > Len(pinned) /\ \E i \in 1..Len(hits) : merged[n] = hits[i]
                     /\ \A m \in 1..Len(pinned) : pinned[m].page # merged[n].page
             /\ Len(pinned) <= Len(merged) \/ Len(merged) = limit
<1> DEFINE I == {i \in DOMAIN hits : \A n \in DOMAIN pinned : pinned[n].page # hits[i].page}
           rest == Picked(hits, I)
           all == pinned \o rest
           merged == UpTo(limit, all)
<1>1. I \in SUBSET (1..Len(hits)) /\ \A i \in I : \A n \in 1..Len(pinned) : pinned[n].page # hits[i].page
  OBVIOUS
<1> HIDE DEF I
<1>2. /\ rest \in Seq(Hit)
      /\ \A n \in 1..Len(rest) : \E i \in I : rest[n] = hits[i]
      /\ \A n, m \in 1..Len(rest) :
           n < m => \E i, j \in I : i < j /\ rest[n] = hits[i] /\ rest[m] = hits[j]
  BY <1>1, PickedFacts, ZenonT(60)
<1> HIDE DEF rest
<1>3. \A n, m \in 1..Len(rest) : rest[n].page = rest[m].page => n = m
  <2>1. \A i, j \in I : i < j => hits[i].page # hits[j].page
    BY <1>1 DEF NoRepeats
  <2>2. \A n, m \in 1..Len(rest) : n < m => rest[n].page # rest[m].page
    BY <1>2, <2>1
  <2>3. \A n, m \in 1..Len(rest) : n = m \/ n < m \/ m < n
    BY <1>2
  <2>4. QED
    BY <2>2, <2>3
<1>4. \A n \in 1..Len(rest) : /\ \E i \in 1..Len(hits) : rest[n] = hits[i]
                              /\ \A m \in 1..Len(pinned) : pinned[m].page # rest[n].page
  BY <1>1, <1>2
<1>5. /\ all \in Seq(Hit) /\ Len(all) = Len(pinned) + Len(rest)
      /\ \A n \in 1..Len(all) :
           \/ n \in 1..Len(pinned) /\ all[n] = pinned[n]
           \/ n > Len(pinned) /\ n - Len(pinned) \in 1..Len(rest) /\ all[n] = rest[n - Len(pinned)]
  BY <1>2
<1> HIDE DEF all
<1>6. NoRepeats(all)
  <2> SUFFICES ASSUME NEW n \in 1..Len(all), NEW m \in 1..Len(all), all[n].page = all[m].page
               PROVE  n = m
    BY <1>5 DEF NoRepeats
  <2>1. CASE n \in 1..Len(pinned) /\ m \in 1..Len(pinned)
    BY <1>5, <2>1, SMTT(30) DEF NoRepeats
  <2>2. CASE n > Len(pinned) /\ m > Len(pinned)
    <3>1. n - Len(pinned) = m - Len(pinned)
      <4>1. /\ n - Len(pinned) \in 1..Len(rest) /\ all[n] = rest[n - Len(pinned)]
            /\ m - Len(pinned) \in 1..Len(rest) /\ all[m] = rest[m - Len(pinned)]
        <5>1. ~(n \in 1..Len(pinned)) /\ ~(m \in 1..Len(pinned))
          BY <2>2
        <5>2. QED
          BY <1>5, <5>1
      <4>2. QED
        BY <1>3, <4>1
    <3>2. n \in Nat /\ m \in Nat /\ Len(pinned) \in Nat
      BY <1>5
    <3>3. QED
      BY <3>1, <3>2
  <2>3. \/ n \in 1..Len(pinned) /\ all[n] = pinned[n]
        \/ n > Len(pinned) /\ n - Len(pinned) \in 1..Len(rest) /\ all[n] = rest[n - Len(pinned)]
    BY <1>5
  <2>4. \/ m \in 1..Len(pinned) /\ all[m] = pinned[m]
        \/ m > Len(pinned) /\ m - Len(pinned) \in 1..Len(rest) /\ all[m] = rest[m - Len(pinned)]
    BY <1>5
  <2>5. QED
    BY <1>4, <2>1, <2>2, <2>3, <2>4
<1>7. /\ merged \in Seq(Hit) /\ Len(merged) = IF limit < Len(all) THEN limit ELSE Len(all)
      /\ \A n \in 1..Len(merged) : n \in 1..Len(all) /\ merged[n] = all[n]
      /\ NoRepeats(merged)
  BY <1>5, <1>6, UpToFacts, UpToHits
<1>8. \A n \in 1..Len(merged) :
        \/ n <= Len(pinned) /\ merged[n] = pinned[n]
        \/ /\ n > Len(pinned) /\ \E i \in 1..Len(hits) : merged[n] = hits[i]
           /\ \A m \in 1..Len(pinned) : pinned[m].page # merged[n].page
  <2> SUFFICES ASSUME NEW n \in 1..Len(merged)
               PROVE  \/ n <= Len(pinned) /\ merged[n] = pinned[n]
                      \/ /\ n > Len(pinned) /\ \E i \in 1..Len(hits) : merged[n] = hits[i]
                         /\ \A m \in 1..Len(pinned) : pinned[m].page # merged[n].page
    OBVIOUS
  <2>1. n \in 1..Len(all) /\ merged[n] = all[n]
    BY <1>7
  <2> HIDE DEF merged
  <2>2. CASE n \in 1..Len(pinned) /\ all[n] = pinned[n]
    BY <2>1, <2>2
  <2>3. CASE n > Len(pinned) /\ n - Len(pinned) \in 1..Len(rest) /\ all[n] = rest[n - Len(pinned)]
    BY <1>4, <2>1, <2>3
  <2>4. QED
    BY <1>5, <2>1, <2>2, <2>3
<1>9. Len(all) \in Nat /\ Len(pinned) \in Nat /\ Len(rest) \in Nat
  BY <1>2, <1>5
<1>10. Merged(pinned, hits, limit) = merged
  BY DEF Merged, all, rest, I
<1> HIDE DEF merged
<1>11. QED
  BY <1>5, <1>7, <1>8, <1>9, <1>10

\* What a search returns was there, and as the query asked, when it was asked.
LEMMA AnswersFacts ==
  ASSUME NEW q, NEW at \in [Pages -> Versions], NEW hits \in Answers(q, at)
  PROVE  /\ hits \in Seq(Hit)
         /\ \A i \in 1..Len(hits) : /\ hits[i].stamp = at[hits[i].page]
                                    /\ Matches(q, hits[i].page, at[hits[i].page])
<1> DEFINE P == {p \in Pages : Matches(q, p, at[p])}
           H == {[page |-> p, stamp |-> at[p]] : p \in P}
<1>1. H \subseteq Hit /\ \A h \in H : h.stamp = at[h.page] /\ Matches(q, h.page, at[h.page])
  BY DEF Hit
<1>2. hits = <<>> \/ hits \in SetToSeqs(H)
  BY DEF Answers
<1> HIDE DEF H
<1>3. CASE hits \in SetToSeqs(H)
  <2>1. hits \in [1..Cardinality(H) -> H]
    BY <1>3 DEF SetToSeqs
  <2>2. IsFiniteSet(H) /\ Cardinality(H) \in Nat
    <3>1. IsFiniteSet(P)
      BY ConstantFacts, FS_Subset
    <3> DEFINE f == [p \in P |-> [page |-> p, stamp |-> at[p]]]
    <3>2. f \in Surjection(P, H)
      BY DEF Surjection, H
    <3> HIDE DEF f, P
    <3>3. QED
      BY <3>1, <3>2, FS_Surjection, FS_CardinalityType
  <2>3. hits \in Seq(H)
    BY <2>1, <2>2
  <2>4. \A i \in 1..Len(hits) : hits[i] \in H
    BY <2>3
  <2>5. hits \in Seq(Hit)
    BY <1>1, <2>3, <2>4
  <2>6. QED
    BY <1>1, <2>4, <2>5
<1>4. CASE hits = <<>>
  BY <1>4
<1>5. QED
  BY <1>2, <1>3, <1>4

\* A hit shows the version of now, and lies in the spaces asked for.
Fits(h, spaces, at) ==
  /\ h.stamp = at[h.page]
  /\ spaces = {} \/ SpaceOf[h.page] \in spaces

LEMMA FoundFacts ==
  ASSUME NEW intent, NEW spaces, NEW at \in [Pages -> Versions],
         NEW found \in Found(intent, spaces, at)
  PROVE  /\ found \in Seq(Hit) /\ NoRepeats(found)
         /\ \A i \in 1..Len(found) : Fits(found[i], spaces, at)
<1> DEFINE q == Variants(intent, spaces)
<1>1. \A n \in 1..3 : q[n].spaces = spaces
  <2>1. TitleReview(spaces).spaces = spaces
    BY DEF TitleReview, Query
  <2>2. TitleVersion(intent, spaces).spaces = spaces
    BY DEF TitleVersion, Query
  <2>3. TextVersion(intent, spaces).spaces = spaces
    <3> DEFINE short == Subject(intent).short
               keywords == ToSet(UpTo(3, intent.keywords))
    <3>1. \A w : [Query(spaces) EXCEPT !.text = w, !.recent = TRUE].spaces = spaces
      BY DEF Query
    <3>2. \A w : [Query(spaces) EXCEPT !.anyOf = w].spaces = spaces
      BY DEF Query
    <3>3. TextVersion(intent, spaces) =
            CASE short # NoWord -> [Query(spaces) EXCEPT !.text = {short}, !.recent = TRUE]
              [] short = NoWord /\ keywords # {} -> [Query(spaces) EXCEPT !.anyOf = keywords]
              [] OTHER -> TitleReview(spaces)
      BY DEF TextVersion
    <3> HIDE DEF short, keywords
    <3>4. CASE short # NoWord
      BY <3>1, <3>3, <3>4
    <3>5. CASE short = NoWord /\ keywords # {}
      BY <3>2, <3>3, <3>5
    <3>6. CASE short = NoWord /\ keywords = {}
      BY <2>1, <3>3, <3>6
    <3>7. QED
      BY <3>4, <3>5, <3>6
  <2>4. q[1] = TitleReview(spaces) /\ q[2] = TitleVersion(intent, spaces) /\ q[3] = TextVersion(intent, spaces)
    BY DEF Variants
  <2> HIDE DEF q
  <2>5. QED
    BY <2>1, <2>2, <2>3, <2>4
<1>2. ASSUME NEW n \in 1..3, NEW a \in Answers(q[n], at)
      PROVE  a \in Seq(Hit) /\ \A i \in 1..Len(a) : Fits(a[i], spaces, at)
  BY <1>1, AnswersFacts DEF Matches, Fits
<1> HIDE DEF q
<1>3. ASSUME NEW a \in Seq(Hit), NEW b \in Seq(Hit),
             \A i \in 1..Len(a) : Fits(a[i], spaces, at), \A i \in 1..Len(b) : Fits(b[i], spaces, at)
      PROVE  /\ Deduped(a \o b) \in Seq(Hit) /\ NoRepeats(Deduped(a \o b))
             /\ \A i \in 1..Len(Deduped(a \o b)) : Fits(Deduped(a \o b)[i], spaces, at)
  <2>1. a \o b \in Seq(Hit) /\ \A i \in 1..Len(a \o b) : Fits((a \o b)[i], spaces, at)
    <3>1. \A i \in 1..Len(a \o b) : \/ i \in 1..Len(a) /\ (a \o b)[i] = a[i]
                                    \/ i - Len(a) \in 1..Len(b) /\ (a \o b)[i] = b[i - Len(a)]
      OBVIOUS
    <3>2. QED
      BY <1>3, <3>1
  <2>2. QED
    BY <2>1, DedupedFacts
<1>4. PICK a \in Answers(q[1], at), b \in Answers(q[2], at), c \in Answers(q[3], at) :
        found = Deduped(Deduped(a \o b) \o c)
  <2> DEFINE Both(A, B) == {Deduped(a \o b) : a \in A, b \in B}
  <2>1. found \in Both(Both(Answers(q[1], at), Answers(q[2], at)), Answers(q[3], at))
    BY DEF Found, q
  <2>2. PICK x \in Both(Answers(q[1], at), Answers(q[2], at)), c \in Answers(q[3], at) :
          found = Deduped(x \o c)
    BY <2>1
  <2>3. PICK a \in Answers(q[1], at), b \in Answers(q[2], at) : x = Deduped(a \o b)
    OBVIOUS
  <2>4. QED
    BY <2>2, <2>3
<1>5. PICK x : x = Deduped(a \o b)
  OBVIOUS
<1>6. x \in Seq(Hit) /\ \A i \in 1..Len(x) : Fits(x[i], spaces, at)
  <2>1. /\ a \in Seq(Hit) /\ \A i \in 1..Len(a) : Fits(a[i], spaces, at)
        /\ b \in Seq(Hit) /\ \A i \in 1..Len(b) : Fits(b[i], spaces, at)
    BY <1>2
  <2>2. QED
    BY <1>3, <1>5, <2>1
<1>7. c \in Seq(Hit) /\ \A i \in 1..Len(c) : Fits(c[i], spaces, at)
  BY <1>2
<1>8. QED
  BY <1>3, <1>4, <1>5, <1>6, <1>7

-----------------------------------------------------------------------------
(* What one step of a job may do.                                          *)

Entries == [key : ExtractionKeys, text : Versions]

\* The LRU cache is a map.
OneEntryEach == \A i, n \in DOMAIN extracted : extracted[i].key = extracted[n].key => i = n

JobShape(j) ==
  /\ job[j].pc # "none" => job[j].page \in Pages /\ (job[j].pin \/ job[j].stamp \in Versions)
  /\ job[j].pc \in {"sem", "key", "llm"} => ~job[j].pin
  /\ job[j].pc \in {"fetch", "key", "llm", "done"} => job[j].text \in Versions
  /\ job[j].pc = "done" => job[j].stamp \in Versions

Goes(j, pc, stamp, text) ==
  /\ job' \in [Jobs -> Job]
  /\ \A i \in Jobs : i # j => job'[i] = job[i]
  /\ job'[j].pc = pc /\ job'[j].stamp = stamp /\ job'[j].text = text
  /\ job'[j].page = job[j].page /\ job'[j].pin = job[j].pin

PageLockMoves(j) ==
  LET in == {"page", "fetch"}
      p  == job[j].page
  IN  \/ job[j].pc \notin in /\ job'[j].pc \notin in /\ pageLock' = pageLock
      \/ /\ job[j].pc = "sem" /\ job'[j].pc = "page"
         /\ pageLock' = [pageLock EXCEPT ![p] = Append(@, j)]
      \/ /\ job[j].pc = "page" /\ Holds(pageLock[p], j) /\ job'[j].pc = "fetch"
         /\ pageLock' = pageLock
      \/ /\ job[j].pc \in in /\ (job[j].pc = "page" => Holds(pageLock[p], j))
         /\ job'[j].pc \notin in /\ PageReleased(p)

KeyLockMoves(j) ==
  LET in == {"key", "llm"}
      k  == Key(j)
  IN  \/ job[j].pc \notin in /\ job'[j].pc \notin in /\ keyLock' = keyLock
      \/ /\ job[j].pc \in {"sem", "page", "fetch"} /\ ~job[j].pin /\ job'[j].pc = "key"
         /\ keyLock' = [keyLock EXCEPT ![k] = Append(@, j)]
      \/ /\ job[j].pc = "key" /\ Holds(keyLock[k], j) /\ job'[j].pc = "llm"
         /\ keyLock' = keyLock
      \/ /\ job[j].pc \in in /\ (job[j].pc = "key" => Holds(keyLock[k], j))
         /\ job'[j].pc \in {"done", "failed"} /\ KeyReleased(k)

SemMoves(j) ==
  \/ /\ job'[j].pc \in {"page", "fetch", "key", "llm"}
     /\ (job[j].pc = "sem" => Permitted(j)) /\ sem' = sem
  \/ job'[j].pc \in {"done", "failed"} /\ sem' = RemoveFirst(sem, j)
  \/ job'[j].pc = "done" /\ job[j].pin /\ sem' = sem

CacheMoves(j) ==
  LET p == job[j].page
  IN  \/ cached' = cached /\ job[j].pc # "fetch"
      \/ job[j].pc = "fetch" /\ job'[j].pc = "failed" /\ cached' = cached
      \/ /\ job[j].pc \in {"sem", "page"} /\ job'[j].pc = "failed"
         /\ cached' = [cached EXCEPT ![p] = Absent]
      \/ job[j].pc = "fetch" /\ cached' = [cached EXCEPT ![p] = job[j].text]

ExtractedMoves(j) ==
  \/ extracted' = extracted /\ ~(job[j].pc = "llm" /\ job'[j].pc = "done")
  \/ \E e \in Entry(Key(j)) : ~MustExtract(j) /\ Put(e.key, e.text) /\ job'[j].pc = "done"
  \/ job[j].pc = "llm" /\ job'[j].pc = "done" /\ Put(Key(j), job[j].text)

TextMoves(j) ==
  LET x == job[j]
      y == job'[j]
  IN  /\ y.pc = "fetch" => (x.pin \/ MustFetch(j)) /\ y.text = version[x.page]
      /\ y.pc = "key" => /\ MustExtract(j)
                         /\ \/ x.pc = "fetch" /\ y.text = x.text
                            \/ x.pc \in {"sem", "page"} /\ ~MustFetch(j) /\ y.text = cached[x.page]
      /\ y.pc = "llm" => x.pc = "key" /\ MustExtract(j) /\ y.text = x.text
      /\ y.pc = "done" => \/ x.pc = "llm" /\ y.text = x.text
                          \/ x.pc = "fetch" /\ x.pin /\ y.text = x.text
                          \/ /\ ~x.pin /\ ~MustExtract(j)
                             /\ \E e \in Entry(Key(j)) : y.text = e.text
      /\ y.stamp = IF x.pin /\ y.pc = "done" THEN x.text ELSE x.stamp

\* One step of one job, whichever it is: where the job goes, what becomes of its
\* locks, its permit and the caches, and where its text is from.
Moves(j) ==
  /\ job[j].pc \in {"sem", "page", "fetch", "key", "llm"}
  /\ job'[j].pc \in {"page", "fetch", "key", "llm", "done", "failed"}
  /\ job[j].pin => job'[j].pc \in {"fetch", "done", "failed"}
  /\ Goes(j, job'[j].pc, job'[j].stamp, job'[j].text)
  /\ PageLockMoves(j) /\ KeyLockMoves(j) /\ SemMoves(j)
  /\ CacheMoves(j) /\ ExtractedMoves(j) /\ TextMoves(j)

LEMMA JobGoesFacts ==
  ASSUME job \in [Jobs -> Job], NEW j \in Jobs, NEW text \in Text0,
         NEW pc \in {"none", "sem", "page", "fetch", "key", "llm", "done", "failed"},
         JobGoes(j, pc, text)
  PROVE  Goes(j, pc, job[j].stamp, text)
<1>1. job[j] \in Job
  OBVIOUS
<1>2. job' = [job EXCEPT ![j] = [job[j] EXCEPT !.pc = pc, !.text = text]]
  BY DEF JobGoes
<1>3. [job[j] EXCEPT !.pc = pc, !.text = text] \in Job
  BY <1>1 DEF Job
<1>4. QED
  BY <1>1, <1>2, <1>3 DEF Goes, Job

LEMMA EntryFacts ==
  ASSUME TypeOK, NEW k, NEW e \in Entry(k)
  PROVE  e \in Entries /\ e \in ToSet(extracted) /\ e.key = k /\ e.text \in Versions
<1>1. extracted \in Seq(Entries)
  BY DEF TypeOK, Entries
<1>2. e \in ToSet(extracted) /\ e.key = k
  BY DEF Entry
<1>3. e \in Entries
  BY <1>1, <1>2 DEF ToSet
<1>4. QED
  BY <1>2, <1>3 DEF Entries

LEMMA ReuseMoves ==
  ASSUME TypeOK, NEW j \in Jobs, Reuse(j)
  PROVE  /\ ~MustExtract(j) /\ sem' = RemoveFirst(sem, j)
         /\ \E e \in Entry(Key(j)) : /\ e.text \in Versions /\ Put(e.key, e.text)
                                     /\ Goes(j, "done", job[j].stamp, e.text)
<1>1. ~MustExtract(j)
  BY DEF Reuse
<1>2. PICK e \in Entry(Key(j)) : Put(e.key, e.text) /\ JobEnds(j, "done", e.text)
  BY DEF Reuse
<1>3. e.text \in Versions
  BY EntryFacts
<1>4. JobGoes(j, "done", e.text) /\ sem' = RemoveFirst(sem, j)
  BY <1>2 DEF JobEnds
<1>5. job \in [Jobs -> Job] /\ e.text \in Text0
  BY <1>3 DEF TypeOK, Text0
<1>6. Goes(j, "done", job[j].stamp, e.text)
  BY <1>4, <1>5, JobGoesFacts
<1>7. QED
  BY <1>1, <1>2, <1>3, <1>4, <1>6

LEMMA ExtractMoves ==
  ASSUME TypeOK, NEW j \in Jobs, NEW v \in Versions, Extract(j, v), ~job[j].pin,
         job[j].pc \in {"sem", "page", "fetch"}, job[j].pc = "sem" => Permitted(j)
  PROVE  /\ job'[j].pc \in {"key", "done"}
         /\ Goes(j, job'[j].pc, job'[j].stamp, job'[j].text) /\ job'[j].stamp = job[j].stamp
         /\ KeyLockMoves(j) /\ SemMoves(j) /\ ExtractedMoves(j)
         /\ job'[j].pc = "key" => MustExtract(j) /\ job'[j].text = v
         /\ job'[j].pc = "done" => /\ ~MustExtract(j)
                                   /\ \E e \in Entry(Key(j)) : job'[j].text = e.text
<1>1. CASE Reuse(j) /\ UNCHANGED keyLock
  <2>1. ~MustExtract(j) /\ sem' = RemoveFirst(sem, j)
    BY <1>1, ReuseMoves
  <2>2. PICK e \in Entry(Key(j)) : Put(e.key, e.text) /\ Goes(j, "done", job[j].stamp, e.text)
    BY <1>1, ReuseMoves
  <2>3. job'[j].pc = "done" /\ job'[j].text = e.text /\ job'[j].stamp = job[j].stamp
    BY <2>2 DEF Goes
  <2>4. KeyLockMoves(j)
    BY <1>1, <2>3 DEF KeyLockMoves
  <2>5. SemMoves(j) /\ ExtractedMoves(j)
    BY <2>1, <2>2, <2>3 DEF SemMoves, ExtractedMoves
  <2>6. QED
    BY <2>1, <2>2, <2>3, <2>4, <2>5
<1>2. CASE /\ MustExtract(j) /\ JobGoes(j, "key", v)
           /\ keyLock' = [keyLock EXCEPT ![Key(j)] = Append(@, j)]
           /\ UNCHANGED <<extracted, sem>>
  <2>1. job \in [Jobs -> Job] /\ v \in Text0
    BY DEF TypeOK, Text0
  <2>2. Goes(j, "key", job[j].stamp, v)
    BY <1>2, <2>1, JobGoesFacts
  <2>3. job'[j].pc = "key" /\ job'[j].text = v /\ job'[j].stamp = job[j].stamp
    BY <2>2 DEF Goes
  <2>4. KeyLockMoves(j)
    BY <1>2, <2>3 DEF KeyLockMoves
  <2>5. SemMoves(j) /\ ExtractedMoves(j)
    BY <1>2, <2>3 DEF SemMoves, ExtractedMoves
  <2>6. QED
    BY <1>2, <2>2, <2>3, <2>4, <2>5
<1>3. QED
  BY <1>1, <1>2 DEF Extract

LEMMA ReadCachedMoves ==
  ASSUME TypeOK, NEW j \in Jobs, JobShape(j), ReadCached(j), ~job[j].pin,
         job[j].pc \in {"sem", "page"}, job[j].pc = "sem" => Permitted(j)
  PROVE  /\ job'[j].pc \in {"key", "done", "failed"}
         /\ Goes(j, job'[j].pc, job'[j].stamp, job'[j].text)
         /\ KeyLockMoves(j) /\ SemMoves(j) /\ CacheMoves(j) /\ ExtractedMoves(j) /\ TextMoves(j)
<1> DEFINE p == job[j].page
<1>1. ~MustFetch(j)
  BY DEF ReadCached
<1>2. p \in Pages /\ cached[p] \in Versions
  BY <1>1 DEF JobShape, MustFetch, TypeOK, Text0
<1>3. CASE Extract(j, cached[p]) /\ UNCHANGED cached
  <2>1. /\ job'[j].pc \in {"key", "done"}
        /\ Goes(j, job'[j].pc, job'[j].stamp, job'[j].text) /\ job'[j].stamp = job[j].stamp
        /\ KeyLockMoves(j) /\ SemMoves(j) /\ ExtractedMoves(j)
        /\ job'[j].pc = "key" => MustExtract(j) /\ job'[j].text = cached[p]
        /\ job'[j].pc = "done" => /\ ~MustExtract(j)
                                  /\ \E e \in Entry(Key(j)) : job'[j].text = e.text
    BY <1>2, <1>3, ExtractMoves
  <2>2. CacheMoves(j)
    BY <1>3 DEF CacheMoves
  <2>3. TextMoves(j)
    BY <1>1, <2>1 DEF TextMoves
  <2>4. QED
    BY <2>1, <2>2, <2>3
<1>4. CASE /\ JobEnds(j, "failed", Absent) /\ cached' = [cached EXCEPT ![p] = Absent]
           /\ UNCHANGED <<extracted, keyLock>>
  <2>1. JobGoes(j, "failed", Absent) /\ sem' = RemoveFirst(sem, j)
    BY <1>4 DEF JobEnds
  <2>2. job \in [Jobs -> Job] /\ Absent \in Text0
    BY DEF TypeOK, Text0
  <2>3. Goes(j, "failed", job[j].stamp, Absent)
    BY <2>1, <2>2, JobGoesFacts
  <2>4. job'[j].pc = "failed" /\ job'[j].stamp = job[j].stamp /\ job'[j].text = Absent
    BY <2>3 DEF Goes
  <2>5. KeyLockMoves(j) /\ SemMoves(j) /\ CacheMoves(j)
    BY <1>4, <2>1, <2>4 DEF KeyLockMoves, SemMoves, CacheMoves
  <2>6. ExtractedMoves(j) /\ TextMoves(j)
    BY <1>4, <2>4 DEF ExtractedMoves, TextMoves
  <2>7. QED
    BY <2>3, <2>4, <2>5, <2>6
<1>5. QED
  BY <1>3, <1>4 DEF ReadCached

\* Every handler of a job is such a step.
LEMMA JobStepMoves ==
  ASSUME TypeOK, NEW j \in Jobs, JobShape(j), JobStep(j)
  PROVE  Moves(j) /\ UNCHANGED <<version, call, briefing>>
<1>0. /\ job \in [Jobs -> Job] /\ Absent \in Text0
      /\ \A p \in Pages : version[p] \in Versions
  BY DEF TypeOK, Text0
<1>1. ASSUME NEW pc \in {"none", "sem", "page", "fetch", "key", "llm", "done", "failed"},
             NEW text \in Text0, JobGoes(j, pc, text)
      PROVE  /\ Goes(j, job'[j].pc, job'[j].stamp, job'[j].text)
             /\ job'[j].pc = pc /\ job'[j].text = text /\ job'[j].stamp = job[j].stamp
  <2>1. Goes(j, pc, job[j].stamp, text)
    BY <1>0, <1>1, JobGoesFacts
  <2>2. QED
    BY <2>1 DEF Goes
<1>2. CASE EnterPage(j)
  <2>1. job[j].pc = "sem" /\ Permitted(j) /\ ~job[j].pin /\ UNCHANGED <<version, call, briefing>>
    BY <1>2 DEF EnterPage, JobShape
  <2>2. CASE ReadCached(j) /\ UNCHANGED pageLock
    <3>1. /\ job'[j].pc \in {"key", "done", "failed"}
          /\ Goes(j, job'[j].pc, job'[j].stamp, job'[j].text)
          /\ KeyLockMoves(j) /\ SemMoves(j) /\ CacheMoves(j) /\ ExtractedMoves(j) /\ TextMoves(j)
      BY <2>1, <2>2, ReadCachedMoves
    <3>2. PageLockMoves(j)
      BY <2>1, <2>2, <3>1 DEF PageLockMoves
    <3>3. QED
      BY <2>1, <3>1, <3>2 DEF Moves
  <2>3. CASE /\ MustFetch(j) /\ JobGoes(j, "page", Absent)
             /\ pageLock' = [pageLock EXCEPT ![job[j].page] = Append(@, j)]
             /\ UNCHANGED <<cached, extracted, keyLock, sem>>
    <3>1. /\ Goes(j, job'[j].pc, job'[j].stamp, job'[j].text)
          /\ job'[j].pc = "page" /\ job'[j].text = Absent /\ job'[j].stamp = job[j].stamp
      BY <1>0, <1>1, <2>3
    <3>2. PageLockMoves(j) /\ KeyLockMoves(j) /\ SemMoves(j)
      BY <2>1, <2>3, <3>1 DEF PageLockMoves, KeyLockMoves, SemMoves
    <3>3. CacheMoves(j) /\ ExtractedMoves(j) /\ TextMoves(j)
      BY <2>1, <2>3, <3>1 DEF CacheMoves, ExtractedMoves, TextMoves
    <3>4. QED
      BY <2>1, <3>1, <3>2, <3>3 DEF Moves
  <2>4. QED
    BY <1>2, <2>2, <2>3 DEF EnterPage
<1>3. CASE PageTurn(j)
  <2>1. job[j].pc = "page" /\ Holds(pageLock[job[j].page], j) /\ UNCHANGED <<version, call, briefing>>
    BY <1>3 DEF PageTurn
  <2>2. CASE ~job[j].pin /\ ReadCached(j) /\ PageReleased(job[j].page)
    <3>1. /\ job'[j].pc \in {"key", "done", "failed"}
          /\ Goes(j, job'[j].pc, job'[j].stamp, job'[j].text)
          /\ KeyLockMoves(j) /\ SemMoves(j) /\ CacheMoves(j) /\ ExtractedMoves(j) /\ TextMoves(j)
      BY <2>1, <2>2, ReadCachedMoves
    <3>2. PageLockMoves(j)
      BY <2>1, <2>2, <3>1 DEF PageLockMoves
    <3>3. QED
      BY <2>1, <2>2, <3>1, <3>2 DEF Moves
  <2>3. CASE /\ job[j].pin \/ MustFetch(j)
             /\ JobGoes(j, "fetch", version[job[j].page])
             /\ UNCHANGED <<cached, extracted, keyLock, sem, pageLock>>
    <3>0. version[job[j].page] \in Text0
      BY <1>0, <2>1 DEF JobShape, Text0
    <3>1. /\ Goes(j, job'[j].pc, job'[j].stamp, job'[j].text)
          /\ job'[j].pc = "fetch" /\ job'[j].text = version[job[j].page] /\ job'[j].stamp = job[j].stamp
      BY <1>1, <2>3, <3>0
    <3>2. PageLockMoves(j) /\ KeyLockMoves(j) /\ SemMoves(j)
      BY <2>1, <2>3, <3>1 DEF PageLockMoves, KeyLockMoves, SemMoves
    <3>3. CacheMoves(j) /\ ExtractedMoves(j) /\ TextMoves(j)
      BY <2>1, <2>3, <3>1 DEF CacheMoves, ExtractedMoves, TextMoves
    <3>4. QED
      BY <2>1, <3>1, <3>2, <3>3 DEF Moves
  <2>4. QED
    BY <1>3, <2>2, <2>3 DEF PageTurn
<1>4. CASE PageStored(j)
  <2>1. /\ job[j].pc = "fetch" /\ cached' = [cached EXCEPT ![job[j].page] = job[j].text]
        /\ PageReleased(job[j].page) /\ UNCHANGED <<version, call, briefing>>
    BY <1>4 DEF PageStored
  <2>2. job[j].text \in Versions
    BY <2>1 DEF JobShape
  <2>3. CASE /\ job[j].pin /\ job' = [job EXCEPT ![j].pc = "done", ![j].stamp = job[j].text]
             /\ UNCHANGED <<extracted, keyLock, sem>>
    <3>1. job' = [job EXCEPT ![j] = [job[j] EXCEPT !.pc = "done", !.stamp = job[j].text]]
      BY <2>3
    <3>2. [job[j] EXCEPT !.pc = "done", !.stamp = job[j].text] \in Job /\ job[j] \in Job
      BY <1>0, <2>2 DEF Job, Text0
    <3>3. /\ Goes(j, job'[j].pc, job'[j].stamp, job'[j].text)
          /\ job'[j].pc = "done" /\ job'[j].stamp = job[j].text /\ job'[j].text = job[j].text
      BY <1>0, <3>1, <3>2 DEF Goes, Job
    <3>4. PageLockMoves(j) /\ KeyLockMoves(j) /\ SemMoves(j)
      BY <2>1, <2>3, <3>3 DEF PageLockMoves, KeyLockMoves, SemMoves
    <3>5. CacheMoves(j) /\ ExtractedMoves(j) /\ TextMoves(j)
      BY <2>1, <2>3, <3>3 DEF CacheMoves, ExtractedMoves, TextMoves
    <3>6. QED
      BY <2>1, <3>3, <3>4, <3>5 DEF Moves
  <2>4. CASE ~job[j].pin /\ Extract(j, job[j].text)
    <3>1. /\ job'[j].pc \in {"key", "done"}
          /\ Goes(j, job'[j].pc, job'[j].stamp, job'[j].text) /\ job'[j].stamp = job[j].stamp
          /\ KeyLockMoves(j) /\ SemMoves(j) /\ ExtractedMoves(j)
          /\ job'[j].pc = "key" => MustExtract(j) /\ job'[j].text = job[j].text
          /\ job'[j].pc = "done" => /\ ~MustExtract(j)
                                    /\ \E e \in Entry(Key(j)) : job'[j].text = e.text
      BY <2>1, <2>2, <2>4, ExtractMoves
    <3>2. PageLockMoves(j) /\ CacheMoves(j) /\ TextMoves(j)
      BY <2>1, <2>4, <3>1 DEF PageLockMoves, CacheMoves, TextMoves
    <3>3. QED
      BY <2>1, <2>4, <3>1, <3>2 DEF Moves
  <2>5. QED
    BY <1>4, <2>3, <2>4 DEF PageStored
<1>5. CASE PageFails(j)
  <2>1. /\ job[j].pc = "fetch" /\ JobGoes(j, "failed", Absent) /\ sem' = RemoveFirst(sem, j)
        /\ PageReleased(job[j].page) /\ UNCHANGED <<version, cached, extracted, keyLock, call, briefing>>
    BY <1>5 DEF PageFails, JobEnds
  <2>2. /\ Goes(j, job'[j].pc, job'[j].stamp, job'[j].text)
        /\ job'[j].pc = "failed" /\ job'[j].stamp = job[j].stamp
    BY <1>0, <1>1, <2>1
  <2>3. PageLockMoves(j) /\ KeyLockMoves(j) /\ SemMoves(j)
    BY <2>1, <2>2 DEF PageLockMoves, KeyLockMoves, SemMoves
  <2>4. CacheMoves(j) /\ ExtractedMoves(j) /\ TextMoves(j)
    BY <2>1, <2>2 DEF CacheMoves, ExtractedMoves, TextMoves
  <2>5. QED
    BY <2>1, <2>2, <2>3, <2>4 DEF Moves
<1>6. CASE KeyTurn(j)
  <2>1. /\ job[j].pc = "key" /\ Holds(keyLock[Key(j)], j) /\ ~job[j].pin
        /\ job[j].text \in Versions /\ UNCHANGED <<version, cached, pageLock, call, briefing>>
    BY <1>6 DEF KeyTurn, JobShape
  <2>2. CASE Reuse(j) /\ KeyReleased(Key(j))
    <3>1. ~MustExtract(j) /\ sem' = RemoveFirst(sem, j)
      BY <2>2, ReuseMoves
    <3>2. PICK e \in Entry(Key(j)) : Put(e.key, e.text) /\ Goes(j, "done", job[j].stamp, e.text)
      BY <2>2, ReuseMoves
    <3>3. job'[j].pc = "done" /\ job'[j].text = e.text /\ job'[j].stamp = job[j].stamp
      BY <3>2 DEF Goes
    <3>4. PageLockMoves(j) /\ KeyLockMoves(j) /\ SemMoves(j)
      BY <2>1, <2>2, <3>1, <3>3 DEF PageLockMoves, KeyLockMoves, SemMoves
    <3>5. CacheMoves(j) /\ ExtractedMoves(j) /\ TextMoves(j)
      BY <2>1, <3>1, <3>2, <3>3 DEF CacheMoves, ExtractedMoves, TextMoves
    <3>6. QED
      BY <2>1, <3>2, <3>3, <3>4, <3>5 DEF Moves
  <2>3. CASE MustExtract(j) /\ JobGoes(j, "llm", job[j].text) /\ UNCHANGED <<extracted, sem, keyLock>>
    <3>1. /\ Goes(j, job'[j].pc, job'[j].stamp, job'[j].text)
          /\ job'[j].pc = "llm" /\ job'[j].text = job[j].text /\ job'[j].stamp = job[j].stamp
      BY <1>1, <2>1, <2>3 DEF Text0
    <3>2. PageLockMoves(j) /\ KeyLockMoves(j) /\ SemMoves(j)
      BY <2>1, <2>3, <3>1 DEF PageLockMoves, KeyLockMoves, SemMoves
    <3>3. CacheMoves(j) /\ ExtractedMoves(j) /\ TextMoves(j)
      BY <2>1, <2>3, <3>1 DEF CacheMoves, ExtractedMoves, TextMoves
    <3>4. QED
      BY <2>1, <3>1, <3>2, <3>3 DEF Moves
  <2>4. QED
    BY <1>6, <2>2, <2>3 DEF KeyTurn
<1>7. CASE Extracted(j)
  <2>1. /\ job[j].pc = "llm" /\ ~job[j].pin /\ job[j].text \in Versions
        /\ Put(Key(j), job[j].text) /\ JobGoes(j, "done", job[j].text) /\ sem' = RemoveFirst(sem, j)
        /\ KeyReleased(Key(j)) /\ UNCHANGED <<version, cached, pageLock, call, briefing>>
    BY <1>7 DEF Extracted, JobEnds, JobShape
  <2>2. /\ Goes(j, job'[j].pc, job'[j].stamp, job'[j].text)
        /\ job'[j].pc = "done" /\ job'[j].text = job[j].text /\ job'[j].stamp = job[j].stamp
    BY <1>1, <2>1 DEF Text0
  <2>3. PageLockMoves(j) /\ KeyLockMoves(j) /\ SemMoves(j)
    BY <2>1, <2>2 DEF PageLockMoves, KeyLockMoves, SemMoves
  <2>4. CacheMoves(j) /\ ExtractedMoves(j) /\ TextMoves(j)
    BY <2>1, <2>2 DEF CacheMoves, ExtractedMoves, TextMoves
  <2>5. QED
    BY <2>1, <2>2, <2>3, <2>4 DEF Moves
<1>8. CASE ExtractFails(j)
  <2>1. /\ job[j].pc = "llm" /\ ~job[j].pin /\ JobGoes(j, "failed", Absent) /\ sem' = RemoveFirst(sem, j)
        /\ KeyReleased(Key(j)) /\ UNCHANGED <<version, cached, extracted, pageLock, call, briefing>>
    BY <1>8 DEF ExtractFails, JobEnds, JobShape
  <2>2. /\ Goes(j, job'[j].pc, job'[j].stamp, job'[j].text)
        /\ job'[j].pc = "failed" /\ job'[j].stamp = job[j].stamp
    BY <1>0, <1>1, <2>1
  <2>3. PageLockMoves(j) /\ KeyLockMoves(j) /\ SemMoves(j)
    BY <2>1, <2>2 DEF PageLockMoves, KeyLockMoves, SemMoves
  <2>4. CacheMoves(j) /\ ExtractedMoves(j) /\ TextMoves(j)
    BY <2>1, <2>2 DEF CacheMoves, ExtractedMoves, TextMoves
  <2>5. QED
    BY <2>1, <2>2, <2>3, <2>4 DEF Moves
<1>9. QED
  BY <1>2, <1>3, <1>4, <1>5, <1>6, <1>7, <1>8 DEF JobStep

-----------------------------------------------------------------------------
(* The LRU cache and the queues.                                           *)

LEMMA OthersFacts ==
  ASSUME extracted \in Seq(Entries), OneEntryEach, NEW k
  PROVE  /\ Others(k) \in Seq(Entries) /\ Len(Others(k)) <= Len(extracted)
         /\ \A n \in 1..Len(Others(k)) : Others(k)[n] \in ToSet(extracted) /\ Others(k)[n].key # k
         /\ \A n, m \in 1..Len(Others(k)) : n < m => Others(k)[n].key # Others(k)[m].key
<1> DEFINE I == {i \in 1..Len(extracted) : extracted[i].key = k}
<1>0. DOMAIN extracted = 1..Len(extracted) /\ Len(extracted) \in Nat
  OBVIOUS
<1>1. CASE ~\E i \in 1..Len(extracted) : extracted[i].key = k
  <2>1. Others(k) = extracted
    BY <1>1 DEF Others, RemoveFirstMatch
  <2>2. QED
    BY <1>0, <1>1, <2>1 DEF ToSet, OneEntryEach
<1>2. CASE \E i \in 1..Len(extracted) : extracted[i].key = k
  <2>1. PICK x : x = Min(I)
    OBVIOUS
  <2>2. x \in I
    <3>1. I \in SUBSET (0..Len(extracted)) /\ I # {}
      BY <1>2
    <3>2. QED
      BY <1>0, <2>1, <3>1, MinMax
  <2>3. Others(k) = RemoveAt(extracted, x)
    BY <1>2, <2>1 DEF Others, RemoveFirstMatch, SelectInSeq
  <2>4. x \in 1..Len(extracted) /\ extracted[x].key = k
    BY <2>2
  <2>5. PICK s, t : s = extracted /\ t = RemoveAt(s, x)
    OBVIOUS
  <2> HIDE DEF I
  <2>6. /\ t \in Seq(Entries) /\ Len(t) = Len(extracted) - 1
        /\ \A n \in 1..Len(t) : /\ Old(x, n) \in 1..Len(extracted) /\ Old(x, n) # x
                                /\ t[n] = extracted[Old(x, n)]
        /\ \A n, m \in 1..Len(t) : n < m => Old(x, n) < Old(x, m)
    <3>1. s \in Seq(Entries) /\ x \in 1..Len(s) /\ t = RemoveAt(s, x)
      BY <2>4, <2>5
    <3>2. t \in Seq(Entries) /\ Len(t) = Len(s) - 1
      BY <3>1, RemoveAtKeeps
    <3>3. \A n \in 1..Len(s) - 1 : Old(x, n) \in 1..Len(s) /\ Old(x, n) # x /\ t[n] = s[Old(x, n)]
      <4>1. \A n \in 1..Len(s) - 1 : t[n] = s[Old(x, n)]
        BY <3>1, RemoveAtFacts DEF Old
      <4>2. \A n \in 1..Len(s) - 1 : Old(x, n) \in 1..Len(s) /\ Old(x, n) # x
        BY <3>1, RemoveAtKeeps
      <4>3. QED
        BY <4>1, <4>2
    <3>4. \A n, m \in 1..Len(s) - 1 : n < m => Old(x, n) < Old(x, m)
      BY <3>1, RemoveAtKeeps
    <3>5. QED
      BY <2>5, <3>2, <3>3, <3>4
  <2>7. \A m \in 1..Len(extracted) : m # x => extracted[m].key # k
    BY <1>0, <2>4 DEF OneEntryEach
  <2>8. \A n, m \in 1..Len(extracted) : n < m => extracted[n].key # extracted[m].key
    BY <1>0 DEF OneEntryEach
  <2>9. \A n \in 1..Len(t) : t[n] \in ToSet(extracted) /\ t[n].key # k
    BY <1>0, <2>6, <2>7 DEF ToSet
  <2>10. ASSUME NEW n \in 1..Len(t), NEW m \in 1..Len(t), n < m
         PROVE  t[n].key # t[m].key
    <3>1. /\ Old(x, n) \in 1..Len(extracted) /\ Old(x, m) \in 1..Len(extracted)
          /\ Old(x, n) < Old(x, m)
          /\ t[n] = extracted[Old(x, n)] /\ t[m] = extracted[Old(x, m)]
      BY <2>6, <2>10
    <3>2. QED
      BY <2>8, <3>1
  <2>11. Others(k) = t
    BY <2>3, <2>5
  <2>12. t \in Seq(Entries) /\ Len(t) <= Len(extracted)
    BY <1>0, <2>6
  <2>13. QED
    BY <2>9, <2>10, <2>11, <2>12
<1>3. QED
  BY <1>1, <1>2

LEMMA PutFacts ==
  ASSUME extracted \in Seq(Entries), Len(extracted) <= MaxExtractions, OneEntryEach,
         NEW k \in ExtractionKeys, NEW text \in Versions, Put(k, text)
  PROVE  /\ extracted' \in Seq(Entries) /\ Len(extracted') <= MaxExtractions /\ OneEntryEach'
         /\ [key |-> k, text |-> text] \in ToSet(extracted')
         /\ \A f \in ToSet(extracted') : \/ f = [key |-> k, text |-> text]
                                         \/ f \in ToSet(extracted) /\ f.key # k
<1> DEFINE e == [key |-> k, text |-> text]
<1>1. PICK o : o = Others(k)
  OBVIOUS
<1>2. /\ o \in Seq(Entries) /\ Len(o) <= Len(extracted)
      /\ \A n \in 1..Len(o) : o[n] \in ToSet(extracted) /\ o[n].key # k
      /\ \A n, m \in 1..Len(o) : n < m => o[n].key # o[m].key
  BY <1>1, OthersFacts
<1>3. PICK kept : kept = IF Len(o) = MaxExtractions THEN Tail(o) ELSE o
  OBVIOUS
<1>4. MaxExtractions \in Nat \ {0} /\ Len(extracted) \in Nat
  BY ConstantFacts
<1>5. /\ kept \in Seq(Entries) /\ Len(kept) < MaxExtractions
      /\ \A n \in 1..Len(kept) : kept[n] \in ToSet(extracted) /\ kept[n].key # k
      /\ \A n, m \in 1..Len(kept) : n < m => kept[n].key # kept[m].key
  <2>1. CASE Len(o) = MaxExtractions
    <3>1. /\ kept \in Seq(Entries) /\ Len(kept) = Len(o) - 1
          /\ \A n \in 1..Len(kept) : n + 1 \in 1..Len(o) /\ kept[n] = o[n + 1]
      BY <1>2, <1>3, <1>4, <2>1
    <3>2. \A n, m \in 1..Len(kept) : n < m => n + 1 < m + 1
      BY <3>1
    <3>3. QED
      BY <1>2, <1>4, <2>1, <3>1, <3>2
  <2>2. CASE Len(o) # MaxExtractions
    BY <1>2, <1>3, <1>4, <2>2
  <2>3. QED
    BY <2>1, <2>2
<1>6. extracted' = Append(kept, e)
  BY <1>1, <1>3 DEF Put
<1>7. e \in Entries /\ e.key = k
  BY DEF Entries
<1>8. /\ extracted' \in Seq(Entries) /\ Len(extracted') = Len(kept) + 1
      /\ DOMAIN extracted' = 1..Len(kept) + 1
      /\ extracted'[Len(kept) + 1] = e /\ \A n \in 1..Len(kept) : extracted'[n] = kept[n]
      /\ Len(kept) \in Nat
  BY <1>5, <1>6, <1>7
<1> HIDE DEF e
<1>9. OneEntryEach'
  <2> SUFFICES ASSUME NEW n \in 1..Len(kept) + 1, NEW m \in 1..Len(kept) + 1, n < m
               PROVE  extracted'[n].key # extracted'[m].key
    BY <1>8 DEF OneEntryEach
  <2>1. n \in 1..Len(kept) /\ (m \in 1..Len(kept) \/ m = Len(kept) + 1)
    BY <1>8
  <2>2. QED
    BY <1>5, <1>7, <1>8, <2>1
<1>10. e \in ToSet(extracted')
  BY <1>8 DEF ToSet
<1>11. \A f \in ToSet(extracted') : f = e \/ (f \in ToSet(extracted) /\ f.key # k)
  <2> SUFFICES ASSUME NEW f \in ToSet(extracted')
               PROVE  f = e \/ (f \in ToSet(extracted) /\ f.key # k)
    OBVIOUS
  <2>1. PICK n \in 1..Len(kept) + 1 : f = extracted'[n]
    BY <1>8 DEF ToSet
  <2>2. n \in 1..Len(kept) \/ n = Len(kept) + 1
    BY <1>8
  <2>3. QED
    BY <1>5, <1>8, <2>1, <2>2
<1>12. QED
  BY <1>4, <1>5, <1>8, <1>9, <1>10, <1>11 DEF e

LEMMA QueueJoined ==
  ASSUME NEW q \in Seq(Jobs), NEW W, NEW I, Serves(q, W, I), NEW j \in Jobs, j \notin W \cup I
  PROVE  Append(q, j) \in Seq(Jobs) /\ Serves(Append(q, j), W \cup {j}, I)
<1> DEFINE r == Append(q, j)
<1>1. /\ r \in Seq(Jobs) /\ DOMAIN r = 1..Len(q) + 1 /\ r[Len(q) + 1] = j /\ Len(q) \in Nat
      /\ DOMAIN q = 1..Len(q) /\ \A n \in 1..Len(q) : r[n] = q[n]
  OBVIOUS
<1>2. IsInjective(q) /\ ToSet(q) = W \cup I /\ \A i \in I : Holds(q, i)
  BY DEF Serves
<1> HIDE DEF r
<1>3. \A n \in 1..Len(q) : q[n] # j
  BY <1>1, <1>2 DEF ToSet
<1>4. \A n \in 1..Len(q) + 1 : n \in 1..Len(q) \/ n = Len(q) + 1
  BY <1>1
<1>5. IsInjective(r)
  BY <1>1, <1>2, <1>3, <1>4 DEF IsInjective
<1>6. ToSet(r) = ToSet(q) \cup {j}
  <2>1. ToSet(r) \subseteq ToSet(q) \cup {j}
    BY <1>1, <1>4 DEF ToSet
  <2>2. Len(q) + 1 \in DOMAIN r /\ \A n \in 1..Len(q) : n \in DOMAIN r
    BY <1>1
  <2>3. QED
    BY <1>1, <2>1, <2>2 DEF ToSet
<1>7. \A i \in I : Holds(r, i)
  <2> SUFFICES ASSUME NEW i \in I
               PROVE  Holds(r, i)
    OBVIOUS
  <2>1. q # <<>> /\ q[1] = i
    BY <1>2 DEF Holds
  <2>2. 1 \in 1..Len(q)
    BY <1>1, <2>1
  <2>3. QED
    BY <1>1, <2>1, <2>2 DEF Holds
<1>8. QED
  BY <1>1, <1>2, <1>5, <1>6, <1>7 DEF Serves, r

LEMMA QueueEntered ==
  ASSUME NEW q, NEW W, NEW I, Serves(q, W, I), NEW j \in W, Holds(q, j)
  PROVE  Serves(q, W \ {j}, I \cup {j})
  BY DEF Serves

LEMMA QueueLeft ==
  ASSUME NEW q \in Seq(Jobs), NEW W, NEW I, Serves(q, W, I), NEW j \in W \cup I, Holds(q, j)
  PROVE  Tail(q) \in Seq(Jobs) /\ Serves(Tail(q), W \ {j}, I \ {j})
<1> DEFINE r == Tail(q)
<1>1. q # <<>> /\ q[1] = j /\ IsInjective(q) /\ ToSet(q) = W \cup I /\ \A i \in I : i = j
  BY DEF Serves, Holds
<1>2. /\ r \in Seq(Jobs) /\ DOMAIN r = 1..Len(q) - 1 /\ Len(q) \in Nat \ {0} /\ DOMAIN q = 1..Len(q)
      /\ \A n \in 1..Len(q) - 1 : r[n] = q[n + 1] /\ n + 1 \in 1..Len(q)
  BY <1>1
<1> HIDE DEF r
<1>3. IsInjective(r)
  <2> SUFFICES ASSUME NEW n \in 1..Len(q) - 1, NEW m \in 1..Len(q) - 1, r[n] = r[m]
               PROVE  n = m
    BY <1>2 DEF IsInjective
  <2>1. n + 1 = m + 1
    BY <1>1, <1>2 DEF IsInjective
  <2>2. QED
    BY <2>1
<1>4. ToSet(r) = ToSet(q) \ {j}
  <2>1. ASSUME NEW n \in 1..Len(q), n # 1
        PROVE  n - 1 \in 1..Len(q) - 1 /\ q[n] = r[n - 1]
    <3>1. n - 1 \in 1..Len(q) - 1 /\ (n - 1) + 1 = n
      BY <1>2, <2>1
    <3>2. r[n - 1] = q[(n - 1) + 1]
      BY <1>2, <3>1
    <3>3. QED
      BY <3>1, <3>2
  <2>2. \A n \in 1..Len(q) - 1 : n + 1 # 1 /\ 1 \in 1..Len(q)
    BY <1>2
  <2>3. \A n \in 1..Len(q) - 1 : r[n] # j
    BY <1>1, <1>2, <2>2 DEF IsInjective
  <2>4. /\ \A x : x \in ToSet(r) <=> \E n \in 1..Len(q) - 1 : x = r[n]
        /\ \A x : x \in ToSet(q) <=> \E n \in 1..Len(q) : x = q[n]
    BY <1>2 DEF ToSet
  <2>5. ASSUME NEW x \in ToSet(r)
        PROVE  x \in ToSet(q) \ {j}
    BY <1>2, <2>3, <2>4
  <2>6. ASSUME NEW x \in ToSet(q), x # j
        PROVE  x \in ToSet(r)
    BY <1>1, <2>1, <2>4, <2>6
  <2>7. QED
    BY <2>5, <2>6
<1>5. QED
  BY <1>1, <1>2, <1>3, <1>4 DEF Serves, r

-----------------------------------------------------------------------------
(* The inductive invariant.                                                *)

\* The jobs of a call: one per pinned page while it pins, one per page while it works,
\* numbered as the pages are, and none otherwise.
CallShape(c) ==
  LET pins  == PinsOf(call[c].req.urls)
      pages == call[c].pages
      Is(i) == job[<<c, i>>]
  IN  /\ NoRepeats(call[c].found) /\ NoRepeats(pages)
      /\ call[c].at \in {"idle", "search", "done"} =>
           \A i \in 1..Cardinality(Pages) : Is(i).pc = "none"
      /\ call[c].at = "pin" =>
           /\ c \in Searches
           /\ \A i \in 1..Cardinality(Pages) :
                IF i <= Len(pins) THEN Is(i).pc # "none" /\ Is(i).page = pins[i] /\ Is(i).pin
                                  ELSE Is(i).pc = "none"
      /\ call[c].at = "work" =>
           \A i \in 1..Cardinality(Pages) :
             IF i <= Len(pages)
             THEN /\ Is(i).pc # "none" /\ ~Is(i).pin
                  /\ Is(i).page = pages[i].page /\ Is(i).stamp = pages[i].stamp
             ELSE Is(i).pc = "none"

Shape ==
  /\ TypeOK /\ OneEntryEach /\ NothingIsLeaked
  /\ \A j \in Jobs : JobShape(j)
  /\ \A c \in Calls : CallShape(c)
  /\ briefing.at = "idle" => \A c \in Topics : call[c].at = "idle"

\* The jobs that need a permit.
InSem == {j \in Jobs : job[j].pc \in {"sem", "page", "fetch", "key", "llm"} /\ ~job[j].pin}

\* pc and page of the other jobs stay, so only the queue of j's own page can change.
LEMMA MovesOnPages ==
  ASSUME Shape, NEW j \in Jobs, Moves(j)
  PROVE  /\ pageLock' \in [Pages -> Seq(Jobs)]
         /\ \A p \in Pages : Serves(pageLock'[p], AtPage(p, {"page"})', AtPage(p, {"fetch"})')
<1> DEFINE P == job[j].page
<1>1. /\ \A i \in Jobs : i # j => job'[i] = job[i]
      /\ job'[j].page = P /\ P \in Pages
      /\ pageLock \in [Pages -> Seq(Jobs)]
  BY DEF Shape, JobShape, TypeOK, Moves, Goes
<1>2. \A p \in Pages : Serves(pageLock[p], AtPage(p, {"page"}), AtPage(p, {"fetch"}))
  BY DEF Shape, NothingIsLeaked
<1>3. ASSUME NEW p \in Pages, p # P
      PROVE  AtPage(p, {"page"})' = AtPage(p, {"page"}) /\ AtPage(p, {"fetch"})' = AtPage(p, {"fetch"})
  BY <1>1, <1>3 DEF AtPage
<1>4. /\ AtPage(P, {"page"})' = IF job'[j].pc = "page" THEN AtPage(P, {"page"}) \cup {j}
                                                       ELSE AtPage(P, {"page"}) \ {j}
      /\ AtPage(P, {"fetch"})' = IF job'[j].pc = "fetch" THEN AtPage(P, {"fetch"}) \cup {j}
                                                         ELSE AtPage(P, {"fetch"}) \ {j}
      /\ j \in AtPage(P, {"page"}) <=> job[j].pc = "page"
      /\ j \in AtPage(P, {"fetch"}) <=> job[j].pc = "fetch"
  BY <1>1 DEF AtPage
<1> DEFINE W == AtPage(P, {"page"})
           I == AtPage(P, {"fetch"})
           q == pageLock[P]
<1>5. q \in Seq(Jobs) /\ Serves(q, W, I)
  BY <1>1, <1>2
<1>6. PICK pg : pg = P
  OBVIOUS
<1>7. PICK w1, i1 : w1 = AtPage(pg, {"page"})' /\ i1 = AtPage(pg, {"fetch"})'
  OBVIOUS
<1>8. /\ w1 = IF job'[j].pc = "page" THEN W \cup {j} ELSE W \ {j}
      /\ i1 = IF job'[j].pc = "fetch" THEN I \cup {j} ELSE I \ {j}
      /\ (j \in W <=> job[j].pc = "page") /\ (j \in I <=> job[j].pc = "fetch")
  BY <1>1, <1>6, <1>7 DEF AtPage
<1>9. /\ pageLock' = [pageLock EXCEPT ![P] = pageLock'[P]]
      /\ pageLock'[P] \in Seq(Jobs) /\ Serves(pageLock'[P], w1, i1)
  <2> HIDE DEF W, I, q
  <2>1. CASE job[j].pc \notin {"page", "fetch"} /\ job'[j].pc \notin {"page", "fetch"} /\ pageLock' = pageLock
    <3>1. w1 = W /\ i1 = I
      BY <1>8, <2>1
    <3>2. QED
      BY <1>1, <1>5, <2>1, <3>1 DEF q
  <2>2. CASE /\ job[j].pc = "sem" /\ job'[j].pc = "page"
             /\ pageLock' = [pageLock EXCEPT ![P] = Append(@, j)]
    <3>1. w1 = W \cup {j} /\ i1 = I /\ j \notin W \cup I
      BY <1>8, <2>2
    <3>2. pageLock'[P] = Append(q, j)
      BY <1>1, <2>2 DEF q
    <3>3. QED
      BY <1>1, <1>5, <2>2, <3>1, <3>2, QueueJoined
  <2>3. CASE job[j].pc = "page" /\ Holds(pageLock[P], j) /\ job'[j].pc = "fetch" /\ pageLock' = pageLock
    <3>1. w1 = W \ {j} /\ i1 = I \cup {j} /\ j \in W
      BY <1>8, <2>3
    <3>2. Serves(q, w1, i1)
      BY <1>5, <2>3, <3>1, QueueEntered DEF q
    <3>3. QED
      BY <1>1, <1>5, <2>3, <3>2 DEF q
  <2>4. CASE /\ job[j].pc \in {"page", "fetch"} /\ (job[j].pc = "page" => Holds(pageLock[P], j))
             /\ job'[j].pc \notin {"page", "fetch"} /\ PageReleased(P)
    <3>1. w1 = W \ {j} /\ i1 = I \ {j} /\ j \in W \cup I
      BY <1>8, <2>4
    <3>2. Holds(q, j)
      BY <1>5, <1>8, <2>4 DEF Serves, q
    <3>3. Tail(q) \in Seq(Jobs) /\ Serves(Tail(q), w1, i1)
      BY <1>5, <3>1, <3>2, QueueLeft
    <3>4. pageLock' = [pageLock EXCEPT ![P] = Tail(@)]
      BY <2>4 DEF PageReleased
    <3>5. QED
      BY <1>1, <3>3, <3>4 DEF q
  <2>5. QED
    BY <2>1, <2>2, <2>3, <2>4 DEF Moves, PageLockMoves
<1>10. ASSUME NEW p \in Pages
       PROVE  Serves(pageLock'[p], AtPage(p, {"page"})', AtPage(p, {"fetch"})')
  <2>1. CASE p = P
    BY <1>6, <1>7, <1>9, <2>1
  <2>2. CASE p # P
    BY <1>1, <1>2, <1>3, <1>9, <2>2
  <2>3. QED
    BY <2>1, <2>2
<1>11. QED
  BY <1>1, <1>9, <1>10

LEMMA MovesOnKeys ==
  ASSUME Shape, NEW j \in Jobs, Moves(j)
  PROVE  /\ keyLock' \in [ExtractionKeys -> Seq(Jobs)]
         /\ \A k \in ExtractionKeys : Serves(keyLock'[k], AtKey(k, {"key"})', AtKey(k, {"llm"})')
<1>1. /\ \A i \in Jobs : i # j => job'[i] = job[i]
      /\ job'[j].page = job[j].page /\ keyLock \in [ExtractionKeys -> Seq(Jobs)]
      /\ ~job[j].pin => job'[j].stamp = job[j].stamp
  BY DEF Shape, TypeOK, Moves, Goes, TextMoves
<1>2. \A k \in ExtractionKeys : Serves(keyLock[k], AtKey(k, {"key"}), AtKey(k, {"llm"}))
  BY DEF Shape, NothingIsLeaked
<1>3. CASE job[j].pin
  <2>1. job[j].pc \notin {"key", "llm"} /\ job'[j].pc \notin {"key", "llm"} /\ keyLock' = keyLock
    BY <1>3 DEF Shape, JobShape, Moves, KeyLockMoves
  <2>2. \A k \in ExtractionKeys : /\ AtKey(k, {"key"})' = AtKey(k, {"key"})
                                  /\ AtKey(k, {"llm"})' = AtKey(k, {"llm"})
    BY <1>1, <2>1 DEF AtKey, Key
  <2>3. QED
    BY <1>1, <1>2, <2>1, <2>2
<1>4. CASE ~job[j].pin
  <2>1. PICK K : K = Key(j)
    OBVIOUS
  <2>2. K \in ExtractionKeys
    BY <1>4, <2>1 DEF Shape, JobShape, Key, ExtractionKeys, Moves
  <2>3. Key(j)' = K /\ \A i \in Jobs : i # j => Key(i)' = Key(i)
    BY <1>1, <1>4, <2>1 DEF Key
  <2>4. ASSUME NEW k \in ExtractionKeys, k # K
        PROVE  AtKey(k, {"key"})' = AtKey(k, {"key"}) /\ AtKey(k, {"llm"})' = AtKey(k, {"llm"})
    BY <1>1, <2>1, <2>3, <2>4 DEF AtKey
  <2> DEFINE W == AtKey(K, {"key"})
             I == AtKey(K, {"llm"})
             q == keyLock[K]
  <2>5. q \in Seq(Jobs) /\ Serves(q, W, I)
    BY <1>1, <1>2, <2>2
  <2>6. PICK w1, i1 : w1 = AtKey(K, {"key"})' /\ i1 = AtKey(K, {"llm"})'
    OBVIOUS
  <2>7. /\ w1 = IF job'[j].pc = "key" THEN W \cup {j} ELSE W \ {j}
        /\ i1 = IF job'[j].pc = "llm" THEN I \cup {j} ELSE I \ {j}
        /\ (j \in W <=> job[j].pc = "key") /\ (j \in I <=> job[j].pc = "llm")
    BY <1>1, <2>1, <2>3, <2>6 DEF AtKey
  <2>8. /\ keyLock' = [keyLock EXCEPT ![K] = keyLock'[K]]
        /\ keyLock'[K] \in Seq(Jobs) /\ Serves(keyLock'[K], w1, i1)
    <3> HIDE DEF W, I, q
    <3>1. CASE job[j].pc \notin {"key", "llm"} /\ job'[j].pc \notin {"key", "llm"} /\ keyLock' = keyLock
      <4>1. w1 = W /\ i1 = I
        BY <2>7, <3>1
      <4>2. QED
        BY <1>1, <2>5, <3>1, <4>1 DEF q
    <3>2. CASE /\ job[j].pc \in {"sem", "page", "fetch"} /\ job'[j].pc = "key"
               /\ keyLock' = [keyLock EXCEPT ![K] = Append(@, j)]
      <4>1. w1 = W \cup {j} /\ i1 = I /\ j \notin W \cup I
        BY <2>7, <3>2
      <4>2. keyLock'[K] = Append(q, j)
        BY <1>1, <2>2, <3>2 DEF q
      <4>3. QED
        BY <1>1, <2>2, <2>5, <3>2, <4>1, <4>2, QueueJoined
    <3>3. CASE job[j].pc = "key" /\ Holds(keyLock[K], j) /\ job'[j].pc = "llm" /\ keyLock' = keyLock
      <4>1. w1 = W \ {j} /\ i1 = I \cup {j} /\ j \in W
        BY <2>7, <3>3
      <4>2. Serves(q, w1, i1)
        BY <2>5, <3>3, <4>1, QueueEntered DEF q
      <4>3. QED
        BY <1>1, <2>5, <3>3, <4>2 DEF q
    <3>4. CASE /\ job[j].pc \in {"key", "llm"} /\ (job[j].pc = "key" => Holds(keyLock[K], j))
               /\ job'[j].pc \in {"done", "failed"} /\ KeyReleased(K)
      <4>1. w1 = W \ {j} /\ i1 = I \ {j} /\ j \in W \cup I
        BY <2>7, <3>4
      <4>2. Holds(q, j)
        BY <2>5, <2>7, <3>4 DEF Serves, q
      <4>3. Tail(q) \in Seq(Jobs) /\ Serves(Tail(q), w1, i1)
        BY <2>5, <4>1, <4>2, QueueLeft
      <4>4. keyLock' = [keyLock EXCEPT ![K] = Tail(@)]
        BY <3>4 DEF KeyReleased
      <4>5. QED
        BY <1>1, <2>2, <4>3, <4>4 DEF q
    <3>5. QED
      BY <2>1, <3>1, <3>2, <3>3, <3>4 DEF Moves, KeyLockMoves
  <2>9. ASSUME NEW k \in ExtractionKeys
        PROVE  Serves(keyLock'[k], AtKey(k, {"key"})', AtKey(k, {"llm"})')
    <3>1. CASE k = K
      BY <2>6, <2>8, <3>1
    <3>2. CASE k # K
      BY <1>1, <1>2, <2>2, <2>4, <2>8, <3>2
    <3>3. QED
      BY <3>1, <3>2
  <2>10. QED
    BY <1>1, <2>2, <2>8, <2>9
<1>5. QED
  BY <1>3, <1>4

LEMMA MovesOnSem ==
  ASSUME Shape, NEW j \in Jobs, Moves(j)
  PROVE  /\ sem' \in Seq(Jobs) /\ IsInjective(sem') /\ ToSet(sem') = InSem'
         /\ \A i \in ToSet(sem') : job'[i].pc # "sem" => Permitted(i)'
<1>1. /\ sem \in Seq(Jobs) /\ IsInjective(sem) /\ ToSet(sem) = InSem
      /\ \A i \in ToSet(sem) : job[i].pc # "sem" => Permitted(i)
      /\ DOMAIN sem = 1..Len(sem)
  BY DEF Shape, TypeOK, NothingIsLeaked, InSem
<1>2. /\ \A i \in Jobs : i # j => job'[i] = job[i]
      /\ job'[j].pin = job[j].pin
      /\ job[j].pc \in {"sem", "page", "fetch", "key", "llm"} /\ job'[j].pc # "sem"
  BY DEF Moves, Goes
<1>3. InSem' = IF job'[j].pc \in {"page", "fetch", "key", "llm"} THEN InSem ELSE InSem \ {j}
  BY <1>2 DEF InSem, Moves
<1>4. CASE sem' = sem
  <2>1. InSem' = InSem
    <3>1. CASE job'[j].pc \in {"page", "fetch", "key", "llm"}
      BY <1>3, <3>1
    <3>2. CASE job[j].pin
      BY <1>2, <3>2 DEF InSem
    <3>3. CASE job'[j].pc \in {"done", "failed"} /\ sem' = RemoveFirst(sem, j)
      <4>1. PICK t : t = RemoveFirst(sem, j)
        OBVIOUS
      <4>2. ToSet(t) = ToSet(sem) \ {j}
        BY <1>1, <4>1, RemoveFirstFacts
      <4>3. QED
        BY <1>1, <1>3, <1>4, <3>3, <4>1, <4>2
    <3>4. QED
      BY <3>1, <3>2, <3>3 DEF Moves, SemMoves
  <2>2. ASSUME NEW i \in InSem, job'[i].pc # "sem"
        PROVE  Permitted(i)'
    <3>1. i \in Jobs
      BY DEF InSem
    <3>2. CASE i # j
      BY <1>1, <1>2, <1>4, <2>2, <3>1, <3>2 DEF Permitted
    <3>3. CASE i = j
      <4>1. job[j].pc = "sem" => Permitted(j)
        <5>1. ~job[j].pin
          BY <3>3 DEF InSem
        <5>2. CASE job'[j].pc \in {"done", "failed"}
          BY <1>2, <1>3, <2>1, <3>3, <5>2
        <5>3. QED
          BY <5>1, <5>2 DEF Moves, SemMoves
      <4>2. Permitted(j)
        BY <1>1, <3>3, <4>1
      <4>3. QED
        BY <1>4, <3>3, <4>2 DEF Permitted
    <3>4. QED
      BY <3>2, <3>3
  <2>3. QED
    BY <1>1, <1>4, <2>1, <2>2
<1>5. CASE job'[j].pc \in {"done", "failed"} /\ sem' = RemoveFirst(sem, j)
  <2>1. PICK t : t = RemoveFirst(sem, j)
    OBVIOUS
  <2>2. t \in Seq(Jobs) /\ IsInjective(t) /\ ToSet(t) = ToSet(sem) \ {j}
    BY <1>1, <2>1, RemoveFirstFacts
  <2>3. \A i \in DOMAIN sem : sem[i] # j => \E n \in DOMAIN t : n <= i /\ t[n] = sem[i]
    BY <1>1, <2>1, RemoveFirstFacts
  <2>4. InSem' = InSem \ {j}
    BY <1>3, <1>5
  <2>5. ASSUME NEW i \in InSem \ {j}, job'[i].pc # "sem"
        PROVE  Permitted(i)'
    <3>1. job[i].pc # "sem" /\ i # j
      BY <1>2, <2>5 DEF InSem
    <3>2. PICK n \in DOMAIN sem : n <= MaxConcurrent /\ sem[n] = i
      BY <1>1, <3>1 DEF Permitted
    <3>3. PICK m \in DOMAIN t : m <= n /\ t[m] = i
      BY <2>3, <3>1, <3>2
    <3>4. m \in Nat /\ n \in Nat /\ MaxConcurrent \in Nat
      BY <1>1, <2>2, ConstantFacts
    <3>5. m <= MaxConcurrent
      BY <3>2, <3>3, <3>4
    <3>6. sem' = t
      BY <1>5, <2>1
    <3>7. QED
      BY <3>3, <3>5, <3>6 DEF Permitted
  <2>6. QED
    BY <1>1, <1>5, <2>1, <2>2, <2>4, <2>5
<1>6. QED
  BY <1>4, <1>5 DEF Moves, SemMoves

LEMMA MovesOnCaches ==
  ASSUME Shape, NEW j \in Jobs, Moves(j)
  PROVE  /\ cached' \in [Pages -> Text0]
         /\ extracted' \in Seq(Entries) /\ Len(extracted') <= MaxExtractions /\ OneEntryEach'
<1>1. /\ cached \in [Pages -> Text0] /\ extracted \in Seq(Entries)
      /\ Len(extracted) <= MaxExtractions /\ OneEntryEach /\ TypeOK /\ JobShape(j)
  BY DEF Shape, TypeOK, Entries
<1>2. cached' \in [Pages -> Text0]
  <2>1. Absent \in Text0 /\ (job[j].pc = "fetch" => job[j].text \in Text0)
    BY <1>1 DEF JobShape, Text0
  <2>2. cached' = cached \/ \E v \in Text0 : cached' = [cached EXCEPT ![job[j].page] = v]
    BY <2>1 DEF Moves, CacheMoves
  <2>3. QED
    BY <1>1, <2>2
<1>3. CASE extracted' = extracted
  BY <1>1, <1>2, <1>3 DEF OneEntryEach
<1>4. ASSUME NEW e \in Entry(Key(j)), Put(e.key, e.text)
      PROVE  extracted' \in Seq(Entries) /\ Len(extracted') <= MaxExtractions /\ OneEntryEach'
  <2>1. e.key \in ExtractionKeys /\ e.text \in Versions
    BY <1>1, EntryFacts DEF Entries
  <2>2. QED
    BY <1>1, <1>4, <2>1, PutFacts
<1>5. CASE job[j].pc = "llm" /\ Put(Key(j), job[j].text)
  <2>1. job[j].page \in Pages /\ job[j].stamp \in Versions /\ job[j].text \in Versions
    BY <1>1, <1>5 DEF JobShape
  <2>2. Key(j) \in ExtractionKeys
    BY <2>1 DEF Key, ExtractionKeys
  <2>3. QED
    BY <1>1, <1>2, <1>5, <2>1, <2>2, PutFacts
<1>6. QED
  BY <1>2, <1>3, <1>4, <1>5 DEF Moves, ExtractedMoves

LEMMA MovesOnJobs ==
  ASSUME Shape, NEW j \in Jobs, Moves(j), UNCHANGED <<version, call, briefing>>
  PROVE  /\ job' \in [Jobs -> Job]
         /\ \A i \in Jobs : JobShape(i)'
         /\ \A c \in Calls : CallShape(c)'
<1>1. /\ job' \in [Jobs -> Job]
      /\ \A i \in Jobs : i # j => job'[i] = job[i]
      /\ job'[j].page = job[j].page /\ job'[j].pin = job[j].pin
  BY DEF Moves, Goes
<1>2. ASSUME NEW i \in Jobs, i # j
      PROVE  JobShape(i)'
  BY <1>1, <1>2 DEF Shape, JobShape
<1>3. /\ JobShape(j) /\ job[j].page \in Pages /\ TypeOK
      /\ version[job[j].page] \in Versions /\ cached[job[j].page] \in Text0
  BY DEF Shape, JobShape, Moves, TypeOK
<1>4. JobShape(j)'
  <2>1. job'[j].pc \in {"fetch", "key", "llm", "done"} => job'[j].text \in Versions
    <3>1. CASE job'[j].pc = "fetch"
      BY <1>3, <3>1 DEF Moves, TextMoves
    <3>2. CASE job'[j].pc = "key"
      <4>1. ~MustFetch(j) => cached[job[j].page] \in Versions
        BY <1>3 DEF MustFetch, Text0
      <4>2. QED
        BY <1>3, <3>2, <4>1 DEF Moves, TextMoves, JobShape
    <3>3. CASE job'[j].pc = "llm"
      BY <1>3, <3>3 DEF Moves, TextMoves, JobShape
    <3>4. CASE job'[j].pc = "done"
      <4>1. \A e \in Entry(Key(j)) : e.text \in Versions
        BY <1>3, EntryFacts
      <4>2. QED
        BY <1>3, <3>4, <4>1 DEF Moves, TextMoves, JobShape
    <3>5. QED
      BY <3>1, <3>2, <3>3, <3>4
  <2>2. job'[j].pc = "done" => job'[j].stamp \in Versions
    <3>1. job'[j].pc = "done" /\ job[j].pin => job[j].pc = "fetch"
      BY <1>3 DEF Moves, TextMoves, JobShape
    <3>2. QED
      BY <1>3, <3>1 DEF Moves, TextMoves, JobShape
  <2>3. job'[j].pin \/ job'[j].stamp \in Versions
    BY <1>1, <1>3 DEF Moves, TextMoves, JobShape
  <2>4. job'[j].pc \in {"sem", "key", "llm"} => ~job'[j].pin
    BY <1>1 DEF Moves
  <2>5. QED
    BY <1>1, <1>3, <2>1, <2>2, <2>3, <2>4 DEF JobShape
<1>5. ASSUME NEW c \in Calls
      PROVE  CallShape(c)'
  <2>1. CallShape(c) /\ call' = call
    BY DEF Shape
  <2>2. ASSUME NEW i \in 1..Cardinality(Pages)
        PROVE  /\ <<c, i>> \in Jobs
               /\ job'[<<c, i>>].pc = "none" <=> job[<<c, i>>].pc = "none"
               /\ job'[<<c, i>>].page = job[<<c, i>>].page /\ job'[<<c, i>>].pin = job[<<c, i>>].pin
               /\ ~job[<<c, i>>].pin => job'[<<c, i>>].stamp = job[<<c, i>>].stamp
    <3>1. <<c, i>> \in Jobs
      BY DEF Jobs
    <3>2. job[j].pc # "none" /\ job'[j].pc # "none" /\ (~job[j].pin => job'[j].stamp = job[j].stamp)
      BY DEF Moves, TextMoves
    <3>3. QED
      BY <1>1, <3>1, <3>2
  <2>3. QED
    BY <2>1, <2>2 DEF CallShape
<1>6. QED
  BY <1>1, <1>2, <1>4, <1>5

LEMMA JobStepKeepsShape ==
  ASSUME Shape, NEW j \in Jobs, JobStep(j)
  PROVE  Shape'
<1>1. Moves(j) /\ UNCHANGED <<version, call, briefing>>
  BY JobStepMoves DEF Shape
<1>2. TypeOK'
  BY <1>1, MovesOnPages, MovesOnKeys, MovesOnSem, MovesOnCaches, MovesOnJobs
     DEF Shape, TypeOK, Entries
<1>3. NothingIsLeaked'
  BY <1>1, MovesOnPages, MovesOnKeys, MovesOnSem DEF NothingIsLeaked, InSem
<1>4. QED
  BY <1>1, <1>2, <1>3, MovesOnCaches, MovesOnJobs DEF Shape

-----------------------------------------------------------------------------
(* Steps of calls.                                                         *)

LEMMA SpawnFacts ==
  ASSUME job \in [Jobs -> Job], NEW c \in Calls, NEW hits, NEW pin \in BOOLEAN,
         NEW pc \in {"none", "sem", "page"}, Len(hits) \in Nat,
         \A i \in 1..Len(hits) : hits[i].page \in Pages /\ hits[i].stamp \in Text0,
         Spawn(c, hits, pc, pin)
  PROVE  /\ job' \in [Jobs -> Job]
         /\ \A j \in Jobs : j[1] # c => job'[j] = job[j]
         /\ \A i \in 1..Cardinality(Pages) :
              IF i <= Len(hits)
              THEN /\ job'[<<c, i>>].pc = pc /\ job'[<<c, i>>].pin = pin
                   /\ job'[<<c, i>>].page = hits[i].page /\ job'[<<c, i>>].stamp = hits[i].stamp
              ELSE job'[<<c, i>>] = NoJob
<1> DEFINE new(i) == [NoJob EXCEPT !.pc = pc, !.pin = pin, !.page = hits[i].page, !.stamp = hits[i].stamp]
<1>1. NoJob \in Job
  BY DEF NoJob, Job, Text0
<1>2. ASSUME NEW i \in 1..Len(hits)
      PROVE  /\ new(i) \in Job /\ new(i).pc = pc /\ new(i).pin = pin
             /\ new(i).page = hits[i].page /\ new(i).stamp = hits[i].stamp
  BY <1>1 DEF NoJob, Job, Text0
<1>3. job' = [j \in Jobs |-> IF j[1] # c THEN job[j]
                             ELSE IF j[2] > Len(hits) THEN NoJob ELSE new(j[2])]
  BY DEF Spawn
<1> HIDE DEF new
<1>4. \A j \in Jobs : j[2] \in Nat \ {0}
  BY DEF Jobs
<1>5. ASSUME NEW j \in Jobs
      PROVE  job'[j] \in Job
  <2>1. CASE j[1] # c
    BY <1>3, <2>1
  <2>2. CASE j[1] = c /\ j[2] > Len(hits)
    BY <1>1, <1>3, <2>2
  <2>3. CASE j[1] = c /\ ~(j[2] > Len(hits))
    <3>1. j[2] \in 1..Len(hits)
      BY <1>4, <2>3
    <3>2. QED
      BY <1>2, <1>3, <2>3, <3>1
  <2>4. QED
    BY <2>1, <2>2, <2>3
<1>6. job' \in [Jobs -> Job]
  BY <1>3, <1>5
<1>7. ASSUME NEW i \in 1..Cardinality(Pages)
      PROVE  IF i <= Len(hits)
             THEN /\ job'[<<c, i>>].pc = pc /\ job'[<<c, i>>].pin = pin
                  /\ job'[<<c, i>>].page = hits[i].page /\ job'[<<c, i>>].stamp = hits[i].stamp
             ELSE job'[<<c, i>>] = NoJob
  <2>1. <<c, i>> \in Jobs /\ i \in Nat \ {0} /\ <<c, i>>[1] = c /\ <<c, i>>[2] = i
    BY DEF Jobs
  <2>2. job'[<<c, i>>] = IF i > Len(hits) THEN NoJob ELSE new(i)
    BY <1>3, <2>1
  <2>3. CASE i <= Len(hits)
    BY <1>2, <2>1, <2>2, <2>3
  <2>4. CASE ~(i <= Len(hits))
    BY <2>1, <2>2, <2>4
  <2>5. QED
    BY <2>3, <2>4
<1>8. QED
  BY <1>3, <1>6, <1>7

LEMMA JobsFacts ==
  /\ \A c \in Calls, i \in 1..Cardinality(Pages) : <<c, i>> \in Jobs
  /\ \A j \in Jobs : /\ j[1] \in Calls /\ j[2] \in 1..Cardinality(Pages) /\ j = <<j[1], j[2]>>
  BY DEF Jobs

\* The jobs of a call that is settled are in no queue.
Quiet(c) == \A j \in Jobs : j[1] = c => job[j].pc \in {"none", "done", "failed"}

LEMMA QuietFacts ==
  ASSUME Shape, NEW c \in Calls,
         call[c].at \in {"idle", "search", "done"} \/ Ended(c)
  PROVE  Quiet(c)
  BY JobsFacts DEF Shape, CallShape, Quiet, Ended

\* A call whose jobs are at rest leaves them: the queues are as they were.
LEMMA QuietQueues ==
  ASSUME Shape, NEW c \in Calls, Quiet(c), \A j \in Jobs : j[1] # c => job'[j] = job[j],
         \A j \in Jobs : j[1] = c => job'[j].pc \notin {"key", "llm"},
         keyLock' = keyLock
  PROVE  \A k \in ExtractionKeys : Serves(keyLock'[k], AtKey(k, {"key"})', AtKey(k, {"llm"})')
<1>1. \A k \in ExtractionKeys : AtKey(k, {"key"})' = AtKey(k, {"key"}) /\ AtKey(k, {"llm"})' = AtKey(k, {"llm"})
  BY DEF Quiet, AtKey, Key
<1>2. QED
  BY <1>1 DEF Shape, NothingIsLeaked

LEMMA QuietPages ==
  ASSUME Shape, NEW c \in Calls, Quiet(c), \A j \in Jobs : j[1] # c => job'[j] = job[j],
         \A j \in Jobs : j[1] = c => job'[j].pc \notin {"page", "fetch"},
         pageLock' = pageLock
  PROVE  \A p \in Pages : Serves(pageLock'[p], AtPage(p, {"page"})', AtPage(p, {"fetch"})')
<1>1. \A p \in Pages : /\ AtPage(p, {"page"})' = AtPage(p, {"page"})
                       /\ AtPage(p, {"fetch"})' = AtPage(p, {"fetch"})
  BY DEF Quiet, AtPage
<1>2. QED
  BY <1>1 DEF Shape, NothingIsLeaked

LEMMA QuietSem ==
  ASSUME Shape, NEW c \in Calls, Quiet(c), \A j \in Jobs : j[1] # c => job'[j] = job[j],
         \A j \in Jobs : j[1] = c => job'[j].pc \in {"none", "page"} /\ (job'[j].pc = "page" => job'[j].pin),
         sem' = sem
  PROVE  /\ IsInjective(sem') /\ ToSet(sem') = InSem'
         /\ \A i \in ToSet(sem') : job'[i].pc # "sem" => Permitted(i)'
<1>1. /\ IsInjective(sem) /\ ToSet(sem) = InSem
      /\ \A i \in ToSet(sem) : job[i].pc # "sem" => Permitted(i)
  BY DEF Shape, NothingIsLeaked, InSem
<1>2. InSem' = InSem
  BY DEF Quiet, InSem
<1>3. \A i \in InSem : i \in Jobs /\ job'[i] = job[i]
  BY DEF Quiet, InSem
<1>4. \A i \in Jobs : Permitted(i)' = Permitted(i)
  BY DEF Permitted
<1>5. QED
  BY <1>1, <1>2, <1>3, <1>4

LEMMA RequestFacts ==
  ASSUME TypeOK, NEW c \in Calls
  PROVE  /\ call[c] \in Call
         /\ call[c].req.urls \in Seq(Url) /\ call[c].req.limit \in Nat
         /\ call[c].req.force \in BOOLEAN /\ call[c].req.spaces \in SUBSET Spaces
<1>1. call[c] \in Call
  BY DEF TypeOK
<1>2. call[c].req \in Requests \cup {TopicRequest(f) : f \in BOOLEAN}
  BY <1>1 DEF Call
<1>3. \A f \in BOOLEAN : TopicRequest(f) \in Request
  BY ConstantFacts, ResearchAssumption DEF TopicRequest, Request
<1>4. call[c].req \in Request
  BY <1>2, <1>3, ConstantFacts
<1>5. QED
  BY <1>1, <1>4 DEF Request

\* A step of one call says nothing about the others.
LEMMA OtherCalls ==
  ASSUME Shape, NEW c \in Calls, \A j \in Jobs : j[1] # c => job'[j] = job[j],
         \A d \in Calls : d # c => call'[d] = call[d]
  PROVE  /\ \A j \in Jobs : j[1] # c => JobShape(j)'
         /\ \A d \in Calls : d # c => CallShape(d)'
<1>1. \A j \in Jobs : j[1] # c => JobShape(j)'
  BY DEF Shape, JobShape
<1>2. ASSUME NEW d \in Calls, d # c
      PROVE  CallShape(d)'
  <2>1. \A i \in 1..Cardinality(Pages) : job'[<<d, i>>] = job[<<d, i>>]
    BY <1>2, JobsFacts
  <2>2. CallShape(d) /\ call'[d] = call[d]
    BY <1>2 DEF Shape
  <2>3. QED
    BY <2>1, <2>2 DEF CallShape
<1>3. QED
  BY <1>1, <1>2

\* What a call that pins pages changes.
LEMMA PinChanges ==
  ASSUME TypeOK, NEW c \in Searches, NEW found \in Seq(Hit), Pin(c, found),
         NEW ps, ps = PinsOf(call[c].req.urls)
  PROVE  /\ job' \in [Jobs -> Job]
         /\ \A j \in Jobs : j[1] # c => job'[j] = job[j]
         /\ \A i \in 1..Cardinality(Pages) :
              IF i <= Len(ps)
              THEN /\ job'[<<c, i>>].pc = "page" /\ job'[<<c, i>>].pin
                   /\ job'[<<c, i>>].page = ps[i] /\ job'[<<c, i>>].stamp = Absent
              ELSE job'[<<c, i>>] = NoJob
         /\ call' \in [Calls -> Call] /\ \A d \in Calls : d # c => call'[d] = call[d]
         /\ call'[c].at = "pin" /\ call'[c].found = found /\ call'[c].req = call[c].req
         /\ call'[c].pages = call[c].pages /\ call'[c].since = call[c].since
         /\ call'[c].results = call[c].results /\ call'[c].errors = call[c].errors
<1> DEFINE pins == PinsOf(call[c].req.urls)
           hits == [i \in DOMAIN pins |-> [page |-> pins[i], stamp |-> Absent]]
<1>0. c \in Calls
  BY DEF Calls
<1>1. /\ pins \in Seq(Pages) /\ IsInjective(pins)
      /\ Len(pins) \in Nat /\ Len(pins) <= Cardinality(Pages)
  BY <1>0, RequestFacts, PinsFacts
<1>2. /\ Spawn(c, hits, "page", TRUE)
      /\ call' = [call EXCEPT ![c].at = "pin", ![c].found = found]
  BY DEF Pin
<1>3. ps = pins
  OBVIOUS
<1>4. /\ ps \in Seq(Pages) /\ Len(ps) \in Nat /\ Len(ps) <= Cardinality(Pages)
      /\ DOMAIN ps = 1..Len(ps) /\ \A i \in 1..Len(ps) : ps[i] \in Pages
  BY <1>1, <1>3
<1>5. /\ job' \in [Jobs -> Job]
      /\ \A j \in Jobs : j[1] # c => job'[j] = job[j]
      /\ \A i \in 1..Cardinality(Pages) :
           IF i <= Len(ps)
           THEN /\ job'[<<c, i>>].pc = "page" /\ job'[<<c, i>>].pin
                /\ job'[<<c, i>>].page = ps[i] /\ job'[<<c, i>>].stamp = Absent
           ELSE job'[<<c, i>>] = NoJob
  <2>1. Len(hits) = Len(ps) /\ \A i \in 1..Len(ps) : hits[i].page = ps[i] /\ hits[i].stamp = Absent
    BY <1>3, <1>4
  <2>2. Absent \in Text0 /\ job \in [Jobs -> Job]
    BY <1>0 DEF TypeOK, Text0
  <2> HIDE DEF hits
  <2>3. Len(hits) \in Nat /\ \A i \in 1..Len(hits) : hits[i].page \in Pages /\ hits[i].stamp \in Text0
    BY <1>4, <2>1, <2>2
  <2>4. /\ job' \in [Jobs -> Job]
        /\ \A j \in Jobs : j[1] # c => job'[j] = job[j]
        /\ \A i \in 1..Cardinality(Pages) :
             IF i <= Len(hits)
             THEN /\ job'[<<c, i>>].pc = "page" /\ job'[<<c, i>>].pin = TRUE
                  /\ job'[<<c, i>>].page = hits[i].page /\ job'[<<c, i>>].stamp = hits[i].stamp
             ELSE job'[<<c, i>>] = NoJob
    BY <1>0, <1>2, <2>2, <2>3, SpawnFacts
  <2>5. \A i \in 1..Cardinality(Pages) : i <= Len(ps) => i \in 1..Len(ps)
    BY <1>4, ConstantFacts
  <2>6. QED
    BY <2>1, <2>4, <2>5
<1> HIDE DEF hits
<1>6. /\ call' \in [Calls -> Call] /\ \A d \in Calls : d # c => call'[d] = call[d]
      /\ call'[c].at = "pin" /\ call'[c].found = found /\ call'[c].req = call[c].req
      /\ call'[c].pages = call[c].pages /\ call'[c].since = call[c].since
      /\ call'[c].results = call[c].results /\ call'[c].errors = call[c].errors
  <2>1. call' = [call EXCEPT ![c] = [call[c] EXCEPT !.at = "pin", !.found = found]]
    BY <1>2
  <2>2. call[c] \in Call /\ call \in [Calls -> Call]
    BY <1>0 DEF TypeOK
  <2>3. [call[c] EXCEPT !.at = "pin", !.found = found] \in Call
    BY <2>2 DEF Call
  <2>4. QED
    BY <1>0, <2>1, <2>2, <2>3 DEF Call
<1>7. QED
  BY <1>5, <1>6

\* The metadata of the pinned pages is asked for.
LEMMA PinStep ==
  ASSUME Shape, NEW c \in Searches, call[c].at = "search", NEW found \in Seq(Hit), NoRepeats(found),
         Pin(c, found), UNCHANGED <<version, cached, extracted, keyLock, sem, briefing>>
  PROVE  Shape'
<1> DEFINE pins == PinsOf(call[c].req.urls)
           hits == [i \in DOMAIN pins |-> [page |-> pins[i], stamp |-> Absent]]
<1>0. c \in Calls /\ TypeOK /\ CallShape(c) /\ c \notin Topics
  BY ConstantFacts DEF Calls, Shape
<1>1. /\ pins \in Seq(Pages) /\ IsInjective(pins)
      /\ Len(pins) \in Nat /\ Len(pins) <= Cardinality(Pages)
  BY <1>0, RequestFacts, PinsFacts
<1>2. /\ Spawn(c, hits, "page", TRUE)
      /\ pageLock' = [p \in Pages |->
           IF \E i \in DOMAIN pins : pins[i] = p
           THEN Append(pageLock[p], <<c, CHOOSE i \in DOMAIN pins : pins[i] = p>>)
           ELSE pageLock[p]]
      /\ call' = [call EXCEPT ![c].at = "pin", ![c].found = found]
  BY DEF Pin
<1>3. PICK ps : ps = pins
  OBVIOUS
<1>4. /\ ps \in Seq(Pages) /\ Len(ps) \in Nat /\ Len(ps) <= Cardinality(Pages)
      /\ DOMAIN ps = 1..Len(ps) /\ \A i \in 1..Len(ps) : ps[i] \in Pages
      /\ \A i, n \in 1..Len(ps) : ps[i] = ps[n] => i = n
  BY <1>1, <1>3 DEF IsInjective
<1>5. Quiet(c)
  BY <1>0, QuietFacts
<1>6. /\ job' \in [Jobs -> Job]
      /\ \A j \in Jobs : j[1] # c => job'[j] = job[j]
      /\ \A i \in 1..Cardinality(Pages) :
           IF i <= Len(ps)
           THEN /\ job'[<<c, i>>].pc = "page" /\ job'[<<c, i>>].pin
                /\ job'[<<c, i>>].page = ps[i] /\ job'[<<c, i>>].stamp = Absent
           ELSE job'[<<c, i>>] = NoJob
  BY <1>0, <1>3, PinChanges
<1> HIDE DEF hits
<1>7. \A i \in 1..Cardinality(Pages) :
        IF i <= Len(ps)
        THEN job'[<<c, i>>].pc = "page" /\ job'[<<c, i>>].pin /\ job'[<<c, i>>].page \in Pages
        ELSE job'[<<c, i>>].pc = "none"
  <2>1. \A i \in 1..Cardinality(Pages) : i <= Len(ps) => i \in 1..Len(ps)
    BY <1>4, ConstantFacts
  <2>2. NoJob.pc = "none"
    BY DEF NoJob
  <2>3. QED
    BY <1>4, <1>6, <2>1, <2>2
<1>8. \A j \in Jobs : j[1] = c => /\ job'[j].pc \in {"none", "page"}
                                  /\ job'[j].pc = "page" => job'[j].pin /\ job'[j].page \in Pages
  BY <1>7, JobsFacts
<1>9. /\ call' \in [Calls -> Call] /\ \A d \in Calls : d # c => call'[d] = call[d]
      /\ call'[c].at = "pin" /\ call'[c].found = found /\ call'[c].req = call[c].req
      /\ call'[c].pages = call[c].pages
  BY <1>0, <1>3, PinChanges
<1>10. CallShape(c)'
  <2>1. PinsOf(call'[c].req.urls) = ps
    BY <1>3, <1>9
  <2>2. \A i \in 1..Cardinality(Pages) :
          IF i <= Len(ps) THEN /\ job'[<<c, i>>].pc # "none" /\ job'[<<c, i>>].pin
                               /\ job'[<<c, i>>].page = ps[i]
                          ELSE job'[<<c, i>>].pc = "none"
    BY <1>6, <1>7
  <2>3. NoRepeats(call'[c].pages)
    BY <1>0, <1>9 DEF CallShape
  <2>4. QED
    BY <1>9, <2>1, <2>2, <2>3 DEF CallShape
<1>11. \A j \in Jobs : JobShape(j)'
  <2>1. \A j \in Jobs : j[1] # c => JobShape(j)'
    BY <1>6, <1>9, OtherCalls, <1>0
  <2>2. \A j \in Jobs : j[1] = c => JobShape(j)'
    BY <1>8 DEF JobShape
  <2>3. QED
    BY <2>1, <2>2
<1>12. ASSUME NEW p \in Pages
       PROVE  /\ pageLock'[p] \in Seq(Jobs)
              /\ Serves(pageLock'[p], AtPage(p, {"page"})', AtPage(p, {"fetch"})')
  <2>1. pageLock[p] \in Seq(Jobs) /\ Serves(pageLock[p], AtPage(p, {"page"}), AtPage(p, {"fetch"}))
    BY DEF Shape, TypeOK, NothingIsLeaked
  <2>2. AtPage(p, {"fetch"})' = AtPage(p, {"fetch"})
    BY <1>5, <1>6, <1>8 DEF AtPage, Quiet
  <2>3. CASE ~\E i \in DOMAIN ps : ps[i] = p
    <3>1. pageLock'[p] = pageLock[p]
      BY <1>2, <1>3, <2>3
    <3>2. \A j \in Jobs : j[1] = c => ~(job'[j].pc = "page" /\ job'[j].page = p)
      <4>1. \A i \in 1..Cardinality(Pages) : i <= Len(ps) => i \in DOMAIN ps
        BY <1>4, ConstantFacts
      <4>2. \A i \in 1..Cardinality(Pages) : ~(job'[<<c, i>>].pc = "page" /\ job'[<<c, i>>].page = p)
        BY <1>6, <1>7, <2>3, <4>1
      <4>3. QED
        BY <4>2, JobsFacts
    <3>3. AtPage(p, {"page"})' = AtPage(p, {"page"})
      BY <1>5, <1>6, <3>2 DEF AtPage, Quiet
    <3>4. QED
      BY <2>1, <2>2, <3>1, <3>3
  <2>4. CASE \E i \in DOMAIN ps : ps[i] = p
    <3>1. PICK n : n = CHOOSE i \in DOMAIN ps : ps[i] = p
      OBVIOUS
    <3>2. n \in 1..Len(ps) /\ ps[n] = p
      BY <1>4, <2>4, <3>1
    <3>3. n \in 1..Cardinality(Pages) /\ \A i \in 1..Len(ps) : ps[i] = p <=> i = n
      BY <1>4, <3>2, ConstantFacts
    <3>4. pageLock'[p] = Append(pageLock[p], <<c, n>>)
      BY <1>2, <1>3, <2>4, <3>1
    <3>5. <<c, n>> \in Jobs /\ <<c, n>>[1] = c
      BY <1>0, <3>3, JobsFacts
    <3>6. <<c, n>> \notin AtPage(p, {"page"}) \cup AtPage(p, {"fetch"})
      BY <1>5, <3>5 DEF AtPage, Quiet
    <3>7. ASSUME NEW i \in 1..Cardinality(Pages)
          PROVE  (job'[<<c, i>>].pc = "page" /\ job'[<<c, i>>].page = p) <=> (i = n)
      <4>1. CASE i <= Len(ps)
        <5>1. i \in 1..Len(ps)
          BY <1>4, <4>1, ConstantFacts
        <5>2. (ps[i] = p) <=> (i = n)
          BY <3>3, <5>1
        <5>3. QED
          BY <1>6, <4>1, <5>2
      <4>2. CASE ~(i <= Len(ps))
        BY <1>4, <1>7, <3>2, <4>2
      <4>3. QED
        BY <4>1, <4>2
    <3>8. AtPage(p, {"page"})' = AtPage(p, {"page"}) \cup {<<c, n>>}
      <4>1. ASSUME NEW j \in Jobs, j[1] # c
            PROVE  (j \in AtPage(p, {"page"})') <=> (j \in AtPage(p, {"page"}) \cup {<<c, n>>})
        BY <1>6, <3>5, <4>1 DEF AtPage
      <4>2. ASSUME NEW j \in Jobs, j[1] = c
            PROVE  (j \in AtPage(p, {"page"})') <=> (j \in AtPage(p, {"page"}) \cup {<<c, n>>})
        <5>1. PICK i \in 1..Cardinality(Pages) : j = <<c, i>>
          BY <4>2, JobsFacts
        <5>2. (j \in AtPage(p, {"page"})') <=> (i = n)
          BY <3>7, <5>1 DEF AtPage
        <5>3. j \notin AtPage(p, {"page"})
          BY <1>5, <4>2 DEF AtPage, Quiet
        <5>4. QED
          BY <5>1, <5>2, <5>3
      <4>3. AtPage(p, {"page"})' \subseteq Jobs /\ AtPage(p, {"page"}) \cup {<<c, n>>} \subseteq Jobs
        BY <3>5 DEF AtPage
      <4>4. QED
        BY <4>1, <4>2, <4>3
    <3>9. QED
      BY <2>1, <2>2, <3>4, <3>5, <3>6, <3>8, QueueJoined, SMTT(30)
  <2>5. QED
    BY <2>3, <2>4
<1>13. NothingIsLeaked'
  <2>1. \A k \in ExtractionKeys : Serves(keyLock'[k], AtKey(k, {"key"})', AtKey(k, {"llm"})')
    <3>1. \A j \in Jobs : j[1] = c => job'[j].pc \notin {"key", "llm"}
      BY <1>8
    <3>2. QED
      BY <1>0, <1>5, <1>6, <3>1, QuietQueues
  <2>2. /\ IsInjective(sem') /\ ToSet(sem') = InSem'
        /\ \A i \in ToSet(sem') : job'[i].pc # "sem" => Permitted(i)'
    BY <1>0, <1>5, <1>6, <1>8, QuietSem
  <2>3. QED
    BY <1>12, <2>1, <2>2 DEF NothingIsLeaked, InSem
<1>14. TypeOK'
  <2>1. pageLock' \in [Pages -> Seq(Jobs)]
    <3>1. DOMAIN pageLock' = Pages /\ pageLock' = [p \in Pages |-> pageLock'[p]]
      BY <1>2
    <3>2. QED
      BY <1>12, <3>1
  <2>2. QED
    BY <1>0, <1>6, <1>9, <2>1 DEF TypeOK
<1>15. \A d \in Calls : CallShape(d)'
  BY <1>0, <1>6, <1>9, <1>10, OtherCalls
<1>16. (briefing.at = "idle" => \A d \in Topics : call[d].at = "idle")'
  BY <1>0, <1>9 DEF Shape, Calls
<1>17. OneEntryEach'
  BY DEF Shape, OneEntryEach
<1>18. QED
  BY <1>11, <1>13, <1>14, <1>15, <1>16, <1>17 DEF Shape

\* A list and a disjoint one after it.
LEMMA Joined ==
  ASSUME NEW S, NEW s \in Seq(S), NEW t \in Seq(S), IsInjective(s), IsInjective(t),
         ToSet(s) \cap ToSet(t) = {}, NEW u, u = s \o t
  PROVE  /\ u \in Seq(S) /\ IsInjective(u)
         /\ \A x : x \in ToSet(u) <=> x \in ToSet(s) \/ x \in ToSet(t)
         /\ \A i \in DOMAIN s : i \in DOMAIN u /\ u[i] = s[i]
<1>1. /\ u \in Seq(S) /\ Len(s) \in Nat /\ Len(t) \in Nat
      /\ DOMAIN u = 1..Len(s) + Len(t) /\ DOMAIN s = 1..Len(s) /\ DOMAIN t = 1..Len(t)
      /\ \A i \in DOMAIN s : i \in DOMAIN u /\ u[i] = s[i]
      /\ \A i \in DOMAIN t : Len(s) + i \in DOMAIN u /\ u[Len(s) + i] = t[i]
  OBVIOUS
<1>2. \A i \in DOMAIN u : \/ i \in DOMAIN s /\ u[i] = s[i]
                          \/ i - Len(s) \in DOMAIN t /\ u[i] = t[i - Len(s)]
  <2> SUFFICES ASSUME NEW i \in DOMAIN u
               PROVE  \/ i \in DOMAIN s /\ u[i] = s[i]
                      \/ i - Len(s) \in DOMAIN t /\ u[i] = t[i - Len(s)]
    OBVIOUS
  <2>1. CASE i <= Len(s)
    BY <1>1, <2>1
  <2>2. CASE ~(i <= Len(s))
    <3>1. i - Len(s) \in DOMAIN t /\ Len(s) + (i - Len(s)) = i
      BY <1>1, <2>2
    <3>2. QED
      BY <1>1, <3>1
  <2>3. QED
    BY <2>1, <2>2
<1>3. \A x : x \in ToSet(u) <=> x \in ToSet(s) \/ x \in ToSet(t)
  <2>1. \A x : x \in ToSet(u) => x \in ToSet(s) \/ x \in ToSet(t)
    BY <1>2 DEF ToSet
  <2>2. \A x : x \in ToSet(s) => x \in ToSet(u)
    BY <1>1 DEF ToSet
  <2>3. \A x : x \in ToSet(t) => x \in ToSet(u)
    BY <1>1 DEF ToSet
  <2>4. QED
    BY <2>1, <2>2, <2>3
<1>4. IsInjective(u)
  <2> SUFFICES ASSUME NEW i \in DOMAIN u, NEW n \in DOMAIN u, u[i] = u[n]
               PROVE  i = n
    BY DEF IsInjective
  <2>1. ASSUME NEW a \in DOMAIN s, NEW b \in DOMAIN t
        PROVE  s[a] # t[b]
    BY DEF ToSet
  <2>2. CASE i \in DOMAIN s /\ u[i] = s[i] /\ n \in DOMAIN s /\ u[n] = s[n]
    BY <2>2 DEF IsInjective
  <2>3. CASE /\ i - Len(s) \in DOMAIN t /\ u[i] = t[i - Len(s)]
             /\ n - Len(s) \in DOMAIN t /\ u[n] = t[n - Len(s)]
    <3>1. i - Len(s) = n - Len(s)
      BY <2>3 DEF IsInjective
    <3>2. QED
      BY <1>1, <3>1
  <2>4. \/ i \in DOMAIN s /\ u[i] = s[i]
        \/ i - Len(s) \in DOMAIN t /\ u[i] = t[i - Len(s)]
    BY <1>2
  <2>5. \/ n \in DOMAIN s /\ u[n] = s[n]
        \/ n - Len(s) \in DOMAIN t /\ u[n] = t[n - Len(s)]
    BY <1>2
  <2>6. QED
    BY <2>1, <2>2, <2>3, <2>4, <2>5
<1>5. QED
  BY <1>1, <1>3, <1>4

\* What a call that goes to work changes.
LEMMA WorkChanges ==
  ASSUME TypeOK, NEW c \in Calls, NEW pages \in Seq(Hit), NoRepeats(pages),
         NEW errors \in SUBSET (Pages \cup {NoPage}), Work(c, pages, errors)
  PROVE  /\ job' \in [Jobs -> Job]
         /\ \A j \in Jobs : j[1] # c => job'[j] = job[j]
         /\ \A i \in 1..Cardinality(Pages) :
              IF i <= Len(pages)
              THEN /\ job'[<<c, i>>].pc = "sem" /\ job'[<<c, i>>].pin = FALSE
                   /\ job'[<<c, i>>].page = pages[i].page /\ job'[<<c, i>>].stamp = pages[i].stamp
              ELSE job'[<<c, i>>] = NoJob
         /\ call' \in [Calls -> Call] /\ \A d \in Calls : d # c => call'[d] = call[d]
         /\ call'[c].at = "work" /\ call'[c].pages = pages /\ call'[c].found = <<>>
         /\ call'[c].req = call[c].req /\ call'[c].since = call[c].since
         /\ call'[c].results = call[c].results /\ call'[c].errors = errors
<1>0. TypeOK
  OBVIOUS
<1>1. /\ Len(pages) \in Nat /\ DOMAIN pages = 1..Len(pages)
      /\ \A i \in 1..Len(pages) : pages[i].page \in Pages /\ pages[i].stamp \in Versions
  <2>1. \A i \in 1..Len(pages) : pages[i] \in Hit
    OBVIOUS
  <2>2. QED
    BY <2>1 DEF Hit
<1>3. /\ Spawn(c, pages, "sem", FALSE)
      /\ call' = [call EXCEPT ![c].at = "work", ![c].pages = pages, ![c].found = <<>>,
                              ![c].errors = errors]
  BY DEF Work
<1>4. /\ job' \in [Jobs -> Job]
      /\ \A j \in Jobs : j[1] # c => job'[j] = job[j]
      /\ \A i \in 1..Cardinality(Pages) :
           IF i <= Len(pages)
           THEN /\ job'[<<c, i>>].pc = "sem" /\ job'[<<c, i>>].pin = FALSE
                /\ job'[<<c, i>>].page = pages[i].page /\ job'[<<c, i>>].stamp = pages[i].stamp
           ELSE job'[<<c, i>>] = NoJob
  <2>1. job \in [Jobs -> Job] /\ \A i \in 1..Len(pages) : pages[i].page \in Pages /\ pages[i].stamp \in Text0
    BY <1>0, <1>1 DEF TypeOK, Text0
  <2>2. QED
    BY <1>1, <1>3, <2>1, SpawnFacts
<1>5. /\ call' \in [Calls -> Call] /\ \A d \in Calls : d # c => call'[d] = call[d]
      /\ call'[c].at = "work" /\ call'[c].pages = pages /\ call'[c].found = <<>>
      /\ call'[c].req = call[c].req /\ call'[c].since = call[c].since
      /\ call'[c].results = call[c].results /\ call'[c].errors = errors
  <2> DEFINE r == [call[c] EXCEPT !.at = "work", !.pages = pages, !.found = <<>>, !.errors = errors]
  <2>1. call[c] \in Call /\ call \in [Calls -> Call]
    BY <1>0 DEF TypeOK
  <2>2. call' = [call EXCEPT ![c] = r]
    <3>1. call' = [[[[call EXCEPT ![c].at = "work"] EXCEPT ![c].pages = pages]
                          EXCEPT ![c].found = <<>>] EXCEPT ![c].errors = errors]
      BY <1>3
    <3>2. QED
      BY <2>1, <3>1
  <2>3. r \in Call /\ r.at = "work" /\ r.pages = pages /\ r.found = <<>> /\ r.req = call[c].req
        /\ r.since = call[c].since /\ r.results = call[c].results /\ r.errors = errors
    <3>1. <<>> \in Seq(Hit)
      OBVIOUS
    <3>2. QED
      BY <2>1, <3>1 DEF Call
  <2> HIDE DEF r
  <2>4. QED
    BY <2>1, <2>2, <2>3
<1>6. QED
  BY <1>4, <1>5

\* The jobs of a call queue for permits.
LEMMA WorkStep ==
  ASSUME Shape, NEW c \in Calls, Quiet(c), call[c].at \in {"search", "pin"},
         NEW pages \in Seq(Hit), NoRepeats(pages), NEW errors \in SUBSET (Pages \cup {NoPage}),
         Work(c, pages, errors),
         UNCHANGED <<version, cached, extracted, pageLock, keyLock, briefing>>
  PROVE  Shape'
<1> DEFINE new == [i \in DOMAIN pages |-> <<c, i>>]
<1>0. TypeOK /\ CallShape(c) /\ (briefing.at = "idle" => \A d \in Topics : call[d].at = "idle")
  BY DEF Shape
<1>1. /\ Len(pages) \in Nat /\ DOMAIN pages = 1..Len(pages)
      /\ \A i \in 1..Len(pages) : pages[i].page \in Pages /\ pages[i].stamp \in Versions
  <2>1. \A i \in 1..Len(pages) : pages[i] \in Hit
    OBVIOUS
  <2>2. QED
    BY <2>1 DEF Hit
<1>2. Len(pages) <= Cardinality(Pages) /\ Cardinality(Pages) \in Nat
  BY AtMostAllPages, ConstantFacts
<1>3. /\ Spawn(c, pages, "sem", FALSE) /\ sem' = sem \o new
      /\ call' = [call EXCEPT ![c].at = "work", ![c].pages = pages, ![c].found = <<>>,
                              ![c].errors = errors]
  BY DEF Work
<1>4. /\ job' \in [Jobs -> Job]
      /\ \A j \in Jobs : j[1] # c => job'[j] = job[j]
      /\ \A i \in 1..Cardinality(Pages) :
           IF i <= Len(pages)
           THEN /\ job'[<<c, i>>].pc = "sem" /\ job'[<<c, i>>].pin = FALSE
                /\ job'[<<c, i>>].page = pages[i].page /\ job'[<<c, i>>].stamp = pages[i].stamp
           ELSE job'[<<c, i>>] = NoJob
  BY <1>0, WorkChanges, ZenonT(30)
<1>5. \A i \in 1..Cardinality(Pages) :
        IF i <= Len(pages)
        THEN /\ job'[<<c, i>>].pc = "sem" /\ ~job'[<<c, i>>].pin
             /\ job'[<<c, i>>].page \in Pages /\ job'[<<c, i>>].stamp \in Versions
        ELSE job'[<<c, i>>].pc = "none"
  <2>1. \A i \in 1..Cardinality(Pages) : i <= Len(pages) => i \in 1..Len(pages)
    BY <1>1
  <2>2. NoJob.pc = "none"
    BY DEF NoJob
  <2>3. QED
    BY <1>1, <1>4, <2>1, <2>2
<1>6. \A j \in Jobs : j[1] = c =>
        /\ job'[j].pc \in {"none", "sem"}
        /\ job'[j].pc = "sem" <=> j[2] <= Len(pages)
        /\ job'[j].pc = "sem" => /\ ~job'[j].pin /\ job'[j].page \in Pages
                                 /\ job'[j].stamp \in Versions
  BY <1>5, JobsFacts
<1>7. /\ call' \in [Calls -> Call] /\ \A d \in Calls : d # c => call'[d] = call[d]
      /\ call'[c].at = "work" /\ call'[c].pages = pages /\ call'[c].found = <<>>
      /\ call'[c].req = call[c].req
  BY <1>0, WorkChanges
<1>8. CallShape(c)'
  <2>1. NoRepeats(<<>>)
    BY DEF NoRepeats
  <2>2. \A i \in 1..Cardinality(Pages) :
          IF i <= Len(pages)
          THEN /\ job'[<<c, i>>].pc # "none" /\ ~job'[<<c, i>>].pin
               /\ job'[<<c, i>>].page = pages[i].page /\ job'[<<c, i>>].stamp = pages[i].stamp
          ELSE job'[<<c, i>>].pc = "none"
    BY <1>4, <1>5
  <2>3. QED
    BY <1>7, <2>1, <2>2 DEF CallShape
<1>9. \A j \in Jobs : JobShape(j)'
  <2>1. \A j \in Jobs : j[1] # c => JobShape(j)'
    BY <1>4, <1>7, OtherCalls
  <2>2. \A j \in Jobs : j[1] = c => JobShape(j)'
    BY <1>6 DEF JobShape
  <2>3. QED
    BY <2>1, <2>2

<1>10. /\ sem \in Seq(Jobs) /\ IsInjective(sem) /\ ToSet(sem) = InSem
       /\ \A i \in ToSet(sem) : job[i].pc # "sem" => Permitted(i)
  BY DEF Shape, TypeOK, NothingIsLeaked, InSem
<1>11. /\ new \in Seq(Jobs) /\ IsInjective(new)
       /\ \A j : j \in ToSet(new) <=> \E i \in 1..Len(pages) : j = <<c, i>>
  <2>1. \A i \in 1..Len(pages) : <<c, i>> \in Jobs
    BY <1>1, <1>2, JobsFacts
  <2>2. new \in Seq(Jobs) /\ DOMAIN new = 1..Len(pages)
    BY <1>1, <2>1
  <2>3. \A i, n \in 1..Len(pages) : <<c, i>> = <<c, n>> => i = n
    OBVIOUS
  <2>4. QED
    BY <1>1, <2>2, <2>3 DEF IsInjective, ToSet
<1> HIDE DEF new
<1>12. ToSet(sem) \cap ToSet(new) = {}
  <2>1. \A j \in InSem : j[1] # c
    BY DEF InSem, Quiet
  <2>2. \A j \in ToSet(new) : j[1] = c
    BY <1>11
  <2>3. QED
    BY <1>10, <2>1, <2>2
<1>13. /\ sem' \in Seq(Jobs) /\ IsInjective(sem') /\ ToSet(sem') = ToSet(sem) \cup ToSet(new)
       /\ \A i \in DOMAIN sem : i \in DOMAIN sem' /\ sem'[i] = sem[i]
  <2>1. PICK u : u = sem \o new
    OBVIOUS
  <2>2. /\ sem \in Seq(Jobs) /\ new \in Seq(Jobs) /\ IsInjective(sem) /\ IsInjective(new)
        /\ ToSet(sem) \cap ToSet(new) = {} /\ u = sem \o new
    BY <1>10, <1>11, <1>12, <2>1
  <2>3. u \in Seq(Jobs) /\ IsInjective(u) /\ ToSet(u) = ToSet(sem) \cup ToSet(new)
    <3>1. u \in Seq(Jobs)
      BY <2>2
    <3>2. IsInjective(u)
      BY <2>2, Joined
    <3>3. \A x : x \in ToSet(u) <=> x \in ToSet(sem) \/ x \in ToSet(new)
      BY <2>2, Joined
    <3>4. QED
      BY <3>1, <3>2, <3>3
  <2>4. \A i \in DOMAIN sem : i \in DOMAIN u /\ u[i] = sem[i]
    BY <2>2, Joined
  <2>5. sem' = u
    BY <1>3, <2>1
  <2>6. QED
    BY <2>3, <2>4, <2>5
<1>14. ToSet(sem') = InSem'
  <2>1. ASSUME NEW j \in Jobs, j[1] # c
        PROVE  (j \in InSem') <=> (j \in ToSet(sem'))
    <3>1. j \notin ToSet(new)
      BY <1>11, <2>1
    <3>2. (j \in InSem') <=> (j \in InSem)
      BY <1>4, <2>1 DEF InSem
    <3>3. QED
      BY <1>10, <1>13, <3>1, <3>2
  <2>2. ASSUME NEW j \in Jobs, j[1] = c
        PROVE  (j \in InSem') <=> (j \in ToSet(sem'))
    <3>1. j \notin ToSet(sem)
      BY <1>10, <2>2 DEF InSem, Quiet
    <3>2. PICK i \in 1..Cardinality(Pages) : j = <<c, i>> /\ i = j[2]
      BY <2>2, JobsFacts
    <3>3. (j \in ToSet(new)) <=> (i <= Len(pages))
      <4>1. (i <= Len(pages)) => (i \in 1..Len(pages))
        BY <1>1
      <4>2. \A n \in 1..Len(pages) : n <= Len(pages)
        BY <1>1
      <4>3. QED
        BY <1>11, <3>2, <4>1, <4>2
    <3>4. (j \in InSem') <=> (i <= Len(pages))
      BY <1>6, <2>2, <3>2 DEF InSem
    <3>5. QED
      BY <1>13, <3>1, <3>3, <3>4
  <2>3. InSem' \subseteq Jobs /\ ToSet(sem') \subseteq Jobs
    BY <1>13 DEF InSem, ToSet
  <2>4. QED
    BY <2>1, <2>2, <2>3
<1>15. ASSUME NEW i \in ToSet(sem'), job'[i].pc # "sem"
       PROVE  Permitted(i)'
  <2>1. i \in ToSet(sem)
    <3>1. \A j \in ToSet(new) : job'[j].pc = "sem"
      BY <1>5, <1>11, <1>1, <1>2
    <3>2. QED
      BY <1>13, <1>15, <3>1
  <2>2. job'[i] = job[i]
    BY <1>4, <1>10, <2>1 DEF InSem, Quiet
  <2>3. PICK n \in DOMAIN sem : n <= MaxConcurrent /\ sem[n] = i
    BY <1>10, <1>15, <2>1, <2>2 DEF Permitted
  <2>4. QED
    BY <1>13, <2>3 DEF Permitted
<1>16. NothingIsLeaked'
  <2>1. \A k \in ExtractionKeys : Serves(keyLock'[k], AtKey(k, {"key"})', AtKey(k, {"llm"})')
    <3>1. \A j \in Jobs : j[1] = c => job'[j].pc \notin {"key", "llm"}
      BY <1>6
    <3>2. QED
      BY <1>4, <3>1, QuietQueues
  <2>2. \A p \in Pages : Serves(pageLock'[p], AtPage(p, {"page"})', AtPage(p, {"fetch"})')
    <3>1. \A j \in Jobs : j[1] = c => job'[j].pc \notin {"page", "fetch"}
      BY <1>6
    <3>2. QED
      BY <1>4, <3>1, QuietPages
  <2>3. QED
    BY <1>13, <1>14, <1>15, <2>1, <2>2 DEF NothingIsLeaked, InSem
<1>17. TypeOK'
  BY <1>0, <1>4, <1>7, <1>13 DEF TypeOK
<1>18. \A d \in Calls : CallShape(d)'
  BY <1>4, <1>7, <1>8, OtherCalls
<1>19. (briefing.at = "idle" => \A d \in Topics : call[d].at = "idle")'
  BY <1>0, <1>7 DEF Calls
<1>20. OneEntryEach'
  BY DEF Shape, OneEntryEach
<1>21. QED
  BY <1>9, <1>16, <1>17, <1>18, <1>19, <1>20 DEF Shape

LEMMA SucceededFacts ==
  ASSUME NEW jobs \in Seq(Job), NEW ok, ok = Succeeded(jobs)
  PROVE  /\ ok \in Seq(Job)
         /\ \E f \in [1..Len(ok) -> 1..Len(jobs)] :
              /\ \A n \in 1..Len(ok) : jobs[f[n]].pc = "done" /\ ok[n] = jobs[f[n]]
              /\ \A i \in 1..Len(jobs) : jobs[i].pc = "done" => \E n \in 1..Len(ok) : f[n] = i
              /\ \A n, m \in 1..Len(ok) : n < m => f[n] < f[m]
<1> DEFINE I == {i \in DOMAIN jobs : jobs[i].pc = "done"}
<1>1. I \in SUBSET (1..Len(jobs)) /\ \A i \in 1..Len(jobs) : i \in I <=> jobs[i].pc = "done"
  OBVIOUS
<1>2. ok = Picked(jobs, I)
  BY DEF Succeeded
<1> HIDE DEF I
<1>3. ok \in Seq(Job)
  BY <1>1, <1>2, PickedPlaces
<1>4. PICK f \in [1..Len(ok) -> I] :
        /\ \A n \in 1..Len(ok) : ok[n] = jobs[f[n]]
        /\ \A i \in I : \E n \in 1..Len(ok) : f[n] = i
        /\ \A n, m \in 1..Len(ok) : n < m => f[n] < f[m]
  BY <1>1, <1>2, PickedPlaces
<1>5. f \in [1..Len(ok) -> 1..Len(jobs)]
  BY <1>1
<1>6. \A n \in 1..Len(ok) : jobs[f[n]].pc = "done" /\ ok[n] = jobs[f[n]]
  BY <1>1, <1>4
<1>7. \A i \in 1..Len(jobs) : jobs[i].pc = "done" => \E n \in 1..Len(ok) : f[n] = i
  BY <1>1, <1>4
<1>8. QED
  BY <1>3, <1>4, <1>5, <1>6, <1>7

\* The jobs that a call awaits: those that succeeded are taken in their order.
LEMMA AwaitedFacts ==
  ASSUME TypeOK, \A j \in Jobs : JobShape(j), NEW c \in Calls, NEW n \in Nat, n <= Cardinality(Pages),
         \A i \in 1..n : job[<<c, i>>].pc # "none",
         NEW jobs, jobs = JobsOf(c, n), NEW ok, ok = Succeeded(jobs)
  PROVE  /\ ok \in Seq(Job) /\ Len(ok) \in Nat
         /\ \E f \in [1..Len(ok) -> 1..n] :
              /\ \A k \in 1..Len(ok) :
                   /\ ok[k] = job[<<c, f[k]>>] /\ ok[k].pc = "done"
                   /\ ok[k].page \in Pages /\ ok[k].stamp \in Versions /\ ok[k].text \in Versions
              /\ \A i \in 1..n : job[<<c, i>>].pc = "done" => \E k \in 1..Len(ok) : f[k] = i
              /\ \A k, l \in 1..Len(ok) : k < l => f[k] < f[l]
         /\ FailedPages(jobs) \subseteq Pages
         /\ \A i \in 1..n : job[<<c, i>>].pc = "failed" => job[<<c, i>>].page \in FailedPages(jobs)
<1>1. \A i \in 1..n : <<c, i>> \in Jobs /\ job[<<c, i>>] \in Job /\ JobShape(<<c, i>>)
  <2>1. \A i \in 1..n : i \in 1..Cardinality(Pages)
    BY ConstantFacts
  <2>2. QED
    BY <2>1, JobsFacts DEF TypeOK
<1>2. jobs = [i \in 1..n |-> job[<<c, i>>]]
  BY DEF JobsOf
<1>3. /\ jobs \in Seq(Job) /\ Len(jobs) = n /\ DOMAIN jobs = 1..n
      /\ \A i \in 1..n : jobs[i] = job[<<c, i>>]
  BY <1>1, <1>2
<1>4. \A i \in 1..n : /\ job[<<c, i>>].page \in Pages
                      /\ job[<<c, i>>].pc = "done" => /\ job[<<c, i>>].stamp \in Versions
                                                      /\ job[<<c, i>>].text \in Versions
  BY <1>1 DEF JobShape
<1>5. ok \in Seq(Job) /\ Len(ok) \in Nat
  BY <1>3, SucceededFacts
<1>6. PICK f \in [1..Len(ok) -> 1..Len(jobs)] :
        /\ \A k \in 1..Len(ok) : jobs[f[k]].pc = "done" /\ ok[k] = jobs[f[k]]
        /\ \A i \in 1..Len(jobs) : jobs[i].pc = "done" => \E k \in 1..Len(ok) : f[k] = i
        /\ \A k, l \in 1..Len(ok) : k < l => f[k] < f[l]
  <2>1. jobs \in Seq(Job) /\ ok = Succeeded(jobs)
    BY <1>3
  <2>2. QED
    BY <2>1, SucceededFacts
<1>7. f \in [1..Len(ok) -> 1..n] /\ \A k \in 1..Len(ok) : f[k] \in 1..n
  BY <1>3
<1>8. ASSUME NEW k \in 1..Len(ok)
      PROVE  /\ ok[k] = job[<<c, f[k]>>] /\ ok[k].pc = "done"
             /\ ok[k].page \in Pages /\ ok[k].stamp \in Versions /\ ok[k].text \in Versions
  BY <1>3, <1>4, <1>6, <1>7
<1>9. \A i \in 1..n : job[<<c, i>>].pc = "done" => \E k \in 1..Len(ok) : f[k] = i
  BY <1>3, <1>6
<1>10. FailedPages(jobs) \subseteq Pages
  <2>1. \A x \in ToSet(jobs) : x.page \in Pages
    BY <1>3, <1>4 DEF ToSet
  <2>2. QED
    BY <2>1 DEF FailedPages
<1>11. ASSUME NEW i \in 1..n, job[<<c, i>>].pc = "failed"
       PROVE  job[<<c, i>>].page \in FailedPages(jobs)
  <2>1. jobs[i] \in ToSet(jobs) /\ jobs[i].pc = "failed"
    BY <1>3, <1>11 DEF ToSet
  <2>2. QED
    BY <1>3, <2>1 DEF FailedPages
<1>12. \A k, l \in 1..Len(ok) : k < l => f[k] < f[l]
  BY <1>6
<1>13. QED
  BY <1>5, <1>7, <1>8, <1>9, <1>10, <1>11, <1>12

\* The pinned pages that were fetched, as hits.
PinnedHits(c) ==
  LET ok == Succeeded(JobsOf(c, Len(PinsOf(call[c].req.urls))))
  IN  [i \in DOMAIN ok |-> [page |-> ok[i].page, stamp |-> ok[i].stamp]]

LEMMA PinnedFacts ==
  ASSUME Shape, NEW c \in Calls, call[c].at = "pin", NEW hits, hits = PinnedHits(c),
         NEW ps, ps = PinsOf(call[c].req.urls), NEW failed, failed = FailedPages(JobsOf(c, Len(ps)))
  PROVE  /\ hits \in Seq(Hit) /\ NoRepeats(hits)
         /\ \E f \in [1..Len(hits) -> 1..Len(ps)] :
              /\ \A n \in 1..Len(hits) :
                   /\ job[<<c, f[n]>>].pc = "done" /\ <<c, f[n]>> \in Jobs
                   /\ hits[n].page = job[<<c, f[n]>>].page /\ hits[n].stamp = job[<<c, f[n]>>].stamp
                   /\ hits[n].page = ps[f[n]]
              /\ \A i \in 1..Len(ps) : job[<<c, i>>].pc = "done" => \E n \in 1..Len(hits) : f[n] = i
         /\ failed \subseteq Pages
         /\ \A i \in 1..Len(ps) : job[<<c, i>>].pc = "failed" => ps[i] \in failed
<1>2. /\ ps \in Seq(Pages) /\ Len(ps) \in Nat /\ Len(ps) <= Cardinality(Pages) /\ IsInjective(ps)
      /\ TypeOK /\ \A j \in Jobs : JobShape(j)
  BY RequestFacts, PinsFacts DEF Shape
<1>3. \A i \in 1..Len(ps) : i \in 1..Cardinality(Pages) /\ i <= Len(ps) /\ <<c, i>> \in Jobs
  BY <1>2, ConstantFacts, JobsFacts
<1>4. \A i \in 1..Len(ps) : job[<<c, i>>].pc # "none" /\ job[<<c, i>>].page = ps[i]
  BY <1>3 DEF Shape, CallShape
<1>5. PICK jobs, ok : jobs = JobsOf(c, Len(ps)) /\ ok = Succeeded(jobs)
  OBVIOUS
<1>6. \A i \in 1..Len(ps) : job[<<c, i>>].pc # "none"
  BY <1>4
<1>7. /\ ok \in Seq(Job) /\ Len(ok) \in Nat /\ FailedPages(jobs) \subseteq Pages
      /\ \A i \in 1..Len(ps) : job[<<c, i>>].pc = "failed" => job[<<c, i>>].page \in FailedPages(jobs)
  BY <1>2, <1>5, <1>6, AwaitedFacts
<1>8. PICK f \in [1..Len(ok) -> 1..Len(ps)] :
        /\ \A k \in 1..Len(ok) :
             /\ ok[k] = job[<<c, f[k]>>] /\ ok[k].pc = "done"
             /\ ok[k].page \in Pages /\ ok[k].stamp \in Versions /\ ok[k].text \in Versions
        /\ \A i \in 1..Len(ps) : job[<<c, i>>].pc = "done" => \E k \in 1..Len(ok) : f[k] = i
        /\ \A k, l \in 1..Len(ok) : k < l => f[k] < f[l]
  BY <1>2, <1>5, <1>6, AwaitedFacts, SMTT(30)
<1>9. hits = [n \in 1..Len(ok) |-> [page |-> ok[n].page, stamp |-> ok[n].stamp]]
  BY <1>5, <1>7 DEF PinnedHits
<1>10. /\ hits \in Seq(Hit) /\ Len(hits) = Len(ok) /\ DOMAIN hits = 1..Len(ok)
       /\ \A n \in 1..Len(ok) : hits[n].page = ok[n].page /\ hits[n].stamp = ok[n].stamp
  <2>1. \A n \in 1..Len(ok) : [page |-> ok[n].page, stamp |-> ok[n].stamp] \in Hit
    BY <1>8 DEF Hit
  <2>2. QED
    BY <1>7, <1>9, <2>1
<1>11. \A n \in 1..Len(hits) :
         /\ job[<<c, f[n]>>].pc = "done" /\ <<c, f[n]>> \in Jobs
         /\ hits[n].page = job[<<c, f[n]>>].page /\ hits[n].stamp = job[<<c, f[n]>>].stamp
         /\ hits[n].page = ps[f[n]]
  <2>1. \A n \in 1..Len(ok) : f[n] \in 1..Len(ps)
    OBVIOUS
  <2>2. QED
    BY <1>3, <1>4, <1>8, <1>10, <2>1
<1>12. NoRepeats(hits)
  <2>1. /\ Len(ok) \in Nat /\ Len(ps) \in Nat /\ f \in [1..Len(ok) -> 1..Len(ps)]
        /\ ps \in Seq(Pages) /\ IsInjective(ps) /\ DOMAIN hits = 1..Len(ok)
        /\ \A k, l \in 1..Len(ok) : k < l => f[k] < f[l]
    BY <1>2, <1>7, <1>8, <1>10
  <2>2. \A k \in 1..Len(ok) : hits[k].page = ps[f[k]]
    BY <1>10, <1>11
  <2>3. PICK n \in Nat, m \in Nat : n = Len(ok) /\ m = Len(ps)
    BY <2>1
  <2>4. /\ f \in [1..n -> 1..m] /\ (\A k, l \in 1..n : k < l => f[k] < f[l])
        /\ (\A i, j \in 1..m : ps[i] = ps[j] => i = j) /\ DOMAIN hits = 1..n
        /\ \A k \in 1..n : hits[k].page = ps[f[k]]
    BY <2>1, <2>2, <2>3 DEF IsInjective
  <2>5. ASSUME NEW k \in 1..n, NEW l \in 1..n, k < l
        PROVE  hits[k].page # hits[l].page
    <3>1. f[k] \in 1..m /\ f[l] \in 1..m /\ f[k] < f[l]
      BY <2>4, <2>5
    <3>2. f[k] # f[l]
      BY <3>1
    <3>3. QED
      BY <2>4, <3>1, <3>2
  <2>6. \A k, l \in 1..n : k = l \/ k < l \/ l < k
    OBVIOUS
  <2>7. QED
    BY <2>4, <2>5, <2>6 DEF NoRepeats
<1>13. \A i \in 1..Len(ps) : job[<<c, i>>].pc = "done" => \E n \in 1..Len(hits) : f[n] = i
  BY <1>8, <1>10
<1>14. failed \subseteq Pages /\ \A i \in 1..Len(ps) : job[<<c, i>>].pc = "failed" => ps[i] \in failed
  BY <1>4, <1>5, <1>7
<1>15. f \in [1..Len(hits) -> 1..Len(ps)]
  BY <1>10
<1>16. QED
  BY <1>10, <1>11, <1>12, <1>13, <1>14, <1>15

Result == [page : Pages, stamp : Versions, text : Versions]

\* What the pages of a call came to.
WorkedResults(c) ==
  LET ok == Succeeded(JobsOf(c, Len(call[c].pages)))
  IN  [i \in DOMAIN ok |-> [page |-> ok[i].page, stamp |-> ok[i].stamp, text |-> ok[i].text]]

\* f says which of the pages each result came from.
Numbered(c, results, pages, f) ==
  /\ \A n \in 1..Len(results) :
       /\ job[<<c, f[n]>>].pc = "done" /\ <<c, f[n]>> \in Jobs
       /\ results[n].page = job[<<c, f[n]>>].page
       /\ results[n].stamp = job[<<c, f[n]>>].stamp
       /\ results[n].text = job[<<c, f[n]>>].text
       /\ results[n].page = pages[f[n]].page /\ results[n].stamp = pages[f[n]].stamp
  /\ \A i \in 1..Len(pages) : job[<<c, i>>].pc = "done" => \E n \in 1..Len(results) : f[n] = i
  /\ \A n, m \in 1..Len(results) : n < m => f[n] < f[m]

LEMMA WorkedFacts ==
  ASSUME Shape, NEW c \in Calls, call[c].at = "work", NEW results, results = WorkedResults(c),
         NEW pages, pages = call[c].pages, NEW failed, failed = FailedPages(JobsOf(c, Len(pages)))
  PROVE  /\ results \in Seq(Result) /\ NoRepeats(results) /\ NoRepeats(pages)
         /\ pages \in Seq(Hit) /\ Len(pages) <= Cardinality(Pages)
         /\ \E f \in [1..Len(results) -> 1..Len(pages)] : Numbered(c, results, pages, f)
         /\ failed \subseteq Pages
         /\ \A i \in 1..Len(pages) : job[<<c, i>>].pc = "failed" => pages[i].page \in failed
<1>1. TypeOK /\ (\A j \in Jobs : JobShape(j)) /\ call[c] \in Call /\ CallShape(c)
  BY RequestFacts DEF Shape
<1>2. /\ pages \in Seq(Hit) /\ Len(pages) \in Nat /\ NoRepeats(pages)
      /\ \A i \in 1..Len(pages) : pages[i] \in Hit
  BY <1>1 DEF Call, CallShape
<1>3. Len(pages) <= Cardinality(Pages)
  BY <1>2, AtMostAllPages
<1>4. \A i \in 1..Len(pages) : i \in 1..Cardinality(Pages) /\ i <= Len(pages) /\ <<c, i>> \in Jobs
  BY <1>2, <1>3, ConstantFacts, JobsFacts
<1>5. \A i \in 1..Len(pages) : /\ job[<<c, i>>].pc # "none" /\ job[<<c, i>>].page = pages[i].page
                               /\ job[<<c, i>>].stamp = pages[i].stamp
  BY <1>1, <1>4 DEF CallShape
<1>6. PICK jobs, ok : jobs = JobsOf(c, Len(pages)) /\ ok = Succeeded(jobs)
  OBVIOUS
<1>7. \A i \in 1..Len(pages) : job[<<c, i>>].pc # "none"
  BY <1>5
<1>8. /\ ok \in Seq(Job) /\ Len(ok) \in Nat /\ FailedPages(jobs) \subseteq Pages
      /\ \A i \in 1..Len(pages) : job[<<c, i>>].pc = "failed" => job[<<c, i>>].page \in FailedPages(jobs)
  BY <1>1, <1>2, <1>3, <1>6, <1>7, AwaitedFacts
<1>9. PICK f \in [1..Len(ok) -> 1..Len(pages)] :
        /\ \A k \in 1..Len(ok) :
             /\ ok[k] = job[<<c, f[k]>>] /\ ok[k].pc = "done"
             /\ ok[k].page \in Pages /\ ok[k].stamp \in Versions /\ ok[k].text \in Versions
        /\ \A i \in 1..Len(pages) : job[<<c, i>>].pc = "done" => \E k \in 1..Len(ok) : f[k] = i
        /\ \A k, l \in 1..Len(ok) : k < l => f[k] < f[l]
  <2>1. PICK n \in Nat : n = Len(pages) /\ n <= Cardinality(Pages)
    BY <1>2, <1>3
  <2>2. jobs = JobsOf(c, n) /\ ok = Succeeded(jobs) /\ \A i \in 1..n : job[<<c, i>>].pc # "none"
    BY <1>6, <1>7, <2>1
  <2>3. PICK f \in [1..Len(ok) -> 1..n] :
          /\ \A k \in 1..Len(ok) :
               /\ ok[k] = job[<<c, f[k]>>] /\ ok[k].pc = "done"
               /\ ok[k].page \in Pages /\ ok[k].stamp \in Versions /\ ok[k].text \in Versions
          /\ \A i \in 1..n : job[<<c, i>>].pc = "done" => \E k \in 1..Len(ok) : f[k] = i
          /\ \A k, l \in 1..Len(ok) : k < l => f[k] < f[l]
    <3>1. TypeOK /\ \A j \in Jobs : JobShape(j)
      BY <1>1
    <3>2. QED
      BY <3>1, <2>1, <2>2, AwaitedFacts, SMTT(60)
  <2>4. QED
    BY <2>1, <2>3
<1>10. results = [n \in 1..Len(ok) |-> [page |-> ok[n].page, stamp |-> ok[n].stamp, text |-> ok[n].text]]
  BY <1>6, <1>8 DEF WorkedResults
<1>11. /\ results \in Seq(Result) /\ Len(results) = Len(ok) /\ DOMAIN results = 1..Len(ok)
       /\ \A n \in 1..Len(ok) : /\ results[n].page = ok[n].page /\ results[n].stamp = ok[n].stamp
                                /\ results[n].text = ok[n].text
  <2>1. \A n \in 1..Len(ok) : [page |-> ok[n].page, stamp |-> ok[n].stamp, text |-> ok[n].text] \in Result
    BY <1>9 DEF Result
  <2>2. QED
    BY <1>8, <1>10, <2>1
<1>12. ASSUME NEW n \in 1..Len(results)
       PROVE  /\ job[<<c, f[n]>>].pc = "done" /\ <<c, f[n]>> \in Jobs
              /\ results[n].page = job[<<c, f[n]>>].page
              /\ results[n].stamp = job[<<c, f[n]>>].stamp
              /\ results[n].text = job[<<c, f[n]>>].text
              /\ results[n].page = pages[f[n]].page /\ results[n].stamp = pages[f[n]].stamp
  <2>1. n \in 1..Len(ok) /\ f[n] \in 1..Len(pages)
    BY <1>11
  <2>2. QED
    BY <1>4, <1>5, <1>9, <1>11, <2>1
<1>13. NoRepeats(results)
  <2>1. /\ Len(ok) \in Nat /\ Len(pages) \in Nat /\ f \in [1..Len(ok) -> 1..Len(pages)]
        /\ DOMAIN results = 1..Len(ok) /\ \A k, l \in 1..Len(ok) : k < l => f[k] < f[l]
    BY <1>2, <1>8, <1>9, <1>11
  <2>2. \A i, j \in 1..Len(pages) : pages[i].page = pages[j].page => i = j
    BY <1>2 DEF NoRepeats
  <2>3. PICK n \in Nat, m \in Nat : n = Len(ok) /\ m = Len(pages)
    BY <2>1
  <2>4. /\ f \in [1..n -> 1..m] /\ (\A k, l \in 1..n : k < l => f[k] < f[l])
        /\ (\A i, j \in 1..m : pages[i].page = pages[j].page => i = j) /\ DOMAIN results = 1..n
        /\ \A k \in 1..n : results[k].page = pages[f[k]].page
    BY <1>11, <1>12, <2>1, <2>2, <2>3
  <2>5. ASSUME NEW k \in 1..n, NEW l \in 1..n, k < l
        PROVE  results[k].page # results[l].page
    <3>1. f[k] \in 1..m /\ f[l] \in 1..m /\ f[k] < f[l]
      BY <2>4, <2>5
    <3>2. f[k] # f[l]
      BY <3>1
    <3>3. results[k].page = pages[f[k]].page /\ results[l].page = pages[f[l]].page
      BY <2>4
    <3>4. pages[f[k]].page # pages[f[l]].page
      BY <2>2, <2>3, <3>1, <3>2
    <3>5. QED
      BY <3>3, <3>4
  <2>6. \A k, l \in 1..n : k = l \/ k < l \/ l < k
    OBVIOUS
  <2>7. ASSUME NEW k \in 1..n, NEW l \in 1..n, results[k].page = results[l].page
        PROVE  k = l
    BY <2>5, <2>6, <2>7
  <2>8. QED
    BY <2>4, <2>7 DEF NoRepeats
<1>14. \A i \in 1..Len(pages) : job[<<c, i>>].pc = "done" => \E n \in 1..Len(results) : f[n] = i
  BY <1>9, <1>11
<1>15. \A n, m \in 1..Len(results) : n < m => f[n] < f[m]
  BY <1>9, <1>11
<1>16. failed \subseteq Pages /\ \A i \in 1..Len(pages) : job[<<c, i>>].pc = "failed" => pages[i].page \in failed
  BY <1>5, <1>6, <1>8
<1>17. f \in [1..Len(results) -> 1..Len(pages)]
  BY <1>11
<1>18. Numbered(c, results, pages, f)
  BY <1>12, <1>14, <1>15 DEF Numbered
<1>19. QED
  BY <1>2, <1>3, <1>11, <1>13, <1>16, <1>17, <1>18

LEMMA StartedFacts ==
  ASSUME TypeOK, NEW req \in Requests \cup {TopicRequest(f) : f \in BOOLEAN}
  PROVE  /\ Started(req) \in Call /\ Started(req).at = "search" /\ Started(req).req = req
         /\ Started(req).found = <<>> /\ Started(req).pages = <<>> /\ Started(req).results = <<>>
         /\ Started(req).since = IF req.force THEN version ELSE [p \in Pages |-> 1]
         /\ Started(req).errors \subseteq {NoPage}
<1> DEFINE since == IF req.force THEN version ELSE [p \in Pages |-> 1]
           errors == {NoPage : u \in {u \in ToSet(req.urls) : PageId(u) = NoPage}}
<1>1. NoRequest \in Requests \cup {TopicRequest(f) : f \in BOOLEAN}
  BY DEF NoRequest
<1>2. since \in [Pages -> Versions] /\ errors \subseteq {NoPage}
  <2>1. version \in [Pages -> Versions] /\ [p \in Pages |-> 1] \in [Pages -> Versions]
    BY ConstantFacts DEF TypeOK
  <2>2. since \in [Pages -> Versions]
    BY <2>1
  <2>3. errors \subseteq {NoPage}
    OBVIOUS
  <2>4. QED
    BY <2>2, <2>3
<1>3. Started(req) = [at |-> "search", req |-> req, since |-> since, found |-> <<>>,
                      pages |-> <<>>, results |-> <<>>, errors |-> errors]
  <2>1. NoCall.since = [p \in Pages |-> 1]
    BY DEF NoCall
  <2>2. Started(req) = [NoCall EXCEPT !.at = "search", !.req = req,
                          !.since = IF req.force THEN version ELSE NoCall.since, !.errors = errors]
    BY DEF Started
  <2>3. Started(req) = [NoCall EXCEPT !.at = "search", !.req = req, !.since = since, !.errors = errors]
    BY <2>1, <2>2
  <2> HIDE DEF since, errors
  <2>4. QED
    BY <2>3 DEF NoCall
<1> HIDE DEF since, errors
<1>4. <<>> \in Seq(Hit) /\ <<>> \in Seq([page : Pages, stamp : Versions, text : Versions])
  OBVIOUS
<1>5. Started(req) \in Call
  BY <1>2, <1>3, <1>4 DEF Call
<1>6. QED
  BY <1>2, <1>3, <1>5 DEF since

\* The clauses of Shape that hang on nothing but calls and jobs.
LEMMA StartStep ==
  ASSUME Shape, UNCHANGED <<version, cached, extracted, pageLock, keyLock, sem, job>>,
         DOMAIN call' = Calls, call' = [c \in Calls |-> call'[c]],
         \A c \in Calls : \/ call'[c] = call[c]
                          \/ \E req \in Requests \cup {TopicRequest(f) : f \in BOOLEAN} :
                               call[c].at = "idle" /\ call'[c] = Started(req),
         briefing' \in Briefing, briefing'.at = "idle" => \A c \in Topics : call'[c].at = "idle"
  PROVE  Shape'
<1>1. TypeOK
  BY DEF Shape
<1>2. ASSUME NEW c \in Calls
      PROVE  /\ call'[c] \in Call
             /\ call'[c] = call[c] \/ (/\ call[c].at = "idle" /\ call'[c].at = "search"
                                       /\ call'[c].found = <<>> /\ call'[c].pages = <<>>)
  <2>1. CASE call'[c] = call[c]
    BY <1>1, <2>1 DEF TypeOK
  <2>2. ASSUME NEW req \in Requests \cup {TopicRequest(f) : f \in BOOLEAN},
               call[c].at = "idle", call'[c] = Started(req)
        PROVE  /\ call'[c] \in Call
               /\ call[c].at = "idle" /\ call'[c].at = "search"
               /\ call'[c].found = <<>> /\ call'[c].pages = <<>>
    BY <1>1, <2>2, StartedFacts
  <2>3. QED
    BY <2>1, <2>2
<1>3. call' \in [Calls -> Call]
  BY <1>2
<1>4. TypeOK'
  BY <1>1, <1>3 DEF TypeOK
<1>5. ASSUME NEW c \in Calls
      PROVE  CallShape(c)'
  <2>1. CallShape(c)
    BY DEF Shape
  <2>2. CASE call'[c] = call[c]
    BY <2>1, <2>2 DEF CallShape
  <2>3. CASE /\ call[c].at = "idle" /\ call'[c].at = "search"
             /\ call'[c].found = <<>> /\ call'[c].pages = <<>>
    <3>1. NoRepeats(<<>>)
      BY DEF NoRepeats
    <3>2. \A i \in 1..Cardinality(Pages) : job'[<<c, i>>].pc = "none"
      BY <2>1, <2>3 DEF CallShape
    <3>3. QED
      BY <2>3, <3>1, <3>2 DEF CallShape
  <2>4. QED
    BY <1>2, <2>2, <2>3
<1>6. NothingIsLeaked'
  BY DEF Shape, NothingIsLeaked, AtPage, AtKey, Key, Permitted
<1>7. OneEntryEach' /\ \A j \in Jobs : JobShape(j)'
  BY DEF Shape, OneEntryEach, JobShape
<1>8. QED
  BY <1>4, <1>5, <1>6, <1>7 DEF Shape

LEMMA SearchKeepsShape ==
  ASSUME Shape, NEW c \in Calls, Search(c)
  PROVE  Shape'
<1>1. /\ c \in Searches /\ call[c].at = "idle" /\ c \notin Topics
      /\ UNCHANGED <<version, cached, extracted, pageLock, keyLock, sem, job, briefing>>
  BY ConstantFacts DEF Search
<1>2. PICK req \in Requests : call' = [call EXCEPT ![c] = Started(req)]
  BY DEF Search
<1>3. call \in [Calls -> Call] /\ briefing \in Briefing
      /\ (briefing.at = "idle" => \A d \in Topics : call[d].at = "idle")
  BY DEF Shape, TypeOK
<1>4. /\ DOMAIN call' = Calls /\ call' = [d \in Calls |-> call'[d]]
      /\ call'[c] = Started(req) /\ \A d \in Calls : d # c => call'[d] = call[d]
  BY <1>2, <1>3
<1>5. \A d \in Calls : \/ call'[d] = call[d]
                       \/ \E r \in Requests \cup {TopicRequest(f) : f \in BOOLEAN} :
                            call[d].at = "idle" /\ call'[d] = Started(r)
  BY <1>1, <1>4
<1>6. briefing' \in Briefing /\ (briefing'.at = "idle" => \A d \in Topics : call'[d].at = "idle")
  BY <1>1, <1>3, <1>4 DEF Calls
<1>7. QED
  BY <1>1, <1>4, <1>5, <1>6, StartStep

LEMMA BeginResearchKeepsShape ==
  ASSUME Shape, BeginResearch
  PROVE  Shape'
<1>1. /\ briefing.at = "idle" /\ briefing' = [at |-> "topics", refs |-> {}, todo |-> <<>>]
      /\ UNCHANGED <<version, cached, extracted, pageLock, keyLock, sem, job>>
  BY DEF BeginResearch
<1>2. PICK force \in BOOLEAN :
        call' = [c \in Calls |-> IF c \in Topics THEN Started(TopicRequest(force)) ELSE call[c]]
  BY DEF BeginResearch
<1>3. briefing' \in Briefing /\ briefing'.at # "idle"
  BY <1>1 DEF Briefing
<1>4. \A c \in Topics : call[c].at = "idle"
  BY <1>1 DEF Shape
<1>5. DOMAIN call' = Calls /\ call' = [d \in Calls |-> call'[d]]
  BY <1>2
<1>6. \A d \in Calls : \/ call'[d] = call[d]
                       \/ \E r \in Requests \cup {TopicRequest(f) : f \in BOOLEAN} :
                            call[d].at = "idle" /\ call'[d] = Started(r)
  BY <1>2, <1>4
<1>7. QED
  BY <1>1, <1>3, <1>5, <1>6, StartStep

\* A step that leaves the calls, their jobs and the queues alone.
LEMMA OtherStep ==
  ASSUME Shape, UNCHANGED <<extracted, pageLock, keyLock, sem, call, job>>,
         version' \in [Pages -> Versions], cached' \in [Pages -> Text0],
         briefing' \in Briefing, briefing'.at = "idle" => briefing.at = "idle"
  PROVE  Shape'
<1>1. TypeOK'
  BY DEF Shape, TypeOK
<1>2. NothingIsLeaked'
  BY DEF Shape, NothingIsLeaked, AtPage, AtKey, Key, Permitted
<1>3. OneEntryEach' /\ \A j \in Jobs : JobShape(j)'
  BY DEF Shape, OneEntryEach, JobShape
<1>4. \A c \in Calls : CallShape(c)'
  BY DEF Shape, CallShape
<1>5. QED
  BY <1>1, <1>2, <1>3, <1>4 DEF Shape

LEMMA SearchSkippedKeepsShape ==
  ASSUME Shape, NEW c \in Calls, SearchSkipped(c)
  PROVE  Shape'
<1>1. <<>> \in Seq(Hit) /\ NoRepeats(<<>>)
  BY DEF NoRepeats
<1>2. /\ c \in Searches /\ call[c].at = "search" /\ Pin(c, <<>>)
      /\ UNCHANGED <<version, cached, extracted, keyLock, sem, briefing>>
  BY DEF SearchSkipped
<1>3. QED
  BY <1>1, <1>2, PinStep

\* What a search, narrowed to the budget, gives.
LEMMA SearchGives ==
  ASSUME TypeOK, NEW intent, NEW spaces, NEW found \in Found(intent, spaces, version), NEW n \in Nat,
         NEW hits, hits = UpTo(n, found)
  PROVE  /\ hits \in Seq(Hit) /\ NoRepeats(hits) /\ Len(hits) <= n
         /\ \A i \in 1..Len(hits) : Fits(hits[i], spaces, version)
<1>1. version \in [Pages -> Versions]
  BY DEF TypeOK
<1>2. found \in Seq(Hit) /\ NoRepeats(found) /\ \A i \in 1..Len(found) : Fits(found[i], spaces, version)
  BY <1>1, FoundFacts
<1>3. /\ hits \in Seq(Hit) /\ Len(hits) = IF n < Len(found) THEN n ELSE Len(found)
      /\ \A i \in 1..Len(hits) : i \in 1..Len(found) /\ hits[i] = found[i]
  BY <1>2, UpToFacts
<1>4. NoRepeats(hits)
  BY <1>2, UpToHits
<1>5. Len(hits) <= n
  <2>1. Len(found) \in Nat
    BY <1>2
  <2>2. QED
    BY <1>3, <2>1
<1>6. QED
  BY <1>2, <1>3, <1>4, <1>5

\* The three ways in which a search goes on.
LEMMA SearchedMoves ==
  ASSUME Shape, NEW c \in Calls, Searched(c)
  PROVE  /\ call[c].at = "search" /\ UNCHANGED <<version, cached, extracted, keyLock, briefing>>
         /\ \/ c \in Topics /\ Work(c, <<>>, {}) /\ pageLock' = pageLock
            \/ \E hits \in Seq(Hit) :
                 /\ c \in Topics /\ Work(c, hits, {}) /\ pageLock' = pageLock
                 /\ NoRepeats(hits)
                 /\ \A i \in 1..Len(hits) : Fits(hits[i], Resolved(BriefingSpaces), version)
            \/ \E hits \in Seq(Hit) :
                 /\ c \in Searches /\ Pin(c, hits) /\ sem' = sem
                 /\ NoRepeats(hits)
                 /\ \A i \in 1..Len(hits) : Fits(hits[i], Resolved(call[c].req.spaces), version)
<1>1. call[c].at = "search" /\ UNCHANGED <<version, cached, extracted, keyLock, briefing>>
  BY DEF Searched
<1>2. TypeOK /\ MaxPagesTotal \in Nat /\ call[c].req.limit \in Nat
  BY RequestFacts, ConstantFacts DEF Shape
<1>3. PICK intent \in Intents \cup {GeneralIntent} :
        \/ c \in Topics /\ Work(c, <<>>, {}) /\ pageLock' = pageLock
        \/ /\ c \in Topics /\ pageLock' = pageLock
           /\ \E found \in Found(intent, Resolved(BriefingSpaces), version) :
                Work(c, UpTo(MaxPagesTotal, found), {})
        \/ /\ c \in Searches /\ sem' = sem
           /\ \E found \in Found(intent, Resolved(call[c].req.spaces), version) :
                Pin(c, UpTo(call[c].req.limit, found))
  BY DEF Searched
<1>4. CASE c \in Topics /\ Work(c, <<>>, {}) /\ pageLock' = pageLock
  BY <1>1, <1>4
<1>5. ASSUME c \in Topics, pageLock' = pageLock, NEW found \in Found(intent, Resolved(BriefingSpaces), version),
             Work(c, UpTo(MaxPagesTotal, found), {})
      PROVE  \E hits \in Seq(Hit) :
               /\ c \in Topics /\ Work(c, hits, {}) /\ pageLock' = pageLock
               /\ NoRepeats(hits)
               /\ \A i \in 1..Len(hits) : Fits(hits[i], Resolved(BriefingSpaces), version)
  <2>1. PICK hits : hits = UpTo(MaxPagesTotal, found)
    OBVIOUS
  <2>2. /\ hits \in Seq(Hit) /\ NoRepeats(hits)
        /\ \A i \in 1..Len(hits) : Fits(hits[i], Resolved(BriefingSpaces), version)
    BY <1>2, <2>1, SearchGives
  <2>3. QED
    BY <1>5, <2>1, <2>2
<1>6. ASSUME c \in Searches, sem' = sem, NEW found \in Found(intent, Resolved(call[c].req.spaces), version),
             Pin(c, UpTo(call[c].req.limit, found))
      PROVE  \E hits \in Seq(Hit) :
               /\ c \in Searches /\ Pin(c, hits) /\ sem' = sem
               /\ NoRepeats(hits)
               /\ \A i \in 1..Len(hits) : Fits(hits[i], Resolved(call[c].req.spaces), version)
  <2>1. PICK hits : hits = UpTo(call[c].req.limit, found)
    OBVIOUS
  <2>2. /\ hits \in Seq(Hit) /\ NoRepeats(hits)
        /\ \A i \in 1..Len(hits) : Fits(hits[i], Resolved(call[c].req.spaces), version)
    BY <1>2, <2>1, SearchGives
  <2>3. QED
    BY <1>6, <2>1, <2>2
<1>7. QED
  BY <1>1, <1>3, <1>4, <1>5, <1>6

LEMMA SearchedKeepsShape ==
  ASSUME Shape, NEW c \in Calls, Searched(c)
  PROVE  Shape'
<1>1. call[c].at = "search" /\ UNCHANGED <<version, cached, extracted, keyLock, briefing>>
  BY SearchedMoves
<1>2. Quiet(c)
  BY <1>1, QuietFacts
<1>3. ASSUME NEW hits \in Seq(Hit), NoRepeats(hits), Work(c, hits, {}), pageLock' = pageLock
      PROVE  Shape'
  <2>1. {} \in SUBSET (Pages \cup {NoPage})
    OBVIOUS
  <2>2. QED
    BY <1>1, <1>2, <1>3, <2>1, WorkStep
<1>4. ASSUME NEW hits \in Seq(Hit), NoRepeats(hits), c \in Searches, Pin(c, hits), sem' = sem
      PROVE  Shape'
  BY <1>1, <1>4, PinStep
<1>5. <<>> \in Seq(Hit) /\ NoRepeats(<<>>)
  BY DEF NoRepeats
<1>6. QED
  BY <1>3, <1>4, <1>5, SearchedMoves

\* What a call works on once its pinned pages are settled.
LEMMA PinnedMoves ==
  ASSUME Shape, NEW c \in Calls, Pinned(c)
  PROVE  LET ps == PinsOf(call[c].req.urls)
             failed == FailedPages(JobsOf(c, Len(ps)))
         IN  /\ call[c].at = "pin" /\ Quiet(c)
             /\ UNCHANGED <<version, cached, extracted, pageLock, keyLock, briefing>>
             /\ Work(c, Merged(PinnedHits(c), call[c].found, call[c].req.limit),
                     call[c].errors \cup failed)
  BY QuietFacts DEF Pinned, PinnedHits

LEMMA PinnedArgs ==
  ASSUME Shape, NEW c \in Calls, call[c].at = "pin",
         NEW pages, pages = Merged(PinnedHits(c), call[c].found, call[c].req.limit),
         NEW errors, errors = call[c].errors \cup FailedPages(JobsOf(c, Len(PinsOf(call[c].req.urls))))
  PROVE  pages \in Seq(Hit) /\ NoRepeats(pages) /\ errors \in SUBSET (Pages \cup {NoPage})
<1>1. PICK ps, failed, hits :
        ps = PinsOf(call[c].req.urls) /\ failed = FailedPages(JobsOf(c, Len(ps))) /\ hits = PinnedHits(c)
  OBVIOUS
<1>2. hits \in Seq(Hit) /\ NoRepeats(hits) /\ failed \subseteq Pages
  BY <1>1, PinnedFacts
<1>3. /\ call[c].found \in Seq(Hit) /\ NoRepeats(call[c].found) /\ call[c].req.limit \in Nat
      /\ call[c].errors \subseteq Pages \cup {NoPage}
  BY RequestFacts DEF Shape, CallShape, Call
<1>4. pages \in Seq(Hit) /\ NoRepeats(pages)
  BY <1>1, <1>2, <1>3, MergedFacts
<1>5. QED
  BY <1>1, <1>2, <1>3, <1>4

LEMMA PinnedKeepsShape ==
  ASSUME Shape, NEW c \in Calls, Pinned(c)
  PROVE  Shape'
<1>1. PICK pages, errors :
        /\ pages = Merged(PinnedHits(c), call[c].found, call[c].req.limit)
        /\ errors = call[c].errors \cup FailedPages(JobsOf(c, Len(PinsOf(call[c].req.urls))))
  OBVIOUS
<1>2. /\ call[c].at = "pin" /\ Quiet(c) /\ Work(c, pages, errors)
      /\ UNCHANGED <<version, cached, extracted, pageLock, keyLock, briefing>>
  BY <1>1, PinnedMoves
<1>3. pages \in Seq(Hit) /\ NoRepeats(pages) /\ errors \in SUBSET (Pages \cup {NoPage})
  BY <1>1, <1>2, PinnedArgs
<1>4. QED
  BY <1>2, <1>3, WorkStep

\* The results are put together.
LEMMA WorkedMoves ==
  ASSUME Shape, NEW c \in Calls, Worked(c)
  PROVE  LET failed == FailedPages(JobsOf(c, Len(call[c].pages)))
         IN  /\ call[c].at = "work" /\ Quiet(c)
             /\ call' = [call EXCEPT ![c].at = "done", ![c].results = WorkedResults(c),
                                     ![c].errors = @ \cup failed]
             /\ UNCHANGED <<version, cached, extracted, pageLock, keyLock, sem, briefing>>
             /\ Spawn(c, <<>>, "none", FALSE)
  BY QuietFacts DEF Worked, WorkedResults

LEMMA WorkedChanges ==
  ASSUME Shape, NEW c \in Calls, Worked(c)
  PROVE  /\ job' \in [Jobs -> Job]
         /\ \A j \in Jobs : j[1] # c => job'[j] = job[j]
         /\ \A j \in Jobs : j[1] = c => job'[j] = NoJob
         /\ call' \in [Calls -> Call] /\ \A d \in Calls : d # c => call'[d] = call[d]
         /\ call'[c].at = "done" /\ call'[c].results = WorkedResults(c)
         /\ call'[c].errors = call[c].errors \cup FailedPages(JobsOf(c, Len(call[c].pages)))
         /\ call'[c].req = call[c].req /\ call'[c].pages = call[c].pages
         /\ call'[c].found = call[c].found /\ call'[c].since = call[c].since
<1>1. PICK failed, results : /\ failed = FailedPages(JobsOf(c, Len(call[c].pages)))
                             /\ results = WorkedResults(c)
  OBVIOUS
<1>2. /\ call[c].at = "work" /\ Spawn(c, <<>>, "none", FALSE)
      /\ call' = [call EXCEPT ![c].at = "done", ![c].results = results, ![c].errors = @ \cup failed]
  BY <1>1, WorkedMoves
<1>3. results \in Seq(Result) /\ failed \subseteq Pages
  BY <1>1, <1>2, WorkedFacts
<1>4. /\ job \in [Jobs -> Job] /\ call[c] \in Call /\ call \in [Calls -> Call]
      /\ call[c].errors \subseteq Pages \cup {NoPage}
  BY DEF Shape, TypeOK, Call
<1>5. /\ job' \in [Jobs -> Job]
      /\ \A j \in Jobs : j[1] # c => job'[j] = job[j]
      /\ \A i \in 1..Cardinality(Pages) : job'[<<c, i>>] = NoJob
  <2>1. job' = [j \in Jobs |-> IF j[1] # c THEN job[j] ELSE NoJob]
    <3>1. \A j \in Jobs : j[2] > 0
      BY DEF Jobs
    <3>2. QED
      BY <1>2, <3>1 DEF Spawn
  <2>2. NoJob \in Job
    BY DEF NoJob, Job, Text0
  <2>3. job' \in [Jobs -> Job] /\ \A j \in Jobs : j[1] # c => job'[j] = job[j]
    BY <1>4, <2>1, <2>2
  <2>4. \A i \in 1..Cardinality(Pages) : job'[<<c, i>>] = NoJob
    BY <2>1, JobsFacts
  <2>5. QED
    BY <2>3, <2>4
<1>6. \A j \in Jobs : j[1] = c => job'[j] = NoJob
  BY <1>5, JobsFacts
<1> DEFINE r == [call[c] EXCEPT !.at = "done", !.results = results, !.errors = call[c].errors \cup failed]
<1>7. call' = [call EXCEPT ![c] = r]
  <2>1. call' = [[[call EXCEPT ![c].at = "done"] EXCEPT ![c].results = results]
                       EXCEPT ![c].errors = call[c].errors \cup failed]
    BY <1>2, <1>4 DEF Call
  <2>2. QED
    BY <1>4, <2>1
<1>8. /\ r \in Call /\ r.at = "done" /\ r.results = results /\ r.errors = call[c].errors \cup failed
      /\ r.req = call[c].req /\ r.pages = call[c].pages /\ r.found = call[c].found
      /\ r.since = call[c].since
  <2>1. results \in Seq([page : Pages, stamp : Versions, text : Versions])
    BY <1>3 DEF Result
  <2>2. call[c].errors \cup failed \subseteq Pages \cup {NoPage}
    BY <1>3, <1>4
  <2>3. QED
    BY <1>4, <2>1, <2>2 DEF Call
<1> HIDE DEF r
<1>9. /\ call' \in [Calls -> Call] /\ \A d \in Calls : d # c => call'[d] = call[d]
      /\ call'[c] = r
  BY <1>4, <1>7, <1>8
<1>10. QED
  BY <1>1, <1>5, <1>6, <1>8, <1>9

LEMMA WorkedKeepsShape ==
  ASSUME Shape, NEW c \in Calls, Worked(c)
  PROVE  Shape'
<1>1. /\ call[c].at = "work" /\ Quiet(c)
      /\ UNCHANGED <<version, cached, extracted, pageLock, keyLock, sem, briefing>>
  BY WorkedMoves
<1>2. /\ job' \in [Jobs -> Job]
      /\ \A j \in Jobs : j[1] # c => job'[j] = job[j]
      /\ \A j \in Jobs : j[1] = c => job'[j] = NoJob
      /\ call' \in [Calls -> Call] /\ \A d \in Calls : d # c => call'[d] = call[d]
      /\ call'[c].at = "done" /\ call'[c].pages = call[c].pages /\ call'[c].found = call[c].found
  BY WorkedChanges
<1>3. NoJob.pc = "none"
  BY DEF NoJob
<1>4. TypeOK'
  BY <1>1, <1>2 DEF Shape, TypeOK
<1>5. \A j \in Jobs : JobShape(j)'
  BY <1>2, <1>3, OtherCalls DEF JobShape
<1>6. CallShape(c)'
  <2>1. CallShape(c)
    BY DEF Shape
  <2>2. \A i \in 1..Cardinality(Pages) : job'[<<c, i>>].pc = "none"
    BY <1>2, <1>3, JobsFacts
  <2>3. QED
    BY <1>2, <2>1, <2>2 DEF CallShape
<1>7. \A d \in Calls : CallShape(d)'
  BY <1>2, <1>6, OtherCalls
<1>8. NothingIsLeaked'
  <2>1. \A k \in ExtractionKeys : Serves(keyLock'[k], AtKey(k, {"key"})', AtKey(k, {"llm"})')
    <3>1. \A j \in Jobs : j[1] = c => job'[j].pc \notin {"key", "llm"}
      BY <1>2, <1>3
    <3>2. QED
      BY <1>1, <1>2, <3>1, QuietQueues
  <2>2. \A p \in Pages : Serves(pageLock'[p], AtPage(p, {"page"})', AtPage(p, {"fetch"})')
    <3>1. \A j \in Jobs : j[1] = c => job'[j].pc \notin {"page", "fetch"}
      BY <1>2, <1>3
    <3>2. QED
      BY <1>1, <1>2, <3>1, QuietPages
  <2>3. /\ IsInjective(sem') /\ ToSet(sem') = InSem'
        /\ \A i \in ToSet(sem') : job'[i].pc # "sem" => Permitted(i)'
    <3>1. \A j \in Jobs : j[1] = c => job'[j].pc \in {"none", "page"} /\ (job'[j].pc = "page" => job'[j].pin)
      BY <1>2, <1>3
    <3>2. QED
      BY <1>1, <1>2, <3>1, QuietSem
  <2>4. QED
    BY <2>1, <2>2, <2>3 DEF NothingIsLeaked, InSem
<1>9. (briefing.at = "idle" => \A d \in Topics : call[d].at = "idle")'
  <2>1. c \in Topics => briefing.at # "idle"
    BY <1>1 DEF Shape
  <2>2. QED
    BY <1>1, <1>2, <2>1 DEF Shape, Calls
<1>10. OneEntryEach'
  BY <1>1 DEF Shape, OneEntryEach
<1>11. QED
  BY <1>4, <1>5, <1>7, <1>8, <1>9, <1>10 DEF Shape

-----------------------------------------------------------------------------
(* Steps of the briefing and the environment.                              *)

LEMMA RefsFacts ==
  ASSUME Shape, NEW c \in Calls
  PROVE  /\ RefsOf(c) \subseteq Keys \X Pages
         /\ \A ref \in RefsOf(c) : \E i \in 1..Len(call[c].results) :
              /\ call[c].results[i].page = ref[2]
              /\ ref[1] \in Mentions(ref[2], call[c].results[i].text)
<1>1. PICK r : r = call[c].results
  OBVIOUS
<1>2. r \in Seq(Result) /\ DOMAIN r = 1..Len(r) /\ \A i \in 1..Len(r) : r[i] \in Result
  <2>1. r \in Seq(Result)
    <3>1. call[c] \in Call
      BY RequestFacts DEF Shape
    <3>2. QED
      BY <1>1, <3>1 DEF Call, Result
  <2>2. QED
    BY <2>1
<1> DEFINE Names(i, k) == k \in Mentions(r[i].page, r[i].text)
           X == {x \in Keys \X DOMAIN r : Names(x[2], x[1]) /\ \A j \in 1..x[2] - 1 : ~Names(j, x[1])}
<1>3. RefsOf(c) = {<<x[1], r[x[2]].page>> : x \in X}
  BY <1>1 DEF RefsOf
<1>4. \A x \in X : x[1] \in Keys /\ x[2] \in 1..Len(r) /\ x[1] \in Mentions(r[x[2]].page, r[x[2]].text)
  BY <1>2
<1> HIDE DEF X
<1>5. ASSUME NEW ref \in RefsOf(c)
      PROVE  /\ ref \in Keys \X Pages
             /\ \E i \in 1..Len(r) : r[i].page = ref[2] /\ ref[1] \in Mentions(ref[2], r[i].text)
  <2>1. PICK x \in X : ref = <<x[1], r[x[2]].page>>
    BY <1>3
  <2>2. ref[1] = x[1] /\ ref[2] = r[x[2]].page
    BY <2>1
  <2>3. r[x[2]].page \in Pages
    BY <1>2, <1>4 DEF Result
  <2>4. QED
    BY <1>4, <2>1, <2>2, <2>3
<1>6. QED
  BY <1>1, <1>5

LEMMA BriefingKeepsShape ==
  ASSUME Shape, BriefingStep
  PROVE  Shape'
<1>1. TypeOK
  BY DEF Shape
<1>2. CASE BeginResearch
  BY <1>2, BeginResearchKeepsShape
<1>3. CASE TopicsDone
  <2>1. PICK refs, todo : /\ refs = UNION {RefsOf(c) : c \in Topics}
                          /\ todo = Picked(JiraKeys, {i \in DOMAIN JiraKeys : \A ref \in refs : ref[1] # JiraKeys[i]})
    OBVIOUS
  <2>2. /\ briefing' = [at |-> "reverse", refs |-> refs,
                        todo |-> IF Resolved(BriefingSpaces) = {} THEN <<>> ELSE todo]
        /\ UNCHANGED <<version, cached, extracted, pageLock, keyLock, sem, call, job>>
    BY <1>3, <2>1 DEF TopicsDone
  <2>3. refs \subseteq Keys \X Pages
    BY <2>1, RefsFacts DEF Calls
  <2>4. todo \in Seq(Keys)
    <3>1. PICK I : I = {i \in DOMAIN JiraKeys : \A ref \in refs : ref[1] # JiraKeys[i]}
      OBVIOUS
    <3>2. JiraKeys \in Seq(Keys) /\ I \in SUBSET (1..Len(JiraKeys))
      BY <3>1, ResearchAssumption
    <3>3. QED
      BY <2>1, <3>1, <3>2, PickedFacts
  <2>5. briefing' \in Briefing /\ briefing'.at # "idle"
    <3>1. <<>> \in Seq(Keys)
      OBVIOUS
    <3>2. (IF Resolved(BriefingSpaces) = {} THEN <<>> ELSE todo) \in Seq(Keys)
      BY <2>4, <3>1
    <3>3. QED
      BY <2>2, <2>3, <3>2 DEF Briefing
  <2>6. QED
    BY <1>1, <2>2, <2>5, OtherStep DEF TypeOK
<1>4. CASE LookedUp
  <2>1. briefing.at = "reverse" /\ briefing.todo # <<>> /\ briefing \in Briefing
    BY <1>1, <1>4 DEF LookedUp, TypeOK
  <2>2. PICK hits \in Answers(KeyQuery(Head(briefing.todo), Resolved(BriefingSpaces)), version) :
          briefing' = [briefing EXCEPT !.todo = Tail(@),
                         !.refs = @ \cup {<<Head(briefing.todo), h.page>> : h \in ToSet(hits)}]
    BY <1>4 DEF LookedUp
  <2>3. hits \in Seq(Hit)
    BY <1>1, AnswersFacts DEF TypeOK
  <2>4. Head(briefing.todo) \in Keys /\ Tail(briefing.todo) \in Seq(Keys)
    BY <2>1 DEF Briefing
  <2>5. \A h \in ToSet(hits) : h.page \in Pages
    <3>1. \A i \in DOMAIN hits : hits[i] \in Hit
      BY <2>3
    <3>2. \A h \in ToSet(hits) : h \in Hit
      BY <3>1 DEF ToSet
    <3>3. QED
      BY <3>2 DEF Hit
  <2>6. briefing' \in Briefing /\ briefing'.at = "reverse"
    <3>1. PICK new : new = {<<Head(briefing.todo), h.page>> : h \in ToSet(hits)}
      OBVIOUS
    <3>2. new \subseteq Keys \X Pages
      BY <2>4, <2>5, <3>1
    <3>3. briefing' = [briefing EXCEPT !.todo = Tail(briefing.todo), !.refs = briefing.refs \cup new]
      BY <2>1, <2>2, <3>1 DEF Briefing
    <3>4. briefing.refs \cup new \subseteq Keys \X Pages
      BY <2>1, <3>2 DEF Briefing
    <3>5. QED
      BY <2>1, <2>4, <3>3, <3>4 DEF Briefing
  <2>7. UNCHANGED <<version, cached, extracted, pageLock, keyLock, sem, call, job>>
    BY <1>4 DEF LookedUp
  <2>8. QED
    BY <1>1, <2>6, <2>7, OtherStep DEF TypeOK
<1>5. CASE ResearchDone
  <2>1. briefing' \in Briefing /\ briefing'.at = "done"
    BY <1>1, <1>5 DEF ResearchDone, TypeOK, Briefing
  <2>2. UNCHANGED <<version, cached, extracted, pageLock, keyLock, sem, call, job>>
    BY <1>5 DEF ResearchDone
  <2>3. QED
    BY <1>1, <2>1, <2>2, OtherStep DEF TypeOK
<1>6. QED
  BY <1>2, <1>3, <1>4, <1>5 DEF BriefingStep

LEMMA EnvironmentKeepsShape ==
  ASSUME Shape, NEW p \in Pages, Edit(p) \/ Expire(p)
  PROVE  Shape'
<1>1. TypeOK
  BY DEF Shape
<1>2. CASE Edit(p)
  <2>1. version' \in [Pages -> Versions]
    BY <1>1, <1>2 DEF Edit, TypeOK
  <2>2. QED
    BY <1>1, <1>2, <2>1, OtherStep DEF Edit, TypeOK
<1>3. CASE Expire(p)
  <2>1. cached' \in [Pages -> Text0]
    BY <1>1, <1>3 DEF Expire, TypeOK, Text0
  <2>2. QED
    BY <1>1, <1>3, <2>1, OtherStep DEF Expire, TypeOK
<1>4. QED
  BY <1>2, <1>3

LEMMA InitShape ==
  ASSUME Init
  PROVE  Shape
<1>1. TypeOK
  <2>1. 1 \in Versions /\ Absent \in Text0 /\ MaxExtractions \in Nat
    BY ConstantFacts DEF Text0
  <2>2. NoJob \in Job
    BY <2>1 DEF NoJob, Job
  <2>3. NoCall \in Call
    <3>1. NoRequest \in Requests \cup {TopicRequest(f) : f \in BOOLEAN}
      BY DEF NoRequest
    <3>2. [p \in Pages |-> 1] \in [Pages -> Versions]
      BY <2>1
    <3>3. <<>> \in Seq(Hit) /\ <<>> \in Seq([page : Pages, stamp : Versions, text : Versions])
      OBVIOUS
    <3>4. QED
      BY <3>1, <3>2, <3>3 DEF NoCall, Call
  <2>4. briefing \in Briefing
    BY DEF Init, Briefing
  <2>5. extracted \in Seq([key : ExtractionKeys, text : Versions]) /\ Len(extracted) <= MaxExtractions
    BY <2>1 DEF Init
  <2>6. QED
    BY <2>1, <2>2, <2>3, <2>4, <2>5 DEF Init, TypeOK
<1>2. NoJob.pc = "none" /\ NoCall.at = "idle" /\ NoCall.found = <<>> /\ NoCall.pages = <<>>
  BY DEF NoJob, NoCall
<1>3. \A j \in Jobs : job[j].pc = "none"
  BY <1>2 DEF Init
<1>4. NothingIsLeaked
  <2>1. /\ \A p \in Pages : AtPage(p, {"page"}) = {} /\ AtPage(p, {"fetch"}) = {}
        /\ \A k : AtKey(k, {"key"}) = {} /\ AtKey(k, {"llm"}) = {}
        /\ {j \in Jobs : job[j].pc \in {"sem", "page", "fetch", "key", "llm"} /\ ~job[j].pin} = {}
    BY <1>3 DEF AtPage, AtKey
  <2>2. IsInjective(<<>>) /\ ToSet(<<>>) = {}
    BY DEF IsInjective, ToSet
  <2>3. Serves(<<>>, {}, {})
    BY <2>2 DEF Serves
  <2>4. QED
    BY <2>1, <2>2, <2>3 DEF Init, NothingIsLeaked
<1>5. \A j \in Jobs : JobShape(j)
  BY <1>3 DEF JobShape
<1>6. \A c \in Calls : CallShape(c)
  <2>1. NoRepeats(<<>>)
    BY DEF NoRepeats
  <2>2. \A c \in Calls : call[c] = NoCall
    BY DEF Init
  <2>3. QED
    BY <1>2, <1>3, <2>1, <2>2, JobsFacts DEF CallShape
<1>7. OneEntryEach /\ \A c \in Topics : call[c].at = "idle"
  BY <1>2 DEF Init, OneEntryEach, Calls
<1>8. QED
  BY <1>1, <1>4, <1>5, <1>6, <1>7 DEF Shape

\* Every step keeps the shape.
LEMMA NextKeepsShape ==
  ASSUME Shape, [Next]_vars
  PROVE  Shape'
<1>1. ASSUME NEW j \in Jobs, JobStep(j)
      PROVE  Shape'
  BY <1>1, JobStepKeepsShape
<1>2. ASSUME NEW c \in Calls, Search(c) \/ CallStep(c)
      PROVE  Shape'
  BY <1>2, SearchKeepsShape, SearchSkippedKeepsShape, SearchedKeepsShape, PinnedKeepsShape,
     WorkedKeepsShape DEF CallStep
<1>3. CASE UNCHANGED vars
  BY <1>3, OtherStep DEF vars, Shape, TypeOK
<1>4. QED
  BY <1>1, <1>2, <1>3, BriefingKeepsShape, EnvironmentKeepsShape DEF Next, Finished

\* The inductive invariant.
THEOREM ShapeHolds == Spec => []Shape
<1>1. Init => Shape
  BY InitShape
<1>2. Shape /\ [Next]_vars => Shape'
  BY NextKeepsShape
<1>3. QED
  BY <1>1, <1>2, PTL DEF Spec

\* Research's state is always of its types: caches, queues, jobs and calls.
THEOREM TypeCorrect == Spec => []TypeOK
<1>1. Shape => TypeOK
  BY DEF Shape
<1>2. QED
  BY <1>1, ShapeHolds, PTL

\* client.py:112-114, extractor.py:11-14: whatever fails, a lock or a permit is held or
\* awaited by the jobs that need it and by no other, once each.
THEOREM NothingLeaked == Spec => []NothingIsLeaked
<1>1. Shape => NothingIsLeaked
  BY DEF Shape
<1>2. QED
  BY <1>1, ShapeHolds, PTL

-----------------------------------------------------------------------------
(* What steps of calls leave alone.                                        *)

\* One job at a time fetches a page, and one extracts for a key.
LEMMA OneAtATime ==
  ASSUME Shape, NEW i \in Jobs, NEW j \in Jobs
  PROVE  /\ job[i].pc = "fetch" /\ job[j].pc = "fetch" /\ job[i].page = job[j].page => i = j
         /\ job[i].pc = "llm" /\ job[j].pc = "llm" /\ Key(i) = Key(j) => i = j
<1>1. NothingIsLeaked /\ JobShape(i) /\ JobShape(j)
  BY DEF Shape
<1>2. ASSUME job[i].pc = "fetch", job[j].pc = "fetch", job[i].page = job[j].page
      PROVE  i = j
  <2>1. job[i].page \in Pages
    BY <1>1, <1>2 DEF JobShape
  <2>2. i \in AtPage(job[i].page, {"fetch"}) /\ j \in AtPage(job[i].page, {"fetch"})
    BY <1>2 DEF AtPage
  <2>3. QED
    BY <1>1, <2>1, <2>2 DEF NothingIsLeaked, Serves, Holds
<1>3. ASSUME job[i].pc = "llm", job[j].pc = "llm", Key(i) = Key(j)
      PROVE  i = j
  <2>1. Key(i) \in ExtractionKeys
    BY <1>1, <1>3 DEF JobShape, Key, ExtractionKeys
  <2>2. i \in AtKey(Key(i), {"llm"}) /\ j \in AtKey(Key(i), {"llm"})
    BY <1>3 DEF AtKey
  <2>3. QED
    BY <1>1, <2>1, <2>2 DEF NothingIsLeaked, Serves, Holds
<1>4. QED
  BY <1>2, <1>3

LEMMA WorkMoves ==
  ASSUME Shape, NEW c \in Calls, call[c].at \in {"search", "pin"}, Quiet(c),
         NEW pages \in Seq(Hit), NoRepeats(pages),
         NEW errors \in SUBSET (Pages \cup {NoPage}), Work(c, pages, errors)
  PROVE  /\ \A d \in Calls : d # c => call'[d] = call[d]
         /\ \A j \in Jobs : j[1] # c => job'[j] = job[j]
         /\ \A j \in Jobs : j[1] = c =>
              \/ job'[j].pc = "none"
              \/ /\ job'[j].pc = "sem" /\ \E i \in 1..Len(pages) :
                      job'[j].page = pages[i].page /\ job'[j].stamp = pages[i].stamp
<1>1. TypeOK
  BY DEF Shape
<1>2. /\ \A d \in Calls : d # c => call'[d] = call[d]
      /\ \A j \in Jobs : j[1] # c => job'[j] = job[j]
      /\ \A i \in 1..Cardinality(Pages) :
           IF i <= Len(pages)
           THEN /\ job'[<<c, i>>].pc = "sem" /\ job'[<<c, i>>].pin = FALSE
                /\ job'[<<c, i>>].page = pages[i].page /\ job'[<<c, i>>].stamp = pages[i].stamp
           ELSE job'[<<c, i>>] = NoJob
  BY <1>1, WorkChanges
<1>3. NoJob.pc = "none" /\ Len(pages) \in Nat
  BY DEF NoJob
<1>4. ASSUME NEW j \in Jobs, j[1] = c
      PROVE  \/ job'[j].pc = "none"
             \/ /\ job'[j].pc = "sem" /\ \E i \in 1..Len(pages) :
                     job'[j].page = pages[i].page /\ job'[j].stamp = pages[i].stamp
  <2>1. j[2] \in 1..Cardinality(Pages) /\ j = <<c, j[2]>>
    BY <1>4, JobsFacts
  <2>2. j[2] <= Len(pages) => j[2] \in 1..Len(pages)
    BY <1>3, <2>1, ConstantFacts
  <2>3. QED
    BY <1>2, <1>3, <2>1, <2>2
<1>5. QED
  BY <1>2, <1>4

LEMMA PinMoves ==
  ASSUME Shape, NEW c \in Searches, NEW found \in Seq(Hit), Pin(c, found)
  PROVE  /\ \A d \in Calls : d # c => call'[d] = call[d]
         /\ \A j \in Jobs : j[1] # c => job'[j] = job[j]
         /\ \A j \in Jobs : j[1] = c => \/ job'[j].pc = "none"
                                        \/ job'[j].pc = "page" /\ job'[j].stamp = Absent
<1>1. TypeOK
  BY DEF Shape
<1>2. PICK ps : ps = PinsOf(call[c].req.urls)
  OBVIOUS
<1>3. /\ \A d \in Calls : d # c => call'[d] = call[d]
      /\ \A j \in Jobs : j[1] # c => job'[j] = job[j]
      /\ \A i \in 1..Cardinality(Pages) :
           IF i <= Len(ps)
           THEN /\ job'[<<c, i>>].pc = "page" /\ job'[<<c, i>>].pin
                /\ job'[<<c, i>>].page = ps[i] /\ job'[<<c, i>>].stamp = Absent
           ELSE job'[<<c, i>>] = NoJob
  BY <1>1, <1>2, PinChanges
<1>4. NoJob.pc = "none"
  BY DEF NoJob
<1>5. QED
  BY <1>3, <1>4, JobsFacts

\* Steps of calls and of the briefing, as the jobs see them: a job goes on for the same
\* call, or has ended or begins.
Aside ==
  /\ UNCHANGED <<version, cached, extracted, keyLock>>
  /\ \A j \in Jobs :
       \/ /\ job'[j] = job[j]
          /\ call'[j[1]].req = call[j[1]].req /\ call'[j[1]].since = call[j[1]].since
       \/ job[j].pc \in {"none", "done", "failed"} /\ job'[j].pc \in {"none", "sem", "page"}

LEMMA CallStepAside ==
  ASSUME Shape, NEW c \in Calls, Search(c) \/ CallStep(c)
  PROVE  Aside
<1>1. TypeOK /\ CallShape(c)
  BY DEF Shape
<1>2. ASSUME Quiet(c), UNCHANGED <<version, cached, extracted, keyLock>>,
             \A d \in Calls : d # c => call'[d] = call[d],
             \A j \in Jobs : j[1] # c => job'[j] = job[j],
             \A j \in Jobs : j[1] = c => job'[j].pc \in {"none", "sem", "page"}
      PROVE  Aside
  BY <1>2, JobsFacts DEF Aside, Quiet
<1>3. CASE Search(c)
  <2>1. Quiet(c)
    BY <1>3, QuietFacts DEF Search
  <2>2. \A i \in 1..Cardinality(Pages) : job[<<c, i>>].pc = "none"
    BY <1>1, <1>3 DEF CallShape, Search
  <2>3. \A j \in Jobs : j[1] = c => job[j].pc = "none"
    BY <2>2, JobsFacts
  <2>4. \A d \in Calls : d # c => call'[d] = call[d]
    BY <1>1, <1>3 DEF Search, TypeOK
  <2>5. UNCHANGED <<version, cached, extracted, keyLock, job>>
    BY <1>3 DEF Search
  <2>6. QED
    BY <1>2, <2>1, <2>3, <2>4, <2>5
<1>4. CASE SearchSkipped(c)
  <2>1. c \in Searches /\ call[c].at = "search" /\ Pin(c, <<>>) /\ <<>> \in Seq(Hit)
    BY <1>4 DEF SearchSkipped
  <2>2. Quiet(c) /\ UNCHANGED <<version, cached, extracted, keyLock>>
    BY <1>4, <2>1, QuietFacts DEF SearchSkipped
  <2>3. QED
    BY <1>2, <2>1, <2>2, PinMoves
<1>5. CASE Searched(c)
  <2>1. call[c].at = "search" /\ UNCHANGED <<version, cached, extracted, keyLock>>
    BY <1>5, SearchedMoves
  <2>2. Quiet(c)
    BY <2>1, QuietFacts
  <2>3. {} \in SUBSET (Pages \cup {NoPage}) /\ <<>> \in Seq(Hit) /\ NoRepeats(<<>>)
    BY DEF NoRepeats
  <2>4. ASSUME NEW hits \in Seq(Hit), NoRepeats(hits), Work(c, hits, {})
        PROVE  Aside
    <3>1. /\ \A d \in Calls : d # c => call'[d] = call[d]
          /\ \A j \in Jobs : j[1] # c => job'[j] = job[j]
          /\ \A j \in Jobs : j[1] = c => job'[j].pc \in {"none", "sem"}
      BY <2>1, <2>2, <2>3, <2>4, WorkMoves
    <3>2. QED
      BY <1>2, <2>1, <2>2, <3>1
  <2>5. ASSUME NEW hits \in Seq(Hit), c \in Searches, Pin(c, hits)
        PROVE  Aside
    <3>1. /\ \A d \in Calls : d # c => call'[d] = call[d]
          /\ \A j \in Jobs : j[1] # c => job'[j] = job[j]
          /\ \A j \in Jobs : j[1] = c => job'[j].pc \in {"none", "page"}
      BY <2>5, PinMoves
    <3>2. QED
      BY <1>2, <2>1, <2>2, <3>1
  <2>6. QED
    BY <1>5, <2>3, <2>4, <2>5, SearchedMoves
<1>6. CASE Pinned(c)
  <2>1. PICK pages, errors :
          /\ pages = Merged(PinnedHits(c), call[c].found, call[c].req.limit)
          /\ errors = call[c].errors \cup FailedPages(JobsOf(c, Len(PinsOf(call[c].req.urls))))
    OBVIOUS
  <2>2. /\ call[c].at = "pin" /\ Quiet(c) /\ Work(c, pages, errors)
        /\ UNCHANGED <<version, cached, extracted, keyLock>>
    BY <1>6, <2>1, PinnedMoves
  <2>3. pages \in Seq(Hit) /\ NoRepeats(pages) /\ errors \in SUBSET (Pages \cup {NoPage})
    BY <2>1, <2>2, PinnedArgs
  <2>4. /\ \A d \in Calls : d # c => call'[d] = call[d]
        /\ \A j \in Jobs : j[1] # c => job'[j] = job[j]
        /\ \A j \in Jobs : j[1] = c => job'[j].pc \in {"none", "sem"}
    BY <2>2, <2>3, WorkMoves
  <2>5. QED
    BY <1>2, <2>2, <2>4
<1>7. CASE Worked(c)
  <2>1. Quiet(c) /\ UNCHANGED <<version, cached, extracted, keyLock>>
    BY <1>7, WorkedMoves
  <2>2. /\ \A d \in Calls : d # c => call'[d] = call[d]
        /\ \A j \in Jobs : j[1] # c => job'[j] = job[j]
        /\ \A j \in Jobs : j[1] = c => job'[j] = NoJob
    BY <1>7, WorkedChanges
  <2>3. NoJob.pc = "none"
    BY DEF NoJob
  <2>4. QED
    BY <1>2, <2>1, <2>2, <2>3
<1>8. QED
  BY <1>3, <1>4, <1>5, <1>6, <1>7 DEF CallStep

LEMMA BriefingStepAside ==
  ASSUME Shape, BriefingStep
  PROVE  Aside
<1>1. CASE BeginResearch
  <2>1. UNCHANGED <<version, cached, extracted, keyLock, job>>
    BY <1>1 DEF BeginResearch
  <2>2. \A c \in Calls : c \notin Topics => call'[c] = call[c]
    BY <1>1 DEF BeginResearch
  <2>3. \A c \in Topics : call[c].at = "idle" /\ CallShape(c)
    BY <1>1 DEF BeginResearch, Shape, Calls
  <2>4. \A c \in Topics : \A i \in 1..Cardinality(Pages) : job[<<c, i>>].pc = "none"
    BY <2>3 DEF CallShape
  <2>5. \A j \in Jobs : j[1] \in Topics => job[j].pc = "none"
    BY <2>4, JobsFacts
  <2>6. QED
    BY <2>1, <2>2, <2>5, JobsFacts DEF Aside
<1>2. CASE TopicsDone \/ LookedUp \/ ResearchDone
  BY <1>2 DEF TopicsDone, LookedUp, ResearchDone, Aside
<1>3. QED
  BY <1>1, <1>2 DEF BriefingStep

\* Whatever happens is one step of one job, a step aside of the jobs, or the environment's.
LEMMA StepKinds ==
  ASSUME Shape, [Next]_vars
  PROVE  \/ \E j \in Jobs : Moves(j) /\ UNCHANGED <<version, call, briefing>>
         \/ Aside
         \/ \E p \in Pages : Edit(p) \/ Expire(p)
<1>1. ASSUME NEW j \in Jobs, JobStep(j)
      PROVE  Moves(j) /\ UNCHANGED <<version, call, briefing>>
  BY <1>1, JobStepMoves DEF Shape
<1>2. CASE UNCHANGED vars
  BY <1>2 DEF vars, Aside
<1>3. QED
  BY <1>1, <1>2, CallStepAside, BriefingStepAside DEF Next, Finished

-----------------------------------------------------------------------------
(* No request that could have been spared.                                 *)

\* What a job's step does to the entries of the extraction cache.
LEMMA MovesEntries ==
  ASSUME Shape, NEW j \in Jobs, Moves(j)
  PROVE  \/ extracted' = extracted
         \/ \E e \in Entry(Key(j)) :
              /\ ~MustExtract(j) /\ job'[j].pc = "done"
              /\ \A f \in ToSet(extracted') : f = e \/ f \in ToSet(extracted)
         \/ /\ job[j].pc = "llm" /\ job'[j].pc = "done"
            /\ \A f \in ToSet(extracted') : \/ f = [key |-> Key(j), text |-> job[j].text]
                                            \/ f \in ToSet(extracted) /\ f.key # Key(j)
<1>1. /\ extracted \in Seq(Entries) /\ Len(extracted) <= MaxExtractions /\ OneEntryEach
      /\ TypeOK /\ JobShape(j)
  BY DEF Shape, TypeOK, Entries
<1>2. ASSUME NEW e \in Entry(Key(j)), Put(e.key, e.text)
      PROVE  \A f \in ToSet(extracted') : f = e \/ f \in ToSet(extracted)
  <2>1. e \in Entries /\ e.key \in ExtractionKeys /\ e.text \in Versions
    BY <1>1, EntryFacts DEF Entries
  <2>2. e = [key |-> e.key, text |-> e.text]
    BY <2>1 DEF Entries
  <2>3. \A f \in ToSet(extracted') : \/ f = [key |-> e.key, text |-> e.text]
                                     \/ f \in ToSet(extracted) /\ f.key # e.key
    BY <1>1, <1>2, <2>1, PutFacts
  <2>4. QED
    BY <2>2, <2>3
<1>3. ASSUME job[j].pc = "llm", Put(Key(j), job[j].text)
      PROVE  \A f \in ToSet(extracted') : \/ f = [key |-> Key(j), text |-> job[j].text]
                                          \/ f \in ToSet(extracted) /\ f.key # Key(j)
  <2>1. Key(j) \in ExtractionKeys /\ job[j].text \in Versions
    BY <1>1, <1>3 DEF JobShape, Key, ExtractionKeys
  <2>2. QED
    BY <1>1, <1>3, <2>1, PutFacts
<1>4. QED
  BY <1>2, <1>3 DEF Moves, ExtractedMoves

\* A page is fetched by one job at a time, which looked at the cache when it had the
\* lock: until it is done only the end of an entry's life touches the page's entry.
LEMMA FetchesSpared ==
  ASSUME Shape, SparesRequests, NEW j \in Jobs, Moves(j), UNCHANGED call,
         NEW i \in Jobs, ~Forced(i), job'[i].pc = "fetch", ~job'[i].pin
  PROVE  cached'[job'[i].page] = Absent
<1>1. /\ cached \in [Pages -> Text0] /\ JobShape(i) /\ JobShape(j)
      /\ (job'[i].page \in Pages => Absent \in Text0)
  BY DEF Shape, TypeOK, Text0
<1>2. CASE i = j
  <2>1. job[j].page = job'[j].page /\ ~job[j].pin
    BY <1>2 DEF Moves, Goes
  <2>2. job[j].pc = "page" /\ MustFetch(j)
    BY <1>2, <2>1 DEF Moves, PageLockMoves, TextMoves
  <2>3. cached' = cached
    BY <1>2, <2>2 DEF Moves, CacheMoves
  <2>4. QED
    BY <1>2, <2>1, <2>2, <2>3 DEF MustFetch
<1>3. CASE i # j
  <2>1. job'[i] = job[i]
    BY <1>3 DEF Moves, Goes
  <2>2. cached[job[i].page] = Absent /\ job[i].page \in Pages
    BY <1>1, <2>1 DEF SparesRequests, JobShape
  <2>3. job[j].pc = "fetch" => job[j].page # job[i].page
    BY <1>3, <2>1, OneAtATime
  <2>4. cached'[job[i].page] = Absent
    BY <1>1, <2>2, <2>3 DEF Moves, CacheMoves
  <2>5. QED
    BY <2>1, <2>4
<1>4. QED
  BY <1>2, <1>3

LEMMA ExtractionsSpared ==
  ASSUME Shape, SparesRequests, NEW j \in Jobs, Moves(j), UNCHANGED call,
         NEW i \in Jobs, ~Forced(i), job'[i].pc = "llm"
  PROVE  Entry(Key(i))' = {}
<1>1. CASE i = j
  <2>1. job[j].pc = "key" /\ MustExtract(j)
    BY <1>1 DEF Moves, TextMoves
  <2>2. Key(j)' = Key(j)
    BY <1>1 DEF Moves, Goes, TextMoves, Key
  <2>3. extracted' = extracted
    BY <1>1, <2>1 DEF Moves, ExtractedMoves
  <2>4. QED
    BY <1>1, <2>1, <2>2, <2>3 DEF MustExtract, Entry
<1>2. CASE i # j
  <2>1. job'[i] = job[i] /\ Key(i)' = Key(i)
    BY <1>2 DEF Moves, Goes, Key
  <2>2. \A f \in ToSet(extracted) : f.key # Key(i)
    BY <2>1 DEF SparesRequests, Entry
  <2>3. job[j].pc = "llm" => Key(j) # Key(i)
    BY <1>2, <2>1, OneAtATime
  <2>4. \A f \in ToSet(extracted') : f.key # Key(i)
    BY <2>2, <2>3, MovesEntries DEF Entry
  <2>5. QED
    BY <2>1, <2>4 DEF Entry
<1>3. QED
  BY <1>1, <1>2

\* client.py:162 and extractor.py:58: a page is fetched, or extracted, for a call that
\* accepts a cached answer only while there is none.
THEOREM RequestsSpared == Spec => []SparesRequests
<1>1. Init => SparesRequests
  <2>1. NoJob.pc = "none"
    BY DEF NoJob
  <2>2. QED
    BY <2>1 DEF Init, SparesRequests
<1>2. ASSUME Shape, SparesRequests, NEW j \in Jobs, Moves(j), UNCHANGED <<version, call, briefing>>
      PROVE  SparesRequests'
  <2>1. \A i \in Jobs : Forced(i)' <=> Forced(i)
    BY <1>2 DEF Forced
  <2>2. QED
    BY <1>2, <2>1, FetchesSpared, ExtractionsSpared DEF SparesRequests
<1>3. ASSUME SparesRequests, Aside
      PROVE  SparesRequests'
  BY <1>3 DEF SparesRequests, Aside, Forced, Entry, Key
<1>4. ASSUME Shape, SparesRequests, NEW p \in Pages, Edit(p) \/ Expire(p)
      PROVE  SparesRequests'
  <2>1. cached \in [Pages -> Text0]
    BY <1>4 DEF Shape, TypeOK
  <2>2. UNCHANGED <<extracted, call, job>> /\ \A q \in Pages : cached[q] = Absent => cached'[q] = Absent
    BY <1>4, <2>1 DEF Edit, Expire
  <2>3. \A j \in Jobs : job[j].pc = "fetch" => job[j].page \in Pages
    BY <1>4 DEF Shape, JobShape
  <2>4. QED
    BY <1>4, <2>2, <2>3 DEF SparesRequests, Forced, Entry, Key
<1>5. Shape /\ SparesRequests /\ [Next]_vars => SparesRequests'
  BY <1>2, <1>3, <1>4, StepKinds
<1>6. QED
  BY <1>1, <1>5, ShapeHolds, PTL DEF Spec

-----------------------------------------------------------------------------
(* Which of two texts is older.                                            *)

\* Text t of page p came through the page lock: whatever is there of the page now, or is
\* on its way, is no older.
Known(p, t) ==
  /\ t <= version[p]
  /\ cached[p] # Absent => t <= cached[p]
  /\ \A j \in Jobs : job[j].pc = "fetch" /\ job[j].page = p => t <= job[j].text

JobOrdered(j) ==
  LET x == job[j]
  IN  /\ x.pc = "fetch" => cached[x.page] <= x.text /\ x.text <= version[x.page]
      /\ x.pc \in {"key", "llm"} => Known(x.page, x.text)
      /\ x.pc = "done" => x.text <= version[x.page]

EntryOrdered(e) ==
  /\ Known(e.key[1], e.text)
  /\ \A j \in Jobs : job[j].pc \in {"key", "llm"} /\ Key(j) = e.key => e.text <= job[j].text

\* A key's lock is taken in the order of the texts.
QueueOrdered(k) ==
  \A a, b \in DOMAIN keyLock[k] : a < b => job[keyLock[k][a]].text <= job[keyLock[k][b]].text

Ordered ==
  /\ \A p \in Pages : cached[p] <= version[p]
  /\ \A j \in Jobs : JobOrdered(j)
  /\ \A e \in ToSet(extracted) : EntryOrdered(e)
  /\ \A k \in ExtractionKeys : QueueOrdered(k)

LEMMA Numbers ==
  ASSUME Shape
  PROVE  /\ \A p \in Pages : version[p] \in Nat /\ version[p] > 0 /\ cached[p] \in Nat
         /\ \A j \in Jobs : job[j].text \in Nat /\ job[j].stamp \in Nat
         /\ \A e \in ToSet(extracted) : e \in Entries /\ e.key[1] \in Pages /\ e.text \in Nat
         /\ Absent = 0
<1>1. Versions \subseteq Nat \ {0} /\ Absent = 0 /\ Text0 = Versions \cup {0}
  BY ConstantFacts DEF Absent, Text0
<1>2. /\ version \in [Pages -> Versions] /\ cached \in [Pages -> Text0] /\ job \in [Jobs -> Job]
      /\ extracted \in Seq(Entries)
  BY DEF Shape, TypeOK, Entries
<1> HIDE DEF Text0
<1>0. (\A v \in Versions : v \in Nat /\ v > 0) /\ (\A v \in Text0 : v \in Nat)
  BY <1>1
<1>3. \A p \in Pages : version[p] \in Nat /\ version[p] > 0 /\ cached[p] \in Nat
  BY <1>0, <1>2
<1>4. \A j \in Jobs : job[j].text \in Nat /\ job[j].stamp \in Nat
  <2>1. \A x \in Job : x.text \in Text0 /\ x.stamp \in Text0
    BY DEF Job
  <2>2. \A j \in Jobs : job[j] \in Job
    BY <1>2
  <2>3. QED
    BY <1>0, <2>1, <2>2
<1>5. \A e \in ToSet(extracted) : e \in Entries
  BY <1>2 DEF ToSet
<1>6. \A e \in Entries : e.key[1] \in Pages /\ e.text \in Nat
  BY <1>1 DEF Entries, ExtractionKeys
<1>7. QED
  BY <1>1, <1>3, <1>4, <1>5, <1>6

LEMMA SameEntry ==
  ASSUME OneEntryEach, NEW e \in ToSet(extracted), NEW f \in ToSet(extracted), e.key = f.key
  PROVE  e = f
  BY DEF OneEntryEach, ToSet

\* What is known stays known.
LEMMA KnownKept ==
  ASSUME Shape, Ordered, NEW j \in Jobs, Moves(j), version' = version,
         NEW p \in Pages, NEW t \in Nat, Known(p, t)
  PROVE  Known(p, t)'
<1>1. /\ cached \in [Pages -> Text0] /\ JobShape(j) /\ job[j].page \in Pages
  BY DEF Shape, TypeOK, JobShape, Moves
<1>2. cached'[p] # Absent => t <= cached'[p]
  BY <1>1 DEF Known, Moves, CacheMoves
<1>3. ASSUME NEW i \in Jobs, job'[i].pc = "fetch", job'[i].page = p
      PROVE  t <= job'[i].text
  <2>1. CASE i = j
    <3>1. job'[j].text = version[p]
      BY <1>3, <2>1 DEF Moves, TextMoves, Goes
    <3>2. QED
      BY <2>1, <3>1 DEF Known
  <2>2. CASE i # j
    <3>1. job'[i] = job[i]
      BY <2>2 DEF Moves, Goes
    <3>2. QED
      BY <1>3, <3>1 DEF Known
  <2>3. QED
    BY <2>1, <2>2
<1>4. QED
  BY <1>2, <1>3 DEF Known

\* A job that comes to a key's lock brings a text no older than any that is known.
LEMMA JoinsLast ==
  ASSUME Shape, Ordered, NEW j \in Jobs, Moves(j), job'[j].pc = "key",
         NEW t, Known(job[j].page, t)
  PROVE  t <= job'[j].text
<1>1. \/ job[j].pc = "fetch" /\ job'[j].text = job[j].text
      \/ ~MustFetch(j) /\ job'[j].text = cached[job[j].page]
  BY DEF Moves, TextMoves
<1>2. QED
  BY <1>1 DEF Known, MustFetch

\* And its own text is known.
LEMMA JoinsKnown ==
  ASSUME Shape, Ordered, NEW j \in Jobs, Moves(j), version' = version, job'[j].pc = "key",
         NEW p, p = job[j].page, NEW t, t = job'[j].text
  PROVE  Known(p, t)'
<1>1. /\ cached \in [Pages -> Text0] /\ JobShape(j) /\ job[j].page \in Pages /\ JobOrdered(j)
      /\ cached[job[j].page] <= version[job[j].page]
  BY DEF Shape, TypeOK, JobShape, Moves, Ordered
<1>2. CASE job[j].pc = "fetch" /\ job'[j].text = job[j].text
  <2>1. cached'[job[j].page] = job[j].text
    BY <1>1, <1>2 DEF Moves, CacheMoves
  <2>2. job[j].text <= version[job[j].page]
    BY <1>1, <1>2 DEF JobOrdered
  <2>3. \A i \in Jobs : job'[i].pc = "fetch" => i # j /\ job'[i] = job[i]
    BY DEF Moves, Goes
  <2>4. \A i \in Jobs : job'[i].pc = "fetch" => job'[i].page # job[j].page
    BY <1>2, <2>3, OneAtATime
  <2>5. job[j].text \in Nat
    BY Numbers
  <2>6. QED
    BY <1>2, <2>1, <2>2, <2>4, <2>5 DEF Known
<1>3. CASE job[j].pc \in {"sem", "page"} /\ ~MustFetch(j) /\ job'[j].text = cached[job[j].page]
  <2>1. cached' = cached
    BY <1>3 DEF Moves, CacheMoves
  <2>2. \A i \in Jobs : job'[i].pc = "fetch" => i # j /\ job'[i] = job[i]
    BY DEF Moves, Goes
  <2>3. \A i \in Jobs : job[i].pc = "fetch" => cached[job[i].page] <= job[i].text
    BY DEF Ordered, JobOrdered
  <2>4. cached[job[j].page] \in Nat
    BY <1>1, Numbers
  <2>5. QED
    BY <1>1, <1>3, <2>1, <2>2, <2>3, <2>4 DEF Known
<1>4. QED
  BY <1>2, <1>3 DEF Moves, TextMoves

LEMMA MovesPagesOrdered ==
  ASSUME Shape, Ordered, NEW j \in Jobs, Moves(j), version' = version
  PROVE  /\ \A p \in Pages : cached'[p] <= version[p]
         /\ \A p \in Pages : cached'[p] # Absent => cached'[p] >= cached[p]
<1>1. /\ cached \in [Pages -> Text0] /\ job[j].page \in Pages /\ JobOrdered(j)
      /\ \A p \in Pages : cached[p] <= version[p]
  BY DEF Shape, TypeOK, JobShape, Moves, Ordered
<1>2. /\ \A p \in Pages : version[p] \in Nat /\ cached[p] \in Nat
      /\ Absent = 0 /\ job[j].text \in Nat
  BY Numbers
<1>3. job[j].pc = "fetch" => /\ cached[job[j].page] <= job[j].text
                             /\ job[j].text <= version[job[j].page]
  BY <1>1 DEF JobOrdered
<1>4. \A p \in Pages : \/ cached'[p] = cached[p]
                       \/ cached'[p] = Absent
                       \/ job[j].pc = "fetch" /\ p = job[j].page /\ cached'[p] = job[j].text
  BY <1>1 DEF Moves, CacheMoves
<1>5. QED
  BY <1>1, <1>2, <1>3, <1>4

LEMMA MovesJobOrdered ==
  ASSUME Shape, Ordered, NEW j \in Jobs, Moves(j), version' = version, NEW i \in Jobs
  PROVE  JobOrdered(i)'
<1>1. /\ cached \in [Pages -> Text0] /\ JobShape(i) /\ JobShape(j) /\ job[j].page \in Pages
      /\ JobOrdered(i) /\ JobOrdered(j) /\ \A p \in Pages : cached[p] <= version[p]
  BY DEF Shape, TypeOK, JobShape, Moves, Ordered
<1>2. /\ \A p \in Pages : version[p] \in Nat /\ cached[p] \in Nat
      /\ Absent = 0 /\ job[i].text \in Nat /\ job[j].text \in Nat
  BY Numbers
<1>3. CASE i # j
  <2>1. job'[i] = job[i]
    BY <1>3 DEF Moves, Goes
  <2>2. ASSUME job[i].pc = "fetch"
        PROVE  cached'[job[i].page] <= job[i].text
    <3>1. job[i].page \in Pages /\ (job[j].pc = "fetch" => job[j].page # job[i].page)
      BY <1>1, <1>3, <2>2, OneAtATime DEF JobShape
    <3>2. cached'[job[i].page] \in {cached[job[i].page], Absent}
      BY <1>1, <3>1 DEF Moves, CacheMoves
    <3>3. cached[job[i].page] <= job[i].text
      BY <1>1, <2>2 DEF JobOrdered
    <3>4. QED
      BY <1>2, <3>2, <3>3
  <2>3. ASSUME job[i].pc \in {"key", "llm"}
        PROVE  Known(job[i].page, job[i].text)'
    <3>1. PICK p, t : p = job[i].page /\ t = job[i].text
      OBVIOUS
    <3>2. p \in Pages /\ t \in Nat /\ Known(p, t)
      BY <1>1, <1>2, <2>3, <3>1 DEF JobShape, JobOrdered
    <3>3. Known(p, t)'
      BY <3>2, KnownKept
    <3>4. QED
      BY <2>1, <3>1, <3>3
  <2>4. QED
    BY <1>1, <2>1, <2>2, <2>3 DEF JobOrdered
<1>4. CASE i = j
  <2>1. PICK p, t, pc : p = job[j].page /\ t = job'[j].text /\ pc = job'[j].pc
    OBVIOUS
  <2>2. job'[j].page = p /\ p \in Pages /\ pc \in {"page", "fetch", "key", "llm", "done", "failed"}
    BY <1>1, <2>1 DEF Moves, Goes
  <2>3. CASE pc = "fetch"
    <3>1. job[j].pc = "page" /\ t = version[p]
      BY <2>1, <2>3 DEF Moves, PageLockMoves, TextMoves
    <3>2. cached' = cached
      BY <2>1, <2>3, <3>1 DEF Moves, CacheMoves
    <3>3. QED
      BY <1>1, <1>2, <1>4, <2>1, <2>2, <2>3, <3>1, <3>2 DEF JobOrdered
  <2>4. CASE pc = "key"
    <3>1. Known(p, t)'
      BY <2>1, <2>4, JoinsKnown
    <3>2. QED
      BY <1>4, <2>1, <2>2, <2>4, <3>1 DEF JobOrdered
  <2>5. CASE pc = "llm"
    <3>1. job[j].pc = "key" /\ t = job[j].text
      BY <2>1, <2>5 DEF Moves, TextMoves
    <3>2. Known(p, t) /\ t \in Nat
      BY <1>1, <1>2, <2>1, <3>1 DEF JobOrdered
    <3>3. Known(p, t)'
      BY <2>2, <3>2, KnownKept
    <3>4. QED
      BY <1>4, <2>1, <2>2, <2>5, <3>3 DEF JobOrdered
  <2>6. CASE pc = "done"
    <3>1. \/ job[j].pc = "llm" /\ t = job[j].text
          \/ job[j].pc = "fetch" /\ t = job[j].text
          \/ \E e \in Entry(Key(j)) : t = e.text
      BY <2>1, <2>6 DEF Moves, TextMoves
    <3>2. ASSUME NEW e \in Entry(Key(j)), t = e.text
          PROVE  t <= version[p]
      <4>1. e \in ToSet(extracted) /\ e.key[1] = p
        BY <2>1 DEF Entry, Key
      <4>2. QED
        BY <3>2, <4>1 DEF Ordered, EntryOrdered, Known
    <3>3. t <= version[p]
      BY <1>1, <2>1, <3>1, <3>2 DEF JobOrdered, Known
    <3>4. QED
      BY <1>4, <2>1, <2>2, <2>6, <3>3 DEF JobOrdered
  <2>7. CASE pc \in {"page", "failed"}
    BY <1>4, <2>1, <2>7 DEF JobOrdered
  <2>8. QED
    BY <2>2, <2>3, <2>4, <2>5, <2>6, <2>7
<1>5. QED
  BY <1>3, <1>4

\* Who is in a key's queue.
LEMMA KeyQueues ==
  ASSUME Shape, NEW k \in ExtractionKeys, NEW q, q = keyLock[k]
  PROVE  /\ q \in Seq(Jobs) /\ DOMAIN q = 1..Len(q) /\ Len(q) \in Nat /\ IsInjective(q)
         /\ \A a \in 1..Len(q) : q[a] \in Jobs /\ job[q[a]].pc \in {"key", "llm"} /\ Key(q[a]) = k
         /\ \A j \in Jobs : job[j].pc \in {"key", "llm"} /\ Key(j) = k =>
              \E a \in 1..Len(q) : q[a] = j
         /\ \A j \in Jobs : job[j].pc = "llm" /\ Key(j) = k => q # <<>> /\ q[1] = j
<1>1. Serves(q, AtKey(k, {"key"}), AtKey(k, {"llm"})) /\ q \in Seq(Jobs)
  BY DEF Shape, NothingIsLeaked, TypeOK
<1>2. DOMAIN q = 1..Len(q) /\ Len(q) \in Nat /\ \A a \in 1..Len(q) : q[a] \in Jobs
  BY <1>1
<1>3. IsInjective(q) /\ ToSet(q) = AtKey(k, {"key"}) \cup AtKey(k, {"llm"})
  BY <1>1 DEF Serves
<1>4. \A a \in 1..Len(q) : job[q[a]].pc \in {"key", "llm"} /\ Key(q[a]) = k
  BY <1>2, <1>3 DEF ToSet, AtKey
<1>5. \A j \in Jobs : job[j].pc \in {"key", "llm"} /\ Key(j) = k => \E a \in 1..Len(q) : q[a] = j
  BY <1>2, <1>3 DEF ToSet, AtKey
<1>6. \A j \in Jobs : job[j].pc = "llm" /\ Key(j) = k => q # <<>> /\ q[1] = j
  BY <1>1 DEF Serves, AtKey, Holds
<1>7. QED
  BY <1>1, <1>2, <1>3, <1>4, <1>5, <1>6

LEMMA MovesQueueOrdered ==
  ASSUME Shape, Ordered, NEW j \in Jobs, Moves(j), version' = version, NEW k \in ExtractionKeys
  PROVE  QueueOrdered(k)'
<1>1. /\ keyLock \in [ExtractionKeys -> Seq(Jobs)] /\ JobShape(j) /\ QueueOrdered(k)
      /\ \A i \in Jobs : JobOrdered(i)
  BY DEF Shape, TypeOK, Ordered
<1>2. PICK q, K : q = keyLock[k] /\ K = Key(j)
  OBVIOUS
<1>3. /\ q \in Seq(Jobs) /\ DOMAIN q = 1..Len(q) /\ Len(q) \in Nat /\ IsInjective(q)
      /\ \A a \in 1..Len(q) : q[a] \in Jobs /\ job[q[a]].pc \in {"key", "llm"} /\ Key(q[a]) = k
      /\ \A i \in Jobs : job[i].pc = "llm" /\ Key(i) = k => q # <<>> /\ q[1] = i
  BY <1>2, KeyQueues
<1>4. \A a, b \in 1..Len(q) : a < b => job[q[a]].text <= job[q[b]].text
  BY <1>1, <1>2, <1>3 DEF QueueOrdered
<1>5. \A i \in Jobs : i # j => job'[i] = job[i]
  BY DEF Moves, Goes
<1>6. CASE keyLock' = keyLock /\ \A a \in 1..Len(q) : job'[q[a]].text = job[q[a]].text
  BY <1>2, <1>3, <1>4, <1>6 DEF QueueOrdered
<1>7. CASE job[j].pc \notin {"key", "llm"} /\ keyLock' = keyLock
  <2>1. \A a \in 1..Len(q) : q[a] # j
    BY <1>3, <1>7
  <2>2. QED
    BY <1>3, <1>5, <1>6, <1>7, <2>1
<1>8. CASE /\ job[j].pc \in {"sem", "page", "fetch"} /\ ~job[j].pin /\ job'[j].pc = "key"
           /\ keyLock' = [keyLock EXCEPT ![Key(j)] = Append(@, j)]
  <2>1. \A a \in 1..Len(q) : q[a] # j /\ job'[q[a]] = job[q[a]]
    BY <1>3, <1>5, <1>8
  <2>2. CASE k # K
    <3>1. keyLock'[k] = q
      BY <1>1, <1>2, <1>8, <2>2
    <3>2. QED
      BY <1>3, <1>4, <2>1, <3>1 DEF QueueOrdered
  <2>3. CASE k = K
    <3>1. PICK r : r = Append(q, j)
      OBVIOUS
    <3>2. keyLock'[k] = r
      BY <1>1, <1>2, <1>8, <2>3, <3>1
    <3>3. /\ DOMAIN r = 1..Len(q) + 1 /\ r[Len(q) + 1] = j
          /\ \A a \in 1..Len(q) : r[a] = q[a]
      BY <1>3, <3>1
    <3>4. ASSUME NEW a \in 1..Len(q)
          PROVE  job[q[a]].text <= job'[j].text
      <4>1. q[a] \in Jobs /\ job[q[a]].pc \in {"key", "llm"} /\ Key(q[a]) = Key(j)
        BY <1>2, <1>3, <2>3
      <4>2. Known(job[q[a]].page, job[q[a]].text) /\ job[q[a]].page = job[j].page
        BY <1>1, <4>1 DEF JobOrdered, Key
      <4>3. Known(job[j].page, job[q[a]].text)
        BY <4>2
      <4>4. QED
        BY <1>8, <4>3, JoinsLast
    <3>5. \A a, b \in 1..Len(q) + 1 : a < b => a \in 1..Len(q) /\ (b \in 1..Len(q) \/ b = Len(q) + 1)
      BY <1>3
    <3>6. \A a, b \in 1..Len(q) + 1 : a < b => job'[r[a]].text <= job'[r[b]].text
      BY <1>4, <2>1, <3>3, <3>4, <3>5
    <3>7. QED
      BY <3>2, <3>3, <3>6 DEF QueueOrdered
  <2>4. QED
    BY <2>2, <2>3
<1>9. CASE job[j].pc = "key" /\ job'[j].pc = "llm" /\ keyLock' = keyLock
  <2>1. job'[j].text = job[j].text
    BY <1>9 DEF Moves, TextMoves
  <2>2. QED
    BY <1>3, <1>5, <1>6, <1>9, <2>1
<1>10. CASE /\ job[j].pc \in {"key", "llm"} /\ (job[j].pc = "key" => Holds(keyLock[Key(j)], j))
            /\ KeyReleased(Key(j))
  <2>1. CASE k # K
    <3>1. keyLock'[k] = q
      BY <1>1, <1>2, <1>10, <2>1 DEF KeyReleased
    <3>2. \A a \in 1..Len(q) : q[a] # j /\ job'[q[a]] = job[q[a]]
      BY <1>2, <1>3, <1>5, <2>1
    <3>3. QED
      BY <1>3, <1>4, <3>1, <3>2 DEF QueueOrdered
  <2>2. CASE k = K
    <3>1. q # <<>> /\ q[1] = j
      BY <1>2, <1>3, <1>10, <2>2 DEF Holds
    <3>2. PICK r : r = Tail(q)
      OBVIOUS
    <3>3. keyLock'[k] = r
      BY <1>1, <1>2, <1>10, <2>2, <3>2 DEF KeyReleased
    <3>4. DOMAIN r = 1..Len(q) - 1 /\ \A a \in 1..Len(q) - 1 : r[a] = q[a + 1]
      BY <1>3, <3>1, <3>2
    <3>5. \A a \in 1..Len(q) - 1 : a + 1 \in 1..Len(q) /\ a + 1 # 1
      BY <1>3
    <3>6. \A a \in 1..Len(q) : a # 1 => q[a] # j
      BY <1>3, <3>1, <3>5 DEF IsInjective
    <3>7. \A a \in 1..Len(q) - 1 : job'[r[a]] = job[q[a + 1]]
      BY <1>3, <1>5, <3>4, <3>5, <3>6
    <3>8. \A a, b \in 1..Len(q) - 1 : a < b => job'[r[a]].text <= job'[r[b]].text
      BY <1>3, <1>4, <3>5, <3>7
    <3>9. QED
      BY <3>3, <3>4, <3>8 DEF QueueOrdered
  <2>3. QED
    BY <2>1, <2>2
<1>11. QED
  BY <1>7, <1>8, <1>9, <1>10 DEF Moves, KeyLockMoves

LEMMA MovesEntryOrdered ==
  ASSUME Shape, Ordered, NEW j \in Jobs, Moves(j), version' = version, NEW e \in ToSet(extracted')
  PROVE  EntryOrdered(e)'
<1>1. /\ JobShape(j) /\ JobOrdered(j) /\ \A f \in ToSet(extracted) : EntryOrdered(f)
      /\ job[j].page \in Pages
  BY DEF Shape, JobShape, Moves, Ordered
<1>2. /\ job[j].text \in Nat
      /\ \A f \in ToSet(extracted) : f.key[1] \in Pages /\ f.text \in Nat
  BY Numbers
<1>3. \/ e \in ToSet(extracted)
      \/ /\ job[j].pc = "llm" /\ job'[j].pc = "done"
         /\ e = [key |-> Key(j), text |-> job[j].text]
  BY MovesEntries DEF Entry
<1>4. Known(e.key[1], e.text)'
  <2>1. PICK p, t : p = e.key[1] /\ t = e.text
    OBVIOUS
  <2>2. CASE e \in ToSet(extracted)
    <3>1. Known(p, t) /\ p \in Pages /\ t \in Nat
      BY <1>1, <1>2, <2>1, <2>2 DEF EntryOrdered
    <3>2. QED
      BY <2>1, <3>1, KnownKept
  <2>3. CASE job[j].pc = "llm" /\ e = [key |-> Key(j), text |-> job[j].text]
    <3>1. p = job[j].page /\ t = job[j].text
      BY <2>1, <2>3 DEF Key
    <3>2. Known(p, t) /\ p \in Pages /\ t \in Nat
      BY <1>1, <1>2, <2>3, <3>1 DEF JobOrdered
    <3>3. QED
      BY <2>1, <3>2, KnownKept
  <2>4. QED
    BY <1>3, <2>2, <2>3
<1>5. ASSUME NEW i \in Jobs, job'[i].pc \in {"key", "llm"}, Key(i)' = e.key
      PROVE  e.text <= job'[i].text
  <2>1. CASE i = j
    <3>1. Key(j)' = Key(j) /\ e \in ToSet(extracted)
      BY <1>3, <1>5, <2>1 DEF Moves, Goes, TextMoves, Key
    <3>2. CASE job'[j].pc = "key"
      <4>1. Known(job[j].page, e.text)
        BY <1>1, <1>5, <2>1, <3>1 DEF EntryOrdered, Key
      <4>2. QED
        BY <2>1, <3>2, <4>1, JoinsLast
    <3>3. CASE job'[j].pc = "llm"
      <4>1. job[j].pc = "key" /\ job'[j].text = job[j].text
        BY <3>3 DEF Moves, TextMoves
      <4>2. QED
        BY <1>1, <1>5, <2>1, <3>1, <4>1 DEF EntryOrdered
    <3>4. QED
      BY <1>5, <2>1, <3>2, <3>3
  <2>2. CASE i # j
    <3>1. job'[i] = job[i] /\ Key(i)' = Key(i)
      BY <2>2 DEF Moves, Goes, Key
    <3>2. CASE e \in ToSet(extracted)
      BY <1>1, <1>5, <3>1, <3>2 DEF EntryOrdered
    <3>3. CASE job[j].pc = "llm" /\ e = [key |-> Key(j), text |-> job[j].text]
      <4>1. PICK k, q : k = Key(j) /\ q = keyLock[k]
        OBVIOUS
      <4>2. k \in ExtractionKeys
        BY <1>1, <3>3, <4>1 DEF JobShape, Key, ExtractionKeys
      <4>3. /\ q # <<>> /\ q[1] = j /\ DOMAIN q = 1..Len(q) /\ Len(q) \in Nat
            /\ \E b \in 1..Len(q) : q[b] = i
        <5>1. /\ q \in Seq(Jobs) /\ DOMAIN q = 1..Len(q) /\ Len(q) \in Nat
              /\ \A n \in Jobs : job[n].pc \in {"key", "llm"} /\ Key(n) = k =>
                   \E b \in 1..Len(q) : q[b] = n
              /\ \A n \in Jobs : job[n].pc = "llm" /\ Key(n) = k => q # <<>> /\ q[1] = n
          BY <4>1, <4>2, KeyQueues
        <5>2. job[i].pc \in {"key", "llm"} /\ Key(i) = k
          BY <1>5, <3>1, <3>3, <4>1
        <5>3. QED
          BY <3>3, <4>1, <5>1, <5>2
      <4>4. PICK b \in 1..Len(q) : q[b] = i
        BY <4>3
      <4>5. 1 \in 1..Len(q) /\ 1 < b
        BY <2>2, <4>3, <4>4
      <4>6. QueueOrdered(k)
        BY <4>2 DEF Ordered
      <4>7. job[q[1]].text <= job[q[b]].text
        BY <4>1, <4>3, <4>5, <4>6 DEF QueueOrdered
      <4>8. QED
        BY <3>1, <3>3, <4>3, <4>4, <4>7
    <3>4. QED
      BY <1>3, <3>2, <3>3
  <2>3. QED
    BY <2>1, <2>2
<1>6. QED
  BY <1>4, <1>5 DEF EntryOrdered

LEMMA MovesKeepOrdered ==
  ASSUME Shape, Ordered, NEW j \in Jobs, Moves(j), version' = version
  PROVE  Ordered'
<1>1. (\A p \in Pages : cached[p] <= version[p])'
  BY MovesPagesOrdered
<1>2. (\A i \in Jobs : JobOrdered(i))'
  BY MovesJobOrdered
<1>3. (\A e \in ToSet(extracted) : EntryOrdered(e))'
  BY MovesEntryOrdered
<1>4. (\A k \in ExtractionKeys : QueueOrdered(k))'
  BY MovesQueueOrdered
<1>5. QED
  BY <1>1, <1>2, <1>3, <1>4 DEF Ordered

LEMMA AsideKeepsOrdered ==
  ASSUME Shape, Ordered, Aside
  PROVE  Ordered'
<1>1. /\ UNCHANGED <<version, cached, extracted, keyLock>>
      /\ \A j \in Jobs : job'[j].pc \in {"fetch", "key", "llm", "done"} => job'[j] = job[j]
      /\ \A j \in Jobs : job[j].pc \in {"key", "llm"} => job'[j] = job[j]
  BY DEF Aside
<1>2. ASSUME NEW p, NEW t, Known(p, t)
      PROVE  Known(p, t)'
  BY <1>1, <1>2 DEF Known
<1>3. ASSUME NEW j \in Jobs
      PROVE  JobOrdered(j)'
  <2>1. JobOrdered(j)
    BY DEF Ordered
  <2>2. CASE job'[j] = job[j]
    <3>1. PICK p, t : p = job[j].page /\ t = job[j].text
      OBVIOUS
    <3>2. Known(p, t) => Known(p, t)'
      BY <1>2
    <3>3. QED
      BY <1>1, <2>1, <2>2, <3>1, <3>2 DEF JobOrdered
  <2>3. CASE job'[j].pc \notin {"fetch", "key", "llm", "done"}
    BY <2>3 DEF JobOrdered
  <2>4. QED
    BY <1>1, <2>2, <2>3
<1>4. ASSUME NEW e \in ToSet(extracted')
      PROVE  EntryOrdered(e)'
  <2>1. EntryOrdered(e) /\ \A j \in Jobs : Key(j) = <<job[j].page, job[j].stamp>>
    BY <1>1 DEF Ordered, Key
  <2>2. Known(e.key[1], e.text)'
    BY <1>2, <2>1 DEF EntryOrdered
  <2>3. QED
    BY <1>1, <2>1, <2>2 DEF EntryOrdered, Key
<1>5. ASSUME NEW k \in ExtractionKeys
      PROVE  QueueOrdered(k)'
  <2>1. PICK q : q = keyLock[k]
    OBVIOUS
  <2>2. DOMAIN q = 1..Len(q) /\ \A a \in 1..Len(q) : q[a] \in Jobs /\ job[q[a]].pc \in {"key", "llm"}
    BY <2>1, KeyQueues
  <2>3. \A a \in DOMAIN q : job'[q[a]] = job[q[a]]
    BY <1>1, <2>2
  <2>4. keyLock'[k] = q /\ QueueOrdered(k)
    BY <1>1, <2>1 DEF Ordered
  <2>5. QED
    BY <2>1, <2>3, <2>4 DEF QueueOrdered
<1>6. QED
  BY <1>1, <1>3, <1>4, <1>5 DEF Ordered

\* An edit makes the version newer; an entry that expires was no newer than it.
LEMMA EnvironmentKeepsOrdered ==
  ASSUME Shape, Ordered, NEW p \in Pages, Edit(p) \/ Expire(p)
  PROVE  Ordered'
<1>1. /\ version \in [Pages -> Versions] /\ cached \in [Pages -> Text0]
      /\ \A q \in Pages : cached[q] <= version[q]
  BY DEF Shape, TypeOK, Ordered
<1>2. /\ \A q \in Pages : version[q] \in Nat /\ cached[q] \in Nat
      /\ \A j \in Jobs : job[j].text \in Nat
      /\ \A e \in ToSet(extracted) : e.key[1] \in Pages /\ e.text \in Nat
      /\ Absent = 0
  BY Numbers
<1>3. /\ UNCHANGED <<extracted, keyLock, job>>
      /\ \A q \in Pages : version'[q] = version[q] \/ version'[q] = version[q] + 1
      /\ \A q \in Pages : cached'[q] = cached[q] \/ cached'[q] = Absent
  BY <1>1 DEF Edit, Expire
<1>4. ASSUME NEW q \in Pages, NEW t \in Nat, Known(q, t)
      PROVE  Known(q, t)'
  BY <1>2, <1>3, <1>4 DEF Known
<1>5. ASSUME NEW j \in Jobs
      PROVE  JobOrdered(j)'
  <2>1. JobOrdered(j) /\ (job[j].pc # "none" => job[j].page \in Pages)
    BY DEF Ordered, Shape, JobShape
  <2>2. PICK q, t : q = job[j].page /\ t = job[j].text
    OBVIOUS
  <2>3. q \in Pages /\ Known(q, t) => Known(q, t)'
    BY <1>2, <1>4, <2>2
  <2>4. QED
    BY <1>2, <1>3, <2>1, <2>2, <2>3 DEF JobOrdered
<1>6. ASSUME NEW e \in ToSet(extracted')
      PROVE  EntryOrdered(e)'
  <2>1. EntryOrdered(e) /\ e.key[1] \in Pages /\ e.text \in Nat
    BY <1>2, <1>3 DEF Ordered
  <2>2. Known(e.key[1], e.text)'
    BY <1>4, <2>1 DEF EntryOrdered
  <2>3. QED
    BY <1>3, <2>1, <2>2 DEF EntryOrdered, Key
<1>7. \A k \in ExtractionKeys : QueueOrdered(k)'
  BY <1>3 DEF Ordered, QueueOrdered
<1>8. \A q \in Pages : cached'[q] <= version'[q]
  BY <1>1, <1>2, <1>3
<1>9. QED
  BY <1>5, <1>6, <1>7, <1>8 DEF Ordered

\* Texts of one page are ordered as they came through the locks, in the caches, on their
\* way, and in the queues.
THEOREM OrderHolds == Spec => []Ordered
<1>1. Init => Ordered
  <2> SUFFICES ASSUME Init
               PROVE  Ordered
    OBVIOUS
  <2>1. NoJob.pc = "none"
    BY DEF NoJob
  <2>2. \A j \in Jobs : JobOrdered(j)
    BY <2>1 DEF Init, JobOrdered
  <2>3. ToSet(extracted) = {} /\ \A k \in ExtractionKeys : QueueOrdered(k)
    BY DEF Init, ToSet, QueueOrdered
  <2>4. \A p \in Pages : cached[p] <= version[p]
    BY DEF Init, Absent
  <2>5. QED
    BY <2>2, <2>3, <2>4 DEF Ordered
<1>2. Shape /\ Ordered /\ [Next]_vars => Ordered'
  BY MovesKeepOrdered, AsideKeepsOrdered, EnvironmentKeepsOrdered, StepKinds
<1>3. QED
  BY <1>1, <1>2, ShapeHolds, PTL DEF Spec

\* What one step of a job does to the entries of the two caches.
LEMMA MovesGoForward ==
  ASSUME Shape, Ordered, NEW j \in Jobs, Moves(j), version' = version
  PROVE  /\ \A p \in Pages : cached'[p] # Absent => cached'[p] >= cached[p]
         /\ \A e \in ToSet(extracted), f \in ToSet(extracted') : e.key = f.key => f.text >= e.text
<1>1. \A p \in Pages : cached'[p] # Absent => cached'[p] >= cached[p]
  BY MovesPagesOrdered
<1>2. ASSUME NEW e \in ToSet(extracted), NEW f \in ToSet(extracted'), e.key = f.key
      PROVE  f.text >= e.text
  <2>1. \/ f \in ToSet(extracted)
        \/ job[j].pc = "llm" /\ f = [key |-> Key(j), text |-> job[j].text]
    BY MovesEntries DEF Entry
  <2>2. CASE f \in ToSet(extracted)
    <3>1. e = f /\ e.text \in Nat
      BY <1>2, <2>2, SameEntry, Numbers DEF Shape
    <3>2. QED
      BY <3>1
  <2>3. CASE job[j].pc = "llm" /\ f = [key |-> Key(j), text |-> job[j].text]
    <3>1. e.text <= job[j].text
      BY <1>2, <2>3 DEF Ordered, EntryOrdered
    <3>2. e.text \in Nat /\ job[j].text \in Nat
      BY Numbers
    <3>3. QED
      BY <2>3, <3>1, <3>2
  <2>4. QED
    BY <2>1, <2>2, <2>3
<1>3. QED
  BY <1>1, <1>2

\* client.py:214, "fresh data just fetched should replace stale", and never the other way
\* round: no entry of either cache is replaced by one of an older text.
THEOREM NeverGoBack == Spec => CachesNeverGoBack
<1>1. ASSUME Shape, UNCHANGED extracted,
             \A p \in Pages : cached'[p] = cached[p] \/ cached'[p] = Absent
      PROVE  /\ \A p \in Pages : cached'[p] # Absent => cached'[p] >= cached[p]
             /\ \A e \in ToSet(extracted), f \in ToSet(extracted') : e.key = f.key => f.text >= e.text
  <2>1. \A p \in Pages : cached[p] \in Nat
    BY <1>1, Numbers
  <2>2. ASSUME NEW e \in ToSet(extracted), NEW f \in ToSet(extracted), e.key = f.key
        PROVE  f.text >= e.text
    <3>1. e = f /\ e.text \in Nat
      BY <1>1, <2>2, SameEntry, Numbers DEF Shape
    <3>2. QED
      BY <3>1
  <2>3. QED
    BY <1>1, <2>1, <2>2
<1>2. ASSUME Shape, Aside
      PROVE  /\ \A p \in Pages : cached'[p] # Absent => cached'[p] >= cached[p]
             /\ \A e \in ToSet(extracted), f \in ToSet(extracted') : e.key = f.key => f.text >= e.text
  BY <1>1, <1>2 DEF Aside
<1>3. ASSUME Shape, NEW p \in Pages, Edit(p) \/ Expire(p)
      PROVE  /\ \A q \in Pages : cached'[q] # Absent => cached'[q] >= cached[q]
             /\ \A e \in ToSet(extracted), f \in ToSet(extracted') : e.key = f.key => f.text >= e.text
  <2>1. cached \in [Pages -> Text0]
    BY <1>3 DEF Shape, TypeOK
  <2>2. UNCHANGED extracted /\ \A q \in Pages : cached'[q] = cached[q] \/ cached'[q] = Absent
    BY <1>3, <2>1 DEF Edit, Expire
  <2>3. QED
    BY <1>1, <1>3, <2>2
<1>4. Shape /\ Ordered /\ [Next]_vars =>
        [/\ \A p \in Pages : cached'[p] # Absent => cached'[p] >= cached[p]
         /\ \A e \in ToSet(extracted), f \in ToSet(extracted') : e.key = f.key => f.text >= e.text]_vars
  BY <1>2, <1>3, MovesGoForward, StepKinds
<1>5. QED
  BY <1>4, ShapeHolds, OrderHolds, PTL DEF Spec, CachesNeverGoBack

-----------------------------------------------------------------------------
(* What a call shows for its request.                                      *)

Pins(c) == ToSet(PinsOf(call[c].req.urls))

\* The page lies in the spaces asked for.
Within(c, p) ==
  Resolved(call[c].req.spaces) = {} \/ SpaceOf[p] \in Resolved(call[c].req.spaces)

\* Dates are not in the future, and what a forced call has at hand is no older than the
\* call, nor than the date it will show.
JobSound(j) ==
  LET x == job[j]
  IN  /\ x.pc # "none" => x.stamp <= version[x.page]
      /\ Forced(j) /\ x.pc \in {"fetch", "key", "llm", "done"} =>
           x.text >= call[j[1]].since[x.page] /\ x.text >= x.stamp

HitsSound(c) ==
  /\ \A i \in 1..Len(call[c].found) :
       LET h == call[c].found[i] IN h.stamp <= version[h.page] /\ Within(c, h.page)
  /\ \A i \in 1..Len(call[c].pages) :
       LET h == call[c].pages[i] IN /\ h.stamp <= version[h.page]
                                    /\ h.page \in Pins(c) \/ Within(c, h.page)

\* Each pinned page is listed or an error, and those that are not errors come first.
Reported(pins, list, errors) == \A p \in pins : p \in errors \/ \E i \in 1..Len(list) : list[i].page = p

First(pins, list, errors) ==
  \A i, k \in 1..Len(list) : i < k /\ list[k].page \in pins \ errors => list[i].page \in pins

\* The pages to work on account for the pinned pages, or the limit is full.
PinsWorked(c) ==
  /\ Reported(Pins(c), call[c].pages, call[c].errors) \/ Len(call[c].pages) = call[c].req.limit
  /\ First(Pins(c), call[c].pages, call[c].errors)

\* So do the results.
PinsShown(c) ==
  /\ Reported(Pins(c), call[c].results, call[c].errors) \/ Len(call[c].pages) = call[c].req.limit
  /\ First(Pins(c), call[c].results, call[c].errors)
  /\ NoRepeats(call[c].results)

ResultsSound(c) ==
  \A i \in 1..Len(call[c].results) :
    LET r == call[c].results[i]
    IN  /\ r.text <= version[r.page]
        /\ r.page \in Pins(c) \/ Within(c, r.page)
        /\ call[c].req.force => r.text >= call[c].since[r.page] /\ r.text >= r.stamp

CallSound(c) ==
  /\ c \in Topics /\ call[c].at # "idle" => \E f \in BOOLEAN : call[c].req = TopicRequest(f)
  /\ call[c].at # "idle" /\ call[c].req.force => \A p \in Pages : call[c].since[p] <= version[p]
  /\ HitsSound(c)
  /\ c \in Searches /\ call[c].at = "work" => PinsWorked(c)
  /\ c \in Searches /\ call[c].at = "done" => PinsShown(c)
  /\ call[c].at = "done" => ResultsSound(c)

Sound ==
  /\ \A j \in Jobs : JobSound(j)
  /\ \A c \in Calls : CallSound(c)

LEMMA CallNumbers ==
  ASSUME Shape, NEW c \in Calls
  PROVE  /\ \A p \in Pages : call[c].since[p] \in Nat
         /\ \A i \in 1..Len(call[c].found) : /\ call[c].found[i].page \in Pages
                                             /\ call[c].found[i].stamp \in Nat
         /\ \A i \in 1..Len(call[c].pages) : /\ call[c].pages[i].page \in Pages
                                             /\ call[c].pages[i].stamp \in Nat
         /\ \A i \in 1..Len(call[c].results) : /\ call[c].results[i].page \in Pages
                                               /\ call[c].results[i].stamp \in Nat
                                               /\ call[c].results[i].text \in Nat
<1>1. \A v \in Versions : v \in Nat
  BY ConstantFacts
<1>2. call[c] \in Call
  BY DEF Shape, TypeOK
<1>3. /\ call[c].since \in [Pages -> Versions] /\ call[c].found \in Seq(Hit)
      /\ call[c].pages \in Seq(Hit) /\ call[c].results \in Seq(Result)
  BY <1>2 DEF Call, Result
<1>4. /\ \A h \in Hit : h.page \in Pages /\ h.stamp \in Nat
      /\ \A r \in Result : r.page \in Pages /\ r.stamp \in Nat /\ r.text \in Nat
  BY <1>1 DEF Hit, Result
<1>5. /\ \A i \in 1..Len(call[c].found) : call[c].found[i] \in Hit
      /\ \A i \in 1..Len(call[c].pages) : call[c].pages[i] \in Hit
      /\ \A i \in 1..Len(call[c].results) : call[c].results[i] \in Result
  BY <1>3
<1>6. QED
  BY <1>1, <1>3, <1>4, <1>5

\* A job is under way for a call that has begun.
LEMMA JobsCall ==
  ASSUME Shape, NEW j \in Jobs, job[j].pc # "none"
  PROVE  j[1] \in Calls /\ call[j[1]].at \in {"pin", "work"}
<1>1. j[1] \in Calls /\ j[2] \in 1..Cardinality(Pages) /\ j = <<j[1], j[2]>>
  BY JobsFacts
<1>2. CallShape(j[1]) /\ call[j[1]] \in Call
  BY <1>1 DEF Shape, TypeOK
<1>3. call[j[1]].at \in {"idle", "search", "pin", "work", "done"}
  BY <1>2 DEF Call
<1>4. call[j[1]].at \notin {"idle", "search", "done"}
  BY <1>1, <1>2 DEF CallShape
<1>5. QED
  BY <1>1, <1>3, <1>4

LEMMA MovesKeepSound ==
  ASSUME Shape, Ordered, Sound, NEW j \in Jobs, Moves(j), UNCHANGED <<version, call>>
  PROVE  Sound'
<1>1. \A c \in Calls : CallSound(c)'
  BY ZenonT(60) DEF Sound, CallSound, HitsSound, PinsWorked, PinsShown, ResultsSound, Pins, Within
<1>2. \A i \in Jobs : i # j => JobSound(i)'
  <2>1. \A i \in Jobs : i # j => job'[i] = job[i] /\ JobSound(i)
    BY DEF Moves, Goes, Sound
  <2>2. QED
    BY <2>1 DEF JobSound, Forced
<1>3. JobSound(j)'
  <2>1. PICK c, p, x, y : c = j[1] /\ p = job[j].page /\ x = job[j] /\ y = job'[j]
    OBVIOUS
  <2>2. x.pc # "none" /\ y.page = p /\ p \in Pages /\ c \in Calls /\ call[c].at # "idle"
    BY <2>1, JobsCall DEF Moves, Goes, Shape, JobShape
  <2>3. /\ version[p] \in Nat /\ x.text \in Nat /\ x.stamp \in Nat /\ call[c].since[p] \in Nat
        /\ JobSound(j) /\ JobOrdered(j) /\ CallSound(c)
    BY <2>1, <2>2, Numbers, CallNumbers DEF Sound, Ordered
  <2>4. x.stamp <= version[p]
    BY <2>1, <2>2, <2>3 DEF JobSound
  <2>5. y.stamp <= version[p]
    <3>1. x.pin /\ y.pc = "done" => x.pc = "fetch"
      BY <2>1 DEF Moves, TextMoves, Shape, JobShape
    <3>2. x.pc = "fetch" => x.text <= version[p]
      BY <2>1, <2>3 DEF JobOrdered
    <3>3. y.stamp = IF x.pin /\ y.pc = "done" THEN x.text ELSE x.stamp
      BY <2>1 DEF Moves, TextMoves
    <3>4. QED
      BY <2>4, <3>1, <3>2, <3>3
  <2>6. ASSUME Forced(j), y.pc \in {"fetch", "key", "llm", "done"}
        PROVE  y.text >= call[c].since[p] /\ y.text >= y.stamp
    <3>1. MustFetch(j) /\ MustExtract(j)
      BY <2>6 DEF MustFetch, MustExtract
    <3>2. \/ y.pc = "fetch" /\ y.text = version[p]
          \/ x.pc \in {"fetch", "key", "llm"} /\ y.text = x.text
      BY <2>1, <2>6, <3>1 DEF Moves, TextMoves
    <3>3. CASE y.pc = "fetch" /\ y.text = version[p]
      <4>1. call[c].req.force
        BY <2>1, <2>6 DEF Forced
      <4>2. call[c].since[p] <= version[p]
        BY <2>2, <2>3, <4>1 DEF CallSound
      <4>3. QED
        BY <2>3, <2>5, <3>3, <4>2
    <3>4. CASE x.pc \in {"fetch", "key", "llm"} /\ y.text = x.text
      <4>1. x.text >= call[c].since[p] /\ x.text >= x.stamp
        BY <2>1, <2>3, <2>6, <3>4 DEF JobSound
      <4>2. y.stamp \in {x.text, x.stamp}
        BY <2>1 DEF Moves, TextMoves
      <4>3. QED
        BY <2>3, <3>4, <4>1, <4>2
    <3>5. QED
      BY <3>2, <3>3, <3>4
  <2>7. QED
    BY <2>1, <2>2, <2>5, <2>6 DEF JobSound, Forced
<1>4. QED
  BY <1>1, <1>2, <1>3 DEF Sound

\* Calls and jobs that a step leaves alone.
LEMMA OthersSound ==
  ASSUME Shape, Sound, NEW c \in Calls, version' = version,
         \A d \in Calls : d # c => call'[d] = call[d],
         \A j \in Jobs : j[1] # c => job'[j] = job[j]
  PROVE  /\ \A d \in Calls : d # c => CallSound(d)'
         /\ \A j \in Jobs : j[1] # c => JobSound(j)'
<1>1. ASSUME NEW d \in Calls, d # c
      PROVE  CallSound(d)'
  <2>1. call'[d] = call[d] /\ CallSound(d)
    BY <1>1 DEF Sound
  <2>2. QED
    BY <2>1 DEF CallSound, HitsSound, PinsWorked, PinsShown, ResultsSound, Pins, Within
<1>2. ASSUME NEW j \in Jobs, j[1] # c
      PROVE  JobSound(j)'
  <2>1. job'[j] = job[j] /\ call'[j[1]] = call[j[1]] /\ JobSound(j)
    BY <1>2, JobsFacts DEF Sound
  <2>2. QED
    BY <2>1 DEF JobSound, Forced
<1>3. QED
  BY <1>1, <1>2

LEMMA StartedSound ==
  ASSUME Shape, version' = version, NEW c \in Calls,
         NEW req \in Requests \cup {TopicRequest(f) : f \in BOOLEAN},
         call'[c] = Started(req), c \in Topics => \E f \in BOOLEAN : req = TopicRequest(f)
  PROVE  CallSound(c)'
<1>1. /\ Started(req).at = "search" /\ Started(req).req = req
      /\ Started(req).found = <<>> /\ Started(req).pages = <<>> /\ Started(req).results = <<>>
      /\ Started(req).since = IF req.force THEN version ELSE [p \in Pages |-> 1]
  BY StartedFacts DEF Shape
<1>2. HitsSound(c)'
  BY <1>1 DEF HitsSound
<1>3. req.force => \A p \in Pages : call'[c].since[p] <= version[p]
  BY <1>1, Numbers
<1>4. QED
  BY <1>1, <1>2, <1>3 DEF CallSound

LEMMA SearchKeepsSound ==
  ASSUME Shape, Sound, NEW c \in Calls, Search(c)
  PROVE  Sound'
<1>1. PICK req \in Requests : call' = [call EXCEPT ![c] = Started(req)]
  BY DEF Search
<1>2. /\ c \notin Topics /\ UNCHANGED <<version, job>> /\ call[c].at = "idle"
      /\ CallShape(c) /\ call \in [Calls -> Call]
  BY ConstantFacts DEF Search, Shape, TypeOK
<1>3. call'[c] = Started(req) /\ \A d \in Calls : d # c => call'[d] = call[d]
  BY <1>1, <1>2
<1>4. CallSound(c)'
  BY <1>2, <1>3, StartedSound
<1>5. \A j \in Jobs : j[1] = c => job[j].pc = "none"
  BY <1>2, JobsFacts DEF CallShape
<1>6. \A j \in Jobs : j[1] = c => JobSound(j)'
  BY <1>2, <1>5 DEF JobSound
<1>7. QED
  BY <1>2, <1>3, <1>4, <1>6, OthersSound DEF Sound

LEMMA BeginResearchKeepsSound ==
  ASSUME Shape, Sound, BeginResearch
  PROVE  Sound'
<1>1. PICK force \in BOOLEAN :
        call' = [c \in Calls |-> IF c \in Topics THEN Started(TopicRequest(force)) ELSE call[c]]
  BY DEF BeginResearch
<1>2. UNCHANGED <<version, job>> /\ \A c \in Topics : call[c].at = "idle" /\ CallShape(c)
  BY DEF BeginResearch, Shape, Calls
<1>3. ASSUME NEW c \in Calls
      PROVE  CallSound(c)'
  <2>1. CASE c \in Topics
    <3>1. PICK req : req = TopicRequest(force)
      OBVIOUS
    <3>2. req \in {TopicRequest(f) : f \in BOOLEAN} /\ \E f \in BOOLEAN : req = TopicRequest(f)
      BY <3>1
    <3>3. call'[c] = Started(req)
      BY <1>1, <2>1, <3>1
    <3>4. QED
      BY <1>2, <3>2, <3>3, StartedSound
  <2>2. CASE c \notin Topics
    <3>1. call'[c] = call[c] /\ CallSound(c)
      BY <1>1, <2>2 DEF Sound
    <3>2. QED
      BY <1>2, <3>1 DEF CallSound, HitsSound, PinsWorked, PinsShown, ResultsSound, Pins, Within
  <2>3. QED
    BY <2>1, <2>2
<1>4. ASSUME NEW j \in Jobs
      PROVE  JobSound(j)'
  <2>1. CASE j[1] \in Topics
    <3>1. job[j].pc = "none"
      BY <1>2, <2>1, JobsFacts DEF CallShape
    <3>2. QED
      BY <1>2, <3>1 DEF JobSound
  <2>2. CASE j[1] \notin Topics
    <3>1. call'[j[1]] = call[j[1]] /\ JobSound(j)
      BY <1>1, <2>2, JobsFacts DEF Sound
    <3>2. QED
      BY <1>2, <3>1 DEF JobSound, Forced
  <2>3. QED
    BY <2>1, <2>2
<1>5. QED
  BY <1>3, <1>4 DEF Sound

LEMMA PinKeepsSound ==
  ASSUME Shape, Sound, NEW c \in Searches, call[c].at = "search", NEW found \in Seq(Hit),
         \A i \in 1..Len(found) : Fits(found[i], Resolved(call[c].req.spaces), version),
         Pin(c, found), version' = version
  PROVE  Sound'
<1>1. c \in Calls /\ TypeOK /\ CallSound(c) /\ c \notin Topics
  BY ConstantFacts DEF Calls, Shape, Sound
<1>2. PICK ps : ps = PinsOf(call[c].req.urls)
  OBVIOUS
<1>3. ps \in Seq(Pages) /\ Len(ps) \in Nat /\ Len(ps) <= Cardinality(Pages)
  BY <1>1, <1>2, RequestFacts, PinsFacts
<1>4. /\ \A j \in Jobs : j[1] # c => job'[j] = job[j]
      /\ \A i \in 1..Cardinality(Pages) :
           IF i <= Len(ps)
           THEN /\ job'[<<c, i>>].pc = "page" /\ job'[<<c, i>>].pin
                /\ job'[<<c, i>>].page = ps[i] /\ job'[<<c, i>>].stamp = Absent
           ELSE job'[<<c, i>>] = NoJob
      /\ \A d \in Calls : d # c => call'[d] = call[d]
      /\ call'[c].at = "pin" /\ call'[c].found = found /\ call'[c].req = call[c].req
      /\ call'[c].pages = call[c].pages /\ call'[c].since = call[c].since
  BY <1>1, <1>2, PinChanges
<1>5. ASSUME NEW j \in Jobs, j[1] = c
      PROVE  JobSound(j)'
  <2>1. j[2] \in 1..Cardinality(Pages) /\ j = <<c, j[2]>>
    BY <1>5, JobsFacts
  <2>2. NoJob.pc = "none"
    BY DEF NoJob
  <2>3. CASE j[2] <= Len(ps)
    <3>1. j[2] \in 1..Len(ps)
      BY <1>3, <2>1, <2>3, ConstantFacts
    <3>2. job'[j].pc = "page" /\ job'[j].page \in Pages /\ job'[j].stamp = Absent
      BY <1>3, <1>4, <2>1, <2>3, <3>1
    <3>3. Absent <= version[job'[j].page]
      BY <3>2, Numbers
    <3>4. QED
      BY <3>2, <3>3 DEF JobSound
  <2>4. CASE ~(j[2] <= Len(ps))
    BY <1>4, <2>1, <2>2, <2>4 DEF JobSound
  <2>5. QED
    BY <2>3, <2>4
<1>6. HitsSound(c)'
  <2>1. \A i \in 1..Len(found) : found[i].page \in Pages /\ found[i].stamp = version[found[i].page]
    <3>1. \A i \in 1..Len(found) : found[i] \in Hit
      OBVIOUS
    <3>2. QED
      BY <3>1 DEF Hit, Fits
  <2>2. \A i \in 1..Len(found) : found[i].stamp <= version[found[i].page] /\ Within(c, found[i].page)
    BY <2>1, Numbers DEF Fits, Within
  <2>3. HitsSound(c)
    BY <1>1 DEF CallSound
  <2>4. QED
    BY <1>4, <2>2, <2>3 DEF HitsSound, Within, Pins
<1>7. CallSound(c)'
  BY <1>1, <1>4, <1>6 DEF CallSound
<1>8. QED
  BY <1>1, <1>4, <1>5, <1>7, OthersSound DEF Sound

LEMMA WorkKeepsSound ==
  ASSUME Shape, Sound, NEW c \in Calls, Quiet(c), call[c].at \in {"search", "pin"},
         NEW pages \in Seq(Hit), NoRepeats(pages), NEW errors \in SUBSET (Pages \cup {NoPage}),
         \A i \in 1..Len(pages) : /\ pages[i].stamp <= version[pages[i].page]
                                  /\ pages[i].page \in Pins(c) \/ Within(c, pages[i].page),
         c \in Searches => /\ Reported(Pins(c), pages, errors) \/ Len(pages) = call[c].req.limit
                           /\ First(Pins(c), pages, errors),
         Work(c, pages, errors), version' = version
  PROVE  Sound'
<1>1. TypeOK /\ CallSound(c)
  BY DEF Shape, Sound
<1>2. /\ call'[c].at = "work" /\ call'[c].pages = pages /\ call'[c].found = <<>>
      /\ call'[c].req = call[c].req /\ call'[c].since = call[c].since
      /\ call'[c].errors = errors
  BY <1>1, WorkChanges
<1>3. /\ \A d \in Calls : d # c => call'[d] = call[d]
      /\ \A j \in Jobs : j[1] # c => job'[j] = job[j]
      /\ \A j \in Jobs : j[1] = c =>
           \/ job'[j].pc = "none"
           \/ /\ job'[j].pc = "sem" /\ \E i \in 1..Len(pages) :
                   job'[j].page = pages[i].page /\ job'[j].stamp = pages[i].stamp
  BY WorkMoves
<1>4. \A j \in Jobs : j[1] = c => JobSound(j)'
  BY <1>3 DEF JobSound
<1>5. Pins(c)' = Pins(c) /\ \A p : Within(c, p)' <=> Within(c, p)
  BY <1>2 DEF Pins, Within
<1>6. HitsSound(c)'
  BY <1>2, <1>5 DEF HitsSound
<1>7. c \in Searches => PinsWorked(c)'
  BY <1>2, <1>5 DEF PinsWorked
<1>8. CallSound(c)'
  BY <1>1, <1>2, <1>6, <1>7 DEF CallSound
<1>9. QED
  BY <1>3, <1>4, <1>8, OthersSound DEF Sound

LEMMA SearchedKeepsSound ==
  ASSUME Shape, Sound, NEW c \in Calls, Searched(c)
  PROVE  Sound'
<1>1. call[c].at = "search" /\ version' = version /\ CallSound(c)
  BY SearchedMoves DEF Sound
<1>2. Quiet(c)
  BY <1>1, QuietFacts
<1>3. ASSUME NEW hits \in Seq(Hit), NoRepeats(hits), c \in Topics, Work(c, hits, {}),
             \A i \in 1..Len(hits) : Fits(hits[i], Resolved(BriefingSpaces), version)
      PROVE  Sound'
  <2>1. {} \in SUBSET (Pages \cup {NoPage}) /\ c \notin Searches
    BY <1>3, ConstantFacts
  <2>2. call[c].req.spaces = BriefingSpaces
    <3>1. PICK g \in BOOLEAN : call[c].req = TopicRequest(g)
      BY <1>1, <1>3 DEF CallSound
    <3>2. QED
      BY <3>1 DEF TopicRequest
  <2>3. \A i \in 1..Len(hits) : hits[i] \in Hit
    BY <1>3
  <2>4. \A i \in 1..Len(hits) : hits[i].stamp = version[hits[i].page] /\ hits[i].page \in Pages
    BY <1>3, <2>3 DEF Fits, Hit
  <2>5. \A i \in 1..Len(hits) : /\ hits[i].stamp <= version[hits[i].page]
                                /\ hits[i].page \in Pins(c) \/ Within(c, hits[i].page)
    BY <1>3, <2>2, <2>4, Numbers DEF Fits, Within
  <2>6. QED
    BY <1>1, <1>2, <1>3, <2>1, <2>5, WorkKeepsSound
<1>4. ASSUME NEW hits \in Seq(Hit), c \in Searches, Pin(c, hits),
             \A i \in 1..Len(hits) : Fits(hits[i], Resolved(call[c].req.spaces), version)
      PROVE  Sound'
  BY <1>1, <1>4, PinKeepsSound
<1>5. <<>> \in Seq(Hit) /\ NoRepeats(<<>>) /\ \A i \in 1..Len(<<>>) : Fits(<<>>[i], Resolved(BriefingSpaces), version)
  BY DEF NoRepeats
<1>6. QED
  BY <1>3, <1>4, <1>5, SearchedMoves

LEMMA SearchSkippedKeepsSound ==
  ASSUME Shape, Sound, NEW c \in Calls, SearchSkipped(c)
  PROVE  Sound'
<1>1. /\ c \in Searches /\ call[c].at = "search" /\ Pin(c, <<>>) /\ version' = version
      /\ <<>> \in Seq(Hit)
      /\ \A i \in 1..Len(<<>>) : Fits(<<>>[i], Resolved(call[c].req.spaces), version)
  BY DEF SearchSkipped
<1>2. QED
  BY <1>1, PinKeepsSound

\* Pinned pages come first in the budget.  One that could not be fetched is an error.
LEMMA PinnedKeepsSound ==
  ASSUME Shape, Sound, NEW c \in Calls, Pinned(c)
  PROVE  Sound'
<1>1. PICK ps, failed, hits, found, limit, pages, errors :
        /\ ps = PinsOf(call[c].req.urls) /\ failed = FailedPages(JobsOf(c, Len(ps)))
        /\ hits = PinnedHits(c) /\ found = call[c].found /\ limit = call[c].req.limit
        /\ pages = Merged(hits, found, limit) /\ errors = call[c].errors \cup failed
  OBVIOUS
<1>2. /\ call[c].at = "pin" /\ Quiet(c) /\ version' = version
      /\ Work(c, pages, errors)
  BY <1>1, PinnedMoves
<1>3. pages \in Seq(Hit) /\ NoRepeats(pages) /\ errors \in SUBSET (Pages \cup {NoPage})
  BY <1>1, <1>2, PinnedArgs
<1>4. /\ hits \in Seq(Hit) /\ NoRepeats(hits) /\ failed \subseteq Pages
      /\ \A i \in 1..Len(ps) : job[<<c, i>>].pc = "failed" => ps[i] \in failed
  BY <1>1, <1>2, PinnedFacts
<1>5. PICK f \in [1..Len(hits) -> 1..Len(ps)] :
        /\ \A n \in 1..Len(hits) :
             /\ job[<<c, f[n]>>].pc = "done" /\ <<c, f[n]>> \in Jobs
             /\ hits[n].page = job[<<c, f[n]>>].page /\ hits[n].stamp = job[<<c, f[n]>>].stamp
             /\ hits[n].page = ps[f[n]]
        /\ \A i \in 1..Len(ps) : job[<<c, i>>].pc = "done" => \E n \in 1..Len(hits) : f[n] = i
  BY <1>1, <1>2, PinnedFacts
<1>6. /\ found \in Seq(Hit) /\ NoRepeats(found) /\ limit \in Nat /\ Len(found) \in Nat
      /\ CallSound(c) /\ CallShape(c) /\ c \in Searches
  <2>1. CallSound(c) /\ CallShape(c) /\ TypeOK
    BY DEF Shape, Sound
  <2>2. NoRepeats(call[c].found) /\ c \in Searches
    <3>1. call[c].at = "pin"
      BY <1>2
    <3>2. QED
      BY <2>1, <3>1 DEF CallShape
  <2>3. call[c] \in Call /\ call[c].req.limit \in Nat
    BY <2>1, RequestFacts
  <2>4. call[c].found \in Seq(Hit)
    BY <2>3 DEF Call
  <2>5. Len(call[c].found) \in Nat
    BY <2>4
  <2>6. QED
    BY <1>1, <2>1, <2>2, <2>3, <2>4, <2>5
<1>7. /\ pages \in Seq(Hit) /\ NoRepeats(pages) /\ Len(pages) <= limit
      /\ Len(pages) \in Nat /\ Len(hits) \in Nat
      /\ \A n \in 1..Len(pages) :
           \/ n <= Len(hits) /\ pages[n] = hits[n]
           \/ /\ n > Len(hits) /\ \E i \in 1..Len(found) : pages[n] = found[i]
              /\ \A m \in 1..Len(hits) : hits[m].page # pages[n].page
      /\ Len(hits) <= Len(pages) \/ Len(pages) = limit
  <2>1. hits \in Seq(Hit) /\ NoRepeats(hits) /\ found \in Seq(Hit) /\ NoRepeats(found) /\ limit \in Nat
    BY <1>4, <1>6
  <2>2. pages = Merged(hits, found, limit)
    BY <1>1
  <2>3. Len(pages) \in Nat /\ Len(hits) \in Nat
    BY <1>3, <1>4
  <2>4. LET merged == Merged(hits, found, limit)
        IN  /\ merged \in Seq(Hit) /\ NoRepeats(merged) /\ Len(merged) <= limit
            /\ \A n \in 1..Len(merged) :
                 \/ n <= Len(hits) /\ merged[n] = hits[n]
                 \/ /\ n > Len(hits) /\ \E i \in 1..Len(found) : merged[n] = found[i]
                    /\ \A m \in 1..Len(hits) : hits[m].page # merged[n].page
            /\ Len(hits) <= Len(merged) \/ Len(merged) = limit
    BY <2>1, MergedFacts
  <2>5. QED
    BY <2>2, <2>3, <2>4
<1>8. /\ ps \in Seq(Pages) /\ Len(ps) \in Nat /\ Len(ps) <= Cardinality(Pages)
      /\ Pins(c) = {ps[i] : i \in 1..Len(ps)}
  <2>1. ps \in Seq(Pages) /\ Len(ps) \in Nat /\ Len(ps) <= Cardinality(Pages)
    BY <1>1, RequestFacts, PinsFacts DEF Shape
  <2>2. QED
    BY <1>1, <2>1 DEF Pins, ToSet
<1>9. \A n \in 1..Len(hits) : f[n] \in 1..Len(ps) /\ hits[n].page = ps[f[n]] /\ hits[n].page \in Pins(c)
  <2>1. \A n \in 1..Len(hits) : f[n] \in 1..Len(ps)
    BY <1>5
  <2>2. \A n \in 1..Len(hits) : hits[n].page = ps[f[n]]
    BY <1>5
  <2>3. QED
    BY <1>8, <2>1, <2>2
<1>10. \A i \in 1..Len(ps) : <<c, i>> \in Jobs /\ job[<<c, i>>].pc \in {"done", "failed"}
  <2>1. \A i \in 1..Len(ps) : i \in 1..Cardinality(Pages) /\ i <= Len(ps)
    BY <1>8, ConstantFacts
  <2>2. \A i \in 1..Len(ps) : <<c, i>> \in Jobs /\ job[<<c, i>>].pc # "none"
    BY <1>1, <1>2, <1>6, <2>1, JobsFacts DEF CallShape
  <2>3. QED
    BY <1>2, <2>2 DEF Quiet
<1>11. ASSUME NEW p \in Pins(c), p \notin errors
       PROVE  \E n \in 1..Len(hits) : hits[n].page = p
  <2>1. PICK i \in 1..Len(ps) : ps[i] = p
    BY <1>8
  <2>2. p \notin failed
    BY <1>1, <1>11
  <2>3. job[<<c, i>>].pc # "failed"
    BY <1>4, <2>1, <2>2
  <2>4. job[<<c, i>>].pc = "done"
    BY <1>10, <2>3
  <2>5. PICK n \in 1..Len(hits) : f[n] = i
    BY <1>5, <2>4
  <2>6. QED
    BY <1>9, <2>1, <2>5
<1>12. Reported(Pins(c), pages, errors) \/ Len(pages) = limit
  <2>1. CASE Len(hits) <= Len(pages)
    <3>1. \A n \in 1..Len(hits) : n \in 1..Len(pages) /\ n <= Len(hits) /\ pages[n] = hits[n]
      BY <1>7, <2>1
    <3>2. QED
      BY <1>11, <3>1 DEF Reported
  <2>2. QED
    BY <1>7, <2>1
<1>13. First(Pins(c), pages, errors)
  <2>1. ASSUME NEW i \in 1..Len(pages), NEW k \in 1..Len(pages), i < k,
               pages[k].page \in Pins(c) \ errors
        PROVE  pages[i].page \in Pins(c)
    <3>1. k <= Len(hits)
      BY <1>7, <1>11, <2>1
    <3>2. i \in 1..Len(hits) /\ pages[i] = hits[i]
      BY <1>7, <2>1, <3>1
    <3>3. QED
      BY <1>9, <3>2
  <2>2. QED
    BY <2>1 DEF First
<1>14. ASSUME NEW n \in 1..Len(pages)
       PROVE  /\ pages[n].stamp <= version[pages[n].page]
              /\ pages[n].page \in Pins(c) \/ Within(c, pages[n].page)
  <2>1. CASE n <= Len(hits) /\ pages[n] = hits[n]
    <3>1. n \in 1..Len(hits)
      BY <1>7, <2>1
    <3>2. pages[n].page \in Pins(c)
      BY <1>9, <2>1, <3>1
    <3>3. /\ <<c, f[n]>> \in Jobs /\ job[<<c, f[n]>>].pc = "done"
          /\ pages[n].page = job[<<c, f[n]>>].page /\ pages[n].stamp = job[<<c, f[n]>>].stamp
      BY <1>5, <2>1, <3>1
    <3>4. JobSound(<<c, f[n]>>)
      BY <3>3 DEF Sound
    <3>5. QED
      BY <3>2, <3>3, <3>4 DEF JobSound
  <2>2. CASE \E i \in 1..Len(found) : pages[n] = found[i]
    BY <1>1, <1>6, <2>2 DEF CallSound, HitsSound
  <2>3. QED
    BY <1>7, <2>1, <2>2
<1>15. QED
  BY <1>1, <1>2, <1>3, <1>12, <1>13, <1>14, WorkKeepsSound

\* Each page worked on gives a result or an error.
LEMMA WorkedKeepsSound ==
  ASSUME Shape, Ordered, Sound, NEW c \in Calls, Worked(c)
  PROVE  Sound'
<1>1. PICK results, pages, failed, errors, force, since :
        /\ results = WorkedResults(c) /\ pages = call[c].pages
        /\ failed = FailedPages(JobsOf(c, Len(pages))) /\ errors = call[c].errors
        /\ force = call[c].req.force /\ since = call[c].since
  OBVIOUS
<1>2. call[c].at = "work" /\ version' = version /\ Quiet(c) /\ CallShape(c) /\ CallSound(c)
  BY WorkedMoves DEF Shape, Sound
<1>3. /\ \A j \in Jobs : j[1] # c => job'[j] = job[j]
      /\ \A j \in Jobs : j[1] = c => job'[j] = NoJob
      /\ \A d \in Calls : d # c => call'[d] = call[d]
      /\ call'[c].at = "done" /\ call'[c].results = results
      /\ call'[c].errors = errors \cup failed
      /\ call'[c].req = call[c].req /\ call'[c].pages = pages
      /\ call'[c].found = call[c].found /\ call'[c].since = since
  BY <1>1, WorkedChanges
<1>4. /\ results \in Seq(Result) /\ NoRepeats(results) /\ NoRepeats(pages)
      /\ pages \in Seq(Hit) /\ Len(pages) <= Cardinality(Pages) /\ failed \subseteq Pages
      /\ \A i \in 1..Len(pages) : job[<<c, i>>].pc = "failed" => pages[i].page \in failed
  BY <1>1, <1>2, WorkedFacts
<1>5. PICK f \in [1..Len(results) -> 1..Len(pages)] : Numbered(c, results, pages, f)
  <2>1. /\ call[c].at = "work" /\ results = WorkedResults(c) /\ pages = call[c].pages
        /\ failed = FailedPages(JobsOf(c, Len(pages)))
    BY <1>1, <1>2
  <2>2. QED
    BY <2>1, WorkedFacts
<1>6. \A n \in 1..Len(results) : f[n] \in 1..Len(pages) /\ results[n].page = pages[f[n]].page
  BY <1>5 DEF Numbered
<1>7. \A i \in 1..Len(pages) : <<c, i>> \in Jobs /\ job[<<c, i>>].pc \in {"done", "failed"}
  <2>1. Len(pages) \in Nat
    BY <1>4
  <2>2. \A i \in 1..Len(pages) : i \in 1..Cardinality(Pages) /\ i <= Len(pages)
    BY <1>4, <2>1, ConstantFacts
  <2>3. \A i \in 1..Len(pages) : <<c, i>> \in Jobs /\ job[<<c, i>>].pc # "none"
    BY <1>1, <1>2, <2>2, JobsFacts DEF CallShape
  <2>4. QED
    BY <1>2, <2>3 DEF Quiet
<1>8. ASSUME NEW p, NEW i \in 1..Len(pages), pages[i].page = p, p \notin failed
      PROVE  \E n \in 1..Len(results) : results[n].page = p
  <2>1. job[<<c, i>>].pc = "done"
    BY <1>4, <1>7, <1>8
  <2>2. PICK n \in 1..Len(results) : f[n] = i
    BY <1>5, <2>1 DEF Numbered
  <2>3. QED
    BY <1>6, <1>8, <2>2
<1>9. c \in Searches => PinsShown(c)'
  <2>1. Pins(c)' = Pins(c)
    BY <1>3 DEF Pins
  <2>2. ASSUME Reported(Pins(c), pages, errors)
        PROVE  Reported(Pins(c), results, errors \cup failed)
    BY <1>8, <2>2 DEF Reported
  <2>3. ASSUME First(Pins(c), pages, errors)
        PROVE  First(Pins(c), results, errors \cup failed)
    BY <1>5, <1>6, <2>3 DEF First, Numbered
  <2>4. c \in Searches => /\ Reported(Pins(c), pages, errors) \/ Len(pages) = call[c].req.limit
                          /\ First(Pins(c), pages, errors)
    BY <1>1, <1>2 DEF CallSound, PinsWorked
  <2>5. QED
    BY <1>3, <1>4, <2>1, <2>2, <2>3, <2>4 DEF PinsShown
<1>10. ResultsSound(c)'
  <2>1. ASSUME NEW n \in 1..Len(results)
        PROVE  /\ results[n].text <= version[results[n].page]
               /\ results[n].page \in Pins(c) \/ Within(c, results[n].page)
               /\ force => /\ results[n].text >= since[results[n].page]
                           /\ results[n].text >= results[n].stamp
    <3>1. PICK j : j = <<c, f[n]>>
      OBVIOUS
    <3>2. /\ j \in Jobs /\ j[1] = c /\ job[j].pc = "done"
          /\ results[n].page = job[j].page /\ results[n].stamp = job[j].stamp
          /\ results[n].text = job[j].text
      BY <1>5, <3>1 DEF Numbered
    <3>3. JobOrdered(j) /\ JobSound(j)
      BY <3>2 DEF Ordered, Sound
    <3>4. results[n].page \in Pins(c) \/ Within(c, results[n].page)
      BY <1>1, <1>2, <1>6 DEF CallSound, HitsSound
    <3>5. Forced(j) <=> force
      BY <1>1, <3>2 DEF Forced
    <3>6. force => job[j].text >= since[job[j].page] /\ job[j].text >= job[j].stamp
      BY <1>1, <3>2, <3>3, <3>5 DEF JobSound
    <3>7. QED
      BY <3>2, <3>3, <3>4, <3>6 DEF JobOrdered
  <2>2. QED
    BY <1>1, <1>2, <1>3, <2>1 DEF ResultsSound, Pins, Within
<1>11. HitsSound(c)'
  BY <1>1, <1>2, <1>3 DEF CallSound, HitsSound, Pins, Within
<1>12. CallSound(c)'
  BY <1>1, <1>2, <1>3, <1>9, <1>10, <1>11 DEF CallSound
<1>13. \A j \in Jobs : j[1] = c => JobSound(j)'
  <2>1. NoJob.pc = "none"
    BY DEF NoJob
  <2>2. QED
    BY <1>3, <2>1 DEF JobSound
<1>14. QED
  BY <1>2, <1>3, <1>12, <1>13, OthersSound DEF Sound

\* A newer version only makes texts and dates older.
LEMMA EnvironmentKeepsSound ==
  ASSUME Shape, Sound, NEW p \in Pages, Edit(p) \/ Expire(p)
  PROVE  Sound'
<1>1. /\ UNCHANGED <<call, job>>
      /\ \A q \in Pages : version'[q] = version[q] \/ version'[q] = version[q] + 1
  <2>1. version \in [Pages -> Versions]
    BY DEF Shape, TypeOK
  <2>2. QED
    BY <2>1 DEF Edit, Expire
<1>2. \A q \in Pages : version[q] \in Nat /\ version'[q] \in Nat /\ version[q] <= version'[q]
  BY <1>1, Numbers
<1>3. ASSUME NEW q \in Pages, NEW t \in Nat, t <= version[q]
      PROVE  t <= version'[q]
  BY <1>2, <1>3
<1>4. ASSUME NEW j \in Jobs
      PROVE  JobSound(j)'
  <2>1. JobSound(j) /\ job[j].stamp \in Nat /\ (job[j].pc # "none" => job[j].page \in Pages)
    BY Numbers DEF Sound, Shape, JobShape
  <2>2. QED
    BY <1>1, <1>3, <2>1 DEF JobSound, Forced
<1>5. ASSUME NEW c \in Calls
      PROVE  CallSound(c)'
  <2>1. CallSound(c)
    BY DEF Sound
  <2>2. HitsSound(c)'
    BY <1>1, <1>3, <2>1, CallNumbers DEF CallSound, HitsSound, Within, Pins
  <2>3. call[c].at = "done" => ResultsSound(c)'
    BY <1>1, <1>3, <2>1, CallNumbers DEF CallSound, ResultsSound, Within, Pins
  <2>4. ASSUME call[c].at # "idle", call[c].req.force
        PROVE  \A q \in Pages : call[c].since[q] <= version'[q]
    BY <1>3, <2>1, <2>4, CallNumbers DEF CallSound
  <2>5. QED
    BY <1>1, <2>1, <2>2, <2>3, <2>4 DEF CallSound, PinsWorked, PinsShown, Pins
<1>6. QED
  BY <1>4, <1>5 DEF Sound

\* search_context, 455-576: what a call has collected at each of its awaits accounts for
\* the pages its caller named, stays in its spaces, and is as fresh as it must be.
THEOREM SoundHolds == Spec => []Sound
<1>1. Init => Sound
  <2> SUFFICES ASSUME Init
               PROVE  Sound
    OBVIOUS
  <2>1. NoJob.pc = "none" /\ NoCall.at = "idle" /\ NoCall.found = <<>> /\ NoCall.pages = <<>>
    BY DEF NoJob, NoCall
  <2>2. \A j \in Jobs : JobSound(j)
    BY <2>1 DEF Init, JobSound
  <2>3. \A c \in Calls : CallSound(c)
    BY <2>1 DEF Init, CallSound, HitsSound
  <2>4. QED
    BY <2>2, <2>3 DEF Sound
<1>2. ASSUME Shape, Sound, BriefingStep
      PROVE  Sound'
  <2>1. CASE TopicsDone \/ LookedUp \/ ResearchDone
    BY <1>2, <2>1, ZenonT(60) DEF TopicsDone, LookedUp, ResearchDone, Sound, JobSound, Forced, CallSound,
       HitsSound, PinsWorked, PinsShown, ResultsSound, Pins, Within
  <2>2. QED
    BY <1>2, <2>1, BeginResearchKeepsSound DEF BriefingStep
<1>3. ASSUME Sound, UNCHANGED vars
      PROVE  Sound'
  BY <1>3, ZenonT(60) DEF vars, Sound, JobSound, Forced, CallSound, HitsSound, PinsWorked, PinsShown,
     ResultsSound, Pins, Within
<1>4. ASSUME Shape, Ordered, Sound, NEW j \in Jobs, JobStep(j)
      PROVE  Sound'
  <2>1. Moves(j) /\ UNCHANGED <<version, call, briefing>>
    BY <1>4, JobStepMoves DEF Shape
  <2>2. QED
    BY <1>4, <2>1, MovesKeepSound
<1>5. ASSUME Shape, Ordered, Sound, NEW c \in Calls, Search(c) \/ CallStep(c)
      PROVE  Sound'
  BY <1>5, SearchKeepsSound, SearchSkippedKeepsSound, SearchedKeepsSound, PinnedKeepsSound,
     WorkedKeepsSound DEF CallStep
<1>6. Shape /\ Ordered /\ Sound /\ [Next]_vars => Sound'
  BY <1>2, <1>3, <1>4, <1>5, EnvironmentKeepsSound DEF Next, Finished
<1>7. QED
  BY <1>1, <1>6, ShapeHolds, OrderHolds, PTL DEF Spec

\* The results of a call, one by one.
LEMMA EachResult ==
  ASSUME Shape, NEW c \in Calls, NEW results, results = call[c].results
  PROVE  /\ results \in Seq(Result) /\ DOMAIN results = 1..Len(results) /\ Len(results) \in Nat
         /\ \A r \in ToSet(results) : \E i \in 1..Len(results) : r = results[i]
<1>1. results \in Seq(Result)
  BY DEF Shape, TypeOK, Call, Result
<1>2. QED
  BY <1>1 DEF ToSet

\* README.md:126, client.py:167, extractor.py:75: with force_refresh everything in a response
\* was read off texts no older than the call, nor than the date shown.
THEOREM ForcedFresh == Spec => []ForcedIsFresh
<1>1. ASSUME Shape, Sound, NEW c \in Calls, call[c].at = "done", call[c].req.force,
             NEW r \in ToSet(call[c].results)
      PROVE  r.text >= call[c].since[r.page] /\ r.text >= r.stamp
  <2>1. PICK i \in 1..Len(call[c].results) : r = call[c].results[i]
    BY <1>1, EachResult
  <2>2. ResultsSound(c)
    BY <1>1 DEF Sound, CallSound
  <2>3. QED
    BY <1>1, <2>1, <2>2 DEF ResultsSound
<1>2. Shape /\ Sound => ForcedIsFresh
  BY <1>1 DEF ForcedIsFresh
<1>3. QED
  BY <1>2, ShapeHolds, SoundHolds, PTL

\* cql_builder.py:34: what the search adds to the named pages lies in the spaces asked for,
\* whichever of the three queries found it.
THEOREM StaysInSpaces == Spec => []SearchStaysInSpaces
<1>1. ASSUME Shape, Sound, NEW c \in Calls, call[c].at = "done", NEW r \in ToSet(call[c].results)
      PROVE  \/ r.page \in ToSet(PinsOf(call[c].req.urls))
             \/ Resolved(call[c].req.spaces) = {}
             \/ SpaceOf[r.page] \in Resolved(call[c].req.spaces)
  <2>1. PICK i \in 1..Len(call[c].results) : r = call[c].results[i]
    BY <1>1, EachResult
  <2>2. ResultsSound(c)
    BY <1>1 DEF Sound, CallSound
  <2>3. QED
    BY <2>1, <2>2 DEF ResultsSound, Pins, Within
<1>2. Shape /\ Sound => SearchStaysInSpaces
  BY <1>1 DEF SearchStaysInSpaces
<1>3. QED
  BY <1>2, ShapeHolds, SoundHolds, PTL

\* briefing_orchestrator.py:470-475, 538-540: a page the caller named is in the results, or
\* in the errors, or the limit is full; named pages come first and none is there twice.
THEOREM PinsAccounted == Spec => []PinnedAccountedFor
<1>1. ASSUME Shape, Sound, NEW c \in Searches, call[c].at = "done",
             NEW pins, pins = ToSet(PinsOf(call[c].req.urls)),
             NEW shown, shown = [i \in DOMAIN call[c].results |-> call[c].results[i].page]
      PROVE  /\ \A p \in pins : \/ p \in ToSet(shown) \cup call[c].errors
                                \/ Len(call[c].pages) = call[c].req.limit
             /\ IsInjective(shown)
             /\ \A i, j \in DOMAIN shown : i < j /\ shown[j] \in pins \ call[c].errors => shown[i] \in pins
  <2>1. c \in Calls
    BY DEF Calls
  <2>2. PICK results : results = call[c].results
    OBVIOUS
  <2>3. DOMAIN results = 1..Len(results) /\ Len(results) \in Nat
    BY <1>1, <2>1, <2>2, EachResult
  <2>4. PinsShown(c) /\ pins = Pins(c)
    BY <1>1, <2>1 DEF Sound, CallSound, Pins
  <2>5. DOMAIN shown = 1..Len(results) /\ \A i \in 1..Len(results) : shown[i] = results[i].page
    BY <1>1, <2>2, <2>3
  <2>6. \A i \in 1..Len(results) : results[i].page \in ToSet(shown)
    BY <2>5 DEF ToSet
  <2>7. \A p \in pins : \/ p \in ToSet(shown) \cup call[c].errors
                        \/ Len(call[c].pages) = call[c].req.limit
    BY <2>2, <2>4, <2>6 DEF PinsShown, Reported
  <2>8. IsInjective(shown)
    BY <2>2, <2>3, <2>4, <2>5 DEF PinsShown, NoRepeats, IsInjective
  <2>9. \A i, j \in DOMAIN shown : i < j /\ shown[j] \in pins \ call[c].errors => shown[i] \in pins
    BY <2>2, <2>4, <2>5 DEF PinsShown, First
  <2>10. QED
    BY <2>7, <2>8, <2>9
<1>2. Shape /\ Sound => PinnedAccountedFor
  BY <1>1 DEF PinnedAccountedFor
<1>3. QED
  BY <1>2, ShapeHolds, SoundHolds, PTL

\* What evidence between two times is.
Supported(ref, since, now) ==
  \E v \in since[ref[2]]..now[ref[2]] : ref[1] \in Mentions(ref[2], v) \cup WordsOf(ref[2], v)

\* The topics are of one briefing, which began in the past.
Backed ==
  \A c \in Topics :
    /\ \A d \in Topics : call[d].req.force = call[c].req.force /\ call[d].since = call[c].since
    /\ call[c].req.force => /\ \A p \in Pages : call[c].since[p] <= version[p]
                            /\ \A ref \in briefing.refs : Supported(ref, call[c].since, version)

\* What the topics' results are evidence for.
LEMMA TopicSupports ==
  ASSUME Shape, Sound, NEW c \in Calls, call[c].at = "done", call[c].req.force, NEW ref \in RefsOf(c)
  PROVE  Supported(ref, call[c].since, version)
<1>1. PICK i \in 1..Len(call[c].results) :
        /\ call[c].results[i].page = ref[2]
        /\ ref[1] \in Mentions(ref[2], call[c].results[i].text)
  BY RefsFacts
<1>2. PICK t : t = call[c].results[i].text
  OBVIOUS
<1>3. t \in Nat /\ ref[2] \in Pages /\ version[ref[2]] \in Nat /\ call[c].since[ref[2]] \in Nat
  BY <1>1, <1>2, CallNumbers, Numbers
<1>4. t <= version[ref[2]] /\ t >= call[c].since[ref[2]]
  BY <1>1, <1>2 DEF Sound, CallSound, ResultsSound
<1>5. t \in call[c].since[ref[2]]..version[ref[2]]
  BY <1>3, <1>4
<1>6. QED
  BY <1>1, <1>2, <1>5 DEF Supported

\* What the answers to a key's query are evidence for.
LEMMA AnswerMentions ==
  ASSUME Shape, NEW key, NEW spaces, NEW hits \in Answers(KeyQuery(key, spaces), version),
         NEW h \in ToSet(hits)
  PROVE  h.page \in Pages /\ key \in WordsOf(h.page, version[h.page])
<1>1. PICK q : q = KeyQuery(key, spaces)
  OBVIOUS
<1>2. version \in [Pages -> Versions] /\ hits \in Answers(q, version)
  BY <1>1 DEF Shape, TypeOK
<1>3. /\ hits \in Seq(Hit)
      /\ \A i \in 1..Len(hits) : Matches(q, hits[i].page, version[hits[i].page])
  BY <1>2, AnswersFacts
<1>4. PICK i \in 1..Len(hits) : h = hits[i]
  <2>1. DOMAIN hits = 1..Len(hits)
    BY <1>3
  <2>2. QED
    BY <2>1 DEF ToSet
<1>5. h.page \in Pages /\ Matches(q, h.page, version[h.page])
  <2>1. hits[i] \in Hit
    BY <1>3
  <2>2. QED
    BY <1>3, <1>4, <2>1 DEF Hit
<1>6. q.text = {key}
  BY <1>1 DEF KeyQuery, Query
<1>7. QED
  BY <1>5, <1>6 DEF Matches

\* What a topic was asked does not change once it has begun.
LEMMA RequestsKept ==
  ASSUME Shape, NEW c \in Calls, Search(c) \/ CallStep(c)
  PROVE  /\ \A d \in Topics : call'[d].req = call[d].req /\ call'[d].since = call[d].since
         /\ UNCHANGED <<version, briefing>>
<1>1. TypeOK /\ \A d \in Topics : d \in Calls /\ d \notin Searches
  BY ConstantFacts DEF Shape, Calls
<1>2. UNCHANGED <<version, briefing>>
  BY DEF Search, CallStep, SearchSkipped, Searched, Pinned, Worked
<1>3. {} \in SUBSET (Pages \cup {NoPage}) /\ <<>> \in Seq(Hit) /\ NoRepeats(<<>>)
  BY DEF NoRepeats
<1>4. ASSUME NEW hits \in Seq(Hit), NoRepeats(hits), NEW errors \in SUBSET (Pages \cup {NoPage}),
             Work(c, hits, errors)
      PROVE  \A d \in Topics : call'[d].req = call[d].req /\ call'[d].since = call[d].since
  BY <1>1, <1>4, WorkChanges
<1>5. ASSUME NEW hits \in Seq(Hit), c \in Searches, Pin(c, hits)
      PROVE  \A d \in Topics : call'[d].req = call[d].req /\ call'[d].since = call[d].since
  BY <1>1, <1>5, PinChanges
<1>6. CASE Search(c)
  <2>1. \A d \in Topics : call'[d] = call[d]
    BY <1>1, <1>6 DEF Search, TypeOK
  <2>2. QED
    BY <1>2, <2>1
<1>7. CASE SearchSkipped(c)
  BY <1>2, <1>3, <1>5, <1>7 DEF SearchSkipped
<1>8. CASE Searched(c)
  BY <1>2, <1>3, <1>4, <1>5, <1>8, SearchedMoves
<1>9. CASE Pinned(c)
  <2>1. PICK pages, errors :
          /\ pages = Merged(PinnedHits(c), call[c].found, call[c].req.limit)
          /\ errors = call[c].errors \cup FailedPages(JobsOf(c, Len(PinsOf(call[c].req.urls))))
    OBVIOUS
  <2>2. call[c].at = "pin" /\ Work(c, pages, errors)
    BY <1>9, <2>1, PinnedMoves
  <2>3. pages \in Seq(Hit) /\ NoRepeats(pages) /\ errors \in SUBSET (Pages \cup {NoPage})
    BY <2>1, <2>2, PinnedArgs
  <2>4. QED
    BY <1>2, <1>4, <2>2, <2>3
<1>10. CASE Worked(c)
  <2>1. \A d \in Topics : call'[d].req = call[d].req /\ call'[d].since = call[d].since
    BY <1>1, <1>10, WorkedChanges
  <2>2. QED
    BY <1>2, <2>1
<1>11. QED
  BY <1>6, <1>7, <1>8, <1>9, <1>10 DEF CallStep

\* A step that changes no request takes nothing back, if what it adds is supported.
LEMMA BackedKept ==
  ASSUME Shape, Backed,
         \A d \in Topics : call'[d].req = call[d].req /\ call'[d].since = call[d].since,
         \A p \in Pages : version'[p] \in Nat /\ version[p] <= version'[p],
         \A c \in Topics : call[c].req.force =>
           \A ref \in briefing'.refs : ref[2] \in Pages /\ Supported(ref, call[c].since, version)
  PROVE  Backed'
<1>1. \A d \in Topics : d \in Calls
  BY DEF Calls
<1>2. ASSUME NEW c \in Topics, call[c].req.force
      PROVE  /\ \A p \in Pages : call'[c].since[p] <= version'[p]
             /\ \A ref \in briefing'.refs : Supported(ref, call'[c].since, version')
  <2>1. PICK since : since = call[c].since
    OBVIOUS
  <2>2. call'[c].since = since
    BY <2>1
  <2>3. \A p \in Pages : since[p] \in Nat /\ since[p] <= version[p] /\ version[p] \in Nat
    BY <1>1, <1>2, <2>1, CallNumbers, Numbers DEF Backed
  <2>4. \A p \in Pages : \A v \in since[p]..version[p] : v \in since[p]..version'[p]
    BY <2>3
  <2>5. \A p \in Pages : since[p] <= version'[p]
    BY <2>3
  <2>6. \A ref \in briefing'.refs : Supported(ref, since, version')
    BY <1>2, <2>1, <2>4 DEF Supported
  <2>7. QED
    BY <2>2, <2>5, <2>6
<1>3. QED
  BY <1>2 DEF Backed

LEMMA BriefingKeepsBacked ==
  ASSUME Shape, Sound, Backed, BriefingStep
  PROVE  Backed'
<1>1. /\ version' = version /\ briefing \in Briefing /\ \A d \in Topics : d \in Calls
      /\ \A p \in Pages : version[p] \in Nat
      /\ \A ref \in briefing.refs : ref[2] \in Pages
  <2>1. version' = version
    BY DEF BriefingStep, BeginResearch, TopicsDone, LookedUp, ResearchDone
  <2>2. briefing \in Briefing
    BY DEF Shape, TypeOK
  <2>3. \A ref \in briefing.refs : ref[2] \in Pages
    BY <2>2 DEF Briefing
  <2>4. QED
    BY <2>1, <2>2, <2>3, Numbers DEF Calls
<1>2. CASE BeginResearch
  <2>1. PICK force \in BOOLEAN :
          call' = [c \in Calls |-> IF c \in Topics THEN Started(TopicRequest(force)) ELSE call[c]]
    BY <1>2 DEF BeginResearch
  <2>2. PICK req : req = TopicRequest(force)
    OBVIOUS
  <2>3. \A c \in Topics : call'[c] = Started(req)
    BY <1>1, <2>1, <2>2
  <2>4. req \in {TopicRequest(f) : f \in BOOLEAN} /\ TypeOK
    BY <2>2 DEF Shape
  <2>5. /\ Started(req).req = req
        /\ Started(req).since = IF req.force THEN version ELSE [p \in Pages |-> 1]
    BY <2>4, StartedFacts
  <2>6. briefing'.refs = {}
    BY <1>2 DEF BeginResearch
  <2>7. ASSUME NEW c \in Topics
        PROVE  /\ \A d \in Topics : call'[d].req.force = call'[c].req.force /\ call'[d].since = call'[c].since
               /\ call'[c].req.force => \A p \in Pages : call'[c].since[p] <= version'[p]
    BY <1>1, <2>3, <2>5
  <2>8. QED
    BY <2>6, <2>7 DEF Backed
<1>3. CASE TopicsDone
  <2>1. /\ call' = call /\ briefing'.refs = UNION {RefsOf(c) : c \in Topics}
        /\ \A c \in Topics : call[c].at = "done"
    BY <1>3 DEF TopicsDone
  <2>2. ASSUME NEW c \in Topics, call[c].req.force, NEW ref \in briefing'.refs
        PROVE  ref[2] \in Pages /\ Supported(ref, call[c].since, version)
    <3>1. PICK d \in Topics : ref \in RefsOf(d)
      BY <2>1, <2>2
    <3>2. d \in Calls /\ call[d].at = "done" /\ call[d].req.force /\ call[d].since = call[c].since
      BY <1>1, <2>1, <2>2 DEF Backed
    <3>3. RefsOf(d) \subseteq Keys \X Pages
      BY <3>2, RefsFacts
    <3>4. ref[2] \in Pages
      BY <3>1, <3>3
    <3>5. Supported(ref, call[d].since, version)
      BY <3>1, <3>2, TopicSupports
    <3>6. QED
      BY <3>2, <3>4, <3>5
  <2>3. QED
    BY <1>1, <2>1, <2>2, BackedKept
<1>4. CASE LookedUp
  <2>1. PICK key, spaces : key = Head(briefing.todo) /\ spaces = Resolved(BriefingSpaces)
    OBVIOUS
  <2>2. PICK hits \in Answers(KeyQuery(Head(briefing.todo), Resolved(BriefingSpaces)), version) :
          briefing' = [briefing EXCEPT !.todo = Tail(@),
                         !.refs = @ \cup {<<Head(briefing.todo), h.page>> : h \in ToSet(hits)}]
    BY <1>4 DEF LookedUp
  <2>3. PICK new : new = {<<key, h.page>> : h \in ToSet(hits)}
    OBVIOUS
  <2>4. briefing' = [briefing EXCEPT !.todo = Tail(briefing.todo), !.refs = briefing.refs \cup new]
    BY <1>1, <2>1, <2>2, <2>3 DEF Briefing
  <2>5. call' = call /\ briefing'.refs = briefing.refs \cup new
    BY <1>1, <1>4, <2>4 DEF LookedUp, Briefing
  <2>6. hits \in Answers(KeyQuery(key, spaces), version)
    BY <2>1, <2>2
  <2>7. \A h \in ToSet(hits) : h.page \in Pages /\ key \in WordsOf(h.page, version[h.page])
    BY <2>6, AnswerMentions
  <2>8. \A ref \in new : ref[2] \in Pages /\ ref[1] \in WordsOf(ref[2], version[ref[2]])
    BY <2>3, <2>7
  <2>9. ASSUME NEW c \in Topics, call[c].req.force, NEW ref \in new
        PROVE  ref[2] \in Pages /\ Supported(ref, call[c].since, version)
    <3>1. call[c].since[ref[2]] \in Nat /\ call[c].since[ref[2]] <= version[ref[2]]
      BY <1>1, <2>8, <2>9, CallNumbers DEF Backed
    <3>2. version[ref[2]] \in call[c].since[ref[2]]..version[ref[2]]
      BY <1>1, <2>8, <3>1
    <3>3. QED
      BY <2>8, <3>2 DEF Supported
  <2>10. ASSUME NEW c \in Topics, call[c].req.force, NEW ref \in briefing'.refs
         PROVE  ref[2] \in Pages /\ Supported(ref, call[c].since, version)
    BY <1>1, <2>5, <2>9, <2>10 DEF Backed
  <2>11. QED
    BY <1>1, <2>5, <2>10, BackedKept
<1>5. CASE ResearchDone
  <2>1. call' = call /\ briefing'.refs = briefing.refs
    BY <1>1, <1>5 DEF ResearchDone, Briefing
  <2>2. \A c \in Topics : call[c].req.force =>
          \A ref \in briefing'.refs : ref[2] \in Pages /\ Supported(ref, call[c].since, version)
    BY <1>1, <2>1 DEF Backed
  <2>3. QED
    BY <1>1, <2>1, <2>2, BackedKept
<1>6. QED
  BY <1>2, <1>3, <1>4, <1>5 DEF BriefingStep

\* README.md:126, "force_refresh propagates into all three caches throughout the briefing
\* pipeline": after a forced briefing a page is evidence for a key only if, at some time
\* since the briefing began, the LLM said so of its text or a search found the key in it.
THEOREM ForcedEvidenceCurrent == Spec => []ForcedEvidenceIsCurrent
<1>1. Init => Backed
  BY DEF Init, NoCall, NoRequest, TopicRequest, Backed, Calls
<1>2. ASSUME Shape, Backed, version' = version, briefing' = briefing,
             \A d \in Topics : call'[d].req = call[d].req /\ call'[d].since = call[d].since
      PROVE  Backed'
  <2>1. \A p \in Pages : version'[p] \in Nat /\ version[p] <= version'[p]
    BY <1>2, Numbers
  <2>2. \A ref \in briefing.refs : ref[2] \in Pages
    BY <1>2 DEF Shape, TypeOK, Briefing
  <2>3. QED
    BY <1>2, <2>1, <2>2, BackedKept DEF Backed
<1>3. ASSUME Shape, Backed, NEW p \in Pages, Edit(p) \/ Expire(p)
      PROVE  Backed'
  <2>1. /\ version \in [Pages -> Versions] /\ briefing' = briefing /\ call' = call
        /\ \A ref \in briefing.refs : ref[2] \in Pages
    BY <1>3 DEF Shape, TypeOK, Briefing, Edit, Expire
  <2>2. \A q \in Pages : version'[q] = version[q] \/ version'[q] = version[q] + 1
    BY <1>3, <2>1 DEF Edit, Expire
  <2>3. \A q \in Pages : version[q] \in Nat
    BY <1>3, Numbers
  <2>4. \A q \in Pages : version'[q] \in Nat /\ version[q] <= version'[q]
    BY <2>2, <2>3
  <2>5. QED
    BY <1>3, <2>1, <2>4, BackedKept DEF Backed
<1>4. ASSUME Shape, NEW j \in Jobs, JobStep(j)
      PROVE  UNCHANGED <<version, call, briefing>>
  BY <1>4, JobStepMoves DEF Shape
<1>5. Shape /\ Sound /\ Backed /\ [Next]_vars => Backed'
  BY <1>2, <1>3, <1>4, RequestsKept, BriefingKeepsBacked DEF Next, Finished, vars
<1>6. Backed => ForcedEvidenceIsCurrent
  BY DEF Backed, Supported, ForcedEvidenceIsCurrent
<1>7. QED
  BY <1>1, <1>5, <1>6, ShapeHolds, SoundHolds, PTL DEF Spec
=============================================================================
