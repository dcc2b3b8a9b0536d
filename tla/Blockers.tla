------------------------------ MODULE Blockers ------------------------------
(***************************************************************************)
(* The calculations of a briefing's sections: which issues are analysed,   *)
(* how long an issue has been blocked, and how analyses are ranked.        *)
(*                                                                         *)
(* An issue is its changelog of status changes, with days for timestamps,  *)
(* and the facts that edits change without an entry there.                 *)
(***************************************************************************)
EXTENDS Arrangements, SequencesExt

CONSTANTS
  Keys,            \* issue keys
  Statuses,        \* what to_value may be, trimmed and in lower case
  BlockedStatuses, \* settings.analysis.blocked_statuses
  NoDay,           \* a timestamp or due date that is no date, or none
  Facts,           \* key -> edits made -> priority, number of links, due date, flagged
  MaxAnalysed,     \* settings.briefing.max_analysed_issues
  TopN             \* settings.briefing.top_n

Entry == [to : Statuses, day : Int \cup {NoDay}]

IssueFacts == [priority : {"Blocker", "Critical", "High", "other"}, links : Nat,
               due : Int \cup {NoDay}, flagged : BOOLEAN]

\* Bound: an issue is edited once.
Edits == 0..1

ASSUME BlockersAssumption ==
  /\ BlockedStatuses \subseteq Statuses
  /\ NoDay \notin Int
  /\ Facts \in [Keys -> [Edits -> IssueFacts]]
  /\ MaxAnalysed \in Nat /\ TopN \in Nat

Lesser(m, n) == IF m < n THEN m ELSE n
Greater(m, n) == IF m > n THEN m ELSE n

UpTo(n, s) == SubSeq(s, 1, Lesser(n, Len(s)))

-----------------------------------------------------------------------------
(* Which issues are analysed.  A topic is the sequence of its keys.        *)

\* The positions of keys, and their order through all topics.
Positions(topics) == UNION {{t} \X DOMAIN topics[t] : t \in DOMAIN topics}

Earlier(topics) ==
  {p \in Positions(topics) \X Positions(topics) :
     \/ p[1][1] < p[2][1]
     \/ p[1][1] = p[2][1] /\ p[1][2] < p[2][2]}

\* dict.fromkeys: where a key is for the first time.
Firsts(topics) ==
  {y \in Positions(topics) :
     \A x \in Before(Positions(topics), Earlier(topics), y) : topics[x[1]][x[2]] # topics[y[1]][y[2]]}

KeptKeys(topics) ==
  LET first == Arranged(Firsts(topics), Earlier(topics))
  IN  UpTo(MaxAnalysed, [n \in DOMAIN first |-> topics[first[n][1]][first[n][2]]])

\* Mutant: only a topic that is longer than the cap loses issues.
DroppedOfLongTopics(topics, t) == Greater(0, Len(topics[t]) - MaxAnalysed)

\* dropped_keys_per_topic, a key that is there twice counted twice.
Dropped(topics, t) ==
  Cardinality({i \in DOMAIN topics[t] : topics[t][i] \notin ToSet(KeptKeys(topics))})

\* The topics that are named in the briefing's own errors.
Skipped(topics) ==
  {t \in DOMAIN topics : Dropped(topics, t) > 0 /\ Dropped(topics, t) = Len(topics[t])}

-----------------------------------------------------------------------------
(* _compute_days_blocked                                                   *)

\* Mutant: an entry dated tomorrow, by its author's clock.
DaysBlockedUnclipped(log, today) ==
  IF log = <<>> \/ log[Len(log)].to \notin BlockedStatuses \/ log[Len(log)].day = NoDay THEN 0
  ELSE today - log[Len(log)].day

\* Only the last entry counts.
DaysBlocked(log, today) ==
  IF log = <<>> \/ log[Len(log)].to \notin BlockedStatuses \/ log[Len(log)].day = NoDay THEN 0
  ELSE Greater(0, today - log[Len(log)].day)

\* Reference: the days of today's uninterrupted spell of blocked statuses.
Spell(log, today) ==
  LET spell == {i \in DOMAIN log : \A j \in i..Len(log) : log[j].to \in BlockedStatuses}
      dated == {i \in spell : log[i].day # NoDay}
  IN  IF dated = {} THEN 0
      ELSE CHOOSE n \in {Greater(0, today - log[i].day) : i \in dated} :
             \A i \in dated : today - log[i].day <= n

-----------------------------------------------------------------------------
(* RankingEngine with the weights of config/ranking_default.json.          *)

PriorityScore(priority) ==
  CASE priority = "Blocker"  -> 40
    [] priority = "Critical" -> 30
    [] priority = "High"     -> 15
    [] OTHER                 -> 0

\* Mutant: what is due in seven days is not due within seven days.
DueScoreShort(due, today) ==
  IF due = NoDay THEN 0
  ELSE IF due - today \in 0..6 THEN 20
  ELSE IF due - today \in 7..14 THEN 10
  ELSE 0

\* No bonus for what is overdue.
DueScore(due, today) ==
  IF due = NoDay THEN 0
  ELSE IF due - today \in 0..7 THEN 20
  ELSE IF due - today \in 8..14 THEN 10
  ELSE 0

\* A degraded analysis carries no facts.
Score(a, today) ==
  IF a.kind # "analysed" THEN 0
  ELSE LET facts == Facts[a.key][a.edits]
       IN  PriorityScore(facts.priority) + Lesser(2 * a.days, 30) + Lesser(5 * facts.links, 25)
             + DueScore(facts.due, today) + IF facts.flagged THEN 10 ELSE 0

\* The stable sort by score.
ByScore(list, today) ==
  LET ahead == {p \in (DOMAIN list) \X (DOMAIN list) :
                  \/ Score(list[p[1]], today) > Score(list[p[2]], today)
                  \/ Score(list[p[1]], today) = Score(list[p[2]], today) /\ p[1] < p[2]}
      order == Arranged(DOMAIN list, ahead)
  IN  [i \in DOMAIN list |-> list[order[i]]]

Rank(list, today) == UpTo(TopN, ByScore(list, today))

\* Reference: what each fact tells of an issue's urgency, without weights.  Days beyond 15
\* and links beyond 5 tell no more.
Grades(a, today) ==
  IF a.kind # "analysed"
  THEN [priority |-> 0, days |-> 0, links |-> 0, due |-> 0, flagged |-> 0]
  ELSE LET facts == Facts[a.key][a.edits]
       IN  [priority |-> CASE facts.priority = "Blocker"  -> 3
                           [] facts.priority = "Critical" -> 2
                           [] facts.priority = "High"     -> 1
                           [] OTHER                       -> 0,
            days     |-> Lesser(a.days, 15),
            links    |-> Lesser(facts.links, 5),
            due      |-> IF facts.due = NoDay \/ facts.due < today \/ facts.due > today + 14 THEN 0
                         ELSE IF facts.due <= today + 7 THEN 2 ELSE 1,
            flagged  |-> IF facts.flagged THEN 1 ELSE 0]

AtLeast(x, y, today) ==
  \A f \in {"priority", "days", "links", "due", "flagged"} : Grades(x, today)[f] >= Grades(y, today)[f]

\* No less urgent in any fact, and more in one.
Outranks(x, y, today) == AtLeast(x, y, today) /\ Grades(x, today) # Grades(y, today)
=============================================================================
