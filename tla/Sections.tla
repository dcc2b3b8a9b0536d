------------------------------ MODULE Sections ------------------------------
(***************************************************************************)
(* The sections of a briefing: _build_sections over the backend client and *)
(* the issue analyser, which successive and overlapping briefings share.   *)
(*                                                                         *)
(* A step runs from one suspension of a coroutine to the next.  A job is   *)
(* the analysis of one of a briefing's issues.                             *)
(***************************************************************************)
EXTENDS Blockers

CONSTANTS
  Briefings,      \* calls of _build_sections, each made once at any time
  Requests,       \* call -> what it may be called with
  Log0,           \* key -> its changelog at the start
  Unknown,        \* keys that the backend reports as not_found
  Moved,          \* issues that change their status meanwhile
  Edited,         \* issues that are edited meanwhile: a comment, a priority, a due date
  None,           \* no details, no analysis yet
  BatchSize,      \* chunk_size
  MaxRetries,     \* settings.lite.max_retries
  MaxConcurrency, \* permits of the analyser's semaphore
  CacheMax,       \* cache_max_size; 0 disables the cache
  MaxLog,         \* bound: length of a changelog
  LastDay         \* bound: the day on which the run ends

\* refs: which list of Confluence pages is found for a key; 0 is none.
Request == [topics : Seq(Seq(Keys)), force : BOOLEAN, refs : [Keys -> Nat]]

\* What the backend says of an issue: the length of its changelog, which stands for
\* the timestamp of the last entry, and how often it was edited otherwise.
Detail == [stamp : Nat, edits : Edits]

\* The error field of an answer: null, "" or a text.
Error == {"none", "empty", "text"}

ASSUME SectionsAssumption ==
  /\ \A b \in Briefings : Requests[b] \subseteq Request
  /\ Log0 \in [Keys -> Seq(Entry)] /\ None \notin Detail
  /\ Unknown \subseteq Keys /\ Moved \subseteq Keys /\ Edited \subseteq Keys
  /\ BatchSize \in Nat \ {0} /\ MaxRetries \in Nat \ {0} /\ MaxConcurrency \in Nat \ {0}
  /\ CacheMax \in Nat /\ MaxLog \in Nat /\ LastDay \in Nat

VARIABLES
  today,  \* the date
  log,    \* key -> its changelog
  edits,  \* key -> how often it was edited
  cache,  \* the analyser's _cache, in insertion order
  sem,    \* jobs that hold or await a permit, in the order they came
  job,    \* job -> its state
  call    \* briefing -> its locals

vars == <<today, log, edits, cache, sem, job, call>>

-----------------------------------------------------------------------------
Jobs == Briefings \X (1..MaxAnalysed)

Details == [Keys -> Detail \cup {None}]

NoDetails == [k \in Keys |-> None]

\* The facts are days, those of stamp and those of edits.
Analysis == [key : Keys, kind : {"analysed", "missing", "failed"}, stamp : Nat, days : Nat,
             edits : Edits, refs : Nat]

Degraded(k, reason) ==
  [key |-> k, kind |-> reason, stamp |-> 0, days |-> 0, edits |-> 0, refs |-> 0]

\* days: what is computed before the LLM is asked.
Job == [pc : {"none", "sem", "llm", "done"}, days : Nat]

NoJob == [pc |-> "none", days |-> 0]

Batch == [pc : {"post", "ok", "failed"}, tries : Nat, error : Error, details : Details]

NewBatch == [pc |-> "post", tries |-> 0, error |-> "none", details |-> NoDetails]

Section == [top : Seq(Analysis), dropped : Nat]

NoRequest == [topics |-> <<>>, force |-> FALSE, refs |-> [k \in Keys |-> 0]]

\* keys: all_keys.  skipped: errors names these topics.  error: that of the details, "text"
\* also when fetching them fails; errors repeats it unless it is none or empty.  since: day
\* and issues when a forced briefing began.  ranked: the day when it ranked.
Call == [at : {"idle", "fetch", "analyse", "done"}, req : Request,
         keys : Seq(Keys), skipped : SUBSET Nat, since : [day : Nat, issues : [Keys -> Detail]],
         batches : Seq(Batch), details : Details, error : Error, analyses : Seq(Analysis \cup {None}),
         sections : Seq(Section), ranked : Nat]

NoCall == [at |-> "idle", req |-> NoRequest, keys |-> <<>>, skipped |-> {},
           since |-> [day |-> 0, issues |-> [k \in Keys |-> [stamp |-> 0, edits |-> 0]]],
           batches |-> <<>>, details |-> NoDetails, error |-> "none", analyses |-> <<>>,
           sections |-> <<>>, ranked |-> 0]

TypeOK ==
  /\ today \in 0..LastDay
  /\ log \in [Keys -> Seq(Entry)]
  /\ edits \in [Keys -> Edits]
  /\ cache \in Seq([key : Keys \X Nat, analysis : Analysis])
  /\ sem \in Seq(Jobs)
  /\ job \in [Jobs -> Job]
  /\ call \in [Briefings -> Call]

Init ==
  /\ today = 0
  /\ log = Log0
  /\ edits = [k \in Keys |-> 0]
  /\ cache = <<>>
  /\ sem = <<>>
  /\ job = [j \in Jobs |-> NoJob]
  /\ call = [b \in Briefings |-> NoCall]

Issues == [k \in Keys |-> [stamp |-> Len(log[k]), edits |-> edits[k]]]

-----------------------------------------------------------------------------
(* IssueAnalyser.                                                          *)

Key(j) == call[j[1]].keys[j[2]]

DetailOf(j) == call[j[1]].details[Key(j)]

RefsOf(j) == call[j[1]].req.refs[Key(j)]

\* Mutant: the changelog is not part of the key.
CacheKeyOfIssue(j) == <<Key(j), 0>>

CacheKey(j) == <<Key(j), DetailOf(j).stamp>>

Hits(j) == {e \in ToSet(cache) : e.key = CacheKey(j)}

\* Mutant: force_refresh is not looked at.
MustAnalyseForced(j) == Hits(j) = {}

MustAnalyse(j) == call[j[1]].req.force \/ Hits(j) = {}

Permitted(j) == job[j].pc = "sem" /\ \E i \in DOMAIN sem : i <= MaxConcurrency /\ sem[i] = j

\* The job gives its permit back with this result.
Returns(j, analysis) ==
  /\ call' = [call EXCEPT ![j[1]].analyses[j[2]] = analysis]
  /\ job' = [job EXCEPT ![j] = [NoJob EXCEPT !.pc = "done"]]
  /\ sem' = RemoveFirst(sem, j)
  /\ UNCHANGED <<today, log, edits>>

NotFound(j) ==
  /\ Permitted(j) /\ DetailOf(j) = None
  /\ Returns(j, Degraded(Key(j), "missing"))
  /\ UNCHANGED cache

\* Mutant: the analysis is returned as it was cached.
ReattachedNever(a, refs) == a

\* Only an analysis without references gets the current ones.
Reattached(a, refs) == IF refs # 0 /\ a.refs = 0 THEN [a EXCEPT !.refs = refs] ELSE a

Reused(j) ==
  /\ Permitted(j) /\ DetailOf(j) # None /\ ~MustAnalyse(j)
  /\ \E e \in Hits(j) : Returns(j, Reattached(e.analysis, RefsOf(j)))
  /\ UNCHANGED cache

\* The issue as it was fetched.
LogOf(j) == UpTo(DetailOf(j).stamp, log[Key(j)])

AskLLM(j) ==
  /\ Permitted(j) /\ DetailOf(j) # None /\ MustAnalyse(j)
  /\ job' = [job EXCEPT ![j] = [pc |-> "llm", days |-> DaysBlocked(LogOf(j), today)]]
  /\ UNCHANGED <<today, log, edits, cache, sem, call>>

\* Mutant: the oldest entry goes only when the dict is over its bound.
PutOneMore(k, a) ==
  LET kept == IF Len(cache) > CacheMax THEN Tail(cache) ELSE cache
  IN  cache' = Append(SelectSeq(kept, LAMBDA e : e.key # k), [key |-> k, analysis |-> a])

\* A full dict first loses its oldest entry, even for a key that it has; a key that
\* it still has keeps its place.
Put(k, a) ==
  LET kept == IF Len(cache) >= CacheMax THEN Tail(cache) ELSE cache
  IN  cache' = IF CacheMax = 0 THEN cache
               ELSE IF \E i \in DOMAIN kept : kept[i].key = k
               THEN [i \in DOMAIN kept |->
                       IF kept[i].key = k THEN [key |-> k, analysis |-> a] ELSE kept[i]]
               ELSE Append(kept, [key |-> k, analysis |-> a])

Analysed(j) ==
  /\ job[j].pc = "llm"
  /\ LET a == [key |-> Key(j), kind |-> "analysed", stamp |-> DetailOf(j).stamp,
               days |-> job[j].days, edits |-> DetailOf(j).edits, refs |-> RefsOf(j)]
     IN  Returns(j, a) /\ Put(CacheKey(j), a)

\* AnalysisError, or anything else.
AnalysisFails(j) ==
  /\ job[j].pc = "llm"
  /\ Returns(j, Degraded(Key(j), "failed"))
  /\ UNCHANGED cache

JobStep(j) == NotFound(j) \/ Reused(j) \/ AskLLM(j) \/ Analysed(j) \/ AnalysisFails(j)

-----------------------------------------------------------------------------
(* AtlasMindLiteClient.get_issue_details.                                  *)

Chunk(b, i) ==
  {call[b].keys[n] : n \in {n \in DOMAIN call[b].keys : n > (i - 1) * BatchSize /\ n <= i * BatchSize}}

Posting(b, i) == i \in DOMAIN call[b].batches /\ call[b].batches[i].pc = "post"

BatchGoes(b, i, batch) ==
  /\ call' = [call EXCEPT ![b].batches[i] = batch]
  /\ UNCHANGED <<today, log, edits, cache, sem, job>>

\* An empty error may come with the details.
BatchAnswered(b, i) ==
  /\ Posting(b, i)
  /\ \E error \in {"none", "empty"} : BatchGoes(b, i, [NewBatch EXCEPT !.pc = "ok", !.error = error,
       !.details = [k \in Keys |-> IF k \in Chunk(b, i) \ Unknown THEN Issues[k] ELSE None]])

\* An error without the prefix "Error: " is kept.
BatchErrs(b, i) ==
  /\ Posting(b, i)
  /\ \E error \in {"empty", "text"} :
       BatchGoes(b, i, [NewBatch EXCEPT !.pc = "ok", !.error = error])

\* A transport error or 503, and it was not the last try.
TriesAgain(b, i) ==
  /\ Posting(b, i) /\ call[b].batches[i].tries + 1 < MaxRetries
  /\ BatchGoes(b, i, [NewBatch EXCEPT !.tries = call[b].batches[i].tries + 1])

\* That was the last try; another status, a malformed answer, or an "Error: ".
BatchFails(b, i) ==
  /\ Posting(b, i)
  /\ BatchGoes(b, i, [NewBatch EXCEPT !.pc = "failed"])

BatchStep(b, i) == BatchAnswered(b, i) \/ BatchErrs(b, i) \/ TriesAgain(b, i) \/ BatchFails(b, i)

-----------------------------------------------------------------------------
(* BriefingOrchestrator._build_sections.                                   *)

\* Jobs enter the semaphore in the order of the keys.
StartAnalysis(b, details, error) ==
  /\ call' = [call EXCEPT ![b].at = "analyse", ![b].batches = <<>>, ![b].details = details,
                          ![b].error = error, ![b].analyses = [i \in DOMAIN call[b].keys |-> None]]
  /\ job' = [j \in Jobs |-> IF j[1] = b /\ j[2] \in DOMAIN call[b].keys
                            THEN [NoJob EXCEPT !.pc = "sem"] ELSE job[j]]
  /\ sem' = sem \o [i \in DOMAIN call[b].keys |-> <<b, i>>]
  /\ UNCHANGED <<today, log, edits, cache>>

Begin(b) ==
  /\ call[b].at = "idle"
  /\ \E req \in Requests[b] :
       LET keys    == KeptKeys(req.topics)
           batches == {i \in DOMAIN keys : (i - 1) * BatchSize < Len(keys)}
       IN  call' = [call EXCEPT ![b] =
             [NoCall EXCEPT !.at = "fetch", !.req = req, !.keys = keys, !.skipped = Skipped(req.topics),
                !.since = IF req.force THEN [day |-> today, issues |-> Issues] ELSE @,
                !.batches = [i \in batches |-> NewBatch]]]
  /\ UNCHANGED <<today, log, edits, cache, sem, job>>

\* Mutant: the error of the first batch only.
FirstErrorOf(batches) == batches[1].error

\* The first error that is not null, be it empty.
ErrorOf(batches) ==
  LET errs == {i \in DOMAIN batches : batches[i].error # "none"}
  IN  IF errs = {} THEN "none"
      ELSE batches[Min(errs)].error

\* The answers of all batches are merged.
Fetched(b) ==
  /\ call[b].at = "fetch" /\ call[b].keys # <<>>
  /\ \A i \in DOMAIN call[b].batches : call[b].batches[i].pc = "ok"
  /\ LET batches == call[b].batches
         Found(k) == {batches[i].details[k] : i \in DOMAIN batches} \ {None}
     IN  StartAnalysis(b, [k \in Keys |-> IF Found(k) = {} THEN None ELSE CHOOSE d \in Found(k) : TRUE],
                       ErrorOf(batches))

\* LiteBackendError: gather does not wait for the other batches, and nobody reads what
\* they still get.
FetchFails(b) ==
  /\ call[b].at = "fetch"
  /\ \E i \in DOMAIN call[b].batches : call[b].batches[i].pc = "failed"
  /\ StartAnalysis(b, NoDetails, "text")

\* The analyses of a topic, a key that is there twice twice.
TopicAnalyses(b, t) ==
  LET topic == call[b].req.topics[t]
      kept  == Picked(topic, {i \in DOMAIN topic : topic[i] \in ToSet(call[b].keys)})
      Of(k) == CHOOSE a \in ToSet(call[b].analyses) : a.key = k
  IN  [i \in DOMAIN kept |-> Of(kept[i])]

\* gather returns when every job has; ranking follows at once.
Ranked(b) ==
  /\ \/ call[b].at = "analyse" /\ \A i \in DOMAIN call[b].keys : job[<<b, i>>].pc = "done"
     \/ call[b].at = "fetch" /\ call[b].keys = <<>>
  /\ call' = [call EXCEPT ![b].at = "done", ![b].ranked = today,
       ![b].sections = [t \in DOMAIN call[b].req.topics |->
          [top |-> Rank(TopicAnalyses(b, t), today), dropped |-> Dropped(call[b].req.topics, t)]]]
  /\ job' = [j \in Jobs |-> IF j[1] = b THEN NoJob ELSE job[j]]
  /\ UNCHANGED <<today, log, edits, cache, sem>>

CallStep(b) == Fetched(b) \/ FetchFails(b) \/ Ranked(b)

-----------------------------------------------------------------------------
(* Jira and the calendar.                                                  *)

Transition(k) ==
  /\ k \in Moved /\ Len(log[k]) < MaxLog
  /\ \E status \in Statuses : log' = [log EXCEPT ![k] = Append(@, [to |-> status, day |-> today])]
  /\ UNCHANGED <<today, edits, cache, sem, job, call>>

Edit(k) ==
  /\ k \in Edited /\ edits[k] = 0
  /\ edits' = [edits EXCEPT ![k] = 1]
  /\ UNCHANGED <<today, log, cache, sem, job, call>>

NextDay ==
  /\ today < LastDay
  /\ today' = today + 1
  /\ UNCHANGED <<log, edits, cache, sem, job, call>>

\* Nothing is left to do; any other state without a step is a deadlock.
Finished ==
  /\ \A b \in Briefings : call[b].at = "done"
  /\ UNCHANGED vars

Next ==
  \/ \E j \in Jobs : JobStep(j)
  \/ \E b \in Briefings : \/ Begin(b) \/ CallStep(b)
                          \/ \E i \in DOMAIN call[b].batches : BatchStep(b, i)
  \/ \E k \in Keys : Transition(k) \/ Edit(k)
  \/ NextDay
  \/ Finished

Spec == Init /\ [][Next]_vars

-----------------------------------------------------------------------------
(* Properties.                                                             *)

\* What a finished briefing ranks.
WithFacts(b) == {x \in ToSet(call[b].analyses) : x.kind = "analysed"}

Done(b) == call[b].at = "done"

\* issue_analyser.py:140-144: jobs that wait for the LLM at once never grow the cache past
\* its bound nor enter a key twice, and what is cached under a changelog is that
\* changelog's.
CacheIsHonest ==
  /\ Len(cache) <= CacheMax
  /\ \A i, j \in DOMAIN cache : cache[i].key = cache[j].key => i = j
  /\ \A e \in ToSet(cache) :
       /\ e.key = <<e.analysis.key, e.analysis.stamp>>
       /\ e.analysis.days <= Spell(UpTo(e.analysis.stamp, log[e.analysis.key]), today)

\* issue_analyser.py:4, 130-138: a briefing reports an issue's status as it fetched it,
\* whether the analysis was made for it or for an earlier or an overlapping one: the days
\* are counted in the changelog of then, and never make a spell of blocked days longer
\* than it is.  Facts that are edited without an entry there may be from before the edit,
\* although lines 8-10 speak of unchanged issues.
StatusAsFetched ==
  \A b \in Briefings : Done(b) => \A a \in WithFacts(b) :
    /\ call[b].details[a.key] # None /\ a.stamp = call[b].details[a.key].stamp
    /\ a.days <= Spell(UpTo(a.stamp, log[a.key]), today)

\* issue_analyser.py:92: with force_refresh no fact is older than the briefing; edits and
\* days are of then or later too.
RefreshedIsCurrent ==
  \A b \in Briefings : Done(b) /\ call[b].req.force => \A a \in WithFacts(b) :
    LET since == call[b].since.issues[a.key]
    IN  /\ a.stamp >= since.stamp /\ a.edits >= since.edits
        /\ \E day \in call[b].since.day..call[b].ranked :
             a.days = DaysBlocked(UpTo(a.stamp, log[a.key]), day)

\* issue_analyser.py:134-138: an issue that Confluence pages mention is reported with
\* pages, though its analysis was cached without; the pages are those that this or another
\* briefing found for it, and with force_refresh this one's.
ReferencesAreShown ==
  \A b \in Briefings : Done(b) => \A a \in WithFacts(b) :
    LET own == call[b].req.refs[a.key]
    IN  /\ own # 0 => a.refs # 0
        /\ \E other \in Briefings :
             call[other].at # "idle" /\ a.refs = call[other].req.refs[a.key]
        /\ call[b].req.force => a.refs = own

\* issue_analyser.py:134 says "Re-attach current confluence_refs (may have been enriched
\* after caching)": an issue is reported with the pages that its briefing found.
ReferencesAreCurrent ==
  \A b \in Briefings : Done(b) => \A a \in WithFacts(b) :
    call[b].req.refs[a.key] # 0 => a.refs = call[b].req.refs[a.key]

\* briefing_orchestrator.py:610-618, 663-668: every issue of a topic is analysed or counted
\* as dropped in its section, and a topic that is skipped altogether is an error of the
\* briefing.
DroppedAreCounted ==
  \A b \in Briefings : Done(b) => \A t \in DOMAIN call[b].sections :
    LET topic == call[b].req.topics[t]
    IN  /\ Len(TopicAnalyses(b, t)) + call[b].sections[t].dropped = Len(topic)
        /\ t \in call[b].skipped
             <=> topic # <<>> /\ \A i \in DOMAIN topic : topic[i] \notin ToSet(call[b].keys)

\* atlasmind_lite_client.py:143-149, issue_analyser.py:89-91: an issue goes without details
\* only if Jira does not know it, or fetching failed, or a batch came with an error that the
\* merged answer carries.  That error may be empty: then the briefing says nothing of it
\* (briefing_orchestrator.py:635), nor of a later batch's text.
MissingIsExplained ==
  \A b \in Briefings : Done(b) => \A a \in ToSet(call[b].analyses) :
    a.kind = "missing" => a.key \in Unknown \/ call[b].error # "none"

\* x is in the sequence before y is.
Precedes(s, x, y) == \A n \in DOMAIN s : s[n] = y => \E m \in 1..n - 1 : s[m] = x

\* ranking_engine.py:59-62, 69-101: whatever the weights, an issue is not shown unless every
\* issue of its topic is shown before it that is more urgent in some fact and less in none,
\* or is as urgent and came first in the topic.
NoneIsPassedOver ==
  \A b \in Briefings : Done(b) => \A t \in DOMAIN call[b].sections :
    LET all == TopicAnalyses(b, t)
        day == call[b].ranked
    IN  \A x, y \in ToSet(all) :
          Outranks(x, y, day) \/ (AtLeast(x, y, day) /\ Precedes(all, x, y))
            => Precedes(call[b].sections[t].top, x, y)
=============================================================================
