# Netra: a verification development

TLA+ modules, TLC configurations and TLAPS proofs for AtlasMind-Netra-mcp, an MCP
server that turns natural-language questions about Jira into backend queries, asks
the user about ambiguous terms, remembers the team's conventions, and assembles
briefings from several queries.  Paths below are relative to the repository root,
line numbers are those of the commit the modules were written against.

## 1. Inventory of the system

One Python process runs an asyncio event loop (server.py).  Tool calls of MCP hosts
are coroutines; they interleave only at `await` points that really suspend: LLM
calls, HTTP calls to the backend, Valkey round trips, elicitation, and work handed to
threads (`asyncio.to_thread`).  The `async` methods of the in-process stores never
suspend.

| component | state it keeps | operations | what is hard |
|---|---|---|---|
| **Clarification loop** core/orchestrator.py | none of its own; works on a `SessionState` | `handle_query`, `_split_resolved`, `_resolve_and_learn`, `_dispatch` | check before an await and update after it; in-memory sessions are shared objects; answers that arrive for a session which has moved on |
| **Session stores** memory/session_store.py, memory/valkey_stores.py | session id -> `SessionState` with TTL | `get`, `set` | aliasing (memory) or lost updates (Valkey); expiry between turns; write failures |
| **Clarifier, classifier, vocabulary** core/clarifier.py, core/intent_classifier.py, core/vocab_lookup.py | none | `formulate_question`, `resolve_answer`, `detect` | LLM output is typed but not compared with the question |
| **Learned conventions** memory/conventions_store.py | dict and JSON file | `get`, `set`, `delete`, `list_all` | worker threads share one `.tmp` file; crash between write and rename |
| **Briefing pipeline** core/briefing_orchestrator.py, memory/briefing_session_store.py, core/agenda_decomposer.py | pending briefing per session, with TTL | `generate_briefing`, `get_briefing_report` | a loop over topics suspended and resumed over several turns; partial failure; two files per report |
| **Issue analysis** core/issue_analyser.py | FIFO-bounded cache keyed by issue and last changelog timestamp | `analyse` | semaphore, duplicate work, degraded results, clock-dependent facts next to cached ones |
| **Backend client** core/atlasmind_lite_client.py | none | `query`, `get_issue_details` | retry of POSTs, concurrent batches of which one fails |
| **Ranking** core/ranking_engine.py | none | `rank` | thresholds and ties |
| **Confluence client and extraction** confluence/ | TTL caches of pages and searches, per-page locks, LRU of extractions | `search_pages_multi`, `get_page_sections`, `fetch_page_metadata`, `find_pages_mentioning_keys`, `extract` | double-checked locking, entries that expire between test and use, two caches that disagree about a page's version |
| **Context search** core/briefing_orchestrator.py 455-576 | none | `search_context` | pinned pages and search results under one limit |
| **Reports** briefings/delivery.py, core/report_synthesiser.py, core/report_renderer.py | files | `deliver`, `build_*` | best effort: failures become error notes |
| **Server, settings, LLM providers, deployment** | configuration | tool handlers, routes | plumbing |

Interactions: `query_jira` calls `handle_query`, which reads and writes the session
store, asks the clarifier, reads and extends the conventions, and posts to the
backend.  `generate_briefing` calls `handle_query` once per topic under a session id
of its own per topic, then Confluence research, issue details, issue analysis,
ranking, and delivery.

What makes the parts correct:

- *Clarification*: a host that was asked comes back to a session that awaits exactly
  that question; the rounds of questions are bounded by `max_rounds` as long as calls of
  a session do not overlap; no ambiguous term is guessed silently without elicitation; a
  user who answers is asked no more at some point.
- *Conventions*: the file can be loaded after a crash at any point, and holds every
  convention whose `set()` returned.
- *Briefing*: every topic is dispatched and reported once, an answer reaches the
  topic that asked, a report that was announced as written can be read.
- *Confluence*: no lock or permit is leaked; what the caches could have spared is not
  requested; forced results are fresh; neither cache goes back to an older text; pages
  the caller named are not lost; after a refresh, evidence rests on what pages say now.
- *Sections*: cached analyses are of the changelog an issue was fetched with, and new ones
  if they must be; issues that are dropped are counted, those without details explained;
  nothing is shown before an issue that is more urgent.

The hazards of each component, with the line where they bite, are in PROJECT.json.

## 2. Modules

| module | models | kind |
|---|---|---|
| `Clarification` | core/orchestrator.py `handle_query` over memory/ | specification |
| `MCClarification` | constants for TLC | model |
| `ClarificationProofs` | type correctness of `Clarification` | proofs |
| `ClarificationRoundsProofs` | the bound on clarification rounds, with objects private to a call and with shared ones | proofs |
| `ClarificationSessionProofs` | what an object may hold, no silent guess; what a host finds in the store when it comes back | proofs |
| `DurableMap` | what a conventions store promises | abstract specification |
| `ConventionsStore` | memory/conventions_store.py down to file-system steps | specification |
| `MCConventionsStore` | constants for TLC | model |
| `ConventionsStoreProofs` | types for any callers; crash safety, durability and the refinement for one | proofs |
| `Briefing` | core/briefing_orchestrator.py `generate_briefing` over its stores and files | specification |
| `MCBriefing` | constants for TLC | model |
| `BriefingProofs` | every safety property of `Briefing` | proofs |
| `Arrangements` | lists made from a set by an order, or from a list by leaving elements out | operators |
| `ArrangementsProofs` | facts about them, and about removal from a list | proofs |
| `Confluence` | what confluence/client/ and `search_context` compute without suspending: sections, CQL variants and their matches, page ids, merges | operators |
| `Research` | `search_context` and `_run_confluence_research` over the page cache, the extraction cache, their locks and the semaphore | specification |
| `MCResearch` | constants for TLC | model |
| `ResearchProofs` | every property of the passing run of `Research` | proofs |
| `Blockers` | deduplication and cap, `_compute_days_blocked`, scores and ranking | operators |
| `Sections` | `_build_sections` over `get_issue_details` and the shared `IssueAnalyser` | specification |
| `MCSections` | constants for TLC | model |
| `SectionsProofs` | every property of the passing runs of `Sections` | proofs |

`Research` extends `Confluence` and `Sections` extends `Blockers`; these two and `Briefing`
extend `Arrangements`.  Its `Picked(s, I)`, the elements of a list at some positions, and
`Arranged(I, R)`, a set in an order, stand where the library has `SelectSeq`, `SortSeq` and
folds: those are recursive, and nothing can be proved here about what they compute, while
these say the same by counting.  In the program
`_run_confluence_research` and `_build_sections` run one after the other between the
actions `Finish` and `Deliver` of `Briefing`; they touch no state of that module, add
only to sections and to `errors`, and share nothing with each other but the references
that the first hands to the second (`refs` of both).

### Clarification

A *call* is one run of the coroutine `handle_query`; an action runs from one real
suspension point to the next, because nothing else can run in between.  The variables:

| variable | in the code |
|---|---|
| `pc`, `frame` | where each coroutine is suspended, and its locals (`session_id`, the session object, `query`, `unresolved` or `pending_terms` as `terms`, the resolutions still to learn as `todo`, `active`, whether `errors` says something as `warned`, and which of the two call sites of `_resolve_and_learn` it is in as `via`) |
| `heap` | `SessionState` objects |
| `store` | the session store, id to object |
| `conv` | the terms the conventions dict holds |
| `host` | the last response each host received |

Objects are explicit because aliasing is what distinguishes the two stores.  The
in-process store hands out the stored object, so two calls of one session may mutate
the same one between their awaits; Valkey hands out a fresh copy and stores a copy,
and every access suspends.  `Handed(s)` and `Slot(s)` say which object that is, and
`Collected` resets objects nobody refers to (so that TLC does not tell garbage apart).

Actions, in the order of the code: `ReceiveAnswer`, `ReceiveRepeat`, `ReceiveQuery`
(the branches at 159-173 up to the first await), `AnswerResolved`, `ResolveFails`,
`ConventionWritten`, `ConventionWriteFails` (`_resolve_and_learn`, one conventions
write at a time), `QuestionFormulated`, `FormulateFails` (187-205), `UserAnswers`,
`UserDeclines` (the elicitation), `Saved`, `SaveFails` (Valkey writes),
`BackendReturns` (307-398).  `Expire` and `Restart` are the environment.  The LLM may
resolve any set of vocabulary terms, listed in the question or not, since the code
does not compare; it may also fail.  `Detect` is a constant function, as detection is
a pure function of the text.

`pending_query`, `pending_terms` and `pending_question` are always assigned together
and are one `Question`.  Conventions are a set of terms: which interpretation a term
has does not influence control.  A Valkey read at the start of a call is not split
from the code after it: the call has no effect before it, so the interleavings are
those of a call that arrives later.

`LearnTerm` gives the session its resolution and the dict its convention in one step:
between orchestrator.py:262 and the dict's assignment (conventions_store.py:93, the first
line of `set()`, which `await` runs on the same stack) nothing is suspended and nothing
can fail.  What is awaited, and can fail (`ConventionWriteFails`), is the thread that
writes the file; that the dict is then ahead of the file is the subject of
`ConventionsStore`, and what a restart leaves of it that of `Restart`.

### ConventionsStore

`set()` and `delete()` change the dict on the event loop and await a thread running
`_persist`.  The thread's steps are the ones other threads or a crash can come
between: take the iterator, read one convention, finish the list, open `.tmp` for
writing (truncating it), write, rename.  Names and inodes are separate, so a thread
goes on writing to a file that another thread has renamed.  `Restart` is a crash at
any point followed by `_load`.  `kept` is a history variable: keys whose `set()` has
returned and which nobody deleted since.  `DurableMap` promises that the saved map
is only ever replaced as a whole by the map in memory.

### Briefing

`generate_briefing` walks through the topics of a decomposed agenda and calls
`handle_query` for each under the session id `<session>:<topic id>`.  When a topic asks
something, the progress is stored and the question returned; the next call resumes
at that topic.  The variables:

| variable | in the code |
|---|---|
| `pc`, `frame` | where each `generate_briefing` coroutine is suspended, and its locals: `topics` as `plan`, the loop index `idx`, `completed_results` as `done`, `current_topic_idx` on entry as `first`, whether `clarification_answer` was given, the topic session as `now`, whether there is a `report_path` as `path`, whether `errors` says something as `noted` |
| `pending` | the stored `BriefingPendingState` |
| `asked` | topic id to the stored topic session |
| `expiry` | the keys of both stores, in the order in which they expire |
| `host` | the last response |
| `disk` | the markdown and the JSON file of each call's report |
| `solo`, `mishaps` | history of overlap, and the bounded count of faults |

`handle_query` is cut only where it is suspended with an effect behind it; of its
session the module keeps what it awaits an answer for and the rounds.  Whether a
topic's terms are open is nondeterministic, because conventions change meanwhile.
A question that the host's own user answers by elicitation does not end the turn; it
is one of the ways from the triage of a topic to its dispatch (or to an exception).
A topic session under id `<session>:<topic id>` is found again by a later agenda that
uses the same id, which is why a topic session records the query it awaits.

Both stores have one time to live, set again by every write, so entries expire in the
order of their last write.  `SavePending` comes after the save of the topic session,
hence the progress expires after the question it refers to.

Topic ids are the LLM's own and may repeat.  Results are recorded by id, so the
properties about sections and about the prefix have `DistinctIds` as a condition;
that no topic is lost (`EveryTopicReported`) and that briefings end are checked with
repeated ids too.

`Delivers` is `settings.delivery.enabled`.  Where it is off, `Undelivered` announces the
report without a path and nothing is written (247); `ReportIsReadable` says what then may
be relied on: the path is the promise, not the report.  `GetReport` is what
`get_briefing_report` reads; it changes nothing and is used by `ReportIsReadable`.

### Confluence and Research

| variable | in the code |
|---|---|
| `version` | the version each page has at Confluence, numbered by last-modified date |
| `cached` | `_page_cache` of client.py: the version whose text it holds |
| `extracted` | the `_cache` of extractor.py, least recently used first: (page, last-modified) to the version the output was read off |
| `pageLock`, `keyLock` | `_page_fetch_locks`, `_extract_locks`: holder and waiters in order |
| `sem` | `_confluence_sem`: holders and waiters in order |
| `call`, `job` | the locals of `search_context` and `_research_topic`, and of one `_fetch_one` or `fetch_page_metadata` |
| `briefing` | `_run_confluence_research`: topics at once, then the lookup of the keys that no page mentioned |

A *job* is one page of a call.  It waits for a permit (`EnterPage`), finds the page
cached or waits for its lock (`PageTurn`), fetches it (`PageStored`, `PageFails`), finds
the extraction cached or waits for its lock (`KeyTurn`), and asks the LLM (`Extracted`,
`ExtractFails`).  Pinned pages are fetched by jobs without a permit.  The calls go
through `Search`, `Searched` or `SearchSkipped`, `Pinned`, `Worked`; the briefing
through `BeginResearch`, `TopicsDone`, `LookedUp`, `ResearchDone`.  `Edit` and `Expire`
are the environment: an entry may expire at any moment, also between the test and the
read of one expression, which raises KeyError there (`ReadCached`).

Abstractions.  A page is a sequence of headed chunks of words per version; which CQL
clause a page satisfies is computed from words, space and recency.  A response carries
the version Confluence had when the job took its turn at the lock or later.  A retried
request is one request in flight.  The extraction LLM may name any keys, whether the text
has them or not: `Read` is a constant function from a page and the words it is shown to
keys, of which nothing is assumed.  So it says the same of the same sections, and a page
asked about twice is not told apart from one asked about once.  The intent LLM returns any
of `Intents` or a general intent.  A page whose `last_modified` is empty (client.py:222)
is left out: versions are the dates, 1 to n for any n.  References
are pairs of key and page: that two topics may list the same page twice for a key is not
kept.  `recency_days` is a constant of the pages (`Recent`).

### Blockers and Sections

| variable | in the code |
|---|---|
| `today` | `datetime.date.today()` |
| `log`, `edits` | an issue's status changes, and how often it was edited otherwise (a comment, an owner, a priority, a due date), in Jira |
| `cache` | `IssueAnalyser._cache` in insertion order |
| `sem` | its semaphore: holders and waiters in order |
| `call` | locals of `_build_sections`: request, `all_keys`, batches of `get_issue_details`, merged details, analyses, sections, and what went to `errors` |
| `job` | one `bounded(key)`: waiting for a permit or for the LLM, and the days computed before that wait |

Actions: `Begin` (collect, deduplicate, cap: 587-627), `BatchAnswered`, `BatchErrs`,
`TriesAgain`, `BatchFails` (one POST of a batch), `Fetched` and `FetchFails` (gather of
the batches, 628-641), `NotFound`, `Reused`, `AskLLM`, `Analysed`, `AnalysisFails` (one
issue), and `Ranked` (656-684).  `Transition`, `Edit` and `NextDay` are Jira and the
calendar.  A timestamp is the position in the changelog, since entries are appended at
rising times; its date may be a day ahead, by its author's clock, or not a date at all.
Priority, links, due date and flag of an issue are given for each state of its edits
(`Facts`, bound `Edits`: one edit), and an analysis keeps those it was made with, so that
stale ones are seen by the ranking.  References are the number of a list of pages, 0 for
none.  An answer's error is null, empty or a text: `get_issue_details` takes the first
that is not null, and the briefing repeats it if it is not empty.  After the first failed
batch nobody reads what the others still get, so the module forgets them.  The weights
are those of config/ranking_default.json.

## 3. What TLC checks

| run | instance | what it shows |
|---|---|---|
| clarification_shared | 2 overlapping calls of 1 session, memory store, elicitation, 1 round, expiry | types; the pending fields survive sharing; the counter overshoots by at most one per further call |
| clarification_valkey | 2 overlapping calls of 1 session, Valkey, no elicitation, expiry, restart, write failures | the store holds settled sessions only; no silent guess |
| clarification_liveness | 1 host, 1 call at a time, memory store, elicitation accepted or declined, 2 rounds, expiry, repeated and abandoned queries | an asked session awaits its question; round limit; questions end for a user who answers from some time on |
| clarification_illegal | 1 call at a time, memory store, elicitation, no faults | *violated*: RESOLVED to RESOLVED raises StateTransitionError |
| clarification_rephrase | Valkey, no elicitation | *violated*: a rephrase request awaits no answer |
| conventions_store | 1 caller, 2 terms, 2 values, crash or write error at every step | always loadable, durable, implements `DurableMap` |
| conventions_overlap | 2 callers | *violated*: the shared `.tmp` file |
| briefing | 1 call at a time, Valkey, delivery on, 3 agendas of 2 topics (the same ids in another order with another query; a repeated id), 1 round, up to 3 expiries, restarts, failures or empty results | stored progress is exact and only grows; an answer reaches the topic that asked; a section holds its own topic's result; an announced report can be read; an answered briefing ends |
| briefing_overlap | 2 overlapping calls of 1 session, memory stores, delivery off, 2 agendas, no faults | stored progress stays exact, and no report lacks a topic |
| research | 1 `search_context` call (two requests: pages named twice, unknown URLs and hits; a forced one whose named page fills the limit) and 2 topics of a briefing, forced or not, 2 pages in 2 spaces, one of them edited, an LLM that makes a key up where a page has no target section, 2 permits, 2 extractions | no lock or permit is leaked; requests are spared; forced results and evidence are fresh; caches do not go back; named pages are accounted for; hits stay in the spaces |
| briefing_sections | 2 calls of `_build_sections`, successive or overlapping (one of two issues, named twice, that loses a third to the cap of 2; the other refreshes one of these, or asks for one that Jira does not know), batches of 1, 2 tries, 2 permits, a cache of 1 entry, one status change, one edit, one change of day | types; cache bound and honesty; status as fetched; refreshed is current; references shown; dropped issues are counted; missing ones are explained; none is passed over |
| sections_references | 2 calls that find different pages for one issue | *violated*: the second reports the pages of the first |

Bounds.  Two queries and two terms are chosen so that one query has both terms and
the other one of them: a partial resolution, an abandoned question and a term learned
through another query all occur.  One object per call and per session is enough,
because a call holds one object and the store one per session.  `MaxRounds` 1 makes
the limit bite with two calls; the liveness run uses 2 so that a round is counted
twice.  Two calls suffice for every two-party interleaving; the round theorem covers
more.  In the conventions runs, two terms give arrays of different length, which is
what makes a torn file; two inodes are enough for one caller, three for two.

In the briefing runs two topics give a first, a middle and a last step of the loop
(nothing completed, one completed, all completed); three faults allow the progress to
expire, the agenda to be decomposed anew, and a topic of the new one to fail.  The
overlap run has no faults, since two calls and one agenda change already give three
million states.

In the research run two topics and a search give three jobs that want the same page, the
least for one to hold a lock or a permit, one to wait and one to refresh behind them; a
second version gives the two caches something to disagree about; a limit of one or two
pages is both reached and not.  In the sections run the calls have different requests, since
two calls of one request add states and no new step: each interleaves with the other's
fetch, its jobs and its insertions.  A batch per issue makes one batch fail, or err with an
empty or another text, while another is answered; one cache entry for two issues makes
every insertion evict; `TopN` 1 cuts; two issues outrank each other in turn as the day
changes or one is edited.

Liveness of both is checked as absence of deadlock: every step except `Finished` (which
needs every call to be done) makes some call, job, version, day or cache entry go
forward and is taken finitely often, except that a cache entry may expire and be fetched
again, which only a job can do and each job does once; so the state graph has no cycle
but `Finished`, every behaviour that takes steps ends in a state without other steps, and
TLC finds no such state in which somebody still waits.  No fairness beyond
progress is needed.

Symmetry is used for objects and calls, which no property distinguishes, and not in the
liveness runs.

Fairness (`AnsweringSpec` of both specifications).  Weak fairness of each call's own
progress: LLM calls, file writes, Valkey and the backend return or time out, so a
suspended coroutine goes on.  Weak fairness of the elicited answer and strong fairness of a host's answer are
assumptions about the user and part of the statement: *a user who answers*.  Nothing
is assumed about the outcome of an answer.  `AnsweringEndsTheQuestions` has one premise
more, since neither expiry nor abandoned queries are bounded in that run: from some time
on the question is not lost before it is answered (`LosesQuestion`).  In `Briefing` the answer is strongly fair
because a host that may repeat its call can withdraw and restore the question, and
faults are finitely many by `MaxMishaps`.

Mutants.  Each property of a passing run is shown to depend on the code by an operator
beside the one it replaces (marked "Mutant" in the modules): a dropped save, a limit
off by one, a missing reset, a file opened in place.

### Disagreements with the repository's own text

1. `NoIllegalTransition`: core/orchestrator.py:211 against core/exceptions.py:25-26.
   An answer that resolves one of two pending terms, followed in the same call by an
   elicited answer for the other, ends with an exception after both were learned.
2. `EveryQuestionAwaitsItsAnswer`: core/orchestrator.py:327 and 361 against
   models/responses.py:34-36.  The question asks for an answer, the next call drops it.
3. `AlwaysLoadable` with two writers: memory/conventions_store.py:82 against its own
   docstring at 79.
4. `ReferencesAreCurrent`: core/issue_analyser.py:136 against its comment at 134.  A cached
   analysis that has references keeps them, whatever the present briefing found.

The following were noticed while modelling.  No run states them, but the modules show
them:

5. core/orchestrator.py:179 against config/settings.py:184 ("Max clarification rounds per
   session").  Overlapping calls that share a session in memory take the counter past the
   limit by what `RoundsBoundedWhenShared` says; with Valkey each counts on a copy of its
   own, and all of them ask.
6. core/orchestrator.py:208 against README.md:5 ("only calling `atlasMind-Lite` once the
   intent is fully resolved").  `IntentIsResolved` is false with elicitation: an answer
   that resolves only some terms is dispatched with the others open and no warning.  It
   holds without (`NeverGuessesSilently`), where the next call looks at every term again.
7. core/orchestrator.py:166 against README.md:5 ("the same question is never asked twice").
   A cached question is put again although its term has been learned meanwhile, by another
   session or by the very call whose write of the conventions file failed.
8. core/issue_analyser.py:131 against its docstring at 8-10 ("unchanged issues skip
   re-analysis"): what changes without a status change, a comment or a due date, does not
   count as a change, and the analysis of before is reused.
9. core/briefing_orchestrator.py:730 against confluence/models/reference.py:7-9 ("structural
   fact", "not an AI suggestion"): the keys the LLM names are recorded unchecked, and a key
   that it makes up is not looked up either (316).
10. confluence/extraction/extractor.py:8 says that content identity, not time, determines
    staleness.  The cache key takes `last_modified` from the metadata of the search or of
    the pinned page, while the text may come from an older entry of `_page_cache`
    (client.py:169); the extraction of the old text then stands under the new date until
    it is evicted, also for a pinned page that was just fetched.
11. core/briefing_orchestrator.py:468 says that the semaphore bounds concurrent page
    fetches; pinned pages are fetched outside of it (526-530).
12. The docstring at 474 compares the limit with `len(page_urls)`, the code at 520 with the
    distinct ids it could parse.
13. A pinned page that could not be fetched may be in `errors` and, as a hit of the search,
    in `results` too; pinned pages beyond the limit are dropped without an error.
14. core/issue_analyser.py:236 says "continuously blocked"; days are counted from the
    last status change even if it went from one blocked status to another, so they may be
    fewer (never more, `StatusAsFetched`).
15. core/briefing_orchestrator.py:652: `AnalysisError` never leaves `analyse()`, which
    turns it into a degraded analysis; the error note is never written, and an issue whose
    LLM call failed ranks last with score 0.
16. An in-band error of a batch whose text is empty hides a later batch's
    (atlasmind_lite_client.py:146 tests `is not None`, briefing_orchestrator.py:635
    tests truth): `ErrorOf` is then `"empty"`, and the issues of both batches are without
    details and without a word.  `MissingIsExplained` states what is true, that the merged
    answer carries an error.
17. With delivery disabled (briefing_orchestrator.py:247) a report has an id that
    `get_briefing_report` can never read; its `report_path` is null, and `errors` is silent.

## 4. What is proved

`ClarificationProofs!TypeCorrect`: `Spec => []TypeOK`, for every value of the
constants.  `TypeOK` is not inductive: a call that is past its first step uses
`frame[c].obj` as an object, and the collector must not reset what a call holds.  The
inductive invariant adds that a running call has a session, an object and a query.
The proof has a lemma per straight-line piece (`Suspend`, `Return`, `Dispatch`,
`Triage`, `Ask`), which the lemmas for the actions cite.

`ClarificationRoundsProofs!RoundsAreBounded`: `Spec => []RoundsBounded`, which is about
hosts that do not overlap calls of a session.  The check (179) and the increment (204) are
separated by an LLM call, so the bound needs that nobody else increments the same object
in between.  The inductive invariant says that
under `Private` (Valkey, or hosts that do not overlap calls) an object is held by one
call at most, a stored object is held only by the call of that session, and a call
that is formulating a question has an object below the limit.

`ClarificationRoundsProofs!SharedRoundsAreBounded`: `Spec => []RoundsBoundedWhenShared`
for a finite set of calls (`FiniteCalls`, needed to count them).  Here nothing is private:
the count of an object may pass the limit, but every call that has passed the check and
not counted yet will add one.  The inductive invariant is that the rounds of an object
plus the number of calls `Asking` on it stay at or below `Ceiling`; a call may join them
only while the rounds are below the limit, and not all calls can be among them already.

`ClarificationSessionProofs` proves, without any assumption on how calls overlap:

- `PendingIsCoherent`: `Spec => []PendingMatchesState`;
- `NoSilentGuess`: `Spec => []NeverGuessesSilently`.

Its invariant has a part about objects (`Coherent`) and one about what a call carries
between its awaits (`Carries`): a question is written to the session from the locals of
a call, so those locals must already be terms of its query; and without elicitation
nothing but an answer of the host, or a warning, lets a call skip a term.

The second part of that module proves `QuestionsAreAwaited` (`Spec => []AskedSessionAwaits`)
and `ValkeyHoldsSettled` (`Spec => []StoredIsSettled`).  It joins the two invariants
above: because an object is held by one call at most, what a call is about to save
(`Holds`) is still what it decided, so the store holds settled sessions only, and the
response that returns a question is the last to have written the session.

All of these rest on the constants' assumption `ConstantsOK`; only
`SharedRoundsAreBounded` adds `FiniteCalls`.

`ConventionsStoreProofs!StoreTypes`: `Spec => []TypeOK` for any number of callers, from
`StoreAssumption`.  The module also proves, for one caller at a time (`OneCaller`; with
two all of it is false, see the run conventions_overlap):

- `CrashSafe`: `Spec => []AlwaysLoadable`;
- `Durability`: `Spec => []LearnedIsDurable`;
- `Refinement`: `Spec => ImplementsDurableMap`.

The inductive invariant `StoreInv` follows the thread through its steps: what it has
read so far agrees with the dict, as the dict cannot change while the only caller
waits (`ReadSoFar`); the temporary file is another inode than the conventions file,
empty while open and the whole dict before the rename (`Temporary`).  So opening and
writing do not touch what `_load` would read, and the rename replaces it by the dict
as it is: those are the facts the refinement needs, and `WriteStep` and `ReplaceStep`
state them.

`BriefingProofs` proves, from `BriefingAssumption`, for any agendas, any number of
calls, either store and any faults:

- `TypeCorrect`: `Spec => []TypeOK`;
- `ProgressIsExact`: `Spec => []CompletedPrefix`;
- `ReportsAreComplete`: `Spec => []EveryTopicReported`;
- `ReportsAreReadable`: `Spec => []ReportIsReadable`;
- `AnswersReachTheirTopics`: `Spec => []AnswerReachesItsTopic`;
- `SectionsAreTheirOwn`: `Spec => []SectionsReportTheirTopics`;
- `ProgressIsKept`: `Spec => ProgressOnly`.

The invariant `BriefingInv` follows the loop, however calls overlap: at every point where a
call is suspended in the loop, and in the stored progress, the topics before `idx` have
results and, if ids are distinct, no other has (`Exact`); past the loop all have
(`Consistent`).  `Delivered` relates files to what is being announced: the markdown file is
there before the JSON file is written, each call writes files of its own, and a crash
between the two leaves no announced report.  Progress is overwritten as a whole, so two
overlapping calls may replace each other's but cannot mix them.

The last three properties say `solo`: no two calls of the session have been in flight at
once.  Their invariant `Alone` says of the one call that it is ahead of what is stored
(`AheadOf`), that its results are those of its own topics' queries (`OwnResults`), and that
the session of the topic it works on awaits nothing else (`OnTopic`).  Between two calls it
says what the host's answer will meet (`Awaited`).  There the order of expiry matters: a
topic session that awaits an answer must not outlive the stored progress, or the answer,
given to a fresh agenda, would resolve the question of an old one.  It cannot, because every
such session is in line to expire (`Lined`) and none is behind the progress (`PendingLast`):
`SavePending` writes last.  `ExpireAwaited` is that argument.

`ResearchProofs` proves, from `ResearchAssumption` and `ConfluenceAssumption`, for any pages,
texts, requests, numbers of calls and permits, and sizes of the extraction cache:

- `TypeCorrect`: `Spec => []TypeOK`;
- `NothingLeaked`: `Spec => []NothingIsLeaked`;
- `RequestsSpared`: `Spec => []SparesRequests`;
- `NeverGoBack`: `Spec => CachesNeverGoBack`;
- `ForcedFresh`: `Spec => []ForcedIsFresh`;
- `PinsAccounted`: `Spec => []PinnedAccountedFor`;
- `StaysInSpaces`: `Spec => []SearchStaysInSpaces`;
- `ForcedEvidenceCurrent`: `Spec => []ForcedEvidenceIsCurrent`.

`Shape` makes the first three inductive: each queue has exactly the jobs that need it, once
each, and the jobs of a call are numbered as its pages are, so a step of one job cannot
disturb another's place.  `Ordered` is what keeps the caches from going back: whatever is in
the page cache, or being fetched, is no older than any text of the page that came through
its lock before (`Known`), the lock of an extraction is taken in the order of the texts, and
no text is newer than the page.  `Sound` relates what a call has at hand to its request: for
a forced call nothing is older than `since`, the pages it lists are named ones or hits within
its spaces, and the named ones come first, each once, until the limit is full.  `Backed` follows the
evidence of a forced briefing from a job's extraction to the references: whatever the LLM is
taken to say, it says it of a text no older than the briefing, and a key that a search found
was in the page at that time.

`SectionsProofs` proves, from `SectionsAssumption` and `BlockersAssumption`, for any requests,
changelogs, batch sizes, numbers of calls and permits, and sizes of the cache:

- `TypeCorrect`: `Spec => []TypeOK`;
- `EveryIssueAccounted`: `Spec => []DroppedAreCounted`;
- `MoreUrgentFirst`: `Spec => []NoneIsPassedOver`;
- `CacheHonest`: `Spec => []CacheIsHonest`;
- `StatusFetched`: `Spec => []StatusAsFetched`;
- `RefreshedCurrent`: `Spec => []RefreshedIsCurrent`;
- `ReferencesShown`: `Spec => []ReferencesAreShown`;
- `MissingExplained`: `Spec => []MissingIsExplained`.

`Shape` says which keys a call works on and that the analyses are of those keys, in their
order; with facts about the pure operators (`KeptKeysFacts`, `RankFacts`, `BatchesFacts`: the
batches cover the keys, a section's ranking is a sorted prefix) it gives the first three.
`NoneIsPassedOver` compares the facts of issues and knows no weights, so `MoreUrgentFirst`
also needs that the shipped weights respect every fact (`ScoreMonotone`).
`Sound` says of everything that was read before a wait and is used after it (details, days
counted before the LLM call, cache entries) that it agrees with the changelog as far as that
had been read.  Changelogs and edits only grow and days only pass (`Later`), so whatever
agrees goes on agreeing, whichever job or call uses it.  `Traced` says whose references an
analysis, cached or not, carries.  That Jira's details are not `None`,
the placeholder for issues without details, is part of the assumption.

`ArrangementsProofs` has the facts about lists that these modules cite: `PickedFacts` and
`ArrangedFacts` (a filtered or ordered list has just the elements it should, in order) and
`RemoveFirstFacts` (a queue without one of its members).

Left to TLC, and why:

- liveness (`AnsweringEndsTheQuestions`, `AnsweredBriefingEnds`) and absence of
  deadlock: liveness under fairness is out of the prover's reach;
- that the runs named *violated* are violated: a counterexample needs no proof.

## 5. What is not modelled

Prompts, wording, JSON and markdown layout, logging, credentials, HTML rendering and
deployment scripts.  Report writing and UI injection after a backend answer are best
effort and change no session; they are part of `BackendReturns`.  The limits of TTL
caches in seconds are replaced by expiry at any time.  Settings are constants: their
parsing and validation happen once, before any of the behaviour here.  `health()`, the
early returns without a Confluence configuration, and loading the ranking weights have
no state.  Cancellation of a call by its host is not modelled.

## 6. Plan

1. `Clarification`, its runs and the two theorems (done).
2. `DurableMap`, `ConventionsStore`, the refinement and its proof (done).
3. `Briefing` and its two runs (done).
4. `Confluence` and `Research` (done).
5. `Blockers` and `Sections` (done).
6. Proofs of the clarification properties, with private and with shared objects (done).
7. Proofs of all safety properties of `Briefing` (done).
8. Proofs of all properties of `Research` and `Sections`, with `Arrangements` for the lists
   they compute (done).
9. Left: what a step of a waiting job needs in order to go on, as an invariant of
   `Research` and `Sections` from which the absence of deadlock follows without ENABLED.
