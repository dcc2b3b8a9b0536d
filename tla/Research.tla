------------------------------ MODULE Research ------------------------------
(***************************************************************************)
(* Confluence research: search_context calls and the topics of a briefing, *)
(* at once, over one page cache, one extraction cache, their locks and one *)
(* semaphore.                                                              *)
(*                                                                         *)
(* A step runs from one suspension of a coroutine to the next.  A job is   *)
(* one page of a call: to fetch, or to fetch and extract.  A request that  *)
(* is retried is in flight until its last attempt returns.                 *)
(***************************************************************************)
EXTENDS Confluence

CONSTANTS
  Searches,      \* search_context calls, each made once at any time
  Topics,        \* topics of one briefing, made once at any time
  Requests,      \* what search_context is called with
  Intents,       \* what the intent LLM may return
  BriefingSpaces,\* the spaces argument of the briefing
  JiraKeys,      \* the briefing's issue keys, in order
  DefaultSpaces, \* settings.confluence.default_spaces
  Edited,        \* pages that are edited during the run
  MaxPagesTotal, \* settings.confluence.max_pages_total
  MaxConcurrent, \* permits of _confluence_sem
  MaxExtractions \* cache_max_size of the extractor

Calls == Searches \cup Topics

Url == [form : {"cloud", "viewpage", "display"}, page : Pages]

Request == [spaces : SUBSET Spaces, urls : Seq(Url), limit : Nat, force : BOOLEAN]

\* _research_topic as a request: it has no URLs.
TopicRequest(force) ==
  [spaces |-> BriefingSpaces, urls |-> <<>>, limit |-> MaxPagesTotal, force |-> force]

NoRequest == TopicRequest(FALSE)

ASSUME ResearchAssumption ==
  /\ Searches \cap Topics = {}
  /\ Requests \subseteq Request
  /\ Intents \subseteq Intent
  /\ BriefingSpaces \subseteq Spaces /\ DefaultSpaces \subseteq Spaces
  /\ JiraKeys \in Seq(Keys) /\ Edited \subseteq Pages
  /\ MaxPagesTotal \in Nat \ {0} /\ MaxConcurrent \in Nat \ {0}
  /\ MaxExtractions \in Nat \ {0}

VARIABLES
  version,   \* page -> its version at Confluence
  cached,    \* _page_cache: page -> version of its text, or Absent
  extracted, \* the extractor's _cache, the least recently used entry first
  pageLock,  \* page -> jobs that hold or await its lock, the holder first
  keyLock,   \* extraction key -> the same
  sem,       \* jobs that hold or await a permit, in the order they came
  call,      \* call -> its locals
  job,       \* job -> its state
  briefing   \* _run_confluence_research

vars == <<version, cached, extracted, pageLock, keyLock, sem, call, job, briefing>>

-----------------------------------------------------------------------------
Absent == 0

Text0 == Versions \cup {Absent}

\* (page_id, last_modified).
ExtractionKeys == Pages \X Versions

Jobs == Calls \X (1..Cardinality(Pages))

\* text is the version at hand, or of the text that the output was read off.
Job == [pc : {"none", "sem", "page", "fetch", "key", "llm", "done", "failed"},
        pin : BOOLEAN, page : Pages \cup {NoPage}, stamp : Text0, text : Text0]

NoJob == [pc |-> "none", pin |-> FALSE, page |-> NoPage, stamp |-> Absent, text |-> Absent]

Hit == [page : Pages, stamp : Versions]

\* since: the versions when the call began, if it is a forced one.
Call == [at : {"idle", "search", "pin", "work", "done"}, req : Requests \cup {TopicRequest(f) : f \in BOOLEAN},
         since : [Pages -> Versions], found : Seq(Hit), pages : Seq(Hit),
         results : Seq([page : Pages, stamp : Versions, text : Versions]),
         errors : SUBSET (Pages \cup {NoPage})]

NoCall == [at |-> "idle", req |-> NoRequest, since |-> [p \in Pages |-> 1], found |-> <<>>,
           pages |-> <<>>, results |-> <<>>, errors |-> {}]

Briefing == [at : {"idle", "topics", "reverse", "done"}, refs : SUBSET (Keys \X Pages),
             todo : Seq(Keys)]

TypeOK ==
  /\ version \in [Pages -> Versions]
  /\ cached \in [Pages -> Text0]
  /\ extracted \in Seq([key : ExtractionKeys, text : Versions])
  /\ Len(extracted) <= MaxExtractions
  /\ pageLock \in [Pages -> Seq(Jobs)]
  /\ keyLock \in [ExtractionKeys -> Seq(Jobs)]
  /\ sem \in Seq(Jobs)
  /\ call \in [Calls -> Call]
  /\ job \in [Jobs -> Job]
  /\ briefing \in Briefing

Init ==
  /\ version = [p \in Pages |-> 1]
  /\ cached = [p \in Pages |-> Absent]
  /\ extracted = <<>>
  /\ pageLock = [p \in Pages |-> <<>>]
  /\ keyLock = [k \in ExtractionKeys |-> <<>>]
  /\ sem = <<>>
  /\ call = [c \in Calls |-> NoCall]
  /\ job = [j \in Jobs |-> NoJob]
  /\ briefing = [at |-> "idle", refs |-> {}, todo |-> <<>>]

Forced(j) == call[j[1]].req.force

Key(j) == <<job[j].page, job[j].stamp>>

\* Locks and semaphores serve their waiters in order.
Holds(queue, j) == queue # <<>> /\ queue[1] = j

Permitted(j) == \E i \in DOMAIN sem : i <= MaxConcurrent /\ sem[i] = j

Ended(c) == \A j \in Jobs : j[1] = c => job[j].pc \in {"none", "done", "failed"}

-----------------------------------------------------------------------------
(* extract, from its entry to where it suspends or returns.                *)

JobGoes(j, pc, text) == job' = [job EXCEPT ![j].pc = pc, ![j].text = text]

\* extract returns or raises, and the job gives its permit back.
JobEnds(j, pc, text) == JobGoes(j, pc, text) /\ sem' = RemoveFirst(sem, j)

\* LRUCache: reading or writing an entry makes it the last; a new entry pushes the
\* first out of a full cache.
Others(k) == RemoveFirstMatch(extracted, LAMBDA e : e.key = k)

Entry(k) == {e \in ToSet(extracted) : e.key = k}

Put(k, text) ==
  LET kept == IF Len(Others(k)) = MaxExtractions THEN Tail(Others(k)) ELSE Others(k)
  IN  extracted' = Append(kept, [key |-> k, text |-> text])

MustExtract(j) == Forced(j) \/ Entry(Key(j)) = {}

\* The cached extraction is returned.
Reuse(j) ==
  /\ ~MustExtract(j)
  /\ \E e \in Entry(Key(j)) : Put(e.key, e.text) /\ JobEnds(j, "done", e.text)

\* With the sections of version v: a cached extraction, or the key's lock.
Extract(j, v) ==
  \/ Reuse(j) /\ UNCHANGED keyLock
  \/ /\ MustExtract(j)
     /\ JobGoes(j, "key", v)
     /\ keyLock' = [keyLock EXCEPT ![Key(j)] = Append(@, j)]
     /\ UNCHANGED <<extracted, sem>>

\* Mutant: force_refresh is not looked at.
MustFetchForced(j) == cached[job[j].page] = Absent

MustFetch(j) == Forced(j) \/ cached[job[j].page] = Absent

\* The entry is there when it is looked up, and may have expired when it is read.
ReadCached(j) ==
  LET p == job[j].page
  IN  /\ ~MustFetch(j)
      /\ \/ Extract(j, cached[p]) /\ UNCHANGED cached
         \/ /\ JobEnds(j, "failed", Absent)
            /\ cached' = [cached EXCEPT ![p] = Absent]
            /\ UNCHANGED <<extracted, keyLock>>

-----------------------------------------------------------------------------
(* get_page_sections and fetch_page_metadata.                              *)

EnterPage(j) ==
  /\ job[j].pc = "sem" /\ Permitted(j)
  /\ \/ ReadCached(j) /\ UNCHANGED pageLock
     \/ /\ MustFetch(j)
        /\ JobGoes(j, "page", Absent)
        /\ pageLock' = [pageLock EXCEPT ![job[j].page] = Append(@, j)]
        /\ UNCHANGED <<cached, extracted, keyLock, sem>>
  /\ UNCHANGED <<version, call, briefing>>

PageReleased(p) == pageLock' = [pageLock EXCEPT ![p] = Tail(@)]

\* Mutants: nobody looks at the cache again; nobody waits for the lock.
PageTurnOnce(j) ==
  /\ job[j].pc = "page" /\ Holds(pageLock[job[j].page], j)
  /\ JobGoes(j, "fetch", version[job[j].page])
  /\ UNCHANGED <<version, cached, extracted, pageLock, keyLock, sem, call, briefing>>
PageTurnUnlocked(j) ==
  /\ job[j].pc = "page"
  /\ JobGoes(j, "fetch", version[job[j].page])
  /\ UNCHANGED <<version, cached, extracted, pageLock, keyLock, sem, call, briefing>>

\* The job's turn at the page lock.  Metadata is fetched in any case.  Confluence
\* reads the page now, or later, as if it were the job's turn only then; the response
\* is on its way.
PageTurn(j) ==
  /\ job[j].pc = "page" /\ Holds(pageLock[job[j].page], j)
  /\ \/ /\ ~job[j].pin
        /\ ReadCached(j)
        /\ PageReleased(job[j].page)
     \/ /\ job[j].pin \/ MustFetch(j)
        /\ JobGoes(j, "fetch", version[job[j].page])
        /\ UNCHANGED <<cached, extracted, keyLock, sem, pageLock>>
  /\ UNCHANGED <<version, call, briefing>>

\* Mutant: the metadata have no date.
PageStoredUndated(j) ==
  /\ job[j].pc = "fetch"
  /\ cached' = [cached EXCEPT ![job[j].page] = job[j].text]
  /\ PageReleased(job[j].page)
  /\ \/ job[j].pin /\ JobGoes(j, "done", job[j].text) /\ UNCHANGED <<extracted, keyLock, sem>>
     \/ ~job[j].pin /\ Extract(j, job[j].text)
  /\ UNCHANGED <<version, call, briefing>>

PageStored(j) ==
  /\ job[j].pc = "fetch"
  /\ cached' = [cached EXCEPT ![job[j].page] = job[j].text]
  /\ PageReleased(job[j].page)
  /\ \/ /\ job[j].pin
        /\ job' = [job EXCEPT ![j].pc = "done", ![j].stamp = job[j].text]
        /\ UNCHANGED <<extracted, keyLock, sem>>
     \/ ~job[j].pin /\ Extract(j, job[j].text)
  /\ UNCHANGED <<version, call, briefing>>

\* Mutant: the lock is not released.
PageFailsHolding(j) ==
  /\ job[j].pc = "fetch"
  /\ JobEnds(j, "failed", Absent)
  /\ UNCHANGED <<version, cached, extracted, pageLock, keyLock, call, briefing>>

PageFails(j) ==
  /\ job[j].pc = "fetch"
  /\ JobEnds(j, "failed", Absent)
  /\ PageReleased(job[j].page)
  /\ UNCHANGED <<version, cached, extracted, keyLock, call, briefing>>

KeyReleased(k) == keyLock' = [keyLock EXCEPT ![k] = Tail(@)]

KeyTurn(j) ==
  /\ job[j].pc = "key" /\ Holds(keyLock[Key(j)], j)
  /\ \/ Reuse(j) /\ KeyReleased(Key(j))
     \/ /\ MustExtract(j)
        /\ JobGoes(j, "llm", job[j].text)
        /\ UNCHANGED <<extracted, sem, keyLock>>
  /\ UNCHANGED <<version, cached, pageLock, call, briefing>>

Extracted(j) ==
  /\ job[j].pc = "llm"
  /\ Put(Key(j), job[j].text)
  /\ JobEnds(j, "done", job[j].text)
  /\ KeyReleased(Key(j))
  /\ UNCHANGED <<version, cached, pageLock, call, briefing>>

\* AnalysisError.
ExtractFails(j) ==
  /\ job[j].pc = "llm"
  /\ JobEnds(j, "failed", Absent)
  /\ KeyReleased(Key(j))
  /\ UNCHANGED <<version, cached, extracted, pageLock, call, briefing>>

JobStep(j) ==
  \/ EnterPage(j) \/ PageTurn(j) \/ PageStored(j) \/ PageFails(j)
  \/ KeyTurn(j) \/ Extracted(j) \/ ExtractFails(j)

-----------------------------------------------------------------------------
(* search_context and _research_topic.                                     *)

\* c runs jobs for hits in parallel, all in this state.
Spawn(c, hits, pc, pin) ==
  job' = [j \in Jobs |->
            IF j[1] # c THEN job[j]
            ELSE IF j[2] > Len(hits) THEN NoJob
            ELSE [NoJob EXCEPT !.pc = pc, !.pin = pin, !.page = hits[j[2]].page,
                               !.stamp = hits[j[2]].stamp]]

\* The pages to fetch and extract are settled: jobs queue for permits.
Work(c, pages, errors) ==
  /\ Spawn(c, pages, "sem", FALSE)
  /\ sem' = sem \o [i \in DOMAIN pages |-> <<c, i>>]
  /\ call' = [call EXCEPT ![c].at = "work", ![c].pages = pages, ![c].found = <<>>,
                          ![c].errors = errors]

\* The metadata of the pinned pages is fetched, outside the semaphore.
Pin(c, found) ==
  LET pins == PinsOf(call[c].req.urls)
  IN  /\ Spawn(c, [i \in DOMAIN pins |-> [page |-> pins[i], stamp |-> Absent]], "page", TRUE)
      /\ pageLock' = [p \in Pages |->
           IF \E i \in DOMAIN pins : pins[i] = p
           THEN Append(pageLock[p], <<c, CHOOSE i \in DOMAIN pins : pins[i] = p>>)
           ELSE pageLock[p]]
      /\ call' = [call EXCEPT ![c].at = "pin", ![c].found = found]

Started(req) ==
  [NoCall EXCEPT !.at = "search", !.req = req, !.since = IF req.force THEN version ELSE @,
                 !.errors = {NoPage : u \in {u \in ToSet(req.urls) : PageId(u) = NoPage}}]

Search(c) ==
  /\ c \in Searches /\ call[c].at = "idle"
  /\ \E req \in Requests : call' = [call EXCEPT ![c] = Started(req)]
  /\ UNCHANGED <<version, cached, extracted, pageLock, keyLock, sem, job, briefing>>

Resolved(spaces) == IF spaces = {} THEN DefaultSpaces ELSE spaces

\* Pinned pages fill the budget: no search.
SearchSkipped(c) ==
  /\ call[c].at = "search" /\ c \in Searches
  /\ Len(PinsOf(call[c].req.urls)) >= call[c].req.limit
  /\ Pin(c, <<>>)
  /\ UNCHANGED <<version, cached, extracted, keyLock, sem, briefing>>

\* The intent (a general one if the LLM fails) and the three searches have returned.
\* The searches see the versions of now: jobs may begin any time after them.
Searched(c) ==
  /\ call[c].at = "search"
  /\ c \in Searches => Len(PinsOf(call[c].req.urls)) < call[c].req.limit
  /\ \E intent \in Intents \cup {GeneralIntent} :
       /\ \/ /\ c \in Topics /\ (intent.general \/ intent.keywords = <<>>)
             /\ Work(c, <<>>, {})
             /\ UNCHANGED pageLock
          \/ /\ c \in Topics /\ ~intent.general /\ intent.keywords # <<>>
             /\ \E found \in Found(intent, Resolved(BriefingSpaces), version) :
                  Work(c, UpTo(MaxPagesTotal, found), {})
             /\ UNCHANGED pageLock
          \/ /\ c \in Searches
             /\ \E found \in Found(intent, Resolved(call[c].req.spaces), version) :
                  Pin(c, UpTo(call[c].req.limit, found))
             /\ UNCHANGED sem
  /\ UNCHANGED <<version, cached, extracted, keyLock, briefing>>

JobsOf(c, n) == [i \in 1..n |-> job[<<c, i>>]]

Succeeded(jobs) == Picked(jobs, {i \in DOMAIN jobs : jobs[i].pc = "done"})

FailedPages(jobs) == {x.page : x \in {x \in ToSet(jobs) : x.pc = "failed"}}

\* Pinned pages that could not be fetched are errors; the others come first.
Pinned(c) ==
  /\ call[c].at = "pin" /\ Ended(c)
  /\ LET jobs == JobsOf(c, Len(PinsOf(call[c].req.urls)))
         ok   == Succeeded(jobs)
     IN  Work(c, Merged([i \in DOMAIN ok |-> [page |-> ok[i].page, stamp |-> ok[i].stamp]],
                        call[c].found, call[c].req.limit),
              call[c].errors \cup FailedPages(jobs))
  /\ UNCHANGED <<version, cached, extracted, pageLock, keyLock, briefing>>

Worked(c) ==
  /\ call[c].at = "work" /\ Ended(c)
  /\ LET jobs == JobsOf(c, Len(call[c].pages))
         ok   == Succeeded(jobs)
     IN  call' = [call EXCEPT ![c].at = "done",
            ![c].results = [i \in DOMAIN ok |-> [page |-> ok[i].page, stamp |-> ok[i].stamp,
                                                 text |-> ok[i].text]],
            ![c].errors = @ \cup FailedPages(jobs)]
  /\ Spawn(c, <<>>, "none", FALSE)
  /\ UNCHANGED <<version, cached, extracted, pageLock, keyLock, sem, briefing>>

CallStep(c) == SearchSkipped(c) \/ Searched(c) \/ Pinned(c) \/ Worked(c)

-----------------------------------------------------------------------------
(* _run_confluence_research.                                               *)

BeginResearch ==
  /\ briefing.at = "idle"
  /\ \E force \in BOOLEAN :
       call' = [c \in Calls |-> IF c \in Topics THEN Started(TopicRequest(force)) ELSE call[c]]
  /\ briefing' = [at |-> "topics", refs |-> {}, todo |-> <<>>]
  /\ UNCHANGED <<version, cached, extracted, pageLock, keyLock, sem, job>>

\* Within a topic the first page that mentions a key is its reference.
RefsOf(c) ==
  LET r == call[c].results
      Names(i, k) == k \in Mentions(r[i].page, r[i].text)
  IN  {<<x[1], r[x[2]].page>> : x \in
        {x \in Keys \X DOMAIN r : Names(x[2], x[1]) /\ \A j \in 1..x[2] - 1 : ~Names(j, x[1])}}

\* The topics' references are joined; keys without one are looked up, in spaces.
TopicsDone ==
  /\ briefing.at = "topics" /\ \A c \in Topics : call[c].at = "done"
  /\ LET refs == UNION {RefsOf(c) : c \in Topics}
         todo == Picked(JiraKeys, {i \in DOMAIN JiraKeys : \A ref \in refs : ref[1] # JiraKeys[i]})
     IN  briefing' = [at |-> "reverse", refs |-> refs,
                      todo |-> IF Resolved(BriefingSpaces) = {} THEN <<>> ELSE todo]
  /\ UNCHANGED <<version, cached, extracted, pageLock, keyLock, sem, call, job>>

\* One search per key, one after the other; one that fails is skipped.
LookedUp ==
  /\ briefing.at = "reverse" /\ briefing.todo # <<>>
  /\ \E hits \in Answers(KeyQuery(Head(briefing.todo), Resolved(BriefingSpaces)), version) :
       briefing' = [briefing EXCEPT !.todo = Tail(@),
                      !.refs = @ \cup {<<Head(briefing.todo), h.page>> : h \in ToSet(hits)}]
  /\ UNCHANGED <<version, cached, extracted, pageLock, keyLock, sem, call, job>>

ResearchDone ==
  /\ briefing.at = "reverse" /\ briefing.todo = <<>>
  /\ briefing' = [briefing EXCEPT !.at = "done"]
  /\ UNCHANGED <<version, cached, extracted, pageLock, keyLock, sem, call, job>>

-----------------------------------------------------------------------------
(* The environment.                                                        *)

Edit(p) ==
  /\ p \in Edited /\ version[p] + 1 \in Versions
  /\ version' = [version EXCEPT ![p] = @ + 1]
  /\ UNCHANGED <<cached, extracted, pageLock, keyLock, sem, call, job, briefing>>

\* A page entry's time to live ends, or other pages push it out.
Expire(p) ==
  /\ cached[p] # Absent
  /\ cached' = [cached EXCEPT ![p] = Absent]
  /\ UNCHANGED <<version, extracted, pageLock, keyLock, sem, call, job, briefing>>

BriefingStep == BeginResearch \/ TopicsDone \/ LookedUp \/ ResearchDone

\* Nothing is left to do; any other state without a step is a deadlock.
Finished ==
  /\ briefing.at = "done" /\ \A c \in Calls : call[c].at = "done"
  /\ UNCHANGED vars

Next ==
  \/ \E j \in Jobs : JobStep(j)
  \/ \E c \in Calls : Search(c) \/ CallStep(c)
  \/ BriefingStep
  \/ \E p \in Pages : Edit(p) \/ Expire(p)
  \/ Finished

Spec == Init /\ [][Next]_vars

-----------------------------------------------------------------------------
(* Properties.                                                             *)

\* client.py:162 and extractor.py:58: no request that the locks and the second
\* look at the cache should have spared.  A page is fetched, or extracted, for a
\* call that accepts a cached answer only while there is none.
SparesRequests ==
  \A j \in Jobs : ~Forced(j) =>
    /\ job[j].pc = "fetch" /\ ~job[j].pin => cached[job[j].page] = Absent
    /\ job[j].pc = "llm" => Entry(Key(j)) = {}

\* README.md:126, client.py:167, extractor.py:75: with force_refresh everything in a
\* response was read off texts no older than the call, nor than the date shown.
ForcedIsFresh ==
  \A c \in Calls : call[c].at = "done" /\ call[c].req.force =>
    \A r \in ToSet(call[c].results) : r.text >= call[c].since[r.page] /\ r.text >= r.stamp

\* client.py:214, "fresh data just fetched should replace stale", and never the other
\* way round: no entry of either cache is replaced by one of an older text, whatever
\* the order in which requests return.
CachesNeverGoBack ==
  [][/\ \A p \in Pages : cached'[p] # Absent => cached'[p] >= cached[p]
     /\ \A e \in ToSet(extracted), f \in ToSet(extracted') : e.key = f.key => f.text >= e.text]_vars

\* briefing_orchestrator.py:470-475, 538-540: a page the caller named is in the
\* results, or in the errors, or the limit is full; named pages come first (but one that
\* could not be fetched by name may still be a hit) and none is there twice.
PinnedAccountedFor ==
  \A c \in Searches : call[c].at = "done" =>
    LET pins  == ToSet(PinsOf(call[c].req.urls))
        shown == [i \in DOMAIN call[c].results |-> call[c].results[i].page]
    IN  /\ \A p \in pins : \/ p \in ToSet(shown) \cup call[c].errors
                           \/ Len(call[c].pages) = call[c].req.limit
        /\ IsInjective(shown)
        /\ \A i, j \in DOMAIN shown : i < j /\ shown[j] \in pins \ call[c].errors => shown[i] \in pins

\* cql_builder.py:34: what the search adds to the named pages lies in the spaces asked for,
\* whichever of the three queries found it.
SearchStaysInSpaces ==
  \A c \in Calls : call[c].at = "done" =>
    \A r \in ToSet(call[c].results) :
      \/ r.page \in ToSet(PinsOf(call[c].req.urls))
      \/ Resolved(call[c].req.spaces) = {}
      \/ SpaceOf[r.page] \in Resolved(call[c].req.spaces)

\* README.md:126, "force_refresh propagates into all three caches throughout the briefing
\* pipeline": after a forced briefing a page is evidence for a key only if, at some time
\* since the briefing began, the LLM said so of its text or a search found the key in it.
\* What a search that overlaps puts into the caches, and edits on the way, do not matter.
\* Whether the LLM is right is not looked at, by the code or here, although reference.py:9
\* speaks of a "structural fact" and "not an AI suggestion".
ForcedEvidenceIsCurrent ==
  \A c \in Topics : call[c].req.force =>
    \A ref \in briefing.refs : \E v \in call[c].since[ref[2]]..version[ref[2]] :
      ref[1] \in Mentions(ref[2], v) \cup WordsOf(ref[2], v)

\* Jobs at these points on page p, or for extraction key k.
AtPage(p, pcs) == {j \in Jobs : job[j].pc \in pcs /\ job[j].page = p}
AtKey(k, pcs) == {j \in Jobs : job[j].pc \in pcs /\ Key(j) = k}

Serves(queue, waiting, inside) ==
  /\ IsInjective(queue) /\ ToSet(queue) = waiting \cup inside
  /\ \A j \in inside : Holds(queue, j)

\* client.py:112-114, extractor.py:11-14: a lock or a permit is held or awaited by the
\* jobs that need it and by no other, once each, and what is behind a lock is done by
\* its holder only.  So whatever fails, whoever waits is served.
NothingIsLeaked ==
  /\ \A p \in Pages : Serves(pageLock[p], AtPage(p, {"page"}), AtPage(p, {"fetch"}))
  /\ \A k \in ExtractionKeys : Serves(keyLock[k], AtKey(k, {"key"}), AtKey(k, {"llm"}))
  /\ IsInjective(sem)
  /\ ToSet(sem) = {j \in Jobs : job[j].pc \in {"sem", "page", "fetch", "key", "llm"} /\ ~job[j].pin}
  /\ \A j \in ToSet(sem) : job[j].pc # "sem" => Permitted(j)
=============================================================================
