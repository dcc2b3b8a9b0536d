------------------------------ MODULE Briefing ------------------------------
(***************************************************************************)
(* generate_briefing of core/briefing_orchestrator.py, for one session:    *)
(* a loop over agenda topics, each a handle_query under a session id of    *)
(* its own, that is left whenever a topic asks the user and resumed from a *)
(* stored copy of its progress by a later call; then one report in two     *)
(* files.                                                                  *)
(*                                                                         *)
(* handle_query is cut where it is suspended with an effect behind it: the *)
(* answer is resolved, the question or the dispatch is saved, the backend  *)
(* answers.  Of its session only what decides between these is kept: the   *)
(* query it awaits an answer for and the rounds.  Sessions share nothing   *)
(* here but conventions, which decide only whether a topic asks.           *)
(***************************************************************************)
EXTENDS Arrangements

CONSTANTS
  Calls,       \* generate_briefing calls of the session that may be in flight
  Ids,         \* topic ids
  Queries,     \* suggested queries
  Plans,       \* topic lists the decomposer may return
  MaxRounds,   \* settings.clarification.max_rounds
  Backend,     \* "memory" or "valkey": which stores are configured
  Delivers,    \* settings.delivery.enabled
  MaxMishaps,  \* bound on expiries, restarts, failures and empty results
  NoQuery, NoPlan, BriefingKey

Topic == [id : Ids, query : Queries]

ASSUME BriefingAssumption ==
  /\ Plans \subseteq Seq(Topic) /\ <<>> \notin Plans
  /\ NoPlan = <<>>
  /\ MaxRounds \in Nat /\ MaxMishaps \in Nat
  /\ Backend \in {"memory", "valkey"}
  /\ Delivers \in BOOLEAN
  /\ NoQuery \notin Queries
  /\ BriefingKey \notin Ids

VARIABLES
  pc,       \* where each call is suspended
  frame,    \* its locals
  pending,  \* the stored BriefingPendingState
  asked,    \* topic id -> what the stored topic session awaits
  expiry,   \* keys of the entries of both stores, the next to expire first
  host,     \* the last response the host received
  disk,     \* call -> the two files of its report
  solo,     \* no two calls have been in flight at once
  mishaps   \* how many of the bounded events have happened

vars == <<pc, frame, pending, asked, expiry, host, disk, solo, mishaps>>

-----------------------------------------------------------------------------
\* completed_results, each represented by the query that produced it.
Results == [Ids -> Queries \cup {NoQuery}]

NoResults == [id \in Ids |-> NoQuery]

Progress == [plan : Plans \cup {NoPlan}, idx : Nat \ {0}, done : Results]

NotPending == [plan |-> NoPlan, idx |-> 1, done |-> NoResults]

\* query is pending_query while the session awaits an answer.
TopicSession == [query : Queries \cup {NoQuery}, rounds : Nat]

Settled == [query |-> NoQuery, rounds |-> 0]

\* first is current_topic_idx on entry, now the session of the topic at idx, path
\* whether there is a report_path, noted whether errors name a failed write.
Frame == [plan : Plans \cup {NoPlan}, idx : Nat \ {0}, done : Results, first : Nat,
          answer : BOOLEAN, now : TopicSession, path : BOOLEAN, noted : BOOLEAN]

NoFrame == [plan |-> NoPlan, idx |-> 1, done |-> NoResults, first |-> 1,
            answer |-> FALSE, now |-> Settled, path |-> FALSE, noted |-> FALSE]

Points == {"idle", "decompose", "topic", "resolve", "triage", "query",
           "save_pending", "finish", "deliver", "sidecar", "return"}

Sections == Seq(Queries \cup {NoQuery})

Response == [kind : {"none", "question", "report", "failed"}, plan : Plans \cup {NoPlan},
             idx : Nat, sections : Sections, path : BOOLEAN, noted : BOOLEAN,
             by : Calls]

Files == [md : BOOLEAN, json : Sections]

TypeOK ==
  /\ pc \in [Calls -> Points]
  /\ frame \in [Calls -> Frame]
  /\ pending \in Progress
  /\ asked \in [Ids -> TopicSession]
  /\ expiry \in Seq(Ids \cup {BriefingKey})
  /\ host \in Response
  /\ disk \in [Calls -> Files]
  /\ solo \in BOOLEAN
  /\ mishaps \in 0..MaxMishaps

Reply(c, kind) ==
  [kind |-> kind, plan |-> frame[c].plan, idx |-> frame[c].idx, sections |-> <<>>,
   path |-> frame[c].path, noted |-> frame[c].noted, by |-> c]

Init ==
  /\ pc = [c \in Calls |-> "idle"]
  /\ frame = [c \in Calls |-> NoFrame]
  /\ pending = NotPending
  /\ asked = [id \in Ids |-> Settled]
  /\ expiry = <<>>
  /\ host \in {Reply(c, "none") : c \in Calls}
  /\ disk = [c \in Calls |-> [md |-> FALSE, json |-> <<>>]]
  /\ solo = TRUE
  /\ mishaps = 0

Current(f) == f.plan[f.idx]

\* One time to live for both stores: entries expire in the order they were set.
Removed(k) == Picked(expiry, {i \in DOMAIN expiry : expiry[i] # k})

Touched(k) == Append(Removed(k), k)

\* Locals of call c become f, and it is suspended at p.
GoTo(c, p, f) ==
  /\ pc' = [pc EXCEPT ![c] = p]
  /\ frame' = [frame EXCEPT ![c] = f]

\* The call ends with response r; the host has it.
Return(c, r) == GoTo(c, "idle", NoFrame) /\ host' = r

Mishap == mishaps < MaxMishaps /\ mishaps' = mishaps + 1

-----------------------------------------------------------------------------
(* Entry: the stored progress, or a new decomposition.                     *)

\* Mutant: the loop starts over.
BeginAtTheFirst(c, answer) ==
  /\ pc[c] = "idle"
  /\ answer => host.kind = "question"
  /\ LET f == [NoFrame EXCEPT !.answer = answer, !.plan = pending.plan,
                              !.done = pending.done]
     IN  GoTo(c, IF pending = NotPending THEN "decompose" ELSE "topic", f)
  /\ solo' = (solo /\ \A d \in Calls : pc[d] = "idle")
  /\ UNCHANGED <<pending, asked, expiry, host, disk, mishaps>>

\* The host answers when it was asked and only then; it may also just repeat
\* the call, or make another while one is in flight.
Begin(c, answer) ==
  /\ pc[c] = "idle"
  /\ answer => host.kind = "question"
  /\ LET f == [NoFrame EXCEPT !.answer = answer, !.plan = pending.plan,
                              !.idx = pending.idx, !.first = pending.idx,
                              !.done = pending.done]
     IN  GoTo(c, IF pending = NotPending THEN "decompose" ELSE "topic", f)
  /\ solo' = (solo /\ \A d \in Calls : pc[d] = "idle")
  /\ UNCHANGED <<pending, asked, expiry, host, disk, mishaps>>

\* Any topic list; ids are the LLM's own and may repeat.
Decomposed(c) ==
  /\ pc[c] = "decompose"
  /\ \E p \in Plans : GoTo(c, "topic", [frame[c] EXCEPT !.plan = p])
  /\ UNCHANGED <<pending, asked, expiry, host, disk, solo, mishaps>>

\* DecompositionError or no topics: an error response, nothing is stored.
DecomposeFails(c) ==
  /\ pc[c] = "decompose" /\ Mishap
  /\ Return(c, Reply(c, "failed"))
  /\ UNCHANGED <<pending, asked, expiry, disk, solo>>

-----------------------------------------------------------------------------
(* One topic: handle_query.                                                *)

\* Only the topic that was pending on entry is given the answer.
AnswerFor(f) == f.answer /\ f.idx = f.first

\* The topic session is read.
StartTopic(c) ==
  /\ pc[c] = "topic"
  /\ LET f     == frame[c]
         topic == Current(f)
         s     == asked[topic.id]
     IN  \/ /\ s.query # NoQuery /\ AnswerFor(f)
            /\ GoTo(c, "resolve", [f EXCEPT !.now = s])
            /\ UNCHANGED expiry
         \/ /\ s.query = topic.query /\ ~AnswerFor(f)
            /\ GoTo(c, "save_pending", [f EXCEPT !.now = s])
            /\ expiry' = Touched(topic.id)
         \/ /\ s.query = NoQuery
            /\ GoTo(c, "triage", [f EXCEPT !.now = [s EXCEPT !.query = topic.query]])
            /\ UNCHANGED expiry
         \/ /\ s.query \notin {NoQuery, topic.query} /\ ~AnswerFor(f)
            /\ GoTo(c, "triage", [f EXCEPT !.now = [query |-> topic.query, rounds |-> 0]])
            /\ UNCHANGED expiry
  /\ UNCHANGED <<pending, asked, host, disk, solo, mishaps>>

\* resolve_answer and the conventions writes have returned: the session, which
\* in memory is the stored object, is RESOLVED.
AnswerResolved(c) ==
  /\ pc[c] = "resolve"
  /\ GoTo(c, "triage", frame[c])
  /\ asked' = IF Backend = "memory"
              THEN [asked EXCEPT ![Current(frame[c]).id].query = NoQuery] ELSE asked
  /\ UNCHANGED <<pending, expiry, host, disk, solo, mishaps>>

\* Mutant: the round is not counted.
TopicAsksUncounted(c) ==
  /\ pc[c] = "triage"
  /\ frame[c].now.rounds < MaxRounds
  /\ LET k == Current(frame[c]).id
     IN  /\ asked' = [asked EXCEPT ![k] = frame[c].now]
         /\ expiry' = Touched(k)
         /\ GoTo(c, "save_pending", frame[c])
  /\ UNCHANGED <<pending, host, disk, solo, mishaps>>

\* Terms are open and rounds are left: the topic session is saved awaiting.
TopicAsks(c) ==
  /\ pc[c] = "triage"
  /\ frame[c].now.rounds < MaxRounds
  /\ LET s == [frame[c].now EXCEPT !.rounds = @ + 1]
         k == Current(frame[c]).id
     IN  /\ asked' = [asked EXCEPT ![k] = s]
         /\ expiry' = Touched(k)
         /\ GoTo(c, "save_pending", [frame[c] EXCEPT !.now = s])
  /\ UNCHANGED <<pending, host, disk, solo, mishaps>>

\* The topic session is saved as dispatched.
TopicDispatches(c) ==
  /\ pc[c] = "triage"
  /\ GoTo(c, "query", frame[c])
  /\ asked' = [asked EXCEPT ![Current(frame[c]).id] = Settled]
  /\ expiry' = Removed(Current(frame[c]).id)
  /\ UNCHANGED <<pending, host, disk, solo, mishaps>>

\* The result is recorded under the topic's id, and the loop goes on.
TopicCompletes(c) ==
  /\ pc[c] = "query"
  /\ LET f == frame[c]
         g == [f EXCEPT !.done[Current(f).id] = f.now.query, !.now = Settled]
     IN  IF f.idx < Len(f.plan)
         THEN GoTo(c, "topic", [g EXCEPT !.idx = @ + 1])
         ELSE GoTo(c, "finish", g)
  /\ UNCHANGED <<pending, asked, expiry, host, disk, solo, mishaps>>

\* Zero results or an execution error: the topic asks for rephrasing although its
\* session awaits nothing.
TopicRephrases(c) ==
  /\ pc[c] = "query" /\ Mishap
  /\ GoTo(c, "save_pending", frame[c])
  /\ UNCHANGED <<pending, asked, expiry, host, disk, solo>>

\* Mutant: what is stored already is not stored again.
PendingUnlessStored(c) ==
  /\ pc[c] = "save_pending"
  /\ LET f == frame[c]
     IN  /\ pending' = [plan |-> f.plan, idx |-> f.idx, done |-> f.done]
         /\ expiry' = IF pending' = pending THEN expiry ELSE Touched(BriefingKey)
         /\ Return(c, Reply(c, "question"))
  /\ UNCHANGED <<asked, disk, solo, mishaps>>

\* Mutants: results are not stored; the index is not advanced; it is the last
\* completed topic's.
PendingWithoutResults(c) ==
  /\ pc[c] = "save_pending"
  /\ pending' = [plan |-> frame[c].plan, idx |-> frame[c].idx, done |-> NoResults]
  /\ expiry' = Touched(BriefingKey)
  /\ Return(c, Reply(c, "question"))
  /\ UNCHANGED <<asked, disk, solo, mishaps>>
PendingFromTheStart(c) ==
  /\ pc[c] = "save_pending"
  /\ pending' = [plan |-> frame[c].plan, idx |-> 1, done |-> frame[c].done]
  /\ expiry' = Touched(BriefingKey)
  /\ Return(c, Reply(c, "question"))
  /\ UNCHANGED <<asked, disk, solo, mishaps>>

PendingOneBack(c) ==
  /\ pc[c] = "save_pending"
  /\ pending' = [plan |-> frame[c].plan, idx |-> frame[c].idx - 1, done |-> frame[c].done]
  /\ expiry' = Touched(BriefingKey)
  /\ Return(c, Reply(c, "question"))
  /\ UNCHANGED <<asked, disk, solo, mishaps>>

\* The progress is stored and the question returned.
SavePending(c) ==
  /\ pc[c] = "save_pending"
  /\ pending' = [plan |-> frame[c].plan, idx |-> frame[c].idx, done |-> frame[c].done]
  /\ expiry' = Touched(BriefingKey)
  /\ Return(c, Reply(c, "question"))
  /\ UNCHANGED <<asked, disk, solo, mishaps>>

\* An exception leaves generate_briefing: the clarifier or a conventions write
\* failed, for an answer of this call or an elicited one, or a store on another
\* host did.
Raises(c) ==
  /\ \/ pc[c] \in {"resolve", "triage"}
     \/ pc[c] \in {"topic", "save_pending", "finish"} /\ Backend = "valkey"
  /\ Mishap
  /\ Return(c, Reply(c, "failed"))
  /\ UNCHANGED <<pending, asked, expiry, disk, solo>>

-----------------------------------------------------------------------------
(* All topics are complete: the report.                                    *)

\* One section per topic, with the result that is recorded under its id.
SectionsOf(f) == [i \in 1..Len(f.plan) |-> f.done[f.plan[i].id]]

Finish(c) ==
  /\ pc[c] = "finish"
  /\ pending' = NotPending
  /\ expiry' = Removed(BriefingKey)
  /\ GoTo(c, "deliver", frame[c])
  /\ UNCHANGED <<asked, host, disk, solo, mishaps>>

\* Delivery is switched off: no file, no report_path, and no word in errors.
Undelivered(c) ==
  /\ pc[c] = "deliver" /\ ~Delivers
  /\ GoTo(c, "return", [frame[c] EXCEPT !.path = FALSE])
  /\ UNCHANGED <<pending, asked, expiry, host, disk, solo, mishaps>>

\* Research, details, analysis and ranking only add to sections or to errors.
Deliver(c) ==
  /\ pc[c] = "deliver" /\ Delivers
  /\ disk' = [disk EXCEPT ![c] = [md |-> TRUE, json |-> <<>>]]
  /\ GoTo(c, "sidecar", [frame[c] EXCEPT !.path = TRUE])
  /\ UNCHANGED <<pending, asked, expiry, host, solo, mishaps>>

DeliverFails(c) ==
  /\ pc[c] = "deliver" /\ Delivers /\ Mishap
  /\ disk' = [disk EXCEPT ![c] = [md |-> FALSE, json |-> <<>>]]
  /\ GoTo(c, "return", [frame[c] EXCEPT !.path = FALSE, !.noted = TRUE])
  /\ UNCHANGED <<pending, asked, expiry, host, solo>>

Sidecar(c) ==
  /\ pc[c] = "sidecar"
  /\ disk' = [disk EXCEPT ![c].json = SectionsOf(frame[c])]
  /\ GoTo(c, "return", frame[c])
  /\ UNCHANGED <<pending, asked, expiry, host, solo, mishaps>>

\* Mutant: only logged.
SidecarFailsUnnoted(c) ==
  /\ pc[c] = "sidecar" /\ Mishap
  /\ GoTo(c, "return", frame[c])
  /\ UNCHANGED <<pending, asked, expiry, host, disk, solo>>

SidecarFails(c) ==
  /\ pc[c] = "sidecar" /\ Mishap
  /\ GoTo(c, "return", [frame[c] EXCEPT !.noted = TRUE])
  /\ UNCHANGED <<pending, asked, expiry, host, disk, solo>>

ReturnReport(c) ==
  /\ pc[c] = "return"
  /\ Return(c, [Reply(c, "report") EXCEPT !.sections = SectionsOf(frame[c])])
  /\ UNCHANGED <<pending, asked, expiry, disk, solo, mishaps>>

\* get_briefing_report of call c's report.  Without the JSON file it is an error.
GetReport(c) ==
  [sections |-> disk[c].json, path |-> disk[c].md, noted |-> disk[c].json = <<>>]

-----------------------------------------------------------------------------
(* The environment.                                                        *)

Expire ==
  /\ expiry # <<>> /\ Mishap
  /\ IF Head(expiry) = BriefingKey
     THEN pending' = NotPending /\ UNCHANGED asked
     ELSE asked' = [asked EXCEPT ![Head(expiry)] = Settled] /\ UNCHANGED pending
  /\ expiry' = Tail(expiry)
  /\ UNCHANGED <<pc, frame, host, disk, solo>>

\* The process dies and starts again: calls are lost, and the in-memory stores.
Restart ==
  /\ Mishap
  /\ pc' = [c \in Calls |-> "idle"]
  /\ frame' = [c \in Calls |-> NoFrame]
  /\ IF Backend = "memory"
     THEN pending' = NotPending /\ asked' = [id \in Ids |-> Settled] /\ expiry' = <<>>
     ELSE UNCHANGED <<pending, asked, expiry>>
  /\ host' = IF \A c \in Calls : pc[c] = "idle" THEN host ELSE [host EXCEPT !.kind = "failed"]
  /\ UNCHANGED <<disk, solo>>

Advance(c) ==
  \/ Decomposed(c) \/ DecomposeFails(c)
  \/ StartTopic(c) \/ AnswerResolved(c) \/ TopicAsks(c) \/ TopicDispatches(c)
  \/ TopicCompletes(c) \/ TopicRephrases(c) \/ SavePending(c) \/ Raises(c)
  \/ Finish(c) \/ Undelivered(c) \/ Deliver(c) \/ DeliverFails(c)
  \/ Sidecar(c) \/ SidecarFails(c) \/ ReturnReport(c)

Next ==
  \/ \E c \in Calls : \/ \E answer \in BOOLEAN : Begin(c, answer)
                      \/ Advance(c)
  \/ Expire
  \/ Restart

Spec == Init /\ [][Next]_vars

\* LLM calls, stores, files and the backend answer or fail in bounded time; and
\* the user who is asked answers.
AnsweringSpec ==
  /\ Spec
  /\ \A c \in Calls : WF_vars(Advance(c))
  /\ SF_vars(\E c \in Calls : Begin(c, TRUE))

-----------------------------------------------------------------------------
(* Properties.                                                             *)

Resting == \A c \in Calls : pc[c] = "idle"

DistinctIds(plan) ==
  \A i, j \in 1..Len(plan) : plan[i].id = plan[j].id => i = j

\* Stored progress is exact, whatever calls overlap or fail: the topics before the
\* pending one have a result, the others have none.
CompletedPrefix ==
  DistinctIds(pending.plan) =>
    \A i \in 1..Len(pending.plan) :
      pending.done[pending.plan[i].id] # NoQuery <=> i < pending.idx

\* The question a host was asked is the one its answer will be applied to: the
\* briefing resumes at that topic and the topic's session awaits nothing else.
AnswerReachesItsTopic ==
  solo /\ Resting /\ host.kind = "question" /\ pending # NotPending =>
    LET topic == host.plan[host.idx]
    IN  /\ pending.plan = host.plan /\ pending.idx = host.idx
        /\ asked[topic.id].query \in {NoQuery, topic.query}

\* Each section holds the result of its own topic's query, also when the stored
\* progress or a topic session expired in between and the agenda was decomposed
\* anew into other topics with the same ids.
SectionsReportTheirTopics ==
  solo /\ host.kind = "report" /\ DistinctIds(host.plan) =>
    \A i \in 1..Len(host.plan) : host.sections[i] = host.plan[i].query

\* Whatever calls of the session overlap, a report has a result for every topic.
EveryTopicReported ==
  host.kind = "report" => \A i \in 1..Len(host.plan) : host.sections[i] \in Queries

\* A report that was announced with a path has its markdown there, and unless errors
\* name a failed write get_report reads back the sections that were announced.  A
\* deployment that delivers reports never announces one without either.
ReportIsReadable ==
  Resting /\ host.kind = "report" =>
    LET read == GetReport(host.by)
    IN  /\ host.path => read.path
        /\ host.path /\ ~host.noted => read.sections = host.sections /\ ~read.noted
        /\ Delivers => host.path \/ host.noted

\* Stored progress never goes back: a resumed briefing keeps its topics and what
\* is completed, until it is reported or expires.
ProgressOnly ==
  [][pending # NotPending /\ pending' # NotPending /\ solo
       => /\ pending'.plan = pending.plan
          /\ pending'.idx >= pending.idx
          /\ \A id \in Ids : pending.done[id] # NoQuery => pending'.done[id] # NoQuery]_vars

\* A user who answers every question gets the briefing (or an error), once empty
\* results and faults come to an end.
AnsweredBriefingEnds ==
  solo /\ host.kind = "question" ~> host.kind \in {"report", "failed"} \/ ~solo
=============================================================================
