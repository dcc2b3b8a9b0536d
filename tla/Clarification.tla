--------------------------- MODULE Clarification ---------------------------
(***************************************************************************)
(* The clarification loop of query_jira: Orchestrator.handle_query of      *)
(* core/orchestrator.py over the session stores of memory/.                *)
(*                                                                         *)
(* A call is one run of the coroutine handle_query.  An action runs from   *)
(* one real suspension point (an LLM call, an elicitation, a conventions   *)
(* write, a Valkey round trip, the backend query) to the next; between     *)
(* two of them the event loop lets nothing else run.  The in-process       *)
(* session store never suspends and hands out the stored object itself,    *)
(* so two calls of one session may share it; Valkey suspends on every      *)
(* access and hands out copies.  Python objects are therefore explicit:    *)
(* heap holds SessionState objects, store and frame hold references.       *)
(***************************************************************************)
EXTENDS Integers, FiniteSets

CONSTANTS
  Calls,      \* coroutines that may be in flight at once
  Sessions,   \* session ids the hosts use
  Queries,    \* query texts
  Terms,      \* vocabulary terms
  Detect,     \* [Queries -> SUBSET Terms]: IntentClassifier.detect
  MaxRounds,  \* settings.clarification.max_rounds
  Backend,    \* "memory" or "valkey": which session store is configured
  Elicit,     \* TRUE when the server passes an elicit callback (not streamable-http)
  Overlap,    \* TRUE when a host may overlap calls of one session
  Faults,     \* subset of {"expiry", "restart"}: what the environment may do
  HostMoves,  \* subset of {"answer", "repeat", "abandon"}: a host's options when asked
  Objects,    \* identities of SessionState objects
  NoObject, NoSession, NoQuery

ASSUME ConstantsOK ==
  /\ Detect \in [Queries -> SUBSET Terms]
  /\ MaxRounds \in Nat                     \* clarification limit, settings.py
  /\ Backend \in {"memory", "valkey"}
  /\ Elicit \in BOOLEAN /\ Overlap \in BOOLEAN
  /\ NoObject \notin Objects               \* None from a session store
  /\ NoSession \notin Sessions
  /\ NoQuery \notin Queries                \* None as pending_query

VARIABLES
  pc,     \* where each coroutine is suspended
  frame,  \* its local variables
  heap,   \* SessionState objects
  store,  \* session id -> object, the session store
  conv,   \* terms the conventions dict holds
  host    \* session id -> the last response its host received

vars == <<pc, frame, heap, store, conv, host>>

-----------------------------------------------------------------------------
(* Types.  pending_query, pending_terms and pending_question are always    *)
(* assigned together, so one Question stands for the three.                *)

States == {"idle", "awaiting", "resolved", "dispatched"}

NoQuestion == [query |-> NoQuery, terms |-> {}]

Question == [query : Queries \cup {NoQuery}, terms : SUBSET Terms]

SessionState == [state : States, pending : Question, rounds : Nat,
                 resolved : SUBSET Terms]

NewSession == [state |-> "idle", pending |-> NoQuestion, rounds |-> 0,
               resolved |-> {}]

Frame == [sid : Sessions \cup {NoSession}, obj : Objects \cup {NoObject},
          query : Queries \cup {NoQuery}, via : {"host", "elicit"},
          terms : SUBSET Terms, todo : SUBSET Terms, active : SUBSET Terms,
          warned : BOOLEAN]

NoFrame == [sid |-> NoSession, obj |-> NoObject, query |-> NoQuery,
            via |-> "host", terms |-> {}, todo |-> {}, active |-> {},
            warned |-> FALSE]

Points == {"idle", "resolve", "learn", "formulate", "elicit", "save_question",
           "save_dispatch", "query"}

(* "done" is an answer or a plain failure report, "failed" an exception    *)
(* out of the tool, "illegal" such an exception raised by transition();    *)
(* "clarify" and "rephrase" are the responses with requires_user_input.    *)
Response == [kind : {"done", "failed", "illegal", "clarify", "rephrase"},
             about : Question]

TypeOK ==
  /\ pc \in [Calls -> Points]
  /\ frame \in [Calls -> Frame]
  /\ heap \in [Objects -> SessionState]
  /\ store \in [Sessions -> Objects \cup {NoObject}]
  /\ conv \in SUBSET Terms
  /\ host \in [Sessions -> Response]

Init ==
  /\ pc = [c \in Calls |-> "idle"]
  /\ frame = [c \in Calls |-> NoFrame]
  /\ heap = [o \in Objects |-> NewSession]
  /\ store = [s \in Sessions |-> NoObject]
  /\ conv = {}
  /\ host = [s \in Sessions |-> [kind |-> "done", about |-> NoQuestion]]

-----------------------------------------------------------------------------
(* The transition table and the session mutations.                         *)

Allowed(from) ==
  CASE from = "idle"       -> {"awaiting", "resolved", "dispatched"}
    [] from = "awaiting"   -> States
    [] from = "resolved"   -> {"awaiting", "dispatched"}
    [] from = "dispatched" -> States

\* Mutant: transition() alone, the pending fields are not assigned.
AwaitingNothing(ss, q, T) == [ss EXCEPT !.state = "awaiting"]

\* The session when its question is out.
Awaiting(ss, q, T) ==
  [ss EXCEPT !.state = "awaiting", !.pending = [query |-> q, terms |-> T]]

\* Mutants: the rounds are taken back one by one; not at all; the pending fields stay.
DispatchedOneBack(ss) ==
  [ss EXCEPT !.state = "dispatched", !.pending = NoQuestion, !.rounds = @ - 1]
DispatchedKeepsRounds(ss) == [ss EXCEPT !.state = "dispatched", !.pending = NoQuestion]
DispatchedKeepsPending(ss) == [ss EXCEPT !.state = "dispatched", !.rounds = 0]

\* The session when its query is about to reach the backend.
Dispatched(ss) ==
  [ss EXCEPT !.state = "dispatched", !.pending = NoQuestion, !.rounds = 0]

\* _split_resolved: session resolutions first, then learned conventions.
Known(ss) == ss.resolved \cup conv

-----------------------------------------------------------------------------
(* References.  An object nobody refers to any more is collected.          *)

Free == {o \in Objects : /\ \A c \in Calls : frame[c].obj # o
                         /\ \A s \in Sessions : store[s] # o}

\* The object get() yields: the stored one, or a new one (a deserialised copy,
\* or SessionState(session_id=...) when there is none).
Handed(s) ==
  IF Backend = "memory" /\ store[s] # NoObject THEN {store[s]} ELSE Free

Stored(s) == IF store[s] = NoObject THEN NewSession ELSE heap[store[s]]

\* Where setex puts the copy of a session.
Slot(s) == IF store[s] # NoObject THEN {store[s]} ELSE Free

InFlight(s) == {c \in Calls : frame[c].sid = s}

Collected(h, fr, st) ==
  [o \in Objects |-> IF \/ \E c \in Calls : fr[c].obj = o
                        \/ \E s \in Sessions : st[s] = o
                     THEN h[o] ELSE NewSession]

\* A step of coroutine c: it is at p with locals f, the store is st, and its
\* session object holds ss.
Suspend(c, p, f, ss, st) ==
  /\ pc' = [pc EXCEPT ![c] = p]
  /\ frame' = [frame EXCEPT ![c] = f]
  /\ store' = st
  /\ heap' = Collected([heap EXCEPT ![f.obj] = ss], [frame EXCEPT ![c] = f], st)
  /\ UNCHANGED host

\* handle_query ends: the host of s gets a response of kind k.
Return(c, s, k, about, h, st) ==
  /\ pc' = [pc EXCEPT ![c] = "idle"]
  /\ frame' = [frame EXCEPT ![c] = NoFrame]
  /\ store' = st
  /\ heap' = Collected(h, [frame EXCEPT ![c] = NoFrame], st)
  /\ host' = [host EXCEPT ![s] = [kind |-> k, about |-> about]]

\* An exception leaves handle_query; what was written to a shared object stays.
Raise(c, kind) == Return(c, frame[c].sid, kind, NoQuestion, heap, store)

-----------------------------------------------------------------------------
(* Straight-line pieces of handle_query, each up to the next suspension.   *)

\* _dispatch up to sessions.set.  Every state may move to DISPATCHED.
Dispatch(c, f, ss) ==
  IF Backend = "memory"
  THEN Suspend(c, "query", f, Dispatched(ss), [store EXCEPT ![f.sid] = f.obj])
  ELSE Suspend(c, "save_dispatch", f, Dispatched(ss), store)

\* Mutant: off by one.
MayAskOnceMore(ss) == ss.rounds <= MaxRounds

\* The rounds check that decides between asking and dispatching.
MayAsk(ss) == ss.rounds < MaxRounds

\* Detection, the split, and the rounds check.
Triage(c, f, ss) ==
  LET found  == Detect[f.query]
      active == found \cap Known(ss)
      open   == found \ Known(ss)
  IN  \/ /\ open # {} /\ MayAsk(ss)
         /\ Suspend(c, "formulate", [f EXCEPT !.active = active, !.terms = open], ss, store)
      \/ /\ open = {} \/ ~MayAsk(ss)
         /\ Dispatch(c, [f EXCEPT !.active = active, !.warned = (open # {})], ss)

\* Mutant: the question is returned without sessions.set.
AskUnsaved(c, f, ss) ==
  LET asked == Awaiting(ss, f.query, f.terms)
  IN  Return(c, f.sid, "clarify", asked.pending, [heap EXCEPT ![f.obj] = asked], store)

\* The round trip: the session awaits an answer and the question is returned.
\* Every state may move to AWAITING_CLARIFICATION.
Ask(c, f, ss) ==
  LET asked == Awaiting(ss, f.query, f.terms)
  IN  IF Backend = "memory"
      THEN Return(c, f.sid, "clarify", asked.pending, [heap EXCEPT ![f.obj] = asked],
                  [store EXCEPT ![f.sid] = f.obj])
      ELSE Suspend(c, "save_question", f, asked, store)

-----------------------------------------------------------------------------
(* Calls arriving.                                                         *)

\* What a host may send: anything, or when it was asked, the answer, the same
\* call again, or another query.
HostMay(s, q, answer) ==
  LET r == host[s]
  IN  r.kind \in {"clarify", "rephrase"} =>
        \/ "answer" \in HostMoves /\ answer
        \/ "repeat" \in HostMoves /\ ~answer /\ q = r.about.query
        \/ "abandon" \in HostMoves /\ ~answer /\ q # r.about.query

Arrives(c, s, q, answer) ==
  /\ pc[c] = "idle"
  /\ Overlap \/ InFlight(s) = {}
  /\ HostMay(s, q, answer)

Locals(s, o, q) == [NoFrame EXCEPT !.sid = s, !.obj = o, !.query = q]

\* The session awaits an answer and the call carries one: the pending query and
\* terms are taken from the session and resolve_answer is called.
ReceiveAnswer(c, s, q) ==
  /\ Arrives(c, s, q, TRUE)
  /\ Stored(s).state = "awaiting"
  /\ \E o \in Handed(s) :
       Suspend(c, "resolve",
               [Locals(s, o, IF Stored(s).pending.query # NoQuery
                             THEN Stored(s).pending.query ELSE q)
                  EXCEPT !.terms = Stored(s).pending.terms],
               Stored(s), store)
  /\ UNCHANGED conv

\* The same query again without an answer: the TTL is refreshed and the cached
\* question is returned.
ReceiveRepeat(c, s, q) ==
  /\ Arrives(c, s, q, FALSE)
  /\ Stored(s).state = "awaiting" /\ q = Stored(s).pending.query
  /\ IF Backend = "memory"
     THEN Return(c, s, "clarify", Stored(s).pending, heap, store)
     ELSE \E o \in Handed(s) :
            Suspend(c, "save_question", Locals(s, o, q), Stored(s), store)
  /\ UNCHANGED conv

\* Any other call.  An answer nobody waits for is ignored; another query in the
\* middle of a clarification continues on a new session object.
ReceiveQuery(c, s, q, answer) ==
  /\ Arrives(c, s, q, answer)
  /\ \/ /\ Stored(s).state # "awaiting"
        /\ \E o \in Handed(s) : Triage(c, Locals(s, o, q), Stored(s))
     \/ /\ Stored(s).state = "awaiting" /\ ~answer /\ q # Stored(s).pending.query
        /\ \E o \in Free : Triage(c, Locals(s, o, q), NewSession)
  /\ UNCHANGED conv

-----------------------------------------------------------------------------
(* Answers: resolve_answer, then one conventions write per resolved term.  *)

\* One turn of the loop in _resolve_and_learn, up to where it suspends.  Awaiting
\* conventions.set runs the body of set() on the same stack, and its first line
\* puts the convention into the dict: session and dict have the term before
\* anything else runs, and what is awaited, and may fail, is the write of the file.
LearnTerm(c, t, rest) ==
  LET f == frame[c]
  IN  /\ Suspend(c, "learn", [f EXCEPT !.todo = rest],
                 [heap[f.obj] EXCEPT !.resolved = @ \cup {t}], store)
      /\ conv' = conv \cup {t}

\* _resolve_and_learn has returned.
AfterResolving(c) ==
  LET f  == frame[c]
      ss == heap[f.obj]
  IN  \/ /\ "resolved" \notin Allowed(ss.state)
         /\ Raise(c, "illegal")
      \/ /\ "resolved" \in Allowed(ss.state)
         /\ IF f.via = "host"
            THEN Triage(c, f, [ss EXCEPT !.state = "resolved"])
            ELSE Dispatch(c, [f EXCEPT !.active = @ \cup (f.terms \cap ss.resolved)],
                          [ss EXCEPT !.state = "resolved"])

\* The LLM was asked for the listed terms; what it returns is not compared with
\* them, so R is any set of terms, empty when it resolves none.
AnswerResolved(c) ==
  /\ pc[c] = "resolve"
  /\ \/ AfterResolving(c) /\ UNCHANGED conv
     \/ \E R \in SUBSET Terms : \E t \in R : LearnTerm(c, t, R \ {t})

ResolveFails(c) ==
  /\ pc[c] = "resolve"
  /\ Raise(c, "failed")
  /\ UNCHANGED conv

ConventionWritten(c) ==
  /\ pc[c] = "learn"
  /\ \/ \E t \in frame[c].todo : LearnTerm(c, t, frame[c].todo \ {t})
     \/ frame[c].todo = {} /\ AfterResolving(c) /\ UNCHANGED conv

\* An OSError of the writing thread; the dict keeps the term.
ConventionWriteFails(c) ==
  /\ pc[c] = "learn"
  /\ Raise(c, "failed")
  /\ UNCHANGED conv

-----------------------------------------------------------------------------
(* Questions.                                                              *)

\* Mutant: the increment is missing.
NotCounted(ss) == ss

\* The round is counted before the question is put to anybody.
Counted(ss) == [ss EXCEPT !.rounds = @ + 1]

QuestionFormulated(c) ==
  /\ pc[c] = "formulate"
  /\ LET f == frame[c]
         ss == Counted(heap[f.obj])
     IN  IF Elicit
         THEN Suspend(c, "elicit", f, ss, store)
         ELSE Ask(c, f, ss)
  /\ UNCHANGED conv

\* Mutant: the error note is missing.
FormulateFailsSilently(c) ==
  /\ pc[c] = "formulate"
  /\ Dispatch(c, frame[c], heap[frame[c].obj])
  /\ UNCHANGED conv

\* ClarificationError: the raw query is dispatched with an error note.
FormulateFails(c) ==
  /\ pc[c] = "formulate"
  /\ Dispatch(c, [frame[c] EXCEPT !.warned = TRUE], heap[frame[c].obj])
  /\ UNCHANGED conv

UserAnswers(c) ==
  /\ pc[c] = "elicit"
  /\ Suspend(c, "resolve", [frame[c] EXCEPT !.via = "elicit"], heap[frame[c].obj], store)
  /\ UNCHANGED conv

\* Declined, cancelled, unsupported by the host, or an empty answer.
UserDeclines(c) ==
  /\ pc[c] = "elicit"
  /\ Ask(c, frame[c], heap[frame[c].obj])
  /\ UNCHANGED conv

-----------------------------------------------------------------------------
(* Valkey writes, the backend query, and the environment.                  *)

\* setex: the store gets a copy of the session.
Saved(c) ==
  /\ pc[c] \in {"save_question", "save_dispatch"}
  /\ LET f == frame[c]
         ss == heap[f.obj]
     IN  \E o \in Slot(f.sid) :
           LET st == [store EXCEPT ![f.sid] = o]
               h  == [heap EXCEPT ![o] = ss]
           IN  IF pc[c] = "save_question"
               THEN Return(c, f.sid, "clarify", ss.pending, h, st)
               ELSE /\ pc' = [pc EXCEPT ![c] = "query"]
                    /\ store' = st
                    /\ heap' = h
                    /\ UNCHANGED <<frame, host>>
  /\ UNCHANGED conv

\* Connection errors propagate to the caller.
SaveFails(c) ==
  /\ pc[c] \in {"save_question", "save_dispatch"}
  /\ Raise(c, "failed")
  /\ UNCHANGED conv

\* lite.query returned: issues or a plain failure, or else zero results or an
\* execution error, which ask the user to rephrase.  Reports and UI injection
\* are best effort and change no session.
BackendReturns(c) ==
  /\ pc[c] = "query"
  /\ LET f == frame[c]
     IN  \/ Return(c, f.sid, "done", NoQuestion, heap, store)
        \/ Return(c, f.sid, "rephrase", [query |-> f.query, terms |-> {}], heap, store)
  /\ UNCHANGED conv

Expire(s) ==
  /\ "expiry" \in Faults
  /\ store[s] # NoObject
  /\ store' = [store EXCEPT ![s] = NoObject]
  /\ heap' = Collected(heap, frame, store')
  /\ UNCHANGED <<pc, frame, conv, host>>

\* The process dies and is started again: calls are lost, and with the memory
\* backend the sessions; conventions are what the file holds (ConventionsStore).
Restart ==
  /\ "restart" \in Faults
  /\ pc' = [c \in Calls |-> "idle"]
  /\ frame' = [c \in Calls |-> NoFrame]
  /\ store' = IF Backend = "memory" THEN [s \in Sessions |-> NoObject] ELSE store
  /\ heap' = Collected(heap, frame', store')
  /\ \E kept \in SUBSET conv : conv' = kept
  /\ host' = [s \in Sessions |-> IF InFlight(s) = {} THEN host[s]
                                 ELSE [kind |-> "failed", about |-> NoQuestion]]

CallBegins ==
  \E c \in Calls, s \in Sessions, q \in Queries :
    \/ ReceiveAnswer(c, s, q)
    \/ ReceiveRepeat(c, s, q)
    \/ \E answer \in BOOLEAN : ReceiveQuery(c, s, q, answer)

\* What the server and the services it waits for do; the user is not one of them.
Progress(c) ==
  \/ AnswerResolved(c) \/ ResolveFails(c)
  \/ ConventionWritten(c) \/ ConventionWriteFails(c)
  \/ QuestionFormulated(c) \/ FormulateFails(c)
  \/ Saved(c) \/ SaveFails(c)
  \/ BackendReturns(c)

Next ==
  \/ CallBegins
  \/ \E c \in Calls : Progress(c) \/ UserAnswers(c) \/ UserDeclines(c)
  \/ \E s \in Sessions : Expire(s)
  \/ Restart

Spec == Init /\ [][Next]_vars

-----------------------------------------------------------------------------
(* Fairness: LLM calls, file writes, Valkey and the backend end or time    *)
(* out, so a coroutine suspended on one of them goes on; and a user who is   *)
(* asked answers, by elicitation or in a further call.                     *)

HostAnswers(s) ==
  /\ host[s].kind = "clarify"
  /\ \E c \in Calls, q \in Queries :
       ReceiveAnswer(c, s, q) \/ ReceiveQuery(c, s, q, TRUE)

AnsweringSpec ==
  /\ Spec
  /\ \A c \in Calls : WF_vars(Progress(c)) /\ WF_vars(UserAnswers(c))
  /\ \A s \in Sessions : SF_vars(HostAnswers(s))

-----------------------------------------------------------------------------
(* Safety.                                                                 *)

Sequential == ~Overlap

IsPending(ss) ==
  /\ ss.pending.query \in Queries
  /\ ss.pending.terms # {}
  /\ ss.pending.terms \subseteq Detect[ss.pending.query]

\* Whatever calls interleave on an object, a session that awaits an answer has
\* the query, the terms and the question that answer is for, and a session
\* whose query was dispatched has none (the resume branch of handle_query
\* reads pending_query and pending_terms without checking them).
PendingMatchesState ==
  \A o \in Objects :
    /\ heap[o].state = "awaiting" => IsPending(heap[o])
    /\ heap[o].state = "dispatched" => heap[o].pending = NoQuestion

\* When a host that does not overlap its calls was asked a question, the session
\* it will come back to still awaits exactly that question, unless it is gone
\* (TTL, restart): otherwise the answer would be ignored or be applied to the
\* terms of another question.
AskedSessionAwaits ==
  Sequential =>
    \A s \in Sessions :
      host[s].kind = "clarify" /\ InFlight(s) = {} /\ store[s] # NoObject
        => /\ heap[store[s]].state = "awaiting"
           /\ heap[store[s]].pending = host[s].about

\* As long as a host does not overlap its calls, the limit on clarification rounds
\* holds across suspensions, expiries and abandoned queries: the check precedes the
\* LLM call and the increment follows it.
RoundsBounded == Sequential => \A o \in Objects : heap[o].rounds <= MaxRounds

\* With calls of one session overlapping on the shared in-memory object each call
\* past the check may still add a round, and no more than that; settings.py:184
\* promises max_rounds.
RoundsBoundedWhenShared ==
  \A o \in Objects :
    heap[o].rounds + Cardinality({c \in Calls : pc[c] = "formulate" /\ frame[c].obj = o})
      <= MaxRounds + Cardinality(Calls) - 1

\* No query is on its way to the backend with an ambiguous term that neither the
\* user nor a convention has interpreted, unless the response says so (rounds
\* exhausted, clarification unavailable).
IntentIsResolved ==
  \A c \in Calls :
    pc[c] \in {"save_dispatch", "query"} =>
      frame[c].warned \/ Detect[frame[c].query] \subseteq frame[c].active

\* So it is without elicitation, where every answer comes with a further call that
\* looks at all the terms of its query again.  An elicited answer is dispatched with
\* whatever the LLM made of it, although README.md:5 has the backend called "only [...]
\* once the intent is fully resolved".
NeverGuessesSilently == ~Elicit => IntentIsResolved

\* Valkey never holds a session in the middle of a call: what another instance
\* reads is a session that awaits its question or whose query was dispatched,
\* with its rounds reset.
StoredIsSettled ==
  Backend = "valkey" =>
    \A s \in Sessions :
      store[s] # NoObject =>
        LET ss == heap[store[s]]
        IN  \/ ss.state = "awaiting" /\ IsPending(ss)
            \/ ss.state = "dispatched" /\ ss.rounds = 0

-----------------------------------------------------------------------------
(* Liveness.                                                               *)

\* The question is lost: the session expires, or a host that was asked sends another query,
\* or its own once more to a session that expired.
LosesQuestion ==
  \E s \in Sessions :
    /\ host[s].kind = "clarify"
    /\ Expire(s) \/ \E c \in Calls, q \in Queries : ReceiveQuery(c, s, q, FALSE)

\* A user who from some time on answers every question in time is not asked forever:
\* max_rounds gets the query dispatched even when the LLM never resolves a term.
AnsweringEndsTheQuestions ==
  <>[][~LosesQuestion]_vars
    => \A s \in Sessions : host[s].kind = "clarify" ~> host[s].kind # "clarify"

-----------------------------------------------------------------------------
(* What the repository says and the code does not do.                      *)

\* core/exceptions.py calls StateTransitionError a programming error: no call of
\* a host ends with one.
NoIllegalTransition == \A s \in Sessions : host[s].kind # "illegal"

\* models/responses.py: after requires_user_input the host calls again with the
\* answer, so the session has to await it.
EveryQuestionAwaitsItsAnswer ==
  \A s \in Sessions :
    /\ host[s].kind \in {"clarify", "rephrase"}
    /\ InFlight(s) = {}
    /\ store[s] # NoObject
    => heap[store[s]].state = "awaiting"
=============================================================================
