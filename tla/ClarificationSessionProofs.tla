--------------------- MODULE ClarificationSessionProofs ---------------------
(***************************************************************************)
(* What a session remembers, for every deployment: its pending question    *)
(* belongs to its state, and no query is dispatched with an ambiguous term  *)
(* passed over in silence.                                                 *)
(* The two speak of objects and of dispatched calls, so the invariant    *)
(* adds what a call carries to the point where it writes them: the terms   *)
(* of a question that is being put are terms detected in its query, and    *)
(* without elicitation every answer came with a call of the host.          *)
(*                                                                         *)
(* The second part joins this with the ownership of objects: what a host   *)
(* finds in the store when it comes back.                                  *)
(***************************************************************************)
EXTENDS ClarificationRoundsProofs

USE DEF NoQuestion, NewSession, NoFrame

\* The call suspended at p with locals f.
Carries(p, f) ==
  /\ p \in {"formulate", "elicit"} =>
       f.terms # {} /\ f.terms \subseteq Detect[f.query]
  /\ ~Elicit => p # "elicit" /\ f.via = "host"
  /\ ~Elicit /\ p \in {"save_dispatch", "query"} =>
       f.warned \/ Detect[f.query] \subseteq f.active

Coherent(ss) ==
  /\ ss.state = "awaiting" => IsPending(ss)
  /\ ss.state = "dispatched" => ss.pending = NoQuestion

SessionInv ==
  /\ TypeInv
  /\ \A c \in Calls : Carries(pc[c], frame[c])
  /\ \A o \in Objects : Coherent(heap[o])

-----------------------------------------------------------------------------
(* The two ways a step ends.                                               *)

LEMMA NewCoherent == Coherent(NewSession)
  BY DEF Coherent

LEMMA CollectedCoherent ==
  ASSUME NEW h, NEW fr, NEW st, \A o \in Objects : Coherent(h[o])
  PROVE  \A o \in Objects : Coherent(Collected(h, fr, st)[o])
  BY NewCoherent DEF Collected

LEMMA SuspendSession ==
  ASSUME SessionInv, NEW c \in Calls, NEW p, NEW f, f.obj \in Objects, Carries(p, f),
         NEW ss, Coherent(ss), NEW st,
         Suspend(c, p, f, ss, st)
  PROVE  /\ \A d \in Calls : Carries(pc'[d], frame'[d])
         /\ \A o \in Objects : Coherent(heap'[o])
<1> DEFINE h == [heap EXCEPT ![f.obj] = ss]
<1>1. \A d \in Calls : Carries(pc'[d], frame'[d])
  BY DEF SessionInv, TypeInv, TypeOK, Suspend
<1>2. \A o \in Objects : h[o] = IF o = f.obj THEN ss ELSE heap[o]
  BY DEF SessionInv, TypeInv, TypeOK
<1>3. \A o \in Objects : Coherent(heap[o])
  BY DEF SessionInv
<1>4. \A o \in Objects : Coherent(h[o])
  BY <1>2, <1>3
<1>5. heap' = Collected(h, frame', st)
  BY DEF Suspend
<1> HIDE DEF h
<1>6. \A o \in Objects : Coherent(heap'[o])
  BY <1>4, <1>5, CollectedCoherent
<1>7. QED
  BY <1>1, <1>6

LEMMA ReturnSession ==
  ASSUME SessionInv, NEW c \in Calls, NEW s, NEW k, NEW about,
         NEW h, \A o \in Objects : Coherent(h[o]), NEW st,
         Return(c, s, k, about, h, st)
  PROVE  /\ \A d \in Calls : Carries(pc'[d], frame'[d])
         /\ \A o \in Objects : Coherent(heap'[o])
<1>1. Carries("idle", NoFrame)
  BY DEF Carries
<1>2. \A d \in Calls : Carries(pc'[d], frame'[d])
  BY <1>1 DEF SessionInv, TypeInv, TypeOK, Return
<1>3. heap' = Collected(h, frame', st)
  BY DEF Return
<1>4. \A o \in Objects : Coherent(heap'[o])
  BY <1>3, CollectedCoherent
<1>5. QED
  BY <1>2, <1>4

-----------------------------------------------------------------------------
(* The straight-line pieces.                                               *)

LEMMA DispatchSession ==
  ASSUME SessionInv, NEW c \in Calls, NEW f, f.obj \in Objects,
         ~Elicit => f.via = "host" /\ (f.warned \/ Detect[f.query] \subseteq f.active),
         NEW ss \in SessionState, Coherent(ss), Dispatch(c, f, ss)
  PROVE  /\ \A d \in Calls : Carries(pc'[d], frame'[d])
         /\ \A o \in Objects : Coherent(heap'[o])
<1>1. Coherent(Dispatched(ss))
  BY DEF Coherent, Dispatched, SessionState
<1>2. Carries("query", f) /\ Carries("save_dispatch", f)
  BY DEF Carries
<1>3. QED
  BY <1>1, <1>2, SuspendSession DEF Dispatch

LEMMA TriageSession ==
  ASSUME SessionInv, NEW c \in Calls, NEW f \in Frame, Live(f), ~Elicit => f.via = "host",
         NEW ss \in SessionState, Coherent(ss), Triage(c, f, ss)
  PROVE  /\ \A d \in Calls : Carries(pc'[d], frame'[d])
         /\ \A o \in Objects : Coherent(heap'[o])
<1> DEFINE active == Detect[f.query] \cap Known(ss)
           open == Detect[f.query] \ Known(ss)
           fq == [f EXCEPT !.active = active, !.terms = open]
           fd == [f EXCEPT !.active = active, !.warned = (open # {})]
<1>1. /\ fq.obj \in Objects /\ fq.terms = open /\ fq.query = f.query /\ fq.via = f.via
      /\ fd.obj \in Objects /\ fd.active = active /\ fd.query = f.query /\ fd.via = f.via
      /\ fd.warned = (open # {})
  BY DEF Frame, Live
<1>2. open # {} \/ Detect[f.query] \subseteq active
  OBVIOUS
<1>3. CASE open # {} /\ Suspend(c, "formulate", fq, ss, store)
  <2>1. Carries("formulate", fq)
    BY <1>1, <1>3 DEF Carries
  <2> HIDE DEF fq
  <2>2. QED
    BY <1>1, <1>3, <2>1, SuspendSession
<1>4. CASE Dispatch(c, fd, ss)
  <2>1. ~Elicit => fd.via = "host" /\ (fd.warned \/ Detect[fd.query] \subseteq fd.active)
    BY <1>1, <1>2
  <2> HIDE DEF fd
  <2>2. QED
    BY <1>1, <1>4, <2>1, DispatchSession
<1>5. QED
  BY <1>3, <1>4 DEF Triage

\* The question is recorded with the terms it is about.
LEMMA AskSession ==
  ASSUME SessionInv, NEW c \in Calls, NEW f \in Frame, Live(f), Carries("formulate", f),
         NEW ss \in SessionState, Coherent(ss), Ask(c, f, ss)
  PROVE  /\ \A d \in Calls : Carries(pc'[d], frame'[d])
         /\ \A o \in Objects : Coherent(heap'[o])
<1> DEFINE asked == Awaiting(ss, f.query, f.terms)
           h == [heap EXCEPT ![f.obj] = asked]
<1>1. Coherent(asked)
  <2>1. /\ asked.state = "awaiting" /\ asked.resolved = ss.resolved
        /\ asked.pending.query = f.query /\ asked.pending.terms = f.terms
    BY DEF Awaiting, SessionState
  <2>2. QED
    BY <2>1 DEF Coherent, IsPending, Carries, Live
<1>2. \A o \in Objects : h[o] = IF o = f.obj THEN asked ELSE heap[o]
  BY DEF SessionInv, TypeInv, TypeOK
<1>3. \A o \in Objects : Coherent(h[o])
  <2> HIDE DEF h, asked
  <2>1. QED
    BY <1>1, <1>2 DEF SessionInv
<1>4. CASE Backend = "memory"
  <2>1. Return(c, f.sid, "clarify", asked.pending, h, [store EXCEPT ![f.sid] = f.obj])
    BY <1>4 DEF Ask
  <2> HIDE DEF h, asked
  <2>2. QED
    BY <1>3, <2>1, ReturnSession
<1>5. CASE Backend # "memory"
  <2>1. Suspend(c, "save_question", f, asked, store)
    BY <1>5 DEF Ask
  <2>2. Carries("save_question", f) /\ f.obj \in Objects
    BY DEF Carries, Live
  <2> HIDE DEF asked
  <2>3. QED
    BY <1>1, <2>1, <2>2, SuspendSession
<1>6. QED
  BY <1>4, <1>5

LEMMA RaiseSession ==
  ASSUME SessionInv, NEW c \in Calls, NEW k, Raise(c, k)
  PROVE  /\ \A d \in Calls : Carries(pc'[d], frame'[d])
         /\ \A o \in Objects : Coherent(heap'[o])
  BY ReturnSession DEF Raise, SessionInv

LEMMA RunningSession ==
  ASSUME SessionInv, NEW c \in Calls, pc[c] # "idle"
  PROVE  /\ frame[c] \in Frame /\ Live(frame[c]) /\ Carries(pc[c], frame[c])
         /\ ~Elicit => frame[c].via = "host"
         /\ heap[frame[c].obj] \in SessionState /\ Coherent(heap[frame[c].obj])
<1>1. frame[c] \in Frame /\ Live(frame[c]) /\ heap[frame[c].obj] \in SessionState
  BY RunningType DEF SessionInv
<1>2. QED
  BY <1>1 DEF SessionInv, Carries, Live

LEMMA LearnTermSession ==
  ASSUME SessionInv, NEW c \in Calls, pc[c] # "idle", NEW t, NEW rest,
         LearnTerm(c, t, rest)
  PROVE  /\ \A d \in Calls : Carries(pc'[d], frame'[d])
         /\ \A o \in Objects : Coherent(heap'[o])
<1> DEFINE f == [frame[c] EXCEPT !.todo = rest]
           ss == [heap[frame[c].obj] EXCEPT !.resolved = @ \cup {t}]
<1>1. f.obj = frame[c].obj /\ f.obj \in Objects /\ f.via = frame[c].via
  BY RunningSession DEF Frame, Live
<1>2. Carries("learn", f)
  BY <1>1, RunningSession DEF Carries
<1>3. Coherent(ss)
  BY RunningSession DEF Coherent, IsPending, SessionState
<1>4. Suspend(c, "learn", f, ss, store)
  BY <1>1 DEF LearnTerm
<1> HIDE DEF f, ss
<1>5. QED
  BY <1>1, <1>2, <1>3, <1>4, SuspendSession

LEMMA AfterResolvingSession ==
  ASSUME SessionInv, NEW c \in Calls, pc[c] # "idle", AfterResolving(c)
  PROVE  /\ \A d \in Calls : Carries(pc'[d], frame'[d])
         /\ \A o \in Objects : Coherent(heap'[o])
<1> DEFINE f == frame[c]
           ss == heap[f.obj]
           fe == [f EXCEPT !.active = @ \cup (f.terms \cap ss.resolved)]
           sr == [ss EXCEPT !.state = "resolved"]
<1>1. sr \in SessionState /\ Coherent(sr)
  BY RunningSession DEF SessionState, States, Coherent
<1>2. CASE Raise(c, "illegal")
  BY <1>2, RaiseSession
<1>3. CASE f.via = "host" /\ Triage(c, f, sr)
  BY <1>1, <1>3, RunningSession, TriageSession
<1>4. CASE f.via # "host" /\ Dispatch(c, fe, sr)
  <2>1. Elicit /\ fe.obj \in Objects
    BY <1>4, RunningSession DEF Frame, Live
  <2> HIDE DEF fe
  <2>2. QED
    BY <1>1, <1>4, <2>1, DispatchSession
<1>5. QED
  BY <1>2, <1>3, <1>4 DEF AfterResolving

LEMMA SavedSession ==
  ASSUME SessionInv, NEW c \in Calls, Saved(c)
  PROVE  /\ \A d \in Calls : Carries(pc'[d], frame'[d])
         /\ \A o \in Objects : Coherent(heap'[o])
<1> DEFINE f == frame[c]
           ss == heap[f.obj]
<1>1. pc[c] \in {"save_question", "save_dispatch"}
  BY DEF Saved
<1>2. Coherent(ss) /\ Carries(pc[c], f)
  BY <1>1, RunningSession
<1>3. PICK o \in Slot(f.sid) :
        LET st == [store EXCEPT ![f.sid] = o]
            h  == [heap EXCEPT ![o] = ss]
        IN  IF pc[c] = "save_question"
            THEN Return(c, f.sid, "clarify", ss.pending, h, st)
            ELSE /\ pc' = [pc EXCEPT ![c] = "query"]
                 /\ store' = st
                 /\ heap' = h
                 /\ UNCHANGED <<frame, host>>
  BY DEF Saved
<1> DEFINE h == [heap EXCEPT ![o] = ss]
<1>4. \A a \in Objects : h[a] = IF a = o THEN ss ELSE heap[a]
  BY DEF SessionInv, TypeInv, TypeOK
<1>5. \A a \in Objects : Coherent(h[a])
  <2> HIDE DEF h
  <2>1. QED
    BY <1>1, <1>2, <1>4 DEF SessionInv
<1>6. CASE pc[c] = "save_question"
  <2>1. Return(c, f.sid, "clarify", ss.pending, h, [store EXCEPT ![f.sid] = o])
    BY <1>3, <1>6
  <2> HIDE DEF h
  <2>2. QED
    BY <1>5, <2>1, ReturnSession
<1>7. CASE pc[c] = "save_dispatch"
  <2>1. pc' = [pc EXCEPT ![c] = "query"] /\ heap' = h /\ frame' = frame
    BY <1>3, <1>7
  <2>2. Carries("query", f)
    BY <1>2, <1>7 DEF Carries
  <2>3. \A d \in Calls : Carries(pc'[d], frame'[d])
    BY <2>1, <2>2 DEF SessionInv, TypeInv, TypeOK
  <2>4. QED
    BY <1>5, <2>1, <2>3
<1>8. QED
  BY <1>1, <1>6, <1>7

-----------------------------------------------------------------------------
(* The steps.                                                              *)

LEMMA CallSession ==
  ASSUME SessionInv, NEW c \in Calls, Progress(c) \/ UserAnswers(c) \/ UserDeclines(c)
  PROVE  /\ \A d \in Calls : Carries(pc'[d], frame'[d])
         /\ \A o \in Objects : Coherent(heap'[o])
<1> DEFINE f == frame[c]
           ss == heap[f.obj]
<1>1. CASE AnswerResolved(c)
  BY <1>1, AfterResolvingSession, LearnTermSession DEF AnswerResolved
<1>2. CASE ConventionWritten(c)
  BY <1>2, AfterResolvingSession, LearnTermSession DEF ConventionWritten
<1>3. CASE ResolveFails(c) \/ ConventionWriteFails(c) \/ SaveFails(c)
  BY <1>3, RaiseSession DEF ResolveFails, ConventionWriteFails, SaveFails
<1>4. CASE QuestionFormulated(c)
  <2>1. pc[c] = "formulate"
    BY <1>4 DEF QuestionFormulated
  <2>2. Counted(ss) \in SessionState /\ Coherent(Counted(ss))
    <3>1. ss \in SessionState /\ Coherent(ss)
      BY <2>1, RunningSession
    <3> HIDE DEF ss
    <3>2. /\ Counted(ss) \in SessionState /\ Counted(ss).state = ss.state
          /\ Counted(ss).pending = ss.pending /\ Counted(ss).resolved = ss.resolved
      BY <3>1 DEF Counted, SessionState
    <3>3. QED
      BY <3>1, <3>2 DEF Coherent, IsPending
  <2>3. CASE Elicit
    <3>1. Carries("elicit", f) /\ f.obj \in Objects
      BY <2>1, <2>3, RunningSession DEF Carries, Live
    <3>2. Suspend(c, "elicit", f, Counted(ss), store)
      BY <1>4, <2>3 DEF QuestionFormulated
    <3>3. QED
      BY <2>1, <2>2, <3>1, <3>2, SuspendSession
  <2>4. CASE ~Elicit
    <3>1. Ask(c, f, Counted(ss))
      BY <1>4, <2>4 DEF QuestionFormulated
    <3>2. QED
      BY <2>1, <2>2, <3>1, RunningSession, AskSession
  <2>5. QED
    BY <2>3, <2>4
<1>5. CASE FormulateFails(c)
  <2> DEFINE fw == [f EXCEPT !.warned = TRUE]
  <2>1. pc[c] = "formulate" /\ Dispatch(c, fw, ss)
    BY <1>5 DEF FormulateFails
  <2>2. fw.obj \in Objects /\ fw.warned /\ (~Elicit => fw.via = "host")
    BY <2>1, RunningSession DEF Frame, Live
  <2> HIDE DEF fw
  <2>3. QED
    BY <2>1, <2>2, RunningSession, DispatchSession
<1>6. CASE Saved(c)
  BY <1>6, SavedSession
<1>7. CASE BackendReturns(c)
  BY <1>7, ReturnSession DEF BackendReturns, SessionInv
<1>8. CASE UserAnswers(c)
  <2> DEFINE fe == [f EXCEPT !.via = "elicit"]
  <2>1. pc[c] = "elicit" /\ Suspend(c, "resolve", fe, ss, store)
    BY <1>8 DEF UserAnswers
  <2>2. Elicit /\ fe.obj \in Objects
    BY <2>1, RunningSession DEF Carries, Frame, Live
  <2>3. Carries("resolve", fe)
    BY <2>2 DEF Carries
  <2> HIDE DEF fe
  <2>4. QED
    BY <2>1, <2>2, <2>3, RunningSession, SuspendSession
<1>9. CASE UserDeclines(c)
  <2>1. pc[c] = "elicit" /\ Ask(c, f, ss)
    BY <1>9 DEF UserDeclines
  <2>2. Carries("formulate", f)
    BY <2>1, RunningSession DEF Carries
  <2>3. QED
    BY <2>1, <2>2, RunningSession, AskSession
<1>10. QED
  BY <1>1, <1>2, <1>3, <1>4, <1>5, <1>6, <1>7, <1>8, <1>9 DEF Progress

LEMMA BeginSession ==
  ASSUME SessionInv, CallBegins
  PROVE  /\ \A d \in Calls : Carries(pc'[d], frame'[d])
         /\ \A o \in Objects : Coherent(heap'[o])
<1> PICK c \in Calls, s \in Sessions, q \in Queries :
      \/ ReceiveAnswer(c, s, q)
      \/ ReceiveRepeat(c, s, q)
      \/ \E answer \in BOOLEAN : ReceiveQuery(c, s, q, answer)
  BY DEF CallBegins
<1>1. Stored(s) \in SessionState /\ Coherent(Stored(s))
  BY NewTypes, NewCoherent DEF SessionInv, TypeInv, TypeOK, Stored
<1>2. conv' = conv
  BY DEF ReceiveAnswer, ReceiveRepeat, ReceiveQuery
<1>3. ASSUME NEW o \in Handed(s) \cup Free, NEW r \in Queries
      PROVE  /\ o \in Objects /\ Locals(s, o, r) \in Frame /\ Live(Locals(s, o, r))
             /\ Locals(s, o, r).via = "host" /\ Locals(s, o, r).obj = o
  <2>1. o \in Objects
    BY DEF Handed, Free, SessionInv, TypeInv, TypeOK
  <2>2. QED
    BY <2>1, NewTypes DEF Locals, Frame, Live
<1>4. CASE ReceiveAnswer(c, s, q)
  <2> DEFINE asked == IF Stored(s).pending.query # NoQuery
                      THEN Stored(s).pending.query ELSE q
             f(o) == [Locals(s, o, asked) EXCEPT !.terms = Stored(s).pending.terms]
  <2>1. PICK o \in Handed(s) : Suspend(c, "resolve", f(o), Stored(s), store)
    BY <1>4 DEF ReceiveAnswer
  <2>2. asked \in Queries
    BY <1>1 DEF SessionState, Question
  <2>3. f(o).obj \in Objects /\ f(o).via = "host"
    BY <1>3, <2>2 DEF Frame
  <2>4. Carries("resolve", f(o))
    BY <2>3 DEF Carries
  <2> HIDE DEF f
  <2>5. QED
    BY <1>1, <1>2, <2>1, <2>3, <2>4, SuspendSession
<1>5. CASE ReceiveRepeat(c, s, q)
  <2>1. CASE Backend = "memory"
    BY <1>2, <1>5, <2>1, ReturnSession DEF ReceiveRepeat, SessionInv
  <2>2. CASE Backend # "memory"
    <3>1. PICK o \in Handed(s) :
            Suspend(c, "save_question", Locals(s, o, q), Stored(s), store)
      BY <1>5, <2>2 DEF ReceiveRepeat
    <3>2. Carries("save_question", Locals(s, o, q)) /\ Locals(s, o, q).obj \in Objects
      BY <1>3 DEF Carries
    <3>3. QED
      BY <1>1, <1>2, <3>1, <3>2, SuspendSession
  <2>3. QED
    BY <2>1, <2>2
<1>6. ASSUME NEW answer \in BOOLEAN, ReceiveQuery(c, s, q, answer)
      PROVE  /\ \A d \in Calls : Carries(pc'[d], frame'[d])
             /\ \A o \in Objects : Coherent(heap'[o])
  <2>1. PICK o \in Handed(s) \cup Free, ss \in {Stored(s), NewSession} :
          Triage(c, Locals(s, o, q), ss)
    BY <1>6 DEF ReceiveQuery
  <2>2. ss \in SessionState /\ Coherent(ss)
    BY <1>1, NewTypes, NewCoherent
  <2>3. QED
    BY <1>2, <1>3, <2>1, <2>2, TriageSession
<1>7. QED
  BY <1>4, <1>5, <1>6

LEMMA EnvironmentSession ==
  ASSUME SessionInv, Restart \/ \E s \in Sessions : Expire(s)
  PROVE  /\ \A d \in Calls : Carries(pc'[d], frame'[d])
         /\ \A o \in Objects : Coherent(heap'[o])
<1>1. CASE Restart
  <2>1. Carries("idle", NoFrame) /\ heap' = Collected(heap, frame', store')
    BY <1>1 DEF Carries, Restart
  <2>2. \A d \in Calls : Carries(pc'[d], frame'[d])
    BY <1>1, <2>1 DEF Restart
  <2>3. \A o \in Objects : Coherent(heap[o])
    BY <1>1 DEF SessionInv, Coherent, Restart
  <2>4. QED
    BY <2>1, <2>2, <2>3, CollectedCoherent
<1>2. ASSUME NEW s \in Sessions, Expire(s)
      PROVE  /\ \A d \in Calls : Carries(pc'[d], frame'[d])
             /\ \A o \in Objects : Coherent(heap'[o])
  BY <1>2, CollectedCoherent DEF Expire, SessionInv
<1>3. QED
  BY <1>1, <1>2

LEMMA SessionInit == Init => SessionInv
<1> SUFFICES ASSUME Init
             PROVE  SessionInv
  OBVIOUS
<1>1. \A c \in Calls : Carries(pc[c], frame[c])
  BY DEF Init, Carries
<1>2. \A o \in Objects : Coherent(heap[o])
  BY NewCoherent DEF Init
<1>3. QED
  BY <1>1, <1>2, TypeInit DEF SessionInv

LEMMA SessionStep == SessionInv /\ [Next]_vars => SessionInv'
<1> SUFFICES ASSUME SessionInv, [Next]_vars
             PROVE  /\ \A d \in Calls : Carries(pc'[d], frame'[d])
                    /\ \A o \in Objects : Coherent(heap'[o])
  BY TypeStep DEF SessionInv, Carries, Coherent, IsPending
<1>1. CASE UNCHANGED vars
  BY <1>1 DEF vars, SessionInv
<1>2. CASE Next
  BY <1>2, BeginSession, CallSession, EnvironmentSession DEF Next
<1>3. QED
  BY <1>1, <1>2

LEMMA SessionInvariant == Spec => []SessionInv
  BY SessionInit, SessionStep, PTL DEF Spec

-----------------------------------------------------------------------------
\* However calls interleave on a shared object: a session that awaits an answer has
\* the query and the detected terms the answer is for, a dispatched one has none.
THEOREM PendingIsCoherent == Spec => []PendingMatchesState
<1>1. SessionInv => PendingMatchesState
  BY DEF SessionInv, Coherent, PendingMatchesState
<1>2. QED
  BY <1>1, SessionInvariant, PTL

\* Without elicitation every query that reaches the backend has its ambiguous terms
\* interpreted, or a note in the response that says they are not.
THEOREM NoSilentGuess == Spec => []NeverGuessesSilently
<1>1. SessionInv => NeverGuessesSilently
  BY DEF SessionInv, Carries, NeverGuessesSilently, IntentIsResolved
<1>2. QED
  BY <1>1, SessionInvariant, PTL

-----------------------------------------------------------------------------
(* What a host finds when it comes back, for every deployment in which a   *)
(* session object belongs to one call at a time: the stored session is the *)
(* one its last response spoke of, and with Valkey never one in the middle *)
(* of a call.  The invariant adds what a call that is about to save holds. *)

\* A call suspended at p holds the object ss.
Holds(p, ss) ==
  /\ p = "save_question" => Backend = "valkey" /\ ss.state = "awaiting"
  /\ p = "save_dispatch" =>
       Backend = "valkey" /\ ss.state = "dispatched" /\ ss.rounds = 0

Settled(ss) == \/ ss.state = "awaiting"
               \/ ss.state = "dispatched" /\ ss.rounds = 0

Promised ==
  /\ \A c \in Calls : Holds(pc[c], heap[frame[c].obj])
  /\ Backend = "valkey" =>
       \A s \in Sessions : store[s] # NoObject => Settled(heap[store[s]])
  /\ AskedSessionAwaits

PromiseInv == RoundsInv /\ (Private => Promised)

\* The session of a suspended call stays the same.
Follows(c, s) == pc[c] = "idle" \/ frame[c].sid = s

-----------------------------------------------------------------------------
LEMMA SuspendPromised ==
  ASSUME TypeInv, Private, Owned, Promised, NEW c \in Calls,
         NEW p \in Points \ {"idle"}, NEW f \in Frame, Live(f), Fits(c, f),
         Follows(c, f.sid), NEW ss, Holds(p, ss), NEW st,
         \/ st = store
         \/ Backend = "memory" /\ st = [store EXCEPT ![f.sid] = f.obj],
         Suspend(c, p, f, ss, st)
  PROVE  Promised'
<1>1. /\ pc' = [pc EXCEPT ![c] = p] /\ frame' = [frame EXCEPT ![c] = f]
      /\ store' = st /\ host' = host
      /\ heap' = Collected([heap EXCEPT ![f.obj] = ss], frame', st)
  BY DEF Suspend
<1>2. \A d \in Calls : d # c => frame'[d] = frame[d] /\ pc'[d] = pc[d]
  BY <1>1 DEF TypeInv, TypeOK
<1>3. frame'[c] = f /\ pc'[c] = p
  BY <1>1 DEF TypeInv, TypeOK
<1>4. \A o \in Objects : o # f.obj =>
        \/ heap'[o] = heap[o]
        \/ (\A d \in Calls : frame'[d].obj # o) /\ (\A u \in Sessions : st[u] # o)
  BY <1>1 DEF Collected, TypeInv, TypeOK
<1>5. heap'[f.obj] = ss
  BY <1>1, <1>3 DEF Collected, TypeInv, TypeOK, Live
<1>6. ASSUME NEW d \in Calls
      PROVE  Holds(pc'[d], heap'[frame'[d].obj])
  <2>1. CASE d = c
    BY <1>3, <1>5, <2>1
  <2>2. CASE d # c /\ Busy(d)
    <3>1. frame[d].obj \in Objects /\ frame[d].obj # f.obj
      BY <2>2 DEF Fits, Busy, TypeInv, FramesLive, Live
    <3>2. heap'[frame'[d].obj] = heap[frame[d].obj]
      BY <1>2, <1>4, <2>2, <3>1
    <3>3. QED
      BY <1>2, <2>2, <3>2 DEF Promised
  <2>3. CASE d # c /\ ~Busy(d)
    BY <1>2, <2>3 DEF Holds, Busy
  <2>4. QED
    BY <2>1, <2>2, <2>3
<1>7. ASSUME NEW u \in Sessions, u # f.sid \/ Backend = "valkey", store[u] # NoObject
      PROVE  st[u] = store[u] /\ heap'[store[u]] = heap[store[u]]
  <2>1. st[u] = store[u]
    BY <1>7 DEF TypeInv, TypeOK
  <2>2. store[u] \in Objects /\ store[u] # f.obj
    BY <1>7 DEF Fits, TypeInv, TypeOK
  <2>3. QED
    BY <1>4, <2>1, <2>2
<1>8. ASSUME Backend = "valkey", NEW u \in Sessions, store'[u] # NoObject
      PROVE  Settled(heap'[store'[u]])
  BY <1>1, <1>7, <1>8 DEF Promised
<1>9. AskedSessionAwaits'
  <2> SUFFICES ASSUME Sequential, NEW u \in Sessions, host'[u].kind = "clarify",
                      InFlight(u)' = {}, store'[u] # NoObject
               PROVE  /\ heap'[store'[u]].state = "awaiting"
                      /\ heap'[store'[u]].pending = host'[u].about
    BY DEF AskedSessionAwaits, Sequential
  <2>1. u # f.sid
    BY <1>3 DEF InFlight
  <2>2. InFlight(u) = {}
    BY <1>2, <2>1, ConstantsOK DEF InFlight, Follows, TypeInv, FramesLive
  <2>3. st[u] = store[u]
    BY <2>1 DEF TypeInv, TypeOK
  <2>4. heap'[store'[u]] = heap[store[u]] /\ store[u] # NoObject
    BY <1>1, <1>7, <2>1, <2>3
  <2>5. QED
    BY <1>1, <2>2, <2>4 DEF Promised, AskedSessionAwaits
<1>10. QED
  BY <1>6, <1>8, <1>9 DEF Promised, Holds, Settled

\* A call ends.  It has touched no other call's object and no other session's.
LEMMA ReturnPromised ==
  ASSUME TypeInv, Private, Owned, Promised, NEW c \in Calls, NEW s \in Sessions,
         Follows(c, s), NEW k, NEW about, NEW h, NEW st,
         \A d \in Calls \ {c} : Busy(d) => h[frame[d].obj] = heap[frame[d].obj],
         \A u \in Sessions \ {s} : /\ st[u] = store[u]
                                   /\ st[u] # NoObject => h[st[u]] = heap[st[u]],
         st[s] # NoObject =>
           /\ st[s] \in Objects
           /\ Backend = "valkey" => Settled(h[st[s]])
           /\ k = "clarify" => h[st[s]].state = "awaiting" /\ h[st[s]].pending = about,
         Return(c, s, k, about, h, st)
  PROVE  Promised'
<1>1. /\ pc' = [pc EXCEPT ![c] = "idle"] /\ frame' = [frame EXCEPT ![c] = NoFrame]
      /\ store' = st /\ heap' = Collected(h, frame', st)
      /\ host' = [host EXCEPT ![s] = [kind |-> k, about |-> about]]
  BY DEF Return
<1>2. \A d \in Calls : d # c => frame'[d] = frame[d] /\ pc'[d] = pc[d]
  BY <1>1 DEF TypeInv, TypeOK
<1>3. frame'[c] = NoFrame /\ pc'[c] = "idle"
  BY <1>1 DEF TypeInv, TypeOK
<1>4. ASSUME NEW u \in Sessions, st[u] # NoObject
      PROVE  heap'[st[u]] = h[st[u]]
  <2>1. st[u] \in Objects
    BY <1>4 DEF TypeInv, TypeOK
  <2>2. QED
    BY <1>1, <2>1 DEF Collected
<1>5. ASSUME NEW d \in Calls
      PROVE  Holds(pc'[d], heap'[frame'[d].obj])
  <2>1. CASE d = c \/ ~Busy(d)
    BY <1>2, <1>3, <2>1 DEF Holds, Busy
  <2>2. CASE d # c /\ Busy(d)
    <3>1. frame[d].obj \in Objects
      BY <2>2 DEF Busy, TypeInv, FramesLive, Live
    <3>2. heap'[frame'[d].obj] = heap[frame[d].obj]
      BY <1>1, <1>2, <2>2, <3>1 DEF Collected
    <3>3. QED
      BY <1>2, <2>2, <3>2 DEF Promised
  <2>3. QED
    BY <2>1, <2>2
<1>6. ASSUME Backend = "valkey", NEW u \in Sessions, store'[u] # NoObject
      PROVE  Settled(heap'[store'[u]])
  <2>1. CASE u = s
    BY <1>1, <1>4, <1>6, <2>1
  <2>2. CASE u # s
    BY <1>1, <1>4, <1>6, <2>2 DEF Promised
  <2>3. QED
    BY <2>1, <2>2
<1>7. AskedSessionAwaits'
  <2> SUFFICES ASSUME Sequential, NEW u \in Sessions, host'[u].kind = "clarify",
                      InFlight(u)' = {}, store'[u] # NoObject
               PROVE  /\ heap'[store'[u]].state = "awaiting"
                      /\ heap'[store'[u]].pending = host'[u].about
    BY DEF AskedSessionAwaits, Sequential
  <2>1. CASE u = s
    <3>1. host'[u].kind = k /\ host'[u].about = about
      BY <1>1, <2>1 DEF TypeInv, TypeOK
    <3>2. QED
      BY <1>1, <1>4, <2>1, <3>1
  <2>2. CASE u # s
    <3>1. InFlight(u) = {}
      BY <1>2, <2>2, ConstantsOK DEF InFlight, Follows, TypeInv, FramesLive
    <3>2. host'[u] = host[u]
      BY <1>1, <2>2 DEF TypeInv, TypeOK
    <3>3. heap'[store'[u]] = heap[store[u]] /\ store[u] # NoObject
      BY <1>1, <1>4, <2>2
    <3>4. QED
      BY <3>1, <3>2, <3>3 DEF Promised, AskedSessionAwaits
  <2>3. QED
    BY <2>1, <2>2
<1>8. QED
  BY <1>5, <1>6, <1>7 DEF Promised, Holds, Settled

-----------------------------------------------------------------------------
(* The straight-line pieces.                                               *)

LEMMA DispatchPromised ==
  ASSUME TypeInv, Private, Owned, Promised, NEW c \in Calls, NEW f \in Frame, Live(f),
         Fits(c, f), Follows(c, f.sid), NEW ss \in SessionState, Dispatch(c, f, ss)
  PROVE  Promised'
<1>1. "query" \in Points \ {"idle"} /\ "save_dispatch" \in Points \ {"idle"}
  BY DEF Points
<1>2. Dispatched(ss).state = "dispatched" /\ Dispatched(ss).rounds = 0
  BY DEF Dispatched, SessionState
<1>3. CASE Backend = "memory"
  BY <1>1, <1>3, SuspendPromised DEF Dispatch, Holds
<1>4. CASE Backend = "valkey"
  BY <1>1, <1>2, <1>4, SuspendPromised DEF Dispatch, Holds
<1>5. QED
  BY <1>3, <1>4, ConstantsOK

LEMMA TriagePromised ==
  ASSUME TypeInv, Private, Owned, Promised, NEW c \in Calls, NEW f \in Frame, Live(f),
         Fits(c, f), Follows(c, f.sid), NEW ss \in SessionState, Triage(c, f, ss)
  PROVE  Promised'
<1> DEFINE active == Detect[f.query] \cap Known(ss)
           open == Detect[f.query] \ Known(ss)
           fq == [f EXCEPT !.active = active, !.terms = open]
           fd == [f EXCEPT !.active = active, !.warned = (open # {})]
<1>1. Detect[f.query] \in SUBSET Terms
  BY ConstantsOK DEF Live
<1>2. fq \in Frame /\ Live(fq) /\ Fits(c, fq) /\ Follows(c, fq.sid)
  BY <1>1 DEF Frame, Live, Fits
<1>3. fd \in Frame /\ Live(fd) /\ Fits(c, fd) /\ Follows(c, fd.sid)
  BY <1>1 DEF Frame, Live, Fits
<1>4. "formulate" \in Points \ {"idle"} /\ Holds("formulate", ss)
  BY DEF Points, Holds
<1>5. CASE Suspend(c, "formulate", fq, ss, store)
  <2> HIDE DEF fq
  <2>1. QED
    BY <1>2, <1>4, <1>5, SuspendPromised
<1>6. CASE Dispatch(c, fd, ss)
  <2> HIDE DEF fd
  <2>1. QED
    BY <1>3, <1>6, DispatchPromised
<1>7. QED
  BY <1>5, <1>6 DEF Triage

LEMMA AskPromised ==
  ASSUME TypeInv, Private, Owned, Promised, NEW c \in Calls, NEW f \in Frame, Live(f),
         Fits(c, f), Follows(c, f.sid), NEW ss \in SessionState, Ask(c, f, ss)
  PROVE  Promised'
<1> DEFINE asked == Awaiting(ss, f.query, f.terms)
           h == [heap EXCEPT ![f.obj] = asked]
           st == [store EXCEPT ![f.sid] = f.obj]
<1>1. asked.state = "awaiting"
  BY DEF Awaiting, SessionState
<1>2. CASE Backend = "memory"
  <2>1. Return(c, f.sid, "clarify", asked.pending, h, st)
    BY <1>2 DEF Ask
  <2>2. \A d \in Calls \ {c} : Busy(d) => h[frame[d].obj] = heap[frame[d].obj]
    BY DEF Fits, Busy, TypeInv, TypeOK, FramesLive, Live
  <2>3. \A u \in Sessions \ {f.sid} :
          /\ st[u] = store[u]
          /\ st[u] # NoObject => h[st[u]] = heap[st[u]]
    BY DEF Fits, TypeInv, TypeOK, Live
  <2>4. st[f.sid] = f.obj /\ f.obj \in Objects /\ h[f.obj] = asked /\ f.sid \in Sessions
    BY DEF TypeInv, TypeOK, Live
  <2> HIDE DEF asked, h, st
  <2>5. QED
    BY <1>1, <1>2, <2>1, <2>2, <2>3, <2>4, ReturnPromised
<1>3. CASE Backend = "valkey"
  <2>1. "save_question" \in Points \ {"idle"} /\ Holds("save_question", asked)
    BY <1>1, <1>3 DEF Points, Holds
  <2>2. Suspend(c, "save_question", f, asked, store)
    BY <1>3 DEF Ask
  <2> HIDE DEF asked
  <2>3. QED
    BY <2>1, <2>2, SuspendPromised
<1>4. QED
  BY <1>2, <1>3, ConstantsOK

\* A response that leaves the store and the objects as they are.
LEMMA PlainReturnPromised ==
  ASSUME TypeInv, Private, Owned, Promised, NEW c \in Calls, NEW s \in Sessions,
         Follows(c, s), NEW k, NEW about,
         k = "clarify" /\ store[s] # NoObject =>
           heap[store[s]].state = "awaiting" /\ heap[store[s]].pending = about,
         Return(c, s, k, about, heap, store)
  PROVE  Promised'
<1>1. store[s] # NoObject => store[s] \in Objects
  BY DEF TypeInv, TypeOK
<1>2. store[s] # NoObject /\ Backend = "valkey" => Settled(heap[store[s]])
  BY DEF Promised
<1>3. QED
  BY <1>1, <1>2, ReturnPromised

LEMMA RunningPromised ==
  ASSUME TypeInv, Owned, NEW c \in Calls, pc[c] # "idle"
  PROVE  /\ frame[c] \in Frame /\ Live(frame[c]) /\ Fits(c, frame[c])
         /\ Follows(c, frame[c].sid) /\ frame[c].sid \in Sessions
         /\ heap[frame[c].obj] \in SessionState
  BY RunningType, RunningFits DEF Follows, Live, Busy

LEMMA RaisePromised ==
  ASSUME TypeInv, Private, Owned, Promised, NEW c \in Calls, pc[c] # "idle",
         NEW k \in {"failed", "illegal"}, Raise(c, k)
  PROVE  Promised'
  BY RunningPromised, PlainReturnPromised DEF Raise

LEMMA LearnTermPromised ==
  ASSUME TypeInv, Private, Owned, Promised, NEW c \in Calls, pc[c] # "idle",
         NEW t \in Terms, NEW rest \in SUBSET Terms, LearnTerm(c, t, rest)
  PROVE  Promised'
<1> DEFINE f == [frame[c] EXCEPT !.todo = rest]
           ss == [heap[frame[c].obj] EXCEPT !.resolved = @ \cup {t}]
<1>1. /\ f \in Frame /\ Live(f) /\ Fits(c, f) /\ Follows(c, f.sid)
      /\ f.obj = frame[c].obj
  BY RunningPromised DEF Frame, Live, Fits
<1>2. "learn" \in Points \ {"idle"} /\ Holds("learn", ss)
  BY DEF Points, Holds
<1>3. Suspend(c, "learn", f, ss, store)
  BY <1>1 DEF LearnTerm
<1> HIDE DEF f, ss
<1>4. QED
  BY <1>1, <1>2, <1>3, SuspendPromised

LEMMA AfterResolvingPromised ==
  ASSUME TypeInv, Private, Owned, Promised, NEW c \in Calls, pc[c] # "idle",
         AfterResolving(c)
  PROVE  Promised'
<1> DEFINE f == frame[c]
           ss == heap[f.obj]
           fe == [f EXCEPT !.active = @ \cup (f.terms \cap ss.resolved)]
           sr == [ss EXCEPT !.state = "resolved"]
<1>1. sr \in SessionState
  BY RunningPromised DEF SessionState, States
<1>2. fe \in Frame /\ Live(fe) /\ Fits(c, fe) /\ Follows(c, fe.sid)
  BY RunningPromised DEF Frame, Live, Fits
<1>3. CASE Raise(c, "illegal")
  BY <1>3, RaisePromised
<1>4. CASE Triage(c, f, sr)
  BY <1>1, <1>4, RunningPromised, TriagePromised
<1>5. CASE Dispatch(c, fe, sr)
  <2> HIDE DEF fe
  <2>1. QED
    BY <1>1, <1>2, <1>5, DispatchPromised
<1>6. QED
  BY <1>3, <1>4, <1>5 DEF AfterResolving

\* setex: what is stored is what the call holds.
LEMMA SavedPromised ==
  ASSUME TypeInv, Private, Owned, Promised, NEW c \in Calls, Saved(c)
  PROVE  Promised'
<1> DEFINE f == frame[c]
           ss == heap[f.obj]
<1>1. pc[c] \in {"save_question", "save_dispatch"} /\ pc[c] # "idle"
  BY DEF Saved
<1>2. Holds(pc[c], ss) /\ Backend = "valkey" /\ f.sid \in Sessions /\ Follows(c, f.sid)
  BY <1>1, RunningPromised DEF Promised, Holds
<1>3. PICK o \in Slot(f.sid) :
        LET st == [store EXCEPT ![f.sid] = o]
            h  == [heap EXCEPT ![o] = ss]
        IN  IF pc[c] = "save_question"
            THEN Return(c, f.sid, "clarify", ss.pending, h, st)
            ELSE /\ pc' = [pc EXCEPT ![c] = "query"]
                 /\ store' = st
                 /\ heap' = h
                 /\ UNCHANGED <<frame, host>>
  BY DEF Saved
<1> DEFINE st == [store EXCEPT ![f.sid] = o]
           h  == [heap EXCEPT ![o] = ss]
<1>4. o \in Objects /\ h[o] = ss /\ st[f.sid] = o
  BY <1>2 DEF Slot, Free, TypeInv, TypeOK
<1>5. \A d \in Calls : Busy(d) => frame[d].obj # o
  BY <1>2 DEF Slot, Free, Owned
<1>6. \A d \in Calls \ {c} : Busy(d) => h[frame[d].obj] = heap[frame[d].obj]
  BY <1>5 DEF Busy, TypeInv, TypeOK, FramesLive, Live
<1>7. \A u \in Sessions \ {f.sid} :
        /\ st[u] = store[u]
        /\ st[u] # NoObject => h[st[u]] = heap[st[u]]
  BY <1>2 DEF Slot, Free, Owned, TypeInv, TypeOK
<1>8. Settled(ss)
  BY <1>1, <1>2 DEF Holds, Settled
<1>9. CASE pc[c] = "save_question"
  <2>1. Return(c, f.sid, "clarify", ss.pending, h, st) /\ ss.state = "awaiting"
    BY <1>2, <1>3, <1>9 DEF Holds
  <2> HIDE DEF st, h
  <2>2. QED
    BY <1>2, <1>4, <1>6, <1>7, <1>8, <2>1, ReturnPromised
<1>10. CASE pc[c] = "save_dispatch"
  <2>1. /\ pc' = [pc EXCEPT ![c] = "query"] /\ store' = st /\ heap' = h
        /\ frame' = frame /\ host' = host
    BY <1>3, <1>10
  <2>2. ASSUME NEW d \in Calls
        PROVE  Holds(pc'[d], heap'[frame'[d].obj])
    <3>1. CASE d = c
      BY <2>1, <3>1 DEF Holds, TypeInv, TypeOK
    <3>2. CASE d # c
      <4>1. pc'[d] = pc[d] /\ frame'[d] = frame[d]
        BY <2>1, <3>2 DEF TypeInv, TypeOK
      <4> HIDE DEF h
      <4>2. QED
        BY <1>6, <2>1, <3>2, <4>1 DEF Promised, Holds, Busy
    <3>3. QED
      BY <3>1, <3>2
  <2>3. \A u \in Sessions : store'[u] # NoObject => Settled(heap'[store'[u]])
    <3> HIDE DEF st, h
    <3>1. QED
      BY <1>2, <1>4, <1>7, <1>8, <2>1 DEF Promised
  <2>4. AskedSessionAwaits'
    <3> SUFFICES ASSUME Sequential, NEW u \in Sessions, host'[u].kind = "clarify",
                        InFlight(u)' = {}, store'[u] # NoObject
                 PROVE  /\ heap'[store'[u]].state = "awaiting"
                        /\ heap'[store'[u]].pending = host'[u].about
      BY DEF AskedSessionAwaits, Sequential
    <3>1. u # f.sid /\ InFlight(u) = {}
      BY <2>1 DEF InFlight
    <3> HIDE DEF st, h
    <3>2. QED
      BY <1>7, <2>1, <3>1 DEF Promised, AskedSessionAwaits
  <2>5. QED
    BY <2>2, <2>3, <2>4 DEF Promised, Holds, Settled
<1>11. QED
  BY <1>1, <1>9, <1>10

-----------------------------------------------------------------------------
(* The steps.                                                              *)

LEMMA CallPromised ==
  ASSUME TypeInv, Private, Owned, Promised, NEW c \in Calls,
         Progress(c) \/ UserAnswers(c) \/ UserDeclines(c)
  PROVE  Promised'
<1> DEFINE f == frame[c]
           ss == heap[f.obj]
<1>1. CASE AnswerResolved(c)
  <2>1. pc[c] # "idle"
    BY <1>1 DEF AnswerResolved
  <2>2. CASE AfterResolving(c)
    BY <2>1, <2>2, AfterResolvingPromised
  <2>3. ASSUME NEW R \in SUBSET Terms, NEW t \in R, LearnTerm(c, t, R \ {t})
        PROVE  Promised'
    BY <2>1, <2>3, LearnTermPromised
  <2>4. QED
    BY <1>1, <2>2, <2>3 DEF AnswerResolved
<1>2. CASE ConventionWritten(c)
  <2>1. pc[c] # "idle" /\ f.todo \in SUBSET Terms
    BY <1>2, RunningPromised DEF ConventionWritten, Frame
  <2>2. CASE AfterResolving(c)
    BY <2>1, <2>2, AfterResolvingPromised
  <2>3. ASSUME NEW t \in f.todo, LearnTerm(c, t, f.todo \ {t})
        PROVE  Promised'
    BY <2>1, <2>3, LearnTermPromised
  <2>4. QED
    BY <1>2, <2>2, <2>3 DEF ConventionWritten
<1>3. CASE ResolveFails(c) \/ ConventionWriteFails(c) \/ SaveFails(c)
  BY <1>3, RaisePromised DEF ResolveFails, ConventionWriteFails, SaveFails
<1>4. CASE QuestionFormulated(c)
  <2>1. pc[c] # "idle"
    BY <1>4 DEF QuestionFormulated
  <2>2. Counted(ss) \in SessionState
    BY <2>1, RunningType DEF Counted, SessionState
  <2>3. "elicit" \in Points \ {"idle"} /\ Holds("elicit", Counted(ss))
    BY DEF Points, Holds
  <2>4. CASE Suspend(c, "elicit", f, Counted(ss), store)
    BY <2>1, <2>3, <2>4, RunningPromised, SuspendPromised
  <2>5. CASE Ask(c, f, Counted(ss))
    BY <2>1, <2>2, <2>5, RunningPromised, AskPromised
  <2>6. QED
    BY <1>4, <2>4, <2>5 DEF QuestionFormulated
<1>5. CASE FormulateFails(c)
  <2> DEFINE fw == [f EXCEPT !.warned = TRUE]
  <2>1. pc[c] # "idle" /\ Dispatch(c, fw, ss)
    BY <1>5 DEF FormulateFails
  <2>2. f \in Frame /\ Live(f) /\ Fits(c, f) /\ Follows(c, f.sid) /\ ss \in SessionState
    BY <2>1, RunningPromised
  <2>3. /\ fw \in Frame
        /\ fw.sid = f.sid /\ fw.obj = f.obj /\ fw.query = f.query
    BY <2>2 DEF Frame
  <2>4. Live(fw) /\ Fits(c, fw) /\ Follows(c, fw.sid)
    BY <2>2, <2>3 DEF Live, Fits
  <2> HIDE DEF fw, ss
  <2>5. QED
    BY <2>1, <2>2, <2>3, <2>4, DispatchPromised
<1>6. CASE Saved(c)
  BY <1>6, SavedPromised
<1>7. CASE BackendReturns(c)
  <2>1. pc[c] # "idle"
    BY <1>7 DEF BackendReturns
  <2>2. QED
    BY <1>7, <2>1, RunningPromised, PlainReturnPromised DEF BackendReturns
<1>8. CASE UserAnswers(c)
  <2> DEFINE fe == [f EXCEPT !.via = "elicit"]
  <2>1. pc[c] # "idle" /\ Suspend(c, "resolve", fe, ss, store)
    BY <1>8 DEF UserAnswers
  <2>2. fe \in Frame /\ Live(fe) /\ Fits(c, fe) /\ Follows(c, fe.sid)
    BY <2>1, RunningPromised DEF Frame, Live, Fits
  <2>3. "resolve" \in Points \ {"idle"} /\ Holds("resolve", ss)
    BY DEF Points, Holds
  <2> HIDE DEF fe
  <2>4. QED
    BY <2>1, <2>2, <2>3, SuspendPromised
<1>9. CASE UserDeclines(c)
  <2>1. pc[c] # "idle" /\ Ask(c, f, ss)
    BY <1>9 DEF UserDeclines
  <2>2. QED
    BY <2>1, RunningPromised, AskPromised
<1>10. QED
  BY <1>1, <1>2, <1>3, <1>4, <1>5, <1>6, <1>7, <1>8, <1>9 DEF Progress

LEMMA BeginPromised ==
  ASSUME TypeInv, Private, Owned, Promised, CallBegins
  PROVE  Promised'
<1> PICK c \in Calls, s \in Sessions, q \in Queries :
      \/ ReceiveAnswer(c, s, q)
      \/ ReceiveRepeat(c, s, q)
      \/ \E answer \in BOOLEAN : ReceiveQuery(c, s, q, answer)
  BY DEF CallBegins
<1>1. Stored(s) \in SessionState
  BY NewTypes DEF TypeInv, TypeOK, Stored
<1>2. /\ Overlap \/ InFlight(s) = {}
      /\ pc[c] = "idle" /\ Follows(c, s)
  BY DEF ReceiveAnswer, ReceiveRepeat, ReceiveQuery, Arrives, Follows
<1>3. ASSUME NEW o \in Handed(s) \cup Free, NEW r \in Queries
      PROVE  /\ Locals(s, o, r) \in Frame /\ Live(Locals(s, o, r))
             /\ Fits(c, Locals(s, o, r)) /\ Locals(s, o, r).sid = s
  <2>1. Locals(s, o, r).sid = s /\ Locals(s, o, r).obj = o
    BY DEF Locals
  <2>2. o \in Objects /\ Fits(c, Locals(s, o, r))
    BY <1>2, <2>1, HandedFits
  <2>3. QED
    BY <2>1, <2>2, NewTypes DEF Locals, Frame, Live
<1>4. CASE ReceiveAnswer(c, s, q)
  <2> DEFINE asked == IF Stored(s).pending.query # NoQuery
                      THEN Stored(s).pending.query ELSE q
             g(o) == Locals(s, o, asked)
             f(o) == [g(o) EXCEPT !.terms = Stored(s).pending.terms]
  <2>1. PICK o \in Handed(s) : Suspend(c, "resolve", f(o), Stored(s), store)
    BY <1>4 DEF ReceiveAnswer
  <2>2. asked \in Queries /\ Stored(s).pending.terms \in SUBSET Terms
    BY <1>1 DEF SessionState, Question
  <2>3. g(o) \in Frame /\ Live(g(o)) /\ Fits(c, g(o)) /\ g(o).sid = s
    BY <1>3, <2>2
  <2>4. f(o) \in Frame /\ Live(f(o)) /\ Fits(c, f(o)) /\ Follows(c, f(o).sid)
    BY <1>2, <2>2, <2>3 DEF Frame, Live, Fits
  <2>5. "resolve" \in Points \ {"idle"} /\ Holds("resolve", Stored(s))
    BY DEF Points, Holds
  <2> HIDE DEF f, g
  <2>6. QED
    BY <2>1, <2>4, <2>5, SuspendPromised
<1>5. CASE ReceiveRepeat(c, s, q)
  <2>1. CASE Backend = "memory"
    <3>1. /\ Return(c, s, "clarify", Stored(s).pending, heap, store)
          /\ Stored(s).state = "awaiting"
      BY <1>5, <2>1 DEF ReceiveRepeat
    <3>2. store[s] # NoObject => Stored(s) = heap[store[s]]
      BY DEF Stored
    <3>3. QED
      BY <1>2, <3>1, <3>2, PlainReturnPromised
  <2>2. CASE Backend = "valkey"
    <3>1. PICK o \in Handed(s) :
            Suspend(c, "save_question", Locals(s, o, q), Stored(s), store)
      BY <1>5, <2>2 DEF ReceiveRepeat
    <3>2. "save_question" \in Points \ {"idle"} /\ Holds("save_question", Stored(s))
      BY <1>5, <2>2 DEF ReceiveRepeat, Points, Holds
    <3>3. QED
      BY <1>2, <1>3, <3>1, <3>2, SuspendPromised
  <2>3. QED
    BY <2>1, <2>2, ConstantsOK
<1>6. ASSUME NEW answer \in BOOLEAN, ReceiveQuery(c, s, q, answer)
      PROVE  Promised'
  <2>1. PICK o \in Handed(s) \cup Free, ss \in {Stored(s), NewSession} :
          Triage(c, Locals(s, o, q), ss)
    BY <1>6 DEF ReceiveQuery
  <2>2. ss \in SessionState
    BY <1>1, NewTypes
  <2>3. QED
    BY <1>2, <1>3, <2>1, <2>2, TriagePromised
<1>7. QED
  BY <1>4, <1>5, <1>6

LEMMA EnvironmentPromised ==
  ASSUME TypeInv, Private, Owned, Promised, Restart \/ \E s \in Sessions : Expire(s)
  PROVE  Promised'
<1>1. CASE Restart
  <2>1. \A c \in Calls : Holds(pc'[c], heap'[frame'[c].obj])
    BY <1>1 DEF Restart, Holds
  <2>2. ASSUME NEW s \in Sessions, store'[s] # NoObject
        PROVE  Backend = "valkey" /\ store'[s] = store[s] /\ heap'[store'[s]] = heap[store[s]]
    <3>1. Backend = "valkey" /\ store' = store
      BY <1>1, <2>2, ConstantsOK DEF Restart
    <3>2. heap' = Collected(heap, frame', store')
      BY <1>1 DEF Restart
    <3>3. store[s] \in Objects
      BY <2>2, <3>1 DEF TypeInv, TypeOK
    <3>4. QED
      BY <3>1, <3>2, <3>3 DEF Collected
  <2>3. Backend = "valkey" =>
          \A s \in Sessions : store'[s] # NoObject => Settled(heap'[store'[s]])
    BY <2>2 DEF Promised
  <2>4. AskedSessionAwaits'
    <3> SUFFICES ASSUME Sequential, NEW u \in Sessions, host'[u].kind = "clarify",
                        store'[u] # NoObject
                 PROVE  /\ heap'[store'[u]].state = "awaiting"
                        /\ heap'[store'[u]].pending = host'[u].about
      BY DEF AskedSessionAwaits, Sequential
    <3>1. host'[u] = host[u] /\ InFlight(u) = {}
      BY <1>1 DEF Restart
    <3>2. QED
      BY <2>2, <3>1 DEF Promised, AskedSessionAwaits
  <2>5. QED
    BY <2>1, <2>3, <2>4 DEF Promised, Holds, Settled
<1>2. ASSUME NEW s \in Sessions, Expire(s)
      PROVE  Promised'
  <2>1. /\ store' = [store EXCEPT ![s] = NoObject] /\ UNCHANGED <<pc, frame, host>>
        /\ heap' = Collected(heap, frame, store')
    BY <1>2 DEF Expire
  <2>2. \A u \in Sessions : store'[u] # NoObject =>
          store'[u] = store[u] /\ heap'[store'[u]] = heap[store[u]]
    BY <2>1 DEF Collected, TypeInv, TypeOK
  <2>3. \A c \in Calls : Busy(c) => heap'[frame[c].obj] = heap[frame[c].obj]
    BY <2>1 DEF Collected, Busy, TypeInv, FramesLive, Live
  <2>4. \A c \in Calls : Holds(pc'[c], heap'[frame'[c].obj])
    BY <2>1, <2>3 DEF Promised, Holds, Busy
  <2>5. AskedSessionAwaits'
    BY <2>1, <2>2 DEF Promised, AskedSessionAwaits, Sequential, InFlight
  <2>6. QED
    BY <2>2, <2>4, <2>5 DEF Promised, Holds, Settled
<1>3. QED
  BY <1>1, <1>2

LEMMA PromiseInit == Init => PromiseInv
<1> SUFFICES ASSUME Init
             PROVE  Promised
  BY RoundsInit DEF PromiseInv
<1>1. \A c \in Calls : Holds(pc[c], heap[frame[c].obj])
  BY DEF Init, Holds
<1>2. QED
  BY <1>1 DEF Init, Promised, AskedSessionAwaits

LEMMA PromiseStep == PromiseInv /\ [Next]_vars => PromiseInv'
<1> SUFFICES ASSUME TypeInv, Private, Owned, Promised, [Next]_vars
             PROVE  Promised'
  BY RoundsStep DEF PromiseInv, RoundsInv, Private, Sequential
<1>1. CASE UNCHANGED vars
  BY <1>1 DEF vars, Promised, Holds, Settled, AskedSessionAwaits, Sequential, InFlight
<1>2. CASE Next
  BY <1>2, BeginPromised, CallPromised, EnvironmentPromised DEF Next
<1>3. QED
  BY <1>1, <1>2

LEMMA PromiseInvariant == Spec => []PromiseInv
  BY PromiseInit, PromiseStep, PTL DEF Spec

-----------------------------------------------------------------------------
\* A host that sends the calls of a session one after the other and was asked a
\* question finds the session awaiting exactly that question, or gone.
THEOREM QuestionsAreAwaited == Spec => []AskedSessionAwaits
<1>1. PromiseInv => AskedSessionAwaits
  BY DEF PromiseInv, Private, Promised, AskedSessionAwaits
<1>2. QED
  BY <1>1, PromiseInvariant, PTL

\* What another instance reads from Valkey is a session that awaits its question or
\* whose query was dispatched with its rounds reset, never one in between.
THEOREM ValkeyHoldsSettled == Spec => []StoredIsSettled
<1>1. PromiseInv /\ SessionInv => StoredIsSettled
  <2> SUFFICES ASSUME PromiseInv, SessionInv, Backend = "valkey",
                      NEW s \in Sessions, store[s] # NoObject
               PROVE  LET ss == heap[store[s]]
                      IN  \/ ss.state = "awaiting" /\ IsPending(ss)
                          \/ ss.state = "dispatched" /\ ss.rounds = 0
    BY DEF StoredIsSettled
  <2>1. store[s] \in Objects /\ Settled(heap[store[s]])
    BY DEF PromiseInv, Private, Promised, SessionInv, TypeInv, TypeOK
  <2>2. QED
    BY <2>1 DEF Settled, SessionInv, Coherent
<1>2. QED
  BY <1>1, PromiseInvariant, SessionInvariant, PTL
=============================================================================
