------------------------ MODULE ClarificationProofs ------------------------
(***************************************************************************)
(* Safety of the clarification loop, for any sets of calls, sessions,      *)
(* queries and terms, any limit on rounds, either session backend, with or *)
(* without elicitation, and whatever the hosts and the environment do.     *)
(***************************************************************************)
EXTENDS Clarification, TLAPS

USE DEF NoQuestion, NewSession, NoFrame

-----------------------------------------------------------------------------
(* Types.  A coroutine that is suspended works on a session object, for a  *)
(* query that was really sent; an idle one has no locals.                  *)

Live(f) == f.sid \in Sessions /\ f.obj \in Objects /\ f.query \in Queries

FramesLive == \A c \in Calls : IF pc[c] = "idle" THEN frame[c] = NoFrame
                               ELSE Live(frame[c])

TypeInv == TypeOK /\ FramesLive

LEMMA CollectedType ==
  ASSUME NEW h \in [Objects -> SessionState], NEW fr, NEW st
  PROVE  Collected(h, fr, st) \in [Objects -> SessionState]
  BY DEF Collected, SessionState, Question, States

LEMMA NewTypes == NewSession \in SessionState /\ NoFrame \in Frame
  BY DEF SessionState, Question, States, Frame

LEMMA SuspendType ==
  ASSUME TypeInv, NEW c \in Calls, NEW p \in Points \ {"idle"},
         NEW f \in Frame, Live(f), NEW ss \in SessionState,
         NEW st \in [Sessions -> Objects \cup {NoObject}],
         conv' \in SUBSET Terms, Suspend(c, p, f, ss, st)
  PROVE  TypeInv'
<1>1. [heap EXCEPT ![f.obj] = ss] \in [Objects -> SessionState]
  BY DEF TypeInv, TypeOK
<1>2. heap' \in [Objects -> SessionState]
  BY <1>1, CollectedType DEF Suspend
<1>3. TypeOK'
  BY <1>2 DEF TypeInv, TypeOK, Suspend
<1>4. FramesLive'
  BY DEF TypeInv, TypeOK, FramesLive, Suspend, Live
<1>5. QED
  BY <1>3, <1>4 DEF TypeInv

LEMMA ReturnType ==
  ASSUME TypeInv, NEW c \in Calls, NEW s \in Sessions,
         NEW k \in {"done", "failed", "illegal", "clarify", "rephrase"},
         NEW about \in Question, NEW h \in [Objects -> SessionState],
         NEW st \in [Sessions -> Objects \cup {NoObject}],
         conv' \in SUBSET Terms, Return(c, s, k, about, h, st)
  PROVE  TypeInv'
<1>1. heap' \in [Objects -> SessionState]
  BY CollectedType DEF Return
<1>2. [kind |-> k, about |-> about] \in Response
  BY DEF Response
<1>3. TypeOK'
  BY <1>1, <1>2, NewTypes DEF TypeInv, TypeOK, Return, Points
<1>4. FramesLive'
  BY DEF TypeInv, TypeOK, FramesLive, Return, Live
<1>5. QED
  BY <1>3, <1>4 DEF TypeInv

LEMMA RaiseType ==
  ASSUME TypeInv, NEW c \in Calls, pc[c] # "idle", NEW k \in {"failed", "illegal"},
         conv' \in SUBSET Terms, Raise(c, k)
  PROVE  TypeInv'
<1>1. frame[c].sid \in Sessions /\ NoQuestion \in Question
  BY DEF TypeInv, FramesLive, Live, Question
<1>2. QED
  BY <1>1, ReturnType DEF TypeInv, TypeOK, Raise

LEMMA DispatchType ==
  ASSUME TypeInv, NEW c \in Calls, NEW f \in Frame, Live(f),
         NEW ss \in SessionState, conv' \in SUBSET Terms, Dispatch(c, f, ss)
  PROVE  TypeInv'
<1>1. Dispatched(ss) \in SessionState
  BY DEF Dispatched, SessionState, Question, States
<1>2. [store EXCEPT ![f.sid] = f.obj] \in [Sessions -> Objects \cup {NoObject}]
  BY DEF TypeInv, TypeOK, Live
<1>3. store \in [Sessions -> Objects \cup {NoObject}]
  BY DEF TypeInv, TypeOK
<1>4. "query" \in Points \ {"idle"} /\ "save_dispatch" \in Points \ {"idle"}
  BY DEF Points
<1>5. CASE Backend = "memory"
  BY <1>1, <1>2, <1>4, <1>5, SuspendType DEF Dispatch
<1>6. CASE Backend # "memory"
  BY <1>1, <1>3, <1>4, <1>6, SuspendType DEF Dispatch
<1>7. QED
  BY <1>5, <1>6

LEMMA TriageType ==
  ASSUME TypeInv, NEW c \in Calls, NEW f \in Frame, Live(f),
         NEW ss \in SessionState, conv' \in SUBSET Terms, Triage(c, f, ss)
  PROVE  TypeInv'
<1> DEFINE active == Detect[f.query] \cap Known(ss)
           open == Detect[f.query] \ Known(ss)
<1>1. Detect[f.query] \in SUBSET Terms
  BY ConstantsOK DEF Live
<1>2. active \in SUBSET Terms /\ open \in SUBSET Terms
  BY <1>1
<1>3. store \in [Sessions -> Objects \cup {NoObject}]
  BY DEF TypeInv, TypeOK
<1>4. CASE Suspend(c, "formulate", [f EXCEPT !.active = active, !.terms = open], ss, store)
  <2>1. /\ [f EXCEPT !.active = active, !.terms = open] \in Frame
        /\ Live([f EXCEPT !.active = active, !.terms = open])
    BY <1>2 DEF Frame, Live
  <2>2. "formulate" \in Points \ {"idle"}
    BY DEF Points
  <2>3. QED
    BY <1>3, <1>4, <2>1, <2>2, SuspendType
<1>5. CASE Dispatch(c, [f EXCEPT !.active = active, !.warned = (open # {})], ss)
  <2>1. /\ [f EXCEPT !.active = active, !.warned = (open # {})] \in Frame
        /\ Live([f EXCEPT !.active = active, !.warned = (open # {})])
    BY <1>2 DEF Frame, Live
  <2>2. QED
    BY <1>5, <2>1, DispatchType
<1>6. QED
  BY <1>4, <1>5 DEF Triage

LEMMA AskType ==
  ASSUME TypeInv, NEW c \in Calls, NEW f \in Frame, Live(f),
         NEW ss \in SessionState, conv' \in SUBSET Terms, Ask(c, f, ss)
  PROVE  TypeInv'
<1> DEFINE asked == Awaiting(ss, f.query, f.terms)
<1>1. asked \in SessionState /\ asked.pending \in Question
  BY DEF Awaiting, SessionState, Question, States, Frame, Live
<1>2. /\ store \in [Sessions -> Objects \cup {NoObject}]
      /\ [store EXCEPT ![f.sid] = f.obj] \in [Sessions -> Objects \cup {NoObject}]
      /\ [heap EXCEPT ![f.obj] = asked] \in [Objects -> SessionState]
  BY <1>1 DEF TypeInv, TypeOK, Live
<1>3. CASE Backend = "memory"
  BY <1>1, <1>2, <1>3, ReturnType DEF Ask, Live
<1>4. CASE Backend # "memory"
  <2>1. "save_question" \in Points \ {"idle"}
    BY DEF Points
  <2>2. QED
    BY <1>1, <1>2, <1>4, <2>1, SuspendType DEF Ask
<1>5. QED
  BY <1>3, <1>4

\* What a call starts from.
LEMMA LoadedType ==
  ASSUME TypeInv, NEW s \in Sessions, NEW q \in Queries, NEW o \in Objects
  PROVE  /\ Stored(s) \in SessionState
         /\ Handed(s) \subseteq Objects /\ Slot(s) \subseteq Objects
         /\ Locals(s, o, q) \in Frame /\ Live(Locals(s, o, q))
<1>1. Stored(s) \in SessionState
  BY NewTypes DEF TypeInv, TypeOK, Stored
<1>2. Handed(s) \subseteq Objects /\ Slot(s) \subseteq Objects
  BY DEF TypeInv, TypeOK, Handed, Slot, Free
<1>3. Locals(s, o, q) \in Frame /\ Live(Locals(s, o, q))
  BY NewTypes DEF Locals, Frame, Live
<1>4. QED
  BY <1>1, <1>2, <1>3

\* What a suspended call goes on with.
LEMMA RunningType ==
  ASSUME TypeInv, NEW c \in Calls, pc[c] # "idle"
  PROVE  /\ frame[c] \in Frame /\ Live(frame[c])
         /\ heap[frame[c].obj] \in SessionState
         /\ store \in [Sessions -> Objects \cup {NoObject}]
         /\ heap \in [Objects -> SessionState]
         /\ conv \in SUBSET Terms
<1>1. frame[c] \in Frame /\ Live(frame[c])
  BY DEF TypeInv, TypeOK, FramesLive
<1>2. QED
  BY <1>1 DEF TypeInv, TypeOK, Live

LEMMA LearnTermType ==
  ASSUME TypeInv, NEW c \in Calls, pc[c] # "idle", NEW t \in Terms,
         NEW rest \in SUBSET Terms, LearnTerm(c, t, rest)
  PROVE  TypeInv'
<1>1. /\ [frame[c] EXCEPT !.todo = rest] \in Frame
      /\ Live([frame[c] EXCEPT !.todo = rest])
  BY RunningType DEF Frame, Live
<1>2. [heap[frame[c].obj] EXCEPT !.resolved = @ \cup {t}] \in SessionState
  BY RunningType DEF SessionState
<1>3. conv' \in SUBSET Terms /\ "learn" \in Points \ {"idle"}
  BY RunningType DEF LearnTerm, Points
<1>4. [frame[c] EXCEPT !.todo = rest].obj = frame[c].obj
  BY RunningType DEF Frame
<1>5. QED
  BY <1>1, <1>2, <1>3, <1>4, RunningType, SuspendType DEF LearnTerm

LEMMA AfterResolvingType ==
  ASSUME TypeInv, NEW c \in Calls, pc[c] # "idle", conv' \in SUBSET Terms,
         AfterResolving(c)
  PROVE  TypeInv'
<1> DEFINE f == frame[c]
           ss == heap[f.obj]
           fe == [f EXCEPT !.active = @ \cup (f.terms \cap ss.resolved)]
           sr == [ss EXCEPT !.state = "resolved"]
<1>1. sr \in SessionState
  BY RunningType DEF SessionState, States
<1>2. fe \in Frame /\ Live(fe)
  BY RunningType DEF Frame, Live
<1>3. CASE Raise(c, "illegal")
  BY <1>3, RaiseType
<1>4. CASE Triage(c, f, sr)
  BY <1>1, <1>4, RunningType, TriageType
<1>5. CASE Dispatch(c, fe, sr)
  BY <1>1, <1>2, <1>5, DispatchType
<1>6. QED
  BY <1>3, <1>4, <1>5 DEF AfterResolving

LEMMA SavedType ==
  ASSUME TypeInv, NEW c \in Calls, Saved(c)
  PROVE  TypeInv'
<1> DEFINE f == frame[c]
           ss == heap[f.obj]
<1>1. pc[c] # "idle" /\ conv' \in SUBSET Terms
  BY DEF Saved, TypeInv, TypeOK
<1>2. f.sid \in Sessions /\ f.query \in Queries /\ ss \in SessionState
  BY <1>1, RunningType DEF Live
<1>3. PICK o \in Slot(f.sid) :
        LET st == [store EXCEPT ![f.sid] = o]
            h  == [heap EXCEPT ![o] = ss]
        IN  IF pc[c] = "save_question"
            THEN Return(c, f.sid, "clarify", ss.pending, h, st)
            ELSE /\ pc' = [pc EXCEPT ![c] = "query"]
                 /\ store' = st
                 /\ heap' = h
                 /\ UNCHANGED <<frame, host>>
  BY DEF Saved
<1>4. o \in Objects
  BY <1>2 DEF Slot, Free, TypeInv, TypeOK
<1>5. /\ [store EXCEPT ![f.sid] = o] \in [Sessions -> Objects \cup {NoObject}]
      /\ [heap EXCEPT ![o] = ss] \in [Objects -> SessionState]
  BY <1>1, <1>2, <1>4, RunningType
<1>6. CASE pc[c] = "save_question"
  <2>1. ss.pending \in Question
    BY <1>2 DEF SessionState
  <2>2. QED
    BY <1>1, <1>2, <1>3, <1>5, <1>6, <2>1, ReturnType
<1>7. CASE pc[c] # "save_question"
  BY <1>1, <1>3, <1>5, <1>7 DEF TypeInv, TypeOK, FramesLive, Points
<1>8. QED
  BY <1>6, <1>7

\* The steps of a call that has begun.
LEMMA CallType ==
  ASSUME TypeInv, NEW c \in Calls, Progress(c) \/ UserAnswers(c) \/ UserDeclines(c)
  PROVE  TypeInv'
<1> DEFINE f == frame[c]
           ss == heap[f.obj]
<1>1. CASE AnswerResolved(c)
  <2>1. pc[c] # "idle" /\ conv \in SUBSET Terms
    BY <1>1 DEF AnswerResolved, TypeInv, TypeOK
  <2>2. CASE AfterResolving(c) /\ UNCHANGED conv
    BY <2>1, <2>2, AfterResolvingType
  <2>3. ASSUME NEW R \in SUBSET Terms, NEW t \in R, LearnTerm(c, t, R \ {t})
        PROVE  TypeInv'
    <3>1. f.terms \in SUBSET Terms
      BY <2>1, RunningType DEF Frame
    <3>2. QED
      BY <2>1, <2>3, <3>1, LearnTermType
  <2>4. QED
    BY <1>1, <2>2, <2>3 DEF AnswerResolved
<1>2. CASE ResolveFails(c)
  BY <1>2, RaiseType DEF ResolveFails, TypeInv, TypeOK
<1>3. CASE ConventionWritten(c)
  <2>1. pc[c] # "idle" /\ conv \in SUBSET Terms
    BY <1>3 DEF ConventionWritten, TypeInv, TypeOK
  <2>2. CASE AfterResolving(c) /\ UNCHANGED conv
    BY <2>1, <2>2, AfterResolvingType
  <2>3. ASSUME NEW t \in f.todo, LearnTerm(c, t, f.todo \ {t})
        PROVE  TypeInv'
    <3>1. f.todo \in SUBSET Terms
      BY <2>1, RunningType DEF Frame
    <3>2. QED
      BY <2>1, <2>3, <3>1, LearnTermType
  <2>4. QED
    BY <1>3, <2>2, <2>3 DEF ConventionWritten
<1>4. CASE ConventionWriteFails(c)
  BY <1>4, RaiseType DEF ConventionWriteFails, TypeInv, TypeOK
<1>5. CASE QuestionFormulated(c)
  <2>1. pc[c] # "idle" /\ conv' \in SUBSET Terms
    BY <1>5 DEF QuestionFormulated, TypeInv, TypeOK
  <2>2. Counted(ss) \in SessionState
    BY <2>1, RunningType DEF Counted, SessionState
  <2>3. "elicit" \in Points \ {"idle"}
    BY DEF Points
  <2>4. CASE Elicit
    BY <1>5, <2>1, <2>2, <2>3, <2>4, RunningType, SuspendType DEF QuestionFormulated
  <2>5. CASE ~Elicit
    BY <1>5, <2>1, <2>2, <2>5, RunningType, AskType DEF QuestionFormulated
  <2>6. QED
    BY <2>4, <2>5
<1>6. CASE FormulateFails(c)
  <2>1. pc[c] # "idle" /\ conv' \in SUBSET Terms
    BY <1>6 DEF FormulateFails, TypeInv, TypeOK
  <2>2. [f EXCEPT !.warned = TRUE] \in Frame /\ Live([f EXCEPT !.warned = TRUE])
    BY <2>1, RunningType DEF Frame, Live
  <2>3. QED
    BY <1>6, <2>1, <2>2, RunningType, DispatchType DEF FormulateFails
<1>7. CASE Saved(c)
  BY <1>7, SavedType
<1>8. CASE SaveFails(c)
  BY <1>8, RaiseType DEF SaveFails, TypeInv, TypeOK
<1>9. CASE BackendReturns(c)
  <2>1. pc[c] # "idle" /\ conv' \in SUBSET Terms
    BY <1>9 DEF BackendReturns, TypeInv, TypeOK
  <2>2. /\ f.sid \in Sessions /\ NoQuestion \in Question
        /\ [query |-> f.query, terms |-> {}] \in Question
    BY <2>1, RunningType DEF Live, Question
  <2>3. QED
    BY <1>9, <2>1, <2>2, RunningType, ReturnType DEF BackendReturns
<1>10. CASE UserAnswers(c)
  <2>1. pc[c] # "idle" /\ conv' \in SUBSET Terms
    BY <1>10 DEF UserAnswers, TypeInv, TypeOK
  <2>2. [f EXCEPT !.via = "elicit"] \in Frame /\ Live([f EXCEPT !.via = "elicit"])
    BY <2>1, RunningType DEF Frame, Live
  <2>3. "resolve" \in Points \ {"idle"}
    BY DEF Points
  <2>4. QED
    BY <1>10, <2>1, <2>2, <2>3, RunningType, SuspendType DEF UserAnswers
<1>11. CASE UserDeclines(c)
  <2>1. pc[c] # "idle" /\ conv' \in SUBSET Terms
    BY <1>11 DEF UserDeclines, TypeInv, TypeOK
  <2>2. QED
    BY <1>11, <2>1, RunningType, AskType DEF UserDeclines
<1>12. QED
  BY <1>1, <1>2, <1>3, <1>4, <1>5, <1>6, <1>7, <1>8, <1>9, <1>10, <1>11 DEF Progress

LEMMA BeginType ==
  ASSUME TypeInv, CallBegins
  PROVE  TypeInv'
<1> PICK c \in Calls, s \in Sessions, q \in Queries :
      \/ ReceiveAnswer(c, s, q)
      \/ ReceiveRepeat(c, s, q)
      \/ \E answer \in BOOLEAN : ReceiveQuery(c, s, q, answer)
  BY DEF CallBegins
<1>1. /\ Stored(s) \in SessionState /\ store \in [Sessions -> Objects \cup {NoObject}]
      /\ heap \in [Objects -> SessionState] /\ conv \in SUBSET Terms
  BY NewTypes DEF TypeInv, TypeOK, Stored
<1>2. \A o \in Handed(s) \cup Free :
        o \in Objects /\ Locals(s, o, q) \in Frame /\ Live(Locals(s, o, q))
  BY NewTypes DEF TypeInv, TypeOK, Handed, Free, Locals, Frame, Live
<1>3. CASE ReceiveAnswer(c, s, q)
  <2> DEFINE asked == IF Stored(s).pending.query # NoQuery
                      THEN Stored(s).pending.query ELSE q
             f(o) == [Locals(s, o, asked) EXCEPT !.terms = Stored(s).pending.terms]
  <2>1. PICK o \in Handed(s) : Suspend(c, "resolve", f(o), Stored(s), store)
    BY <1>3 DEF ReceiveAnswer
  <2>2. asked \in Queries /\ Stored(s).pending.terms \in SUBSET Terms
    BY <1>1 DEF SessionState, Question
  <2>3. f(o) \in Frame /\ Live(f(o))
    BY <1>2, <2>2, NewTypes DEF Locals, Frame, Live
  <2>4. conv' \in SUBSET Terms /\ "resolve" \in Points \ {"idle"}
    BY <1>1, <1>3 DEF ReceiveAnswer, Points
  <2>5. QED
    BY <1>1, <2>1, <2>3, <2>4, SuspendType
<1>4. CASE ReceiveRepeat(c, s, q)
  <2>1. conv' \in SUBSET Terms /\ "save_question" \in Points \ {"idle"}
    BY <1>1, <1>4 DEF ReceiveRepeat, Points
  <2>2. CASE Backend = "memory"
    <3>1. Stored(s).pending \in Question
      BY <1>1 DEF SessionState
    <3>2. QED
      BY <1>1, <1>4, <2>1, <2>2, <3>1, ReturnType DEF ReceiveRepeat
  <2>3. CASE Backend # "memory"
    BY <1>1, <1>2, <1>4, <2>1, <2>3, SuspendType DEF ReceiveRepeat
  <2>4. QED
    BY <2>2, <2>3
<1>5. ASSUME NEW answer \in BOOLEAN, ReceiveQuery(c, s, q, answer)
      PROVE  TypeInv'
  <2>1. conv' \in SUBSET Terms
    BY <1>1, <1>5 DEF ReceiveQuery
  <2>2. PICK o \in Handed(s) \cup Free, ss \in {Stored(s), NewSession} :
          Triage(c, Locals(s, o, q), ss)
    BY <1>5 DEF ReceiveQuery
  <2>3. QED
    BY <1>1, <1>2, <2>1, <2>2, NewTypes, TriageType
<1>6. QED
  BY <1>3, <1>4, <1>5

LEMMA EnvironmentType ==
  ASSUME TypeInv, Restart \/ \E s \in Sessions : Expire(s)
  PROVE  TypeInv'
<1>1. CASE Restart
  <2>1. heap' \in [Objects -> SessionState]
    BY <1>1, CollectedType DEF Restart, TypeInv, TypeOK
  <2>2. [kind |-> "failed", about |-> NoQuestion] \in Response
    BY DEF Response, Question
  <2>3. TypeOK'
    BY <1>1, <2>1, <2>2, NewTypes DEF Restart, TypeInv, TypeOK, Points
  <2>4. FramesLive'
    BY <1>1 DEF Restart, FramesLive
  <2>5. QED
    BY <2>3, <2>4 DEF TypeInv
<1>2. ASSUME NEW s \in Sessions, Expire(s)
      PROVE  TypeInv'
  <2>1. heap' \in [Objects -> SessionState]
    BY <1>2, CollectedType DEF Expire, TypeInv, TypeOK
  <2>2. QED
    BY <1>2, <2>1 DEF Expire, TypeInv, TypeOK, FramesLive, Live
<1>3. QED
  BY <1>1, <1>2

LEMMA TypeStep == TypeInv /\ [Next]_vars => TypeInv'
<1> SUFFICES ASSUME TypeInv, [Next]_vars
             PROVE  TypeInv'
  OBVIOUS
<1>1. CASE UNCHANGED vars
  BY <1>1 DEF vars, TypeInv, TypeOK, FramesLive, Live
<1>2. CASE Next
  BY <1>2, BeginType, CallType, EnvironmentType DEF Next
<1>3. QED
  BY <1>1, <1>2

LEMMA TypeInit == Init => TypeInv
<1>1. Init => TypeOK
  BY NewTypes DEF Init, TypeOK, Points, Response, Question
<1>2. Init => FramesLive
  BY DEF Init, FramesLive
<1>3. QED
  BY <1>1, <1>2 DEF TypeInv

\* Every variable keeps its type, and a suspended coroutine always has its session
\* object at hand: handle_query never goes on without one.
THEOREM TypeCorrect == Spec => []TypeOK
<1>1. TypeInv => TypeOK
  BY DEF TypeInv
<1>2. QED
  BY <1>1, TypeInit, TypeStep, PTL DEF Spec

LEMMA TypeInvariant == Spec => []TypeInv
  BY TypeInit, TypeStep, PTL DEF Spec
=============================================================================
