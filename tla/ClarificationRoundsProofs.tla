--------------------- MODULE ClarificationRoundsProofs ---------------------
(***************************************************************************)
(* The limit on clarification rounds: first for every deployment in which  *)
(* a session object belongs to one call at a time, then for calls that     *)
(* share one.                                                              *)
(*                                                                         *)
(* With objects of its own the argument is this.  The limit is checked     *)
(* before an LLM call and the round counted after it, so RoundsBounded     *)
(* alone is not inductive: the invariant also says who may write an object *)
(* while a call is between the two (Owned), and that a call there still    *)
(* has a round left (Limited).                                             *)
(***************************************************************************)
EXTENDS ClarificationProofs, FiniteSetTheorems

USE DEF NoQuestion, NewSession, NoFrame

Private == Backend = "valkey" \/ Sequential

Busy(c) == pc[c] # "idle"

\* No two calls share an object; a stored object is only in the hands of a call of
\* its session, and with Valkey of none; no object is stored for two sessions.
Owned ==
  /\ \A c, d \in Calls : c # d /\ Busy(c) /\ Busy(d) =>
       /\ frame[c].obj # frame[d].obj
       /\ Sequential => frame[c].sid # frame[d].sid
  /\ \A c \in Calls, s \in Sessions : Busy(c) /\ store[s] = frame[c].obj =>
       Backend = "memory" /\ frame[c].sid = s
  /\ \A s, u \in Sessions : s # u /\ store[s] = store[u] => store[s] = NoObject

Limited ==
  /\ \A o \in Objects : heap[o].rounds <= MaxRounds
  /\ \A c \in Calls : pc[c] = "formulate" => MayAsk(heap[frame[c].obj])

RoundsInv == TypeInv /\ (Private => Owned /\ Limited)

\* Call c may work with locals f: no other call has its object or, when hosts do
\* not overlap calls, its session.
Fits(c, f) ==
  /\ \A d \in Calls \ {c} : Busy(d) =>
       frame[d].obj # f.obj /\ (Sequential => frame[d].sid # f.sid)
  /\ \A s \in Sessions : store[s] = f.obj => Backend = "memory" /\ f.sid = s

LEMMA RunningFits ==
  ASSUME TypeInv, Owned, NEW c \in Calls, Busy(c), NEW f,
         f.obj = frame[c].obj, f.sid = frame[c].sid
  PROVE  Fits(c, f)
  BY DEF Owned, Fits

LEMMA SuspendOwned ==
  ASSUME TypeInv, Private, Owned, Limited, NEW c \in Calls,
         NEW p \in Points \ {"idle"}, NEW f \in Frame, Live(f), Fits(c, f),
         NEW ss \in SessionState, ss.rounds <= MaxRounds, p = "formulate" => MayAsk(ss),
         NEW st \in [Sessions -> Objects \cup {NoObject}],
         \/ st = store
         \/ Backend = "memory" /\ st = [store EXCEPT ![f.sid] = f.obj],
         Suspend(c, p, f, ss, st)
  PROVE  Owned' /\ Limited'
<1>1. /\ pc' = [pc EXCEPT ![c] = p] /\ frame' = [frame EXCEPT ![c] = f]
      /\ store' = st
      /\ heap' = Collected([heap EXCEPT ![f.obj] = ss], frame', st)
  BY DEF Suspend
<1>2. \A d \in Calls : d # c => frame'[d] = frame[d] /\ Busy(d)' = Busy(d)
  BY <1>1 DEF TypeInv, TypeOK, Busy
<1>3. frame'[c] = f /\ pc'[c] = p /\ Busy(c)'
  BY <1>1 DEF TypeInv, TypeOK, Busy
<1>4. \A a, b \in Calls : a # b /\ Busy(a)' /\ Busy(b)' =>
        /\ frame'[a].obj # frame'[b].obj
        /\ Sequential => frame'[a].sid # frame'[b].sid
  BY <1>2, <1>3 DEF Owned, Fits
<1>5. \A d \in Calls, s \in Sessions : Busy(d)' /\ store'[s] = frame'[d].obj =>
        Backend = "memory" /\ frame'[d].sid = s
  <2> SUFFICES ASSUME NEW d \in Calls, NEW s \in Sessions, Busy(d)',
                      st[s] = frame'[d].obj
               PROVE  Backend = "memory" /\ frame'[d].sid = s
    BY <1>1
  <2>1. CASE st = store
    BY <1>2, <1>3, <2>1 DEF Owned, Fits
  <2>2. CASE Backend = "memory" /\ st = [store EXCEPT ![f.sid] = f.obj]
    BY <1>2, <1>3, <2>2 DEF Owned, Fits, Live, TypeInv, TypeOK
  <2>3. QED
    BY <2>1, <2>2
<1>6. \A s, u \in Sessions : s # u /\ store'[s] = store'[u] => store'[s] = NoObject
  BY <1>1 DEF Owned, Fits, Live, TypeInv, TypeOK
<1>7. \A o \in Objects : heap'[o].rounds <= MaxRounds
  BY <1>1, ConstantsOK DEF Limited, Collected, TypeInv, TypeOK
<1>8. \A d \in Calls : pc'[d] = "formulate" => MayAsk(heap'[frame'[d].obj])
  <2> SUFFICES ASSUME NEW d \in Calls, pc'[d] = "formulate"
               PROVE  MayAsk(heap'[frame'[d].obj])
    OBVIOUS
  <2>1. frame'[d].obj \in Objects
    BY <1>1, <1>2, <1>3 DEF TypeInv, TypeOK, FramesLive, Live
  <2>2. heap'[frame'[d].obj] = [heap EXCEPT ![f.obj] = ss][frame'[d].obj]
    BY <1>1, <2>1 DEF Collected
  <2>3. CASE d = c
    BY <1>3, <2>2, <2>3 DEF Live, TypeInv, TypeOK
  <2>4. CASE d # c
    BY <1>1, <1>2, <2>1, <2>2, <2>4 DEF Fits, Limited, Busy, TypeInv, TypeOK
  <2>5. QED
    BY <2>3, <2>4
<1>9. QED
  BY <1>4, <1>5, <1>6, <1>7, <1>8 DEF Owned, Limited, Busy, MayAsk

LEMMA ReturnOwned ==
  ASSUME TypeInv, Private, Owned, Limited, NEW c \in Calls, NEW s, NEW k, NEW about,
         NEW h \in [Objects -> SessionState],
         \A o \in Objects : h[o].rounds <= MaxRounds,
         \A d \in Calls \ {c} : pc[d] = "formulate" => MayAsk(h[frame[d].obj]),
         NEW st \in [Sessions -> Objects \cup {NoObject}],
         \A d \in Calls \ {c}, u \in Sessions : Busy(d) /\ st[u] = frame[d].obj =>
           Backend = "memory" /\ frame[d].sid = u,
         \A u, v \in Sessions : u # v /\ st[u] = st[v] => st[u] = NoObject,
         Return(c, s, k, about, h, st)
  PROVE  Owned' /\ Limited'
<1>1. /\ pc' = [pc EXCEPT ![c] = "idle"] /\ frame' = [frame EXCEPT ![c] = NoFrame]
      /\ store' = st /\ heap' = Collected(h, frame', st)
  BY DEF Return
<1>2. \A d \in Calls : d # c => frame'[d] = frame[d] /\ pc'[d] = pc[d]
  BY <1>1 DEF TypeInv, TypeOK
<1>3. pc'[c] = "idle"
  BY <1>1 DEF TypeInv, TypeOK
<1>4. Owned'
  BY <1>1, <1>2, <1>3 DEF Owned, Busy
<1>5. \A o \in Objects : heap'[o].rounds <= MaxRounds
  BY <1>1, ConstantsOK DEF Collected
<1>6. ASSUME NEW d \in Calls, pc'[d] = "formulate"
      PROVE  MayAsk(heap'[frame'[d].obj])
  <2>1. d # c /\ pc[d] = "formulate" /\ frame'[d] = frame[d]
    BY <1>2, <1>3, <1>6
  <2>2. frame[d].obj \in Objects
    BY <2>1 DEF TypeInv, TypeOK, FramesLive, Live
  <2>3. heap'[frame'[d].obj] = h[frame[d].obj]
    BY <1>1, <2>1, <2>2 DEF Collected
  <2>4. QED
    BY <2>1, <2>3
<1>7. QED
  BY <1>4, <1>5, <1>6 DEF Limited, MayAsk

LEMMA DispatchOwned ==
  ASSUME TypeInv, Private, Owned, Limited, NEW c \in Calls, NEW f \in Frame, Live(f),
         Fits(c, f), NEW ss \in SessionState, Dispatch(c, f, ss)
  PROVE  Owned' /\ Limited'
<1> DEFINE sd == Dispatched(ss)
<1>0. sd \in SessionState /\ sd.rounds = 0
  BY DEF Dispatched, SessionState, Question, States
<1>1. sd \in SessionState /\ sd.rounds <= MaxRounds
  BY <1>0, ConstantsOK
<1>2. /\ store \in [Sessions -> Objects \cup {NoObject}]
      /\ [store EXCEPT ![f.sid] = f.obj] \in [Sessions -> Objects \cup {NoObject}]
      /\ "query" \in Points \ {"idle"} /\ "save_dispatch" \in Points \ {"idle"}
  BY DEF TypeInv, TypeOK, Live, Points
<1>3. CASE Backend = "memory"
  BY <1>1, <1>2, <1>3, SuspendOwned DEF Dispatch
<1>4. CASE Backend # "memory"
  BY <1>1, <1>2, <1>4, SuspendOwned DEF Dispatch
<1>5. QED
  BY <1>3, <1>4

LEMMA TriageOwned ==
  ASSUME TypeInv, Private, Owned, Limited, NEW c \in Calls, NEW f \in Frame, Live(f),
         Fits(c, f), NEW ss \in SessionState, ss.rounds <= MaxRounds, Triage(c, f, ss)
  PROVE  Owned' /\ Limited'
<1> DEFINE active == Detect[f.query] \cap Known(ss)
           open == Detect[f.query] \ Known(ss)
           fq == [f EXCEPT !.active = active, !.terms = open]
           fd == [f EXCEPT !.active = active, !.warned = (open # {})]
<1>1. Detect[f.query] \in SUBSET Terms
  BY ConstantsOK DEF Live
<1>2. fq \in Frame /\ Live(fq) /\ Fits(c, fq)
  BY <1>1 DEF Frame, Live, Fits
<1>3. fd \in Frame /\ Live(fd) /\ Fits(c, fd)
  BY <1>1 DEF Frame, Live, Fits
<1>4. store \in [Sessions -> Objects \cup {NoObject}] /\ "formulate" \in Points \ {"idle"}
  BY DEF TypeInv, TypeOK, Points
<1>5. CASE MayAsk(ss) /\ Suspend(c, "formulate", fq, ss, store)
  BY <1>2, <1>4, <1>5, SuspendOwned
<1>6. CASE Dispatch(c, fd, ss)
  BY <1>3, <1>6, DispatchOwned
<1>7. QED
  BY <1>5, <1>6 DEF Triage

\* A session object a busy call writes back leaves the other calls' objects alone.
LEMMA OthersUntouched ==
  ASSUME TypeInv, Private, Owned, Limited, NEW c \in Calls, NEW f, Live(f), Fits(c, f),
         NEW ss \in SessionState, ss.rounds <= MaxRounds
  PROVE  LET h == [heap EXCEPT ![f.obj] = ss]
         IN  /\ h \in [Objects -> SessionState]
             /\ \A o \in Objects : h[o].rounds <= MaxRounds
             /\ \A d \in Calls \ {c} : pc[d] = "formulate" => MayAsk(h[frame[d].obj])
  BY DEF TypeInv, TypeOK, FramesLive, Live, Fits, Limited, Busy

LEMMA AskOwned ==
  ASSUME TypeInv, Private, Owned, Limited, NEW c \in Calls, NEW f \in Frame, Live(f),
         Fits(c, f), NEW ss \in SessionState, ss.rounds <= MaxRounds, Ask(c, f, ss)
  PROVE  Owned' /\ Limited'
<1> DEFINE asked == Awaiting(ss, f.query, f.terms)
           st == [store EXCEPT ![f.sid] = f.obj]
<1>1. asked \in SessionState /\ asked.rounds <= MaxRounds
  BY DEF Awaiting, SessionState, Question, States, Frame, Live
<1>2. CASE Backend = "memory"
  <2>1. st \in [Sessions -> Objects \cup {NoObject}]
    BY DEF TypeInv, TypeOK, Live
  <2>2. \A d \in Calls \ {c}, u \in Sessions : Busy(d) /\ st[u] = frame[d].obj =>
          Backend = "memory" /\ frame[d].sid = u
    BY <1>2 DEF TypeInv, TypeOK, Live, Fits, Owned
  <2>3. \A u, v \in Sessions : u # v /\ st[u] = st[v] => st[u] = NoObject
    BY DEF TypeInv, TypeOK, Live, Fits, Owned
  <2>4. Return(c, f.sid, "clarify", asked.pending, [heap EXCEPT ![f.obj] = asked], st)
    BY <1>2 DEF Ask
  <2>5. /\ [heap EXCEPT ![f.obj] = asked] \in [Objects -> SessionState]
        /\ \A o \in Objects : [heap EXCEPT ![f.obj] = asked][o].rounds <= MaxRounds
        /\ \A d \in Calls \ {c} : pc[d] = "formulate" =>
             MayAsk([heap EXCEPT ![f.obj] = asked][frame[d].obj])
    <3> HIDE DEF asked
    <3> QED
      BY <1>1, OthersUntouched
  <2> HIDE DEF asked, st
  <2>6. QED
    BY <2>1, <2>2, <2>3, <2>4, <2>5, ReturnOwned, ZenonT(60)
<1>3. CASE Backend # "memory"
  <2>1. /\ store \in [Sessions -> Objects \cup {NoObject}]
        /\ "save_question" \in Points \ {"idle"}
    BY DEF TypeInv, TypeOK, Points
  <2>2. QED
    BY <1>1, <1>3, <2>1, SuspendOwned DEF Ask
<1>4. QED
  BY <1>2, <1>3

\* A response or an exception that leaves the store and the objects as they are.
LEMMA PlainReturnOwned ==
  ASSUME TypeInv, Private, Owned, Limited, NEW c \in Calls, NEW s, NEW k, NEW about,
         Return(c, s, k, about, heap, store)
  PROVE  Owned' /\ Limited'
<1>1. /\ heap \in [Objects -> SessionState]
      /\ store \in [Sessions -> Objects \cup {NoObject}]
  BY DEF TypeInv, TypeOK
<1>2. QED
  BY <1>1, ReturnOwned DEF Owned, Limited

LEMMA RaiseOwned ==
  ASSUME TypeInv, Private, Owned, Limited, NEW c \in Calls, NEW k, Raise(c, k)
  PROVE  Owned' /\ Limited'
  BY PlainReturnOwned DEF Raise

LEMMA RunningOwned ==
  ASSUME TypeInv, Owned, Limited, NEW c \in Calls, pc[c] # "idle"
  PROVE  /\ Fits(c, frame[c]) /\ heap[frame[c].obj].rounds <= MaxRounds
         /\ heap[frame[c].obj].rounds \in Nat
  BY RunningType, RunningFits DEF Limited, Live, Busy, SessionState

LEMMA LearnTermOwned ==
  ASSUME TypeInv, Private, Owned, Limited, NEW c \in Calls, pc[c] # "idle",
         NEW t \in Terms, NEW rest \in SUBSET Terms, LearnTerm(c, t, rest)
  PROVE  Owned' /\ Limited'
<1> DEFINE f == [frame[c] EXCEPT !.todo = rest]
           ss == [heap[frame[c].obj] EXCEPT !.resolved = @ \cup {t}]
<1>1. f \in Frame /\ Live(f) /\ Fits(c, f) /\ f.obj = frame[c].obj
  BY RunningType, RunningOwned DEF Frame, Live, Fits
<1>2. ss \in SessionState /\ ss.rounds <= MaxRounds
  BY RunningType, RunningOwned DEF SessionState
<1>3. "learn" \in Points \ {"idle"} /\ Suspend(c, "learn", f, ss, store)
  BY <1>1 DEF Points, LearnTerm
<1>4. QED
  BY <1>1, <1>2, <1>3, RunningType, SuspendOwned

LEMMA AfterResolvingOwned ==
  ASSUME TypeInv, Private, Owned, Limited, NEW c \in Calls, pc[c] # "idle",
         AfterResolving(c)
  PROVE  Owned' /\ Limited'
<1> DEFINE f == frame[c]
           ss == heap[f.obj]
           fe == [f EXCEPT !.active = @ \cup (f.terms \cap ss.resolved)]
           sr == [ss EXCEPT !.state = "resolved"]
<1>1. sr \in SessionState /\ sr.rounds <= MaxRounds
  BY RunningType, RunningOwned DEF SessionState, States
<1>2. fe \in Frame /\ Live(fe) /\ Fits(c, fe)
  BY RunningType, RunningOwned DEF Frame, Live, Fits
<1>3. CASE Raise(c, "illegal")
  BY <1>3, RaiseOwned
<1>4. CASE Triage(c, f, sr)
  BY <1>1, <1>4, RunningType, RunningOwned, TriageOwned
<1>5. CASE Dispatch(c, fe, sr)
  BY <1>1, <1>2, <1>5, DispatchOwned
<1>6. QED
  BY <1>3, <1>4, <1>5 DEF AfterResolving

LEMMA SavedOwned ==
  ASSUME TypeInv, Private, Owned, Limited, NEW c \in Calls, Saved(c)
  PROVE  Owned' /\ Limited'
<1> DEFINE f == frame[c]
           ss == heap[f.obj]
<1>1. Busy(c) /\ pc[c] # "formulate"
  BY DEF Saved, Busy
<1>2. f.sid \in Sessions /\ ss \in SessionState /\ ss.rounds <= MaxRounds
  BY <1>1, RunningType, RunningOwned DEF Live, Busy
<1>3. PICK o \in Slot(f.sid) :
        LET st == [store EXCEPT ![f.sid] = o]
            h  == [heap EXCEPT ![o] = ss]
        IN  IF pc[c] = "save_question"
            THEN Return(c, f.sid, "clarify", ss.pending, h, st)
            ELSE /\ pc' = [pc EXCEPT ![c] = "query"]
                 /\ store' = st
                 /\ heap' = h
                 /\ UNCHANGED <<frame, host>>
  BY DEF Saved
<1> DEFINE st == [store EXCEPT ![f.sid] = o]
           h  == [heap EXCEPT ![o] = ss]
<1>4. o \in Objects
  BY <1>2 DEF Slot, Free, TypeInv, TypeOK
<1>5. /\ st \in [Sessions -> Objects \cup {NoObject}]
      /\ h \in [Objects -> SessionState]
      /\ \A a \in Objects : h[a].rounds <= MaxRounds
  BY <1>2, <1>4 DEF TypeInv, TypeOK, Limited
<1>6. \A d \in Calls, u \in Sessions : Busy(d) /\ st[u] = frame[d].obj =>
        Backend = "memory" /\ frame[d].sid = u
  BY <1>2, <1>4 DEF Slot, Free, Owned, TypeInv, TypeOK
<1>7. \A u, v \in Sessions : u # v /\ st[u] = st[v] => st[u] = NoObject
  BY <1>2, <1>4 DEF Slot, Free, Owned, TypeInv, TypeOK
<1>8. \A d \in Calls \ {c} : Busy(d) => frame[d].obj # o
  <2> SUFFICES ASSUME NEW d \in Calls \ {c}, Busy(d), frame[d].obj = o
               PROVE  FALSE
    OBVIOUS
  <2>1. Backend = "memory" /\ frame[d].sid = f.sid
    BY <1>2, <1>6, <1>4 DEF TypeInv, TypeOK
  <2>2. Sequential
    BY <2>1 DEF Private
  <2>3. QED
    BY <1>1, <2>1, <2>2 DEF Owned
<1>9. \A d \in Calls \ {c} : pc[d] = "formulate" => MayAsk(h[frame[d].obj])
  BY <1>4, <1>8 DEF Limited, Busy, TypeInv, TypeOK
<1>10. CASE pc[c] = "save_question"
  <2>1. Return(c, f.sid, "clarify", ss.pending, h, st)
    BY <1>3, <1>10
  <2>2. \A d \in Calls \ {c}, u \in Sessions : Busy(d) /\ st[u] = frame[d].obj =>
          Backend = "memory" /\ frame[d].sid = u
    BY <1>6
  <2> HIDE DEF st, h
  <2>3. QED
    BY <1>5, <1>7, <1>9, <2>1, <2>2, ReturnOwned
<1>11. CASE pc[c] # "save_question"
  <2>1. /\ pc' = [pc EXCEPT ![c] = "query"] /\ store' = st /\ heap' = h
        /\ frame' = frame
    BY <1>3, <1>11
  <2>2. \A d \in Calls : Busy(d)' = Busy(d) /\ (d # c => pc'[d] = pc[d])
    BY <1>1, <2>1 DEF Busy, TypeInv, TypeOK
  <2>3. pc'[c] = "query"
    BY <2>1 DEF TypeInv, TypeOK
  <2>4. Limited'
    BY <1>5, <1>9, <2>1, <2>2, <2>3 DEF Limited, MayAsk
  <2>5. Owned'
    BY <1>6, <1>7, <2>1, <2>2 DEF Owned
  <2>6. QED
    BY <2>4, <2>5
<1>12. QED
  BY <1>10, <1>11

LEMMA CallOwned ==
  ASSUME TypeInv, Private, Owned, Limited, NEW c \in Calls,
         Progress(c) \/ UserAnswers(c) \/ UserDeclines(c)
  PROVE  Owned' /\ Limited'
<1> DEFINE f == frame[c]
           ss == heap[f.obj]
<1>1. CASE AnswerResolved(c)
  <2>1. pc[c] # "idle" /\ f.terms \in SUBSET Terms
    BY <1>1, RunningType DEF AnswerResolved, Frame
  <2>2. CASE AfterResolving(c)
    BY <2>1, <2>2, AfterResolvingOwned
  <2>3. ASSUME NEW R \in SUBSET Terms, NEW t \in R, LearnTerm(c, t, R \ {t})
        PROVE  Owned' /\ Limited'
    BY <2>1, <2>3, LearnTermOwned
  <2>4. QED
    BY <1>1, <2>2, <2>3 DEF AnswerResolved
<1>2. CASE ConventionWritten(c)
  <2>1. pc[c] # "idle" /\ f.todo \in SUBSET Terms
    BY <1>2, RunningType DEF ConventionWritten, Frame
  <2>2. CASE AfterResolving(c)
    BY <2>1, <2>2, AfterResolvingOwned
  <2>3. ASSUME NEW t \in f.todo, LearnTerm(c, t, f.todo \ {t})
        PROVE  Owned' /\ Limited'
    BY <2>1, <2>3, LearnTermOwned
  <2>4. QED
    BY <1>2, <2>2, <2>3 DEF ConventionWritten
<1>3. CASE ResolveFails(c) \/ ConventionWriteFails(c) \/ SaveFails(c)
  BY <1>3, RaiseOwned DEF ResolveFails, ConventionWriteFails, SaveFails
<1>4. CASE QuestionFormulated(c)
  <2>1. pc[c] # "idle" /\ MayAsk(ss)
    BY <1>4 DEF QuestionFormulated, Limited
  <2>2. Counted(ss) \in SessionState /\ Counted(ss).rounds = ss.rounds + 1
    BY <2>1, RunningType DEF Counted, SessionState
  <2>3. Counted(ss).rounds <= MaxRounds
    BY <2>1, <2>2, RunningOwned, ConstantsOK DEF MayAsk
  <2>4. "elicit" \in Points \ {"idle"}
    BY DEF Points
  <2>5. CASE Elicit
    BY <1>4, <2>1, <2>2, <2>3, <2>4, <2>5, RunningType, RunningOwned, SuspendOwned
       DEF QuestionFormulated
  <2>6. CASE ~Elicit
    BY <1>4, <2>1, <2>2, <2>3, <2>6, RunningType, RunningOwned, AskOwned
       DEF QuestionFormulated
  <2>7. QED
    BY <2>5, <2>6
<1>5. CASE FormulateFails(c)
  <2>1. pc[c] # "idle"
    BY <1>5 DEF FormulateFails
  <2>2. /\ [f EXCEPT !.warned = TRUE] \in Frame /\ Live([f EXCEPT !.warned = TRUE])
        /\ Fits(c, [f EXCEPT !.warned = TRUE])
    BY <2>1, RunningType, RunningOwned, ZenonT(60) DEF Frame, Live, Fits
  <2>3. QED
    BY <1>5, <2>1, <2>2, RunningType, DispatchOwned DEF FormulateFails
<1>6. CASE Saved(c)
  BY <1>6, SavedOwned
<1>7. CASE BackendReturns(c)
  BY <1>7, PlainReturnOwned DEF BackendReturns
<1>8. CASE UserAnswers(c)
  <2>1. pc[c] # "idle"
    BY <1>8 DEF UserAnswers
  <2>2. /\ [f EXCEPT !.via = "elicit"] \in Frame /\ Live([f EXCEPT !.via = "elicit"])
        /\ Fits(c, [f EXCEPT !.via = "elicit"])
    BY <2>1, RunningType, RunningOwned DEF Frame, Live, Fits
  <2>3. "resolve" \in Points \ {"idle"}
    BY DEF Points
  <2>4. QED
    BY <1>8, <2>1, <2>2, <2>3, RunningType, RunningOwned, SuspendOwned DEF UserAnswers
<1>9. CASE UserDeclines(c)
  <2>1. pc[c] # "idle"
    BY <1>9 DEF UserDeclines
  <2>2. QED
    BY <1>9, <2>1, RunningType, RunningOwned, AskOwned DEF UserDeclines
<1>10. QED
  BY <1>1, <1>2, <1>3, <1>4, <1>5, <1>6, <1>7, <1>8, <1>9 DEF Progress

\* An object handed to a new call is in nobody else's hands.
LEMMA HandedFits ==
  ASSUME TypeInv, Private, Owned, NEW c \in Calls, NEW s \in Sessions,
         Overlap \/ InFlight(s) = {}, NEW o \in Handed(s) \cup Free,
         NEW f, f.sid = s, f.obj = o
  PROVE  o \in Objects /\ Fits(c, f)
<1>1. o \in Objects
  BY DEF Handed, Free, TypeInv, TypeOK
<1>2. \A d \in Calls : Sequential => frame[d].sid # s
  BY DEF Sequential, InFlight
<1>3. CASE o \in Free
  BY <1>1, <1>2, <1>3 DEF Free, Fits
<1>4. CASE o \notin Free
  <2>1. Backend = "memory" /\ o = store[s] /\ store[s] # NoObject
    BY <1>4 DEF Handed
  <2>2. \A d \in Calls : Busy(d) => frame[d].obj # o
    BY <1>2, <2>1 DEF Owned, Private
  <2>3. \A u \in Sessions : store[u] = o => u = s
    BY <2>1 DEF Owned
  <2>4. QED
    BY <1>1, <1>2, <2>1, <2>2, <2>3 DEF Fits
<1>5. QED
  BY <1>3, <1>4

LEMMA BeginOwned ==
  ASSUME TypeInv, Private, Owned, Limited, CallBegins
  PROVE  Owned' /\ Limited'
<1> PICK c \in Calls, s \in Sessions, q \in Queries :
      \/ ReceiveAnswer(c, s, q)
      \/ ReceiveRepeat(c, s, q)
      \/ \E answer \in BOOLEAN : ReceiveQuery(c, s, q, answer)
  BY DEF CallBegins
<1>1. /\ Stored(s) \in SessionState /\ Stored(s).rounds <= MaxRounds
      /\ store \in [Sessions -> Objects \cup {NoObject}]
  BY NewTypes, ConstantsOK DEF TypeInv, TypeOK, Stored, Limited
<1>2. Overlap \/ InFlight(s) = {}
  BY DEF ReceiveAnswer, ReceiveRepeat, ReceiveQuery, Arrives
<1>3. ASSUME NEW o \in Handed(s) \cup Free, NEW r \in Queries
      PROVE  /\ Locals(s, o, r) \in Frame /\ Live(Locals(s, o, r))
             /\ Fits(c, Locals(s, o, r))
  <2>1. Locals(s, o, r).sid = s /\ Locals(s, o, r).obj = o
    BY DEF Locals
  <2>2. o \in Objects /\ Fits(c, Locals(s, o, r))
    BY <1>2, <2>1, HandedFits
  <2>3. QED
    BY <2>2, NewTypes DEF Locals, Frame, Live
<1>4. CASE ReceiveAnswer(c, s, q)
  <2> DEFINE asked == IF Stored(s).pending.query # NoQuery
                      THEN Stored(s).pending.query ELSE q
             g(o) == Locals(s, o, asked)
             f(o) == [g(o) EXCEPT !.terms = Stored(s).pending.terms]
  <2>1. PICK o \in Handed(s) : Suspend(c, "resolve", f(o), Stored(s), store)
    BY <1>4 DEF ReceiveAnswer
  <2>2. asked \in Queries /\ Stored(s).pending.terms \in SUBSET Terms
    BY <1>1 DEF SessionState, Question
  <2>3. g(o) \in Frame /\ Live(g(o)) /\ Fits(c, g(o))
    BY <1>3, <2>2
  <2>4. f(o) \in Frame /\ Live(f(o)) /\ Fits(c, f(o))
    BY <2>2, <2>3 DEF Frame, Live, Fits
  <2>5. "resolve" \in Points \ {"idle"}
    BY DEF Points
  <2>6. QED
    BY <1>1, <2>1, <2>4, <2>5, SuspendOwned
<1>5. CASE ReceiveRepeat(c, s, q)
  <2>1. CASE Backend = "memory"
    BY <1>5, <2>1, PlainReturnOwned DEF ReceiveRepeat
  <2>2. CASE Backend # "memory"
    <3>1. "save_question" \in Points \ {"idle"}
      BY DEF Points
    <3>2. QED
      BY <1>1, <1>3, <1>5, <2>2, <3>1, SuspendOwned DEF ReceiveRepeat
  <2>3. QED
    BY <2>1, <2>2
<1>6. ASSUME NEW answer \in BOOLEAN, ReceiveQuery(c, s, q, answer)
      PROVE  Owned' /\ Limited'
  <2>1. PICK o \in Handed(s) \cup Free, ss \in {Stored(s), NewSession} :
          Triage(c, Locals(s, o, q), ss)
    BY <1>6 DEF ReceiveQuery
  <2>2. ss \in SessionState /\ ss.rounds <= MaxRounds
    <3>1. NewSession.rounds <= MaxRounds
      BY ConstantsOK
    <3> QED
      BY <1>1, <3>1, NewTypes
  <2>3. QED
    BY <1>3, <2>1, <2>2, TriageOwned
<1>7. QED
  BY <1>4, <1>5, <1>6

LEMMA EnvironmentOwned ==
  ASSUME TypeInv, Private, Owned, Limited, Restart \/ \E s \in Sessions : Expire(s)
  PROVE  Owned' /\ Limited'
<1>1. CASE Restart
  BY <1>1, ConstantsOK DEF Restart, Owned, Limited, Busy, Collected, TypeInv, TypeOK
<1>2. ASSUME NEW s \in Sessions, Expire(s)
      PROVE  Owned' /\ Limited'
  <2>1. /\ store' = [store EXCEPT ![s] = NoObject] /\ UNCHANGED <<pc, frame>>
        /\ heap' = Collected(heap, frame, store')
    BY <1>2 DEF Expire
  <2>2. Owned'
    BY <2>1, ConstantsOK DEF Owned, Busy, TypeInv, TypeOK, FramesLive, Live
  <2>3. \A o \in Objects : heap'[o].rounds <= MaxRounds
    BY <2>1, ConstantsOK DEF Collected, Limited
  <2>4. \A c \in Calls : pc[c] = "formulate" => MayAsk(heap'[frame[c].obj])
    BY <2>1 DEF Collected, Limited, TypeInv, TypeOK, FramesLive, Live
  <2>5. QED
    BY <2>1, <2>2, <2>3, <2>4 DEF Limited, MayAsk
<1>3. QED
  BY <1>1, <1>2

LEMMA RoundsInit == Init => RoundsInv
<1> SUFFICES ASSUME Init
             PROVE  Owned /\ Limited
  BY TypeInit DEF RoundsInv
<1>1. Owned
  BY DEF Init, Owned, Busy
<1>2. Limited
  BY ConstantsOK DEF Init, Limited
<1>3. QED
  BY <1>1, <1>2

LEMMA RoundsStep == RoundsInv /\ [Next]_vars => RoundsInv'
<1> SUFFICES ASSUME TypeInv, Private, Owned, Limited, [Next]_vars
             PROVE  Owned' /\ Limited'
  BY TypeStep DEF RoundsInv, Private, Sequential
<1>1. CASE UNCHANGED vars
  BY <1>1 DEF vars, Owned, Limited, Busy, MayAsk
<1>2. CASE Next
  BY <1>2, BeginOwned, CallOwned, EnvironmentOwned DEF Next
<1>3. QED
  BY <1>1, <1>2

\* No session object ever counts more clarification rounds than max_rounds, for hosts
\* that send the calls of a session one after the other.
THEOREM RoundsAreBounded == Spec => []RoundsBounded
<1>1. RoundsInv => RoundsBounded
  BY DEF RoundsInv, RoundsBounded, Private, Sequential, Limited
<1>2. QED
  BY <1>1, RoundsInit, RoundsStep, PTL DEF Spec

-----------------------------------------------------------------------------
(* The limit when hosts overlap the calls of a session on the in-memory    *)
(* store.  There a session object may be in the hands of every call at     *)
(* once, and the count may pass max_rounds; the argument is about the      *)
(* calls between the check and the count: each of them will add one round, *)
(* and no more can join than there are calls.                              *)

FiniteCalls == IsFiniteSet(Calls) /\ Calls # {}

\* The calls that have passed the check for object o and not counted a round yet.
Asking(o) == {c \in Calls : pc[c] = "formulate" /\ frame[c].obj = o}

Ceiling == MaxRounds + Cardinality(Calls) - 1

\* The rounds of ss leave room for the calls other than c that are asking on o.
Room(c, o, ss) == ss.rounds + Cardinality(Asking(o) \ {c}) <= Ceiling

SharedInv ==
  /\ RoundsInv
  /\ Backend = "memory" =>
       /\ \A c \in Calls : pc[c] \notin {"save_question", "save_dispatch"}
       /\ \A o \in Objects : heap[o].rounds + Cardinality(Asking(o)) <= Ceiling

-----------------------------------------------------------------------------
(* Counting calls.                                                         *)

LEMMA Count ==
  ASSUME FiniteCalls, NEW c \in Calls, NEW S \in SUBSET Calls
  PROVE  /\ Cardinality(Calls) \in Nat /\ Cardinality(Calls) > 0
         /\ IsFiniteSet(S) /\ Cardinality(S) \in Nat
         /\ Cardinality(S) <= Cardinality(Calls)
         /\ Cardinality(S \ {c}) \in Nat
         /\ Cardinality(S \ {c}) <= Cardinality(S)
         /\ Cardinality(S \ {c}) <= Cardinality(Calls) - 1
         /\ c \in S => Cardinality(S \ {c}) = Cardinality(S) - 1
<1>1. Cardinality(Calls) \in Nat /\ Cardinality(Calls) > 0
  BY FS_CardinalityType, FS_EmptySet DEF FiniteCalls
<1>2. /\ IsFiniteSet(S) /\ Cardinality(S) \in Nat
      /\ Cardinality(S) <= Cardinality(Calls)
  BY FS_Subset, FS_CardinalityType DEF FiniteCalls
<1>3. IsFiniteSet(S \ {c}) /\ Cardinality(S \ {c}) \in Nat
  BY <1>2, FS_Subset, FS_CardinalityType
<1>4. /\ Cardinality(S \ {c}) <= Cardinality(S)
      /\ c \in S => Cardinality(S \ {c}) = Cardinality(S) - 1
  BY <1>2, FS_RemoveElement
<1>5. Cardinality(S \ {c}) <= Cardinality(Calls) - 1
  <2>1. S \ {c} \in SUBSET (Calls \ {c}) /\ IsFiniteSet(Calls \ {c})
    BY FS_RemoveElement DEF FiniteCalls
  <2>2. Cardinality(S \ {c}) <= Cardinality(Calls \ {c})
    BY <2>1, FS_Subset
  <2>3. Cardinality(Calls \ {c}) = Cardinality(Calls) - 1
    BY FS_RemoveElement DEF FiniteCalls
  <2>4. QED
    BY <2>2, <2>3
<1>6. QED
  BY <1>1, <1>2, <1>3, <1>4, <1>5

LEMMA RoomWhenReset ==
  ASSUME FiniteCalls, NEW c \in Calls, NEW o, NEW ss, ss.rounds = 0
  PROVE  Room(c, o, ss)
<1>1. /\ Cardinality(Asking(o) \ {c}) \in Nat /\ Cardinality(Calls) \in Nat
      /\ Cardinality(Asking(o) \ {c}) <= Cardinality(Calls) - 1
  BY Count DEF Asking
<1>2. QED
  BY <1>1, ConstantsOK DEF Room, Ceiling

LEMMA RoomWhenKept ==
  ASSUME FiniteCalls, SharedInv, Backend = "memory", NEW c \in Calls,
         NEW o \in Objects, NEW ss, ss.rounds = heap[o].rounds
  PROVE  Room(c, o, ss)
<1>1. /\ Cardinality(Asking(o) \ {c}) \in Nat /\ Cardinality(Asking(o)) \in Nat
      /\ Cardinality(Calls) \in Nat
      /\ Cardinality(Asking(o) \ {c}) <= Cardinality(Asking(o))
  BY Count DEF Asking
<1>2. heap[o].rounds \in Nat /\ heap[o].rounds + Cardinality(Asking(o)) <= Ceiling
  BY DEF SharedInv, RoundsInv, TypeInv, TypeOK, SessionState
<1>3. QED
  BY <1>1, <1>2, ConstantsOK DEF Room, Ceiling

\* The round a call counts is the one it had room for.
LEMMA RoomWhenCounted ==
  ASSUME FiniteCalls, SharedInv, Backend = "memory", NEW c \in Calls,
         pc[c] = "formulate", NEW ss,
         ss.rounds = heap[frame[c].obj].rounds + 1
  PROVE  Room(c, frame[c].obj, ss)
<1> DEFINE o == frame[c].obj
<1>1. o \in Objects
  BY DEF SharedInv, RoundsInv, TypeInv, FramesLive, Live
<1>2. /\ Cardinality(Asking(o) \ {c}) \in Nat /\ Cardinality(Asking(o)) \in Nat
      /\ Cardinality(Calls) \in Nat
      /\ Cardinality(Asking(o) \ {c}) = Cardinality(Asking(o)) - 1
  BY Count DEF Asking
<1>3. heap[o].rounds \in Nat /\ heap[o].rounds + Cardinality(Asking(o)) <= Ceiling
  BY <1>1 DEF SharedInv, RoundsInv, TypeInv, TypeOK, SessionState
<1>4. QED
  BY <1>2, <1>3, ConstantsOK DEF Room, Ceiling

-----------------------------------------------------------------------------
(* The two ways a step ends, on the in-memory store.                       *)

Shared ==
  /\ \A c \in Calls : pc[c] \notin {"save_question", "save_dispatch"}
  /\ \A o \in Objects : heap[o].rounds + Cardinality(Asking(o)) <= Ceiling

LEMMA Unsaved ==
  {"query", "formulate", "learn", "elicit", "resolve"}
    \subseteq Points \ {"save_question", "save_dispatch"}
  BY DEF Points

LEMMA SuspendShared ==
  ASSUME FiniteCalls, SharedInv, Backend = "memory", NEW c \in Calls,
         NEW p \in Points \ {"save_question", "save_dispatch"}, NEW f, f.obj \in Objects,
         NEW ss \in SessionState, p = "formulate" => MayAsk(ss),
         Room(c, f.obj, ss), NEW st, Suspend(c, p, f, ss, st)
  PROVE  Shared'
<1> DEFINE h == [heap EXCEPT ![f.obj] = ss]
<1>1. /\ pc' = [pc EXCEPT ![c] = p] /\ frame' = [frame EXCEPT ![c] = f]
      /\ heap' = Collected(h, frame', st)
  BY DEF Suspend
<1>2. \A d \in Calls : d # c => frame'[d] = frame[d] /\ pc'[d] = pc[d]
  BY <1>1 DEF SharedInv, RoundsInv, TypeInv, TypeOK
<1>3. frame'[c] = f /\ pc'[c] = p
  BY <1>1 DEF SharedInv, RoundsInv, TypeInv, TypeOK
<1>4. \A d \in Calls : pc'[d] \notin {"save_question", "save_dispatch"}
  BY <1>2, <1>3 DEF SharedInv
<1>5. ASSUME NEW o \in Objects
      PROVE  heap'[o].rounds + Cardinality(Asking(o)') <= Ceiling
  <2>1. heap[o].rounds \in Nat /\ ss.rounds \in Nat
    BY DEF SharedInv, RoundsInv, TypeInv, TypeOK, SessionState
  <2>2. /\ Cardinality(Calls) \in Nat /\ Cardinality(Calls) > 0
        /\ Cardinality(Asking(o)') \in Nat
        /\ Cardinality(Asking(o)') <= Cardinality(Calls)
        /\ Cardinality(Asking(o) \ {c}) \in Nat
    <3>1. Asking(o)' \in SUBSET Calls /\ Asking(o) \in SUBSET Calls
      BY DEF Asking
    <3>2. QED
      BY <3>1, Count
  <2>3. CASE o = f.obj /\ p = "formulate"
    <3>1. h[o] = ss /\ heap'[o] = ss /\ ss.rounds + 1 <= MaxRounds
      BY <1>1, <1>3, <2>1, <2>3, ConstantsOK
         DEF Collected, MayAsk, SharedInv, RoundsInv, TypeInv, TypeOK
    <3>2. QED
      BY <2>1, <2>2, <3>1, ConstantsOK DEF Ceiling
  <2>4. CASE ~(o = f.obj /\ p = "formulate")
    <3>1. Asking(o)' = Asking(o) \ {c}
      BY <1>2, <1>3, <2>4 DEF Asking
    <3>2. Room(c, o, heap[o])
      BY RoomWhenKept
    <3>3. Room(c, o, h[o])
      BY <3>2 DEF SharedInv, RoundsInv, TypeInv, TypeOK
    <3>4. Room(c, o, NewSession)
      BY RoomWhenReset
    <3>5. heap'[o] \in {h[o], NewSession}
      BY <1>1 DEF Collected
    <3>6. QED
      BY <3>1, <3>3, <3>4, <3>5 DEF Room
  <2>5. QED
    BY <2>3, <2>4
<1>6. QED
  BY <1>4, <1>5 DEF Shared, Ceiling, Asking

LEMMA ReturnShared ==
  ASSUME FiniteCalls, SharedInv, Backend = "memory", NEW c \in Calls, NEW s, NEW k,
         NEW about, NEW h, \A o \in Objects : Room(c, o, h[o]), NEW st,
         Return(c, s, k, about, h, st)
  PROVE  Shared'
<1>1. /\ pc' = [pc EXCEPT ![c] = "idle"] /\ frame' = [frame EXCEPT ![c] = NoFrame]
      /\ heap' = Collected(h, frame', st)
  BY DEF Return
<1>2. \A d \in Calls : d # c => frame'[d] = frame[d] /\ pc'[d] = pc[d]
  BY <1>1 DEF SharedInv, RoundsInv, TypeInv, TypeOK
<1>3. pc'[c] = "idle"
  BY <1>1 DEF SharedInv, RoundsInv, TypeInv, TypeOK
<1>4. \A d \in Calls : pc'[d] \notin {"save_question", "save_dispatch"}
  BY <1>2, <1>3 DEF SharedInv
<1>5. ASSUME NEW o \in Objects
      PROVE  heap'[o].rounds + Cardinality(Asking(o)') <= Ceiling
  <2>1. Asking(o)' = Asking(o) \ {c}
    BY <1>2, <1>3 DEF Asking
  <2>2. Room(c, o, NewSession)
    BY RoomWhenReset
  <2>3. heap'[o] \in {h[o], NewSession}
    BY <1>1 DEF Collected
  <2>4. QED
    BY <2>1, <2>2, <2>3 DEF Room
<1>6. QED
  BY <1>4, <1>5 DEF Shared, Ceiling, Asking

-----------------------------------------------------------------------------
(* The straight-line pieces.                                               *)

LEMMA DispatchShared ==
  ASSUME FiniteCalls, SharedInv, Backend = "memory", NEW c \in Calls, NEW f,
         f.obj \in Objects, NEW ss \in SessionState, Dispatch(c, f, ss)
  PROVE  Shared'
<1> DEFINE sd == Dispatched(ss)
<1>1. sd \in SessionState /\ sd.rounds = 0
  BY DEF Dispatched, SessionState, Question, States
<1>2. Suspend(c, "query", f, sd, [store EXCEPT ![f.sid] = f.obj])
  BY DEF Dispatch
<1> HIDE DEF sd
<1>3. Room(c, f.obj, sd)
  BY <1>1, RoomWhenReset
<1>4. QED
  BY <1>1, <1>2, <1>3, SuspendShared, Unsaved

LEMMA TriageShared ==
  ASSUME FiniteCalls, SharedInv, Backend = "memory", NEW c \in Calls, NEW f \in Frame,
         Live(f), NEW ss \in SessionState, Room(c, f.obj, ss), Triage(c, f, ss)
  PROVE  Shared'
<1> DEFINE active == Detect[f.query] \cap Known(ss)
           open == Detect[f.query] \ Known(ss)
           fq == [f EXCEPT !.active = active, !.terms = open]
           fd == [f EXCEPT !.active = active, !.warned = (open # {})]
<1>1. fq.obj = f.obj /\ fd.obj = f.obj /\ f.obj \in Objects
  BY DEF Frame, Live
<1>2. CASE MayAsk(ss) /\ Suspend(c, "formulate", fq, ss, store)
  <2> HIDE DEF fq
  <2>1. QED
    BY <1>1, <1>2, SuspendShared, Unsaved
<1>3. CASE Dispatch(c, fd, ss)
  <2> HIDE DEF fd
  <2>1. QED
    BY <1>1, <1>3, DispatchShared
<1>4. QED
  BY <1>2, <1>3 DEF Triage

LEMMA AskShared ==
  ASSUME FiniteCalls, SharedInv, Backend = "memory", NEW c \in Calls, NEW f,
         f.obj \in Objects, NEW ss \in SessionState, Room(c, f.obj, ss), Ask(c, f, ss)
  PROVE  Shared'
<1> DEFINE asked == Awaiting(ss, f.query, f.terms)
           h == [heap EXCEPT ![f.obj] = asked]
<1>1. Room(c, f.obj, asked)
  BY DEF Room, Awaiting, SessionState
<1>2. \A o \in Objects : h[o] = IF o = f.obj THEN asked ELSE heap[o]
  BY DEF SharedInv, RoundsInv, TypeInv, TypeOK
<1>3. Return(c, f.sid, "clarify", asked.pending, h, [store EXCEPT ![f.sid] = f.obj])
  BY DEF Ask
<1> HIDE DEF asked, h
<1>4. \A o \in Objects : Room(c, o, h[o])
  BY <1>1, <1>2, RoomWhenKept
<1>5. QED
  BY <1>3, <1>4, ReturnShared

LEMMA PlainReturnShared ==
  ASSUME FiniteCalls, SharedInv, Backend = "memory", NEW c \in Calls, NEW s, NEW k,
         NEW about, Return(c, s, k, about, heap, store)
  PROVE  Shared'
  BY RoomWhenKept, ReturnShared

LEMMA RunningShared ==
  ASSUME SharedInv, NEW c \in Calls, pc[c] # "idle"
  PROVE  /\ frame[c] \in Frame /\ Live(frame[c]) /\ frame[c].obj \in Objects
         /\ heap[frame[c].obj] \in SessionState
  BY RunningType DEF SharedInv, RoundsInv, Live

LEMMA LearnTermShared ==
  ASSUME FiniteCalls, SharedInv, Backend = "memory", NEW c \in Calls, pc[c] # "idle",
         NEW t \in Terms, NEW rest, LearnTerm(c, t, rest)
  PROVE  Shared'
<1> DEFINE f == [frame[c] EXCEPT !.todo = rest]
           ss == [heap[frame[c].obj] EXCEPT !.resolved = @ \cup {t}]
<1>1. f.obj = frame[c].obj /\ frame[c].obj \in Objects
  BY RunningShared DEF Frame
<1>2. ss \in SessionState /\ ss.rounds = heap[frame[c].obj].rounds
  BY RunningShared DEF SessionState
<1>3. Suspend(c, "learn", f, ss, store)
  BY <1>1 DEF LearnTerm
<1> HIDE DEF f, ss
<1>4. Room(c, f.obj, ss)
  BY <1>1, <1>2, RoomWhenKept
<1>5. QED
  BY <1>1, <1>2, <1>3, <1>4, SuspendShared, Unsaved

LEMMA AfterResolvingShared ==
  ASSUME FiniteCalls, SharedInv, Backend = "memory", NEW c \in Calls, pc[c] # "idle",
         AfterResolving(c)
  PROVE  Shared'
<1> DEFINE f == frame[c]
           ss == heap[f.obj]
           fe == [f EXCEPT !.active = @ \cup (f.terms \cap ss.resolved)]
           sr == [ss EXCEPT !.state = "resolved"]
<1>1. sr \in SessionState /\ sr.rounds = ss.rounds
  BY RunningShared DEF SessionState, States
<1>2. fe.obj \in Objects
  BY RunningShared DEF Frame
<1>3. CASE Raise(c, "illegal")
  BY <1>3, PlainReturnShared DEF Raise
<1>4. CASE Triage(c, f, sr)
  <2> HIDE DEF sr
  <2>1. Room(c, f.obj, sr)
    BY <1>1, RunningShared, RoomWhenKept
  <2>2. QED
    BY <1>1, <1>4, <2>1, RunningShared, TriageShared
<1>5. CASE Dispatch(c, fe, sr)
  <2> HIDE DEF sr, fe
  <2>1. QED
    BY <1>1, <1>2, <1>5, DispatchShared
<1>6. QED
  BY <1>3, <1>4, <1>5 DEF AfterResolving

-----------------------------------------------------------------------------
(* The steps.                                                              *)

LEMMA CallShared ==
  ASSUME FiniteCalls, SharedInv, Backend = "memory", NEW c \in Calls,
         Progress(c) \/ UserAnswers(c) \/ UserDeclines(c)
  PROVE  Shared'
<1> DEFINE f == frame[c]
           ss == heap[f.obj]
<1>1. CASE AnswerResolved(c)
  BY <1>1, AfterResolvingShared, LearnTermShared DEF AnswerResolved
<1>2. CASE ConventionWritten(c)
  <2>1. pc[c] # "idle" /\ f.todo \in SUBSET Terms
    BY <1>2, RunningShared DEF ConventionWritten, Frame
  <2>2. QED
    BY <1>2, <2>1, AfterResolvingShared, LearnTermShared DEF ConventionWritten
<1>3. CASE ResolveFails(c) \/ ConventionWriteFails(c) \/ SaveFails(c)
  BY <1>3, PlainReturnShared DEF ResolveFails, ConventionWriteFails, SaveFails, Raise
<1>4. CASE QuestionFormulated(c)
  <2> DEFINE sc == Counted(ss)
  <2>1. pc[c] = "formulate"
    BY <1>4 DEF QuestionFormulated
  <2>2. sc \in SessionState /\ sc.rounds = ss.rounds + 1 /\ f.obj \in Objects
    BY <2>1, RunningShared DEF Counted, SessionState
  <2>3. Suspend(c, "elicit", f, sc, store) \/ Ask(c, f, sc)
    BY <1>4 DEF QuestionFormulated
  <2> HIDE DEF sc
  <2>4. Room(c, f.obj, sc)
    BY <2>1, <2>2, RoomWhenCounted
  <2>5. CASE Suspend(c, "elicit", f, sc, store)
    <3> HIDE DEF f
    <3>1. QED
      BY <2>2, <2>4, <2>5, SuspendShared, Unsaved
  <2>6. CASE Ask(c, f, sc)
    <3> HIDE DEF f
    <3>1. QED
      BY <2>2, <2>4, <2>6, AskShared
  <2>7. QED
    BY <2>3, <2>5, <2>6
<1>5. CASE FormulateFails(c)
  <2> DEFINE fw == [f EXCEPT !.warned = TRUE]
  <2>1. pc[c] # "idle" /\ Dispatch(c, fw, ss)
    BY <1>5 DEF FormulateFails
  <2>2. fw.obj \in Objects /\ ss \in SessionState
    BY <2>1, RunningShared DEF Frame
  <2> HIDE DEF fw, ss
  <2>3. QED
    BY <2>1, <2>2, DispatchShared
<1>6. CASE Saved(c)
  BY <1>6 DEF Saved, SharedInv
<1>7. CASE BackendReturns(c)
  BY <1>7, PlainReturnShared DEF BackendReturns
<1>8. CASE UserAnswers(c)
  <2> DEFINE fe == [f EXCEPT !.via = "elicit"]
  <2>1. pc[c] # "idle" /\ Suspend(c, "resolve", fe, ss, store)
    BY <1>8 DEF UserAnswers
  <2>2. fe.obj = f.obj /\ f.obj \in Objects /\ ss \in SessionState
    BY <2>1, RunningShared DEF Frame
  <2>3. Room(c, f.obj, ss)
    BY <2>2, RoomWhenKept
  <2> HIDE DEF fe, ss, f
  <2>4. QED
    BY <2>1, <2>2, <2>3, SuspendShared, Unsaved
<1>9. CASE UserDeclines(c)
  <2>1. pc[c] # "idle" /\ Ask(c, f, ss)
    BY <1>9 DEF UserDeclines
  <2>2. f.obj \in Objects /\ ss \in SessionState
    BY <2>1, RunningShared
  <2>3. Room(c, f.obj, ss)
    BY <2>2, RoomWhenKept
  <2> HIDE DEF f, ss
  <2>4. QED
    BY <2>1, <2>2, <2>3, AskShared
<1>10. QED
  BY <1>1, <1>2, <1>3, <1>4, <1>5, <1>6, <1>7, <1>8, <1>9 DEF Progress

LEMMA BeginShared ==
  ASSUME FiniteCalls, SharedInv, Backend = "memory", CallBegins
  PROVE  Shared'
<1> PICK c \in Calls, s \in Sessions, q \in Queries :
      \/ ReceiveAnswer(c, s, q)
      \/ ReceiveRepeat(c, s, q)
      \/ \E answer \in BOOLEAN : ReceiveQuery(c, s, q, answer)
  BY DEF CallBegins
<1>1. Stored(s) \in SessionState
  BY NewTypes DEF SharedInv, RoundsInv, TypeInv, TypeOK, Stored
<1>2. ASSUME NEW o \in Handed(s)
      PROVE  o \in Objects /\ Room(c, o, Stored(s))
  <2>1. CASE store[s] = NoObject
    BY <1>2, <2>1, RoomWhenReset DEF Handed, Free, Stored
  <2>2. CASE store[s] # NoObject
    <3>1. o \in Objects /\ Stored(s) = heap[o]
      BY <1>2, <2>2 DEF Handed, Stored, SharedInv, RoundsInv, TypeInv, TypeOK
    <3>2. QED
      BY <3>1, RoomWhenKept
  <2>3. QED
    BY <2>1, <2>2
<1>3. \A o \in Free : o \in Objects /\ Room(c, o, NewSession)
  BY RoomWhenReset DEF Free
<1>4. ASSUME NEW o \in Objects, NEW r \in Queries
      PROVE  /\ Locals(s, o, r) \in Frame /\ Live(Locals(s, o, r))
             /\ Locals(s, o, r).obj = o
  BY <1>4, NewTypes DEF Locals, Frame, Live
<1>5. CASE ReceiveAnswer(c, s, q)
  <2> DEFINE asked == IF Stored(s).pending.query # NoQuery
                      THEN Stored(s).pending.query ELSE q
             f(o) == [Locals(s, o, asked) EXCEPT !.terms = Stored(s).pending.terms]
  <2>1. PICK o \in Handed(s) : Suspend(c, "resolve", f(o), Stored(s), store)
    BY <1>5 DEF ReceiveAnswer
  <2>2. asked \in Queries
    BY <1>1 DEF SessionState, Question
  <2>3. f(o).obj = o /\ o \in Objects
    BY <1>2, <1>4, <2>2 DEF Frame
  <2> HIDE DEF f
  <2>4. QED
    BY <1>1, <1>2, <2>1, <2>3, SuspendShared, Unsaved
<1>6. CASE ReceiveRepeat(c, s, q)
  BY <1>6, PlainReturnShared DEF ReceiveRepeat
<1>7. ASSUME NEW answer \in BOOLEAN, ReceiveQuery(c, s, q, answer)
      PROVE  Shared'
  <2>1. PICK o \in Objects, ss \in {Stored(s), NewSession} :
          Room(c, o, ss) /\ Triage(c, Locals(s, o, q), ss)
    BY <1>2, <1>3, <1>7 DEF ReceiveQuery
  <2>2. ss \in SessionState
    BY <1>1, NewTypes
  <2>3. QED
    BY <1>4, <2>1, <2>2, TriageShared
<1>8. QED
  BY <1>5, <1>6, <1>7

\* Objects may be collected and calls lost; no round is added.
LEMMA EnvironmentShared ==
  ASSUME FiniteCalls, SharedInv, Backend = "memory",
         Restart \/ \E s \in Sessions : Expire(s)
  PROVE  Shared'
<1>1. PICK a \in Calls : TRUE
  BY DEF FiniteCalls
<1>2. heap' = Collected(heap, frame', store')
  BY DEF Restart, Expire
<1>3. \A c \in Calls : /\ pc'[c] = "idle" \/ pc'[c] = pc[c]
                       /\ pc'[c] = "formulate" => frame'[c] = frame[c]
  BY DEF Restart, Expire
<1>4. \A c \in Calls : pc'[c] \notin {"save_question", "save_dispatch"}
  BY <1>3 DEF SharedInv
<1>5. ASSUME NEW o \in Objects
      PROVE  heap'[o].rounds + Cardinality(Asking(o)') <= Ceiling
  <2>1. heap'[o].rounds \in {heap[o].rounds, 0} /\ heap[o].rounds \in Nat
    BY <1>2 DEF Collected, SharedInv, RoundsInv, TypeInv, TypeOK, SessionState
  <2>2. Asking(o)' \in SUBSET Asking(o) /\ Asking(o) \in SUBSET Calls
    BY <1>3 DEF Asking
  <2>3. /\ Cardinality(Asking(o)) \in Nat /\ Cardinality(Asking(o)') \in Nat
        /\ Cardinality(Asking(o)') <= Cardinality(Asking(o))
        /\ Cardinality(Calls) \in Nat
    BY <1>1, <2>2, Count, FS_Subset
  <2>4. heap[o].rounds + Cardinality(Asking(o)) <= Ceiling
    BY DEF SharedInv
  <2>5. QED
    BY <2>1, <2>3, <2>4, ConstantsOK DEF Ceiling
<1>6. QED
  BY <1>4, <1>5 DEF Shared, Ceiling, Asking

LEMMA SharedInit == ASSUME FiniteCalls PROVE Init => SharedInv
<1> SUFFICES ASSUME Init
             PROVE  Shared
  BY RoundsInit DEF SharedInv, Shared
<1>1. PICK a \in Calls : TRUE
  BY DEF FiniteCalls
<1>2. \A o \in Objects : Asking(o) = {} /\ heap[o].rounds = 0
  BY DEF Init, Asking
<1>3. Cardinality(Calls) \in Nat /\ Cardinality(Calls) > 0 /\ Cardinality({}) = 0
  <2>1. {} \in SUBSET Calls
    OBVIOUS
  <2>2. QED
    BY <1>1, <2>1, Count, FS_EmptySet
<1>4. ASSUME NEW o \in Objects
      PROVE  heap[o].rounds + Cardinality(Asking(o)) <= Ceiling
  <2>1. heap[o].rounds = 0 /\ Cardinality(Asking(o)) = 0
    BY <1>2, <1>3
  <2>2. 0 <= Ceiling
    BY <1>3, ConstantsOK DEF Ceiling
  <2>3. QED
    BY <2>1, <2>2
<1>5. QED
  BY <1>4 DEF Init, Shared

LEMMA SharedStep == ASSUME FiniteCalls PROVE SharedInv /\ [Next]_vars => SharedInv'
<1> SUFFICES ASSUME SharedInv, Backend = "memory", [Next]_vars
             PROVE  Shared'
  BY RoundsStep DEF SharedInv, Shared, Ceiling
<1>1. CASE UNCHANGED vars
  BY <1>1 DEF vars, SharedInv, Shared, Asking, Ceiling
<1>2. CASE Next
  BY <1>2, BeginShared, CallShared, EnvironmentShared DEF Next
<1>3. QED
  BY <1>1, <1>2

\* With one call per object at most one is asking, and the limit still holds for it.
LEMMA PrivateRounds ==
  ASSUME FiniteCalls, RoundsInv, Private, NEW o \in Objects
  PROVE  heap[o].rounds + Cardinality(Asking(o)) <= Ceiling
<1>1. PICK a \in Calls : Asking(o) \subseteq {a}
  <2>1. PICK b \in Calls : TRUE
    BY DEF FiniteCalls
  <2>2. \A c, d \in Asking(o) : c = d
    BY DEF Asking, RoundsInv, Owned, Busy
  <2>3. QED
    BY <2>1, <2>2 DEF Asking
<1>2. heap[o].rounds \in Nat /\ heap[o].rounds <= MaxRounds
  BY DEF RoundsInv, Limited, TypeInv, TypeOK, SessionState
<1>3. /\ Cardinality(Asking(o)) \in Nat /\ Cardinality(Calls) \in Nat
      /\ Cardinality(Calls) > 0
  <2>1. Asking(o) \in SUBSET Calls
    BY DEF Asking
  <2>2. QED
    BY <1>1, <2>1, Count
<1>4. CASE Asking(o) = {}
  BY <1>2, <1>3, <1>4, FS_EmptySet, ConstantsOK DEF Ceiling
<1>5. CASE Asking(o) = {a}
  <2>1. heap[o].rounds + 1 <= MaxRounds
    BY <1>2, <1>5, ConstantsOK DEF Asking, RoundsInv, Limited, MayAsk
  <2>2. Cardinality(Asking(o)) <= Cardinality(Calls)
    BY <1>1, Count DEF Asking
  <2>3. QED
    BY <1>2, <1>3, <2>1, <2>2, ConstantsOK DEF Ceiling
<1>6. QED
  BY <1>1, <1>4, <1>5

\* Calls that overlap on one session object may pass the limit, but only by the
\* rounds of calls that were checked before the others counted theirs.
THEOREM SharedRoundsAreBounded ==
  ASSUME FiniteCalls
  PROVE  Spec => []RoundsBoundedWhenShared
<1>1. Init => SharedInv
  BY SharedInit
<1>2. SharedInv /\ [Next]_vars => SharedInv'
  BY SharedStep
<1>3. SharedInv => RoundsBoundedWhenShared
  <2> SUFFICES ASSUME SharedInv, NEW o \in Objects
               PROVE  heap[o].rounds + Cardinality(Asking(o)) <= Ceiling
    BY DEF RoundsBoundedWhenShared, Asking, Ceiling
  <2>1. CASE Backend = "memory"
    BY <2>1 DEF SharedInv
  <2>2. CASE Backend = "valkey"
    BY <2>2, PrivateRounds DEF SharedInv, Private
  <2>3. QED
    BY <2>1, <2>2, ConstantsOK
<1>4. QED
  BY <1>1, <1>2, <1>3, PTL DEF Spec
=============================================================================
