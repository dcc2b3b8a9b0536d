--------------------------- MODULE BriefingProofs ---------------------------
(***************************************************************************)
(* Every safety property of Briefing as a theorem of Spec, for any topic   *)
(* lists, any faults and either backend.                                   *)
(*                                                                         *)
(* Three invariants carry them.  BriefingInv, however calls overlap: the   *)
(* topics before the index have results, and files precede what announces  *)
(* them.  Bounds: a topic session that awaits an answer is in line to      *)
(* expire.  Alone, until two calls are in flight at once: the only call    *)
(* is ahead of what is stored and holds results of its own topics, and     *)
(* when none is in flight the stored progress, the topic session and the   *)
(* order in which they expire are as the host's answer needs them.         *)
(***************************************************************************)
EXTENDS Briefing, ArrangementsProofs

USE DEF NoResults, NotPending, Settled, NoFrame

\* The types but for the order in which entries expire.
Types ==
  /\ pc \in [Calls -> Points]
  /\ frame \in [Calls -> Frame]
  /\ pending \in Progress
  /\ asked \in [Ids -> TopicSession]
  /\ disk \in [Calls -> Files]
  /\ host \in Response

\* The topics before idx have a result and, when ids are distinct, the others none.
Exact(plan, idx, done) ==
  /\ \A i \in 1..Len(plan) : i < idx => done[plan[i].id] # NoQuery
  /\ DistinctIds(plan) => \A i \in 1..Len(plan) : i >= idx => done[plan[i].id] = NoQuery

\* A call suspended at p has the locals f.
Consistent(p, f) ==
  /\ p = "decompose" => f.idx = 1 /\ f.done = NoResults
  /\ p \in {"topic", "resolve", "triage", "query", "save_pending"} =>
       f.plan \in Plans /\ f.idx <= Len(f.plan) /\ Exact(f.plan, f.idx, f.done)
  /\ p \in {"resolve", "triage", "query"} => f.now.query \in Queries
  /\ p \in {"finish", "deliver", "sidecar", "return"} =>
       /\ f.plan \in Plans
       /\ \A i \in 1..Len(f.plan) : f.done[f.plan[i].id] \in Queries
  /\ p \notin {"idle", "return"} => ~f.noted

PendingExact ==
  pending # NotPending =>
    /\ pending.plan \in Plans /\ pending.idx <= Len(pending.plan)
    /\ Exact(pending.plan, pending.idx, pending.done)

\* What a path and an error note say of the two files.
Filed(path, noted, sections, files) ==
  /\ path => files.md
  /\ path /\ ~noted => files.json = sections
  /\ Delivers => path \/ noted

\* The files of a report that is being delivered, and of the last one announced.
Delivered ==
  /\ \A c \in Calls :
       /\ pc[c] = "sidecar" => disk[c].md /\ frame[c].path
       /\ pc[c] = "return" =>
            Filed(frame[c].path, frame[c].noted, SectionsOf(frame[c]), disk[c])
  /\ host.kind = "report" =>
       /\ host.plan \in Plans
       /\ \A i \in 1..Len(host.plan) : host.sections[i] \in Queries
       /\ host.sections # <<>>
       /\ pc[host.by] = "idle" =>
            Filed(host.path, host.noted, host.sections, disk[host.by])

BriefingInv ==
  /\ Types
  /\ \A c \in Calls : Consistent(pc[c], frame[c])
  /\ PendingExact
  /\ Delivered

-----------------------------------------------------------------------------
(* Plans and what is built from them.                                      *)

LEMMA PlanFacts ==
  ASSUME NEW plan \in Plans
  PROVE  /\ plan \in Seq(Topic) /\ Len(plan) \in Nat /\ Len(plan) > 0
         /\ \A i \in 1..Len(plan) : plan[i] \in Topic /\ plan[i].id \in Ids
                                    /\ plan[i].query \in Queries
<1>1. plan \in Seq(Topic) /\ plan # <<>>
  BY BriefingAssumption
<1>2. Len(plan) > 0
  BY <1>1
<1>3. \A i \in 1..Len(plan) : plan[i] \in Topic
  BY <1>1
<1>4. QED
  BY <1>1, <1>2, <1>3 DEF Topic

LEMMA PieceTypes ==
  /\ NoResults \in Results /\ NotPending \in Progress /\ Settled \in TopicSession
  /\ NoFrame \in Frame
  BY DEF Results, Progress, TopicSession, Frame

LEMMA ResponseBy == \A r \in Response : r.by \in Calls
  BY DEF Response

\* A call that has come to the end of its plan has a section for every topic.
LEMMA SectionFacts ==
  ASSUME NEW f \in Frame, f.plan \in Plans,
         \A i \in 1..Len(f.plan) : f.done[f.plan[i].id] \in Queries
  PROVE  /\ SectionsOf(f) \in Sections /\ SectionsOf(f) # <<>>
         /\ \A i \in 1..Len(f.plan) : SectionsOf(f)[i] \in Queries
<1>1. Len(f.plan) \in Nat /\ Len(f.plan) > 0
  BY PlanFacts
<1>2. SectionsOf(f) \in [1..Len(f.plan) -> Queries]
  BY DEF SectionsOf
<1>3. SectionsOf(f) \in Seq(Queries \cup {NoQuery}) /\ Len(SectionsOf(f)) = Len(f.plan)
  BY <1>1, <1>2
<1>4. SectionsOf(f) # <<>>
  BY <1>1, <1>3
<1>5. QED
  BY <1>2, <1>3, <1>4 DEF Sections

-----------------------------------------------------------------------------
(* The control part of a step.                                             *)

LEMMA Moves ==
  ASSUME BriefingInv, NEW c \in Calls, NEW p \in Points, NEW f \in Frame,
         Consistent(p, f), GoTo(c, p, f)
  PROVE  /\ pc' \in [Calls -> Points] /\ frame' \in [Calls -> Frame]
         /\ \A d \in Calls : Consistent(pc'[d], frame'[d])
         /\ pc'[c] = p /\ frame'[c] = f
         /\ \A d \in Calls : d # c => pc'[d] = pc[d] /\ frame'[d] = frame[d]
  BY DEF BriefingInv, Types, GoTo

\* A step within the loop: files and responses stay.
LEMMA LoopMoves ==
  ASSUME BriefingInv, NEW c \in Calls, NEW p \in Points \ {"idle", "sidecar", "return"},
         NEW f \in Frame, Consistent(p, f), GoTo(c, p, f), UNCHANGED <<disk, host>>
  PROVE  /\ pc' \in [Calls -> Points] /\ frame' \in [Calls -> Frame]
         /\ disk' \in [Calls -> Files] /\ host' \in Response
         /\ \A d \in Calls : Consistent(pc'[d], frame'[d])
         /\ Delivered'
<1>1. /\ pc' \in [Calls -> Points] /\ frame' \in [Calls -> Frame]
      /\ \A d \in Calls : Consistent(pc'[d], frame'[d])
      /\ pc'[c] = p
      /\ \A d \in Calls : d # c => pc'[d] = pc[d] /\ frame'[d] = frame[d]
  BY Moves
<1>2. disk' \in [Calls -> Files] /\ host' \in Response
  BY DEF BriefingInv, Types
<1>3. \A d \in Calls : pc'[d] \in {"idle", "sidecar", "return"} =>
        pc'[d] = pc[d] /\ frame'[d] = frame[d]
  BY <1>1
<1>4. Delivered'
  <2>1. host'.by \in Calls /\ host' = host /\ disk' = disk
    BY <1>2, ResponseBy
  <2>2. \A d \in Calls :
          /\ pc'[d] = "sidecar" => disk'[d].md /\ frame'[d].path
          /\ pc'[d] = "return" =>
               Filed(frame'[d].path, frame'[d].noted, SectionsOf(frame'[d]), disk'[d])
    BY <1>3, <2>1 DEF BriefingInv, Delivered
  <2>3. pc'[host'.by] = "idle" => pc[host.by] = "idle"
    BY <1>3, <2>1
  <2>4. QED
    BY <2>1, <2>2, <2>3 DEF BriefingInv, Delivered, SectionsOf
<1>5. QED
  BY <1>1, <1>2, <1>4

\* A call ends without a report.
LEMMA ReturnMoves ==
  ASSUME BriefingInv, NEW c \in Calls, NEW k \in {"failed", "question"},
         Return(c, Reply(c, k)), UNCHANGED disk
  PROVE  /\ pc' \in [Calls -> Points] /\ frame' \in [Calls -> Frame]
         /\ disk' \in [Calls -> Files] /\ host' \in Response
         /\ \A d \in Calls : Consistent(pc'[d], frame'[d])
         /\ Delivered'
<1>1. "idle" \in Points /\ Consistent("idle", NoFrame)
  BY DEF Points, Consistent
<1>2. /\ pc' \in [Calls -> Points] /\ frame' \in [Calls -> Frame]
      /\ \A d \in Calls : Consistent(pc'[d], frame'[d])
      /\ pc'[c] = "idle"
      /\ \A d \in Calls : d # c => pc'[d] = pc[d] /\ frame'[d] = frame[d]
  BY <1>1, PieceTypes, Moves DEF Return
<1>3. host' \in Response /\ host'.kind # "report"
  <2>1. frame[c] \in Frame /\ <<>> \in Sections
    BY DEF BriefingInv, Types, Sections
  <2>2. QED
    BY <2>1 DEF Return, Reply, Response, Frame
<1>4. \A d \in Calls : pc'[d] \in {"sidecar", "return"} =>
        pc'[d] = pc[d] /\ frame'[d] = frame[d]
  BY <1>2
<1>5. \A d \in Calls :
        /\ pc'[d] = "sidecar" => disk'[d].md /\ frame'[d].path
        /\ pc'[d] = "return" =>
             Filed(frame'[d].path, frame'[d].noted, SectionsOf(frame'[d]), disk'[d])
  BY <1>4 DEF BriefingInv, Delivered
<1>6. Delivered'
  BY <1>3, <1>5 DEF Delivered, SectionsOf
<1>7. QED
  BY <1>2, <1>3, <1>6 DEF BriefingInv, Types

LEMMA KeepsPending ==
  ASSUME BriefingInv, pending' = pending
  PROVE  pending' \in Progress /\ PendingExact'
  BY DEF BriefingInv, Types, PendingExact, Exact, DistinctIds

-----------------------------------------------------------------------------
(* The steps of a call.                                                    *)

\* What is stored resumes exactly there; a new plan starts with nothing done.
LEMMA BeginStep ==
  ASSUME BriefingInv, NEW c \in Calls, NEW answer \in BOOLEAN, Begin(c, answer)
  PROVE  BriefingInv'
<1> DEFINE f == [NoFrame EXCEPT !.answer = answer, !.plan = pending.plan,
                                !.idx = pending.idx, !.first = pending.idx,
                                !.done = pending.done]
           p == IF pending = NotPending THEN "decompose" ELSE "topic"
<1>1. pending \in Progress
  BY DEF BriefingInv, Types
<1>2. /\ f \in Frame /\ f.plan = pending.plan /\ f.idx = pending.idx
      /\ f.done = pending.done /\ ~f.noted
  BY <1>1, PieceTypes DEF Frame, Progress
<1>3. p \in Points \ {"idle", "sidecar", "return"}
  BY DEF Points
<1>4. GoTo(c, p, f) /\ UNCHANGED <<pending, asked, disk, host>>
  BY DEF Begin
<1>5. Consistent(p, f)
  <2>1. CASE pending = NotPending
    BY <1>2, <2>1 DEF Consistent
  <2>2. CASE pending # NotPending
    BY <1>2, <2>2 DEF Consistent, BriefingInv, PendingExact
  <2>3. QED
    BY <2>1, <2>2
<1> HIDE DEF f, p
<1>6. QED
  BY <1>2, <1>3, <1>4, <1>5, LoopMoves, KeepsPending DEF BriefingInv, Types

LEMMA DecomposedStep ==
  ASSUME BriefingInv, NEW c \in Calls, Decomposed(c)
  PROVE  BriefingInv'
<1>1. PICK plan \in Plans : GoTo(c, "topic", [frame[c] EXCEPT !.plan = plan])
  BY DEF Decomposed
<1> DEFINE f == [frame[c] EXCEPT !.plan = plan]
<1>2. /\ f \in Frame /\ f.plan = plan /\ f.idx = 1 /\ f.done = NoResults
      /\ ~f.noted
  BY DEF Decomposed, BriefingInv, Types, Frame, Consistent
<1>3. Exact(plan, 1, NoResults) /\ 1 <= Len(plan)
  BY PlanFacts DEF Exact
<1>4. Consistent("topic", f) /\ "topic" \in Points \ {"idle", "sidecar", "return"}
  BY <1>2, <1>3 DEF Consistent, Points
<1>5. GoTo(c, "topic", f) /\ UNCHANGED <<pending, asked, disk, host>>
  BY <1>1 DEF Decomposed
<1> HIDE DEF f
<1>6. QED
  BY <1>2, <1>4, <1>5, LoopMoves, KeepsPending DEF BriefingInv, Types

\* What a call in the loop works on.
LEMMA Looping ==
  ASSUME BriefingInv, NEW c \in Calls,
         pc[c] \in {"topic", "resolve", "triage", "query", "save_pending"}
  PROVE  /\ frame[c] \in Frame /\ frame[c].plan \in Plans /\ ~frame[c].noted
         /\ frame[c].idx \in 1..Len(frame[c].plan) /\ frame[c].idx \in Nat
         /\ Exact(frame[c].plan, frame[c].idx, frame[c].done)
         /\ Current(frame[c]).id \in Ids /\ Current(frame[c]).query \in Queries
<1>1. frame[c] \in Frame /\ frame[c].idx \in Nat \ {0}
  BY DEF BriefingInv, Types, Frame
<1>2. /\ frame[c].plan \in Plans /\ ~frame[c].noted /\ frame[c].idx <= Len(frame[c].plan)
      /\ Exact(frame[c].plan, frame[c].idx, frame[c].done)
  BY DEF BriefingInv, Consistent
<1>3. frame[c].idx \in 1..Len(frame[c].plan)
  BY <1>1, <1>2, PlanFacts
<1>4. QED
  BY <1>1, <1>2, <1>3, PlanFacts DEF Current

\* The locals of a call in the loop with the session of its topic.
LEMMA WithSession ==
  ASSUME BriefingInv, NEW c \in Calls,
         pc[c] \in {"topic", "resolve", "triage", "query", "save_pending"},
         NEW s \in TopicSession
  PROVE  LET f == [frame[c] EXCEPT !.now = s]
         IN  /\ f \in Frame
             /\ \A p \in {"topic", "save_pending"} : Consistent(p, f)
             /\ s.query \in Queries =>
                  \A p \in {"resolve", "triage", "query"} : Consistent(p, f)
<1> DEFINE f == [frame[c] EXCEPT !.now = s]
<1>1. /\ f \in Frame /\ f.plan = frame[c].plan /\ f.idx = frame[c].idx
      /\ f.done = frame[c].done /\ f.noted = frame[c].noted /\ f.now = s
  BY Looping DEF Frame
<1> HIDE DEF f
<1>2. \A p \in {"topic", "save_pending"} : Consistent(p, f)
  BY <1>1, Looping DEF Consistent
<1>3. s.query \in Queries => \A p \in {"resolve", "triage", "query"} : Consistent(p, f)
  BY <1>1, Looping DEF Consistent
<1>4. QED
  BY <1>1, <1>2, <1>3 DEF f

LEMMA StartTopicStep ==
  ASSUME BriefingInv, NEW c \in Calls, StartTopic(c)
  PROVE  BriefingInv'
<1> DEFINE topic == Current(frame[c])
           s == asked[topic.id]
           own == [s EXCEPT !.query = topic.query]
           new == [query |-> topic.query, rounds |-> 0]
<1>1. pc[c] = "topic" /\ UNCHANGED <<pending, asked, disk, host>>
  BY DEF StartTopic
<1>2. topic.id \in Ids /\ topic.query \in Queries /\ s \in TopicSession
  BY <1>1, Looping DEF BriefingInv, Types
<1>3. own \in TopicSession /\ new \in TopicSession
      /\ own.query \in Queries /\ new.query \in Queries
  BY <1>2 DEF TopicSession
<1>4. PICK p \in {"resolve", "triage", "save_pending"}, t \in TopicSession :
        /\ GoTo(c, p, [frame[c] EXCEPT !.now = t])
        /\ p # "save_pending" => t.query \in Queries
  <2>1. CASE s.query # NoQuery /\ GoTo(c, "resolve", [frame[c] EXCEPT !.now = s])
    BY <1>2, <2>1 DEF TopicSession
  <2>2. CASE GoTo(c, "save_pending", [frame[c] EXCEPT !.now = s])
    BY <1>2, <2>2
  <2>3. CASE GoTo(c, "triage", [frame[c] EXCEPT !.now = own])
    <3> HIDE DEF own
    <3>1. QED
      BY <1>3, <2>3
  <2>4. CASE GoTo(c, "triage", [frame[c] EXCEPT !.now = new])
    <3> HIDE DEF new
    <3>1. QED
      BY <1>3, <2>4
  <2>5. QED
    BY <2>1, <2>2, <2>3, <2>4 DEF StartTopic
<1> DEFINE f == [frame[c] EXCEPT !.now = t]
<1>5. f \in Frame /\ Consistent(p, f)
  BY <1>1, <1>4, WithSession
<1>6. p \in Points \ {"idle", "sidecar", "return"}
  BY DEF Points
<1> HIDE DEF f
<1>7. GoTo(c, p, f)
  BY <1>4 DEF f
<1>8. QED
  BY <1>1, <1>5, <1>6, <1>7, LoopMoves, KeepsPending DEF BriefingInv, Types

LEMMA AskingStep ==
  ASSUME BriefingInv, NEW c \in Calls,
         AnswerResolved(c) \/ TopicAsks(c) \/ TopicDispatches(c) \/ TopicRephrases(c)
  PROVE  BriefingInv'
<1> DEFINE k == Current(frame[c]).id
           now == frame[c].now
           counted == [now EXCEPT !.rounds = @ + 1]
<1>1. /\ pc[c] \in {"resolve", "triage", "query"}
      /\ UNCHANGED <<pending, disk, host>>
  BY DEF AnswerResolved, TopicAsks, TopicDispatches, TopicRephrases
<1>2. /\ frame[c] \in Frame /\ now \in TopicSession /\ now.query \in Queries /\ k \in Ids
      /\ frame[c] = [frame[c] EXCEPT !.now = now]
  BY <1>1, Looping DEF BriefingInv, Consistent, Frame
<1>3. counted \in TopicSession /\ counted.query \in Queries
  BY <1>2 DEF TopicSession
<1>4. /\ "triage" \in Points \ {"idle", "sidecar", "return"}
      /\ "query" \in Points \ {"idle", "sidecar", "return"}
      /\ "save_pending" \in Points \ {"idle", "sidecar", "return"}
  BY DEF Points
<1>5. /\ Consistent("triage", frame[c]) /\ Consistent("query", frame[c])
      /\ Consistent("save_pending", frame[c])
  <2> HIDE DEF now
  <2>1. QED
    BY <1>1, <1>2, WithSession
<1>6. CASE AnswerResolved(c)
  <2>1. asked' \in [Ids -> TopicSession]
    BY <1>2, <1>6 DEF AnswerResolved, BriefingInv, Types, TopicSession
  <2>2. QED
    BY <1>1, <1>2, <1>4, <1>5, <1>6, <2>1, LoopMoves, KeepsPending
       DEF AnswerResolved, BriefingInv, Types
<1>7. CASE TopicAsks(c)
  <2> DEFINE f == [frame[c] EXCEPT !.now = counted]
  <2>1. asked' = [asked EXCEPT ![k] = counted] /\ GoTo(c, "save_pending", f)
    BY <1>7 DEF TopicAsks
  <2>2. f \in Frame /\ Consistent("save_pending", f)
    <3> HIDE DEF counted
    <3>1. QED
      BY <1>1, <1>3, WithSession
  <2> HIDE DEF f, counted
  <2>3. asked' \in [Ids -> TopicSession]
    BY <1>2, <1>3, <2>1 DEF BriefingInv, Types
  <2>4. QED
    BY <1>1, <1>4, <2>1, <2>2, <2>3, LoopMoves, KeepsPending DEF BriefingInv, Types
<1>8. CASE TopicDispatches(c)
  <2>1. asked' \in [Ids -> TopicSession]
    BY <1>2, <1>8, PieceTypes DEF TopicDispatches, BriefingInv, Types
  <2>2. QED
    BY <1>1, <1>2, <1>4, <1>5, <1>8, <2>1, LoopMoves, KeepsPending
       DEF TopicDispatches, BriefingInv, Types
<1>9. CASE TopicRephrases(c)
  BY <1>1, <1>2, <1>4, <1>5, <1>9, LoopMoves, KeepsPending
     DEF TopicRephrases, BriefingInv, Types
<1>10. QED
  BY <1>6, <1>7, <1>8, <1>9

\* The result of the topic at idx makes the completed prefix one longer.
LEMMA ExactGrows ==
  ASSUME NEW plan \in Plans, NEW idx \in 1..Len(plan), NEW done \in Results,
         Exact(plan, idx, done), NEW q \in Queries
  PROVE  Exact(plan, idx + 1, [done EXCEPT ![plan[idx].id] = q])
<1> DEFINE d == [done EXCEPT ![plan[idx].id] = q]
<1>1. \A i \in 1..Len(plan) : plan[i].id \in Ids
  BY PlanFacts
<1>2. \A id \in Ids : d[id] = IF id = plan[idx].id THEN q ELSE done[id]
  BY DEF Results
<1>3. q # NoQuery /\ Len(plan) \in Nat
  BY BriefingAssumption, PlanFacts
<1> HIDE DEF d
<1>4. \A i \in 1..Len(plan) : i < idx + 1 => d[plan[i].id] # NoQuery
  BY <1>1, <1>2, <1>3 DEF Exact
<1>5. DistinctIds(plan) =>
        \A i \in 1..Len(plan) : i >= idx + 1 => d[plan[i].id] = NoQuery
  BY <1>1, <1>2, <1>3 DEF Exact, DistinctIds
<1>6. QED
  BY <1>4, <1>5 DEF Exact, d

LEMMA TopicCompletesStep ==
  ASSUME BriefingInv, NEW c \in Calls, TopicCompletes(c)
  PROVE  BriefingInv'
<1> DEFINE f == frame[c]
           q == f.now.query
           d == [f.done EXCEPT ![Current(f).id] = q]
           g == [f EXCEPT !.done = d, !.now = Settled]
           h == [g EXCEPT !.idx = @ + 1]
<1>1. pc[c] = "query" /\ UNCHANGED <<pending, asked, disk, host>>
  BY DEF TopicCompletes
<1>2. /\ f \in Frame /\ f.plan \in Plans /\ ~f.noted /\ f.idx \in 1..Len(f.plan)
      /\ f.done \in Results /\ q \in Queries /\ Current(f).id \in Ids
      /\ Exact(f.plan, f.idx, f.done)
  BY <1>1, Looping DEF BriefingInv, Consistent, Frame
<1>3. d \in Results /\ Exact(f.plan, f.idx + 1, d)
  <2>1. d \in Results
    BY <1>2 DEF Results
  <2>2. QED
    BY <1>2, <2>1, ExactGrows DEF Current
<1>4. IF f.idx < Len(f.plan) THEN GoTo(c, "topic", h) ELSE GoTo(c, "finish", g)
  <2> DEFINE e == [f EXCEPT !.done[Current(f).id] = q, !.now = Settled]
  <2>1. e = g
    BY <1>2 DEF Frame
  <2>2. IF f.idx < Len(f.plan)
        THEN GoTo(c, "topic", [e EXCEPT !.idx = @ + 1]) ELSE GoTo(c, "finish", e)
    BY DEF TopicCompletes
  <2>3. [e EXCEPT !.idx = @ + 1] = h
    BY <2>1
  <2> DEFINE t == [e EXCEPT !.idx = @ + 1]
  <2>4. IF f.idx < Len(f.plan) THEN GoTo(c, "topic", t) ELSE GoTo(c, "finish", e)
    BY <2>2
  <2>5. t = h
    BY <2>3
  <2> HIDE DEF e, f, g, h, t
  <2>6. QED
    BY <2>1, <2>4, <2>5
<1> HIDE DEF d
<1>5. /\ g \in Frame /\ g.plan = f.plan /\ g.done = d /\ g.idx = f.idx /\ ~g.noted
      /\ h \in Frame /\ h.plan = f.plan /\ h.done = d /\ h.idx = f.idx + 1 /\ ~h.noted
  <2>1. g \in Frame /\ g.plan = f.plan /\ g.done = d /\ g.idx = f.idx /\ ~g.noted
    BY <1>2, <1>3, PieceTypes DEF Frame
  <2> HIDE DEF g
  <2>2. h \in Frame /\ h.plan = g.plan /\ h.done = g.done /\ h.idx = g.idx + 1 /\ ~h.noted
    BY <2>1, PieceTypes DEF Frame
  <2>3. QED
    BY <2>1, <2>2
<1> HIDE DEF g, h, q
<1>6. CASE f.idx < Len(f.plan)
  <2>1. Consistent("topic", h) /\ "topic" \in Points \ {"idle", "sidecar", "return"}
    BY <1>2, <1>3, <1>5, <1>6, PlanFacts DEF Consistent, Points
  <2>2. GoTo(c, "topic", h)
    BY <1>4, <1>6
  <2>3. QED
    BY <1>1, <1>5, <2>1, <2>2, LoopMoves, KeepsPending DEF BriefingInv, Types
<1>7. CASE ~(f.idx < Len(f.plan))
  <2>1. f.idx = Len(f.plan) /\ Len(f.plan) \in Nat
    BY <1>2, <1>7, PlanFacts
  <2>2. \A i \in 1..Len(f.plan) : d[f.plan[i].id] # NoQuery /\ f.plan[i].id \in Ids
    BY <1>2, <1>3, <2>1, PlanFacts DEF Exact
  <2>3. \A i \in 1..Len(f.plan) : d[f.plan[i].id] \in Queries
    BY <1>3, <2>2 DEF Results
  <2>4. Consistent("finish", g) /\ "finish" \in Points \ {"idle", "sidecar", "return"}
    BY <1>2, <1>5, <2>3 DEF Consistent, Points
  <2>5. GoTo(c, "finish", g)
    BY <1>4, <1>7
  <2>6. QED
    BY <1>1, <1>5, <2>4, <2>5, LoopMoves, KeepsPending DEF BriefingInv, Types
<1>8. QED
  BY <1>6, <1>7

\* What is stored is what the call holds.
LEMMA SavePendingStep ==
  ASSUME BriefingInv, NEW c \in Calls, SavePending(c)
  PROVE  BriefingInv'
<1> DEFINE f == frame[c]
<1>1. /\ pc[c] = "save_pending" /\ UNCHANGED <<asked, disk>>
      /\ pending' = [plan |-> f.plan, idx |-> f.idx, done |-> f.done]
      /\ Return(c, Reply(c, "question"))
  BY DEF SavePending
<1>2. /\ f \in Frame /\ f.plan \in Plans /\ f.idx <= Len(f.plan)
      /\ Exact(f.plan, f.idx, f.done)
  BY <1>1, Looping
<1>3. pending' \in Progress
  BY <1>1, <1>2 DEF Frame, Progress
<1>4. PendingExact'
  BY <1>1, <1>2 DEF PendingExact, Exact, DistinctIds
<1>5. QED
  BY <1>1, <1>3, <1>4, ReturnMoves DEF BriefingInv, Types

LEMMA FailureStep ==
  ASSUME BriefingInv, NEW c \in Calls, DecomposeFails(c) \/ Raises(c)
  PROVE  BriefingInv'
<1>1. UNCHANGED <<pending, asked, disk>> /\ Return(c, Reply(c, "failed"))
  BY DEF DecomposeFails, Raises
<1>2. QED
  BY <1>1, ReturnMoves, KeepsPending DEF BriefingInv, Types

\* What a call past the loop works on.
LEMMA Ending ==
  ASSUME BriefingInv, NEW c \in Calls, pc[c] \in {"finish", "deliver", "sidecar", "return"}
  PROVE  /\ frame[c] \in Frame /\ frame[c].plan \in Plans
         /\ \A i \in 1..Len(frame[c].plan) : frame[c].done[frame[c].plan[i].id] \in Queries
         /\ pc[c] # "return" => ~frame[c].noted
  BY DEF BriefingInv, Types, Consistent

LEMMA FinishStep ==
  ASSUME BriefingInv, NEW c \in Calls, Finish(c)
  PROVE  BriefingInv'
<1>1. /\ pc[c] = "finish" /\ UNCHANGED <<asked, disk, host>>
      /\ pending' = NotPending /\ GoTo(c, "deliver", frame[c])
  BY DEF Finish
<1>2. /\ Consistent("deliver", frame[c]) /\ frame[c] \in Frame
      /\ "deliver" \in Points \ {"idle", "sidecar", "return"}
  BY <1>1, Ending DEF Consistent, Points
<1>3. pending' \in Progress /\ PendingExact'
  BY <1>1, PieceTypes DEF PendingExact
<1>4. QED
  BY <1>1, <1>2, <1>3, LoopMoves DEF BriefingInv, Types

\* The two files are written one after the other, and a failure is noted.
LEMMA FilesStep ==
  ASSUME BriefingInv, NEW c \in Calls,
         \/ Undelivered(c) \/ Deliver(c) \/ DeliverFails(c)
         \/ Sidecar(c) \/ SidecarFails(c)
  PROVE  BriefingInv'
<1> DEFINE f == frame[c]
           fp == [f EXCEPT !.path = TRUE]
           fu == [f EXCEPT !.path = FALSE]
           fd == [f EXCEPT !.path = FALSE, !.noted = TRUE]
           fn == [f EXCEPT !.noted = TRUE]
<1>1. /\ pc[c] \in {"deliver", "sidecar"} /\ UNCHANGED <<pending, asked, host>>
      /\ \A d \in Calls : d # c => disk'[d] = disk[d]
  BY DEF Undelivered, Deliver, DeliverFails, Sidecar, SidecarFails, BriefingInv, Types
<1>2. /\ f \in Frame /\ f.plan \in Plans /\ ~f.noted
      /\ \A i \in 1..Len(f.plan) : f.done[f.plan[i].id] \in Queries
  BY <1>1, Ending
<1>3. SectionsOf(f) \in Sections
  BY <1>2, SectionFacts
<1>4. /\ fp \in Frame /\ fp.plan = f.plan /\ fp.done = f.done /\ ~fp.noted /\ fp.path
      /\ fu \in Frame /\ fu.plan = f.plan /\ fu.done = f.done /\ ~fu.path
      /\ fd \in Frame /\ fd.plan = f.plan /\ fd.done = f.done /\ fd.noted /\ ~fd.path
      /\ fn \in Frame /\ fn.plan = f.plan /\ fn.done = f.done /\ fn.noted /\ fn.path = f.path
  BY <1>2 DEF Frame
<1>5. "sidecar" \in Points /\ "return" \in Points
  BY DEF Points
<1> HIDE DEF fp, fu, fd, fn
<1>6. /\ Consistent("sidecar", fp) /\ Consistent("return", f) /\ Consistent("return", fu)
      /\ Consistent("return", fd) /\ Consistent("return", fn)
  BY <1>2, <1>4 DEF Consistent
<1>7. disk' \in [Calls -> Files] /\ disk[c] \in Files
  <2>1. <<>> \in Sections /\ disk \in [Calls -> Files]
    BY DEF Sections, BriefingInv, Types
  <2>2. disk[c] \in Files
    BY <2>1
  <2>3. CASE Deliver(c) \/ DeliverFails(c)
    <3>1. [md |-> TRUE, json |-> <<>>] \in Files /\ [md |-> FALSE, json |-> <<>>] \in Files
      BY <2>1 DEF Files
    <3>2. QED
      BY <2>1, <2>2, <2>3, <3>1 DEF Deliver, DeliverFails
  <2>4. CASE Sidecar(c)
    <3>1. [disk[c] EXCEPT !.json = SectionsOf(f)] \in Files
      BY <1>3, <2>2 DEF Files
    <3>2. disk' = [disk EXCEPT ![c] = [disk[c] EXCEPT !.json = SectionsOf(f)]]
      BY <2>4 DEF Sidecar
    <3>3. QED
      BY <2>1, <2>2, <3>1, <3>2
  <2>5. CASE SidecarFails(c) \/ Undelivered(c)
    BY <2>1, <2>2, <2>5 DEF SidecarFails, Undelivered
  <2>6. QED
    BY <2>3, <2>4, <2>5
<1>8. PICK p \in {"sidecar", "return"}, g \in Frame :
        /\ GoTo(c, p, g) /\ Consistent(p, g)
        /\ p = "sidecar" => disk'[c].md /\ g.path
        /\ p = "return" => Filed(g.path, g.noted, SectionsOf(g), disk'[c])
  <2>1. CASE Deliver(c)
    <3>1. GoTo(c, "sidecar", fp)
      BY <2>1 DEF Deliver, fp
    <3>2. disk'[c].md
      BY <2>1 DEF Deliver, BriefingInv, Types
    <3>3. QED
      BY <1>4, <1>6, <3>1, <3>2
  <2>2. CASE DeliverFails(c)
    <3>1. GoTo(c, "return", fd)
      BY <2>2 DEF DeliverFails, fd
    <3>2. Filed(fd.path, fd.noted, SectionsOf(fd), disk'[c])
      BY <1>4 DEF Filed
    <3>3. QED
      BY <1>4, <1>6, <3>1, <3>2
  <2>3. CASE Undelivered(c)
    <3>1. GoTo(c, "return", fu) /\ ~Delivers
      BY <2>3 DEF Undelivered, fu
    <3>2. Filed(fu.path, fu.noted, SectionsOf(fu), disk'[c])
      BY <1>4, <3>1 DEF Filed
    <3>3. QED
      BY <1>4, <1>6, <3>1, <3>2
  <2>4. CASE SidecarFails(c)
    <3>1. GoTo(c, "return", fn) /\ disk'[c] = disk[c]
      BY <2>4 DEF SidecarFails, fn
    <3>2. disk[c].md
      BY <2>4 DEF SidecarFails, BriefingInv, Delivered
    <3>3. Filed(fn.path, fn.noted, SectionsOf(fn), disk'[c])
      BY <1>4, <3>1, <3>2 DEF Filed
    <3>4. QED
      BY <1>4, <1>6, <3>1, <3>3
  <2>5. CASE Sidecar(c)
    <3>1. disk[c].md /\ f.path
      BY <2>5 DEF Sidecar, BriefingInv, Delivered
    <3>2. disk'[c] = [disk[c] EXCEPT !.json = SectionsOf(f)]
      BY <2>5 DEF Sidecar, BriefingInv, Types
    <3>3. disk'[c].md /\ disk'[c].json = SectionsOf(f)
      BY <1>7, <3>1, <3>2 DEF Files
    <3>4. GoTo(c, "return", f)
      BY <2>5 DEF Sidecar
    <3>5. Filed(f.path, f.noted, SectionsOf(f), disk'[c])
      BY <3>1, <3>3 DEF Filed
    <3>6. QED
      BY <1>2, <1>6, <3>4, <3>5
  <2>6. QED
    BY <2>1, <2>2, <2>3, <2>4, <2>5
<1>9. /\ pc' \in [Calls -> Points] /\ frame' \in [Calls -> Frame]
      /\ \A d \in Calls : Consistent(pc'[d], frame'[d])
      /\ pc'[c] = p /\ frame'[c] = g
      /\ \A d \in Calls : d # c => pc'[d] = pc[d] /\ frame'[d] = frame[d]
  <2> HIDE DEF f
  <2>1. p \in Points
    BY <1>5
  <2>2. QED
    BY <1>8, <2>1, Moves
<1>10. Delivered'
  <2>1. \A d \in Calls :
          /\ pc'[d] = "sidecar" => disk'[d].md /\ frame'[d].path
          /\ pc'[d] = "return" =>
               Filed(frame'[d].path, frame'[d].noted, SectionsOf(frame'[d]), disk'[d])
    BY <1>1, <1>8, <1>9 DEF BriefingInv, Delivered
  <2>2. host' \in Response /\ host'.by \in Calls
    BY <1>1, ResponseBy DEF BriefingInv, Types
  <2>3. pc'[host'.by] = "idle" => host'.by # c
    BY <1>8, <1>9
  <2>4. QED
    BY <1>1, <1>9, <2>1, <2>2, <2>3 DEF BriefingInv, Delivered, SectionsOf
<1>11. QED
  BY <1>1, <1>7, <1>9, <1>10, KeepsPending DEF BriefingInv, Types

LEMMA ReturnReportStep ==
  ASSUME BriefingInv, NEW c \in Calls, ReturnReport(c)
  PROVE  BriefingInv'
<1> DEFINE f == frame[c]
<1>1. /\ pc[c] = "return" /\ UNCHANGED <<pending, asked, disk>>
      /\ GoTo(c, "idle", NoFrame)
      /\ host' = [Reply(c, "report") EXCEPT !.sections = SectionsOf(f)]
  BY DEF ReturnReport, Return
<1>2. /\ host'.kind = "report" /\ host'.plan = f.plan /\ host'.noted = f.noted
      /\ host'.path = f.path
      /\ host'.by = c /\ host'.sections = SectionsOf(f)
  BY <1>1 DEF Reply
<1>3. /\ f.plan \in Plans /\ SectionsOf(f) # <<>>
      /\ \A i \in 1..Len(f.plan) : SectionsOf(f)[i] \in Queries
  BY <1>1, Ending, SectionFacts
<1>4. Filed(f.path, f.noted, SectionsOf(f), disk[c])
  BY <1>1 DEF BriefingInv, Delivered
<1>5. "idle" \in Points /\ Consistent("idle", NoFrame)
  BY DEF Points, Consistent
<1>6. /\ pc' \in [Calls -> Points] /\ frame' \in [Calls -> Frame]
      /\ \A d \in Calls : Consistent(pc'[d], frame'[d])
      /\ pc'[c] = "idle"
      /\ \A d \in Calls : d # c => pc'[d] = pc[d] /\ frame'[d] = frame[d]
  BY <1>1, <1>5, PieceTypes, Moves
<1>7. \A d \in Calls : pc'[d] \in {"sidecar", "return"} =>
        pc'[d] = pc[d] /\ frame'[d] = frame[d]
  BY <1>6
<1>8. \A d \in Calls :
        /\ pc'[d] = "sidecar" => disk'[d].md /\ frame'[d].path
        /\ pc'[d] = "return" =>
             Filed(frame'[d].path, frame'[d].noted, SectionsOf(frame'[d]), disk'[d])
  BY <1>1, <1>7 DEF BriefingInv, Delivered
<1> HIDE DEF f
<1>9. Delivered'
  BY <1>1, <1>2, <1>3, <1>4, <1>8 DEF Delivered, SectionsOf
<1>10. host' \in Response
  <2>1. SectionsOf(frame[c]) \in Sections /\ frame[c] \in Frame
    BY <1>1, Ending, SectionFacts
  <2>2. QED
    BY <1>1, <2>1 DEF Reply, Response, Frame, f
<1>11. QED
  BY <1>1, <1>6, <1>9, <1>10, KeepsPending DEF BriefingInv, Types

-----------------------------------------------------------------------------
(* The environment.                                                        *)

LEMMA ExpireStep ==
  ASSUME BriefingInv, Expire
  PROVE  BriefingInv'
<1>1. UNCHANGED <<pc, frame, host, disk>>
  BY DEF Expire
<1>2. pending' \in {pending, NotPending}
  BY DEF Expire
<1>3. pending' \in Progress /\ PendingExact'
  BY <1>2, PieceTypes, KeepsPending DEF PendingExact
<1>4. asked' \in [Ids -> TopicSession]
  BY PieceTypes DEF Expire, BriefingInv, Types
<1>5. Delivered' /\ \A c \in Calls : Consistent(pc'[c], frame'[c])
  BY <1>1 DEF BriefingInv, Delivered, SectionsOf
<1>6. QED
  BY <1>1, <1>3, <1>4, <1>5 DEF BriefingInv, Types

\* A lost call leaves no report behind that its host would look for.
LEMMA RestartStep ==
  ASSUME BriefingInv, Restart
  PROVE  BriefingInv'
<1>1. /\ pc' = [c \in Calls |-> "idle"] /\ frame' = [c \in Calls |-> NoFrame]
      /\ disk' = disk
      /\ host' = IF \A c \in Calls : pc[c] = "idle" THEN host
                 ELSE [host EXCEPT !.kind = "failed"]
  BY DEF Restart
<1>2. pending' \in {pending, NotPending}
  BY DEF Restart
<1>3. pending' \in Progress /\ PendingExact'
  BY <1>2, PieceTypes, KeepsPending DEF PendingExact
<1>4. asked' \in [Ids -> TopicSession]
  BY PieceTypes DEF Restart, BriefingInv, Types
<1>5. \A c \in Calls : Consistent(pc'[c], frame'[c])
  BY <1>1 DEF Consistent
<1>6. Delivered' /\ host' \in Response
  <2>1. CASE \A c \in Calls : pc[c] = "idle"
    BY <1>1, <2>1 DEF BriefingInv, Types, Delivered
  <2>2. CASE ~\A c \in Calls : pc[c] = "idle"
    <3>1. host'.kind # "report"
      BY <1>1, <2>2 DEF BriefingInv, Types, Response
    <3>2. host' \in Response
      BY <1>1, <2>2 DEF BriefingInv, Types, Response
    <3>3. QED
      BY <1>1, <3>1, <3>2 DEF Delivered
  <2>3. QED
    BY <2>1, <2>2
<1>7. pc' \in [Calls -> Points] /\ frame' \in [Calls -> Frame]
  BY <1>1, PieceTypes DEF Points
<1>8. QED
  BY <1>1, <1>3, <1>4, <1>5, <1>6, <1>7 DEF BriefingInv, Types

-----------------------------------------------------------------------------
LEMMA BriefingInit == Init => BriefingInv
<1> SUFFICES ASSUME Init
             PROVE  BriefingInv
  OBVIOUS
<1>1. host \in Response /\ host.kind = "none"
  <2>1. <<>> \in Sections
    BY DEF Sections
  <2>2. PICK c \in Calls : host = Reply(c, "none") /\ frame[c] = NoFrame
    BY DEF Init
  <2>3. QED
    BY <2>1, <2>2, PieceTypes DEF Reply, Response, Frame
<1>2. Types
  <2>1. [md |-> FALSE, json |-> <<>>] \in Files
    BY DEF Files, Sections
  <2>2. QED
    BY <1>1, <2>1, PieceTypes DEF Init, Types, Points
<1>3. \A c \in Calls : Consistent(pc[c], frame[c])
  BY DEF Init, Consistent
<1>4. PendingExact /\ Delivered
  BY <1>1 DEF Init, PendingExact, Delivered
<1>5. QED
  BY <1>2, <1>3, <1>4 DEF BriefingInv

LEMMA BriefingStep == BriefingInv /\ [Next]_vars => BriefingInv'
<1> SUFFICES ASSUME BriefingInv, [Next]_vars
             PROVE  BriefingInv'
  OBVIOUS
<1>1. CASE UNCHANGED vars
  BY <1>1 DEF vars, BriefingInv, Types, PendingExact, Delivered, SectionsOf
<1>2. ASSUME NEW c \in Calls, NEW answer \in BOOLEAN, Begin(c, answer)
      PROVE  BriefingInv'
  BY <1>2, BeginStep
<1>3. ASSUME NEW c \in Calls, Advance(c)
      PROVE  BriefingInv'
  BY <1>3, DecomposedStep, StartTopicStep, AskingStep, TopicCompletesStep,
     SavePendingStep, FailureStep, FinishStep, FilesStep, ReturnReportStep DEF Advance
<1>4. CASE Expire
  BY <1>4, ExpireStep
<1>5. CASE Restart
  BY <1>5, RestartStep
<1>6. QED
  BY <1>1, <1>2, <1>3, <1>4, <1>5 DEF Next

LEMMA BriefingInvariant == Spec => []BriefingInv
  BY BriefingInit, BriefingStep, PTL DEF Spec

\* Whatever calls overlap or fail, a stored briefing has results for the topics
\* before the pending one and for no other.
THEOREM ProgressIsExact == Spec => []CompletedPrefix
<1>1. BriefingInv => CompletedPrefix
  <2> SUFFICES ASSUME BriefingInv, DistinctIds(pending.plan),
                      NEW i \in 1..Len(pending.plan)
               PROVE  pending.done[pending.plan[i].id] # NoQuery <=> i < pending.idx
    BY DEF CompletedPrefix
  <2>1. CASE pending = NotPending
    BY <2>1, BriefingAssumption
  <2>2. CASE pending # NotPending
    <3>1. Exact(pending.plan, pending.idx, pending.done) /\ pending.plan \in Plans
      BY <2>2 DEF BriefingInv, PendingExact
    <3>2. pending.idx \in Nat /\ i \in Nat
      BY <3>1, PlanFacts DEF BriefingInv, Types, Progress
    <3>3. QED
      BY <3>1, <3>2 DEF Exact
  <2>3. QED
    BY <2>1, <2>2
<1>2. QED
  BY <1>1, BriefingInvariant, PTL

\* Whatever calls of the session overlap, no topic of a report is without a result.
THEOREM ReportsAreComplete == Spec => []EveryTopicReported
<1>1. BriefingInv => EveryTopicReported
  BY DEF BriefingInv, Delivered, EveryTopicReported
<1>2. QED
  BY <1>1, BriefingInvariant, PTL

\* get_briefing_report finds what was announced with a path, although the markdown and
\* the JSON file are written one after the other and a crash, a full disk or another
\* call of the session may come in between; and where reports are delivered, one is
\* announced with a path or with an error.
THEOREM ReportsAreReadable == Spec => []ReportIsReadable
<1>1. BriefingInv => ReportIsReadable
  <2> SUFFICES ASSUME BriefingInv, Resting, host.kind = "report"
               PROVE  /\ host.path => disk[host.by].md
                      /\ host.path /\ ~host.noted =>
                           disk[host.by].json = host.sections /\ disk[host.by].json # <<>>
                      /\ Delivers => host.path \/ host.noted
    BY DEF ReportIsReadable, GetReport
  <2>1. host.sections # <<>> /\ Filed(host.path, host.noted, host.sections, disk[host.by])
    BY ResponseBy DEF BriefingInv, Types, Delivered, Resting
  <2>2. QED
    BY <2>1 DEF Filed
<1>2. QED
  BY <1>1, BriefingInvariant, PTL

-----------------------------------------------------------------------------
(* The stores' entries and the bounds.                                     *)

\* An entry that is set is in line to expire.
Lined == \A id \in Ids : asked[id].query # NoQuery => \E i \in DOMAIN expiry : expiry[i] = id

Keys == Ids \cup {BriefingKey}

Bounds ==
  /\ expiry \in Seq(Keys)
  /\ solo \in BOOLEAN
  /\ mishaps \in 0..MaxMishaps
  /\ Lined

\* What is removed from the line is gone, the rest stays.
LEMMA RemovedFacts ==
  ASSUME expiry \in Seq(Keys), NEW k, NEW line, line = Removed(k)
  PROVE  /\ line \in Seq(Keys)
         /\ \A n \in 1..Len(line) : line[n] # k
         /\ \A i \in 1..Len(expiry) : expiry[i] # k => \E n \in 1..Len(line) : line[n] = expiry[i]
<1>1. DOMAIN expiry = 1..Len(expiry)
  OBVIOUS
<1>2. PICK I : I = {i \in DOMAIN expiry : expiry[i] # k}
  OBVIOUS
<1>3. I \in SUBSET (1..Len(expiry)) /\ \A i \in 1..Len(expiry) : i \in I <=> expiry[i] # k
  BY <1>1, <1>2
<1>4. line = Picked(expiry, I)
  BY <1>2 DEF Removed
<1>5. PICK s \in Seq(Keys) : s = expiry
  OBVIOUS
<1>6. I \in SUBSET (1..Len(s)) /\ line = Picked(s, I)
  BY <1>3, <1>4, <1>5
<1>7. /\ line \in Seq(Keys)
      /\ \A n \in 1..Len(line) : \E i \in I : line[n] = s[i]
      /\ \A i \in I : \E n \in 1..Len(line) : line[n] = s[i]
  <2>1. /\ Picked(s, I) \in Seq(Keys)
        /\ \A n \in 1..Len(Picked(s, I)) : \E i \in I : Picked(s, I)[n] = s[i]
        /\ \A i \in I : \E n \in 1..Len(Picked(s, I)) : Picked(s, I)[n] = s[i]
    BY <1>6, PickedFacts
  <2>2. QED
    BY <1>6, <2>1
<1>8. \A n \in 1..Len(line) : line[n] # k
  BY <1>3, <1>5, <1>7
<1>9. \A i \in 1..Len(expiry) : expiry[i] # k => \E n \in 1..Len(line) : line[n] = expiry[i]
  BY <1>3, <1>5, <1>7
<1>10. QED
  BY <1>7, <1>8, <1>9

\* What is touched is last in line.
LEMMA TouchedFacts ==
  ASSUME expiry \in Seq(Keys), NEW k \in Keys, NEW line, line = Touched(k)
  PROVE  /\ line \in Seq(Keys) /\ Len(line) \in Nat /\ Len(line) > 0
         /\ line[Len(line)] = k
         /\ \A n \in 1..Len(line) : line[n] = k => n = Len(line)
         /\ \A i \in 1..Len(expiry) : \E n \in 1..Len(line) : line[n] = expiry[i]
<1>1. PICK rest : rest = Removed(k)
  OBVIOUS
<1>2. /\ rest \in Seq(Keys)
      /\ \A n \in 1..Len(rest) : rest[n] # k
      /\ \A i \in 1..Len(expiry) : expiry[i] # k => \E n \in 1..Len(rest) : rest[n] = expiry[i]
  BY <1>1, RemovedFacts
<1>3. line = Append(rest, k) /\ Len(rest) \in Nat
  BY <1>1, <1>2 DEF Touched
<1>4. /\ line \in Seq(Keys) /\ Len(line) = Len(rest) + 1 /\ line[Len(rest) + 1] = k
      /\ \A n \in 1..Len(rest) : line[n] = rest[n]
  BY <1>2, <1>3
<1>5. \A n \in 1..Len(line) : line[n] = k => n = Len(line)
  BY <1>2, <1>3, <1>4
<1>6. ASSUME NEW i \in 1..Len(expiry)
      PROVE  \E n \in 1..Len(line) : line[n] = expiry[i]
  <2>1. CASE expiry[i] = k
    BY <1>3, <1>4, <2>1
  <2>2. CASE expiry[i] # k
    BY <1>2, <1>3, <1>4, <2>2
  <2>3. QED
    BY <2>1, <2>2
<1>7. QED
  BY <1>3, <1>4, <1>5, <1>6

\* A step sets no session but that of k, which it then puts at the end of the line.
LEMMA LineKept ==
  ASSUME Bounds, NEW k \in Keys, expiry' \in {expiry, Removed(k), Touched(k)},
         \A id \in Ids \ {k} : asked'[id].query # NoQuery => asked[id].query # NoQuery,
         k \in Ids => \/ asked'[k].query = NoQuery
                      \/ expiry' = Touched(k)
                      \/ expiry' = expiry /\ asked[k].query # NoQuery
  PROVE  expiry' \in Seq(Keys) /\ Lined'
<1>1. /\ expiry \in Seq(Keys)
      /\ \A id \in Ids : asked[id].query # NoQuery => \E i \in 1..Len(expiry) : expiry[i] = id
  <2>1. expiry \in Seq(Keys) /\ Lined
    BY DEF Bounds
  <2>2. DOMAIN expiry = 1..Len(expiry)
    BY <2>1
  <2>3. QED
    BY <2>1, <2>2 DEF Lined
<1>2. PICK line : line = expiry'
  OBVIOUS
<1>3. line \in Seq(Keys)
  BY <1>1, <1>2, RemovedFacts, TouchedFacts
<1>4. ASSUME NEW id \in Ids, asked'[id].query # NoQuery
      PROVE  \E n \in 1..Len(line) : line[n] = id
  <2>1. CASE line = Touched(k) /\ id = k
    <3>1. Len(line) \in Nat /\ Len(line) > 0 /\ line[Len(line)] = k
      BY <1>1, <2>1, TouchedFacts
    <3>2. QED
      BY <2>1, <3>1
  <2>2. CASE line = Touched(k) /\ id # k
    <3>1. asked[id].query # NoQuery
      BY <1>4, <2>2
    <3>2. PICK i \in 1..Len(expiry) : expiry[i] = id
      BY <1>1, <3>1
    <3>3. line = Touched(k) /\ expiry \in Seq(Keys)
      BY <1>1, <2>2
    <3>4. \A m \in 1..Len(expiry) : \E n \in 1..Len(line) : line[n] = expiry[m]
      BY ONLY <3>3, k \in Keys, TouchedFacts
    <3>5. QED
      BY <3>2, <3>4
  <2>3. CASE line = expiry /\ line # Touched(k)
    <3>1. asked[id].query # NoQuery
      BY <1>2, <1>4, <2>3
    <3>2. QED
      BY <1>1, <2>3, <3>1
  <2>4. CASE line = Removed(k) /\ line # expiry /\ line # Touched(k)
    <3>1. id # k /\ asked[id].query # NoQuery
      BY <1>2, <1>4, <2>4
    <3>2. \A i \in 1..Len(expiry) : expiry[i] # k => \E n \in 1..Len(line) : line[n] = expiry[i]
      BY <1>1, <2>4, RemovedFacts
    <3>3. QED
      BY <1>1, <3>1, <3>2
  <2>5. QED
    BY <1>2, <2>1, <2>2, <2>3, <2>4
<1>5. DOMAIN line = 1..Len(line)
  BY <1>3
<1>6. Lined'
  BY <1>2, <1>4, <1>5 DEF Lined
<1>7. QED
  BY <1>2, <1>3, <1>6

LEMMA MishapCounts ==
  ASSUME Bounds, Mishap \/ mishaps' = mishaps
  PROVE  mishaps' \in 0..MaxMishaps
  BY BriefingAssumption DEF Bounds, Mishap

\* A step of a call that sets no session and touches no entry.
LEMMA LineStays ==
  ASSUME Bounds, UNCHANGED <<asked, expiry>>
  PROVE  expiry' \in Seq(Keys) /\ Lined'
  BY DEF Bounds, Lined

LEMMA CallKeepsBounds ==
  ASSUME BriefingInv, Bounds, NEW c \in Calls, Advance(c)
  PROVE  Bounds'
<1> DEFINE k == Current(frame[c]).id
<1>1. asked \in [Ids -> TopicSession] /\ BriefingKey \in Keys /\ solo \in BOOLEAN
  BY DEF BriefingInv, Types, Keys, Bounds
<1>2. pc[c] \in {"topic", "resolve", "triage", "query", "save_pending"} =>
        k \in Ids /\ k \in Keys
  BY Looping DEF Keys
<1>3. (Mishap \/ mishaps' = mishaps) /\ solo' = solo
  BY DEF Advance, Decomposed, DecomposeFails, StartTopic, AnswerResolved, TopicAsks,
     TopicDispatches, TopicCompletes, TopicRephrases, SavePending, Raises, Finish,
     Undelivered, Deliver, DeliverFails, Sidecar, SidecarFails, ReturnReport
<1>4. mishaps' \in 0..MaxMishaps /\ solo' \in BOOLEAN
  BY <1>1, <1>3, MishapCounts
<1>5. expiry' \in Seq(Keys) /\ Lined'
  <2>1. CASE UNCHANGED <<asked, expiry>>
    BY <2>1, LineStays
  <2>2. CASE StartTopic(c)
    <3>1. pc[c] = "topic" /\ asked' = asked /\ expiry' \in {expiry, Touched(k)}
      BY <2>2 DEF StartTopic
    <3> HIDE DEF k
    <3>2. QED
      BY <1>2, <2>1, <3>1, LineKept
  <2>3. CASE AnswerResolved(c)
    <3>1. pc[c] = "resolve" /\ expiry' = expiry
      BY <2>3 DEF AnswerResolved
    <3>2. asked' = asked \/ asked' = [asked EXCEPT ![k].query = NoQuery]
      BY <2>3 DEF AnswerResolved
    <3> HIDE DEF k
    <3>3. CASE asked' = [asked EXCEPT ![k].query = NoQuery]
      <4>1. asked'[k].query = NoQuery /\ \A id \in Ids \ {k} : asked'[id] = asked[id]
        BY <1>1, <1>2, <3>1, <3>3 DEF TopicSession
      <4>2. QED
        BY <1>2, <3>1, <4>1, LineKept
    <3>4. QED
      BY <2>1, <3>1, <3>2, <3>3
  <2>4. CASE TopicAsks(c)
    <3>1. /\ pc[c] = "triage" /\ expiry' = Touched(k)
          /\ \E s : asked' = [asked EXCEPT ![k] = s]
      BY <2>4 DEF TopicAsks
    <3> HIDE DEF k
    <3>2. \A id \in Ids \ {k} : asked'[id] = asked[id]
      BY <1>1, <3>1
    <3>3. QED
      BY <1>2, <3>1, <3>2, LineKept
  <2>5. CASE TopicDispatches(c)
    <3>1. /\ pc[c] = "triage" /\ expiry' = Removed(k)
          /\ asked' = [asked EXCEPT ![k] = Settled]
      BY <2>5 DEF TopicDispatches
    <3> HIDE DEF k
    <3>2. asked'[k].query = NoQuery /\ \A id \in Ids \ {k} : asked'[id] = asked[id]
      BY <1>1, <1>2, <3>1
    <3>3. QED
      BY <1>2, <3>1, <3>2, LineKept
  <2>6. CASE SavePending(c) \/ Finish(c)
    <3>1. asked' = asked /\ expiry' \in {Touched(BriefingKey), Removed(BriefingKey)}
      BY <2>6 DEF SavePending, Finish
    <3>2. BriefingKey \notin Ids
      BY BriefingAssumption
    <3>3. QED
      BY <1>1, <3>1, <3>2, LineKept
  <2>7. QED
    BY <2>1, <2>2, <2>3, <2>4, <2>5, <2>6
       DEF Advance, Decomposed, DecomposeFails, TopicCompletes, TopicRephrases, Raises,
           Undelivered, Deliver, DeliverFails, Sidecar, SidecarFails, ReturnReport
<1>6. QED
  BY <1>4, <1>5 DEF Bounds

LEMMA ExpireKeepsBounds ==
  ASSUME BriefingInv, Bounds, Expire
  PROVE  Bounds'
<1>1. expiry \in Seq(Keys) /\ expiry # <<>> /\ Len(expiry) \in Nat /\ Len(expiry) > 0
  BY DEF Bounds, Expire
<1>2. PICK line : line = expiry' /\ line = Tail(expiry)
  BY DEF Expire
<1>3. /\ line \in Seq(Keys) /\ Len(line) = Len(expiry) - 1
      /\ \A n \in 1..Len(line) : line[n] = expiry[n + 1]
  BY <1>1, <1>2
<1>4. ASSUME NEW id \in Ids, asked'[id].query # NoQuery
      PROVE  \E n \in 1..Len(line) : line[n] = id
  <2>1. asked[id].query # NoQuery /\ id # expiry[1]
    <3>1. BriefingKey \notin Ids /\ asked \in [Ids -> TopicSession] /\ Head(expiry) = expiry[1]
      BY <1>1, BriefingAssumption DEF BriefingInv, Types
    <3>2. QED
      BY <1>4, <3>1 DEF Expire
  <2>2. DOMAIN expiry = 1..Len(expiry)
    BY <1>1
  <2>3. PICK i \in 1..Len(expiry) : expiry[i] = id
    BY <2>1, <2>2 DEF Bounds, Lined
  <2>4. i # 1
    BY <2>1, <2>3
  <2>5. i - 1 \in 1..Len(line) /\ (i - 1) + 1 = i
    BY <1>1, <1>3, <2>4
  <2>6. QED
    BY <1>3, <2>3, <2>5
<1>5. DOMAIN line = 1..Len(line)
  BY <1>3
<1>6. Lined'
  BY <1>2, <1>4, <1>5 DEF Lined
<1>7. mishaps' \in 0..MaxMishaps
  BY MishapCounts DEF Expire
<1>8. QED
  BY <1>2, <1>3, <1>6, <1>7 DEF Bounds, Expire

LEMMA RestartKeepsBounds ==
  ASSUME BriefingInv, Bounds, Restart
  PROVE  Bounds'
<1>1. mishaps' \in 0..MaxMishaps /\ solo' \in BOOLEAN
  BY MishapCounts DEF Restart, Bounds
<1>2. CASE Backend = "memory"
  <2>1. asked' = [id \in Ids |-> Settled] /\ expiry' = <<>>
    BY <1>2 DEF Restart
  <2>2. <<>> \in Seq(Keys)
    OBVIOUS
  <2>3. Lined'
    BY <2>1 DEF Lined
  <2>4. QED
    BY <1>1, <2>1, <2>2, <2>3 DEF Bounds
<1>3. CASE Backend # "memory"
  BY <1>1, <1>3, LineStays DEF Restart, Bounds
<1>4. QED
  BY <1>2, <1>3

LEMMA InitBounds == Init => Bounds
<1> SUFFICES ASSUME Init
             PROVE  Bounds
  OBVIOUS
<1>1. expiry \in Seq(Keys) /\ mishaps \in 0..MaxMishaps /\ solo \in BOOLEAN
  BY BriefingAssumption DEF Init
<1>2. Lined
  BY DEF Init, Lined
<1>3. QED
  BY <1>1, <1>2 DEF Bounds

LEMMA NextKeepsBounds == BriefingInv /\ Bounds /\ [Next]_vars => Bounds'
<1> SUFFICES ASSUME BriefingInv, Bounds, [Next]_vars
             PROVE  Bounds'
  OBVIOUS
<1>1. CASE UNCHANGED vars
  BY <1>1 DEF vars, Bounds, Lined
<1>2. ASSUME NEW c \in Calls, NEW answer \in BOOLEAN, Begin(c, answer)
      PROVE  Bounds'
  <2>1. mishaps' \in 0..MaxMishaps /\ solo' \in BOOLEAN
    BY <1>2, MishapCounts DEF Begin, Bounds
  <2>2. QED
    BY <1>2, <2>1, LineStays DEF Begin, Bounds
<1>3. ASSUME NEW c \in Calls, Advance(c)
      PROVE  Bounds'
  BY <1>3, CallKeepsBounds
<1>4. QED
  BY <1>1, <1>2, <1>3, ExpireKeepsBounds, RestartKeepsBounds DEF Next

LEMMA BoundsHold == Spec => [](BriefingInv /\ Bounds)
<1>1. Init => Bounds
  BY InitBounds
<1>2. BriefingInv /\ Bounds /\ [Next]_vars => Bounds'
  BY NextKeepsBounds
<1>3. QED
  BY <1>1, <1>2, BriefingInvariant, PTL DEF Spec

\* Whatever calls overlap, the stored progress, the topic sessions, the locals of
\* every call, the line in which entries expire and what reached the host or the
\* disk keep their types in generate_briefing (core/briefing_orchestrator.py).
THEOREM TypeCorrect == Spec => []TypeOK
<1>1. BriefingInv /\ Bounds => TypeOK
  BY DEF BriefingInv, Types, Bounds, Keys, TypeOK
<1>2. QED
  BY <1>1, BoundsHold, PTL

-----------------------------------------------------------------------------
(* As long as no two calls of the session are in flight at once.           *)

\* The results of the topics before idx are those of their own queries.
OwnResults(plan, idx, done) ==
  DistinctIds(plan) => \A i \in 1..Len(plan) : i < idx => done[plan[i].id] = plan[i].query

\* The session s of a topic awaits an answer about this topic, or none.
OnTopic(s, topic) == s.query \in {NoQuery, topic.query}

\* A call with locals f has not lost anything of what is stored.
AheadOf(stored, f) ==
  stored # NotPending =>
    /\ f.plan = stored.plan /\ stored.idx <= f.idx
    /\ \A id \in Ids : stored.done[id] # NoQuery => f.done[id] # NoQuery

\* The only call in flight, suspended at p with locals f.
Undisturbed(p, f, stored, sessions) ==
  /\ p = "decompose" =>
       /\ stored = NotPending /\ f.first = 1
       /\ f.answer => \A id \in Ids : sessions[id].query = NoQuery
  /\ p \in {"topic", "resolve", "triage", "query", "save_pending"} =>
       f.first <= f.idx /\ AheadOf(stored, f) /\ OwnResults(f.plan, f.idx, f.done)
  /\ p = "topic" /\ AnswerFor(f) => OnTopic(sessions[Current(f).id], Current(f))
  /\ p \in {"resolve", "triage", "query"} => f.now.query = Current(f).query
  /\ p \in {"query", "save_pending"} => OnTopic(sessions[Current(f).id], Current(f))
  /\ p \in {"finish", "deliver", "sidecar", "return"} => OwnResults(f.plan, Len(f.plan) + 1, f.done)

\* No topic session that awaits an answer expires after the stored progress.
PendingLast(line, sessions) ==
  \A i, n \in DOMAIN line :
    line[i] = BriefingKey /\ i < n /\ line[n] \in Ids => sessions[line[n]].query = NoQuery

\* What the host's answer to a question will meet.
Awaited(h, stored, sessions, line) ==
  /\ stored = NotPending => \A id \in Ids : sessions[id].query = NoQuery
  /\ stored # NotPending =>
       /\ stored.plan = h.plan /\ stored.idx = h.idx
       /\ OnTopic(sessions[h.plan[h.idx].id], h.plan[h.idx])
       /\ PendingLast(line, sessions)

Alone == solo =>
  /\ \A c, d \in Calls : pc[c] # "idle" /\ pc[d] # "idle" => c = d
  /\ \A c \in Calls : Undisturbed(pc[c], frame[c], pending, asked)
  /\ OwnResults(pending.plan, pending.idx, pending.done)
  /\ host.kind = "question" /\ Resting => Awaited(host, pending, asked, expiry)
  /\ host.kind = "report" /\ DistinctIds(host.plan) =>
       \A i \in 1..Len(host.plan) : host.sections[i] = host.plan[i].query

\* Of two calls in flight one was there before the other: solo has ended.
LEMMA OnlyOne ==
  ASSUME BriefingInv, Alone, solo, NEW c \in Calls, pc[c] # "idle"
  PROVE  \A d \in Calls : d # c => pc[d] = "idle"
  BY DEF Alone

LEMMA IdleUndisturbed ==
  ASSUME NEW f, NEW stored, NEW sessions
  PROVE  Undisturbed("idle", f, stored, sessions)
  BY DEF Undisturbed

\* The only call goes on.
LEMMA AloneGoes ==
  ASSUME BriefingInv, NEW c \in Calls, \A d \in Calls : d # c => pc[d] = "idle",
         NEW p, p # "idle", NEW f, GoTo(c, p, f), Undisturbed(p, f, pending', asked'),
         OwnResults(pending'.plan, pending'.idx, pending'.done), UNCHANGED host,
         host.kind = "report" /\ DistinctIds(host.plan) =>
           \A i \in 1..Len(host.plan) : host.sections[i] = host.plan[i].query
  PROVE  Alone'
<1>1. pc \in [Calls -> Points] /\ frame \in [Calls -> Frame]
  BY DEF BriefingInv, Types
<1>2. /\ pc'[c] = p /\ frame'[c] = f
      /\ \A d \in Calls : d # c => pc'[d] = "idle"
  BY <1>1 DEF GoTo
<1>3. \A d \in Calls : Undisturbed(pc'[d], frame'[d], pending', asked')
  BY <1>2, IdleUndisturbed
<1>4. ~Resting'
  BY <1>2 DEF Resting
<1>5. (host.kind = "report" /\ DistinctIds(host.plan) =>
         \A i \in 1..Len(host.plan) : host.sections[i] = host.plan[i].query)'
  BY DEF DistinctIds
<1>6. (\A d, e \in Calls : pc[d] # "idle" /\ pc[e] # "idle" => d = e)'
  BY <1>2
<1>7. QED
  BY <1>3, <1>4, <1>5, <1>6 DEF Alone, OwnResults, DistinctIds

\* The only call ends.
LEMMA AloneEnds ==
  ASSUME BriefingInv, Alone, solo, NEW c \in Calls, pc[c] # "idle", NEW r, Return(c, r),
         OwnResults(pending'.plan, pending'.idx, pending'.done),
         r.kind = "question" => Awaited(r, pending', asked', expiry'),
         r.kind = "report" /\ DistinctIds(r.plan) =>
           \A i \in 1..Len(r.plan) : r.sections[i] = r.plan[i].query
  PROVE  Alone'
<1>1. pc \in [Calls -> Points] /\ \A d \in Calls : d # c => pc[d] = "idle"
  BY OnlyOne DEF BriefingInv, Types
<1>2. \A d \in Calls : pc'[d] = "idle"
  BY <1>1 DEF Return, GoTo
<1>3. \A d \in Calls : Undisturbed(pc'[d], frame'[d], pending', asked')
  BY <1>2, IdleUndisturbed
<1>4. host' = r
  BY DEF Return
<1>5. (host.kind = "report" /\ DistinctIds(host.plan) =>
         \A i \in 1..Len(host.plan) : host.sections[i] = host.plan[i].query)'
  BY <1>4 DEF DistinctIds
<1>6. (host.kind = "question" /\ Resting => Awaited(host, pending, asked, expiry))'
  BY <1>4 DEF Awaited, OnTopic, PendingLast
<1>7. QED
  BY <1>2, <1>3, <1>5, <1>6 DEF Alone, OwnResults, DistinctIds

\* A step that leaves what is stored and the response alone needs only say where the
\* only call has gone.
LEMMA AloneWorks ==
  ASSUME BriefingInv, Alone, solo, NEW c \in Calls, pc[c] # "idle", NEW p, p # "idle",
         NEW f, GoTo(c, p, f), Undisturbed(p, f, pending, asked'), UNCHANGED <<pending, host>>
  PROVE  Alone'
<1>1. \A d \in Calls : d # c => pc[d] = "idle"
  BY OnlyOne
<1>2. OwnResults(pending'.plan, pending'.idx, pending'.done)
  BY DEF Alone, OwnResults, DistinctIds
<1>3. Undisturbed(p, f, pending', asked')
  BY DEF Undisturbed, AheadOf
<1>4. host.kind = "report" /\ DistinctIds(host.plan) =>
        \A i \in 1..Len(host.plan) : host.sections[i] = host.plan[i].query
  BY DEF Alone
<1>5. QED
  BY <1>1, <1>2, <1>3, <1>4, AloneGoes

\* The answer is for the topic at which the stored progress resumes.
LEMMA BeginAlone ==
  ASSUME BriefingInv, Alone, NEW c \in Calls, NEW answer \in BOOLEAN, Begin(c, answer)
  PROVE  Alone'
<1> DEFINE f == [NoFrame EXCEPT !.answer = answer, !.plan = pending.plan,
                                !.idx = pending.idx, !.first = pending.idx,
                                !.done = pending.done]
           p == IF pending = NotPending THEN "decompose" ELSE "topic"
<1>1. SUFFICES ASSUME solo'
               PROVE  Alone'
  BY DEF Alone
<1>2. /\ solo /\ Resting /\ GoTo(c, p, f) /\ UNCHANGED <<pending, asked, host>>
      /\ answer => host.kind = "question"
  BY <1>1 DEF Begin, Resting
<1>3. answer => Awaited(host, pending, asked, expiry)
  BY <1>2 DEF Alone
<1>4. /\ f.plan = pending.plan /\ f.idx = pending.idx /\ f.first = pending.idx
      /\ f.done = pending.done /\ f.answer = answer /\ pending.idx \in Nat
  BY DEF Frame, BriefingInv, Types, Progress
<1>5. OwnResults(pending.plan, pending.idx, pending.done)
  BY <1>2 DEF Alone
<1> HIDE DEF f
<1>6. Undisturbed(p, f, pending, asked)
  <2>1. CASE pending = NotPending
    BY <1>3, <1>4, <2>1 DEF Undisturbed, Awaited
  <2>2. CASE pending # NotPending
    <3>1. f.first <= f.idx /\ AheadOf(pending, f) /\ OwnResults(f.plan, f.idx, f.done)
      BY <1>4, <1>5 DEF AheadOf
    <3>2. AnswerFor(f) => OnTopic(asked[Current(f).id], Current(f))
      BY <1>3, <1>4, <2>2 DEF AnswerFor, Awaited, Current
    <3>3. QED
      BY <2>2, <3>1, <3>2 DEF Undisturbed
  <2>3. QED
    BY <2>1, <2>2
<1>7. p # "idle" /\ \A d \in Calls : d # c => pc[d] = "idle"
  BY <1>2 DEF Resting
<1> HIDE DEF p
<1>8. Undisturbed(p, f, pending', asked') /\ OwnResults(pending'.plan, pending'.idx, pending'.done)
  BY <1>2, <1>5, <1>6 DEF Undisturbed, AheadOf, OwnResults, DistinctIds
<1>9. host.kind = "report" /\ DistinctIds(host.plan) =>
        \A i \in 1..Len(host.plan) : host.sections[i] = host.plan[i].query
  BY <1>2 DEF Alone
<1>10. QED
  BY <1>2, <1>7, <1>8, <1>9, AloneGoes

LEMMA DecomposedAlone ==
  ASSUME BriefingInv, Alone, solo, NEW c \in Calls, Decomposed(c)
  PROVE  Alone'
<1>1. PICK plan \in Plans : GoTo(c, "topic", [frame[c] EXCEPT !.plan = plan])
  BY DEF Decomposed
<1> DEFINE f == [frame[c] EXCEPT !.plan = plan]
<1>2. pc[c] = "decompose" /\ UNCHANGED <<pending, asked, host>>
  BY DEF Decomposed
<1>3. /\ f.plan = plan /\ f.idx = 1 /\ f.first = 1 /\ f.done = NoResults
      /\ f.answer = frame[c].answer /\ pending = NotPending
      /\ f.answer => \A id \in Ids : asked[id].query = NoQuery
  BY <1>2 DEF BriefingInv, Types, Frame, Consistent, Alone, Undisturbed
<1> HIDE DEF f
<1>4. OwnResults(f.plan, f.idx, f.done)
  BY <1>3, PlanFacts DEF OwnResults
<1>5. Current(f).id \in Ids
  BY <1>3, PlanFacts DEF Current
<1>6. Undisturbed("topic", f, pending, asked)
  BY <1>3, <1>4, <1>5 DEF Undisturbed, AheadOf, AnswerFor, OnTopic
<1>7. GoTo(c, "topic", f)
  BY <1>1 DEF f
<1>8. QED
  BY <1>2, <1>6, <1>7, AloneWorks

\* Setting the topic session of the locals loses nothing.
LEMMA SameProgress ==
  ASSUME BriefingInv, Alone, solo, NEW c \in Calls,
         pc[c] \in {"topic", "resolve", "triage", "query", "save_pending"},
         NEW s \in TopicSession, NEW f, f = [frame[c] EXCEPT !.now = s]
  PROVE  /\ f.now = s /\ Current(f) = Current(frame[c]) /\ (AnswerFor(f) <=> AnswerFor(frame[c]))
         /\ f.first <= f.idx /\ AheadOf(pending, f) /\ OwnResults(f.plan, f.idx, f.done)
<1>1. /\ f.now = s /\ f.plan = frame[c].plan /\ f.idx = frame[c].idx
      /\ f.done = frame[c].done /\ f.first = frame[c].first /\ f.answer = frame[c].answer
  BY Looping DEF Frame
<1>2. /\ frame[c].first <= frame[c].idx /\ AheadOf(pending, frame[c])
      /\ OwnResults(frame[c].plan, frame[c].idx, frame[c].done)
  BY DEF Alone, Undisturbed
<1>3. QED
  BY <1>1, <1>2 DEF Current, AnswerFor, AheadOf, OwnResults

LEMMA StartTopicAlone ==
  ASSUME BriefingInv, Alone, solo, NEW c \in Calls, StartTopic(c)
  PROVE  Alone'
<1> DEFINE topic == Current(frame[c])
           s == asked[topic.id]
           own == [s EXCEPT !.query = topic.query]
           new == [query |-> topic.query, rounds |-> 0]
<1>1. pc[c] = "topic" /\ UNCHANGED <<pending, asked, host>>
  BY DEF StartTopic
<1>2. topic.id \in Ids /\ topic.query \in Queries /\ s \in TopicSession
  BY <1>1, Looping DEF BriefingInv, Types
<1>3. /\ own \in TopicSession /\ new \in TopicSession
      /\ own.query = topic.query /\ new.query = topic.query
  BY <1>2 DEF TopicSession
<1>4. AnswerFor(frame[c]) => OnTopic(s, topic)
  BY <1>1 DEF Alone, Undisturbed
<1>5. PICK p, t : /\ p \in {"resolve", "triage", "save_pending"} /\ t \in TopicSession
                  /\ GoTo(c, p, [frame[c] EXCEPT !.now = t])
                  /\ p # "save_pending" => t.query = topic.query
                  /\ p = "save_pending" => OnTopic(s, topic)
  <2>1. CASE /\ s.query # NoQuery /\ AnswerFor(frame[c])
             /\ GoTo(c, "resolve", [frame[c] EXCEPT !.now = s])
    <3>1. s.query = topic.query
      BY <1>4, <2>1 DEF OnTopic
    <3> HIDE DEF s, topic
    <3>2. QED
      BY <1>2, <2>1, <3>1
  <2>2. CASE s.query = topic.query /\ GoTo(c, "save_pending", [frame[c] EXCEPT !.now = s])
    <3>1. OnTopic(s, topic)
      BY <2>2 DEF OnTopic
    <3> HIDE DEF s, topic
    <3>2. QED
      BY <1>2, <2>2, <3>1
  <2>3. CASE GoTo(c, "triage", [frame[c] EXCEPT !.now = own])
    <3> HIDE DEF own, s, topic
    <3>1. QED
      BY <1>3, <2>3
  <2>4. CASE GoTo(c, "triage", [frame[c] EXCEPT !.now = new])
    <3> HIDE DEF new, s, topic
    <3>1. QED
      BY <1>3, <2>4
  <2>5. QED
    BY <2>1, <2>2, <2>3, <2>4 DEF StartTopic
<1>6. PICK f : f = [frame[c] EXCEPT !.now = t]
  OBVIOUS
<1>7. /\ f.now = t /\ Current(f) = topic
      /\ f.first <= f.idx /\ AheadOf(pending, f) /\ OwnResults(f.plan, f.idx, f.done)
  BY <1>1, <1>5, <1>6, SameProgress
<1> HIDE DEF topic
<1>8. Undisturbed(p, f, pending, asked')
  BY <1>1, <1>5, <1>7 DEF Undisturbed
<1>9. p # "idle" /\ pc[c] # "idle" /\ GoTo(c, p, f)
  BY <1>1, <1>5, <1>6
<1>10. QED
  BY <1>1, <1>8, <1>9, AloneWorks

LEMMA AskingAlone ==
  ASSUME BriefingInv, Alone, solo, NEW c \in Calls,
         AnswerResolved(c) \/ TopicAsks(c) \/ TopicDispatches(c) \/ TopicRephrases(c)
  PROVE  Alone'
<1> DEFINE topic == Current(frame[c])
           k == topic.id
           now == frame[c].now
           counted == [now EXCEPT !.rounds = @ + 1]
<1>1. pc[c] \in {"resolve", "triage", "query"} /\ UNCHANGED <<pending, host>>
  BY DEF AnswerResolved, TopicAsks, TopicDispatches, TopicRephrases
<1>2. /\ now \in TopicSession /\ k \in Ids /\ frame[c] = [frame[c] EXCEPT !.now = now]
      /\ asked \in [Ids -> TopicSession]
  BY <1>1, Looping DEF BriefingInv, Types, Frame
<1>3. now.query = topic.query
  BY <1>1 DEF Alone, Undisturbed
<1>4. counted \in TopicSession /\ counted.query = topic.query
  BY <1>2, <1>3 DEF TopicSession
<1>5. /\ frame[c].first <= frame[c].idx /\ AheadOf(pending, frame[c])
      /\ OwnResults(frame[c].plan, frame[c].idx, frame[c].done)
  BY <1>1 DEF Alone, Undisturbed
<1>6. CASE AnswerResolved(c)
  <2>1. GoTo(c, "triage", frame[c])
    BY <1>6 DEF AnswerResolved
  <2>2. Undisturbed("triage", frame[c], pending, asked')
    BY <1>3, <1>5 DEF Undisturbed
  <2>3. QED
    BY <1>1, <2>1, <2>2, AloneWorks
<1>7. CASE TopicAsks(c)
  <2>1. PICK f : f = [frame[c] EXCEPT !.now = counted]
    OBVIOUS
  <2>2. asked' = [asked EXCEPT ![k] = counted] /\ GoTo(c, "save_pending", f)
    BY <1>7, <2>1 DEF TopicAsks
  <2> HIDE DEF counted
  <2>3. /\ Current(f) = topic
        /\ f.first <= f.idx /\ AheadOf(pending, f) /\ OwnResults(f.plan, f.idx, f.done)
    BY <1>1, <1>4, <2>1, SameProgress
  <2>4. OnTopic(asked'[Current(f).id], Current(f))
    <3>1. asked'[k] = counted
      BY <1>2, <2>2
    <3>2. QED
      BY <1>4, <2>3, <3>1 DEF OnTopic
  <2>5. Undisturbed("save_pending", f, pending, asked')
    BY <2>3, <2>4 DEF Undisturbed
  <2>6. QED
    BY <1>1, <2>2, <2>5, AloneWorks
<1>8. CASE TopicDispatches(c)
  <2>1. asked' = [asked EXCEPT ![k] = Settled] /\ GoTo(c, "query", frame[c])
    BY <1>8 DEF TopicDispatches
  <2>2. asked'[k] = Settled
    BY <1>2, <2>1
  <2>3. OnTopic(asked'[k], topic)
    BY <2>2 DEF OnTopic
  <2>4. Undisturbed("query", frame[c], pending, asked')
    BY <1>3, <1>5, <2>3 DEF Undisturbed
  <2>5. QED
    BY <1>1, <2>1, <2>4, AloneWorks
<1>9. CASE TopicRephrases(c)
  <2>1. pc[c] = "query" /\ asked' = asked /\ GoTo(c, "save_pending", frame[c])
    BY <1>9 DEF TopicRephrases
  <2>2. OnTopic(asked[k], topic)
    BY <2>1 DEF Alone, Undisturbed
  <2>3. Undisturbed("save_pending", frame[c], pending, asked')
    BY <1>5, <2>1, <2>2 DEF Undisturbed
  <2>4. QED
    BY <1>1, <2>1, <2>3, AloneWorks
<1>10. QED
  BY <1>6, <1>7, <1>8, <1>9

\* The result of the topic at idx is that of its own query.
LEMMA OwnGrows ==
  ASSUME NEW plan \in Plans, NEW idx \in 1..Len(plan), NEW done \in Results,
         OwnResults(plan, idx, done), NEW q, q = plan[idx].query, q \in Queries
  PROVE  OwnResults(plan, idx + 1, [done EXCEPT ![plan[idx].id] = q])
<1> DEFINE d == [done EXCEPT ![plan[idx].id] = q]
<1>1. \A i \in 1..Len(plan) : plan[i].id \in Ids
  BY PlanFacts
<1>2. \A id \in Ids : d[id] = IF id = plan[idx].id THEN q ELSE done[id]
  BY DEF Results
<1>3. Len(plan) \in Nat
  BY PlanFacts
<1> HIDE DEF d
<1>4. DistinctIds(plan) =>
        \A i \in 1..Len(plan) : i < idx + 1 => d[plan[i].id] = plan[i].query
  BY <1>1, <1>2, <1>3 DEF OwnResults, DistinctIds
<1>5. QED
  BY <1>4 DEF OwnResults, d

LEMMA TopicCompletesAlone ==
  ASSUME BriefingInv, Alone, solo, NEW c \in Calls, TopicCompletes(c)
  PROVE  Alone'
<1> DEFINE f == frame[c]
           q == f.now.query
<1>1. pc[c] = "query" /\ UNCHANGED <<pending, asked, host>>
  BY DEF TopicCompletes
<1>2. /\ f \in Frame /\ f.plan \in Plans /\ f.idx \in 1..Len(f.plan) /\ f.idx \in Nat
      /\ f.done \in Results /\ q \in Queries /\ Current(f).id \in Ids /\ f.first \in Nat
      /\ Len(f.plan) \in Nat
  BY <1>1, Looping, PlanFacts DEF BriefingInv, Consistent, Frame
<1>3. /\ f.first <= f.idx /\ AheadOf(pending, f) /\ OwnResults(f.plan, f.idx, f.done)
      /\ q = Current(f).query
  BY <1>1 DEF Alone, Undisturbed
<1>4. PICK d : d = [f.done EXCEPT ![Current(f).id] = q]
  OBVIOUS
<1>5. d \in Results /\ \A id \in Ids : f.done[id] # NoQuery => d[id] # NoQuery
  <2>1. q # NoQuery
    BY <1>2, BriefingAssumption
  <2>2. QED
    BY <1>2, <1>4, <2>1 DEF Results
<1>6. OwnResults(f.plan, f.idx + 1, d)
  <2>1. q = f.plan[f.idx].query /\ d = [f.done EXCEPT ![f.plan[f.idx].id] = q]
    BY <1>3, <1>4 DEF Current
  <2>2. QED
    BY <1>2, <1>3, <2>1, OwnGrows
<1>7. PICK g : g = [f EXCEPT !.done = d, !.now = Settled]
  OBVIOUS
<1>8. PICK h : h = [g EXCEPT !.idx = @ + 1]
  OBVIOUS
<1>9. IF f.idx < Len(f.plan) THEN GoTo(c, "topic", h) ELSE GoTo(c, "finish", g)
  <2> DEFINE e == [f EXCEPT !.done[Current(f).id] = q, !.now = Settled]
             t == [e EXCEPT !.idx = @ + 1]
  <2>1. e = g
    BY <1>2, <1>4, <1>7 DEF Frame
  <2>2. t = h
    BY <1>8, <2>1
  <2>3. IF f.idx < Len(f.plan) THEN GoTo(c, "topic", t) ELSE GoTo(c, "finish", e)
    BY DEF TopicCompletes
  <2> HIDE DEF e, f, t
  <2>4. QED
    BY <2>1, <2>2, <2>3
<1>10. g \in Frame /\ g.plan = f.plan /\ g.done = d /\ g.idx = f.idx /\ g.first = f.first
  BY <1>2, <1>5, <1>7, PieceTypes DEF Frame
<1>11. h.plan = f.plan /\ h.done = d /\ h.idx = f.idx + 1 /\ h.first = f.first
  BY <1>8, <1>10 DEF Frame
<1>12. pending.idx \in Nat
  BY DEF BriefingInv, Types, Progress
<1> HIDE DEF f, q
<1>13. CASE f.idx < Len(f.plan)
  <2>1. AheadOf(pending, h)
    BY <1>2, <1>3, <1>5, <1>11, <1>12 DEF AheadOf
  <2>2. h.first <= h.idx /\ ~AnswerFor(h)
    BY <1>2, <1>3, <1>11 DEF AnswerFor
  <2>3. OwnResults(h.plan, h.idx, h.done)
    BY <1>6, <1>11
  <2>4. Undisturbed("topic", h, pending, asked')
    BY <2>1, <2>2, <2>3 DEF Undisturbed
  <2>5. QED
    BY <1>1, <1>9, <1>13, <2>4, AloneWorks
<1>14. CASE ~(f.idx < Len(f.plan))
  <2>1. f.idx = Len(f.plan)
    BY <1>2, <1>14
  <2>2. OwnResults(g.plan, Len(g.plan) + 1, g.done)
    BY <1>6, <1>10, <2>1
  <2>3. Undisturbed("finish", g, pending, asked')
    BY <2>2 DEF Undisturbed
  <2>4. QED
    BY <1>1, <1>9, <1>14, <2>3, AloneWorks
<1>15. QED
  BY <1>13, <1>14

\* The question is put with the stored progress at its topic and last in line.
LEMMA SavePendingAlone ==
  ASSUME BriefingInv, Alone, solo, Bounds, NEW c \in Calls, SavePending(c)
  PROVE  Alone'
<1> DEFINE f == frame[c]
           r == Reply(c, "question")
<1>1. /\ pc[c] = "save_pending" /\ asked' = asked /\ Return(c, r)
      /\ pending' = [plan |-> f.plan, idx |-> f.idx, done |-> f.done]
      /\ expiry' = Touched(BriefingKey)
  BY DEF SavePending
<1>2. f.plan \in Plans /\ f.plan # <<>>
  BY <1>1, Looping, BriefingAssumption
<1>3. OwnResults(f.plan, f.idx, f.done) /\ OnTopic(asked[Current(f).id], Current(f))
  BY <1>1 DEF Alone, Undisturbed
<1>4. OwnResults(pending'.plan, pending'.idx, pending'.done)
  BY <1>1, <1>3
<1>5. pending'.plan = f.plan /\ pending'.idx = f.idx /\ pending' # NotPending
  BY <1>1, <1>2, BriefingAssumption
<1>6. r.kind = "question" /\ r.plan = f.plan /\ r.idx = f.idx
  BY DEF Reply
<1>7. PendingLast(expiry', asked')
  <2>1. PICK line : line = expiry'
    OBVIOUS
  <2>2. BriefingKey \in Keys /\ expiry \in Seq(Keys) /\ line = Touched(BriefingKey)
    BY <1>1, <2>1 DEF Keys, Bounds
  <2>3. /\ line \in Seq(Keys) /\ Len(line) \in Nat
        /\ \A n \in 1..Len(line) : line[n] = BriefingKey => n = Len(line)
    BY ONLY <2>2, TouchedFacts
  <2>4. DOMAIN line = 1..Len(line)
    BY <2>3
  <2>5. \A i, n \in DOMAIN line : ~(line[i] = BriefingKey /\ i < n)
    <3>1. SUFFICES ASSUME NEW i \in 1..Len(line), NEW n \in 1..Len(line),
                          line[i] = BriefingKey, i < n
                   PROVE  FALSE
      BY <2>4
    <3>2. i = Len(line)
      BY <2>3, <3>1
    <3>3. QED
      BY <2>3, <3>1, <3>2
  <2>6. QED
    BY <2>1, <2>5 DEF PendingLast
<1>8. OnTopic(asked'[r.plan[r.idx].id], r.plan[r.idx])
  BY <1>1, <1>3, <1>6 DEF Current
<1> HIDE DEF r
<1>9. Awaited(r, pending', asked', expiry')
  BY <1>5, <1>6, <1>7, <1>8 DEF Awaited
<1>10. pc[c] # "idle" /\ r.kind # "report"
  BY <1>1, <1>6
<1>11. QED
  BY <1>1, <1>4, <1>9, <1>10, AloneEnds

LEMMA FailureAlone ==
  ASSUME BriefingInv, Alone, solo, NEW c \in Calls, DecomposeFails(c) \/ Raises(c)
  PROVE  Alone'
<1> DEFINE r == Reply(c, "failed")
<1>1. pc[c] # "idle" /\ pending' = pending /\ Return(c, r)
  BY DEF DecomposeFails, Raises
<1>2. r.kind = "failed"
  BY DEF Reply
<1>3. OwnResults(pending'.plan, pending'.idx, pending'.done)
  BY <1>1 DEF Alone, OwnResults, DistinctIds
<1> HIDE DEF r
<1>4. QED
  BY <1>1, <1>2, <1>3, AloneEnds

LEMMA FinishAlone ==
  ASSUME BriefingInv, Alone, solo, NEW c \in Calls, Finish(c)
  PROVE  Alone'
<1>1. /\ pc[c] = "finish" /\ pending' = NotPending /\ GoTo(c, "deliver", frame[c])
      /\ UNCHANGED host
  BY DEF Finish
<1>2. Undisturbed("deliver", frame[c], pending', asked')
  BY <1>1 DEF Alone, Undisturbed
<1>3. OwnResults(pending'.plan, pending'.idx, pending'.done)
  BY <1>1, BriefingAssumption DEF OwnResults
<1>4. host.kind = "report" /\ DistinctIds(host.plan) =>
        \A i \in 1..Len(host.plan) : host.sections[i] = host.plan[i].query
  BY DEF Alone
<1>5. \A d \in Calls : d # c => pc[d] = "idle"
  BY <1>1, OnlyOne
<1>6. QED
  BY <1>1, <1>2, <1>3, <1>4, <1>5, AloneGoes

LEMMA FilesAlone ==
  ASSUME BriefingInv, Alone, solo, NEW c \in Calls,
         \/ Undelivered(c) \/ Deliver(c) \/ DeliverFails(c)
         \/ Sidecar(c) \/ SidecarFails(c)
  PROVE  Alone'
<1>1. PICK p, f : /\ p \in {"sidecar", "return"} /\ GoTo(c, p, f)
                  /\ f \in {frame[c], [frame[c] EXCEPT !.noted = TRUE],
                            [frame[c] EXCEPT !.path = TRUE],
                            [frame[c] EXCEPT !.path = FALSE],
                            [frame[c] EXCEPT !.path = FALSE, !.noted = TRUE]}
  BY DEF Undelivered, Deliver, DeliverFails, Sidecar, SidecarFails
<1>2. pc[c] \in {"deliver", "sidecar"} /\ UNCHANGED <<pending, host>>
  BY DEF Undelivered, Deliver, DeliverFails, Sidecar, SidecarFails
<1>3. f.plan = frame[c].plan /\ f.done = frame[c].done
  BY <1>1, <1>2, Ending DEF Frame
<1>4. OwnResults(frame[c].plan, Len(frame[c].plan) + 1, frame[c].done)
  BY <1>2 DEF Alone, Undisturbed
<1>5. Undisturbed(p, f, pending, asked')
  BY <1>1, <1>3, <1>4 DEF Undisturbed
<1>6. QED
  BY <1>1, <1>2, <1>5, AloneWorks

LEMMA ReturnReportAlone ==
  ASSUME BriefingInv, Alone, solo, NEW c \in Calls, ReturnReport(c)
  PROVE  Alone'
<1> DEFINE f == frame[c]
<1>1. PICK r : r = [Reply(c, "report") EXCEPT !.sections = SectionsOf(f)]
  OBVIOUS
<1>2. pc[c] = "return" /\ pending' = pending /\ Return(c, r)
  BY <1>1 DEF ReturnReport
<1>3. r.kind = "report" /\ r.plan = f.plan /\ r.sections = SectionsOf(f)
  BY <1>1 DEF Reply
<1>4. f.plan \in Plans /\ OwnResults(f.plan, Len(f.plan) + 1, f.done)
  BY <1>2, Ending DEF Alone, Undisturbed
<1>5. DistinctIds(r.plan) => \A i \in 1..Len(r.plan) : r.sections[i] = r.plan[i].query
  <2>1. Len(f.plan) \in Nat
    BY <1>4, PlanFacts
  <2>2. QED
    BY <1>3, <1>4, <2>1 DEF SectionsOf, OwnResults
<1>6. OwnResults(pending'.plan, pending'.idx, pending'.done)
  BY <1>2 DEF Alone, OwnResults, DistinctIds
<1>7. QED
  BY <1>2, <1>3, <1>5, <1>6, AloneEnds

\* An entry that expires takes nothing away that the answer needs: when it is the
\* stored progress no topic session is left that would take the answer.
LEMMA ExpireAwaited ==
  ASSUME BriefingInv, Bounds, Expire, NEW h, Awaited(h, pending, asked, expiry)
  PROVE  Awaited(h, pending', asked', expiry')
<1>1. /\ expiry \in Seq(Keys) /\ expiry # <<>> /\ Head(expiry) = expiry[1]
      /\ DOMAIN expiry = 1..Len(expiry) /\ Len(expiry) \in Nat /\ Len(expiry) > 0
      /\ asked \in [Ids -> TopicSession] /\ BriefingKey \notin Ids
  BY BriefingAssumption DEF Bounds, Expire, BriefingInv, Types
<1>2. \A id \in Ids : asked'[id] \in {asked[id], Settled}
  BY <1>1 DEF Expire
<1>3. CASE expiry[1] = BriefingKey
  <2>1. pending' = NotPending /\ asked' = asked
    BY <1>1, <1>3 DEF Expire
  <2>2. ASSUME NEW id \in Ids
        PROVE  asked[id].query = NoQuery
    <3>1. CASE pending = NotPending
      BY <3>1 DEF Awaited
    <3>2. CASE pending # NotPending
      <4>1. SUFFICES ASSUME asked[id].query # NoQuery
                     PROVE  FALSE
        OBVIOUS
      <4>2. PICK i \in 1..Len(expiry) : expiry[i] = id
        BY <1>1, <4>1 DEF Bounds, Lined
      <4>3. 1 < i /\ 1 \in DOMAIN expiry /\ i \in DOMAIN expiry
        BY <1>1, <1>3, <4>2
      <4>4. PendingLast(expiry, asked)
        BY <3>2 DEF Awaited
      <4>5. QED
        BY <1>3, <4>1, <4>2, <4>3, <4>4 DEF PendingLast
    <3>3. QED
      BY <3>1, <3>2
  <2>3. QED
    BY <2>1, <2>2 DEF Awaited
<1>4. CASE expiry[1] # BriefingKey
  <2>1. pending' = pending
    BY <1>1, <1>4 DEF Expire
  <2>2. PendingLast(expiry, asked) => PendingLast(expiry', asked')
    <3>1. PICK line : line = expiry' /\ line = Tail(expiry)
      BY DEF Expire
    <3>2. /\ line \in Seq(Keys) /\ Len(line) = Len(expiry) - 1
          /\ \A n \in 1..Len(line) : line[n] = expiry[n + 1]
      BY <1>1, <3>1
    <3>3. DOMAIN line = 1..Len(line)
      BY <3>2
    <3>4. ASSUME PendingLast(expiry, asked), NEW i \in 1..Len(line), NEW n \in 1..Len(line),
                 line[i] = BriefingKey, i < n, line[n] \in Ids
          PROVE  asked'[line[n]].query = NoQuery
      <4>1. /\ i + 1 \in DOMAIN expiry /\ n + 1 \in DOMAIN expiry /\ i + 1 < n + 1
            /\ expiry[i + 1] = BriefingKey /\ expiry[n + 1] = line[n]
        BY <1>1, <3>2, <3>4
      <4>2. asked[line[n]].query = NoQuery
        BY <3>4, <4>1 DEF PendingLast
      <4>3. QED
        BY <1>2, <3>4, <4>2
    <3>5. QED
      BY <3>1, <3>3, <3>4 DEF PendingLast
  <2>3. CASE pending = NotPending
    BY <1>2, <2>1, <2>3 DEF Awaited
  <2>4. CASE pending # NotPending
    <3>1. /\ pending.plan = h.plan /\ pending.idx = h.idx
          /\ OnTopic(asked[h.plan[h.idx].id], h.plan[h.idx])
      BY <2>4 DEF Awaited
    <3>2. h.plan[h.idx].id \in Ids
      <4>1. pending.plan \in Plans /\ pending.idx \in 1..Len(pending.plan)
        <5>1. /\ pending.plan \in Plans /\ pending.idx <= Len(pending.plan)
              /\ pending.idx \in Nat \ {0}
          BY <2>4 DEF BriefingInv, Types, PendingExact, Progress
        <5>2. QED
          BY <5>1, PlanFacts
      <4>2. QED
        BY <3>1, <4>1, PlanFacts
    <3>3. OnTopic(asked'[h.plan[h.idx].id], h.plan[h.idx])
      BY <1>2, <3>1, <3>2 DEF OnTopic
    <3>4. QED
      BY <2>1, <2>2, <2>4, <3>1, <3>3 DEF Awaited
  <2>5. QED
    BY <2>3, <2>4
<1>5. QED
  BY <1>3, <1>4

LEMMA ExpireAlone ==
  ASSUME BriefingInv, Alone, solo, Bounds, Expire
  PROVE  Alone'
<1>1. UNCHANGED <<pc, frame, host, solo>> /\ pending' \in {pending, NotPending}
  BY DEF Expire
<1>2. \A id \in Ids : asked'[id] \in {asked[id], Settled}
  BY DEF Expire, BriefingInv, Types
<1>3. ASSUME NEW c \in Calls
      PROVE  Undisturbed(pc[c], frame[c], pending', asked')
  <2>1. Undisturbed(pc[c], frame[c], pending, asked)
    BY DEF Alone
  <2>2. AheadOf(pending, frame[c]) => AheadOf(pending', frame[c])
    BY <1>1 DEF AheadOf
  <2>3. pc[c] \in {"topic", "resolve", "triage", "query", "save_pending"} =>
          Current(frame[c]).id \in Ids
    BY Looping
  <2>4. Current(frame[c]).id \in Ids /\ OnTopic(asked[Current(frame[c]).id], Current(frame[c])) =>
          OnTopic(asked'[Current(frame[c]).id], Current(frame[c]))
    BY <1>2 DEF OnTopic
  <2>5. pc[c] = "decompose" =>
          /\ pending' = NotPending /\ frame[c].first = 1
          /\ frame[c].answer => \A id \in Ids : asked'[id].query = NoQuery
    BY <1>1, <1>2, <2>1 DEF Undisturbed
  <2>6. QED
    BY <2>1, <2>2, <2>3, <2>4, <2>5 DEF Undisturbed
<1>4. OwnResults(pending'.plan, pending'.idx, pending'.done)
  <2>1. OwnResults(pending.plan, pending.idx, pending.done)
    BY DEF Alone
  <2>2. OwnResults(NotPending.plan, NotPending.idx, NotPending.done)
    BY BriefingAssumption DEF OwnResults
  <2>3. CASE pending' = pending
    BY <2>1, <2>3 DEF OwnResults, DistinctIds
  <2>4. CASE pending' = NotPending
    BY <2>2, <2>4 DEF OwnResults, DistinctIds
  <2>5. QED
    BY <1>1, <2>3, <2>4
<1>5. host.kind = "question" /\ Resting => Awaited(host, pending', asked', expiry')
  BY ExpireAwaited DEF Alone
<1>6. (host.kind = "question" /\ Resting => Awaited(host, pending, asked, expiry))'
  BY <1>1, <1>5 DEF Resting, Awaited, OnTopic, PendingLast
<1>7. (\A c \in Calls : Undisturbed(pc[c], frame[c], pending, asked))'
  BY <1>1, <1>3
<1>8. (host.kind = "report" /\ DistinctIds(host.plan) =>
         \A i \in 1..Len(host.plan) : host.sections[i] = host.plan[i].query)'
  BY <1>1 DEF Alone, DistinctIds
<1>9. (\A c, d \in Calls : pc[c] # "idle" /\ pc[d] # "idle" => c = d)'
  BY <1>1 DEF Alone
<1>10. QED
  BY <1>4, <1>6, <1>7, <1>8, <1>9 DEF Alone, OwnResults, DistinctIds

LEMMA RestartAlone ==
  ASSUME BriefingInv, Alone, solo, Restart
  PROVE  Alone'
<1>1. /\ pc' = [c \in Calls |-> "idle"] /\ solo' = solo
      /\ host' = IF Resting THEN host ELSE [host EXCEPT !.kind = "failed"]
      /\ \/ /\ pending' = NotPending /\ asked' = [id \in Ids |-> Settled]
         \/ UNCHANGED <<pending, asked, expiry>>
  BY DEF Restart, Resting
<1>2. \A c \in Calls : pc'[c] = "idle"
  BY <1>1
<1>3. \A c \in Calls : Undisturbed(pc'[c], frame'[c], pending', asked')
  BY <1>2, IdleUndisturbed
<1>4. OwnResults(pending'.plan, pending'.idx, pending'.done)
  <2>1. OwnResults(pending.plan, pending.idx, pending.done)
    BY DEF Alone
  <2>2. OwnResults(NotPending.plan, NotPending.idx, NotPending.done)
    BY BriefingAssumption DEF OwnResults
  <2>3. CASE pending' = pending
    BY <2>1, <2>3 DEF OwnResults, DistinctIds
  <2>4. CASE pending' = NotPending
    BY <2>2, <2>4 DEF OwnResults, DistinctIds
  <2>5. QED
    BY <1>1, <2>3, <2>4
<1>5. CASE ~Resting
  <2>1. host'.kind = "failed"
    BY <1>1, <1>5 DEF BriefingInv, Types, Response
  <2>2. QED
    BY <1>2, <1>3, <1>4, <2>1 DEF Alone, OwnResults, DistinctIds
<1>6. CASE Resting
  <2>1. host' = host
    BY <1>1, <1>6
  <2>2. host.kind = "question" => Awaited(host, pending, asked, expiry)
    BY <1>6 DEF Alone
  <2>3. Awaited(host, pending, asked, expiry) => Awaited(host, pending', asked', expiry')
    <3>1. CASE pending' = NotPending /\ asked' = [id \in Ids |-> Settled]
      BY <3>1 DEF Awaited
    <3>2. CASE UNCHANGED <<pending, asked, expiry>>
      BY <3>2 DEF Awaited, PendingLast, OnTopic
    <3>3. QED
      BY <1>1, <3>1, <3>2
  <2>4. (host.kind = "question" /\ Resting => Awaited(host, pending, asked, expiry))'
    BY <2>1, <2>2, <2>3 DEF Awaited, PendingLast, OnTopic
  <2>5. (host.kind = "report" /\ DistinctIds(host.plan) =>
           \A i \in 1..Len(host.plan) : host.sections[i] = host.plan[i].query)'
    BY <2>1 DEF Alone, DistinctIds
  <2>6. QED
    BY <1>2, <1>3, <1>4, <2>4, <2>5 DEF Alone, OwnResults, DistinctIds
<1>7. QED
  BY <1>5, <1>6

LEMMA InitAlone == Init => Alone
<1> SUFFICES ASSUME Init
             PROVE  Alone
  OBVIOUS
<1>1. host.kind = "none"
  BY DEF Init, Reply
<1>2. OwnResults(pending.plan, pending.idx, pending.done)
  BY BriefingAssumption DEF Init, OwnResults
<1>3. \A c \in Calls : pc[c] = "idle"
  BY DEF Init
<1>4. \A c \in Calls : Undisturbed(pc[c], frame[c], pending, asked)
  BY <1>3, IdleUndisturbed
<1>5. QED
  BY <1>1, <1>2, <1>3, <1>4 DEF Alone

LEMMA NextKeepsAlone == BriefingInv /\ Bounds /\ Alone /\ [Next]_vars => Alone'
<1> SUFFICES ASSUME BriefingInv, Bounds, Alone, [Next]_vars
             PROVE  Alone'
  OBVIOUS
<1>1. CASE UNCHANGED vars
  <2>1. /\ pc' = pc /\ frame' = frame /\ pending' = pending /\ asked' = asked
        /\ expiry' = expiry /\ host' = host /\ solo' = solo
    BY <1>1 DEF vars
  <2>2. QED
    BY <2>1 DEF Alone, Resting, DistinctIds
<1>2. ASSUME NEW c \in Calls, NEW answer \in BOOLEAN, Begin(c, answer)
      PROVE  Alone'
  BY <1>2, BeginAlone
<1>3. ASSUME NEW c \in Calls, Advance(c)
      PROVE  Alone'
  <2>1. solo' = solo
    BY <1>3
       DEF Advance, Decomposed, DecomposeFails, StartTopic, AnswerResolved, TopicAsks,
           TopicDispatches, TopicCompletes, TopicRephrases, SavePending, Raises, Finish,
           Undelivered, Deliver, DeliverFails, Sidecar, SidecarFails, ReturnReport
  <2>2. CASE ~solo
    BY <2>1, <2>2 DEF Alone
  <2>3. CASE solo
    BY <1>3, <2>3, DecomposedAlone, StartTopicAlone, AskingAlone, TopicCompletesAlone,
       SavePendingAlone, FailureAlone, FinishAlone, FilesAlone, ReturnReportAlone DEF Advance
  <2>4. QED
    BY <2>2, <2>3
<1>4. CASE Expire
  <2>1. solo' = solo
    BY <1>4 DEF Expire
  <2>2. QED
    BY <1>4, <2>1, ExpireAlone DEF Alone
<1>5. CASE Restart
  <2>1. solo' = solo
    BY <1>5 DEF Restart
  <2>2. QED
    BY <1>5, <2>1, RestartAlone DEF Alone
<1>6. QED
  BY <1>1, <1>2, <1>3, <1>4, <1>5 DEF Next

LEMMA AloneHolds == Spec => [](BriefingInv /\ Bounds /\ Alone)
<1>1. Init => Alone
  BY InitAlone
<1>2. BriefingInv /\ Bounds /\ Alone /\ [Next]_vars => Alone'
  BY NextKeepsAlone
<1>3. QED
  BY <1>1, <1>2, BoundsHold, PTL DEF Spec

\* The answer to a question of generate_briefing meets the stored progress of that
\* question and a topic session that awaits it or nothing, whatever expired, failed
\* or was restarted in between, as long as calls of the session do not overlap.
THEOREM AnswersReachTheirTopics == Spec => []AnswerReachesItsTopic
<1>1. Alone => AnswerReachesItsTopic
  BY DEF Alone, Awaited, OnTopic, AnswerReachesItsTopic
<1>2. QED
  BY <1>1, AloneHolds, PTL

\* Each section of a report that generate_briefing returns holds the result of its own
\* topic's query, also when the agenda was decomposed anew into other topics with ids
\* that were used before, as long as calls of the session do not overlap.
THEOREM SectionsAreTheirOwn == Spec => []SectionsReportTheirTopics
<1>1. Alone => SectionsReportTheirTopics
  BY DEF Alone, SectionsReportTheirTopics
<1>2. QED
  BY <1>1, AloneHolds, PTL

\* Progress that generate_briefing stores over earlier progress keeps its topics, goes
\* no step back and loses no result, as long as calls of the session do not overlap.
THEOREM ProgressIsKept == Spec => ProgressOnly
<1> DEFINE A == pending # NotPending /\ pending' # NotPending /\ solo =>
                  /\ pending'.plan = pending.plan
                  /\ pending'.idx >= pending.idx
                  /\ \A id \in Ids : pending.done[id] # NoQuery => pending'.done[id] # NoQuery
<1>1. BriefingInv /\ Alone /\ [Next]_vars => [A]_vars
  <2> SUFFICES ASSUME BriefingInv, Alone, Next, pending # NotPending, pending' # NotPending, solo
               PROVE  /\ pending'.plan = pending.plan
                      /\ pending'.idx >= pending.idx
                      /\ \A id \in Ids : pending.done[id] # NoQuery => pending'.done[id] # NoQuery
    OBVIOUS
  <2>1. pending' = pending \/ \E c \in Calls : SavePending(c)
    BY DEF Next, Begin, Advance, Decomposed, DecomposeFails, StartTopic, AnswerResolved,
           TopicAsks, TopicDispatches, TopicCompletes, TopicRephrases, Raises, Finish,
           Undelivered, Deliver, DeliverFails, Sidecar, SidecarFails, ReturnReport, Expire, Restart
  <2>2. CASE pending' = pending
    BY <2>2 DEF BriefingInv, Types, Progress
  <2>3. ASSUME NEW c \in Calls, SavePending(c)
        PROVE  /\ pending'.plan = pending.plan
               /\ pending'.idx >= pending.idx
               /\ \A id \in Ids : pending.done[id] # NoQuery => pending'.done[id] # NoQuery
    <3>1. /\ pc[c] = "save_pending"
          /\ pending' = [plan |-> frame[c].plan, idx |-> frame[c].idx, done |-> frame[c].done]
      BY <2>3 DEF SavePending
    <3>2. AheadOf(pending, frame[c])
      BY <3>1 DEF Alone, Undisturbed
    <3>3. frame[c].idx \in Nat /\ pending.idx \in Nat
      BY DEF BriefingInv, Types, Frame, Progress
    <3>4. QED
      BY <3>1, <3>2, <3>3 DEF AheadOf
  <2>4. QED
    BY <2>1, <2>2, <2>3
<1>2. QED
  BY <1>1, AloneHolds, PTL DEF Spec, ProgressOnly
=============================================================================
