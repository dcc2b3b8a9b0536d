----------------------- MODULE ConventionsStoreProofs -----------------------
(***************************************************************************)
(* Proofs about ConventionsStore when no two callers are inside set() or   *)
(* delete() at once: the file can always be loaded, holds what was         *)
(* learned, and the store implements DurableMap.  With a second caller all *)
(* three are false; the types hold for any number of callers.              *)
(***************************************************************************)
EXTENDS ConventionsStore, FiniteSetTheorems, TLAPS

OneCaller == \A c, d \in Callers : c = d

\* What the caller's thread has read: everything but todo, and all of it once
\* the comprehension has ended.  The dict has not changed since.
ReadSoFar(c) ==
  /\ caller[c].at = "start" => caller[c].payload = NoItems
  /\ caller[c].at = "dump" =>
       \A t \in Terms : IF t \in caller[c].todo
                        THEN caller[c].payload[t] = NoValue
                        ELSE caller[c].payload[t] = items[t]
  /\ caller[c].at \in {"open", "write"} => caller[c].payload = items

\* The temporary file is another file than the conventions file; it is empty
\* while it is open, and complete before it is renamed.
Temporary(c) ==
  /\ caller[c].at = "write" =>
       /\ caller[c].file \in Inodes
       /\ caller[c].file = name["tmp"]
       /\ content[caller[c].file] = Empty
  /\ caller[c].at = "replace" /\ name["tmp"] # NoInode =>
       content[name["tmp"]] = Whole(items)

StoreInv ==
  /\ TypeOK
  /\ \A c \in Callers : ReadSoFar(c) /\ Temporary(c)
  /\ name["path"] # NoInode => name["path"] # name["tmp"]
  /\ AlwaysLoadable
  /\ \A t \in kept : items[t] # NoValue
  /\ LearnedIsDurable

-----------------------------------------------------------------------------
USE DEF NoItems, Empty, Whole, Idle

\* Types of the pieces the actions build states from.
LEMMA PieceTypes ==
  /\ NoItems \in Map
  /\ Empty \in Content
  /\ \A m \in Map : Whole(m) \in Content
  /\ \A t \in Terms : Idle(t) \in Thread
  /\ \A m \in Map : Keys(m) \in SUBSET Terms /\ Cardinality(Keys(m)) \in Nat
<1>1. NoItems \in Map /\ Empty \in Content /\ \A m \in Map : Whole(m) \in Content
  BY DEF Map, Content
<1>2. \A t \in Terms : Idle(t) \in Thread
  BY <1>1 DEF Thread, Stages
<1>3. ASSUME NEW m \in Map
      PROVE  Keys(m) \in SUBSET Terms /\ Cardinality(Keys(m)) \in Nat
  <2>1. Keys(m) \subseteq Terms
    BY DEF Keys
  <2>2. IsFiniteSet(Keys(m))
    BY <2>1, StoreAssumption, FS_Subset
  <2>3. QED
    BY <2>1, <2>2, FS_CardinalityType
<1>4. QED
  BY <1>1, <1>2, <1>3

\* A thread that has read one more convention, and one that has opened a file.
LEMMA ThreadWith ==
  ASSUME NEW g \in Thread
  PROVE  /\ \A t \in Terms, m \in Map : [g EXCEPT !.todo = @ \ {t}, !.payload = m] \in Thread
         /\ \A i \in Inodes : [g EXCEPT !.at = "write", !.file = i] \in Thread
BY DEF Thread, Stages

-----------------------------------------------------------------------------
(* Types, whatever the callers do.                                         *)

\* A thread that has gone on to another stage, its other fields as given.
LEMMA ThreadMoves ==
  ASSUME TypeOK, NEW c \in Callers, NEW f \in Thread, caller' = [caller EXCEPT ![c] = f]
  PROVE  caller' \in [Callers -> Thread]
BY DEF TypeOK

LEMMA ChangeTypes ==
  ASSUME TypeOK, NEW c \in Callers, NEW t \in Terms, NEW v \in Values \cup {NoValue},
         Change(c, t, v)
  PROVE  TypeOK'
BY PieceTypes DEF TypeOK, Change, Map, Thread, Stages

LEMMA DumpTypes ==
  ASSUME TypeOK, NEW c \in Callers, StartDump(c) \/ DumpItem(c) \/ DumpEnds(c)
  PROVE  TypeOK'
<1>1. caller[c] \in Thread /\ caller[c].payload \in Map /\ items \in Map
  BY DEF TypeOK, Thread
<1>2. caller' \in [Callers -> Thread]
  <2>1. CASE StartDump(c)
    <3> DEFINE f == [caller[c] EXCEPT !.at = "dump", !.todo = Keys(items),
                                      !.size = Cardinality(Keys(items))]
    <3>1. f \in Thread
      BY <1>1, PieceTypes DEF Thread, Stages
    <3>2. caller' = [caller EXCEPT ![c] = f]
      BY <2>1 DEF TypeOK, StartDump, Thread
    <3> HIDE DEF f
    <3>3. QED
      BY <3>1, <3>2, ThreadMoves
  <2>2. CASE DumpItem(c)
    <3>1. PICK t \in caller[c].todo :
            caller' = [caller EXCEPT ![c].todo = @ \ {t}, ![c].payload[t] = items[t]]
      BY <2>2 DEF DumpItem
    <3> DEFINE m == [caller[c].payload EXCEPT ![t] = items[t]]
               f == [caller[c] EXCEPT !.todo = @ \ {t}, !.payload = m]
    <3>2. t \in Terms /\ m \in Map
      BY <1>1 DEF Map, Thread
    <3>3. f \in Thread
      <4> HIDE DEF m
      <4>1. QED
        BY <1>1, <3>2, ThreadWith
    <3>4. caller' = [caller EXCEPT ![c] = f]
      BY <1>1, <3>1 DEF TypeOK, Thread
    <3> HIDE DEF f
    <3>5. QED
      BY <3>3, <3>4, ThreadMoves
  <2>3. CASE DumpEnds(c)
    BY <2>3 DEF TypeOK, DumpEnds, Thread, Stages
  <2>4. QED
    BY <2>1, <2>2, <2>3
<1>3. UNCHANGED <<items, name, content, kept, up>>
  BY DEF StartDump, DumpItem, DumpEnds
<1>4. QED
  BY <1>2, <1>3 DEF TypeOK

\* A thread writes to a file that may have another name by now, but is a file.
LEMMA FileTypes ==
  ASSUME TypeOK, NEW c \in Callers, OpenTmp(c) \/ WriteTmp(c)
  PROVE  TypeOK'
<1>1. CASE OpenTmp(c)
  <2>1. PICK i \in IF name["tmp"] = NoInode THEN Unused ELSE {name["tmp"]} :
          /\ name' = [name EXCEPT !["tmp"] = i]
          /\ content' = [content EXCEPT ![i] = Empty]
          /\ caller' = [caller EXCEPT ![c].at = "write", ![c].file = i]
    BY <1>1 DEF OpenTmp
  <2>2. i \in Inodes
    BY <2>1 DEF TypeOK, Unused
  <2> DEFINE f == [caller[c] EXCEPT !.at = "write", !.file = i]
  <2>3. f \in Thread /\ caller' = [caller EXCEPT ![c] = f]
    BY <2>1, <2>2, ThreadWith DEF TypeOK, Thread
  <2> HIDE DEF f
  <2>4. caller' \in [Callers -> Thread]
    BY <2>3, ThreadMoves
  <2>5. /\ name' \in [{"path", "tmp"} -> Inodes \cup {NoInode}]
        /\ content' \in [Inodes -> Content]
    BY <2>1, <2>2, PieceTypes DEF TypeOK
  <2>6. QED
    BY <1>1, <2>4, <2>5 DEF TypeOK, OpenTmp
<1>2. CASE WriteTmp(c)
  <2> DEFINE i == caller[c].file
             f == [caller[c] EXCEPT !.at = "replace", !.file = NoInode]
  <2>1. f \in Thread /\ caller' = [caller EXCEPT ![c] = f]
    BY <1>2 DEF TypeOK, WriteTmp, Thread, Stages
  <2>2. content' = [content EXCEPT ![i] = Over(caller[c].payload, content[i])]
    BY <1>2 DEF WriteTmp
  <2>3. Over(caller[c].payload, content[i]) \in Content
    BY PieceTypes DEF Over, Content, TypeOK, Thread
  <2> HIDE DEF f
  <2>4. content' \in [Inodes -> Content]
    BY <2>2, <2>3 DEF TypeOK
  <2>5. caller' \in [Callers -> Thread]
    BY <2>1, ThreadMoves
  <2>6. QED
    BY <1>2, <2>4, <2>5 DEF TypeOK, WriteTmp
<1>3. QED
  BY <1>1, <1>2

LEMMA EndTypes ==
  ASSUME TypeOK, NEW c \in Callers, Replace(c) \/ Fails(c)
  PROVE  TypeOK'
<1>1. caller[c].key \in Terms /\ Idle(caller[c].key) \in Thread
  BY PieceTypes DEF TypeOK, Thread
<1>2. caller' \in [Callers -> Thread]
  BY <1>1, ThreadMoves DEF Replace, Fails
<1>3. CASE Replace(c)
  BY <1>1, <1>2, <1>3 DEF TypeOK, Replace
<1>4. CASE Fails(c)
  BY <1>2, <1>4 DEF TypeOK, Fails
<1>5. QED
  BY <1>3, <1>4

LEMMA RestartTypes ==
  ASSUME TypeOK, Restart
  PROVE  TypeOK'
<1>1. items' \in Map
  BY PieceTypes DEF TypeOK, Restart, Loaded, Content
<1>2. caller' \in [Callers -> Thread]
  BY PieceTypes DEF TypeOK, Restart, Thread
<1>3. QED
  BY <1>1, <1>2 DEF TypeOK, Restart, Loads

\* Any number of callers, failures and crashes: the dict holds conventions, the
\* names refer to files and the files to maps, torn ones included.
THEOREM StoreTypes == Spec => []TypeOK
<1>1. Init => TypeOK
  BY PieceTypes DEF Init, TypeOK
<1>2. TypeOK /\ [Next]_vars => TypeOK'
  <2> SUFFICES ASSUME TypeOK, [Next]_vars
               PROVE  TypeOK'
    OBVIOUS
  <2>1. CASE UNCHANGED vars
    BY <2>1 DEF vars, TypeOK
  <2>2. CASE \E c \in Callers, t \in Terms :
               \/ \E v \in Values : Set(c, t, v)
               \/ Delete(c, t)
    BY <2>2, ChangeTypes DEF Set, Delete
  <2>3. CASE \E c \in Callers : Persist(c)
    BY <2>3, DumpTypes, FileTypes, EndTypes DEF Persist
  <2>4. CASE Restart
    BY <2>4, RestartTypes
  <2>5. QED
    BY <2>1, <2>2, <2>3, <2>4 DEF Next
<1>3. QED
  BY <1>1, <1>2, PTL DEF Spec

-----------------------------------------------------------------------------
\* The initial state satisfies the invariant.
LEMMA StoreInit == Init => StoreInv
<1> SUFFICES ASSUME Init
             PROVE  StoreInv
  OBVIOUS
<1>1. TypeOK
  BY PieceTypes DEF Init, TypeOK
<1>2. \A c \in Callers : caller[c].at = "idle"
  BY DEF Init
<1>3. \A c \in Callers : ReadSoFar(c) /\ Temporary(c)
  BY <1>2 DEF ReadSoFar, Temporary
<1>4. QED
  BY <1>1, <1>3 DEF Init, StoreInv, AlwaysLoadable, Loads, LearnedIsDurable

\* The dict changes only while no thread is at work.
LEMMA ChangeStep ==
  ASSUME OneCaller, StoreInv, NEW c \in Callers, NEW t \in Terms,
         NEW v \in Values \cup {NoValue}, Change(c, t, v)
  PROVE  StoreInv'
<1>1. TypeOK'
  BY PieceTypes DEF StoreInv, TypeOK, Change, Map, Thread, Stages
<1>2. caller'[c].at = "start" /\ caller'[c].payload = NoItems
  BY DEF StoreInv, TypeOK, Change
<1>3. \A d \in Callers : ReadSoFar(d)' /\ Temporary(d)'
  BY <1>2 DEF ReadSoFar, Temporary, OneCaller
<1>4. \A u \in kept' : items'[u] # NoValue
  BY StoreAssumption DEF StoreInv, TypeOK, Change, Map
<1>5. LearnedIsDurable'
  BY DEF StoreInv, LearnedIsDurable, Loaded, Change
<1>6. QED
  BY <1>1, <1>3, <1>4, <1>5 DEF StoreInv, AlwaysLoadable, Loads, Change

\* One turn of the comprehension, its two changes made in one record.
LEMMA ItemRead ==
  ASSUME StoreInv, NEW c \in Callers, DumpItem(c)
  PROVE  \E t \in caller[c].todo :
           LET f == [caller[c] EXCEPT !.todo = @ \ {t},
                                      !.payload = [caller[c].payload EXCEPT ![t] = items[t]]]
           IN  f \in Thread /\ caller' = [caller EXCEPT ![c] = f]
<1>1. PICK t \in caller[c].todo :
        caller' = [caller EXCEPT ![c].todo = @ \ {t}, ![c].payload[t] = items[t]]
  BY DEF DumpItem
<1>2. caller[c] \in Thread /\ caller[c].payload \in Map /\ items \in Map /\ t \in Terms
  BY DEF StoreInv, TypeOK, Thread
<1> DEFINE m == [caller[c].payload EXCEPT ![t] = items[t]]
           f == [caller[c] EXCEPT !.todo = @ \ {t}, !.payload = m]
<1>3. m \in Map
  BY <1>2 DEF Map
<1>4. f \in Thread
  <2> HIDE DEF m
  <2>1. QED
    BY <1>2, <1>3, ThreadWith
<1>5. caller' = [caller EXCEPT ![c] = f]
  BY <1>1, <1>2 DEF StoreInv, TypeOK, Thread
<1>6. QED
  BY <1>4, <1>5

\* The comprehension: it begins, reads one convention, ends.
LEMMA DumpStep ==
  ASSUME OneCaller, StoreInv, NEW c \in Callers,
         StartDump(c) \/ DumpItem(c) \/ DumpEnds(c)
  PROVE  StoreInv'
<1>1. TypeOK'
  <2>1. CASE StartDump(c)
    <3> DEFINE f == [caller[c] EXCEPT !.at = "dump", !.todo = Keys(items),
                                      !.size = Cardinality(Keys(items))]
    <3>1. Keys(items) \in SUBSET Terms /\ Cardinality(Keys(items)) \in Nat
      BY PieceTypes DEF StoreInv, TypeOK
    <3>2. f \in Thread
      BY <3>1 DEF StoreInv, TypeOK, Thread, Stages
    <3>3. caller' = [caller EXCEPT ![c] = f]
      BY <2>1 DEF StoreInv, TypeOK, StartDump, Thread
    <3> HIDE DEF f
    <3>4. QED
      BY <2>1, <3>2, <3>3, ZenonT(60) DEF StoreInv, TypeOK, StartDump
  <2>2. CASE DumpItem(c)
    BY <2>2, ItemRead DEF StoreInv, TypeOK, DumpItem
  <2>3. CASE DumpEnds(c)
    BY <2>3 DEF StoreInv, TypeOK, DumpEnds, Thread, Stages
  <2>4. QED
    BY <2>1, <2>2, <2>3
<1>2. ReadSoFar(c)' /\ Temporary(c)'
  <2>1. CASE StartDump(c)
    <3>1. /\ caller'[c].at = "dump" /\ caller'[c].todo = Keys(items)
          /\ caller'[c].payload = caller[c].payload
          /\ caller[c].at = "start" /\ items' = items
      BY <2>1 DEF StoreInv, TypeOK, StartDump, Thread
    <3>2. caller[c].payload = NoItems
      BY <3>1 DEF StoreInv, ReadSoFar
    <3>3. \A t \in Terms : t \notin Keys(items) => items[t] = NoValue
      BY DEF Keys
    <3>4. QED
      BY <3>1, <3>2, <3>3 DEF ReadSoFar, Temporary
  <2>2. CASE DumpItem(c)
    <3>1. PICK t \in caller[c].todo :
            LET f == [caller[c] EXCEPT !.todo = @ \ {t},
                                       !.payload = [caller[c].payload EXCEPT ![t] = items[t]]]
            IN  f \in Thread /\ caller' = [caller EXCEPT ![c] = f]
      BY <2>2, ItemRead
    <3>2. /\ caller'[c].at = "dump" /\ caller'[c].todo = caller[c].todo \ {t}
          /\ caller'[c].payload = [caller[c].payload EXCEPT ![t] = items[t]]
          /\ caller[c].at = "dump" /\ items' = items
      BY <2>2, <3>1 DEF StoreInv, TypeOK, DumpItem, Thread
    <3>3. caller[c].payload \in Map
      BY DEF StoreInv, TypeOK, Thread
    <3>4. \A u \in Terms : IF u \in caller[c].todo
                           THEN caller[c].payload[u] = NoValue
                           ELSE caller[c].payload[u] = items[u]
      BY <3>2 DEF StoreInv, ReadSoFar
    <3>5. QED
      BY <3>2, <3>3, <3>4 DEF ReadSoFar, Temporary, Map
  <2>3. CASE DumpEnds(c)
    <3>1. \A t \in Terms : caller[c].payload[t] = items[t]
      BY <2>3 DEF StoreInv, DumpEnds, ReadSoFar
    <3>2. caller[c].payload \in Map /\ items \in Map
      BY DEF StoreInv, TypeOK, Thread
    <3>3. caller[c].payload = items
      BY <3>1, <3>2 DEF Map
    <3>4. QED
      BY <2>3, <3>3 DEF StoreInv, TypeOK, DumpEnds, ReadSoFar, Temporary, Thread
  <2>4. QED
    BY <2>1, <2>2, <2>3
<1>3. UNCHANGED <<items, name, content, kept>>
  BY DEF StartDump, DumpItem, DumpEnds
<1>4. QED
  BY <1>1, <1>2, <1>3
     DEF StoreInv, OneCaller, AlwaysLoadable, Loads, LearnedIsDurable, Loaded

\* The temporary file is opened and written: the conventions file is not touched.
LEMMA WriteStep ==
  ASSUME OneCaller, StoreInv, NEW c \in Callers, OpenTmp(c) \/ WriteTmp(c)
  PROVE  StoreInv' /\ name'["path"] = name["path"]
         /\ Loaded(name["path"])' = Loaded(name["path"])
<1>1. CASE OpenTmp(c)
  <2>1. PICK i \in IF name["tmp"] = NoInode THEN Unused ELSE {name["tmp"]} :
          /\ name' = [name EXCEPT !["tmp"] = i]
          /\ content' = [content EXCEPT ![i] = Empty]
          /\ caller' = [caller EXCEPT ![c].at = "write", ![c].file = i]
    BY <1>1 DEF OpenTmp
  <2>2. i \in Inodes /\ i # name["path"]
    BY <2>1, StoreAssumption DEF StoreInv, TypeOK, Unused
  <2>3. name'["path"] = name["path"] /\ name'["tmp"] = i
    BY <2>1 DEF StoreInv, TypeOK
  <2>4. name["path"] # NoInode => content'[name["path"]] = content[name["path"]]
    BY <2>1, <2>2 DEF StoreInv, TypeOK
  <2>5. Loaded(name["path"])' = Loaded(name["path"]) /\ AlwaysLoadable'
    BY <2>3, <2>4 DEF Loaded, StoreInv, AlwaysLoadable, Loads
  <2>6. TypeOK'
    <3> DEFINE f == [caller[c] EXCEPT !.at = "write", !.file = i]
    <3>1. f \in Thread
      BY <2>2, ThreadWith DEF StoreInv, TypeOK
    <3>2. caller' = [caller EXCEPT ![c] = f]
      BY <2>1 DEF StoreInv, TypeOK, Thread
    <3> HIDE DEF f
    <3>3. caller' \in [Callers -> Thread]
      BY <3>1, <3>2 DEF StoreInv, TypeOK
    <3>4. /\ name' \in [{"path", "tmp"} -> Inodes \cup {NoInode}]
          /\ content' \in [Inodes -> Content]
      BY <2>1, <2>2, PieceTypes DEF StoreInv, TypeOK
    <3>5. QED
      BY <1>1, <3>3, <3>4 DEF StoreInv, TypeOK, OpenTmp
  <2>7. ReadSoFar(c)' /\ Temporary(c)'
    <3> DEFINE f == [caller[c] EXCEPT !.at = "write", !.file = i]
    <3>7. caller' = [caller EXCEPT ![c] = f]
      BY <2>1 DEF StoreInv, TypeOK, Thread
    <3>8. f.at = "write" /\ f.file = i /\ f.payload = caller[c].payload
      BY DEF StoreInv, TypeOK, Thread
    <3> HIDE DEF f
    <3>1. /\ caller'[c].at = "write" /\ caller'[c].file = i
          /\ caller'[c].payload = caller[c].payload
          /\ caller[c].at = "open" /\ items' = items
      BY <1>1, <3>7, <3>8 DEF StoreInv, TypeOK, OpenTmp
    <3>2. content'[i] = Empty
      BY <2>1, <2>2 DEF StoreInv, TypeOK
    <3>3. QED
      BY <2>2, <2>3, <3>1, <3>2 DEF StoreInv, ReadSoFar, Temporary
  <2>8. QED
    BY <1>1, <2>2, <2>3, <2>5, <2>6, <2>7
       DEF StoreInv, OneCaller, LearnedIsDurable, OpenTmp
<1>2. CASE WriteTmp(c)
  <2> DEFINE i == caller[c].file
  <2>1. /\ i \in Inodes /\ i = name["tmp"] /\ content[i] = Empty
        /\ caller[c].payload = items
    BY <1>2 DEF StoreInv, WriteTmp, Temporary, ReadSoFar
  <2>2. Over(caller[c].payload, content[i]) = Whole(items)
    BY <2>1 DEF Over
  <2>3. content' = [content EXCEPT ![i] = Whole(items)] /\ UNCHANGED <<items, name, kept>>
    BY <1>2, <2>2 DEF WriteTmp
  <2>4. name["path"] # NoInode => content'[name["path"]] = content[name["path"]]
    BY <2>1, <2>3 DEF StoreInv, TypeOK
  <2>5. Loaded(name["path"])' = Loaded(name["path"]) /\ AlwaysLoadable'
    BY <2>3, <2>4 DEF Loaded, StoreInv, AlwaysLoadable, Loads
  <2>6. TypeOK'
    <3> DEFINE f == [caller[c] EXCEPT !.at = "replace", !.file = NoInode]
    <3>1. f \in Thread
      BY DEF StoreInv, TypeOK, Thread, Stages
    <3>2. caller' = [caller EXCEPT ![c] = f]
      BY <1>2 DEF StoreInv, TypeOK, WriteTmp, Thread
    <3> HIDE DEF f
    <3>3. caller' \in [Callers -> Thread]
      BY <3>1, <3>2 DEF StoreInv, TypeOK
    <3>4. Whole(items) \in Content
      BY PieceTypes DEF StoreInv, TypeOK
    <3>5. content' \in [Inodes -> Content]
      BY <2>1, <2>3, <3>4 DEF StoreInv, TypeOK
    <3>6. QED
      BY <1>2, <2>3, <3>3, <3>5 DEF StoreInv, TypeOK, WriteTmp
  <2>7. ReadSoFar(c)' /\ Temporary(c)'
    <3>1. caller'[c].at = "replace"
      BY <1>2 DEF StoreInv, TypeOK, WriteTmp, Thread
    <3>2. content'[i] = Whole(items)
      BY <2>1, <2>3 DEF StoreInv, TypeOK
    <3>3. QED
      BY <2>1, <2>3, <3>1, <3>2 DEF ReadSoFar, Temporary
  <2>8. QED
    BY <2>3, <2>5, <2>6, <2>7 DEF StoreInv, OneCaller, LearnedIsDurable
<1>3. QED
  BY <1>1, <1>2

\* The rename installs the dict as it is now.
LEMMA ReplaceStep ==
  ASSUME OneCaller, StoreInv, NEW c \in Callers, Replace(c)
  PROVE  StoreInv' /\ Loaded(name["path"])' = items /\ items' = items
<1>1. /\ name["tmp"] \in Inodes /\ content[name["tmp"]] = Whole(items)
      /\ items' = items /\ content' = content
      /\ name' = [path |-> name["tmp"], tmp |-> NoInode]
  BY DEF StoreInv, TypeOK, Temporary, Replace
<1>2. name'["path"] = name["tmp"] /\ name'["tmp"] = NoInode
  BY <1>1
<1>3. Loaded(name["path"])' = items /\ AlwaysLoadable'
  BY <1>1, <1>2, StoreAssumption DEF Loaded, AlwaysLoadable, Loads
<1>4. TypeOK'
  <2>1. name' \in [{"path", "tmp"} -> Inodes \cup {NoInode}]
    BY <1>1
  <2>2. caller[c].key \in Terms
    BY DEF StoreInv, TypeOK, Thread
  <2>3. caller' \in [Callers -> Thread]
    BY <2>2, PieceTypes DEF StoreInv, TypeOK, Replace
  <2>4. kept' \in SUBSET Terms
    BY <2>2 DEF StoreInv, TypeOK, Replace
  <2>5. QED
    BY <1>1, <2>1, <2>3, <2>4 DEF StoreInv, TypeOK, Replace
<1>5. caller'[c].at = "idle"
  BY DEF StoreInv, TypeOK, Replace
<1>6. \A t \in kept' : items'[t] # NoValue
  BY <1>1 DEF StoreInv, Replace
<1>7. QED
  BY <1>1, <1>2, <1>3, <1>4, <1>5, <1>6, StoreAssumption
     DEF StoreInv, OneCaller, ReadSoFar, Temporary, LearnedIsDurable

\* A failure or a crash leaves the files as they are.
LEMMA FailsStep ==
  ASSUME OneCaller, StoreInv, NEW c \in Callers, Fails(c)
  PROVE  StoreInv' /\ UNCHANGED <<items, name, content>>
<1>1. caller'[c].at = "idle" /\ UNCHANGED <<items, name, content, kept, up>>
  BY DEF StoreInv, TypeOK, Fails
<1>2. caller[c].key \in Terms
  BY DEF StoreInv, TypeOK, Thread
<1>3. TypeOK'
  BY <1>1, <1>2, PieceTypes DEF StoreInv, TypeOK, Fails
<1>4. QED
  BY <1>1, <1>3 DEF StoreInv, OneCaller, ReadSoFar, Temporary, AlwaysLoadable, Loads,
                    LearnedIsDurable, Loaded

LEMMA RestartStep ==
  ASSUME StoreInv, Restart
  PROVE  StoreInv' /\ items' = Loaded(name["path"]) /\ UNCHANGED <<name, content>>
<1>1. items' = Loaded(name["path"]) /\ UNCHANGED <<name, content, kept>>
  BY DEF StoreInv, AlwaysLoadable, Restart
<1>2. \A c \in Callers : caller'[c].at = "idle"
  BY DEF Restart
<1>3. TypeOK'
  <2>1. items' \in Map
    BY <1>1, PieceTypes DEF StoreInv, TypeOK, Loaded, Content
  <2>2. \A c \in Callers : caller[c].key \in Terms
    BY DEF StoreInv, TypeOK, Thread
  <2>3. caller' \in [Callers -> Thread]
    BY <2>2, PieceTypes DEF Restart
  <2>4. up' \in BOOLEAN
    BY DEF Restart, Loads
  <2>5. QED
    BY <1>1, <2>1, <2>3, <2>4 DEF StoreInv, TypeOK
<1>4. \A t \in kept' : items'[t] # NoValue
  BY <1>1 DEF StoreInv, LearnedIsDurable
<1>5. QED
  BY <1>1, <1>2, <1>3, <1>4 DEF StoreInv, ReadSoFar, Temporary, AlwaysLoadable, Loads,
                                LearnedIsDurable, Loaded

\* The same state but for what no definition mentions.
LEMMA StutterStep == StoreInv /\ UNCHANGED vars => StoreInv'
BY DEF StoreInv, TypeOK, ReadSoFar, Temporary, AlwaysLoadable, Loads, LearnedIsDurable,
       Loaded, vars

LEMMA StoreStep == OneCaller /\ StoreInv /\ [Next]_vars => StoreInv'
<1> SUFFICES ASSUME OneCaller, StoreInv, [Next]_vars
             PROVE  StoreInv'
  OBVIOUS
<1>1. ASSUME NEW c \in Callers, NEW t \in Terms, NEW v \in Values, Set(c, t, v)
      PROVE  StoreInv'
  BY <1>1, ChangeStep DEF Set
<1>2. ASSUME NEW c \in Callers, NEW t \in Terms, Delete(c, t)
      PROVE  StoreInv'
  BY <1>2, ChangeStep DEF Delete
<1>3. ASSUME NEW c \in Callers, Persist(c)
      PROVE  StoreInv'
  BY <1>3, DumpStep, WriteStep, ReplaceStep, FailsStep DEF Persist
<1>4. CASE Restart
  BY <1>4, RestartStep
<1>5. CASE UNCHANGED vars
  BY <1>5, StutterStep
<1>6. QED
  BY <1>1, <1>2, <1>3, <1>4, <1>5 DEF Next

LEMMA StoreInvariant == ASSUME OneCaller PROVE Spec => []StoreInv
<1>1. Init => StoreInv
  BY StoreInit
<1>2. StoreInv /\ [Next]_vars => StoreInv'
  BY StoreStep
<1>3. QED
  BY <1>1, <1>2, PTL DEF Spec

-----------------------------------------------------------------------------
\* With one caller at a time a crash or a failure at any point leaves a file that
\* _load accepts.
THEOREM CrashSafe == ASSUME OneCaller PROVE Spec => []AlwaysLoadable
<1>1. StoreInv => AlwaysLoadable
  BY DEF StoreInv
<1>2. QED
  BY <1>1, StoreInvariant, PTL

\* With one caller at a time a convention whose set() has returned is in the file
\* until it is deleted.
THEOREM Durability == ASSUME OneCaller PROVE Spec => []LearnedIsDurable
<1>1. StoreInv => LearnedIsDurable
  BY DEF StoreInv
<1>2. QED
  BY <1>1, StoreInvariant, PTL

\* With one caller at a time the file system steps of _persist implement the
\* atomic save of DurableMap: only the rename changes the saved map, and it saves
\* the dict as it is at that moment.
THEOREM Refinement == ASSUME OneCaller PROVE Spec => ImplementsDurableMap
<1>1. Init => Durable!Init
  BY DEF Init, Durable!Init, Loaded
<1>2. StoreInv /\ [Next]_vars => [Durable!Next]_(Durable!vars)
  <2> SUFFICES ASSUME StoreInv, [Next]_vars
               PROVE  [Durable!Next]_(Durable!vars)
    OBVIOUS
  <2> DEFINE saved == Loaded(name["path"])
  <2>1. ASSUME NEW c \in Callers, NEW t \in Terms, NEW v \in Values, Set(c, t, v)
        PROVE  Durable!Change
    BY <2>1 DEF Set, Change, Durable!Change, Durable!Put, Loaded
  <2>2. ASSUME NEW c \in Callers, NEW t \in Terms, Delete(c, t)
        PROVE  Durable!Change
    BY <2>2 DEF Delete, Change, Durable!Change, Durable!Drop, Loaded
  <2>3. ASSUME NEW c \in Callers, Persist(c)
        PROVE  Durable!Save \/ UNCHANGED Durable!vars
    <3>1. CASE StartDump(c) \/ DumpItem(c) \/ DumpEnds(c)
      BY <3>1 DEF StartDump, DumpItem, DumpEnds, Loaded, Durable!vars
    <3>2. CASE OpenTmp(c) \/ WriteTmp(c)
      <4>1. saved' = saved
        BY <3>2, WriteStep
      <4>2. items' = items
        BY <3>2 DEF OpenTmp, WriteTmp
      <4>3. QED
        BY <4>1, <4>2 DEF Durable!vars
    <3>3. CASE Replace(c)
      <4>1. saved' = items /\ items' = items
        BY <3>3, ReplaceStep
      <4>2. QED
        BY <4>1 DEF Durable!Save
    <3>4. CASE Fails(c)
      BY <3>4 DEF Fails, Loaded, Durable!vars
    <3>5. QED
      BY <2>3, <3>1, <3>2, <3>3, <3>4 DEF Persist
  <2>4. CASE Restart
    <3>1. Durable!Restart
      BY <2>4, RestartStep DEF Durable!Restart, Loaded
    <3>2. QED
      BY <3>1 DEF Durable!Next
  <2>5. CASE UNCHANGED vars
    BY <2>5 DEF vars, Durable!vars, Loaded
  <2>6. QED
    BY <2>1, <2>2, <2>3, <2>4, <2>5 DEF Next, Durable!Next
<1>3. QED
  BY <1>1, <1>2, StoreInvariant, PTL DEF Spec, ImplementsDurableMap, Durable!Spec
=============================================================================
