------------------------- MODULE ConventionsStore -------------------------
(***************************************************************************)
(* JsonFileConventionsStore of memory/conventions_store.py: a dict changed *)
(* on the event loop and a JSON file written by worker threads.  set() and *)
(* delete() change the dict and await asyncio.to_thread(_persist); nothing *)
(* orders the threads of two callers, and all of them go through one .tmp  *)
(* file.  Files are inodes: a thread keeps writing to the inode it opened, *)
(* whatever name that inode has by then.                                   *)
(***************************************************************************)
EXTENDS Naturals, FiniteSets

CONSTANTS
  Callers,   \* coroutines inside set() or delete() at once
  Terms,     \* (project, term) keys
  Values,    \* conventions
  NoValue,   \* an absent key
  Inodes,    \* file identities
  NoInode    \* an absent file name

ASSUME StoreAssumption ==
  /\ NoValue \notin Values
  /\ NoInode \notin Inodes
  /\ IsFiniteSet(Terms)

VARIABLES
  items,    \* the dict self._items
  caller,   \* what each caller's thread is doing
  name,     \* directory: "path" and "tmp" to inodes
  content,  \* inode -> file content
  kept,     \* keys whose set() has returned and that nobody has deleted since
  up        \* FALSE once the store cannot be loaded (ConfigError at startup)

vars == <<items, caller, name, content, kept, up>>

-----------------------------------------------------------------------------
Map == [Terms -> Values \cup {NoValue}]

NoItems == [t \in Terms |-> NoValue]

Keys(m) == {t \in Terms : m[t] # NoValue}

\* A truncated file, a complete JSON array, or bytes of two of them.
Content == [form : {"empty", "whole", "torn"}, map : Map]

Empty == [form |-> "empty", map |-> NoItems]

Whole(m) == [form |-> "whole", map |-> m]

Stages == {"idle", "start", "dump", "open", "write", "replace"}

Thread == [at : Stages, key : Terms, todo : SUBSET Terms, size : Nat,
           payload : Map, file : Inodes \cup {NoInode}]

Idle(t) == [at |-> "idle", key |-> t, todo |-> {}, size |-> 0,
            payload |-> NoItems, file |-> NoInode]

TypeOK ==
  /\ items \in Map
  /\ caller \in [Callers -> Thread]
  /\ name \in [{"path", "tmp"} -> Inodes \cup {NoInode}]
  /\ content \in [Inodes -> Content]
  /\ kept \in SUBSET Terms
  /\ up \in BOOLEAN

Init ==
  /\ items = NoItems
  /\ caller \in {[c \in Callers |-> Idle(t)] : t \in Terms}
  /\ name = [n \in {"path", "tmp"} |-> NoInode]
  /\ content = [i \in Inodes |-> Empty]
  /\ kept = {}
  /\ up = TRUE

Unused == {i \in Inodes : /\ \A n \in {"path", "tmp"} : name[n] # i
                          /\ \A c \in Callers : caller[c].file # i}

\* Bytes written from offset 0 over what the inode holds; a longer array shows
\* behind a shorter one.
Over(new, old) ==
  IF old.form = "empty" \/ Cardinality(Keys(old.map)) <= Cardinality(Keys(new))
  THEN Whole(new) ELSE [form |-> "torn", map |-> NoItems]

\* What _load makes of the file.
Loads(i) == i = NoInode \/ content[i].form = "whole"

\* Mutant: no file, no map.
LoadedPartial(i) == IF i = NoInode THEN [t \in {} |-> NoValue] ELSE content[i].map

Loaded(i) == IF i = NoInode THEN NoItems ELSE content[i].map

-----------------------------------------------------------------------------
(* Callers.                                                                *)

\* Mutant: the thread is started and not awaited.
ChangeUnawaited(c, t, v) ==
  /\ up /\ caller[c].at = "idle"
  /\ items' = [items EXCEPT ![t] = v]
  /\ kept' = IF v = NoValue THEN kept \ {t} ELSE kept \cup {t}
  /\ caller' = [caller EXCEPT ![c] = [Idle(t) EXCEPT !.at = "start"]]
  /\ UNCHANGED <<name, content, up>>

\* The dict changes at once and a worker thread is started and awaited.
Change(c, t, v) ==
  /\ up /\ caller[c].at = "idle"
  /\ items' = [items EXCEPT ![t] = v]
  /\ kept' = IF v = NoValue THEN kept \ {t} ELSE kept
  /\ caller' = [caller EXCEPT ![c] = [Idle(t) EXCEPT !.at = "start"]]
  /\ UNCHANGED <<name, content, up>>

Set(c, t, v) == v \in Values /\ Change(c, t, v)

\* delete() writes only when something was removed.
Delete(c, t) == items[t] # NoValue /\ Change(c, t, NoValue)

\* The directory is there; the comprehension takes an iterator of the live dict,
\* which remembers the size.
StartDump(c) ==
  /\ caller[c].at = "start"
  /\ caller' = [caller EXCEPT ![c].at = "dump", ![c].todo = Keys(items),
                              ![c].size = Cardinality(Keys(items))]
  /\ UNCHANGED <<items, name, content, kept, up>>

\* One turn of it; the dict may have changed since, but not its size.
DumpItem(c) ==
  /\ caller[c].at = "dump"
  /\ Cardinality(Keys(items)) = caller[c].size
  /\ \E t \in caller[c].todo :
       caller' = [caller EXCEPT ![c].todo = @ \ {t}, ![c].payload[t] = items[t]]
  /\ UNCHANGED <<items, name, content, kept, up>>

\* Mutant: what was read so far is written.
DumpEndsEarly(c) ==
  /\ caller[c].at = "dump"
  /\ caller' = [caller EXCEPT ![c].at = "open"]
  /\ UNCHANGED <<items, name, content, kept, up>>

DumpEnds(c) ==
  /\ caller[c].at = "dump" /\ caller[c].todo = {}
  /\ caller' = [caller EXCEPT ![c].at = "open"]
  /\ UNCHANGED <<items, name, content, kept, up>>

\* Mutant: no temporary file.
OpenInPlace(c) ==
  /\ caller[c].at = "open"
  /\ \E i \in IF name["path"] = NoInode THEN Unused ELSE {name["path"]} :
       /\ name' = [name EXCEPT !["path"] = i]
       /\ content' = [content EXCEPT ![i] = Empty]
       /\ caller' = [caller EXCEPT ![c].at = "write", ![c].file = i]
  /\ UNCHANGED <<items, kept, up>>

\* open("w") truncates the file the name .tmp refers to, or creates one.
OpenTmp(c) ==
  /\ caller[c].at = "open"
  /\ \E i \in IF name["tmp"] = NoInode THEN Unused ELSE {name["tmp"]} :
       /\ name' = [name EXCEPT !["tmp"] = i]
       /\ content' = [content EXCEPT ![i] = Empty]
       /\ caller' = [caller EXCEPT ![c].at = "write", ![c].file = i]
  /\ UNCHANGED <<items, kept, up>>

WriteTmp(c) ==
  /\ caller[c].at = "write"
  /\ content' = [content EXCEPT ![caller[c].file] = Over(caller[c].payload, @)]
  /\ caller' = [caller EXCEPT ![c].at = "replace", ![c].file = NoInode]
  /\ UNCHANGED <<items, name, kept, up>>

\* rename(2), then set() or delete() returns.
Replace(c) ==
  /\ caller[c].at = "replace" /\ name["tmp"] # NoInode
  /\ name' = [path |-> name["tmp"], tmp |-> NoInode]
  /\ kept' = IF items[caller[c].key] = NoValue THEN kept ELSE kept \cup {caller[c].key}
  /\ caller' = [caller EXCEPT ![c] = Idle(caller[c].key)]
  /\ UNCHANGED <<items, content, up>>

\* The exception leaves set(): no directory or file can be made, "dictionary
\* changed size during iteration", no space for the content, or a .tmp that
\* another caller has renamed.
Fails(c) ==
  /\ \/ caller[c].at = "dump" /\ Cardinality(Keys(items)) # caller[c].size
     \/ caller[c].at \in {"start", "open", "write"}
     \/ caller[c].at = "replace" /\ name["tmp"] = NoInode
  /\ caller' = [caller EXCEPT ![c] = Idle(caller[c].key)]
  /\ UNCHANGED <<items, name, content, kept, up>>

\* The process dies and the store is loaded again from the file.
Restart ==
  /\ up
  /\ items' = IF Loads(name["path"]) THEN Loaded(name["path"]) ELSE NoItems
  /\ up' = Loads(name["path"])
  /\ caller' = [c \in Callers |-> Idle(caller[c].key)]
  /\ UNCHANGED <<name, content, kept>>

Persist(c) ==
  StartDump(c) \/ DumpItem(c) \/ DumpEnds(c) \/ OpenTmp(c) \/ WriteTmp(c) \/ Replace(c) \/ Fails(c)

Next ==
  \/ \E c \in Callers, t \in Terms :
       \/ \E v \in Values : Set(c, t, v)
       \/ Delete(c, t)
  \/ \E c \in Callers : Persist(c)
  \/ Restart

Spec == Init /\ [][Next]_vars

-----------------------------------------------------------------------------
\* Whenever the process stops, the conventions file can be loaded again: the
\* docstring of _persist promises an atomic write.
AlwaysLoadable == Loads(name["path"])

\* A convention whose set() has returned is in the file, and stays there through
\* restarts and failed writes, until it is deleted.
LearnedIsDurable == \A t \in kept : Loaded(name["path"])[t] # NoValue

\* The file changes only from one complete state of the dict to another.
Durable == INSTANCE DurableMap WITH saved <- Loaded(name["path"])

ImplementsDurableMap == Durable!Spec
=============================================================================
