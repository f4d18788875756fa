---------------------------- MODULE DarktableProofs ----------------------------
(***************************************************************************)
(* Calls of Darktable, for any number of threads, calls and crashes, as    *)
(* long as a restarted process gets a pid of its own: concurrent calls     *)
(* never share a temporary directory, a call delivers what its own child   *)
(* wrote, no child is left running, and no directory is left behind.  A    *)
(* name is taken together with its number from a counter, so that every    *)
(* name in use was issued before and the next one is new (NameInv); what   *)
(* is in a directory was then written by the child of the call whose       *)
(* directory it is (DataInv).                                              *)
(***************************************************************************)
EXTENDS Darktable, TLAPS

ChildStates == {"none", "running", "ok", "bad", "dying", "killed"}

\* The names of one kind that this process or an earlier one has taken.
Issued(kind) ==
  {<<kind, p, n>> : p \in 0 .. pid - 1, n \in Nat}
  \cup {<<kind, pid, n>> : n \in 0 .. counter[kind] - 1}

Counters ==
  /\ pid \in Nat
  /\ counter \in [{"file", "bytes"} -> Nat]
  /\ pc \in [Callers -> Pcs]
  /\ DOMAIN outer = Callers /\ DOMAIN dir = Callers
  /\ child \in [Jobs -> [state : ChildStates, dir : SUBSET DirNames, image : SUBSET Images]]

Named ==
  /\ \A t \in Callers : outer[t] \subseteq Issued("bytes") /\ dir[t] \subseteq Issued("file")
  /\ \A j \in Jobs : child[j].dir \subseteq Issued("file")

Apart ==
  /\ \A t, u \in Callers : t # u => outer[t] \cap outer[u] = {} /\ dir[t] \cap dir[u] = {}
  /\ \A t \in Callers : \A j \in Jobs : j # job[t] => dir[t] \cap child[j].dir = {}

NameInv == Counters /\ Named /\ Apart

-----------------------------------------------------------------------------
\* Taking an id issues one name that was not issued before.
LEMMA TakingIsNew ==
  ASSUME Counters, NEW kind \in {"file", "bytes"},
         counter' = [counter EXCEPT ![kind] = @ + 1], pid' = pid
  PROVE  /\ DirName(kind, counter[kind]) \notin Issued(kind)
         /\ Issued(kind)' = Issued(kind) \cup {DirName(kind, counter[kind])}
         /\ \A other \in {"file", "bytes"} \ {kind} : Issued(other)' = Issued(other)
<1>1. counter[kind] \in Nat /\ counter'[kind] = counter[kind] + 1 /\ pid \in Nat
  BY DEF Counters
<1>2. DirName(kind, counter[kind]) \notin Issued(kind)
  BY <1>1 DEF DirName, Issued
<1>3. 0 .. counter'[kind] - 1 = (0 .. counter[kind] - 1) \cup {counter[kind]}
  BY <1>1
<1>4. Issued(kind)' = Issued(kind) \cup {DirName(kind, counter[kind])}
  BY <1>1, <1>3 DEF DirName, Issued
<1>5. \A other \in {"file", "bytes"} \ {kind} : counter'[other] = counter[other]
  BY DEF Counters
<1> QED
  BY <1>2, <1>4, <1>5 DEF Issued

\* Names that are issued stay issued, whatever the next step.
LEMMA IssuedGrows ==
  ASSUME Counters, NEW kind \in {"file", "bytes"},
         \/ UNCHANGED <<pid, counter>>
         \/ pid' = pid /\ \E k \in {"file", "bytes"} : counter' = [counter EXCEPT ![k] = @ + 1]
         \/ pid' = pid + 1
  PROVE  Issued(kind) \subseteq Issued(kind)'
<1>1. CASE UNCHANGED <<pid, counter>>
  BY <1>1 DEF Issued
<1>2. CASE pid' = pid /\ \E k \in {"file", "bytes"} : counter' = [counter EXCEPT ![k] = @ + 1]
  <2>1. PICK k \in {"file", "bytes"} : counter' = [counter EXCEPT ![k] = @ + 1]
    BY <1>2
  <2>2. Issued(k) \subseteq Issued(k)' /\ (kind # k => Issued(kind) = Issued(kind)')
    BY <1>2, <2>1, TakingIsNew
  <2> QED
    BY <2>2
<1>3. CASE pid' = pid + 1
  <2>1. 0 .. pid' - 1 = (0 .. pid - 1) \cup {pid} /\ 0 .. counter[kind] - 1 \subseteq Nat
    BY <1>3 DEF Counters
  <2> QED
    BY <2>1 DEF Issued
<1> QED
  BY <1>1, <1>2, <1>3

\* Issued names have the shape of names, and their kind tells them apart.
LEMMA NamesHaveKinds ==
  ASSUME Counters
  PROVE  /\ Issued("file") \subseteq DirNames
         /\ Issued("file") \cap Issued("bytes") = {}
<1>1. 0 .. pid - 1 \subseteq Nat /\ 0 .. counter["file"] - 1 \subseteq Nat /\ pid \in Nat
  BY DEF Counters
<1> QED
  BY <1>1 DEF Issued, DirNames

-----------------------------------------------------------------------------
\* Steps that leave the names of the calls and of the children alone.
Quiet ==
  /\ UNCHANGED <<pid, counter, job, outer, dir>>
  /\ pc' \in [Callers -> Pcs]
  /\ child' \in [Jobs -> [state : ChildStates, dir : SUBSET DirNames, image : SUBSET Images]]
  /\ \A j \in Jobs : child'[j].dir = child[j].dir

LEMMA QuietKeepsNames == NameInv /\ Quiet => NameInv'
<1> SUFFICES ASSUME NameInv, Quiet PROVE NameInv'
  OBVIOUS
<1>1. Counters'
  BY DEF NameInv, Counters, Quiet
<1>2. Issued("file")' = Issued("file") /\ Issued("bytes")' = Issued("bytes")
  BY DEF Quiet, Issued
<1>3. Named'
  BY <1>2 DEF NameInv, Named, Quiet
<1>4. Apart'
  BY DEF NameInv, Apart, Quiet
<1> QED
  BY <1>1, <1>3, <1>4 DEF NameInv

\* Most steps of a call are of that kind.
LEMMA OtherStepsAreQuiet ==
  ASSUME NameInv, NEW t \in Callers,
         \/ WrapDir(t) \/ WriteInput(t) \/ Find(t) \/ CreateDir(t) \/ SetUp(t)
         \/ Exited(t) \/ WaitFails(t) \/ Overdue(t) \/ Kill(t) \/ Reap(t)
         \/ Stat(t) \/ Read(t) \/ Parse(t) \/ CleanUp(t) \/ Unwrap(t)
  PROVE  Quiet
<1> DEFINE Child == [state : ChildStates, dir : SUBSET DirNames, image : SUBSET Images]
<1>0. pc \in [Callers -> Pcs] /\ child \in [Jobs -> Child] /\ Back(t) \in Pcs
  BY DEF NameInv, Counters, Back, Pcs
<1>1. CASE WrapDir(t) \/ WriteInput(t) \/ Find(t) \/ CreateDir(t) \/ SetUp(t)
  BY <1>0, <1>1 DEF WrapDir, WriteInput, Find, CreateDir, SetUp, Quiet, Goes, Ends, Bail,
     process, own, names, Pcs
<1>2. CASE Exited(t) \/ WaitFails(t) \/ Overdue(t) \/ Reap(t) \/ Stat(t) \/ Read(t) \/ Parse(t)
  BY <1>0, <1>2 DEF Exited, WaitFails, Overdue, Reap, Stat, Read, Parse, Quiet, Goes, Ends, Fail,
     process, own, names, Pcs
<1>3. CASE CleanUp(t) \/ Unwrap(t)
  BY <1>0, <1>3 DEF CleanUp, Unwrap, Quiet, Goes, Ends, Bail, process, own, names, Pcs
<1>4. CASE Kill(t)
  <2>1. child' \in [Jobs -> Child] /\ \A i \in Jobs : child'[i].dir = child[i].dir
    BY <1>0, <1>4 DEF Kill, ChildStates
  <2> QED
    BY <1>0, <1>4, <2>1 DEF Kill, Quiet, Goes, process, own, names, Pcs
<1> QED
  BY <1>1, <1>2, <1>3, <1>4

\* So are those of the children.
LEMMA ChildStepsAreQuiet ==
  ASSUME NameInv, NEW j \in Jobs, Write(j) \/ Exit(j) \/ Die(j) PROVE Quiet
<1> DEFINE Child == [state : ChildStates, dir : SUBSET DirNames, image : SUBSET Images]
<1>0. pc \in [Callers -> Pcs] /\ child \in [Jobs -> Child]
  BY DEF NameInv, Counters
<1>1. CASE Write(j)
  BY <1>0, <1>1 DEF Write, Quiet, process, own, names
<1>2. CASE Exit(j) \/ Die(j)
  <2>1. child' \in [Jobs -> Child] /\ \A i \in Jobs : child'[i].dir = child[i].dir
    BY <1>0, <1>2 DEF Exit, Die, ChildStates
  <2> QED
    BY <1>0, <1>2, <2>1 DEF Exit, Die, Quiet, process, own, names
<1> QED
  BY <1>1, <1>2

-----------------------------------------------------------------------------
\* A new call holds no directory yet.
LEMMA StartKeepsNames ==
  ASSUME NameInv, NEW t \in Callers, Start(t) PROVE NameInv'
<1>1. Counters'
  BY DEF NameInv, Counters, Start, Goes, Pcs
<1>2. Issued("file")' = Issued("file") /\ Issued("bytes")' = Issued("bytes")
  BY DEF Start, Issued
<1>3. /\ \A u \in Callers : outer'[u] = (IF u = t THEN {} ELSE outer[u])
      /\ \A u \in Callers : dir'[u] = (IF u = t THEN {} ELSE dir[u])
      /\ \A u \in Callers : u # t => job'[u] = job[u]
      /\ child' = child
  BY DEF NameInv, Counters, Start, None
<1>4. Named' /\ Apart'
  BY <1>2, <1>3 DEF NameInv, Named, Apart
<1> QED
  BY <1>1, <1>4 DEF NameInv

\* decode_bytes takes a name nobody has.
LEMMA WrapIdKeepsNames ==
  ASSUME NameInv, NEW t \in Callers, WrapId(t) PROVE NameInv'
<1> DEFINE new == DirName("bytes", counter["bytes"])
<1>1. Counters'
  BY DEF NameInv, Counters, WrapId, Goes, Pcs
<1>2. /\ new \notin Issued("bytes")
      /\ Issued("bytes")' = Issued("bytes") \cup {new}
      /\ Issued("file")' = Issued("file")
  BY TakingIsNew DEF NameInv, WrapId
<1>3. /\ \A u \in Callers : outer'[u] = (IF u = t THEN {new} ELSE outer[u])
      /\ UNCHANGED <<dir, job, child>>
  BY DEF NameInv, Counters, WrapId, own, Some
<1> HIDE DEF new
<1>4. Named'
  BY <1>2, <1>3 DEF NameInv, Named
<1>5. Apart'
  BY <1>2, <1>3 DEF NameInv, Named, Apart
<1> QED
  BY <1>1, <1>4, <1>5 DEF NameInv

\* decode_file takes a name nobody has, no child either.
LEMMA TakeIdKeepsNames ==
  ASSUME NameInv, NEW t \in Callers, TakeId(t) PROVE NameInv'
<1> DEFINE new == DirName("file", counter["file"])
<1>1. Counters'
  BY DEF NameInv, Counters, TakeId, Goes, Pcs
<1>2. /\ new \notin Issued("file")
      /\ Issued("file")' = Issued("file") \cup {new}
      /\ Issued("bytes")' = Issued("bytes")
  BY TakingIsNew DEF NameInv, TakeId
<1>3. /\ \A u \in Callers : dir'[u] = (IF u = t THEN {new} ELSE dir[u])
      /\ UNCHANGED <<outer, job, child>>
  BY DEF NameInv, Counters, TakeId, own, Some
<1> HIDE DEF new
<1>4. Named'
  BY <1>2, <1>3 DEF NameInv, Named
<1>5. Apart'
  BY <1>2, <1>3 DEF NameInv, Named, Apart
<1> QED
  BY <1>1, <1>4, <1>5 DEF NameInv

\* A child works in the directory of the call that spawned it.
LEMMA SpawnKeepsNames ==
  ASSUME NameInv, NEW t \in Callers, Spawn(t) PROVE NameInv'
<1> DEFINE Child == [state : ChildStates, dir : SUBSET DirNames, image : SUBSET Images]
<1>1. dir[t] \subseteq DirNames
  BY NamesHaveKinds DEF NameInv, Named
<1>2. /\ child' \in [Jobs -> Child]
      /\ \A j \in Jobs : child'[j].dir = child[j].dir \/ (j = job[t] /\ child'[j].dir = dir[t])
  <2>1. CASE UNCHANGED child
    BY <2>1 DEF NameInv, Counters
  <2>2. CASE \E i \in Images : child' = [child EXCEPT ![job[t]] =
               [state |-> "running", dir |-> dir[t], image |-> Some(i)]]
    <3>1. PICK i \in Images : child' = [child EXCEPT ![job[t]] =
               [state |-> "running", dir |-> dir[t], image |-> Some(i)]]
      BY <2>2
    <3>2. [state |-> "running", dir |-> dir[t], image |-> Some(i)] \in Child
      BY <1>1 DEF Some, ChildStates
    <3> QED
      BY <3>1, <3>2 DEF NameInv, Counters
  <2> QED
    BY <2>1, <2>2 DEF Spawn
<1>3. UNCHANGED <<pid, counter, job, outer, dir>>
  BY DEF Spawn, process, own, names
<1>4. Counters'
  BY <1>2, <1>3 DEF NameInv, Counters, Spawn, Goes, Fail, Ends, Pcs
<1>5. Issued("file")' = Issued("file") /\ Issued("bytes")' = Issued("bytes")
  BY <1>3 DEF Issued
<1>6. Named'
  BY <1>2, <1>3, <1>5 DEF NameInv, Named
<1>7. Apart'
  BY <1>2, <1>3 DEF NameInv, Apart
<1> QED
  BY <1>4, <1>6, <1>7 DEF NameInv

\* After a crash the names of the children left behind belong to an older pid.
LEMMA CrashKeepsNames ==
  ASSUME NameInv, Crash, PidReuse = FALSE PROVE NameInv'
<1>1. pid' = pid + 1 /\ child' = child
  BY DEF Crash
<1>2. Counters'
  BY <1>1 DEF NameInv, Counters, Crash, Pcs
<1>3. Issued("file") \subseteq Issued("file")'
  BY <1>1, IssuedGrows DEF NameInv
<1>4. \A t \in Callers : outer'[t] = {} /\ dir'[t] = {}
  BY DEF Crash, None
<1>5. Named' /\ Apart'
  BY <1>1, <1>3, <1>4 DEF NameInv, Named, Apart
<1> QED
  BY <1>2, <1>5 DEF NameInv

-----------------------------------------------------------------------------
LEMMA NamesAreKept ==
  ASSUME PidReuse = FALSE, NameInv, [Next]_vars PROVE NameInv'
<1>1. ASSUME NEW t \in Callers, Start(t) \/ Step(t) \/ WaitFails(t) PROVE NameInv'
  BY <1>1, StartKeepsNames, WrapIdKeepsNames, TakeIdKeepsNames, SpawnKeepsNames,
     OtherStepsAreQuiet, QuietKeepsNames DEF Step
<1>2. ASSUME NEW j \in Jobs, Write(j) \/ Exit(j) \/ Die(j) PROVE NameInv'
  BY <1>2, ChildStepsAreQuiet, QuietKeepsNames
<1>3. CASE Crash
  BY <1>3, CrashKeepsNames
<1>4. CASE Resting \/ UNCHANGED vars
  <2>1. Quiet
    BY <1>4 DEF NameInv, Counters, Resting, Quiet, vars, process, own, names
  <2> QED
    BY <2>1, QuietKeepsNames
<1> QED
  BY <1>1, <1>2, <1>3, <1>4 DEF Next

LEMMA NamesAtStart == Init => NameInv
<1> SUFFICES ASSUME Init PROVE NameInv
  OBVIOUS
<1>1. Counters
  BY DEF Init, Counters, Pcs, ChildStates, None
<1>2. Named /\ Apart
  BY DEF Init, Named, Apart, None
<1> QED
  BY <1>1, <1>2 DEF NameInv

\* Calls that overlap never share a directory, with each other or with a child
\* that is not theirs.
THEOREM DirectoriesAreUnique ==
  ASSUME PidReuse = FALSE PROVE Spec => []DirsAreDisjoint
<1>1. NameInv => DirsAreDisjoint
  <2> SUFFICES ASSUME NameInv, NEW t \in Callers PROVE
        /\ pc[t] # "idle" => outer[t] \cap dir[t] = {}
        /\ \A u \in Callers \ {t} : Using(t) \cap Using(u) = {}
        /\ \A j \in Jobs \ {job[t]} : Using(t) \cap child[j].dir = {}
    BY DEF DirsAreDisjoint
  <2>1. /\ \A u \in Callers : outer[u] \cap dir[t] = {} /\ outer[t] \cap dir[u] = {}
        /\ \A j \in Jobs : outer[t] \cap child[j].dir = {}
    BY NamesHaveKinds DEF NameInv, Named
  <2>2. \A u \in Callers \ {t} : Using(t) \cap Using(u) = {}
    BY <2>1 DEF NameInv, Apart, Using
  <2>3. \A j \in Jobs \ {job[t]} : Using(t) \cap child[j].dir = {}
    BY <2>1 DEF NameInv, Apart, Using
  <2> QED
    BY <2>1, <2>2, <2>3
<1> QED
  BY <1>1, NamesAtStart, NamesAreKept, PTL DEF Spec

-----------------------------------------------------------------------------
(* What the threads, the store and the children have to do with each other. *)

Records == [input : BOOLEAN, out : SUBSET [by : Jobs, size : Nat]]

\* What is in a directory was written by a child that works there.
StoreInv ==
  /\ store \in [Dirs -> Records]
  /\ \A d \in Dirs : \A o \in store[d].out : store[d].out = {o} /\ d \in child[o.by].dir

\* A child that was spawned has a directory and makes an image.
ChildInv ==
  \A j \in Jobs :
    IF child[j].state = "none" THEN child[j].dir = {}
    ELSE /\ \E d \in DirNames : child[j].dir = {d}
         /\ \E i \in Images : child[j].image = {i}

\* Calls are numbered, each with a number of its own.
NumberInv ==
  /\ jobs \in 0 .. MaxJobs /\ job \in [Callers -> 0 .. jobs]
  /\ DOMAIN call = Callers /\ DOMAIN held = Callers /\ DOMAIN from = Callers /\ DOMAIN result = Callers
  /\ \A t, u \in Callers : t # u /\ job[t] = job[u] => job[t] = 0
  /\ \A j \in Jobs : j > jobs => child[j].state = "none"

Wrapping == {"wrap", "wrapdir", "input"}
Waiting  == {"await", "kill", "reap"}
Reading  == {"stat", "read", "parse"}

\* The directories of a call: which it has taken, and which it has made.
Placed(t) ==
  /\ pc[t] # "idle" => job[t] # 0
  /\ job[t] # 0 => call[t] \in Calls
  /\ pc[t] \in Wrapping \cup {"unwrap"} => call[t].bytes
  /\ pc[t] = "wrap" \/ (pc[t] # "idle" /\ ~call[t].bytes) => outer[t] = {}
  /\ pc[t] \notin {"idle", "wrap"} /\ call[t].bytes =>
       \E d \in DirNames : /\ outer[t] = {d}
                           /\ pc[t] # "wrapdir" => d \in Dirs
                           /\ pc[t] \notin {"wrapdir", "input"} => store[d].input
  /\ pc[t] \in Wrapping \cup {"find", "id"} => dir[t] = {}
  /\ pc[t] = "mkdir" => \E d \in DirNames : dir[t] = {d}
  /\ pc[t] \in {"setup", "spawn", "cleanup"} \cup Waiting \cup Reading =>
       \E d \in Dirs : dir[t] = {d}
  /\ pc[t] \in {"id", "mkdir", "setup", "spawn"} \cup Waiting => InputThere(t)

\* The child of a call: not there yet, waited for, or dealt with.
Attended(t) ==
  /\ pc[t] \in Wrapping \cup {"find", "id", "mkdir", "setup", "spawn"} => Mine(t).state = "none"
  /\ pc[t] \in Waiting => Mine(t).state # "none"
  /\ pc[t] = "await" => Mine(t).state \in {"running", "ok", "bad"}
  /\ pc[t] \in Reading => Mine(t).state = "ok"
  /\ pc[t] \in {"cleanup", "unwrap", "idle"} /\ result[t] \notin {"none", "WaitFailed"} =>
       job[t] # 0 /\ Mine(t).state \notin {"running", "dying"}

\* What a call has read, and of what.
Delivered(t) ==
  /\ held[t] \in 0 .. MaxBytes + 1
  /\ pc[t] = "parse" => from[t] = job[t] /\ held[t] <= MaxBytes
  /\ pc[t] \in {"cleanup", "unwrap", "idle"} /\ result[t] = "ok" =>
       /\ Mine(t).state = "ok" /\ from[t] = job[t]
       /\ held[t] <= MaxBytes /\ held[t] >= Parsed(t).size
  /\ pc[t] \in {"unwrap", "idle"} /\ result[t] = "ok" => Parsed(t).pixels <= call[t].maxPixels

CallInv == \A t \in Callers : Placed(t) /\ Attended(t) /\ Delivered(t)

DataInv == StoreInv /\ ChildInv /\ NumberInv /\ CallInv

-----------------------------------------------------------------------------
(* Frames.                                                                 *)

ThreadInv(t) == Placed(t) /\ Attended(t) /\ Delivered(t)

\* What a thread has is as it was; a child may have come to its end.
Spared(u) ==
  /\ pc'[u] = pc[u] /\ call'[u] = call[u] /\ job'[u] = job[u] /\ outer'[u] = outer[u]
  /\ dir'[u] = dir[u] /\ held'[u] = held[u] /\ from'[u] = from[u] /\ result'[u] = result[u]
  /\ job[u] # 0 =>
       /\ child'[job[u]].image = child[job[u]].image
       /\ \/ child'[job[u]].state = child[job[u]].state
          \/ child[job[u]].state = "running" /\ child'[job[u]].state \in {"ok", "bad"}
          \/ child[job[u]].state = "dying" /\ child'[job[u]].state = "killed"
  /\ \A d \in outer[u] \cup dir[u] : d \in Dirs => d \in Dirs' /\ (store[d].input => store'[d].input)

LEMMA TheOfOne == \A x : The({x}) = x
<1> SUFFICES ASSUME NEW x PROVE The({x}) = x
  OBVIOUS
<1>1. (CHOOSE y \in {x} : TRUE) \in {x}
  OBVIOUS
<1> QED
  BY <1>1 DEF The

LEMMA SparedKeeps ==
  ASSUME NEW u \in Callers, ThreadInv(u), Spared(u)
  PROVE  ThreadInv(u)'
<1>1. pc[u] # "idle" => job[u] # 0
  BY DEF ThreadInv, Placed
<1>2. InputThere(u) /\ pc[u] \notin {"idle", "wrap", "wrapdir", "input"} => InputThere(u)'
  <2>1. CASE call[u].bytes /\ pc[u] \notin {"idle", "wrap", "wrapdir", "input"}
    <3>1. PICK d \in DirNames : outer[u] = {d} /\ d \in Dirs /\ store[d].input
      BY <2>1 DEF ThreadInv, Placed
    <3> QED
      BY <3>1, <2>1, TheOfOne DEF InputThere, Spared
  <2>2. CASE ~call[u].bytes
    BY <2>2 DEF InputThere, Spared
  <2> QED
    BY <2>1, <2>2
<1>3. Placed(u)'
  BY <1>2 DEF ThreadInv, Placed, Spared, Wrapping, Waiting, Reading
<1>4. Attended(u)'
  BY <1>1 DEF ThreadInv, Attended, Spared, Mine, Wrapping, Waiting, Reading
<1>5. Delivered(u)'
  BY <1>1 DEF ThreadInv, Attended, Delivered, Spared, Mine, Parsed
<1> QED
  BY <1>3, <1>4, <1>5 DEF ThreadInv

\* A step of one thread, seen from the others.
LEMMA OneMoves ==
  ASSUME DataInv, NEW t \in Callers, StoreInv', ChildInv', NumberInv', ThreadInv(t)',
         \A u \in Callers \ {t} : Spared(u)
  PROVE  DataInv'
<1>1. \A u \in Callers \ {t} : ThreadInv(u)'
  BY SparedKeeps DEF DataInv, CallInv, ThreadInv
<1> QED
  BY <1>1 DEF DataInv, CallInv, ThreadInv

\* A step that touches neither the store nor a child.
LEMMA LocalMoves ==
  ASSUME DataInv, NEW t \in Callers, ThreadInv(t)', UNCHANGED <<jobs, job, call, store, child>>,
         DOMAIN held' = Callers, DOMAIN from' = Callers, DOMAIN result' = Callers,
         \A u \in Callers \ {t} :
           /\ pc'[u] = pc[u] /\ outer'[u] = outer[u] /\ dir'[u] = dir[u]
           /\ held'[u] = held[u] /\ from'[u] = from[u] /\ result'[u] = result[u]
  PROVE  DataInv'
<1>1. StoreInv' /\ ChildInv' /\ NumberInv'
  BY DEF DataInv, StoreInv, ChildInv, NumberInv, Dirs
<1>2. \A u \in Callers \ {t} : Spared(u)
  BY DEF Spared, Dirs
<1> QED
  BY <1>1, <1>2, OneMoves

-----------------------------------------------------------------------------
(* The steps of a call.                                                    *)

\* What every step of a call starts from.
LEMMA AtWork ==
  ASSUME NameInv, DataInv, NEW t \in Callers
  PROVE  /\ pc \in [Callers -> Pcs] /\ ThreadInv(t)
         /\ DOMAIN call = Callers /\ DOMAIN held = Callers /\ DOMAIN from = Callers
         /\ DOMAIN result = Callers /\ DOMAIN outer = Callers /\ DOMAIN dir = Callers
         /\ pc[t] # "idle" => job[t] \in Jobs /\ call[t] \in Calls
  BY DarktableAssumption
  DEF NameInv, Counters, DataInv, NumberInv, CallInv, ThreadInv, Placed, Jobs, DarktableAssumption

\* A call that ends with an error, or goes on, with all it has.
LEMMA MovesOn ==
  ASSUME NameInv, DataInv, NEW t \in Callers, ThreadInv(t)', NEW q, Goes(t, q),
         UNCHANGED result \/ \E e : Ends(t, e),
         UNCHANGED <<process, own, names, output, store, child>>
  PROVE  DataInv'
  BY AtWork, LocalMoves DEF Goes, Ends, process, own, names, output

LEMMA WrapIdKeepsData ==
  ASSUME NameInv, DataInv, NEW t \in Callers, WrapId(t) PROVE DataInv'
<1> DEFINE d == DirName("bytes", counter["bytes"])
<1>1. d \in DirNames
  BY DEF DirName, DirNames, NameInv, Counters
<1>2. outer'[t] = {d} /\ pc'[t] = "wrapdir"
  BY AtWork DEF WrapId, Goes, Some
<1> HIDE DEF d
<1>3. ThreadInv(t)'
  BY <1>1, <1>2, AtWork DEF WrapId, own, output, ThreadInv, Placed, Attended, Delivered, Mine,
     Wrapping, Waiting, Reading
<1> QED
  BY <1>3, AtWork, LocalMoves DEF WrapId, Goes, own, output

LEMMA FindKeepsData ==
  ASSUME NameInv, DataInv, NEW t \in Callers, Find(t) PROVE DataInv'
<1>1. UNCHANGED <<process, own, names, output, store, child>> /\ pc[t] = "find"
  BY DEF Find
<1>2. CASE InputThere(t) /\ Goes(t, "id") /\ UNCHANGED result
  <2>1. ThreadInv(t)'
    BY <1>1, <1>2, AtWork DEF Goes, own, names, output, ThreadInv, Placed, Attended, Delivered, Mine,
       InputThere, Dirs, Wrapping, Waiting, Reading
  <2> QED
    BY <1>1, <1>2, <2>1, MovesOn
<1>3. CASE \E e \in {"NoCli", "NotFound"} : Bail(t, e)
  <2>1. PICK e \in {"NoCli", "NotFound"} : Goes(t, Back(t)) /\ Ends(t, e)
    BY <1>3 DEF Bail
  <2>2. ThreadInv(t)'
    BY <1>1, <2>1, AtWork DEF Goes, Ends, Back, own, names, output, ThreadInv, Placed, Attended, Delivered, Mine,
       Dirs, Wrapping, Waiting, Reading
  <2> QED
    BY <1>1, <2>1, <2>2, MovesOn
<1> QED
  BY <1>2, <1>3 DEF Find

LEMMA TakeIdKeepsData ==
  ASSUME NameInv, DataInv, NEW t \in Callers, TakeId(t) PROVE DataInv'
<1> DEFINE d == DirName("file", counter["file"])
<1>1. d \in DirNames
  BY DEF DirName, DirNames, NameInv, Counters
<1>2. dir'[t] = {d} /\ pc'[t] = "mkdir"
  BY AtWork DEF TakeId, Goes, Some
<1> HIDE DEF d
<1>3. ThreadInv(t)'
  BY <1>1, <1>2, AtWork DEF TakeId, own, output, ThreadInv, Placed, Attended, Delivered, Mine,
     InputThere, Dirs, Wrapping, Waiting, Reading
<1> QED
  BY <1>3, AtWork, LocalMoves DEF TakeId, Goes, own, output

\* An early return, before the child is there.
LEMMA BailKeepsData ==
  ASSUME NameInv, DataInv, NEW t \in Callers, NEW e, e # "ok", pc[t] \in {"mkdir", "setup"}, Bail(t, e),
         UNCHANGED <<process, own, names, output, store, child>>
  PROVE  DataInv'
<1>1. ThreadInv(t)'
  BY AtWork DEF Bail, Goes, Ends, Back, own, names, output, ThreadInv, Placed, Attended, Delivered, Mine,
     Dirs, Wrapping, Waiting, Reading
<1> QED
  BY <1>1, MovesOn DEF Bail

\* An error of the run of the child, which leaves it behind only if it could
\* not be waited for.
LEMMA FailKeepsData ==
  ASSUME NameInv, DataInv, NEW t \in Callers, NEW e, e # "ok", Fail(t, e),
         pc[t] \in {"spawn"} \cup Waiting \cup Reading,
         Mine(t).state \notin {"running", "dying"} \/ e = "WaitFailed",
         UNCHANGED <<process, own, names, store, child>>,
         UNCHANGED output \/ (held'[t] \in 0 .. MaxBytes + 1 /\
            (\A u \in Callers \ {t} : held'[u] = held[u] /\ from'[u] = from[u]) /\
            DOMAIN held' = Callers /\ DOMAIN from' = Callers)
  PROVE  DataInv'
<1>1. held'[t] \in 0 .. MaxBytes + 1
  BY AtWork DEF output, ThreadInv, Delivered
<1>2. ThreadInv(t)'
  BY <1>1, AtWork DEF Fail, Goes, Ends, own, names, ThreadInv, Placed, Attended, Delivered, Mine,
     Dirs, Wrapping, Waiting, Reading
<1> QED
  BY <1>2, AtWork, LocalMoves DEF Fail, Goes, Ends, process, own, names, output

LEMMA SetUpKeepsData ==
  ASSUME NameInv, DataInv, NEW t \in Callers, SetUp(t) PROVE DataInv'
<1>1. UNCHANGED <<process, own, names, output, store, child>> /\ pc[t] = "setup"
  BY DEF SetUp
<1>2. CASE Goes(t, "spawn") /\ UNCHANGED result
  <2>1. ThreadInv(t)'
    BY <1>1, <1>2, AtWork DEF Goes, own, names, output, ThreadInv, Placed, Attended, Delivered, Mine,
       InputThere, Dirs, Wrapping, Waiting, Reading
  <2> QED
    BY <1>1, <1>2, <2>1, MovesOn
<1>3. CASE \E e \in {"NoSidecar", "NoConfig"} : Bail(t, e)
  BY <1>1, <1>3, BailKeepsData
<1> QED
  BY <1>2, <1>3 DEF SetUp

\* Waiting for the child: it has exited, cannot be waited for, or is overdue.
LEMMA WaitingKeepsData ==
  ASSUME NameInv, DataInv, NEW t \in Callers, Exited(t) \/ WaitFails(t) \/ Overdue(t) \/ Reap(t)
  PROVE  DataInv'
<1>1. UNCHANGED <<process, own, names, output, store, child>> /\ pc[t] \in {"await", "reap"}
  BY DEF Exited, WaitFails, Overdue, Reap
<1>2. Mine(t).state \in ChildStates \ {"none"}
  BY <1>1, AtWork DEF ThreadInv, Attended, Mine, Waiting, NameInv, Counters
<1>3. CASE Exited(t) /\ Accepts(t)
  <2>1. Goes(t, "stat") /\ UNCHANGED result /\ Mine(t).state = "ok" /\ pc[t] = "await"
    BY <1>3 DEF Exited, Accepts
  <2>2. ThreadInv(t)'
    BY <1>1, <2>1, AtWork DEF Goes, own, names, output, ThreadInv, Placed, Attended, Delivered, Mine,
       InputThere, Dirs, Wrapping, Waiting, Reading
  <2> QED
    BY <1>1, <2>1, <2>2, MovesOn
<1>4. CASE Exited(t) /\ ~Accepts(t)
  <2>1. Fail(t, "Rejected") /\ Mine(t).state # "running" /\ pc[t] = "await"
    BY <1>4 DEF Exited
  <2>2. Mine(t).state # "dying"
    BY <2>1, AtWork DEF ThreadInv, Attended
  <2> QED
    BY <1>1, <2>1, <2>2, FailKeepsData DEF Waiting
<1>5. CASE WaitFails(t)
  BY <1>1, <1>5, FailKeepsData DEF WaitFails, Waiting
<1>6. CASE Overdue(t)
  <2>1. Goes(t, "kill") /\ UNCHANGED result /\ pc[t] = "await"
    BY <1>6 DEF Overdue
  <2>2. ThreadInv(t)'
    BY <1>1, <2>1, AtWork DEF Goes, own, names, output, ThreadInv, Placed, Attended, Delivered, Mine,
       InputThere, Dirs, Wrapping, Waiting, Reading
  <2> QED
    BY <1>1, <2>1, <2>2, MovesOn
<1>7. CASE Reap(t)
  BY <1>1, <1>7, FailKeepsData DEF Reap, Waiting
<1> QED
  BY <1>3, <1>4, <1>5, <1>6, <1>7

\* What is in the directory of a call comes from its own child.
LEMMA OutputIsOwn ==
  ASSUME NameInv, DataInv, NEW t \in Callers, pc[t] \in Reading, Out(t) # None
  PROVE  The(Out(t)).by = job[t] /\ The(Out(t)).size \in Nat
<1>1. PICK d \in Dirs : dir[t] = {d}
  BY AtWork DEF ThreadInv, Placed
<1>2. Out(t) = store[d].out
  BY <1>1, TheOfOne DEF Out
<1>3. PICK o \in store[d].out : TRUE
  BY <1>2 DEF None
<1>4. store[d].out = {o} /\ d \in child[o.by].dir /\ o \in [by : Jobs, size : Nat]
  BY <1>3 DEF DataInv, StoreInv, Records
<1>5. The(Out(t)) = o
  BY <1>2, <1>4, TheOfOne
<1>6. o.by = job[t]
  BY <1>1, <1>4 DEF NameInv, Apart
<1> QED
  BY <1>4, <1>5, <1>6

LEMMA StatKeepsData ==
  ASSUME NameInv, DataInv, NEW t \in Callers, Stat(t) PROVE DataInv'
<1>1. UNCHANGED <<process, own, names, output, store, child>> /\ pc[t] = "stat"
  BY DEF Stat
<1>2. Mine(t).state = "ok"
  BY <1>1, AtWork DEF ThreadInv, Attended, Reading
<1>3. CASE \E e \in {"NoOutput", "TooBig"} : Fail(t, e)
  BY <1>1, <1>2, <1>3, FailKeepsData DEF Reading
<1>4. CASE Goes(t, "read") /\ UNCHANGED result
  <2>1. ThreadInv(t)'
    BY <1>1, <1>2, <1>4, AtWork DEF Goes, own, names, output, ThreadInv, Placed, Attended, Delivered, Mine,
       Dirs, Wrapping, Waiting, Reading
  <2> QED
    BY <1>1, <1>4, <2>1, MovesOn
<1> QED
  BY <1>3, <1>4 DEF Stat

\* No more is taken of a file than tells that it is too long.
LEMMA ReadKeepsData ==
  ASSUME NameInv, DataInv, NEW t \in Callers, Read(t) PROVE DataInv'
<1>1. UNCHANGED <<process, own, names, store, child>> /\ pc[t] = "read"
  BY DEF Read
<1>2. Mine(t).state = "ok"
  BY <1>1, AtWork DEF ThreadInv, Attended, Reading
<1>3. CASE Fail(t, "Unreadable") /\ UNCHANGED <<held, from>>
  BY <1>1, <1>2, <1>3, FailKeepsData DEF Reading, output
<1>4. CASE /\ Out(t) # None
           /\ held' = [held EXCEPT ![t] = Taken(The(Out(t)).size)]
           /\ from' = [from EXCEPT ![t] = The(Out(t)).by]
           /\ IF held'[t] > MaxBytes THEN Fail(t, "TooBig") ELSE Goes(t, "parse") /\ UNCHANGED result
  <2>1. The(Out(t)).by = job[t] /\ The(Out(t)).size \in Nat
    BY <1>1, <1>4, OutputIsOwn DEF Reading
  <2>2. held'[t] = Taken(The(Out(t)).size) /\ from'[t] = job[t]
    BY <1>4, <2>1, AtWork
  <2>3. held'[t] \in 0 .. MaxBytes + 1
    BY <2>1, <2>2, DarktableAssumption DEF Taken, LeastOf, DarktableAssumption
  <2>4. CASE Fail(t, "TooBig")
    BY <1>1, <1>2, <1>4, <2>3, <2>4, AtWork, FailKeepsData DEF Reading
  <2>5. CASE held'[t] <= MaxBytes /\ Goes(t, "parse") /\ UNCHANGED result
    <3>1. ThreadInv(t)'
      BY <1>1, <1>2, <2>2, <2>3, <2>5, AtWork DEF Goes, own, names, ThreadInv, Placed, Attended, Delivered, Mine,
         Dirs, Wrapping, Waiting, Reading
    <3> QED
      BY <1>1, <1>4, <2>5, <3>1, AtWork, LocalMoves DEF Goes, process, own, names
  <2> QED
    BY <1>4, <2>3, <2>4, <2>5, DarktableAssumption DEF DarktableAssumption
<1> QED
  BY <1>3, <1>4 DEF Read

\* What a child makes is an image.
LEMMA ParsedIsImage ==
  ASSUME NameInv, DataInv, NEW t \in Callers, from[t] = job[t], job[t] \in Jobs, Mine(t).state = "ok"
  PROVE  Parsed(t) \in ImageSpace
<1>1. PICK i \in Images : child[job[t]].image = {i}
  BY DEF DataInv, ChildInv, Mine
<1> QED
  BY <1>1, TheOfOne, DarktableAssumption DEF Parsed, DarktableAssumption

LEMMA ParseKeepsData ==
  ASSUME NameInv, DataInv, NEW t \in Callers, Parse(t) PROVE DataInv'
<1>1. UNCHANGED <<process, own, names, output, store, child>> /\ pc[t] = "parse"
  BY DEF Parse
<1>2. Mine(t).state = "ok" /\ from[t] = job[t] /\ held[t] <= MaxBytes /\ held[t] \in Nat
  BY <1>1, AtWork, DarktableAssumption DEF ThreadInv, Attended, Delivered, Reading, DarktableAssumption
<1>3. CASE \E e \in {"Malformed", "OverFixedCap", "TooShort"} : Fail(t, e)
  BY <1>1, <1>2, <1>3, FailKeepsData DEF Reading
<1>4. CASE Fail(t, "ok") /\ ~(held[t] < Parsed(t).size)
  <2>1. Parsed(t).size \in Nat
    BY <1>1, <1>2, AtWork, ParsedIsImage DEF ImageSpace
  <2>2. held[t] >= Parsed(t).size
    BY <1>2, <1>4, <2>1
  <2>3. Parsed(t)' = Parsed(t)
    BY <1>1 DEF Parsed, output
  <2>4. ThreadInv(t)'
    BY <1>1, <1>2, <1>4, <2>2, <2>3, AtWork DEF Fail, Goes, Ends, own, names, output, ThreadInv, Placed, Attended,
       Delivered, Mine, Dirs, Wrapping, Waiting, Reading
  <2> QED
    BY <1>1, <1>4, <2>4, MovesOn DEF Fail
<1> QED
  BY <1>3, <1>4 DEF Parse

-----------------------------------------------------------------------------
(* The store.                                                              *)

LEMMA MakingADir ==
  ASSUME StoreInv, NEW d, MakeDir(d), UNCHANGED child
  PROVE  /\ StoreInv' /\ Dirs' = Dirs \cup {d}
         /\ \A e \in Dirs : store'[e] = store[e]
<1>1. Empty \in Records /\ Empty.out = {}
  BY DEF Empty, Records, None
<1>2. Dirs' = Dirs \cup {d} /\ (\A e \in Dirs : store'[e] = store[e])
      /\ (\A e \in Dirs' \ Dirs : store'[e] = Empty)
  BY DEF MakeDir, Dirs
<1>3. store' \in [Dirs' -> Records]
  BY <1>1, <1>2 DEF MakeDir, StoreInv, Dirs
<1> QED
  BY <1>1, <1>2, <1>3 DEF StoreInv

LEMMA RemovingADir ==
  ASSUME StoreInv, NEW d, RemoveDir(d), UNCHANGED child
  PROVE  /\ StoreInv' /\ Dirs' \subseteq Dirs /\ Dirs \ {d} \subseteq Dirs'
         /\ \A e \in Dirs' : store'[e] = store[e]
<1>1. Dirs' \subseteq Dirs /\ Dirs \ {d} \subseteq Dirs' /\ \A e \in Dirs' : store'[e] = store[e]
  BY DEF RemoveDir, Dirs
<1>2. store' \in [Dirs' -> Records]
  BY DEF RemoveDir, StoreInv, Dirs
<1> QED
  BY <1>1, <1>2 DEF StoreInv

\* The directories of two calls are apart, and those of their inputs are.
LEMMA OthersElsewhere ==
  ASSUME NameInv, NEW t \in Callers, NEW u \in Callers \ {t}
  PROVE  (outer[t] \cup dir[t]) \cap (outer[u] \cup dir[u]) = {}
  BY NamesHaveKinds DEF NameInv, Named, Apart

\* What is left of a step on the store.
LEMMA StoreMoves ==
  ASSUME NameInv, DataInv, NEW t \in Callers, StoreInv', ThreadInv(t)', NEW q, Goes(t, q),
         UNCHANGED result \/ \E e : Ends(t, e),
         UNCHANGED <<process, own, names, output, child>>,
         \A d \in Dirs \ (outer[t] \cup dir[t]) : d \in Dirs' /\ (store[d].input => store'[d].input)
  PROVE  DataInv'
<1>1. ChildInv' /\ NumberInv'
  <2>1. DOMAIN result' = Callers
    BY AtWork DEF Ends
  <2> QED
    BY <2>1 DEF DataInv, ChildInv, NumberInv, process, own, output
<1>2. ASSUME NEW u \in Callers \ {t}
      PROVE  Spared(u)
  <2>1. \A d \in outer[u] \cup dir[u] : d \in Dirs => d \in Dirs' /\ (store[d].input => store'[d].input)
    BY OthersElsewhere
  <2>2. pc'[u] = pc[u] /\ result'[u] = result[u]
    BY AtWork DEF Goes, Ends
  <2> QED
    BY <2>1, <2>2 DEF Spared, process, own, names, output
<1> QED
  BY <1>1, <1>2, OneMoves

LEMMA WrapDirKeepsData ==
  ASSUME NameInv, DataInv, NEW t \in Callers, WrapDir(t) PROVE DataInv'
<1>1. UNCHANGED <<process, own, names, output, child>> /\ pc[t] = "wrapdir"
  BY DEF WrapDir
<1>2. PICK d \in DirNames : outer[t] = {d}
  BY <1>1, AtWork DEF ThreadInv, Placed, Wrapping
<1>3. CASE MakeDir(The(outer[t])) /\ Goes(t, "input") /\ UNCHANGED result
  <2>1. MakeDir(d)
    BY <1>2, <1>3, TheOfOne
  <2>2. StoreInv' /\ Dirs' = Dirs \cup {d} /\ \A e \in Dirs : store'[e] = store[e]
    BY <1>1, <2>1, MakingADir DEF DataInv
  <2>3. ThreadInv(t)'
    BY <1>1, <1>2, <1>3, <2>2, AtWork DEF Goes, own, names, output, ThreadInv, Placed, Attended, Delivered, Mine,
       Wrapping, Waiting, Reading
  <2> QED
    BY <1>1, <1>3, <2>2, <2>3, StoreMoves
<1>4. CASE Goes(t, "idle") /\ Ends(t, "NoDir") /\ UNCHANGED store
  <2>1. ThreadInv(t)'
    BY <1>1, <1>4, AtWork DEF Goes, Ends, own, names, output, ThreadInv, Placed, Attended, Delivered, Mine,
       Wrapping, Waiting, Reading
  <2> QED
    BY <1>1, <1>4, <2>1, MovesOn
<1> QED
  BY <1>3, <1>4 DEF WrapDir

LEMMA WriteInputKeepsData ==
  ASSUME NameInv, DataInv, NEW t \in Callers, WriteInput(t) PROVE DataInv'
<1>1. UNCHANGED <<process, own, names, output, child>> /\ pc[t] = "input"
  BY DEF WriteInput
<1>2. PICK d \in DirNames : outer[t] = {d} /\ d \in Dirs
  BY <1>1, AtWork DEF ThreadInv, Placed, Wrapping
<1>3. CASE store' = [store EXCEPT ![The(outer[t])].input = TRUE] /\ Goes(t, "find") /\ UNCHANGED result
  <2>1. store' = [store EXCEPT ![d].input = TRUE]
    BY <1>2, <1>3, TheOfOne
  <2>2. store \in [Dirs -> Records] /\ store[d] \in Records
    BY <1>2 DEF DataInv, StoreInv
  <2>3. /\ Dirs' = Dirs /\ store' \in [Dirs' -> Records] /\ store'[d].input
        /\ \A e \in Dirs : store'[e].out = store[e].out /\ (store[e].input => store'[e].input)
    BY <1>2, <2>1, <2>2 DEF Dirs, Records
  <2>4. StoreInv'
    BY <1>1, <2>3 DEF DataInv, StoreInv
  <2>5. ThreadInv(t)'
    BY <1>1, <1>2, <1>3, <2>3, AtWork DEF Goes, own, names, output, ThreadInv, Placed, Attended, Delivered, Mine,
       Wrapping, Waiting, Reading
  <2> QED
    BY <1>1, <1>3, <2>3, <2>4, <2>5, StoreMoves
<1>4. CASE Goes(t, "idle") /\ Ends(t, "NoInput") /\ UNCHANGED store
  <2>1. ThreadInv(t)'
    BY <1>1, <1>4, AtWork DEF Goes, Ends, own, names, output, ThreadInv, Placed, Attended, Delivered, Mine,
       Dirs, Wrapping, Waiting, Reading
  <2> QED
    BY <1>1, <1>4, <2>1, MovesOn
<1> QED
  BY <1>3, <1>4 DEF WriteInput

LEMMA CreateDirKeepsData ==
  ASSUME NameInv, DataInv, NEW t \in Callers, CreateDir(t) PROVE DataInv'
<1>1. UNCHANGED <<process, own, names, output, child>> /\ pc[t] = "mkdir"
  BY DEF CreateDir
<1>2. PICK d \in DirNames : dir[t] = {d}
  BY <1>1, AtWork DEF ThreadInv, Placed
<1>3. CASE MakeDir(The(dir[t])) /\ Goes(t, "setup") /\ UNCHANGED result
  <2>1. MakeDir(d)
    BY <1>2, <1>3, TheOfOne
  <2>2. StoreInv' /\ Dirs' = Dirs \cup {d} /\ \A e \in Dirs : store'[e] = store[e]
    BY <1>1, <2>1, MakingADir DEF DataInv
  <2>3. InputThere(t) => InputThere(t)'
    BY <1>1, <2>2 DEF InputThere, own, names
  <2>4. ThreadInv(t)'
    BY <1>1, <1>2, <1>3, <2>2, <2>3, AtWork DEF Goes, own, names, output, ThreadInv, Placed, Attended, Delivered, Mine,
       Wrapping, Waiting, Reading
  <2> QED
    BY <1>1, <1>3, <2>2, <2>4, StoreMoves
<1>4. CASE Bail(t, "NoDir") /\ UNCHANGED store
  BY <1>1, <1>4, BailKeepsData
<1> QED
  BY <1>3, <1>4 DEF CreateDir

\* A call keeps its input until its child's directory is gone.
LEMMA CleanUpKeepsData ==
  ASSUME NameInv, DataInv, NEW t \in Callers, CleanUp(t) PROVE DataInv'
<1>1. UNCHANGED <<process, own, names, output, child>> /\ pc[t] = "cleanup" /\ Goes(t, Back(t))
  BY DEF CleanUp, Bail
<1>2. PICK d \in Dirs : dir[t] = {d}
  BY <1>1, AtWork DEF ThreadInv, Placed
<1>3. StoreInv' /\ Dirs \ {d} \subseteq Dirs' /\ \A e \in Dirs' : store'[e] = store[e]
  <2>1. RemoveDir(d)
    BY <1>1, <1>2, TheOfOne DEF CleanUp
  <2> QED
    BY <1>1, <2>1, RemovingADir DEF DataInv
<1>4. call[t].bytes => \E e \in DirNames : outer[t] = {e} /\ e \in Dirs' /\ store'[e].input
  <2>1. d \notin outer[t]
    BY <1>2, NamesHaveKinds DEF NameInv, Named
  <2> QED
    BY <1>1, <1>3, <2>1, AtWork DEF ThreadInv, Placed
<1>5. Placed(t)'
  BY <1>1, <1>4, AtWork DEF Goes, Back, own, names, ThreadInv, Placed, Wrapping, Waiting, Reading
<1>6. Parsed(t)' = Parsed(t) /\ Mine(t)' = Mine(t)
  BY <1>1 DEF Parsed, Mine, own, output
<1>7. CASE Ends(t, "TooManyPixels") /\ result[t] = "ok"
  <2>1. Attended(t)' /\ Delivered(t)'
    BY <1>1, <1>6, <1>7, AtWork DEF Goes, Ends, Back, own, output, ThreadInv, Attended, Delivered,
       Wrapping, Waiting, Reading
  <2> QED
    BY <1>1, <1>3, <1>5, <1>7, <2>1, <1>2, StoreMoves DEF ThreadInv
<1>8. CASE UNCHANGED result /\ ~(result[t] = "ok" /\ Parsed(t).pixels > call[t].maxPixels)
  <2>1. result[t] = "ok" => Parsed(t).pixels <= call[t].maxPixels
    <3>1. ASSUME result[t] = "ok"
          PROVE  Parsed(t).pixels \in Nat /\ call[t].maxPixels \in Nat
      <4>1. from[t] = job[t] /\ job[t] \in Jobs /\ Mine(t).state = "ok" /\ call[t] \in CallSpace
        BY <1>1, <3>1, AtWork, DarktableAssumption DEF ThreadInv, Delivered, DarktableAssumption
      <4> QED
        BY <4>1, ParsedIsImage DEF ImageSpace, CallSpace
    <3> QED
      BY <1>8, <3>1
  <2>2. Attended(t)' /\ Delivered(t)'
    BY <1>1, <1>6, <1>8, <2>1, AtWork DEF Goes, Back, own, output, ThreadInv, Attended, Delivered,
       Wrapping, Waiting, Reading
  <2> QED
    BY <1>1, <1>2, <1>3, <1>5, <1>8, <2>2, StoreMoves DEF ThreadInv
<1> QED
  BY <1>7, <1>8 DEF CleanUp, Bail

LEMMA UnwrapKeepsData ==
  ASSUME NameInv, DataInv, NEW t \in Callers, Unwrap(t) PROVE DataInv'
<1>1. UNCHANGED <<process, own, names, output, result, child>> /\ pc[t] = "unwrap" /\ Goes(t, "idle")
  BY DEF Unwrap
<1>2. PICK d \in DirNames : outer[t] = {d}
  BY <1>1, AtWork DEF ThreadInv, Placed
<1>3. StoreInv' /\ Dirs \ {d} \subseteq Dirs' /\ \A e \in Dirs' : store'[e] = store[e]
  <2>1. RemoveDir(d)
    BY <1>1, <1>2, TheOfOne DEF Unwrap
  <2> QED
    BY <1>1, <2>1, RemovingADir DEF DataInv
<1>4. Parsed(t)' = Parsed(t) /\ Mine(t)' = Mine(t)
  BY <1>1 DEF Parsed, Mine, own, output
<1>5. ThreadInv(t)'
  BY <1>1, <1>4, AtWork DEF Goes, own, names, output, ThreadInv, Placed, Attended, Delivered,
     Wrapping, Waiting, Reading
<1> QED
  BY <1>1, <1>2, <1>3, <1>5, StoreMoves

-----------------------------------------------------------------------------
(* Children, new calls, crashes.                                           *)

\* The child of a call is the child of no other.
LEMMA ChildrenAreOwn ==
  ASSUME NameInv, DataInv, NEW t \in Callers, pc[t] # "idle", NEW u \in Callers \ {t},
         \A j \in Jobs \ {job[t]} : child'[j] = child[j],
         UNCHANGED <<process, own, names, output, store>>,
         pc'[u] = pc[u], result'[u] = result[u]
  PROVE  Spared(u)
<1>1. job[u] # 0 => job[u] \in Jobs \ {job[t]}
  BY AtWork, DarktableAssumption DEF ThreadInv, Placed, DataInv, NumberInv, Jobs, DarktableAssumption
<1> QED
  BY <1>1 DEF Spared, process, own, names, output, Dirs

LEMMA SpawnKeepsData ==
  ASSUME NameInv, DataInv, NEW t \in Callers, Spawn(t) PROVE DataInv'
<1>1. UNCHANGED <<process, own, names, output, store>> /\ pc[t] = "spawn"
  BY DEF Spawn
<1>2. Mine(t).state = "none" /\ job[t] \in Jobs /\ job[t] <= jobs
  BY <1>1, AtWork DEF ThreadInv, Attended, DataInv, NumberInv
<1>3. CASE Fail(t, "NoSpawn") /\ UNCHANGED child
  BY <1>1, <1>2, <1>3, FailKeepsData
<1>4. ASSUME NEW i \in Images, Goes(t, "await"), UNCHANGED result,
             child' = [child EXCEPT ![job[t]] =
                        [state |-> "running", dir |-> dir[t], image |-> Some(i)]]
      PROVE  DataInv'
  <2>1. PICK d \in Dirs : dir[t] = {d}
    BY <1>1, AtWork DEF ThreadInv, Placed
  <2>2. d \in DirNames
    BY <2>1, NamesHaveKinds DEF NameInv, Named
  <2>3. /\ child'[job[t]] = [state |-> "running", dir |-> dir[t], image |-> {i}]
        /\ \A j \in Jobs \ {job[t]} : child'[j] = child[j]
    BY <1>2, <1>4 DEF NameInv, Counters, Some
  <2>4. StoreInv'
    <3>1. child[job[t]].dir = {}
      BY <1>2 DEF DataInv, ChildInv, Mine
    <3> QED
      BY <1>1, <2>3, <3>1 DEF DataInv, StoreInv, Records, Dirs
  <2>5. ChildInv'
    BY <2>1, <2>2, <2>3 DEF DataInv, ChildInv
  <2>6. NumberInv'
    BY <1>1, <1>2, <1>4, <2>3 DEF DataInv, NumberInv, process, own, output, Jobs
  <2>7. ThreadInv(t)'
    BY <1>1, <1>2, <1>4, <2>3, AtWork DEF Goes, own, names, output, ThreadInv, Placed, Attended, Delivered, Mine,
       InputThere, Dirs, Wrapping, Waiting, Reading
  <2>8. \A u \in Callers \ {t} : Spared(u)
    BY <1>1, <1>4, <2>3, AtWork, ChildrenAreOwn DEF Goes
  <2> QED
    BY <2>4, <2>5, <2>6, <2>7, <2>8, OneMoves
<1> QED
  BY <1>3, <1>4 DEF Spawn

LEMMA KillKeepsData ==
  ASSUME NameInv, DataInv, NEW t \in Callers, Kill(t) PROVE DataInv'
<1>1. UNCHANGED <<process, own, names, output, result, store>> /\ pc[t] = "kill" /\ Goes(t, "reap")
      /\ child' = [child EXCEPT ![job[t]].state = IF @ = "running" THEN "dying" ELSE @]
  BY DEF Kill
<1>2. Mine(t).state # "none" /\ job[t] \in Jobs /\ job[t] <= jobs
  BY <1>1, AtWork DEF ThreadInv, Attended, Waiting, DataInv, NumberInv
<1>3. /\ child'[job[t]].dir = child[job[t]].dir /\ child'[job[t]].image = child[job[t]].image
      /\ child'[job[t]].state # "none"
      /\ \A j \in Jobs \ {job[t]} : child'[j] = child[j]
  BY <1>1, <1>2 DEF NameInv, Counters, Mine
<1>4. StoreInv' /\ ChildInv'
  <2>1. \A j \in Jobs : child'[j].dir = child[j].dir /\ child'[j].image = child[j].image
                        /\ (child'[j].state = "none" <=> child[j].state = "none")
    BY <1>2, <1>3 DEF Mine
  <2> QED
    BY <1>1, <2>1 DEF DataInv, StoreInv, ChildInv, Records, Dirs
<1>5. NumberInv'
  BY <1>1, <1>2, <1>3 DEF DataInv, NumberInv, process, own, output, Jobs
<1>6. ThreadInv(t)'
  BY <1>1, <1>2, <1>3, AtWork DEF Goes, own, names, output, ThreadInv, Placed, Attended, Delivered, Mine,
     InputThere, Dirs, Wrapping, Waiting, Reading
<1>7. \A u \in Callers \ {t} : Spared(u)
  BY <1>1, <1>3, AtWork, ChildrenAreOwn DEF Goes
<1> QED
  BY <1>4, <1>5, <1>6, <1>7, OneMoves

LEMMA StartKeepsData ==
  ASSUME NameInv, DataInv, NEW t \in Callers, Start(t) PROVE DataInv'
<1>1. PICK c \in Calls :
        /\ call' = [call EXCEPT ![t] = c]
        /\ Goes(t, IF c.bytes THEN "wrap" ELSE "find")
  BY DEF Start
<1>2. /\ pc[t] = "idle" /\ jobs < MaxJobs /\ jobs' = jobs + 1 /\ job' = [job EXCEPT ![t] = jobs + 1]
      /\ outer' = [outer EXCEPT ![t] = None] /\ dir' = [dir EXCEPT ![t] = None]
      /\ held' = [held EXCEPT ![t] = 0] /\ from' = [from EXCEPT ![t] = 0] /\ Ends(t, "none")
      /\ UNCHANGED <<pid, crashes, counter, store, child>>
  BY DEF Start
<1>3. /\ jobs \in 0 .. MaxJobs /\ MaxJobs \in Nat /\ job \in [Callers -> 0 .. jobs] /\ MaxBytes \in Nat
  BY DarktableAssumption DEF DataInv, NumberInv, DarktableAssumption
<1>4. jobs' \in 0 .. MaxJobs /\ jobs' \in Jobs /\ job'[t] = jobs' /\ child[jobs'].state = "none"
      /\ \A u \in Callers \ {t} : job'[u] = job[u] /\ job[u] <= jobs
  BY <1>2, <1>3 DEF DataInv, NumberInv, Jobs
<1>5. StoreInv' /\ ChildInv'
  BY <1>2 DEF DataInv, StoreInv, ChildInv, Dirs
<1>6. NumberInv'
  <2>1. job' \in [Callers -> 0 .. jobs']
    BY <1>2, <1>3
  <2>2. \A j \in Jobs : j > jobs' => child'[j].state = "none"
    BY <1>2, <1>3 DEF DataInv, NumberInv, Jobs
  <2>3. \A u, v \in Callers : u # v /\ job'[u] = job'[v] => job'[u] = 0
    BY <1>2, <1>3, <1>4 DEF DataInv, NumberInv
  <2> QED
    BY <1>1, <1>2, <1>4, <2>1, <2>2, <2>3, AtWork DEF NumberInv, Ends
<1>7. ThreadInv(t)'
  <2>1. /\ pc'[t] = (IF c.bytes THEN "wrap" ELSE "find") /\ call'[t] = c /\ outer'[t] = {} /\ dir'[t] = {}
        /\ held'[t] = 0
    BY <1>1, <1>2, AtWork DEF Goes, None
  <2> QED
    BY <1>2, <1>3, <1>4, <2>1 DEF ThreadInv, Placed, Attended, Delivered, Mine, Wrapping, Waiting, Reading
<1>8. \A u \in Callers \ {t} : Spared(u)
  BY <1>1, <1>2, <1>4, AtWork DEF Goes, Ends, Spared, Dirs
<1> QED
  BY <1>5, <1>6, <1>7, <1>8, OneMoves

\* What a child does, a call sees in its own directory only.
LEMMA ChildKeepsData ==
  ASSUME NameInv, DataInv, NEW j \in Jobs, Write(j) \/ Exit(j) \/ Die(j) PROVE DataInv'
<1>1. UNCHANGED <<process, pc, own, names, output, result>>
  BY DEF Write, Exit, Die
<1>2. /\ StoreInv' /\ ChildInv' /\ NumberInv'
      /\ \A i \in Jobs : /\ child'[i].image = child[i].image
                         /\ \/ child'[i].state = child[i].state
                            \/ child[i].state = "running" /\ child'[i].state \in {"ok", "bad"}
                            \/ child[i].state = "dying" /\ child'[i].state = "killed"
      /\ Dirs' = Dirs /\ \A d \in Dirs : store'[d].input = store[d].input
  <2>1. CASE Write(j)
    <3>1. PICK d \in DirNames : child[j].dir = {d}
      BY <2>1 DEF Write, DataInv, ChildInv
    <3>2. d \in Dirs /\ UNCHANGED child
      BY <2>1, <3>1, TheOfOne DEF Write
    <3>3. PICK n \in Nat : store' = [store EXCEPT ![d].out = Some([by |-> j, size |-> n])]
      <4> DEFINE there == store[d].out
                 size == IF there # None /\ The(there).by = j THEN The(there).size ELSE 0
      <4>1. store' = [store EXCEPT ![d].out = Some([by |-> j, size |-> size + 1])]
        BY <2>1, <3>1, TheOfOne DEF Write
      <4>2. size \in Nat
        <5>1. CASE there = None
          BY <5>1
        <5>2. CASE there # None
          <6>1. PICK o \in there : there = {o} /\ o \in [by : Jobs, size : Nat]
            BY <3>2, <5>2 DEF DataInv, StoreInv, Records, None
          <6>2. The(there) = o
            BY <6>1, TheOfOne
          <6> QED
            BY <6>1, <6>2
        <5> QED
          BY <5>1, <5>2
      <4> HIDE DEF size
      <4>3. size + 1 \in Nat
        BY <4>2
      <4> QED
        BY <4>1, <4>3
    <3>4. store \in [Dirs -> Records]
      BY DEF DataInv, StoreInv
    <3>5. /\ Dirs' = Dirs /\ store' \in [Dirs' -> Records]
          /\ store'[d].out = {[by |-> j, size |-> n]}
          /\ \A e \in Dirs : store'[e].input = store[e].input
          /\ \A e \in Dirs \ {d} : store'[e] = store[e]
      BY <3>2, <3>3, <3>4 DEF Dirs, Records, Some
    <3>6. StoreInv'
      BY <3>1, <3>2, <3>5 DEF DataInv, StoreInv
    <3> QED
      BY <1>1, <3>2, <3>5, <3>6 DEF DataInv, ChildInv, NumberInv, process, own, output
  <2>2. CASE Exit(j) \/ Die(j)
    <3>1. UNCHANGED store
      BY <2>2 DEF Exit, Die
    <3>2. PICK how \in {"ok", "bad", "killed"} :
            /\ child' = [child EXCEPT ![j].state = how]
            /\ child[j].state = (IF how = "killed" THEN "dying" ELSE "running")
      BY <2>2 DEF Exit, Die
    <3>3. \A i \in Jobs : /\ child'[i].image = child[i].image /\ child'[i].dir = child[i].dir
                          /\ child'[i].state = IF i = j THEN how ELSE child[i].state
      BY <3>2 DEF NameInv, Counters
    <3>4. StoreInv' /\ ChildInv'
      BY <3>1, <3>2, <3>3 DEF DataInv, StoreInv, ChildInv, Records, Dirs
    <3>5. NumberInv'
      BY <1>1, <3>2, <3>3 DEF DataInv, NumberInv, process, own, output
    <3> QED
      BY <3>1, <3>2, <3>3, <3>4, <3>5 DEF Dirs
  <2> QED
    BY <2>1, <2>2
<1>3. ASSUME NEW u \in Callers
      PROVE  ThreadInv(u)'
  <2>1. job[u] # 0 => job[u] \in Jobs
    BY DarktableAssumption DEF DataInv, NumberInv, Jobs, DarktableAssumption
  <2>2. Spared(u)
    BY <1>1, <1>2, <2>1 DEF Spared, process, own, names, output
  <2> QED
    BY <2>2, SparedKeeps, AtWork
<1> QED
  BY <1>2, <1>3 DEF DataInv, CallInv, ThreadInv

\* A crash takes the calls, and leaves what they have left.
LEMMA CrashKeepsData ==
  ASSUME NameInv, DataInv, Crash PROVE DataInv'
<1>1. /\ pc' = [t \in Callers |-> "idle"] /\ result' = [t \in Callers |-> "none"]
      /\ UNCHANGED <<jobs, own, output, store, child>>
  BY DEF Crash
<1>2. StoreInv' /\ ChildInv' /\ NumberInv'
  BY <1>1 DEF DataInv, StoreInv, ChildInv, NumberInv, own, output, Dirs
<1>3. ASSUME NEW u \in Callers
      PROVE  ThreadInv(u)'
  BY <1>1, AtWork DEF own, output, ThreadInv, Placed, Attended, Delivered, Wrapping, Waiting, Reading
<1> QED
  BY <1>2, <1>3 DEF DataInv, CallInv, ThreadInv

LEMMA DataIsKept ==
  ASSUME NameInv, DataInv, [Next]_vars PROVE DataInv'
<1>1. ASSUME NEW t \in Callers, Start(t) \/ Step(t) \/ WaitFails(t) PROVE DataInv'
  BY <1>1, StartKeepsData, WrapIdKeepsData, WrapDirKeepsData, WriteInputKeepsData, FindKeepsData,
     TakeIdKeepsData, CreateDirKeepsData, SetUpKeepsData, SpawnKeepsData, WaitingKeepsData,
     KillKeepsData, StatKeepsData, ReadKeepsData, ParseKeepsData, CleanUpKeepsData, UnwrapKeepsData
  DEF Step
<1>2. ASSUME NEW j \in Jobs, Write(j) \/ Exit(j) \/ Die(j) PROVE DataInv'
  BY <1>2, ChildKeepsData
<1>3. CASE Crash
  BY <1>3, CrashKeepsData
<1>4. CASE Resting \/ UNCHANGED vars
  <2>1. UNCHANGED vars
    BY <1>4 DEF Resting
  <2>2. StoreInv' /\ ChildInv' /\ NumberInv'
    BY <2>1 DEF DataInv, StoreInv, ChildInv, NumberInv, vars, process, own, output, Dirs
  <2>3. ASSUME NEW u \in Callers PROVE ThreadInv(u)'
    <3>1. Spared(u)
      BY <2>1 DEF Spared, vars, process, own, names, output, Dirs
    <3> QED
      BY <3>1, SparedKeeps, AtWork
  <2> QED
    BY <2>2, <2>3 DEF DataInv, CallInv, ThreadInv
<1> QED
  BY <1>1, <1>2, <1>3, <1>4 DEF Next

LEMMA DataAtStart == Init => DataInv
<1> SUFFICES ASSUME Init PROVE DataInv
  OBVIOUS
<1>1. StoreInv /\ ChildInv
  BY DEF Init, StoreInv, ChildInv, Dirs, None
<1>2. NumberInv
  BY DarktableAssumption DEF Init, NumberInv, DarktableAssumption
<1>3. ASSUME NEW t \in Callers
      PROVE  Placed(t) /\ Attended(t) /\ Delivered(t)
  <2>1. pc[t] = "idle" /\ job[t] = 0 /\ outer[t] = {} /\ result[t] = "none" /\ held[t] = 0
    BY DEF Init, None
  <2>2. 0 \in 0 .. MaxBytes + 1
    BY DarktableAssumption DEF DarktableAssumption
  <2> QED
    BY <2>1, <2>2 DEF Placed, Attended, Delivered, Wrapping, Waiting, Reading
<1> QED
  BY <1>1, <1>2, <1>3 DEF DataInv, CallInv

LEMMA DataInvariant == ASSUME PidReuse = FALSE PROVE Spec => [](NameInv /\ DataInv)
<1>1. Init => NameInv /\ DataInv
  BY NamesAtStart, DataAtStart
<1>2. (NameInv /\ DataInv) /\ [Next]_vars => (NameInv /\ DataInv)'
  BY NamesAreKept, DataIsKept
<1> QED
  BY <1>1, <1>2, PTL DEF Spec

\* What a call delivers is what its own child wrote, whole and within the
\* bounds, and no call ever holds more of a file than one byte too many.
THEOREM DeliversOnlyItsOwn ==
  ASSUME PidReuse = FALSE PROVE Spec => []DeliversItsOwn
<1>1. NameInv /\ DataInv => DeliversItsOwn
  <2> SUFFICES ASSUME NameInv, DataInv, NEW t \in Callers
               PROVE  /\ held[t] <= MaxBytes + 1
                      /\ pc[t] = "idle" /\ result[t] = "ok" =>
                           /\ from[t] = job[t] /\ Mine(t).state = "ok"
                           /\ held[t] <= MaxBytes /\ held[t] >= Parsed(t).size
                           /\ Parsed(t).pixels <= call[t].maxPixels
    BY DEF DeliversItsOwn
  <2>1. held[t] <= MaxBytes + 1
    BY AtWork, DarktableAssumption DEF ThreadInv, Delivered, DarktableAssumption
  <2> QED
    BY <2>1, AtWork DEF ThreadInv, Delivered
<1> QED
  BY <1>1, DataInvariant, PTL

\* A call that has returned has no child running that it could wait for, and
\* one that waits has its input and its directory where they were.
THEOREM AttendsItsChild ==
  ASSUME PidReuse = FALSE PROVE Spec => []ChildIsAttended
<1>1. NameInv /\ DataInv => ChildIsAttended
  <2> SUFFICES ASSUME NameInv, DataInv, NEW t \in Callers
               PROVE  /\ pc[t] = "idle" /\ result[t] \notin {"none", "WaitFailed"} =>
                           Mine(t).state \notin {"running", "dying"}
                      /\ pc[t] \in {"await", "kill", "reap"} => InputThere(t) /\ The(dir[t]) \in Dirs
    BY DEF ChildIsAttended
  <2>1. pc[t] \in {"await", "kill", "reap"} => The(dir[t]) \in Dirs
    <3>1. ASSUME pc[t] \in {"await", "kill", "reap"}
          PROVE  \E d \in Dirs : dir[t] = {d}
      BY <3>1, AtWork DEF ThreadInv, Placed, Waiting
    <3> QED
      BY <3>1, TheOfOne
  <2> QED
    BY <2>1, AtWork DEF ThreadInv, Placed, Attended, Waiting
<1> QED
  BY <1>1, DataInvariant, PTL

-----------------------------------------------------------------------------
(* Types.                                                                  *)

LEMMA TypesAtStart == Init => TypeOK
<1> SUFFICES ASSUME Init PROVE TypeOK
  OBVIOUS
<1>1. call \in [Callers -> Calls]
  BY DarktableAssumption DEF Init, DarktableAssumption
<1>2. /\ pid \in Nat /\ crashes \in 0 .. MaxCrashes /\ jobs \in 0 .. MaxJobs
      /\ job \in [Callers -> 0 .. MaxJobs] /\ from \in [Callers -> 0 .. MaxJobs]
      /\ held \in [Callers -> 0 .. MaxBytes + 1]
  BY DarktableAssumption DEF Init, DarktableAssumption
<1>3. /\ counter \in [{"file", "bytes"} -> Nat] /\ pc \in [Callers -> Pcs]
      /\ result \in [Callers -> Results]
  BY DEF Init, Pcs, Results
<1>4. /\ \A t \in Callers : outer[t] = {} /\ dir[t] = {}
      /\ Dirs = {} /\ \A j \in Jobs : child[j].state = "none"
  BY DEF Init, None, Dirs
<1> QED
  BY <1>1, <1>2, <1>3, <1>4 DEF TypeOK

\* A result of a step is one there may be.
LEMMA ResultsAreKnown ==
  ASSUME TypeOK, NEW t \in Callers, Start(t) \/ Step(t) \/ WaitFails(t)
  PROVE  result' \in [Callers -> Results]
<1>1. UNCHANGED result \/ \E e \in Results : Ends(t, e)
  <2>1. CASE Start(t) \/ WaitFails(t) \/ WrapId(t) \/ WrapDir(t) \/ WriteInput(t) \/ Find(t) \/ TakeId(t)
    BY <2>1 DEF Start, WaitFails, WrapId, WrapDir, WriteInput, Find, TakeId, Bail, Fail, Results
  <2>2. CASE CreateDir(t) \/ SetUp(t) \/ Spawn(t) \/ Exited(t) \/ Overdue(t) \/ Kill(t) \/ Reap(t)
    BY <2>2 DEF CreateDir, SetUp, Spawn, Exited, Overdue, Kill, Reap, Bail, Fail, Results
  <2>3. CASE Stat(t) \/ Read(t)
    BY <2>3 DEF Stat, Read, Bail, Fail, Results
  <2>4. CASE Parse(t) \/ CleanUp(t) \/ Unwrap(t)
    BY <2>4 DEF Parse, CleanUp, Unwrap, Bail, Fail, Results
  <2> QED
    BY <2>1, <2>2, <2>3, <2>4 DEF Step
<1> QED
  BY <1>1 DEF TypeOK, Ends

\* What is read is no more than a byte too many, of a child of this process.
LEMMA ReadingIsTyped ==
  ASSUME TypeOK, NameInv, DataInv, NEW t \in Callers, Read(t)
  PROVE  held' \in [Callers -> 0 .. MaxBytes + 1] /\ from' \in [Callers -> 0 .. MaxJobs]
<1>1. CASE UNCHANGED <<held, from>>
  BY <1>1 DEF TypeOK
<1>2. CASE /\ Out(t) # None
           /\ held' = [held EXCEPT ![t] = Taken(The(Out(t)).size)]
           /\ from' = [from EXCEPT ![t] = The(Out(t)).by]
  <2>1. PICK d \in Dirs : dir[t] = {d}
    BY AtWork DEF Read, ThreadInv, Placed, Reading
  <2>2. Out(t) = store[d].out /\ store[d] \in Records
    BY <2>1, TheOfOne DEF Out, DataInv, StoreInv
  <2>3. PICK o \in store[d].out : store[d].out = {o}
    BY <1>2, <2>1, <2>2 DEF None, DataInv, StoreInv
  <2>4. The(Out(t)) = o /\ o.by \in Jobs /\ o.size \in Nat
    BY <2>2, <2>3, TheOfOne DEF Records
  <2>5. Taken(o.size) \in 0 .. MaxBytes + 1 /\ o.by \in 0 .. MaxJobs
    BY <2>4, DarktableAssumption DEF Taken, LeastOf, DarktableAssumption, Jobs
  <2> QED
    BY <1>2, <2>4, <2>5 DEF TypeOK
<1> QED
  BY <1>1, <1>2 DEF Read

\* The directories made are those whose names were taken.
LEMMA DirsHaveNames ==
  ASSUME TypeOK, NameInv, DataInv, NEW t \in Callers, Step(t)
  PROVE  Dirs' \subseteq DirNames
<1>1. CASE UNCHANGED store
  BY <1>1 DEF TypeOK, Dirs
<1>2. ASSUME NEW d \in DirNames, MakeDir(d) PROVE Dirs' \subseteq DirNames
  BY <1>2 DEF MakeDir, Dirs, TypeOK
<1>3. ASSUME NEW d, RemoveDir(d) PROVE Dirs' \subseteq DirNames
  BY <1>3 DEF RemoveDir, Dirs, TypeOK
<1>4. CASE WrapDir(t)
  <2>1. PICK d \in DirNames : outer[t] = {d}
    BY <1>4, AtWork DEF WrapDir, ThreadInv, Placed, Wrapping
  <2> QED
    BY <1>1, <1>2, <1>4, <2>1, TheOfOne DEF WrapDir
<1>5. CASE CreateDir(t)
  <2>1. PICK d \in DirNames : dir[t] = {d}
    BY <1>5, AtWork DEF CreateDir, ThreadInv, Placed
  <2> QED
    BY <1>1, <1>2, <1>5, <2>1, TheOfOne DEF CreateDir
<1>6. CASE WriteInput(t)
  BY <1>1, <1>6 DEF WriteInput, TypeOK, Dirs
<1>7. CASE CleanUp(t) \/ Unwrap(t)
  BY <1>3, <1>7 DEF CleanUp, Unwrap
<1>8. CASE ~(WrapDir(t) \/ CreateDir(t) \/ WriteInput(t) \/ CleanUp(t) \/ Unwrap(t))
  BY <1>1, <1>8 DEF Step, WrapId, Find, TakeId, SetUp, Spawn, Exited, Overdue, Kill, Reap, Stat, Read, Parse
<1> QED
  BY <1>4, <1>5, <1>6, <1>7, <1>8

\* The types that the other invariants do not already give.
Rest ==
  /\ crashes \in 0 .. MaxCrashes /\ call \in [Callers -> Calls]
  /\ held \in [Callers -> 0 .. MaxBytes + 1] /\ from \in [Callers -> 0 .. MaxJobs]
  /\ result \in [Callers -> Results] /\ Dirs \subseteq DirNames

LEMMA RestIsKept ==
  ASSUME TypeOK, NameInv, DataInv, [Next]_vars
  PROVE  Rest'
<1>1. ASSUME NEW t \in Callers, Start(t) PROVE Rest'
  <2>1. PICK c \in Calls : call' = [call EXCEPT ![t] = c]
    BY <1>1 DEF Start
  <2>2. /\ held' = [held EXCEPT ![t] = 0] /\ from' = [from EXCEPT ![t] = 0]
        /\ 0 \in 0 .. MaxBytes + 1 /\ 0 \in 0 .. MaxJobs
    BY <1>1, DarktableAssumption DEF Start, DarktableAssumption
  <2> QED
    BY <1>1, <2>1, <2>2, ResultsAreKnown DEF Start, TypeOK, Rest, Dirs
<1>2. ASSUME NEW t \in Callers, Step(t) PROVE Rest'
  <2>1. UNCHANGED <<crashes, call>> /\ (Read(t) \/ UNCHANGED <<held, from>>)
    BY <1>2 DEF Step, WrapId, WrapDir, WriteInput, Find, TakeId, CreateDir, SetUp, Spawn, Exited, Overdue, Kill,
                Reap, Stat, Read, Parse, CleanUp, Unwrap, process, own, output
  <2> QED
    BY <1>2, <2>1, ResultsAreKnown, ReadingIsTyped, DirsHaveNames DEF TypeOK, Rest
<1>3. ASSUME NEW t \in Callers, WaitFails(t) PROVE Rest'
  BY <1>3, ResultsAreKnown DEF WaitFails, TypeOK, Rest, Dirs, process, own, output
<1>4. ASSUME NEW j \in Jobs, Write(j) \/ Exit(j) \/ Die(j) PROVE Rest'
  BY <1>4 DEF Write, Exit, Die, TypeOK, Rest, Dirs, process, own, output
<1>5. CASE Crash
  <2>1. crashes' \in 0 .. MaxCrashes
    BY <1>5, DarktableAssumption DEF Crash, TypeOK, DarktableAssumption
  <2>2. result' \in [Callers -> Results]
    BY <1>5 DEF Crash, Results
  <2> QED
    BY <1>5, <2>1, <2>2 DEF Crash, TypeOK, Rest, Dirs, own, output
<1>6. CASE Resting \/ UNCHANGED vars
  BY <1>6 DEF Resting, TypeOK, Rest, Dirs, vars, process, own, output
<1> QED
  BY <1>1, <1>2, <1>3, <1>4, <1>5, <1>6 DEF Next

LEMMA RestIsAll == NameInv /\ DataInv /\ Rest => TypeOK
<1> SUFFICES ASSUME NameInv, DataInv, Rest PROVE TypeOK
  OBVIOUS
<1>1. job \in [Callers -> 0 .. MaxJobs] /\ jobs \in 0 .. MaxJobs
  BY DarktableAssumption DEF DataInv, NumberInv, DarktableAssumption
<1>2. \A t \in Callers : outer[t] \subseteq DirNames /\ dir[t] \subseteq DirNames
  <2>1. pid \in Nat /\ counter["file"] \in Nat /\ counter["bytes"] \in Nat
    BY DEF NameInv, Counters
  <2>2. Issued("file") \subseteq DirNames /\ Issued("bytes") \subseteq DirNames
    BY <2>1 DEF Issued, DirNames
  <2> QED
    BY <2>2 DEF NameInv, Named
<1>3. \A d \in Dirs : store[d].input \in BOOLEAN
  BY DEF DataInv, StoreInv, Records
<1>4. \A j \in Jobs : child[j].state \in ChildStates
  BY DEF NameInv, Counters
<1> QED
  BY <1>1, <1>2, <1>3, <1>4 DEF TypeOK, Rest, NameInv, Counters, ChildStates

\* Every id, name, length and verdict is of its kind, whatever fails.
THEOREM TypeCorrect ==
  ASSUME PidReuse = FALSE PROVE Spec => []TypeOK
<1>1. TypeOK /\ (NameInv /\ DataInv) /\ [Next]_vars => Rest'
  BY RestIsKept
<1> QED
  BY <1>1, TypesAtStart, RestIsAll, DataInvariant, PTL DEF Spec

-----------------------------------------------------------------------------
(* What is left.  An early return between making a directory and running   *)
(* the child leaves the directory behind, so this is the case where making *)
(* and removing directories and writing into them succeed; the child may   *)
(* still not be spawned, be lost, or leave an output nobody can read.      *)

LeftInv ==
  /\ Dirs \subseteq Issued("file") \cup Issued("bytes")
  /\ \A d \in Dirs : d[2] = pid => \E t \in Callers : d \in Using(t)
  /\ \A t \in Callers : pc[t] = "unwrap" => dir[t] \cap Dirs = {}

Tidy == Faults \subseteq {"spawn", "wait", "read"}

\* A step of a call that lets no directory go, and may have made one of its own.
LEMMA HoldingKeepsLeft ==
  ASSUME NameInv, LeftInv, NEW t \in Callers, pid' = pid,
         UNCHANGED counter \/ \E k \in {"file", "bytes"} : counter' = [counter EXCEPT ![k] = @ + 1],
         Dirs \subseteq Dirs', Dirs' \ Dirs \subseteq (outer[t] \cup dir[t]) \cap Using(t)',
         Using(t) \cap Dirs \subseteq Using(t)',
         pc'[t] = "unwrap" => dir'[t] \cap Dirs' = {},
         \A u \in Callers \ {t} : pc'[u] = pc[u] /\ outer'[u] = outer[u] /\ dir'[u] = dir[u]
  PROVE  LeftInv'
<1>1. Issued("file") \subseteq Issued("file")' /\ Issued("bytes") \subseteq Issued("bytes")'
  BY IssuedGrows DEF NameInv
<1>2. Dirs' \subseteq Issued("file")' \cup Issued("bytes")'
  BY <1>1 DEF LeftInv, NameInv, Named
<1>3. ASSUME NEW d \in Dirs', d[2] = pid
      PROVE  \E u \in Callers : d \in Using(u)'
  <2>1. CASE d \in Dirs
    <3>1. PICK u \in Callers : d \in Using(u)
      BY <1>3, <2>1 DEF LeftInv
    <3>2. CASE u = t
      BY <2>1, <3>1, <3>2
    <3>3. CASE u # t
      BY <3>1, <3>3 DEF Using
    <3> QED
      BY <3>2, <3>3
  <2> QED
    BY <2>1
<1>4. ASSUME NEW u \in Callers, pc'[u] = "unwrap"
      PROVE  dir'[u] \cap Dirs' = {}
  <2>1. CASE u # t
    BY <1>4, <2>1, OthersElsewhere DEF LeftInv
  <2> QED
    BY <1>4, <2>1
<1> QED
  BY <1>2, <1>3, <1>4 DEF LeftInv

\* The steps between making the directories and removing them, and a new call.
LEMMA WorkKeepsLeft ==
  ASSUME Tidy, NameInv, DataInv, LeftInv, NEW t \in Callers,
         \/ Start(t) \/ WriteInput(t) \/ SetUp(t) \/ Spawn(t) \/ Exited(t) \/ WaitFails(t)
         \/ Overdue(t) \/ Kill(t) \/ Reap(t) \/ Stat(t) \/ Read(t) \/ Parse(t)
  PROVE  LeftInv'
<1>1. pid' = pid /\ UNCHANGED counter /\ Dirs' = Dirs
  BY DEF Start, WriteInput, SetUp, Spawn, Exited, WaitFails, Overdue, Kill, Reap, Stat, Read, Parse,
     process, Dirs
<1>2. \A u \in Callers \ {t} : pc'[u] = pc[u] /\ outer'[u] = outer[u] /\ dir'[u] = dir[u]
  BY AtWork DEF Start, WriteInput, SetUp, Spawn, Exited, WaitFails, Overdue, Kill, Reap, Stat, Read, Parse,
     Goes, Fail, Bail, names
<1>3. CASE Start(t)
  <2>1. Using(t) = {}
    BY <1>3 DEF Start, Using
  <2>2. pc'[t] # "unwrap"
    BY <1>3, AtWork DEF Start, Goes
  <2> QED
    BY <1>1, <1>2, <2>1, <2>2, HoldingKeepsLeft
<1>4. CASE ~Start(t)
  <2>1. pc[t] # "idle" /\ outer'[t] = outer[t] /\ dir'[t] = dir[t]
    BY <1>4 DEF WriteInput, SetUp, Spawn, Exited, WaitFails, Overdue, Kill, Reap, Stat, Read, Parse, names
  <2>2. pc'[t] \notin {"idle", "unwrap"}
    <3>1. CASE WriteInput(t) \/ SetUp(t)
      BY <3>1, AtWork DEF WriteInput, SetUp, Goes, Tidy
    <3>2. CASE Spawn(t) \/ Overdue(t) \/ Kill(t)
      BY <3>2, AtWork DEF Spawn, Overdue, Kill, Goes, Fail
    <3>3. CASE Exited(t) \/ WaitFails(t) \/ Reap(t) \/ Stat(t) \/ Read(t) \/ Parse(t)
      BY <3>3, AtWork DEF Exited, WaitFails, Reap, Stat, Read, Parse, Goes, Fail
    <3> QED
      BY <1>4, <3>1, <3>2, <3>3
  <2>3. Using(t)' = Using(t)
    BY <2>1, <2>2 DEF Using
  <2> QED
    BY <1>1, <1>2, <2>2, <2>3, HoldingKeepsLeft
<1> QED
  BY <1>3, <1>4

\* Names are taken and directories are made.
LEMMA MakingKeepsLeft ==
  ASSUME Tidy, NameInv, DataInv, LeftInv, NEW t \in Callers,
         WrapId(t) \/ WrapDir(t) \/ TakeId(t) \/ CreateDir(t) \/ Find(t)
  PROVE  LeftInv'
<1>1. \A u \in Callers \ {t} : pc'[u] = pc[u] /\ outer'[u] = outer[u] /\ dir'[u] = dir[u]
  BY AtWork DEF WrapId, WrapDir, TakeId, CreateDir, Find, Goes, Bail, names
<1>2. CASE WrapId(t) \/ TakeId(t)
  <2>1. /\ pid' = pid /\ Dirs' = Dirs
        /\ \E k \in {"file", "bytes"} : counter' = [counter EXCEPT ![k] = @ + 1]
    BY <1>2 DEF WrapId, TakeId, Dirs
  <2>2. pc'[t] \notin {"idle", "unwrap"}
    BY <1>2, AtWork DEF WrapId, TakeId, Goes
  <2>3. Using(t) \subseteq Using(t)'
    <3>1. CASE WrapId(t)
      <4>1. outer[t] = {} /\ dir[t] = {}
        BY <3>1, AtWork DEF WrapId, ThreadInv, Placed, Wrapping
      <4> QED
        BY <4>1 DEF Using
    <3>2. CASE TakeId(t)
      <4>1. dir[t] = {} /\ outer'[t] = outer[t]
        BY <3>2, AtWork DEF TakeId, ThreadInv, Placed
      <4> QED
        BY <2>2, <4>1 DEF Using
    <3> QED
      BY <1>2, <3>1, <3>2
  <2> QED
    BY <1>1, <2>1, <2>2, <2>3, HoldingKeepsLeft
<1>3. CASE WrapDir(t) \/ CreateDir(t)
  <2>1. pid' = pid /\ UNCHANGED <<counter, outer, dir, child>> /\ pc[t] # "idle"
    BY <1>3 DEF WrapDir, CreateDir, process, names
  <2>2. pc'[t] \notin {"idle", "unwrap"}
    BY <1>3, AtWork DEF WrapDir, CreateDir, Goes, Tidy
  <2>3. PICK d : MakeDir(d) /\ d \in outer[t] \cup dir[t]
    <3>1. CASE WrapDir(t)
      <4>1. MakeDir(The(outer[t])) /\ \E d \in DirNames : outer[t] = {d}
        BY <3>1, AtWork DEF WrapDir, Tidy, ThreadInv, Placed, Wrapping
      <4> QED
        BY <4>1, TheOfOne
    <3>2. CASE CreateDir(t)
      <4>1. MakeDir(The(dir[t])) /\ \E d \in DirNames : dir[t] = {d}
        BY <3>2, AtWork DEF CreateDir, Tidy, ThreadInv, Placed
      <4> QED
        BY <4>1, TheOfOne
    <3> QED
      BY <1>3, <3>1, <3>2
  <2>4. Dirs' = Dirs \cup {d}
    BY <2>1, <2>3, MakingADir DEF DataInv
  <2>5. Using(t)' = outer[t] \cup dir[t] /\ Using(t) = outer[t] \cup dir[t]
    BY <2>1, <2>2 DEF Using
  <2> QED
    BY <1>1, <2>1, <2>2, <2>3, <2>4, <2>5, HoldingKeepsLeft
<1>4. CASE Find(t)
  <2>1. pid' = pid /\ UNCHANGED <<counter, outer, dir>> /\ Dirs' = Dirs /\ pc[t] = "find" /\ dir[t] = {}
    BY <1>4, AtWork DEF Find, process, names, Dirs, ThreadInv, Placed
  <2>2. pc'[t] = "idle" => outer[t] = {}
    BY <1>4, <2>1, AtWork DEF Find, Goes, Bail, Back, ThreadInv, Placed
  <2>3. Using(t) \subseteq Using(t)'
    BY <2>1, <2>2 DEF Using
  <2> QED
    BY <1>1, <2>1, <2>3, HoldingKeepsLeft
<1> QED
  BY <1>2, <1>3, <1>4

\* A call removes what it has made, its child's directory first.
LEMMA RemovingKeepsLeft ==
  ASSUME Tidy, NameInv, DataInv, LeftInv, NEW t \in Callers, CleanUp(t) \/ Unwrap(t)
  PROVE  LeftInv'
<1>1. pid' = pid /\ UNCHANGED <<counter, outer, dir, child>> /\ pc[t] \in {"cleanup", "unwrap"}
  BY DEF CleanUp, Unwrap, process, names
<1>2. \A u \in Callers \ {t} : pc'[u] = pc[u]
  BY AtWork DEF CleanUp, Unwrap, Goes, Bail
<1>3. \E d \in outer[t] \cup dir[t] :
        /\ Dirs' = Dirs \ {d}
        /\ (outer[t] \cup dir[t]) \cap Dirs' \subseteq Using(t)'
        /\ pc'[t] = "unwrap" => dir[t] = {d}
  <2>1. CASE CleanUp(t)
    <3>1. PICK d \in Dirs : dir[t] = {d}
      BY <2>1, AtWork DEF CleanUp, ThreadInv, Placed
    <3>2. Dirs' = Dirs \ {d}
      BY <2>1, <3>1, TheOfOne DEF CleanUp, RemoveDir, Tidy, Dirs
    <3>3. pc'[t] = Back(t) /\ (~call[t].bytes => outer[t] = {})
      BY <2>1, AtWork DEF CleanUp, Goes, Bail, ThreadInv, Placed
    <3> QED
      BY <1>1, <3>1, <3>2, <3>3 DEF Back, Using
  <2>2. CASE Unwrap(t)
    <3>1. PICK d \in DirNames : outer[t] = {d}
      BY <2>2, AtWork DEF Unwrap, ThreadInv, Placed
    <3>2. Dirs' = Dirs \ {d}
      BY <2>2, <3>1, TheOfOne DEF Unwrap, RemoveDir, Tidy, Dirs
    <3>3. dir[t] \cap Dirs = {} /\ pc'[t] = "idle"
      BY <2>2, AtWork DEF Unwrap, LeftInv, Goes
    <3> QED
      BY <3>1, <3>2, <3>3
  <2> QED
    BY <2>1, <2>2
<1>4. PICK d \in outer[t] \cup dir[t] :
        /\ Dirs' = Dirs \ {d}
        /\ (outer[t] \cup dir[t]) \cap Dirs' \subseteq Using(t)'
        /\ pc'[t] = "unwrap" => dir[t] = {d}
  BY <1>3
<1>5. Dirs' \subseteq Issued("file")' \cup Issued("bytes")'
  BY <1>1, <1>4 DEF LeftInv, Issued
<1>6. ASSUME NEW e \in Dirs', e[2] = pid
      PROVE  \E u \in Callers : e \in Using(u)'
  <2>1. PICK u \in Callers : e \in Using(u)
    BY <1>4, <1>6 DEF LeftInv
  <2>2. CASE u = t
    BY <1>4, <2>1, <2>2 DEF Using
  <2>3. CASE u # t
    BY <1>1, <1>2, <2>1, <2>3 DEF Using
  <2> QED
    BY <2>2, <2>3
<1>7. \A u \in Callers : pc'[u] = "unwrap" => dir'[u] \cap Dirs' = {}
  BY <1>1, <1>2, <1>4 DEF LeftInv
<1> QED
  BY <1>1, <1>5, <1>6, <1>7 DEF LeftInv

LEMMA LeftIsKept ==
  ASSUME PidReuse = FALSE, Tidy, NameInv, DataInv, LeftInv, [Next]_vars PROVE LeftInv'
<1>1. ASSUME NEW t \in Callers, Start(t) \/ Step(t) \/ WaitFails(t) PROVE LeftInv'
  BY <1>1, WorkKeepsLeft, MakingKeepsLeft, RemovingKeepsLeft DEF Step
<1>2. CASE Resting \/ UNCHANGED vars \/ \E j \in Jobs : Write(j) \/ Exit(j) \/ Die(j)
  <2>1. UNCHANGED <<pid, counter, pc, outer, dir>> /\ Dirs' = Dirs
    BY <1>2 DEF Resting, Write, Exit, Die, vars, process, names, Dirs
  <2> QED
    BY <2>1 DEF LeftInv, Issued, Using
<1>3. CASE Crash
  <2>1. pid' = pid + 1 /\ Dirs' = Dirs /\ pc' = [t \in Callers |-> "idle"] /\ pid \in Nat
        /\ counter["file"] \in Nat /\ counter["bytes"] \in Nat
    BY <1>3 DEF Crash, Dirs, NameInv, Counters
  <2>2. Issued("file") \subseteq Issued("file")' /\ Issued("bytes") \subseteq Issued("bytes")'
    BY <2>1, IssuedGrows DEF NameInv
  <2>3. \A d \in Issued("file") \cup Issued("bytes") : d[2] \in 0 .. pid
    BY <2>1 DEF Issued
  <2>4. \A d \in Dirs' : d[2] # pid'
    BY <2>1, <2>3 DEF LeftInv
  <2> QED
    BY <2>1, <2>2, <2>4 DEF LeftInv
<1> QED
  BY <1>1, <1>2, <1>3 DEF Next

\* Where making directories and removing them succeed, every directory of this
\* process belongs to a call under way: a call that returns leaves none.
THEOREM LeavesNothing ==
  ASSUME PidReuse = FALSE, Tidy PROVE Spec => []NothingLeftBehind
<1>1. Init => LeftInv
  BY DEF Init, LeftInv, Dirs
<1>2. LeftInv /\ (NameInv /\ DataInv) /\ [Next]_vars => LeftInv'
  BY LeftIsKept
<1>3. LeftInv => NothingLeftBehind
  BY DEF LeftInv, NothingLeftBehind
<1> QED
  BY <1>1, <1>2, <1>3, DataInvariant, PTL DEF Spec
=============================================================================
