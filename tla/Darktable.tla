------------------------------- MODULE Darktable -------------------------------
(***************************************************************************)
(* Concurrent decodes through darktable-cli (src/src/darktable.rs): the    *)
(* threads of one process, each calling decode_file or decode_bytes, their *)
(* temporary directories, the child process each of them waits for, and    *)
(* the bounded read of what the child wrote.                               *)
(*                                                                         *)
(* darktable-cli itself is external: it may hang, fail, write nothing or   *)
(* too much, and leave something behind that goes on writing.  Time is     *)
(* left out: a timeout may be over whenever the clock is looked at.  The   *)
(* process may crash; its directories and children survive it.             *)
(***************************************************************************)
EXTENDS Integers

CONSTANTS
  Callers,      \* the threads of the process
  Calls,        \* the calls considered
  Images,       \* what darktable-cli may make of an input
  MaxBytes,     \* max_pfm_bytes
  FixedCap,     \* the pixels parse_pfm accepts whatever the configuration
  Faults,       \* the operations that may fail
  PidReuse,     \* whether a restarted process may get the pid it had
  MaxJobs,      \* bound: calls made
  MaxFile,      \* bound: bytes a child writes
  MaxCrashes    \* bound: crashes of the process

\* path: the file given to decode_file exists; cli: darktable-cli is found.
CallSpace == [bytes : BOOLEAN, path : BOOLEAN, cli : BOOLEAN, xmp : BOOLEAN, maxPixels : Nat]

\* size: the bytes a complete file of that many pixels has.
ImageSpace == [pixels : Nat, size : Nat, valid : BOOLEAN]

ASSUME DarktableAssumption ==
  /\ Calls # {} /\ Calls \subseteq CallSpace /\ Images \subseteq ImageSpace
  /\ MaxBytes \in Nat /\ FixedCap \in Nat
  /\ Faults \subseteq {"mkdir", "write", "spawn", "wait", "read", "remove"}
  /\ PidReuse \in BOOLEAN
  /\ MaxJobs \in Nat /\ MaxFile \in Nat /\ MaxCrashes \in Nat

Some(x)  == {x}
None     == {}
The(opt) == CHOOSE x \in opt : TRUE

VARIABLES
  pid, crashes,      \* the process
  counter,           \* COUNTER and BYTES_COUNTER, the next id of each kind of directory
  jobs,              \* calls made so far; numbers a call and its child
  pc, call, job,     \* per thread: where it is, its call and the call's number
  outer, dir,        \* per thread: the directories of decode_bytes and of decode_file
  held,              \* per thread: bytes of the output it has in memory
  from,              \* per thread: whose output that is
  result,            \* per thread: what the call returned, or will
  store,             \* the temporary directories there are, and their contents
  child              \* the children, by the number of their call

process == <<pid, crashes, counter, jobs>>
own     == <<call, job>>
names   == <<outer, dir>>
output  == <<held, from>>
vars    == <<process, pc, own, names, output, result, store, child>>

Jobs == 1 .. MaxJobs
Dirs == DOMAIN store

-----------------------------------------------------------------------------
(* Temporary directories.                                                  *)

\* Mutant: both kinds of directory share a prefix, but not a counter.
DirNameUnprefixed(kind, id) == <<"file", pid, id>>

\* zenraw_dt_{pid}_{id} and zenraw_dt_bytes_{pid}_{id}.
DirName(kind, id) == <<kind, pid, id>>

Empty == [input |-> FALSE, out |-> None]

\* create_dir_all accepts a directory that is already there.
MakeDir(d) ==
  store' = [e \in Dirs \cup {d} |-> IF e \in Dirs THEN store[e] ELSE Empty]

\* remove_dir_all, whose own failure is ignored.
RemoveDir(d) ==
  \/ store' = [e \in Dirs \ {d} |-> store[e]]
  \/ "remove" \in Faults /\ UNCHANGED store

Goes(t, where)  == pc' = [pc EXCEPT ![t] = where]
Ends(t, how)    == result' = [result EXCEPT ![t] = how]
Mine(t)         == child[job[t]]

\* Where decode_file returns to.
Back(t) == IF call[t].bytes THEN "unwrap" ELSE "idle"

\* decode_file returns early: nothing is cleaned up on the way.
Bail(t, error) == Goes(t, Back(t)) /\ Ends(t, error)

\* Mutant: an error of the child's run is returned before the clean-up.
FailUncleaned(t, error) == Bail(t, error)

\* The closure that runs the child ends; the clean-up follows.
Fail(t, error) == Goes(t, "cleanup") /\ Ends(t, error)

-----------------------------------------------------------------------------
Init ==
  /\ pid = 1 /\ crashes = 0 /\ jobs = 0
  /\ counter = [kind \in {"file", "bytes"} |-> 0]
  /\ pc = [t \in Callers |-> "idle"]
  /\ call = [t \in Callers |-> CHOOSE c \in Calls : TRUE]
  /\ job = [t \in Callers |-> 0]
  /\ outer = [t \in Callers |-> None] /\ dir = [t \in Callers |-> None]
  /\ held = [t \in Callers |-> 0] /\ from = [t \in Callers |-> 0]
  /\ result = [t \in Callers |-> "none"]
  /\ store = [d \in {} |-> Empty]
  /\ child = [j \in Jobs |-> [state |-> "none", dir |-> None, image |-> None]]

\* A thread calls decode_file or decode_bytes.
Start(t) ==
  /\ pc[t] = "idle" /\ jobs < MaxJobs
  /\ \E c \in Calls :
       /\ call' = [call EXCEPT ![t] = c]
       /\ Goes(t, IF c.bytes THEN "wrap" ELSE "find")
  /\ jobs' = jobs + 1
  /\ job' = [job EXCEPT ![t] = jobs + 1]
  /\ outer' = [outer EXCEPT ![t] = None] /\ dir' = [dir EXCEPT ![t] = None]
  /\ held' = [held EXCEPT ![t] = 0]
  /\ from' = [from EXCEPT ![t] = 0]
  /\ Ends(t, "none")
  /\ UNCHANGED <<pid, crashes, counter, store, child>>

\* decode_bytes: an id, a directory, the input in it, then decode_file.
WrapId(t) ==
  /\ pc[t] = "wrap"
  /\ outer' = [outer EXCEPT ![t] = Some(DirName("bytes", counter["bytes"]))]
  /\ counter' = [counter EXCEPT !["bytes"] = @ + 1]
  /\ Goes(t, "wrapdir")
  /\ UNCHANGED <<pid, crashes, jobs, own, dir, output, result, store, child>>

WrapDir(t) ==
  /\ pc[t] = "wrapdir"
  /\ \/ MakeDir(The(outer[t])) /\ Goes(t, "input") /\ UNCHANGED result
     \/ "mkdir" \in Faults /\ Goes(t, "idle") /\ Ends(t, "NoDir") /\ UNCHANGED store
  /\ UNCHANGED <<process, own, names, output, child>>

WriteInput(t) ==
  /\ pc[t] = "input"
  /\ \/ store' = [store EXCEPT ![The(outer[t])].input = TRUE] /\ Goes(t, "find") /\ UNCHANGED result
     \/ "write" \in Faults /\ Goes(t, "idle") /\ Ends(t, "NoInput") /\ UNCHANGED store
  /\ UNCHANGED <<process, own, names, output, child>>

-----------------------------------------------------------------------------
(* decode_file.                                                            *)

InputThere(t) ==
  IF call[t].bytes THEN The(outer[t]) \in Dirs /\ store[The(outer[t])].input
                   ELSE call[t].path

Find(t) ==
  /\ pc[t] = "find"
  /\ IF ~call[t].cli THEN Bail(t, "NoCli")
     ELSE IF ~InputThere(t) THEN Bail(t, "NotFound")
     ELSE Goes(t, "id") /\ UNCHANGED result
  /\ UNCHANGED <<process, own, names, output, store, child>>

\* COUNTER.fetch_add, one atomic step.
TakeId(t) ==
  /\ pc[t] = "id"
  /\ dir' = [dir EXCEPT ![t] = Some(DirName("file", counter["file"]))]
  /\ counter' = [counter EXCEPT !["file"] = @ + 1]
  /\ Goes(t, "mkdir")
  /\ UNCHANGED <<pid, crashes, jobs, own, outer, output, result, store, child>>

CreateDir(t) ==
  /\ pc[t] = "mkdir"
  /\ \/ MakeDir(The(dir[t])) /\ Goes(t, "setup") /\ UNCHANGED result
     \/ "mkdir" \in Faults /\ Bail(t, "NoDir") /\ UNCHANGED store
  /\ UNCHANGED <<process, own, names, output, child>>

\* The sidecar, if there is one, and the configuration directory.
SetUp(t) ==
  /\ pc[t] = "setup"
  /\ \/ Goes(t, "spawn") /\ UNCHANGED result
     \/ call[t].xmp /\ "write" \in Faults /\ Bail(t, "NoSidecar")
     \/ "mkdir" \in Faults /\ Bail(t, "NoConfig")
  /\ UNCHANGED <<process, own, names, output, store, child>>

Spawn(t) ==
  /\ pc[t] = "spawn"
  /\ \/ /\ \E i \in Images :
             child' = [child EXCEPT ![job[t]] =
                        [state |-> "running", dir |-> dir[t], image |-> Some(i)]]
        /\ Goes(t, "await") /\ UNCHANGED result
     \/ "spawn" \in Faults /\ Fail(t, "NoSpawn") /\ UNCHANGED child
  /\ UNCHANGED <<process, own, names, output, store>>

\* Mutant: the exit status is not looked at.
AcceptsAny(t) == TRUE

Accepts(t) == Mine(t).state = "ok"

\* The polling loop: try_wait, then, while the child is running, the clock.
Exited(t) ==
  /\ pc[t] = "await" /\ Mine(t).state # "running"
  /\ IF Accepts(t) THEN Goes(t, "stat") /\ UNCHANGED result
                   ELSE Fail(t, "Rejected")
  /\ UNCHANGED <<process, own, names, output, store, child>>

WaitFails(t) ==
  /\ pc[t] = "await" /\ "wait" \in Faults
  /\ Fail(t, "WaitFailed")
  /\ UNCHANGED <<process, own, names, output, store, child>>

\* Mutant: the clock is never looked at.
OverdueNever(t) == FALSE

\* Mutant: a child that is overdue is given up, and left running.
OverdueUnkilled(t) ==
  /\ pc[t] = "await" /\ Mine(t).state = "running"
  /\ Fail(t, "TimedOut")
  /\ UNCHANGED <<process, own, names, output, store, child>>

Overdue(t) ==
  /\ pc[t] = "await" /\ Mine(t).state = "running"
  /\ Goes(t, "kill")
  /\ UNCHANGED <<process, own, names, output, result, store, child>>

\* The child may have exited since; killing it then does nothing.
Kill(t) ==
  /\ pc[t] = "kill"
  /\ child' = [child EXCEPT ![job[t]].state = IF @ = "running" THEN "dying" ELSE @]
  /\ Goes(t, "reap")
  /\ UNCHANGED <<process, own, names, output, result, store>>

Reap(t) ==
  /\ pc[t] = "reap" /\ Mine(t).state \notin {"running", "dying"}
  /\ Fail(t, "TimedOut")
  /\ UNCHANGED <<process, own, names, output, store, child>>

-----------------------------------------------------------------------------
(* read_pfm_bounded and parse_pfm.                                         *)

Out(t) == IF The(dir[t]) \in Dirs THEN store[The(dir[t])].out ELSE None

Stat(t) ==
  /\ pc[t] = "stat"
  /\ IF Out(t) = None THEN Fail(t, "NoOutput")
     ELSE IF The(Out(t)).size > MaxBytes THEN Fail(t, "TooBig")
     ELSE Goes(t, "read") /\ UNCHANGED result
  /\ UNCHANGED <<process, own, names, output, store, child>>

LeastOf(a, b) == IF a < b THEN a ELSE b

\* take(max_bytes + 1): one byte more tells a file that grew.
Taken(size) == LeastOf(size, MaxBytes + 1)

Read(t) ==
  /\ pc[t] = "read"
  /\ \/ /\ Out(t) # None
        /\ held' = [held EXCEPT ![t] = Taken(The(Out(t)).size)]
        /\ from' = [from EXCEPT ![t] = The(Out(t)).by]
        /\ IF held'[t] > MaxBytes THEN Fail(t, "TooBig") ELSE Goes(t, "parse") /\ UNCHANGED result
     \/ /\ Out(t) = None \/ "read" \in Faults
        /\ Fail(t, "Unreadable")
        /\ UNCHANGED <<held, from>>
  /\ UNCHANGED <<process, own, names, store, child>>

Parsed(t) == The(child[from[t]].image)

Parse(t) ==
  /\ pc[t] = "parse"
  /\ IF ~Parsed(t).valid THEN Fail(t, "Malformed")
     ELSE IF Parsed(t).pixels > FixedCap THEN Fail(t, "OverFixedCap")
     ELSE IF held[t] < Parsed(t).size THEN Fail(t, "TooShort")
     ELSE Fail(t, "ok")
  /\ UNCHANGED <<process, own, names, output, store, child>>

-----------------------------------------------------------------------------
\* The directory is removed, then the pixels are counted and delivered.
CleanUp(t) ==
  /\ pc[t] = "cleanup"
  /\ RemoveDir(The(dir[t]))
  /\ IF result[t] = "ok" /\ Parsed(t).pixels > call[t].maxPixels
     THEN Bail(t, "TooManyPixels")
     ELSE Goes(t, Back(t)) /\ UNCHANGED result
  /\ UNCHANGED <<process, own, names, output, child>>

\* decode_bytes removes its own directory and hands the result on.
Unwrap(t) ==
  /\ pc[t] = "unwrap"
  /\ RemoveDir(The(outer[t]))
  /\ Goes(t, "idle")
  /\ UNCHANGED <<process, own, names, output, result, child>>

Step(t) ==
  \/ WrapId(t) \/ WrapDir(t) \/ WriteInput(t)
  \/ Find(t) \/ TakeId(t) \/ CreateDir(t) \/ SetUp(t) \/ Spawn(t)
  \/ Exited(t) \/ Overdue(t) \/ Kill(t) \/ Reap(t)
  \/ Stat(t) \/ Read(t) \/ Parse(t) \/ CleanUp(t) \/ Unwrap(t)

-----------------------------------------------------------------------------
(* The surroundings.                                                       *)

\* A child, or a process it left behind, writes on its output.
Write(j) ==
  /\ child[j].state # "none" /\ The(child[j].dir) \in Dirs
  /\ LET d == The(child[j].dir)
         there == store[d].out
         size == IF there # None /\ The(there).by = j THEN The(there).size ELSE 0
     IN /\ size < MaxFile
        /\ store' = [store EXCEPT ![d].out = Some([by |-> j, size |-> size + 1])]
  /\ UNCHANGED <<process, pc, own, names, output, result, child>>

Exit(j) ==
  /\ child[j].state = "running"
  /\ \E how \in {"ok", "bad"} : child' = [child EXCEPT ![j].state = how]
  /\ UNCHANGED <<process, pc, own, names, output, result, store>>

\* A killed process dies.
Die(j) ==
  /\ child[j].state = "dying"
  /\ child' = [child EXCEPT ![j].state = "killed"]
  /\ UNCHANGED <<process, pc, own, names, output, result, store>>

\* The process crashes and is started again: its counters are new.
Crash ==
  /\ crashes < MaxCrashes
  /\ crashes' = crashes + 1
  /\ pid' \in {pid + 1} \cup (IF PidReuse THEN {pid} ELSE {})
  /\ counter' = [kind \in {"file", "bytes"} |-> 0]
  /\ pc' = [t \in Callers |-> "idle"]
  /\ result' = [t \in Callers |-> "none"]
  /\ outer' = [t \in Callers |-> None] /\ dir' = [t \in Callers |-> None]
  /\ UNCHANGED <<jobs, own, output, store, child>>

Resting == jobs = MaxJobs /\ (\A t \in Callers : pc[t] = "idle") /\ UNCHANGED vars

Next ==
  \/ \E t \in Callers : Start(t) \/ Step(t) \/ WaitFails(t)
  \/ \E j \in Jobs : Write(j) \/ Exit(j) \/ Die(j)
  \/ Crash \/ Resting

\* Threads keep running, their timeouts come, and a killed process dies; a
\* child left alone owes nothing.
Spec ==
  /\ Init /\ [][Next]_vars
  /\ \A t \in Callers : WF_vars(Step(t))
  /\ \A j \in Jobs : WF_vars(Die(j))

-----------------------------------------------------------------------------
Pcs == {"idle", "wrap", "wrapdir", "input", "find", "id", "mkdir", "setup", "spawn", "await",
        "kill", "reap", "stat", "read", "parse", "cleanup", "unwrap"}

Results == {"none", "ok", "NoCli", "NotFound", "NoDir", "NoInput", "NoSidecar", "NoConfig",
            "NoSpawn", "WaitFailed", "Rejected", "TimedOut", "NoOutput", "TooBig", "Unreadable",
            "Malformed", "OverFixedCap", "TooShort", "TooManyPixels"}

DirNames == {"file", "bytes"} \X Nat \X Nat

TypeOK ==
  /\ pid \in Nat /\ crashes \in 0 .. MaxCrashes /\ jobs \in 0 .. MaxJobs
  /\ counter \in [{"file", "bytes"} -> Nat]
  /\ pc \in [Callers -> Pcs] /\ call \in [Callers -> Calls]
  /\ job \in [Callers -> 0 .. MaxJobs]
  /\ \A t \in Callers : outer[t] \subseteq DirNames /\ dir[t] \subseteq DirNames
  /\ held \in [Callers -> 0 .. MaxBytes + 1]
  /\ from \in [Callers -> 0 .. MaxJobs] /\ result \in [Callers -> Results]
  /\ Dirs \subseteq DirNames
  /\ \A d \in Dirs : store[d].input \in BOOLEAN
  /\ \A j \in Jobs : child[j].state \in {"none", "running", "ok", "bad", "dying", "killed"}

\* The directories a call is using.
Using(t) == IF pc[t] = "idle" THEN {} ELSE outer[t] \cup dir[t]

\* Calls that overlap never share a directory, nor does a call reuse for
\* darktable's files the one that holds its input, and no child a call is not
\* waiting for writes where it works.
DirsAreDisjoint ==
  \A t \in Callers :
    /\ pc[t] # "idle" => outer[t] \cap dir[t] = {}
    /\ \A u \in Callers \ {t} : Using(t) \cap Using(u) = {}
    /\ \A j \in Jobs \ {job[t]} : Using(t) \cap child[j].dir = {}

\* What a call delivers is what its own child wrote: a child that exited with
\* success, a whole image, within the bytes and pixels allowed.  Delivered or
\* not, no call holds more of a file, grown as it may be, than the byte that
\* tells it is too long.
DeliversItsOwn ==
  \A t \in Callers :
    /\ held[t] <= MaxBytes + 1
    /\ pc[t] = "idle" /\ result[t] = "ok" =>
         /\ from[t] = job[t] /\ Mine(t).state = "ok"
         /\ held[t] <= MaxBytes /\ held[t] >= Parsed(t).size
         /\ Parsed(t).pixels <= call[t].maxPixels

\* A call that has returned left no child running, unless the child could not
\* be waited for, and while it waits the input it wrote stays where it is.
ChildIsAttended ==
  \A t \in Callers :
    /\ pc[t] = "idle" /\ result[t] \notin {"none", "WaitFailed"} =>
         Mine(t).state \notin {"running", "dying"}
    /\ pc[t] \in {"await", "kill", "reap"} => InputThere(t) /\ The(dir[t]) \in Dirs

\* Every directory this process made belongs to a call under way.
NothingLeftBehind == \A d \in Dirs : d[2] = pid => \E t \in Callers : d \in Using(t)

\* Every call returns, although a child may hang.
EveryCallReturns == \A t \in Callers : pc[t] # "idle" ~> pc[t] = "idle"
=============================================================================
