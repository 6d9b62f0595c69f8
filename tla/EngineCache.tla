----------------------------- MODULE EngineCache -----------------------------
(***************************************************************************)
(* The TensorRT backend's cache of one serialized engine: load() uses the  *)
(* cached file when it is not older than the ONNX file and can be          *)
(* deserialized, and otherwise builds the engine and publishes it through  *)
(* a temporary file of fixed name.  Processes share the directory, and any *)
(* of them may be killed at any step.                                      *)
(*                                                                         *)
(* Files are inodes behind two directory entries: a process that has one   *)
(* open keeps writing to it or reading from it after a rename or a remove. *)
(* A serialized engine is written in Chunks pieces; a piece is the ONNX    *)
(* version it was built from and the process that built it.                *)
(***************************************************************************)
EXTENDS Integers, Sequences, FiniteSets

CONSTANTS
  Processes,   \* the processes that load this engine
  Chunks,      \* the writes that make up one serialized engine
  None,        \* no file, no engine
  MaxVersion   \* bound: how often the ONNX file is replaced

ASSUME ProcessesAssumption == IsFiniteSet(Processes) /\ None \notin Processes
ASSUME ChunksAssumption == Chunks \in Nat \ {0}
ASSUME VersionAssumption == MaxVersion \in Nat \ {0} /\ None \notin Nat

VARIABLES
  alone,   \* nobody loads while another process does (never changes)
  onnx,    \* the ONNX file: its version, and whether it can be parsed
  entry,   \* directory entries: the cached engine and its temporary file
  file,    \* inode -> its pieces, and the ONNX version at its last write
  place,      \* process -> where it is in load(), "out" of it, or how it ended
  open,    \* process -> the inode it reads or writes, or None
  count,   \* process -> bytes to read, or pieces written
  engine   \* process -> the pieces of the engine it has loaded

diskVars == <<entry, file>>
procVars == <<place, open, count, engine>>
bundle == <<alone, onnx>>
cacheVars == <<bundle, diskVars, procVars>>

Inodes == 1..(2 + Cardinality(Processes))

\* A stretch of a file that nobody has written reads as zeroes.
Hole == [version |-> 0, by |-> None]
Plan(p) == [k \in 1..Chunks |-> [version |-> onnx.version, by |-> p]]

Loading(p) == place[p] \notin {"out", "loaded", "failed"}

CacheInit ==
  /\ alone \in BOOLEAN
  /\ onnx \in [version : {1}, parses : BOOLEAN]
  /\ entry = [engine |-> None, tmp |-> None]
  /\ file = [i \in Inodes |-> [data |-> <<>>, time |-> 0]]
  /\ place = [p \in Processes |-> "out"]
  /\ open = [p \in Processes |-> None]
  /\ count = [p \in Processes |-> 0]
  /\ engine = [p \in Processes |-> <<>>]

-----------------------------------------------------------------------------
Goto(p, label) == place' = [place EXCEPT ![p] = label]
SetCount(p, n) == count' = [count EXCEPT ![p] = n]
Close(p) ==
  /\ open' = [open EXCEPT ![p] = None]
  /\ count' = [count EXCEPT ![p] = 0]

\* The bundle is replaced between loads; the new file is the youngest of all.
ReplaceOnnx ==
  /\ \A p \in Processes : ~Loading(p)
  /\ onnx.version < MaxVersion
  /\ onnx' \in [version : {onnx.version + 1}, parses : BOOLEAN]
  /\ UNCHANGED <<alone, diskVars, procVars>>

\* A process starts and calls load(): the backend holds no engine yet.
Start(p) ==
  /\ ~Loading(p)
  /\ alone => \A q \in Processes : ~Loading(q)
  /\ Goto(p, "check")
  /\ engine' = [engine EXCEPT ![p] = <<>>]
  /\ UNCHANGED <<bundle, diskVars, open, count>>

\* Mutant: any cached file will do.
CheckExistsOnly(p) ==
  /\ place[p] = "check"
  /\ Goto(p, IF entry.engine # None THEN "open" ELSE "build")
  /\ UNCHANGED <<bundle, diskVars, open, count, engine>>

\* cache_is_current: a regular file that is not older than the ONNX file.
CheckCache(p) ==
  /\ place[p] = "check"
  /\ LET current == entry.engine # None /\ file[entry.engine].time >= onnx.version
     IN Goto(p, IF current THEN "open" ELSE "build")
  /\ UNCHANGED <<bundle, diskVars, open, count, engine>>

\* deserialize_engine opens the file and takes its length.
OpenCached(p) ==
  /\ place[p] = "open"
  /\ LET i == entry.engine
     IN IF i # None /\ file[i].data # <<>>
        THEN /\ Goto(p, "read")
             /\ open' = [open EXCEPT ![p] = i]
             /\ SetCount(p, Len(file[i].data))
        ELSE Goto(p, "build") /\ UNCHANGED <<open, count>>
  /\ UNCHANGED <<bundle, diskVars, engine>>

\* The runtime accepts a plan of full length without holes and no other.
Deserializes(data) == Len(data) = Chunks /\ \A k \in 1..Chunks : data[k] # Hole

\* Mutant: a cached file that cannot be used ends the load.
ReadCachedOrThrow(p) ==
  /\ place[p] = "read"
  /\ LET data == file[open[p]].data
     IN IF Len(data) >= count[p] /\ Deserializes(SubSeq(data, 1, count[p]))
        THEN /\ engine' = [engine EXCEPT ![p] = data]
             /\ Goto(p, "loaded")
        ELSE engine' = engine /\ Goto(p, "failed")
  /\ Close(p)
  /\ UNCHANGED <<bundle, diskVars>>

\* It reads that many bytes of whatever the file holds by now.
ReadCached(p) ==
  /\ place[p] = "read"
  /\ LET data == file[open[p]].data
     IN IF Len(data) >= count[p] /\ Deserializes(SubSeq(data, 1, count[p]))
        THEN /\ engine' = [engine EXCEPT ![p] = data]
             /\ Goto(p, "loaded")
        ELSE engine' = engine /\ Goto(p, "build")
  /\ Close(p)
  /\ UNCHANGED <<bundle, diskVars>>

\* build_engine, and the deserialization of the plan it returns.
Build(p) ==
  /\ place[p] = "build"
  /\ IF onnx.parses
     THEN Goto(p, "create") /\ engine' = [engine EXCEPT ![p] = Plan(p)]
     ELSE Goto(p, "failed") /\ engine' = engine
  /\ UNCHANGED <<bundle, diskVars, open, count>>

-----------------------------------------------------------------------------
(***************************************************************************)
(* save_engine.  Its errors are only logged: load() goes on.               *)
(***************************************************************************)
Unused == {i \in Inodes : i \notin {entry.engine, entry.tmp}
                          /\ \A q \in Processes : open[q] # i}

\* The temporary file is created, or truncated if there is one.
CreateTemporary(p) ==
  /\ place[p] = "create"
  /\ LET i == IF entry.tmp # None THEN entry.tmp
              ELSE CHOOSE j \in Unused : TRUE
     IN /\ entry' = [entry EXCEPT !.tmp = i]
        /\ file' = [file EXCEPT ![i] = [data |-> <<>>, time |-> onnx.version]]
        /\ open' = [open EXCEPT ![p] = i]
  /\ SetCount(p, 0)
  /\ Goto(p, "write")
  /\ UNCHANGED <<bundle, engine>>

\* The next piece goes where this process has got to in the file.
WritePiece(p) ==
  /\ place[p] = "write"
  /\ count[p] < Chunks
  /\ LET k == count[p] + 1
         old == file[open[p]].data
         length == IF Len(old) < k THEN k ELSE Len(old)
         padded == [j \in 1..length |-> IF j <= Len(old) THEN old[j] ELSE Hole]
     IN /\ file' = [file EXCEPT ![open[p]] =
                      [data |-> [padded EXCEPT ![k] = Plan(p)[k]],
                       time |-> onnx.version]]
        /\ SetCount(p, k)
  /\ UNCHANGED <<bundle, entry, place, open, engine>>

\* Mutant: the file is published before all of it is written.
CloseEarly(p) ==
  /\ place[p] = "write"
  /\ Close(p)
  /\ Goto(p, "remove")
  /\ UNCHANGED <<bundle, diskVars, engine>>

CloseTemporary(p) ==
  /\ place[p] = "write"
  /\ count[p] = Chunks
  /\ Close(p)
  /\ Goto(p, "remove")
  /\ UNCHANGED <<bundle, diskVars, engine>>

\* The directory cannot be written, or the disk is full.
SaveFails(p) ==
  /\ place[p] \in {"create", "write"}
  /\ Close(p)
  /\ Goto(p, "loaded")
  /\ UNCHANGED <<bundle, diskVars, engine>>

RemoveCached(p) ==
  /\ place[p] = "remove"
  /\ entry' = [entry EXCEPT !.engine = None]
  /\ Goto(p, "rename")
  /\ UNCHANGED <<bundle, file, open, count, engine>>

\* Another process may have renamed the temporary file away: a warning.
Rename(p) ==
  /\ place[p] = "rename"
  /\ entry' = IF entry.tmp = None THEN entry
              ELSE [engine |-> entry.tmp, tmp |-> None]
  /\ Goto(p, "loaded")
  /\ UNCHANGED <<bundle, file, open, count, engine>>

\* The process is killed: its descriptors are gone, the files stay.
Kill(p) ==
  /\ Loading(p)
  /\ Close(p)
  /\ Goto(p, "out")
  /\ engine' = [engine EXCEPT ![p] = <<>>]
  /\ UNCHANGED <<bundle, diskVars>>

Load(p) ==
  \/ Start(p) \/ CheckCache(p) \/ OpenCached(p) \/ ReadCached(p) \/ Build(p)
  \/ CreateTemporary(p) \/ WritePiece(p) \/ CloseTemporary(p) \/ SaveFails(p)
  \/ RemoveCached(p) \/ Rename(p)

CacheNext == ReplaceOnnx \/ \E p \in Processes : Load(p) \/ Kill(p)

CacheSpec == CacheInit /\ [][CacheNext]_cacheVars

-----------------------------------------------------------------------------
(***************************************************************************)
(* backend.cpp:170-180, 390-401: the engine a load ends with was built     *)
(* from the ONNX file as it was during that load, even when two processes  *)
(* wrote to the same file or one was killed with an older engine half      *)
(* saved.  A later replacement makes it old again.                         *)
(***************************************************************************)
EngineIsCurrent ==
  [][\A p \in Processes :
       Loading(p) /\ place'[p] = "loaded" =>
         /\ Len(engine'[p]) = Chunks
         /\ \A k \in 1..Chunks : engine'[p][k].version = onnx.version]_cacheVars

(***************************************************************************)
(* backend.cpp:403-422, 458-480: the cache only ever saves time.  Whatever *)
(* it holds, a load fails for an ONNX file that cannot be built and for no *)
(* other reason.                                                           *)
(***************************************************************************)
OnlyBuildsFail ==
  [][\A p \in Processes : Loading(p) /\ place'[p] = "failed" => ~onnx.parses]_cacheVars

(***************************************************************************)
(* backend.cpp:463-474: when processes take turns, killed wherever they    *)
(* may be, what is published under the engine's name is one whole plan.    *)
(* (Two at a time may publish a mixture, or a file the other has just      *)
(* truncated, which the next load then refuses.)                           *)
(***************************************************************************)
PublishedIsWhole ==
  alone /\ entry.engine # None =>
    LET data == file[entry.engine].data
    IN /\ Len(data) = Chunks
       /\ \A k \in 1..Chunks : data[k] = data[1] /\ data[k] # Hole
=============================================================================
