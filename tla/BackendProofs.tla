---------------------------- MODULE BackendProofs ----------------------------
(***************************************************************************)
(* The backends. TensorRT: the cache of a serialized engine, for every     *)
(* number of processes, engine size and number of replacements of the ONNX *)
(* file; and the exchange of two allocations, which keeps the recurrent    *)
(* state every backend promises for any inputs, any number of runs and any *)
(* delay of the stream. ONNX Runtime and LibTorch: the handle that names   *)
(* the feature keeps it too. And for all backends, the routing of the      *)
(* tensors: whatever graph a bundle holds, the feature comes back from     *)
(* where the binding says, and the documented graphs are always served.    *)
(*                                                                         *)
(* The four models do not interact: each theorem is about one of them      *)
(* (Spec is that of TensorRtState), whatever the variables of the others   *)
(* do.                                                                     *)
(***************************************************************************)
EXTENDS TensorRtState, HandleState, EngineCache, StateRouting,
        FiniteSetTheorems, TLAPS

-----------------------------------------------------------------------------
(***************************************************************************)
(* The engine cache.  The invariant says that no file mixes versions, that *)
(* what a process has open or is about to publish is as new as the ONNX    *)
(* file, whoever wrote it, and, for processes that take turns, that the    *)
(* temporary file holds exactly the pieces its writer has got to.          *)
(***************************************************************************)
Places ==
  {"out", "check", "open", "read", "build", "create", "write", "remove", "rename",
   "loaded", "failed"}

Piece == [version : Nat, by : Processes \cup {None}]
Files == [data : Seq(Piece), time : Nat]

CacheTypes ==
  /\ alone \in BOOLEAN
  /\ onnx \in [version : Nat, parses : BOOLEAN]
  /\ entry \in [engine : Inodes \cup {None}, tmp : Inodes \cup {None}]
  /\ file \in [Inodes -> Files]
  /\ place \in [Processes -> Places]
  /\ open \in [Processes -> Inodes \cup {None}]
  /\ count \in [Processes -> Nat]
  /\ engine \in [Processes -> Seq(Piece)]

\* A file never mixes versions: its pieces are of the ONNX file it is as old as.
OneVersion(i) ==
  /\ file[i].time <= onnx.version
  /\ Len(file[i].data) <= Chunks
  /\ \A k \in 1..Len(file[i].data) :
       file[i].data[k] = Hole \/ file[i].data[k].version = file[i].time

DiskInv ==
  /\ \A i \in Inodes : OneVersion(i)
  /\ alone /\ entry.engine # None => entry.engine # entry.tmp
  /\ PublishedIsWhole

OneAtATime == alone => \A p, q \in Processes : Loading(p) /\ Loading(q) => p = q

\* What a process has open, is about to open or to publish is as new as the
\* ONNX file, whoever wrote it.
Current(p) ==
  /\ open[p] # None <=> place[p] \in {"read", "write"}
  /\ open[p] # None => file[open[p]].time = onnx.version
  /\ place[p] = "open" /\ entry.engine # None => file[entry.engine].time = onnx.version
  /\ place[p] \in {"write", "remove", "rename"} /\ entry.tmp # None =>
       file[entry.tmp].time = onnx.version

Built(p) ==
  /\ place[p] = "write" => count[p] <= Chunks
  /\ place[p] \in {"create", "write", "remove", "rename"} =>
       /\ Len(engine[p]) = Chunks
       /\ \A k \in 1..Chunks : engine[p][k].version = onnx.version

Written(p, n) ==
  /\ entry.tmp # None
  /\ Len(file[entry.tmp].data) = n
  /\ \A k \in 1..n : file[entry.tmp].data[k] = Plan(p)[k]

\* Processes that take turns write a plan from its first piece to its last.
InTurn(p) ==
  alone =>
    /\ place[p] = "write" => open[p] = entry.tmp /\ Written(p, count[p])
    /\ place[p] \in {"remove", "rename"} => Written(p, Chunks)

ProcessInv(p) == Current(p) /\ Built(p) /\ InTurn(p)

\* CacheInv is inductive: it relates every process to the disk, not to each other.
CacheInv ==
  CacheTypes /\ DiskInv /\ OneAtATime /\ \A p \in Processes : ProcessInv(p)

-----------------------------------------------------------------------------
LEMMA CacheConstants ==
  /\ Chunks \in Nat /\ Chunks > 0 /\ None \notin Processes /\ None \notin Nat
  /\ \A i \in Inodes : i \in Nat /\ i # None
BY ProcessesAssumption, ChunksAssumption, VersionAssumption DEF Inodes

LEMMA UnusedInode ==
  ASSUME CacheTypes, entry.tmp = None
  PROVE  (CHOOSE j \in Unused : TRUE) \in Unused
<1> DEFINE opened == {open[q] : q \in Processes}
           used == opened \cup {entry.engine}
<1>1. IsFiniteSet(Processes) /\ Cardinality(Processes) \in Nat
  BY ProcessesAssumption, FS_CardinalityType
<1>2. open \in Surjection(Processes, opened)
  BY DEF CacheTypes, Surjection
<1>3. IsFiniteSet(opened) /\ Cardinality(opened) <= Cardinality(Processes)
  <2> HIDE DEF opened
  <2> QED BY <1>1, <1>2, FS_Surjection
<1>4. IsFiniteSet(used) /\ Cardinality(used) <= Cardinality(Processes) + 1
  <2>1. Cardinality(opened) \in Nat
    BY <1>3, FS_CardinalityType
  <2> HIDE DEF opened
  <2>2. /\ IsFiniteSet(used)
        /\ Cardinality(used) = IF entry.engine \in opened THEN Cardinality(opened)
                               ELSE Cardinality(opened) + 1
    BY <1>3, FS_AddElement
  <2> HIDE DEF used
  <2> QED BY <1>1, <1>3, <2>1, <2>2
<1>5. IsFiniteSet(Inodes) /\ Cardinality(Inodes) = Cardinality(Processes) + 2
  <2>1. 1 \in Int /\ 2 + Cardinality(Processes) \in Int /\ ~(1 > 2 + Cardinality(Processes))
    BY <1>1
  <2> QED BY <1>1, <2>1, FS_Interval DEF Inodes
<1>6. ASSUME Unused = {}
      PROVE  FALSE
  <2>1. Inodes \in SUBSET used
    BY <1>6, CacheConstants DEF Unused
  <2> HIDE DEF used
  <2>2. Cardinality(Inodes) <= Cardinality(used)
    BY <1>4, <2>1, FS_Subset
  <2>3. Cardinality(used) \in Nat
    BY <1>4, FS_CardinalityType
  <2> QED BY <1>1, <1>4, <1>5, <2>2, <2>3
<1> QED BY <1>6

LEMMA CacheInitInv == CacheInit => CacheInv
<1> SUFFICES ASSUME CacheInit PROVE CacheInv
  OBVIOUS
<1>1. \A i \in Inodes : file[i] = [data |-> <<>>, time |-> 0]
  BY DEF CacheInit
<1>2. CacheTypes
  <2>1. [data |-> <<>>, time |-> 0] \in Files
    BY DEF Files
  <2>2. file \in [Inodes -> Files] /\ engine \in [Processes -> Seq(Piece)]
    BY <2>1 DEF CacheInit
  <2> QED BY <2>2 DEF CacheInit, CacheTypes, Places
<1>3. \A i \in Inodes : OneVersion(i)
  BY <1>1, CacheConstants DEF CacheInit, OneVersion
<1> QED
  BY <1>2, <1>3 DEF CacheInit, CacheInv, DiskInv, OneAtATime, ProcessInv, Current, Built,
                    InTurn,
     PublishedIsWhole, Loading

-----------------------------------------------------------------------------
\* A step of process p during which the ONNX file stays: what it leaves of the
\* others' state, and that it makes no file and no entry older.
StepOf(p) ==
  /\ alone' = alone /\ onnx' = onnx
  /\ \A q \in Processes : q # p =>
       place'[q] = place[q] /\ open'[q] = open[q] /\ count'[q] = count[q] /\ engine'[q] = engine[q]
  /\ \A i \in Inodes : file'[i].time \in {file[i].time, onnx.version}
  /\ entry'.engine \in {None, entry.engine} \/ file'[entry'.engine].time = onnx.version
  /\ entry'.tmp \in {None, entry.tmp} \/ file'[entry'.tmp].time = onnx.version

\* The disk is changed by processes that are loading, and one that starts
\* waits for its turn.
MayStep(p) ==
  \/ Loading(p)
  \/ UNCHANGED diskVars /\ (alone => \A q \in Processes : ~Loading(q))

LEMMA OthersKeep ==
  ASSUME CacheInv, NEW p \in Processes, StepOf(p), MayStep(p),
         NEW q \in Processes, q # p
  PROVE  ProcessInv(q)'
<1>1. /\ alone' = alone /\ onnx' = onnx
      /\ place'[q] = place[q] /\ open'[q] = open[q] /\ count'[q] = count[q] /\ engine'[q] = engine[q]
      /\ Current(q) /\ Built(q) /\ InTurn(q)
      /\ open[q] \in Inodes \cup {None}
      /\ entry.engine \in Inodes \cup {None} /\ entry.tmp \in Inodes \cup {None}
  BY DEF StepOf, CacheInv, ProcessInv, CacheTypes
<1>2. Current(q)'
  BY <1>1 DEF Current, StepOf
<1>3. Built(q)'
  BY <1>1 DEF Built
<1>4. InTurn(q)'
  <2>1. CASE alone /\ Loading(p)
    <3>1. ~Loading(q)
      BY <2>1 DEF CacheInv, OneAtATime
    <3>2. place[q] \in {"out", "loaded", "failed"}
      BY <3>1 DEF Loading
    <3> QED BY <1>1, <3>2 DEF InTurn
  <2>2. CASE alone /\ \A r \in Processes : ~Loading(r)
    <3>1. place[q] \in {"out", "loaded", "failed"}
      BY <2>2 DEF Loading
    <3> QED BY <1>1, <3>1 DEF InTurn
  <2>3. CASE ~alone
    BY <1>1, <2>3 DEF InTurn
  <2> QED BY <2>1, <2>2, <2>3 DEF MayStep
<1> QED BY <1>2, <1>3, <1>4 DEF ProcessInv

LEMMA StepInv ==
  ASSUME CacheInv, NEW p \in Processes, StepOf(p), MayStep(p),
         CacheTypes', DiskInv', ProcessInv(p)'
  PROVE  CacheInv'
<1>1. \A q \in Processes : ProcessInv(q)'
  BY OthersKeep
<1>2. OneAtATime'
  <2>1. alone' = alone /\ \A q \in Processes : q # p => place'[q] = place[q]
    BY DEF StepOf
  <2>2. ASSUME alone, NEW q \in Processes, NEW r \in Processes, Loading(q)', Loading(r)', q # p
        PROVE  FALSE \/ q = r
    <3>1. Loading(q)
      BY <2>1, <2>2 DEF Loading
    <3>2. Loading(p) => FALSE
      BY <2>2, <3>1 DEF CacheInv, OneAtATime
    <3> QED BY <2>2, <3>1, <3>2 DEF MayStep
  <2> QED BY <2>1, <2>2 DEF OneAtATime
<1> QED BY <1>1, <1>2 DEF CacheInv

\* Steps that leave the disk as it is.
LEMMA DiskUnchanged ==
  ASSUME CacheInv, UNCHANGED <<bundle, diskVars>>
  PROVE  /\ DiskInv'
         /\ \A p \in Processes : \A n : Written(p, n)' <=> Written(p, n)
<1>1. alone' = alone /\ onnx' = onnx /\ entry' = entry /\ file' = file
  BY DEF bundle, diskVars
<1>2. ASSUME NEW p \in Processes, NEW n
      PROVE  Written(p, n)' <=> Written(p, n)
  BY <1>1 DEF Written, Plan
<1>3. \A i \in Inodes : OneVersion(i)'
  BY <1>1 DEF CacheInv, DiskInv, OneVersion
<1>4. PublishedIsWhole'
  BY <1>1 DEF CacheInv, DiskInv, PublishedIsWhole
<1>5. Inodes' = Inodes
  BY DEF Inodes
<1> QED BY <1>1, <1>2, <1>3, <1>4, <1>5 DEF CacheInv, DiskInv

LEMMA LocalTypes ==
  ASSUME CacheTypes, UNCHANGED <<bundle, diskVars>>, place' \in [Processes -> Places],
         open' \in [Processes -> Inodes \cup {None}], count' \in [Processes -> Nat],
         engine' \in [Processes -> Seq(Piece)]
  PROVE  CacheTypes'
BY DEF CacheTypes, bundle, diskVars, Inodes

LEMMA LocalStep ==
  ASSUME CacheInv, NEW p \in Processes, UNCHANGED <<bundle, diskVars>>,
         NEW l \in Places, place' = [place EXCEPT ![p] = l],
         NEW i \in Inodes \cup {None}, open' = [open EXCEPT ![p] = i],
         NEW n \in Nat, count' = [count EXCEPT ![p] = n],
         NEW e \in Seq(Piece), engine' = [engine EXCEPT ![p] = e],
         Loading(p) \/ (alone => \A q \in Processes : ~Loading(q)),
         Current(p)', Built(p)', InTurn(p)'
  PROVE  CacheInv'
<1>1. CacheTypes
  BY DEF CacheInv
<1>2. /\ place' \in [Processes -> Places] /\ open' \in [Processes -> Inodes \cup {None}]
      /\ count' \in [Processes -> Nat] /\ engine' \in [Processes -> Seq(Piece)]
  BY <1>1 DEF CacheTypes
<1>3. CacheTypes'
  BY <1>1, <1>2, LocalTypes
<1>4. StepOf(p)
  <2>1. \A q \in Processes : q # p =>
          place'[q] = place[q] /\ open'[q] = open[q] /\ count'[q] = count[q] /\ engine'[q] = engine[q]
    BY <1>1 DEF CacheTypes
  <2> QED BY <2>1 DEF StepOf, bundle, diskVars
<1>5. MayStep(p)
  BY DEF MayStep
<1> QED BY <1>3, <1>4, <1>5, StepInv, DiskUnchanged DEF ProcessInv

-----------------------------------------------------------------------------
LEMMA StartInv == ASSUME CacheInv, NEW p \in Processes, Start(p) PROVE CacheInv'
<1>1. CacheTypes /\ Current(p)
  BY DEF CacheInv, ProcessInv
<1>2. /\ place[p] \in {"out", "loaded", "failed"} /\ UNCHANGED <<bundle, diskVars, open, count>>
      /\ place' = [place EXCEPT ![p] = "check"] /\ engine' = [engine EXCEPT ![p] = <<>>]
      /\ alone => \A q \in Processes : ~Loading(q)
  BY DEF Start, Goto, Loading
<1>3. /\ open' = [open EXCEPT ![p] = open[p]] /\ count' = [count EXCEPT ![p] = count[p]]
      /\ open[p] \in Inodes \cup {None} /\ count[p] \in Nat /\ <<>> \in Seq(Piece)
      /\ "check" \in Places /\ place'[p] = "check"
  BY <1>1, <1>2 DEF CacheTypes, Places
<1>4. Current(p)' /\ Built(p)' /\ InTurn(p)'
  BY <1>1, <1>2, <1>3 DEF Current, Built, InTurn
<1> QED BY <1>2, <1>3, <1>4, LocalStep

LEMMA CheckInv == ASSUME CacheInv, NEW p \in Processes, CheckCache(p) PROVE CacheInv'
<1>1. CacheTypes /\ Current(p) /\ \A i \in Inodes : OneVersion(i)
  BY DEF CacheInv, ProcessInv, DiskInv
<1> DEFINE current == entry.engine # None /\ file[entry.engine].time >= onnx.version
           l == IF current THEN "open" ELSE "build"
<1>2. /\ place[p] = "check" /\ UNCHANGED <<bundle, diskVars, open, count, engine>>
      /\ place' = [place EXCEPT ![p] = l]
  BY DEF CheckCache, Goto
<1>3. /\ open' = [open EXCEPT ![p] = open[p]] /\ count' = [count EXCEPT ![p] = count[p]]
      /\ engine' = [engine EXCEPT ![p] = engine[p]]
      /\ open[p] \in Inodes \cup {None} /\ count[p] \in Nat /\ engine[p] \in Seq(Piece)
      /\ l \in Places /\ place'[p] = l
  BY <1>1, <1>2 DEF CacheTypes, Places
<1>4. current => file[entry.engine].time = onnx.version
  <2> SUFFICES ASSUME current PROVE file[entry.engine].time = onnx.version
    OBVIOUS
  <2>1. entry.engine \in Inodes
    BY <1>1 DEF CacheTypes
  <2>2. file[entry.engine].time \in Nat /\ onnx.version \in Nat
    BY <1>1, <2>1 DEF CacheTypes, Files
  <2>3. file[entry.engine].time <= onnx.version
    BY <1>1, <2>1 DEF OneVersion
  <2> QED BY <2>2, <2>3
<1>5. Current(p)'
  BY <1>1, <1>2, <1>3, <1>4 DEF Current, bundle, diskVars
<1>6. Built(p)' /\ InTurn(p)'
  BY <1>3 DEF Built, InTurn
<1>7. Loading(p)
  BY <1>2 DEF Loading
<1> HIDE DEF l
<1> QED BY <1>2, <1>3, <1>5, <1>6, <1>7, LocalStep

LEMMA OpenInv == ASSUME CacheInv, NEW p \in Processes, OpenCached(p) PROVE CacheInv'
<1>1. CacheTypes /\ Current(p) /\ \A i \in Inodes : i # None
  BY CacheConstants DEF CacheInv, ProcessInv
<1>2. /\ place[p] = "open" /\ UNCHANGED <<bundle, diskVars, engine>> /\ Loading(p)
      /\ open[p] = None
  BY <1>1 DEF OpenCached, Loading, Current
<1>3. /\ engine' = [engine EXCEPT ![p] = engine[p]] /\ engine[p] \in Seq(Piece)
      /\ open[p] \in Inodes \cup {None} /\ count[p] \in Nat
  BY <1>1, <1>2 DEF CacheTypes
<1>4. CASE entry.engine # None /\ file[entry.engine].data # <<>>
  <2> DEFINE n == Len(file[entry.engine].data)
  <2>1. /\ place' = [place EXCEPT ![p] = "read"] /\ open' = [open EXCEPT ![p] = entry.engine]
        /\ count' = [count EXCEPT ![p] = n]
    BY <1>4 DEF OpenCached, Goto, SetCount
  <2>2. entry.engine \in Inodes /\ n \in Nat /\ "read" \in Places
    BY <1>1, <1>4 DEF CacheTypes, Files, Places
  <2>3. place'[p] = "read" /\ open'[p] = entry.engine
    BY <1>1, <2>1 DEF CacheTypes
  <2>4. Current(p)'
    BY <1>1, <1>2, <1>4, <2>3 DEF Current, bundle, diskVars
  <2>5. Built(p)' /\ InTurn(p)'
    BY <2>3 DEF Built, InTurn
  <2> HIDE DEF n
  <2> QED BY <1>2, <1>3, <2>1, <2>2, <2>4, <2>5, LocalStep
<1>5. CASE ~(entry.engine # None /\ file[entry.engine].data # <<>>)
  <2>1. /\ place' = [place EXCEPT ![p] = "build"] /\ open' = open /\ count' = count
    BY <1>5 DEF OpenCached, Goto
  <2>2. /\ open' = [open EXCEPT ![p] = open[p]] /\ count' = [count EXCEPT ![p] = count[p]]
        /\ "build" \in Places /\ place'[p] = "build"
    BY <1>1, <2>1 DEF CacheTypes, Places
  <2>3. Current(p)' /\ Built(p)' /\ InTurn(p)'
    BY <1>2, <2>1, <2>2 DEF Current, Built, InTurn
  <2> QED BY <1>2, <1>3, <2>1, <2>2, <2>3, LocalStep
<1> QED BY <1>4, <1>5

\* A cached engine that the runtime accepts is of the version it is as old as.
LEMMA AcceptedIsCurrent ==
  ASSUME CacheInv, NEW p \in Processes, place[p] = "read",
         Len(file[open[p]].data) >= count[p],
         Deserializes(SubSeq(file[open[p]].data, 1, count[p]))
  PROVE  LET data == file[open[p]].data
         IN /\ data \in Seq(Piece) /\ Len(data) = Chunks
            /\ \A k \in 1..Chunks : data[k].version = onnx.version
<1> DEFINE data == file[open[p]].data
           n == count[p]
<1>1. CacheTypes /\ Current(p) /\ \A i \in Inodes : OneVersion(i)
  BY DEF CacheInv, ProcessInv, DiskInv
<1>2. open[p] \in Inodes /\ file[open[p]].time = onnx.version
  BY <1>1 DEF Current, CacheTypes
<1>3. /\ data \in Seq(Piece) /\ Len(data) \in Nat /\ n \in Nat /\ n <= Len(data)
      /\ Len(data) <= Chunks
      /\ \A k \in 1..Len(data) : data[k] = Hole \/ data[k].version = onnx.version
  BY <1>1, <1>2 DEF CacheTypes, Files, OneVersion
<1>4. Deserializes(SubSeq(data, 1, n))
  OBVIOUS
<1> HIDE DEF data, n
<1>5. /\ Len(SubSeq(data, 1, n)) = n
      /\ \A k \in 1..n : SubSeq(data, 1, n)[k] = data[k]
  BY <1>3
<1>6. n = Chunks /\ \A k \in 1..Chunks : data[k] # Hole
  BY <1>4, <1>5 DEF Deserializes
<1>7. Len(data) = Chunks
  BY <1>3, <1>6, CacheConstants
<1> QED BY <1>3, <1>6, <1>7 DEF data

LEMMA ReadInv == ASSUME CacheInv, NEW p \in Processes, ReadCached(p) PROVE CacheInv'
<1>1. CacheTypes
  BY DEF CacheInv
<1> DEFINE data == file[open[p]].data
<1>2. PICK e \in Seq(Piece), l \in {"loaded", "build"} :
        /\ place' = [place EXCEPT ![p] = l] /\ engine' = [engine EXCEPT ![p] = e]
  <2>1. CASE Len(data) >= count[p] /\ Deserializes(SubSeq(data, 1, count[p]))
    <3>1. data \in Seq(Piece)
      BY <2>1, AcceptedIsCurrent DEF ReadCached
    <3>2. place' = [place EXCEPT ![p] = "loaded"] /\ engine' = [engine EXCEPT ![p] = data]
      BY <2>1 DEF ReadCached, Goto
    <3> HIDE DEF data
    <3> QED BY <3>1, <3>2
  <2>2. CASE ~(Len(data) >= count[p] /\ Deserializes(SubSeq(data, 1, count[p])))
    <3>1. place' = [place EXCEPT ![p] = "build"] /\ engine' = engine
      BY <2>2 DEF ReadCached, Goto
    <3>2. engine' = [engine EXCEPT ![p] = engine[p]] /\ engine[p] \in Seq(Piece)
      BY <1>1, <3>1 DEF CacheTypes
    <3> QED BY <3>1, <3>2
  <2> QED BY <2>1, <2>2
<1>3. /\ open' = [open EXCEPT ![p] = None] /\ count' = [count EXCEPT ![p] = 0]
      /\ UNCHANGED <<bundle, diskVars>> /\ Loading(p) /\ l \in Places
  BY DEF ReadCached, Close, Loading, Places
<1>4. place'[p] = l /\ open'[p] = None
  BY <1>1, <1>2, <1>3 DEF CacheTypes
<1>5. Current(p)' /\ Built(p)' /\ InTurn(p)'
  BY <1>4 DEF Current, Built, InTurn
<1> QED BY <1>2, <1>3, <1>5, LocalStep

LEMMA PlanFacts ==
  ASSUME CacheTypes, NEW p \in Processes
  PROVE  /\ Plan(p) \in Seq(Piece) /\ Len(Plan(p)) = Chunks
         /\ \A k \in 1..Chunks : /\ Plan(p)[k] = [version |-> onnx.version, by |-> p]
                                 /\ Plan(p)[k].version = onnx.version
                                 /\ Plan(p)[k] \in Piece /\ Plan(p)[k] # Hole
<1>1. [version |-> onnx.version, by |-> p] \in Piece
  BY DEF CacheTypes, Piece
<1>2. [version |-> onnx.version, by |-> p] # Hole
  BY CacheConstants DEF Hole
<1> QED BY <1>1, <1>2, CacheConstants DEF Plan

LEMMA BuildInv == ASSUME CacheInv, NEW p \in Processes, Build(p) PROVE CacheInv'
<1>1. CacheTypes /\ Current(p)
  BY DEF CacheInv, ProcessInv
<1>2. /\ place[p] = "build" /\ UNCHANGED <<bundle, diskVars, open, count>> /\ Loading(p)
      /\ open[p] = None /\ onnx' = onnx
  BY <1>1 DEF Build, Loading, Current, bundle
<1>3. /\ open' = [open EXCEPT ![p] = open[p]] /\ count' = [count EXCEPT ![p] = count[p]]
      /\ open[p] \in Inodes \cup {None} /\ count[p] \in Nat
  BY <1>1, <1>2 DEF CacheTypes
<1>4. CASE onnx.parses
  <2>1. place' = [place EXCEPT ![p] = "create"] /\ engine' = [engine EXCEPT ![p] = Plan(p)]
    BY <1>4 DEF Build, Goto
  <2>2. place'[p] = "create" /\ engine'[p] = Plan(p) /\ "create" \in Places
    BY <1>1, <2>1 DEF CacheTypes, Places
  <2>3. Plan(p) \in Seq(Piece) /\ Built(p)'
    <3>1. /\ Plan(p) \in Seq(Piece) /\ Len(Plan(p)) = Chunks
          /\ \A k \in 1..Chunks : Plan(p)[k].version = onnx.version
      BY <1>1, PlanFacts
    <3>2. Built(p)'
      BY <1>2, <2>2, <3>1 DEF Built
    <3> QED BY <3>1, <3>2
  <2>4. Current(p)' /\ InTurn(p)'
    BY <1>2, <2>2 DEF Current, InTurn
  <2> QED BY <1>2, <1>3, <2>1, <2>2, <2>3, <2>4, LocalStep
<1>5. CASE ~onnx.parses
  <2>1. place' = [place EXCEPT ![p] = "failed"] /\ engine' = engine
    BY <1>5 DEF Build, Goto
  <2>2. /\ place'[p] = "failed" /\ engine' = [engine EXCEPT ![p] = engine[p]] /\ "failed" \in Places
        /\ engine[p] \in Seq(Piece)
    BY <1>1, <2>1 DEF CacheTypes, Places
  <2>3. Current(p)' /\ InTurn(p)' /\ Built(p)'
    BY <1>2, <2>2 DEF Current, InTurn, Built
  <2> QED BY <1>2, <1>3, <2>1, <2>2, <2>3, LocalStep
<1> QED BY <1>4, <1>5

LEMMA CloseInv == ASSUME CacheInv, NEW p \in Processes, CloseTemporary(p) PROVE CacheInv'
<1>1. CacheTypes /\ Current(p) /\ Built(p) /\ InTurn(p)
  BY DEF CacheInv, ProcessInv
<1>2. /\ place[p] = "write" /\ count[p] = Chunks /\ UNCHANGED <<bundle, diskVars, engine>>
      /\ place' = [place EXCEPT ![p] = "remove"] /\ open' = [open EXCEPT ![p] = None]
      /\ count' = [count EXCEPT ![p] = 0] /\ Loading(p) /\ "remove" \in Places
  BY DEF CloseTemporary, Goto, Close, Loading, Places
<1>3. /\ engine' = [engine EXCEPT ![p] = engine[p]] /\ engine[p] \in Seq(Piece)
      /\ place'[p] = "remove" /\ open'[p] = None /\ alone' = alone /\ onnx' = onnx
  BY <1>1, <1>2 DEF CacheTypes, bundle
<1>4. Current(p)'
  BY <1>1, <1>2, <1>3 DEF Current, diskVars
<1>5. Built(p)'
  BY <1>1, <1>2, <1>3 DEF Built
<1>6. InTurn(p)'
  BY <1>1, <1>2, <1>3, DiskUnchanged DEF InTurn
<1> QED BY <1>2, <1>3, <1>4, <1>5, <1>6, LocalStep

LEMMA SaveFailsInv == ASSUME CacheInv, NEW p \in Processes, SaveFails(p) PROVE CacheInv'
<1>1. CacheTypes
  BY DEF CacheInv
<1>2. /\ place[p] \in {"create", "write"} /\ UNCHANGED <<bundle, diskVars, engine>>
      /\ place' = [place EXCEPT ![p] = "loaded"] /\ open' = [open EXCEPT ![p] = None]
      /\ count' = [count EXCEPT ![p] = 0] /\ Loading(p) /\ "loaded" \in Places
  BY DEF SaveFails, Goto, Close, Loading, Places
<1>3. /\ engine' = [engine EXCEPT ![p] = engine[p]] /\ engine[p] \in Seq(Piece)
      /\ place'[p] = "loaded" /\ open'[p] = None
  BY <1>1, <1>2 DEF CacheTypes
<1>4. Current(p)' /\ Built(p)' /\ InTurn(p)'
  BY <1>3 DEF Current, Built, InTurn
<1> QED BY <1>2, <1>3, <1>4, LocalStep

LEMMA KillInv == ASSUME CacheInv, NEW p \in Processes, Kill(p) PROVE CacheInv'
<1>1. CacheTypes
  BY DEF CacheInv
<1>2. /\ UNCHANGED <<bundle, diskVars>> /\ Loading(p) /\ "out" \in Places
      /\ place' = [place EXCEPT ![p] = "out"] /\ open' = [open EXCEPT ![p] = None]
      /\ count' = [count EXCEPT ![p] = 0] /\ engine' = [engine EXCEPT ![p] = <<>>]
  BY DEF Kill, Goto, Close, Places
<1>3. place'[p] = "out" /\ open'[p] = None /\ <<>> \in Seq(Piece)
  BY <1>1, <1>2 DEF CacheTypes
<1>4. Current(p)' /\ Built(p)' /\ InTurn(p)'
  BY <1>3 DEF Current, Built, InTurn
<1> QED BY <1>2, <1>3, <1>4, LocalStep

-----------------------------------------------------------------------------
LEMMA CreateInv == ASSUME CacheInv, NEW p \in Processes, CreateTemporary(p) PROVE CacheInv'
<1>1. CacheTypes /\ Current(p) /\ Built(p) /\ DiskInv
  BY DEF CacheInv, ProcessInv
<1> DEFINE i == IF entry.tmp # None THEN entry.tmp ELSE CHOOSE j \in Unused : TRUE
           empty == [data |-> <<>>, time |-> onnx.version]
<1>2. /\ place[p] = "create" /\ alone' = alone /\ onnx' = onnx /\ engine' = engine
      /\ entry' = [entry EXCEPT !.tmp = i] /\ file' = [file EXCEPT ![i] = empty]
      /\ open' = [open EXCEPT ![p] = i] /\ count' = [count EXCEPT ![p] = 0]
      /\ place' = [place EXCEPT ![p] = "write"] /\ Loading(p)
  BY DEF CreateTemporary, bundle, Goto, SetCount, Loading
<1>3. i \in Inodes /\ i # None /\ (alone => i # entry.engine)
  <2>1. CASE entry.tmp # None
    BY <1>1, <2>1, CacheConstants DEF CacheTypes, DiskInv
  <2>2. CASE entry.tmp = None
    <3>1. i \in Unused
      BY <1>1, <2>2, UnusedInode
    <3> HIDE DEF i
    <3> QED BY <3>1, CacheConstants DEF Unused
  <2> QED BY <2>1, <2>2
<1>4. empty \in Files
  BY <1>1 DEF CacheTypes, Files
<1> HIDE DEF i
<1>5. /\ file' \in [Inodes -> Files] /\ file'[i] = empty
      /\ \A j \in Inodes : j # i => file'[j] = file[j]
  <2> HIDE DEF empty
  <2> QED BY <1>1, <1>2, <1>3, <1>4 DEF CacheTypes
<1>6. /\ entry' \in [engine : Inodes \cup {None}, tmp : Inodes \cup {None}]
      /\ entry'.engine = entry.engine /\ entry'.tmp = i
  BY <1>1, <1>2, <1>3 DEF CacheTypes
<1>7. /\ place' \in [Processes -> Places] /\ open' \in [Processes -> Inodes \cup {None}]
      /\ count' \in [Processes -> Nat]
      /\ place'[p] = "write" /\ open'[p] = i /\ count'[p] = 0 /\ engine'[p] = engine[p]
      /\ \A q \in Processes : q # p => place'[q] = place[q] /\ open'[q] = open[q] /\ count'[q] = count[q]
  BY <1>1, <1>2, <1>3 DEF CacheTypes, Places
<1>8. CacheTypes'
  BY <1>1, <1>2, <1>5, <1>6, <1>7 DEF CacheTypes, Inodes
<1>9. StepOf(p)
  <2>1. \A j \in Inodes : file'[j].time \in {file[j].time, onnx.version}
    BY <1>5
  <2>2. file'[entry'.tmp].time = onnx.version
    BY <1>5, <1>6
  <2> QED BY <1>2, <1>6, <1>7, <2>1, <2>2 DEF StepOf
<1>10. DiskInv'
  <2>1. ASSUME NEW j \in Inodes
        PROVE  OneVersion(j)'
    <3>1. CASE j = i
      <4>1. onnx.version \in Nat
        BY <1>1 DEF CacheTypes
      <4> QED BY <1>2, <1>5, <3>1, <4>1, CacheConstants DEF OneVersion
    <3>2. CASE j # i
      <4>1. OneVersion(j) /\ file'[j] = file[j]
        BY <1>1, <1>5, <3>2 DEF DiskInv
      <4> QED BY <1>2, <4>1 DEF OneVersion
    <3> QED BY <3>1, <3>2
  <2>2. ASSUME alone, entry.engine # None
        PROVE  entry.engine \in Inodes /\ entry.engine # i /\ file'[entry.engine] = file[entry.engine]
    BY <1>1, <1>3, <1>5, <2>2 DEF CacheTypes
  <2>3. (alone /\ entry.engine # None => entry.engine # entry.tmp)'
    BY <1>2, <1>6, <2>2
  <2>4. PublishedIsWhole'
    BY <1>1, <1>2, <1>6, <2>2 DEF DiskInv, PublishedIsWhole
  <2>5. Inodes' = Inodes
    BY DEF Inodes
  <2> QED BY <2>1, <2>3, <2>4, <2>5 DEF DiskInv
<1>11. Current(p)'
  BY <1>2, <1>3, <1>5, <1>6, <1>7 DEF Current
<1>12. Built(p)'
  BY <1>1, <1>2, <1>7, CacheConstants DEF Built
<1>13. InTurn(p)'
  <2>1. Written(p, 0)'
    BY <1>3, <1>5, <1>6 DEF Written
  <2>2. Written(p, count[p])'
    <3>1. entry'.tmp # None /\ Len(file'[entry'.tmp].data) = count'[p]
      BY <1>3, <1>5, <1>6, <1>7
    <3> QED BY <1>7, <3>1 DEF Written
  <2> QED BY <1>6, <1>7, <2>2 DEF InTurn
<1> QED BY <1>2, <1>8, <1>9, <1>10, <1>11, <1>12, <1>13, StepInv DEF MayStep, ProcessInv

LEMMA RemoveInv == ASSUME CacheInv, NEW p \in Processes, RemoveCached(p) PROVE CacheInv'
<1>1. CacheTypes /\ Current(p) /\ Built(p) /\ InTurn(p) /\ DiskInv
  BY DEF CacheInv, ProcessInv
<1>2. /\ place[p] = "remove" /\ alone' = alone /\ onnx' = onnx /\ engine' = engine
      /\ entry' = [entry EXCEPT !.engine = None] /\ file' = file
      /\ open' = open /\ count' = count
      /\ place' = [place EXCEPT ![p] = "rename"] /\ Loading(p)
  BY DEF RemoveCached, bundle, Goto, Loading
<1>3. /\ entry' \in [engine : Inodes \cup {None}, tmp : Inodes \cup {None}]
      /\ entry'.engine = None /\ entry'.tmp = entry.tmp
  BY <1>1, <1>2 DEF CacheTypes
<1>4. /\ place' \in [Processes -> Places] /\ place'[p] = "rename"
      /\ \A q \in Processes : q # p => place'[q] = place[q]
  BY <1>1, <1>2 DEF CacheTypes, Places
<1>5. CacheTypes'
  BY <1>1, <1>2, <1>3, <1>4 DEF CacheTypes, Inodes
<1>6. StepOf(p)
  BY <1>2, <1>3, <1>4 DEF StepOf
<1>7. DiskInv'
  <2>1. \A j \in Inodes : OneVersion(j)'
    BY <1>1, <1>2 DEF DiskInv, OneVersion
  <2> QED BY <1>3, <2>1 DEF DiskInv, PublishedIsWhole, Inodes
<1>8. Current(p)' /\ Built(p)'
  BY <1>1, <1>2, <1>3, <1>4 DEF Current, Built
<1>9. InTurn(p)'
  <2>1. Written(p, Chunks)' <=> Written(p, Chunks)
    BY <1>2, <1>3 DEF Written, Plan
  <2> QED BY <1>1, <1>2, <1>4, <2>1 DEF InTurn
<1> QED BY <1>2, <1>5, <1>6, <1>7, <1>8, <1>9, StepInv DEF MayStep, ProcessInv

LEMMA RenameInv == ASSUME CacheInv, NEW p \in Processes, Rename(p) PROVE CacheInv'
<1>1. CacheTypes /\ Current(p) /\ Built(p) /\ InTurn(p) /\ DiskInv
  BY DEF CacheInv, ProcessInv
<1>2. /\ place[p] = "rename" /\ alone' = alone /\ onnx' = onnx /\ engine' = engine
      /\ entry' = IF entry.tmp = None THEN entry ELSE [engine |-> entry.tmp, tmp |-> None]
      /\ file' = file /\ open' = open /\ count' = count
      /\ place' = [place EXCEPT ![p] = "loaded"] /\ Loading(p)
  BY DEF Rename, bundle, Goto, Loading
<1>3. /\ entry' \in [engine : Inodes \cup {None}, tmp : Inodes \cup {None}]
      /\ entry.tmp = None => entry' = entry
      /\ entry.tmp # None => entry'.engine = entry.tmp /\ entry'.tmp = None
  BY <1>1, <1>2 DEF CacheTypes
<1>4. /\ place' \in [Processes -> Places] /\ place'[p] = "loaded"
      /\ \A q \in Processes : q # p => place'[q] = place[q]
  BY <1>1, <1>2 DEF CacheTypes, Places
<1>5. CacheTypes'
  BY <1>1, <1>2, <1>3, <1>4 DEF CacheTypes, Inodes
<1>6. StepOf(p)
  <2>1. entry.tmp # None => file[entry.tmp].time = onnx.version
    BY <1>1, <1>2 DEF Current
  <2> QED BY <1>2, <1>3, <1>4, <2>1 DEF StepOf
<1>7. DiskInv'
  <2>1. \A j \in Inodes : OneVersion(j)'
    BY <1>1, <1>2 DEF DiskInv, OneVersion
  <2>2. CASE entry.tmp = None
    BY <1>1, <1>2, <1>3, <2>1, <2>2 DEF DiskInv, PublishedIsWhole, Inodes
  <2>3. CASE entry.tmp # None
    <3>1. PublishedIsWhole'
      <4> SUFFICES ASSUME alone
                   PROVE  LET data == file[entry.tmp].data
                          IN /\ Len(data) = Chunks
                             /\ \A k \in 1..Chunks : data[k] = data[1] /\ data[k] # Hole
        BY <1>2, <1>3, <2>3 DEF PublishedIsWhole
      <4>1. Written(p, Chunks)
        BY <1>1, <1>2 DEF InTurn
      <4>2. 1 \in 1..Chunks
        BY CacheConstants
      <4>3. \A k \in 1..Chunks : /\ file[entry.tmp].data[k] = [version |-> onnx.version, by |-> p]
                                 /\ file[entry.tmp].data[k] # Hole
        BY <1>1, <4>1, PlanFacts DEF Written
      <4> QED BY <4>1, <4>2, <4>3 DEF Written
    <3>2. (alone /\ entry.engine # None => entry.engine # entry.tmp)'
      BY <1>3, <2>3
    <3> QED BY <2>1, <3>1, <3>2 DEF DiskInv, Inodes
  <2> QED BY <2>2, <2>3
<1>8. Current(p)' /\ Built(p)' /\ InTurn(p)'
  BY <1>1, <1>2, <1>4 DEF Current, Built, InTurn
<1> QED BY <1>2, <1>5, <1>6, <1>7, <1>8, StepInv DEF MayStep, ProcessInv

\* The file behind p's descriptor after its next piece.
LEMMA PieceWritten ==
  ASSUME CacheInv, NEW p \in Processes, WritePiece(p)
  PROVE  LET i == open[p]
             k == count[p] + 1
             old == file[i].data
         IN /\ i \in Inodes /\ k \in 1..Chunks
            /\ file' \in [Inodes -> Files]
            /\ file'[i].time = onnx.version /\ file[i].time = onnx.version
            /\ \A j \in Inodes : j # i => file'[j] = file[j]
            /\ Len(file'[i].data) = IF Len(old) < k THEN k ELSE Len(old)
            /\ Len(file'[i].data) <= Chunks
            /\ \A j \in 1..Len(file'[i].data) :
                 file'[i].data[j] = IF j = k THEN Plan(p)[k]
                                    ELSE IF j <= Len(old) THEN old[j] ELSE Hole
<1>1. CacheTypes /\ Current(p) /\ Built(p)
  BY DEF CacheInv, ProcessInv
<1> DEFINE i == open[p]
           k == count[p] + 1
           old == file[i].data
           length == IF Len(old) < k THEN k ELSE Len(old)
           padded == [j \in 1..length |-> IF j <= Len(old) THEN old[j] ELSE Hole]
           new == [padded EXCEPT ![k] = Plan(p)[k]]
<1>2. /\ place[p] = "write" /\ count[p] < Chunks
      /\ file' = [file EXCEPT ![i] = [data |-> new, time |-> onnx.version]]
  BY DEF WritePiece
<1>3. i \in Inodes /\ file[i].time = onnx.version
  BY <1>1, <1>2 DEF Current, CacheTypes
<1>4. /\ old \in Seq(Piece) /\ Len(old) <= Chunks /\ k \in Nat /\ k > 0 /\ k <= Chunks
      /\ onnx.version \in Nat
  <2>1. OneVersion(i) /\ file[i] \in Files /\ count[p] \in Nat
    BY <1>1, <1>3 DEF CacheInv, DiskInv, CacheTypes
  <2>2. Len(old) <= Chunks /\ old \in Seq(Piece)
    BY <2>1 DEF OneVersion, Files
  <2>3. k \in Nat /\ k > 0 /\ k <= Chunks
    BY <1>2, <2>1, CacheConstants
  <2> QED BY <1>1, <2>2, <2>3 DEF CacheTypes
<1>5. Plan(p)[k] \in Piece /\ Hole \in Piece
  <2>1. k \in 1..Chunks
    BY <1>4, CacheConstants
  <2> HIDE DEF k
  <2> QED BY <1>1, <2>1, PlanFacts DEF Hole, Piece
<1> HIDE DEF old, k
<1>6. length \in Nat /\ length <= Chunks /\ k \in 1..length /\ Len(old) \in Nat
  BY <1>4, CacheConstants
<1> HIDE DEF length
<1>7. /\ new \in [1..length -> Piece]
      /\ \A j \in 1..length :
           new[j] = IF j = k THEN Plan(p)[k] ELSE IF j <= Len(old) THEN old[j] ELSE Hole
  <2>1. \A j \in 1..length : (IF j <= Len(old) THEN old[j] ELSE Hole) \in Piece
    BY <1>4, <1>5, <1>6
  <2>2. padded \in [1..length -> Piece]
    BY <2>1
  <2> QED BY <1>5, <1>6, <2>2
<1>8. new \in Seq(Piece) /\ Len(new) = length
  <2> HIDE DEF new
  <2> QED BY <1>6, <1>7
<1> HIDE DEF new
<1>9. [data |-> new, time |-> onnx.version] \in Files
  BY <1>4, <1>8 DEF Files
<1>10. /\ file' \in [Inodes -> Files]
       /\ file'[i] = [data |-> new, time |-> onnx.version]
       /\ \A j \in Inodes : j # i => file'[j] = file[j]
  <2> DEFINE c == [data |-> new, time |-> onnx.version]
  <2>1. c \in Files /\ file' = [file EXCEPT ![i] = c]
    BY <1>2, <1>9
  <2> HIDE DEF c, i
  <2>2. /\ file' \in [Inodes -> Files] /\ file'[i] = c
        /\ \A j \in Inodes : j # i => file'[j] = file[j]
    BY <1>1, <1>3, <2>1 DEF CacheTypes
  <2> QED BY <2>2 DEF c
<1>11. file'[i].data = new /\ file'[i].time = onnx.version
  BY <1>10
<1>12. k \in 1..Chunks
  BY <1>4, CacheConstants
<1> QED
  BY <1>3, <1>6, <1>7, <1>8, <1>10, <1>11, <1>12 DEF k, old, length

LEMMA WriteInv == ASSUME CacheInv, NEW p \in Processes, WritePiece(p) PROVE CacheInv'
<1>1. CacheTypes /\ Current(p) /\ Built(p) /\ InTurn(p) /\ DiskInv
  BY DEF CacheInv, ProcessInv
<1> DEFINE i == open[p]
           k == count[p] + 1
           old == file[i].data
<1>2. /\ place[p] = "write" /\ alone' = alone /\ onnx' = onnx /\ engine' = engine
      /\ entry' = entry /\ open' = open /\ place' = place /\ count' = [count EXCEPT ![p] = k]
      /\ Loading(p)
  BY DEF WritePiece, bundle, SetCount, Loading
<1>3. /\ i \in Inodes /\ k \in 1..Chunks
      /\ file' \in [Inodes -> Files]
      /\ file'[i].time = onnx.version /\ file[i].time = onnx.version
      /\ \A j \in Inodes : j # i => file'[j] = file[j]
      /\ Len(file'[i].data) = IF Len(old) < k THEN k ELSE Len(old)
      /\ Len(file'[i].data) <= Chunks
      /\ \A j \in 1..Len(file'[i].data) :
           file'[i].data[j] = IF j = k THEN Plan(p)[k]
                              ELSE IF j <= Len(old) THEN old[j] ELSE Hole
  BY PieceWritten
<1>4. /\ count' \in [Processes -> Nat] /\ count'[p] = k
      /\ \A q \in Processes : q # p => count'[q] = count[q]
  BY <1>1, <1>2, <1>3 DEF CacheTypes
<1>5. CacheTypes'
  BY <1>1, <1>2, <1>3, <1>4 DEF CacheTypes, Inodes
<1>6. \A j \in Inodes : file'[j].time \in {file[j].time, onnx.version}
  BY <1>3
<1>7. StepOf(p)
  BY <1>2, <1>4, <1>6 DEF StepOf
<1>8. DiskInv'
  <2>1. ASSUME NEW j \in Inodes
        PROVE  OneVersion(j)'
    <3>1. OneVersion(j)
      BY <1>1 DEF DiskInv
    <3>2. CASE j # i
      <4>1. file'[j] = file[j]
        BY <1>3, <3>2
      <4> QED BY <1>2, <3>1, <4>1 DEF OneVersion
    <3>3. CASE j = i
      <4>1. \A m \in 1..Len(old) : old[m] = Hole \/ old[m].version = onnx.version
        BY <1>3, <3>1, <3>3 DEF OneVersion
      <4>2. Plan(p)[k].version = onnx.version /\ onnx.version \in Nat /\ Len(old) \in Nat
        <5>1. Len(old) \in Nat
          BY <1>1, <1>3 DEF CacheTypes, Files
        <5> HIDE DEF k, old
        <5> QED BY <1>1, <1>3, <5>1, PlanFacts DEF CacheTypes
      <4>3. \A m \in 1..Len(file'[i].data) :
              file'[i].data[m] = Hole \/ file'[i].data[m].version = onnx.version
        <5> HIDE DEF k, old
        <5> QED BY <1>3, <4>1, <4>2
      <4> HIDE DEF i
      <4> QED BY <1>2, <1>3, <3>3, <4>2, <4>3 DEF OneVersion
    <3> QED BY <3>2, <3>3
  <2>2. alone /\ entry.engine # None =>
          entry.engine \in Inodes /\ file'[entry.engine] = file[entry.engine]
    <3> SUFFICES ASSUME alone, entry.engine # None
                 PROVE  entry.engine \in Inodes /\ entry.engine # i
      BY <1>3
    <3> QED BY <1>1, <1>2 DEF InTurn, DiskInv, CacheTypes
  <2>3. PublishedIsWhole'
    BY <1>1, <1>2, <2>2 DEF DiskInv, PublishedIsWhole
  <2> QED BY <1>1, <1>2, <2>1, <2>3 DEF DiskInv, Inodes
<1>9. Current(p)'
  <2>1. entry.tmp \in Inodes \cup {None}
    BY <1>1 DEF CacheTypes
  <2>2. entry.tmp # None => file'[entry.tmp].time = onnx.version
    BY <1>1, <1>2, <1>3, <2>1 DEF Current
  <2> QED BY <1>1, <1>2, <1>3, <2>2 DEF Current
<1>10. Built(p)'
  <2>1. k <= Chunks
    BY <1>3, CacheConstants
  <2> QED BY <1>1, <1>2, <1>4, <2>1 DEF Built
<1>11. InTurn(p)'
  <2> SUFFICES ASSUME alone PROVE open[p] = entry.tmp /\ Written(p, count[p])'
    BY <1>2 DEF InTurn
  <2>1. open[p] = entry.tmp /\ Written(p, count[p])
    BY <1>1, <1>2 DEF InTurn
  <2>2. /\ entry.tmp = i /\ i # None /\ Len(old) = count[p] /\ count[p] \in Nat
        /\ \A j \in 1..count[p] : old[j] = Plan(p)[j]
    BY <1>1, <1>3, <2>1, CacheConstants DEF Written, CacheTypes
  <2>3. Len(file'[i].data) = k
    BY <1>3, <2>2
  <2>4. \A j \in 1..k : file'[i].data[j] = Plan(p)[j]
    <3>1. \A j \in 1..k : j = k \/ (j \in 1..count[p] /\ j <= Len(old))
      BY <2>2
    <3> HIDE DEF i, old, k
    <3> QED BY <1>3, <2>2, <2>3, <3>1
  <2>5. Plan(p)' = Plan(p)
    BY <1>2 DEF Plan
  <2> QED BY <1>2, <1>4, <2>1, <2>2, <2>3, <2>4, <2>5 DEF Written
<1> QED BY <1>2, <1>5, <1>7, <1>8, <1>9, <1>10, <1>11, StepInv DEF MayStep, ProcessInv

LEMMA ReplaceInv == ASSUME CacheInv, ReplaceOnnx PROVE CacheInv'
<1>1. /\ \A p \in Processes : place[p] \in {"out", "loaded", "failed"}
      /\ alone' = alone /\ entry' = entry /\ file' = file
      /\ place' = place /\ open' = open /\ count' = count /\ engine' = engine
      /\ onnx' \in [version : {onnx.version + 1}, parses : BOOLEAN]
  BY DEF ReplaceOnnx, Loading, diskVars, procVars
<1>2. CacheTypes /\ DiskInv /\ \A p \in Processes : open[p] = None
  BY <1>1 DEF CacheInv, ProcessInv, Current
<1>3. onnx.version \in Nat /\ onnx' \in [version : Nat, parses : BOOLEAN]
      /\ onnx'.version = onnx.version + 1
  BY <1>1, <1>2 DEF CacheTypes
<1>4. CacheTypes'
  BY <1>1, <1>2, <1>3 DEF CacheTypes, Inodes
<1>5. DiskInv'
  <2>1. ASSUME NEW i \in Inodes
        PROVE  OneVersion(i)'
    <3>1. OneVersion(i) /\ file[i].time \in Nat
      BY <1>2 DEF DiskInv, CacheTypes, Files
    <3> QED BY <1>1, <1>3, <3>1 DEF OneVersion
  <2> QED BY <1>1, <1>2, <2>1 DEF DiskInv, PublishedIsWhole, Inodes
<1>6. OneAtATime'
  BY <1>1 DEF OneAtATime, Loading
<1>7. ASSUME NEW p \in Processes
      PROVE  ProcessInv(p)'
  <2>1. place'[p] \in {"out", "loaded", "failed"} /\ open'[p] = None
    BY <1>1, <1>2
  <2> QED BY <2>1 DEF ProcessInv, Current, Built, InTurn
<1> QED BY <1>4, <1>5, <1>6, <1>7 DEF CacheInv

LEMMA CacheStutter == ASSUME CacheInv, UNCHANGED cacheVars PROVE CacheInv'
<1>1. UNCHANGED <<bundle, diskVars>> /\ alone' = alone /\ onnx' = onnx /\ entry' = entry
      /\ file' = file /\ place' = place /\ open' = open /\ count' = count /\ engine' = engine
  BY DEF cacheVars, bundle, diskVars, procVars
<1>2. CacheTypes'
  BY <1>1 DEF CacheInv, CacheTypes, Inodes
<1>3. DiskInv' /\ \A p \in Processes : \A n : Written(p, n)' <=> Written(p, n)
  BY <1>1, DiskUnchanged
<1>4. OneAtATime'
  BY <1>1 DEF CacheInv, OneAtATime, Loading
<1>5. ASSUME NEW p \in Processes
      PROVE  ProcessInv(p)'
  <2>1. Current(p) /\ Built(p) /\ InTurn(p)
    BY DEF CacheInv, ProcessInv
  <2>2. Current(p)' /\ Built(p)'
    BY <1>1, <2>1 DEF Current, Built
  <2>3. InTurn(p)'
    BY <1>1, <1>3, <2>1 DEF InTurn
  <2> QED BY <2>2, <2>3 DEF ProcessInv
<1> QED BY <1>2, <1>3, <1>4, <1>5 DEF CacheInv

LEMMA CacheInductive == CacheSpec => []CacheInv
<1>1. ASSUME CacheInv, [CacheNext]_cacheVars PROVE CacheInv'
  <2>1. ASSUME NEW p \in Processes, Load(p)
        PROVE  CacheInv'
    BY <1>1, <2>1, StartInv, CheckInv, OpenInv, ReadInv, BuildInv, CreateInv, WriteInv,
       CloseInv, SaveFailsInv, RemoveInv, RenameInv DEF Load
  <2>2. ASSUME NEW p \in Processes, Kill(p)
        PROVE  CacheInv'
    BY <1>1, <2>2, KillInv
  <2> QED BY <1>1, <2>1, <2>2, ReplaceInv, CacheStutter DEF CacheNext
<1> QED BY CacheInitInv, <1>1, PTL DEF CacheSpec

(***************************************************************************)
(* backend.cpp:463-474: processes that take turns, killed at any step,     *)
(* never leave a part of a plan or a mixture of two under the engine's     *)
(* name, however many they are and however often the ONNX file is          *)
(* replaced.                                                               *)
(***************************************************************************)
THEOREM CacheIsWhole == CacheSpec => []PublishedIsWhole
<1>1. CacheInv => PublishedIsWhole
  BY DEF CacheInv, DiskInv
<1> QED BY <1>1, CacheInductive, PTL

\* How a load ends, and with what.
LEMMA EndsCurrent ==
  ASSUME CacheInv, [CacheNext]_cacheVars, NEW p \in Processes, Loading(p), place'[p] = "loaded"
  PROVE  /\ Len(engine'[p]) = Chunks
         /\ \A k \in 1..Chunks : engine'[p][k].version = onnx.version
<1>1. CacheTypes /\ Built(p)
  BY DEF CacheInv, ProcessInv
<1>2. place[p] # "loaded" /\ place \in [Processes -> Places]
  BY <1>1 DEF Loading, CacheTypes
<1>3. PICK q \in Processes : Load(q) \/ Kill(q)
  BY <1>2 DEF CacheNext, cacheVars, procVars, ReplaceOnnx
<1>4. PICK l : place' = [place EXCEPT ![q] = l] \/ place' = place
  BY <1>3 DEF Load, Start, CheckCache, OpenCached, ReadCached, Build, CreateTemporary,
              WritePiece,
     CloseTemporary, SaveFails, RemoveCached, Rename, Kill, Goto
<1>5. q = p
  BY <1>2, <1>4
<1>6. ReadCached(p) \/ SaveFails(p) \/ Rename(p)
  BY <1>2, <1>3, <1>5 DEF Load, Start, CheckCache, OpenCached, Build, CreateTemporary,
                          WritePiece,
     CloseTemporary, RemoveCached, Kill, Goto
<1>7. CASE ReadCached(p)
  <2> DEFINE data == file[open[p]].data
  <2>1. place[p] = "read" /\ Len(data) >= count[p] /\ Deserializes(SubSeq(data, 1, count[p]))
    BY <1>2, <1>7 DEF ReadCached, Goto
  <2>2. engine' = [engine EXCEPT ![p] = data]
    BY <1>7, <2>1 DEF ReadCached
  <2>3. engine'[p] = data
    BY <1>1, <2>2 DEF CacheTypes
  <2> QED BY <2>1, <2>3, AcceptedIsCurrent
<1>8. CASE SaveFails(p) \/ Rename(p)
  <2>1. engine' = engine /\ place[p] \in {"create", "write", "rename"}
    BY <1>8 DEF SaveFails, Rename
  <2> QED BY <1>1, <2>1 DEF Built
<1> QED BY <1>6, <1>7, <1>8

(***************************************************************************)
(* backend.cpp:170-180, 390-401: even when processes load at the same      *)
(* time, write to one temporary file and are killed with older engines     *)
(* half saved, every load that succeeds ends with a whole engine built     *)
(* from the ONNX file of that moment.                                      *)
(***************************************************************************)
THEOREM LoadsAreCurrent == CacheSpec => EngineIsCurrent
<1> DEFINE Ends == \A p \in Processes :
             Loading(p) /\ place'[p] = "loaded" =>
               /\ Len(engine'[p]) = Chunks
               /\ \A k \in 1..Chunks : engine'[p][k].version = onnx.version
<1>1. CacheInv /\ [CacheNext]_cacheVars => Ends
  BY EndsCurrent
<1>2. CacheInv /\ [CacheNext]_cacheVars => [Ends]_cacheVars
  BY <1>1
<1> HIDE DEF Ends
<1>3. CacheSpec => [][Ends]_cacheVars
  BY <1>2, CacheInductive, PTL DEF CacheSpec
<1> QED BY <1>3 DEF EngineIsCurrent, Ends

\* A load fails in build_engine and nowhere else.
LEMMA EndsInBuild ==
  ASSUME CacheInv, [CacheNext]_cacheVars, NEW p \in Processes, Loading(p), place'[p] = "failed"
  PROVE  ~onnx.parses
<1>1. place[p] # "failed" /\ place \in [Processes -> Places]
  BY DEF CacheInv, CacheTypes, Loading
<1>2. PICK q \in Processes : Load(q) \/ Kill(q)
  BY <1>1 DEF CacheNext, cacheVars, procVars, ReplaceOnnx
<1>3. PICK l : place' = [place EXCEPT ![q] = l] \/ place' = place
  BY <1>2 DEF Load, Start, CheckCache, OpenCached, ReadCached, Build, CreateTemporary,
     WritePiece, CloseTemporary, SaveFails, RemoveCached, Rename, Kill, Goto
<1>4. q = p
  BY <1>1, <1>3
<1>5. Build(p)
  BY <1>1, <1>2, <1>4 DEF Load, Start, CheckCache, OpenCached, ReadCached, CreateTemporary,
     WritePiece, CloseTemporary, SaveFails, RemoveCached, Rename, Kill, Goto
<1> QED BY <1>1, <1>5 DEF Build, Goto

(***************************************************************************)
(* backend.cpp:403-422, 458-480: whatever the cache holds and whoever is   *)
(* killed, a load fails only for an ONNX file that cannot be built.        *)
(***************************************************************************)
THEOREM OnlyBadModelsFail == CacheSpec => OnlyBuildsFail
<1> DEFINE Ends == \A p \in Processes : Loading(p) /\ place'[p] = "failed" => ~onnx.parses
<1>1. CacheInv /\ [CacheNext]_cacheVars => [Ends]_cacheVars
  BY EndsInBuild
<1> HIDE DEF Ends
<1>2. CacheSpec => [][Ends]_cacheVars
  BY <1>1, CacheInductive, PTL DEF CacheSpec
<1> QED BY <1>2 DEF OnlyBuildsFail, Ends

-----------------------------------------------------------------------------
(***************************************************************************)
(* The TensorRT state.  The invariant says what is queued in each phase of *)
(* a run, in which order, and what is already in memory when something is  *)
(* not queued any more.                                                    *)
(***************************************************************************)
Has(name) == \E k \in 1..Len(stream) : stream[k].op = name

OnlyQueued(names) == \A k \in 1..Len(stream) : stream[k].op \in names

\* Resets come first, then the upload, the engine and the download of a run.
Precedes(a, b) ==
  \/ a = "memset"
  \/ a = "upload" /\ b \in {"engine", "download"}
  \/ a = "engine" /\ b = "download"

QueueOrdered ==
  \A j, k \in 1..Len(stream) : j < k => Precedes(stream[j].op, stream[k].op)

\* The allocations the run under way reads the feature from and writes it to.
source == IF pc = "swapped" THEN output ELSE input
target == IF pc = "swapped" THEN input ELSE output

QueueAddressed ==
  \A k \in 1..Len(stream) :
    /\ stream[k].op = "memset" => stream[k].at = source
    /\ stream[k].op = "engine" => stream[k].from = source /\ stream[k].to = target

QueueStaged ==
  /\ pc = "idle" => OnlyQueued({"memset"})
  /\ pc = "fed" => OnlyQueued({"memset", "upload"})
  /\ pc = "enqueued" => OnlyQueued({"memset", "upload", "engine"})

Running == pc \in {"fed", "enqueued", "downloading", "swapped"}

InputFed ==
  Running =>
    /\ initialized
    /\ x \in Inputs
    /\ host.x = x
    /\ ~Has("upload") => image.x = x

FeatureKept ==
  /\ Has("memset") => fed = <<>>
  /\ initialized /\ ~Has("memset") /\ (Has("engine") \/ pc \in {"idle", "fed"})
       => memory[source] = fed

FeatureMade ==
  pc \in {"enqueued", "downloading", "swapped"} /\ ~Has("engine") =>
    /\ memory[target] = Append(fed, x)
    /\ image.out = Append(fed, x)

ResultFetched ==
  pc \in {"downloading", "swapped"} /\ ~Has("download") =>
    host.out = Append(fed, x)

QueueInv == QueueOrdered /\ QueueAddressed /\ QueueStaged

Exchange ==
  /\ TypeOK
  /\ input # output
  /\ pc # "failed" => QueueInv /\ InputFed /\ FeatureKept /\ FeatureMade /\ ResultFetched

EngineApart ==
  \A k \in 1..Len(stream) :
    stream[k].op = "engine" => stream[k].from # stream[k].to

ExchangeInv == Exchange /\ EngineApart

-----------------------------------------------------------------------------
\* What the four kinds of operations look like.
LEMMA OperationCases ==
  ASSUME NEW o \in Operations
  PROVE  /\ o.op \in {"memset", "upload", "engine", "download"}
         /\ o.op = "memset" => o.at \in Allocations
         /\ o.op = "engine" => o.from \in Allocations /\ o.to \in Allocations
BY DEF Operations, Memset, Upload, Engine, Download

\* The operations the caller queues.
LEMMA OperationTypes ==
  ASSUME NEW a \in Allocations, NEW b \in Allocations
  PROVE  /\ Memset(a) \in Operations /\ Memset(a).op = "memset" /\ Memset(a).at = a
         /\ Upload \in Operations /\ Upload.op = "upload"
         /\ Engine(a, b) \in Operations /\ Engine(a, b).op = "engine"
         /\ Engine(a, b).from = a /\ Engine(a, b).to = b
         /\ Download \in Operations /\ Download.op = "download"
BY DEF Operations, Memset, Upload, Engine, Download

\* Queueing an operation behind the others.
LEMMA AppendFacts ==
  ASSUME NEW S, NEW q \in Seq(S), NEW e \in S
  PROVE  /\ Append(q, e) \in Seq(S)
         /\ Len(q) \in Nat
         /\ Len(Append(q, e)) = Len(q) + 1
         /\ \A k \in 1..Len(q) : Append(q, e)[k] = q[k]
         /\ Append(q, e)[Len(q) + 1] = e
OBVIOUS

\* Executing the oldest operation.
LEMMA TailFacts ==
  ASSUME NEW S, NEW q \in Seq(S), q # <<>>
  PROVE  /\ Tail(q) \in Seq(S)
         /\ Len(q) \in Nat \ {0}
         /\ Len(Tail(q)) = Len(q) - 1
         /\ \A k \in 1..Len(Tail(q)) : Tail(q)[k] = q[k + 1]
         /\ Head(q) = q[1]
         /\ Head(q) \in S
OBVIOUS

-----------------------------------------------------------------------------
LEMMA ExchangeInit == Init => ExchangeInv
<1>1. ASSUME Init PROVE ExchangeInv
  <2>1. /\ Len(stream) = 0
        /\ 1..Len(stream) = {}
    BY <1>1 DEF Init
  <2>a. <<Garbage>> \in History /\ Garbage \in Content
    BY DEF History, Content
  <2>b. stream \in Seq(Operations) /\ fed \in Seq(Inputs) /\ answer \in Seq(Inputs)
    BY <1>1 DEF Init
  <2>2. TypeOK
    BY <1>1, <2>a, <2>b DEF Init, TypeOK, Allocations
  <2>3. QueueInv /\ InputFed /\ FeatureKept /\ FeatureMade /\ ResultFetched
    BY <1>1, <2>1 DEF Init, QueueInv, QueueOrdered, QueueAddressed, QueueStaged,
      OnlyQueued, InputFed, Running, FeatureKept, Has, FeatureMade, ResultFetched
  <2>4. EngineApart /\ input # output
    BY <1>1, <2>1 DEF Init, EngineApart
  <2> QED BY <2>2, <2>3, <2>4 DEF ExchangeInv, Exchange
<1> QED BY <1>1

LEMMA ResetStep == ExchangeInv /\ ResetState => ExchangeInv'
<1> SUFFICES ASSUME ExchangeInv, ResetState PROVE ExchangeInv'
  OBVIOUS
<1> USE DEF ExchangeInv, Exchange
<1>1. /\ pc = "idle" /\ pc' = "idle" /\ fed' = <<>> /\ initialized'
      /\ stream' = Append(stream, Memset(input))
      /\ UNCHANGED <<x, answer, input, output, memory, image, host>>
  BY DEF ResetState, bufferVars, deviceVars
<1>2. /\ stream \in Seq(Operations) /\ input \in Allocations
      /\ Memset(input) \in Operations
      /\ Memset(input).op = "memset" /\ Memset(input).at = input
  BY OperationTypes DEF TypeOK
<1>3. /\ stream' \in Seq(Operations)
      /\ Len(stream) \in Nat
      /\ Len(stream') = Len(stream) + 1
      /\ \A k \in 1..Len(stream) : stream'[k] = stream[k]
      /\ stream'[Len(stream) + 1] = Memset(input)
  BY <1>1, <1>2, AppendFacts
<1>4. TypeOK'
  BY <1>1, <1>3 DEF TypeOK
<1>5. \A k \in 1..Len(stream') : stream'[k].op = "memset" /\ stream'[k].at = input
  BY <1>1, <1>2, <1>3 DEF QueueInv, QueueStaged, OnlyQueued, QueueAddressed, source
<1>6. QueueInv' /\ EngineApart'
  BY <1>1, <1>5 DEF QueueInv, QueueOrdered, Precedes, QueueAddressed, QueueStaged,
    OnlyQueued, EngineApart, source, target
<1>7. Has("memset")'
  BY <1>2, <1>3 DEF Has
<1>8. InputFed' /\ FeatureKept' /\ FeatureMade' /\ ResultFetched'
  BY <1>1, <1>7 DEF InputFed, Running, FeatureKept, FeatureMade, ResultFetched
<1> QED BY <1>1, <1>4, <1>6, <1>8

LEMMA FeedStep == ExchangeInv /\ Feed => ExchangeInv'
<1> SUFFICES ASSUME ExchangeInv, Feed PROVE ExchangeInv'
  OBVIOUS
<1> USE DEF ExchangeInv, Exchange
<1>1. /\ pc = "idle" /\ pc' = "fed" /\ x' \in Inputs /\ initialized
      /\ host' = [host EXCEPT !.x = x']
      /\ stream' = Append(stream, Upload)
      /\ UNCHANGED <<initialized, fed, answer, input, output, memory, image>>
  BY DEF Feed, bufferVars, deviceVars
<1>2. /\ stream \in Seq(Operations)
      /\ Upload \in Operations /\ Upload.op = "upload"
  BY OperationTypes DEF TypeOK
<1>3. /\ stream' \in Seq(Operations)
      /\ Len(stream) \in Nat
      /\ Len(stream') = Len(stream) + 1
      /\ \A k \in 1..Len(stream) : stream'[k] = stream[k]
      /\ stream'[Len(stream) + 1] = Upload
  BY <1>1, <1>2, AppendFacts
<1>4. TypeOK'
  BY <1>1, <1>3 DEF TypeOK, Content
<1>5. \A k \in 1..Len(stream) : stream[k].op = "memset"
  BY <1>1 DEF QueueInv, QueueStaged, OnlyQueued
<1>6. QueueInv' /\ EngineApart'
  <2>1. QueueOrdered'
    BY <1>2, <1>3, <1>5 DEF QueueOrdered, Precedes
  <2>2. QueueAddressed' /\ EngineApart'
    BY <1>1, <1>2, <1>3, <1>5 DEF QueueInv, QueueAddressed, EngineApart, source, target
  <2>3. QueueStaged'
    BY <1>1, <1>2, <1>3, <1>5 DEF QueueStaged, OnlyQueued
  <2> QED BY <2>1, <2>2, <2>3 DEF QueueInv
<1>7. Has("upload")' /\ (Has("memset")' <=> Has("memset"))
  BY <1>2, <1>3 DEF Has
<1>8. host'.x = x'
  BY <1>1 DEF TypeOK
<1>9. InputFed' /\ FeatureKept' /\ FeatureMade' /\ ResultFetched'
  BY <1>1, <1>7, <1>8 DEF InputFed, Running, FeatureKept, FeatureMade, ResultFetched,
    source
<1> QED BY <1>1, <1>4, <1>6, <1>9

LEMMA EnqueueStep == ExchangeInv /\ Enqueue => ExchangeInv'
<1> SUFFICES ASSUME ExchangeInv, Enqueue PROVE ExchangeInv'
  OBVIOUS
<1> USE DEF ExchangeInv, Exchange
<1>1. /\ pc = "fed" /\ pc' = "enqueued"
      /\ stream' = Append(stream, Engine(input, output))
      /\ UNCHANGED <<x, initialized, fed, answer, input, output, memory, image, host>>
  BY DEF Enqueue, callVars, bufferVars, deviceVars
<1> DEFINE e == Engine(input, output)
<1>2. /\ stream \in Seq(Operations)
      /\ e \in Operations /\ e.op = "engine" /\ e.from = input /\ e.to = output
  BY OperationTypes DEF TypeOK
<1> HIDE DEF e
<1>3. /\ stream' \in Seq(Operations)
      /\ Len(stream) \in Nat
      /\ Len(stream') = Len(stream) + 1
      /\ \A k \in 1..Len(stream) : stream'[k] = stream[k]
      /\ stream'[Len(stream) + 1] = e
  BY <1>1, <1>2, AppendFacts DEF e
<1>4. TypeOK'
  BY <1>1, <1>3 DEF TypeOK
<1>5. \A k \in 1..Len(stream) : stream[k].op \in {"memset", "upload"}
  BY <1>1 DEF QueueInv, QueueStaged, OnlyQueued
<1>6. QueueInv' /\ EngineApart'
  <2>1. QueueOrdered'
    BY <1>1, <1>2, <1>3, <1>5 DEF QueueInv, QueueOrdered, Precedes
  <2>2. QueueAddressed' /\ EngineApart'
    BY <1>1, <1>2, <1>3, <1>5 DEF QueueInv, QueueAddressed, EngineApart, source, target
  <2>3. QueueStaged'
    BY <1>1, <1>2, <1>3, <1>5 DEF QueueStaged, OnlyQueued
  <2> QED BY <2>1, <2>2, <2>3 DEF QueueInv
<1>7. /\ Has("engine")'
      /\ Has("memset")' <=> Has("memset")
      /\ Has("upload")' <=> Has("upload")
  BY <1>2, <1>3 DEF Has
<1>8. InputFed' /\ FeatureKept' /\ FeatureMade' /\ ResultFetched'
  BY <1>1, <1>7 DEF InputFed, Running, FeatureKept, FeatureMade, ResultFetched, source
<1> QED BY <1>1, <1>4, <1>6, <1>8

LEMMA QueueDownloadStep == ExchangeInv /\ QueueDownload => ExchangeInv'
<1> SUFFICES ASSUME ExchangeInv, QueueDownload PROVE ExchangeInv'
  OBVIOUS
<1> USE DEF ExchangeInv, Exchange
<1>1. /\ pc = "enqueued" /\ pc' = "downloading"
      /\ stream' = Append(stream, Download)
      /\ UNCHANGED <<x, initialized, fed, answer, input, output, memory, image, host>>
  BY DEF QueueDownload, callVars, bufferVars, deviceVars
<1>2. /\ stream \in Seq(Operations)
      /\ Download \in Operations /\ Download.op = "download"
  BY OperationTypes DEF TypeOK
<1>3. /\ stream' \in Seq(Operations)
      /\ Len(stream) \in Nat
      /\ Len(stream') = Len(stream) + 1
      /\ \A k \in 1..Len(stream) : stream'[k] = stream[k]
      /\ stream'[Len(stream) + 1] = Download
  BY <1>1, <1>2, AppendFacts
<1>4. TypeOK'
  BY <1>1, <1>3 DEF TypeOK
<1>5. \A k \in 1..Len(stream) : stream[k].op \in {"memset", "upload", "engine"}
  BY <1>1 DEF QueueInv, QueueStaged, OnlyQueued
<1>6. QueueInv' /\ EngineApart'
  <2>1. QueueOrdered'
    BY <1>1, <1>2, <1>3, <1>5 DEF QueueInv, QueueOrdered, Precedes
  <2>2. QueueAddressed' /\ EngineApart'
    BY <1>1, <1>2, <1>3, <1>5 DEF QueueInv, QueueAddressed, EngineApart, source, target
  <2>3. QueueStaged'
    BY <1>1 DEF QueueStaged
  <2> QED BY <2>1, <2>2, <2>3 DEF QueueInv
<1>7. /\ Has("download")'
      /\ Has("memset")' <=> Has("memset")
      /\ Has("upload")' <=> Has("upload")
      /\ Has("engine")' <=> Has("engine")
  BY <1>2, <1>3 DEF Has
<1>8. InputFed' /\ FeatureKept' /\ FeatureMade' /\ ResultFetched'
  BY <1>1, <1>7 DEF InputFed, Running, FeatureKept, FeatureMade, ResultFetched,
    source, target
<1> QED BY <1>1, <1>4, <1>6, <1>8

\* The roles of the two allocations are named by the phase: nothing moves.
LEMMA SwapStep == ExchangeInv /\ SwapState => ExchangeInv'
<1> SUFFICES ASSUME ExchangeInv, SwapState PROVE ExchangeInv'
  OBVIOUS
<1> USE DEF ExchangeInv, Exchange
<1>1. /\ pc = "downloading" /\ pc' = "swapped"
      /\ input' = output /\ output' = input
      /\ UNCHANGED <<x, initialized, fed, answer, stream, memory, image, host>>
  BY DEF SwapState, callVars, deviceVars
<1>2. source' = source /\ target' = target
  BY <1>1 DEF source, target
<1>3. TypeOK' /\ input' # output' /\ EngineApart'
  BY <1>1 DEF TypeOK, EngineApart
<1>4. QueueInv'
  BY <1>1, <1>2 DEF QueueInv, QueueOrdered, QueueAddressed, QueueStaged
<1>5. InputFed' /\ FeatureKept' /\ FeatureMade' /\ ResultFetched'
  BY <1>1, <1>2 DEF InputFed, Running, FeatureKept, FeatureMade, ResultFetched, Has
<1> QED BY <1>3, <1>4, <1>5

LEMMA ReturnStep == ExchangeInv /\ Return => ExchangeInv' /\ answer' = fed'
<1> SUFFICES ASSUME ExchangeInv, Return PROVE ExchangeInv' /\ answer' = fed'
  OBVIOUS
<1> USE DEF ExchangeInv, Exchange
<1>1. /\ pc = "swapped" /\ pc' = "idle" /\ stream = <<>>
      /\ fed' = Append(fed, x) /\ answer' = host.out
      /\ UNCHANGED <<x, initialized, input, output, stream, memory, image, host>>
  BY DEF Return, bufferVars, deviceVars
<1>2. 1..Len(stream) = {} /\ 1..Len(stream') = {}
  BY <1>1
<1>3. \A name : ~Has(name) /\ ~Has(name)'
  BY <1>2 DEF Has
<1>4. x \in Inputs /\ fed' \in Seq(Inputs)
  BY <1>1 DEF InputFed, Running, TypeOK
<1>5. answer' = fed'
  BY <1>1, <1>3 DEF ResultFetched
<1>6. TypeOK'
  BY <1>1, <1>4, <1>5 DEF TypeOK
<1>7. memory'[source'] = fed'
  BY <1>1, <1>3 DEF FeatureMade, source, target
<1>8. QueueInv' /\ EngineApart'
  BY <1>1, <1>2 DEF QueueInv, QueueOrdered, QueueAddressed, QueueStaged, OnlyQueued,
    EngineApart
<1>9. InputFed' /\ FeatureKept' /\ FeatureMade' /\ ResultFetched'
  BY <1>1, <1>3, <1>7 DEF InputFed, Running, FeatureKept, FeatureMade, ResultFetched
<1> QED BY <1>1, <1>5, <1>6, <1>8, <1>9

LEMMA ThrowStep == ExchangeInv /\ Throw => ExchangeInv'
BY DEF ExchangeInv, Exchange, Throw, TypeOK, EngineApart, callVars,
       bufferVars, deviceVars

-----------------------------------------------------------------------------
\* What every step of the device leaves alone, and what the queue keeps.
LEMMA DeviceQueue ==
  ASSUME ExchangeInv, NEW name, NextOperation(name)
  PROVE  /\ UNCHANGED <<pc, x, initialized, fed, answer, input, output>>
         /\ stream[1].op = name /\ Head(stream) = stream[1]
         /\ Head(stream) \in Operations
         /\ stream' \in Seq(Operations)
         /\ EngineApart'
         /\ 1 \in 1..Len(stream)
         /\ pc # "failed" =>
              /\ QueueInv'
              /\ \A other : other # name => (Has(other) <=> Has(other)')
              /\ \A k \in 1..Len(stream') : Precedes(name, stream'[k].op)
<1>1. /\ stream # <<>> /\ stream \in Seq(Operations)
      /\ Head(stream).op = name /\ stream' = Tail(stream)
      /\ UNCHANGED <<pc, x, initialized, fed, answer, input, output>>
  BY DEF ExchangeInv, Exchange, TypeOK, NextOperation, callVars,
         bufferVars
<1>2. /\ stream' \in Seq(Operations)
      /\ Len(stream) \in Nat \ {0}
      /\ Len(stream') = Len(stream) - 1
      /\ \A k \in 1..Len(stream') : stream'[k] = stream[k + 1]
      /\ Head(stream) = stream[1]
      /\ Head(stream) \in Operations
  BY <1>1, TailFacts
<1>3. EngineApart'
  BY <1>2 DEF ExchangeInv, EngineApart
<1>4. ASSUME pc # "failed"
      PROVE  /\ QueueInv'
             /\ \A other : other # name => (Has(other) <=> Has(other)')
             /\ \A k \in 1..Len(stream') : Precedes(name, stream'[k].op)
  <2>1. QueueInv
    BY <1>4 DEF ExchangeInv, Exchange
  <2>2. QueueOrdered'
    BY <1>2, <2>1 DEF QueueInv, QueueOrdered
  <2>3. QueueAddressed'
    BY <1>1, <1>2, <2>1 DEF QueueInv, QueueAddressed, source, target
  <2>4. QueueStaged'
    BY <1>1, <1>2, <2>1 DEF QueueInv, QueueStaged, OnlyQueued
  <2>5. ASSUME NEW other, other # name PROVE Has(other) <=> Has(other)'
    <3>1. Has(other)' => Has(other)
      BY <1>2 DEF Has
    <3>2. ASSUME NEW k \in 1..Len(stream), stream[k].op = other PROVE Has(other)'
      <4>1. k # 1 /\ k - 1 \in 1..Len(stream') /\ stream'[k - 1] = stream[k]
        BY <1>1, <1>2, <2>5, <3>2
      <4> QED BY <3>2, <4>1 DEF Has
    <3> QED BY <3>1, <3>2 DEF Has
  <2>6. \A k \in 1..Len(stream') : Precedes(name, stream'[k].op)
    BY <1>1, <1>2, <2>1 DEF QueueInv, QueueOrdered
  <2> QED BY <2>2, <2>3, <2>4, <2>5, <2>6 DEF QueueInv
<1> QED BY <1>1, <1>2, <1>3, <1>4

LEMMA MemsetStep == ExchangeInv /\ ExecuteMemset => ExchangeInv'
<1> SUFFICES ASSUME ExchangeInv, ExecuteMemset PROVE ExchangeInv'
  OBVIOUS
<1> USE DEF ExchangeInv, Exchange
<1>1. /\ NextOperation("memset")
      /\ memory' = [memory EXCEPT ![Head(stream).at] = <<>>]
      /\ UNCHANGED <<image, host>>
  BY DEF ExecuteMemset
<1>2. Head(stream).at \in Allocations
  BY <1>1, DeviceQueue, OperationCases
<1>3. TypeOK'
  BY <1>1, <1>2, DeviceQueue DEF TypeOK, History
<1>4. ASSUME pc # "failed"
      PROVE  InputFed' /\ FeatureKept' /\ FeatureMade' /\ ResultFetched'
  <2>1. Head(stream).at = source /\ Has("memset")
    BY <1>1, <1>4, DeviceQueue DEF QueueInv, QueueAddressed, Has
  <2>2. fed = <<>> /\ memory'[source] = fed
    BY <1>1, <1>2, <1>4, <2>1 DEF FeatureKept, TypeOK
  <2>3. source # target /\ memory'[target] = memory[target]
    BY <1>1, <1>2, <2>1 DEF source, target, TypeOK
  <2>4. /\ Has("upload")' <=> Has("upload")
        /\ Has("engine")' <=> Has("engine")
        /\ Has("download")' <=> Has("download")
    BY <1>1, <1>4, DeviceQueue
  <2>5. UNCHANGED <<pc, x, initialized, fed, input, output, source, target>>
    BY <1>1, DeviceQueue DEF source, target
  <2> QED BY <1>1, <1>4, <2>2, <2>3, <2>4, <2>5 DEF InputFed, Running, FeatureKept,
    FeatureMade, ResultFetched
<1> QED BY <1>1, <1>3, <1>4, DeviceQueue

LEMMA UploadStep == ExchangeInv /\ ExecuteUpload => ExchangeInv'
<1> SUFFICES ASSUME ExchangeInv, ExecuteUpload PROVE ExchangeInv'
  OBVIOUS
<1> USE DEF ExchangeInv, Exchange
<1>1. /\ NextOperation("upload")
      /\ image' = [image EXCEPT !.x = host.x]
      /\ UNCHANGED <<memory, host>>
  BY DEF ExecuteUpload
<1>2. TypeOK'
  BY <1>1, DeviceQueue DEF TypeOK
<1>3. ASSUME pc # "failed"
      PROVE  InputFed' /\ FeatureKept' /\ FeatureMade' /\ ResultFetched'
  <2>1. image'.x = host.x /\ image'.out = image.out
    BY <1>1 DEF TypeOK
  <2>2. /\ Has("memset")' <=> Has("memset")
        /\ Has("engine")' <=> Has("engine")
        /\ Has("download")' <=> Has("download")
    BY <1>1, <1>3, DeviceQueue
  <2>3. UNCHANGED <<pc, x, initialized, fed, input, output, source, target>>
    BY <1>1, DeviceQueue DEF source, target
  <2> QED BY <1>1, <1>3, <2>1, <2>2, <2>3 DEF InputFed, Running, FeatureKept,
    FeatureMade, ResultFetched
<1> QED BY <1>1, <1>2, <1>3, DeviceQueue

LEMMA EngineStep == ExchangeInv /\ ExecuteEngine => ExchangeInv'
<1> SUFFICES ASSUME ExchangeInv, ExecuteEngine PROVE ExchangeInv'
  OBVIOUS
<1> USE DEF ExchangeInv, Exchange
<1> DEFINE o == Head(stream)
           history == Append(memory[o.from], image.x)
<1>1. /\ NextOperation("engine")
      /\ memory' = [memory EXCEPT ![o.to] = history]
      /\ image' = [image EXCEPT !.out = history]
      /\ UNCHANGED host
  BY DEF ExecuteEngine
<1>2. o.from \in Allocations /\ o.to \in Allocations
  BY <1>1, DeviceQueue, OperationCases
<1>3. history \in History
  BY <1>2 DEF TypeOK, History
<1> HIDE DEF history
<1>4. TypeOK'
  BY <1>1, <1>2, <1>3, DeviceQueue DEF TypeOK
<1>5. image'.x = image.x /\ image'.out = history /\ memory'[o.to] = history
  BY <1>1, <1>2 DEF TypeOK
<1>6. ASSUME pc # "failed"
      PROVE  InputFed' /\ FeatureKept' /\ FeatureMade' /\ ResultFetched'
  <2>1. o.from = source /\ o.to = target /\ Has("engine")
    BY <1>1, <1>6, DeviceQueue DEF QueueInv, QueueAddressed, Has
  <2>2. /\ Has("memset")' <=> Has("memset")
        /\ Has("upload")' <=> Has("upload")
        /\ Has("download")' <=> Has("download")
        /\ \A k \in 1..Len(stream') : stream'[k].op = "download"
    BY <1>1, <1>6, DeviceQueue DEF Precedes
  <2>3. ~Has("memset")' /\ ~Has("upload")' /\ ~Has("engine")'
    BY <2>2 DEF Has
  <2>4. UNCHANGED <<pc, x, initialized, fed, input, output, source, target>>
    BY <1>1, DeviceQueue DEF source, target
  <2>5. pc \in {"enqueued", "downloading", "swapped"}
    BY <1>1, <1>6, DeviceQueue DEF QueueInv, QueueStaged, OnlyQueued, TypeOK
  <2>6. image.x = x /\ memory[source] = fed
    BY <1>6, <2>1, <2>2, <2>3, <2>5 DEF InputFed, Running, FeatureKept
  <2>7. history = Append(fed, x)
    BY <2>1, <2>6 DEF history
  <2>8. FeatureMade'
    BY <1>5, <2>1, <2>4, <2>7 DEF FeatureMade
  <2> QED BY <1>1, <1>5, <1>6, <2>2, <2>3, <2>4, <2>5, <2>8 DEF InputFed, Running,
    FeatureKept, ResultFetched
<1> QED BY <1>1, <1>4, <1>6, DeviceQueue

LEMMA DownloadStep == ExchangeInv /\ ExecuteDownload => ExchangeInv'
<1> SUFFICES ASSUME ExchangeInv, ExecuteDownload PROVE ExchangeInv'
  OBVIOUS
<1> USE DEF ExchangeInv, Exchange
<1>1. /\ NextOperation("download")
      /\ host' = [host EXCEPT !.out = image.out]
      /\ UNCHANGED <<memory, image>>
  BY DEF ExecuteDownload, deviceVars
<1>2. TypeOK'
  BY <1>1, DeviceQueue DEF TypeOK
<1>3. ASSUME pc # "failed"
      PROVE  InputFed' /\ FeatureKept' /\ FeatureMade' /\ ResultFetched'
  <2>1. host'.x = host.x /\ host'.out = image.out
    BY <1>1 DEF TypeOK
  <2>2. /\ Has("memset")' <=> Has("memset")
        /\ Has("upload")' <=> Has("upload")
        /\ Has("engine")' <=> Has("engine")
        /\ \A k \in 1..Len(stream') : FALSE
    BY <1>1, <1>3, DeviceQueue DEF Precedes
  <2>3. ~Has("engine")
    BY <2>2 DEF Has
  <2>4. UNCHANGED <<pc, x, initialized, fed, input, output, source, target>>
    BY <1>1, DeviceQueue DEF source, target
  <2> QED BY <1>1, <1>3, <2>1, <2>2, <2>3, <2>4 DEF InputFed, Running, FeatureKept,
    FeatureMade, ResultFetched
<1> QED BY <1>1, <1>2, <1>3, DeviceQueue

LEMMA ExchangeStep == ExchangeInv /\ [Next]_vars => ExchangeInv'
<1> SUFFICES ASSUME ExchangeInv, [Next]_vars PROVE ExchangeInv'
  OBVIOUS
<1>1. CASE Caller
  BY <1>1, ResetStep, FeedStep, EnqueueStep, QueueDownloadStep, SwapStep, ReturnStep,
    ThrowStep DEF Caller
<1>2. CASE Device
  BY <1>2, MemsetStep, UploadStep, EngineStep, DownloadStep DEF Device
<1>3. CASE UNCHANGED vars
  BY <1>3 DEF vars, callVars, bufferVars, deviceVars, ExchangeInv,
              Exchange, TypeOK, QueueInv,
    QueueOrdered, QueueAddressed, QueueStaged, OnlyQueued, InputFed, Running,
    FeatureKept, FeatureMade, ResultFetched, Has, EngineApart, source, target
<1> QED BY <1>1, <1>2, <1>3 DEF Next

LEMMA ExchangeInductive == Spec => []ExchangeInv
BY ExchangeInit, ExchangeStep, PTL DEF Spec

(***************************************************************************)
(* Every tensor run() answers is of its type: in particular made of inputs *)
(* alone, never of memory nobody had written.                              *)
(***************************************************************************)
THEOREM ExchangeTypeCorrect == Spec => []TypeOK
<1>1. ExchangeInv => TypeOK
  BY DEF ExchangeInv, Exchange
<1> QED BY <1>1, ExchangeInductive, PTL

(***************************************************************************)
(* Between two runs only memsets of resets are queued, so that the next    *)
(* run may write its pinned input buffers.                                 *)
(***************************************************************************)
THEOREM ExchangeWaitsForUploads == Spec => []HostBuffersFree
<1>1. ExchangeInv => HostBuffersFree
  BY DEF ExchangeInv, Exchange, QueueInv, QueueStaged, OnlyQueued, HostBuffersFree
<1> QED BY <1>1, ExchangeInductive, PTL

(***************************************************************************)
(* Between two runs the state input holds the feature of all runs since    *)
(* the last reset, or is about to be zeroed.                               *)
(***************************************************************************)
THEOREM ExchangeCarriesTheFeature == Spec => []FeatureCarried
<1>1. ASSUME ExchangeInv PROVE FeatureCarried
  <2>1. SUFFICES ASSUME pc = "idle", initialized
                 PROVE  IF stream = <<>> THEN memory[input] = fed
                        ELSE fed = <<>> /\ \E k \in 1..Len(stream) : stream[k] = Memset(input)
    BY DEF FeatureCarried
  <2>2. \A k \in 1..Len(stream) : stream[k].op = "memset" /\ stream[k].at = input
    BY <1>1, <2>1 DEF ExchangeInv, Exchange, QueueInv, QueueStaged, OnlyQueued,
                      QueueAddressed, source
  <2>3. CASE stream = <<>>
    <3>1. ~Has("memset")
      BY <2>3 DEF Has
    <3> QED BY <1>1, <2>1, <2>3, <3>1 DEF ExchangeInv, Exchange, FeatureKept, source
  <2>4. CASE stream # <<>>
    <3>1. 1 \in 1..Len(stream) /\ stream[1] \in Operations
      BY <1>1, <2>4, TailFacts DEF ExchangeInv, Exchange, TypeOK
    <3>2. stream[1] = Memset(input)
      BY <2>2, <3>1 DEF Operations, Memset, Upload, Engine, Download
    <3>3. Has("memset")
      BY <2>2, <3>1 DEF Has
    <3>4. fed = <<>>
      BY <1>1, <2>1, <3>3 DEF ExchangeInv, Exchange, FeatureKept
    <3> QED BY <2>4, <3>1, <3>2, <3>4
  <2> QED BY <2>3, <2>4
<1> QED BY <1>1, ExchangeInductive, PTL

(***************************************************************************)
(* The pair of exchanged allocations implements RecurrentState.            *)
(***************************************************************************)
THEOREM ExchangeKeepsState == Spec => StateSpec
<1> USE DEF phaseOf
<1>1. Init => Abstract!Init
  BY DEF Init, Abstract!Init
<1>2. ASSUME ExchangeInv, [Next]_vars PROVE [Abstract!Next]_(Abstract!stateVars)
  <2> USE DEF Abstract!Next, Abstract!stateVars
  <2>1. CASE ResetState
    BY <2>1 DEF ResetState, Abstract!Reset
  <2>2. CASE Return
    <3>1. /\ pc = "swapped" /\ pc' = "idle" /\ fed' = Append(fed, x)
          /\ initialized' = initialized
      BY <2>2 DEF Return
    <3>2. initialized /\ x \in Inputs
      BY <1>2, <3>1 DEF ExchangeInv, Exchange, InputFed, Running
    <3>3. answer' = fed'
      BY <1>2, <2>2, ReturnStep
    <3>4. Abstract!Run(x)
      BY <3>1, <3>2, <3>3 DEF Abstract!Run
    <3> QED BY <3>2, <3>4
  <2>3. CASE Throw
    BY <2>3 DEF Throw, callVars, Abstract!Fail
  <2>4. CASE Feed
    BY <2>4 DEF Feed
  <2>5. CASE Enqueue \/ QueueDownload \/ SwapState
    BY <2>5 DEF Enqueue, QueueDownload, SwapState, callVars
  <2>6. CASE Device
    BY <2>6 DEF Device, ExecuteMemset, ExecuteUpload, ExecuteEngine,
                ExecuteDownload,
      NextOperation, callVars
  <2>7. CASE UNCHANGED vars
    BY <2>7 DEF vars, callVars
  <2> QED BY <1>2, <2>1, <2>2, <2>3, <2>4, <2>5, <2>6, <2>7 DEF Next, Caller
<1> QED BY <1>1, <1>2, ExchangeInductive, PTL DEF Spec, StateSpec,
                                                  Abstract!Spec

-----------------------------------------------------------------------------
(***************************************************************************)
(* The handles of ONNX Runtime and LibTorch.  The invariant says that the  *)
(* handle names the feature of all runs since the reset, and that a run    *)
(* has written its results elsewhere.                                      *)
(***************************************************************************)
HandleTypes ==
  /\ pc \in {"idle", "ran", "failed"}
  /\ x \in Content
  /\ inPlace \in BOOLEAN
  /\ initialized \in BOOLEAN
  /\ state \in Tensors \cup {NoTensor}
  /\ contents \in [Tensors -> History]
  /\ fed \in Seq(Inputs)

\* The handle names a tensor whenever it is used.
HandleIsBound == inPlace \/ initialized => state \in Tensors

\* While an answer is collected the new feature is not yet named.
ResultsReady ==
  pc = "ran" =>
    /\ initialized
    /\ x \in Inputs
    /\ outputs.feature \in Tensors \ {Own, state}
    /\ outputs.other \in Tensors
    /\ contents[outputs.feature] = Append(fed, x)
    /\ contents[outputs.other] = Append(fed, x)

HandleInv ==
  /\ HandleTypes
  /\ HandleIsBound
  /\ initialized => contents[state] = fed
  /\ ResultsReady

LEMMA HandleInitInv == HandleInit => HandleInv
<1> SUFFICES ASSUME HandleInit PROVE HandleInv
  OBVIOUS
<1>1. HandleTypes
  <2>1. contents = [t \in Tensors |-> IF t = Own THEN <<>> ELSE <<Garbage>>]
    BY DEF HandleInit
  <2>2. <<>> \in History /\ <<Garbage>> \in History
    BY DEF History, Content
  <2>3. contents \in [Tensors -> History]
    BY <2>1, <2>2
  <2>4. state \in Tensors \cup {NoTensor}
    BY DEF HandleInit, Tensors
  <2>5. fed \in Seq(Inputs) /\ x \in Content
    BY DEF HandleInit, Content
  <2>6. pc = "idle" /\ inPlace \in BOOLEAN /\ initialized = FALSE
    BY DEF HandleInit
  <2> QED BY <2>3, <2>4, <2>5, <2>6 DEF HandleTypes
<1> QED BY <1>1 DEF HandleInv, HandleIsBound, ResultsReady, HandleInit,
                    Tensors, Own

LEMMA HandleReset == ASSUME HandleInv, ResetHandle PROVE HandleInv'
<1>1. /\ pc = "idle" /\ pc' = "idle" /\ initialized' = TRUE /\ fed' = <<>>
      /\ state' = IF inPlace THEN state ELSE Own
      /\ contents' = [contents EXCEPT ![state'] = <<>>]
      /\ inPlace' = inPlace /\ x' = x
  BY DEF ResetHandle
<1>2. state' \in Tensors
  BY <1>1 DEF HandleInv, HandleIsBound, Tensors
<1>3. contents' \in [Tensors -> History] /\ contents'[state'] = <<>>
  <2>1. contents \in [Tensors -> History] /\ <<>> \in History
    BY DEF HandleInv, HandleTypes, History
  <2> QED BY <1>1, <1>2, <2>1
<1> QED BY <1>1, <1>2, <1>3 DEF HandleInv, HandleTypes, HandleIsBound, ResultsReady

LEMMA HandleRun == ASSUME HandleInv, Run PROVE HandleInv'
<1>1. /\ pc = "idle" /\ initialized /\ x' \in Inputs /\ pc' = "ran"
      /\ inPlace' = inPlace /\ initialized' = initialized /\ state' = state /\ fed' = fed
  BY DEF Run
<1>2. PICK feature \in Unnamed, other \in Unnamed :
        /\ other # feature
        /\ outputs' = [feature |-> feature, other |-> other]
        /\ contents' = [contents EXCEPT ![feature] = Append(contents[state], x'),
                                    ![other] = Append(contents[state], x')]
  BY DEF Run
<1>3. /\ state \in Tensors /\ contents[state] = fed /\ fed \in Seq(Inputs)
      /\ contents \in [Tensors -> History]
  BY <1>1 DEF HandleInv, HandleIsBound, HandleTypes
<1>4. /\ feature \in Tensors \ {Own, state}
      /\ other \in Tensors \ {Own, state, feature}
  BY <1>2 DEF Unnamed
<1>5. Append(fed, x') \in History
  BY <1>1, <1>3 DEF History, Content
<1>6. /\ contents' \in [Tensors -> History] /\ contents'[state] = fed
      /\ contents'[feature] = Append(fed, x') /\ contents'[other] = Append(fed, x')
  BY <1>2, <1>3, <1>4, <1>5
<1> QED
  BY <1>1, <1>2, <1>3, <1>4, <1>6
     DEF HandleInv, HandleTypes, HandleIsBound, ResultsReady, Content

LEMMA HandleCollect == ASSUME HandleInv, Collect PROVE HandleInv'
<1>1. /\ pc = "ran" /\ pc' = "idle" /\ state' = outputs.feature /\ fed' = Append(fed, x)
      /\ inPlace' = inPlace /\ x' = x /\ initialized' = initialized /\ contents' = contents
  BY DEF Collect
<1>2. /\ x \in Inputs /\ outputs.feature \in Tensors
      /\ contents[outputs.feature] = Append(fed, x) /\ fed \in Seq(Inputs)
  BY <1>1 DEF HandleInv, ResultsReady, HandleTypes
<1>3. Append(fed, x) \in Seq(Inputs)
  BY <1>2
<1> QED BY <1>1, <1>2, <1>3 DEF HandleInv, HandleTypes, HandleIsBound, ResultsReady

LEMMA HandleRest ==
  ASSUME HandleInv, HandleThrows \/ UNCHANGED handleVars
  PROVE  HandleInv'
BY DEF HandleInv, HandleTypes, HandleIsBound, ResultsReady, HandleThrows, handleVars

LEMMA HandleInductive == HandleSpec => []HandleInv
<1>1. HandleInv /\ [HandleNext]_handleVars => HandleInv'
  BY HandleReset, HandleRun, HandleCollect, HandleRest DEF HandleNext
<1> QED BY HandleInitInv, <1>1, PTL DEF HandleSpec

(***************************************************************************)
(* onnxruntime backend.cpp:134-138, libtorch backend.cpp:168-179: while    *)
(* the results of a run are collected the tensor the binding names still   *)
(* holds the old feature, for any inputs and any contents the runtime picks. *)
(***************************************************************************)
THEOREM HandleKeepsTheFeature == HandleSpec => []FeatureIntact
<1>1. HandleInv => FeatureIntact
  BY DEF HandleInv, ResultsReady, FeatureIntact
<1> QED BY <1>1, HandleInductive, PTL

(***************************************************************************)
(* onnxruntime backend.cpp:85-172, libtorch backend.cpp:105-194: a handle  *)
(* that moves to each new feature implements the recurrent state that      *)
(* InferenceBackend promises, whether a reset points it at a zero tensor   *)
(* or zeroes the one it names.                                             *)
(***************************************************************************)
THEOREM HandlesKeepRecurrentState == HandleSpec => StateSpec
<1>1. HandleInit => Abstract!Init
  BY DEF HandleInit, Abstract!Init, phaseOf
<1>2. ASSUME HandleInv, [HandleNext]_handleVars
      PROVE  [Abstract!Next]_Abstract!stateVars
  <2>1. CASE ResetHandle
    <3>1. Abstract!Reset
      BY <2>1 DEF ResetHandle, Abstract!Reset, phaseOf
    <3> QED BY <3>1 DEF Abstract!Next
  <2>2. CASE Run
    <3>1. UNCHANGED Abstract!stateVars
      BY <2>2 DEF Run, Abstract!stateVars, phaseOf
    <3> QED BY <3>1
  <2>3. CASE Collect
    <3>1. Abstract!Run(x) /\ x \in Inputs
      BY <1>2, <2>3 DEF HandleInv, ResultsReady, Collect, Abstract!Run,
                        phaseOf
    <3> QED BY <3>1 DEF Abstract!Next
  <2>4. CASE HandleThrows
    <3>1. Abstract!Fail
      BY <2>4 DEF HandleThrows, Abstract!Fail, phaseOf
    <3> QED BY <3>1 DEF Abstract!Next
  <2>5. CASE UNCHANGED handleVars
    BY <2>5 DEF handleVars, Abstract!stateVars, phaseOf
  <2> QED BY <1>2, <2>1, <2>2, <2>3, <2>4, <2>5 DEF HandleNext
<1> QED BY <1>1, <1>2, HandleInductive, PTL DEF HandleSpec, StateSpec,
                                                Abstract!Spec

-----------------------------------------------------------------------------
(***************************************************************************)
(* The routing.  The invariant says what load() has checked of a binding,  *)
(* and how many of the tensors dealt so far were the host's.               *)
(***************************************************************************)
\* The host's tensors.
HostTensor ==
  [name : {"x", "ref_feature", "q_index_shifted", "z_raw", "y_raw_0", "y_raw_1"},
   type : {"image", "feature", "q", "z", "y"}]

RoutingTypes ==
  /\ direction \in {"encoder", "decoder"}
  /\ graph \in Signature
  /\ bound = <<>> \/ (ExecutionConfig # <<>> /\ bound = ExecutionConfig)

\* What the checks of load() have made sure of.
BindingAccepted ==
  bound # <<>> =>
    /\ backend # "libtorch" => InRange(bound[1]) /\ SameType(bound[1])
    /\ backend = "driver_cubin" => WrittenLast(bound[1])

\* The state inputs among the first n inputs of the graph.
StatesDealt(n) == IF bound # <<>> /\ bound[1].input < n THEN 1 ELSE 0

\* While run() deals: every tensor so far is one of the host's, or the feature.
DealtSoFar ==
  /\ status = "loading" => taken = <<>> /\ external = 0
  /\ status = "running" => CountsAgree /\ ~Buffered
  /\ status \in {"loading", "running"} =>
       /\ taken \in Seq(HostTensor)
       /\ external \in Nat
       /\ Len(taken) = external + StatesDealt(Len(taken))
       /\ \A k \in 1..Len(taken) : IsStateInput(k - 1) => taken[k].type = "feature"

RoutingInv ==
  /\ RoutingTypes
  /\ BindingAccepted
  /\ DealtSoFar
  /\ FeedbackIsSound

-----------------------------------------------------------------------------
\* At most one binding, of positions counted from 0.
LEMMA OneBinding ==
  /\ ExecutionConfig # <<>> =>
       /\ Len(ExecutionConfig) = 1
       /\ ExecutionConfig[1].input \in Nat
       /\ ExecutionConfig[1].output \in Nat
       /\ ExecutionConfig[1].type = "feature"
       /\ ExecutionConfig = <<ExecutionConfig[1]>>
  /\ ExecutionConfig = <<>> => Len(ExecutionConfig) = 0
BY DEF ExecutionConfig

LEMMA BoundFacts ==
  ASSUME RoutingTypes
  PROVE  /\ bound = <<>> => Len(bound) = 0
         /\ bound # <<>> => /\ Len(bound) = 1
                            /\ bound[1].input \in Nat /\ bound[1].output \in Nat
                            /\ bound[1].type = "feature"
                            /\ bound = ExecutionConfig
         /\ \A i : IsStateInput(i) <=> bound # <<>> /\ bound[1].input = i
         /\ graph.inputs \in Seq(Tensor) /\ graph.outputs \in Seq(Tensor)
<1>1. graph.inputs \in Seq(Tensor) /\ graph.outputs \in Seq(Tensor)
  BY DEF RoutingTypes, Signature
<1>2. CASE bound = <<>>
  <2>1. Len(bound) = 0 /\ \A i : ~IsStateInput(i)
    BY <1>2 DEF IsStateInput
  <2> QED BY <1>1, <1>2, <2>1
<1>3. CASE bound # <<>>
  <2>1. /\ Len(bound) = 1 /\ bound[1].input \in Nat /\ bound[1].output \in Nat
        /\ bound[1].type = "feature" /\ bound = ExecutionConfig
    BY <1>3, OneBinding DEF RoutingTypes
  <2>2. \A i : IsStateInput(i) <=> bound[1].input = i
    BY <2>1 DEF IsStateInput
  <2> QED BY <1>1, <1>3, <2>1, <2>2
<1> QED BY <1>2, <1>3

\* What the host deals.
LEMMA GivenFacts == Given \in Seq(HostTensor)
<1> DEFINE t(n, y) == T(n, y)
           i == t("x", "image")
           z == t("z_raw", "z")
           y0 == t("y_raw_0", "y")
           y1 == t("y_raw_1", "y")
           f == t("ref_feature", "feature")
           q == t("q_index_shifted", "q")
<1>1. i \in HostTensor /\ z \in HostTensor /\ y0 \in HostTensor /\ y1 \in HostTensor
      /\ f \in HostTensor /\ q \in HostTensor
  BY DEF HostTensor, T
<1>2. /\ <<i>> \in Seq(HostTensor) /\ <<z, y0, y1>> \in Seq(HostTensor)
      /\ <<f>> \in Seq(HostTensor) /\ <<>> \in Seq(HostTensor) /\ <<q>> \in Seq(HostTensor)
  <2> HIDE DEF i, z, y0, y1, f, q
  <2> QED BY <1>1
<1>3. Given =
        (IF direction = "encoder" THEN <<i>> ELSE <<z, y0, y1>>) \o
        (IF debug THEN <<f>> ELSE <<>>) \o <<q>>
  BY DEF Given
<1> HIDE DEF i, z, y0, y1, f, q
<1> QED BY <1>2, <1>3

LEMMA RoutingInitInv == ASSUME RoutingInit PROVE RoutingInv
<1>1. RoutingTypes
  BY SignatureAssumption DEF RoutingInit, RoutingTypes
<1>2. bound = <<>> /\ taken = <<>> /\ external = 0 /\ status = "loading"
  BY DEF RoutingInit
<1>3. DealtSoFar
  <2>1. taken \in Seq(HostTensor) /\ Len(taken) = 0
    BY <1>2
  <2> QED BY <1>2, <2>1 DEF DealtSoFar, StatesDealt
<1> QED BY <1>1, <1>2, <1>3 DEF RoutingInv, BindingAccepted, FeedbackIsSound

LEMMA BindStep == ASSUME RoutingInv, Bind PROVE RoutingInv'
<1>1. /\ status = "loading" /\ Len(bound) < Len(ExecutionConfig)
      /\ Accepts(NextRequest) /\ bound' = Append(bound, NextRequest)
      /\ backend' = backend /\ direction' = direction /\ debug' = debug /\ graph' = graph
      /\ taken' = taken /\ external' = external /\ results' = results /\ status' = status
  BY DEF Bind, Unbound, setup
<1>2. bound = <<>> /\ ExecutionConfig # <<>>
  <2>1. RoutingTypes
    BY DEF RoutingInv
  <2> QED BY <1>1, <2>1, OneBinding DEF RoutingTypes
<1>3. bound' = <<ExecutionConfig[1]>> /\ bound' = ExecutionConfig
  BY <1>1, <1>2, OneBinding DEF NextRequest
<1>4. ExecutionConfig' = ExecutionConfig
  BY <1>1 DEF ExecutionConfig
<1>5. RoutingTypes'
  BY <1>1, <1>2, <1>3, <1>4 DEF RoutingInv, RoutingTypes
<1>6. BindingAccepted'
  <2>1. Accepts(bound'[1])
    BY <1>1, <1>2, <1>3, OneBinding DEF NextRequest
  <2> QED BY <1>1, <2>1 DEF BindingAccepted, Accepts, InRange,
                            SameType,
        WrittenLast
<1>7. DealtSoFar'
  <2>1. taken = <<>> /\ external = 0 /\ taken \in Seq(HostTensor) /\ Len(taken) = 0
    BY <1>1 DEF RoutingInv, DealtSoFar
  <2>2. bound'[1].input \in Nat
    BY <1>2, <1>3, OneBinding
  <2> QED BY <1>1, <2>1, <2>2 DEF DealtSoFar, StatesDealt
<1> QED BY <1>1, <1>5, <1>6, <1>7 DEF RoutingInv, FeedbackIsSound

\* Steps that deal nothing and end up short of a result.
LEMMA QuietStep ==
  ASSUME RoutingInv,
         backend' = backend, direction' = direction, debug' = debug, graph' = graph,
         bound' = bound, taken' = taken, external' = external, results' = results,
         status' \in {status, "refused", "thrown"}
            \/ (status = "loading" /\ status' = "running" /\ CountsAgree /\ ~Buffered)
  PROVE  RoutingInv'
<1>1. /\ ExecutionConfig' = ExecutionConfig
      /\ CountsAgree' <=> CountsAgree
      /\ Buffered' <=> Buffered
      /\ \A i : IsStateInput(i)' <=> IsStateInput(i)
      /\ \A r : InRange(r)' <=> InRange(r)
      /\ \A r : SameType(r)' <=> SameType(r)
      /\ \A r : WrittenLast(r)' <=> WrittenLast(r)
  BY DEF ExecutionConfig, CountsAgree, InputCount,
         Given, Buffered,
     IsStateInput, InRange, SameType, WrittenLast
<1>2. RoutingTypes' /\ BindingAccepted'
  BY <1>1 DEF RoutingInv, RoutingTypes, BindingAccepted
<1>3. DealtSoFar'
  BY <1>1 DEF RoutingInv, DealtSoFar, StatesDealt
<1>4. FeedbackIsSound'
  BY <1>1 DEF RoutingInv, FeedbackIsSound
<1> QED BY <1>2, <1>3, <1>4 DEF RoutingInv

LEMMA QuietSteps ==
  ASSUME RoutingInv,
         \/ Refuse \/ StartRun \/ TakeThrows \/ NameMissing
         \/ UNCHANGED routingVars
  PROVE  RoutingInv'
<1>1. CASE Refuse
  BY <1>1, QuietStep DEF Refuse, setup
<1>2. CASE StartRun
  BY <1>2, QuietStep DEF StartRun, Loaded, setup
<1>3. CASE TakeThrows
  BY <1>3, QuietStep DEF TakeThrows, setup
<1>4. CASE NameMissing
  BY <1>4, QuietStep DEF NameMissing, setup
<1>5. CASE UNCHANGED routingVars
  BY <1>5, QuietStep DEF routingVars, setup
<1> QED BY <1>1, <1>2, <1>3, <1>4, <1>5

\* The next input of the graph gets a tensor: of the host, or the feature.
LEMMA DealStep ==
  ASSUME RoutingInv, NEW t \in HostTensor, Dealing,
         taken' = Append(taken, t), status' = status, results' = results, bound' = bound,
         backend' = backend, direction' = direction, debug' = debug, graph' = graph,
         IF IsStateInput(Len(taken)) THEN external' = external /\ t.type = "feature"
         ELSE external' = external + 1
  PROVE  RoutingInv'
<1>1. /\ status = "running" /\ taken \in Seq(HostTensor) /\ external \in Nat
      /\ Len(taken) = external + StatesDealt(Len(taken))
      /\ \A k \in 1..Len(taken) : IsStateInput(k - 1) => taken[k].type = "feature"
      /\ RoutingTypes
  BY DEF RoutingInv, DealtSoFar, Dealing
<1>2. /\ ExecutionConfig' = ExecutionConfig
      /\ CountsAgree' <=> CountsAgree
      /\ Buffered' <=> Buffered
      /\ \A i : IsStateInput(i)' <=> IsStateInput(i)
      /\ \A r : InRange(r)' <=> InRange(r)
      /\ \A r : SameType(r)' <=> SameType(r)
      /\ \A r : WrittenLast(r)' <=> WrittenLast(r)
  BY DEF ExecutionConfig, CountsAgree, InputCount,
         Given, Buffered,
     IsStateInput, InRange, SameType, WrittenLast
<1>3. RoutingTypes' /\ BindingAccepted'
  BY <1>2 DEF RoutingInv, RoutingTypes, BindingAccepted
<1>4. /\ taken' \in Seq(HostTensor) /\ Len(taken) \in Nat /\ Len(taken') = Len(taken) + 1
      /\ taken'[Len(taken) + 1] = t
      /\ \A k \in 1..Len(taken) : taken'[k] = taken[k]
  BY <1>1
<1>5. external' \in Nat /\ Len(taken') = external' + StatesDealt(Len(taken))'
  <2>1. bound # <<>> => bound[1].input \in Nat
    BY <1>1, BoundFacts
  <2>2. IsStateInput(Len(taken)) <=> bound # <<>> /\ bound[1].input = Len(taken)
    BY <1>1, BoundFacts
  <2>3. bound' = bound
    OBVIOUS
  <2>4. CASE IsStateInput(Len(taken))
    <3>1. StatesDealt(Len(taken)) = 0 /\ StatesDealt(Len(taken))' = 1 /\ external' = external
      BY <1>4, <2>1, <2>2, <2>3, <2>4 DEF StatesDealt
    <3> QED BY <1>1, <1>4, <3>1
  <2>5. CASE ~IsStateInput(Len(taken))
    <3>1. StatesDealt(Len(taken))' = StatesDealt(Len(taken)) /\ external' = external + 1
      BY <1>4, <2>1, <2>2, <2>3, <2>5 DEF StatesDealt
    <3>2. StatesDealt(Len(taken)) \in Nat
      BY DEF StatesDealt
    <3>3. \A d, e, n \in Nat : n = e + d => n + 1 = (e + 1) + d
      OBVIOUS
    <3>4. Len(taken') = (external + 1) + StatesDealt(Len(taken))
      BY <1>1, <1>4, <3>2, <3>3
    <3> QED BY <1>1, <3>1, <3>4
  <2> QED BY <2>4, <2>5
<1>6. \A k \in 1..Len(taken') : IsStateInput(k - 1) => taken'[k].type = "feature"
  <2> SUFFICES ASSUME NEW k \in 1..Len(taken'), IsStateInput(k - 1)
               PROVE  taken'[k].type = "feature"
    OBVIOUS
  <2>1. CASE k \in 1..Len(taken)
    BY <1>1, <1>4, <2>1
  <2>2. CASE k = Len(taken) + 1
    <3>1. k - 1 = Len(taken)
      BY <1>4, <2>2
    <3> QED BY <1>4, <2>2, <3>1
  <2> QED BY <1>4, <2>1, <2>2
<1>7. DealtSoFar'
  <2>1. status' = "running" /\ (CountsAgree /\ ~Buffered)'
    BY <1>1, <1>2 DEF RoutingInv, DealtSoFar
  <2> QED BY <1>2, <1>4, <1>5, <1>6, <2>1 DEF DealtSoFar
<1> QED BY <1>1, <1>3, <1>7 DEF RoutingInv, FeedbackIsSound

LEMMA TakeSteps ==
  ASSUME RoutingInv, TakeState \/ TakeExternal PROVE RoutingInv'
<1>1. CASE TakeState
  <2> DEFINE t == T("ref_feature", "feature")
  <2>1. t \in HostTensor /\ t.type = "feature"
    BY DEF HostTensor, T
  <2>2. /\ Dealing /\ IsStateInput(Len(taken)) /\ taken' = Append(taken, t)
        /\ external' = external /\ status' = status /\ results' = results /\ bound' = bound
        /\ backend' = backend /\ direction' = direction /\ debug' = debug /\ graph' = graph
    BY <1>1 DEF TakeState, setup
  <2> HIDE DEF t
  <2> QED BY <2>1, <2>2, DealStep
<1>2. CASE TakeExternal
  <2> DEFINE t == Given[external + 1]
  <2>1. /\ Dealing /\ ~IsStateInput(Len(taken)) /\ taken' = Append(taken, t)
        /\ external' = external + 1 /\ status' = status /\ results' = results /\ bound' = bound
        /\ backend' = backend /\ direction' = direction /\ debug' = debug /\ graph' = graph
        /\ external + 1 <= Len(Given)
    BY <1>2 DEF TakeExternal, setup, Fits, NextGiven
  <2>2. external \in Nat
    BY <2>1 DEF RoutingInv, DealtSoFar, Dealing
  <2>3. t \in HostTensor
    BY <2>1, <2>2, GivenFacts
  <2> HIDE DEF t
  <2> QED BY <2>1, <2>3, DealStep
<1> QED BY <1>1, <1>2

\* Nothing happens to a call that has its result.
LEMMA NamedStep ==
  ASSUME RoutingInv, bound' = bound, status' = "named",
         backend' = backend, direction' = direction, debug' = debug, graph' = graph,
         FeedbackIsSound'
  PROVE  RoutingInv'
<1>1. RoutingTypes'
  BY DEF RoutingInv, RoutingTypes, ExecutionConfig
<1>2. BindingAccepted'
  BY DEF RoutingInv, BindingAccepted, InRange, SameType,
         WrittenLast
<1>3. DealtSoFar'
  BY DEF DealtSoFar
<1> QED BY <1>1, <1>2, <1>3 DEF RoutingInv

LEMMA OutputRemoved ==
  ASSUME NEW S, NEW s \in Seq(S), NEW i \in Nat, i < Len(s)
  PROVE  Len(RemoveAt(s, i + 1)) = Len(s) - 1
<1> DEFINE front == SubSeq(s, 1, (i + 1) - 1)
           back == SubSeq(s, (i + 1) + 1, Len(s))
<1>1. Len(s) \in Nat
  OBVIOUS
<1>2. front \in Seq(S) /\ Len(front) = i
  BY <1>1
<1>3. back \in Seq(S) /\ Len(back) = (Len(s) - i) - 1
  BY <1>1
<1>4. RemoveAt(s, i + 1) = front \o back
  BY DEF RemoveAt
<1> HIDE DEF front, back
<1>5. Len(front \o back) = Len(front) + Len(back)
  BY <1>2, <1>3
<1> QED BY <1>1, <1>2, <1>3, <1>4, <1>5

LEMMA FinishStep == ASSUME RoutingInv, Finish PROVE RoutingInv'
<1>1. /\ status = "running" /\ Len(taken) = InputCount
      /\ backend' = backend /\ direction' = direction /\ debug' = debug /\ graph' = graph
      /\ bound' = bound /\ taken' = taken /\ external' = external
  BY DEF Finish, setup
<1>2. CASE status' = "thrown" /\ results' = results
  BY <1>1, <1>2, QuietStep
<1>3. CASE /\ RuntimeAccepts /\ StateReturned
           /\ status' = "named" /\ results' = Returned
  <2>1. /\ RoutingTypes /\ BindingAccepted /\ CountsAgree /\ ~Buffered
        /\ taken \in Seq(HostTensor) /\ external \in Nat
        /\ Len(taken) = external + StatesDealt(Len(taken))
        /\ \A k \in 1..Len(taken) : IsStateInput(k - 1) => taken[k].type = "feature"
    BY <1>1 DEF RoutingInv, DealtSoFar
  <2>2. /\ Len(taken) = Len(graph.inputs) /\ Len(taken) \in Nat
        /\ \A k \in 1..Len(taken) : taken[k].type = graph.inputs[k].type
    BY <1>3, <2>1 DEF RuntimeAccepts
  <2>3. CASE bound = <<>>
    <3>1. Len(bound) = 0 /\ StatesDealt(Len(taken)) = 0 /\ results' = graph.outputs
      BY <1>3, <2>1, <2>3, BoundFacts DEF StatesDealt, Returned
    <3>2. Len(graph.outputs) \in Nat /\ Len(graph.outputs) + 0 = Len(graph.outputs)
      BY <2>1, BoundFacts
    <3>3. FeedbackIsSound'
      BY <1>1, <2>1, <3>1, <3>2 DEF FeedbackIsSound
    <3> QED BY <1>1, <1>3, <3>3, NamedStep
  <2>4. CASE bound # <<>>
    <3> DEFINE b == bound[1]
    <3>1. /\ Len(bound) = 1 /\ b.input \in Nat /\ b.output \in Nat /\ b.type = "feature"
          /\ \A i : IsStateInput(i) <=> b.input = i
          /\ graph.outputs \in Seq(Tensor)
      BY <2>1, <2>4, BoundFacts
    <3>2. b.input < Len(taken)
      <4>1. CASE backend = "libtorch"
        BY <1>1, <2>1, <3>1, <4>1 DEF CountsAgree
      <4>2. CASE backend # "libtorch"
        BY <2>1, <2>2, <2>4, <4>2 DEF BindingAccepted, InRange
      <4> QED BY <4>1, <4>2
    <3>3. InRange(b) /\ SameType(b)
      <4>1. CASE backend = "libtorch"
        <5>1. b.output < Len(graph.outputs) /\ graph.outputs[b.output + 1].type = b.type
          BY <1>3, <3>1, <4>1 DEF StateReturned
        <5>2. b.input + 1 \in 1..Len(taken) /\ (b.input + 1) - 1 = b.input
          BY <2>2, <3>1, <3>2
        <5>3. taken[b.input + 1].type = "feature"
          BY <2>1, <3>1, <5>2
        <5> QED BY <2>2, <3>1, <3>2, <5>1, <5>2, <5>3 DEF InRange,
                                                          SameType
      <4>2. CASE backend # "libtorch"
        BY <2>1, <2>4, <4>2 DEF BindingAccepted
      <4> QED BY <4>1, <4>2
    <3>4. Len(taken) = external + 1
      BY <2>1, <2>4, <3>2 DEF StatesDealt
    <3>5. Len(results') + 1 = Len(graph.outputs)
      <4>1. b.output < Len(graph.outputs) /\ Len(graph.outputs) \in Nat
        BY <3>1, <3>3 DEF InRange
      <4>2. results' = RemoveAt(graph.outputs, b.output + 1)
        BY <1>3, <2>4 DEF Returned
      <4> HIDE DEF b
      <4>3. Len(results') = Len(graph.outputs) - 1
        BY <3>1, <4>1, <4>2, OutputRemoved
      <4> QED BY <4>1, <4>3
    <3>6. FeedbackIsSound'
      <4>1. \A k \in 1..Len(bound) : bound[k] = b
        BY <3>1
      <4>2. (\A k \in 1..Len(bound) : InRange(bound[k]) /\ SameType(bound[k]))'
        BY <1>1, <3>3, <4>1 DEF InRange, SameType
      <4> HIDE DEF b
      <4> QED BY <1>1, <3>1, <3>4, <3>5, <4>2 DEF FeedbackIsSound
    <3> QED BY <1>1, <1>3, <3>6, NamedStep
  <2> QED BY <2>3, <2>4
<1> QED BY <1>2, <1>3 DEF Finish

LEMMA RunByNameStep == ASSUME RoutingInv, RunByName PROVE RoutingInv'
<1>1. /\ Buffered /\ status' = "named" /\ bound' = bound
      /\ backend' = backend /\ direction' = direction /\ debug' = debug /\ graph' = graph
  BY DEF RunByName, setup
<1>2. backend # "libtorch" /\ RoutingTypes /\ BindingAccepted /\ Buffered'
  BY <1>1 DEF Buffered, RoutingInv
<1>3. \A k \in 1..Len(bound) : InRange(bound[k]) /\ SameType(bound[k])
  <2>1. Len(bound) = 0 \/ (bound # <<>> /\ Len(bound) = 1)
    BY <1>2, BoundFacts
  <2> QED BY <1>2, <2>1 DEF BindingAccepted
<1>4. FeedbackIsSound'
  BY <1>1, <1>2, <1>3 DEF FeedbackIsSound, InRange, SameType
<1> QED BY <1>1, <1>4, NamedStep

LEMMA RoutingInductive == RoutingSpec => []RoutingInv
<1>1. RoutingInv /\ [RoutingNext]_routingVars => RoutingInv'
  BY BindStep, QuietSteps, TakeSteps, FinishStep, RunByNameStep DEF RoutingNext
<1> QED BY RoutingInitInv, <1>1, PTL DEF RoutingSpec

(***************************************************************************)
(* backend.hpp:35-37, 59-60: on every backend and for every graph a bundle *)
(* may hold, a run that is not refused fed the feature it had kept from an *)
(* output of the graph to an input of the same type; and run() dealt every *)
(* tensor of the host once and returned every output but that one.         *)
(***************************************************************************)
THEOREM FeedbackIsChecked ==
  RoutingSpec => []FeedbackIsSound
<1>1. RoutingInv => FeedbackIsSound
  BY DEF RoutingInv
<1> QED BY <1>1, RoutingInductive, PTL
-----------------------------------------------------------------------------
(***************************************************************************)
(* The exported graphs.  What the loop gives and expects is the signature  *)
(* of docs/design.md:51-68 with the bound tensors left out, so the n-th    *)
(* input of the graph always gets the tensor it is named for.              *)
(***************************************************************************)
Feature == T("ref_feature", "feature")

\* The documented signatures; of the final nodes only what is needed.
DocumentedExport ==
  /\ Exported["encoder"].inputs =
       <<T("x", "image"), T("ref_feature", "feature"), T("q_index_shifted", "q")>>
  /\ Exported["encoder"].outputs =
       <<T("feature", "feature"), T("z_raw", "z"), T("y_raw_0", "y"), T("y_raw_1", "y")>>
  /\ Exported["decoder"].inputs =
       <<T("z_raw", "z"), T("y_raw_0", "y"), T("y_raw_1", "y"),
         T("ref_feature", "feature"), T("q_index_shifted", "q")>>
  /\ Exported["decoder"].outputs = <<T("x_hat", "image"), T("feature", "feature")>>
  /\ \A d \in {"encoder", "decoder"} : "feature" \in Exported[d].last

\* t is s without its element at position i, counted from 0.
LeavesOut(s, i, t) ==
  /\ Len(s) = Len(t) + 1
  /\ \A k \in 1..Len(t) : t[k] = s[IF k <= i THEN k ELSE k + 1]

\* How the loop's lists and the graph's differ.
ListsAgree ==
  /\ ExecutionConfig = <<>> => Given = graph.inputs /\ Labels = graph.outputs
  /\ ExecutionConfig # <<>> =>
       /\ Accepts(ExecutionConfig[1]) \/ bound # <<>>
       /\ InRange(ExecutionConfig[1]) /\ SameType(ExecutionConfig[1])
       /\ graph.inputs[ExecutionConfig[1].input + 1] = Feature
       /\ LeavesOut(graph.inputs, ExecutionConfig[1].input, Given)
       /\ LeavesOut(graph.outputs, ExecutionConfig[1].output, Labels)

\* What holds of a call on an exported graph.
Served ==
  graph = Exported[direction] =>
    /\ status \in {"loading", "running", "named"}
    /\ status = "running" =>
         /\ bound = ExecutionConfig
         /\ Len(taken) <= Len(graph.inputs)
         /\ \A k \in 1..Len(taken) : taken[k] = graph.inputs[k]
    /\ status = "named" =>
         /\ taken = graph.inputs
         /\ \A k \in 1..Len(Labels) : results[k] = Labels[k]

LEMMA SameSequence ==
  ASSUME NEW S, NEW s \in Seq(S), NEW t \in Seq(S), Len(s) = Len(t),
         \A k \in 1..Len(t) : s[k] = t[k]
  PROVE  s = t
OBVIOUS

\* The concatenations the loop makes, written out.
LEMMA Joined ==
  /\ \A a, b, c : <<a>> \o <<b>> \o <<c>> = <<a, b, c>>
  /\ \A a, b : <<a>> \o <<>> \o <<b>> = <<a, b>>
  /\ \A a, b, c, d : <<a>> \o <<b, c, d>> = <<a, b, c, d>>
  /\ \A a, b, c : <<>> \o <<a, b, c>> = <<a, b, c>>
  /\ \A a, b, c, d, e : <<a, b, c>> \o <<d>> \o <<e>> = <<a, b, c, d, e>>
  /\ \A a, b, c, d : <<a, b, c>> \o <<>> \o <<d>> = <<a, b, c, d>>
  /\ \A a, b : <<a>> \o <<b>> = <<a, b>>
  /\ \A a : <<a>> \o <<>> = <<a>>
<1>1. ASSUME NEW a, NEW b, NEW c
      PROVE  <<a>> \o <<b>> \o <<c>> = <<a, b, c>>
  <2> DEFINE s == <<a>> \o <<b>> \o <<c>>
             S == {a, b, c}
  <2>1. s \in Seq(S) /\ Len(s) = 3 /\ <<a, b, c>> \in Seq(S)
    OBVIOUS
  <2>2. s[1] = a /\ s[2] = b /\ s[3] = c
    OBVIOUS
  <2> HIDE DEF s, S
  <2>3. s = <<a, b, c>>
    BY <2>1, <2>2, SameSequence
  <2> QED BY <2>3 DEF s
<1>2. ASSUME NEW a, NEW b
      PROVE  <<a>> \o <<>> \o <<b>> = <<a, b>>
  <2> DEFINE s == <<a>> \o <<>> \o <<b>>
             S == {a, b}
  <2>1. s \in Seq(S) /\ Len(s) = 2 /\ <<a, b>> \in Seq(S)
    OBVIOUS
  <2>2. s[1] = a /\ s[2] = b
    OBVIOUS
  <2> HIDE DEF s, S
  <2>3. s = <<a, b>>
    BY <2>1, <2>2, SameSequence
  <2> QED BY <2>3 DEF s
<1>3. ASSUME NEW a, NEW b, NEW c, NEW d
      PROVE  <<a>> \o <<b, c, d>> = <<a, b, c, d>>
  <2> DEFINE s == <<a>> \o <<b, c, d>>
             S == {a, b, c, d}
  <2>1. s \in Seq(S) /\ Len(s) = 4 /\ <<a, b, c, d>> \in Seq(S)
    OBVIOUS
  <2>2. s[1] = a /\ s[2] = b /\ s[3] = c /\ s[4] = d
    OBVIOUS
  <2> HIDE DEF s, S
  <2>3. s = <<a, b, c, d>>
    BY <2>1, <2>2, SameSequence
  <2> QED BY <2>3 DEF s
<1>4. ASSUME NEW a, NEW b, NEW c
      PROVE  <<>> \o <<a, b, c>> = <<a, b, c>>
  <2> DEFINE s == <<>> \o <<a, b, c>>
             S == {a, b, c}
  <2>1. s \in Seq(S) /\ Len(s) = 3 /\ <<a, b, c>> \in Seq(S)
    OBVIOUS
  <2>2. s[1] = a /\ s[2] = b /\ s[3] = c
    OBVIOUS
  <2> HIDE DEF s, S
  <2>3. s = <<a, b, c>>
    BY <2>1, <2>2, SameSequence
  <2> QED BY <2>3 DEF s
<1>5. ASSUME NEW a, NEW b, NEW c, NEW d, NEW e
      PROVE  <<a, b, c>> \o <<d>> \o <<e>> = <<a, b, c, d, e>>
  <2> DEFINE s == <<a, b, c>> \o <<d>> \o <<e>>
             S == {a, b, c, d, e}
  <2>1. s \in Seq(S) /\ Len(s) = 5 /\ <<a, b, c, d, e>> \in Seq(S)
    OBVIOUS
  <2>2. s[1] = a /\ s[2] = b /\ s[3] = c /\ s[4] = d /\ s[5] = e
    OBVIOUS
  <2> HIDE DEF s, S
  <2>3. s = <<a, b, c, d, e>>
    BY <2>1, <2>2, SameSequence
  <2> QED BY <2>3 DEF s
<1>6. ASSUME NEW a, NEW b, NEW c, NEW d
      PROVE  <<a, b, c>> \o <<>> \o <<d>> = <<a, b, c, d>>
  <2> DEFINE s == <<a, b, c>> \o <<>> \o <<d>>
             S == {a, b, c, d}
  <2>1. s \in Seq(S) /\ Len(s) = 4 /\ <<a, b, c, d>> \in Seq(S)
    OBVIOUS
  <2>2. s[1] = a /\ s[2] = b /\ s[3] = c /\ s[4] = d
    OBVIOUS
  <2> HIDE DEF s, S
  <2>3. s = <<a, b, c, d>>
    BY <2>1, <2>2, SameSequence
  <2> QED BY <2>3 DEF s
<1>7. ASSUME NEW a, NEW b
      PROVE  <<a>> \o <<b>> = <<a, b>>
  <2> DEFINE s == <<a>> \o <<b>>
             S == {a, b}
  <2>1. s \in Seq(S) /\ Len(s) = 2 /\ <<a, b>> \in Seq(S)
    OBVIOUS
  <2>2. s[1] = a /\ s[2] = b
    OBVIOUS
  <2> HIDE DEF s, S
  <2>3. s = <<a, b>>
    BY <2>1, <2>2, SameSequence
  <2> QED BY <2>3 DEF s
<1>8. ASSUME NEW a
      PROVE  <<a>> \o <<>> = <<a>>
  <2> DEFINE s == <<a>> \o <<>>
             S == {a}
  <2>1. s \in Seq(S) /\ Len(s) = 1 /\ <<a>> \in Seq(S)
    OBVIOUS
  <2>2. s[1] = a
    OBVIOUS
  <2> HIDE DEF s, S
  <2>3. s = <<a>>
    BY <2>1, <2>2, SameSequence
  <2> QED BY <2>3 DEF s
<1> QED BY <1>1, <1>2, <1>3, <1>4, <1>5, <1>6, <1>7, <1>8

LEMMA EncoderLists ==
  ASSUME DocumentedExport, direction = "encoder", graph = Exported[direction]
  PROVE  ListsAgree
<1> DEFINE t(n, y) == T(n, y)
           im == t("x", "image")
           z == t("z_raw", "z")
           y0 == t("y_raw_0", "y")
           y1 == t("y_raw_1", "y")
           r == t("ref_feature", "feature")
           f == t("feature", "feature")
           q == t("q_index_shifted", "q")
<1>1. /\ graph.inputs = <<im, r, q>> /\ graph.outputs = <<f, z, y0, y1>>
      /\ "feature" \in graph.last
      /\ f.name = "feature" /\ f.type = "feature" /\ r.type = "feature" /\ r = Feature
  BY DEF DocumentedExport, T, Feature
<1>2. /\ Given = <<im>> \o (IF debug THEN <<r>> ELSE <<>>) \o <<q>>
      /\ Labels = (IF debug THEN <<f>> ELSE <<>>) \o <<z, y0, y1>>
  BY DEF Given, Labels
<1> HIDE DEF im, z, y0, y1, r, f, q
<1>3. CASE debug
  <2>1. ExecutionConfig = <<>>
    BY <1>3 DEF ExecutionConfig
  <2>2. Given = <<im, r, q>> /\ Labels = <<f, z, y0, y1>>
    <3>1. /\ <<im>> \o <<r>> \o <<q>> = <<im, r, q>>
          /\ <<f>> \o <<z, y0, y1>> = <<f, z, y0, y1>>
      BY Joined
    <3> QED BY <1>2, <1>3, <3>1
  <2> QED BY <1>1, <2>1, <2>2 DEF ListsAgree
<1>4. CASE ~debug
  <2> DEFINE c == ExecutionConfig[1]
  <2>1. ExecutionConfig # <<>> /\ c.input = 1 /\ c.output = 0 /\ c.type = "feature"
    BY <1>4 DEF ExecutionConfig
  <2>2. Given = <<im, q>> /\ Labels = <<z, y0, y1>>
    <3>1. /\ <<im>> \o <<>> \o <<q>> = <<im, q>>
          /\ <<>> \o <<z, y0, y1>> = <<z, y0, y1>>
      BY Joined
    <3> QED BY <1>2, <1>4, <3>1
  <2> HIDE DEF c
  <2>3. InRange(c) /\ SameType(c) /\ WrittenLast(c) /\ graph.inputs[c.input + 1] = Feature
    BY <1>1, <2>1 DEF InRange, SameType, WrittenLast
  <2>4. LeavesOut(graph.inputs, c.input, Given) /\ LeavesOut(graph.outputs, c.output, Labels)
    BY <1>1, <2>1, <2>2 DEF LeavesOut
  <2>5. Accepts(c) \/ bound # <<>>
    BY <2>3 DEF Accepts, Duplicate, IsStateInput, IsStateOutput
  <2> QED BY <2>1, <2>3, <2>4, <2>5 DEF ListsAgree, c
<1> QED BY <1>3, <1>4

LEMMA DecoderLists ==
  ASSUME DocumentedExport, direction = "decoder", graph = Exported[direction]
  PROVE  ListsAgree
<1> DEFINE t(n, y) == T(n, y)
           im == t("x_hat", "image")
           z == t("z_raw", "z")
           y0 == t("y_raw_0", "y")
           y1 == t("y_raw_1", "y")
           r == t("ref_feature", "feature")
           f == t("feature", "feature")
           q == t("q_index_shifted", "q")
<1>1. /\ graph.inputs = <<z, y0, y1, r, q>> /\ graph.outputs = <<im, f>>
      /\ "feature" \in graph.last
      /\ f.name = "feature" /\ f.type = "feature" /\ r.type = "feature" /\ r = Feature
  BY DEF DocumentedExport, T, Feature
<1>2. /\ Given = <<z, y0, y1>> \o (IF debug THEN <<r>> ELSE <<>>) \o <<q>>
      /\ Labels = <<im>> \o (IF debug THEN <<f>> ELSE <<>>)
  BY DEF Given, Labels
<1> HIDE DEF im, z, y0, y1, r, f, q
<1>3. CASE debug
  <2>1. ExecutionConfig = <<>>
    BY <1>3 DEF ExecutionConfig
  <2>2. Given = <<z, y0, y1, r, q>> /\ Labels = <<im, f>>
    <3>1. /\ <<z, y0, y1>> \o <<r>> \o <<q>> = <<z, y0, y1, r, q>>
          /\ <<im>> \o <<f>> = <<im, f>>
      BY Joined
    <3> QED BY <1>2, <1>3, <3>1
  <2> QED BY <1>1, <2>1, <2>2 DEF ListsAgree
<1>4. CASE ~debug
  <2> DEFINE c == ExecutionConfig[1]
  <2>1. ExecutionConfig # <<>> /\ c.input = 3 /\ c.output = 1 /\ c.type = "feature"
    BY <1>4 DEF ExecutionConfig
  <2>2. Given = <<z, y0, y1, q>> /\ Labels = <<im>>
    <3>1. /\ <<z, y0, y1>> \o <<>> \o <<q>> = <<z, y0, y1, q>>
          /\ <<im>> \o <<>> = <<im>>
      BY Joined
    <3> QED BY <1>2, <1>4, <3>1
  <2> HIDE DEF c
  <2>3. InRange(c) /\ SameType(c) /\ WrittenLast(c) /\ graph.inputs[c.input + 1] = Feature
    BY <1>1, <2>1 DEF InRange, SameType, WrittenLast
  <2>4. LeavesOut(graph.inputs, c.input, Given) /\ LeavesOut(graph.outputs, c.output, Labels)
    BY <1>1, <2>1, <2>2 DEF LeavesOut
  <2>5. Accepts(c) \/ bound # <<>>
    BY <2>3 DEF Accepts, Duplicate, IsStateInput, IsStateOutput
  <2> QED BY <2>1, <2>3, <2>4, <2>5 DEF ListsAgree, c
<1> QED BY <1>3, <1>4

LEMMA ExportedLists ==
  ASSUME DocumentedExport, RoutingTypes, graph = Exported[direction] PROVE ListsAgree
BY EncoderLists, DecoderLists DEF RoutingTypes

\* What the loop calls the outputs.
LabelTensor ==
  [name : {"x_hat", "feature", "z_raw", "y_raw_0", "y_raw_1"},
   type : {"image", "feature", "z", "y"}]

LEMMA LabelFacts == Labels \in Seq(LabelTensor)
<1> DEFINE t(n, y) == T(n, y)
           im == t("x_hat", "image")
           z == t("z_raw", "z")
           y0 == t("y_raw_0", "y")
           y1 == t("y_raw_1", "y")
           f == t("feature", "feature")
<1>1. im \in LabelTensor /\ z \in LabelTensor /\ y0 \in LabelTensor /\ y1 \in LabelTensor
      /\ f \in LabelTensor
  BY DEF LabelTensor, T
<1>2. /\ <<im>> \in Seq(LabelTensor) /\ <<z, y0, y1>> \in Seq(LabelTensor)
      /\ <<f>> \in Seq(LabelTensor) /\ <<>> \in Seq(LabelTensor)
  <2> HIDE DEF im, z, y0, y1, f
  <2> QED BY <1>1
<1>3. Labels = IF direction = "encoder"
               THEN (IF debug THEN <<f>> ELSE <<>>) \o <<z, y0, y1>>
               ELSE <<im>> \o (IF debug THEN <<f>> ELSE <<>>)
  BY DEF Labels
<1> HIDE DEF im, z, y0, y1, f
<1> QED BY <1>2, <1>3

LEMMA LengthFacts ==
  ASSUME RoutingTypes
  PROVE  /\ Len(Given) \in Nat /\ DOMAIN Given = 1..Len(Given)
         /\ Len(Labels) \in Nat /\ DOMAIN Labels = 1..Len(Labels)
         /\ Len(graph.inputs) \in Nat /\ DOMAIN graph.inputs = 1..Len(graph.inputs)
         /\ Len(graph.outputs) \in Nat
<1>1. graph.inputs \in Seq(Tensor) /\ graph.outputs \in Seq(Tensor)
  BY BoundFacts
<1> QED BY <1>1, GivenFacts, LabelFacts

\* A call on an exported graph that has its binding.
Ready ==
  RoutingInv /\ ListsAgree /\ bound = ExecutionConfig

LEMMA CountsFit ==
  ASSUME Ready
  PROVE  InputCount = Len(graph.inputs) /\ CountsAgree
<1>1. RoutingTypes
  BY DEF Ready, RoutingInv
<1>2. CASE bound = <<>>
  <2>1. Len(bound) = 0 /\ InputCount = Len(graph.inputs)
    BY <1>1, <1>2, LengthFacts DEF Ready, ListsAgree, InputCount
  <2> QED BY <2>1 DEF CountsAgree
<1>3. CASE bound # <<>>
  <2>1. Len(bound) = 1 /\ InputCount = Len(graph.inputs)
    BY <1>1, <1>3, LengthFacts, BoundFacts DEF Ready, ListsAgree, InputCount, LeavesOut
  <2>2. bound[1].input < InputCount
    BY <1>3, <2>1 DEF Ready, ListsAgree, InRange
  <2> QED BY <2>1, <2>2 DEF CountsAgree
<1> QED BY <1>2, <1>3

LEMMA NextGivenFits ==
  ASSUME Ready, Dealing, ~IsStateInput(Len(taken))
  PROVE  Fits /\ Given[NextGiven] = graph.inputs[Len(taken) + 1]
<1> DEFINE n == Len(taken)
           g == Len(Given)
           i == bound[1].input
<1>1. /\ RoutingTypes /\ n \in Nat /\ external \in Nat /\ n = external + StatesDealt(n)
      /\ n < Len(graph.inputs)
  BY CountsFit DEF Ready, RoutingInv, DealtSoFar, Dealing
<1>2. g \in Nat /\ Len(graph.inputs) \in Nat
  BY <1>1, LengthFacts
<1>3. NextGiven <= g /\ Given[NextGiven] = graph.inputs[n + 1]
  <2>1. CASE bound = <<>>
    <3>1. external = n /\ Given = graph.inputs
      BY <1>1, <2>1 DEF StatesDealt, Ready, ListsAgree
    <3> QED BY <1>1, <1>2, <3>1 DEF NextGiven
  <2>2. CASE bound # <<>>
    <3>1. /\ i \in Nat /\ i # n /\ i < Len(graph.inputs)
          /\ Len(graph.inputs) = g + 1
          /\ \A k \in 1..g : Given[k] = graph.inputs[IF k <= i THEN k ELSE k + 1]
      BY <1>1, <2>2, BoundFacts DEF Ready, ListsAgree, InRange, LeavesOut
    <3>2. n = external + (IF i < n THEN 1 ELSE 0)
      BY <1>1, <2>2 DEF StatesDealt
    <3> HIDE DEF n, g, i
    <3>3. CASE i < n
      <4>1. external + 1 = n /\ n \in 1..g /\ ~(n <= i)
        BY <1>1, <1>2, <3>1, <3>2, <3>3
      <4> QED BY <3>1, <4>1 DEF NextGiven, g
    <3>4. CASE n < i
      <4>1. external = n /\ n + 1 \in 1..g /\ n + 1 <= i
        BY <1>1, <1>2, <3>1, <3>2, <3>4
      <4> QED BY <3>1, <4>1 DEF NextGiven, g
    <3> QED BY <1>1, <3>1, <3>3, <3>4
  <2> QED BY <2>1, <2>2
<1> QED BY <1>3 DEF Fits

LEMMA ElementRemoved ==
  ASSUME NEW S, NEW s \in Seq(S), NEW i \in Nat, i < Len(s),
         NEW k \in 1..(Len(s) - 1)
  PROVE  RemoveAt(s, i + 1)[k] = s[IF k <= i THEN k ELSE k + 1]
<1> DEFINE front == SubSeq(s, 1, (i + 1) - 1)
           back == SubSeq(s, (i + 1) + 1, Len(s))
<1>1. Len(s) \in Nat
  OBVIOUS
<1>2. front \in Seq(S) /\ Len(front) = i /\ \A j \in 1..i : front[j] = s[j]
  BY <1>1
<1>3. /\ back \in Seq(S) /\ Len(back) = (Len(s) - i) - 1
      /\ \A j \in 1..((Len(s) - i) - 1) : back[j] = s[j + i + 1]
  BY <1>1
<1>4. RemoveAt(s, i + 1) = front \o back
  BY DEF RemoveAt
<1> HIDE DEF front, back
<1>5. CASE k <= i
  <2>1. k \in 1..Len(front) /\ k \in 1..i
    BY <1>1, <1>2, <1>5
  <2>2. (front \o back)[k] = front[k]
    BY <1>2, <1>3, <2>1
  <2> QED BY <1>2, <1>4, <1>5, <2>1, <2>2
<1>6. CASE k > i
  <2> DEFINE j == k - i
  <2>1. j \in 1..Len(back) /\ j \in 1..((Len(s) - i) - 1) /\ k = Len(front) + j
        /\ j + i + 1 = k + 1 /\ ~(k <= i)
    BY <1>1, <1>2, <1>3, <1>6
  <2> HIDE DEF j
  <2>2. (front \o back)[Len(front) + j] = back[j]
    BY <1>2, <1>3, <2>1
  <2> QED BY <1>3, <1>4, <2>1, <2>2
<1> QED BY <1>1, <1>5, <1>6

LEMMA ReturnedAsLabelled ==
  ASSUME Ready
  PROVE  /\ Len(Returned) = Len(Labels)
         /\ \A k \in 1..Len(Labels) : Returned[k] = Labels[k]
<1>1. RoutingTypes
  BY DEF Ready, RoutingInv
<1>2. CASE bound = <<>>
  BY <1>2 DEF Ready, ListsAgree, Returned
<1>3. CASE bound # <<>>
  <2> DEFINE o == bound[1].output
             s == graph.outputs
             l == Len(Labels)
  <2>1. /\ o \in Nat /\ s \in Seq(Tensor) /\ l \in Nat /\ Len(s) \in Nat
        /\ o < Len(s) /\ Len(s) = l + 1 /\ Returned = RemoveAt(s, o + 1)
        /\ \A k \in 1..l : Labels[k] = s[IF k <= o THEN k ELSE k + 1]
    <3>1. bound = ExecutionConfig /\ ExecutionConfig # <<>> /\ ListsAgree
      BY <1>3 DEF Ready
    <3>2. o \in Nat /\ s \in Seq(Tensor) /\ l \in Nat /\ Len(s) \in Nat
      BY <1>1, <1>3, BoundFacts, LengthFacts
    <3>3. o < Len(s) /\ LeavesOut(s, o, Labels)
      BY <3>1 DEF ListsAgree, InRange
    <3>4. Returned = RemoveAt(s, o + 1)
      BY <1>3 DEF Returned
    <3> QED BY <3>2, <3>3, <3>4 DEF LeavesOut
  <2> HIDE DEF o, s, l
  <2>2. Len(Returned) = l
    <3>1. Len(RemoveAt(s, o + 1)) = Len(s) - 1
      BY <2>1, OutputRemoved
    <3> QED BY <2>1, <3>1
  <2>3. ASSUME NEW k \in 1..l PROVE Returned[k] = Labels[k]
    <3>1. k \in 1..(Len(s) - 1)
      BY <2>1
    <3> QED BY <2>1, <3>1, ElementRemoved
  <2> QED BY <2>2, <2>3 DEF l
<1> QED BY <1>2, <1>3

LEMMA NamesFound ==
  ASSUME Ready, ExecutionConfig # <<>>
  PROVE  FoundByName
<1> DEFINE r == bound[1]
<1>1. /\ RoutingTypes /\ bound # <<>>
      /\ r.input \in Nat /\ r.output \in Nat
      /\ LeavesOut(graph.inputs, r.input, Given)
      /\ LeavesOut(graph.outputs, r.output, Labels)
      /\ \A p : IsStateInput(p) <=> r.input = p
      /\ \A p : IsStateOutput(p) <=> r.output = p
  <2>1. RoutingTypes /\ bound # <<>>
    BY DEF Ready, RoutingInv
  <2>2. Len(bound) = 1
    BY <2>1, BoundFacts
  <2>3. \A p : IsStateOutput(p) <=> r.output = p
    BY <2>2 DEF IsStateOutput
  <2> QED BY <2>1, <2>3, BoundFacts DEF Ready, ListsAgree
<1> HIDE DEF r
<1>2. Range(Given) \subseteq ShownInputs
  <2> SUFFICES ASSUME NEW k \in 1..Len(Given)
               PROVE  Given[k] \in ShownInputs
    BY <1>1, LengthFacts DEF Range
  <2> DEFINE j == IF k <= r.input THEN k ELSE k + 1
  <2>1. j \in 1..Len(graph.inputs) /\ j - 1 # r.input
    BY <1>1, LengthFacts DEF LeavesOut
  <2>2. Given[k] = graph.inputs[j]
    BY <1>1 DEF LeavesOut
  <2> HIDE DEF j
  <2> QED BY <1>1, <2>1, <2>2 DEF ShownInputs
<1>3. Range(Labels) \subseteq ShownOutputs
  <2> SUFFICES ASSUME NEW k \in 1..Len(Labels)
               PROVE  Labels[k] \in ShownOutputs
    BY <1>1, LengthFacts DEF Range
  <2> DEFINE j == IF k <= r.output THEN k ELSE k + 1
  <2>1. j \in 1..Len(graph.outputs) /\ j - 1 # r.output
    BY <1>1, LengthFacts DEF LeavesOut
  <2>2. Labels[k] = graph.outputs[j]
    BY <1>1 DEF LeavesOut
  <2> HIDE DEF j
  <2> QED BY <1>1, <2>1, <2>2 DEF ShownOutputs
<1> QED BY <1>2, <1>3 DEF FoundByName

\* Whoever fills the inputs by name fills them as the graph is declared.
LEMMA DealtIsDeclared ==
  ASSUME Ready, ExecutionConfig # <<>>,
         NEW S, NEW deal \in [1..Len(graph.inputs) -> S], Dealt(deal)
  PROVE  deal = graph.inputs
<1> DEFINE r == bound[1]
<1>1. /\ RoutingTypes /\ bound # <<>> /\ r.input \in Nat /\ r.input < Len(graph.inputs)
      /\ LeavesOut(graph.inputs, r.input, Given)
      /\ graph.inputs[r.input + 1] = Feature
      /\ \A p : IsStateInput(p) <=> r.input = p
      /\ graph.inputs \in Seq(Tensor)
  BY BoundFacts DEF Ready, RoutingInv, ListsAgree, InRange
<1> HIDE DEF r
<1>2. ASSUME NEW j \in 1..Len(graph.inputs) PROVE deal[j] = graph.inputs[j]
  <2>1. CASE j - 1 = r.input
    <3>1. deal[j] = Feature
      BY <1>1, <2>1 DEF Dealt, Feature
    <3>2. j = r.input + 1
      BY <1>1, <2>1
    <3> QED BY <1>1, <3>1, <3>2
  <2>2. CASE j - 1 # r.input
    <3> DEFINE k == IF j <= r.input THEN j ELSE j - 1
    <3>1. k \in 1..Len(Given) /\ j = (IF k <= r.input THEN k ELSE k + 1)
      BY <1>1, <2>2, LengthFacts DEF LeavesOut
    <3> HIDE DEF k
    <3>2. Given[k] = graph.inputs[j]
      BY <1>1, <3>1 DEF LeavesOut
    <3>3. graph.inputs[j] \in Range(Given)
      BY <1>1, <3>1, <3>2, LengthFacts DEF Range
    <3> QED BY <1>1, <2>2, <3>3 DEF Dealt
  <2> QED BY <2>1, <2>2
<1>3. DOMAIN graph.inputs = 1..Len(graph.inputs) /\ graph.inputs \in [1..Len(graph.inputs) -> Tensor]
  BY <1>1
<1> QED BY <1>2, <1>3

LEMMA ServedStep ==
  ASSUME DocumentedExport, RoutingInv, Served, [RoutingNext]_routingVars,
         graph = Exported[direction]
  PROVE  Served'
<1>1. /\ RoutingTypes /\ ListsAgree
      /\ status \in {"loading", "running", "named"}
      /\ status = "running" =>
           /\ bound = ExecutionConfig
           /\ Len(taken) <= Len(graph.inputs)
           /\ \A k \in 1..Len(taken) : taken[k] = graph.inputs[k]
      /\ status = "loading" => taken = <<>>
  BY ExportedLists DEF RoutingInv, DealtSoFar, Served
<1>2. Len(bound) = Len(ExecutionConfig) => bound = ExecutionConfig
  BY <1>1, OneBinding DEF RoutingTypes
<1>3. CASE Bind
  BY <1>3 DEF Bind, Unbound, Served
<1>4. ASSUME Refuse PROVE FALSE
  <2>1. Len(bound) < Len(ExecutionConfig) /\ ~Accepts(NextRequest)
    BY <1>4 DEF Refuse, Unbound
  <2>2. bound = <<>> /\ ExecutionConfig # <<>> /\ Len(bound) = 0
    BY <1>1, <2>1, OneBinding DEF RoutingTypes
  <2>3. NextRequest = ExecutionConfig[1]
    BY <2>2 DEF NextRequest
  <2> QED BY <1>1, <2>1, <2>2, <2>3 DEF ListsAgree
<1>5. CASE StartRun
  <2>1. bound = ExecutionConfig /\ taken = <<>> /\ Len(taken) = 0
    BY <1>1, <1>2, <1>5 DEF StartRun, Loaded
  <2>2. Ready
    BY <1>1, <2>1 DEF Ready
  <2>3. /\ status' = "running" /\ taken' = taken /\ graph' = graph /\ bound' = bound
        /\ ExecutionConfig' = ExecutionConfig
    BY <1>5, <2>2, CountsFit DEF StartRun, setup, ExecutionConfig
  <2>4. Len(graph.inputs) \in Nat
    BY <1>1, LengthFacts
  <2> QED BY <2>1, <2>3, <2>4 DEF Served
<1>6. ASSUME Dealing, NEW t,
             taken' = Append(taken, t), t = graph.inputs[Len(taken) + 1],
             status' = status, UNCHANGED <<setup, bound>>
      PROVE  Served'
  <2>1. status = "running" /\ bound = ExecutionConfig /\ Ready
    BY <1>1, <1>6 DEF Dealing, Ready
  <2>2. Len(taken) < Len(graph.inputs) /\ taken \in Seq(HostTensor)
    BY <1>6, <2>1, CountsFit DEF Dealing, RoutingInv, DealtSoFar
  <2>3. /\ Len(taken) \in Nat /\ Len(taken') = Len(taken) + 1
        /\ \A k \in 1..Len(taken') :
             taken'[k] = IF k <= Len(taken) THEN taken[k] ELSE t
    BY <1>6, <2>2
  <2>4. ASSUME NEW k \in 1..Len(taken') PROVE taken'[k] = graph.inputs[k]
    <3>1. CASE k <= Len(taken)
      BY <1>1, <2>1, <2>3, <3>1
    <3>2. CASE ~(k <= Len(taken))
      <4>1. k = Len(taken) + 1
        BY <2>3, <3>2
      <4> QED BY <1>6, <2>3, <3>2, <4>1
    <3> QED BY <3>1, <3>2
  <2>5. Len(graph.inputs) \in Nat
    BY <1>1, LengthFacts
  <2>6. ExecutionConfig' = ExecutionConfig /\ graph' = graph /\ bound' = bound
    BY <1>6 DEF setup, ExecutionConfig
  <2> QED BY <1>6, <2>1, <2>2, <2>3, <2>4, <2>5, <2>6 DEF Served
<1>7. CASE TakeState
  <2>1. Ready
    BY <1>1, <1>7 DEF TakeState, Dealing, Ready
  <2>2. bound # <<>> /\ bound[1].input = Len(taken)
    BY <1>1, <1>7, BoundFacts DEF TakeState
  <2>3. graph.inputs[Len(taken) + 1] = T("ref_feature", "feature")
    BY <2>1, <2>2 DEF Ready, ListsAgree, Feature
  <2> QED BY <1>6, <1>7, <2>3 DEF TakeState
<1>8. CASE TakeExternal
  <2>1. Ready
    BY <1>1, <1>8 DEF TakeExternal, Dealing, Ready
  <2>2. Given[NextGiven] = graph.inputs[Len(taken) + 1]
    BY <1>8, <2>1, NextGivenFits DEF TakeExternal
  <2> QED BY <1>6, <1>8, <2>2 DEF TakeExternal
<1>9. ASSUME TakeThrows PROVE FALSE
  <2>1. Ready
    BY <1>1, <1>9 DEF TakeThrows, Dealing, Ready
  <2> QED BY <1>9, <2>1, NextGivenFits DEF TakeThrows
<1>10. CASE Finish
  <2>1. Ready /\ status = "running" /\ Len(taken) = InputCount
    BY <1>1, <1>10 DEF Finish, Ready
  <2>2. Len(taken) = Len(graph.inputs) /\ \A k \in 1..Len(taken) : taken[k] = graph.inputs[k]
    BY <1>1, <2>1, CountsFit
  <2>3. RuntimeAccepts
    BY <2>2 DEF RuntimeAccepts
  <2>4. StateReturned
    <3>1. Len(bound) = 0 \/ (bound # <<>> /\ Len(bound) = 1)
      BY <1>1, BoundFacts
    <3> QED BY <2>1, <3>1 DEF StateReturned, Ready, ListsAgree, InRange, SameType
  <2>5. OutputsValid
    BY <2>1, ReturnedAsLabelled DEF OutputsValid
  <2>6. taken = graph.inputs
    <3> DEFINE S == HostTensor \cup Tensor
    <3>1. taken \in Seq(HostTensor) /\ graph.inputs \in Seq(Tensor)
      BY <1>1, <2>1, BoundFacts DEF RoutingInv, DealtSoFar
    <3>2. taken \in Seq(S) /\ graph.inputs \in Seq(S)
      BY <3>1
    <3> HIDE DEF S
    <3> QED BY <2>2, <3>2, SameSequence
  <2>7. status' = "named" /\ results' = Returned /\ taken' = taken /\ UNCHANGED setup
    BY <1>10, <2>3, <2>4, <2>5 DEF Finish
  <2>8. Labels' = Labels
    BY <2>7 DEF setup, Labels
  <2> QED BY <2>1, <2>6, <2>7, <2>8, ReturnedAsLabelled DEF Served, setup
<1>11. CASE RunByName
  <2>1. bound = ExecutionConfig /\ Buffered /\ ExecutionConfig # <<>>
    BY <1>2, <1>11 DEF RunByName, Loaded, Buffered, ExecutionConfig
  <2>2. Ready
    BY <1>1, <2>1 DEF Ready
  <2>3. taken' = graph.inputs
    BY <1>11, <2>1, <2>2, DealtIsDeclared DEF RunByName
  <2>4. status' = "named" /\ results' = Labels /\ UNCHANGED setup
    BY <1>11 DEF RunByName
  <2>5. Labels' = Labels
    BY <2>4 DEF setup, Labels
  <2> QED BY <2>3, <2>4, <2>5 DEF Served, setup
<1>12. ASSUME NameMissing PROVE FALSE
  <2>1. bound = ExecutionConfig /\ ExecutionConfig # <<>>
    BY <1>2, <1>12 DEF NameMissing, Loaded, Buffered, ExecutionConfig
  <2>2. Ready
    BY <1>1, <2>1 DEF Ready
  <2> QED BY <1>12, <2>1, <2>2, NamesFound DEF NameMissing
<1>13. CASE UNCHANGED routingVars
  BY <1>13 DEF routingVars, setup, Served, ExecutionConfig, Labels
<1> QED BY <1>3, <1>4, <1>5, <1>7, <1>8, <1>9, <1>10, <1>11, <1>12, <1>13 DEF RoutingNext

(***************************************************************************)
(* docs/design.md:51-68, pipeline.cpp:185-200, 564-592, 682-700: a bundle  *)
(* with the documented graphs is served by every backend, the feature      *)
(* bound or carried by the loop, and each tensor arrives under its own     *)
(* name, in and out, whatever else the final node produces.                *)
(***************************************************************************)
THEOREM DocumentedGraphIsServed ==
  ASSUME DocumentedExport
  PROVE  RoutingSpec => []ExportedGraphIsServed
<1>1. RoutingInit => Served
  BY DEF RoutingInit, Served
<1>2. RoutingInv /\ Served /\ [RoutingNext]_routingVars => Served'
  <2>1. SUFFICES ASSUME RoutingInv, Served, [RoutingNext]_routingVars PROVE Served'
    OBVIOUS
  <2>2. graph' = graph /\ direction' = direction
    BY <2>1 DEF RoutingNext, routingVars, setup, Bind, Refuse, StartRun, TakeState,
                TakeExternal, TakeThrows, Finish, RunByName, NameMissing
  <2>3. CASE graph = Exported[direction]
    BY <2>1, <2>3, ServedStep
  <2>4. CASE graph # Exported[direction]
    BY <2>2, <2>4 DEF Served
  <2> QED BY <2>3, <2>4
<1>3. Served => ExportedGraphIsServed
  BY DEF Served, ExportedGraphIsServed
<1> QED BY <1>1, <1>2, <1>3, RoutingInductive, PTL DEF RoutingSpec

=============================================================================
