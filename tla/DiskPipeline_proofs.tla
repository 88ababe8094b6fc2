------------------------ MODULE DiskPipeline_proofs ------------------------
(***************************************************************************)
(* Theorems about DiskPipeline, for every number of disks, threads and     *)
(* invocations and every choice of settings: types; that what has a final  *)
(* name is complete; that sources are kept; that an image a run lists is   *)
(* there (Listed), and is the run's own image of its disk (OwnParts).      *)
(***************************************************************************)
EXTENDS DiskPipeline, FiniteSetTheorems, SequenceTheorems, TLAPS

Final(p) == p[1] \in {"flat", "out"}

\* Files belong to invocations up to this one.
NotNewer == \A p \in Paths : Exists(p) => files[p][3] <= run

\* Under a final name is a file that its writer of this invocation is through
\* with.
Through ==
    \A p \in Paths : Final(p) /\ Exists(p) =>
        LET f == files[p]
        IN  /\ f[1] \in {"first", "second", "out"}
            /\ f[3] = run /\ f[1] # "out" =>
                  pc[f[2]] \in {"fix", "convert", "converting", "done", "failed"}
            /\ f[3] = run /\ f[1] = "out" => pc[f[2]] = "done"

Flattening == {"attempt", "copying", "replace"}

\* Files in progress are under the names their writers gave them.
InPlace ==
    \A d \in Disks :
        /\ pc[d] \in {"copying", "replace"} => files[Tmp(d)] = Copy(d)
        /\ pc[d] = "replace" => data[Copy(d)].whole
        /\ pc[d] = "converting" => files[Part(d)] = OutInode(d)

\* Two disks that are flattened have working files of different seconds.
OneEach ==
    /\ \A d \in Disks : stamp[d] <= now
    /\ \A d, e \in Disks : d # e /\ pc[d] \in Flattening /\ pc[e] \in Flattening
                           => stamp[d] # stamp[e]

-----------------------------------------------------------------------------
(* Types.                                                                  *)

\* The names and the inodes a disk's steps use exist.
LEMMA Names ==
    ASSUME StateOK, NEW d \in Disks
    PROVE  /\ Tmp(d) \in Paths /\ Flat(d) \in Paths /\ Part(d) \in Paths
           /\ Out(d) \in Paths /\ <<"input", d>> \in Paths
           /\ Copy(d) \in Inodes /\ OutInode(d) \in Inodes
BY DEF StateOK, Tmp, Flat, Part, Out, Copy, OutInode, Paths, Inodes

\* What an image holds stays of its type when a field changes.
LEMMA Held ==
    ASSUME NEW c \in Contents
    PROVE  /\ [c EXCEPT !.whole = FALSE] \in Contents
           /\ [c EXCEPT !.whole = TRUE] \in Contents
           /\ [c EXCEPT !.fixed = TRUE] \in Contents
BY DEF Contents

\* Init assigns values of the right types.
LEMMA StateInit == Init => StateOK
<1> SUFFICES ASSUME Init PROVE StateOK
  OBVIOUS
<1> USE PipelineAssumption
<1>1. opt \in Settings /\ run \in Runs /\ phase = "discover" /\ now \in Stamps
  BY DEF Init, Runs, Stamps
<1>2. /\ pc \in [Disks -> {"queued"}] /\ try \in [Disks -> Attempts]
      /\ stamp \in [Disks -> Stamps] /\ working \in [Disks -> Paths]
  <2>1. 1 \in Attempts /\ 0 \in Stamps /\ \A d \in Disks : <<"input", d>> \in Paths
    BY DEF Attempts, Stamps, Paths
  <2> QED  BY <2>1 DEF Init, Idle
<1>3. files \in [Paths -> Inodes \cup {NoFile}]
  <2>1. PICK here \in SUBSET Disks :
          files = [p \in Paths |-> IF p[1] = "input" /\ p[2] \in here
                                    THEN <<"input", p[2], 1>> ELSE NoFile]
    BY DEF Init
  <2>2. \A d \in Disks : <<"input", d, 1>> \in Inodes
    BY DEF Inodes, Runs
  <2> QED  BY <2>1, <2>2
<1>4. data \in [Inodes -> Contents]
  <2>1. \A f \in Inodes : f[2] \in Disks
    BY DEF Inodes
  <2>2. \A d \in Disks : Source(d) \in Contents /\ Fresh(d) \in Contents
    BY DEF Source, Fresh, Contents
  <2> QED  BY <2>1, <2>2 DEF Init
<1> QED  BY <1>1, <1>2, <1>3, <1>4 DEF StateOK

\* What virt-v2v writes is in its own directories.
V2vNames(W) == \A p \in W : p[1] \in {"v2v", "post", "jobs"}

\* The steps that have virt-v2v write, and what they leave alone.
LEMMA V2vSteps ==
    ASSUME PreV2v \/ PostV2v
    PROVE  \E W : V2vNames(W) /\ V2vWrites(W)
<1>1. CASE PreV2v
  <2>1. PICK S : V2vWrites({"v2v"} \X S)
    BY <1>1 DEF PreV2v
  <2>2. V2vNames({"v2v"} \X S)
    BY DEF V2vNames
  <2> QED  BY <2>1, <2>2
<1>2. CASE PostV2v
  <2>1. PICK S : V2vWrites({PostImage(k) : k \in S})
    BY <1>2 DEF PostV2v
  <2>2. V2vNames({PostImage(k) : k \in S})
    BY DEF V2vNames, PostImage
  <2> QED  BY <2>1, <2>2
<1> QED  BY <1>1, <1>2

\* A name virt-v2v writes under gets a file of this invocation, and no other
\* name or file changes.
LEMMA V2vFrame ==
    ASSUME StateOK, NEW W, V2vNames(W), V2vWrites(W)
    PROVE  /\ files' \in [Paths -> Inodes \cup {NoFile}]
           /\ data' \in [Inodes -> Contents]
           /\ \A p \in Paths : files'[p] = IF p \in W THEN <<p[1], p[2], run>> ELSE files[p]
           /\ \A p \in Paths \cap W : p[1] \in {"v2v", "post", "jobs"}
                                   /\ <<p[1], p[2], run>> \in Inodes
                                   /\ data'[<<p[1], p[2], run>>]
                                        = [of |-> p[2], whole |-> TRUE, fixed |-> TRUE]
           /\ \A f \in Inodes : \/ data'[f] = data[f]
                                 \/ /\ f[1] \in {"v2v", "post", "jobs"}
                                    /\ data'[f] = [of |-> f[2], whole |-> TRUE, fixed |-> TRUE]
<1>1. ASSUME NEW p \in Paths, p \in W
      PROVE  p[1] \in {"v2v", "post", "jobs"} /\ <<p[1], p[2], run>> \in Inodes
  <2>1. p[1] \in {"v2v", "post", "jobs"}
    BY <1>1 DEF V2vNames
  <2>2. p[2] \in Disks
    BY <2>1 DEF Paths
  <2> QED  BY <2>1, <2>2 DEF Inodes, StateOK
<1>2. \A p \in Paths : files'[p] = IF p \in W THEN <<p[1], p[2], run>> ELSE files[p]
  BY DEF V2vWrites
<1>3. files' \in [Paths -> Inodes \cup {NoFile}]
  BY <1>1 DEF StateOK, V2vWrites
<1>4. ASSUME NEW f \in Inodes, NEW p \in W, f = <<p[1], p[2], run>>
      PROVE  f[1] \in {"v2v", "post", "jobs"}
  BY <1>4 DEF V2vNames
<1>5. \A f \in Inodes : data'[f] = IF \E p \in W : f = <<p[1], p[2], run>>
                                  THEN [of |-> f[2], whole |-> TRUE, fixed |-> TRUE]
                                  ELSE data[f]
  BY DEF V2vWrites
<1>6. \A f \in Inodes : \/ data'[f] = data[f]
                        \/ /\ f[1] \in {"v2v", "post", "jobs"}
                           /\ data'[f] = [of |-> f[2], whole |-> TRUE, fixed |-> TRUE]
  BY <1>4, <1>5
<1>7. \A f \in Inodes : [of |-> f[2], whole |-> TRUE, fixed |-> TRUE] \in Contents
  BY DEF Inodes, Contents
<1>8. data' \in [Inodes -> Contents]
  BY <1>5, <1>7 DEF StateOK, V2vWrites
<1>9. ASSUME NEW p \in Paths \cap W
      PROVE  data'[<<p[1], p[2], run>>] = [of |-> p[2], whole |-> TRUE, fixed |-> TRUE]
  <2>1. <<p[1], p[2], run>> \in Inodes
    BY <1>1
  <2> DEFINE f == <<p[1], p[2], run>>
  <2>2. data'[f] = [of |-> f[2], whole |-> TRUE, fixed |-> TRUE]
    BY <1>5, <2>1
  <2>3. f[2] = p[2]
    OBVIOUS
  <2> QED  BY <2>2, <2>3
<1> QED  BY <1>1, <1>2, <1>3, <1>6, <1>8, <1>9

\* Every step keeps the types.
LEMMA StateStep == StateOK /\ [Next]_vars => StateOK'
<1> SUFFICES ASSUME StateOK, [Next]_vars PROVE StateOK'
  OBVIOUS
<1> USE PipelineAssumption
<1>1. CASE UNCHANGED vars
  BY <1>1 DEF vars, StateOK
<1>2. CASE Discover
  <2>1. \A d \in Disks : <<"input", d, run>> \in Inodes
    BY DEF StateOK, Inodes
  <2>2. \A p \in Paths : p[1] = "input" => p[2] \in Disks
    BY DEF Paths
  <2>3. files' \in [Paths -> Inodes \cup {NoFile}] /\ data' \in [Inodes -> Contents]
    BY <1>2, <2>1, <2>2 DEF Discover, store, StateOK
  <2> QED  BY <1>2, <2>3 DEF Discover, Enter, worker, StateOK
<1>3. CASE PreV2v \/ PostV2v
  <2>1. PICK W : V2vNames(W) /\ V2vWrites(W)
    BY <1>3, V2vSteps
  <2>2. files' \in [Paths -> Inodes \cup {NoFile}] /\ data' \in [Inodes -> Contents]
    BY <2>1, V2vFrame
  <2>3. phase' \in {"process", "post", "test"} /\ UNCHANGED <<opt, run, worker>>
    BY <1>3 DEF PreV2v, PostV2v, Enter
  <2> QED  BY <2>2, <2>3 DEF worker, StateOK
<1>5. CASE DiscoverFail \/ PreV2vFail \/ Collect \/ DieOnFailure \/ PostV2vFail
           \/ Test \/ TestFail
  BY <1>5 DEF DiscoverFail, PreV2vFail, Collect, DieOnFailure, PostV2vFail, Test,
              TestFail, Enter, worker, store, StateOK
<1>6. CASE Cleanup
  BY <1>6 DEF Cleanup, Enter, worker, StateOK
<1>7. CASE Rerun
  <2>1. run' \in Runs
    BY <1>7 DEF Rerun, StateOK, Runs
  <2>2. /\ pc' \in [Disks -> {"queued"}] /\ try' \in [Disks -> Attempts]
        /\ stamp' \in [Disks -> Stamps] /\ working' \in [Disks -> Paths]
    BY <1>7 DEF Rerun, Attempts, Stamps, Paths
  <2> QED  BY <1>7, <2>1, <2>2 DEF Rerun, store, StateOK
<1>8. ASSUME NEW d \in Disks, Process(d) PROVE StateOK'
  <2>1. /\ Tmp(d) \in Paths /\ Flat(d) \in Paths /\ Part(d) \in Paths
        /\ Out(d) \in Paths /\ <<"input", d>> \in Paths
        /\ Copy(d) \in Inodes /\ OutInode(d) \in Inodes
    BY Names
  <2>2. UNCHANGED <<opt, run, phase>>
    BY <1>8 DEF Process, Start, Missing, FlattenBegin, FlattenEnd, FlattenFail, Publish,
                Fix, FixFail, ConvertBegin, ConvertEnd, ConvertFail
  <2>3. CASE Start(d)
    BY <2>2, <2>3 DEF Start, Goto, store, StateOK
  <2>4. CASE Missing(d) \/ FixFail(d)
    BY <2>2, <2>4 DEF Missing, FixFail, Goto, store, StateOK
  <2>5. CASE FlattenBegin(d)
    <3>1. [Image(<<"input", d>>) EXCEPT !.whole = FALSE] \in Contents
      BY <2>1, <2>5, Held DEF FlattenBegin, Exists, Image, StateOK
    <3> QED  BY <2>1, <2>2, <2>5, <3>1 DEF FlattenBegin, Goto, StateOK
  <2>6. CASE FlattenEnd(d)
    <3>1. [data[Copy(d)] EXCEPT !.whole = TRUE] \in Contents
      BY <2>1, Held DEF StateOK
    <3> QED  BY <2>1, <2>2, <2>6, <3>1 DEF FlattenEnd, Goto, StateOK
  <2>7. CASE FlattenFail(d)
    <3>1. try' \in [Disks -> Attempts]
      BY <2>7 DEF FlattenFail, TryAgain, StateOK, Attempts
    <3> QED  BY <2>1, <2>2, <2>7, <3>1 DEF FlattenFail, Goto, StateOK
  <2>8. CASE Publish(d)
    BY <2>1, <2>2, <2>8 DEF Publish, Exists, Goto, StateOK
  <2>9. CASE Fix(d)
    <3>1. files[working[d]] \in Inodes
      BY <2>9 DEF Fix, Target, Exists, StateOK
    <3>2. [data[files[working[d]]] EXCEPT !.fixed = TRUE] \in Contents
      BY <3>1, Held DEF StateOK
    <3> QED  BY <2>2, <2>9, <3>1, <3>2 DEF Fix, Target, Goto, StateOK
  <2>10. CASE ConvertBegin(d)
    <3>1. [Image(working[d]) EXCEPT !.whole = FALSE] \in Contents
      BY <2>10, Held DEF ConvertBegin, Exists, Image, StateOK
    <3> QED  BY <2>1, <2>2, <2>10, <3>1 DEF ConvertBegin, Goto, StateOK
  <2>11. CASE ConvertEnd(d)
    <3>1. [data[OutInode(d)] EXCEPT !.whole = TRUE] \in Contents
      BY <2>1, Held DEF StateOK
    <3> QED  BY <2>1, <2>2, <2>11, <3>1 DEF ConvertEnd, Result, Goto, StateOK
  <2>12. CASE ConvertFail(d)
    BY <2>1, <2>2, <2>12 DEF ConvertFail, Goto, StateOK
  <2> QED
    BY <1>8, <2>3, <2>4, <2>5, <2>6, <2>7, <2>8, <2>9, <2>10, <2>11, <2>12 DEF Process
<1> QED
  BY <1>1, <1>2, <1>3, <1>5, <1>6, <1>7, <1>8 DEF Next, Orchestrate

-----------------------------------------------------------------------------
(* The list of images.                                                     *)

\* A listing of disks has every position up to its length and rises.
LEMMA Increases ==
    ASSUME NEW S \in SUBSET Disks, NEW s \in Increasing(S)
    PROVE  /\ s \in Seq(S) /\ DOMAIN s = 1..Len(s)
           /\ \A i \in DOMAIN s : s[i] \in S
           /\ \A i, j \in DOMAIN s : i < j => s[i] < s[j]
<1>1. IsFiniteSet(Disks)
  BY PipelineAssumption, FS_Interval DEF Disks
<1>2. Cardinality(S) \in Nat
  BY <1>1, FS_Subset, FS_CardinalityType
<1>3. s \in [1..Cardinality(S) -> S] /\ \A i, j \in DOMAIN s : i < j => s[i] < s[j]
  BY DEF Increasing
<1> HIDE DEF Increasing
<1>4. s \in Seq(S) /\ Len(s) = Cardinality(S)
  BY <1>2, <1>3
<1> QED  BY <1>3, <1>4

\* There are finitely many names.
LEMMA PathsFinite == IsFiniteSet(Paths)
<1> USE PipelineAssumption
<1>1. N \in Int /\ 1 \in Int /\ 0 \in Int /\ N * MaxRuns \in Int
  OBVIOUS
<1>2. IsFiniteSet(Disks) /\ IsFiniteSet(Stamps)
  BY <1>1, FS_Interval DEF Disks, Stamps
<1>3. /\ IsFiniteSet({"input", "part", "out", "v2v", "post"})
      /\ IsFiniteSet({"tmp", "flat"})
  <2>1. IsFiniteSet({}) /\ IsFiniteSet({"input"} \cup {})
    BY FS_EmptySet, FS_AddElement
  <2>2. IsFiniteSet({"input"})
    <3>1. {"input"} \cup {} = {"input"}
      OBVIOUS
    <3> QED  BY <2>1, <3>1
  <2>3. IsFiniteSet({"input"} \cup {"part"})
    BY <2>2, FS_AddElement
  <2>4. IsFiniteSet(({"input"} \cup {"part"}) \cup {"out"})
    BY <2>3, FS_AddElement
  <2>5. IsFiniteSet((({"input"} \cup {"part"}) \cup {"out"}) \cup {"v2v"})
    BY <2>4, FS_AddElement
  <2>6. IsFiniteSet(((({"input"} \cup {"part"}) \cup {"out"}) \cup {"v2v"}) \cup {"post"})
    BY <2>5, FS_AddElement
  <2>7. (((({"input"} \cup {"part"}) \cup {"out"}) \cup {"v2v"}) \cup {"post"})
          = {"input", "part", "out", "v2v", "post"}
    OBVIOUS
  <2>8. IsFiniteSet({} \cup {"tmp"}) /\ {} \cup {"tmp"} = {"tmp"}
    BY <2>1, FS_AddElement
  <2>9. IsFiniteSet({"tmp"} \cup {"flat"}) /\ {"tmp"} \cup {"flat"} = {"tmp", "flat"}
    BY <2>8, FS_AddElement
  <2> QED  BY <2>6, <2>7, <2>9
<1>4. IsFiniteSet({"jobs"} \X Disks \X Disks)
  <2> DEFINE f == [x \in Disks \X Disks |-> <<"jobs", x[1], x[2]>>]
  <2>1. IsFiniteSet(Disks \X Disks)
    BY <1>2, FS_Product
  <2>2. f \in [Disks \X Disks -> {"jobs"} \X Disks \X Disks]
    OBVIOUS
  <2>3. ASSUME NEW y \in {"jobs"} \X Disks \X Disks
        PROVE  \E x \in Disks \X Disks : f[x] = y
    <3>1. <<y[2], y[3]>> \in Disks \X Disks /\ y = <<"jobs", y[2], y[3]>>
      OBVIOUS
    <3> QED  BY <3>1
  <2>4. f \in Surjection(Disks \X Disks, {"jobs"} \X Disks \X Disks)
    BY <2>2, <2>3 DEF Surjection
  <2> QED  BY <2>1, <2>4, FS_Surjection
<1>5. /\ IsFiniteSet({"input", "part", "out", "v2v", "post"} \X Disks)
      /\ IsFiniteSet({"tmp", "flat"} \X Stamps)
  BY <1>2, <1>3, FS_Product
<1> QED  BY <1>4, <1>5, FS_Union DEF Paths

\* The images listed are those that are there, in the order they are found.
LEMMA Listing ==
    ASSUME NEW P \in SUBSET Paths, NEW u \in Images(P)
    PROVE  /\ u \in Seq(Paths) /\ DOMAIN u = 1..Len(u)
           /\ \A i \in DOMAIN u : u[i] \in P /\ files'[u[i]] # NoFile
           /\ \A i, j \in DOMAIN u : i < j => Before(u[i], u[j])
<1> DEFINE T == {p \in P : files'[p] # NoFile}
<1>1. /\ u \in [1..Cardinality(T) -> T]
      /\ \A i, j \in DOMAIN u : i < j => Before(u[i], u[j])
  BY DEF Images
<1>2. T \in SUBSET Paths /\ T \subseteq P /\ \A p \in T : files'[p] # NoFile
  OBVIOUS
<1>3. Cardinality(T) \in Nat
  BY <1>2, PathsFinite, FS_Subset, FS_CardinalityType
<1> HIDE DEF T
<1>4. u \in Seq(T) /\ Len(u) = Cardinality(T)
  BY <1>1, <1>3
<1>5. u \in Seq(Paths)
  BY <1>2, <1>4
<1> QED  BY <1>1, <1>2, <1>4, <1>5

\* What virt-v2v is said to have made before the pipeline is there, and is its
\* own or where the conversions write.
LEMMA PreMade ==
    ASSUME NEW S, NEW u \in PreResults(S)
    PROVE  /\ u \in Seq(Paths) /\ DOMAIN u = 1..Len(u)
           /\ \A i \in DOMAIN u : /\ u[i] \in Paths /\ u[i][1] \in {"v2v", "out"}
                                  /\ files'[u[i]] # NoFile
<1>1. CASE opt.v2v = "one"
  <2>1. PICK a \in Images(Of("v2v")), b \in Images(Of("out")) : u = a \o b
    BY <1>1 DEF PreResults
  <2>0. /\ Of("v2v") \in SUBSET Paths /\ \A p \in Of("v2v") : p[1] = "v2v"
        /\ Of("out") \in SUBSET Paths /\ \A p \in Of("out") : p[1] = "out"
    BY DEF Of
  <2>2. /\ a \in Seq(Paths) /\ DOMAIN a = 1..Len(a)
        /\ \A i \in DOMAIN a : a[i] \in Paths /\ a[i][1] = "v2v" /\ files'[a[i]] # NoFile
    BY <2>0, Listing
  <2>3. /\ b \in Seq(Paths) /\ DOMAIN b = 1..Len(b)
        /\ \A i \in DOMAIN b : b[i] \in Paths /\ b[i][1] = "out" /\ files'[b[i]] # NoFile
    BY <2>0, Listing
  <2>4. /\ u \in Seq(Paths) /\ Len(u) = Len(a) + Len(b)
        /\ \A i \in 1..Len(a) + Len(b) :
             u[i] = IF i <= Len(a) THEN a[i] ELSE b[i - Len(a)]
    BY <2>1, <2>2, <2>3, ConcatProperties
  <2>5. Len(a) \in Nat /\ Len(b) \in Nat
    BY <2>2, <2>3
  <2>6. DOMAIN u = 1..Len(u)
    BY <2>4
  <2>7. ASSUME NEW i \in DOMAIN u
        PROVE  u[i] \in Paths /\ u[i][1] \in {"v2v", "out"} /\ files'[u[i]] # NoFile
    <3>1. i \in 1..Len(a) + Len(b)
      BY <2>4, <2>6
    <3>2. CASE i <= Len(a)
      BY <2>2, <2>4, <2>5, <3>1, <3>2
    <3>3. CASE ~(i <= Len(a))
      <4>1. i - Len(a) \in DOMAIN b /\ u[i] = b[i - Len(a)]
        BY <2>3, <2>4, <2>5, <3>1, <3>3
      <4> QED  BY <2>3, <4>1
    <3> QED  BY <3>2, <3>3
  <2> QED  BY <2>4, <2>6, <2>7
<1>2. CASE opt.v2v # "one"
  <2>1. u \in Images({p \in Of("v2v") : p[2] \in S})
    BY <1>2 DEF PreResults
  <2>2. /\ {p \in Of("v2v") : p[2] \in S} \in SUBSET Paths
        /\ \A p \in {q \in Of("v2v") : q[2] \in S} : p \in Paths /\ p[1] = "v2v"
    BY DEF Of
  <2> QED  BY <2>1, <2>2, Listing
<1> QED  BY <1>1, <1>2

\* What it is said to have made after the pipeline is there, in its directories
\* and in the order it is found.
LEMMA PostListed ==
    ASSUME NEW S, NEW u \in PostResults(S)
    PROVE  /\ u \in Seq(Paths) /\ DOMAIN u = 1..Len(u)
           /\ \A i \in DOMAIN u : /\ u[i] \in Paths
                                  /\ u[i][1] = IF PostKind = "one" THEN "post" ELSE "jobs"
                                  /\ files'[u[i]] # NoFile
           /\ \A i, j \in DOMAIN u : i < j => Before(u[i], u[j])
<1> DEFINE P == IF PostKind = "one" THEN Of("post") ELSE {p \in Of("jobs") : p[3] \in S}
<1>1. u \in Images(P)
  BY DEF PostResults
<1>2. /\ P \in SUBSET Paths
      /\ \A p \in P : p \in Paths /\ p[1] = IF PostKind = "one" THEN "post" ELSE "jobs"
  BY DEF Of
<1> HIDE DEF P
<1> QED  BY <1>1, <1>2, Listing

\* The result of the pool is a list of working images of finished disks.
LEMMA Collected ==
    ASSUME StateOK, Collect
    PROVE  \E s \in Seq(Disks) :
              /\ outputs' \in Seq(Paths) /\ DOMAIN outputs' = DOMAIN s
              /\ \A i \in DOMAIN s : s[i] \in Disks /\ pc[s[i]] = "done"
                                     /\ outputs'[i] = working[s[i]]
              /\ \A i, j \in DOMAIN s : i < j => s[i] < s[j]
<1>1. PICK s \in Increasing(Finished) : outputs' = [i \in DOMAIN s |-> working[s[i]]]
  BY DEF Collect
<1>2. Finished \in SUBSET Disks /\ \A d \in Finished : pc[d] = "done"
  BY DEF Finished
<1>3. /\ s \in Seq(Finished) /\ DOMAIN s = 1..Len(s)
      /\ \A i \in DOMAIN s : s[i] \in Finished
      /\ \A i, j \in DOMAIN s : i < j => s[i] < s[j]
  BY <1>2, Increases
<1>4. Len(s) \in Nat /\ s \in Seq(Disks)
  BY <1>2, <1>3
<1>5. outputs' \in [1..Len(s) -> Paths]
  BY <1>1, <1>2, <1>3 DEF StateOK
<1>6. outputs' \in Seq(Paths)
  BY <1>4, <1>5
<1>7. DOMAIN outputs' = DOMAIN s /\ \A i \in DOMAIN s : outputs'[i] = working[s[i]]
  BY <1>1
<1>8. \A i \in DOMAIN s : s[i] \in Disks /\ pc[s[i]] = "done" /\ outputs'[i] = working[s[i]]
  BY <1>2, <1>3, <1>7
<1> QED  BY <1>3, <1>4, <1>6, <1>7, <1>8

\* Every step leaves a list of names.
LEMMA ListStep ==
    ASSUME StateOK, outputs \in Seq(Paths), [Next]_vars
    PROVE  outputs' \in Seq(Paths)
<1>1. CASE UNCHANGED outputs
  BY <1>1
<1>2. CASE PreV2v
  <2>1. PICK S : outputs' = <<>> \/ outputs' \in PreResults(S)
    BY <1>2 DEF PreV2v
  <2>2. CASE outputs' = <<>>
    BY <2>2
  <2>3. CASE outputs' \in PreResults(S)
    BY <2>3, PreMade
  <2> QED  BY <2>1, <2>2, <2>3
<1>3. CASE PostV2v
  <2>1. PICK S : outputs' = outputs \/ outputs' \in PostResults(S)
    BY <1>3 DEF PostV2v
  <2>2. CASE outputs' \in PostResults(S)
    BY <2>2, PostListed
  <2> QED  BY <2>1, <2>2
<1>4. CASE Collect
  BY <1>4, Collected
<1>5. CASE Rerun
  BY <1>5 DEF Rerun
<1>6. CASE \/ Discover \/ DiscoverFail \/ PreV2vFail \/ DieOnFailure \/ PostV2vFail
           \/ Test \/ TestFail \/ Cleanup
  <2>1. UNCHANGED outputs
    BY <1>6 DEF Discover, DiscoverFail, PreV2vFail, DieOnFailure, PostV2vFail, Test,
                TestFail, Cleanup
  <2> QED  BY <2>1
<1>7. ASSUME NEW d \in Disks, Process(d) PROVE outputs' \in Seq(Paths)
  <2>1. UNCHANGED outputs
    BY <1>7 DEF Process, Start, Missing, FlattenBegin, FlattenEnd, FlattenFail, Publish,
                Fix, FixFail, ConvertBegin, ConvertEnd, ConvertFail
  <2> QED  BY <2>1
<1> QED
  BY <1>1, <1>2, <1>3, <1>4, <1>5, <1>6, <1>7 DEF Next, Orchestrate, vars

LEMMA TypeInit == Init => TypeOK
<1>1. outputs = <<>> => outputs \in Seq(Paths)
  BY EmptySeq
<1>2. Init => outputs = <<>>
  BY DEF Init, Idle
<1> QED  BY <1>1, <1>2, StateInit DEF TypeOK

LEMMA TypeNext == TypeOK /\ [Next]_vars => TypeOK'
BY StateStep, ListStep DEF TypeOK

\* Every variable keeps its type, for any number of disks, threads and runs.
THEOREM TypeCorrect == Spec => []TypeOK
BY TypeInit, TypeNext, PTL DEF Spec

-----------------------------------------------------------------------------
(* Atomic publication.                                                     *)

PubParts == NotNewer /\ Through /\ InPlace /\ OneEach /\ Published

\* A disk keeps the names of its files while its attempt lasts.
LEMMA SameNames ==
    ASSUME NEW d \in Disks, stamp'[d] = stamp[d], try'[d] = try[d], run' = run
    PROVE  /\ Tmp(d)' = Tmp(d) /\ Copy(d)' = Copy(d)
           /\ Part(d)' = Part(d) /\ OutInode(d)' = OutInode(d)
BY DEF Tmp, Copy, Part, OutInode

\* What is under final names stays so when a disk that has nothing there, or is
\* through with it, moves on.
LEMMA KeepThrough ==
    ASSUME StateOK, Through, NEW d \in Disks, run' = run,
           \A e \in Disks : e # d => pc'[e] = pc[e],
           \A p \in Paths : Final(p) => files'[p] = files[p],
           pc[d] \notin {"done", "failed"},
           pc[d] \in {"fix", "convert", "converting"}
               => pc'[d] \in {"fix", "convert", "converting", "done", "failed"}
    PROVE  Through'
<1> SUFFICES ASSUME NEW p \in Paths, Final(p), files'[p] # NoFile
             PROVE  LET f == files'[p]
                    IN  /\ f[1] \in {"first", "second", "out"}
                        /\ f[3] = run /\ f[1] # "out" =>
                              pc'[f[2]] \in {"fix", "convert", "converting", "done", "failed"}
                        /\ f[3] = run /\ f[1] = "out" => pc'[f[2]] = "done"
  BY DEF Through, Exists
<1>1. files'[p] = files[p] /\ files[p] \in Inodes
  BY DEF StateOK
<1>2. files[p][2] \in Disks
  BY <1>1 DEF Inodes
<1>3. LET f == files[p]
      IN  /\ f[1] \in {"first", "second", "out"}
          /\ f[3] = run /\ f[1] # "out" =>
                pc[f[2]] \in {"fix", "convert", "converting", "done", "failed"}
          /\ f[3] = run /\ f[1] = "out" => pc[f[2]] = "done"
  BY <1>1 DEF Through, Exists
<1>4. CASE files[p][2] = d
  BY <1>1, <1>3, <1>4
<1>5. CASE files[p][2] # d
  BY <1>1, <1>2, <1>3, <1>5
<1> QED  BY <1>4, <1>5

\* Steps of the main thread leave the workers and their files alone.
LEMMA PubAside ==
    ASSUME StateOK, StateOK', PubParts, UNCHANGED <<run, pc, try, stamp, now>>,
           \A p \in Paths : p[1] \in {"flat", "out", "tmp", "part"}
                            => files'[p] = files[p],
           \A f \in Inodes : f[1] \in {"first", "second", "out"} => data'[f] = data[f],
           \A p \in Paths : files'[p] = files[p] \/ files'[p] = NoFile
                            \/ files'[p][3] = run
    PROVE  PubParts'
<1> USE PipelineAssumption
<1>1. NotNewer'
  BY DEF PubParts, NotNewer, Exists, StateOK, Runs
<1>2. \A p \in Paths : Final(p) => files'[p] = files[p]
  BY DEF Final
<1>3. Through'
  BY <1>2 DEF PubParts, Through, Exists
<1>4. Published'
  <2> SUFFICES ASSUME NEW p \in Paths, Final(p), files'[p] # NoFile
               PROVE  data'[files'[p]].whole
    BY DEF Published, Final, Exists, Image
  <2>1. files[p] # NoFile /\ files[p] \in Inodes /\ files'[p] = files[p]
    BY <1>2 DEF StateOK
  <2>2. files[p][1] \in {"first", "second", "out"} /\ data[files[p]].whole
    BY <2>1 DEF PubParts, Through, Published, Final, Exists, Image
  <2> QED  BY <2>1, <2>2
<1>5. InPlace'
  <2> SUFFICES ASSUME NEW d \in Disks
               PROVE  /\ pc[d] \in {"copying", "replace"} => files'[Tmp(d)] = Copy(d)
                      /\ pc[d] = "replace" => data'[Copy(d)].whole
                      /\ pc[d] = "converting" => files'[Part(d)] = OutInode(d)
    BY DEF InPlace, Tmp, Copy, Part, OutInode
  <2>1. /\ Tmp(d) \in Paths /\ Part(d) \in Paths /\ Copy(d) \in Inodes
    BY Names
  <2>2. Tmp(d)[1] = "tmp" /\ Part(d)[1] = "part" /\ Copy(d)[1] \in {"first", "second"}
    BY DEF Tmp, Part, Copy
  <2> QED  BY <2>1, <2>2 DEF PubParts, InPlace
<1>6. OneEach'
  BY DEF PubParts, OneEach
<1> QED  BY <1>1, <1>3, <1>4, <1>5, <1>6 DEF PubParts

LEMMA PubMain ==
    ASSUME StateOK, StateOK', PubParts, Orchestrate
    PROVE  PubParts'
<1>1. UNCHANGED <<run, pc, try, stamp, now>>
  BY DEF Orchestrate, Discover, DiscoverFail, PreV2v, PreV2vFail, Collect, DieOnFailure,
         PostV2v, PostV2vFail, Test, TestFail, Cleanup, Enter, worker
<1>2. CASE Discover
  <2>1. /\ \A p \in Paths : p[1] \in {"flat", "out", "tmp", "part"}
                            => files'[p] = files[p]
        /\ \A p \in Paths : files'[p] = files[p] \/ files'[p][3] = run
        /\ data' = data
    BY <1>2 DEF Discover, store
  <2> QED  BY <1>1, <2>1, PubAside
<1>3. ASSUME PreV2v \/ PostV2v
      PROVE  PubParts'
  <2>0. PICK W : V2vNames(W) /\ V2vWrites(W)
    BY <1>3, V2vSteps
  <2>1. /\ \A p \in Paths : p[1] \in {"flat", "out", "tmp", "part"}
                            => files'[p] = files[p]
        /\ \A p \in Paths : files'[p] = files[p] \/ files'[p][3] = run
        /\ \A f \in Inodes : f[1] \in {"first", "second", "out"} => data'[f] = data[f]
    <3>1. /\ \A p \in Paths : files'[p] = IF p \in W THEN <<p[1], p[2], run>> ELSE files[p]
          /\ \A p \in Paths \cap W : p[1] \in {"v2v", "post", "jobs"}
          /\ \A f \in Inodes : data'[f] = data[f] \/ f[1] \in {"v2v", "post", "jobs"}
      BY <2>0, V2vFrame
    <3>2. ASSUME NEW p \in Paths PROVE files'[p] = files[p] \/ files'[p][3] = run
      <4>1. CASE p \in W
        <5>1. files'[p] = <<p[1], p[2], run>>
          BY <3>1, <4>1
        <5> QED  BY <5>1
      <4> QED  BY <3>1, <4>1
    <3> QED  BY <3>1, <3>2
  <2> QED  BY <1>1, <2>1, PubAside
<1>4. CASE PreV2v
  BY <1>3, <1>4
<1>5. CASE PostV2v
  BY <1>3, <1>5
<1>6. CASE Cleanup
  <2>1. /\ \A p \in Paths : p[1] \in {"flat", "out", "tmp", "part"}
                            => files'[p] = files[p]
        /\ \A p \in Paths : files'[p] = files[p] \/ files'[p] = NoFile
        /\ data' = data
    BY <1>6 DEF Cleanup
  <2> QED  BY <1>1, <2>1, PubAside
<1>7. CASE DiscoverFail \/ PreV2vFail \/ Collect \/ DieOnFailure \/ PostV2vFail
           \/ Test \/ TestFail
  <2>1. UNCHANGED store
    BY <1>7 DEF DiscoverFail, PreV2vFail, Collect, DieOnFailure, PostV2vFail, Test, TestFail
  <2> QED  BY <1>1, <2>1, PubAside DEF store
<1> QED
  BY <1>2, <1>4, <1>5, <1>6, <1>7 DEF Orchestrate

\* A new invocation has no file yet.
LEMMA PubRerun ==
    ASSUME StateOK, StateOK', PubParts, Rerun
    PROVE  PubParts'
<1> USE PipelineAssumption
<1>1. run \in Nat /\ run' = run + 1 /\ UNCHANGED store
      /\ (\A d \in Disks : pc'[d] = "queued" /\ stamp'[d] = 0) /\ now' = now
  BY DEF Rerun, StateOK, Runs
<1>2. \A f \in Inodes : f[3] \in Nat
  BY DEF Inodes, Runs
<1>3. NotNewer'
  BY <1>1, <1>2 DEF PubParts, NotNewer, Exists, store, StateOK
<1>4. Through'
  <2>1. \A p \in Paths : files[p] # NoFile => files[p][3] # run'
    BY <1>1, <1>2 DEF PubParts, NotNewer, Exists, StateOK
  <2> QED  BY <1>1, <2>1 DEF PubParts, Through, Exists, store
<1>5. InPlace'
  BY <1>1 DEF InPlace
<1>6. OneEach'
  BY <1>1 DEF OneEach, Flattening, StateOK, Stamps
<1>7. Published'
  BY <1>1 DEF PubParts, Published, Exists, Image, store
<1> QED  BY <1>3, <1>4, <1>5, <1>6, <1>7 DEF PubParts

\* The steps of one disk, when no two flattenings start within one second.
LEMMA PubProcess ==
    ASSUME StateOK, StateOK', PubParts, ~SameSecond, NEW d \in Disks, Process(d)
    PROVE  PubParts'
<1> USE PipelineAssumption
<1> DEFINE Rest == {"fix", "convert", "converting", "done", "failed"}
<1>1. /\ Tmp(d) \in Paths /\ Flat(d) \in Paths /\ Part(d) \in Paths
      /\ Out(d) \in Paths /\ Copy(d) \in Inodes /\ OutInode(d) \in Inodes
  BY Names
<1>2. run' = run /\ run \in Nat
  BY DEF Process, Start, Missing, FlattenBegin, FlattenEnd, FlattenFail, Publish,
         Fix, FixFail, ConvertBegin, ConvertEnd, ConvertFail, StateOK, Runs
<1>3. \A e \in Disks : e # d => pc'[e] = pc[e]
  <2>1. \E v : pc' = [pc EXCEPT ![d] = v]
    BY DEF Process, Start, Missing, FlattenBegin, FlattenEnd, FlattenFail, Publish,
           Fix, FixFail, ConvertBegin, ConvertEnd, ConvertFail, Goto
  <2> QED  BY <2>1 DEF StateOK
<1>4. CASE Start(d)
  <2>1. /\ UNCHANGED <<try, files, data>> /\ pc[d] = "queued"
        /\ pc'[d] \in {"attempt", "fix"}
        /\ \A e \in Disks : e # d => stamp'[e] = stamp[e]
        /\ now' >= now /\ stamp'[d] <= now'
        /\ pc'[d] = "attempt" => stamp'[d] > now
    BY <1>4 DEF Start, MayStart, Goto, store, PubParts, OneEach, StateOK, Stamps
  <2>2. NotNewer' /\ Published'
    BY <1>2, <2>1 DEF PubParts, NotNewer, Published, Exists, Image
  <2>3. Through'
    BY <1>2, <1>3, <2>1, KeepThrough DEF PubParts
  <2>4. InPlace'
    BY <1>2, <1>3, <2>1, SameNames DEF PubParts, InPlace
  <2>5. OneEach'
    <3>1. \A e \in Disks : stamp[e] \in Nat /\ stamp[e] <= now /\ now \in Nat /\ now' \in Nat
                           /\ stamp'[d] \in Nat
      BY DEF PubParts, OneEach, StateOK, Stamps
    <3>2. \A e \in Disks : stamp'[e] <= now'
      BY <2>1, <3>1
    <3>3. ASSUME NEW e \in Disks, NEW f \in Disks, e # f, pc'[e] \in Flattening,
                 pc'[f] \in Flattening
          PROVE  stamp'[e] # stamp'[f]
      <4>1. CASE e # d /\ f # d
        BY <1>3, <2>1, <3>3, <4>1 DEF PubParts, OneEach
      <4>2. CASE e = d
        BY <2>1, <3>1, <3>3, <4>2 DEF Flattening
      <4>3. CASE f = d
        BY <2>1, <3>1, <3>3, <4>3 DEF Flattening
      <4> QED  BY <4>1, <4>2, <4>3
    <3> QED  BY <3>2, <3>3 DEF OneEach
  <2> QED  BY <2>2, <2>3, <2>4, <2>5 DEF PubParts
<1>5. CASE Missing(d) \/ FixFail(d) \/ Fix(d)
  <2>1. /\ UNCHANGED <<try, stamp, now, files>> /\ pc[d] \in {"queued", "fix"}
        /\ pc'[d] \in {"failed", "convert", "done"}
        /\ pc[d] = "queued" => pc'[d] = "failed"
    BY <1>5 DEF Missing, FixFail, Fix, MayStart, Goto, store, StateOK
  <2>2. \A f \in Inodes : data'[f].whole = data[f].whole
    <3>1. CASE Fix(d)
      <4>1. /\ files[working[d]] \in Inodes
            /\ data' = [data EXCEPT ![files[working[d]]].fixed = TRUE]
        BY <3>1 DEF Fix, Target, Exists, StateOK
      <4>2. \A f \in Inodes : data[f] \in Contents
        BY DEF StateOK
      <4> QED  BY <4>1, <4>2 DEF StateOK, Contents
    <3>2. CASE Missing(d) \/ FixFail(d)
      BY <3>2 DEF Missing, FixFail, store
    <3> QED  BY <1>5, <3>1, <3>2
  <2>3. NotNewer' /\ Published'
    BY <1>2, <2>1, <2>2 DEF PubParts, NotNewer, Published, Exists, Image, StateOK
  <2>4. Through'
    BY <1>2, <1>3, <2>1, KeepThrough DEF PubParts
  <2>5. InPlace'
    <3>1. ASSUME NEW e \in Disks, pc'[e] \in {"copying", "replace", "converting"}
          PROVE  pc[e] = pc'[e]
      BY <1>3, <2>1, <3>1
    <3>2. ASSUME NEW e \in Disks
          PROVE  /\ Tmp(e)' = Tmp(e) /\ Copy(e)' = Copy(e)
                 /\ Part(e)' = Part(e) /\ OutInode(e)' = OutInode(e)
                 /\ data'[Copy(e)].whole = data[Copy(e)].whole
      BY <1>2, <2>1, <2>2, Names, SameNames
    <3> QED  BY <2>1, <3>1, <3>2 DEF PubParts, InPlace
  <2>6. OneEach'
    BY <1>3, <2>1 DEF PubParts, OneEach, Flattening
  <2> QED  BY <2>3, <2>4, <2>5, <2>6 DEF PubParts
<1>6. CASE FlattenBegin(d)
  <2>1. /\ UNCHANGED <<try, stamp, now>> /\ pc[d] = "attempt" /\ pc'[d] = "copying"
        /\ files' = [files EXCEPT ![Tmp(d)] = Copy(d)]
        /\ \A f \in Inodes : f # Copy(d) => data'[f] = data[f]
    BY <1>6 DEF FlattenBegin, Goto, StateOK
  <2>2. Copy(d)[2] = d /\ Copy(d)[3] = run /\ Copy(d)[1] \in {"first", "second"}
        /\ Tmp(d)[1] = "tmp" /\ Tmp(d)[2] = stamp[d]
    BY DEF Copy, Tmp
  <2>3. \A p \in Paths : p # Tmp(d) => files'[p] = files[p]
    BY <2>1 DEF StateOK
  <2>4. NotNewer'
    BY <1>1, <1>2, <2>1, <2>2, <2>3 DEF PubParts, NotNewer, Exists, StateOK
  <2>5. \A p \in Paths : Final(p) /\ files[p] # NoFile =>
            files'[p] = files[p] /\ files[p] # Copy(d) /\ files[p] \in Inodes
    BY <2>1, <2>2, <2>3 DEF PubParts, Through, Final, Exists, StateOK
  <2>6. \A p \in Paths : Final(p) => files'[p] = files[p]
    BY <2>2, <2>3 DEF Final
  <2>7. Published'
    BY <2>1, <2>5, <2>6 DEF PubParts, Published, Final, Exists, Image
  <2>8. Through'
    BY <1>2, <1>3, <2>1, <2>6, KeepThrough DEF PubParts
  <2>9. InPlace'
    <3> SUFFICES ASSUME NEW e \in Disks
                 PROVE  /\ pc'[e] \in {"copying", "replace"}
                            => files'[Tmp(e)] = Copy(e)
                        /\ pc'[e] = "replace" => data'[Copy(e)].whole
                        /\ pc'[e] = "converting" => files'[Part(e)] = OutInode(e)
      BY <1>2, <2>1, SameNames DEF InPlace
    <3>1. CASE e = d
      BY <1>1, <2>1, <3>1 DEF StateOK
    <3>2. CASE e # d
      <4>1. Copy(e) # Copy(d) /\ Copy(e) \in Inodes /\ Part(e) # Tmp(d)
            /\ Part(e) \in Paths /\ Tmp(e) \in Paths
        BY <3>2, Names DEF Copy, Part, Tmp
      <4>2. pc[e] \in {"copying", "replace"} => Tmp(e) # Tmp(d)
        BY <2>1, <3>2 DEF PubParts, OneEach, Flattening, Tmp
      <4> QED  BY <1>3, <2>1, <2>3, <3>2, <4>1, <4>2 DEF PubParts, InPlace
    <3> QED  BY <3>1, <3>2
  <2>10. OneEach'
    BY <1>3, <2>1 DEF PubParts, OneEach, Flattening
  <2> QED  BY <2>4, <2>7, <2>8, <2>9, <2>10 DEF PubParts
<1>7. CASE FlattenEnd(d)
  <2>1. /\ UNCHANGED <<try, stamp, now, files>> /\ pc[d] = "copying" /\ pc'[d] = "replace"
        /\ data' = [data EXCEPT ![Copy(d)].whole = TRUE]
    BY <1>7 DEF FlattenEnd, Goto, StateOK
  <2>2. \A f \in Inodes : data[f] \in Contents
    BY DEF StateOK
  <2>3. /\ data'[Copy(d)].whole
        /\ \A f \in Inodes : data[f].whole => data'[f].whole
    BY <1>1, <2>1, <2>2 DEF StateOK, Contents
  <2>4. NotNewer' /\ Published'
    BY <1>2, <2>1, <2>3 DEF PubParts, NotNewer, Published, Exists, Image, StateOK
  <2>5. Through'
    BY <1>2, <1>3, <2>1, KeepThrough DEF PubParts
  <2>6. InPlace'
    <3> SUFFICES ASSUME NEW e \in Disks
                 PROVE  /\ pc'[e] \in {"copying", "replace"} => files[Tmp(e)] = Copy(e)
                        /\ pc'[e] = "replace" => data'[Copy(e)].whole
                        /\ pc'[e] = "converting" => files[Part(e)] = OutInode(e)
      BY <1>2, <2>1, SameNames DEF InPlace
    <3>1. Copy(e) \in Inodes
      BY Names
    <3>2. CASE e = d
      BY <2>1, <2>3, <3>2 DEF PubParts, InPlace
    <3>3. CASE e # d
      BY <1>3, <2>3, <3>1, <3>3 DEF PubParts, InPlace
    <3> QED  BY <3>2, <3>3
  <2>7. OneEach'
    BY <1>3, <2>1 DEF PubParts, OneEach, Flattening
  <2> QED  BY <2>4, <2>5, <2>6, <2>7 DEF PubParts
<1>8. CASE FlattenFail(d)
  <2>1. /\ UNCHANGED <<stamp, now, data>> /\ pc[d] = "copying"
        /\ pc'[d] \in {"attempt", "failed"}
        /\ \A e \in Disks : e # d => try'[e] = try[e]
        /\ \A p \in Paths : p # Tmp(d) => files'[p] = files[p]
        /\ \A p \in Paths : files'[p] = files[p] \/ files'[p] = NoFile
    BY <1>8 DEF FlattenFail, Goto, StateOK
  <2>2. \A p \in Paths : Final(p) => files'[p] = files[p]
    BY <2>1 DEF Final, Tmp
  <2>3. NotNewer' /\ Published'
    BY <1>2, <2>1 DEF PubParts, NotNewer, Published, Exists, Image
  <2>4. Through'
    BY <1>2, <1>3, <2>1, <2>2, KeepThrough DEF PubParts
  <2>5. InPlace'
    <3> SUFFICES ASSUME NEW e \in Disks, e # d
                 PROVE  /\ pc[e] \in {"copying", "replace"} => files'[Tmp(e)] = Copy(e)
                        /\ pc[e] = "replace" => data[Copy(e)].whole
                        /\ pc[e] = "converting" => files'[Part(e)] = OutInode(e)
      BY <1>2, <1>3, <2>1, SameNames DEF InPlace
    <3>1. Part(e) # Tmp(d) /\ Part(e) \in Paths /\ Tmp(e) \in Paths
      BY Names DEF Part, Tmp
    <3>2. pc[e] \in {"copying", "replace"} => Tmp(e) # Tmp(d)
      BY <2>1 DEF PubParts, OneEach, Flattening, Tmp
    <3> QED  BY <2>1, <3>1, <3>2 DEF PubParts, InPlace
  <2>6. OneEach'
    BY <1>3, <2>1 DEF PubParts, OneEach, Flattening
  <2> QED  BY <2>3, <2>4, <2>5, <2>6 DEF PubParts
<1>9. CASE Publish(d)
  <2>1. /\ UNCHANGED <<try, stamp, now, data>> /\ pc[d] = "replace"
        /\ files[Tmp(d)] = Copy(d) /\ data[Copy(d)].whole
        /\ pc'[d] = "fix"
        /\ files' = [files EXCEPT ![Flat(d)] = files[Tmp(d)], ![Tmp(d)] = NoFile]
    BY <1>1, <1>9 DEF Publish, Goto, StateOK, PubParts, InPlace, Exists
  <2>2. Copy(d)[2] = d /\ Copy(d)[3] = run /\ Copy(d)[1] \in {"first", "second"}
        /\ Flat(d) # Tmp(d) /\ Tmp(d)[1] = "tmp"
    BY DEF Copy, Tmp, Flat
  <2>3. /\ files'[Flat(d)] = Copy(d) /\ files'[Tmp(d)] = NoFile
        /\ \A p \in Paths : p # Tmp(d) /\ p # Flat(d) => files'[p] = files[p]
    BY <1>1, <2>1, <2>2 DEF StateOK
  <2>4. NotNewer'
    BY <1>1, <1>2, <2>2, <2>3 DEF PubParts, NotNewer, Exists, StateOK
  <2>5. Published'
    BY <1>1, <2>1, <2>3 DEF PubParts, Published, Exists, Image
  <2>6. Through'
    <3> SUFFICES ASSUME NEW p \in Paths, Final(p), files'[p] # NoFile
                 PROVE  LET f == files'[p]
                        IN  /\ f[1] \in {"first", "second", "out"}
                            /\ f[3] = run /\ f[1] # "out" => pc'[f[2]] \in Rest
                            /\ f[3] = run /\ f[1] = "out" => pc'[f[2]] = "done"
      BY <1>2 DEF Through, Exists
    <3>1. CASE p = Flat(d)
      BY <2>1, <2>2, <2>3, <3>1
    <3>2. CASE p # Flat(d)
      <4>1. files'[p] = files[p] /\ files[p] \in Inodes
        BY <2>2, <2>3, <3>2 DEF Final, StateOK
      <4>2. files[p][2] \in Disks
        BY <4>1 DEF Inodes
      <4> QED  BY <1>3, <2>1, <4>1, <4>2 DEF PubParts, Through, Exists
    <3> QED  BY <3>1, <3>2
  <2>7. InPlace'
    <3> SUFFICES ASSUME NEW e \in Disks, e # d
                 PROVE  /\ pc[e] \in {"copying", "replace"} => files'[Tmp(e)] = Copy(e)
                        /\ pc[e] = "replace" => data[Copy(e)].whole
                        /\ pc[e] = "converting" => files'[Part(e)] = OutInode(e)
      BY <1>2, <1>3, <2>1, SameNames DEF InPlace
    <3>1. Part(e) # Tmp(d) /\ Part(e) # Flat(d) /\ Tmp(e) # Flat(d)
          /\ Part(e) \in Paths /\ Tmp(e) \in Paths
      BY Names DEF Part, Tmp, Flat
    <3>2. pc[e] \in {"copying", "replace"} => Tmp(e) # Tmp(d)
      BY <2>1 DEF PubParts, OneEach, Flattening, Tmp
    <3> QED  BY <2>3, <3>1, <3>2 DEF PubParts, InPlace
  <2>8. OneEach'
    BY <1>3, <2>1 DEF PubParts, OneEach, Flattening
  <2> QED  BY <2>4, <2>5, <2>6, <2>7, <2>8 DEF PubParts
<1>10. CASE ConvertBegin(d)
  <2>1. /\ UNCHANGED <<try, stamp, now>> /\ pc[d] = "convert" /\ pc'[d] = "converting"
        /\ files' = [files EXCEPT ![Part(d)] = OutInode(d)]
        /\ \A f \in Inodes : f # OutInode(d) => data'[f] = data[f]
    BY <1>10 DEF ConvertBegin, Goto, StateOK
  <2>2. OutInode(d)[2] = d /\ OutInode(d)[3] = run /\ OutInode(d)[1] = "out"
        /\ Part(d)[1] = "part"
    BY DEF OutInode, Part
  <2>3. \A p \in Paths : p # Part(d) => files'[p] = files[p]
    BY <2>1 DEF StateOK
  <2>4. NotNewer'
    BY <1>1, <1>2, <2>1, <2>2, <2>3 DEF PubParts, NotNewer, Exists, StateOK
  <2>5. \A p \in Paths : Final(p) /\ files[p] # NoFile =>
            files'[p] = files[p] /\ files[p] # OutInode(d) /\ files[p] \in Inodes
    BY <2>1, <2>2, <2>3 DEF PubParts, Through, Final, Exists, StateOK
  <2>6. \A p \in Paths : Final(p) => files'[p] = files[p]
    BY <2>2, <2>3 DEF Final
  <2>7. Published'
    BY <2>1, <2>5, <2>6 DEF PubParts, Published, Final, Exists, Image
  <2>8. Through'
    BY <1>2, <1>3, <2>1, <2>6, KeepThrough DEF PubParts
  <2>9. InPlace'
    <3> SUFFICES ASSUME NEW e \in Disks
                 PROVE  /\ pc'[e] \in {"copying", "replace"}
                            => files'[Tmp(e)] = Copy(e)
                        /\ pc'[e] = "replace" => data'[Copy(e)].whole
                        /\ pc'[e] = "converting" => files'[Part(e)] = OutInode(e)
      BY <1>2, <2>1, SameNames DEF InPlace
    <3>1. CASE e = d
      BY <1>1, <2>1, <3>1 DEF StateOK
    <3>2. CASE e # d
      <4>1. Copy(e) # OutInode(d) /\ Copy(e) \in Inodes /\ Part(e) # Part(d)
            /\ Tmp(e) # Part(d) /\ Part(e) \in Paths /\ Tmp(e) \in Paths
        BY <3>2, Names DEF Copy, OutInode, Part, Tmp
      <4> QED  BY <1>3, <2>1, <2>3, <3>2, <4>1 DEF PubParts, InPlace
    <3> QED  BY <3>1, <3>2
  <2>10. OneEach'
    BY <1>3, <2>1 DEF PubParts, OneEach, Flattening
  <2> QED  BY <2>4, <2>7, <2>8, <2>9, <2>10 DEF PubParts
<1>11. CASE ConvertEnd(d)
  <2>1. /\ UNCHANGED <<try, stamp, now>> /\ pc[d] = "converting" /\ pc'[d] = "done"
        /\ files[Part(d)] = OutInode(d)
        /\ data' = [data EXCEPT ![OutInode(d)].whole = TRUE]
        /\ files' = [files EXCEPT ![Out(d)] = files[Part(d)], ![Part(d)] = NoFile]
    BY <1>11 DEF ConvertEnd, Goto, StateOK, PubParts, InPlace
  <2>2. OutInode(d)[2] = d /\ OutInode(d)[3] = run /\ OutInode(d)[1] = "out"
        /\ Out(d) # Part(d) /\ Part(d)[1] = "part"
    BY DEF OutInode, Part, Out
  <2>3. /\ files'[Out(d)] = OutInode(d) /\ files'[Part(d)] = NoFile
        /\ \A p \in Paths : p # Part(d) /\ p # Out(d) => files'[p] = files[p]
    BY <1>1, <2>1, <2>2 DEF StateOK
  <2>4. \A f \in Inodes : data[f] \in Contents
    BY DEF StateOK
  <2>5. /\ data'[OutInode(d)].whole
        /\ \A f \in Inodes : data[f].whole => data'[f].whole
    BY <1>1, <2>1, <2>4 DEF StateOK, Contents
  <2>6. NotNewer'
    BY <1>1, <1>2, <2>2, <2>3 DEF PubParts, NotNewer, Exists, StateOK
  <2>7. Published'
    BY <1>1, <2>3, <2>5 DEF PubParts, Published, Exists, Image, StateOK
  <2>8. Through'
    <3> SUFFICES ASSUME NEW p \in Paths, Final(p), files'[p] # NoFile
                 PROVE  LET f == files'[p]
                        IN  /\ f[1] \in {"first", "second", "out"}
                            /\ f[3] = run /\ f[1] # "out" => pc'[f[2]] \in Rest
                            /\ f[3] = run /\ f[1] = "out" => pc'[f[2]] = "done"
      BY <1>2 DEF Through, Exists
    <3>1. CASE p = Out(d)
      BY <2>1, <2>2, <2>3, <3>1
    <3>2. CASE p # Out(d)
      <4>1. files'[p] = files[p] /\ files[p] \in Inodes
        BY <2>2, <2>3, <3>2 DEF Final, StateOK
      <4>2. files[p][2] \in Disks
        BY <4>1 DEF Inodes
      <4> QED  BY <1>3, <2>1, <4>1, <4>2 DEF PubParts, Through, Exists
    <3> QED  BY <3>1, <3>2
  <2>9. InPlace'
    <3> SUFFICES ASSUME NEW e \in Disks, e # d
                 PROVE  /\ pc[e] \in {"copying", "replace"} => files'[Tmp(e)] = Copy(e)
                        /\ pc[e] = "replace" => data'[Copy(e)].whole
                        /\ pc[e] = "converting" => files'[Part(e)] = OutInode(e)
      BY <1>2, <1>3, <2>1, SameNames DEF InPlace
    <3>1. Part(e) # Part(d) /\ Part(e) # Out(d) /\ Tmp(e) # Part(d) /\ Tmp(e) # Out(d)
          /\ Part(e) \in Paths /\ Tmp(e) \in Paths /\ Copy(e) \in Inodes
      BY Names DEF Part, Tmp, Out
    <3> QED  BY <2>3, <2>5, <3>1 DEF PubParts, InPlace
  <2>10. OneEach'
    BY <1>3, <2>1 DEF PubParts, OneEach, Flattening
  <2> QED  BY <2>6, <2>7, <2>8, <2>9, <2>10 DEF PubParts
<1>12. CASE ConvertFail(d)
  <2>1. /\ UNCHANGED <<try, stamp, now, data>> /\ pc[d] = "converting" /\ pc'[d] = "failed"
        /\ files' = [files EXCEPT ![Part(d)] = NoFile]
    BY <1>12 DEF ConvertFail, Goto, StateOK
  <2>2. \A p \in Paths : p # Part(d) => files'[p] = files[p]
    BY <2>1 DEF StateOK
  <2>3. \A p \in Paths : files'[p] = files[p] \/ files'[p] = NoFile
    BY <2>1 DEF StateOK
  <2>4. NotNewer' /\ Published'
    BY <1>2, <2>1, <2>3 DEF PubParts, NotNewer, Published, Exists, Image
  <2>5. \A p \in Paths : Final(p) => files'[p] = files[p]
    BY <2>2 DEF Final, Part
  <2>6. Through'
    BY <1>2, <1>3, <2>1, <2>5, KeepThrough DEF PubParts
  <2>7. InPlace'
    <3> SUFFICES ASSUME NEW e \in Disks, e # d
                 PROVE  /\ pc[e] \in {"copying", "replace"} => files'[Tmp(e)] = Copy(e)
                        /\ pc[e] = "replace" => data[Copy(e)].whole
                        /\ pc[e] = "converting" => files'[Part(e)] = OutInode(e)
      BY <1>2, <1>3, <2>1, SameNames DEF InPlace
    <3>1. Part(e) # Part(d) /\ Tmp(e) # Part(d) /\ Part(e) \in Paths /\ Tmp(e) \in Paths
      BY Names DEF Part, Tmp
    <3> QED  BY <2>2, <3>1 DEF PubParts, InPlace
  <2>8. OneEach'
    BY <1>3, <2>1 DEF PubParts, OneEach, Flattening
  <2> QED  BY <2>4, <2>6, <2>7, <2>8 DEF PubParts
<1> QED
  BY <1>4, <1>5, <1>6, <1>7, <1>8, <1>9, <1>10, <1>11, <1>12 DEF Process

\* Init has no file but the disks.
LEMMA PubInit == Init => PubParts
<1> SUFFICES ASSUME Init PROVE PubParts
  OBVIOUS
<1> USE PipelineAssumption
<1>1. /\ run = 1 /\ now = 0
      /\ \A d \in Disks : pc[d] = "queued" /\ stamp[d] = 0
  BY DEF Init, Idle
<1>2. PICK here \in SUBSET Disks :
         files = [p \in Paths |-> IF p[1] = "input" /\ p[2] \in here
                                   THEN <<"input", p[2], 1>> ELSE NoFile]
  BY DEF Init
<1>3. NotNewer
  BY <1>1, <1>2 DEF NotNewer, Exists
<1>4. Through /\ Published
  BY <1>2 DEF Through, Published, Final, Exists
<1>5. InPlace /\ OneEach
  BY <1>1 DEF InPlace, OneEach, Flattening
<1> QED  BY <1>3, <1>4, <1>5 DEF PubParts

\* Together.
LEMMA PubNext ==
    ASSUME StateOK, PubParts, ~SameSecond, [Next]_vars
    PROVE  PubParts'
<1>1. StateOK'
  BY StateStep
<1>2. CASE UNCHANGED vars
  BY <1>1, <1>2, PubAside DEF vars
<1>3. CASE Orchestrate
  BY <1>1, <1>3, PubMain
<1>4. CASE Rerun
  BY <1>1, <1>4, PubRerun
<1>5. CASE \E d \in Disks : Process(d)
  BY <1>1, <1>5, PubProcess
<1> QED  BY <1>2, <1>3, <1>4, <1>5 DEF Next

\* When no two flattenings start within one second, a file that has its final
\* name is complete: whatever fails, and however often it all starts again.
THEOREM PublishedComplete ==
    ASSUME ~SameSecond
    PROVE  Spec => []Published
<1>1. Init => StateOK /\ PubParts
  BY StateInit, PubInit
<1>2. StateOK /\ PubParts /\ [Next]_vars => (StateOK /\ PubParts)'
  BY StateStep, PubNext
<1>3. PubParts => Published
  BY DEF PubParts
<1> QED  BY <1>1, <1>2, <1>3, PTL DEF Spec

-----------------------------------------------------------------------------
(* The disks handed in.                                                    *)

\* Input names and input files go together, and with flatten the fixer works
\* on a file with another name.
Apart ==
    /\ \A p \in Paths : Exists(p) => (files[p][1] = "input" <=> p[1] = "input")
    /\ \A d \in Disks : opt.flatten /\ pc[d] = "fix" => working[d][1] = "flat"

LEMMA ApartInit == Init => Apart
<1> SUFFICES ASSUME Init PROVE Apart
  OBVIOUS
<1>1. PICK here \in SUBSET Disks :
         files = [p \in Paths |-> IF p[1] = "input" /\ p[2] \in here
                                   THEN <<"input", p[2], 1>> ELSE NoFile]
  BY DEF Init
<1>2. \A p \in Paths : Exists(p) => files[p][1] = "input" /\ p[1] = "input"
  BY <1>1 DEF Exists
<1>3. \A d \in Disks : pc[d] = "queued"
  BY DEF Init, Idle
<1> QED  BY <1>2, <1>3 DEF Apart

\* A step that writes names and files of other kinds leaves the disks alone.
LEMMA ApartKept ==
    ASSUME StateOK, Apart, UNCHANGED opt,
           \A p \in Paths : files'[p] = files[p] \/ p[1] # "input",
           \A p \in Paths : files'[p] = files[p] \/ files'[p] = NoFile
                            \/ files'[p][1] # "input",
           opt.flatten => \A f \in Inodes : f[1] = "input" => data'[f] = data[f],
           \A d \in Disks : opt.flatten /\ pc'[d] = "fix" => working'[d][1] = "flat"
    PROVE  Apart' /\ KeepSources
<1>1. Apart'
  BY DEF Apart, Exists
<1>2. ASSUME NEW d \in Disks, Exists(<<"input", d>>)
      PROVE  /\ files'[<<"input", d>>] = files[<<"input", d>>]
             /\ opt.flatten => data'[files[<<"input", d>>]] = data[files[<<"input", d>>]]
  <2>1. <<"input", d>> \in Paths
    BY DEF Paths
  <2>2. files[<<"input", d>>] \in Inodes /\ files[<<"input", d>>][1] = "input"
    BY <1>2, <2>1 DEF Apart, Exists, StateOK
  <2> QED  BY <2>1, <2>2
<1> QED  BY <1>1, <1>2 DEF KeepSources

LEMMA ApartStep ==
    ASSUME StateOK, Apart, [Next]_vars
    PROVE  Apart' /\ KeepSources
<1> USE PipelineAssumption
<1>1. CASE UNCHANGED vars
  BY <1>1, ApartKept DEF vars, Apart
<1>2. CASE Discover
  <2>1. UNCHANGED <<opt, worker, data>>
    BY <1>2 DEF Discover, Enter, store
  <2>2. CASE opt.extract
    <3>1. \A p \in Paths : p[1] = "input" => files'[p][1] = "input"
      BY <1>2, <2>2 DEF Discover
    <3>2. \A p \in Paths : p[1] # "input" => files'[p] = files[p]
      BY <1>2, <2>2 DEF Discover
    <3>3. Apart'
      BY <2>1, <3>1, <3>2 DEF Apart, Exists, worker
    <3> QED  BY <2>2, <3>3 DEF KeepSources
  <2>3. CASE ~opt.extract
    <3>1. files' = files
      BY <1>2, <2>3 DEF Discover, store
    <3> QED  BY <2>1, <3>1, ApartKept DEF worker, Apart
  <2> QED  BY <2>2, <2>3
<1>3. ASSUME PreV2v \/ PostV2v
      PROVE  Apart' /\ KeepSources
  <2>0. PICK W : V2vNames(W) /\ V2vWrites(W)
    BY <1>3, V2vSteps
  <2>3. UNCHANGED <<opt, worker>>
    BY <1>3 DEF PreV2v, PostV2v, Enter
  <2>4. /\ \A p \in Paths : files'[p] = IF p \in W THEN <<p[1], p[2], run>> ELSE files[p]
        /\ \A p \in Paths \cap W : p[1] \in {"v2v", "post", "jobs"}
        /\ \A f \in Inodes : data'[f] = data[f] \/ f[1] \in {"v2v", "post", "jobs"}
    BY <2>0, V2vFrame
  <2>1. \A p \in Paths : \/ files'[p] = files[p]
                         \/ p[1] \in {"v2v", "post", "jobs"} /\ files'[p][1] = p[1]
    <3> SUFFICES ASSUME NEW p \in Paths
                 PROVE  \/ files'[p] = files[p]
                        \/ p[1] \in {"v2v", "post", "jobs"} /\ files'[p][1] = p[1]
      OBVIOUS
    <3>1. CASE p \in W
      <4>1. files'[p] = <<p[1], p[2], run>>
        BY <2>4, <3>1
      <4> QED  BY <2>4, <3>1, <4>1
    <3> QED  BY <2>4, <3>1
  <2>2. \A f \in Inodes : f[1] = "input" => data'[f] = data[f]
    BY <2>4
  <2> QED  BY <2>1, <2>2, <2>3, ApartKept DEF worker, Apart
<1>4. CASE PreV2v
  BY <1>3, <1>4
<1>5. CASE PostV2v
  BY <1>3, <1>5
<1>6. CASE Cleanup
  <2>1. UNCHANGED <<opt, worker, data>>
    BY <1>6 DEF Cleanup, Enter
  <2>2. CASE opt.extract
    <3>1. \A p \in Paths : files'[p] = files[p] \/ files'[p] = NoFile
      BY <1>6 DEF Cleanup
    <3>2. Apart'
      BY <2>1, <3>1 DEF Apart, Exists, worker
    <3> QED  BY <2>2, <3>2 DEF KeepSources
  <2>3. CASE ~opt.extract
    <3>1. \A p \in Paths : files'[p] = files[p]
      BY <1>6, <2>3 DEF Cleanup
    <3> QED  BY <2>1, <3>1, ApartKept DEF worker, Apart
  <2> QED  BY <2>2, <2>3
<1>7. CASE DiscoverFail \/ PreV2vFail \/ Collect \/ DieOnFailure \/ PostV2vFail
           \/ Test \/ TestFail
  <2>1. UNCHANGED <<opt, worker, store>>
    BY <1>7 DEF DiscoverFail, PreV2vFail, Collect, DieOnFailure, PostV2vFail, Test,
                TestFail, Enter
  <2> QED  BY <2>1, ApartKept DEF worker, store, Apart
<1>8. CASE Rerun
  <2>1. UNCHANGED <<opt, store>> /\ \A d \in Disks : pc'[d] = "queued"
    BY <1>8 DEF Rerun
  <2> QED  BY <2>1, ApartKept DEF store
<1>9. ASSUME NEW d \in Disks, Process(d)
      PROVE  Apart' /\ KeepSources
  <2>1. /\ Tmp(d) \in Paths /\ Flat(d) \in Paths /\ Part(d) \in Paths
        /\ Out(d) \in Paths /\ Copy(d) \in Inodes /\ OutInode(d) \in Inodes
    BY Names
  <2>2. UNCHANGED opt
    BY <1>9 DEF Process, Start, Missing, FlattenBegin, FlattenEnd, FlattenFail, Publish,
                Fix, FixFail, ConvertBegin, ConvertEnd, ConvertFail
  <2>3. /\ Tmp(d)[1] = "tmp" /\ Flat(d)[1] = "flat" /\ Part(d)[1] = "part"
        /\ Out(d)[1] = "out" /\ Copy(d)[1] \in {"first", "second"}
        /\ OutInode(d)[1] = "out"
    BY DEF Tmp, Flat, Part, Out, Copy, OutInode
  <2>4. \A e \in Disks : opt.flatten /\ pc'[e] = "fix" => working'[e][1] = "flat"
    <3>1. CASE Publish(d)
      BY <2>3, <3>1 DEF Publish, Goto, Apart, StateOK
    <3>2. CASE Start(d)
      BY <3>2 DEF Start, Goto, Apart, StateOK
    <3>3. CASE ConvertEnd(d)
      BY <3>3 DEF ConvertEnd, Goto, Apart, StateOK
    <3>4. CASE \/ Missing(d) \/ FlattenBegin(d) \/ FlattenEnd(d) \/ FlattenFail(d)
               \/ Fix(d) \/ FixFail(d) \/ ConvertBegin(d) \/ ConvertFail(d)
      <4>1. UNCHANGED working /\ \E v : v # "fix" /\ pc' = [pc EXCEPT ![d] = v]
        BY <3>4 DEF Missing, FlattenBegin, FlattenEnd, FlattenFail, Fix, FixFail,
                    ConvertBegin, ConvertFail, Goto
      <4> QED  BY <4>1 DEF Apart, StateOK
    <3> QED  BY <1>9, <3>1, <3>2, <3>3, <3>4 DEF Process
  <2>5. CASE Start(d) \/ Missing(d) \/ FixFail(d)
    <3>1. UNCHANGED store
      BY <2>5 DEF Start, Missing, FixFail
    <3> QED  BY <2>2, <2>4, <3>1, ApartKept DEF store
  <2>6. CASE FlattenBegin(d)
    <3>1. /\ \A p \in Paths : p # Tmp(d) => files'[p] = files[p]
          /\ files'[Tmp(d)] = Copy(d)
          /\ \A f \in Inodes : f # Copy(d) => data'[f] = data[f]
      BY <2>1, <2>6 DEF FlattenBegin, StateOK
    <3> QED  BY <2>2, <2>3, <2>4, <3>1, ApartKept
  <2>7. CASE FlattenEnd(d)
    <3>1. files' = files /\ \A f \in Inodes : f # Copy(d) => data'[f] = data[f]
      BY <2>7 DEF FlattenEnd, StateOK
    <3> QED  BY <2>2, <2>3, <2>4, <3>1, ApartKept
  <2>8. CASE FlattenFail(d) \/ ConvertFail(d)
    <3>1. /\ \A p \in Paths : p \notin {Tmp(d), Part(d)} => files'[p] = files[p]
          /\ \A p \in Paths : files'[p] = files[p] \/ files'[p] = NoFile
          /\ data' = data
      BY <2>8 DEF FlattenFail, ConvertFail, StateOK
    <3> QED  BY <2>2, <2>3, <2>4, <3>1, ApartKept
  <2>9. CASE Publish(d)
    <3>1. files[Tmp(d)] = NoFile \/ files[Tmp(d)][1] # "input"
      BY <2>1, <2>3 DEF Apart, Exists
    <3>2. /\ \A p \in Paths : p \notin {Tmp(d), Flat(d)} => files'[p] = files[p]
          /\ \A p \in Paths : files'[p] \in {files[p], NoFile, files[Tmp(d)]}
          /\ data' = data
      BY <2>1, <2>9 DEF Publish, StateOK
    <3>3. \A p \in Paths : files'[p] = files[p] \/ files'[p] = NoFile
                           \/ files'[p][1] # "input"
      BY <3>1, <3>2
    <3> QED  BY <2>2, <2>3, <2>4, <3>2, <3>3, ApartKept
  <2>10. CASE Fix(d)
    <3>1. /\ files' = files /\ pc[d] = "fix" /\ working[d] \in Paths
          /\ files[working[d]] \in Inodes /\ Exists(working[d])
          /\ \A f \in Inodes : f # files[working[d]] => data'[f] = data[f]
      BY <2>10 DEF Fix, Target, Exists, StateOK
    <3>2. opt.flatten => files[working[d]][1] # "input"
      BY <3>1 DEF Apart
    <3> QED  BY <2>2, <2>4, <3>1, <3>2, ApartKept
  <2>11. CASE ConvertBegin(d)
    <3>1. /\ \A p \in Paths : p # Part(d) => files'[p] = files[p]
          /\ files'[Part(d)] = OutInode(d)
          /\ \A f \in Inodes : f # OutInode(d) => data'[f] = data[f]
      BY <2>1, <2>11 DEF ConvertBegin, StateOK
    <3> QED  BY <2>2, <2>3, <2>4, <3>1, ApartKept
  <2>12. CASE ConvertEnd(d)
    <3>1. files[Part(d)] = NoFile \/ files[Part(d)][1] # "input"
      BY <2>1, <2>3 DEF Apart, Exists
    <3>2. /\ \A p \in Paths : p \notin {Part(d), Out(d)} => files'[p] = files[p]
          /\ \A p \in Paths : files'[p] \in {files[p], NoFile, files[Part(d)]}
          /\ \A f \in Inodes : f # OutInode(d) => data'[f] = data[f]
      BY <2>1, <2>12 DEF ConvertEnd, StateOK
    <3>3. \A p \in Paths : files'[p] = files[p] \/ files'[p] = NoFile
                           \/ files'[p][1] # "input"
      BY <3>1, <3>2
    <3> QED  BY <2>2, <2>3, <2>4, <3>2, <3>3, ApartKept
  <2> QED
    BY <1>9, <2>5, <2>6, <2>7, <2>8, <2>9, <2>10, <2>11, <2>12 DEF Process
<1> QED
  BY <1>1, <1>2, <1>4, <1>5, <1>6, <1>7, <1>8, <1>9 DEF Next, Orchestrate

\* Disks that were not unpacked are never removed or replaced, and with flatten
\* nothing is ever written to them, whatever the seconds of the working files.
THEOREM SourcesSafe == Spec => SourcesKept
<1>1. Init => StateOK /\ Apart
  BY StateInit, ApartInit
<1>2. StateOK /\ Apart /\ [Next]_vars => (StateOK /\ Apart)' /\ KeepSources
  BY StateStep, ApartStep
<1> QED  BY <1>1, <1>2, PTL DEF Spec, SourcesKept

-----------------------------------------------------------------------------
(* Delivery.                                                               *)

\* The names under which a file stays until the temporary directory goes.
Lasting(p) == p[1] \notin {"tmp", "part"}

Ready == {"fix", "convert", "converting", "done"}

\* A disk is processed in an image that is there, and not in its source when it
\* was flattened or has been converted.
Worked ==
    \A d \in Disks :
        /\ Lasting(working[d])
        /\ pc[d] = "queued" => working[d] = <<"input", d>>
        /\ phase # "done" /\ pc[d] \in Ready => Exists(working[d])
        /\ opt.flatten /\ pc[d] \in Ready => working[d][1] # "input"
        /\ opt.toOutput /\ pc[d] = "done" => working[d][1] # "input"
        /\ pc[d] = "converting" => Exists(Part(d))

\* The images in the list are there, at the end unless they were in the
\* temporary directory, where no result is with flatten or to_output.
Listed ==
    /\ \A i \in DOMAIN outputs :
         /\ Lasting(outputs[i])
         /\ opt.flatten \/ opt.toOutput => outputs[i][1] # "input"
    /\ phase \in {"post", "test", "cleanup"} \/ (phase = "done" /\ Elsewhere)
         => \A i \in DOMAIN outputs : Exists(outputs[i])

\* Only the end of the run removes files, and only sources.
LEMMA Lasts ==
    ASSUME StateOK, Worked, [Next]_vars, NEW p \in Paths, Lasting(p), Exists(p)
    PROVE  files'[p] # NoFile \/ (Cleanup /\ opt.extract /\ p[1] = "input")
<1> USE PipelineAssumption
<1>1. CASE UNCHANGED files
  BY <1>1 DEF Exists
<1>2. CASE Discover
  <2>1. files'[p] = files[p] \/ (p[1] = "input" /\ files'[p] = <<"input", p[2], run>>)
    BY <1>2 DEF Discover, store
  <2>2. p[1] = "input" => <<"input", p[2], run>> \in Inodes
    BY DEF Paths, Inodes, StateOK
  <2> QED  BY <2>1, <2>2 DEF Exists
<1>3. ASSUME PreV2v \/ PostV2v
      PROVE  files'[p] # NoFile
  <2>1. PICK W : V2vNames(W) /\ V2vWrites(W)
    BY <1>3, V2vSteps
  <2>2. \/ files'[p] = files[p]
        \/ files'[p] = <<p[1], p[2], run>> /\ <<p[1], p[2], run>> \in Inodes
    BY <2>1, V2vFrame
  <2> QED  BY <2>2 DEF Exists
<1>4. CASE PreV2v
  BY <1>3, <1>4
<1>5. CASE PostV2v
  BY <1>3, <1>5
<1>6. CASE Cleanup
  BY <1>6 DEF Cleanup, Exists
<1>7. CASE DiscoverFail \/ PreV2vFail \/ Collect \/ DieOnFailure \/ PostV2vFail
           \/ Test \/ TestFail \/ Rerun
  <2>1. UNCHANGED files
    BY <1>7 DEF DiscoverFail, PreV2vFail, Collect, DieOnFailure, PostV2vFail, Test,
                TestFail, Rerun, store
  <2> QED  BY <1>1, <2>1
<1>8. ASSUME NEW d \in Disks, Process(d) PROVE files'[p] # NoFile
  <2>1. /\ Tmp(d) \in Paths /\ Flat(d) \in Paths /\ Part(d) \in Paths
        /\ Out(d) \in Paths /\ Copy(d) \in Inodes /\ OutInode(d) \in Inodes
    BY Names
  <2>2. p # Tmp(d) /\ p # Part(d)
    BY DEF Lasting, Tmp, Part
  <2>3. CASE UNCHANGED files
    BY <2>3 DEF Exists
  <2>4. CASE FlattenBegin(d) \/ FlattenFail(d) \/ ConvertBegin(d) \/ ConvertFail(d)
    <3>1. files'[p] = files[p]
      BY <2>2, <2>4 DEF FlattenBegin, FlattenFail, ConvertBegin, ConvertFail, StateOK
    <3> QED  BY <3>1 DEF Exists
  <2>5. CASE Publish(d)
    <3>1. files'[p] \in {files[p], files[Tmp(d)]} /\ (files' = files \/ Exists(Tmp(d)))
      BY <2>1, <2>2, <2>5 DEF Publish, StateOK
    <3> QED  BY <3>1 DEF Exists
  <2>6. CASE ConvertEnd(d)
    <3>1. files'[p] \in {files[p], files[Part(d)]}
      BY <2>1, <2>2, <2>6 DEF ConvertEnd, StateOK
    <3>2. Exists(Part(d))
      BY <2>6 DEF ConvertEnd, Worked
    <3> QED  BY <3>1, <3>2 DEF Exists
  <2>7. CASE Start(d) \/ Missing(d) \/ FlattenEnd(d) \/ Fix(d) \/ FixFail(d)
    <3>1. UNCHANGED files
      BY <2>7 DEF Start, Missing, FlattenEnd, Fix, FixFail, store
    <3> QED  BY <2>3, <3>1
  <2> QED
    BY <1>8, <2>4, <2>5, <2>6, <2>7 DEF Process
<1> QED
  BY <1>1, <1>2, <1>4, <1>5, <1>6, <1>7, <1>8 DEF Next, Orchestrate, vars

\* The steps of the disks and of the main thread keep what the disks work on.
LEMMA WorkedStep ==
    ASSUME StateOK, Worked, [Next]_vars
    PROVE  Worked'
<1> USE PipelineAssumption
<1>1. \A d \in Disks : working[d] \in Paths
  BY DEF StateOK
<1>2. CASE /\ UNCHANGED <<opt, pc, working>>
           /\ \A d \in Disks : files'[Part(d)] = files[Part(d)]
           /\ phase' = "done" => UNCHANGED phase \/ Cleanup
           /\ phase' # "done" => phase # "done" /\ ~Cleanup
  <2> SUFFICES ASSUME NEW d \in Disks
               PROVE  /\ Lasting(working[d])
                      /\ pc[d] = "queued" => working[d] = <<"input", d>>
                      /\ phase' # "done" /\ pc[d] \in Ready => files'[working[d]] # NoFile
                      /\ opt.flatten /\ pc[d] \in Ready => working[d][1] # "input"
                      /\ opt.toOutput /\ pc[d] = "done" => working[d][1] # "input"
                      /\ pc[d] = "converting" => files'[Part(d)] # NoFile
    BY <1>2 DEF Worked, Exists, Lasting, Part
  <2>1. phase' # "done" /\ pc[d] \in Ready => files'[working[d]] # NoFile
    BY <1>1, <1>2, Lasts DEF Worked
  <2> QED  BY <1>2, <2>1 DEF Worked, Exists
<1>3. CASE UNCHANGED vars
  BY <1>3 DEF vars, Worked, Exists, Lasting, Part
<1>4. CASE Orchestrate
  <2>1. UNCHANGED <<opt, pc, working>>
    BY <1>4 DEF Orchestrate, Discover, DiscoverFail, PreV2v, PreV2vFail, Collect,
                DieOnFailure, PostV2v, PostV2vFail, Test, TestFail, Cleanup, Enter, worker
  <2>2. \A p \in Paths : p[1] = "part" => files'[p] = files[p]
    <3>1. ASSUME PreV2v \/ PostV2v
          PROVE  \A p \in Paths : p[1] = "part" => files'[p] = files[p]
      <4>1. PICK W : V2vNames(W) /\ V2vWrites(W)
        BY <3>1, V2vSteps
      <4> QED  BY <4>1, V2vFrame
    <3>2. CASE PreV2v
      BY <3>1, <3>2
    <3>3. CASE PostV2v
      BY <3>1, <3>3
    <3>4. CASE Discover \/ Cleanup
      BY <3>4 DEF Discover, Cleanup, store
    <3>5. CASE DiscoverFail \/ PreV2vFail \/ Collect \/ DieOnFailure \/ PostV2vFail
               \/ Test \/ TestFail
      BY <3>5 DEF DiscoverFail, PreV2vFail, Collect, DieOnFailure, PostV2vFail, Test,
                  TestFail, store
    <3> QED  BY <1>4, <3>2, <3>3, <3>4, <3>5 DEF Orchestrate
  <2>3. \A d \in Disks : Part(d) \in Paths /\ Part(d)[1] = "part"
    BY DEF Part, Paths
  <2>4. /\ phase' = "done" => Cleanup
        /\ phase' # "done" => phase # "done" /\ ~Cleanup
    BY <1>4 DEF Orchestrate, Discover, DiscoverFail, PreV2v, PreV2vFail, Collect,
                DieOnFailure, PostV2v, PostV2vFail, Test, TestFail, Cleanup, Enter
  <2> QED  BY <1>2, <2>1, <2>2, <2>3, <2>4
<1>5. CASE Rerun
  BY <1>5 DEF Rerun, Worked, Ready, Lasting
<1>6. ASSUME NEW d \in Disks, Process(d) PROVE Worked'
  <2>1. /\ Tmp(d) \in Paths /\ Flat(d) \in Paths /\ Part(d) \in Paths
        /\ Out(d) \in Paths /\ Copy(d) \in Inodes /\ OutInode(d) \in Inodes
        /\ <<"input", d>> \in Paths
    BY Names
  <2>2. UNCHANGED <<opt, phase>>
    BY <1>6 DEF Process, Start, Missing, FlattenBegin, FlattenEnd, FlattenFail, Publish,
                Fix, FixFail, ConvertBegin, ConvertEnd, ConvertFail
  <2>3. \A e \in Disks : e # d => pc'[e] = pc[e] /\ working'[e] = working[e]
    BY <1>6 DEF Process, Start, Missing, FlattenBegin, FlattenEnd, FlattenFail, Publish,
                Fix, FixFail, ConvertBegin, ConvertEnd, ConvertFail, Goto, StateOK
  <2>4. ~Cleanup \/ phase' = "done"
    BY DEF Cleanup, Enter
  <2>5. ASSUME NEW p \in Paths, Lasting(p), Exists(p), phase' # "done"
        PROVE  files'[p] # NoFile
    BY <2>4, <2>5, Lasts
  <2>6. \A e \in Disks : e # d => files'[Part(e)] = files[Part(e)]
    <3>1. \A e \in Disks : e # d => /\ Part(e) \in Paths /\ Part(e) # Part(d)
                                   /\ Part(e) # Tmp(d) /\ Part(e) # Flat(d)
                                   /\ Part(e) # Out(d)
      BY DEF Part, Tmp, Flat, Out, Paths
    <3>2. CASE FlattenBegin(d) \/ FlattenFail(d) \/ Publish(d)
      BY <2>1, <3>1, <3>2 DEF FlattenBegin, FlattenFail, Publish, StateOK
    <3>3. CASE ConvertBegin(d) \/ ConvertEnd(d) \/ ConvertFail(d)
      BY <2>1, <3>1, <3>3 DEF ConvertBegin, ConvertEnd, ConvertFail, StateOK
    <3>4. CASE Start(d) \/ Missing(d) \/ FlattenEnd(d) \/ Fix(d) \/ FixFail(d)
      BY <3>4 DEF Start, Missing, FlattenEnd, Fix, FixFail, store
    <3> QED  BY <1>6, <3>2, <3>3, <3>4 DEF Process
  <2>7. /\ Lasting(working'[d])
        /\ pc'[d] = "queued" => working'[d] = <<"input", d>>
        /\ phase' # "done" /\ pc'[d] \in Ready => files'[working'[d]] # NoFile
        /\ opt.flatten /\ pc'[d] \in Ready => working'[d][1] # "input"
        /\ opt.toOutput /\ pc'[d] = "done" => working'[d][1] # "input"
        /\ pc'[d] = "converting" => files'[Part(d)] # NoFile
    <3>1. CASE Start(d)
      <4>1. UNCHANGED <<files, working>> /\ pc[d] = "queued"
            /\ pc'[d] = IF opt.flatten THEN "attempt" ELSE "fix"
        BY <3>1 DEF Start, MayStart, Goto, store, StateOK
      <4>2. working[d] = <<"input", d>> /\ Exists(working[d]) /\ Lasting(working[d])
        BY <3>1, <4>1 DEF Start, Worked
      <4> QED  BY <4>1, <4>2 DEF Ready, Exists
    <3>2. CASE \/ Missing(d) \/ FlattenBegin(d) \/ FlattenEnd(d) \/ FlattenFail(d)
               \/ FixFail(d) \/ ConvertFail(d)
      <4>1. UNCHANGED working /\ pc'[d] \in {"failed", "copying", "replace", "attempt"}
        BY <3>2 DEF Missing, FlattenBegin, FlattenEnd, FlattenFail, FixFail, ConvertFail,
                    Goto, StateOK
      <4> QED  BY <4>1 DEF Worked, Ready
    <3>3. CASE Publish(d)
      <4>1. CASE Exists(Tmp(d))
        <5>1. working'[d] = Flat(d) /\ pc'[d] = "fix" /\ files'[Flat(d)] = files[Tmp(d)]
          BY <2>1, <3>3, <4>1 DEF Publish, Goto, StateOK, Flat, Tmp
        <5> QED  BY <4>1, <5>1 DEF Lasting, Flat, Exists
      <4>2. CASE ~Exists(Tmp(d))
        <5>1. working' = working /\ pc'[d] = "failed"
          BY <3>3, <4>2 DEF Publish, Goto, StateOK
        <5> QED  BY <5>1 DEF Worked, Ready
      <4> QED  BY <4>1, <4>2
    <3>4. CASE Fix(d)
      <4>1. /\ UNCHANGED <<files, working>> /\ pc[d] = "fix" /\ Exists(working[d])
            /\ pc'[d] = IF opt.toOutput THEN "convert" ELSE "done"
        BY <3>4 DEF Fix, Target, Goto, StateOK
      <4> QED  BY <4>1 DEF Worked, Ready, Exists
    <3>5. CASE ConvertBegin(d)
      <4>1. /\ UNCHANGED working /\ pc[d] = "convert" /\ pc'[d] = "converting"
            /\ files'[Part(d)] = OutInode(d)
        BY <2>1, <3>5 DEF ConvertBegin, Goto, StateOK
      <4>2. phase' # "done" => files'[working[d]] # NoFile
        BY <1>1, <2>2, <2>5, <4>1 DEF Worked, Ready
      <4> QED  BY <2>1, <2>2, <4>1, <4>2 DEF Worked, Ready
    <3>6. CASE ConvertEnd(d)
      <4>1. /\ working'[d] = Out(d) /\ pc[d] = "converting" /\ pc'[d] = "done"
            /\ files'[Out(d)] = files[Part(d)]
        BY <2>1, <3>6 DEF ConvertEnd, Result, Goto, StateOK, Part, Out
      <4> QED  BY <4>1 DEF Worked, Exists, Lasting, Out
    <3> QED  BY <1>6, <3>1, <3>2, <3>3, <3>4, <3>5, <3>6 DEF Process
  <2>8. ASSUME NEW e \in Disks, e # d
        PROVE  /\ Lasting(working'[e])
               /\ pc'[e] = "queued" => working'[e] = <<"input", e>>
               /\ phase' # "done" /\ pc'[e] \in Ready => files'[working'[e]] # NoFile
               /\ opt.flatten /\ pc'[e] \in Ready => working'[e][1] # "input"
               /\ opt.toOutput /\ pc'[e] = "done" => working'[e][1] # "input"
               /\ pc'[e] = "converting" => files'[Part(e)] # NoFile
    <3>1. phase' # "done" /\ pc[e] \in Ready => files'[working[e]] # NoFile
      BY <1>1, <2>2, <2>5 DEF Worked
    <3> QED  BY <2>2, <2>3, <2>6, <2>8, <3>1 DEF Worked, Exists
  <2> QED  BY <2>2, <2>7, <2>8 DEF Worked, Exists, Lasting, Part
<1> QED
  BY <1>3, <1>4, <1>5, <1>6 DEF Next

\* The list names what the disks were processed in or what virt-v2v made.
LEMMA ListedStep ==
    ASSUME StateOK, outputs \in Seq(Paths), Worked, Listed, [Next]_vars
    PROVE  Listed'
<1> USE PipelineAssumption
<1>1. \A i \in DOMAIN outputs : outputs[i] \in Paths
  OBVIOUS
<1>2. ASSUME UNCHANGED <<opt, outputs>>,
             phase' \in {"post", "test", "cleanup"}
                 => phase \in {"post", "test", "cleanup"} /\ ~Cleanup,
             phase' = "done" => phase = "done" \/ (Cleanup /\ phase = "cleanup")
      PROVE  Listed'
  <2>1. ASSUME NEW i \in DOMAIN outputs,
               \/ phase' \in {"post", "test", "cleanup"}
               \/ phase' = "done" /\ (~opt.extract \/ opt.flatten \/ opt.toOutput)
        PROVE  files'[outputs[i]] # NoFile
    <3>1. Exists(outputs[i]) /\ Lasting(outputs[i])
      BY <1>2, <2>1 DEF Listed, Elsewhere
    <3>2. ~(Cleanup /\ opt.extract /\ outputs[i][1] = "input")
      BY <1>2, <2>1 DEF Listed, Cleanup, Enter
    <3> QED  BY <1>1, <3>1, <3>2, Lasts
  <2> QED  BY <1>2, <2>1 DEF Listed, Elsewhere, Exists, Lasting
<1>3. ASSUME UNCHANGED opt, phase' # "done",
             \A i \in DOMAIN outputs' :
                /\ Lasting(outputs'[i]) /\ files'[outputs'[i]] # NoFile
                /\ opt.flatten \/ opt.toOutput => outputs'[i][1] # "input"
      PROVE  Listed'
  BY <1>3 DEF Listed, Exists, Lasting
<1>4. CASE UNCHANGED vars
  BY <1>4 DEF vars, Listed, Elsewhere, Exists, Lasting
<1>5. CASE PreV2v
  <2>1. UNCHANGED opt /\ phase' # "done"
    BY <1>5 DEF PreV2v, Enter
  <2>2. PICK S : outputs' = <<>> \/ outputs' \in PreResults(S)
    BY <1>5 DEF PreV2v
  <2>3. CASE outputs' = <<>>
    BY <1>3, <2>1, <2>3
  <2>4. CASE outputs' \in PreResults(S)
    <3>1. \A i \in DOMAIN outputs' : /\ outputs'[i][1] \in {"v2v", "out"}
                                     /\ files'[outputs'[i]] # NoFile
      BY <2>4, PreMade
    <3> QED  BY <1>3, <2>1, <3>1 DEF Lasting
  <2> QED  BY <2>2, <2>3, <2>4
<1>6. CASE PostV2v
  <2>1. UNCHANGED opt /\ phase' = "test" /\ phase = "post" /\ ~Cleanup
    BY <1>6 DEF PostV2v, Enter, Cleanup
  <2>3. PICK S : outputs' = outputs \/ outputs' \in PostResults(S)
    BY <1>6 DEF PostV2v
  <2>4. CASE outputs' = outputs
    BY <1>2, <2>1, <2>4
  <2>5. CASE outputs' \in PostResults(S)
    <3>2. \A i \in DOMAIN outputs' : /\ outputs'[i][1] \in {"post", "jobs"}
                                     /\ files'[outputs'[i]] # NoFile
      BY <2>5, PostListed
    <3> QED  BY <1>3, <2>1, <3>2 DEF Lasting
  <2> QED  BY <2>3, <2>4, <2>5
<1>7. CASE Collect
  <2>1. UNCHANGED <<opt, files>> /\ phase = "process" /\ phase' = "post"
    BY <1>7 DEF Collect, Enter, store
  <2>2. PICK s \in Seq(Disks) :
          /\ DOMAIN outputs' = DOMAIN s
          /\ \A i \in DOMAIN s : s[i] \in Disks /\ pc[s[i]] = "done"
                                 /\ outputs'[i] = working[s[i]]
    BY <1>7, Collected
  <2>3. CASE ~(opt.flatten \/ opt.toOutput)
    BY <1>3, <2>1, <2>2, <2>3 DEF Worked, Ready, Exists
  <2>4. CASE opt.flatten
    BY <1>3, <2>1, <2>2, <2>4 DEF Worked, Ready, Exists
  <2>5. CASE opt.toOutput
    BY <1>3, <2>1, <2>2, <2>5 DEF Worked, Ready, Exists
  <2> QED  BY <2>3, <2>4, <2>5
<1>8. CASE Rerun
  BY <1>8 DEF Rerun, Listed
<1>9. CASE \/ Discover \/ DiscoverFail \/ PreV2vFail \/ DieOnFailure \/ PostV2vFail
           \/ Test \/ TestFail \/ Cleanup
  <2>1. /\ UNCHANGED <<opt, outputs>>
        /\ phase' \in {"post", "test", "cleanup"}
             => phase \in {"post", "test", "cleanup"} /\ phase # "cleanup"
        /\ phase' = "done" => Cleanup /\ phase = "cleanup"
    BY <1>9 DEF Discover, DiscoverFail, PreV2vFail, DieOnFailure, PostV2vFail, Test,
                TestFail, Cleanup, Enter
  <2> QED  BY <1>2, <2>1 DEF Cleanup
<1>10. ASSUME NEW d \in Disks, Process(d) PROVE Listed'
  <2>1. UNCHANGED <<opt, outputs, phase>>
    BY <1>10 DEF Process, Start, Missing, FlattenBegin, FlattenEnd, FlattenFail, Publish,
                 Fix, FixFail, ConvertBegin, ConvertEnd, ConvertFail
  <2>2. Cleanup => phase' = "done" /\ phase = "cleanup"
    BY DEF Cleanup, Enter
  <2> QED  BY <1>2, <2>1, <2>2
<1> QED
  BY <1>4, <1>5, <1>6, <1>7, <1>8, <1>9, <1>10 DEF Next, Orchestrate

\* An image a run lists is there once the temporary directory is gone, whatever
\* fails, dies or is started again and whatever the seconds of the working files.
THEOREM DeliveredThere == Spec => []Delivered
<1> DEFINE IInv == TypeOK /\ Worked /\ Listed
<1>1. Init => IInv
  <2>1. Init => Worked
    BY DEF Init, Idle, Worked, Ready, Lasting
  <2>2. Init => Listed
    BY DEF Init, Idle, Listed
  <2> QED  BY <2>1, <2>2, TypeInit
<1>2. IInv /\ [Next]_vars => IInv'
  BY TypeNext, WorkedStep, ListedStep DEF TypeOK
<1>3. IInv => Delivered
  BY DEF Listed, Delivered
<1> QED  BY <1>1, <1>2, <1>3, PTL DEF Spec

-----------------------------------------------------------------------------
(* Each disk's own image.                                                  *)

\* A file holds the disk it was written for, and a source all of it.
Owned ==
    \A f \in Inodes : data[f].of = f[2] /\ (f[1] = "input" => data[f].whole)

\* But for the working files, a name tells the disk of its file.
Named ==
    \A p \in Paths : p[1] \notin {"tmp", "flat"} /\ Exists(p) =>
        files[p][2] = p[2] /\ files[p][1] = IF p[1] = "part" THEN "out" ELSE p[1]

\* Disks flattened in this invocation have working files of different seconds.
Stamped ==
    \A d \in Disks :
        /\ \A e \in Disks : e # d /\ stamp[d] = stamp[e] => stamp[d] = 0
        /\ pc[d] \in Flattening \/ working[d][1] = "flat" => stamp[d] > 0

\* A disk is processed in its source, its own copy, or its result, which was
\* fixed before it was converted.
Mine ==
    \A d \in Disks :
        /\ pc[d] \in Ready =>
             /\ working[d] \in {<<"input", d>>, Flat(d), Out(d)}
             /\ working[d] = Out(d) => pc[d] = "done" /\ files[Out(d)] = OutInode(d)
             /\ working[d] = Flat(d) => files[Flat(d)] = Copy(d)
             /\ pc[d] # "fix" /\ Exists(working[d]) => Image(working[d]).fixed
        /\ pc[d] = "converting" => data[OutInode(d)].fixed

\* Disks are processed in one phase, unless the main thread left it early.
Resting ==
    /\ phase \in {"discover", "pre"} => \A d \in Disks : pc[d] = "queued"
    /\ phase \notin {"process", "aborted"} =>
         \A d \in Disks : pc[d] \in {"queued", "done", "failed"}

\* What an invocation finds when it starts is not its own, nor is what is in the
\* directories of virt-v2v before it runs.
Unused ==
    /\ phase \in {"discover", "pre"} =>
         \A p \in Paths : p[1] = "out" /\ Exists(p) => files[p][3] # run
    /\ phase \in {"discover", "pre", "process", "post"} =>
         \A p \in Paths : p[1] \in {"post", "jobs"} /\ Exists(p) => files[p][3] # run

\* virt-v2v comes before the pipeline or after it.
OneV2v == opt.v2v = "no" \/ opt.post = "no"

\* What OwnImages says of the list, from the time it is made.
ListGood ==
    /\ phase \in {"discover", "pre", "process", "post"} =>
         \A i \in DOMAIN outputs : outputs[i][1] \notin {"post", "jobs"}
    /\ phase \in {"post", "test", "cleanup", "done"} =>
         \A i \in DOMAIN outputs : Exists(outputs[i]) =>
            IF Stale(outputs[i])
            THEN Searched(outputs[i])
            ELSE /\ Image(outputs[i]).whole /\ Image(outputs[i]).fixed
                 /\ \A j \in 1..(i - 1) : Exists(outputs[j]) /\ ~Stale(outputs[j]) =>
                        files[outputs[j]][2] < files[outputs[i]][2]

OwnParts == Owned /\ Named /\ Stamped /\ Mine /\ Resting /\ Unused

\* The file a disk is processed in is its own.
LEMMA OwnFile ==
    ASSUME StateOK, OwnParts, NEW d \in Disks, pc[d] \in Ready, Exists(working[d])
    PROVE  /\ working[d] \in Paths /\ files[working[d]] \in Inodes
           /\ files[working[d]][2] = d
           /\ working[d] = <<"input", d>> => files[working[d]][1] = "input"
           /\ working[d] = Flat(d) => files[working[d]] = Copy(d)
           /\ working[d] = Out(d) => files[working[d]][1] = "out"
<1>1. working[d] \in Paths /\ files[working[d]] \in Inodes
  BY DEF StateOK, Exists
<1>2. working[d] \in {<<"input", d>>, Flat(d), Out(d)}
  BY DEF OwnParts, Mine
<1>3. CASE working[d] = <<"input", d>>
  <2> DEFINE p == <<"input", d>>
  <2>1. p[1] = "input" /\ p[2] = d /\ p \in Paths /\ Exists(p)
    BY <1>1, <1>3
  <2>2. files[p][2] = d /\ files[p][1] = "input"
    BY <2>1 DEF OwnParts, Named
  <2>3. working[d] = p /\ p # Flat(d) /\ p # Out(d)
    BY <1>3 DEF Flat, Out
  <2> HIDE DEF p
  <2> QED  BY <1>1, <2>2, <2>3
<1>4. CASE working[d] = Flat(d)
  <2>1. Flat(d) # <<"input", d>> /\ Flat(d) # Out(d)
    BY DEF Flat, Out
  <2>2. files[working[d]] = Copy(d)
    BY <1>4 DEF OwnParts, Mine
  <2>3. Copy(d)[2] = d
    BY DEF Copy
  <2> QED  BY <1>1, <1>4, <2>1, <2>2, <2>3
<1>5. CASE working[d] = Out(d)
  <2>1. Out(d) # <<"input", d>> /\ Out(d) # Flat(d)
    BY DEF Flat, Out
  <2>2. files[working[d]] = OutInode(d)
    BY <1>5 DEF OwnParts, Mine
  <2>3. OutInode(d)[1] = "out" /\ OutInode(d)[2] = d
    BY DEF OutInode
  <2> QED  BY <1>1, <1>5, <2>1, <2>2, <2>3
<1> QED  BY <1>2, <1>3, <1>4, <1>5

\* A disk's step touches its own names and its own files.
LEMMA OwnStep ==
    ASSUME StateOK, PubParts, OwnParts, NEW d \in Disks, Process(d)
    PROVE  /\ UNCHANGED <<opt, run, phase, outputs>>
           /\ \A p \in Paths : p \notin {Tmp(d), Flat(d), Part(d), Out(d)}
                               => files'[p] = files[p]
           /\ \A f \in Inodes : f[2] # d => data'[f] = data[f]
           /\ \A e \in Disks : e # d => /\ pc'[e] = pc[e] /\ try'[e] = try[e]
                                        /\ stamp'[e] = stamp[e]
                                        /\ working'[e] = working[e]
           /\ Owned'
<1> USE PipelineAssumption
<1>1. /\ Tmp(d) \in Paths /\ Flat(d) \in Paths /\ Part(d) \in Paths
      /\ Out(d) \in Paths /\ Copy(d) \in Inodes /\ OutInode(d) \in Inodes
      /\ <<"input", d>> \in Paths
  BY Names
<1>2. UNCHANGED <<opt, run, phase, outputs>>
  BY DEF Process, Start, Missing, FlattenBegin, FlattenEnd, FlattenFail, Publish,
         Fix, FixFail, ConvertBegin, ConvertEnd, ConvertFail
<1>3. \A e \in Disks : e # d => /\ pc'[e] = pc[e] /\ try'[e] = try[e]
                                /\ stamp'[e] = stamp[e] /\ working'[e] = working[e]
  BY DEF Process, Start, Missing, FlattenBegin, FlattenEnd, FlattenFail, Publish,
         Fix, FixFail, ConvertBegin, ConvertEnd, ConvertFail, Goto, StateOK
<1>4. Copy(d)[2] = d /\ OutInode(d)[2] = d /\ Copy(d)[1] # "input"
      /\ OutInode(d)[1] # "input"
  BY DEF Copy, OutInode
<1>5. \A f \in Inodes : data[f] \in Contents
  BY DEF StateOK
<1>6. ASSUME NEW f \in Inodes, f[2] = d, data'[f].of = d,
             f[1] = "input" => data'[f].whole,
             \A g \in Inodes : g # f => data'[g] = data[g]
      PROVE  Owned' /\ \A g \in Inodes : g[2] # d => data'[g] = data[g]
  BY <1>6 DEF OwnParts, Owned
<1>7. CASE Start(d) \/ Missing(d) \/ FixFail(d) \/ FlattenFail(d) \/ Publish(d)
           \/ ConvertFail(d)
  <2>1. UNCHANGED data
    BY <1>7 DEF Start, Missing, FixFail, FlattenFail, Publish, ConvertFail, store
  <2>2. \A p \in Paths : p \notin {Tmp(d), Flat(d), Part(d), Out(d)}
                         => files'[p] = files[p]
    BY <1>7 DEF Start, Missing, FixFail, FlattenFail, Publish, ConvertFail, store, StateOK
  <2> QED  BY <1>2, <1>3, <2>1, <2>2 DEF OwnParts, Owned
<1>8. CASE FlattenBegin(d)
  <2>1. /\ Exists(<<"input", d>>)
        /\ \A p \in Paths : p # Tmp(d) => files'[p] = files[p]
        /\ data' = [data EXCEPT ![Copy(d)] = [Image(<<"input", d>>) EXCEPT !.whole = FALSE]]
    BY <1>8 DEF FlattenBegin, StateOK
  <2>2. files[<<"input", d>>] \in Inodes /\ files[<<"input", d>>][2] = d
    BY <1>1, <2>1 DEF OwnParts, Named, Exists, StateOK
  <2>3. Image(<<"input", d>>) \in Contents /\ Image(<<"input", d>>).of = d
    BY <1>5, <2>2 DEF OwnParts, Owned, Image
  <2>4. data'[Copy(d)].of = d /\ \A g \in Inodes : g # Copy(d) => data'[g] = data[g]
    BY <1>1, <2>1, <2>3 DEF StateOK, Contents
  <2> QED  BY <1>1, <1>2, <1>3, <1>4, <1>6, <2>1, <2>4
<1>9. CASE FlattenEnd(d)
  <2>1. UNCHANGED files /\ data' = [data EXCEPT ![Copy(d)].whole = TRUE]
    BY <1>9 DEF FlattenEnd
  <2>2. data'[Copy(d)].of = d /\ \A g \in Inodes : g # Copy(d) => data'[g] = data[g]
    BY <1>1, <1>4, <1>5, <2>1 DEF StateOK, Contents, OwnParts, Owned
  <2> QED  BY <1>1, <1>2, <1>3, <1>4, <1>6, <2>1, <2>2
<1>10. CASE Fix(d)
  <2>1. /\ UNCHANGED files /\ pc[d] = "fix" /\ Exists(working[d])
        /\ data' = [data EXCEPT ![files[working[d]]].fixed = TRUE]
    BY <1>10 DEF Fix, Target
  <2>2. files[working[d]] \in Inodes /\ files[working[d]][2] = d
    BY <2>1, OwnFile DEF Ready
  <2>3. LET f == files[working[d]]
        IN  /\ data'[f].of = data[f].of /\ data'[f].whole = data[f].whole
            /\ \A g \in Inodes : g # f => data'[g] = data[g]
    BY <1>5, <2>1, <2>2 DEF StateOK, Contents
  <2>4. LET f == files[working[d]]
        IN  data'[f].of = d /\ (f[1] = "input" => data'[f].whole)
    BY <2>2, <2>3 DEF OwnParts, Owned
  <2> QED  BY <1>2, <1>3, <1>6, <2>1, <2>2, <2>3, <2>4
<1>11. CASE ConvertBegin(d)
  <2>1. /\ Exists(working[d]) /\ pc[d] = "convert"
        /\ \A p \in Paths : p # Part(d) => files'[p] = files[p]
        /\ data' = [data EXCEPT ![OutInode(d)] = [Image(working[d]) EXCEPT !.whole = FALSE]]
    BY <1>11 DEF ConvertBegin, StateOK
  <2>2. files[working[d]] \in Inodes /\ files[working[d]][2] = d
    BY <2>1, OwnFile DEF Ready
  <2>3. Image(working[d]) \in Contents /\ Image(working[d]).of = d
    BY <1>5, <2>2 DEF OwnParts, Owned, Image
  <2>4. data'[OutInode(d)].of = d /\ \A g \in Inodes : g # OutInode(d) => data'[g] = data[g]
    BY <1>1, <2>1, <2>3 DEF StateOK, Contents
  <2> QED  BY <1>1, <1>2, <1>3, <1>4, <1>6, <2>1, <2>4
<1>12. CASE ConvertEnd(d)
  <2>1. /\ \A p \in Paths : p \notin {Part(d), Out(d)} => files'[p] = files[p]
        /\ data' = [data EXCEPT ![OutInode(d)].whole = TRUE]
    BY <1>12 DEF ConvertEnd, StateOK
  <2>2. data'[OutInode(d)].of = d /\ \A g \in Inodes : g # OutInode(d) => data'[g] = data[g]
    BY <1>1, <1>4, <1>5, <2>1 DEF StateOK, Contents, OwnParts, Owned
  <2> QED  BY <1>1, <1>2, <1>3, <1>4, <1>6, <2>1, <2>2
<1> QED
  BY <1>7, <1>8, <1>9, <1>10, <1>11, <1>12 DEF Process

\* What one disk is processed in stays as it is while another moves.
LEMMA MineOthers ==
    ASSUME StateOK, PubParts, OwnParts, NEW d \in Disks, Process(d),
           NEW e \in Disks, e # d
    PROVE  /\ pc[e] \in Ready =>
                /\ files'[working[e]] = files[working[e]]
                /\ Exists(working[e]) => data'[files[working[e]]] = data[files[working[e]]]
           /\ data'[OutInode(e)] = data[OutInode(e)]
<1>1. /\ \A p \in Paths : p \notin {Tmp(d), Flat(d), Part(d), Out(d)}
                          => files'[p] = files[p]
      /\ \A f \in Inodes : f[2] # d => data'[f] = data[f]
  BY OwnStep
<1>2. OutInode(e) \in Inodes /\ OutInode(e)[2] = e
  BY Names DEF OutInode
<1>3. ASSUME pc[e] \in Ready
      PROVE  files'[working[e]] = files[working[e]]
  <2>1. working[e] \in Paths /\ working[e] \in {<<"input", e>>, Flat(e), Out(e)}
    BY <1>3 DEF StateOK, OwnParts, Mine
  <2>2. working[e] = Flat(e) => Flat(e) # Flat(d)
    <3> SUFFICES ASSUME working[e] = Flat(e), Flat(e) = Flat(d) PROVE FALSE
      OBVIOUS
    <3>1. stamp[e] = stamp[d] /\ working[e][1] = "flat"
      BY DEF Flat
    <3>2. stamp[e] > 0 /\ stamp[e] = 0
      BY <3>1 DEF OwnParts, Stamped
    <3> QED  BY <3>2
  <2>3. working[e] \notin {Tmp(d), Flat(d), Part(d), Out(d)}
    BY <2>1, <2>2 DEF Tmp, Flat, Part, Out
  <2> QED  BY <1>1, <2>1, <2>3
<1>4. ASSUME pc[e] \in Ready, Exists(working[e])
      PROVE  data'[files[working[e]]] = data[files[working[e]]]
  BY <1>1, <1>4, OwnFile
<1> QED  BY <1>1, <1>2, <1>3, <1>4

\* The steps of a disk, when no two flattenings start within one second.
LEMMA MineStep ==
    ASSUME StateOK, StateOK', PubParts, Worked, OwnParts, ~SameSecond,
           NEW d \in Disks, Process(d)
    PROVE  Mine'
<1> USE PipelineAssumption
<1>1. /\ Tmp(d) \in Paths /\ Flat(d) \in Paths /\ Part(d) \in Paths
      /\ Out(d) \in Paths /\ Copy(d) \in Inodes /\ OutInode(d) \in Inodes
      /\ <<"input", d>> \in Paths
  BY Names
<1>2. /\ run' = run
      /\ \A e \in Disks : e # d => /\ pc'[e] = pc[e] /\ try'[e] = try[e]
                                   /\ stamp'[e] = stamp[e] /\ working'[e] = working[e]
  BY OwnStep
<1>3. \A f \in Inodes : data[f] \in Contents
  BY DEF StateOK
<1>4. /\ pc'[d] \in Ready =>
           /\ working'[d] \in {<<"input", d>>, Flat(d)', Out(d)}
           /\ working'[d] = Out(d) => pc'[d] = "done" /\ files'[Out(d)] = OutInode(d)
           /\ working'[d] = Flat(d)' => files'[Flat(d)'] = Copy(d)'
           /\ pc'[d] # "fix" /\ files'[working'[d]] # NoFile
                 => data'[files'[working'[d]]].fixed
      /\ pc'[d] = "converting" => data'[OutInode(d)].fixed
  <2>1. CASE Start(d)
    <3>1. UNCHANGED <<files, data, working>> /\ pc[d] = "queued"
          /\ pc'[d] \in {"attempt", "fix"}
      BY <2>1 DEF Start, MayStart, Goto, store, StateOK
    <3>2. working'[d] = <<"input", d>>
      BY <3>1 DEF Worked
    <3> QED  BY <3>1, <3>2 DEF Ready, Flat, Out
  <2>2. CASE \/ Missing(d) \/ FlattenBegin(d) \/ FlattenEnd(d) \/ FlattenFail(d)
             \/ FixFail(d) \/ ConvertFail(d)
    <3>1. pc'[d] \in {"failed", "copying", "replace", "attempt"}
      BY <2>2 DEF Missing, FlattenBegin, FlattenEnd, FlattenFail, FixFail, ConvertFail,
                  Goto, StateOK
    <3> QED  BY <3>1 DEF Ready
  <2>3. CASE Publish(d)
    <3>1. UNCHANGED <<stamp, try, data>> /\ pc[d] = "replace" /\ files[Tmp(d)] = Copy(d)
      BY <2>3 DEF Publish, PubParts, InPlace
    <3>2. /\ working'[d] = Flat(d) /\ pc'[d] = "fix"
          /\ files' = [files EXCEPT ![Flat(d)] = files[Tmp(d)], ![Tmp(d)] = NoFile]
      BY <1>1, <2>3, <3>1 DEF Publish, Exists, Goto, StateOK
    <3>3. Flat(d) # Tmp(d) /\ Flat(d) # Out(d) /\ Flat(d)' = Flat(d) /\ Copy(d)' = Copy(d)
      BY <1>2, <3>1 DEF Flat, Tmp, Out, Copy
    <3>4. files'[Flat(d)] = Copy(d)
      BY <1>1, <3>1, <3>2, <3>3 DEF StateOK
    <3> QED  BY <3>2, <3>3, <3>4
  <2>4. CASE Fix(d)
    <3>1. /\ UNCHANGED <<stamp, try, files, working>> /\ pc[d] = "fix" /\ Exists(working[d])
          /\ data' = [data EXCEPT ![files[working[d]]].fixed = TRUE]
          /\ pc'[d] \in {"convert", "done"}
      BY <2>4 DEF Fix, Target, Goto, StateOK
    <3>2. files[working[d]] \in Inodes
      BY <3>1 DEF Exists, StateOK
    <3>3. data'[files[working[d]]].fixed
      BY <1>3, <3>1, <3>2 DEF StateOK, Contents
    <3>4. Flat(d)' = Flat(d) /\ Copy(d)' = Copy(d)
      BY <1>2, <3>1 DEF Flat, Copy
    <3>5. /\ working[d] \in {<<"input", d>>, Flat(d)} /\ working[d] # Out(d)
          /\ working[d] = Flat(d) => files[Flat(d)] = Copy(d)
      BY <3>1 DEF OwnParts, Mine, Ready
    <3> QED  BY <3>1, <3>3, <3>4, <3>5
  <2>5. CASE ConvertBegin(d)
    <3>1. /\ UNCHANGED <<stamp, try, working>> /\ pc[d] = "convert" /\ Exists(working[d])
          /\ pc'[d] = "converting"
          /\ \A p \in Paths : p # Part(d) => files'[p] = files[p]
          /\ data' = [data EXCEPT ![OutInode(d)] = [Image(working[d]) EXCEPT !.whole = FALSE]]
      BY <2>5 DEF ConvertBegin, Goto, StateOK
    <3>2. /\ working[d] \in Paths /\ working[d] \in {<<"input", d>>, Flat(d)}
          /\ working[d] # Out(d) /\ Image(working[d]).fixed
          /\ working[d] = Flat(d) => files[Flat(d)] = Copy(d)
      BY <3>1 DEF OwnParts, Mine, Ready, StateOK
    <3>3. /\ files[working[d]] \in Inodes
          /\ working[d] = <<"input", d>> => files[working[d]][1] = "input"
          /\ working[d] = Flat(d) => files[working[d]] = Copy(d)
      BY <3>1, OwnFile DEF Ready
    <3>4. files[working[d]] # OutInode(d) /\ working[d] # Part(d) /\ Flat(d) # Part(d)
      BY <3>2, <3>3 DEF OutInode, Copy, Part, Flat
    <3>5. files'[working[d]] = files[working[d]] /\ files'[Flat(d)] = files[Flat(d)]
      BY <1>1, <3>1, <3>2, <3>4
    <3>6. data'[files[working[d]]] = data[files[working[d]]]
      BY <3>1, <3>3, <3>4 DEF StateOK
    <3>7. data'[OutInode(d)].fixed
      <4>1. Image(working[d]) \in Contents
        BY <1>3, <3>3 DEF Image
      <4> QED  BY <1>1, <3>1, <3>2, <4>1 DEF StateOK, Contents
    <3>8. Flat(d)' = Flat(d) /\ Copy(d)' = Copy(d)
      BY <1>2, <3>1 DEF Flat, Copy
    <3> QED  BY <3>1, <3>2, <3>5, <3>6, <3>7, <3>8 DEF Image
  <2>6. CASE ConvertEnd(d)
    <3>1. /\ pc[d] = "converting" /\ pc'[d] = "done" /\ working'[d] = Out(d)
          /\ files' = [files EXCEPT ![Out(d)] = files[Part(d)], ![Part(d)] = NoFile]
          /\ data' = [data EXCEPT ![OutInode(d)].whole = TRUE]
          /\ files[Part(d)] = OutInode(d)
      BY <2>6 DEF ConvertEnd, Result, Goto, StateOK, PubParts, InPlace
    <3>2. files'[Out(d)] = OutInode(d)
      BY <1>1, <3>1 DEF StateOK, Out, Part
    <3>3. data'[OutInode(d)].fixed
      BY <1>1, <1>3, <3>1 DEF StateOK, Contents, OwnParts, Mine
    <3>4. Out(d) # Flat(d)'
      BY DEF Out, Flat
    <3> QED  BY <3>1, <3>2, <3>3, <3>4
  <2> QED  BY <2>1, <2>2, <2>3, <2>4, <2>5, <2>6 DEF Process
<1>5. ASSUME NEW e \in Disks, e # d
      PROVE  /\ pc'[e] \in Ready =>
                  /\ working'[e] \in {<<"input", e>>, Flat(e)', Out(e)}
                  /\ working'[e] = Out(e) => pc'[e] = "done" /\ files'[Out(e)] = OutInode(e)
                  /\ working'[e] = Flat(e)' => files'[Flat(e)'] = Copy(e)'
                  /\ pc'[e] # "fix" /\ files'[working'[e]] # NoFile
                        => data'[files'[working'[e]]].fixed
             /\ pc'[e] = "converting" => data'[OutInode(e)].fixed
  <2>1. Flat(e)' = Flat(e) /\ Copy(e)' = Copy(e)
    BY <1>2, <1>5 DEF Flat, Copy
  <2>2. /\ pc[e] \in Ready =>
             /\ files'[working[e]] = files[working[e]]
             /\ Exists(working[e]) => data'[files[working[e]]] = data[files[working[e]]]
        /\ data'[OutInode(e)] = data[OutInode(e)]
    BY <1>5, MineOthers
  <2> QED  BY <1>2, <1>5, <2>1, <2>2 DEF OwnParts, Mine, Exists, Image
<1> QED
  <2> SUFFICES ASSUME NEW e \in Disks
               PROVE  /\ pc'[e] \in Ready =>
                           /\ working'[e] \in {<<"input", e>>, Flat(e)', Out(e)}
                           /\ working'[e] = Out(e) =>
                                pc'[e] = "done" /\ files'[Out(e)] = OutInode(e)'
                           /\ working'[e] = Flat(e)' => files'[Flat(e)'] = Copy(e)'
                           /\ pc'[e] # "fix" /\ files'[working'[e]] # NoFile
                                 => data'[files'[working'[e]]].fixed
                      /\ pc'[e] = "converting" => data'[OutInode(e)'].fixed
    BY DEF Mine, Exists, Image, Out
  <2> QED  BY <1>2, <1>4, <1>5 DEF OutInode

\* A disk's step goes with the other parts.
LEMMA OwnProcess ==
    ASSUME StateOK, StateOK', PubParts, Worked, OwnParts, ~SameSecond,
           NEW d \in Disks, Process(d)
    PROVE  OwnParts' /\ phase \in {"process", "aborted"}
<1> USE PipelineAssumption
<1>1. /\ Tmp(d) \in Paths /\ Flat(d) \in Paths /\ Part(d) \in Paths
      /\ Out(d) \in Paths /\ Copy(d) \in Inodes /\ OutInode(d) \in Inodes
  BY Names
<1>2. /\ UNCHANGED <<opt, run, phase, outputs>>
      /\ \A p \in Paths : p \notin {Tmp(d), Flat(d), Part(d), Out(d)}
                          => files'[p] = files[p]
      /\ \A e \in Disks : e # d => /\ pc'[e] = pc[e] /\ stamp'[e] = stamp[e]
                                   /\ working'[e] = working[e]
      /\ Owned'
  BY OwnStep
<1>3. phase \in {"process", "aborted"}
  <2>1. CASE Start(d) \/ Missing(d)
    BY <2>1 DEF Start, Missing, MayStart
  <2>2. CASE ~(Start(d) \/ Missing(d))
    <3>1. pc[d] \notin {"queued", "done", "failed"}
      BY <2>2 DEF Process, FlattenBegin, FlattenEnd, FlattenFail, Publish, Fix, FixFail,
                  ConvertBegin, ConvertEnd, ConvertFail
    <3> QED  BY <3>1 DEF OwnParts, Resting
  <2> QED  BY <2>1, <2>2
<1>4. Named'
  <2> SUFFICES ASSUME NEW p \in Paths, p[1] \notin {"tmp", "flat"}, files'[p] # NoFile
               PROVE  /\ files'[p][2] = p[2]
                      /\ files'[p][1] = IF p[1] = "part" THEN "out" ELSE p[1]
    BY DEF Named, Exists
  <2>1. Tmp(d)[1] = "tmp" /\ Flat(d)[1] = "flat"
    BY DEF Tmp, Flat
  <2>2. CASE p \notin {Part(d), Out(d)}
    BY <1>2, <2>1, <2>2 DEF OwnParts, Named, Exists
  <2>3. /\ OutInode(d)[1] = "out" /\ OutInode(d)[2] = d
        /\ Part(d)[1] = "part" /\ Part(d)[2] = d /\ Out(d)[1] = "out" /\ Out(d)[2] = d
    BY DEF OutInode, Part, Out
  <2>4. CASE p \in {Part(d), Out(d)} /\ files'[p] = files[p]
    BY <2>4 DEF OwnParts, Named, Exists
  <2>5. CASE p \in {Part(d), Out(d)} /\ files'[p] # files[p]
    <3>1. ~UNCHANGED files
      BY <2>5
    <3>2. CASE FlattenBegin(d) \/ FlattenFail(d) \/ Publish(d)
      <4>1. \A q \in Paths : q \notin {Tmp(d), Flat(d)} => files'[q] = files[q]
        BY <3>2 DEF FlattenBegin, FlattenFail, Publish, StateOK
      <4> QED  BY <2>1, <2>3, <2>5, <4>1
    <3>3. CASE ConvertBegin(d)
      <4>1. files'[p] = files[p] \/ (p = Part(d) /\ files'[p] = OutInode(d))
        BY <1>1, <3>3 DEF ConvertBegin, StateOK
      <4> QED  BY <2>3, <2>5, <4>1
    <3>4. CASE ConvertEnd(d)
      <4>1. files[Part(d)] = OutInode(d)
        BY <3>4 DEF ConvertEnd, PubParts, InPlace
      <4>2. \/ p = Out(d) /\ files'[p] = OutInode(d)
            \/ p = Part(d) /\ files'[p] = NoFile
        BY <1>1, <2>5, <3>4, <4>1 DEF ConvertEnd, StateOK, Part, Out
      <4> QED  BY <2>3, <4>2
    <3>5. CASE ConvertFail(d)
      BY <1>1, <2>3, <2>5, <3>5 DEF ConvertFail, StateOK
    <3>6. CASE Start(d) \/ Missing(d) \/ FlattenEnd(d) \/ Fix(d) \/ FixFail(d)
      BY <3>1, <3>6 DEF Start, Missing, FlattenEnd, Fix, FixFail, store
    <3> QED  BY <3>2, <3>3, <3>4, <3>5, <3>6 DEF Process
  <2> QED  BY <2>2, <2>4, <2>5
<1>5. Stamped'
  <2>1. CASE Start(d) /\ opt.flatten
    <3>1. /\ now' > now /\ stamp'[d] = now' /\ now \in Nat /\ now' \in Nat
          /\ UNCHANGED working /\ pc[d] = "queued"
      BY <2>1 DEF Start, MayStart, StateOK, Stamps
    <3>2. \A e \in Disks : stamp[e] <= now /\ stamp[e] \in Nat
      BY DEF PubParts, OneEach, StateOK, Stamps
    <3>3. stamp'[d] > 0 /\ \A e \in Disks : e # d => stamp'[e] # stamp'[d]
      BY <1>2, <3>1, <3>2
    <3> QED  BY <1>2, <3>1, <3>3 DEF OwnParts, Stamped
  <2>2. CASE ~(Start(d) /\ opt.flatten)
    <3>1. UNCHANGED stamp /\ (pc'[d] \in Flattening => pc[d] \in Flattening)
      BY <2>2 DEF Process, Start, Missing, FlattenBegin, FlattenEnd, FlattenFail, Publish,
                  Fix, FixFail, ConvertBegin, ConvertEnd, ConvertFail, Goto, StateOK,
                  Flattening
    <3>2. working'[d][1] = "flat" => pc[d] \in Flattening \/ working[d][1] = "flat"
      <4>1. CASE Publish(d)
        BY <4>1 DEF Publish, Flattening
      <4>2. CASE ConvertEnd(d)
        <5>1. working'[d] = Out(d)
          BY <4>2 DEF ConvertEnd, Result, StateOK
        <5> QED  BY <5>1 DEF Out
      <4>3. CASE ~(Publish(d) \/ ConvertEnd(d))
        <5>1. UNCHANGED working
          BY <4>3 DEF Process, Start, Missing, FlattenBegin, FlattenEnd, FlattenFail, Fix,
                      FixFail, ConvertBegin, ConvertFail
        <5> QED  BY <5>1
      <4> QED  BY <4>1, <4>2, <4>3
    <3> QED  BY <1>2, <3>1, <3>2 DEF OwnParts, Stamped
  <2> QED  BY <2>1, <2>2
<1>6. Mine'
  BY MineStep
<1>7. Resting'
  BY <1>2, <1>3 DEF Resting
<1>8. Unused'
  <2>1. \A p \in Paths : p[1] \in {"post", "jobs"}
                            => p \notin {Tmp(d), Flat(d), Part(d), Out(d)}
    BY DEF Tmp, Flat, Part, Out
  <2>2. \A p \in Paths : p[1] \in {"post", "jobs"} => files'[p] = files[p]
    BY <1>2, <2>1
  <2> QED  BY <1>2, <1>3, <2>2 DEF OwnParts, Unused, Exists
<1> QED  BY <1>2, <1>3, <1>4, <1>5, <1>6, <1>7, <1>8 DEF OwnParts

\* Steps of the main thread leave what the disks are processed in alone.
LEMMA MineKept ==
    ASSUME StateOK, OwnParts, UNCHANGED <<run, pc, try, stamp, working>>,
           \A p \in Paths : p[1] \in {"flat", "out"} => files'[p] = files[p],
           \A p \in Paths : p[1] = "input" => files'[p] \in {files[p], NoFile},
           \A f \in Inodes : f[1] \in {"input", "first", "second", "out"}
                             => data'[f] = data[f]
    PROVE  Mine'
<1> SUFFICES ASSUME NEW d \in Disks
             PROVE  /\ pc[d] \in Ready =>
                         /\ working[d] \in {<<"input", d>>, Flat(d), Out(d)}
                         /\ working[d] = Out(d) => pc[d] = "done" /\ files'[Out(d)] = OutInode(d)
                         /\ working[d] = Flat(d) => files'[Flat(d)] = Copy(d)
                         /\ pc[d] # "fix" /\ files'[working[d]] # NoFile
                               => data'[files'[working[d]]].fixed
                    /\ pc[d] = "converting" => data'[OutInode(d)].fixed
  <2>1. \A d \in Disks : Out(d)' = Out(d) /\ Flat(d)' = Flat(d) /\ Copy(d)' = Copy(d)
                         /\ OutInode(d)' = OutInode(d)
    BY DEF Out, Flat, Copy, OutInode
  <2> QED  BY <2>1 DEF Mine, Exists, Image
<1>1. /\ Flat(d) \in Paths /\ Flat(d)[1] = "flat" /\ Out(d)[1] = "out"
      /\ OutInode(d) \in Inodes /\ OutInode(d)[1] = "out"
      /\ Copy(d)[1] \in {"first", "second"}
  BY Names DEF Flat, Out, OutInode, Copy
<1>2. pc[d] = "converting" => data'[OutInode(d)].fixed
  BY <1>1 DEF OwnParts, Mine
<1>3. ASSUME pc[d] \in Ready, pc[d] # "fix", files'[working[d]] # NoFile
      PROVE  data'[files'[working[d]]].fixed
  <2>1. working[d] \in Paths /\ working[d] \in {<<"input", d>>, Flat(d), Out(d)}
    BY <1>3 DEF StateOK, OwnParts, Mine
  <2>2. files'[working[d]] = files[working[d]]
    BY <1>1, <1>3, <2>1
  <2>3. Exists(working[d]) /\ Image(working[d]).fixed
    BY <1>3, <2>2 DEF Exists, OwnParts, Mine
  <2>4. /\ files[working[d]] \in Inodes
        /\ files[working[d]][1] \in {"input", "first", "second", "out"}
    BY <1>1, <1>3, <2>1, <2>3, OwnFile
  <2> QED  BY <2>2, <2>3, <2>4 DEF Image
<1>4. Out(d) \in Paths
  BY Names
<1> QED  BY <1>1, <1>2, <1>3, <1>4 DEF OwnParts, Mine

\* What virt-v2v writes has the names of its disks, and is whole and fixed.
LEMMA V2vOwn ==
    ASSUME StateOK, OwnParts, NEW W, V2vNames(W), V2vWrites(W)
    PROVE  /\ Owned' /\ Named'
           /\ \A p \in Paths \cap W :
                /\ files'[p] = <<p[1], p[2], run>>
                /\ data'[files'[p]].whole /\ data'[files'[p]].fixed
           /\ \A p \in Paths : p \notin W => files'[p] = files[p]
           /\ \A p \in Paths \cap W : p[1] \in {"v2v", "post", "jobs"}
           /\ \A f \in Inodes : f[1] \notin {"v2v", "post", "jobs"} => data'[f] = data[f]
<1>1. /\ \A p \in Paths : files'[p] = IF p \in W THEN <<p[1], p[2], run>> ELSE files[p]
      /\ \A p \in Paths \cap W : p[1] \in {"v2v", "post", "jobs"}
                              /\ <<p[1], p[2], run>> \in Inodes
                              /\ data'[<<p[1], p[2], run>>]
                                   = [of |-> p[2], whole |-> TRUE, fixed |-> TRUE]
      /\ \A f \in Inodes : \/ data'[f] = data[f]
                            \/ /\ f[1] \in {"v2v", "post", "jobs"}
                               /\ data'[f] = [of |-> f[2], whole |-> TRUE, fixed |-> TRUE]
  BY V2vFrame
<1>2. Owned'
  <2> SUFFICES ASSUME NEW f \in Inodes
               PROVE  data'[f].of = f[2] /\ (f[1] = "input" => data'[f].whole)
    BY DEF Owned
  <2>1. CASE data'[f] = data[f]
    BY <2>1 DEF OwnParts, Owned
  <2>2. CASE data'[f] = [of |-> f[2], whole |-> TRUE, fixed |-> TRUE]
    BY <2>2
  <2> QED  BY <1>1, <2>1, <2>2
<1>3. Named'
  <2> SUFFICES ASSUME NEW p \in Paths, p[1] \notin {"tmp", "flat"}, files'[p] # NoFile
               PROVE  /\ files'[p][2] = p[2]
                      /\ files'[p][1] = IF p[1] = "part" THEN "out" ELSE p[1]
    BY DEF Named, Exists
  <2>1. CASE p \in W
    <3>1. files'[p] = <<p[1], p[2], run>> /\ p[1] # "part"
      BY <1>1, <2>1
    <3> QED  BY <3>1
  <2>2. CASE p \notin W
    <3>1. files'[p] = files[p]
      BY <1>1, <2>2
    <3> QED  BY <3>1 DEF OwnParts, Named, Exists
  <2> QED  BY <2>1, <2>2
<1>4. ASSUME NEW p \in Paths \cap W
      PROVE  /\ files'[p] = <<p[1], p[2], run>>
             /\ data'[files'[p]].whole /\ data'[files'[p]].fixed
  <2>1. files'[p] = <<p[1], p[2], run>>
    BY <1>1
  <2>2. data'[files'[p]] = [of |-> p[2], whole |-> TRUE, fixed |-> TRUE]
    BY <1>1, <2>1
  <2> QED  BY <2>1, <2>2
<1> QED  BY <1>1, <1>2, <1>3, <1>4

\* The main thread keeps all of it.
LEMMA OwnMain ==
    ASSUME StateOK, StateOK', outputs \in Seq(Paths), Worked, OwnParts, Orchestrate
    PROVE  OwnParts'
<1> USE PipelineAssumption
<1>1. UNCHANGED <<opt, run, pc, try, stamp, now, working>>
  BY DEF Orchestrate, Discover, DiscoverFail, PreV2v, PreV2vFail, Collect, DieOnFailure,
         PostV2v, PostV2vFail, Test, TestFail, Cleanup, Enter, worker
<1>2. Stamped'
  BY <1>1 DEF OwnParts, Stamped, Flattening
<1>3. CASE Discover
  <2>1. phase = "discover" /\ phase' = "pre" /\ UNCHANGED data
    BY <1>3 DEF Discover, Enter, store
  <2>2. \A p \in Paths : \/ files'[p] = files[p]
                         \/ p[1] = "input" /\ files'[p] = <<"input", p[2], run>>
    BY <1>3 DEF Discover, store
  <2>3. Named' /\ Owned'
    BY <2>1, <2>2 DEF OwnParts, Named, Owned, Exists
  <2>4. \A d \in Disks : pc[d] = "queued"
    BY <2>1 DEF OwnParts, Resting
  <2>5. Mine' /\ Resting'
    BY <1>1, <2>1, <2>4 DEF Mine, Resting, Ready
  <2>6. \A p \in Paths : p[1] \in {"out", "post", "jobs"} => files'[p] = files[p]
    BY <2>2
  <2>7. Unused'
    BY <1>1, <2>1, <2>6 DEF OwnParts, Unused, Exists
  <2> QED  BY <1>2, <2>3, <2>5, <2>7 DEF OwnParts
<1>4. CASE PreV2v
  <2>1. PICK S : V2vWrites({"v2v"} \X S)
    BY <1>4 DEF PreV2v
  <2>2. /\ Owned' /\ Named'
        /\ \A p \in Paths : p[1] # "v2v" => files'[p] = files[p]
    <3> DEFINE W == {"v2v"} \X S
    <3>1. V2vNames(W) /\ V2vWrites(W) /\ \A p \in W : p[1] = "v2v"
      BY <2>1 DEF V2vNames
    <3> HIDE DEF W
    <3> QED  BY <3>1, V2vOwn
  <2>3. phase = "pre" /\ phase' \in {"process", "post"}
    BY <1>4 DEF PreV2v, Enter
  <2>4. \A d \in Disks : pc[d] = "queued"
    BY <2>3 DEF OwnParts, Resting
  <2>5. Mine' /\ Resting'
    BY <1>1, <2>3, <2>4 DEF Mine, Resting, Ready
  <2>7. Unused'
    BY <1>1, <2>2, <2>3 DEF OwnParts, Unused, Exists
  <2> QED  BY <1>2, <2>2, <2>5, <2>7 DEF OwnParts
<1>5. CASE PostV2v
  <2>1. PICK W : V2vNames(W) /\ V2vWrites(W)
    BY <1>5, V2vSteps
  <2>3. /\ Owned' /\ Named'
        /\ \A p \in Paths : p[1] \notin {"v2v", "post", "jobs"} => files'[p] = files[p]
        /\ \A f \in Inodes : f[1] \notin {"v2v", "post", "jobs"} => data'[f] = data[f]
    BY <2>1, V2vOwn
  <2>4. phase = "post" /\ phase' = "test"
    BY <1>5 DEF PostV2v, Enter
  <2>5. Mine'
    BY <1>1, <2>3, MineKept
  <2>6. Resting' /\ Unused'
    BY <1>1, <2>4 DEF OwnParts, Resting, Unused
  <2> QED  BY <1>2, <2>3, <2>5, <2>6 DEF OwnParts
<1>6. CASE Cleanup
  <2>1. /\ phase = "cleanup" /\ phase' = "done" /\ UNCHANGED data
        /\ \A p \in Paths : p[1] # "input" => files'[p] = files[p]
        /\ \A p \in Paths : files'[p] \in {files[p], NoFile}
    BY <1>6 DEF Cleanup, Enter
  <2>2. Mine'
    BY <1>1, <2>1, MineKept
  <2>3. Owned' /\ Named' /\ Resting' /\ Unused'
    BY <1>1, <2>1 DEF OwnParts, Owned, Named, Resting, Unused, Exists
  <2> QED  BY <1>2, <2>2, <2>3 DEF OwnParts
<1>7. CASE DiscoverFail \/ PreV2vFail \/ DieOnFailure \/ PostV2vFail
           \/ Test \/ TestFail
  <2>1. /\ UNCHANGED store
        /\ phase' = "aborted" \/ (phase = "test" /\ phase' = "cleanup")
    BY <1>7 DEF DiscoverFail, PreV2vFail, DieOnFailure, PostV2vFail, Test, TestFail, Enter
  <2>2. Mine'
    BY <1>1, <2>1, MineKept DEF store
  <2>3. Owned' /\ Named' /\ Resting' /\ Unused'
    BY <1>1, <2>1 DEF OwnParts, Owned, Named, Resting, Unused, Exists, store
  <2> QED  BY <1>2, <2>2, <2>3 DEF OwnParts
<1>8. CASE Collect
  <2>1. /\ UNCHANGED store /\ phase = "process" /\ phase' = "post"
        /\ \A d \in Disks : pc[d] \in {"done", "failed"}
    BY <1>8 DEF Collect, Enter, Settled
  <2>2. Mine'
    BY <1>1, <2>1, MineKept DEF store
  <2>3. Owned' /\ Named' /\ Resting' /\ Unused'
    BY <1>1, <2>1 DEF OwnParts, Owned, Named, Resting, Unused, Exists, store
  <2> QED  BY <1>2, <2>2, <2>3 DEF OwnParts
<1> QED  BY <1>3, <1>4, <1>5, <1>6, <1>7, <1>8 DEF Orchestrate

\* A new invocation is not the first.
LEMMA OwnRerun ==
    ASSUME StateOK, PubParts, OwnParts, Rerun
    PROVE  OwnParts' /\ outputs' = <<>> /\ phase' = "discover"
<1> USE PipelineAssumption
<1>1. /\ run \in Nat /\ run >= 1 /\ run' = run + 1 /\ phase' = "discover"
      /\ UNCHANGED store /\ outputs' = <<>>
      /\ \A d \in Disks : pc'[d] = "queued" /\ stamp'[d] = 0
                          /\ working'[d] = <<"input", d>>
  BY DEF Rerun, StateOK, Runs
<1>2. Owned' /\ Named' /\ Stamped' /\ Mine' /\ Resting'
  BY <1>1 DEF OwnParts, Owned, Named, Stamped, Mine, Resting, Exists, store,
              Flattening, Ready
<1>3. Unused'
  <2>1. \A p \in Paths : Exists(p) => files[p][3] <= run /\ files[p] \in Inodes
    BY DEF PubParts, NotNewer, StateOK, Exists
  <2>2. \A f \in Inodes : f[3] \in Nat
    BY DEF Inodes, Runs
  <2>3. \A p \in Paths : files'[p] = files[p]
    BY <1>1 DEF store
  <2>4. ASSUME NEW p \in Paths, files'[p] # NoFile PROVE files'[p][3] # run'
    BY <1>1, <2>1, <2>2, <2>3, <2>4 DEF Exists
  <2> QED  BY <2>4 DEF Unused, Exists
<1> QED  BY <1>1, <1>2, <1>3 DEF OwnParts

LEMMA OwnInit == Init => OwnParts /\ ListGood
<1> SUFFICES ASSUME Init PROVE OwnParts /\ ListGood
  OBVIOUS
<1>1. /\ phase = "discover" /\ outputs = <<>>
      /\ \A d \in Disks : pc[d] = "queued" /\ stamp[d] = 0 /\ working[d] = <<"input", d>>
  BY DEF Init, Idle
<1>2. \A p \in Paths : files[p] = NoFile \/ (p[1] = "input" /\ files[p] = <<"input", p[2], 1>>)
  BY DEF Init
<1>3. Named
  BY <1>2 DEF Named, Exists
<1>4. Unused
  BY <1>2 DEF Unused, Exists
<1>5. Owned
  BY DEF Init, Owned, Source, Fresh
<1>6. Stamped /\ Mine /\ Resting /\ ListGood
  BY <1>1 DEF Stamped, Mine, Resting, ListGood, Flattening, Ready
<1> QED  BY <1>3, <1>4, <1>5, <1>6 DEF OwnParts

\* What OwnImages says of the list at position i, after a step.
GoodAt(i) ==
    LET f(k) == files'[outputs'[k]]
        old(k) == f(k)[1] # "input" /\ f(k)[3] # run'
    IN  f(i) # NoFile =>
            IF old(i)
            THEN outputs'[i][1] \in {"post", "jobs"} \/ opt'.v2v = "one"
            ELSE /\ data'[f(i)].whole /\ data'[f(i)].fixed
                 /\ \A j \in 1..(i - 1) : f(j) # NoFile /\ ~old(j) => f(j)[2] < f(i)[2]

LEMMA GoodAfter ==
    ASSUME \A i \in DOMAIN outputs' : GoodAt(i),
           phase' \notin {"discover", "pre", "process", "post"}
               \/ \A i \in DOMAIN outputs' : outputs'[i][1] \notin {"post", "jobs"}
    PROVE  ListGood'
BY DEF ListGood, GoodAt, Exists, Image, Stale, Searched

\* A listing of images virt-v2v has just made, among older ones.
LEMMA MadeGood ==
    ASSUME StateOK, OwnParts, NEW W, V2vNames(W), V2vWrites(W), UNCHANGED run,
           outputs' \in Seq(Paths),
           \A i \in DOMAIN outputs' : outputs'[i] \notin W =>
                /\ files[outputs'[i]][1] # "input" /\ files[outputs'[i]][3] # run
                /\ outputs'[i][1] \in {"post", "jobs"} \/ opt'.v2v = "one",
           \A i, j \in DOMAIN outputs' :
                i < j /\ outputs'[i] \in W /\ outputs'[j] \in W
                    => outputs'[i][2] < outputs'[j][2]
    PROVE  \A i \in DOMAIN outputs' : GoodAt(i)
<1> SUFFICES ASSUME NEW i \in DOMAIN outputs' PROVE GoodAt(i)
  OBVIOUS
<1> DEFINE f(k) == files'[outputs'[k]]
           old(k) == f(k)[1] # "input" /\ f(k)[3] # run'
<1>1. DOMAIN outputs' = 1..Len(outputs') /\ \A k \in DOMAIN outputs' : outputs'[k] \in Paths
  OBVIOUS
<1>2. ASSUME NEW k \in DOMAIN outputs', outputs'[k] \in W
      PROVE  /\ ~old(k) /\ f(k)[2] = outputs'[k][2]
             /\ data'[f(k)].whole /\ data'[f(k)].fixed
  <2>1. /\ f(k) = <<outputs'[k][1], outputs'[k][2], run>>
        /\ data'[f(k)].whole /\ data'[f(k)].fixed
    BY <1>1, <1>2, V2vOwn
  <2> QED  BY <2>1
<1>3. ASSUME NEW k \in DOMAIN outputs', outputs'[k] \notin W
      PROVE  old(k) /\ (outputs'[k][1] \in {"post", "jobs"} \/ opt'.v2v = "one")
  <2>1. f(k) = files[outputs'[k]]
    BY <1>1, <1>3, V2vOwn
  <2> QED  BY <1>3, <2>1
<1>4. ASSUME NEW j \in 1..(i - 1)
      PROVE  j \in DOMAIN outputs' /\ j < i
  BY <1>1
<1>5. CASE outputs'[i] \notin W
  BY <1>3, <1>5 DEF GoodAt
<1>6. CASE outputs'[i] \in W
  <2>1. ASSUME NEW j \in 1..(i - 1), ~old(j) PROVE f(j)[2] < f(i)[2]
    <3>1. j \in DOMAIN outputs' /\ j < i /\ outputs'[j] \in W
      BY <1>3, <1>4, <2>1
    <3> QED  BY <1>2, <1>6, <3>1
  <2>2. ~old(i) /\ data'[f(i)].whole /\ data'[f(i)].fixed
    BY <1>2, <1>6
  <2> QED  BY <2>1, <2>2 DEF GoodAt
<1> QED  BY <1>5, <1>6

\* The list the pool leaves: every disk's own image, fixed.
LEMMA CollectGood ==
    ASSUME StateOK, PubParts, OwnParts, Collect
    PROVE  /\ \A i \in DOMAIN outputs' : GoodAt(i)
           /\ \A i \in DOMAIN outputs' : outputs'[i][1] \notin {"post", "jobs"}
<1>1. UNCHANGED <<store, run>>
  BY DEF Collect, Enter
<1>2. PICK s \in Seq(Disks) :
        /\ outputs' \in Seq(Paths) /\ DOMAIN outputs' = DOMAIN s
        /\ \A i \in DOMAIN s : s[i] \in Disks /\ pc[s[i]] = "done"
                               /\ outputs'[i] = working[s[i]]
        /\ \A i, j \in DOMAIN s : i < j => s[i] < s[j]
  BY Collected
<1>3. ASSUME NEW i \in DOMAIN outputs', Exists(outputs'[i])
      PROVE  /\ Image(outputs'[i]).whole /\ Image(outputs'[i]).fixed
             /\ files[outputs'[i]][2] = s[i]
             /\ files[outputs'[i]][1] = "input" \/ files[outputs'[i]][3] = run
  <2>1. /\ s[i] \in Disks /\ pc[s[i]] = "done" /\ outputs'[i] = working[s[i]]
        /\ pc[s[i]] \in Ready
    BY <1>2 DEF Ready
  <2>2. /\ working[s[i]] \in Paths /\ files[working[s[i]]] \in Inodes
        /\ files[working[s[i]]][2] = s[i]
        /\ working[s[i]] = <<"input", s[i]>> => files[working[s[i]]][1] = "input"
    BY <1>3, <2>1, OwnFile
  <2>3. /\ working[s[i]] \in {<<"input", s[i]>>, Flat(s[i]), Out(s[i])}
        /\ Image(working[s[i]]).fixed
        /\ working[s[i]] = Flat(s[i]) => files[working[s[i]]] = Copy(s[i])
        /\ working[s[i]] = Out(s[i]) => files[working[s[i]]] = OutInode(s[i])
    BY <1>3, <2>1 DEF OwnParts, Mine
  <2>4. CASE working[s[i]] = <<"input", s[i]>>
    BY <2>1, <2>2, <2>3, <2>4 DEF OwnParts, Owned, Image
  <2>5. CASE working[s[i]] \in {Flat(s[i]), Out(s[i])}
    <3>1. working[s[i]][1] \in {"flat", "out"}
      BY <2>5 DEF Flat, Out
    <3>2. files[working[s[i]]][3] = run
      BY <2>3, <2>5 DEF Copy, OutInode
    <3> QED  BY <1>3, <2>1, <2>2, <2>3, <3>1, <3>2 DEF PubParts, Published
  <2> QED  BY <2>3, <2>4, <2>5
<1>4. ASSUME NEW i \in DOMAIN outputs', NEW j \in 1..(i - 1)
      PROVE  j \in DOMAIN outputs' /\ s[j] < s[i]
  <2>1. DOMAIN outputs' = 1..Len(s) /\ Len(s) \in Nat
    BY <1>2
  <2>2. j \in DOMAIN outputs' /\ j < i
    BY <2>1
  <2> QED  BY <1>2, <2>2
<1>5. \A i \in DOMAIN outputs' : GoodAt(i)
  BY <1>1, <1>3, <1>4 DEF GoodAt, Exists, Image, store
<1>6. ASSUME NEW i \in DOMAIN outputs' PROVE outputs'[i][1] \notin {"post", "jobs"}
  <2>1. outputs'[i] \in {<<"input", s[i]>>, Flat(s[i]), Out(s[i])}
    BY <1>2 DEF OwnParts, Mine, Ready
  <2> QED  BY <2>1 DEF Flat, Out
<1> QED  BY <1>5, <1>6

\* Before the pipeline: all images of virt-v2v and those of earlier conversions,
\* or those of the jobs that succeeded.
LEMMA PreGood ==
    ASSUME StateOK, OwnParts, PreV2v
    PROVE  /\ \A i \in DOMAIN outputs' : GoodAt(i)
           /\ \A i \in DOMAIN outputs' : outputs'[i][1] \notin {"post", "jobs"}
<1>1. PICK S \in SUBSET Disks :
        /\ opt.v2v = "one" => S \in {{}, Disks}
        /\ V2vWrites({"v2v"} \X S)
        /\ S = {} => outputs' = <<>>
        /\ S # {} => outputs' \in PreResults(S)
  BY DEF PreV2v
<1>2. UNCHANGED <<opt, run>> /\ phase = "pre"
  BY DEF PreV2v, Enter
<1> DEFINE W == {"v2v"} \X S
<1>3. V2vNames(W) /\ V2vWrites(W)
  BY <1>1 DEF V2vNames
<1>4. \A p \in Paths : p[1] = "v2v" /\ p[2] \in S => p \in W
  BY DEF Paths
<1>5. \A p \in W : p[1] = "v2v"
  OBVIOUS
<1> HIDE DEF W
<1>6. CASE S = {}
  BY <1>1, <1>6
<1>7. CASE S # {}
  <2>1. /\ outputs' \in Seq(Paths) /\ DOMAIN outputs' = 1..Len(outputs')
        /\ \A i \in DOMAIN outputs' : /\ outputs'[i] \in Paths
                                       /\ outputs'[i][1] \in {"v2v", "out"}
                                       /\ files'[outputs'[i]] # NoFile
    BY <1>1, <1>7, PreMade
  <2>2. CASE opt.v2v # "one"
    <3> DEFINE P == {p \in Of("v2v") : p[2] \in S}
    <3>1. /\ P \in SUBSET Paths /\ outputs' \in Images(P)
          /\ \A p \in P : p \in W /\ p[1] = "v2v"
      BY <1>1, <1>4, <1>7, <2>2 DEF PreResults, Of
    <3> HIDE DEF P
    <3>2. /\ \A i \in DOMAIN outputs' : outputs'[i] \in P
          /\ \A i, j \in DOMAIN outputs' : i < j => Before(outputs'[i], outputs'[j])
      BY <3>1, Listing
    <3>3. \A i, j \in DOMAIN outputs' : i < j => outputs'[i][2] < outputs'[j][2]
      BY <3>1, <3>2 DEF Before
    <3>4. \A i \in DOMAIN outputs' : outputs'[i] \in W
      BY <3>1, <3>2
    <3> QED  BY <1>2, <1>3, <2>1, <3>3, <3>4, MadeGood
  <2>3. CASE opt.v2v = "one"
    <3>1. S = Disks /\ outputs' \in {u \o v : u \in Images(Of("v2v")), v \in Images(Of("out"))}
      BY <1>1, <1>7, <2>3 DEF PreResults
    <3>2. PICK u \in Images(Of("v2v")), v \in Images(Of("out")) : outputs' = u \o v
      BY <3>1
    <3>3. /\ Of("v2v") \in SUBSET Paths /\ \A p \in Of("v2v") : p[1] = "v2v"
          /\ Of("out") \in SUBSET Paths /\ \A p \in Of("out") : p[1] = "out"
      BY DEF Of
    <3>4. /\ u \in Seq(Paths) /\ DOMAIN u = 1..Len(u)
          /\ \A i \in DOMAIN u : u[i] \in Paths /\ u[i][1] = "v2v"
          /\ \A i, j \in DOMAIN u : i < j => Before(u[i], u[j])
      BY <3>3, Listing
    <3>5. /\ v \in Seq(Paths) /\ DOMAIN v = 1..Len(v)
          /\ \A i \in DOMAIN v : v[i] \in Paths /\ v[i][1] = "out"
      BY <3>3, Listing
    <3>6. /\ Len(outputs') = Len(u) + Len(v) /\ Len(u) \in Nat /\ Len(v) \in Nat
          /\ \A i \in 1..Len(u) + Len(v) :
               outputs'[i] = IF i <= Len(u) THEN u[i] ELSE v[i - Len(u)]
      BY <3>2, <3>4, <3>5, ConcatProperties
    <3>7. ASSUME NEW i \in DOMAIN outputs', outputs'[i] \in W
          PROVE  i \in DOMAIN u /\ outputs'[i] = u[i]
      <4>1. i \in 1..Len(u) + Len(v) /\ outputs'[i][1] = "v2v"
        BY <1>5, <2>1, <3>6, <3>7
      <4>2. CASE i <= Len(u)
        BY <3>4, <3>6, <4>1, <4>2
      <4>3. CASE ~(i <= Len(u))
        <5>1. i - Len(u) \in DOMAIN v /\ outputs'[i] = v[i - Len(u)]
          BY <3>5, <3>6, <4>1, <4>3
        <5> QED  BY <3>5, <4>1, <5>1
      <4> QED  BY <4>2, <4>3
    <3>8. ASSUME NEW i \in DOMAIN outputs', NEW j \in DOMAIN outputs',
                 i < j, outputs'[i] \in W, outputs'[j] \in W
          PROVE  outputs'[i][2] < outputs'[j][2]
      <4>1. /\ i \in DOMAIN u /\ outputs'[i] = u[i] /\ j \in DOMAIN u /\ outputs'[j] = u[j]
        BY <3>7, <3>8
      <4>2. Before(u[i], u[j]) /\ u[i][1] = "v2v"
        BY <3>4, <3>8, <4>1
      <4> QED  BY <4>1, <4>2 DEF Before
    <3>9. ASSUME NEW i \in DOMAIN outputs', outputs'[i] \notin W
          PROVE  files[outputs'[i]][1] # "input" /\ files[outputs'[i]][3] # run
      <4>1. outputs'[i] \in Paths /\ outputs'[i][1] \in {"v2v", "out"}
        BY <2>1
      <4>2. outputs'[i][1] = "out"
        <5>1. \A p \in Paths : p[1] = "v2v" => p[2] \in Disks
          BY DEF Paths
        <5> QED  BY <1>4, <3>1, <3>9, <4>1, <5>1
      <4>3. files'[outputs'[i]] = files[outputs'[i]]
        BY <1>3, <3>9, <4>1, V2vOwn
      <4>4. Exists(outputs'[i])
        BY <2>1, <4>3 DEF Exists
      <4> QED  BY <1>2, <4>1, <4>2, <4>4 DEF OwnParts, Unused, Named
    <3> QED  BY <1>2, <1>3, <2>1, <2>3, <3>8, <3>9, MadeGood
  <2>4. \A i \in DOMAIN outputs' : outputs'[i][1] \notin {"post", "jobs"}
    BY <2>1
  <2> QED  BY <2>2, <2>3, <2>4
<1> QED  BY <1>6, <1>7

\* A list whose files stay is as good as it was.
LEMMA GoodKept ==
    ASSUME StateOK, outputs \in Seq(Paths), ListGood, UNCHANGED <<opt, run, outputs, data>>,
           phase \in {"post", "test", "cleanup", "done"},
           \A p \in Paths : files'[p] \in {files[p], NoFile}
    PROVE  \A i \in DOMAIN outputs' : GoodAt(i)
<1>1. DOMAIN outputs = 1..Len(outputs) /\ \A i \in DOMAIN outputs : outputs[i] \in Paths
  OBVIOUS
<1>2. ASSUME NEW i \in DOMAIN outputs, files'[outputs[i]] # NoFile
      PROVE  IF Stale(outputs[i])
             THEN Searched(outputs[i])
             ELSE /\ data[files'[outputs[i]]].whole /\ data[files'[outputs[i]]].fixed
                  /\ \A j \in 1..(i - 1) :
                       files'[outputs[j]] # NoFile /\ ~Stale(outputs[j]) =>
                            files'[outputs[j]][2] < files'[outputs[i]][2]
  <2>1. files'[outputs[i]] = files[outputs[i]] /\ Exists(outputs[i])
    BY <1>1, <1>2 DEF Exists
  <2>2. IF Stale(outputs[i])
        THEN Searched(outputs[i])
        ELSE /\ Image(outputs[i]).whole /\ Image(outputs[i]).fixed
             /\ \A j \in 1..(i - 1) : Exists(outputs[j]) /\ ~Stale(outputs[j]) =>
                    files[outputs[j]][2] < files[outputs[i]][2]
    BY <1>2, <2>1 DEF ListGood
  <2>3. \A j \in 1..(i - 1) : j \in DOMAIN outputs
    BY <1>1
  <2>4. \A j \in 1..(i - 1) : files'[outputs[j]] \in {files[outputs[j]], NoFile}
    BY <1>1, <2>3
  <2> QED  BY <2>1, <2>2, <2>4 DEF Exists, Image
<1>3. \A k \in DOMAIN outputs : files'[outputs[k]] # NoFile => files'[outputs[k]] = files[outputs[k]]
  BY <1>1
<1>4. \A i \in DOMAIN outputs : \A j \in 1..(i - 1) : j \in DOMAIN outputs
  BY <1>1
<1> SUFFICES ASSUME NEW i \in DOMAIN outputs PROVE GoodAt(i)
  OBVIOUS
<1>5. UNCHANGED <<opt, run, outputs, data>>
  OBVIOUS
<1> QED  BY <1>2, <1>3, <1>4, <1>5 DEF GoodAt, Stale, Searched

\* Jobs were given images of this invocation, of different disks in their order.
LEMMA GivenRise ==
    ASSUME StateOK, outputs \in Seq(Paths), OwnParts, OneV2v, ListGood,
           phase = "post", opt.post # "no",
           NEW k \in DOMAIN outputs, NEW l \in DOMAIN outputs, k < l,
           Exists(outputs[k]), Exists(outputs[l])
    PROVE  Image(outputs[k]).of < Image(outputs[l]).of
<1>1. DOMAIN outputs = 1..Len(outputs) /\ \A i \in DOMAIN outputs : outputs[i] \in Paths
  OBVIOUS
<1>2. \A i \in DOMAIN outputs : ~Searched(outputs[i])
  BY DEF OneV2v, ListGood, Searched
<1>3. ~Stale(outputs[k]) /\ ~Stale(outputs[l])
  BY <1>2 DEF ListGood
<1>4. k \in 1..(l - 1)
  BY <1>1
<1>5. files[outputs[k]][2] < files[outputs[l]][2]
  BY <1>3, <1>4 DEF ListGood
<1>6. files[outputs[k]] \in Inodes /\ files[outputs[l]] \in Inodes
  BY <1>1 DEF StateOK, Exists
<1> QED  BY <1>5, <1>6 DEF OwnParts, Owned, Image

\* After the pipeline: all images in the directories of virt-v2v or of the jobs
\* that succeeded, or the list as it was.
LEMMA PostGood ==
    ASSUME StateOK, outputs \in Seq(Paths), OwnParts, OneV2v, ListGood, PostV2v
    PROVE  \A i \in DOMAIN outputs' : GoodAt(i)
<1>1. PICK S \in SUBSET {k \in DOMAIN outputs : Exists(outputs[k])} :
        /\ opt.post = "no" => S = {}
        /\ V2vWrites({PostImage(k) : k \in S})
        /\ S = {} => outputs' = outputs
        /\ S # {} => outputs' \in PostResults(S)
  BY DEF PostV2v
<1>2. UNCHANGED <<opt, run>> /\ phase = "post"
  BY DEF PostV2v, Enter
<1> DEFINE W == {PostImage(k) : k \in S}
<1>3. V2vNames(W) /\ V2vWrites(W)
  BY <1>1 DEF V2vNames, PostImage
<1>4. \A p \in W : \E k \in S : p = PostImage(k)
  OBVIOUS
<1>5. S = {} => W = {}
  OBVIOUS
<1> HIDE DEF W
<1>6. CASE S = {}
  <2>1. \A p \in Paths : files'[p] = files[p]
    BY <1>3, <1>5, <1>6 DEF V2vWrites
  <2>2. data' = data
    <3>1. data' = [f \in Inodes |-> data[f]]
      BY <1>3, <1>5, <1>6 DEF V2vWrites
    <3> QED  BY <3>1 DEF StateOK
  <2> QED  BY <1>1, <1>2, <1>6, <2>1, <2>2, GoodKept
<1>7. CASE S # {}
  <2>1. /\ outputs' \in Seq(Paths) /\ DOMAIN outputs' = 1..Len(outputs')
        /\ \A i \in DOMAIN outputs' :
             /\ outputs'[i] \in Paths
             /\ outputs'[i][1] = IF PostKind = "one" THEN "post" ELSE "jobs"
             /\ files'[outputs'[i]] # NoFile
        /\ \A i, j \in DOMAIN outputs' : i < j => Before(outputs'[i], outputs'[j])
    BY <1>1, <1>7, PostListed
  <2>2. \A i \in DOMAIN outputs' : outputs'[i][1] \in {"post", "jobs"}
    BY <2>1
  <2>3. ASSUME NEW i \in DOMAIN outputs', outputs'[i] \notin W
        PROVE  files[outputs'[i]][1] # "input" /\ files[outputs'[i]][3] # run
    <3>1. outputs'[i] \in Paths /\ outputs'[i][1] \in {"post", "jobs"}
      BY <2>1, <2>2
    <3>2. files'[outputs'[i]] = files[outputs'[i]]
      BY <1>3, <2>3, <3>1, V2vOwn
    <3>3. Exists(outputs'[i])
      BY <2>1, <3>2 DEF Exists
    <3> QED  BY <1>2, <3>1, <3>3 DEF OwnParts, Unused, Named
  <2>4. ASSUME NEW i \in DOMAIN outputs', NEW j \in DOMAIN outputs',
               i < j, outputs'[i] \in W, outputs'[j] \in W
        PROVE  outputs'[i][2] < outputs'[j][2]
    <3>1. Before(outputs'[i], outputs'[j])
      BY <2>1, <2>4
    <3>2. CASE PostKind = "one"
      BY <2>1, <3>1, <3>2 DEF Before
    <3>3. CASE PostKind # "one"
      <4>1. PICK k \in S, l \in S : outputs'[i] = PostImage(k) /\ outputs'[j] = PostImage(l)
        BY <1>4, <2>4
      <4>2. /\ outputs'[i] = <<"jobs", Image(outputs[k]).of, k>>
            /\ outputs'[j] = <<"jobs", Image(outputs[l]).of, l>>
        BY <3>3, <4>1 DEF PostImage
      <4>3. k < l \/ (k = l /\ outputs'[i][2] < outputs'[j][2])
        BY <3>1, <4>2 DEF Before
      <4>4. k < l => Image(outputs[k]).of < Image(outputs[l]).of
        BY <1>1, <1>2, <1>7, GivenRise
      <4> QED  BY <4>2, <4>3, <4>4
    <3> QED  BY <3>2, <3>3
  <2> QED  BY <1>2, <1>3, <2>1, <2>2, <2>3, <2>4, MadeGood
<1> QED  BY <1>6, <1>7

\* The list is good from the time it is made to the end of the invocation.
LEMMA ListGoodStep ==
    ASSUME StateOK, StateOK', outputs \in Seq(Paths), PubParts, Worked, OwnParts, OneV2v,
           ListGood, ~SameSecond, [Next]_vars
    PROVE  ListGood'
<1> USE PipelineAssumption
<1>1. CASE UNCHANGED vars
  BY <1>1 DEF vars, ListGood, Exists, Image, Stale, Searched
<1>2. CASE PreV2v
  BY <1>2, PreGood, GoodAfter
<1>3. CASE Collect
  BY <1>3, CollectGood, GoodAfter
<1>4. CASE PostV2v
  <2>1. phase' = "test"
    BY <1>4 DEF PostV2v, Enter
  <2> QED  BY <1>4, <2>1, PostGood, GoodAfter
<1>5. CASE Discover
  <2>1. phase = "discover" /\ phase' = "pre" /\ UNCHANGED outputs
    BY <1>5 DEF Discover, Enter
  <2> QED  BY <2>1 DEF ListGood
<1>6. CASE DiscoverFail \/ PreV2vFail \/ DieOnFailure \/ PostV2vFail \/ TestFail
  <2>1. phase' = "aborted"
    BY <1>6 DEF DiscoverFail, PreV2vFail, DieOnFailure, PostV2vFail, TestFail, Enter
  <2> QED  BY <2>1 DEF ListGood
<1>7. CASE Test
  <2>1. /\ UNCHANGED <<opt, run, outputs, data, files>> /\ phase = "test"
        /\ phase' = "cleanup"
    BY <1>7 DEF Test, Enter, store
  <2> QED  BY <2>1, GoodKept, GoodAfter
<1>8. CASE Cleanup
  <2>1. /\ UNCHANGED <<opt, run, outputs, data>> /\ phase = "cleanup" /\ phase' = "done"
        /\ \A p \in Paths : files'[p] \in {files[p], NoFile}
    BY <1>8 DEF Cleanup, Enter
  <2> QED  BY <2>1, GoodKept, GoodAfter
<1>9. CASE Rerun
  BY <1>9, OwnRerun DEF ListGood
<1>10. ASSUME NEW d \in Disks, Process(d) PROVE ListGood'
  <2>1. UNCHANGED <<phase, outputs>> /\ phase \in {"process", "aborted"}
    BY <1>10, OwnStep, OwnProcess
  <2> QED  BY <2>1 DEF ListGood
<1> QED
  BY <1>1, <1>2, <1>3, <1>4, <1>5, <1>6, <1>7, <1>8, <1>9, <1>10 DEF Next, Orchestrate

LEMMA OwnNext ==
    ASSUME StateOK, StateOK', outputs \in Seq(Paths), PubParts, Worked, OwnParts,
           ~SameSecond, [Next]_vars
    PROVE  OwnParts'
<1>1. CASE UNCHANGED vars
  BY <1>1 DEF vars, OwnParts, Owned, Named, Stamped, Mine, Resting, Unused, Exists, Image,
              Flat, Out, Copy, OutInode
<1> QED  BY <1>1, OwnMain, OwnRerun, OwnProcess DEF Next

Whose == TypeOK /\ PubParts /\ Worked /\ OwnParts /\ OneV2v /\ ListGood

\* The settings of an invocation stay.
LEMMA OptStays == [Next]_vars => opt' = opt
BY DEF Next, Orchestrate, Discover, DiscoverFail, PreV2v, PreV2vFail, Collect,
       DieOnFailure, PostV2v, PostV2vFail, Test, TestFail, Cleanup, Enter, Rerun, Process,
       Start, Missing, FlattenBegin, FlattenEnd, FlattenFail, Publish, Fix, FixFail,
       ConvertBegin, ConvertEnd, ConvertFail, vars

LEMMA WhoseAlways == ASSUME ~SameSecond PROVE Spec => []Whose
<1>1. Init => Whose
  <2>1. Init => Worked
    BY DEF Init, Idle, Worked, Ready, Lasting
  <2>2. Init => OneV2v
    BY PipelineAssumption DEF Init, OneV2v
  <2> QED  BY <2>1, <2>2, TypeInit, PubInit, OwnInit DEF Whose
<1>2. Whose /\ [Next]_vars => Whose'
  <2>1. OneV2v /\ [Next]_vars => OneV2v'
    BY OptStays DEF OneV2v
  <2> QED  BY <2>1, TypeNext, PubNext, WorkedStep, OwnNext, ListGoodStep DEF Whose, TypeOK
<1> QED  BY <1>1, <1>2, PTL DEF Spec

\* When no two flattenings start in one second, the images a run lists are
\* complete, were fixed, and are of different disks in their order, whatever
\* fails, dies and is started again, and whatever jobs earlier runs had: what
\* they left may be listed beside them, but from the directories of virt-v2v only.
THEOREM OwnImagesListed ==
    ASSUME ~SameSecond
    PROVE  Spec => []OwnImages
<1>1. Whose => OwnImages
  <2> USE DEF Whose
  <2> SUFFICES ASSUME Whose, phase = "done", NEW i \in DOMAIN outputs,
                      Exists(outputs[i])
               PROVE  IF Stale(outputs[i])
                      THEN Searched(outputs[i])
                      ELSE /\ Image(outputs[i]).whole /\ Image(outputs[i]).fixed
                           /\ \A j \in 1..(i - 1) :
                                Exists(outputs[j]) /\ ~Stale(outputs[j]) =>
                                    Image(outputs[j]).of < Image(outputs[i]).of
    BY DEF OwnImages
  <2>1. DOMAIN outputs = 1..Len(outputs)
    BY DEF TypeOK
  <2>2. ASSUME NEW k \in DOMAIN outputs, Exists(outputs[k])
        PROVE  Image(outputs[k]).of = files[outputs[k]][2]
    <3>1. outputs[k] \in Paths
      BY DEF TypeOK
    <3>2. files[outputs[k]] \in Inodes
      BY <2>2, <3>1 DEF TypeOK, StateOK, Exists
    <3> QED  BY <3>2 DEF OwnParts, Owned, Image
  <2>3. \A j \in 1..(i - 1) : j \in DOMAIN outputs
    BY <2>1
  <2> QED  BY <2>2, <2>3 DEF ListGood
<1> QED  BY <1>1, WhoseAlways, PTL

\* When no two flattenings start in one second, the result of a disk is of that
\* disk, in a pool as well ("Error isolation per-disk"): that two of them do is the
\* only way to what the run pipeline_pool shows.
THEOREM IsolatedUnlessSameSecond ==
    ASSUME ~SameSecond
    PROVE  Spec => [](phase # "done" => Isolated)
<1>1. Whose => (phase # "done" => Isolated)
  <2> USE DEF Whose
  <2> SUFFICES ASSUME Whose, phase # "done", NEW d \in Disks, pc[d] = "done"
               PROVE  Image(working[d]).of = d
    BY DEF Isolated
  <2>1. pc[d] \in Ready /\ Exists(working[d])  BY DEF Worked, Ready
  <2>2. files[working[d]] \in Inodes /\ files[working[d]][2] = d
    BY <2>1, OwnFile DEF TypeOK
  <2> QED  BY <2>2 DEF OwnParts, Owned, Image
<1> QED  BY <1>1, WhoseAlways, PTL

-----------------------------------------------------------------------------
(* The images in the output directory implement FileDelivery.              *)

\* The image of a disk is the one this invocation has made of it and is through
\* with, or an earlier one's; it is whole.  The one being made is written aside.
OutOf(d) ==
    /\ Exists(Out(d)) =>
          /\ \E r \in Runs : /\ files[Out(d)] = <<"out", d, r>> /\ r <= run
                             /\ r = run => pc[d] = "done"
          /\ Image(Out(d)).whole
    /\ pc[d] = "converting" => files[Part(d)] = OutInode(d)
OutGood == \A d \in Disks : OutOf(d)

\* A step that leaves the image of a disk, what it holds and its part alone.
LEMMA OutSame ==
    ASSUME OutGood, NEW d \in Disks, run' = run,
           files'[Out(d)] = files[Out(d)],
           \A r \in Runs : data'[<<"out", d, r>>].whole = data[<<"out", d, r>>].whole
                           \/ (r = run /\ pc[d] # "done"),
           pc[d] = "done" => pc'[d] = "done",
           pc'[d] = "converting" => pc[d] = "converting" /\ files'[Part(d)] = files[Part(d)]
    PROVE  OutOf(d)'
<1> USE DEF OutOf
<1>1. CASE Exists(Out(d))
  <2>1. PICK r \in Runs : /\ files[Out(d)] = <<"out", d, r>> /\ r <= run
                          /\ r = run => pc[d] = "done"
    BY <1>1 DEF OutGood, OutOf
  <2>2. data[<<"out", d, r>>].whole  BY <1>1, <2>1 DEF OutGood, OutOf, Image
  <2>3. data'[<<"out", d, r>>].whole  BY <2>1, <2>2
  <2> QED  BY <1>1, <2>1, <2>3 DEF OutGood, OutOf, Image, OutInode, Out
<1>2. CASE ~Exists(Out(d))  BY <1>2 DEF OutGood, OutOf, Exists, OutInode, Out
<1> QED  BY <1>1, <1>2

LEMMA OutInit == Init => OutGood
BY DEF Init, Idle, OutGood, OutOf, Exists, Out, Paths

\* What a step of a disk does to the images of the disks: nothing but that the
\* end of its conversion puts its own under its name.
LEMMA OutFrame ==
    ASSUME StateOK, OutGood, NEW e \in Disks, Process(e), NEW d \in Disks
    PROVE  /\ UNCHANGED <<opt, run>>
           /\ d # e => pc'[d] = pc[d]
           /\ d # e \/ ~ConvertEnd(e) => files'[Out(d)] = files[Out(d)]
           /\ d # e \/ ~ConvertBegin(e) => files'[Part(d)] = files[Part(d)] \/ pc'[d] # "converting"
           /\ \A r \in Runs : data'[<<"out", d, r>>].whole = data[<<"out", d, r>>].whole
                              \/ (d = e /\ r = run /\ (ConvertBegin(e) \/ ConvertEnd(e)))
<1> USE PipelineAssumption
<1>1. /\ Out(d) \in Paths /\ Part(d) \in Paths
      /\ \A f \in {Tmp(e), Flat(e)} : f # Out(d) /\ f # Part(d)
      /\ Part(e) # Out(d) /\ Out(e) # Part(d)
      /\ d # e => Out(e) # Out(d) /\ Part(e) # Part(d)
  BY DEF Out, Part, Tmp, Flat, Paths
<1>2. \A r \in Runs : /\ <<"out", d, r>> \in Inodes /\ Copy(e) # <<"out", d, r>>
                      /\ OutInode(e) = <<"out", d, r>> => d = e /\ r = run
  BY DEF Inodes, Copy, OutInode
<1>u. ASSUME UNCHANGED <<opt, run, files, data>>, \E q : pc' = [pc EXCEPT ![e] = q]
      PROVE  /\ UNCHANGED <<opt, run>>
             /\ d # e => pc'[d] = pc[d]
             /\ files'[Out(d)] = files[Out(d)] /\ files'[Part(d)] = files[Part(d)]
             /\ \A r \in Runs : data'[<<"out", d, r>>].whole = data[<<"out", d, r>>].whole
  BY <1>u DEF StateOK
<1>3. CASE Start(e)  BY <1>3, <1>u DEF Start, Goto, store
<1>4. CASE Missing(e)  BY <1>4, <1>u DEF Missing, Goto, store
<1>5. CASE FixFail(e)  BY <1>5, <1>u DEF FixFail, Goto, store
<1>6. CASE FlattenBegin(e)  BY <1>1, <1>2, <1>6 DEF FlattenBegin, Goto, StateOK
<1>7. CASE FlattenEnd(e)  BY <1>1, <1>2, <1>7 DEF FlattenEnd, Goto, StateOK
<1>8. CASE FlattenFail(e)  BY <1>1, <1>2, <1>8 DEF FlattenFail, Goto, StateOK
<1>9. CASE Publish(e)  BY <1>1, <1>2, <1>9 DEF Publish, Goto, StateOK
<1>10. CASE Fix(e)
  <2>1. \A f \in Inodes : data'[f].whole = data[f].whole
    BY <1>10 DEF Fix, StateOK, Contents
  <2> QED  BY <1>1, <1>2, <1>10, <2>1 DEF Fix, Goto, StateOK
<1>11. CASE ConvertBegin(e)  BY <1>1, <1>2, <1>11 DEF ConvertBegin, Goto, StateOK
<1>12. CASE ConvertEnd(e)  BY <1>1, <1>2, <1>12 DEF ConvertEnd, Goto, StateOK, Result
<1>13. CASE ConvertFail(e)  BY <1>1, <1>2, <1>13 DEF ConvertFail, Goto, StateOK
<1> QED  BY <1>3, <1>4, <1>5, <1>6, <1>7, <1>8, <1>9, <1>10, <1>11, <1>12, <1>13 DEF Process

\* What the main thread does to them: nothing.
LEMMA OutMain ==
    ASSUME StateOK, Orchestrate \/ UNCHANGED vars, NEW d \in Disks
    PROVE  /\ UNCHANGED <<opt, run, pc>>
           /\ files'[Out(d)] = files[Out(d)] /\ files'[Part(d)] = files[Part(d)]
           /\ \A r \in Runs : data'[<<"out", d, r>>] = data[<<"out", d, r>>]
<1>1. Out(d) \in Paths /\ Part(d) \in Paths /\ Out(d)[1] = "out" /\ Part(d)[1] = "part"
  BY DEF Out, Part, Paths
<1>2. \A r \in Runs : <<"out", d, r>> \in Inodes  BY DEF Inodes
<1>3. ASSUME PreV2v \/ PostV2v
      PROVE  /\ files'[Out(d)] = files[Out(d)] /\ files'[Part(d)] = files[Part(d)]
             /\ \A r \in Runs : data'[<<"out", d, r>>] = data[<<"out", d, r>>]
  <2>1. PICK W : V2vNames(W) /\ V2vWrites(W)  BY <1>3, V2vSteps
  <2>2. /\ \A p \in Paths : files'[p] = IF p \in W THEN <<p[1], p[2], run>> ELSE files[p]
        /\ \A p \in Paths \cap W : p[1] \in {"v2v", "post", "jobs"}
        /\ \A f \in Inodes : data'[f] = data[f] \/ f[1] \in {"v2v", "post", "jobs"}
    BY <2>1, V2vFrame
  <2>3. Out(d) \notin W /\ Part(d) \notin W  BY <1>1, <2>2
  <2>4. \A r \in Runs : data'[<<"out", d, r>>] = data[<<"out", d, r>>]  BY <1>2, <2>2
  <2> QED  BY <1>1, <2>2, <2>3, <2>4
<1>4. CASE PreV2v  BY <1>3, <1>4 DEF PreV2v, Enter, worker
<1>5. CASE PostV2v  BY <1>3, <1>5 DEF PostV2v, Enter, worker
<1>6. CASE Discover  BY <1>1, <1>2, <1>6 DEF Discover, Enter, worker, store
<1>7. CASE Cleanup  BY <1>1, <1>2, <1>7 DEF Cleanup, Enter, worker
<1>8. CASE DiscoverFail \/ PreV2vFail \/ Collect \/ DieOnFailure \/ PostV2vFail \/ Test \/ TestFail
  BY <1>8 DEF DiscoverFail, PreV2vFail, Collect, DieOnFailure, PostV2vFail, Test, TestFail,
              Enter, worker, store
<1>9. CASE UNCHANGED vars  BY <1>9 DEF vars
<1> QED  BY <1>4, <1>5, <1>6, <1>7, <1>8, <1>9 DEF Orchestrate

LEMMA OutStep == StateOK /\ OutGood /\ [Next]_vars => OutGood'
<1> SUFFICES ASSUME StateOK, OutGood, [Next]_vars, NEW d \in Disks
             PROVE  OutOf(d)'
  BY DEF OutGood
<1> USE PipelineAssumption
<1>1. CASE Orchestrate \/ UNCHANGED vars  BY <1>1, OutMain, OutSame
<1>2. CASE Rerun
  <2>1. /\ run' = run + 1 /\ pc'[d] = "queued" /\ UNCHANGED <<files, data>>
        /\ run \in Nat
    BY <1>2 DEF Rerun, store, StateOK, Runs
  <2>2. Runs \subseteq Nat  BY DEF Runs
  <2> QED  BY <2>1, <2>2 DEF OutGood, OutOf, Exists, Image, Out
<1>3. ASSUME NEW e \in Disks, Process(e)
      PROVE  OutOf(d)'
  <2>1. CASE d # e  BY <1>3, <2>1, OutFrame, OutSame
  <2>2. CASE d = e /\ ConvertBegin(e)
    <3>1. /\ pc[d] = "convert" /\ pc'[d] = "converting"
          /\ files'[Part(d)] = OutInode(d)' /\ Part(d) # Out(d)
      BY <2>2, Names DEF ConvertBegin, Goto, StateOK, Part, Out, OutInode
    <3>2. files'[Out(d)] = files[Out(d)] /\ UNCHANGED run
      BY <1>3, <2>2, <3>1 DEF ConvertBegin
    <3>3. CASE ~Exists(Out(d))  BY <3>1, <3>2, <3>3 DEF OutOf, Exists, Out
    <3>4. CASE Exists(Out(d))
      <4>1. PICK r \in Runs : /\ files[Out(d)] = <<"out", d, r>> /\ r <= run
                              /\ r = run => pc[d] = "done"
        BY <3>4 DEF OutGood, OutOf
      <4>2. r # run /\ data[<<"out", d, r>>].whole  BY <3>1, <3>4, <4>1 DEF OutGood, OutOf, Image
      <4>3. data'[<<"out", d, r>>].whole  BY <1>3, <2>2, <4>2, OutFrame
      <4> QED  BY <3>1, <3>2, <4>1, <4>2, <4>3 DEF OutOf, Image, Out
    <3> QED  BY <3>3, <3>4
  <2>3. CASE d = e /\ ConvertEnd(e)
    <3>1. /\ pc[d] = "converting" /\ pc'[d] = "done" /\ run' = run /\ Part(d) # Out(d)
          /\ files[Part(d)] = OutInode(d)
      BY <2>3, Names DEF ConvertEnd, Goto, StateOK, Part, Out, OutGood, OutOf
    <3>2. files'[Out(d)] = OutInode(d)  BY <2>3, <3>1, Names DEF ConvertEnd, StateOK
    <3>3. data'[OutInode(d)].whole
      BY <2>3, Names DEF ConvertEnd, StateOK, Contents
    <3>4. OutInode(d) = <<"out", d, run>> /\ run \in Runs /\ run <= run
      BY DEF OutInode, StateOK, Runs
    <3> QED  BY <3>1, <3>2, <3>3, <3>4 DEF OutOf, Image, Out
  <2>4. CASE d = e /\ ~ConvertBegin(e) /\ ~ConvertEnd(e)
    <3>1. pc'[d] = "converting" => pc[d] = "converting"
      BY <1>3, <2>4 DEF Process, Start, Missing, FlattenBegin, FlattenEnd, FlattenFail, Publish,
         Fix, FixFail, ConvertFail, Goto, StateOK
    <3>2. pc[d] # "done"
      BY <1>3, <2>4 DEF Process, Start, Missing, MayStart, FlattenBegin, FlattenEnd, FlattenFail,
         Publish, Fix, FixFail, ConvertFail
    <3> QED  BY <1>3, <2>4, <3>1, <3>2, OutFrame, OutSame
  <2> QED  BY <2>1, <2>2, <2>3, <2>4
<1> QED  BY <1>1, <1>2, <1>3 DEF Next

\* The images there are, and what a disk is said to be, as FileDelivery has them.
Here == {d \in Disks : Exists(Out(d)) /\ Image(Out(d)).whole}
Said == [d \in Disks |-> IF ~opt.toOutput THEN "none"
                         ELSE IF pc[d] = "done" THEN "ok"
                         ELSE IF pc[d] = "failed" THEN "failed" ELSE "none"]

LEMMA DeliveryStep ==
    ASSUME StateOK, OutGood, OutGood', [Next]_vars
    PROVE  [Promise!Next]_(Promise!vars)
<1> USE DEF Here, Said
<1>1. Here = {d \in Disks : Exists(Out(d))} /\ Here' = {d \in Disks : files'[Out(d)] # NoFile}
  BY DEF OutGood, OutOf, Exists, Image, Out
<1>2. ASSUME Here' = Here, Said' = Said PROVE [Promise!Next]_(Promise!vars)
  BY <1>2 DEF Promise!vars
<1>3. CASE Orchestrate \/ UNCHANGED vars
  <2>1. Here' = Here  BY <1>1, <1>3, OutMain DEF Exists
  <2>2. UNCHANGED <<opt, pc>>
    <3>1. 1 \in Disks  BY PipelineAssumption DEF Disks
    <3> QED  BY <1>3, <3>1, OutMain
  <2> QED  BY <1>2, <2>1, <2>2
<1>4. CASE Rerun
  <2>1. UNCHANGED files /\ UNCHANGED opt /\ pc' = [d \in Disks |-> "queued"]
    BY <1>4 DEF Rerun, store
  <2>2. Here' = Here  BY <1>1, <2>1 DEF Exists
  <2>3. Said' = [d \in Disks |-> "none"]  BY <2>1
  <2>4. Promise!Again  BY <2>2, <2>3 DEF Promise!Again
  <2> QED  BY <2>4 DEF Promise!Next
<1>5. ASSUME NEW e \in Disks, Process(e) PROVE [Promise!Next]_(Promise!vars)
  <2>1. /\ UNCHANGED opt /\ \A d \in Disks : d # e => pc'[d] = pc[d]
        /\ pc[e] \notin {"done", "failed"}
    BY <1>5, OutFrame
       DEF Process, Start, Missing, MayStart, FlattenBegin, FlattenEnd, FlattenFail, Publish,
           Fix, FixFail, ConvertBegin, ConvertEnd, ConvertFail
  <2>2. Said[e] = "none" /\ \A d \in Disks : d # e => Said'[d] = Said[d]  BY <2>1
  <2>3. Said' = [Said EXCEPT ![e] = Said'[e]]  BY <2>2
  <2>4. CASE ConvertEnd(e)
    <3>1. files'[Out(e)] # NoFile
      <4>1. files[Part(e)] = OutInode(e) /\ Part(e) # Out(e)
        BY <2>4 DEF ConvertEnd, OutGood, OutOf, Part, Out
      <4>2. files'[Out(e)] = OutInode(e)  BY <2>4, <4>1, Names DEF ConvertEnd, StateOK
      <4> QED  BY <4>2, Names, PipelineAssumption
    <3>2. Here' = Here \cup {e}  BY <1>1, <1>5, <3>1, OutFrame DEF Exists
    <3>3. pc'[e] = "done"  BY <2>4 DEF ConvertEnd, Goto, StateOK
    <3>4. CASE opt.toOutput
      <4>1. Said'[e] = "ok"  BY <2>1, <3>3, <3>4
      <4>2. Promise!Succeed(e)
        BY <2>2, <2>3, <3>2, <4>1 DEF Promise!Succeed
      <4> QED  BY <4>2 DEF Promise!Next
    <3>5. CASE ~opt.toOutput
      <4>1. Said' = Said  BY <2>1, <3>5
      <4>2. Promise!Deliver(e)  BY <3>2, <4>1 DEF Promise!Deliver
      <4> QED  BY <4>2 DEF Promise!Next
    <3> QED  BY <3>4, <3>5
  <2>5. CASE ~ConvertEnd(e)
    <3>1. Here' = Here  BY <1>1, <1>5, <2>5, OutFrame DEF Exists
    <3>2. CASE ~opt.toOutput  BY <1>2, <2>1, <3>1, <3>2
    <3>3. CASE opt.toOutput /\ pc'[e] = "failed"
      <4>1. Said'[e] = "failed"  BY <2>1, <3>3
      <4>2. Promise!Fail(e)  BY <2>2, <2>3, <3>1, <4>1 DEF Promise!Fail
      <4> QED  BY <4>2 DEF Promise!Next
    <3>4. CASE opt.toOutput /\ pc'[e] # "failed"
      <4>1. pc'[e] # "done"
        BY <1>5, <2>5, <3>4
           DEF Process, Start, Missing, FlattenBegin, FlattenEnd, FlattenFail, Publish, Fix,
               FixFail, ConvertBegin, ConvertFail, Goto, StateOK
      <4>2. Said'[e] = "none"  BY <2>1, <3>4, <4>1
      <4>3. Said' = Said  BY <2>2, <4>2
      <4> QED  BY <1>2, <3>1, <4>3
    <3> QED  BY <3>2, <3>3, <3>4
  <2> QED  BY <2>4, <2>5
<1> QED  BY <1>3, <1>4, <1>5 DEF Next

\* The conversions of an invocation, in sequence or in a pool, implement
\* FileDelivery: an image in the output directory appears whole, is never taken
\* away, by no failure, death or second invocation, and a disk is done only when
\* its image is there.  With no assumption on the clock (process_single_disk,
\* convert_image_with_progress).
THEOREM DeliveryImplemented == Spec => Delivery
<1>1. Init => Promise!Init
  BY DEF Init, Idle, Promise!Init
<1>2. StateOK /\ OutGood /\ OutGood' /\ [Next]_vars => [Promise!Next]_(Promise!vars)
  BY DeliveryStep
<1> QED  BY <1>1, <1>2, StateInit, StateStep, OutInit, OutStep, PTL
         DEF Spec, Delivery, Promise!Spec


-----------------------------------------------------------------------------
(* An invocation cannot go on for ever.                                    *)

\* How many steps the main thread, and a disk, can still take at most: a phase
\* leads to a later one, and a disk has two attempts to be flattened.
PhaseLeft ==
    CASE phase = "discover" -> 6 [] phase = "pre" -> 5 [] phase = "process" -> 4
      [] phase = "post" -> 3 [] phase = "test" -> 2 [] phase = "cleanup" -> 1
      [] OTHER -> 0
DiskLeft(d) ==
    CASE pc[d] = "queued" -> 9 [] pc[d] = "attempt" -> 10 - 2 * try[d]
      [] pc[d] = "copying" -> 9 - 2 * try[d] [] pc[d] = "replace" -> 4 [] pc[d] = "fix" -> 3
      [] pc[d] = "convert" -> 2 [] pc[d] = "converting" -> 1 [] OTHER -> 0

\* They are counted in this set: <<0, k>> for the main thread, <<d, k>> for a disk.
StepsLeft ==
    {<<0, k>> : k \in 1..PhaseLeft}
    \cup UNION {{<<d, k>> : k \in 1..DiskLeft(d)} : d \in Disks}

LEMMA LeftTypes == StateOK => PhaseLeft \in 0..6 /\ \A d \in Disks : DiskLeft(d) \in 0..9
<1> SUFFICES ASSUME StateOK PROVE PhaseLeft \in 0..6 /\ \A d \in Disks : DiskLeft(d) \in 0..9
  OBVIOUS
<1>1. PhaseLeft \in 0..6  BY DEF PhaseLeft
<1>2. ASSUME NEW d \in Disks PROVE DiskLeft(d) \in 0..9
  <2>1. try[d] \in {1, 2}  BY DEF StateOK, Attempts
  <2> QED  BY <2>1 DEF DiskLeft
<1> QED  BY <1>1, <1>2

LEMMA LeftTypesNext == (StateOK => PhaseLeft \in 0..6 /\ \A d \in Disks : DiskLeft(d) \in 0..9)'
BY LeftTypes, PTL

\* Less is left when one of them has less and the others have no more.
LEMMA LessLeft ==
    ASSUME StateOK, StateOK',
           PhaseLeft' <= PhaseLeft, \A d \in Disks : DiskLeft(d)' <= DiskLeft(d),
           PhaseLeft' < PhaseLeft \/ \E d \in Disks : DiskLeft(d)' < DiskLeft(d)
    PROVE  StepsLeft' \subseteq StepsLeft /\ StepsLeft' # StepsLeft
<1>0. /\ PhaseLeft \in Nat /\ PhaseLeft' \in Nat /\ N \in Nat
      /\ \A d \in Disks : DiskLeft(d) \in Nat /\ DiskLeft(d)' \in Nat
  BY LeftTypes, LeftTypesNext, PipelineAssumption
<1>1. \A d, k : <<d, k>> \in StepsLeft <=>
        (d = 0 /\ k \in 1..PhaseLeft) \/ (d \in Disks /\ k \in 1..DiskLeft(d))
  BY DEF StepsLeft
<1>2. \A d, k : <<d, k>> \in StepsLeft' <=>
        (d = 0 /\ k \in 1..PhaseLeft') \/ (d \in Disks /\ k \in 1..DiskLeft(d)')
  BY DEF StepsLeft
<1>3. StepsLeft' \subseteq StepsLeft
  <2>1. ASSUME NEW x \in StepsLeft' PROVE x \in StepsLeft
    <3>1. PICK d, k : x = <<d, k>>  BY DEF StepsLeft
    <3> QED  BY <1>0, <1>1, <1>2, <3>1
  <2> QED  BY <2>1
<1>4. 0 \notin Disks  BY <1>0 DEF Disks
<1>5. CASE PhaseLeft' < PhaseLeft
  <2>1. <<0, PhaseLeft>> \in StepsLeft /\ <<0, PhaseLeft>> \notin StepsLeft'
    BY <1>0, <1>1, <1>2, <1>4, <1>5
  <2> QED  BY <1>3, <2>1
<1>6. ASSUME NEW d \in Disks, DiskLeft(d)' < DiskLeft(d) PROVE StepsLeft' # StepsLeft
  <2>1. <<d, DiskLeft(d)>> \in StepsLeft /\ <<d, DiskLeft(d)>> \notin StepsLeft'
    BY <1>0, <1>1, <1>2, <1>4, <1>6
  <2> QED  BY <2>1
<1> QED  BY <1>3, <1>5, <1>6

LEMMA StepTaken ==
    ASSUME StateOK, StateOK', Next, run' = run
    PROVE  StepsLeft' \subseteq StepsLeft /\ StepsLeft' # StepsLeft
<1>1. CASE Orchestrate
  <2>1. UNCHANGED <<pc, try>>
    BY <1>1 DEF Orchestrate, Discover, DiscoverFail, PreV2v, PreV2vFail, Collect, DieOnFailure,
         PostV2v, PostV2vFail, Test, TestFail, Cleanup, worker
  <2>2. PhaseLeft' < PhaseLeft
    <3>1. \/ phase = "discover" /\ phase' \in {"pre", "aborted"}
          \/ phase = "process" /\ phase' \in {"post", "aborted"}
          \/ phase = "test" /\ phase' \in {"cleanup", "aborted"}
          \/ phase = "cleanup" /\ phase' = "done"
          \/ PreV2v \/ PreV2vFail \/ PostV2v \/ PostV2vFail
      BY <1>1 DEF Orchestrate, Discover, DiscoverFail, Collect, DieOnFailure, Test, TestFail,
                  Cleanup, Enter
    <3>2. PreV2v \/ PreV2vFail => phase = "pre" /\ phase' \in {"process", "post", "aborted"}
      BY DEF PreV2v, PreV2vFail, Enter
    <3>3. PostV2v \/ PostV2vFail => phase = "post" /\ phase' \in {"test", "aborted"}
      BY DEF PostV2v, PostV2vFail, Enter
    <3> QED  BY <3>1, <3>2, <3>3 DEF PhaseLeft
  <2>3. \A d \in Disks : DiskLeft(d)' = DiskLeft(d)  BY <2>1 DEF DiskLeft
  <2>4. PhaseLeft \in Nat /\ PhaseLeft' \in Nat /\ \A d \in Disks : DiskLeft(d) \in Nat
    BY LeftTypes, LeftTypesNext
  <2> QED  BY <2>2, <2>3, <2>4, LessLeft
<1>2. ASSUME NEW e \in Disks, Process(e)
      PROVE  StepsLeft' \subseteq StepsLeft /\ StepsLeft' # StepsLeft
  <2> USE DEF Goto, StateOK
  <2>1. UNCHANGED phase /\ \A d \in Disks : d # e => pc'[d] = pc[d] /\ try'[d] = try[d]
    BY <1>2 DEF Process, Start, Missing, FlattenBegin, FlattenEnd, FlattenFail, Publish,
         Fix, FixFail, ConvertBegin, ConvertEnd, ConvertFail
  <2>2. PhaseLeft' = PhaseLeft /\ \A d \in Disks : d # e => DiskLeft(d)' = DiskLeft(d)
    BY <2>1 DEF PhaseLeft, DiskLeft
  <2>3. DiskLeft(e)' < DiskLeft(e)
    <3> USE DEF DiskLeft
    <3>0. try[e] \in {1, 2}  BY DEF Attempts
    <3>1. CASE Start(e)
      <4>1. pc[e] = "queued" /\ pc'[e] \in {"attempt", "fix"} /\ try' = try
        BY <3>1 DEF Start, MayStart
      <4> QED  BY <3>0, <4>1
    <3>2. CASE Missing(e)
      <4>1. pc[e] = "queued" /\ pc'[e] = "failed"  BY <3>2 DEF Missing, MayStart
      <4> QED  BY <4>1
    <3>3. CASE FlattenBegin(e)
      <4>1. pc[e] = "attempt" /\ pc'[e] = "copying" /\ try' = try  BY <3>3 DEF FlattenBegin
      <4> QED  BY <3>0, <4>1
    <3>4. CASE FlattenEnd(e)
      <4>1. pc[e] = "copying" /\ pc'[e] = "replace"  BY <3>4 DEF FlattenEnd
      <4> QED  BY <3>0, <4>1
    <3>5. CASE FlattenFail(e)
      <4>1. /\ pc[e] = "copying"
            /\ \/ pc'[e] = "attempt" /\ try[e] < 2 /\ try'[e] = try[e] + 1
               \/ pc'[e] = "failed"
        BY <3>5 DEF FlattenFail, TryAgain
      <4> QED  BY <3>0, <4>1
    <3>6. CASE Publish(e)
      <4>1. pc[e] = "replace" /\ pc'[e] \in {"fix", "failed"}  BY <3>6 DEF Publish
      <4> QED  BY <4>1
    <3>7. CASE Fix(e)
      <4>1. pc[e] = "fix" /\ pc'[e] \in {"convert", "done"}  BY <3>7 DEF Fix
      <4> QED  BY <4>1
    <3>8. CASE FixFail(e)
      <4>1. pc[e] = "fix" /\ pc'[e] = "failed"  BY <3>8 DEF FixFail
      <4> QED  BY <4>1
    <3>9. CASE ConvertBegin(e)
      <4>1. pc[e] = "convert" /\ pc'[e] = "converting"  BY <3>9 DEF ConvertBegin
      <4> QED  BY <4>1
    <3>10. CASE ConvertEnd(e)
      <4>1. pc[e] = "converting" /\ pc'[e] = "done"  BY <3>10 DEF ConvertEnd
      <4> QED  BY <4>1
    <3>11. CASE ConvertFail(e)
      <4>1. pc[e] = "converting" /\ pc'[e] = "failed"  BY <3>11 DEF ConvertFail
      <4> QED  BY <4>1
    <3> QED  BY <1>2, <3>1, <3>2, <3>3, <3>4, <3>5, <3>6, <3>7, <3>8, <3>9, <3>10, <3>11
             DEF Process
  <2> HIDE DEF StateOK
  <2>4. PhaseLeft \in Nat /\ \A d \in Disks : DiskLeft(d) \in Nat /\ DiskLeft(d)' \in Nat
    BY LeftTypes, LeftTypesNext
  <2>5. \A d \in Disks : DiskLeft(d)' <= DiskLeft(d)  BY <2>2, <2>3, <2>4
  <2> QED  BY <2>2, <2>3, <2>4, <2>5, LessLeft
<1>3. ~Rerun
  <2>1. run \in Nat  BY DEF StateOK, Runs
  <2> QED  BY <2>1 DEF Rerun
<1> QED  BY <1>1, <1>2, <1>3 DEF Next

\* An invocation ends after finitely many steps of the main thread and the disks,
\* whatever fails in it and however the threads are scheduled: what is left to do
\* is finite, and every step that does not start a new invocation leaves less of
\* it.  (RunEnds is this, and that the threads go on.)
THEOREM InvocationRunsOut ==
    Spec => /\ []IsFiniteSet(StepsLeft)
            /\ [][run' = run => StepsLeft' \subseteq StepsLeft /\ StepsLeft' # StepsLeft]_vars
<1>1. StateOK => IsFiniteSet(StepsLeft)
  <2> SUFFICES ASSUME StateOK PROVE IsFiniteSet(StepsLeft)  OBVIOUS
  <2> DEFINE Box == (0..N) \X (1..9)
  <2>1. IsFiniteSet(Box)
    <3>1. N \in Int /\ 0 \in Int /\ 1 \in Int /\ 9 \in Int  BY PipelineAssumption
    <3>2. IsFiniteSet(0..N) /\ IsFiniteSet(1..9)  BY <3>1, FS_Interval
    <3> QED  BY <3>2, FS_Product
  <2>2. StepsLeft \subseteq Box
    <3>1. N \in Nat  BY PipelineAssumption
    <3>2. 0 \in 0..N /\ 1..PhaseLeft \subseteq 1..9  BY <3>1, LeftTypes
    <3>3. Disks \subseteq 0..N  BY <3>1 DEF Disks
    <3>4. \A d \in Disks : 1..DiskLeft(d) \subseteq 1..9  BY LeftTypes
    <3> QED  BY <3>2, <3>3, <3>4 DEF StepsLeft
  <2> QED  BY <2>1, <2>2, FS_Subset
<1>2. StateOK /\ StateOK' /\ [Next]_vars
      => [run' = run => StepsLeft' \subseteq StepsLeft /\ StepsLeft' # StepsLeft]_vars
  BY StepTaken
<1> QED  BY <1>1, <1>2, StateInit, StateStep, PTL DEF Spec

=============================================================================
