------------------------ MODULE HttpDownload_proofs ------------------------
(***************************************************************************)
(* Theorems about HttpDownload, for every number of files, file size and   *)
(* number of invocations and every set of options: what is downloaded,     *)
(* that it is delivered as FileDelivery says, and that a batch runs out of *)
(* steps.                                                                  *)
(***************************************************************************)
EXTENDS HttpDownload, TLAPS, SequenceTheorems, FiniteSetTheorems

Trying == {"prepare", "request", "stream"}

\* What an attempt with a temporary file resumes is all that is there.
Seeded ==
    /\ remote <= run
    /\ \A f \in Files : opt.atomic /\ pc[f] \in Trying
                        => start[f] = 0 \/ start[f] = Len(local[f])

Typed == TypeOK /\ Seeded

\* The blocks from the first one on, each in its place.
Prefix(s) == Len(s) <= Size /\ \A i \in 1..Len(s) : s[i][1] = i

\* What an attempt writes.
Target(f) == IF opt.atomic THEN part[f] ELSE local[f]

\* What is there is a prefix, and an attempt continues exactly where it ends.
Shape(f) ==
    /\ Prefix(local[f]) /\ (~exists[f] => local[f] = <<>>)
    /\ pc[f] \in Trying => /\ start[f] < Size /\ (range[f] <=> start[f] # 0)
                           /\ (opt.atomic /\ start[f] # 0 => Len(local[f]) = start[f])
    /\ (pc[f] = "prepare" /\ start[f] # 0 => Len(local[f]) = start[f])
    /\ (pc[f] = "request" => Prefix(Target(f)) /\ Len(Target(f)) = start[f])
    /\ (pc[f] = "stream" => /\ Prefix(Target(f)) /\ Len(Target(f)) = next[f] - 1
                            /\ opt.atomic \/ exists[f])
    /\ pc[f] = "done" => Whole(f)

Shaped == Sound => \A f \in Files : Shape(f)

\* What has been reported is over, and a strict batch reports no failure and
\* goes on.
Reported ==
    /\ \A f \in Files :
          /\ result[f] = "ok" => pc[f] = "done"
          /\ result[f] = "failed" => pc[f] = "error"
          /\ opt.failOnError /\ result[f] = "failed" => phase \in {"raising", "raised"}
    /\ phase = "returned" => Settled
    /\ phase = "raised" => PoolIdle

IInv == Typed /\ Shaped /\ Reported

-----------------------------------------------------------------------------
(* Types.                                                                  *)

\* A flag of one file changes to a truth value.
LEMMA Flags ==
    ASSUME NEW s \in [Files -> BOOLEAN], NEW f \in Files, NEW b \in BOOLEAN
    PROVE  [s EXCEPT ![f] = b] \in [Files -> BOOLEAN]
OBVIOUS

\* A download that has something to resume knows it fits.
LEMMA SeedTypes ==
    ASSUME Typed, NEW f \in Files, opt.atomic, pc[f] = "prepare"
    PROVE  Seed(f) \in Seq(Block)
<1>1. local[f] \in Seq(Block) /\ start[f] \in 0..Len(local[f])
  BY DEF Typed, TypeOK, Seeded, Trying
<1>2. \A i \in 1..start[f] : local[f][i] \in Block
  BY <1>1
<1> QED  BY <1>1, <1>2, SubSeqProperties DEF Seed

\* A counter of one file goes up by one.
LEMMA Counts ==
    ASSUME NEW k \in Nat, NEW s \in [Files -> 1..(k + 1)], NEW f \in Files, s[f] <= k
    PROVE  [s EXCEPT ![f] = @ + 1] \in [Files -> 1..(k + 1)]
<1>1. s[f] + 1 \in 1..(k + 1)
  OBVIOUS
<1> QED  BY <1>1

\* Init assigns values of the right types.
LEMMA TypedInit == Init => Typed
<1> SUFFICES ASSUME Init PROVE Typed
  OBVIOUS
<1> USE HttpAssumption
<1>1. opt \in Options /\ run \in Runs /\ remote \in Runs /\ remote <= run
  BY DEF Init, Runs
<1>2. opt.maxRetries \in Nat /\ opt.retries \in Nat
  BY <1>1 DEF Options
<1>3. local \in [Files -> Seq(Block)] /\ part \in [Files -> Seq(Block)]
  <2>1. <<1, 1>> \in Block
    BY DEF Block, Runs
  <2>2. <<(<<1, 1>>)>> \in Seq(Block) /\ <<>> \in Seq(Block)
    BY <2>1
  <2> QED  BY <2>2 DEF Init
<1>4. Seeded
  BY DEF Init, Seeded, Trying
<1> QED  BY <1>1, <1>2, <1>3, <1>4 DEF Init, Typed, TypeOK, Active

\* The end of an attempt keeps the types.
LEMMA RetryTypes ==
    ASSUME Typed, NEW f \in Files, Retry(f), UNCHANGED opt
    PROVE  /\ pc' \in [Files -> Active \cup {"queued", "done", "error", "cancelled"}]
           /\ call' \in [Files -> 1..(opt'.maxRetries + 1)]
           /\ attempt' \in [Files -> 1..(opt'.retries + 1)]
           /\ part' \in [Files -> Seq(Block)]
<1>1. opt.maxRetries \in Nat /\ opt.retries \in Nat /\ <<>> \in Seq(Block)
  BY DEF Typed, TypeOK, Options
<1>2. part' \in [Files -> Seq(Block)]
  BY <1>1 DEF Retry, Typed, TypeOK
<1>3. \E p \in {"prepare", "decide", "error"} : pc' = [pc EXCEPT ![f] = p]
  BY DEF Retry, Goto
<1>4. pc' \in [Files -> Active \cup {"queued", "done", "error", "cancelled"}]
  BY <1>3 DEF Typed, TypeOK, Active
<1>5. CASE Another(f)
  <2>1. attempt' = [attempt EXCEPT ![f] = @ + 1] /\ call' = call
    BY <1>5 DEF Retry
  <2>2. attempt' \in [Files -> 1..(opt.retries + 1)] /\ call' = call
    BY <1>1, <1>5, <2>1, Counts DEF Another, Typed, TypeOK
  <2> QED  BY <1>2, <1>4, <2>2 DEF Typed, TypeOK
<1>6. CASE ~Another(f)
  <2>1. attempt' = attempt
    BY <1>6 DEF Retry
  <2>2. call' \in [Files -> 1..(opt.maxRetries + 1)]
    <3>1. CASE call[f] <= opt.maxRetries
      <4>1. call' = [call EXCEPT ![f] = @ + 1]
        BY <1>6, <3>1 DEF Retry
      <4> QED  BY <1>1, <3>1, <4>1, Counts DEF Typed, TypeOK
    <3>2. CASE ~(call[f] <= opt.maxRetries)
      BY <1>6, <3>2 DEF Retry, Typed, TypeOK
    <3> QED  BY <3>1, <3>2
  <2> QED  BY <1>2, <1>4, <2>1, <2>2 DEF Typed, TypeOK
<1> QED  BY <1>5, <1>6

\* Every step keeps the types.
LEMMA TypedStep == Typed /\ [Next]_vars => Typed'
<1> SUFFICES ASSUME Typed, [Next]_vars PROVE Typed'
  OBVIOUS
<1> USE HttpAssumption
<1>0. /\ opt \in Options /\ opt.maxRetries \in Nat /\ opt.retries \in Nat
      /\ <<>> \in Seq(Block)
  BY DEF Typed, TypeOK, Options
<1>1. CASE UNCHANGED vars
  BY <1>1 DEF vars, Typed, TypeOK, Seeded
<1>2. ASSUME NEW f \in Files, Begin(f) PROVE Typed'
  BY <1>2 DEF Begin, Goto, batch, request, disk, Typed, TypeOK, Seeded, Trying, Active
<1>3. ASSUME NEW f \in Files, Decide(f) PROVE Typed'
  <2>1. PICK known \in BOOLEAN :
          IF known /\ opt.resume /\ exists[f] /\ Len(local[f]) = Size
          THEN Goto(f, "done") /\ UNCHANGED <<request, attempt>>
          ELSE /\ Goto(f, "prepare") /\ attempt' = [attempt EXCEPT ![f] = 1]
               /\ range' = [range EXCEPT ![f] = known /\ Resumable(f)]
               /\ start' = [start EXCEPT ![f] = IF known /\ Resumable(f)
                                               THEN Len(local[f]) ELSE 0]
    BY <1>3 DEF Decide
  <2>2. CASE known /\ opt.resume /\ exists[f] /\ Len(local[f]) = Size
    BY <1>3, <2>1, <2>2 DEF Decide, Goto, batch, request, disk, Typed, TypeOK, Seeded,
                            Trying, Active
  <2>3. CASE ~(known /\ opt.resume /\ exists[f] /\ Len(local[f]) = Size)
    <3>1. /\ start' \in [Files -> 0..Size] /\ range' \in [Files -> BOOLEAN]
          /\ attempt' \in [Files -> 1..(opt.retries + 1)]
      <4>1. attempt' = [attempt EXCEPT ![f] = 1]
        BY <2>1, <2>3
      <4>2. attempt' \in [Files -> 1..(opt.retries + 1)]
        BY <1>0, <4>1 DEF Typed, TypeOK
      <4>3. range \in [Files -> BOOLEAN] /\ start \in [Files -> 0..Size]
        BY DEF Typed, TypeOK
      <4>4. CASE known /\ Resumable(f)
        <5>1. (known /\ Resumable(f)) = TRUE
          BY <4>4, Zenon
        <5>2. range' = [range EXCEPT ![f] = TRUE]
          BY <2>1, <2>3, <5>1, Zenon
        <5>3. start' = [start EXCEPT ![f] = Len(local[f])]
          BY <2>1, <2>3, <4>4
        <5>4. Len(local[f]) \in 0..Size
          BY <4>4 DEF Resumable
        <5>5. range' \in [Files -> BOOLEAN]
          BY <4>3, <5>2
        <5> QED  BY <4>2, <4>3, <5>3, <5>4, <5>5
      <4>5. CASE ~(known /\ Resumable(f))
        <5>1. (known /\ Resumable(f)) = FALSE
          BY <4>5, Zenon
        <5>2. range' = [range EXCEPT ![f] = FALSE]
          BY <2>1, <2>3, <5>1, Zenon
        <5>3. start' = [start EXCEPT ![f] = 0]
          BY <2>1, <2>3, <4>5
        <5>4. range' \in [Files -> BOOLEAN]
          BY <4>3, <5>2
        <5>5. 0 \in 0..Size
          OBVIOUS
        <5>6. start' \in [Files -> 0..Size]
          BY <4>3, <5>3, <5>5
        <5> QED  BY <4>2, <5>4, <5>6
      <4> QED  BY <4>4, <4>5
    <3>2. Seeded'
      BY <1>3, <2>1, <2>3 DEF Decide, Goto, batch, disk, Typed, TypeOK, Seeded, Trying
    <3> QED  BY <1>3, <2>1, <2>3, <3>1, <3>2 DEF Decide, Goto, batch, disk, Typed, TypeOK,
                                                 Active
  <2> QED  BY <2>2, <2>3
<1>4. ASSUME NEW f \in Files, Prepare(f) PROVE Typed'
  <2>1. part' \in [Files -> Seq(Block)]
    BY <1>0, <1>4, SeedTypes DEF Prepare, Typed, TypeOK
  <2>2. local' \in [Files -> Seq(Block)] /\ exists' \in [Files -> BOOLEAN]
    <3>1. local \in [Files -> Seq(Block)] /\ exists \in [Files -> BOOLEAN]
      BY DEF Typed, TypeOK
    <3>2. \/ /\ local' = [local EXCEPT ![f] = <<>>]
             /\ exists' = [exists EXCEPT ![f] = FALSE]
          \/ local' = local /\ exists' = exists
      BY <1>4 DEF Prepare, disk
    <3> QED  BY <1>0, <3>1, <3>2
  <2>3. Seeded'
    BY <1>4 DEF Prepare, Removes, Goto, batch, request, disk, Typed, TypeOK, Seeded, Trying
  <2> QED  BY <1>4, <2>1, <2>2, <2>3 DEF Prepare, Goto, batch, request, Typed, TypeOK,
                                         Active
<1>5. ASSUME NEW f \in Files, Respond(f) PROVE Typed'
  <2>1. next' \in [Files -> 1..(Size + 1)]
    BY <1>5 DEF Respond, Typed, TypeOK
  <2>2. exists' \in [Files -> BOOLEAN]
    <3>1. (exists[f] \/ ~opt.atomic) \in BOOLEAN
      OBVIOUS
    <3> QED  BY <1>5, <3>1 DEF Respond, Typed, TypeOK
  <2> QED  BY <1>5, <2>1, <2>2 DEF Respond, Goto, batch, request, Typed, TypeOK, Seeded,
                                   Trying, Active
<1>6. ASSUME NEW f \in Files, Receive(f) PROVE Typed'
  <2>1. next[f] \in 1..Size /\ remote \in Runs
    BY <1>6 DEF Receive, Typed, TypeOK
  <2>2. <<next[f], remote>> \in Block
    BY <2>1 DEF Block
  <2>3. local' \in [Files -> Seq(Block)] /\ part' \in [Files -> Seq(Block)]
    <3>1. local \in [Files -> Seq(Block)] /\ part \in [Files -> Seq(Block)]
      BY DEF Typed, TypeOK
    <3>2. /\ Append(local[f], <<next[f], remote>>) \in Seq(Block)
          /\ Append(part[f], <<next[f], remote>>) \in Seq(Block)
      BY <2>2, <3>1
    <3> QED  BY <1>6, <3>1, <3>2 DEF Receive
  <2>4. next' \in [Files -> 1..(Size + 1)]
    <3>1. next' = [next EXCEPT ![f] = @ + 1] /\ next[f] + 1 \in 1..(Size + 1)
      BY <1>6, <2>1 DEF Receive
    <3> QED  BY <3>1 DEF Typed, TypeOK
  <2>5. Seeded'
    BY <1>6 DEF Receive, batch, request, Typed, TypeOK, Seeded
  <2> QED  BY <1>6, <2>3, <2>4, <2>5 DEF Receive, batch, request, Typed, TypeOK
<1>7. ASSUME NEW f \in Files, Complete(f) PROVE Typed'
  <2>1. /\ local' \in [Files -> Seq(Block)] /\ part' \in [Files -> Seq(Block)]
        /\ exists' \in [Files -> BOOLEAN]
    <3>1. /\ local \in [Files -> Seq(Block)] /\ part \in [Files -> Seq(Block)]
          /\ exists \in [Files -> BOOLEAN]
      BY DEF Typed, TypeOK
    <3>2. part[f] \in Seq(Block)
      BY <3>1
    <3> QED  BY <1>0, <1>7, <3>1, <3>2 DEF Complete, disk
  <2>2. Seeded'
    <3>1. \A g \in Files : pc'[g] \in Trying => g # f /\ pc[g] \in Trying
      BY <1>7 DEF Complete, Goto, Typed, TypeOK, Trying
    <3>2. \A g \in Files : g # f => local'[g] = local[g]
      BY <1>7 DEF Complete, disk, Typed, TypeOK
    <3> QED  BY <1>7, <3>1, <3>2 DEF Complete, batch, request, Typed, Seeded
  <2> QED  BY <1>7, <2>1, <2>2 DEF Complete, Goto, batch, request, Typed, TypeOK, Active
<1>8. ASSUME NEW f \in Files, Break(f) PROVE Typed'
  <2>1. Seeded'
    BY <1>8 DEF Break, Retry, Goto, batch, request, disk, Typed, TypeOK, Seeded, Trying
  <2> QED  BY <1>8, <2>1, RetryTypes DEF Break, batch, request, disk, Typed, TypeOK
<1>9. ASSUME NEW f \in Files, RangeIgnored(f) PROVE Typed'
  <2>1. Seeded'
    BY <1>9 DEF RangeIgnored, Retry, Goto, batch, disk, Typed, TypeOK, Seeded, Trying
  <2>2. start' \in [Files -> 0..Size] /\ range' \in [Files -> BOOLEAN]
    BY <1>9 DEF RangeIgnored, Typed, TypeOK
  <2> QED  BY <1>9, <2>1, <2>2, RetryTypes DEF RangeIgnored, batch, disk, Typed, TypeOK
<1>10. ASSUME NEW f \in Files, Collect(f) PROVE Typed'
  <2>1. result' \in [Files -> {"none", "ok", "failed"}]
    BY <1>10 DEF Collect, Typed, TypeOK
  <2>2. /\ phase' \in {"batch", "raising"}
        /\ pc' \in [Files -> Active \cup {"queued", "done", "error", "cancelled"}]
        /\ \A g \in Files : pc'[g] \in Trying => pc'[g] = pc[g]
    <3>1. CASE Fatal(f)
      <4>1. /\ phase' = "raising"
            /\ pc' = [e \in Files |-> IF opt.workers > 1 /\ pc[e] = "queued"
                                      THEN "cancelled" ELSE pc[e]]
        BY <1>10, <3>1 DEF Collect
      <4>2. pc \in [Files -> Active \cup {"queued", "done", "error", "cancelled"}]
        BY DEF Typed, TypeOK
      <4>3. \A g \in Files : pc'[g] \in {pc[g], "cancelled"}
        BY <4>1
      <4> QED  BY <4>1, <4>2, <4>3 DEF Trying
    <3>2. CASE ~Fatal(f)
      BY <1>10, <3>2 DEF Collect, Typed, TypeOK
    <3> QED  BY <3>1, <3>2
  <2>3. Seeded'
    BY <1>10, <2>2 DEF Collect, batch, request, disk, Typed, Seeded
  <2> QED  BY <1>10, <2>1, <2>2, <2>3 DEF Collect, batch, request, disk, Typed, TypeOK
<1>11. CASE Return
  BY <1>11 DEF Return, batch, request, disk, Typed, TypeOK, Seeded
<1>12. CASE Raise
  BY <1>12 DEF Raise, batch, request, disk, Typed, TypeOK, Seeded
<1>13. CASE Rerun
  <2>1. run' \in Runs /\ remote' \in Runs /\ remote' <= run'
    BY <1>13 DEF Rerun, Typed, TypeOK, Seeded, Runs
  <2>2. Seeded'
    <3>1. remote' <= run' /\ \A g \in Files : pc'[g] \notin Trying
      BY <1>13, <2>1 DEF Rerun, Trying
    <3> QED  BY <3>1 DEF Seeded
  <2>3. 0 \in 0..Size /\ 1 \in 1..(Size + 1) /\ 1 \in 1..(opt.maxRetries + 1)
        /\ 1 \in 1..(opt.retries + 1)
    BY <1>0, HttpAssumption DEF HttpAssumption
  <2> QED  BY <1>0, <1>13, <2>1, <2>2, <2>3 DEF Rerun, disk, Typed, TypeOK
<1> QED  BY <1>1, <1>2, <1>3, <1>4, <1>5, <1>6, <1>7, <1>8, <1>9, <1>10, <1>11, <1>12,
            <1>13 DEF Next, Manage, Task

\* The variables have their types: a download never receives beyond the end of
\* the file nor counts beyond its retries.
THEOREM TypeCorrect == Spec => []TypeOK
<1>1. Typed => TypeOK
  BY DEF Typed
<1> QED  BY <1>1, TypedInit, TypedStep, PTL DEF Spec

-----------------------------------------------------------------------------
(* What is there.                                                          *)

\* A task touches nothing of the other files.
LEMMA TaskLocal ==
    ASSUME Typed, NEW f \in Files, Task(f), NEW g \in Files, g # f
    PROVE  /\ pc'[g] = pc[g] /\ start'[g] = start[g] /\ range'[g] = range[g]
           /\ next'[g] = next[g] /\ exists'[g] = exists[g]
           /\ local'[g] = local[g] /\ part'[g] = part[g]
<1>1. ASSUME Retry(f) PROVE pc'[g] = pc[g] /\ part'[g] = part[g]
  BY <1>1 DEF Retry, Goto, Typed, TypeOK
<1>2. CASE Begin(f)
  BY <1>2 DEF Begin, Goto, request, disk, Typed, TypeOK
<1>3. CASE Decide(f)
  BY <1>3 DEF Decide, Goto, request, disk, Typed, TypeOK
<1>4. CASE Prepare(f)
  BY <1>4 DEF Prepare, Goto, request, disk, Typed, TypeOK
<1>5. CASE Respond(f)
  BY <1>5 DEF Respond, Goto, request, Typed, TypeOK
<1>6. CASE Receive(f)
  BY <1>6 DEF Receive, request, Typed, TypeOK
<1>7. CASE Complete(f)
  BY <1>7 DEF Complete, Goto, request, disk, Typed, TypeOK
<1>8. CASE Break(f)
  BY <1>1, <1>8 DEF Break, request, disk
<1>9. CASE RangeIgnored(f)
  BY <1>1, <1>9 DEF RangeIgnored, disk, Typed, TypeOK
<1> QED  BY <1>2, <1>3, <1>4, <1>5, <1>6, <1>7, <1>8, <1>9 DEF Task

\* A task and the manager keep the options.
LEMMA OptKept == Next => opt' = opt
BY DEF Next, Manage, Task, Begin, Decide, Prepare, Respond, Receive, Complete, Break,
       RangeIgnored, Collect, Return, Raise, Rerun, batch

\* A file whose task does nothing keeps its shape.
LEMMA Frame ==
    ASSUME NEW g \in Files, Shape(g), opt' = opt, pc'[g] = pc[g], start'[g] = start[g],
           range'[g] = range[g], next'[g] = next[g], exists'[g] = exists[g],
           local'[g] = local[g], part'[g] = part[g]
    PROVE  Shape(g)'
BY DEF Shape, Prefix, Target, Whole

\* A file whose task is not at a download keeps what is there.
LEMMA Idle ==
    ASSUME NEW g \in Files, Shape(g), exists'[g] = exists[g], local'[g] = local[g],
           pc'[g] \in {"queued", "decide", "error", "cancelled"}
    PROVE  Shape(g)'
BY DEF Shape, Prefix, Trying

\* One more block, in its place.
LEMMA AppendPrefix ==
    ASSUME NEW s \in Seq(Block), Prefix(s), NEW v, Len(s) < Size,
           <<Len(s) + 1, v>> \in Block,
           NEW t, t = Append(s, <<Len(s) + 1, v>>)
    PROVE  Prefix(t) /\ Len(t) = Len(s) + 1
<1>1. Len(t) = Len(s) + 1 /\ Len(t) <= Size
  BY HttpAssumption
<1>2. ASSUME NEW i \in 1..Len(t) PROVE t[i][1] = i
  <2>1. CASE i = Len(s) + 1
    BY <2>1
  <2>2. CASE i # Len(s) + 1
    <3>1. i \in 1..Len(s) /\ t[i] = s[i]
      BY <1>1, <2>2
    <3> QED  BY <3>1 DEF Prefix
  <2> QED  BY <2>1, <2>2
<1> QED  BY <1>1, <1>2 DEF Prefix

\* The end of an attempt leaves the file as the next one expects it.
LEMMA RetryShape ==
    ASSUME Typed, Sound, NEW f \in Files, Shape(f), pc[f] \in {"request", "stream"},
           Retry(f), UNCHANGED <<opt, disk>>,
           \/ UNCHANGED request
           \/ range'[f] = FALSE /\ start'[f] = 0
    PROVE  Shape(f)'
<1> USE HttpAssumption
<1>1. CASE Another(f)
  <2>1. opt.atomic
    BY <1>1 DEF Another, Sound, Typed, TypeOK, Options
  <2>2. pc'[f] = "prepare" /\ opt' = opt /\ exists' = exists /\ local' = local
    BY <1>1 DEF Retry, Goto, disk, Typed, TypeOK
  <2>3. start'[f] # 0 => start'[f] = start[f] /\ range'[f] = range[f]
    BY DEF request
  <2>4. start[f] < Size /\ (range[f] <=> start[f] # 0) /\ (start[f] # 0 => Len(local[f]) = start[f])
    BY <2>1 DEF Shape, Trying
  <2>5. start'[f] < Size /\ (range'[f] <=> start'[f] # 0)
    BY <2>3, <2>4 DEF request, Typed, TypeOK
  <2> QED  BY <2>1, <2>2, <2>3, <2>4, <2>5 DEF Shape, Prefix, Trying
<1>2. CASE ~Another(f)
  <2>1. pc'[f] \in {"decide", "error"}
    BY <1>2 DEF Retry, Goto, Typed, TypeOK
  <2> QED  BY <2>1, Idle DEF disk
<1> QED  BY <1>1, <1>2

\* What a task does to its own file.
LEMMA TaskShape ==
    ASSUME Typed, Typed', Sound, NEW f \in Files, Shape(f), Task(f)
    PROVE  Shape(f)'
<1> USE HttpAssumption
<1>1. CASE Begin(f)
  <2>1. pc'[f] = "decide"
    BY <1>1 DEF Begin, Goto, Typed, TypeOK
  <2> QED  BY <1>1, <2>1, Idle DEF Begin, disk
<1>2. CASE Decide(f)
  <2>1. local' = local /\ exists' = exists /\ opt' = opt
    BY <1>2 DEF Decide, disk, batch
  <2>2. PICK known \in BOOLEAN :
          IF known /\ opt.resume /\ exists[f] /\ Len(local[f]) = Size
          THEN Goto(f, "done") /\ UNCHANGED <<request, attempt>>
          ELSE /\ Goto(f, "prepare") /\ attempt' = [attempt EXCEPT ![f] = 1]
               /\ range' = [range EXCEPT ![f] = known /\ Resumable(f)]
               /\ start' = [start EXCEPT ![f] = IF known /\ Resumable(f)
                                               THEN Len(local[f]) ELSE 0]
    BY <1>2 DEF Decide
  <2>3. CASE known /\ opt.resume /\ exists[f] /\ Len(local[f]) = Size
    <3>1. pc'[f] = "done"
      BY <2>2, <2>3 DEF Goto, Typed, TypeOK
    <3> QED  BY <2>1, <2>3, <3>1 DEF Shape, Prefix, Whole, Trying
  <2>4. CASE ~(known /\ opt.resume /\ exists[f] /\ Len(local[f]) = Size)
    <3>1. pc'[f] = "prepare"
      BY <2>2, <2>4 DEF Goto, Typed, TypeOK
    <3>2. CASE known /\ Resumable(f)
      <4>1. start'[f] = Len(local[f]) /\ range'[f]
        BY <2>2, <2>4, <3>2 DEF Typed, TypeOK
      <4>2. start'[f] < Size /\ start'[f] # 0
        BY <3>2, <4>1 DEF Resumable
      <4> QED  BY <2>1, <3>1, <4>1, <4>2 DEF Shape, Prefix, Trying
    <3>3. CASE ~(known /\ Resumable(f))
      <4>1. start'[f] = 0 /\ ~range'[f]
        BY <2>2, <2>4, <3>3 DEF Typed, TypeOK
      <4> QED  BY <2>1, <3>1, <4>1 DEF Shape, Prefix, Trying
    <3> QED  BY <3>2, <3>3
  <2> QED  BY <2>3, <2>4
<1>3. CASE Prepare(f)
  <2>1. /\ pc[f] = "prepare" /\ pc'[f] = "request" /\ opt' = opt
        /\ start' = start /\ range' = range
    BY <1>3 DEF Prepare, Goto, batch, request, Typed, TypeOK
  <2>2. /\ Prefix(local[f]) /\ start[f] < Size /\ (range[f] <=> start[f] # 0)
        /\ (start[f] # 0 => Len(local[f]) = start[f]) /\ (~exists[f] => local[f] = <<>>)
    BY <2>1 DEF Shape, Trying
  <2>3. Prefix(<<>>)
    BY DEF Prefix
  <2>4. CASE opt.atomic
    <3>1. local' = local /\ exists' = exists /\ part'[f] = SubSeq(local[f], 1, start[f])
      BY <1>3, <2>4 DEF Prepare, Removes, Seed, disk, Typed, TypeOK
    <3>2. Len(part'[f]) = start[f] /\ Prefix(part'[f])
      <4>1. CASE start[f] = 0
        <5>1. part'[f] = <<>>
          BY <3>1, <4>1, SubSeqEmpty
        <5> QED  BY <2>3, <4>1, <5>1
      <4>2. CASE start[f] # 0
        <5>1. local[f] \in Seq(Block)
          BY DEF Typed, TypeOK
        <5>2. part'[f] = local[f]
          BY <2>2, <3>1, <4>2, <5>1, SubSeqFull
        <5> QED  BY <2>2, <4>2, <5>2
      <4> QED  BY <4>1, <4>2
    <3> QED  BY <2>1, <2>2, <2>4, <3>1, <3>2 DEF Shape, Prefix, Target, Trying
  <2>5. CASE ~opt.atomic
    <3>1. CASE start[f] = 0
      <4>1. exists'[f] = FALSE /\ local'[f] = <<>>
        BY <1>3, <2>5, <3>1 DEF Prepare, Removes, Typed, TypeOK
      <4> QED  BY <2>1, <2>2, <2>3, <2>5, <3>1, <4>1 DEF Shape, Prefix, Target, Trying
    <3>2. CASE start[f] # 0
      <4>1. exists' = exists /\ local' = local
        BY <1>3, <3>2 DEF Prepare, Removes, disk
      <4> QED  BY <2>1, <2>2, <2>5, <3>2, <4>1 DEF Shape, Prefix, Target, Trying
    <3> QED  BY <3>1, <3>2
  <2> QED  BY <2>4, <2>5
<1>4. CASE Respond(f)
  <2>1. /\ pc[f] = "request" /\ pc'[f] = "stream" /\ opt' = opt
        /\ start' = start /\ range' = range /\ local' = local /\ part' = part
        /\ next'[f] = IF range[f] THEN start[f] + 1 ELSE 1
    BY <1>4 DEF Respond, Goto, batch, request, Typed, TypeOK
  <2>2. exists'[f] <=> exists[f] \/ ~opt.atomic
    BY <1>4 DEF Respond, Typed, TypeOK
  <2>3. start[f] \in 0..Size /\ (range[f] <=> start[f] # 0) /\ Len(Target(f)) = start[f]
    BY <2>1 DEF Shape, Trying, Typed, TypeOK
  <2>4. Len(Target(f)') = next'[f] - 1
    BY <2>1, <2>3 DEF Target
  <2> QED  BY <2>1, <2>2, <2>3, <2>4 DEF Shape, Prefix, Target, Trying
<1>5. CASE Receive(f)
  <2>1. /\ pc[f] = "stream" /\ pc' = pc /\ opt' = opt /\ start' = start /\ range' = range
        /\ exists' = exists /\ next[f] \in 1..Size /\ next'[f] = next[f] + 1
    BY <1>5 DEF Receive, batch, request, Typed, TypeOK
  <2>2. /\ Prefix(local[f]) /\ Prefix(Target(f)) /\ Len(Target(f)) = next[f] - 1
        /\ (opt.atomic \/ exists[f])
    BY <2>1 DEF Shape
  <2>3. local[f] \in Seq(Block) /\ part[f] \in Seq(Block) /\ Target(f) \in Seq(Block)
    BY DEF Typed, TypeOK, Target
  <2>4. Target(f)' = Append(Target(f), <<next[f], remote>>)
    BY <1>5 DEF Receive, Target, batch, Typed, TypeOK
  <2>5. <<next[f], remote>> \in Block /\ next[f] = Len(Target(f)) + 1
    BY <2>1, <2>2, <2>3 DEF Block, Typed, TypeOK
  <2>6. Prefix(Target(f)') /\ Len(Target(f)') = next[f]
    <3>1. Len(Target(f)) < Size
      BY <2>1, <2>5
    <3>2. Target(f)' = Append(Target(f), <<Len(Target(f)) + 1, remote>>)
      BY <2>4, <2>5
    <3>3. <<Len(Target(f)) + 1, remote>> \in Block
      BY <2>5
    <3>4. Prefix(Target(f)') /\ Len(Target(f)') = Len(Target(f)) + 1
      BY <2>2, <2>3, <3>1, <3>2, <3>3, AppendPrefix
    <3> QED  BY <2>5, <3>4
  <2>7. CASE opt.atomic
    <3>1. local' = local
      BY <1>5, <2>7 DEF Receive
    <3> QED  BY <2>1, <2>2, <2>6, <2>7, <3>1 DEF Shape, Prefix, Trying
  <2>8. CASE ~opt.atomic
    <3>1. local'[f] = Target(f)'
      BY <2>1, <2>8 DEF Target
    <3> QED  BY <2>1, <2>2, <2>6, <2>8, <3>1 DEF Shape, Prefix, Trying
  <2> QED  BY <2>7, <2>8
<1>6. CASE Complete(f)
  <2>1. /\ pc[f] = "stream" /\ pc'[f] = "done" /\ opt' = opt /\ next[f] = Size + 1
    BY <1>6 DEF Complete, Ended, Sound, Goto, batch, Typed, TypeOK
  <2>2. Prefix(Target(f)) /\ Len(Target(f)) = Size /\ (opt.atomic \/ exists[f])
    BY <2>1 DEF Shape
  <2>3. local'[f] = Target(f) /\ exists'[f]
    BY <1>6, <2>2 DEF Complete, Target, disk, Typed, TypeOK
  <2> QED  BY <2>1, <2>2, <2>3 DEF Shape, Prefix, Whole, Trying
<1>7. CASE Break(f)
  BY <1>7, RetryShape DEF Break, batch
<1>8. CASE RangeIgnored(f)
  <2>1. range'[f] = FALSE /\ start'[f] = 0
    BY <1>8 DEF RangeIgnored, Typed, TypeOK
  <2> QED  BY <1>8, <2>1, RetryShape DEF RangeIgnored, batch
<1> QED  BY <1>1, <1>2, <1>3, <1>4, <1>5, <1>6, <1>7, <1>8 DEF Task

\* Every step keeps what is there in shape.
LEMMA ShapedStep == Typed /\ Typed' /\ Shaped /\ [Next]_vars => Shaped'
<1> SUFFICES ASSUME Typed, Typed', Shaped, [Next]_vars, Sound', NEW g \in Files
             PROVE  Shape(g)'
  BY DEF Shaped
<1>1. Sound /\ Shape(g)
  <2>1. opt' = opt
    BY OptKept DEF vars
  <2> QED  BY <2>1 DEF Sound, Shaped
<1>2. CASE UNCHANGED vars
  BY <1>1, <1>2, Frame DEF vars
<1>3. ASSUME NEW f \in Files, Task(f) PROVE Shape(g)'
  <2>1. opt' = opt
    BY <1>3, OptKept DEF Next
  <2>2. CASE g = f
    BY <1>1, <1>3, <2>2, TaskShape
  <2>3. CASE g # f
    BY <1>1, <1>3, <2>1, <2>3, TaskLocal, Frame
  <2> QED  BY <2>2, <2>3
<1>4. ASSUME NEW f \in Files, Collect(f) PROVE Shape(g)'
  <2>1. opt' = opt /\ exists' = exists /\ local' = local /\ part' = part
        /\ start' = start /\ range' = range /\ next' = next
    BY <1>4 DEF Collect, batch, request, disk
  <2>2. pc'[g] \in {pc[g], "cancelled"}
    <3>1. CASE Fatal(f)
      <4>1. pc' = [e \in Files |-> IF opt.workers > 1 /\ pc[e] = "queued"
                                   THEN "cancelled" ELSE pc[e]]
        BY <1>4, <3>1 DEF Collect
      <4> QED  BY <4>1
    <3>2. CASE ~Fatal(f)
      BY <1>4, <3>2 DEF Collect
    <3> QED  BY <3>1, <3>2
  <2>3. CASE pc'[g] = pc[g]
    <3>1. exists'[g] = exists[g] /\ local'[g] = local[g] /\ part'[g] = part[g]
          /\ start'[g] = start[g] /\ range'[g] = range[g] /\ next'[g] = next[g]
      BY <2>1
    <3> QED  BY <1>1, <2>1, <2>3, <3>1, Frame
  <2>4. CASE pc'[g] = "cancelled"
    BY <1>1, <2>1, <2>4, Idle
  <2> QED  BY <2>2, <2>3, <2>4
<1>5. CASE Return
  <2>1. opt' = opt /\ exists' = exists /\ local' = local /\ part' = part /\ pc' = pc
        /\ start' = start /\ range' = range /\ next' = next
    BY <1>5 DEF Return, batch, request, disk
  <2> QED  BY <1>1, <2>1, Frame
<1>6. CASE Raise
  <2>1. opt' = opt /\ exists' = exists /\ local' = local /\ part' = part /\ pc' = pc
        /\ start' = start /\ range' = range /\ next' = next
    BY <1>6 DEF Raise, batch, request, disk
  <2> QED  BY <1>1, <2>1, Frame
<1>7. CASE Rerun
  BY <1>1, <1>7, Idle DEF Rerun, disk
<1> QED  BY <1>2, <1>3, <1>4, <1>5, <1>6, <1>7 DEF Next, Manage

\* A batch begins with prefixes.
LEMMA ShapedInit == Init => Shaped
<1> SUFFICES ASSUME Init, NEW f \in Files PROVE Shape(f)
  BY DEF Shaped
<1>1. Len(local[f]) <= 1 /\ (Len(local[f]) = 1 => local[f] = <<(<<1, 1>>)>>)
      /\ (~exists[f] => local[f] = <<>>)
  BY DEF Init
<1>2. Prefix(local[f])
  BY <1>1, HttpAssumption DEF Init, Prefix
<1> QED  BY <1>1, <1>2 DEF Init, Shape, Trying

-----------------------------------------------------------------------------
(* What is reported.                                                       *)

\* A task begins while the batch runs, is over once it is done or has failed,
\* and reports nothing itself.
LEMMA TaskQuiet ==
    ASSUME Typed, NEW f \in Files, Task(f)
    PROVE  /\ pc[f] \in Active \cup {"queued"} /\ (pc[f] = "queued" => phase = "batch")
           /\ opt' = opt /\ phase' = phase /\ result' = result
BY DEF Task, Begin, Decide, Prepare, Respond, Receive, Complete, Break, RangeIgnored,
       batch, Active

\* Nothing is reported in the beginning.
LEMMA ReportedInit == Init => Reported
BY DEF Init, Reported

\* Every step keeps the reports right.
LEMMA ReportedStep == Typed /\ Reported /\ [Next]_vars => Reported'
<1> SUFFICES ASSUME Typed, Reported, [Next]_vars PROVE Reported'
  OBVIOUS
<1>1. CASE UNCHANGED vars
  BY <1>1 DEF vars, Reported, Settled, PoolIdle, Busy
<1>2. ASSUME NEW f \in Files, Task(f) PROVE Reported'
  <2>1. /\ pc[f] \in Active \cup {"queued"} /\ (pc[f] = "queued" => phase = "batch")
        /\ opt' = opt /\ phase' = phase /\ result' = result
    BY <1>2, TaskQuiet
  <2>2. \A g \in Files : g # f => pc'[g] = pc[g]
    BY <1>2, TaskLocal
  <2>3. pc[f] # "done" /\ pc[f] # "error"
    BY <2>1 DEF Active
  <2>4. phase # "raised"
    BY <2>1 DEF Reported, PoolIdle, Busy
  <2> QED  BY <2>1, <2>2, <2>3, <2>4 DEF Reported, Settled, Typed, TypeOK
<1>3. ASSUME NEW f \in Files, Collect(f) PROVE Reported'
  <2>1. opt' = opt /\ phase = "batch" /\ phase' \in {"batch", "raising"}
        /\ pc[f] \in {"done", "error"} /\ (opt.failOnError /\ pc[f] = "error" => phase' = "raising")
    BY <1>3 DEF Collect, Fatal, batch
  <2>2. \A g \in Files : pc[g] \in {"done", "error"} => pc'[g] = pc[g]
    BY <1>3 DEF Collect, Typed, TypeOK
  <2>3. /\ result'[f] = IF pc[f] = "done" THEN "ok" ELSE "failed"
        /\ \A g \in Files : g # f => result'[g] = result[g]
    BY <1>3, <2>1 DEF Collect, Fatal, Typed, TypeOK
  <2> QED  BY <2>1, <2>2, <2>3 DEF Reported
<1>4. CASE Return
  BY <1>4 DEF Return, batch, Reported, Settled
<1>5. CASE Raise
  BY <1>5 DEF Raise, batch, Reported, PoolIdle, Busy
<1>6. CASE Rerun
  BY <1>6 DEF Rerun, Reported
<1> QED  BY <1>1, <1>2, <1>3, <1>4, <1>5, <1>6 DEF Next, Manage

-----------------------------------------------------------------------------
(* The theorems.                                                           *)

\* The invariant holds throughout.
LEMMA Invariant == Spec => []IInv
<1>1. Init => IInv
  BY TypedInit, ShapedInit, ReportedInit DEF IInv
<1>2. IInv /\ [Next]_vars => IInv'
  BY TypedStep, ShapedStep, ReportedStep DEF IInv
<1> QED  BY <1>1, <1>2, PTL DEF Spec

\* "Correct resume support": whatever was there, however requests break, are
\* ignored or retried and whenever the process is killed, a download_file that
\* returns has left the whole file.  The condition Sound excludes appending
\* with retries, and responses that end early.
THEOREM CorrectDownload == Spec => []Correct
<1>1. IInv => Correct
  BY DEF IInv, Shaped, Shape, Correct
<1> QED  BY <1>1, Invariant, PTL

\* With fail_on_error download_files returns only when every file is there.
THEOREM StrictBatch == Spec => []Strict
<1>1. IInv => Strict
  <2> SUFFICES ASSUME IInv, Sound, phase = "returned", opt.failOnError, NEW f \in Files
               PROVE  Whole(f)
    BY DEF Strict
  <2>1. result[f] = "ok"
    BY DEF IInv, Typed, TypeOK, Reported, Settled
  <2>2. pc[f] = "done"
    BY <2>1 DEF IInv, Reported
  <2> QED  BY <2>2 DEF IInv, Shaped, Shape
<1> QED  BY <1>1, Invariant, PTL

\* No thread of the pool goes on writing once download_files has returned or
\* raised.
THEOREM Quiet == Spec => []NoneLeftRunning
<1>1. IInv => NoneLeftRunning
  <2>1. ASSUME IInv, phase = "returned" PROVE Busy = {}
    <3>1. \A f \in Files : result[f] \in {"ok", "failed"}
      BY <2>1 DEF IInv, Typed, TypeOK, Reported, Settled
    <3>2. \A f \in Files : pc[f] \in {"done", "error"}
      BY <2>1, <3>1 DEF IInv, Reported
    <3> QED  BY <3>2 DEF Busy, Active
  <2>2. ASSUME IInv, phase = "raised" PROVE Busy = {}
    BY <2>2 DEF IInv, Reported, PoolIdle
  <2> QED  BY <2>1, <2>2 DEF NoneLeftRunning
<1> QED  BY <1>1, Invariant, PTL

-----------------------------------------------------------------------------
(* Versions.                                                               *)

\* A download from the first block has received the present version only.
Present ==
    Sound => \A f \in Files : pc[f] = "stream" /\ start[f] = 0
               => \A i \in 1..Len(Target(f)) : Target(f)[i] = <<i, remote>>

\* A task does not change the datastore.
LEMMA TaskRemote == ASSUME NEW f \in Files, Task(f) PROVE remote' = remote
BY DEF Task, Begin, Decide, Prepare, Respond, Receive, Complete, Break, RangeIgnored, batch

\* Every step keeps what is received of one version.
LEMMA PresentStep == IInv /\ IInv' /\ Present /\ [Next]_vars => Present'
<1> SUFFICES ASSUME IInv, IInv', Present, [Next]_vars, Sound', NEW g \in Files,
                    pc'[g] = "stream", start'[g] = 0
             PROVE  \A i \in 1..Len(Target(g)') : Target(g)'[i] = <<i, remote'>>
  BY DEF Present, Target
<1>0. opt' = opt /\ Sound /\ Shape(g) /\ Typed
  <2>1. opt' = opt
    BY OptKept DEF vars
  <2> QED  BY <2>1 DEF Sound, IInv, Shaped
<1>1. ASSUME remote' = remote, pc[g] = "stream", start[g] = 0, local'[g] = local[g],
             part'[g] = part[g]
      PROVE  \A i \in 1..Len(Target(g)') : Target(g)'[i] = <<i, remote'>>
  BY <1>0, <1>1 DEF Present, Target
<1>2. CASE UNCHANGED vars
  BY <1>1, <1>2 DEF vars
<1>3. ASSUME NEW f \in Files, Task(f)
      PROVE  \A i \in 1..Len(Target(g)') : Target(g)'[i] = <<i, remote'>>
  <2>1. remote' = remote
    BY <1>3, TaskRemote
  <2>2. CASE g # f
    BY <1>0, <1>1, <1>3, <2>1, <2>2, TaskLocal
  <2>3. CASE g = f /\ Respond(f)
    <3>1. Len(Target(g)') = 0
      <4>1. pc[g] = "request" /\ start[g] = 0 /\ local' = local /\ part' = part
        BY <2>3 DEF Respond, request
      <4> QED  BY <1>0, <4>1 DEF Shape, Target
    <3> QED  BY <3>1
  <2>4. CASE g = f /\ Receive(f)
    <3>1. pc[g] = "stream" /\ start[g] = 0
      BY <2>4 DEF Receive, request
    <3>2. Target(g) \in Seq(Block) /\ Len(Target(g)) = next[g] - 1 /\ next[g] \in 1..Size
      BY <1>0, <2>4, <3>1 DEF Typed, TypeOK, Target, Shape, Receive
    <3>3. Target(g)' = Append(Target(g), <<next[g], remote>>)
      BY <1>0, <2>4 DEF Receive, Target, Typed, TypeOK
    <3>4. \A i \in 1..Len(Target(g)) : Target(g)[i] = <<i, remote>>
      BY <1>0, <3>1 DEF Present
    <3>5. ASSUME NEW i \in 1..Len(Target(g)') PROVE Target(g)'[i] = <<i, remote>>
      <4>1. CASE i = next[g]
        BY <3>2, <3>3, <4>1
      <4>2. CASE i # next[g]
        <5>1. i \in 1..Len(Target(g)) /\ Target(g)'[i] = Target(g)[i]
          BY <3>2, <3>3, <4>2
        <5> QED  BY <3>4, <5>1
      <4> QED  BY <4>1, <4>2
    <3> QED  BY <2>1, <3>5
  <2>5. CASE g = f /\ ~Respond(f) /\ ~Receive(f)
    <3>1. pc'[f] # "stream"
      BY <1>0, <1>3, <2>5 DEF Task, Begin, Decide, Prepare, Complete, Break, RangeIgnored,
                              Retry, Goto, Typed, TypeOK
    <3> QED  BY <2>5, <3>1
  <2> QED  BY <2>2, <2>3, <2>4, <2>5
<1>4. ASSUME NEW f \in Files, Collect(f)
      PROVE  \A i \in 1..Len(Target(g)') : Target(g)'[i] = <<i, remote'>>
  <2>1. pc[g] = "stream"
    BY <1>0, <1>4 DEF Collect, Typed, TypeOK
  <2> QED  BY <1>1, <1>4, <2>1 DEF Collect, batch, request, disk
<1>5. CASE Return \/ Raise
  BY <1>1, <1>5 DEF Return, Raise, batch, request, disk
<1>6. CASE Rerun
  BY <1>6 DEF Rerun
<1> QED  BY <1>2, <1>3, <1>4, <1>5, <1>6 DEF Next, Manage

\* A file that is downloaded from its first block is the file of the datastore
\* as it is, never a mixture with what an earlier attempt or run has received.
THEOREM NoMixture == Spec => OneVersion
<1>1. Init => Present
  BY DEF Init, Present
<1>2. ASSUME IInv, Present, [Next]_vars
      PROVE  [\A f \in Files :
                Sound /\ pc[f] = "stream" /\ pc'[f] = "done" /\ start[f] = 0
                  => \A i \in 1..Size : local'[f][i] = <<i, remote>>]_vars
  <2> SUFFICES ASSUME NEW f \in Files, Sound, pc[f] = "stream", pc'[f] = "done",
                      start[f] = 0
               PROVE  \A i \in 1..Size : local'[f][i] = <<i, remote>>
    OBVIOUS
  <2>1. Typed /\ Shape(f)
    BY <1>2 DEF IInv, Shaped
  <2>2. Complete(f)
    <3>1. ASSUME NEW g \in Files, Task(g) PROVE g = f
      BY <2>1, <3>1, TaskLocal
    <3>2. ASSUME NEW g \in Files PROVE ~Collect(g)
      BY <2>1 DEF Collect, Typed, TypeOK
    <3>3. Task(f)
      BY <1>2, <3>1, <3>2 DEF Next, Manage, Return, Raise, Rerun, vars
    <3> QED  BY <2>1, <3>3 DEF Task, Begin, Decide, Prepare, Respond, Receive, Break,
                              RangeIgnored, Retry, Goto, Typed, TypeOK
  <2>3. Len(Target(f)) = Size
    <3>1. next[f] = Size + 1
      BY <2>1, <2>2, HttpAssumption DEF Complete, Ended, Sound, Typed, TypeOK
    <3>2. Len(Target(f)) = next[f] - 1
      BY <2>1 DEF Shape
    <3> QED  BY <3>1, <3>2, HttpAssumption
  <2>4. local'[f] = Target(f)
    BY <2>1, <2>2 DEF Complete, Target, disk, Typed, TypeOK
  <2>5. \A i \in 1..Len(Target(f)) : Target(f)[i] = <<i, remote>>
    BY <1>2 DEF Present
  <2> QED  BY <2>3, <2>4, <2>5
<1> QED  BY <1>1, <1>2, PresentStep, Invariant, PTL DEF Spec, OneVersion

-----------------------------------------------------------------------------
(* The promise.                                                            *)

There == IF opt.atomic THEN {f \in Files : Whole(f)} ELSE {}
Told == [f \in Files |-> IF opt.atomic THEN result[f] ELSE "none"]

\* With a temporary file only os.replace touches what is there.
LEMMA AtomicTask ==
    ASSUME Typed, opt.atomic, NEW f \in Files, Task(f), ~Complete(f)
    PROVE  \A g \in Files : local'[g] = local[g] /\ exists'[g] = exists[g]
<1>1. ASSUME NEW g \in Files, g # f PROVE local'[g] = local[g] /\ exists'[g] = exists[g]
  BY <1>1, TaskLocal
<1>2. local'[f] = local[f] /\ exists'[f] = exists[f]
  <2>1. CASE Respond(f)
    BY <2>1 DEF Respond, Typed, TypeOK
  <2>2. CASE ~Respond(f)
    BY <2>2 DEF Task, Begin, Decide, Prepare, Removes, Receive, Break, RangeIgnored, disk
  <2> QED  BY <2>1, <2>2
<1> QED  BY <1>1, <1>2

\* A step of an atomic batch delivers a file, reports one, begins again, or
\* does nothing that can be seen.
LEMMA PromiseStep ==
    ASSUME ~ShortReads, IInv, IInv', [Next]_vars
    PROVE  [Promise!Next]_(Promise!vars)
<1> USE DEF There, Told
<1>0. opt' = opt
  BY OptKept DEF vars
<1>s. Promise!vars = <<There, Told>>
  BY DEF Promise!vars
<1>1. ASSUME There' = There, Told' = Told PROVE [Promise!Next]_(Promise!vars)
  BY <1>1 DEF Promise!vars
<1>2. CASE ~opt.atomic
  <2>1. There' = There /\ Told' = Told
    BY <1>0, <1>2
  <2> QED  BY <1>1, <2>1
<1>3. CASE opt.atomic
  <2>s. Sound /\ Sound'
    BY <1>0, <1>3 DEF Sound
  <2>0. There = {f \in Files : Whole(f)} /\ There' = {f \in Files : Whole(f)'}
    BY <1>0, <1>3
  <2>t. Told = [f \in Files |-> result[f]] /\ Told' = [f \in Files |-> result'[f]]
    BY <1>0, <1>3
  <2>1. CASE UNCHANGED vars
    <3>1. There' = There /\ Told' = Told
      BY <2>1 DEF vars, Whole
    <3> QED  BY <1>1, <3>1
  <2>2. ASSUME NEW f \in Files, Task(f) PROVE [Promise!Next]_(Promise!vars)
    <3>1. result' = result
      BY <2>2, TaskQuiet DEF IInv
    <3>2. Told' = Told
      BY <2>t, <3>1
    <3>3. CASE Complete(f)
      <4>1. Whole(f)'
        <5>1. pc'[f] = "done"
          BY <3>3 DEF Complete, Goto, IInv, Typed, TypeOK
        <5> QED  BY <2>s, <5>1 DEF IInv, Shaped, Shape
      <4>2. \A g \in Files : g # f => (Whole(g)' <=> Whole(g))
        BY <2>2, TaskLocal DEF IInv, Whole
      <4>3. There' = There \cup {f}
        BY <2>0, <4>1, <4>2
      <4>4. Promise!Deliver(f)
        BY <3>2, <4>3 DEF Promise!Deliver
      <4> QED  BY <4>4 DEF Promise!Next
    <3>4. CASE ~Complete(f)
      <4>1. \A g \in Files : Whole(g)' <=> Whole(g)
        BY <1>3, <2>2, <3>4, AtomicTask DEF IInv, Whole
      <4>2. There' = There
        BY <2>0, <4>1
      <4> QED  BY <1>1, <3>2, <4>2
    <3> QED  BY <3>3, <3>4
  <2>3. ASSUME NEW f \in Files, Collect(f) PROVE [Promise!Next]_(Promise!vars)
    <3>1. There' = There
      BY <2>0, <2>3 DEF Collect, disk, Whole
    <3>2. result[f] = "none" /\ pc[f] \in {"done", "error"} /\ result \in [Files -> {"none", "ok", "failed"}]
      BY <2>3 DEF Collect, IInv, Typed, TypeOK
    <3>3. CASE pc[f] = "done"
      <4>1. f \in There
        BY <2>0, <2>s, <3>3 DEF IInv, Shaped, Shape
      <4>2. result' = [result EXCEPT ![f] = "ok"]
        BY <2>3, <3>3 DEF Collect, Fatal
      <4>3. Told[f] = "none" /\ Told' = [Told EXCEPT ![f] = "ok"]
        BY <2>t, <3>2, <4>2
      <4>4. Promise!Succeed(f)
        BY <3>1, <4>1, <4>3 DEF Promise!Succeed
      <4> QED  BY <4>4 DEF Promise!Next
    <3>4. CASE pc[f] = "error"
      <4>1. result' = [result EXCEPT ![f] = "failed"]
        BY <2>3, <3>4 DEF Collect
      <4>2. Told[f] = "none" /\ Told' = [Told EXCEPT ![f] = "failed"]
        BY <2>t, <3>2, <4>1
      <4>3. Promise!Fail(f)
        BY <3>1, <4>2 DEF Promise!Fail
      <4> QED  BY <4>3 DEF Promise!Next
    <3> QED  BY <3>2, <3>3, <3>4
  <2>4. CASE Return \/ Raise
    <3>1. There' = There /\ Told' = Told
      BY <1>0, <2>4 DEF Return, Raise, disk, Whole
    <3> QED  BY <1>1, <3>1
  <2>5. CASE Rerun
    <3>1. There' = There
      BY <2>0, <2>5 DEF Rerun, disk, Whole
    <3>2. Told' = [f \in Files |-> "none"]
      BY <2>t, <2>5 DEF Rerun
    <3>3. Promise!Again
      BY <3>1, <3>2 DEF Promise!Again
    <3> QED  BY <3>3 DEF Promise!Next
  <2> QED  BY <2>1, <2>2, <2>3, <2>4, <2>5 DEF Next, Manage
<1> QED  BY <1>2, <1>3

\* An atomic batch of downloads keeps FileDelivery's promise: a file appears
\* whole under its name, stays, and is reported only when it is there, through
\* breaks, retries, ignored Ranges, the pool and kills.
THEOREM DeliveryImplemented ==
    ASSUME ~ShortReads
    PROVE  Spec => Delivery
<1>1. Init => Promise!Init
  <2> SUFFICES ASSUME Init PROVE There \subseteq Files /\ Told = [f \in Files |-> "none"]
    BY DEF Promise!Init, There, Told
  <2> QED  BY DEF Init, There, Told
<1>2. IInv /\ IInv' /\ [Next]_vars => [Promise!Next]_(Promise!vars)
  BY PromiseStep
<1> QED  BY <1>1, <1>2, Invariant, PTL DEF Spec, Delivery, Promise!Spec
-----------------------------------------------------------------------------
(* A batch cannot go on for ever.                                          *)

\* Where a file is within an attempt.
Place(f) ==
    CASE pc[f] = "prepare" -> 0 [] pc[f] = "request" -> 1 [] pc[f] = "stream" -> next[f] + 1
      [] OTHER -> 0

\* Place s of attempt a of call c is still ahead of a file; as c = 0, that it is
\* begun, and that it is collected.
Ahead(f, c, a, s) ==
    \/ c = 0 /\ a = 0 /\ s = 0 /\ pc[f] = "queued"
    \/ c = 0 /\ a = 0 /\ s = 1 /\ result[f] = "none"
    \/ c > 0 /\ a > 0 /\ pc[f] = "queued"
    \/ /\ c > 0 /\ a > 0 /\ pc[f] \in Active
       /\ \/ c > call[f]
          \/ c = call[f] /\ (pc[f] = "decide" \/ a > attempt[f])
          \/ c = call[f] /\ a = attempt[f] /\ s > Place(f)

Places == (0..(opt.maxRetries + 1)) \X (0..(opt.retries + 1)) \X (0..(Size + 3))
FileLeft(f) == {p \in Places : Ahead(f, p[1], p[2], p[3])}

\* The calling thread goes from a batch to its end, by way of "raising" at most.
PhaseLeft == CASE phase = "batch" -> 2 [] phase = "raising" -> 1 [] OTHER -> 0

\* What is left of a batch: <<0, k>> for the calling thread, <<f, p>> for a file.
StepsLeft == {<<0, k>> : k \in 1..PhaseLeft} \cup UNION {{f} \X FileLeft(f) : f \in Files}

\* A file has less left when nothing new is ahead of it and something is not any more.
LEMMA FileShrinks ==
    ASSUME NEW f \in Files, opt' = opt,
           \A c, a, s \in Nat : Ahead(f, c, a, s)' => Ahead(f, c, a, s),
           NEW c \in 0..(opt.maxRetries + 1), NEW a \in 0..(opt.retries + 1), NEW s \in 0..(Size + 3),
           Ahead(f, c, a, s), ~Ahead(f, c, a, s)', opt \in Options
    PROVE  FileLeft(f)' \subseteq FileLeft(f) /\ FileLeft(f)' # FileLeft(f)
<1>1. Places' = Places  BY DEF Places
<1>2. \A p \in Places : p[1] \in Nat /\ p[2] \in Nat /\ p[3] \in Nat
  BY HttpAssumption DEF Places, Options
<1>3. FileLeft(f)' \subseteq FileLeft(f)  BY <1>1, <1>2 DEF FileLeft
<1>4. <<c, a, s>> \in Places  BY DEF Places
<1>5. <<c, a, s>> \in FileLeft(f) /\ <<c, a, s>> \notin FileLeft(f)'  BY <1>1, <1>4 DEF FileLeft
<1> QED  BY <1>3, <1>5

\* So has a batch, when a file or the calling thread has less and the others have no
\* more.
LEMMA LessLeft ==
    ASSUME PhaseLeft' <= PhaseLeft, \A f \in Files : FileLeft(f)' \subseteq FileLeft(f),
           PhaseLeft' < PhaseLeft \/ \E f \in Files : FileLeft(f)' # FileLeft(f)
    PROVE  StepsLeft' \subseteq StepsLeft /\ StepsLeft' # StepsLeft
<1>0. PhaseLeft \in Nat /\ PhaseLeft' \in Nat  BY DEF PhaseLeft
<1>1. 0 \notin Files  BY HttpAssumption DEF Files
<1>2. \A f, x : <<f, x>> \in StepsLeft <=>
        (f = 0 /\ x \in 1..PhaseLeft) \/ (f \in Files /\ x \in FileLeft(f))
  BY DEF StepsLeft
<1>3. \A f, x : <<f, x>> \in StepsLeft' <=>
        (f = 0 /\ x \in 1..PhaseLeft') \/ (f \in Files /\ x \in FileLeft(f)')
  BY DEF StepsLeft
<1>4. \A y \in StepsLeft' : \E f, x : y = <<f, x>>  BY DEF StepsLeft
<1>5. \A x \in 1..PhaseLeft' : x \in 1..PhaseLeft  BY <1>0
<1>6. StepsLeft' \subseteq StepsLeft
  <2>1. ASSUME NEW y \in StepsLeft' PROVE y \in StepsLeft
    <3>1. PICK f, x : y = <<f, x>>  BY <1>4, <2>1
    <3> QED  BY <1>2, <1>3, <1>5, <2>1, <3>1
  <2> QED  BY <2>1
<1>7. CASE PhaseLeft' < PhaseLeft
  <2>1. PhaseLeft \in 1..PhaseLeft /\ PhaseLeft \notin 1..PhaseLeft'  BY <1>0, <1>7
  <2>2. <<0, PhaseLeft>> \in StepsLeft /\ <<0, PhaseLeft>> \notin StepsLeft'
    BY <1>1, <1>2, <1>3, <2>1
  <2> QED  BY <1>6, <2>2
<1>8. ASSUME NEW f \in Files, FileLeft(f)' # FileLeft(f) PROVE StepsLeft' # StepsLeft
  <2>1. PICK x \in FileLeft(f) : x \notin FileLeft(f)'  BY <1>8
  <2>2. <<f, x>> \in StepsLeft /\ <<f, x>> \notin StepsLeft'  BY <1>1, <1>2, <1>3, <2>1
  <2> QED  BY <2>2
<1> QED  BY <1>6, <1>7, <1>8

\* Each step of a task is one less for its file.
LEMMA TaskLeft ==
    ASSUME Typed, Typed', NEW f \in Files, Task(f)
    PROVE  FileLeft(f)' \subseteq FileLeft(f) /\ FileLeft(f)' # FileLeft(f)
<1> DEFINE Fewer == \A x, y, z \in Nat : Ahead(f, x, y, z)' => Ahead(f, x, y, z)
<1>0. /\ Size \in Nat \ {0} /\ opt \in Options /\ opt.maxRetries \in Nat /\ opt.retries \in Nat
      /\ call[f] \in 1..(opt.maxRetries + 1) /\ attempt[f] \in 1..(opt.retries + 1)
      /\ next[f] \in 1..(Size + 1) /\ next'[f] \in 1..(Size + 1)
      /\ opt' = opt
  BY HttpAssumption, OptKept DEF Typed, TypeOK, Options, Next
<1> PICK c \in 1..(opt.maxRetries + 1), a \in 1..(opt.retries + 1), k \in 1..(Size + 1) :
       c = call[f] /\ a = attempt[f] /\ k = next[f]
  BY <1>0
<1>1. CASE Begin(f)
  <2>1. pc[f] = "queued" /\ pc'[f] = "decide" /\ UNCHANGED <<call, attempt, next, result>>
    BY <1>1 DEF Begin, Goto, Typed, TypeOK
  <2>2. Fewer  BY <1>0, <2>1 DEF Ahead, Active, Place
  <2>3. Ahead(f, 0, 0, 0) /\ ~Ahead(f, 0, 0, 0)'  BY <1>0, <2>1 DEF Ahead, Active, Place
  <2> QED  BY <1>0, <2>2, <2>3, FileShrinks
<1>2. CASE Decide(f)
  <2>1. /\ pc[f] = "decide" /\ UNCHANGED <<call, next, result>>
        /\ pc'[f] = "done" \/ (pc'[f] = "prepare" /\ attempt'[f] = 1)
    BY <1>2 DEF Decide, Goto, Typed, TypeOK
  <2>2. Fewer  BY <1>0, <2>1 DEF Ahead, Active, Place
  <2>3. Ahead(f, c, 1, 0) /\ ~Ahead(f, c, 1, 0)'  BY <1>0, <2>1 DEF Ahead, Active, Place
  <2> QED  BY <1>0, <2>2, <2>3, FileShrinks
<1>3. CASE Prepare(f)
  <2>1. pc[f] = "prepare" /\ pc'[f] = "request" /\ UNCHANGED <<call, attempt, next, result>>
    BY <1>3 DEF Prepare, Goto, Typed, TypeOK
  <2>2. Fewer  BY <1>0, <2>1 DEF Ahead, Active, Place
  <2>3. Ahead(f, c, a, 1) /\ ~Ahead(f, c, a, 1)'  BY <1>0, <2>1 DEF Ahead, Active, Place
  <2> QED  BY <1>0, <2>2, <2>3, FileShrinks
<1>4. CASE Respond(f)
  <2>1. pc[f] = "request" /\ pc'[f] = "stream" /\ UNCHANGED <<call, attempt, result>>
    BY <1>4 DEF Respond, Goto, Typed, TypeOK
  <2>2. Fewer  BY <1>0, <2>1 DEF Ahead, Active, Place
  <2>3. Ahead(f, c, a, 2) /\ ~Ahead(f, c, a, 2)'  BY <1>0, <2>1 DEF Ahead, Active, Place
  <2> QED  BY <1>0, <2>2, <2>3, FileShrinks
<1>5. CASE Receive(f)
  <2>1. /\ pc[f] = "stream" /\ next[f] <= Size /\ next'[f] = next[f] + 1
        /\ UNCHANGED <<pc, call, attempt, result>>
    BY <1>5 DEF Receive, Goto, Typed, TypeOK
  <2>4. Place(f) = next[f] + 1 /\ Place(f)' = k + 2  BY <1>0, <2>1 DEF Place
  <2>2. Fewer  BY <1>0, <2>1, <2>4 DEF Ahead, Active
  <2>3. Ahead(f, c, a, k + 2) /\ ~Ahead(f, c, a, k + 2)'  BY <1>0, <2>1, <2>4 DEF Ahead, Active
  <2> QED  BY <1>0, <2>2, <2>3, FileShrinks
<1>6. CASE Complete(f)
  <2>1. pc[f] = "stream" /\ pc'[f] = "done" /\ UNCHANGED <<call, attempt, result>>
    BY <1>6 DEF Complete, Goto, Typed, TypeOK
  <2>2. Fewer  BY <1>0, <2>1 DEF Ahead, Active, Place
  <2>3. Ahead(f, c, a, Size + 3) /\ ~Ahead(f, c, a, Size + 3)'  BY <1>0, <2>1 DEF Ahead, Active, Place
  <2> QED  BY <1>0, <2>2, <2>3, FileShrinks
<1>7. CASE Break(f) \/ RangeIgnored(f)
  <2>1. pc[f] \in {"request", "stream"} /\ Retry(f) /\ UNCHANGED result
    BY <1>7 DEF Break, RangeIgnored
  <2>2. \/ pc'[f] = "prepare" /\ attempt'[f] = attempt[f] + 1 /\ call'[f] = call[f]
        \/ pc'[f] = "decide" /\ call'[f] = call[f] + 1
        \/ pc'[f] = "error"
    BY <2>1 DEF Retry, Goto, Typed, TypeOK
  <2>3. Place(f) \in 1..(Size + 2) /\ (pc'[f] = "prepare" => Place(f)' = 0)
    BY <1>0, <2>1 DEF Place
  <2>4. Fewer  BY <1>0, <2>1, <2>2, <2>3 DEF Ahead, Active
  <2>5. Ahead(f, c, a, Size + 3) /\ ~Ahead(f, c, a, Size + 3)'
    BY <1>0, <2>1, <2>2, <2>3 DEF Ahead, Active
  <2> QED  BY <1>0, <2>4, <2>5, FileShrinks
<1> QED  BY <1>1, <1>2, <1>3, <1>4, <1>5, <1>6, <1>7 DEF Task

\* And of the other files it changes nothing.
LEMMA OthersLeft ==
    ASSUME Typed, NEW f \in Files, Task(f), NEW g \in Files, g # f
    PROVE  FileLeft(g)' = FileLeft(g)
<1>1. pc'[g] = pc[g] /\ next'[g] = next[g]  BY TaskLocal
<1>2. UNCHANGED <<opt, result>>
  BY DEF Task, Begin, Decide, Prepare, Respond, Receive, Complete, Break, RangeIgnored, batch
<1>3. call'[g] = call[g]
  BY DEF Task, Begin, Decide, Prepare, Respond, Receive, Complete, Break, RangeIgnored, Retry,
         Typed, TypeOK
<1>4. attempt'[g] = attempt[g]
  BY DEF Task, Begin, Decide, Prepare, Respond, Receive, Complete, Break, RangeIgnored, Retry,
         Typed, TypeOK
<1>5. \A c, a, s : Ahead(g, c, a, s)' <=> Ahead(g, c, a, s)
  BY <1>1, <1>2, <1>3, <1>4 DEF Ahead, Place
<1>6. Places' = Places  BY <1>2 DEF Places
<1> QED  BY <1>5, <1>6 DEF FileLeft

\* A result that is taken is one less for its file, and a file that is cancelled has
\* nothing left but to be collected.
LEMMA CollectLeft ==
    ASSUME Typed, NEW f \in Files, Collect(f)
    PROVE  /\ \A g \in Files : FileLeft(g)' \subseteq FileLeft(g)
           /\ FileLeft(f)' # FileLeft(f)
<1>1. UNCHANGED <<opt, call, attempt, next>>  BY DEF Collect, batch
<1>2. /\ result[f] = "none" /\ result'[f] # "none"
      /\ \A g \in Files : result'[g] = "none" => result[g] = "none"
  BY DEF Collect, Typed, TypeOK
<1>3. \A g \in Files : pc'[g] = pc[g] \/ pc'[g] = "cancelled"
  BY DEF Collect, Typed, TypeOK
<1>4. \A g \in Files : \A c, a, s \in Nat : Ahead(g, c, a, s)' => Ahead(g, c, a, s)
  BY <1>1, <1>2, <1>3 DEF Ahead, Place, Active
<1>5. Ahead(f, 0, 0, 1) /\ ~Ahead(f, 0, 0, 1)'  BY <1>2 DEF Ahead
<1>6. /\ opt \in Options /\ 0 \in 0..(opt.maxRetries + 1) /\ 0 \in 0..(opt.retries + 1)
      /\ 1 \in 0..(Size + 3)
  BY HttpAssumption DEF Typed, TypeOK, Options
<1>7. Places' = Places /\ \A p \in Places : p[1] \in Nat /\ p[2] \in Nat /\ p[3] \in Nat
  BY <1>1, <1>6, HttpAssumption DEF Places, Options
<1>8. \A g \in Files : FileLeft(g)' \subseteq FileLeft(g)  BY <1>4, <1>7 DEF FileLeft
<1>9. FileLeft(f)' # FileLeft(f)  BY <1>1, <1>4, <1>5, <1>6, FileShrinks
<1> QED  BY <1>8, <1>9

LEMMA StepTaken ==
    ASSUME Typed, Typed', Next, run' = run
    PROVE  StepsLeft' \subseteq StepsLeft /\ StepsLeft' # StepsLeft
<1>0. PhaseLeft \in Nat /\ PhaseLeft' \in Nat  BY DEF PhaseLeft
<1>1. CASE Return \/ Raise
  <2>1. PhaseLeft' < PhaseLeft  BY <1>1 DEF Return, Raise, PhaseLeft
  <2>2. UNCHANGED <<opt, pc, call, attempt, next, result>>  BY <1>1 DEF Return, Raise, batch
  <2>3. \A f \in Files : FileLeft(f)' = FileLeft(f)
    BY <2>2 DEF FileLeft, Places, Ahead, Place
  <2> QED  BY <1>0, <2>1, <2>3, LessLeft
<1>2. ASSUME NEW f \in Files, Collect(f)
      PROVE  StepsLeft' \subseteq StepsLeft /\ StepsLeft' # StepsLeft
  <2>1. PhaseLeft' <= PhaseLeft  BY <1>2 DEF Collect, PhaseLeft
  <2> QED  BY <1>2, <2>1, CollectLeft, LessLeft
<1>3. ASSUME NEW f \in Files, Task(f)
      PROVE  StepsLeft' \subseteq StepsLeft /\ StepsLeft' # StepsLeft
  <2>1. UNCHANGED phase
    BY <1>3 DEF Task, Begin, Decide, Prepare, Respond, Receive, Complete, Break, RangeIgnored
  <2>2. PhaseLeft' <= PhaseLeft  BY <1>0, <2>1 DEF PhaseLeft
  <2>3. \A g \in Files : FileLeft(g)' \subseteq FileLeft(g)
    BY <1>3, TaskLeft, OthersLeft
  <2> QED  BY <1>3, <2>2, <2>3, TaskLeft, LessLeft
<1>4. ~Rerun
  <2>1. run \in Nat  BY HttpAssumption DEF Typed, TypeOK, Runs
  <2> QED  BY <2>1 DEF Rerun
<1> QED  BY <1>1, <1>2, <1>3, <1>4 DEF Next, Manage

\* A call of download_files ends after finitely many steps of its threads, however
\* often the connection breaks, whatever the retries and however the pool is
\* scheduled: what is left to do is finite, and every step of the call leaves less of
\* it.  (BatchEnds is this, and that the threads go on.)
THEOREM BatchRunsOut ==
    Spec => /\ []IsFiniteSet(StepsLeft)
            /\ [][run' = run => StepsLeft' \subseteq StepsLeft /\ StepsLeft' # StepsLeft]_vars
<1>1. Typed => IsFiniteSet(StepsLeft)
  <2> SUFFICES ASSUME Typed PROVE IsFiniteSet(StepsLeft)  OBVIOUS
  <2>1. opt.maxRetries \in Nat /\ opt.retries \in Nat /\ Size \in Nat /\ N \in Nat
    BY HttpAssumption DEF Typed, TypeOK, Options
  <2>2. IsFiniteSet(Places)
    <3>1. /\ IsFiniteSet(0..(opt.maxRetries + 1)) /\ IsFiniteSet(0..(opt.retries + 1))
          /\ IsFiniteSet(0..(Size + 3))
      <4>1. 0 \in Int /\ opt.maxRetries + 1 \in Int /\ opt.retries + 1 \in Int /\ Size + 3 \in Int
        BY <2>1
      <4> QED  BY <4>1, FS_Interval
    <3> DEFINE A == 0..(opt.maxRetries + 1)
               B == 0..(opt.retries + 1)
               C == 0..(Size + 3)
               triple == [q \in (A \X B) \X C |-> <<q[1][1], q[1][2], q[2]>>]
    <3>2. IsFiniteSet((A \X B) \X C)
      <4> HIDE DEF A, B, C
      <4> QED  BY <3>1, FS_Product DEF A, B, C
    <3>3. triple \in Surjection((A \X B) \X C, Places)
      <4>1. triple \in [(A \X B) \X C -> Places]  BY DEF Places
      <4>2. ASSUME NEW p \in Places PROVE \E q \in (A \X B) \X C : triple[q] = p
        <5>1. p = <<p[1], p[2], p[3]>> /\ p[1] \in A /\ p[2] \in B /\ p[3] \in C  BY DEF Places
        <5>2. <<<<p[1], p[2]>>, p[3]>> \in (A \X B) \X C  BY <5>1
        <5> QED  BY <5>1, <5>2
      <4> HIDE DEF triple, A, B, C
      <4> QED  BY <4>1, <4>2 DEF Surjection
    <3> HIDE DEF triple, A, B, C
    <3> QED  BY <3>2, <3>3, FS_Surjection
  <2> DEFINE Box == (0..N) \X ((1..2) \cup Places)
  <2>3. IsFiniteSet(Box)
    <3>1. IsFiniteSet(0..N) /\ IsFiniteSet(1..2)
      <4>1. 0 \in Int /\ 1 \in Int /\ 2 \in Int /\ N \in Int  BY <2>1
      <4> QED  BY <4>1, FS_Interval
    <3>2. IsFiniteSet((1..2) \cup Places)  BY <2>2, <3>1, FS_Union
    <3> QED  BY <3>1, <3>2, FS_Product
  <2>4. StepsLeft \subseteq Box
    <3>1. 0 \in 0..N /\ 1..PhaseLeft \subseteq 1..2  BY <2>1 DEF PhaseLeft
    <3>2. \A f \in Files : f \in 0..N  BY <2>1 DEF Files
    <3>3. \A f \in Files : FileLeft(f) \subseteq Places  BY DEF FileLeft
    <3> HIDE DEF Box
    <3>4. \A x \in StepsLeft : \/ \E k \in 1..PhaseLeft : x = <<0, k>>
                               \/ \E f \in Files : \E y \in FileLeft(f) : x = <<f, y>>
      BY DEF StepsLeft
    <3> QED  BY <3>1, <3>2, <3>3, <3>4 DEF Box
  <2> QED  BY <2>3, <2>4, FS_Subset
<1>2. Typed /\ Typed' /\ [Next]_vars
      => [run' = run => StepsLeft' \subseteq StepsLeft /\ StepsLeft' # StepsLeft]_vars
  BY StepTaken
<1> QED  BY <1>1, <1>2, TypedInit, TypedStep, PTL DEF Spec

=============================================================================
