------------------------- MODULE AzureExport_proofs -------------------------
(***************************************************************************)
(* Theorems about AzureExport, for every number of disks, size, number of  *)
(* workers and runs, and every set of configurations.                      *)
(***************************************************************************)
EXTENDS AzureExport, TLAPS, SequenceTheorems

Kinds == {"source", "snapshot", "disk"}

\* The blocks from the first one on, each in its place.
Prefix(s) == Len(s) <= Size /\ \A i \in 1..Len(s) : s[i][1] = i

\* A .part file is a prefix, and an attempt continues where it ends or starts
\* anew.
Shape(d) ==
    /\ Prefix(part[d])
    /\ (pc[d] = "request" => start[d] = 0 \/ start[d] = Len(part[d]))
    /\ (pc[d] = "stream" => Len(part[d]) = next[d] - 1)
    /\ (~opt.resume => start[d] = 0)

Shaped == \A d \in Disks : Shape(d)

Typed == TypeOK /\ Shaped

\* An export that is good has left the VHD.
Exact(d) == Firm /\ ok[d] => Whole(d)

\* What this run writes is of this run, when it begins with nothing of another.
Own(d) ==
    /\ (~(opt.userTag /\ opt.resume) /\ (pc[d] = "stream" \/ ~opt.userTag)
          => \A i \in 1..Len(part[d]) : part[d][i] = <<i, run>>)
    /\ (Firm /\ ~(opt.userTag /\ opt.resume) /\ ok[d]
          => \A i \in 1..Size : local[d][i] = <<i, run>>)

\* Which resources of a disk may exist, and may have a SAS, where its export is;
\* what fetch has learnt agrees with where it is.
Clean(d) ==
    /\ \A k \in Kinds :
          <<k, d>> \in cloud =>
             \/ k \in item[d]
             \/ /\ <<k, d>> \in doubtful /\ ~ok[d]
                /\ pc[d] \in {"revoke", "unstage", "unsnap", "error"}
    /\ \A k \in Kinds :
          <<k, d>> \in access =>
             \/ <<k, d>> \in doubtful
             \/ /\ sas[d] /\ <<k, d>> = Exported(d)
                /\ pc[d] \in {"open", "request", "stream", "revoke"}
    /\ (pc[d] \in {"unsnap", "done", "error"} /\ <<"disk", d>> \in cloud
          => "disk" \in opt.keep \/ <<"disk", d>> \in doubtful)
    /\ (pc[d] \in {"done", "error"} /\ <<"snapshot", d>> \in cloud
          => "snapshot" \in opt.keep \/ <<"snapshot", d>> \in doubtful)
    /\ (ok[d] => pc[d] \in {"revoke", "unstage", "unsnap", "done"})
    /\ (pc[d] = "done" => ok[d]) /\ (pc[d] = "error" => ~ok[d])
    /\ (result[d] = "ok" => pc[d] = "done")
    /\ (result[d] = "failed" => pc[d] = "error")

\* The report is of exports that were good, and names all that they know.
Told ==
    /\ phase = "returned" => Settled
    /\ \A r \in report.deleted : result[r[2]] = "ok" /\ r \notin cloud
    /\ \A d \in Disks : result[d] = "ok" => \A k \in item[d] : <<k, d>> \in report.created

IInv == Typed /\ (\A d \in Disks : Exact(d) /\ Own(d) /\ Clean(d)) /\ Told

-----------------------------------------------------------------------------
(* Types and shapes.                                                       *)

\* An append to a prefix.
LEMMA Longer ==
    ASSUME NEW s \in Seq(Block), Prefix(s), NEW n \in 1..Size, Len(s) = n - 1, NEW r \in Runs
    PROVE  /\ Append(s, <<n, r>>) \in Seq(Block) /\ Prefix(Append(s, <<n, r>>))
           /\ Len(Append(s, <<n, r>>)) = n
<1>1. <<n, r>> \in Block
  BY DEF Block
<1>2. Append(s, <<n, r>>) \in Seq(Block) /\ Len(Append(s, <<n, r>>)) = n
  BY <1>1
<1>3. ASSUME NEW i \in 1..n PROVE Append(s, <<n, r>>)[i][1] = i
  <2>1. CASE i = n
    <3>1. Append(s, <<n, r>>)[i] = <<n, r>>
      BY <2>1
    <3> QED  BY <2>1, <3>1
  <2>2. CASE i # n
    <3>1. i \in 1..Len(s) /\ Append(s, <<n, r>>)[i] = s[i]
      BY <2>2
    <3> QED  BY <3>1 DEF Prefix
  <2> QED  BY <2>1, <2>2
<1> QED  BY <1>2, <1>3, AzureAssumption DEF Prefix

\* Nothing is a prefix.
LEMMA Nothing == <<>> \in Seq(Block) /\ Prefix(<<>>) /\ Len(<<>>) = 0
BY AzureAssumption DEF Prefix

\* Init assigns values of the right types.
LEMMA TypedInit == Init => Typed
<1> SUFFICES ASSUME Init PROVE Typed
  OBVIOUS
<1>1. opt \in Configs /\ opt.retries \in Nat \ {0} /\ 1 \in Runs
  BY AzureAssumption DEF Init, Configs, Runs
<1>2. TypeOK
  BY <1>1, Nothing, AzureAssumption DEF Init, TypeOK, Active
<1>3. Shaped
  BY Nothing DEF Init, Shaped, Shape
<1> QED  BY <1>2, <1>3 DEF Typed

\* An export of one disk touches nothing of the others.
LEMMA ExportLocal ==
    ASSUME Typed, NEW d \in Disks, Export(d), NEW g \in Disks, g # d
    PROVE  /\ pc'[g] = pc[g] /\ item'[g] = item[g] /\ sas'[g] = sas[g] /\ ok'[g] = ok[g]
           /\ start'[g] = start[g] /\ next'[g] = next[g] /\ exists'[g] = exists[g]
           /\ local'[g] = local[g] /\ part'[g] = part[g]
           /\ \A k \in Kinds : /\ <<k, g>> \in cloud' <=> <<k, g>> \in cloud
                               /\ <<k, g>> \in access' <=> <<k, g>> \in access
                               /\ <<k, g>> \in doubtful' <=> <<k, g>> \in doubtful
<1> USE DEF Typed, TypeOK
<1>0. \A k \in Kinds : Exported(d) # <<k, g>>
  BY DEF Exported
<1>1. CASE Begin(d)
  BY <1>1 DEF Begin, Goto, download, azure, files
<1>2. CASE Snapshot(d)
  BY <1>2 DEF Snapshot, Create, CreateFail, Goto, download, files
<1>3. CASE Stage(d)
  BY <1>3 DEF Stage, Create, CreateFail, Goto, download, files
<1>4. CASE Grant(d)
  BY <1>0, <1>4 DEF Grant, Goto, download, files
<1>5. CASE GrantFail(d)
  BY <1>0, <1>5 DEF GrantFail, Goto, download, files
<1>6. CASE Open(d)
  BY <1>6 DEF Open, Goto, azure, files
<1>7. CASE Respond(d)
  BY <1>7 DEF Respond, Goto, azure
<1>8. CASE Receive(d)
  BY <1>8 DEF Receive, azure
<1>9. CASE Renamed(d)
  BY <1>9 DEF Renamed, Goto, download, azure
<1>10. CASE Mismatch(d)
  BY <1>10 DEF Mismatch, Goto, download, azure
<1>11. CASE Break(d)
  BY <1>11 DEF Break, Goto, azure
<1>12. CASE Revoke(d)
  BY <1>0, <1>12 DEF Revoke, Goto, download, azure, files
<1>13. CASE Unstage(d)
  BY <1>13 DEF Unstage, Delete, Goto, download, files
<1>14. CASE Unsnap(d)
  BY <1>14 DEF Unsnap, Delete, Goto, download, files
<1> QED  BY <1>1, <1>2, <1>3, <1>4, <1>5, <1>6, <1>7, <1>8, <1>9, <1>10, <1>11, <1>12,
            <1>13, <1>14 DEF Export

\* An export leaves fetch alone.
LEMMA ExportQuiet ==
    ASSUME NEW d \in Disks, Export(d)
    PROVE  opt' = opt /\ run' = run /\ phase' = phase /\ result' = result /\ report' = report
BY DEF Export, Begin, Snapshot, Stage, Create, CreateFail, Grant, GrantFail, Open, Respond,
       Receive, Renamed, Mismatch, Break, Revoke, Unstage, Unsnap, Delete, fetch

\* fetch itself leaves the exports alone.
LEMMA ManageQuiet ==
    ASSUME Manage
    PROVE  /\ opt' = opt /\ run' = run /\ pc' = pc /\ item' = item /\ sas' = sas /\ ok' = ok
           /\ start' = start /\ next' = next /\ attempt' = attempt /\ cloud' = cloud
           /\ access' = access /\ doubtful' = doubtful /\ exists' = exists
           /\ local' = local /\ part' = part
BY DEF Manage, Return, Collect, download, azure, files

\* Every step of an export keeps the types.
LEMMA TypedExport == ASSUME Typed, NEW d \in Disks, Export(d) PROVE TypeOK'
<1> USE DEF Typed, TypeOK
<1>0. /\ opt.retries \in Nat /\ opt.keep \in SUBSET {"snapshot", "disk"}
      /\ opt.resume \in BOOLEAN /\ Size \in Nat
  BY AzureAssumption DEF Configs
<1>q. opt' = opt /\ run' = run /\ phase' = phase /\ result' = result /\ report' = report
  BY ExportQuiet
<1>e. Exported(d) \in Resources
  BY DEF Exported, Resources
<1>k. ASSUME NEW k \in {"snapshot", "disk"} PROVE <<k, d>> \in Resources
  BY DEF Resources
<1>1. CASE Begin(d)
  BY <1>1, <1>q DEF Begin, Goto, download, azure, files, Active
<1>c. ASSUME NEW h \in Active, NEW k \in {"snapshot", "disk"}, NEW t \in {"stage", "grant"},
             Create(d, h, k, t)
      PROVE  TypeOK'
  <2>1. cloud' \subseteq Resources /\ item[d] \cup {k} \in SUBSET {"snapshot", "disk"}
    BY <1>c, <1>k DEF Create
  <2> QED  BY <1>c, <1>q, <2>1 DEF Create, Goto, download, files, Active
<1>f. ASSUME NEW h \in Active, NEW k \in {"snapshot", "disk"}, CreateFail(d, h, k)
      PROVE  TypeOK'
  <2>1. cloud' \subseteq Resources /\ doubtful' \subseteq Resources
    BY <1>f, <1>k DEF CreateFail
  <2> QED  BY <1>f, <1>q, <2>1 DEF CreateFail, Goto, download, files, Active
<1>2. CASE Snapshot(d)
  BY <1>2, <1>c, <1>f DEF Snapshot, Active
<1>3. CASE Stage(d)
  BY <1>3, <1>c, <1>f DEF Stage, Active
<1>4. CASE Grant(d)
  BY <1>4, <1>q, <1>e DEF Grant, Goto, download, files, Active
<1>5. CASE GrantFail(d)
  BY <1>5, <1>q, <1>e DEF GrantFail, Goto, download, files, Active
<1>6. CASE Open(d)
  <2>1. Resumed(d) \in 0..Size
    BY <1>0 DEF Resumed, Shaped, Shape, Prefix
  <2>2. 1 \in 1..opt.retries
    BY DEF Configs
  <2> QED  BY <1>6, <1>q, <2>1, <2>2 DEF Open, Goto, azure, files, Active
<1>7. CASE Respond(d)
  <2>1. Opened(d) \in Seq(Block) /\ start[d] + 1 \in 1..(Size + 1)
    BY <1>0, <1>7, Nothing DEF Opened, Respond
  <2> QED  BY <1>7, <1>q, <2>1 DEF Respond, Goto, azure, Active
<1>8. CASE Receive(d)
  <2>1. next[d] \in 1..Size /\ pc[d] = "stream" /\ run \in Runs
    BY <1>0, <1>8 DEF Receive
  <2>2. Append(part[d], <<next[d], run>>) \in Seq(Block)
    BY <2>1, Longer DEF Shaped, Shape
  <2>3. next[d] + 1 \in 1..(Size + 1)
    BY <1>0, <2>1
  <2> QED  BY <1>8, <1>q, <2>2, <2>3 DEF Receive, azure
<1>9. CASE Renamed(d)
  BY <1>9, <1>q, Nothing DEF Renamed, Goto, download, azure, Active
<1>10. CASE Mismatch(d)
  BY <1>10, <1>q, Nothing DEF Mismatch, Goto, download, azure, Active
<1>11. CASE Break(d)
  <2>0. /\ item' = item /\ sas' = sas /\ ok' = ok /\ next' = next /\ cloud' = cloud
        /\ access' = access /\ doubtful' = doubtful /\ exists' = exists /\ local' = local
    BY <1>11 DEF Break, azure
  <2>1. CASE Another(d)
    <3>1. Continued(d) \in 0..Size
      <4>1. Len(part[d]) \in 0..Size /\ start[d] \in 0..Size
        BY <1>0 DEF Shaped, Shape, Prefix
      <4> QED  BY <4>1 DEF Continued
    <3>2. attempt[d] + 1 \in 1..opt.retries
      BY <1>0, <2>1 DEF Another
    <3>3. /\ pc' = [pc EXCEPT ![d] = "request"] /\ attempt' = [attempt EXCEPT ![d] = @ + 1]
          /\ start' = [start EXCEPT ![d] = Continued(d)] /\ part' = part
      BY <1>11, <2>1, Zenon DEF Break, Goto
    <3>4. attempt' \in [Disks -> 1..opt.retries] /\ start' \in [Disks -> 0..Size]
      BY <3>1, <3>2, <3>3
    <3>5. pc' \in [Disks -> Active \cup {"queued", "done", "error"}]
      BY <3>3 DEF Active
    <3> QED  BY <1>q, <2>0, <3>3, <3>4, <3>5
  <2>2. CASE ~Another(d)
    <3>1. /\ pc' = [pc EXCEPT ![d] = "revoke"] /\ part' = [part EXCEPT ![d] = <<>>]
          /\ attempt' = attempt /\ start' = start
      BY <1>11, <2>2, Zenon DEF Break, Goto
    <3>2. part' \in [Disks -> Seq(Block)]
      BY <3>1, Nothing
    <3>3. pc' \in [Disks -> Active \cup {"queued", "done", "error"}]
      BY <3>1 DEF Active
    <3> QED  BY <1>q, <2>0, <3>1, <3>2, <3>3
  <2> QED  BY <2>1, <2>2
<1>12. CASE Revoke(d)
  BY <1>12, <1>q, <1>e DEF Revoke, Goto, download, azure, files, Active
<1>13. CASE Unstage(d)
  BY <1>13, <1>q, <1>k DEF Unstage, Delete, Goto, download, files, Active
<1>14. CASE Unsnap(d)
  BY <1>14, <1>q, <1>k DEF Unsnap, Delete, Goto, download, files, Active
<1> QED  BY <1>1, <1>2, <1>3, <1>4, <1>5, <1>6, <1>7, <1>8, <1>9, <1>10, <1>11, <1>12,
            <1>13, <1>14 DEF Export

\* Every step of an export keeps the .part file in shape.
LEMMA ShapedExport == ASSUME Typed, NEW d \in Disks, Export(d) PROVE Shape(d)'
<1> USE DEF Typed, TypeOK
<1>0. Shape(d) /\ Size \in Nat /\ opt' = opt
  BY AzureAssumption, ExportQuiet DEF Shaped
<1>1. CASE Receive(d)
  <2>1. next[d] \in 1..Size /\ pc[d] = "stream" /\ run \in Runs /\ part[d] \in Seq(Block)
    BY <1>0, <1>1 DEF Receive
  <2>2. /\ part'[d] = Append(part[d], <<next[d], run>>) /\ next'[d] = next[d] + 1
        /\ pc'[d] = "stream" /\ start'[d] = start[d]
    BY <1>1, <2>1 DEF Receive
  <2>3. Prefix(part'[d]) /\ Len(part'[d]) = next[d]
    BY <1>0, <2>1, <2>2, Longer DEF Shape
  <2> QED  BY <1>0, <2>1, <2>2, <2>3 DEF Shape
<1>2. CASE Respond(d)
  <2>1. /\ part'[d] = Opened(d) /\ next'[d] = start[d] + 1 /\ pc'[d] = "stream"
        /\ pc[d] = "request" /\ start[d] \in 0..Size
        /\ start'[d] = start[d]
    BY <1>2 DEF Respond, Goto
  <2>2. Prefix(Opened(d)) /\ Len(Opened(d)) = start[d]
    BY <1>0, <2>1, Nothing DEF Opened, Shape
  <2> QED  BY <1>0, <2>1, <2>2 DEF Shape, Prefix
<1>3. CASE Open(d)
  <2>1. /\ part'[d] = part[d] /\ start'[d] = Resumed(d) /\ pc'[d] = "request"
    BY <1>3 DEF Open, Goto, files
  <2> QED  BY <1>0, <2>1 DEF Shape, Resumed, Prefix
<1>4. CASE Renamed(d) \/ Mismatch(d)
  <2>1. part'[d] = <<>> /\ pc'[d] = "revoke" /\ start'[d] = start[d]
    BY <1>4 DEF Renamed, Mismatch, Goto, download
  <2> QED  BY <1>0, <2>1, Nothing DEF Shape, Prefix
<1>5. CASE Break(d)
  <2>1. CASE Another(d)
    <3>1. part'[d] = part[d] /\ start'[d] = Continued(d) /\ pc'[d] = "request"
      BY <1>5, <2>1 DEF Break, Goto
    <3>2. CASE opt.resume
      BY <1>0, <3>1, <3>2 DEF Shape, Prefix, Continued
    <3>3. CASE ~opt.resume
      BY <1>0, <3>1, <3>3 DEF Shape, Prefix, Continued
    <3> QED  BY <3>2, <3>3
  <2>2. CASE ~Another(d)
    <3>1. part'[d] = <<>> /\ pc'[d] = "revoke" /\ start'[d] = start[d]
      BY <1>5, <2>2 DEF Break, Goto
    <3> QED  BY <1>0, <3>1, Nothing DEF Shape, Prefix
  <2> QED  BY <2>1, <2>2
<1>6. ASSUME part'[d] = part[d], start'[d] = start[d], pc'[d] \notin {"request", "stream"} PROVE Shape(d)'
  BY <1>0, <1>6 DEF Shape, Prefix
<1>7. CASE Begin(d)
  BY <1>6, <1>7 DEF Begin, Goto, download, files
<1>8. CASE Snapshot(d)
  BY <1>6, <1>8 DEF Snapshot, Create, CreateFail, Goto, download, files
<1>9. CASE Stage(d)
  BY <1>6, <1>9 DEF Stage, Create, CreateFail, Goto, download, files
<1>10. CASE Grant(d) \/ GrantFail(d)
  BY <1>6, <1>10 DEF Grant, GrantFail, Goto, download, files
<1>11. CASE Revoke(d)
  BY <1>6, <1>11 DEF Revoke, Goto, download, files
<1>12. CASE Unstage(d) \/ Unsnap(d)
  BY <1>6, <1>12 DEF Unstage, Unsnap, Delete, Goto, download, files
<1> QED  BY <1>1, <1>2, <1>3, <1>4, <1>5, <1>7, <1>8, <1>9, <1>10, <1>11, <1>12 DEF Export

\* Every step keeps types and shapes.
LEMMA TypedStep == Typed /\ [Next]_vars => Typed'
<1> SUFFICES ASSUME Typed, [Next]_vars PROVE Typed'
  OBVIOUS
<1>1. CASE UNCHANGED vars
  BY <1>1 DEF vars, Typed, TypeOK, Shaped, Shape, Prefix
<1>2. ASSUME NEW d \in Disks, Export(d) PROVE Typed'
  <2>1. ASSUME NEW g \in Disks, g # d PROVE Shape(g)'
    <3>1. Shape(g)
      BY DEF Typed, Shaped
    <3> QED  BY <1>2, <2>1, <3>1, ExportLocal, ExportQuiet DEF Shape, Prefix
  <2>2. Shaped'
    BY <1>2, <2>1, ShapedExport DEF Shaped
  <2> QED  BY <1>2, <2>2, TypedExport DEF Typed
<1>3. CASE Manage
  <2>1. Shaped'
    BY <1>3, ManageQuiet DEF Typed, Shaped, Shape, Prefix
  <2>2. phase' \in {"exporting", "returned"} /\ result' \in [Disks -> {"none", "ok", "failed"}]
    BY <1>3 DEF Manage, Return, Collect, Typed, TypeOK
  <2>3. report' \in [created : SUBSET Resources, deleted : SUBSET Resources]
    <3>1. CASE Return
      BY <3>1 DEF Return, Typed, TypeOK
    <3>2. ASSUME NEW d \in Disks, Collect(d)
          PROVE  report' \in [created : SUBSET Resources, deleted : SUBSET Resources]
      <4>1. report.created \subseteq Resources /\ report.deleted \subseteq Resources
        BY DEF Typed, TypeOK
      <4>2. item[d] \subseteq {"snapshot", "disk"}
        BY DEF Typed, TypeOK
      <4>3. {<<k, d>> : k \in item[d]} \subseteq Resources
        BY <4>2 DEF Resources
      <4>4. Gone(d) \subseteq Resources
        BY <4>2 DEF Gone, Called, Resources
      <4> QED  BY <3>2, <4>1, <4>3, <4>4 DEF Collect, Typed, TypeOK
    <3> QED  BY <1>3, <3>1, <3>2 DEF Manage
  <2> QED  BY <1>3, <2>1, <2>2, <2>3, ManageQuiet DEF Typed, TypeOK
<1>4. CASE Rerun
  <2>1. opt' = opt /\ run' \in Runs /\ opt.retries \in Nat \ {0} /\ Size \in Nat
    BY <1>4, AzureAssumption DEF Rerun, Typed, TypeOK, Runs, Configs
  <2>2. /\ exists' \in [Disks -> BOOLEAN] /\ local' \in [Disks -> Seq(Block)]
        /\ part' \in [Disks -> Seq(Block)] /\ \A d \in Disks : Prefix(part'[d])
    <3>1. CASE Shared
      BY <1>4, <3>1 DEF Rerun, files, Typed, TypeOK, Shaped, Shape
    <3>2. CASE ~Shared
      BY <1>4, <3>2, Nothing DEF Rerun
    <3> QED  BY <3>1, <3>2
  <2>3. Shaped'
    BY <1>4, <2>2 DEF Rerun, Shaped, Shape, Prefix
  <2>4. TypeOK'
    BY <1>4, <2>1, <2>2 DEF Rerun, Typed, TypeOK, Active
  <2> QED  BY <2>3, <2>4 DEF Typed
<1> QED  BY <1>1, <1>2, <1>3, <1>4 DEF Next

\* The variables have their types: no attempt beyond the retries, no block
\* beyond the end of the VHD, whatever is resumed.
THEOREM TypeCorrect == Spec => []TypeOK
<1>1. Typed => TypeOK
  BY DEF Typed
<1> QED  BY <1>1, TypedInit, TypedStep, PTL DEF Spec

-----------------------------------------------------------------------------
(* The VHDs.                                                               *)

\* What an export of a disk does to the file it leaves.
LEMMA ExactExport ==
    ASSUME Typed, NEW d \in Disks, Export(d), Exact(d) PROVE Exact(d)'
<1> USE DEF Typed, TypeOK
<1>0. opt' = opt
  BY ExportQuiet
<1>1. CASE Renamed(d)
  <2> SUFFICES ASSUME Firm PROVE Whole(d)'
    BY <1>0 DEF Exact, Firm
  <2>1. /\ local'[d] = part[d] /\ exists'[d] = TRUE /\ pc[d] = "stream" /\ ~Short(d)
    BY <1>1 DEF Renamed, Firm
  <2>2. Len(part[d]) = Size /\ Prefix(part[d])
    BY <2>1, AzureAssumption DEF Short, Shaped, Shape, Prefix
  <2> QED  BY <2>1, <2>2 DEF Whole, Prefix
<1>2. ASSUME ok'[d] = ok[d], exists'[d] = exists[d], local'[d] = local[d] PROVE Exact(d)'
  BY <1>0, <1>2 DEF Exact, Firm, Whole
<1>3. CASE ~Renamed(d)
  <2>1. ok'[d] = ok[d] /\ exists'[d] = exists[d] /\ local'[d] = local[d]
    BY <1>3 DEF Export, Begin, Snapshot, Stage, Create, CreateFail, Grant, GrantFail, Open,
                Respond, Receive, Mismatch, Break, Revoke, Unstage, Unsnap, Delete, files
  <2> QED  BY <1>2, <2>1
<1> QED  BY <1>1, <1>3

\* What an export writes is of its run.
LEMMA OwnExport ==
    ASSUME Typed, Typed', NEW d \in Disks, Export(d), Exact(d), Own(d) PROVE Own(d)'
<1> USE DEF Typed, TypeOK
<1>0. opt' = opt /\ run' = run
  BY ExportQuiet
<1>1. CASE Renamed(d)
  <2>0. local'[d] = part[d] /\ part'[d] = <<>> /\ pc[d] = "stream"
    BY <1>1 DEF Renamed
  <2>1. ASSUME Firm, ~(opt.userTag /\ opt.resume)
        PROVE  \A i \in 1..Size : local'[d][i] = <<i, run>>
    <3>1. ~Short(d) /\ Shape(d)
      BY <1>1, <2>1 DEF Renamed, Firm, Shaped
    <3>2. Len(part[d]) = Size
      BY <2>0, <3>1, AzureAssumption DEF Short, Shape, Prefix
    <3>3. \A i \in 1..Len(part[d]) : part[d][i] = <<i, run>>
      BY <2>0, <2>1 DEF Own
    <3> QED  BY <2>0, <3>2, <3>3
  <2>2. Len(part'[d]) = 0
    BY <2>0
  <2> QED  BY <1>0, <2>1, <2>2 DEF Own, Firm
<1>2. CASE Receive(d)
  <2>1. /\ next[d] \in 1..Size /\ pc[d] = "stream" /\ part[d] \in Seq(Block)
        /\ Len(part[d]) = next[d] - 1 /\ part'[d] = Append(part[d], <<next[d], run>>)
        /\ ok' = ok /\ local' = local /\ pc' = pc
    <3>1. /\ pc[d] = "stream" /\ next[d] <= Size
          /\ part' = [part EXCEPT ![d] = Append(@, <<next[d], run>>)]
          /\ ok' = ok /\ local' = local /\ pc' = pc
      BY <1>2 DEF Receive
    <3>2. Len(part[d]) = next[d] - 1
      BY <3>1 DEF Shaped, Shape
    <3>3. next[d] \in 1..Size
      BY <3>1, AzureAssumption
    <3> QED  BY <3>1, <3>2, <3>3
  <2>2. ASSUME ~(opt.userTag /\ opt.resume), NEW i \in 1..Len(part'[d])
        PROVE  part'[d][i] = <<i, run>>
    <3>1. CASE i = next[d]
      BY <2>1, <3>1
    <3>2. CASE i # next[d]
      <4>1. i \in 1..Len(part[d]) /\ part'[d][i] = part[d][i]
        BY <2>1, <3>2
      <4> QED  BY <2>1, <2>2, <4>1 DEF Own
    <3> QED  BY <3>1, <3>2
  <2> QED  BY <1>0, <2>1, <2>2 DEF Own, Firm
<1>3. CASE Respond(d)
  <2>1. part'[d] = Opened(d) /\ ok' = ok /\ local' = local /\ pc[d] = "request"
    BY <1>3 DEF Respond
  <2>2. ASSUME ~(opt.userTag /\ opt.resume), NEW i \in 1..Len(part'[d])
        PROVE  part'[d][i] = <<i, run>>
    <3>1. CASE start[d] > 0
      <4>1. opt.resume /\ ~opt.userTag /\ part'[d] = part[d]
        BY <2>1, <2>2, <3>1 DEF Opened, Shaped, Shape
      <4> QED  BY <2>2, <4>1 DEF Own
    <3>2. CASE ~(start[d] > 0)
      BY <2>1, <2>2, <3>2 DEF Opened
    <3> QED  BY <3>1, <3>2
  <2> QED  BY <1>0, <2>1, <2>2 DEF Own, Firm
<1>4. ASSUME ok'[d] = ok[d], local'[d] = local[d], pc'[d] # "stream",
             part'[d] = part[d] \/ part'[d] = <<>>
      PROVE  Own(d)'
  <2>1. CASE part'[d] = part[d]
    BY <1>0, <1>4, <2>1 DEF Own, Firm
  <2>2. CASE part'[d] = <<>>
    <3>1. Len(part'[d]) = 0
      BY <2>2
    <3> QED  BY <1>0, <1>4, <3>1 DEF Own, Firm
  <2> QED  BY <1>4, <2>1, <2>2
<1>5. CASE Begin(d)
  BY <1>4, <1>5 DEF Begin, Goto, files
<1>6. CASE Snapshot(d)
  BY <1>4, <1>6 DEF Snapshot, Create, CreateFail, Goto, files
<1>7. CASE Stage(d)
  BY <1>4, <1>7 DEF Stage, Create, CreateFail, Goto, files
<1>8. CASE Grant(d) \/ GrantFail(d)
  BY <1>4, <1>8 DEF Grant, GrantFail, Goto, files
<1>9. CASE Open(d)
  BY <1>4, <1>9 DEF Open, Goto, files
<1>10. CASE Mismatch(d)
  BY <1>4, <1>10 DEF Mismatch, Goto
<1>11. CASE Break(d)
  BY <1>4, <1>11 DEF Break, Goto
<1>12. CASE Revoke(d)
  BY <1>4, <1>12 DEF Revoke, Goto, files
<1>13. CASE Unstage(d) \/ Unsnap(d)
  BY <1>4, <1>13 DEF Unstage, Unsnap, Delete, Goto, files
<1> QED  BY <1>1, <1>2, <1>3, <1>5, <1>6, <1>7, <1>8, <1>9, <1>10, <1>11, <1>12, <1>13
         DEF Export

-----------------------------------------------------------------------------
(* The cloud.                                                              *)

\* The kind of what is exported.
LEMMA ExportedKind ==
    ASSUME NEW d \in Disks
    PROVE  \E k \in Kinds : Exported(d) = <<k, d>>
BY DEF Exported, Kinds

\* A step of an export that leaves the cloud alone and does not pass a clean-up.
LEMMA CleanQuiet ==
    ASSUME NEW d \in Disks, Clean(d), UNCHANGED <<opt, cloud, access, doubtful>>,
           item'[d] = item[d], sas'[d] = sas[d], result'[d] = result[d], pc[d] \in Active,
           \/ pc'[d] = pc[d] /\ ok'[d] = ok[d]
           \/ /\ pc'[d] \in {"open", "request", "stream", "revoke"} /\ ~ok[d]
              /\ pc[d] \in {"open", "request", "stream"}
              /\ ok'[d] = ok[d] \/ pc'[d] = "revoke"
    PROVE  Clean(d)'
<1>0. Exported(d)' = Exported(d)
  BY DEF Exported
<1>1. CASE pc'[d] = pc[d] /\ ok'[d] = ok[d]
  BY <1>0, <1>1 DEF Clean
<1>2. CASE ~(pc'[d] = pc[d] /\ ok'[d] = ok[d])
  <2>1. /\ pc'[d] \in {"open", "request", "stream", "revoke"}
        /\ pc[d] \in {"open", "request", "stream"} /\ ~ok[d]
        /\ ok'[d] = ok[d] \/ pc'[d] = "revoke"
    BY <1>2
  <2>2. \A k \in Kinds : <<k, d>> \in cloud => k \in item[d]
    BY <2>1 DEF Clean
  <2>3. \A k \in Kinds : <<k, d>> \in access =>
           <<k, d>> \in doubtful \/ (sas[d] /\ <<k, d>> = Exported(d))
    BY DEF Clean
  <2>4. result[d] # "ok" /\ result[d] # "failed"
    BY <2>1 DEF Clean
  <2> QED  BY <1>0, <2>1, <2>2, <2>3, <2>4 DEF Clean
<1> QED  BY <1>1, <1>2

\* Every step of an export cleans up as it should.
LEMMA CleanExport ==
    ASSUME Typed, NEW d \in Disks, Export(d), Clean(d) PROVE Clean(d)'
<1> USE DEF Typed, TypeOK
<1>0. /\ opt' = opt /\ result' = result /\ Exported(d)' = Exported(d)
  BY ExportQuiet DEF Exported
<1>1. CASE Begin(d)
  <2>1. /\ pc[d] = "queued" /\ pc'[d] \in {"snapshot", "grant"} /\ item' = item /\ sas' = sas
        /\ ok' = ok /\ cloud' = cloud /\ access' = access /\ doubtful' = doubtful
    BY <1>1 DEF Begin, Goto, azure
  <2> QED  BY <1>0, <2>1 DEF Clean
<1>2. ASSUME NEW h \in {"snapshot", "stage"}, NEW k \in {"snapshot", "disk"},
             NEW t \in {"stage", "grant"}, Create(d, h, k, t)
      PROVE  Clean(d)'
  <2>1. /\ pc[d] = h /\ pc'[d] = t /\ item'[d] = item[d] \cup {k} /\ sas' = sas
        /\ ok' = ok /\ cloud' = cloud \cup {<<k, d>>} /\ access' = access
        /\ doubtful' = doubtful
    BY <1>2 DEF Create, Goto
  <2> QED  BY <1>0, <2>1 DEF Clean
<1>3. ASSUME NEW h \in {"snapshot", "stage"}, NEW k \in {"snapshot", "disk"},
             CreateFail(d, h, k)
      PROVE  Clean(d)'
  <2>1. /\ pc[d] = h /\ pc'[d] = "revoke" /\ item' = item /\ sas' = sas
        /\ ok' = ok /\ cloud' \subseteq cloud \cup {<<k, d>>} /\ access' = access
        /\ doubtful' = doubtful \cup {<<k, d>>}
    BY <1>3 DEF CreateFail, Goto
  <2>2. ~ok[d] /\ result[d] # "ok" /\ result[d] # "failed"
    BY <2>1 DEF Clean
  <2> QED  BY <1>0, <2>1, <2>2 DEF Clean
<1>4. CASE Grant(d)
  <2>1. /\ pc[d] = "grant" /\ pc'[d] = "open" /\ item' = item /\ sas'[d] = TRUE
        /\ ok' = ok /\ cloud' = cloud /\ access' = access \cup {Exported(d)}
        /\ doubtful' = doubtful
    BY <1>4 DEF Grant, Goto
  <2> QED  BY <1>0, <2>1 DEF Clean
<1>5. CASE GrantFail(d)
  <2>1. /\ pc[d] = "grant" /\ pc'[d] = "revoke" /\ item' = item /\ sas' = sas
        /\ ok' = ok /\ cloud' = cloud /\ access' \subseteq access \cup {Exported(d)}
        /\ doubtful' = doubtful \cup {Exported(d)}
    BY <1>5 DEF GrantFail, Goto
  <2> QED  BY <1>0, <2>1 DEF Clean
<1>6. CASE Open(d)
  BY <1>0, <1>6, CleanQuiet DEF Open, Goto, azure, Clean, Active
<1>7. CASE Respond(d)
  BY <1>0, <1>7, CleanQuiet DEF Respond, Goto, azure, Clean, Active
<1>8. CASE Receive(d)
  BY <1>0, <1>8, CleanQuiet DEF Receive, azure, Active
<1>9. CASE Renamed(d)
  BY <1>0, <1>9, CleanQuiet DEF Renamed, Goto, azure, Clean, Active
<1>10. CASE Mismatch(d)
  BY <1>0, <1>10, CleanQuiet DEF Mismatch, Goto, azure, Clean, Active
<1>11. CASE Break(d)
  <2>1. /\ pc[d] \in {"request", "stream"} /\ pc'[d] \in {"request", "revoke"}
        /\ item' = item /\ sas' = sas /\ ok' = ok /\ cloud' = cloud /\ access' = access
        /\ doubtful' = doubtful
    BY <1>11 DEF Break, Goto, azure
  <2> QED  BY <1>0, <2>1, CleanQuiet DEF Clean, Active
<1>12. CASE Revoke(d)
  <2>1. /\ pc[d] = "revoke" /\ pc'[d] = "unstage" /\ item' = item /\ sas' = sas
        /\ ok' = ok /\ cloud' = cloud
    BY <1>12 DEF Revoke, Goto, azure
  <2>2. doubtful \subseteq doubtful' /\ access' \subseteq access
    BY <1>12 DEF Revoke, azure
  <2>3. \A k \in Kinds : <<k, d>> \in access' => <<k, d>> \in doubtful'
    <3>1. CASE ~sas[d]
      BY <2>2, <3>1 DEF Clean
    <3>2. CASE sas[d]
      <4>1. Exported(d) \notin access' \/ Exported(d) \in doubtful'
        BY <1>12, <3>2 DEF Revoke, Granted
      <4> QED  BY <2>2, <4>1 DEF Clean
    <3> QED  BY <3>1, <3>2
  <2> QED  BY <1>0, <2>1, <2>2, <2>3 DEF Clean
<1>13. ASSUME NEW h \in {"unstage", "unsnap"}, NEW k \in {"snapshot", "disk"}, NEW t,
             Delete(d, h, k, t)
      PROVE  /\ pc[d] = h /\ pc'[d] = t /\ item' = item /\ sas' = sas /\ ok' = ok
             /\ access' = access /\ cloud' \subseteq cloud /\ doubtful \subseteq doubtful'
             /\ <<k, d>> \in cloud' => k \notin item[d] \/ k \in opt.keep \/ <<k, d>> \in doubtful'
  BY <1>13 DEF Delete, Goto, Doomed
<1>14. CASE Unstage(d)
  <2>1. /\ pc[d] = "unstage" /\ pc'[d] = "unsnap" /\ item' = item /\ sas' = sas /\ ok' = ok
        /\ access' = access /\ cloud' \subseteq cloud /\ doubtful \subseteq doubtful'
        /\ <<"disk", d>> \in cloud' =>
              "disk" \notin item[d] \/ "disk" \in opt.keep \/ <<"disk", d>> \in doubtful'
    BY <1>13, <1>14 DEF Unstage
  <2>2. <<"disk", d>> \in cloud' => "disk" \in opt.keep \/ <<"disk", d>> \in doubtful'
    BY <2>1 DEF Clean, Kinds
  <2> QED  BY <1>0, <2>1, <2>2 DEF Clean
<1>15. CASE Unsnap(d)
  <2>1. /\ pc[d] = "unsnap" /\ pc'[d] = (IF ok[d] THEN "done" ELSE "error") /\ item' = item
        /\ sas' = sas /\ ok' = ok /\ access' = access /\ cloud' \subseteq cloud
        /\ doubtful \subseteq doubtful'
        /\ <<"snapshot", d>> \in cloud' => \/ "snapshot" \notin item[d]
                                         \/ "snapshot" \in opt.keep
                                         \/ <<"snapshot", d>> \in doubtful'
    BY <1>13, <1>15 DEF Unsnap
  <2>2. /\ <<"snapshot", d>> \in cloud' => "snapshot" \in opt.keep \/ <<"snapshot", d>> \in doubtful'
        /\ <<"disk", d>> \in cloud' => "disk" \in opt.keep \/ <<"disk", d>> \in doubtful'
    BY <2>1 DEF Clean, Kinds
  <2>3. result[d] # "ok" /\ result[d] # "failed"
    BY <2>1 DEF Clean
  <2> QED  BY <1>0, <2>1, <2>2, <2>3 DEF Clean
<1>16. CASE Snapshot(d)
  BY <1>2, <1>3, <1>16 DEF Snapshot
<1>17. CASE Stage(d)
  BY <1>2, <1>3, <1>17 DEF Stage
<1> QED  BY <1>1, <1>4, <1>5, <1>6, <1>7, <1>8, <1>9, <1>10, <1>11, <1>12, <1>14, <1>15,
            <1>16, <1>17 DEF Export

-----------------------------------------------------------------------------
(* The invariant.                                                          *)

\* What holds of a disk depends on its own variables only.
LEMMA Frame ==
    ASSUME NEW g \in Disks, Exact(g), Own(g), Clean(g), opt' = opt, run' = run,
           result'[g] = result[g], pc'[g] = pc[g], item'[g] = item[g], sas'[g] = sas[g],
           ok'[g] = ok[g], exists'[g] = exists[g], local'[g] = local[g], part'[g] = part[g],
           \A k \in Kinds : /\ <<k, g>> \in cloud' <=> <<k, g>> \in cloud
                            /\ <<k, g>> \in access' <=> <<k, g>> \in access
                            /\ <<k, g>> \in doubtful' <=> <<k, g>> \in doubtful
    PROVE  Exact(g)' /\ Own(g)' /\ Clean(g)'
<1>1. Exact(g)'
  BY DEF Exact, Firm, Whole
<1>2. Own(g)'
  BY DEF Own, Firm
<1>3. Clean(g)'
  <2>1. Exported(g)' = Exported(g)
    BY DEF Exported
  <2> QED  BY <2>1 DEF Clean, Kinds
<1> QED  BY <1>1, <1>2, <1>3

\* Init is clean.
LEMMA IInvInit == Init => IInv
<1> SUFFICES ASSUME Init PROVE IInv
  OBVIOUS
<1>1. \A d \in Disks : Exact(d) /\ Own(d) /\ Clean(d)
  <2> SUFFICES ASSUME NEW d \in Disks PROVE Exact(d) /\ Own(d) /\ Clean(d)
    OBVIOUS
  <2>1. Len(part[d]) = 0 /\ ~ok[d] /\ pc[d] = "queued" /\ result[d] = "none"
    BY DEF Init
  <2> QED  BY <2>1 DEF Init, Exact, Own, Clean
<1>2. Told
  BY DEF Init, Told
<1> QED  BY <1>1, <1>2, TypedInit DEF IInv

\* An export whose result is known takes no step.
LEMMA Over ==
    ASSUME NEW d \in Disks, Export(d)
    PROVE  pc[d] \notin {"done", "error"}
BY DEF Export, Begin, Snapshot, Stage, Create, CreateFail, Grant, GrantFail, Open, Respond,
       Receive, Renamed, Mismatch, Break, Revoke, Unstage, Unsnap, Delete

\* A resource is that of a disk.
LEMMA ResourceOf ==
    ASSUME NEW r \in Resources
    PROVE  r[1] \in Kinds /\ r[2] \in Disks /\ r = <<r[1], r[2]>>
BY DEF Resources, Kinds

\* Every step of an export keeps what is told.
LEMMA ToldExport == ASSUME IInv, NEW d \in Disks, Export(d) PROVE Told'
<1>0. result' = result /\ report' = report /\ phase' = phase
  BY ExportQuiet
<1>1. Typed /\ Told /\ \A g \in Disks : Clean(g)
  BY DEF IInv
<1>2. \A g \in Disks : result[g] = "ok" => g # d
  BY <1>1, Over DEF Clean
<1>3. ASSUME NEW r \in report'.deleted PROVE result'[r[2]] = "ok" /\ r \notin cloud'
  <2>1. r \in report.deleted /\ r \in Resources
    BY <1>0, <1>1, <1>3 DEF Typed, TypeOK
  <2>2. result[r[2]] = "ok" /\ r \notin cloud /\ r[2] \in Disks /\ r[2] # d
    BY <1>1, <1>2, <2>1, ResourceOf DEF Told
  <2>3. <<r[1], r[2]>> \notin cloud'
    BY <1>1, <2>1, <2>2, ExportLocal, ResourceOf
  <2> QED  BY <1>0, <2>1, <2>2, <2>3, ResourceOf
<1>4. ASSUME NEW g \in Disks, result'[g] = "ok", NEW k \in item'[g]
      PROVE  <<k, g>> \in report'.created
  <2>1. g # d /\ item'[g] = item[g]
    BY <1>0, <1>1, <1>2, <1>4, ExportLocal
  <2> QED  BY <1>0, <1>1, <1>4, <2>1 DEF Told
<1>5. phase' = "returned" => Settled'
  BY <1>0, <1>1 DEF Told, Settled
<1> QED  BY <1>3, <1>4, <1>5 DEF Told

\* What is collected is told as it is.
LEMMA ToldCollect == ASSUME IInv, NEW d \in Disks, Collect(d) PROVE Told'
<1>0. /\ phase = "exporting" /\ phase' = phase /\ item' = item /\ cloud' = cloud
      /\ result[d] = "none" /\ pc[d] \in {"done", "error"}
      /\ result \in [Disks -> {"none", "ok", "failed"}]
  BY DEF Collect, azure, IInv, Typed, TypeOK
<1>1. Told /\ Clean(d)
  BY DEF IInv
<1>2. CASE pc[d] = "error"
  <2>1. result' = [result EXCEPT ![d] = "failed"] /\ report' = report
    BY <1>2 DEF Collect
  <2>2. \A g \in Disks : (result'[g] = "ok" <=> result[g] = "ok")
    BY <1>0, <2>1
  <2>3. \A r \in report.deleted : r[2] \in Disks
    BY ResourceOf DEF IInv, Typed, TypeOK
  <2> QED  BY <1>0, <1>1, <2>1, <2>2, <2>3 DEF Told
<1>3. CASE pc[d] = "done"
  <2>1. /\ result' = [result EXCEPT ![d] = "ok"]
        /\ report'.created = report.created \cup {<<k, d>> : k \in item[d]}
        /\ report'.deleted = report.deleted \cup Gone(d)
    BY <1>3 DEF Collect
  <2>2. ASSUME NEW r \in Gone(d) PROVE r[2] = d /\ r \notin cloud
    <3>1. PICK k \in item[d] \ opt.keep : r = <<k, d>> /\ r \notin doubtful
      BY <2>2 DEF Gone, Called
    <3>2. k \in {"snapshot", "disk"}
      BY <3>1 DEF IInv, Typed, TypeOK
    <3> QED  BY <1>1, <1>3, <3>1, <3>2 DEF Clean
  <2>3. \A r \in report.deleted : r[2] \in Disks /\ result[r[2]] = "ok" /\ r \notin cloud
    BY <1>1, ResourceOf DEF Told, IInv, Typed, TypeOK
  <2>4. \A g \in Disks : result[g] = "ok" => result'[g] = "ok"
    BY <1>0, <2>1
  <2>5. \A r \in report'.deleted : result'[r[2]] = "ok" /\ r \notin cloud'
    BY <1>0, <2>1, <2>2, <2>3, <2>4
  <2>6. \A g \in Disks : result'[g] = "ok" => \A k \in item'[g] : <<k, g>> \in report'.created
    BY <1>0, <1>1, <2>1 DEF Told
  <2> QED  BY <1>0, <2>5, <2>6 DEF Told
<1> QED  BY <1>0, <1>2, <1>3

\* Every step keeps the invariant.
LEMMA IInvStep == IInv /\ [Next]_vars => IInv'
<1> SUFFICES ASSUME IInv, [Next]_vars PROVE IInv'
  OBVIOUS
<1>0. Typed /\ Typed' /\ Told /\ \A d \in Disks : Exact(d) /\ Own(d) /\ Clean(d)
  BY TypedStep DEF IInv
<1>1. CASE UNCHANGED vars
  <2>1. \A d \in Disks : Exact(d)' /\ Own(d)' /\ Clean(d)'
    BY <1>0, <1>1, Frame DEF vars
  <2>2. Told'
    BY <1>0, <1>1 DEF vars, Told, Settled
  <2> QED  BY <1>0, <2>1, <2>2 DEF IInv
<1>2. ASSUME NEW d \in Disks, Export(d) PROVE IInv'
  <2>1. ASSUME NEW g \in Disks, g # d PROVE Exact(g)' /\ Own(g)' /\ Clean(g)'
    BY <1>0, <1>2, <2>1, ExportLocal, ExportQuiet, Frame
  <2>2. Exact(d)' /\ Own(d)' /\ Clean(d)'
    BY <1>0, <1>2, ExactExport, OwnExport, CleanExport
  <2> QED  BY <1>0, <1>2, <2>1, <2>2, ToldExport DEF IInv
<1>3. ASSUME NEW d \in Disks, Collect(d) PROVE IInv'
  <2>1. ASSUME NEW g \in Disks, g # d PROVE Exact(g)' /\ Own(g)' /\ Clean(g)'
    <3>0. /\ result' = [result EXCEPT ![d] = "ok"] \/ result' = [result EXCEPT ![d] = "failed"]
          /\ DOMAIN result = Disks
      BY <1>0, <1>3 DEF Collect, Typed, TypeOK
    <3>1. result'[g] = result[g]
      BY <2>1, <3>0
    <3>2. /\ opt' = opt /\ run' = run /\ pc' = pc /\ item' = item /\ sas' = sas /\ ok' = ok
          /\ cloud' = cloud /\ access' = access /\ doubtful' = doubtful
          /\ exists' = exists /\ local' = local /\ part' = part
      BY <1>3, ManageQuiet DEF Manage
    <3>3. Exact(g) /\ Own(g) /\ Clean(g)
      BY <1>0
    <3> QED  BY <3>1, <3>2, <3>3, Frame
  <2>2. Exact(d)' /\ Own(d)'
    BY <1>0, <1>3, ManageQuiet DEF Manage, Exact, Own, Firm, Whole
  <2>3. Clean(d)'
    <3>1. result'[d] = IF pc[d] = "done" THEN "ok" ELSE "failed"
      BY <1>0, <1>3 DEF Collect, Typed, TypeOK
    <3>2. Exported(d)' = Exported(d)
      BY <1>3, ManageQuiet DEF Manage, Exported
    <3>3. pc[d] \in {"done", "error"}
      BY <1>3 DEF Collect
    <3> QED  BY <1>0, <1>3, <3>1, <3>2, <3>3, ManageQuiet DEF Manage, Clean
  <2> QED  BY <1>0, <1>3, <2>1, <2>2, <2>3, ToldCollect DEF IInv
<1>4. CASE Return
  <2>1. result' = result /\ report' = report
    BY <1>4 DEF Return
  <2>2. \A d \in Disks : Exact(d)' /\ Own(d)' /\ Clean(d)'
    BY <1>0, <1>4, <2>1, ManageQuiet, Frame DEF Manage
  <2>3. Told'
    BY <1>0, <1>4, <2>1, ManageQuiet DEF Return, Manage, Told, Settled
  <2> QED  BY <1>0, <2>2, <2>3 DEF IInv
<1>5. CASE Rerun
  <2>1. ASSUME NEW d \in Disks PROVE Exact(d)' /\ Own(d)' /\ Clean(d)'
    <3>1. /\ ~ok'[d] /\ pc'[d] = "queued" /\ result'[d] = "none" /\ cloud' = {}
          /\ access' = {} /\ opt' = opt
      BY <1>5 DEF Rerun
    <3>2. ~opt.userTag => part'[d] = <<>>
      BY <1>5 DEF Rerun, Shared
    <3> QED  BY <3>1, <3>2 DEF Exact, Own, Clean
  <2>2. Told'
    BY <1>5 DEF Rerun, Told
  <2> QED  BY <1>0, <2>1, <2>2 DEF IInv
<1> QED  BY <1>1, <1>2, <1>3, <1>4, <1>5 DEF Next, Manage

\* The invariant holds.
LEMMA Invariant == Spec => []IInv
BY IInvInit, IInvStep, PTL DEF Spec

-----------------------------------------------------------------------------
(* What follows.                                                           *)

\* An export that succeeds has left the whole VHD: every block once and in its
\* place, through broken streams, retries, resumed .part files and kills.
THEOREM ExportsWhole == Spec => []ExportWhole
<1>1. IInv => ExportWhole
  BY DEF IInv, Exact, ExportWhole
<1> QED  BY <1>1, Invariant, PTL

\* A VHD is of the snapshot of one run, unless a .part file in a directory that
\* the user makes runs share is resumed.
THEOREM SameImage == Spec => []OneImage
<1>1. IInv => OneImage
  BY DEF IInv, Own, OneImage
<1> QED  BY <1>1, Invariant, PTL

LEMMA NothingLeft == ASSUME IInv PROVE CleanedUp
<1> SUFFICES ASSUME phase = "returned" PROVE CleanedUp
  BY DEF CleanedUp
<1>1. \A d \in Disks : result[d] # "none" /\ Clean(d)
  BY DEF IInv, Told, Settled
<1>2. \A d \in Disks : pc[d] \in {"done", "error"}
  BY <1>1 DEF IInv, Typed, TypeOK, Clean
<1>3. ASSUME NEW r \in cloud PROVE Kept(r) \/ r \in doubtful
  <2>1. PICK d \in Disks, k \in Kinds : r = <<k, d>>
    BY ResourceOf DEF IInv, Typed, TypeOK
  <2>2. k \in {"snapshot", "disk"} \/ r \in doubtful
    BY <1>1, <2>1 DEF Clean, IInv, Typed, TypeOK
  <2> QED  BY <1>1, <1>2, <2>1, <2>2 DEF Clean, Kept
<1>4. ASSUME NEW r \in access PROVE r \in doubtful
  <2>1. PICK d \in Disks, k \in Kinds : r = <<k, d>>
    BY ResourceOf DEF IInv, Typed, TypeOK
  <2> QED  BY <1>1, <1>2, <2>1 DEF Clean
<1> QED  BY <1>3, <1>4 DEF CleanedUp

\* When fetch returns it has left no snapshot, temporary disk or SAS behind but
\* those it was told to keep and those about which a call failed.
THEOREM LeavesNothing == Spec => []CleanedUp
<1>1. IInv => CleanedUp  BY NothingLeft
<1> QED  BY <1>1, Invariant, PTL

\* What is reported as deleted does not exist, and what exists of a disk that
\* was exported is reported as created.
THEOREM Honest == Spec => []ReportTrue
<1>1. IInv => ReportTrue
  <2> SUFFICES ASSUME IInv PROVE ReportTrue
    OBVIOUS
  <2>1. report.deleted \cap cloud = {}
    BY DEF IInv, Told
  <2>2. ASSUME NEW r \in cloud, result[r[2]] = "ok"
        PROVE  r \in report.created \ report.deleted
    <3>1. PICK d \in Disks, k \in Kinds : r = <<k, d>>
      BY ResourceOf DEF IInv, Typed, TypeOK
    <3>2. k \in item[d]
      BY <2>2, <3>1 DEF IInv, Clean
    <3> QED  BY <2>1, <2>2, <3>1, <3>2 DEF IInv, Told
  <2> QED  BY <2>1, <2>2 DEF ReportTrue
<1> QED  BY <1>1, Invariant, PTL

\* A step of an export that removes a resource is one of the two deletions.
LEMMA Removal ==
    ASSUME IInv, NEW d \in Disks, Export(d), NEW r \in cloud, r \notin cloud'
    PROVE  \/ r = <<"disk", d>> /\ pc[d] = "unstage"
           \/ r = <<"snapshot", d>> /\ pc[d] = "unsnap"
BY DEF Export, Begin, Snapshot, Stage, Create, CreateFail, Grant, GrantFail, Open, Respond,
       Receive, Renamed, Mismatch, Break, Revoke, Unstage, Unsnap, Delete, azure

LEMMA RemovedNext == ASSUME IInv, [Next]_vars PROVE RemovedInOrder
<1> SUFFICES ASSUME NEW r \in cloud, r \notin cloud', run' = run
             PROVE  /\ (r \in access => r \in doubtful)
                    /\ (r[1] = "snapshot" /\ <<"disk", r[2]>> \in cloud
                          => Kept(<<"disk", r[2]>>) \/ <<"disk", r[2]>> \in doubtful)
  BY DEF RemovedInOrder
<1>0. Next  BY DEF vars
<1>1. ~Manage
  BY ManageQuiet
<1>2. ~Rerun
  BY DEF Rerun, IInv, Typed, TypeOK, Runs
<1>3. PICK d \in Disks : Export(d)
  BY <1>0, <1>1, <1>2 DEF Next
<1>4. \/ r = <<"disk", d>> /\ pc[d] = "unstage"
      \/ r = <<"snapshot", d>> /\ pc[d] = "unsnap"
  BY <1>3, Removal
<1>5. Clean(d)
  BY DEF IInv
<1>6. r \in access => r \in doubtful
  BY <1>4, <1>5 DEF Clean, Kinds
<1>7. ASSUME r[1] = "snapshot", <<"disk", r[2]>> \in cloud
      PROVE  Kept(<<"disk", r[2]>>) \/ <<"disk", r[2]>> \in doubtful
  <2>1. r = <<"snapshot", d>> /\ pc[d] = "unsnap"
    BY <1>4, <1>7
  <2> QED  BY <1>5, <1>7, <2>1 DEF Clean, Kept
<1> QED  BY <1>6, <1>7

\* A resource is deleted after its SAS is revoked, and a snapshot after the
\* temporary disk made of it.
THEOREM Ordered == Spec => InOrder
<1>1. IInv /\ [Next]_vars => [RemovedInOrder]_vars  BY RemovedNext
<1> QED  BY <1>1, Invariant, PTL DEF Spec, InOrder

-----------------------------------------------------------------------------
(* The promise.                                                            *)

Promised == Firm /\ opt.userTag
There == IF Promised THEN {d \in Disks : Whole(d)} ELSE {}
Reported == [d \in Disks |-> IF Promised THEN result[d] ELSE "none"]

\* Only a rename touches what is there.
LEMMA OnlyRenamed ==
    ASSUME Typed, NEW d \in Disks, Export(d), ~Renamed(d), NEW g \in Disks
    PROVE  Whole(g)' <=> Whole(g)
<1>1. exists' = exists /\ local' = local
  BY DEF Export, Begin, Snapshot, Stage, Create, CreateFail, Grant, GrantFail, Open, Respond,
         Receive, Mismatch, Break, Revoke, Unstage, Unsnap, Delete, files
<1> QED  BY <1>1 DEF Whole

\* A step of fetch in a shared directory delivers a VHD, reports one, begins
\* again, or does nothing that can be seen.
LEMMA PromiseStep ==
    ASSUME IInv, IInv', [Next]_vars
    PROVE  [Promise!Next]_(Promise!vars)
<1> USE DEF There, Reported
<1>0. opt' = opt
  BY ExportQuiet, ManageQuiet DEF Next, Rerun, vars
<1>p. Promised' = Promised
  BY <1>0 DEF Promised, Firm
<1>1. ASSUME There' = There, Reported' = Reported PROVE [Promise!Next]_(Promise!vars)
  BY <1>1 DEF Promise!vars, Promised
<1>2. CASE ~Promised
  <2>1. There' = There /\ Reported' = Reported
    BY <1>p, <1>2
  <2> QED  BY <1>1, <2>1
<1>3. CASE Promised
  <2>0. There = {d \in Disks : Whole(d)} /\ There' = {d \in Disks : Whole(d)'}
    BY <1>p, <1>3
  <2>t. Reported = [d \in Disks |-> result[d]] /\ Reported' = [d \in Disks |-> result'[d]]
    BY <1>p, <1>3
  <2>1. CASE UNCHANGED vars
    <3>1. There' = There /\ Reported' = Reported
      BY <1>p, <2>1 DEF vars, Whole
    <3> QED  BY <1>1, <3>1
  <2>2. ASSUME NEW d \in Disks, Export(d) PROVE [Promise!Next]_(Promise!vars)
    <3>1. Reported' = Reported
      BY <2>2, <2>t, ExportQuiet
    <3>2. CASE Renamed(d)
      <4>1. Whole(d)'
        BY <1>0, <1>3, <3>2 DEF Renamed, IInv, Typed, TypeOK, Exact, Promised, Firm
      <4>2. \A g \in Disks : g # d => (Whole(g)' <=> Whole(g))
        BY <2>2, ExportLocal DEF IInv, Whole
      <4>3. There' = There \cup {d}
        BY <2>0, <4>1, <4>2
      <4>4. Promise!Deliver(d)
        BY <3>1, <4>3 DEF Promise!Deliver, Promised
      <4> QED  BY <4>4 DEF Promise!Next
    <3>3. CASE ~Renamed(d)
      <4>1. There' = There
        BY <2>0, <2>2, <3>3, OnlyRenamed DEF IInv
      <4> QED  BY <1>1, <3>1, <4>1
    <3> QED  BY <3>2, <3>3
  <2>3. ASSUME NEW d \in Disks, Collect(d) PROVE [Promise!Next]_(Promise!vars)
    <3>1. There' = There
      <4>1. exists' = exists /\ local' = local
        BY <2>3 DEF Collect, files
      <4> QED  BY <2>0, <4>1 DEF Whole
    <3>2. result[d] = "none" /\ pc[d] \in {"done", "error"} /\ result \in [Disks -> {"none", "ok", "failed"}]
      BY <2>3 DEF Collect, IInv, Typed, TypeOK
    <3>3. CASE pc[d] = "done"
      <4>1. d \in There
        BY <1>3, <2>0, <3>3 DEF IInv, Exact, Clean, Promised
      <4>2. Reported[d] = "none" /\ Reported' = [Reported EXCEPT ![d] = "ok"]
        BY <2>3, <2>t, <3>2, <3>3 DEF Collect
      <4>3. Promise!Succeed(d)
        BY <3>1, <4>1, <4>2 DEF Promise!Succeed, Promised
      <4> QED  BY <4>3 DEF Promise!Next
    <3>4. CASE pc[d] = "error"
      <4>1. Reported[d] = "none" /\ Reported' = [Reported EXCEPT ![d] = "failed"]
        BY <2>3, <2>t, <3>2, <3>4 DEF Collect
      <4>2. Promise!Fail(d)
        BY <3>1, <4>1 DEF Promise!Fail, Promised
      <4> QED  BY <4>2 DEF Promise!Next
    <3> QED  BY <3>2, <3>3, <3>4
  <2>4. CASE Return
    <3>1. There' = There /\ Reported' = Reported
      <4>1. exists' = exists /\ local' = local /\ result' = result /\ pc' = pc /\ ok' = ok
        BY <2>4 DEF Return, files
      <4>2. There' = There
        BY <2>0, <4>1 DEF Whole
      <4>3. Reported' = Reported
        BY <2>t, <4>1
      <4> QED  BY <4>2, <4>3
    <3> QED  BY <1>1, <3>1
  <2>5. CASE Rerun
    <3>1. There' = There
      BY <1>3, <2>0, <2>5 DEF Rerun, Shared, files, Promised, Whole
    <3>2. Reported' = [d \in Disks |-> "none"]
      BY <2>5, <2>t DEF Rerun
    <3>3. Promise!Again
      BY <3>1, <3>2 DEF Promise!Again, Promised
    <3> QED  BY <3>3 DEF Promise!Next
  <2> QED  BY <2>1, <2>2, <2>3, <2>4, <2>5 DEF Next, Manage
<1> QED  BY <1>2, <1>3

LEMMA PromiseInit == ASSUME Init PROVE Promise!Init
<1> SUFFICES There \subseteq Disks /\ Reported = [d \in Disks |-> "none"]
  BY DEF Promise!Init, There, Reported, Promised
<1> QED  BY DEF Init, There, Reported

\* An export into a directory that runs share keeps FileDelivery's promise: a VHD
\* appears whole under its name, stays, and is reported only when it is there.
THEOREM DeliveryImplemented == Spec => Delivery
<1>1. Init => Promise!Init  BY PromiseInit
<1>2. IInv /\ IInv' /\ [Next]_vars => [Promise!Next]_(Promise!vars)
  BY PromiseStep
<1> QED  BY <1>1, <1>2, Invariant, PTL DEF Spec, Delivery, Promise!Spec
=============================================================================
