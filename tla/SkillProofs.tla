---------------------------- MODULE SkillProofs -----------------------------
(***************************************************************************)
(* Proofs about the skills of a workspace: that a command which reports    *)
(* success has provisioned what it promises, and that the names of the     *)
(* catalog reach the functions they name.                                  *)
(***************************************************************************)
EXTENDS SkillProvisioning, SkillCatalog, LoopTheorems, FiniteSetTheorems, SequenceTheorems

(***************************************************************************)
(* That a command reporting success leaves what it promises, whatever      *)
(* versions a skill goes through and however often a command was cut off.  *)
(* The invariant says where in its operations a command is and what the    *)
(* directories hold there; and what they hold between commands, as long as *)
(* neither was left half filled or half emptied.                           *)
(***************************************************************************)

Sources == [code : Edits, sheet : Edits]
Contents == Edits \union {Missing, Partial}
OpNames == {"build", "write", "install", "remove", "copy", "precompile", "discard", "specify",
            "refuse", "drop", "migrate", "seed"}
Ops == [op : OpNames, file : Files \union {""}]

(* What is still to be done once the skill is compiled.                    *)
AfterBuild(c) == IF c = "compile" THEN <<>> ELSE <<Op("install"), Op("precompile")>>

(* The files in the order they are written, and the writes from the k-th.  *)
Written == <<"component", "manifest", "world", "migrations", "meta">>
Writes(k) ==
    CASE k = 1 -> <<Write("component"), Write("manifest"), Write("world"), Write("migrations"),
                    Write("meta")>>
      [] k = 2 -> <<Write("manifest"), Write("world"), Write("migrations"), Write("meta")>>
      [] k = 3 -> <<Write("world"), Write("migrations"), Write("meta")>>
      [] k = 4 -> <<Write("migrations"), Write("meta")>>
      [] k = 5 -> <<Write("meta")>>
      [] OTHER -> <<>>

(* The copies from the k-th file on.                                       *)
Copies(k) ==
    CASE k = 1 -> CopyHeld("component") \o (CopyHeld("meta") \o (CopyHeld("migrations")
                    \o (CopyHeld("manifest") \o CopyHeld("world"))))
      [] k = 2 -> CopyHeld("meta") \o (CopyHeld("migrations")
                    \o (CopyHeld("manifest") \o CopyHeld("world")))
      [] k = 3 -> CopyHeld("migrations") \o (CopyHeld("manifest") \o CopyHeld("world"))
      [] k = 4 -> CopyHeld("manifest") \o CopyHeld("world")
      [] k = 5 -> CopyHeld("world")
      [] OTHER -> <<>>

(***************************************************************************)
(* Where a command is                                                      *)
(***************************************************************************)
Fresh == command = "rebuild" => compiled = Whole(source)
MetaIsRead == compiled["meta"] \notin {Missing, Partial}

(* The entry runs the compiled component, and differs from the artifacts   *)
(* in no more than an edit of the other files, unless something is torn.   *)
InSync ==
    /\ catalog["component"] = compiled["component"]
    /\ \/ catalog = compiled \/ torn # {}
       \/ \E s \in Edits : catalog = Whole([code |-> compiled["component"], sheet |-> s])

Cleared ==
    /\ command = "rebuild" /\ compiled = Empty
    /\ job = <<Op("build"), Op("install"), Op("precompile")>>
Writing ==
    /\ command \in {"compile", "ensure", "rebuild"}
    /\ "artifacts" \in torn \/ compiled["meta"] = Missing
    /\ \E k \in 1 .. 5 :
          /\ job = Writes(k) \o AfterBuild(command)
          /\ \A j \in 1 .. k - 1 : compiled[Written[j]] = ContentOf(Written[j], source)
Built == command \in Installing /\ Fresh /\ job = <<Op("install"), Op("precompile")>>
Removing ==
    /\ command \in Installing /\ Fresh /\ MetaIsRead
    /\ job = <<Op("remove")>> \o (Copies(1) \o <<Op("precompile")>>)
Copying ==
    /\ command \in Installing /\ Fresh /\ MetaIsRead
    /\ \E k \in 1 .. 5 :
          /\ job = Copies(k) \o <<Op("precompile")>> /\ compiled[Listing[k]] # Missing
          /\ \A j \in 1 .. k - 1 : catalog[Listing[j]] = compiled[Listing[j]]
          /\ \A j \in k .. 5 : catalog[Listing[j]] = Missing
Synced == command \in Installing /\ Fresh /\ InSync /\ job = <<Op("precompile")>>
Seeding ==
    /\ command \in {"create", "reset"}
    /\ job \in {<<Op("refuse"), Op("migrate"), Op("seed")>>,
                <<Op("drop"), Op("migrate"), Op("seed")>>,
                <<Op("migrate"), Op("seed")>>, <<Op("seed")>>}

JobFits ==
    \/ job = <<>> \/ job = Steps[command] \/ Cleared \/ Writing \/ Built
    \/ Removing \/ Copying \/ Synced \/ Seeding

(***************************************************************************)
(* What the directories hold                                               *)
(***************************************************************************)
(* An artifact directory with its meta.json, which is written last, has    *)
(* the other files of one source.                                          *)
ArtifactsFit ==
    \/ "artifacts" \in torn \/ Doing("discard") \/ compiled["meta"] = Missing
    \/ \E s \in Sources : \A f \in Files \ {"meta"} : compiled[f] = ContentOf(f, s)

(* An entry is made whole from whole artifacts.                            *)
CatalogFits ==
    \/ "catalog" \in torn \/ Doing("remove") \/ Doing("copy") \/ catalog = Empty
    \/ \E s \in Sources : catalog = Whole(s)

ProvisioningTypeOK ==
    /\ source \in Sources
    /\ compiled \in [Files -> Contents] /\ compiled["meta"] \in {Missing, Partial, 1}
    /\ catalog \in [Files -> Contents]
    /\ command \in DOMAIN Steps /\ torn \subseteq {"artifacts", "catalog"}

ProvisioningInv ==
    /\ ProvisioningTypeOK /\ JobFits /\ ArtifactsFit /\ CatalogFits
    /\ outcome = "ok" => job = <<>>
    /\ InstallRepairs

(***************************************************************************)
(* Sequences of operations                                                 *)
(***************************************************************************)
(* What is first in a sequence of operations, and what follows it.         *)
LEMMA FirstAndRest ==
    ASSUME NEW x \in Ops, NEW s \in Seq(Ops), NEW t, t = <<x>> \o s
    PROVE  t \in Seq(Ops) /\ t # <<>> /\ Head(t) = x /\ Tail(t) = s
<1>1. <<x>> \in Seq(Ops) /\ Len(<<x>>) = 1 /\ <<x>>[1] = x OBVIOUS
<1>2. /\ t \in Seq(Ops) /\ Len(t) = 1 + Len(s)
      /\ \A i \in 1 .. 1 + Len(s) : t[i] = IF i <= 1 THEN <<x>>[i] ELSE s[i - 1]
  BY <1>1, ConcatProperties
<1>3. Len(s) \in Nat BY LenProperties
<1>4. t # <<>> BY <1>2, <1>3, EmptySeq
<1>5. Head(t) = x
  <2>1. Head(t) = t[1] BY <1>2, <1>4
  <2>2. QED BY <2>1, <1>1, <1>2, <1>3
<1>6. Tail(t) = s
  <2>1. /\ Tail(t) \in Seq(Ops) /\ Len(Tail(t)) = Len(t) - 1
        /\ \A i \in 1 .. Len(Tail(t)) : Tail(t)[i] = t[i + 1]
    BY <1>2, <1>4, HeadTailProperties
  <2>2. Len(Tail(t)) = Len(s) BY <2>1, <1>2, <1>3
  <2>3. \A i \in 1 .. Len(s) : i + 1 \in 1 .. 1 + Len(s) /\ ~(i + 1 <= 1) /\ (i + 1) - 1 = i
    BY <1>3
  <2>4. \A i \in 1 .. Len(s) : Tail(t)[i] = s[i] BY <2>1, <2>2, <2>3, <1>2
  <2>5. QED BY <2>1, <2>2, <2>4, SeqEqual
<1>7. QED BY <1>2, <1>4, <1>5, <1>6

LEMMA NotNothing ==
    ASSUME NEW x, NEW y, NEW z
    PROVE  <<x>> # <<>> /\ <<x, y>> # <<>> /\ <<x, y, z>> # <<>>
<1>1. Len(<<x>>) = 1 /\ Len(<<x, y>>) = 2 /\ Len(<<x, y, z>>) = 3 /\ Len(<<>>) = 0 OBVIOUS
<1>2. QED BY <1>1

LEMMA FilesAre == Files = {"component", "meta", "migrations", "manifest", "world"}
BY DEF Files, ToSet, Listing

LEMMA OpsAre ==
    /\ \A name \in OpNames : Op(name) \in Ops /\ Op(name).op = name
    /\ \A f \in Files : Write(f) \in Ops /\ Write(f).op = "write" /\ Write(f).file = f
    /\ \A f \in Files : Copy(f) \in Ops /\ Copy(f).op = "copy" /\ Copy(f).file = f
<1>1. "write" \in OpNames /\ "copy" \in OpNames BY DEF OpNames
<1>2. QED BY <1>1 DEF Op, Write, Copy, Ops

LEMMA ListingIs ==
    /\ Listing[1] = "component" /\ Listing[2] = "meta" /\ Listing[3] = "migrations"
    /\ Listing[4] = "manifest" /\ Listing[5] = "world"
BY DEF Listing

LEMMA WrittenIs ==
    /\ Written[1] = "component" /\ Written[2] = "manifest" /\ Written[3] = "world"
    /\ Written[4] = "migrations" /\ Written[5] = "meta"
BY DEF Written

(* A file that is held is copied before the rest, one that is not is left. *)
LEMMA CopiesNext ==
    ASSUME NEW k \in 1 .. 5
    PROVE  /\ Copies(k) \in Seq(Ops) /\ Copies(k + 1) \in Seq(Ops)
           /\ compiled[Listing[k]] = Missing => Copies(k) = Copies(k + 1)
           /\ compiled[Listing[k]] # Missing =>
                  Copies(k) = <<Copy(Listing[k])>> \o Copies(k + 1)
<1>1. \A f \in Files : CopyHeld(f) \in Seq(Ops)
  <2>1. \A f \in Files : <<Copy(f)>> \in Seq(Ops) BY OpsAre
  <2>2. <<>> \in Seq(Ops) OBVIOUS
  <2>3. QED BY <2>1, <2>2 DEF CopyHeld
<1>2. /\ Copies(6) = <<>> /\ Copies(5) = CopyHeld("world")
      /\ Copies(4) = CopyHeld("manifest") \o Copies(5)
      /\ Copies(3) = CopyHeld("migrations") \o Copies(4)
      /\ Copies(2) = CopyHeld("meta") \o Copies(3)
      /\ Copies(1) = CopyHeld("component") \o Copies(2)
  BY DEF Copies
<1>a. /\ CopyHeld("world") \in Seq(Ops) /\ CopyHeld("manifest") \in Seq(Ops)
      /\ CopyHeld("migrations") \in Seq(Ops) /\ CopyHeld("meta") \in Seq(Ops)
      /\ CopyHeld("component") \in Seq(Ops)
  BY <1>1, FilesAre
<1>b. \A s, t \in Seq(Ops) : s \o t \in Seq(Ops) BY ConcatProperties
<1>3. Copies(6) \in Seq(Ops) /\ Copies(5) \in Seq(Ops)
  <2>1. <<>> \in Seq(Ops) OBVIOUS
  <2>2. QED BY <2>1, <1>a, <1>2
<1>4. Copies(4) \in Seq(Ops) BY <1>a, <1>b, <1>2, <1>3
<1>5. Copies(3) \in Seq(Ops) BY <1>a, <1>b, <1>2, <1>4
<1>6. Copies(2) \in Seq(Ops) BY <1>a, <1>b, <1>2, <1>5
<1>7. Copies(1) \in Seq(Ops) BY <1>a, <1>b, <1>2, <1>6
<1>8. Copies(5) = CopyHeld("world") \o Copies(6) BY <1>a, <1>2, ConcatEmptySeq
<1>9. /\ Copies(k) \in Seq(Ops) /\ Copies(k + 1) \in Seq(Ops)
      /\ Copies(k) = CopyHeld(Listing[k]) \o Copies(k + 1)
  <2>1. k \in {1, 2, 3, 4, 5} OBVIOUS
  <2>2. CASE k = 1 BY <2>2, <1>2, <1>6, <1>7, ListingIs
  <2>3. CASE k = 2 BY <2>3, <1>2, <1>5, <1>6, ListingIs
  <2>4. CASE k = 3 BY <2>4, <1>2, <1>4, <1>5, ListingIs
  <2>5. CASE k = 4 BY <2>5, <1>2, <1>3, <1>4, ListingIs
  <2>6. CASE k = 5 BY <2>6, <1>3, <1>8, ListingIs
  <2>7. QED BY <2>1, <2>2, <2>3, <2>4, <2>5, <2>6
<1>10. compiled[Listing[k]] = Missing => Copies(k) = Copies(k + 1)
  BY <1>9, ConcatEmptySeq DEF CopyHeld
<1>11. QED BY <1>9, <1>10 DEF CopyHeld

(* What is left to copy begins with the next file that is held.            *)
LEMMA NextCopy ==
    ASSUME NEW k \in 1 .. 6
    PROVE  \/ Copies(k) = <<>> /\ \A j \in k .. 5 : compiled[Listing[j]] = Missing
           \/ \E m \in k .. 5 :
                 /\ compiled[Listing[m]] # Missing /\ Copies(k) = Copies(m)
                 /\ \A j \in k .. m - 1 : compiled[Listing[j]] = Missing
<1> DEFINE Goal(n) == \/ Copies(n) = <<>> /\ \A j \in n .. 5 : compiled[Listing[j]] = Missing
                      \/ \E m \in n .. 5 :
                            /\ compiled[Listing[m]] # Missing /\ Copies(n) = Copies(m)
                            /\ \A j \in n .. m - 1 : compiled[Listing[j]] = Missing
<1>1. Goal(6) BY DEF Copies
<1>2. ASSUME NEW n \in 1 .. 5, Goal(n + 1) PROVE Goal(n)
  <2>1. CASE compiled[Listing[n]] # Missing
    <3>1. n \in n .. 5 /\ \A j \in n .. n - 1 : compiled[Listing[j]] = Missing OBVIOUS
    <3>2. QED BY <2>1, <3>1
  <2>2. CASE compiled[Listing[n]] = Missing
    <3>1. Copies(n) = Copies(n + 1) BY <2>2, CopiesNext
    <3>2. CASE Copies(n + 1) = <<>> /\ \A j \in n + 1 .. 5 : compiled[Listing[j]] = Missing
      <4>1. \A j \in n .. 5 : compiled[Listing[j]] = Missing BY <2>2, <3>2
      <4>2. QED BY <3>1, <3>2, <4>1
    <3>3. ASSUME NEW m \in n + 1 .. 5, compiled[Listing[m]] # Missing,
                 Copies(n + 1) = Copies(m),
                 \A j \in n + 1 .. m - 1 : compiled[Listing[j]] = Missing
          PROVE  Goal(n)
      <4>1. \A j \in n .. m - 1 : compiled[Listing[j]] = Missing BY <2>2, <3>3
      <4>2. m \in n .. 5 BY <3>3
      <4>3. QED BY <3>1, <3>3, <4>1, <4>2
    <3>4. QED BY <1>2, <3>2, <3>3
  <2>3. QED BY <2>1, <2>2
<1> HIDE DEF Goal
<1>3. Goal(5) /\ Goal(4)
  <2>1. Goal(5) BY <1>1, <1>2
  <2>2. QED BY <2>1, <1>2
<1>4. Goal(3) /\ Goal(2)
  <2>1. Goal(3) BY <1>3, <1>2
  <2>2. QED BY <2>1, <1>2
<1>5. Goal(1) BY <1>4, <1>2
<1>6. Goal(k)
  <2>1. k \in {1, 2, 3, 4, 5, 6} OBVIOUS
  <2>2. QED BY <2>1, <1>1, <1>3, <1>4, <1>5
<1>7. QED BY <1>6 DEF Goal

(* A sequence of writes begins with the next file.                         *)
LEMMA WritesNext ==
    ASSUME NEW k \in 1 .. 5, NEW c
    PROVE  /\ Written[k] \in Files /\ AfterBuild(c) \in Seq(Ops)
           /\ Writes(k + 1) \o AfterBuild(c) \in Seq(Ops)
           /\ Writes(k) \o AfterBuild(c)
                  = <<Write(Written[k])>> \o (Writes(k + 1) \o AfterBuild(c))
<1>1. AfterBuild(c) \in Seq(Ops)
  <2>1. Op("install") \in Ops /\ Op("precompile") \in Ops BY OpsAre DEF OpNames
  <2>2. QED BY <2>1 DEF AfterBuild
<1>2. Written[k] \in Files
  <2>1. k \in {1, 2, 3, 4, 5} OBVIOUS
  <2>2. QED BY <2>1, WrittenIs, FilesAre
<1>3. /\ Write("component") \in Ops /\ Write("manifest") \in Ops /\ Write("world") \in Ops
      /\ Write("migrations") \in Ops /\ Write("meta") \in Ops
  BY OpsAre, FilesAre
<1>4. /\ Writes(2) \in Seq(Ops) /\ Writes(3) \in Seq(Ops) /\ Writes(4) \in Seq(Ops)
      /\ Writes(5) \in Seq(Ops) /\ Writes(6) \in Seq(Ops)
  BY <1>3 DEF Writes
<1>5. <<Write(Written[k])>> \in Seq(Ops) /\ Writes(k + 1) \in Seq(Ops)
  <2>1. k \in {1, 2, 3, 4, 5} OBVIOUS
  <2>2. QED BY <2>1, <1>3, <1>4, WrittenIs
<1>6. Writes(k) = <<Write(Written[k])>> \o Writes(k + 1)
  <2>1. CASE k = 1 BY <2>1, <1>3, <1>4, WrittenIs DEF Writes
  <2>2. CASE k = 2 BY <2>2, <1>3, <1>4, WrittenIs DEF Writes
  <2>3. CASE k = 3 BY <2>3, <1>3, <1>4, WrittenIs DEF Writes
  <2>4. CASE k = 4 BY <2>4, <1>3, <1>4, WrittenIs DEF Writes
  <2>5. CASE k = 5 BY <2>5, <1>3, <1>4, WrittenIs DEF Writes
  <2>6. QED BY <2>1, <2>2, <2>3, <2>4, <2>5
<1>7. QED BY <1>1, <1>2, <1>5, <1>6, ConcatAssociative, ConcatProperties

(* The operations are told apart by what is first in the job.              *)
LEMMA Heads ==
    ASSUME ProvisioningInv
    PROVE  /\ job = Steps[command] =>
                  \/ Head(job) = Op("build") /\ command \in {"compile", "ensure"}
                  \/ Head(job) = Op("install") /\ command = "upload"
                  \/ Head(job) = Op("discard") /\ command = "rebuild"
                  \/ Head(job) = Op("specify") /\ command \in {"create", "reset"}
           /\ Cleared => Head(job) = Op("build")
           /\ Writing => Head(job).op = "write"
           /\ Built => Head(job) = Op("install")
           /\ Removing => Head(job) = Op("remove")
           /\ Copying => Head(job).op = "copy"
           /\ Synced => Head(job) = Op("precompile")
           /\ Seeding => Head(job) \in {Op("refuse"), Op("drop"), Op("migrate"), Op("seed")}
<1>1. command \in {"compile", "upload", "ensure", "rebuild", "create", "reset"}
  BY DEF ProvisioningInv, ProvisioningTypeOK, Steps
<1>2. ASSUME job = Steps[command]
      PROVE  \/ Head(job) = Op("build") /\ command \in {"compile", "ensure"}
             \/ Head(job) = Op("install") /\ command = "upload"
             \/ Head(job) = Op("discard") /\ command = "rebuild"
             \/ Head(job) = Op("specify") /\ command \in {"create", "reset"}
  BY <1>1, <1>2 DEF Steps
<1>3. Cleared => Head(job) = Op("build") BY DEF Cleared
<1>4. ASSUME Writing PROVE Head(job).op = "write"
  <2>1. PICK k \in 1 .. 5 : job = Writes(k) \o AfterBuild(command) BY <1>4 DEF Writing
  <2> DEFINE rest == Writes(k + 1) \o AfterBuild(command)
  <2>2. /\ Written[k] \in Files /\ rest \in Seq(Ops)
        /\ job = <<Write(Written[k])>> \o rest
    BY <2>1, WritesNext
  <2> HIDE DEF rest
  <2>3. Write(Written[k]) \in Ops /\ Write(Written[k]).op = "write" BY <2>2, OpsAre
  <2>4. Head(job) = Write(Written[k]) BY <2>2, <2>3, FirstAndRest
  <2>5. QED BY <2>3, <2>4
<1>5. Built => Head(job) = Op("install") BY DEF Built
<1>6. ASSUME Removing PROVE Head(job) = Op("remove")
  <2>1. Op("remove") \in Ops /\ Op("precompile") \in Ops BY OpsAre DEF OpNames
  <2>2. Copies(1) \o <<Op("precompile")>> \in Seq(Ops) BY <2>1, CopiesNext, ConcatProperties
  <2> DEFINE rest == Copies(1) \o <<Op("precompile")>>
  <2>3. rest \in Seq(Ops) /\ job = <<Op("remove")>> \o rest BY <1>6, <2>2 DEF Removing
  <2> HIDE DEF rest
  <2>4. QED BY <2>1, <2>3, FirstAndRest
<1>7. ASSUME Copying PROVE Head(job).op = "copy"
  <2>1. PICK k \in 1 .. 5 :
           job = Copies(k) \o <<Op("precompile")>> /\ compiled[Listing[k]] # Missing
    BY <1>7 DEF Copying
  <2>2. Listing[k] \in Files
    <3>1. k \in {1, 2, 3, 4, 5} OBVIOUS
    <3>2. QED BY <3>1, ListingIs, FilesAre
  <2>3. Copy(Listing[k]) \in Ops /\ Op("precompile") \in Ops BY <2>2, OpsAre DEF OpNames
  <2> DEFINE last == <<Op("precompile")>>
  <2> DEFINE rest == Copies(k + 1) \o last
  <2>a. last \in Seq(Ops) /\ <<Copy(Listing[k])>> \in Seq(Ops) /\ job = Copies(k) \o last
    BY <2>1, <2>3
  <2> HIDE DEF last
  <2>b. Copies(k + 1) \in Seq(Ops) /\ Copies(k) = <<Copy(Listing[k])>> \o Copies(k + 1)
    BY <2>1, CopiesNext
  <2>4. rest \in Seq(Ops) BY <2>a, <2>b, ConcatProperties
  <2>5. job = <<Copy(Listing[k])>> \o rest BY <2>a, <2>b, ConcatAssociative
  <2> HIDE DEF rest
  <2>6. Head(job) = Copy(Listing[k]) BY <2>3, <2>4, <2>5, FirstAndRest
  <2>7. QED BY <2>2, <2>6, OpsAre
<1>8. Synced => Head(job) = Op("precompile") BY DEF Synced
<1>9. Seeding => Head(job) \in {Op("refuse"), Op("drop"), Op("migrate"), Op("seed")}
  BY DEF Seeding
<1>10. QED BY <1>2, <1>3, <1>4, <1>5, <1>6, <1>7, <1>8, <1>9

(* Where a command is when an operation is its next.                       *)
LEMMA Phases ==
    ASSUME ProvisioningInv
    PROVE  /\ Doing("discard") => command = "rebuild" /\ job = Steps[command]
           /\ Doing("build") => \/ job = Steps[command] /\ command \in {"compile", "ensure"}
                                \/ Cleared
           /\ Doing("write") => Writing
           /\ Doing("install") => \/ Built
                                  \/ job = Steps[command] /\ command = "upload"
           /\ Doing("remove") => Removing
           /\ Doing("copy") => Copying
           /\ Doing("precompile") => Synced
           /\ \A name \in {"specify", "refuse", "drop", "migrate", "seed"} :
                 Doing(name) => \/ Seeding
                                \/ job = Steps[command] /\ command \in {"create", "reset"}
<1>1. \A name \in OpNames : Op(name).op = name BY OpsAre
<1>2. JobFits BY DEF ProvisioningInv
<1>3. \/ job = <<>>
      \/ job = Steps[command] /\ Head(job).op = "build" /\ command \in {"compile", "ensure"}
      \/ job = Steps[command] /\ Head(job).op = "install" /\ command = "upload"
      \/ job = Steps[command] /\ Head(job).op = "discard" /\ command = "rebuild"
      \/ /\ job = Steps[command] /\ Head(job).op = "specify"
         /\ command \in {"create", "reset"}
      \/ Cleared /\ Head(job).op = "build"
      \/ Writing /\ Head(job).op = "write"
      \/ Built /\ Head(job).op = "install"
      \/ Removing /\ Head(job).op = "remove"
      \/ Copying /\ Head(job).op = "copy"
      \/ Synced /\ Head(job).op = "precompile"
      \/ Seeding /\ Head(job).op \in {"refuse", "drop", "migrate", "seed"}
  <2>1. /\ Op("build").op = "build" /\ Op("install").op = "install"
        /\ Op("discard").op = "discard" /\ Op("specify").op = "specify"
        /\ Op("remove").op = "remove" /\ Op("precompile").op = "precompile"
        /\ Op("refuse").op = "refuse" /\ Op("drop").op = "drop"
        /\ Op("migrate").op = "migrate" /\ Op("seed").op = "seed"
    BY <1>1 DEF OpNames
  <2>2. QED BY <1>2, <2>1, Heads DEF JobFits
<1>4. QED BY <1>3 DEF Doing

(***************************************************************************)
(* The steps                                                               *)
(***************************************************************************)
(* The directories and what is torn are left, by an operation that fills   *)
(* or empties none.                                                        *)
LEMMA StillFits ==
    ASSUME ProvisioningInv, UNCHANGED <<compiled, catalog, torn>>,
           ~Doing("discard"), ~Doing("remove"), ~Doing("copy")
    PROVE  ArtifactsFit' /\ CatalogFits'
BY DEF ProvisioningInv, ArtifactsFit, CatalogFits

(* The end of a command that did not succeed.                              *)
LEMMA FailureKeeps ==
    ASSUME ProvisioningInv, Fail, ~Doing("discard"), ~Doing("remove"), ~Doing("copy")
    PROVE  ProvisioningInv'
<1>1. ProvisioningTypeOK' BY DEF ProvisioningInv, ProvisioningTypeOK, Fail
<1>2. ArtifactsFit' /\ CatalogFits' BY StillFits DEF Fail
<1>3. job' = <<>> /\ outcome' = "failed" BY DEF Fail
<1>4. QED BY <1>1, <1>2, <1>3 DEF ProvisioningInv, JobFits, InstallRepairs

(* A step of a command that goes on.                                       *)
LEMMA GoesOn ==
    ASSUME ProvisioningTypeOK', JobFits', ArtifactsFit', CatalogFits', outcome' = "running"
    PROVE  ProvisioningInv'
BY DEF ProvisioningInv, InstallRepairs

LEMMA StartKeeps ==
    ASSUME ProvisioningInv, NEW c \in DOMAIN Steps, Start(c)
    PROVE  ProvisioningInv'
<1>1. ProvisioningTypeOK' BY DEF ProvisioningInv, ProvisioningTypeOK, Start
<1>2. ArtifactsFit' /\ CatalogFits'
  <2>1. job = <<>> BY DEF Start
  <2>2. QED BY <2>1, StillFits DEF Start, Doing
<1>3. JobFits' BY DEF Start, JobFits
<1>4. QED BY <1>1, <1>2, <1>3, GoesOn DEF Start

LEMMA EditKeeps ==
    ASSUME ProvisioningInv, Edit
    PROVE  ProvisioningInv'
<1>1. ProvisioningTypeOK' BY DEF ProvisioningInv, ProvisioningTypeOK, Edit, Sources
<1>2. ArtifactsFit' /\ CatalogFits' BY StillFits DEF Edit, Doing
<1>3. job' = <<>> /\ outcome' = "none" BY DEF Edit
<1>4. QED BY <1>1, <1>2, <1>3 DEF ProvisioningInv, JobFits, InstallRepairs

LEMMA DiscardKeeps ==
    ASSUME ProvisioningInv, Discard
    PROVE  ProvisioningInv'
<1>1. /\ command = "rebuild"
      /\ job = <<Op("discard"), Op("build"), Op("install"), Op("precompile")>>
  BY Phases DEF Discard, Steps
<1>2. ~Doing("remove") /\ ~Doing("copy") BY DEF Discard, Doing
<1>3. UNCHANGED <<catalog, command, source>> BY DEF Discard, Continue
<1>4. "catalog" \in torn <=> "catalog" \in torn' BY DEF Discard
<1>5. CatalogFits' BY <1>2, <1>3, <1>4 DEF ProvisioningInv, CatalogFits
<1>6. CASE Present(compiled) = {}
  <2>1. /\ job' = Tail(job) /\ outcome' = (IF Tail(job) = <<>> THEN "ok" ELSE "running")
        /\ compiled' = compiled /\ torn' = torn \ {"artifacts"}
    BY <1>6 DEF Discard, Continue
  <2>2. job' = <<Op("build"), Op("install"), Op("precompile")>> /\ outcome' = "running"
    BY <1>1, <2>1
  <2>3. compiled = Empty
    <3>1. compiled \in [Files -> Contents] BY DEF ProvisioningInv, ProvisioningTypeOK
    <3>2. QED BY <1>6, <3>1 DEF Present, Empty
  <2>4. Cleared' BY <1>1, <1>3, <2>1, <2>2, <2>3 DEF Cleared, Empty
  <2>5. ArtifactsFit' BY <2>1, <2>3, FilesAre DEF ArtifactsFit, Empty
  <2>6. ProvisioningTypeOK' BY <1>3, <2>1 DEF ProvisioningInv, ProvisioningTypeOK
  <2>7. QED BY <1>5, <2>2, <2>4, <2>5, <2>6, GoesOn DEF JobFits
<1>7. CASE Present(compiled) # {}
  <2>1. /\ job' = job /\ outcome' = "running" /\ torn' = torn
        /\ \E f \in Present(compiled) : compiled' = [compiled EXCEPT ![f] = Missing]
    BY <1>1, <1>7 DEF Discard, Continue, RemovedFrom
  <2>2. JobFits' BY <1>1, <1>3, <2>1 DEF JobFits, Steps
  <2>3. Doing("discard")' BY <2>1 DEF Doing, Discard
  <2>4. ProvisioningTypeOK'
    <3>1. PICK f \in Files : compiled' = [compiled EXCEPT ![f] = Missing] BY <2>1 DEF Present
    <3>2. compiled \in [Files -> Contents] /\ compiled["meta"] \in {Missing, Partial, 1}
      BY DEF ProvisioningInv, ProvisioningTypeOK
    <3>3. compiled' \in [Files -> Contents] BY <3>1, <3>2 DEF Contents
    <3>4. compiled'["meta"] \in {Missing, Partial, 1} BY <3>1, <3>2, FilesAre
    <3>5. QED BY <1>3, <2>1, <3>3, <3>4 DEF ProvisioningInv, ProvisioningTypeOK
  <2>5. QED BY <1>5, <2>1, <2>2, <2>3, <2>4, GoesOn DEF ArtifactsFit
<1>8. QED BY <1>6, <1>7

LEMMA BuildKeeps ==
    ASSUME ProvisioningInv, Build
    PROVE  ProvisioningInv'
<1>1. /\ command \in {"compile", "ensure", "rebuild"} /\ Tail(job) = AfterBuild(command)
      /\ command = "rebuild" => compiled = Empty
  <2>1. CASE job = Steps[command] /\ command \in {"compile", "ensure"}
    <3>1. CASE command = "compile"
      <4>1. job = <<Op("build")>> BY <2>1, <3>1 DEF Steps
      <4>2. QED BY <3>1, <4>1 DEF AfterBuild
    <3>2. CASE command = "ensure"
      <4>1. job = <<Op("build"), Op("install"), Op("precompile")>> BY <2>1, <3>2 DEF Steps
      <4>2. QED BY <3>2, <4>1 DEF AfterBuild
    <3>3. QED BY <2>1, <3>1, <3>2
  <2>2. CASE Cleared BY <2>2 DEF Cleared, AfterBuild
  <2>3. QED BY <2>1, <2>2, Phases DEF Build
<1>2. ~Doing("discard") /\ ~Doing("remove") /\ ~Doing("copy") BY DEF Build, Doing
<1>3. /\ UNCHANGED <<compiled, catalog, torn, source, command>>
      /\ job' = BuildSteps \o AfterBuild(command)
      /\ outcome' = (IF job' = <<>> THEN "ok" ELSE "running")
  BY <1>1 DEF Build, Continue
<1>4. ArtifactsFit' /\ CatalogFits' BY <1>2, <1>3, StillFits
<1>5. ProvisioningTypeOK' BY <1>3 DEF ProvisioningInv, ProvisioningTypeOK, Build
<1>6. AfterBuild(command) \in Seq(Ops) BY WritesNext
<1>7. CASE HasBuild
  <2>1. job' = AfterBuild(command) BY <1>3, <1>6, <1>7, ConcatEmptySeq DEF BuildSteps
  <2>2. command # "rebuild" BY <1>1, <1>7, FilesAre DEF HasBuild, Present, Empty
  <2>3. CASE command = "compile"
    <3>1. job' = <<>> /\ outcome' = "ok" BY <1>3, <2>1, <2>3 DEF AfterBuild
    <3>2. InstallRepairs' BY <1>3, <2>3 DEF InstallRepairs, Installing
    <3>3. QED BY <1>4, <1>5, <3>1, <3>2 DEF ProvisioningInv, JobFits
  <2>4. CASE command = "ensure"
    <3>a. job' = <<Op("install"), Op("precompile")>> BY <2>1, <2>4 DEF AfterBuild
    <3>1. job' = <<Op("install"), Op("precompile")>> /\ outcome' = "running"
      BY <1>3, <3>a, NotNothing
    <3>2. Built' BY <1>3, <2>4, <3>1 DEF Built, Installing, Fresh
    <3>3. QED BY <1>4, <1>5, <3>1, <3>2, GoesOn DEF JobFits
  <2>5. QED BY <1>1, <2>2, <2>3, <2>4
<1>8. CASE ~HasBuild
  <2>1. job' = Writes(1) \o AfterBuild(command) BY <1>3, <1>8 DEF BuildSteps, Writes
  <2>2. job' # <<>> /\ outcome' = "running"
    <3> DEFINE rest == Writes(2) \o AfterBuild(command)
    <3>1. Written[1] \in Files /\ rest \in Seq(Ops) /\ job' = <<Write(Written[1])>> \o rest
      <4>1. 1 \in 1 .. 5 /\ 1 + 1 = 2 OBVIOUS
      <4>2. QED BY <2>1, <4>1, WritesNext
    <3> HIDE DEF rest
    <3>2. Write(Written[1]) \in Ops BY <3>1, OpsAre
    <3>3. QED BY <1>3, <3>1, <3>2, FirstAndRest
  <2>3. "artifacts" \in torn \/ compiled["meta"] = Missing
    <3>1. SUFFICES ASSUME NEW s \in Sources,
                          \A f \in Files \ {"meta"} : compiled[f] = ContentOf(f, s)
                   PROVE  compiled["meta"] = Missing
      BY <1>2 DEF ProvisioningInv, ArtifactsFit
    <3>2. compiled["component"] = s.code BY <3>1, FilesAre DEF ContentOf
    <3>3. s.code # Missing BY ProvisioningAssumption DEF Sources, Missing
    <3>4. QED BY <1>8, <3>2, <3>3, FilesAre DEF HasBuild, Present
  <2>4. Writing'
    <3>1. \A j \in 1 .. 1 - 1 : compiled[Written[j]] = ContentOf(Written[j], source) OBVIOUS
    <3>2. QED BY <1>1, <1>3, <2>1, <2>3, <3>1 DEF Writing
  <2>5. QED BY <1>4, <1>5, <2>2, <2>4, GoesOn DEF JobFits
<1>9. QED BY <1>7, <1>8

(* The last of the writes makes the artifacts those of the source.         *)
LEMMA WriteKeeps ==
    ASSUME ProvisioningInv, WriteArtifact
    PROVE  ProvisioningInv'
<1>1. Writing BY Phases DEF WriteArtifact
<1>2. PICK k \in 1 .. 5 :
         /\ job = Writes(k) \o AfterBuild(command)
         /\ \A j \in 1 .. k - 1 : compiled[Written[j]] = ContentOf(Written[j], source)
  BY <1>1 DEF Writing
<1> DEFINE f == Written[k]
<1> DEFINE rest == Writes(k + 1) \o AfterBuild(command)
<1>3. Head(job) = Write(f) /\ Tail(job) = rest /\ f \in Files /\ rest \in Seq(Ops)
  <2>1. f \in Files /\ rest \in Seq(Ops) /\ job = <<Write(f)>> \o rest BY <1>2, WritesNext
  <2>2. Write(f) \in Ops BY <2>1, OpsAre
  <2> HIDE DEF rest, f
  <2>3. QED BY <2>1, <2>2, FirstAndRest
<1>4. /\ compiled' = [compiled EXCEPT ![f] = ContentOf(f, source)]
      /\ torn' = (IF f = "meta" THEN torn \ {"artifacts"} ELSE torn)
      /\ job' = rest /\ outcome' = (IF rest = <<>> THEN "ok" ELSE "running")
      /\ UNCHANGED <<source, command, catalog>>
  <2>1. Write(f).file = f BY <1>3, OpsAre
  <2> HIDE DEF rest, f
  <2>2. QED BY <1>3, <2>1 DEF WriteArtifact, Continue
<1>5. compiled \in [Files -> Contents] /\ source \in Sources
  BY DEF ProvisioningInv, ProvisioningTypeOK
<1>6. compiled'[f] = ContentOf(f, source)
      /\ \A g \in Files \ {f} : compiled'[g] = compiled[g]
  BY <1>3, <1>4, <1>5
<1>7. \A g \in Files, s \in Sources : ContentOf(g, s) \in Edits
  BY ProvisioningAssumption DEF ContentOf, Sources
<1>8. ProvisioningTypeOK'
  <2>1. compiled' \in [Files -> Contents] BY <1>3, <1>4, <1>5, <1>7 DEF Contents
  <2>2. compiled'["meta"] \in {Missing, Partial, 1}
    <3>1. ContentOf("meta", source) = 1 BY DEF ContentOf
    <3>2. QED BY <1>6, <3>1, FilesAre DEF ProvisioningInv, ProvisioningTypeOK
  <2>3. QED BY <1>4, <2>1, <2>2 DEF ProvisioningInv, ProvisioningTypeOK
<1>9. CatalogFits'
  <2>1. ~Doing("remove") /\ ~Doing("copy") BY DEF WriteArtifact, Doing
  <2>2. "catalog" \in torn' <=> "catalog" \in torn BY <1>4
  <2>3. QED BY <1>4, <2>1, <2>2 DEF ProvisioningInv, CatalogFits
<1>10. CASE k # 5
  <2>1. k \in 1 .. 4 BY <1>10
  <2>2. f # "meta" /\ \A j \in 1 .. k - 1 : Written[j] \in Files \ {f}
    <3>1. k \in {1, 2, 3, 4} BY <2>1
    <3>2. \A j \in 1 .. k - 1 : j \in {1, 2, 3, 4} /\ j # k BY <2>1
    <3>3. QED BY <3>1, <3>2, WrittenIs, FilesAre
  <2>3. \A j \in 1 .. k : compiled'[Written[j]] = ContentOf(Written[j], source)
    BY <1>2, <1>6, <2>2
  <2>4. "artifacts" \in torn' \/ compiled'["meta"] = Missing
    BY <1>1, <1>4, <1>6, <2>2, FilesAre DEF Writing
  <2>5. job' # <<>> /\ outcome' = "running"
    <3>1. k + 1 \in 1 .. 5 BY <2>1
    <3> DEFINE last == Writes((k + 1) + 1) \o AfterBuild(command)
    <3>2. /\ Written[k + 1] \in Files /\ last \in Seq(Ops)
          /\ rest = <<Write(Written[k + 1])>> \o last
      BY <3>1, WritesNext
    <3> HIDE DEF last, rest
    <3>3. Write(Written[k + 1]) \in Ops BY <3>2, OpsAre
    <3>4. QED BY <1>4, <3>2, <3>3, FirstAndRest
  <2>6. Writing'
    <3>1. k + 1 \in 1 .. 5 /\ (k + 1) - 1 = k BY <2>1
    <3>2. \E n \in 1 .. 5 :
             /\ job' = Writes(n) \o AfterBuild(command)
             /\ \A j \in 1 .. n - 1 : compiled'[Written[j]] = ContentOf(Written[j], source)
      BY <1>4, <2>3, <3>1
    <3>3. QED BY <1>1, <1>4, <2>4, <3>2 DEF Writing
  <2>7. ArtifactsFit' BY <2>4 DEF ArtifactsFit
  <2>8. QED BY <1>8, <1>9, <2>5, <2>6, <2>7, GoesOn DEF JobFits
<1>11. CASE k = 5
  <2>1. f = "meta" BY <1>11, WrittenIs
  <2>2. \A g \in Files : compiled'[g] = ContentOf(g, source)
    <3>1. /\ compiled["component"] = ContentOf("component", source)
          /\ compiled["manifest"] = ContentOf("manifest", source)
          /\ compiled["world"] = ContentOf("world", source)
          /\ compiled["migrations"] = ContentOf("migrations", source)
      <4>1. 1 \in 1 .. k - 1 /\ 2 \in 1 .. k - 1 /\ 3 \in 1 .. k - 1 /\ 4 \in 1 .. k - 1
        BY <1>11
      <4>2. QED BY <1>2, <4>1, WrittenIs
    <3>2. QED BY <1>6, <2>1, <3>1, FilesAre
  <2>3. compiled' = Whole(source)'
    <3>1. compiled' \in [Files -> Contents] BY <1>8 DEF ProvisioningTypeOK
    <3>2. QED BY <1>4, <2>2, <3>1 DEF Whole
  <2>4. ArtifactsFit' BY <1>5, <2>2 DEF ArtifactsFit
  <2>5. job' = AfterBuild(command) BY <1>4, <1>11, WritesNext, ConcatEmptySeq DEF Writes
  <2>6. command \in {"compile", "ensure", "rebuild"} BY <1>1 DEF Writing
  <2>7. CASE command = "compile"
    <3>1. job' = <<>> BY <2>5, <2>7 DEF AfterBuild
    <3>2. InstallRepairs' BY <1>4, <2>7 DEF InstallRepairs, Installing
    <3>3. QED BY <1>8, <1>9, <2>4, <3>1, <3>2 DEF ProvisioningInv, JobFits
  <2>8. CASE command # "compile"
    <3>1. job' = <<Op("install"), Op("precompile")>> BY <2>5, <2>8 DEF AfterBuild
    <3>2. outcome' = "running" BY <1>4, <3>1, NotNothing
    <3>3. Built' BY <1>4, <2>3, <2>6, <2>8, <3>1 DEF Built, Installing, Fresh
    <3>4. QED BY <1>8, <1>9, <2>4, <3>2, <3>3, GoesOn DEF JobFits
  <2>9. QED BY <2>7, <2>8
<1>12. QED BY <1>10, <1>11

(* Artifacts that are not torn, and have their meta.json, are those of one *)
(* source.                                                                 *)
LEMMA WholeArtifacts ==
    ASSUME ProvisioningInv, MetaIsRead, "artifacts" \notin torn, ~Doing("discard")
    PROVE  \E s \in Sources : compiled = Whole(s)
<1>1. PICK s \in Sources : \A f \in Files \ {"meta"} : compiled[f] = ContentOf(f, s)
  BY DEF ProvisioningInv, ArtifactsFit, MetaIsRead
<1>2. compiled["meta"] = 1 BY DEF MetaIsRead, ProvisioningInv, ProvisioningTypeOK
<1>3. \A f \in Files : compiled[f] = ContentOf(f, s)
  <2>1. ContentOf("meta", s) = 1 BY DEF ContentOf
  <2>2. QED BY <1>1, <1>2, <2>1
<1>4. compiled \in [Files -> Contents] BY DEF ProvisioningInv, ProvisioningTypeOK
<1>5. compiled = Whole(s) BY <1>3, <1>4 DEF Whole
<1>6. QED BY <1>5

(* What an entry made whole from a source holds.                           *)
LEMMA WholeIs ==
    ASSUME NEW s \in Sources
    PROVE  /\ Whole(s)["component"] = s.code
           /\ Whole(s) = Whole([code |-> s.code, sheet |-> s.sheet])
           /\ s.code \in Edits /\ s.sheet \in Edits
<1>1. s = [code |-> s.code, sheet |-> s.sheet] /\ s.code \in Edits /\ s.sheet \in Edits
  BY DEF Sources
<1>2. Whole(s)["component"] = s.code BY FilesAre DEF Whole, ContentOf
<1>3. QED BY <1>1, <1>2

(* The comparison of component and meta.json sees all but an edit of the   *)
(* other files, where nothing is torn.                                     *)
LEMMA EqualIsInSync ==
    ASSUME ProvisioningInv, Doing("install"), MetaIsRead, DirectoriesEquivalent
    PROVE  InSync
<1>1. catalog["component"] = compiled["component"] /\ catalog["component"] # Missing
  BY FilesAre DEF DirectoriesEquivalent, Present
<1>2. ASSUME torn = {}
      PROVE  \E s \in Edits : catalog = Whole([code |-> compiled["component"], sheet |-> s])
  <2>1. catalog # Empty BY <1>1, FilesAre DEF Empty
  <2>2. PICK s \in Sources : catalog = Whole(s)
    BY <1>2, <2>1 DEF ProvisioningInv, CatalogFits, Doing
  <2>3. compiled["component"] = s.code BY <1>1, <2>2, WholeIs
  <2>4. catalog = Whole([code |-> s.code, sheet |-> s.sheet]) /\ s.sheet \in Edits
    BY <2>2, WholeIs
  <2>5. QED BY <2>3, <2>4
<1>3. QED BY <1>1, <1>2 DEF InSync

LEMMA InstallKeeps ==
    ASSUME ProvisioningInv, Install
    PROVE  ProvisioningInv'
<1>1. Doing("install") /\ ~Doing("discard") /\ ~Doing("remove") /\ ~Doing("copy")
  BY DEF Install, Doing
<1>2. command \in Installing /\ Fresh /\ Tail(job) = <<Op("precompile")>>
  <2>1. CASE Built BY <2>1 DEF Built
  <2>2. CASE job = Steps[command] /\ command = "upload"
    <3>1. job = <<Op("install"), Op("precompile")>> BY <2>2 DEF Steps
    <3>2. Tail(job) = <<Op("precompile")>> BY <3>1
    <3>3. QED BY <2>2, <3>2 DEF Installing, Fresh
  <2>3. QED BY <1>1, <2>1, <2>2, Phases
<1>3. CASE Fail BY <1>1, <1>3, FailureKeeps
<1>4. CASE /\ compiled["meta"] \notin {Missing, Partial}
           /\ Continue(SyncSteps \o Tail(job))
           /\ UNCHANGED <<compiled, catalog, database, torn>>
  <2>1. MetaIsRead BY <1>4 DEF MetaIsRead
  <2>2. /\ UNCHANGED <<compiled, catalog, torn, source, command>>
        /\ job' = SyncSteps \o <<Op("precompile")>>
        /\ outcome' = (IF job' = <<>> THEN "ok" ELSE "running")
    BY <1>2, <1>4 DEF Continue
  <2>3. ArtifactsFit' /\ CatalogFits' BY <1>1, <2>2, StillFits
  <2>4. ProvisioningTypeOK' BY <2>2 DEF ProvisioningInv, ProvisioningTypeOK
  <2>5. Op("precompile") \in Ops /\ Op("remove") \in Ops BY OpsAre DEF OpNames
  <2>6. <<Op("precompile")>> \in Seq(Ops) /\ <<Op("remove")>> \in Seq(Ops) BY <2>5
  <2>7. CASE DirectoriesEquivalent
    <3>1. job' = <<Op("precompile")>> BY <2>2, <2>6, <2>7, ConcatEmptySeq DEF SyncSteps
    <3>2. outcome' = "running"
      <4>1. job' # <<>> BY <3>1, NotNothing
      <4>2. QED BY <2>2, <4>1
    <3>3. InSync BY <1>1, <2>1, <2>7, EqualIsInSync
    <3>4. Synced' BY <1>2, <2>2, <3>1, <3>3 DEF Synced, Fresh, InSync
    <3>5. QED BY <2>3, <2>4, <3>2, <3>4, GoesOn DEF JobFits
  <2>8. CASE ~DirectoriesEquivalent
    <3> DEFINE last == <<Op("precompile")>>
               first == <<Op("remove")>>
    <3>1. SyncSteps = first \o Copies(1) BY <2>8 DEF SyncSteps, Copies
    <3>2. job' = SyncSteps \o last BY <2>2
    <3>3. Copies(1) \in Seq(Ops) BY CopiesNext
    <3>4. last \in Seq(Ops) /\ first \in Seq(Ops) BY <2>6
    <3> HIDE DEF last, first
    <3> DEFINE rest == Copies(1) \o last
    <3>5. job' = first \o rest /\ rest \in Seq(Ops)
      BY <3>1, <3>2, <3>3, <3>4, ConcatAssociative, ConcatProperties
    <3>6. Copies(1)' = Copies(1) BY <2>2 DEF Copies, CopyHeld
    <3>7. job' # <<>>
      <4> HIDE DEF rest
      <4>1. QED BY <2>5, <3>5, FirstAndRest DEF first
    <3>8. outcome' = "running" BY <2>2, <3>7
    <3>9. Removing' BY <1>2, <2>1, <2>2, <3>5, <3>6 DEF Removing, Fresh, MetaIsRead, last, first
    <3>10. QED BY <2>3, <2>4, <3>8, <3>9, GoesOn DEF JobFits
  <2>9. QED BY <2>7, <2>8
<1>5. QED BY <1>3, <1>4 DEF Install

(* What is left to copy, with what follows it.                             *)
LEMMA CopyJob ==
    ASSUME NEW k \in 1 .. 5, compiled[Listing[k]] # Missing
    PROVE  LET rest == Copies(k + 1) \o <<Op("precompile")>>
               now == Copies(k) \o <<Op("precompile")>>
           IN  /\ rest \in Seq(Ops) /\ now # <<>>
               /\ Head(now) = Copy(Listing[k]) /\ Tail(now) = rest
               /\ Listing[k] \in Files
<1> DEFINE last == <<Op("precompile")>>
           rest == Copies(k + 1) \o last
           now == Copies(k) \o last
<1>1. Listing[k] \in Files
  <2>1. k \in {1, 2, 3, 4, 5} OBVIOUS
  <2>2. QED BY <2>1, ListingIs, FilesAre
<1>2. Op("precompile") \in Ops /\ Copy(Listing[k]) \in Ops BY <1>1, OpsAre DEF OpNames
<1>3. last \in Seq(Ops) /\ <<Copy(Listing[k])>> \in Seq(Ops) BY <1>2
<1> HIDE DEF last
<1>4. Copies(k + 1) \in Seq(Ops) /\ Copies(k) = <<Copy(Listing[k])>> \o Copies(k + 1)
  BY CopiesNext
<1>5. rest \in Seq(Ops) BY <1>3, <1>4, ConcatProperties
<1>6. now = <<Copy(Listing[k])>> \o rest BY <1>3, <1>4, ConcatAssociative
<1> HIDE DEF rest, now
<1>7. now # <<>> /\ Head(now) = Copy(Listing[k]) /\ Tail(now) = rest
  BY <1>2, <1>5, <1>6, FirstAndRest
<1>8. QED BY <1>1, <1>5, <1>7 DEF rest, now, last

LEMMA RemoveKeeps ==
    ASSUME ProvisioningInv, RemoveEntry
    PROVE  ProvisioningInv'
<1>1. Removing BY Phases DEF RemoveEntry
<1>2. UNCHANGED <<compiled, torn, source, command>> BY DEF RemoveEntry, Continue
<1>3. ArtifactsFit'
  <2>1. ~Doing("discard") BY DEF RemoveEntry, Doing
  <2>2. QED BY <1>2, <2>1 DEF ProvisioningInv, ArtifactsFit
<1>4. catalog \in [Files -> Contents] BY DEF ProvisioningInv, ProvisioningTypeOK
<1>5. CASE Present(catalog) = {}
  <2>1. /\ job' = Tail(job) /\ outcome' = (IF Tail(job) = <<>> THEN "ok" ELSE "running")
        /\ catalog' = catalog
    BY <1>5 DEF RemoveEntry, Continue
  <2>2. \A f \in Files : catalog[f] = Missing BY <1>5 DEF Present
  <2>3. Tail(job) = Copies(1) \o <<Op("precompile")>>
    <3> DEFINE rest == Copies(1) \o <<Op("precompile")>>
    <3>1. Op("remove") \in Ops /\ Op("precompile") \in Ops BY OpsAre DEF OpNames
    <3>2. <<Op("precompile")>> \in Seq(Ops) BY <3>1
    <3>3. Copies(1) \in Seq(Ops) BY CopiesNext
    <3>4. rest \in Seq(Ops) BY <3>2, <3>3, ConcatProperties
    <3>5. job = <<Op("remove")>> \o rest BY <1>1 DEF Removing
    <3> HIDE DEF rest
    <3>6. Tail(job) = rest BY <3>1, <3>4, <3>5, FirstAndRest
    <3>7. QED BY <3>6 DEF rest
  <2>4. PICK m \in 1 .. 5 :
           /\ compiled[Listing[m]] # Missing /\ Copies(1) = Copies(m)
           /\ \A j \in 1 .. m - 1 : compiled[Listing[j]] = Missing
    <3>1. compiled[Listing[2]] # Missing BY <1>1, ListingIs DEF Removing, MetaIsRead
    <3>2. QED BY <3>1, NextCopy
  <2>5. job' = Copies(m) \o <<Op("precompile")>> BY <2>1, <2>3, <2>4
  <2>6. job' # <<>> /\ Head(job') = Copy(Listing[m]) /\ Listing[m] \in Files
    BY <2>4, <2>5, CopyJob
  <2>7. outcome' = "running" BY <2>1, <2>6
  <2>8. Copying'
    <3>1. Copies(m)' = Copies(m) BY <1>2 DEF Copies, CopyHeld
    <3>2. \A j \in 1 .. 5 : Listing[j] \in Files
      <4>1. \A j \in 1 .. 5 : j \in {1, 2, 3, 4, 5} OBVIOUS
      <4>2. QED BY <4>1, ListingIs, FilesAre
    <3>3. /\ job' = Copies(m)' \o <<Op("precompile")>> /\ compiled'[Listing[m]] # Missing
          /\ \A j \in 1 .. m - 1 : catalog'[Listing[j]] = compiled'[Listing[j]]
          /\ \A j \in m .. 5 : catalog'[Listing[j]] = Missing
      <4>1. job' = Copies(m)' \o <<Op("precompile")>> /\ compiled'[Listing[m]] # Missing
        BY <1>2, <2>4, <2>5, <3>1
      <4>2. \A j \in 1 .. 5 : catalog'[Listing[j]] = Missing BY <2>1, <2>2, <3>2
      <4>3. \A j \in 1 .. m - 1 : j \in 1 .. 5 /\ compiled'[Listing[j]] = Missing
        BY <1>2, <2>4
      <4>4. QED BY <4>1, <4>2, <4>3
    <3>4. command' \in Installing /\ Fresh' /\ MetaIsRead'
      BY <1>1, <1>2 DEF Removing, Fresh, MetaIsRead
    <3>5. QED BY <3>3, <3>4 DEF Copying
  <2>9. Doing("copy")' BY <2>6, OpsAre DEF Doing
  <2>10. ProvisioningTypeOK' BY <1>2, <2>1 DEF ProvisioningInv, ProvisioningTypeOK
  <2>11. QED BY <1>3, <2>7, <2>8, <2>9, <2>10, GoesOn DEF JobFits, CatalogFits
<1>6. CASE Present(catalog) # {}
  <2>1. /\ job' = job /\ job # <<>> /\ outcome' = (IF job = <<>> THEN "ok" ELSE "running")
        /\ \E f \in Present(catalog) : catalog' = [catalog EXCEPT ![f] = Missing]
    BY <1>6 DEF RemoveEntry, Continue, RemovedFrom, Doing
  <2>2. Removing'
    <3>1. Copies(1)' = Copies(1) BY <1>2 DEF Copies, CopyHeld
    <3>2. QED BY <1>1, <1>2, <2>1, <3>1 DEF Removing, Fresh, MetaIsRead
  <2>3. Doing("remove")' BY <2>1 DEF Doing, RemoveEntry
  <2>4. ProvisioningTypeOK'
    <3>1. catalog' \in [Files -> Contents] BY <1>4, <2>1 DEF Contents
    <3>2. QED BY <1>2, <3>1 DEF ProvisioningInv, ProvisioningTypeOK
  <2>5. QED BY <1>3, <2>1, <2>2, <2>3, <2>4, GoesOn DEF JobFits, CatalogFits
<1>7. QED BY <1>5, <1>6

LEMMA CopyKeeps ==
    ASSUME ProvisioningInv, CopyToCatalog
    PROVE  ProvisioningInv'
<1>1. Copying BY Phases DEF CopyToCatalog
<1>2. PICK k \in 1 .. 5 :
         /\ job = Copies(k) \o <<Op("precompile")>> /\ compiled[Listing[k]] # Missing
         /\ \A j \in 1 .. k - 1 : catalog[Listing[j]] = compiled[Listing[j]]
         /\ \A j \in k .. 5 : catalog[Listing[j]] = Missing
  BY <1>1 DEF Copying
<1> DEFINE f == Listing[k]
<1>3. f \in Files /\ Head(job) = Copy(f) /\ Tail(job) = Copies(k + 1) \o <<Op("precompile")>>
  BY <1>2, CopyJob
<1>4. /\ catalog' = [catalog EXCEPT ![f] = compiled[f]]
      /\ job' = Tail(job) /\ outcome' = (IF Tail(job) = <<>> THEN "ok" ELSE "running")
      /\ torn' = (IF Head(Tail(job)).op = "copy" THEN torn
                  ELSE IF "artifacts" \in torn THEN {"artifacts", "catalog"} ELSE {})
      /\ UNCHANGED <<compiled, source, command>>
  <2>1. Copy(f).file = f BY <1>3, OpsAre
  <2> HIDE DEF f
  <2>2. QED BY <1>3, <2>1 DEF CopyToCatalog, Continue
<1>5. catalog \in [Files -> Contents] /\ compiled \in [Files -> Contents]
  BY DEF ProvisioningInv, ProvisioningTypeOK
<1>6. \A j \in 1 .. 5 : Listing[j] \in Files /\ \A i \in 1 .. 5 : i # j => Listing[i] # Listing[j]
  <2>1. \A j \in 1 .. 5 : j \in {1, 2, 3, 4, 5} OBVIOUS
  <2>2. QED BY <2>1, ListingIs, FilesAre
<1>7. /\ \A j \in 1 .. k : catalog'[Listing[j]] = compiled[Listing[j]]
      /\ \A j \in k + 1 .. 5 : catalog'[Listing[j]] = Missing
  <2>1. catalog'[f] = compiled[f] /\ \A g \in Files : g # f => catalog'[g] = catalog[g]
    BY <1>3, <1>4, <1>5
  <2>2. \A j \in 1 .. k - 1 : j \in 1 .. 5 /\ j # k /\ Listing[j] \in Files /\ Listing[j] # f
    BY <1>6
  <2>3. \A j \in k + 1 .. 5 : j \in k .. 5 /\ Listing[j] \in Files /\ Listing[j] # f BY <1>6
  <2>4. \A j \in 1 .. k : j = k \/ j \in 1 .. k - 1 OBVIOUS
  <2>5. QED BY <1>2, <2>1, <2>2, <2>3, <2>4
<1>8. ProvisioningTypeOK'
  <2>1. torn \subseteq {"artifacts", "catalog"} /\ torn' \subseteq {"artifacts", "catalog"}
    BY <1>4 DEF ProvisioningInv, ProvisioningTypeOK
  <2>2. catalog' \in [Files -> Contents] BY <1>3, <1>4, <1>5
  <2>3. QED BY <1>4, <2>1, <2>2 DEF ProvisioningInv, ProvisioningTypeOK
<1>9. ~Doing("discard") BY DEF CopyToCatalog, Doing
<1>10. ArtifactsFit'
  <2>1. "artifacts" \in torn <=> "artifacts" \in torn'
    BY <1>4
  <2>2. QED BY <1>4, <1>9, <2>1 DEF ProvisioningInv, ArtifactsFit
<1>11. CASE Copies(k + 1) = <<>> /\ \A j \in k + 1 .. 5 : compiled[Listing[j]] = Missing
  <2>1. job' = <<Op("precompile")>>
    <3>1. <<Op("precompile")>> \in Seq(Ops) BY OpsAre DEF OpNames
    <3>2. QED BY <1>3, <1>4, <1>11, <3>1, ConcatEmptySeq
  <2>2. outcome' = "running"
    <3>1. Tail(job) # <<>> BY <1>4, <2>1, NotNothing
    <3>2. QED BY <1>4, <3>1
  <2>3. catalog' = compiled
    <3>1. \A j \in 1 .. 5 : j \in 1 .. k \/ j \in k + 1 .. 5 OBVIOUS
    <3>2. \A j \in 1 .. 5 : catalog'[Listing[j]] = compiled[Listing[j]] BY <1>7, <1>11, <3>1
    <3>3. /\ catalog'[Listing[1]] = compiled[Listing[1]]
          /\ catalog'[Listing[2]] = compiled[Listing[2]]
          /\ catalog'[Listing[3]] = compiled[Listing[3]]
          /\ catalog'[Listing[4]] = compiled[Listing[4]]
          /\ catalog'[Listing[5]] = compiled[Listing[5]]
      BY <3>2
    <3>4. \A g \in Files : catalog'[g] = compiled[g] BY <3>3, ListingIs, FilesAre
    <3>5. catalog' \in [Files -> Contents] BY <1>8 DEF ProvisioningTypeOK
    <3>6. QED BY <1>5, <3>4, <3>5
  <2>4. Synced'
    <3>1. command' \in Installing /\ Fresh' BY <1>1, <1>4 DEF Copying, Fresh
    <3>2. QED BY <1>4, <2>1, <2>3, <3>1 DEF Synced, InSync
  <2>5. CatalogFits'
    <3>1. torn' = IF "artifacts" \in torn THEN {"artifacts", "catalog"} ELSE {}
      <4>1. Op("precompile").op # "copy" BY OpsAre DEF OpNames
      <4>2. Head(<<Op("precompile")>>) = Op("precompile") OBVIOUS
      <4>3. QED BY <1>4, <2>1, <4>1, <4>2
    <3>2. CASE "artifacts" \notin torn
      <4>1. \E s \in Sources : compiled = Whole(s)
        BY <1>1, <1>9, <3>2, WholeArtifacts DEF Copying
      <4>2. QED BY <2>3, <4>1 DEF CatalogFits
    <3>3. QED BY <3>1, <3>2 DEF CatalogFits
  <2>6. QED BY <1>8, <1>10, <2>2, <2>4, <2>5, GoesOn DEF JobFits
<1>12. ASSUME NEW m \in k + 1 .. 5, compiled[Listing[m]] # Missing, Copies(k + 1) = Copies(m),
              \A j \in k + 1 .. m - 1 : compiled[Listing[j]] = Missing
       PROVE  ProvisioningInv'
  <2>1. m \in 1 .. 5 BY <1>12
  <2>2. job' = Copies(m) \o <<Op("precompile")>> BY <1>3, <1>4, <1>12
  <2>3. job' # <<>> /\ Head(job') = Copy(Listing[m]) /\ Listing[m] \in Files
    BY <1>12, <2>1, <2>2, CopyJob
  <2>4. outcome' = "running" BY <1>4, <2>3
  <2>5. Doing("copy")' BY <2>3, OpsAre DEF Doing
  <2>6. Copying'
    <3>1. Copies(m)' = Copies(m) BY <1>4 DEF Copies, CopyHeld
    <3>2. \A j \in 1 .. m - 1 :
             j \in 1 .. k \/ (j \in k + 1 .. 5 /\ j \in k + 1 .. m - 1)
      BY <1>12
    <3>3. \A j \in 1 .. m - 1 : catalog'[Listing[j]] = compiled'[Listing[j]]
      BY <1>4, <1>7, <1>12, <3>2
    <3>4. \A j \in m .. 5 : j \in k + 1 .. 5 BY <1>12
    <3>5. \A j \in m .. 5 : catalog'[Listing[j]] = Missing BY <1>7, <3>4
    <3>6. job' = Copies(m)' \o <<Op("precompile")>> /\ compiled'[Listing[m]] # Missing
      BY <1>4, <1>12, <2>2, <3>1
    <3>7. command' \in Installing /\ Fresh' /\ MetaIsRead'
      BY <1>1, <1>4 DEF Copying, Fresh, MetaIsRead
    <3>8. QED BY <2>1, <3>3, <3>5, <3>6, <3>7 DEF Copying
  <2>7. QED BY <1>8, <1>10, <2>4, <2>5, <2>6, GoesOn DEF JobFits, CatalogFits
<1>13. k + 1 \in 1 .. 6 OBVIOUS
<1>14. QED BY <1>11, <1>12, <1>13, NextCopy

LEMMA PrecompileKeeps ==
    ASSUME ProvisioningInv, Precompile
    PROVE  ProvisioningInv'
<1>1. Synced BY Phases DEF Precompile
<1>2. ~Doing("discard") /\ ~Doing("remove") /\ ~Doing("copy") BY DEF Precompile, Doing
<1>3. CASE Fail BY <1>2, <1>3, FailureKeeps
<1>4. CASE /\ Needed \subseteq Present(catalog)
           /\ Continue(Tail(job)) /\ UNCHANGED <<compiled, catalog, database, torn>>
  <2>1. Tail(job) = <<>> BY <1>1 DEF Synced
  <2>2. /\ UNCHANGED <<compiled, catalog, torn, source, command>>
        /\ job' = <<>> /\ outcome' = "ok"
    BY <1>4, <2>1 DEF Continue
  <2>3. ArtifactsFit' /\ CatalogFits' BY <1>2, <2>2, StillFits
  <2>4. ProvisioningTypeOK' BY <2>2 DEF ProvisioningInv, ProvisioningTypeOK
  <2>5. InstallRepairs'
    <3>1. /\ catalog'["component"] = compiled'["component"]
          /\ \/ catalog' = compiled' \/ torn' # {}
             \/ \E s \in Edits :
                   catalog' = Whole([code |-> compiled'["component"], sheet |-> s])
      BY <1>1, <2>2 DEF Synced, InSync
    <3>2. Needed \subseteq Present(catalog)' BY <1>4, <2>2 DEF Present
    <3>3. command' = "rebuild" => compiled' = Whole(source)'
      BY <1>1, <2>2 DEF Synced, Fresh, Whole
    <3>4. command' \notin {"create", "reset"} BY <1>1, <2>2 DEF Synced, Installing
    <3>5. QED BY <3>1, <3>2, <3>3, <3>4 DEF InstallRepairs
  <2>6. QED BY <2>2, <2>3, <2>4, <2>5 DEF ProvisioningInv, JobFits
<1>5. QED BY <1>3, <1>4 DEF Precompile

(* The steps that concern the database alone.                              *)
LEMMA DatabaseKeeps ==
    ASSUME ProvisioningInv, Specify \/ RefuseExisting \/ Drop \/ Migrate \/ Seed
    PROVE  ProvisioningInv'
<1>1. \E name \in {"specify", "refuse", "drop", "migrate", "seed"} : Doing(name)
  BY DEF Specify, RefuseExisting, Drop, Migrate, Seed
<1>2. ~Doing("discard") /\ ~Doing("remove") /\ ~Doing("copy") BY <1>1 DEF Doing
<1>3. command \in {"create", "reset"} BY <1>1, Phases DEF Seeding
<1>4. CASE Fail BY <1>2, <1>4, FailureKeeps
<1>5. ASSUME UNCHANGED <<source, compiled, catalog, command, torn>>
      PROVE  ProvisioningTypeOK' /\ ArtifactsFit' /\ CatalogFits'
  BY <1>2, <1>5, StillFits DEF ProvisioningInv, ProvisioningTypeOK
<1>6. \/ job \in {<<Op("specify"), Op("refuse"), Op("migrate"), Op("seed")>>,
                  <<Op("specify"), Op("drop"), Op("migrate"), Op("seed")>>}
      \/ job \in {<<Op("refuse"), Op("migrate"), Op("seed")>>,
                  <<Op("drop"), Op("migrate"), Op("seed")>>, <<Op("migrate"), Op("seed")>>}
      \/ job = <<Op("seed")>>
  <2>1. CASE Seeding BY <2>1 DEF Seeding
  <2>2. CASE job = Steps[command] BY <1>3, <2>2 DEF Steps
  <2>3. QED BY <1>1, <2>1, <2>2, Phases
<1>7. ASSUME Continue(Tail(job)), UNCHANGED <<compiled, catalog, torn>>, ~Doing("seed")
      PROVE  ProvisioningInv'
  <2>1. Op("seed").op = "seed" BY OpsAre DEF OpNames
  <2>2. job # <<Op("seed")>> BY <1>7, <2>1, NotNothing DEF Doing
  <2>3. /\ Tail(job) # <<>>
        /\ Tail(job) \in {<<Op("refuse"), Op("migrate"), Op("seed")>>,
                          <<Op("drop"), Op("migrate"), Op("seed")>>,
                          <<Op("migrate"), Op("seed")>>, <<Op("seed")>>}
    <3>1. CASE job \in {<<Op("specify"), Op("refuse"), Op("migrate"), Op("seed")>>,
                        <<Op("specify"), Op("drop"), Op("migrate"), Op("seed")>>}
      <4>1. PICK a \in {Op("refuse"), Op("drop")} :
               job = <<Op("specify"), a, Op("migrate"), Op("seed")>>
        BY <3>1
      <4>2. Tail(job) = <<a, Op("migrate"), Op("seed")>> BY <4>1
      <4>3. QED BY <4>1, <4>2, NotNothing
    <3>2. CASE job \in {<<Op("refuse"), Op("migrate"), Op("seed")>>,
                        <<Op("drop"), Op("migrate"), Op("seed")>>}
      <4>a. PICK a \in {Op("refuse"), Op("drop")} : job = <<a, Op("migrate"), Op("seed")>>
        BY <3>2
      <4>1. Tail(job) = <<Op("migrate"), Op("seed")>> BY <4>a
      <4>2. QED BY <4>1, NotNothing
    <3>3. CASE job = <<Op("migrate"), Op("seed")>>
      <4>1. Tail(job) = <<Op("seed")>> BY <3>3
      <4>2. QED BY <4>1, NotNothing
    <3>4. QED BY <1>6, <2>2, <3>1, <3>2, <3>3
  <2>4. /\ UNCHANGED <<source, compiled, catalog, command, torn>>
        /\ job' = Tail(job) /\ outcome' = "running"
    BY <1>7, <2>3 DEF Continue
  <2>5. Seeding' BY <1>3, <2>3, <2>4 DEF Seeding
  <2>6. QED BY <1>5, <2>4, <2>5, GoesOn DEF JobFits
<1>8. CASE Specify \/ RefuseExisting \/ Drop
  <2>1. ~Doing("seed") BY <1>8 DEF Specify, RefuseExisting, Drop, Doing
  <2>2. \/ Fail
        \/ Continue(Tail(job)) /\ UNCHANGED <<compiled, catalog, torn>>
    BY <1>8 DEF Specify, RefuseExisting, Drop
  <2>3. QED BY <1>4, <1>7, <2>1, <2>2
<1>9. ASSUME catalog["migrations"] = Missing,
             UNCHANGED <<source, compiled, catalog, command, torn>>,
             job' = <<>>, outcome' = "failed"
      PROVE  ProvisioningInv'
  BY <1>5, <1>9 DEF ProvisioningInv, JobFits, InstallRepairs
<1>10. CASE Migrate
  <2>1. ~Doing("seed") BY <1>10 DEF Migrate, Doing
  <2>2. CASE catalog["migrations"] = Missing BY <1>9, <1>10, <2>2 DEF Migrate, ApplySql
  <2>3. CASE catalog["migrations"] # Missing
    BY <1>7, <1>10, <2>1, <2>3 DEF Migrate, ApplySql
  <2>4. QED BY <2>2, <2>3
<1>11. CASE Seed
  <2>1. CASE catalog["migrations"] = Missing BY <1>9, <1>11, <2>1 DEF Seed, ApplySql
  <2>2. CASE catalog["migrations"] # Missing
    <3>1. /\ database' = [stage |-> "seeded", of |-> catalog["migrations"]]
          /\ Continue(Tail(job)) /\ UNCHANGED <<compiled, catalog, torn>>
      BY <1>11, <2>2 DEF Seed, ApplySql
    <3>2. job = <<Op("seed")>>
      <4>1. /\ Op("specify").op # "seed" /\ Op("refuse").op # "seed" /\ Op("drop").op # "seed"
            /\ Op("migrate").op # "seed"
        BY OpsAre DEF OpNames
      <4>2. Head(job).op = "seed" BY <1>11 DEF Seed, Doing
      <4>3. QED BY <1>6, <4>1, <4>2
    <3>3. job' = <<>> /\ outcome' = "ok" /\ UNCHANGED <<source, command>>
      <4>1. Tail(job) = <<>> BY <3>2
      <4>2. QED BY <3>1, <4>1 DEF Continue
    <3>4. InstallRepairs' BY <1>3, <3>1, <3>3 DEF InstallRepairs, Installing
    <3>5. QED BY <1>5, <3>1, <3>3, <3>4 DEF ProvisioningInv, JobFits
  <2>3. QED BY <2>1, <2>2
<1>12. QED BY <1>8, <1>10, <1>11

(* A command that is cut off leaves artifacts that are torn, or those of   *)
(* one source, or those whose meta.json is not there yet.                  *)
LEMMA CutOffKeeps ==
    ASSUME ProvisioningInv, CutOff
    PROVE  ProvisioningInv'
<1>1. /\ job' = <<>> /\ outcome' = "cut off" /\ UNCHANGED <<source, command>>
      /\ torn \subseteq torn'
      /\ torn' \subseteq {"artifacts", "catalog"}
      /\ Doing("discard") => "artifacts" \in torn'
      /\ Doing("remove") \/ Doing("copy") => "catalog" \in torn'
  <2>1. torn \subseteq {"artifacts", "catalog"} BY DEF ProvisioningInv, ProvisioningTypeOK
  <2>2. QED BY <2>1 DEF CutOff, Doing
<1>2. /\ source \in Sources /\ compiled \in [Files -> Contents]
      /\ compiled["meta"] \in {Missing, Partial, 1} /\ catalog \in [Files -> Contents]
  BY DEF ProvisioningInv, ProvisioningTypeOK
<1>3. \/ compiled' = compiled
      \/ Doing("write") /\ compiled' = [compiled EXCEPT ![Head(job).file] = Partial]
  BY DEF CutOff, Doing
<1>4. \/ catalog' = catalog
      \/ Doing("copy") /\ catalog' = [catalog EXCEPT ![Head(job).file] = Partial]
  BY DEF CutOff, Doing
<1>5. ProvisioningTypeOK'
  <2>1. compiled' \in [Files -> Contents] BY <1>2, <1>3 DEF Contents
  <2>2. catalog' \in [Files -> Contents] BY <1>2, <1>4 DEF Contents
  <2>3. compiled'["meta"] \in {Missing, Partial, 1} BY <1>2, <1>3, FilesAre
  <2>4. QED BY <1>1, <2>1, <2>2, <2>3 DEF ProvisioningInv, ProvisioningTypeOK
<1>6. CatalogFits'
  <2>1. CASE "catalog" \in torn' BY <2>1 DEF CatalogFits
  <2>2. CASE "catalog" \notin torn'
    <3>1. ~Doing("remove") /\ ~Doing("copy") /\ "catalog" \notin torn BY <1>1, <2>2
    <3>2. catalog' = catalog BY <1>4, <3>1
    <3>3. QED BY <3>1, <3>2 DEF ProvisioningInv, CatalogFits
  <2>3. QED BY <2>1, <2>2
<1>7. ArtifactsFit'
  <2>1. CASE "artifacts" \in torn' BY <2>1 DEF ArtifactsFit
  <2>2. CASE "artifacts" \notin torn' /\ compiled' = compiled
    <3>1. ~Doing("discard") /\ "artifacts" \notin torn BY <1>1, <2>2
    <3>2. QED BY <2>2, <3>1 DEF ProvisioningInv, ArtifactsFit
  <2>3. CASE /\ "artifacts" \notin torn' /\ Doing("write")
             /\ compiled' = [compiled EXCEPT ![Head(job).file] = Partial]
    <3>1. Writing BY <2>3, Phases
    <3>2. compiled["meta"] = Missing BY <1>1, <2>3, <3>1 DEF Writing
    <3>3. PICK k \in 1 .. 5 :
             /\ job = Writes(k) \o AfterBuild(command)
             /\ \A j \in 1 .. k - 1 : compiled[Written[j]] = ContentOf(Written[j], source)
      BY <3>1 DEF Writing
    <3> DEFINE f == Written[k]
               rest == Writes(k + 1) \o AfterBuild(command)
    <3>4. f \in Files /\ rest \in Seq(Ops) /\ job = <<Write(f)>> \o rest BY <3>3, WritesNext
    <3> HIDE DEF rest, f
    <3>5. Write(f) \in Ops /\ Write(f).file = f BY <3>4, OpsAre
    <3>6. Head(job).file = f BY <3>4, <3>5, FirstAndRest
    <3>7. compiled' = [compiled EXCEPT ![f] = Partial] BY <2>3, <3>6
    <3>8. CASE f # "meta"
      <4>1. compiled'["meta"] = Missing BY <1>2, <3>2, <3>7, <3>8, FilesAre
      <4>2. QED BY <4>1 DEF ArtifactsFit
    <3>9. CASE f = "meta"
      <4>1. k = 5
        <5>1. k \in {1, 2, 3, 4, 5} OBVIOUS
        <5>2. QED BY <3>9, <5>1, WrittenIs DEF f
      <4>2. \A g \in Files \ {"meta"} : compiled[g] = ContentOf(g, source)
        <5>1. 1 \in 1 .. k - 1 /\ 2 \in 1 .. k - 1 /\ 3 \in 1 .. k - 1 /\ 4 \in 1 .. k - 1
          BY <4>1
        <5>2. QED BY <3>3, <5>1, WrittenIs, FilesAre
      <4>3. \A g \in Files \ {"meta"} : compiled'[g] = ContentOf(g, source)
        BY <1>2, <3>7, <3>9, <4>2
      <4>4. QED BY <1>2, <4>3 DEF ArtifactsFit
    <3>10. QED BY <3>8, <3>9
  <2>4. QED BY <1>3, <2>1, <2>2, <2>3
<1>8. QED BY <1>1, <1>5, <1>6, <1>7 DEF ProvisioningInv, JobFits, InstallRepairs

(***************************************************************************)
(* The theorems                                                            *)
(***************************************************************************)
LEMMA ProvisioningInitially == ProvisioningInit => ProvisioningInv
<1> SUFFICES ASSUME ProvisioningInit PROVE ProvisioningInv
  OBVIOUS
<1>1. source \in Sources BY ProvisioningAssumption DEF ProvisioningInit, Sources
<1>2. /\ compiled \in [Files -> Contents] /\ compiled["meta"] = Missing
      /\ catalog \in [Files -> Contents] /\ catalog = Empty
  BY FilesAre DEF ProvisioningInit, Empty, Contents
<1>3. command \in DOMAIN Steps BY DEF ProvisioningInit, Steps
<1>4. ProvisioningTypeOK BY <1>1, <1>2, <1>3 DEF ProvisioningInit, ProvisioningTypeOK
<1>5. JobFits /\ outcome = "none" BY DEF ProvisioningInit, JobFits
<1>6. QED BY <1>2, <1>4, <1>5 DEF ProvisioningInv, ArtifactsFit, CatalogFits, InstallRepairs

LEMMA ProvisioningSteps ==
    ProvisioningInv /\ [ProvisioningNext]_provisioningVars => ProvisioningInv'
<1> SUFFICES ASSUME ProvisioningInv, [ProvisioningNext]_provisioningVars
             PROVE  ProvisioningInv'
  OBVIOUS
<1>1. ASSUME NEW c \in DOMAIN Steps, Start(c) PROVE ProvisioningInv' BY <1>1, StartKeeps
<1>2. CASE Edit BY <1>2, EditKeeps
<1>3. CASE Discard BY <1>3, DiscardKeeps
<1>4. CASE Build BY <1>4, BuildKeeps
<1>5. CASE WriteArtifact BY <1>5, WriteKeeps
<1>6. CASE Install BY <1>6, InstallKeeps
<1>7. CASE RemoveEntry BY <1>7, RemoveKeeps
<1>8. CASE CopyToCatalog BY <1>8, CopyKeeps
<1>9. CASE Precompile BY <1>9, PrecompileKeeps
<1>10. CASE Specify \/ RefuseExisting \/ Drop \/ Migrate \/ Seed BY <1>10, DatabaseKeeps
<1>11. CASE CutOff BY <1>11, CutOffKeeps
<1>12. CASE UNCHANGED provisioningVars
  <2>1. /\ UNCHANGED <<source, compiled, catalog, database, command, job>>
        /\ UNCHANGED <<outcome, torn, commands, cutOffs>>
    BY <1>12 DEF provisioningVars
  <2>2. ProvisioningTypeOK' BY <2>1 DEF ProvisioningInv, ProvisioningTypeOK
  <2>3. ArtifactsFit' /\ CatalogFits'
    BY <2>1 DEF ProvisioningInv, ArtifactsFit, CatalogFits, Doing
  <2>4. JobFits'
    <3>1. /\ \A k \in 1 .. 5 : Copies(k)' = Copies(k)
          /\ Copies(1)' = Copies(1)
      BY <2>1 DEF Copies, CopyHeld
    <3>2. (Cleared' <=> Cleared) /\ (Writing' <=> Writing) /\ (Built' <=> Built)
      BY <2>1 DEF Cleared, Writing, Built, Fresh, Whole
    <3>3. Removing' <=> Removing
      BY <2>1, <3>1 DEF Removing, Fresh, Whole, MetaIsRead
    <3>4. Copying' <=> Copying
      BY <2>1, <3>1 DEF Copying, Fresh, Whole, MetaIsRead
    <3>5. (Synced' <=> Synced) /\ (Seeding' <=> Seeding)
      BY <2>1 DEF Synced, Seeding, Fresh, Whole, InSync
    <3>6. QED BY <2>1, <3>2, <3>3, <3>4, <3>5 DEF ProvisioningInv, JobFits
  <2>5. InstallRepairs' BY <2>1 DEF ProvisioningInv, InstallRepairs, Present, Whole
  <2>6. QED BY <2>1, <2>2, <2>3, <2>4, <2>5 DEF ProvisioningInv
<1>13. QED BY <1>1, <1>2, <1>3, <1>4, <1>5, <1>6, <1>7, <1>8, <1>9, <1>10, <1>11, <1>12
          DEF ProvisioningNext

(* Where a command is in its operations, and what the artifact directory   *)
(* and the catalog entry hold there and between commands, hold throughout. *)
THEOREM ProvisioningInvariant == ProvisioningSpec => []ProvisioningInv
BY ProvisioningInitially, ProvisioningSteps, PTL DEF ProvisioningSpec

(* Whatever was cut off before, a command that reports success leaves what *)
(* it promises: an entry that runs the compiled component, artifacts of    *)
(* the source as it is, or a database with the entry's migrations.         *)
THEOREM InstallsRepair == ProvisioningSpec => []InstallRepairs
<1>1. ProvisioningInv => InstallRepairs BY DEF ProvisioningInv
<1>2. QED BY <1>1, ProvisioningInvariant, PTL

(***************************************************************************)
(* That a name reaches the function of the skill it says, or none, for any *)
(* number of skills, versions and functions and any order they are         *)
(* registered in.  The registry is made by loops; what they make is proved *)
(* by induction over their turns: after each, the registry holds exactly   *)
(* the functions registered so far, and a bare name has been withdrawn     *)
(* exactly if two of them have it.                                         *)
(***************************************************************************)

(* A function of an entry, by the pair of the two.                         *)
Exporting == {p \in Entries \X Functions : p[2] \in ToSet(p[1].exports)}
IdOf(p) == Id(p[1], p[2])
QualifiedOf(p) == Qualified(p[1], p[2])

(* The functions of the first n entries, the first n functions of one.     *)
ExportedBy(entries, n) ==
    {p \in Exporting : \E i \in 1 .. n : entries[i] = p[1]}
FirstOf(e, n) == {p \in Exporting : p[1] = e /\ \E i \in 1 .. n : e.exports[i] = p[2]}

(* The only function of its name, the bare names these have, the others.   *)
Sole(D, p) == \A o \in D : o[2] = p[2] => o = p
UniqueOf(D) == {<<p[2], IdOf(p)>> : p \in {q \in D : Sole(D, q)}}
DuplicatesOf(D) == {p[2] : p \in {q \in D : ~ Sole(D, q)}}

(* What a registry holds once the functions of D have been registered.     *)
RegistryFits(r, D) ==
    /\ r = [failed |-> r.failed, actions |-> r.actions, qualified |-> r.qualified,
            unique |-> r.unique, duplicates |-> r.duplicates]
    /\ r.failed \in BOOLEAN
    /\ ~ r.failed =>
         /\ \A p, o \in D : IdOf(p) = IdOf(o) => p = o
         /\ r.actions = {<<IdOf(p), p[1]>> : p \in D}
         /\ \A pair \in r.qualified : \E p \in D : pair = <<QualifiedOf(p), IdOf(p)>>
         /\ \A p \in D : QualifiedOf(p) \in Keys(r.qualified)
         /\ r.unique = UniqueOf(D) /\ r.duplicates = DuplicatesOf(D)

CatalogInv ==
    /\ installed \subseteq Entries /\ loaded \in Seq(Entries)
    /\ RegistryFits(registry, ExportedBy(loaded, Len(loaded)))

(***************************************************************************)
(* Loops                                                                   *)
(***************************************************************************)

(* The loop that reads the directories, turn by turn.                      *)
LEMMA WalkTurns ==
    \E found :
        /\ found = [n \in 0 .. Len(Order) |->
                       IF n = 0 THEN <<>>
                       ELSE IF Order[n] \in installed
                            THEN Append(found[n - 1], Order[n]) ELSE found[n - 1]]
        /\ Walk = found[Len(Order)]
<1> DEFINE Turn(g, n) == IF n = 0 THEN <<>>
                         ELSE IF Order[n] \in installed
                              THEN Append(g[n - 1], Order[n]) ELSE g[n - 1]
           S == {m \in Nat : \E g : g = [n \in 0 .. m |-> Turn(g, n)]}
<1>1. 0 \in S
  <2> DEFINE z == [n \in 0 .. 0 |-> <<>>]
  <2>1. z = [n \in 0 .. 0 |-> Turn(z, n)] OBVIOUS
  <2>2. QED BY <2>1
<1>2. ASSUME NEW m \in Nat, m \in S PROVE m + 1 \in S
  <2>1. PICK g : g = [n \in 0 .. m |-> Turn(g, n)] BY <1>2
  <2> DEFINE h == [n \in 0 .. m + 1 |-> IF n = m + 1 THEN Turn(g, m + 1) ELSE g[n]]
  <2>2. \A n \in 0 .. m : h[n] = g[n] BY <1>2
  <2>3. ASSUME NEW n \in 0 .. m + 1 PROVE h[n] = Turn(h, n)
    <3>1. n # 0 => n - 1 \in 0 .. m BY <1>2
    <3>2. Turn(h, n) = Turn(g, n) BY <2>2, <3>1
    <3>3. CASE n = m + 1 BY <3>2, <3>3
    <3>4. CASE n # m + 1
      <4>1. n \in 0 .. m BY <1>2, <3>4
      <4>2. g[n] = Turn(g, n) BY <2>1, <4>1
      <4>3. QED BY <2>2, <3>2, <4>1, <4>2
    <3>5. QED BY <3>3, <3>4
  <2>4. h = [n \in 0 .. m + 1 |-> Turn(h, n)] BY <2>3
  <2> HIDE DEF h, Turn
  <2>5. \E k : k = [n \in 0 .. m + 1 |-> Turn(k, n)] BY <2>4
  <2>6. QED BY <1>2, <2>5
<1>3. Len(Order) \in S
  <2> HIDE DEF S
  <2>1. Len(Order) \in Nat BY CatalogAssumption, LenProperties
  <2>2. QED BY <1>1, <1>2, <2>1, TurnInduction
<1>4. QED BY <1>3 DEF Walk

(* The loop that registers an entry, turn by turn.                          *)
LEMMA SkillTurns ==
    ASSUME NEW r, NEW e \in Entries
    PROVE
      \E after :
        /\ after = [n \in 0 .. Len(e.exports) |->
                      IF n = 0 THEN r ELSE RegisterFunction(after[n - 1], e, e.exports[n])]
        /\ RegisterSkill(r, e) = after[Len(e.exports)]
<1> DEFINE Turn(g, n) == IF n = 0 THEN r ELSE RegisterFunction(g[n - 1], e, e.exports[n])
           S == {m \in Nat : \E g : g = [n \in 0 .. m |-> Turn(g, n)]}
<1>1. 0 \in S
  <2> DEFINE z == [n \in 0 .. 0 |-> r]
  <2>1. z = [n \in 0 .. 0 |-> Turn(z, n)] OBVIOUS
  <2>2. QED BY <2>1
<1>2. ASSUME NEW m \in Nat, m \in S PROVE m + 1 \in S
  <2>1. PICK g : g = [n \in 0 .. m |-> Turn(g, n)] BY <1>2
  <2> DEFINE h == [n \in 0 .. m + 1 |-> IF n = m + 1 THEN Turn(g, m + 1) ELSE g[n]]
  <2>2. \A n \in 0 .. m : h[n] = g[n] BY <1>2
  <2>3. ASSUME NEW n \in 0 .. m + 1 PROVE h[n] = Turn(h, n)
    <3>1. n # 0 => n - 1 \in 0 .. m BY <1>2
    <3>2. Turn(h, n) = Turn(g, n) BY <2>2, <3>1
    <3>3. CASE n = m + 1 BY <3>2, <3>3
    <3>4. CASE n # m + 1
      <4>1. n \in 0 .. m BY <1>2, <3>4
      <4>2. g[n] = Turn(g, n) BY <2>1, <4>1
      <4>3. QED BY <2>2, <3>2, <4>1, <4>2
    <3>5. QED BY <3>3, <3>4
  <2>4. h = [n \in 0 .. m + 1 |-> Turn(h, n)] BY <2>3
  <2> HIDE DEF h, Turn
  <2>5. \E k : k = [n \in 0 .. m + 1 |-> Turn(k, n)] BY <2>4
  <2>6. QED BY <1>2, <2>5
<1>3. Len(e.exports) \in S
  <2> HIDE DEF S
  <2>1. Len(e.exports) \in Nat BY CatalogAssumption, LenProperties DEF Entries
  <2>2. QED BY <1>1, <1>2, <2>1, TurnInduction
<1>4. QED BY <1>3 DEF RegisterSkill

(* The loop that registers the entries of a load, turn by turn.             *)
LEMMA RegistryTurns ==
    ASSUME NEW entries \in Seq(Entries)
    PROVE
      \E after :
        /\ after = [n \in 0 .. Len(entries) |->
                      IF n = 0 THEN NoActions ELSE RegisterSkill(after[n - 1], entries[n])]
        /\ FromSkills(entries) = after[Len(entries)]
<1> DEFINE Turn(g, n) == IF n = 0 THEN NoActions ELSE RegisterSkill(g[n - 1], entries[n])
           S == {m \in Nat : \E g : g = [n \in 0 .. m |-> Turn(g, n)]}
<1>1. 0 \in S
  <2> DEFINE z == [n \in 0 .. 0 |-> NoActions]
  <2>1. z = [n \in 0 .. 0 |-> Turn(z, n)] OBVIOUS
  <2>2. QED BY <2>1
<1>2. ASSUME NEW m \in Nat, m \in S PROVE m + 1 \in S
  <2>1. PICK g : g = [n \in 0 .. m |-> Turn(g, n)] BY <1>2
  <2> DEFINE h == [n \in 0 .. m + 1 |-> IF n = m + 1 THEN Turn(g, m + 1) ELSE g[n]]
  <2>2. \A n \in 0 .. m : h[n] = g[n] BY <1>2
  <2>3. ASSUME NEW n \in 0 .. m + 1 PROVE h[n] = Turn(h, n)
    <3>1. n # 0 => n - 1 \in 0 .. m BY <1>2
    <3>2. Turn(h, n) = Turn(g, n) BY <2>2, <3>1
    <3>3. CASE n = m + 1 BY <3>2, <3>3
    <3>4. CASE n # m + 1
      <4>1. n \in 0 .. m BY <1>2, <3>4
      <4>2. g[n] = Turn(g, n) BY <2>1, <4>1
      <4>3. QED BY <2>2, <3>2, <4>1, <4>2
    <3>5. QED BY <3>3, <3>4
  <2>4. h = [n \in 0 .. m + 1 |-> Turn(h, n)] BY <2>3
  <2> HIDE DEF h, Turn
  <2>5. \E k : k = [n \in 0 .. m + 1 |-> Turn(k, n)] BY <2>4
  <2>6. QED BY <1>2, <2>5
<1>3. Len(entries) \in S
  <2> HIDE DEF S
  <2>1. Len(entries) \in Nat BY LenProperties
  <2>2. QED BY <1>1, <1>2, <2>1, TurnInduction
<1>4. QED BY <1>3 DEF FromSkills

(***************************************************************************)
(* One function                                                            *)
(***************************************************************************)
LEMMA UniqueIs ==
    ASSUME NEW D, NEW pair
    PROVE  /\ pair \in UniqueOf(D) <=> \E p \in D : Sole(D, p) /\ pair = <<p[2], IdOf(p)>>
           /\ pair \in DuplicatesOf(D) <=> \E p \in D : ~ Sole(D, p) /\ pair = p[2]
<1>1. pair \in UniqueOf(D) <=> \E p \in {q \in D : Sole(D, q)} : pair = <<p[2], IdOf(p)>>
  BY DEF UniqueOf
<1>2. pair \in DuplicatesOf(D) <=> \E p \in {q \in D : ~ Sole(D, q)} : pair = p[2]
  BY DEF DuplicatesOf
<1>3. QED BY <1>1, <1>2

(* Where another function has the name, the name is withdrawn.             *)
LEMMA NamesWithdrawn ==
    ASSUME NEW D \in SUBSET Exporting, NEW x \in Exporting, x \notin D,
           \E o \in D : o[2] = x[2]
    PROVE  /\ UniqueOf(D \union {x}) = {pair \in UniqueOf(D) : pair[1] # x[2]}
           /\ DuplicatesOf(D \union {x}) = DuplicatesOf(D) \union {x[2]}
<1> DEFINE more == D \union {x}
<1>1. ~ Sole(more, x) /\ \A p \in D : p[2] = x[2] => ~ Sole(more, p) BY DEF Sole
<1>2. \A p \in D : p[2] # x[2] => (Sole(more, p) <=> Sole(D, p)) BY DEF Sole
<1>3. UniqueOf(more) = {pair \in UniqueOf(D) : pair[1] # x[2]}
  <2>1. ASSUME NEW pair \in UniqueOf(more)
        PROVE  pair \in UniqueOf(D) /\ pair[1] # x[2]
    <3>1. PICK p \in more : Sole(more, p) /\ pair = <<p[2], IdOf(p)>> BY <2>1, UniqueIs
    <3>2. p \in D /\ p[2] # x[2] BY <1>1, <3>1
    <3>3. Sole(D, p) /\ pair[1] = p[2] BY <1>2, <3>1, <3>2
    <3>4. QED BY <3>1, <3>2, <3>3, UniqueIs
  <2>2. ASSUME NEW pair \in UniqueOf(D), pair[1] # x[2]
        PROVE  pair \in UniqueOf(more)
    <3>1. PICK p \in D : Sole(D, p) /\ pair = <<p[2], IdOf(p)>> BY <2>2, UniqueIs
    <3>2. pair[1] = p[2] BY <3>1
    <3>3. p \in more /\ Sole(more, p) BY <1>2, <2>2, <3>1, <3>2
    <3>4. QED BY <3>1, <3>3, UniqueIs
  <2>3. QED BY <2>1, <2>2
<1>4. DuplicatesOf(more) = DuplicatesOf(D) \union {x[2]}
  <2>1. ASSUME NEW p \in D, ~ Sole(D, p) PROVE ~ Sole(more, p) BY <2>1 DEF Sole
  <2>2. QED BY <1>1, <1>2, <2>1 DEF DuplicatesOf
<1>5. QED BY <1>3, <1>4

(* Where no function has the name, the name is the function's.             *)
LEMMA NamesAdded ==
    ASSUME NEW D \in SUBSET Exporting, NEW x \in Exporting, \A o \in D : o[2] # x[2]
    PROVE  /\ \A pair \in UniqueOf(D) : pair[1] # x[2]
           /\ UniqueOf(D \union {x}) = UniqueOf(D) \union {<<x[2], IdOf(x)>>}
           /\ DuplicatesOf(D \union {x}) = DuplicatesOf(D)
<1> DEFINE more == D \union {x}
<1>1. Sole(more, x) /\ \A p \in D : Sole(more, p) <=> Sole(D, p) BY DEF Sole
<1>2. ASSUME NEW pair \in UniqueOf(D) PROVE pair[1] # x[2]
  <2>1. PICK p \in D : Sole(D, p) /\ pair = <<p[2], IdOf(p)>> BY <1>2, UniqueIs
  <2>2. pair[1] = p[2] BY <2>1
  <2>3. QED BY <2>2
<1>3. \A pair : pair \in UniqueOf(more)
                  <=> pair \in UniqueOf(D) \union {<<x[2], IdOf(x)>>}
  <2>1. \A pair : pair \in UniqueOf(more)
                    <=> \E p \in more : Sole(more, p) /\ pair = <<p[2], IdOf(p)>>
    BY UniqueIs
  <2>2. \A pair : pair \in UniqueOf(D)
                    <=> \E p \in D : Sole(D, p) /\ pair = <<p[2], IdOf(p)>>
    BY UniqueIs
  <2>3. QED BY <1>1, <2>1, <2>2
<1>4. \A name : name \in DuplicatesOf(more) <=> name \in DuplicatesOf(D)
  <2>1. \A name : name \in DuplicatesOf(more)
                    <=> \E p \in more : ~ Sole(more, p) /\ name = p[2]
    BY UniqueIs
  <2>2. \A name : name \in DuplicatesOf(D) <=> \E p \in D : ~ Sole(D, p) /\ name = p[2]
    BY UniqueIs
  <2>3. QED BY <1>1, <2>1, <2>2
<1>5. UniqueOf(more) = UniqueOf(D) \union {<<x[2], IdOf(x)>>} BY <1>3
<1>6. DuplicatesOf(more) = DuplicatesOf(D) BY <1>4
<1>7. QED BY <1>2, <1>5, <1>6

(* A registry that could not be made says nothing.                         *)
LEMMA FailureFits ==
    ASSUME NEW D
    PROVE  RegistryFits(Unreadable, D)
<1>1. PICK a, q, u, d :
         NoActions = [failed |-> FALSE, actions |-> a, qualified |-> q, unique |-> u,
                      duplicates |-> d]
  BY DEF NoActions
<1>2. Unreadable = [[failed |-> FALSE, actions |-> a, qualified |-> q, unique |-> u,
                     duplicates |-> d] EXCEPT !.failed = TRUE]
  BY <1>1 DEF Unreadable
<1>3. Unreadable = [failed |-> TRUE, actions |-> a, qualified |-> q, unique |-> u,
                    duplicates |-> d]
  BY <1>2
<1>4. QED BY <1>3 DEF RegistryFits

(* Registering a function adds it to what is registered, withdraws its     *)
(* bare name if another has it, or fails as its id is taken.               *)
LEMMA FunctionRegisters ==
    ASSUME NEW r, NEW D \in SUBSET Exporting, RegistryFits(r, D), NEW x \in Exporting
    PROVE  RegistryFits(RegisterFunction(r, x[1], x[2]), D \union {x})
<1> DEFINE e == x[1]
           f == x[2]
           id == Id(e, f)
           more == D \union {x}
<1>1. /\ r = [failed |-> r.failed, actions |-> r.actions, qualified |-> r.qualified,
              unique |-> r.unique, duplicates |-> r.duplicates]
      /\ id = IdOf(x)
  BY DEF RegistryFits, IdOf
<1>2. CASE r.failed \/ id \in Keys(r.actions)
  <2>1. RegisterFunction(r, e, f) = Unreadable BY <1>2 DEF RegisterFunction
  <2>2. QED BY <2>1, FailureFits
<1>3. CASE ~ r.failed /\ id \notin Keys(r.actions)
  <2>1. /\ \A p, o \in D : IdOf(p) = IdOf(o) => p = o
        /\ r.actions = {<<IdOf(p), p[1]>> : p \in D}
        /\ \A pair \in r.qualified : \E p \in D : pair = <<QualifiedOf(p), IdOf(p)>>
        /\ \A p \in D : QualifiedOf(p) \in Keys(r.qualified)
        /\ r.unique = UniqueOf(D) /\ r.duplicates = DuplicatesOf(D)
    BY <1>3 DEF RegistryFits
  <2>2. \A p \in D : IdOf(p) # id
    <3>1. SUFFICES ASSUME NEW p \in D, IdOf(p) = id PROVE FALSE OBVIOUS
    <3>2. <<id, p[1]>> \in r.actions BY <2>1, <3>1
    <3>3. id \in Keys(r.actions) BY <3>2 DEF Keys
    <3>4. QED BY <1>3, <3>3
  <2>3. x \notin D BY <1>1, <2>2
  <2>4. \A p, o \in more : IdOf(p) = IdOf(o) => p = o BY <1>1, <2>1, <2>2
  <2> DEFINE actions == Put(r.actions, id, e)
             qualified == Put(r.qualified, Qualified(e, f), id)
             s == [r EXCEPT !.actions = actions, !.qualified = qualified]
  <2>5. actions = {<<IdOf(p), p[1]>> : p \in more}
    <3>1. \A pair \in r.actions : pair[1] # id BY <2>1, <2>2
    <3>2. actions = r.actions \union {<<id, e>>} BY <3>1 DEF Put
    <3>3. QED BY <1>1, <2>1, <3>2
  <2>6. /\ \A pair \in qualified : \E p \in more : pair = <<QualifiedOf(p), IdOf(p)>>
        /\ \A p \in more : QualifiedOf(p) \in Keys(qualified)
    <3>1. Qualified(e, f) = QualifiedOf(x) BY DEF QualifiedOf
    <3>2. qualified = {pair \in r.qualified : pair[1] # Qualified(e, f)}
                          \union {<<Qualified(e, f), id>>}
      BY DEF Put
    <3>3. \A pair \in qualified : \E p \in more : pair = <<QualifiedOf(p), IdOf(p)>>
      BY <1>1, <2>1, <3>1, <3>2
    <3>4. Qualified(e, f) \in Keys(qualified)
      <4>1. <<Qualified(e, f), id>> \in qualified BY <3>2
      <4>2. QED BY <4>1 DEF Keys
    <3>5. ASSUME NEW p \in D PROVE QualifiedOf(p) \in Keys(qualified)
      <4>1. CASE QualifiedOf(p) = Qualified(e, f) BY <3>4, <4>1
      <4>2. CASE QualifiedOf(p) # Qualified(e, f)
        <5>1. PICK pair \in r.qualified : pair[1] = QualifiedOf(p) BY <2>1 DEF Keys
        <5>2. pair \in qualified BY <3>2, <4>2, <5>1
        <5>3. QED BY <5>1, <5>2 DEF Keys
      <4>3. QED BY <4>1, <4>2
    <3>6. QED BY <3>1, <3>3, <3>4, <3>5
  <2>7. RegisterFunction(r, e, f) = RegisterName(s, f, id) BY <1>3 DEF RegisterFunction
  <2>8. /\ s.failed = FALSE /\ s.unique = UniqueOf(D) /\ s.duplicates = DuplicatesOf(D)
        /\ s.actions = actions /\ s.qualified = qualified
        /\ s = [failed |-> s.failed, actions |-> s.actions, qualified |-> s.qualified,
                unique |-> s.unique, duplicates |-> s.duplicates]
    <3> HIDE DEF actions, qualified
    <3> DEFINE a == r.actions
               q == r.qualified
               u == r.unique
               d == r.duplicates
    <3>1. r = [failed |-> FALSE, actions |-> a, qualified |-> q, unique |-> u, duplicates |-> d]
      <4>1. r.failed = FALSE BY <1>3 DEF RegistryFits
      <4>2. QED BY <1>1, <4>1
    <3>2. u = UniqueOf(D) /\ d = DuplicatesOf(D) BY <2>1
    <3> HIDE DEF a, q, u, d
    <3>3. s = [failed |-> FALSE, actions |-> actions, qualified |-> qualified,
               unique |-> u, duplicates |-> d]
      <4>1. s = [r EXCEPT !.actions = actions, !.qualified = qualified] OBVIOUS
      <4> HIDE DEF s
      <4>2. s = [[failed |-> FALSE, actions |-> a, qualified |-> q, unique |-> u,
                  duplicates |-> d] EXCEPT !.actions = actions, !.qualified = qualified]
        BY <3>1, <4>1
      <4>3. QED BY <4>2
    <3>4. QED BY <3>2, <3>3
  <2> HIDE DEF actions, qualified, s
  <2> DEFINE t == RegisterName(s, f, id)
  <2>9. /\ t.failed = FALSE /\ t.actions = actions /\ t.qualified = qualified
        /\ t = [failed |-> t.failed, actions |-> t.actions, qualified |-> t.qualified,
                unique |-> t.unique, duplicates |-> t.duplicates]
        /\ t.unique = UniqueOf(more) /\ t.duplicates = DuplicatesOf(more)
    <3>1. CASE \E pair \in s.unique : pair[1] = f /\ pair[2] # id
      <4>1. t = [s EXCEPT !.unique = {pair \in s.unique : pair[1] # f},
                          !.duplicates = s.duplicates \union {f}]
        BY <3>1 DEF RegisterName
      <4>2. \E o \in D : o[2] = f BY <2>8, <3>1 DEF UniqueOf
      <4>3. /\ UniqueOf(more) = {pair \in UniqueOf(D) : pair[1] # f}
            /\ DuplicatesOf(more) = DuplicatesOf(D) \union {f}
        BY <2>3, <4>2, NamesWithdrawn
      <4>4. QED BY <2>8, <4>1, <4>3
    <3>2. CASE ~(\E pair \in s.unique : pair[1] = f /\ pair[2] # id) /\ f \in s.duplicates
      <4>1. t = s BY <3>2 DEF RegisterName
      <4>2. \E o \in D : o[2] = f BY <2>8, <3>2 DEF DuplicatesOf
      <4>3. \A pair \in UniqueOf(D) : pair[1] # f
        BY <2>8, <3>2 DEF UniqueOf, DuplicatesOf, Sole
      <4>4. /\ UniqueOf(more) = {pair \in UniqueOf(D) : pair[1] # f}
            /\ DuplicatesOf(more) = DuplicatesOf(D) \union {f}
        BY <2>3, <4>2, NamesWithdrawn
      <4>5. UniqueOf(more) = UniqueOf(D) BY <4>3, <4>4
      <4>6. DuplicatesOf(more) = DuplicatesOf(D) BY <2>8, <3>2, <4>4
      <4>7. QED BY <2>8, <4>1, <4>5, <4>6
    <3>3. CASE ~(\E pair \in s.unique : pair[1] = f /\ pair[2] # id) /\ f \notin s.duplicates
      <4>1. t = [s EXCEPT !.unique = Put(s.unique, f, id)] BY <3>3 DEF RegisterName
      <4>2. \A o \in D : o[2] # f
        <5>1. SUFFICES ASSUME NEW o \in D, o[2] = f PROVE FALSE OBVIOUS
        <5>2. Sole(D, o) BY <2>8, <3>3, <5>1 DEF DuplicatesOf
        <5>3. <<f, IdOf(o)>> \in s.unique BY <2>8, <5>1, <5>2 DEF UniqueOf
        <5>4. QED BY <2>2, <3>3, <5>3
      <4>3. /\ \A pair \in UniqueOf(D) : pair[1] # f
            /\ UniqueOf(more) = UniqueOf(D) \union {<<f, id>>}
            /\ DuplicatesOf(more) = DuplicatesOf(D)
        BY <1>1, <4>2, NamesAdded
      <4>4. Put(s.unique, f, id) = UniqueOf(more) BY <2>8, <4>3 DEF Put
      <4>5. QED BY <2>8, <4>1, <4>3, <4>4
    <3>4. QED BY <3>1, <3>2, <3>3
  <2> HIDE DEF t
  <2>10. RegistryFits(t, more) BY <2>4, <2>5, <2>6, <2>9 DEF RegistryFits
  <2>11. QED BY <2>7, <2>10 DEF t
<1>4. QED BY <1>2, <1>3

(***************************************************************************)
(* A load                                                                  *)
(***************************************************************************)
LEMMA NothingFits == RegistryFits(NoActions, {})
<1>1. UniqueOf({}) = {} /\ DuplicatesOf({}) = {} BY DEF UniqueOf, DuplicatesOf
<1>2. QED BY <1>1 DEF RegistryFits, NoActions

LEMMA EntriesExport ==
    ASSUME NEW e \in Entries
    PROVE  /\ e.exports \in Seq(ToSet(e.exports)) /\ Len(e.exports) \in Nat
           /\ \A n \in 1 .. Len(e.exports) : <<e, e.exports[n]>> \in Exporting
           /\ \A f \in ToSet(e.exports) : <<e, f>> \in Exporting
           /\ \A f \in ToSet(e.exports) : \E n \in 1 .. Len(e.exports) : f = e.exports[n]
<1>1. e.exports \in Seq(ToSet(e.exports)) BY CatalogAssumption DEF Entries
<1>2. Len(e.exports) \in Nat /\ DOMAIN e.exports = 1 .. Len(e.exports) BY <1>1, LenProperties
<1>3. \A n \in 1 .. Len(e.exports) : e.exports[n] \in ToSet(e.exports) BY <1>2 DEF ToSet
<1>4. \A f \in ToSet(e.exports) : f \in Functions BY DEF Functions
<1>5. \A f \in ToSet(e.exports) : <<e, f>> \in Exporting BY <1>4 DEF Exporting
<1>6. \A f \in ToSet(e.exports) : \E n \in 1 .. Len(e.exports) : f = e.exports[n]
  BY <1>2 DEF ToSet
<1>7. QED BY <1>1, <1>2, <1>3, <1>5, <1>6

(* The functions of an entry, one after the other.                         *)
LEMMA SkillRegisters ==
    ASSUME NEW r, NEW D \in SUBSET Exporting, RegistryFits(r, D), NEW e \in Entries
    PROVE  RegistryFits(RegisterSkill(r, e), D \union FirstOf(e, Len(e.exports)))
<1>1. PICK after :
         /\ after = [n \in 0 .. Len(e.exports) |->
                        IF n = 0 THEN r ELSE RegisterFunction(after[n - 1], e, e.exports[n])]
         /\ RegisterSkill(r, e) = after[Len(e.exports)]
  BY SkillTurns
<1> DEFINE S == {n \in Nat : n <= Len(e.exports)
                                => RegistryFits(after[n], D \union FirstOf(e, n))}
<1>2. Len(e.exports) \in Nat BY EntriesExport
<1>3. 0 \in S
  <2>1. FirstOf(e, 0) = {} BY DEF FirstOf
  <2>2. after[0] = r BY <1>1, <1>2
  <2>3. D \union FirstOf(e, 0) = D BY <2>1
  <2>4. RegistryFits(after[0], D \union FirstOf(e, 0)) BY <2>2, <2>3
  <2>5. QED BY <2>4
<1>4. ASSUME NEW n \in Nat, n \in S PROVE n + 1 \in S
  <2>1. SUFFICES ASSUME n + 1 <= Len(e.exports)
                 PROVE  RegistryFits(after[n + 1], D \union FirstOf(e, n + 1))
    OBVIOUS
  <2>2. n \in 0 .. Len(e.exports) /\ n + 1 \in 0 .. Len(e.exports) /\ n + 1 # 0
        /\ (n + 1) - 1 = n /\ n <= Len(e.exports) /\ n + 1 \in 1 .. Len(e.exports)
    BY <1>2, <2>1
  <2> DEFINE x == <<e, e.exports[n + 1]>>
             done == D \union FirstOf(e, n)
  <2>3. RegistryFits(after[n], done) BY <1>4, <2>2
  <2>4. after[n + 1] = RegisterFunction(after[n], x[1], x[2]) BY <1>1, <2>2
  <2>5. x \in Exporting BY <2>2, EntriesExport
  <2>6. done \subseteq Exporting BY DEF FirstOf
  <2>7. FirstOf(e, n + 1) = FirstOf(e, n) \union {x}
    <3>1. \A i \in 1 .. n + 1 : i \in 1 .. n \/ i = n + 1 OBVIOUS
    <3>2. \A i \in 1 .. n : i \in 1 .. n + 1 OBVIOUS
    <3>3. \A p \in Exporting : p = <<p[1], p[2]>> BY DEF Exporting
    <3>4. \A p \in FirstOf(e, n + 1) : p \in FirstOf(e, n) \/ p = x
      BY <3>1, <3>3 DEF FirstOf
    <3>5. x \in FirstOf(e, n + 1) BY <2>2, <2>5 DEF FirstOf
    <3>6. FirstOf(e, n) \subseteq FirstOf(e, n + 1) BY <3>2 DEF FirstOf
    <3>7. QED BY <3>4, <3>5, <3>6
  <2>8. D \union FirstOf(e, n + 1) = done \union {x} BY <2>7
  <2> HIDE DEF x, done
  <2>9. RegistryFits(RegisterFunction(after[n], x[1], x[2]), done \union {x})
    BY <2>3, <2>5, <2>6, FunctionRegisters
  <2>10. QED BY <2>4, <2>8, <2>9
<1>5. Len(e.exports) \in S
  <2> HIDE DEF S
  <2>1. QED BY <1>2, <1>3, <1>4, TurnInduction
<1>6. RegistryFits(after[Len(e.exports)], D \union FirstOf(e, Len(e.exports)))
  <2>1. PICK n \in Nat : n = Len(e.exports) BY <1>2
  <2>2. n \in S /\ n <= Len(e.exports) BY <1>5, <2>1
  <2>3. RegistryFits(after[n], D \union FirstOf(e, n)) BY <2>2
  <2>4. QED BY <2>1, <2>3
<1>7. QED BY <1>1, <1>6

(* The entries of a load, one after the other.                             *)
LEMMA LoadRegisters ==
    ASSUME NEW entries \in Seq(Entries)
    PROVE  RegistryFits(FromSkills(entries), ExportedBy(entries, Len(entries)))
<1>1. PICK after :
         /\ after = [n \in 0 .. Len(entries) |->
                        IF n = 0 THEN NoActions ELSE RegisterSkill(after[n - 1], entries[n])]
         /\ FromSkills(entries) = after[Len(entries)]
  BY RegistryTurns
<1> DEFINE S == {n \in Nat : n <= Len(entries)
                                => RegistryFits(after[n], ExportedBy(entries, n))}
<1>2. Len(entries) \in Nat BY LenProperties
<1>3. 0 \in S
  <2>1. ExportedBy(entries, 0) = {} BY DEF ExportedBy
  <2>2. after[0] = NoActions BY <1>1, <1>2
  <2>3. RegistryFits(after[0], ExportedBy(entries, 0)) BY <2>1, <2>2, NothingFits
  <2>4. QED BY <2>3
<1>4. ASSUME NEW n \in Nat, n \in S PROVE n + 1 \in S
  <2>1. SUFFICES ASSUME n + 1 <= Len(entries)
                 PROVE  RegistryFits(after[n + 1], ExportedBy(entries, n + 1))
    OBVIOUS
  <2>2. n \in 0 .. Len(entries) /\ n + 1 \in 0 .. Len(entries) /\ n + 1 # 0
        /\ (n + 1) - 1 = n /\ n <= Len(entries) /\ n + 1 \in 1 .. Len(entries)
    BY <1>2, <2>1
  <2> DEFINE e == entries[n + 1]
             done == ExportedBy(entries, n)
  <2>3. RegistryFits(after[n], done) BY <1>4, <2>2
  <2>4. after[n + 1] = RegisterSkill(after[n], e) BY <1>1, <2>2
  <2>5. e \in Entries BY <2>2, ElementOfSeq
  <2>6. done \subseteq Exporting BY DEF ExportedBy
  <2>7. ExportedBy(entries, n + 1) = done \union FirstOf(e, Len(e.exports))
    <3>1. \A i \in 1 .. n + 1 : i \in 1 .. n \/ i = n + 1 OBVIOUS
    <3>2. \A i \in 1 .. n : i \in 1 .. n + 1 OBVIOUS
    <3>3. ASSUME NEW p \in ExportedBy(entries, n + 1)
          PROVE  p \in done \union FirstOf(e, Len(e.exports))
      <4>1. PICK i \in 1 .. n + 1 : entries[i] = p[1] BY <3>3 DEF ExportedBy
      <4>2. p \in Exporting /\ p[2] \in ToSet(p[1].exports) BY <3>3 DEF ExportedBy, Exporting
      <4>3. CASE i \in 1 .. n BY <4>1, <4>2, <4>3 DEF ExportedBy
      <4>4. CASE i = n + 1
        <5>1. p[1] = e BY <4>1, <4>4
        <5>2. \E j \in 1 .. Len(e.exports) : e.exports[j] = p[2]
          BY <2>5, <4>2, <5>1, EntriesExport
        <5>3. QED BY <4>2, <5>1, <5>2 DEF FirstOf
      <4>5. QED BY <3>1, <4>1, <4>3, <4>4
    <3>4. done \subseteq ExportedBy(entries, n + 1) BY <3>2 DEF ExportedBy
    <3>5. FirstOf(e, Len(e.exports)) \subseteq ExportedBy(entries, n + 1)
      <4>1. n + 1 \in 1 .. n + 1 OBVIOUS
      <4>2. QED BY <4>1 DEF FirstOf, ExportedBy
    <3>6. QED BY <3>3, <3>4, <3>5
  <2> HIDE DEF e, done
  <2>8. RegistryFits(RegisterSkill(after[n], e), done \union FirstOf(e, Len(e.exports)))
    BY <2>3, <2>5, <2>6, SkillRegisters
  <2>9. QED BY <2>4, <2>7, <2>8
<1>5. Len(entries) \in S
  <2> HIDE DEF S
  <2>1. QED BY <1>2, <1>3, <1>4, TurnInduction
<1>6. QED BY <1>1, <1>2, <1>5

(* What the walk finds are entries.                                        *)
LEMMA WalkFinds == Walk \in Seq(Entries)
<1>1. PICK found :
         /\ found = [n \in 0 .. Len(Order) |->
                        IF n = 0 THEN <<>>
                        ELSE IF Order[n] \in installed
                             THEN Append(found[n - 1], Order[n]) ELSE found[n - 1]]
         /\ Walk = found[Len(Order)]
  BY WalkTurns
<1>2. Order \in Seq(Entries) /\ Len(Order) \in Nat BY CatalogAssumption, LenProperties DEF Entries
<1> DEFINE S == {n \in Nat : n <= Len(Order) => found[n] \in Seq(Entries)}
<1>3. 0 \in S
  <2>1. found[0] = <<>> BY <1>1, <1>2
  <2>2. <<>> \in Seq(Entries) OBVIOUS
  <2>3. QED BY <2>1, <2>2
<1>4. ASSUME NEW n \in Nat, n \in S PROVE n + 1 \in S
  <2>1. SUFFICES ASSUME n + 1 <= Len(Order) PROVE found[n + 1] \in Seq(Entries)
    OBVIOUS
  <2>2. /\ n \in 0 .. Len(Order) /\ n + 1 \in 0 .. Len(Order) /\ n + 1 # 0
        /\ (n + 1) - 1 = n /\ n <= Len(Order) /\ n + 1 \in 1 .. Len(Order)
    BY <1>2, <2>1
  <2>3. found[n] \in Seq(Entries) BY <1>4, <2>2
  <2>4. Order[n + 1] \in Entries BY <1>2, <2>2, ElementOfSeq
  <2>5. Append(found[n], Order[n + 1]) \in Seq(Entries) BY <2>3, <2>4, AppendProperties
  <2>6. \/ found[n + 1] = Append(found[n], Order[n + 1])
        \/ found[n + 1] = found[n]
    BY <1>1, <2>2
  <2>7. QED BY <2>3, <2>5, <2>6
<1>5. Len(Order) \in S
  <2> HIDE DEF S
  <2>1. QED BY <1>2, <1>3, <1>4, TurnInduction
<1>6. QED BY <1>1, <1>2, <1>5

LEMMA LoadKeeps ==
    ASSUME CatalogInv, NEW entries \in Seq(Entries), Load(entries)
    PROVE  CatalogInv'
<1>1. installed' = installed /\ loaded' = entries
      /\ (registry' = Unreadable \/ registry' = FromSkills(entries))
  BY DEF Load
<1>2. RegistryFits(registry', ExportedBy(entries, Len(entries)))
  BY <1>1, FailureFits, LoadRegisters
<1>3. QED BY <1>1, <1>2 DEF CatalogInv

LEMMA CatalogInitially == CatalogInit => CatalogInv
<1> SUFFICES ASSUME CatalogInit PROVE CatalogInv OBVIOUS
<1>1. loaded = <<>> /\ registry = NoActions BY DEF CatalogInit
<1>2. Len(loaded) = 0 /\ loaded \in Seq(Entries) BY <1>1
<1>3. ExportedBy(loaded, Len(loaded)) = {} BY <1>2 DEF ExportedBy
<1>4. QED BY <1>1, <1>2, <1>3, NothingFits DEF CatalogInv, CatalogInit

LEMMA CatalogSteps == CatalogInv /\ [CatalogNext]_catalogVars => CatalogInv'
<1> SUFFICES ASSUME CatalogInv, [CatalogNext]_catalogVars PROVE CatalogInv' OBVIOUS
<1>1. ASSUME UNCHANGED <<loaded, registry>>, installed' \subseteq Entries PROVE CatalogInv'
  BY <1>1 DEF CatalogInv
<1>2. ASSUME NEW e \in Entries, InstallEntry(e) PROVE CatalogInv'
  BY <1>1, <1>2 DEF InstallEntry, CatalogInv
<1>3. ASSUME NEW e \in Entries, LoadOnly(e) PROVE CatalogInv'
  <2>1. <<e>> \in Seq(Entries) OBVIOUS
  <2>2. Load(<<e>>) BY <1>3 DEF LoadOnly
  <2>3. QED BY <2>1, <2>2, LoadKeeps
<1>4. CASE LoadAll BY <1>4, WalkFinds, LoadKeeps DEF LoadAll
<1>5. ASSUME NEW pairs \in SeqOf({Pair(e) : e \in Entries}, 3), LoadEntries(pairs)
      PROVE  CatalogInv'
  <2>1. CASE \E i \in DOMAIN pairs : Cardinality(Matches(pairs[i])) # 1
    <3>1. loaded' = <<>> /\ registry' = Unreadable BY <1>5, <2>1 DEF LoadEntries
    <3>2. loaded' \in Seq(Entries) /\ installed' \subseteq Entries
      BY <1>5, <2>1, <3>1 DEF LoadEntries, CatalogInv
    <3>3. QED BY <3>1, <3>2, FailureFits DEF CatalogInv
  <2>2. CASE \A i \in DOMAIN pairs : Cardinality(Matches(pairs[i])) = 1
    <3> DEFINE entries == [i \in DOMAIN pairs |-> CHOOSE e \in installed : Pair(e) = pairs[i]]
    <3>1. Load(entries) BY <1>5, <2>2 DEF LoadEntries
    <3>2. PICK m \in 0 .. 3 : DOMAIN pairs = 1 .. m BY <1>5 DEF SeqOf
    <3>3. ASSUME NEW i \in 1 .. m PROVE entries[i] \in Entries
      <4>1. Cardinality(Matches(pairs[i])) = 1 BY <2>2, <3>2
      <4>2. Matches(pairs[i]) # {} BY <4>1, FS_EmptySet
      <4>3. PICK e \in installed : Pair(e) = pairs[i] BY <4>2 DEF Matches
      <4>4. entries[i] \in installed BY <3>2, <4>3
      <4>5. QED BY <4>4 DEF CatalogInv
    <3>4. entries \in Seq(Entries) BY <3>2, <3>3
    <3> HIDE DEF entries
    <3>5. QED BY <3>1, <3>4, LoadKeeps
  <2>3. QED BY <2>1, <2>2
<1>6. CASE UNCHANGED catalogVars BY <1>1, <1>6 DEF catalogVars, CatalogInv
<1>7. QED BY <1>2, <1>3, <1>4, <1>5, <1>6 DEF CatalogNext

(* The registry holds exactly what the last load registered.               *)
THEOREM CatalogInvariant == CatalogSpec => []CatalogInv
BY CatalogInitially, CatalogSteps, PTL DEF CatalogSpec

(***************************************************************************)
(* What a name resolves to                                                 *)
(***************************************************************************)
(* The functions registered are those the loaded entries export.           *)
LEMMA RegisteredIsExported ==
    ASSUME loaded \in Seq(Entries)
    PROVE  LET D == ExportedBy(loaded, Len(loaded))
           IN  /\ \A e \in ToSet(loaded) : \A f \in ToSet(e.exports) : <<e, f>> \in D
               /\ \A p \in D : /\ p = <<p[1], p[2]>> /\ p[1] \in ToSet(loaded)
                               /\ p[2] \in ToSet(p[1].exports)
<1> DEFINE D == ExportedBy(loaded, Len(loaded))
<1>1. DOMAIN loaded = 1 .. Len(loaded) BY LenProperties
<1>2. ASSUME NEW e \in ToSet(loaded), NEW f \in ToSet(e.exports) PROVE <<e, f>> \in D
  <2>1. PICK i \in 1 .. Len(loaded) : loaded[i] = e BY <1>1 DEF ToSet
  <2>2. e \in Entries BY <2>1, ElementOfSeq
  <2>3. <<e, f>> \in Exporting BY <2>2, EntriesExport
  <2>4. QED BY <2>1, <2>3 DEF ExportedBy
<1>3. ASSUME NEW p \in D
      PROVE  p = <<p[1], p[2]>> /\ p[1] \in ToSet(loaded) /\ p[2] \in ToSet(p[1].exports)
  <2>1. p \in Exporting /\ \E i \in 1 .. Len(loaded) : loaded[i] = p[1] BY DEF ExportedBy
  <2>2. p[1] \in ToSet(loaded) BY <1>1, <2>1 DEF ToSet
  <2>3. p = <<p[1], p[2]>> /\ p[2] \in ToSet(p[1].exports) BY <2>1 DEF Exporting
  <2>4. QED BY <2>2, <2>3
<1>4. QED BY <1>2, <1>3

(* A definition that is the only one of those a name leads to.             *)
LEMMA OneDefinition ==
    ASSUME NEW I, NEW x \in I, \A y \in I : y[2] = x[2]
    PROVE  UNION {Definition(p[2]) : p \in I} = Definition(x[2])
OBVIOUS

LEMMA NamesFit == CatalogInv => NamesResolveToOwner
<1> SUFFICES ASSUME CatalogInv, ~ registry.failed
             PROVE  /\ \A e \in ToSet(loaded) : \A f \in ToSet(e.exports) :
                          ~ SharesNamespace(e, f) => ResolveModelAction(Qualified(e, f)) = {e}
                    /\ \A f \in Functions :
                          ResolveModelAction(<<f>>)
                              = IF Cardinality(Exports(f)) = 1 THEN Exports(f) ELSE {}
  BY DEF NamesResolveToOwner
<1> DEFINE D == ExportedBy(loaded, Len(loaded))
<1>1. /\ \A p, o \in D : IdOf(p) = IdOf(o) => p = o
      /\ registry.actions = {<<IdOf(p), p[1]>> : p \in D}
      /\ \A pair \in registry.qualified : \E p \in D : pair = <<QualifiedOf(p), IdOf(p)>>
      /\ \A p \in D : QualifiedOf(p) \in Keys(registry.qualified)
      /\ registry.unique = UniqueOf(D)
  BY DEF CatalogInv, RegistryFits
<1>2. /\ \A e \in ToSet(loaded) : \A f \in ToSet(e.exports) : <<e, f>> \in D
      /\ \A p \in D : /\ p = <<p[1], p[2]>> /\ p[1] \in ToSet(loaded)
                      /\ p[2] \in ToSet(p[1].exports)
  BY RegisteredIsExported DEF CatalogInv
<1> HIDE DEF D
<1>3. ASSUME NEW p \in D PROVE Definition(IdOf(p)) = {p[1]}
  <2>1. \A x \in registry.actions : x[1] = IdOf(p) => x[2] = p[1]
    <3>1. SUFFICES ASSUME NEW o \in D, IdOf(o) = IdOf(p) PROVE o[1] = p[1] BY <1>1
    <3>2. QED BY <1>1, <3>1
  <2>2. <<IdOf(p), p[1]>> \in registry.actions BY <1>1
  <2>3. QED BY <2>1, <2>2 DEF Definition
<1>4. ASSUME NEW e \in ToSet(loaded), NEW f \in ToSet(e.exports), ~ SharesNamespace(e, f)
      PROVE  ResolveModelAction(Qualified(e, f)) = {e}
  <2> DEFINE x == <<e, f>>
             I == {q \in registry.qualified : q[1] = Qualified(e, f)}
  <2>1. x \in D /\ QualifiedOf(x) = Qualified(e, f) /\ IdOf(x) = Id(e, f) /\ x[1] = e
    BY <1>2 DEF QualifiedOf, IdOf
  <2>2. ASSUME NEW q \in I PROVE q[2] = Id(e, f)
    <3>1. PICK p \in D : q = <<QualifiedOf(p), IdOf(p)>> BY <1>1
    <3>2. QualifiedOf(p) = Qualified(e, f) BY <3>1
    <3>3. p[2] = f /\ NamespaceOf[p[1].skill] = NamespaceOf[e.skill]
      BY <3>2 DEF QualifiedOf, Qualified
    <3>4. p[1] \in Exports(f) BY <1>2, <3>3 DEF Exports
    <3>5. p[1] = e BY <1>4, <3>3, <3>4 DEF SharesNamespace
    <3>6. QED BY <3>1, <3>3, <3>5 DEF IdOf
  <2>3. PICK q \in I : q[2] = Id(e, f)
    <3>1. Qualified(e, f) \in Keys(registry.qualified) BY <1>1, <2>1
    <3>2. \E q \in registry.qualified : q[1] = Qualified(e, f) BY <3>1 DEF Keys
    <3>3. QED BY <2>2, <3>2
  <2>4. ResolveModelAction(Qualified(e, f)) = UNION {Definition(p[2]) : p \in I}
    BY <1>1, <2>1 DEF ResolveModelAction
  <2> HIDE DEF I
  <2>5. UNION {Definition(p[2]) : p \in I} = Definition(q[2]) BY <2>2, <2>3, OneDefinition
  <2>6. QED BY <1>3, <2>1, <2>3, <2>4, <2>5
<1>5. ASSUME NEW f \in Functions
      PROVE  ResolveModelAction(<<f>>)
                 = IF Cardinality(Exports(f)) = 1 THEN Exports(f) ELSE {}
  <2> DEFINE I == {q \in registry.unique : <<q[1]>> = <<f>>}
  <2>1. <<f>> \notin Keys(registry.qualified)
    <3>1. SUFFICES ASSUME NEW q \in registry.qualified, q[1] = <<f>> PROVE FALSE BY DEF Keys
    <3>2. PICK p \in D : q = <<QualifiedOf(p), IdOf(p)>> BY <1>1
    <3>3. QualifiedOf(p) = <<f>> BY <3>1, <3>2
    <3>4. Len(QualifiedOf(p)) = 2 /\ Len(<<f>>) = 1 BY DEF QualifiedOf, Qualified
    <3>5. QED BY <3>3, <3>4
  <2>2. ResolveModelAction(<<f>>) = UNION {Definition(p[2]) : p \in I}
    BY <2>1 DEF ResolveModelAction
  <2>3. \A q : q \in I <=> \E p \in D : Sole(D, p) /\ q = <<p[2], IdOf(p)>> /\ p[2] = f
    <3>1. ASSUME NEW q \in I
          PROVE  \E p \in D : Sole(D, p) /\ q = <<p[2], IdOf(p)>> /\ p[2] = f
      <4>1. PICK p \in D : Sole(D, p) /\ q = <<p[2], IdOf(p)>> BY <1>1, UniqueIs
      <4>2. q[1] = f OBVIOUS
      <4>3. q[1] = p[2] BY <4>1
      <4>4. QED BY <4>1, <4>2, <4>3
    <3>2. ASSUME NEW p \in D, Sole(D, p), p[2] = f PROVE <<p[2], IdOf(p)>> \in I
      <4>1. <<p[2], IdOf(p)>> \in registry.unique BY <1>1, <3>2, UniqueIs
      <4>2. QED BY <3>2, <4>1
    <3>3. QED BY <3>1, <3>2
  <2> HIDE DEF I
  <2>4. IsFiniteSet(Exports(f))
    <3>1. IsFiniteSet(ToSet(loaded))
      <4>1. loaded \in Seq(Entries) /\ Len(loaded) \in Nat BY LenProperties DEF CatalogInv
      <4>2. DOMAIN loaded = 1 .. Len(loaded) /\ loaded \in [1 .. Len(loaded) -> ToSet(loaded)]
        BY <4>1, LenProperties DEF ToSet
      <4>3. loaded \in Surjection(1 .. Len(loaded), ToSet(loaded))
        BY <4>2 DEF Surjection, ToSet
      <4>4. IsFiniteSet(1 .. Len(loaded)) BY <4>1, FS_Interval
      <4>5. QED BY <4>3, <4>4, FS_Surjection
    <3>2. Exports(f) \subseteq ToSet(loaded) BY DEF Exports
    <3>3. QED BY <3>1, <3>2, FS_Subset
  <2>5. CASE Cardinality(Exports(f)) = 1
    <3>1. PICK e : Exports(f) = {e} BY <2>4, <2>5, FS_Singleton
    <3> DEFINE x == <<e, f>>
    <3>2. e \in ToSet(loaded) /\ f \in ToSet(e.exports) BY <3>1 DEF Exports
    <3>3. x \in D BY <1>2, <3>2
    <3>4. \A p \in D : p[2] = f => p = x
      <4>1. SUFFICES ASSUME NEW p \in D, p[2] = f PROVE p = x OBVIOUS
      <4>2. p[1] \in Exports(f) BY <1>2, <4>1 DEF Exports
      <4>3. QED BY <1>2, <3>1, <4>1, <4>2
    <3>5. Sole(D, x) BY <3>4 DEF Sole
    <3> DEFINE q == <<f, IdOf(x)>>
    <3>6. q \in I BY <2>3, <3>3, <3>5
    <3>7. \A y \in I : y[2] = q[2] BY <2>3, <3>4
    <3>8. Definition(q[2]) = {e} BY <1>3, <3>3
    <3> HIDE DEF q
    <3>9. UNION {Definition(p[2]) : p \in I} = Definition(q[2]) BY <3>6, <3>7, OneDefinition
    <3>10. QED BY <2>2, <2>5, <3>1, <3>8, <3>9
  <2>6. CASE Cardinality(Exports(f)) # 1
    <3>1. I = {}
      <4>1. SUFFICES ASSUME NEW p \in D, Sole(D, p), p[2] = f PROVE FALSE BY <2>3
      <4>2. Exports(f) = {p[1]}
        <5>1. p[1] \in Exports(f) BY <1>2, <4>1 DEF Exports
        <5>2. ASSUME NEW e \in Exports(f) PROVE e = p[1]
          <6>1. <<e, f>> \in D BY <1>2 DEF Exports
          <6>2. <<e, f>> = p BY <4>1, <6>1 DEF Sole
          <6>3. QED BY <6>2
        <5>3. QED BY <5>1, <5>2
      <4>3. QED BY <2>6, <4>2, FS_Singleton
    <3>2. UNION {Definition(p[2]) : p \in I} = {} BY <3>1
    <3>3. QED BY <2>2, <2>6, <3>2
  <2>7. QED BY <2>5, <2>6
<1>6. QED BY <1>4, <1>5

(* Whatever was loaded, in whatever order, a qualified name reaches the    *)
(* function of the skill it says, a bare name that of the only skill that  *)
(* has it, and none when several have it.                                  *)
THEOREM NamesResolve == CatalogSpec => []NamesResolveToOwner
BY CatalogInvariant, NamesFit, PTL
=============================================================================
