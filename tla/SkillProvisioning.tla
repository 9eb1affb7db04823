-------------------------- MODULE SkillProvisioning --------------------------
(***************************************************************************)
(* How a skill's source becomes an entry of a project's catalog, and its   *)
(* databases are made (crates/skills/src/provision.rs and the commands of  *)
(* crates/cli/src/commands/skill.rs that use it).  A command is a sequence *)
(* of operations on files with nothing to make it atomic: it may be cut    *)
(* off by a crash or an I/O error after any of them, within one too, and   *)
(* the next command starts from the files it finds.  One command runs at a *)
(* time, on one profile of one skill.                                      *)
(***************************************************************************)
EXTENDS Integers, SequencesExt

CONSTANTS
    Edits,         \* the versions of the code and of the other files
    MaxCutOffs,    \* bound: commands that are cut off
    MaxCommands    \* bound: commands

(* The version a skill begins with; versions are told from what is missing. *)
ASSUME ProvisioningAssumption ==
    /\ 1 \in Edits /\ Edits \subseteq Nat \ {0}
    /\ MaxCutOffs \in Nat /\ MaxCommands \in Nat

VARIABLES
    source,      \* the skill's code, and its manifest, migrations and seeds
    compiled,    \* the artifact directory, beside the source
    catalog,     \* the entry of the project's catalog
    database,    \* the skill's database in the project's state
    command, job, outcome,   \* the command, what it has still to do, its end
    torn,        \* history: the directories whose filling or emptying was cut off
    commands, cutOffs

provisioningVars ==
    <<source, compiled, catalog, database, command, job, outcome, torn, commands, cutOffs>>

Missing == 0
Partial == -1

(* In the order a directory is read, which is sorted.                       *)
Listing == <<"component", "meta", "migrations", "manifest", "world">>
Files == ToSet(Listing)
Empty == [f \in Files |-> Missing]
Present(dir) == {f \in Files : dir[f] # Missing}

(* The component is made from the code and its world; meta.json names the   *)
(* skill, its version and its profile, which an edit leaves as they are.    *)
ContentOf(f, s) ==
    CASE f \in {"component", "world"} -> s.code
      [] f \in {"manifest", "migrations"} -> s.sheet
      [] OTHER -> 1
Whole(s) == [f \in Files |-> ContentOf(f, s)]

NoDatabase == [stage |-> "none", of |-> Missing]

(***************************************************************************)
(* The operations of the commands                                          *)
(***************************************************************************)
Op(name) == [op |-> name, file |-> ""]
Write(f) == [op |-> "write", file |-> f]
Copy(f) == [op |-> "copy", file |-> f]

Steps ==
    [compile |-> <<Op("build")>>,
     upload |-> <<Op("install"), Op("precompile")>>,
     ensure |-> <<Op("build"), Op("install"), Op("precompile")>>,
     rebuild |-> <<Op("discard"), Op("build"), Op("install"), Op("precompile")>>,
     create |-> <<Op("specify"), Op("refuse"), Op("migrate"), Op("seed")>>,
     reset |-> <<Op("specify"), Op("drop"), Op("migrate"), Op("seed")>>]

Installing == {"upload", "ensure", "rebuild"}

(* compile_skill: meta.json is written last.                                *)
HasBuild == {"component", "meta"} \subseteq Present(compiled)
BuildSteps ==
    IF HasBuild THEN <<>>
    ELSE <<Write("component"), Write("manifest"), Write("world"), Write("migrations"),
           Write("meta")>>

(* A mutant: the files are compared by their presence.                      *)
EntryExists == {"component", "meta"} \subseteq Present(compiled) \cap Present(catalog)
DirectoriesEquivalent ==
    /\ {"component", "meta"} \subseteq Present(compiled) \cap Present(catalog)
    /\ \A f \in {"component", "meta"} : compiled[f] = catalog[f]

(* sync_compiled_skill copies what the artifact directory holds.            *)
CopyHeld(f) == IF compiled[f] = Missing THEN <<>> ELSE <<Copy(f)>>
SyncSteps ==
    IF DirectoriesEquivalent THEN <<>>
    ELSE <<Op("remove")>> \o (CopyHeld("component") \o (CopyHeld("meta")
            \o (CopyHeld("migrations") \o (CopyHeld("manifest") \o CopyHeld("world")))))

(***************************************************************************)
(* Commands                                                                *)
(***************************************************************************)
ProvisioningInit ==
    /\ source = [code |-> 1, sheet |-> 1] /\ compiled = Empty /\ catalog = Empty
    /\ database = NoDatabase
    /\ command = "compile" /\ job = <<>> /\ outcome = "none" /\ torn = {}
    /\ commands = 0 /\ cutOffs = 0

Start(c) ==
    /\ job = <<>>
    /\ command' = c /\ job' = Steps[c] /\ outcome' = "running"
    /\ commands < MaxCommands /\ commands' = commands + 1
    /\ UNCHANGED <<source, compiled, catalog, database, torn, cutOffs>>

Edit ==
    /\ job = <<>>
    /\ source' \in [code : Edits, sheet : Edits] /\ source' # source
    /\ outcome' = "none"
    /\ UNCHANGED <<compiled, catalog, database, command, job, torn, commands, cutOffs>>

Doing(name) == job # <<>> /\ Head(job).op = name

Continue(rest) ==
    /\ job' = rest /\ outcome' = (IF rest = <<>> THEN "ok" ELSE "running")
    /\ UNCHANGED <<source, command, commands, cutOffs>>

Fail ==
    /\ job' = <<>> /\ outcome' = "failed"
    /\ UNCHANGED <<source, compiled, catalog, database, command, torn, commands, cutOffs>>

(* remove_dir_all takes the files in any order.                             *)
RemovedFrom(dir) == \E f \in Present(dir) : dir' = [dir EXCEPT ![f] = Missing]

Discard ==
    /\ Doing("discard")
    /\ IF Present(compiled) = {}
       THEN Continue(Tail(job)) /\ torn' = torn \ {"artifacts"} /\ UNCHANGED compiled
       ELSE RemovedFrom(compiled) /\ Continue(job) /\ UNCHANGED torn
    /\ UNCHANGED <<catalog, database>>

Build ==
    /\ Doing("build") /\ Continue(BuildSteps \o Tail(job))
    /\ UNCHANGED <<compiled, catalog, database, torn>>

WriteArtifact ==
    /\ Doing("write")
    /\ LET f == Head(job).file IN compiled' = [compiled EXCEPT ![f] = ContentOf(f, source)]
    /\ torn' = IF Head(job).file = "meta" THEN torn \ {"artifacts"} ELSE torn
    /\ Continue(Tail(job)) /\ UNCHANGED <<catalog, database>>

(* install_compiled_skill reads meta.json to know what it installs.         *)
Install ==
    /\ Doing("install")
    /\ IF compiled["meta"] \in {Missing, Partial} THEN Fail
       ELSE /\ Continue(SyncSteps \o Tail(job))
            /\ UNCHANGED <<compiled, catalog, database, torn>>

RemoveEntry ==
    /\ Doing("remove")
    /\ IF Present(catalog) = {} THEN Continue(Tail(job)) /\ UNCHANGED catalog
       ELSE RemovedFrom(catalog) /\ Continue(job)
    /\ UNCHANGED <<compiled, database, torn>>

CopyToCatalog ==
    /\ Doing("copy")
    /\ LET f == Head(job).file IN catalog' = [catalog EXCEPT ![f] = compiled[f]]
    /\ Continue(Tail(job))
    /\ torn' = IF Head(Tail(job)).op = "copy" THEN torn
               ELSE IF "artifacts" \in torn THEN {"artifacts", "catalog"} ELSE {}
    /\ UNCHANGED <<compiled, database>>

(* Precompiling loads the entry.  A manifest or a world that is cut short   *)
(* may still be read.                                                       *)
Needed == {"component", "meta", "manifest", "world"}
Precompile ==
    /\ Doing("precompile")
    /\ \/ /\ Needed \subseteq Present(catalog)
          /\ Partial \notin {catalog["component"], catalog["meta"]}
          /\ Continue(Tail(job)) /\ UNCHANGED <<compiled, catalog, database, torn>>
       \/ /\ \E f \in Needed : catalog[f] \in {Missing, Partial}
          /\ Fail

(* The databases are those the entry's manifest names.                      *)
Specify ==
    /\ Doing("specify")
    /\ \/ /\ catalog["manifest"] # Missing
          /\ Continue(Tail(job)) /\ UNCHANGED <<compiled, catalog, database, torn>>
       \/ catalog["manifest"] \in {Missing, Partial} /\ Fail

RefuseExisting ==
    /\ Doing("refuse")
    /\ IF database # NoDatabase THEN Fail
       ELSE Continue(Tail(job)) /\ UNCHANGED <<compiled, catalog, database, torn>>

Drop ==
    /\ Doing("drop") /\ database' = NoDatabase
    /\ Continue(Tail(job)) /\ UNCHANGED <<compiled, catalog, torn>>

(* The database file is made before its migrations are looked for.          *)
ApplySql(stage) ==
    IF catalog["migrations"] = Missing
    THEN /\ job' = <<>> /\ outcome' = "failed"
         /\ database' = (IF stage = "migrated" THEN [stage |-> "empty", of |-> Missing]
                         ELSE database)
         /\ UNCHANGED <<source, compiled, catalog, command, torn, commands, cutOffs>>
    ELSE /\ database' = [stage |-> stage, of |-> catalog["migrations"]]
         /\ Continue(Tail(job)) /\ UNCHANGED <<compiled, catalog, torn>>

Migrate == Doing("migrate") /\ ApplySql("migrated")
Seed == Doing("seed") /\ ApplySql("seeded")

(* The command is cut off, perhaps in the middle of a file.                 *)
CutOff ==
    /\ job # <<>> /\ job' = <<>> /\ outcome' = "cut off"
    /\ cutOffs < MaxCutOffs /\ cutOffs' = cutOffs + 1
    /\ torn' = torn \union (IF Head(job).op \in {"remove", "copy"} THEN {"catalog"} ELSE {})
                     \union (IF Head(job).op = "discard" THEN {"artifacts"} ELSE {})
    /\ \/ UNCHANGED <<compiled, catalog>>
       \/ /\ Head(job).op = "write" /\ UNCHANGED catalog
          /\ compiled' = [compiled EXCEPT ![Head(job).file] = Partial]
       \/ /\ Head(job).op = "copy" /\ UNCHANGED compiled
          /\ catalog' = [catalog EXCEPT ![Head(job).file] = Partial]
    /\ UNCHANGED <<source, database, command, commands>>

ProvisioningNext ==
    \/ \E c \in DOMAIN Steps : Start(c)
    \/ Edit \/ Discard \/ Build \/ WriteArtifact \/ Install \/ RemoveEntry \/ CopyToCatalog
    \/ Precompile \/ Specify \/ RefuseExisting \/ Drop \/ Migrate \/ Seed \/ CutOff

ProvisioningSpec == ProvisioningInit /\ [][ProvisioningNext]_provisioningVars

(***************************************************************************)
(* Properties                                                              *)
(***************************************************************************)
(* Whatever was cut off before, a command that reports success leaves what  *)
(* it promises.  An install leaves an entry that runs the compiled          *)
(* component; the entry's other files are the compiled ones too, but for    *)
(* two cases the comparison cannot see (provision.rs:352-373): an edit that *)
(* leaves the component as it was, and a directory whose filling or         *)
(* emptying was cut off with component and meta.json in place.  A rebuild   *)
(* has compiled the source as it is, and a database has the migrations and  *)
(* the seed of the entry it was made from.                                  *)
InstallRepairs ==
    outcome = "ok" =>
        /\ command \in Installing =>
              /\ catalog["component"] = compiled["component"]
              /\ Needed \subseteq Present(catalog)
              /\ \/ catalog = compiled \/ torn # {}
                 \/ \E s \in Edits :
                        catalog = Whole([code |-> compiled["component"], sheet |-> s])
        /\ command = "rebuild" => compiled = Whole(source)
        /\ command \in {"create", "reset"} =>
              database = [stage |-> "seeded", of |-> catalog["migrations"]]
=============================================================================
