-------------------------- MODULE MCSkillInstances --------------------------
(* Values for the model checker: a skill with a database, used by three    *)
(* actions, and one that imports what its profile does not declare.        *)
EXTENDS SkillInstances

TwoSkills == {"notes", "odd"}
NotesThenOdd == [a \in Requests |-> IF a = Cardinality(Requests) THEN "odd" ELSE "notes"]
Declared == [s \in TwoSkills |-> IF s = "notes" THEN {"sqlite", "ui"} ELSE {"ui"}]
Imported == [s \in TwoSkills |-> {"plain", "sqlite"}]
OneDatabase == [s \in TwoSkills |-> 1]
=============================================================================
