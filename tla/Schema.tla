-------------------------------- MODULE Schema -------------------------------
(* How the database grows with the program: the migrations                    *)
(* (collector/storage/sqlite/migrations), which every start of a daemon runs  *)
(* up to the version its own code knows.  Each migration and the row that     *)
(* records it are one transaction.                                            *)
(*                                                                            *)
(* A database is the versions applied, in order, the columns they added, and  *)
(* the observation types its CHECK admits.                                    *)
EXTENDS Naturals, Sequences

Versions == 1..5

NoTables == [applied |-> <<>>, columns |-> {}, checks |-> {}]

FirstTypes == {"tool_use", "decision"} \* stand for the first five types
AllTypes == FirstTypes \cup {"session_summary"}

\* Mutated form: the table of migration 4 is the one of migration 2.
CopiedColumnsOfTwo == {"facts", "concepts", "type"}

\* Migration 4 copies the rows into a table that has the columns of its text.
CopiedColumns == {"facts", "concepts", "type", "project_path"}

Up(d, v) ==
  CASE v = 1 -> [d EXCEPT !.columns = @ \cup {"facts"}]
    [] v = 2 -> [d EXCEPT !.columns = @ \cup {"concepts", "type"}, !.checks = FirstTypes]
    [] v = 3 -> [d EXCEPT !.columns = @ \cup {"project_path"}]
    [] v = 4 -> [d EXCEPT !.columns = @ \cap CopiedColumns, !.checks = AllTypes]
    [] v = 5 -> [d EXCEPT !.columns = @ \cup {"embedding"}]

\* ALTER TABLE ADD COLUMN of a column that is there is an error; so is the copy
\* of columns that are not.
UpFails(d, v) ==
  \/ v = 2 /\ "concepts" \in d.columns
  \/ v = 3 /\ "project_path" \in d.columns
  \/ v = 4 /\ "concepts" \notin d.columns
  \/ v = 5 /\ "embedding" \in d.columns

\* runMigrations: what is applied must be a prefix of what the code knows.
Drifted(d, known) == Len(d.applied) > known \/ d.applied # [i \in 1..Len(d.applied) |-> i]

Recorded(d, v) == [d EXCEPT !.applied = Append(@, v)]

\* One migration; when the process dies in it the transaction is rolled back.
Migrate(d, v, dies) == IF dies THEN d ELSE Recorded(Up(d, v), v)

\* Mutated form: the number of migrations is taken for the version reached.
FrontierShort(d) == IF Len(d.applied) <= 1 THEN 0 ELSE Len(d.applied) - 1

Frontier(d) == IF d.applied = <<>> THEN 0 ELSE d.applied[Len(d.applied)]

\* The migrations a daemon that knows the first so many still has to run.
Pending(d, known) == {v \in 1..known : v > Frontier(d)}

NextVersion(d, known) == CHOOSE v \in Pending(d, known) : \A w \in Pending(d, known) : v <= w

\* ------------------------------------------------------------- properties ---
\* What the statements and the types of a program that knows the first so many
\* migrations rely on.
ColumnsOf(known) ==
  (IF known >= 1 THEN {"facts"} ELSE {}) \cup (IF known >= 2 THEN {"concepts", "type"} ELSE {})
    \cup (IF known >= 3 THEN {"project_path"} ELSE {}) \cup (IF known >= 5 THEN {"embedding"} ELSE {})
TypesOf(known) == IF known >= 4 THEN AllTypes ELSE IF known >= 2 THEN FirstTypes ELSE {}

\* A daemon that has migrated finds every column and every observation type its
\* statements use, whatever versions and deaths the database has been through.
SchemaFits(d, known) ==
  Pending(d, known) = {} => ColumnsOf(known) \subseteq d.columns /\ TypesOf(known) \subseteq d.checks

\* No migration that is still to be run meets what an interrupted one left.
NothingBlocks(d, known) == Pending(d, known) # {} => ~UpFails(d, NextVersion(d, known))
=============================================================================
