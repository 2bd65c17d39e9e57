------------------------------ MODULE Migrations ------------------------------
(***************************************************************************)
(* scripts/migrate.py and arie/migrations.py: how a database gets its      *)
(* schema.  A run names a target and a mode, resolves the target to one    *)
(* connection of its own family of variables, reads once what is applied,  *)
(* and commits one transaction per pending file: its DDL and its row.      *)
(* Runs may overlap, die, and meet files that were added or edited.        *)
(***************************************************************************)
EXTENDS Naturals, Sequences, FiniteSets

CONSTANTS
  Runners,       \* runs of the script that are under way at once
  Environments,  \* what the four variables hold: connections or Unset
  MaxFile        \* the highest number of a migration file

ASSUME MigrationsAssumption == MaxFile \in Nat \ {0}

VARIABLES
  env,           \* the environment of the machine
  tree,          \* the migrations directory: the text of each file
  schemaRows,    \* schema_migrations of each database: file to checksum
  runner,        \* the runs
  ran            \* history: the DDL committed in each database

migrationVars == <<env, tree, schemaRows, runner, ran>>

\* A connection string: the database it reaches, and the host, port and name
\* in it, which are Unparseable if its form is not recognized.
Databases == {"live", "scratch"}
Connection(db, place) == [db |-> db, place |-> place]
Unset == [db |-> "none"]
ASSUME EnvironmentsAssumption ==
  \A e \in Environments : \A u \in {e.testDirect, e.testPooled, e.direct, e.pooled} :
    u = Unset \/ u.db \in Databases
Unparseable == "unparseable"

Texts == {"first", "edited"}   \* a text stands for its checksum too
NoTable == [file \in {0} |-> "no table"]
NotRunning == [at |-> "idle"]

MigrationsInit ==
  /\ env \in Environments
  /\ tree \in {<< >>, [f \in {MaxFile} |-> "first"]}
  /\ schemaRows = [db \in Databases |-> NoTable]
  /\ runner = [r \in Runners |-> NotRunning]
  /\ ran = [db \in Databases |-> << >>]

RunnerBecomes(r, run) == runner' = [runner EXCEPT ![r] = run]
KeepDatabases == UNCHANGED <<env, tree, schemaRows, ran>>

-----------------------------------------------------------------------------
(* Which database.                                                          *)

DirectUrl(target) == IF target = "test" THEN env.testDirect ELSE env.direct
PooledUrl(target) == IF target = "test" THEN env.testPooled ELSE env.pooled
PooledFallback(target) == DirectUrl(target) = Unset
Candidate(target) ==
  IF PooledFallback(target) THEN PooledUrl(target) ELSE DirectUrl(target)

ProductionIdentities ==
  {u.place : u \in {env.direct, env.pooled} \ {Unset}} \ {Unparseable}

\* resolve_target: its own family, and for a test nothing that is known to be
\* production.
Resolves(target) ==
  /\ Candidate(target) # Unset
  /\ target = "test" => Candidate(target).place \notin ProductionIdentities

\* main: writing to production is acknowledged, and never over the pooler.
MayRun(target, dry, confirmed) ==
  /\ Resolves(target)
  /\ target = "production" /\ ~dry => confirmed /\ ~PooledFallback(target)

\* --confirm-production-write is ignored for every other combination.
Flags(target, dry) == IF target = "production" /\ ~dry THEN BOOLEAN ELSE {FALSE}

Invoke(r, target, dry, confirmed) ==
  /\ runner[r] = NotRunning
  /\ MayRun(target, dry, confirmed)
  /\ RunnerBecomes(r, [at |-> "connected", target |-> target, dry |-> dry,
                       confirmed |-> confirmed, url |-> Candidate(target)])
  /\ KeepDatabases

-----------------------------------------------------------------------------
(* migrate.                                                                 *)

Db(r) == runner[r].url.db
RowsOf(db) == IF schemaRows[db] = NoTable THEN << >> ELSE schemaRows[db]

\* _already_applied, and the list of files; a directory without files is wrong.
Started(run, already) ==
  IF tree = << >> THEN NotRunning
  ELSE [at |-> "looping", target |-> run.target, dry |-> run.dry,
        confirmed |-> run.confirmed, url |-> run.url,
        already |-> already, listed |-> DOMAIN tree, todo |-> DOMAIN tree]
Read(run, already) ==
  [at |-> "read", target |-> run.target, dry |-> run.dry,
   confirmed |-> run.confirmed, url |-> run.url, already |-> already]

ReadApplied(r) ==
  /\ runner[r].at = "connected"
  /\ LET already == RowsOf(Db(r))
     IN  RunnerBecomes(r, IF runner[r].dry THEN Started(runner[r], already)
                          ELSE Read(runner[r], already))
  /\ KeepDatabases

\* CREATE TABLE IF NOT EXISTS, committed before the directory is looked at.
Bootstrap(r) ==
  /\ runner[r].at = "read"
  /\ schemaRows' = [schemaRows EXCEPT ![Db(r)] = RowsOf(Db(r))]
  /\ RunnerBecomes(r, Started(runner[r], runner[r].already))
  /\ UNCHANGED <<env, tree, ran>>

NextFile(r) == CHOOSE f \in runner[r].todo : \A g \in runner[r].todo : f <= g
Passes(r) == RunnerBecomes(r, [runner[r] EXCEPT !.todo = @ \ {NextFile(r)}])
Fails(r) == RunnerBecomes(r, NotRunning)

\* A file that was applied when the run began: only its checksum is looked at.
SkipApplied(r) ==
  /\ runner[r].at = "looping" /\ runner[r].todo # {}
  /\ NextFile(r) \in DOMAIN runner[r].already
  /\ IF runner[r].already[NextFile(r)] = tree[NextFile(r)] THEN Passes(r) ELSE Fails(r)
  /\ KeepDatabases

PendingFile(r) ==
  /\ runner[r].at = "looping" /\ runner[r].todo # {}
  /\ NextFile(r) \notin DOMAIN runner[r].already

WouldApply(r) ==
  /\ PendingFile(r) /\ runner[r].dry
  /\ Passes(r)
  /\ KeepDatabases

Named(r) ==
  [target |-> runner[r].target, dry |-> runner[r].dry, confirmed |-> runner[r].confirmed,
   url |-> runner[r].url]

\* filename is the PRIMARY KEY: of two runs that apply one file the later waits
\* and is rolled back with its DDL, like a run whose DDL fails.
Unrecorded(db, file) == file \notin DOMAIN schemaRows[db]
ApplyFile(r) ==
  /\ PendingFile(r) /\ ~runner[r].dry
  /\ LET db == Db(r)
         file == NextFile(r)
     IN  \/ /\ Unrecorded(db, file)
            /\ schemaRows' = [schemaRows EXCEPT ![db] = [f \in DOMAIN @ \cup {file} |->
                          IF f = file THEN tree[file] ELSE @[f]]]
            /\ ran' = [ran EXCEPT ![db] = Append(@, [file |-> file, text |-> tree[file],
                                                     by |-> Named(r)])]
            /\ Passes(r)
            /\ UNCHANGED <<env, tree>>
         \/ Fails(r) /\ KeepDatabases

FinishRun(r) ==
  /\ runner[r].at = "looping" /\ runner[r].todo = {}
  /\ RunnerBecomes(r, IF runner[r].dry THEN NotRunning
                      ELSE [at |-> "done", url |-> runner[r].url, listed |-> runner[r].listed])
  /\ KeepDatabases

\* The process exits, or dies wherever it is.
Exit(r) ==
  /\ runner[r] # NotRunning
  /\ RunnerBecomes(r, NotRunning)
  /\ KeepDatabases

\* The repository moves on: a file is added, not always as the last, or edited.
AddFile ==
  /\ tree # << >>
  /\ \E file \in 1..MaxFile \ DOMAIN tree :
       tree' = [f \in DOMAIN tree \cup {file} |-> IF f = file THEN "first" ELSE tree[f]]
  /\ UNCHANGED <<env, schemaRows, runner, ran>>
EditFile ==
  /\ \E f \in DOMAIN tree : tree' = [tree EXCEPT ![f] = "edited"]
  /\ UNCHANGED <<env, schemaRows, runner, ran>>

MigrationsNext ==
  \/ \E r \in Runners :
       \/ \E target \in {"test", "production"}, dry \in BOOLEAN :
            \E confirmed \in Flags(target, dry) : Invoke(r, target, dry, confirmed)
       \/ ReadApplied(r) \/ Bootstrap(r) \/ SkipApplied(r) \/ WouldApply(r)
       \/ ApplyFile(r) \/ FinishRun(r) \/ Exit(r)
  \/ AddFile \/ EditFile

-----------------------------------------------------------------------------
\* pending_migrations is empty: what /healthz says of a database.
Ready(db) == tree # << >> /\ schemaRows[db] # NoTable /\ DOMAIN tree \subseteq DOMAIN schemaRows[db]

\* However runs overlap, die and fail: the DDL of a file is committed once, with
\* the row that says so, and after every file before it that the run knew of.
AppliedOnceInOrder ==
  /\ \A db \in Databases :
       LET done == ran[db]
       IN  /\ \A i, j \in DOMAIN done : done[i].file = done[j].file => i = j
           /\ {<<done[i].file, done[i].text>> : i \in DOMAIN done}
                = {<<f, RowsOf(db)[f]>> : f \in DOMAIN RowsOf(db)}
  /\ \A r \in Runners : runner[r].at = "looping" =>
       \A f \in runner[r].listed \ runner[r].todo :
         /\ ~runner[r].dry => f \in DOMAIN RowsOf(Db(r))
         /\ \A g \in runner[r].todo : f < g

\* What waits for the migration to complete finds every file it listed applied,
\* beside any other run.
CompletedIsApplied ==
  \A r \in Runners :
    runner[r].at = "done" => runner[r].listed \subseteq DOMAIN RowsOf(Db(r))

\* The incident that shaped the script: whatever is exported, what was written
\* was named.  No dry run writes, production is acknowledged and direct, and a
\* test reaches no address that production is known by.
WrittenAsNamed ==
  \A db \in Databases : \A i \in DOMAIN ran[db] :
    LET by == ran[db][i].by
    IN  /\ ~by.dry
        /\ by.target = "production" => by.confirmed /\ by.url = env.direct
        /\ by.target = "test" => /\ by.url \in {env.testDirect, env.testPooled}
                                 /\ by.url.place \notin ProductionIdentities

MigrationsAreSound == AppliedOnceInOrder /\ CompletedIsApplied /\ WrittenAsNamed

\* migrate.py:23, "neither able to reach the other": a second name of the
\* production server, or a form that is not parsed, gets through.
FamiliesApart ==
  \A i \in DOMAIN ran["live"] : ran["live"][i].by.target = "production"

\* migrations.py:78, an empty result means that the directory "is fully
\* applied": a file that was edited since is not noticed.
ReadyIsUnedited ==
  \A db \in Databases : Ready(db) => \A f \in DOMAIN tree : schemaRows[db][f] = tree[f]
=============================================================================
