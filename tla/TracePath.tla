------------------------------ MODULE TracePath ------------------------------
(***************************************************************************)
(* sqlite.New with WithName (sqlite/sqlite.go): runs that name the same    *)
(* file.  Each checks the path with Stat, replaces the file if it may,     *)
(* opens it, creates the schema in it, and on failure closes and removes   *)
(* what is at the path.  A run that got its Sink writes to the file it     *)
(* opened, whatever the path names later.  Any file system or database     *)
(* call may fail; runs are processes and do not coordinate.                *)
(*                                                                         *)
(* The -wal and -shm sidecars go with their database: SQLite discards a    *)
(* log it finds beside an empty database.                                  *)
(***************************************************************************)
EXTENDS Integers, FiniteSets

CONSTANTS
  Runs,       \* processes that construct a sink on the same path
  Overwrite,  \* may a run replace an existing file?
  MaxFiles    \* bound: files ever created at the path

ASSUME TracePathAssumption ==
  /\ Overwrite \in [Runs -> BOOLEAN]
  /\ MaxFiles \in Nat

VARIABLES
  path,     \* the file the path names, 0 if there is none
  created,  \* files created so far
  schemas,  \* the files that hold the schema
  pc,       \* run -> where its New stands; "ready": it returned a Sink, "refused": an error
  handle,   \* run -> the file it opened, 0 if none
  before    \* history: run -> the runs that had finished New when it began

vars == <<path, created, schemas, pc, handle, before>>

Init ==
  /\ path = 0
  /\ created = 0
  /\ schemas = {}
  /\ pc = [r \in Runs |-> "new"]
  /\ handle = [r \in Runs |-> 0]
  /\ before = [r \in Runs |-> {}]

Goto(r, l) == pc' = [pc EXCEPT ![r] = l]
Ready == {r \in Runs : pc[r] = "ready"}

-----------------------------------------------------------------------------
(* Seeded faults, used by mutation checks only                             *)

ReplaceAnyway(r) == path # 0                    \* the overwrite option is not tested
SchemaIfNotExists(r) == TRUE                    \* two runs share one file

-----------------------------------------------------------------------------
Begin(r) ==
  /\ pc[r] = "new"
  /\ before' = [before EXCEPT ![r] = Ready]
  /\ Goto(r, "stat")
  /\ UNCHANGED <<path, created, schemas, handle>>

MayReplace(r) == path # 0 /\ Overwrite[r]

StatAbsent(r) ==
  /\ pc[r] = "stat"
  /\ path = 0
  /\ Goto(r, "open")
  /\ UNCHANGED <<path, created, schemas, handle, before>>

StatPresent(r) ==
  /\ pc[r] = "stat"
  /\ MayReplace(r)
  /\ Goto(r, "replace")
  /\ UNCHANGED <<path, created, schemas, handle, before>>

\* The file exists and may not be replaced, or Stat itself failed.
StatRefuses(r) ==
  /\ pc[r] = "stat"
  /\ Goto(r, "refused")
  /\ UNCHANGED <<path, created, schemas, handle, before>>

\* os.Remove of the old file; one that is gone already is not an error.
Replace(r) ==
  /\ pc[r] = "replace"
  /\ path' = 0
  /\ Goto(r, "open")
  /\ UNCHANGED <<created, schemas, handle, before>>

\* The old file cannot be removed, or it is but a sidecar cannot: New fails.
ReplaceFails(r) ==
  /\ pc[r] = "replace"
  /\ path' \in {path, 0}
  /\ Goto(r, "refused")
  /\ UNCHANGED <<created, schemas, handle, before>>

\* sql.Open is lazy: the first pragma opens what the path names or creates it.
Open(r) ==
  /\ pc[r] = "open"
  /\ path = 0 => created < MaxFiles
  /\ created' = IF path = 0 THEN created + 1 ELSE created
  /\ path' = IF path = 0 THEN created + 1 ELSE path
  /\ handle' = [handle EXCEPT ![r] = path']
  /\ Goto(r, "schema")
  /\ UNCHANGED <<schemas, before>>

\* CREATE TABLE without IF NOT EXISTS.
Creatable(r) == handle[r] \notin schemas

CreateSchema(r) ==
  /\ pc[r] = "schema"
  /\ Creatable(r)
  /\ schemas' = schemas \cup {handle[r]}
  /\ Goto(r, "meta")
  /\ UNCHANGED <<path, created, handle, before>>

WriteMeta(r) ==
  /\ pc[r] = "meta"
  /\ Goto(r, "ready")
  /\ UNCHANGED <<path, created, schemas, handle, before>>

\* A table exists already, the other run holds the write lock, the disk is full.
InitializeFails(r) ==
  /\ pc[r] \in {"open", "schema", "meta"}
  /\ handle' = [handle EXCEPT ![r] = 0]
  /\ Goto(r, "remove")
  /\ UNCHANGED <<path, created, schemas, before>>

\* os.Remove of the path, which may fail.
RemoveHalfBorn(r) ==
  /\ pc[r] = "remove"
  /\ path' \in {0, path}
  /\ Goto(r, "refused")
  /\ UNCHANGED <<created, schemas, handle, before>>

Next == \E r \in Runs :
  \/ Begin(r) \/ StatAbsent(r) \/ StatPresent(r) \/ StatRefuses(r)
  \/ Replace(r) \/ ReplaceFails(r) \/ Open(r)
  \/ CreateSchema(r) \/ WriteMeta(r) \/ InitializeFails(r) \/ RemoveHalfBorn(r)

Spec == Init /\ [][Next]_vars

-----------------------------------------------------------------------------
(* Properties                                                              *)

\* Two runs never fold their spans into one file (sqlite.go:118-119): of those that
\* open the same one, the schema lets one through.
NoSharedFile == \A r, t \in Ready : r # t => handle[r] # handle[t]

\* A rerun that may not overwrite and begins after a run got its sink never takes
\* the path from it, at any of its steps, whatever other runs do meanwhile
\* (sqlite.go:115-116, 187-189).
RerunKeepsTrace ==
  [][\A r \in Ready, t \in Runs :
       r \in before[t] /\ ~Overwrite[t] /\ pc'[t] # pc[t] /\ path = handle[r]
         => path' = path]_vars

\* sqlite.go:115-116: without overwrite, an existing name is an error at
\* construction, so a rerun never destroys the previous run's trace: when nobody may
\* overwrite, the file of every run that got its sink stays at the path.
NoTraceDestroyed ==
  (\A r \in Runs : ~Overwrite[r]) => \A r \in Ready : path = handle[r]
=============================================================================
