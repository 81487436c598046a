--------------------------- MODULE TracePathProofs ---------------------------
(***************************************************************************)
(* What holds of sqlite.New for every number of runs on one path and every *)
(* way their steps interleave and fail.                                    *)
(***************************************************************************)
EXTENDS TracePath, TLAPS

\* Where a New can stand.
Labels == {"new", "stat", "replace", "open", "schema", "meta", "ready", "remove", "refused"}

\* Files are numbered in the order of their creation; a run that is past opening has
\* one, and only a run that may overwrite ever goes to replace it.
FilesInv ==
  /\ created \in Nat
  /\ path \in 0..created
  /\ schemas \subseteq 1..created
  /\ pc \in [Runs -> Labels]
  /\ handle \in [Runs -> 0..created]
  /\ before \in [Runs -> SUBSET Runs]
  /\ \A r \in Runs : pc[r] \in {"schema", "meta", "ready"} => handle[r] # 0
  /\ \A r \in Runs : pc[r] = "replace" => Overwrite[r]

\* A run that created the schema in its file is alone with it.
HoldsSchema == {r \in Runs : pc[r] \in {"meta", "ready"}}
SchemaInv ==
  /\ \A r \in HoldsSchema : handle[r] \in schemas
  /\ \A r, t \in HoldsSchema : r # t => handle[r] # handle[t]

\* A run that may not overwrite went past Stat because the path was free, so whatever
\* the path names since is younger than the files of the runs that finished before.
Past == {t \in Runs : pc[t] \in {"open", "schema", "meta", "remove"} /\ ~Overwrite[t]}
RerunInv ==
  /\ \A t \in Runs : before[t] \subseteq Ready
  /\ \A t \in Past : \A r \in before[t] : path # handle[r]

PathInv == FilesInv /\ SchemaInv /\ RerunInv

\* The invariant holds before any run begins.
LEMMA PathInit == Init => PathInv
BY TracePathAssumption
   DEF Init, PathInv, FilesInv, Labels, SchemaInv, HoldsSchema, RerunInv, Past, Ready

\* Numbers and handles stay in order, whichever run steps.
LEMMA FilesStep == ASSUME FilesInv, Next PROVE FilesInv'
<1>. USE TracePathAssumption DEF FilesInv
<1>1. ASSUME NEW r \in Runs, NEW l, Goto(r, l), l \in Labels, l # "replace"
      PROVE  /\ pc' \in [Runs -> Labels]
             /\ pc'[r] = l
             /\ \A t \in Runs \ {r} : pc'[t] = pc[t]
             /\ \A t \in Runs : pc'[t] = "replace" => pc[t] = "replace"
  BY <1>1 DEF Goto
<1>2. ASSUME \A t \in Runs : pc'[t] = "replace" => pc[t] = "replace"
      PROVE  \A t \in Runs : pc'[t] = "replace" => Overwrite[t]
  BY <1>2, Zenon
<1>3. ASSUME NEW r \in Runs, Begin(r) PROVE FilesInv'
  <2>1. before' \in [Runs -> SUBSET Runs]
    BY <1>3 DEF Begin, Ready
  <2>. QED
    BY <1>1, <1>2, <1>3, <2>1 DEF Begin, Labels
<1>4. ASSUME NEW r \in Runs, StatAbsent(r) \/ StatRefuses(r) PROVE FilesInv'
  BY <1>1, <1>2, <1>4 DEF StatAbsent, StatRefuses, Labels
<1>5. ASSUME NEW r \in Runs, StatPresent(r) PROVE FilesInv'
  BY <1>5 DEF StatPresent, MayReplace, Goto, Labels
<1>6. ASSUME NEW r \in Runs, Replace(r) \/ ReplaceFails(r) PROVE FilesInv'
  <2>1. path' \in 0..created
    BY <1>6 DEF Replace, ReplaceFails
  <2>. QED
    BY <1>1, <1>2, <1>6, <2>1 DEF Replace, ReplaceFails, Labels
<1>7. ASSUME NEW r \in Runs, Open(r) PROVE FilesInv'
  <2>1. /\ created' \in Nat /\ created <= created' /\ path' \in 1..created'
    BY <1>7 DEF Open
  <2>2. handle' \in [Runs -> 0..created'] /\ handle'[r] = path'
        /\ \A t \in Runs \ {r} : handle'[t] = handle[t]
    BY <1>7, <2>1 DEF Open
  <2>. QED
    BY <1>1, <1>2, <1>7, <2>1, <2>2 DEF Open, Labels
<1>8. ASSUME NEW r \in Runs, CreateSchema(r) \/ WriteMeta(r) PROVE FilesInv'
  <2>1. handle[r] \in 1..created \/ WriteMeta(r)
    BY <1>8 DEF CreateSchema
  <2>2. schemas' \subseteq 1..created
    BY <1>8, <2>1 DEF CreateSchema, WriteMeta
  <2>3. pc[r] \in {"schema", "meta"}
    BY <1>8 DEF CreateSchema, WriteMeta
  <2>. QED
    BY <1>1, <1>2, <1>8, <2>2, <2>3 DEF CreateSchema, WriteMeta, Labels
<1>9. ASSUME NEW r \in Runs, InitializeFails(r) PROVE FilesInv'
  BY <1>1, <1>2, <1>9 DEF InitializeFails, Labels
<1>10. ASSUME NEW r \in Runs, RemoveHalfBorn(r) PROVE FilesInv'
  <2>1. path' \in 0..created
    BY <1>10 DEF RemoveHalfBorn
  <2>. QED
    BY <1>1, <1>2, <1>10, <2>1 DEF RemoveHalfBorn, Labels
<1>. QED
  BY <1>3, <1>4, <1>5, <1>6, <1>7, <1>8, <1>9, <1>10 DEF Next

\* CREATE TABLE lets one run through per file; a file opened later is another one.
LEMMA SchemaStep == ASSUME FilesInv, SchemaInv, Next PROVE SchemaInv'
<1>. USE DEF FilesInv, Labels, SchemaInv, HoldsSchema, Goto
<1>1. ASSUME NEW r \in Runs, pc[r] \notin {"meta", "ready"}, pc'[r] \notin {"meta", "ready"},
             \A t \in Runs \ {r} : pc'[t] = pc[t] /\ handle'[t] = handle[t],
             UNCHANGED schemas
      PROVE  SchemaInv'
  BY <1>1
<1>2. ASSUME NEW r \in Runs, Begin(r) \/ StatAbsent(r) \/ StatPresent(r) \/ StatRefuses(r)
                               \/ Replace(r) \/ ReplaceFails(r) \/ RemoveHalfBorn(r)
      PROVE  SchemaInv'
  BY <1>1, <1>2 DEF Begin, StatAbsent, StatPresent, StatRefuses, Replace, ReplaceFails,
                    RemoveHalfBorn
<1>3. ASSUME NEW r \in Runs, Open(r) PROVE SchemaInv'
  BY <1>1, <1>3 DEF Open
<1>4. ASSUME NEW r \in Runs, CreateSchema(r) PROVE SchemaInv'
  BY <1>4 DEF CreateSchema, Creatable
<1>5. ASSUME NEW r \in Runs, WriteMeta(r) PROVE SchemaInv'
  BY <1>5 DEF WriteMeta
<1>6. ASSUME NEW r \in Runs, InitializeFails(r) PROVE SchemaInv'
  BY <1>6 DEF InitializeFails
<1>. QED
  BY <1>2, <1>3, <1>4, <1>5, <1>6 DEF Next

\* Nobody puts an old file back at the path.
LEMMA RerunStep == ASSUME FilesInv, RerunInv, Next PROVE RerunInv'
<1>. USE DEF FilesInv, Labels, RerunInv, Past, Ready, Goto
<1>1. ASSUME NEW r \in Runs, Begin(r) PROVE RerunInv'
  BY <1>1 DEF Begin
<1>2. ASSUME NEW r \in Runs, StatAbsent(r) PROVE RerunInv'
  BY <1>2 DEF StatAbsent
<1>3. ASSUME NEW r \in Runs, StatPresent(r) \/ StatRefuses(r) PROVE RerunInv'
  BY <1>3 DEF StatPresent, StatRefuses, MayReplace
<1>4. ASSUME NEW r \in Runs, Replace(r) \/ ReplaceFails(r) PROVE RerunInv'
  BY <1>4 DEF Replace, ReplaceFails
<1>5. ASSUME NEW r \in Runs, Open(r) PROVE RerunInv'
  BY <1>5, TracePathAssumption DEF Open
<1>6. ASSUME NEW r \in Runs, CreateSchema(r) \/ WriteMeta(r) PROVE RerunInv'
  BY <1>6 DEF CreateSchema, WriteMeta
<1>7. ASSUME NEW r \in Runs, InitializeFails(r) PROVE RerunInv'
  BY <1>7 DEF InitializeFails
<1>8. ASSUME NEW r \in Runs, RemoveHalfBorn(r) PROVE RerunInv'
  BY <1>8 DEF RemoveHalfBorn
<1>. QED
  BY <1>1, <1>2, <1>3, <1>4, <1>5, <1>6, <1>7, <1>8 DEF Next

\* Every reachable state satisfies the invariant.
LEMMA PathHolds == Spec => []PathInv
<1>1. PathInv /\ UNCHANGED vars => PathInv'
  BY DEF PathInv, FilesInv, SchemaInv, HoldsSchema, RerunInv, Past, Ready, vars
<1>2. PathInv /\ [Next]_vars => PathInv'
  BY <1>1, FilesStep, SchemaStep, RerunStep DEF PathInv
<1>. QED
  BY PathInit, <1>2, PTL DEF Spec

\* However many runs race for the path, two of them never write to one file
\* (sqlite.go:118-119).
THEOREM SharedCorrect == Spec => []NoSharedFile
<1>1. PathInv => NoSharedFile
  BY DEF PathInv, SchemaInv, HoldsSchema, NoSharedFile, Ready
<1>. QED
  BY PathHolds, <1>1, PTL

\* However many other runs race, one that may not overwrite and began after a run got
\* its sink takes no step that takes the path from it (sqlite.go:115-116, 187-189).
THEOREM RerunCorrect == Spec => RerunKeepsTrace
<1>. DEFINE Takes(r, t) == r \in before[t] /\ ~Overwrite[t] /\ pc'[t] # pc[t] /\ path = handle[r]
            Keeps == \A r \in Ready, t \in Runs : Takes(r, t) => path' = path
<1>1. ASSUME PathInv, [Next]_vars PROVE [Keeps]_vars
  <2>1. SUFFICES ASSUME Next, NEW r \in Ready, NEW t \in Runs, Takes(r, t) PROVE path' = path
    BY <1>1
  <2>2. /\ handle[r] # 0 /\ t \notin Past /\ pc[t] # "replace"
    BY <1>1, <2>1 DEF PathInv, FilesInv, RerunInv, Ready
  <2>3. PICK u \in Runs :
          \/ Begin(u) \/ StatAbsent(u) \/ StatPresent(u) \/ StatRefuses(u)
          \/ Replace(u) \/ ReplaceFails(u) \/ Open(u)
          \/ CreateSchema(u) \/ WriteMeta(u) \/ InitializeFails(u) \/ RemoveHalfBorn(u)
    BY <2>1 DEF Next
  <2>4. u = t
    BY <1>1, <2>1, <2>3
       DEF PathInv, FilesInv, Labels, Goto, Begin, StatAbsent, StatPresent, StatRefuses, Replace,
           ReplaceFails, Open, CreateSchema, WriteMeta, InitializeFails, RemoveHalfBorn
  <2>. QED
    BY <2>1, <2>2, <2>3, <2>4
       DEF Past, Begin, StatAbsent, StatPresent, StatRefuses, Replace,
           ReplaceFails, Open, CreateSchema, WriteMeta, InitializeFails, RemoveHalfBorn
<1>. QED
  BY PathHolds, <1>1, PTL DEF Spec, RerunKeepsTrace
=============================================================================
