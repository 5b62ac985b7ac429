------------------------- MODULE KeyRotationProofs -------------------------
(***************************************************************************)
(* Proofs about KeyRotation. What a rotation does with the key files is    *)
(* right for every database, batch size and history of rotations, crashes  *)
(* and passphrases. That it reaches all the data is proved as long as the  *)
(* database has no more rows than a batch; with more it is false (the run  *)
(* KeyRotationSecondBatch).                                                *)
(***************************************************************************)
EXTENDS KeyRotation, FiniteSetTheorems, WellFoundedInduction, TLAPS

\* While a process holds its encryptor the file it was loaded from keeps its material.
EncOnDisk ==
    proc \in App \cup {"resolved", "staged", "encrypted", "plaintext", "audit", "backup", "rename"} =>
        /\ enc \in Key
        /\ file[Final(enc.src)] = enc.mat

\* The new key is staged before any row is written under it and until it is promoted.
NewEncStaged ==
    proc \in {"staged", "encrypted", "plaintext", "audit", "backup", "rename"} =>
        /\ newEnc \in Key
        /\ file[Staging(newEnc.src)] = newEnc.mat

\* After the rename the new key is the current one.
NewEncPromoted ==
    /\ proc \in {"remove", "cleanup"} =>
         /\ enc \in Key
         /\ newEnc \in Key
         /\ file[Final(newEnc.src)] = newEnc.mat
    /\ proc = "remove" => enc.src # newEnc.src

\* Once there is a cursor every encrypted row is under the new key: the second query, of
\* which no row the program writes is a result, has nothing to return.
PassedRowsRotated ==
    proc = "encrypted" /\ cursor # NoRow => \A r \in EncryptedRows : rows[r] = newEnc

\* After the first pass no row is under the old key, after the second none is plaintext.
RowsRotated ==
    /\ proc = "plaintext" => \A r \in EncryptedRows : rows[r] = newEnc
    /\ proc \in {"audit", "backup", "rename", "remove", "cleanup"} =>
         \A r \in Rows : rows[r] \in {Absent, newEnc}

\* After the rename of the audit log no encrypted line is under the old key.
LinesRotated ==
    proc \in {"backup", "rename", "remove", "cleanup"} =>
        \A l \in Lines : audit[l] \in {Absent, Plain, newEnc}

\* The inductive invariant: NothingLost alone is not inductive, because promotion
\* overwrites and removes key files whose material it does not look for in the data.
IInv ==
    /\ TypeOK
    /\ NothingLost
    /\ EncOnDisk
    /\ NewEncStaged
    /\ NewEncPromoted
    /\ PassedRowsRotated
    /\ RowsRotated
    /\ LinesRotated
-----------------------------------------------------------------------------
\* The file names of a source are files, and the three differ from each other and
\* from those of the other source.
LEMMA FileNames ==
    ASSUME NEW s \in Sources, NEW t \in Sources
    PROVE  /\ Final(s) \in Files /\ Staging(s) \in Files /\ Backup(s) \in Files
           /\ Final(s) # Staging(t) /\ Final(s) # Backup(t) /\ Staging(s) # Backup(t)
           /\ s # t => Final(s) # Final(t) /\ Staging(s) # Staging(t) /\ Backup(s) # Backup(t)
  BY DEF Sources, Files, Final, Staging, Backup

\* A key has a source and a material, and is no sentinel.
LEMMA KeyFields ==
    ASSUME NEW k \in Key
    PROVE  /\ k.src \in Sources /\ k.mat \in Material /\ k.mat # NoFile
           /\ k # Absent /\ k # Plain /\ k # NoKey
  BY SentinelAssumption, RowsAssumption DEF Key, Material, NoFile

\* What KeyOf builds is a key.
LEMMA KeyOfType ==
    ASSUME NEW s \in Sources, NEW m \in Material, NEW p \in Passphrases \cup {NoPassphrase}
    PROVE  /\ KeyOf(s, m, p) \in Key
           /\ KeyOf(s, m, p).src = s
           /\ KeyOf(s, m, p).mat = m
  BY DEF KeyOf, Key

\* A batch is empty only when no row is left.
LEMMA EmptyBatch ==
    ASSUME NEW cand, IsBatch({}, cand)
    PROVE  cand = {}
  BY RowsAssumption, FS_EmptySet DEF IsBatch

\* Generate writes a new material to one file.
LEMMA GenerateFile ==
    ASSUME TypeOK, NEW f \in Files, Generate(f)
    PROVE  /\ fresh + 1 \in Material
           /\ fresh' \in 0..MaxMaterial
           /\ file' \in [Files -> Material \cup {NoFile}]
           /\ file'[f] = fresh + 1
           /\ \A g \in Files \ {f} : file'[g] = file[g]
  BY RowsAssumption DEF TypeOK, Generate, Material

\* ResolveEncryptor yields a key whose material is in the current file of its
\* source, and overwrites no material.
LEMMA Resolved ==
    ASSUME TypeOK, ResolveEncryptor
    PROVE  /\ enc' \in Key
           /\ file'[Final(enc'.src)] = enc'.mat
           /\ fresh' \in 0..MaxMaterial
           /\ file' \in [Files -> Material \cup {NoFile}]
           /\ \A f \in Files : file[f] # NoFile => file'[f] = file[f]
  <1> DEFINE f == Final(EnvSource)
  <1>1. EnvSource \in Sources /\ f \in Files /\ env \in Passphrases \cup {NoPassphrase}
    BY FileNames DEF EnvSource, Sources, TypeOK
  <1>2. CASE file[f] # NoFile /\ enc' = KeyOf(EnvSource, file[f], env) /\ UNCHANGED disk
    <2>1. file[f] \in Material
      BY <1>1, <1>2 DEF TypeOK
    <2> QED
      BY <1>1, <1>2, <2>1, KeyOfType DEF TypeOK, disk
  <1>3. CASE file[f] = NoFile /\ Generate(f) /\ enc' = KeyOf(EnvSource, fresh + 1, env)
    <2>1. /\ fresh + 1 \in Material
          /\ fresh' \in 0..MaxMaterial
          /\ file' \in [Files -> Material \cup {NoFile}]
          /\ file'[f] = fresh + 1
          /\ \A g \in Files \ {f} : file'[g] = file[g]
      BY <1>1, <1>3, GenerateFile
    <2> QED
      BY <1>1, <1>3, <2>1, KeyOfType
  <1> QED
    BY <1>2, <1>3 DEF ResolveEncryptor

\* Data stays recoverable when neither the data nor any material on disk is lost.
LEMMA KeysKept ==
    ASSUME TypeOK, NothingLost, UNCHANGED data,
           \A f \in Files : file[f] # NoFile => file'[f] = file[f]
    PROVE  NothingLost'
  <1>1. ASSUME NEW k \in Key, OnDisk(k)
        PROVE  OnDisk(k)'
    BY <1>1, KeyFields, FileNames DEF OnDisk
  <1> QED
    BY <1>1 DEF NothingLost, data, EncryptedRows, EncryptedLines

\* Data all of which is under one key is recoverable if that key is on disk.
LEMMA OneKey ==
    ASSUME NEW k \in Key, OnDisk(k)',
           \A r \in EncryptedRows' : rows'[r] = k,
           \A l \in EncryptedLines' : audit'[l] = k
    PROVE  NothingLost'
  BY DEF NothingLost, EncryptedRows, EncryptedLines

\* An exit that leaves the data and the disk alone preserves the invariant.
LEMMA ExitKeeps ==
    ASSUME IInv, NEW result, Exit(result), UNCHANGED <<data, disk, env>>,
           result \in {"none", "refused", "declined", "rejected", "interrupted", "completed"}
    PROVE  IInv'
  <1>1. TypeOK'
    BY DEF IInv, TypeOK, Exit, data, disk
  <1>2. NothingLost'
    BY KeysKept DEF IInv, data, disk
  <1>3. proc' = "idle"
    BY DEF Exit
  <1> QED
    BY <1>1, <1>2, <1>3 DEF IInv, EncOnDisk, NewEncStaged, NewEncPromoted,
       PassedRowsRotated, RowsRotated, LinesRotated, App
-----------------------------------------------------------------------------
\* Initially nothing is encrypted and no process runs.
LEMMA InitIInv == Init => IInv
  <1> SUFFICES ASSUME Init PROVE IInv
    OBVIOUS
  <1>1. \A r \in Rows : rows[r] \in {Absent, Plain}
    BY DEF Init
  <1>2. EncryptedRows = {} /\ EncryptedLines = {}
    BY <1>1, SentinelAssumption DEF Init, EncryptedRows, EncryptedLines
  <1>3. TypeOK
    BY RowsAssumption DEF Init, TypeOK, Stored, NoRow, NoFile, Files
  <1> QED
    BY <1>2, <1>3 DEF Init, IInv, NothingLost, EncOnDisk, NewEncStaged, NewEncPromoted,
       PassedRowsRotated, RowsRotated, LinesRotated, App

\* A process that starts holds a key that is on disk.
LEMMA StartKeeps ==
    ASSUME IInv, StartApp \/ StartRotate
    PROVE  IInv'
  <1>1. /\ TypeOK /\ NothingLost /\ ResolveEncryptor /\ UNCHANGED data
        /\ proc' \in {"migrating", "resolved"}
        /\ env' = env /\ newEnc' = newEnc /\ cursor' = cursor
        /\ outcome' \in {outcome, "none"}
    BY DEF IInv, StartApp, StartRotate
  <1>2. /\ enc' \in Key
        /\ file'[Final(enc'.src)] = enc'.mat
        /\ fresh' \in 0..MaxMaterial
        /\ file' \in [Files -> Material \cup {NoFile}]
        /\ \A f \in Files : file[f] # NoFile => file'[f] = file[f]
    BY <1>1, Resolved
  <1>3. NothingLost'
    BY <1>1, <1>2, KeysKept
  <1>4. TypeOK'
    BY <1>1, <1>2 DEF TypeOK, data, App, RotateCmd
  <1> QED
    BY <1>1, <1>2, <1>3, <1>4 DEF IInv, EncOnDisk, NewEncStaged, NewEncPromoted,
       PassedRowsRotated, RowsRotated, LinesRotated, App

\* Rows are written under a key that is on disk, by the migration and by the application.
LEMMA AppKeeps ==
    ASSUME IInv, UNCHANGED <<disk, env, enc, newEnc, cursor, outcome>>,
           proc \in App, proc' \in App,
           \A r \in Rows : rows'[r] \in {rows[r], enc}, rows' \in [Rows -> Stored],
           \A l \in Lines : audit'[l] \in {audit[l], enc, Plain}, audit' \in [Lines -> Stored]
    PROVE  IInv'
  <1>1. enc \in Key /\ file[Final(enc.src)] = enc.mat
    BY DEF IInv, EncOnDisk
  <1>2. OnDisk(enc)
    BY <1>1 DEF OnDisk
  <1>3. \A k : OnDisk(k)' <=> OnDisk(k)
    BY DEF OnDisk, disk
  <1>4. NothingLost'
    BY <1>2, <1>3, SentinelAssumption DEF IInv, NothingLost, EncryptedRows, EncryptedLines
  <1>5. TypeOK'
    BY DEF IInv, TypeOK, disk
  <1> QED
    BY <1>1, <1>4, <1>5 DEF IInv, EncOnDisk, NewEncStaged, NewEncPromoted, disk,
       PassedRowsRotated, RowsRotated, LinesRotated, App

\* A batch of the legacy-row migration, or its end, preserves the invariant.
LEMMA MigrateKeeps ==
    ASSUME IInv, MigrateToEncrypted
    PROVE  IInv'
  <1>1. PICK batch \in SUBSET PlaintextRows :
          /\ rows' = [r \in Rows |-> IF r \in batch THEN enc ELSE rows[r]]
          /\ proc' = IF batch = {} THEN "running" ELSE "migrating"
    BY DEF MigrateToEncrypted
  <1>2. enc \in Key
    BY DEF IInv, EncOnDisk, MigrateToEncrypted, App
  <1>3. \A r \in Rows : rows'[r] \in {rows[r], enc}
    BY <1>1
  <1>4. rows' \in [Rows -> Stored]
    BY <1>1, <1>2 DEF IInv, TypeOK, Stored
  <1>5. audit' = audit /\ audit' \in [Lines -> Stored]
    BY DEF MigrateToEncrypted, IInv, TypeOK
  <1> QED
    BY <1>1, <1>3, <1>4, <1>5, AppKeeps DEF MigrateToEncrypted, App

\* So do the messages and audit lines the application appends.
LEMMA AppendKeeps ==
    ASSUME IInv, (\E r \in Rows : AddMessage(r)) \/ (\E l \in Lines : Log(l))
    PROVE  IInv'
  <1>1. ASSUME NEW r \in Rows, AddMessage(r)
        PROVE  IInv'
    <2>1. enc \in Key
      BY <1>1 DEF AddMessage, IInv, EncOnDisk, App
    <2>2. rows' \in [Rows -> Stored] /\ audit' \in [Lines -> Stored]
      BY <1>1, <2>1 DEF AddMessage, IInv, TypeOK, Stored
    <2>3. \A s \in Rows : rows'[s] \in {rows[s], enc}
      BY <1>1 DEF AddMessage, IInv, TypeOK
    <2> QED
      BY <1>1, <2>2, <2>3, AppKeeps DEF AddMessage, App
  <1>2. ASSUME NEW l \in Lines, Log(l)
        PROVE  IInv'
    <2>1. enc \in Key
      BY <1>2 DEF Log, IInv, EncOnDisk
    <2>2. rows' \in [Rows -> Stored] /\ audit' \in [Lines -> Stored]
      BY <1>2, <2>1 DEF Log, IInv, TypeOK, Stored
    <2>3. \A m \in Lines : audit'[m] \in {audit[m], enc, Plain}
      BY <1>2 DEF Log, IInv, TypeOK
    <2> QED
      BY <1>2, <2>2, <2>3, AppKeeps DEF Log
  <1> QED
    BY <1>1, <1>2
-----------------------------------------------------------------------------
\* ResolveNewEncryptor yields a key whose material is in the staging file of its
\* source, and overwrites no material.
LEMMA Staged ==
    ASSUME TypeOK, NEW flag \in Passphrases \cup {NoPassphrase}, ResolveNewEncryptor(flag)
    PROVE  /\ newEnc' \in Key
           /\ file'[Staging(newEnc'.src)] = newEnc'.mat
           /\ fresh' \in 0..MaxMaterial
           /\ file' \in [Files -> Material \cup {NoFile}]
           /\ \A f \in Files : file[f] # NoFile => file'[f] = file[f]
  <1> DEFINE src == FlagSource(flag)
  <1>1. src \in Sources /\ Staging(src) \in Files
    BY FileNames DEF FlagSource, Sources
  <1>2. CASE /\ file["key.new"] # NoFile
             /\ newEnc' = KeyOf("auto-key", file["key.new"], NoPassphrase)
             /\ UNCHANGED disk
    <2>1. file["key.new"] \in Material
      BY <1>2 DEF TypeOK, Files
    <2> QED
      BY <1>2, <2>1, KeyOfType DEF TypeOK, disk, Staging, Sources
  <1>3. CASE /\ file["salt.new"] # NoFile
             /\ newEnc' = KeyOf("passphrase", file["salt.new"], flag)
             /\ UNCHANGED disk
    <2>1. file["salt.new"] \in Material
      BY <1>3 DEF TypeOK, Files
    <2> QED
      BY <1>3, <2>1, KeyOfType DEF TypeOK, disk, Staging, Sources
  <1>4. CASE /\ file["key.new"] = NoFile
             /\ file["salt.new"] = NoFile
             /\ StageFresh(flag)
    <2>1. Generate(Staging(src)) /\ newEnc' = KeyOf(src, fresh + 1, flag)
      BY <1>4 DEF StageFresh
    <2>2. /\ fresh + 1 \in Material
          /\ fresh' \in 0..MaxMaterial
          /\ file' \in [Files -> Material \cup {NoFile}]
          /\ file'[Staging(src)] = fresh + 1
          /\ \A g \in Files \ {Staging(src)} : file'[g] = file[g]
      BY <1>1, <2>1, GenerateFile
    <2>3. file[Staging(src)] = NoFile
      BY <1>4 DEF Staging
    <2> QED
      BY <1>1, <2>1, <2>2, <2>3, KeyOfType
  <1> QED
    BY <1>2, <1>3, <1>4 DEF ResolveNewEncryptor

\* The new key is on disk before anything is encrypted under it.
LEMMA StageKeeps ==
    ASSUME IInv, NEW flag \in Passphrases \cup {NoPassphrase}, ResolveNewEncryptor(flag)
    PROVE  IInv'
  <1>2. /\ TypeOK /\ NothingLost /\ UNCHANGED <<data, env, enc, cursor, outcome>>
        /\ proc = "resolved" /\ proc' = "staged"
        /\ enc \in Key /\ file[Final(enc.src)] = enc.mat
    BY DEF IInv, EncOnDisk, ResolveNewEncryptor
  <1>3. /\ newEnc' \in Key
        /\ file'[Staging(newEnc'.src)] = newEnc'.mat
        /\ fresh' \in 0..MaxMaterial
        /\ file' \in [Files -> Material \cup {NoFile}]
        /\ \A f \in Files : file[f] # NoFile => file'[f] = file[f]
    BY <1>2, Staged
  <1>4. NothingLost'
    BY <1>2, <1>3, KeysKept
  <1>5. TypeOK'
    BY <1>2, <1>3 DEF TypeOK, data, App, RotateCmd
  <1>6. Final(enc.src) \in Files /\ enc.mat # NoFile
    BY <1>2, KeyFields, FileNames
  <1> QED
    BY <1>2, <1>3, <1>4, <1>5, <1>6 DEF IInv, EncOnDisk, NewEncStaged, NewEncPromoted,
       PassedRowsRotated, RowsRotated, LinesRotated, App

\* Confirming starts the first pass with no row passed.
LEMMA ConfirmKeeps ==
    ASSUME IInv, Confirm
    PROVE  IInv'
  <1>1. NothingLost'
    BY KeysKept DEF IInv, Confirm, data, disk
  <1>2. TypeOK'
    BY DEF IInv, TypeOK, Confirm, data, disk, App, RotateCmd, Rotating, NoRow
  <1> QED
    BY <1>1, <1>2 DEF IInv, Confirm, EncOnDisk, NewEncStaged, NewEncPromoted, App, data, disk,
       PassedRowsRotated, RowsRotated, LinesRotated

\* Rows that move to the new key stay recoverable.
LEMMA RowsToNewKey ==
    ASSUME TypeOK, NothingLost, newEnc \in Key, OnDisk(newEnc), UNCHANGED <<audit, disk>>,
           NEW batch \in SUBSET Rows,
           rows' = [r \in Rows |-> IF r \in batch THEN newEnc ELSE rows[r]]
    PROVE  NothingLost' /\ rows' \in [Rows -> Stored]
  <1>1. \A k : OnDisk(k)' <=> OnDisk(k)
    BY DEF OnDisk, disk
  <1>2. rows' \in [Rows -> Stored]
    BY DEF TypeOK, Stored
  <1> QED
    BY <1>1, <1>2 DEF NothingLost, EncryptedRows, EncryptedLines

\* A batch without a cursor is all encrypted rows, if the rows fit one batch.
LEMMA BatchIsAll ==
    ASSUME OneBatch, cursor = NoRow, NEW batch \in SUBSET Unrotated, IsBatch(batch, Unrotated)
    PROVE  batch = EncryptedRows
  <1>1. Unrotated = EncryptedRows /\ EncryptedRows \in SUBSET Rows
    BY DEF Unrotated, AfterCursor, EncryptedRows
  <1>2. CASE Cardinality(batch) = BatchSize
    <2> DEFINE present == {r \in Rows : rows[r] # Absent}
    <2>0. EncryptedRows \in SUBSET present /\ present \in SUBSET Rows
      BY SentinelAssumption DEF EncryptedRows
    <2> HIDE DEF present
    <2>1. /\ IsFiniteSet(EncryptedRows) /\ IsFiniteSet(batch)
          /\ Cardinality(batch) \in Nat /\ Cardinality(EncryptedRows) \in Nat
          /\ Cardinality(EncryptedRows) <= Cardinality(present)
          /\ Cardinality(present) \in Nat
      BY <1>1, <2>0, RowsAssumption, FS_Subset, FS_CardinalityType
    <2>2. Cardinality(EncryptedRows) <= Cardinality(batch)
      BY <1>2, <2>1, RowsAssumption DEF OneBatch, present
    <2>3. batch # EncryptedRows => Cardinality(batch) < Cardinality(EncryptedRows)
      BY <1>1, <2>1, FS_Subset
    <2> QED
      BY <2>1, <2>2, <2>3
  <1> QED
    BY <1>1, <1>2 DEF IsBatch

\* A batch of the first pass: the first one has every encrypted row.
LEMMA RotateRowsKeeps ==
    ASSUME OneBatch, IInv, RotateEncryptedRows
    PROVE  IInv'
  <1>1. PICK batch \in (SUBSET Unrotated) \ {{}} :
          IsBatch(batch, Unrotated) /\ RotateEncryptedBatch(batch)
    BY DEF RotateEncryptedRows
  <1>2. PICK last \in batch : IsLast(last, batch) /\ cursor' = last
    BY <1>1 DEF RotateEncryptedBatch
  <1>3. /\ newEnc \in Key /\ file[Staging(newEnc.src)] = newEnc.mat
        /\ enc \in Key /\ file[Final(enc.src)] = enc.mat
    BY DEF IInv, EncOnDisk, NewEncStaged, RotateEncryptedRows
  <1>4. batch \subseteq Rows /\ last \in Rows
    BY <1>1, <1>2 DEF Unrotated, EncryptedRows
  <1>5. rows' = [r \in Rows |-> IF r \in batch THEN newEnc ELSE rows[r]]
    BY <1>1 DEF RotateEncryptedBatch
  <1>6. NothingLost' /\ rows' \in [Rows -> Stored]
    BY <1>3, <1>4, <1>5, RowsToNewKey DEF IInv, RotateEncryptedRows, OnDisk
  <1>7. TypeOK'
    BY <1>2, <1>4, <1>6 DEF IInv, TypeOK, RotateEncryptedRows, disk
  <1>8. PassedRowsRotated'
    <2>1. CASE cursor = NoRow
      <3>1. batch = EncryptedRows
        BY <1>1, <2>1, BatchIsAll
      <3>2. ASSUME NEW r \in Rows, rows'[r] \in Key
            PROVE  rows'[r] = newEnc
        BY <1>5, <3>1, <3>2 DEF EncryptedRows
      <3> QED
        BY <3>2 DEF PassedRowsRotated, EncryptedRows, RotateEncryptedRows
    <2>2. CASE cursor # NoRow
      BY <1>5, <2>2 DEF IInv, PassedRowsRotated, EncryptedRows, RotateEncryptedRows
    <2> QED
      BY <2>1, <2>2
  <1> QED
    BY <1>3, <1>6, <1>7, <1>8 DEF IInv, EncOnDisk, NewEncStaged, NewEncPromoted, disk,
       RowsRotated, LinesRotated, App, RotateEncryptedRows

\* When the query returns no row every encrypted row is under the new key: without a
\* cursor there is none, with one the first batch had them all.
LEMMA RowsDoneKeeps ==
    ASSUME IInv, EncryptedRowsDone
    PROVE  IInv'
  <1>1. NothingLost'
    BY KeysKept DEF IInv, EncryptedRowsDone, data, disk
  <1>2. TypeOK'
    BY DEF IInv, TypeOK, EncryptedRowsDone, data, disk, App, RotateCmd, Rotating
  <1>3. \A r \in EncryptedRows : rows[r] = newEnc
    BY DEF IInv, PassedRowsRotated, EncryptedRowsDone, Unrotated, AfterCursor
  <1> QED
    BY <1>1, <1>2, <1>3 DEF IInv, EncryptedRowsDone, EncOnDisk, NewEncStaged, NewEncPromoted,
       App, data, disk, PassedRowsRotated, RowsRotated, LinesRotated, EncryptedRows
-----------------------------------------------------------------------------
\* The second pass moves the remaining rows to the new key and ends when there is none.
LEMMA PlaintextKeeps ==
    ASSUME IInv, EncryptPlaintextRows
    PROVE  IInv'
  <1>1. PICK batch \in SUBSET PlaintextRows :
          /\ IsBatch(batch, PlaintextRows)
          /\ rows' = [r \in Rows |-> IF r \in batch THEN newEnc ELSE rows[r]]
          /\ proc' = IF batch = {} THEN "audit" ELSE "plaintext"
    BY DEF EncryptPlaintextRows
  <1>2. /\ newEnc \in Key /\ file[Staging(newEnc.src)] = newEnc.mat
        /\ enc \in Key /\ file[Final(enc.src)] = enc.mat
    BY DEF IInv, EncOnDisk, NewEncStaged, EncryptPlaintextRows
  <1>3. NothingLost' /\ rows' \in [Rows -> Stored]
    BY <1>1, <1>2, RowsToNewKey DEF IInv, EncryptPlaintextRows, OnDisk, PlaintextRows
  <1>4. TypeOK'
    BY <1>1, <1>3 DEF IInv, TypeOK, EncryptPlaintextRows, disk, App, RotateCmd, Rotating
  <1>5. \A r \in EncryptedRows' : rows'[r] = newEnc
    BY <1>1 DEF IInv, RowsRotated, EncryptPlaintextRows, EncryptedRows
  <1>6. proc' = "audit" => \A r \in Rows : rows'[r] \in {Absent, newEnc}
    <2> SUFFICES ASSUME batch = {}, NEW r \in Rows
                 PROVE  rows'[r] \in {Absent, newEnc}
      BY <1>1
    <2>1. PlaintextRows = {}
      BY <1>1, EmptyBatch
    <2> QED
      BY <1>3, <1>5, <2>1, <1>1 DEF Stored, PlaintextRows, EncryptedRows
  <1> QED
    BY <1>1, <1>2, <1>3, <1>4, <1>5, <1>6 DEF IInv, EncOnDisk, NewEncStaged, NewEncPromoted,
       disk, PassedRowsRotated, RowsRotated, LinesRotated, App, EncryptPlaintextRows

\* The rename of the audit log moves every encrypted line from the old key to the new one.
LEMMA AuditKeeps ==
    ASSUME IInv, RotateAuditLog
    PROVE  IInv'
  <1>1. /\ newEnc \in Key /\ file[Staging(newEnc.src)] = newEnc.mat
        /\ enc \in Key /\ file[Final(enc.src)] = enc.mat
    BY DEF IInv, EncOnDisk, NewEncStaged, RotateAuditLog
  <1>2. \A k : OnDisk(k)' <=> OnDisk(k)
    BY DEF OnDisk, disk, RotateAuditLog
  <1>3. NothingLost'
    BY <1>1, <1>2 DEF IInv, NothingLost, OnDisk, RotateAuditLog, EncryptedRows, EncryptedLines
  <1>4. \A l \in Lines : audit'[l] \in {Absent, Plain, newEnc}
    BY DEF IInv, TypeOK, Stored, RotateAuditLog, EncryptedLines
  <1>5. TypeOK'
    <2>1. audit' \in [Lines -> Stored]
      BY <1>1 DEF RotateAuditLog, IInv, TypeOK, Stored
    <2> QED
      BY <2>1 DEF IInv, TypeOK, RotateAuditLog, disk, App, RotateCmd, Rotating
  <1> QED
    BY <1>1, <1>3, <1>4, <1>5 DEF IInv, EncOnDisk, NewEncStaged, NewEncPromoted,
       disk, PassedRowsRotated, RowsRotated, LinesRotated, App, RotateAuditLog

\* During promotion all data is under the new key.
LEMMA PromotionData ==
    ASSUME IInv, proc \in {"backup", "rename", "remove", "cleanup"}, UNCHANGED data
    PROVE  /\ \A r \in EncryptedRows' : rows'[r] = newEnc
           /\ \A l \in EncryptedLines' : audit'[l] = newEnc
  BY SentinelAssumption DEF IInv, RowsRotated, LinesRotated, data, EncryptedRows, EncryptedLines

\* Overwriting the backup loses nothing, since no data is under an older key any more.
LEMMA BackupKeeps ==
    ASSUME IInv, BackupOldFile
    PROVE  IInv'
  <1>1. /\ newEnc \in Key /\ file[Staging(newEnc.src)] = newEnc.mat
        /\ enc \in Key /\ file[Final(enc.src)] = enc.mat
        /\ TypeOK
    BY DEF IInv, EncOnDisk, NewEncStaged, BackupOldFile
  <1>2. enc.src \in Sources /\ newEnc.src \in Sources
    BY <1>1, KeyFields
  <1>3. file' = [file EXCEPT ![Backup(enc.src)] = enc.mat]
    BY <1>1 DEF BackupOldFile
  <1>4. /\ file'[Staging(newEnc.src)] = newEnc.mat
        /\ file'[Final(enc.src)] = enc.mat
        /\ file' \in [Files -> Material \cup {NoFile}]
    BY <1>1, <1>2, <1>3, FileNames, KeyFields DEF TypeOK
  <1>5. NothingLost'
    BY <1>1, <1>4, PromotionData, OneKey DEF BackupOldFile, OnDisk
  <1>6. TypeOK'
    BY <1>4 DEF IInv, TypeOK, BackupOldFile, data, App, RotateCmd, Rotating
  <1> QED
    BY <1>1, <1>4, <1>5, <1>6 DEF IInv, EncOnDisk, NewEncStaged, NewEncPromoted, BackupOldFile,
       data, PassedRowsRotated, RowsRotated, LinesRotated, App

\* Overwriting the current file with the staged one loses nothing, for the same reason.
LEMMA RenameKeeps ==
    ASSUME IInv, RenameStagingFile
    PROVE  IInv'
  <1>1. /\ newEnc \in Key /\ file[Staging(newEnc.src)] = newEnc.mat
        /\ enc \in Key
        /\ TypeOK
    BY DEF IInv, EncOnDisk, NewEncStaged, RenameStagingFile
  <1>2. newEnc.src \in Sources /\ newEnc.mat \in Material
    BY <1>1, KeyFields
  <1>3. /\ file'[Final(newEnc.src)] = newEnc.mat
        /\ file' \in [Files -> Material \cup {NoFile}]
    BY <1>1, <1>2, FileNames DEF TypeOK, RenameStagingFile, NoFile
  <1>4. NothingLost'
    BY <1>1, <1>3, PromotionData, OneKey DEF RenameStagingFile, OnDisk
  <1>5. TypeOK'
    BY <1>3 DEF IInv, TypeOK, RenameStagingFile, data, App, RotateCmd, Rotating
  <1> QED
    BY <1>1, <1>3, <1>4, <1>5 DEF IInv, EncOnDisk, NewEncStaged, NewEncPromoted,
       RenameStagingFile, data, PassedRowsRotated, RowsRotated, LinesRotated, App

\* Removing the old source's file leaves the new one, under which all data is.
LEMMA RemoveKeeps ==
    ASSUME IInv, RemoveOldFile
    PROVE  IInv'
  <1>1. /\ newEnc \in Key /\ file[Final(newEnc.src)] = newEnc.mat
        /\ enc \in Key /\ enc.src # newEnc.src
        /\ TypeOK
    BY DEF IInv, NewEncPromoted, RemoveOldFile
  <1>2. enc.src \in Sources /\ newEnc.src \in Sources
    BY <1>1, KeyFields
  <1>3. /\ file'[Final(newEnc.src)] = newEnc.mat
        /\ file' \in [Files -> Material \cup {NoFile}]
    BY <1>1, <1>2, FileNames DEF TypeOK, RemoveOldFile
  <1>4. NothingLost'
    BY <1>1, <1>3, PromotionData, OneKey DEF RemoveOldFile, OnDisk
  <1>5. TypeOK'
    BY <1>3 DEF IInv, TypeOK, RemoveOldFile, data, App, RotateCmd, Rotating
  <1> QED
    BY <1>1, <1>3, <1>4, <1>5 DEF IInv, EncOnDisk, NewEncStaged, NewEncPromoted,
       RemoveOldFile, data, PassedRowsRotated, RowsRotated, LinesRotated, App

\* Removing the staging files leaves the promoted file.
LEMMA CleanupKeeps ==
    ASSUME IInv, CleanupStagingFiles
    PROVE  IInv'
  <1>1. /\ newEnc \in Key /\ file[Final(newEnc.src)] = newEnc.mat
        /\ TypeOK
    BY DEF IInv, NewEncPromoted, CleanupStagingFiles
  <1>2. newEnc.src \in Sources
    BY <1>1, KeyFields
  <1>3. /\ file'[Final(newEnc.src)] = newEnc.mat
        /\ file' \in [Files -> Material \cup {NoFile}]
    BY <1>1, <1>2, FileNames DEF TypeOK, CleanupStagingFiles, Final, Files
  <1>4. NothingLost'
    BY <1>1, <1>3, PromotionData, OneKey DEF CleanupStagingFiles, OnDisk
  <1>5. TypeOK'
    BY <1>3 DEF IInv, TypeOK, CleanupStagingFiles, Exit, data
  <1> QED
    BY <1>4, <1>5 DEF IInv, EncOnDisk, NewEncStaged, NewEncPromoted,
       CleanupStagingFiles, Exit, PassedRowsRotated, RowsRotated, LinesRotated, App

\* A change of the passphrase variable touches neither the data nor the files.
LEMMA PassphraseKeeps ==
    ASSUME IInv, NEW p \in Passphrases \cup {NoPassphrase}, SetPassphrase(p)
    PROVE  IInv'
  <1>1. NothingLost'
    BY KeysKept DEF IInv, SetPassphrase, data, disk
  <1>2. TypeOK'
    BY DEF IInv, TypeOK, SetPassphrase, data, disk
  <1> QED
    BY <1>1, <1>2 DEF IInv, SetPassphrase, EncOnDisk, NewEncStaged, NewEncPromoted, App,
       PassedRowsRotated, RowsRotated, LinesRotated
-----------------------------------------------------------------------------
\* Every step of a database that fits one batch preserves the invariant.
LEMMA StepIInv ==
    ASSUME OneBatch, IInv, [Next]_vars
    PROVE  IInv'
  <1>1. ASSUME NEW flag \in Passphrases \cup {NoPassphrase}, RefuseStaging(flag)
        PROVE  IInv'
    BY <1>1, ExitKeeps DEF RefuseStaging
  <1>2. CASE Decline
    BY <1>2, ExitKeeps DEF Decline
  <1>3. CASE RejectRow
    BY <1>3, ExitKeeps DEF RejectRow
  <1>4. CASE RejectLine
    BY <1>4, ExitKeeps DEF RejectLine
  <1>5. CASE Interrupt
    <2>1. outcome \in {"none", "refused", "declined", "rejected", "interrupted", "completed"}
      BY DEF IInv, TypeOK
    <2> QED
      BY <1>5, <2>1, ExitKeeps DEF Interrupt
  <1>6. CASE RotateStep
    BY <1>3, <1>4, <1>6, RotateRowsKeeps, RowsDoneKeeps, PlaintextKeeps, AuditKeeps,
       BackupKeeps, RenameKeeps, RemoveKeeps, CleanupKeeps DEF RotateStep
  <1>7. CASE UNCHANGED vars
    <2>1. NothingLost'
      BY <1>7, KeysKept DEF IInv, vars, data
    <2>2. TypeOK'
      BY <1>7 DEF IInv, TypeOK, vars
    <2> QED
      BY <1>7, <2>1, <2>2 DEF IInv, vars, EncOnDisk, NewEncStaged, NewEncPromoted,
         PassedRowsRotated, RowsRotated, LinesRotated, EncryptedRows
  <1> QED
    BY <1>1, <1>2, <1>5, <1>6, <1>7, StartKeeps, MigrateKeeps, AppendKeeps, StageKeeps,
       ConfirmKeeps, PassphraseKeeps DEF Next
-----------------------------------------------------------------------------
(***************************************************************************)
(* The key files. Nothing here depends on the number or the order of the   *)
(* rows: even a rotation that skips rows leaves the key files as the       *)
(* completion message says, and both its keys on disk.                     *)
(***************************************************************************)
\* During promotion the old material is in the backup, and once the old source is no
\* longer used its file is gone.
OldKeyRetired ==
    /\ proc \in {"rename", "remove", "cleanup"} => file[Backup(enc.src)] = enc.mat
    /\ proc = "cleanup" /\ newEnc.src # enc.src => file[Final(enc.src)] = NoFile

\* The inductive invariant: what the encryptors that are held say of the files.
FileInv ==
    /\ TypeOK
    /\ EncOnDisk
    /\ NewEncStaged
    /\ NewEncPromoted
    /\ OldKeyRetired
-----------------------------------------------------------------------------
\* A step that changes no encryptor and no file, stays in the same phase of the command
\* (before, in or after the work on the data) and is well-typed preserves the invariant.
LEMMA FilesUntouched ==
    ASSUME FileInv, TypeOK', UNCHANGED <<disk, enc, newEnc>>,
           \/ proc' = proc
           \/ proc \in App /\ proc' \in App
           \/ proc \in {"staged", "encrypted", "plaintext", "audit"}
                /\ proc' \in {"encrypted", "plaintext", "audit", "backup"}
    PROVE  FileInv'
  BY DEF FileInv, EncOnDisk, NewEncStaged, NewEncPromoted, OldKeyRetired, disk, App

\* A process that ends holds no key.
LEMMA FilesAtExit ==
    ASSUME FileInv, NEW result, Exit(result), UNCHANGED <<data, env>>,
           fresh' = fresh, file' \in [Files -> Material \cup {NoFile}],
           result \in {"none", "refused", "declined", "rejected", "interrupted", "completed"}
    PROVE  FileInv'
  <1>1. TypeOK'
    BY DEF FileInv, TypeOK, Exit, data
  <1>2. proc' = "idle"
    BY DEF Exit
  <1> QED
    BY <1>1, <1>2 DEF FileInv, EncOnDisk, NewEncStaged, NewEncPromoted, OldKeyRetired, App

\* The files of a process that starts: the key it loads or creates is in its file.
LEMMA FilesAtStart ==
    ASSUME FileInv, StartApp \/ StartRotate
    PROVE  FileInv'
  <1>1. /\ TypeOK /\ ResolveEncryptor /\ UNCHANGED data
        /\ proc' \in {"migrating", "resolved"}
        /\ env' = env /\ newEnc' = newEnc /\ cursor' = cursor
        /\ outcome' \in {outcome, "none"}
    BY DEF FileInv, StartApp, StartRotate
  <1>2. /\ enc' \in Key
        /\ file'[Final(enc'.src)] = enc'.mat
        /\ fresh' \in 0..MaxMaterial
        /\ file' \in [Files -> Material \cup {NoFile}]
    BY <1>1, Resolved
  <1>3. TypeOK'
    BY <1>1, <1>2 DEF TypeOK, data, App, RotateCmd
  <1> QED
    BY <1>1, <1>2, <1>3 DEF FileInv, EncOnDisk, NewEncStaged, NewEncPromoted, OldKeyRetired, App

\* The rows and the audit log change, under a key that is held.
LEMMA FilesUnderData ==
    ASSUME FileInv,
           \/ MigrateToEncrypted \/ (\E r \in Rows : AddMessage(r)) \/ (\E l \in Lines : Log(l))
           \/ RotateEncryptedRows \/ EncryptPlaintextRows \/ RotateAuditLog
    PROVE  FileInv'
  <1>1. TypeOK
    BY DEF FileInv
  <1>2. CASE MigrateToEncrypted
    <2>1. enc \in Key
      BY <1>2 DEF FileInv, EncOnDisk, MigrateToEncrypted, App
    <2>2. rows' \in [Rows -> Stored] /\ proc' \in App
      BY <1>1, <1>2, <2>1 DEF MigrateToEncrypted, TypeOK, Stored, App
    <2>3. TypeOK'
      BY <1>1, <1>2, <2>2 DEF MigrateToEncrypted, TypeOK, disk
    <2> QED
      BY <1>2, <2>2, <2>3, FilesUntouched DEF MigrateToEncrypted, App
  <1>3. ASSUME NEW r \in Rows, AddMessage(r)
        PROVE  FileInv'
    <2>1. enc \in Key
      BY <1>3 DEF FileInv, EncOnDisk, AddMessage, App
    <2>2. TypeOK'
      BY <1>1, <1>3, <2>1 DEF AddMessage, TypeOK, Stored, disk
    <2> QED
      BY <1>3, <2>2, FilesUntouched DEF AddMessage
  <1>4. ASSUME NEW l \in Lines, Log(l)
        PROVE  FileInv'
    <2>1. enc \in Key
      BY <1>4 DEF FileInv, EncOnDisk, Log
    <2>2. TypeOK'
      BY <1>1, <1>4, <2>1 DEF Log, TypeOK, Stored, disk
    <2> QED
      BY <1>4, <2>2, FilesUntouched DEF Log
  <1>5. CASE RotateEncryptedRows
    <2>1. PICK batch \in (SUBSET Unrotated) \ {{}} : RotateEncryptedBatch(batch)
      BY <1>5 DEF RotateEncryptedRows
    <2>2. batch \subseteq Rows /\ newEnc \in Key
      BY <1>5, <2>1 DEF FileInv, NewEncStaged, RotateEncryptedRows, Unrotated, EncryptedRows
    <2>3. rows' \in [Rows -> Stored] /\ cursor' \in Rows
      BY <1>1, <2>1, <2>2 DEF RotateEncryptedBatch, IsLast, TypeOK, Stored
    <2>4. TypeOK'
      BY <1>1, <1>5, <2>3 DEF RotateEncryptedRows, TypeOK, disk
    <2> QED
      BY <1>5, <2>4, FilesUntouched DEF RotateEncryptedRows
  <1>6. CASE EncryptPlaintextRows
    <2>1. newEnc \in Key
      BY <1>6 DEF FileInv, NewEncStaged, EncryptPlaintextRows
    <2>2. rows' \in [Rows -> Stored] /\ proc' \in {"audit", "plaintext"}
      BY <1>1, <1>6, <2>1 DEF EncryptPlaintextRows, TypeOK, Stored
    <2>3. TypeOK'
      BY <1>1, <1>6, <2>2 DEF EncryptPlaintextRows, TypeOK, disk, RotateCmd, Rotating
    <2> QED
      BY <1>6, <2>2, <2>3, FilesUntouched DEF EncryptPlaintextRows
  <1>7. CASE RotateAuditLog
    <2>1. newEnc \in Key
      BY <1>7 DEF FileInv, NewEncStaged, RotateAuditLog
    <2>2. TypeOK'
      BY <1>1, <1>7, <2>1 DEF RotateAuditLog, TypeOK, Stored, disk, RotateCmd, Rotating
    <2> QED
      BY <1>7, <2>2, FilesUntouched DEF RotateAuditLog
  <1> QED
    BY <1>2, <1>3, <1>4, <1>5, <1>6, <1>7

\* Staging writes neither the current files nor a material that is in use.
LEMMA FilesWhenStaged ==
    ASSUME FileInv, NEW flag \in Passphrases \cup {NoPassphrase}, ResolveNewEncryptor(flag)
    PROVE  FileInv'
  <1>1. /\ TypeOK /\ UNCHANGED <<data, env, enc, cursor, outcome>>
        /\ proc' = "staged"
        /\ enc \in Key /\ file[Final(enc.src)] = enc.mat
    BY DEF FileInv, EncOnDisk, ResolveNewEncryptor
  <1>2. /\ newEnc' \in Key
        /\ file'[Staging(newEnc'.src)] = newEnc'.mat
        /\ fresh' \in 0..MaxMaterial
        /\ file' \in [Files -> Material \cup {NoFile}]
        /\ \A f \in Files : file[f] # NoFile => file'[f] = file[f]
    BY <1>1, Staged
  <1>3. Final(enc.src) \in Files /\ enc.mat # NoFile
    BY <1>1, KeyFields, FileNames
  <1>4. TypeOK'
    BY <1>1, <1>2 DEF TypeOK, data, App, RotateCmd
  <1> QED
    BY <1>1, <1>2, <1>3, <1>4 DEF FileInv, EncOnDisk, NewEncStaged, NewEncPromoted,
       OldKeyRetired, App

\* The backup takes the old material, before anything overwrites or removes it.
LEMMA FilesAtBackup ==
    ASSUME FileInv, BackupOldFile
    PROVE  FileInv'
  <1>1. /\ newEnc \in Key /\ file[Staging(newEnc.src)] = newEnc.mat
        /\ enc \in Key /\ file[Final(enc.src)] = enc.mat
        /\ TypeOK
    BY DEF FileInv, EncOnDisk, NewEncStaged, BackupOldFile
  <1>2. enc.src \in Sources /\ newEnc.src \in Sources
    BY <1>1, KeyFields
  <1>3. file' = [file EXCEPT ![Backup(enc.src)] = enc.mat]
    BY <1>1 DEF BackupOldFile
  <1>4. /\ file'[Staging(newEnc.src)] = newEnc.mat
        /\ file'[Final(enc.src)] = enc.mat
        /\ file'[Backup(enc.src)] = enc.mat
        /\ file' \in [Files -> Material \cup {NoFile}]
    BY <1>1, <1>2, <1>3, FileNames, KeyFields DEF TypeOK
  <1>5. TypeOK'
    BY <1>1, <1>4 DEF TypeOK, BackupOldFile, data, App, RotateCmd, Rotating
  <1> QED
    BY <1>1, <1>4, <1>5 DEF FileInv, EncOnDisk, NewEncStaged, NewEncPromoted, OldKeyRetired,
       BackupOldFile, App

\* The rename makes the new material current and leaves the backup.
LEMMA FilesAtRename ==
    ASSUME FileInv, RenameStagingFile
    PROVE  FileInv'
  <1>1. /\ newEnc \in Key /\ file[Staging(newEnc.src)] = newEnc.mat
        /\ enc \in Key /\ file[Backup(enc.src)] = enc.mat
        /\ TypeOK
    BY DEF FileInv, EncOnDisk, NewEncStaged, OldKeyRetired, RenameStagingFile
  <1>2. newEnc.src \in Sources /\ enc.src \in Sources
    BY <1>1, KeyFields
  <1>3. /\ file'[Final(newEnc.src)] = newEnc.mat
        /\ file'[Backup(enc.src)] = enc.mat
        /\ file' \in [Files -> Material \cup {NoFile}]
    BY <1>1, <1>2, FileNames DEF TypeOK, RenameStagingFile, NoFile
  <1>4. TypeOK'
    BY <1>1, <1>3 DEF TypeOK, RenameStagingFile, data, App, RotateCmd, Rotating
  <1> QED
    BY <1>1, <1>3, <1>4 DEF FileInv, EncOnDisk, NewEncStaged, NewEncPromoted, OldKeyRetired,
       RenameStagingFile, App

\* Removing the old source's file leaves the backup and the new file.
LEMMA FilesAtRemove ==
    ASSUME FileInv, RemoveOldFile
    PROVE  FileInv'
  <1>1. /\ newEnc \in Key /\ file[Final(newEnc.src)] = newEnc.mat
        /\ enc \in Key /\ enc.src # newEnc.src
        /\ file[Backup(enc.src)] = enc.mat
        /\ TypeOK
    BY DEF FileInv, NewEncPromoted, OldKeyRetired, RemoveOldFile
  <1>2. enc.src \in Sources /\ newEnc.src \in Sources
    BY <1>1, KeyFields
  <1>3. /\ file'[Final(newEnc.src)] = newEnc.mat
        /\ file'[Final(enc.src)] = NoFile
        /\ file'[Backup(enc.src)] = enc.mat
        /\ file' \in [Files -> Material \cup {NoFile}]
    BY <1>1, <1>2, FileNames DEF TypeOK, RemoveOldFile
  <1>4. TypeOK'
    BY <1>1, <1>3 DEF TypeOK, RemoveOldFile, data, App, RotateCmd, Rotating
  <1> QED
    BY <1>1, <1>3, <1>4 DEF FileInv, EncOnDisk, NewEncStaged, NewEncPromoted, OldKeyRetired,
       RemoveOldFile, App
-----------------------------------------------------------------------------
\* Every step preserves the invariant.
LEMMA StepFileInv ==
    ASSUME FileInv, [Next]_vars
    PROVE  FileInv'
  <1> DEFINE Results == {"none", "refused", "declined", "rejected", "interrupted", "completed"}
  <1>0. file \in [Files -> Material \cup {NoFile}] /\ outcome \in Results /\ TypeOK
    BY DEF FileInv, TypeOK
  <1>1. ASSUME NEW flag \in Passphrases \cup {NoPassphrase}, RefuseStaging(flag)
        PROVE  FileInv'
    BY <1>0, <1>1, FilesAtExit DEF RefuseStaging, disk
  <1>2. CASE Decline
    BY <1>0, <1>2, FilesAtExit DEF Decline, disk
  <1>3. CASE RejectRow
    BY <1>0, <1>3, FilesAtExit DEF RejectRow, disk
  <1>4. CASE RejectLine
    BY <1>0, <1>4, FilesAtExit DEF RejectLine, disk
  <1>5. CASE Interrupt
    BY <1>0, <1>5, FilesAtExit DEF Interrupt, disk
  <1>6. CASE CleanupStagingFiles
    BY <1>0, <1>6, FilesAtExit DEF CleanupStagingFiles
  <1>7. CASE Confirm
    <2>1. TypeOK'
      BY <1>0, <1>7 DEF TypeOK, Confirm, data, disk, RotateCmd, Rotating, NoRow
    <2> QED
      BY <1>7, <2>1, FilesUntouched DEF Confirm
  <1>8. CASE EncryptedRowsDone
    <2>1. TypeOK'
      BY <1>0, <1>8 DEF TypeOK, EncryptedRowsDone, data, disk, RotateCmd, Rotating
    <2> QED
      BY <1>8, <2>1, FilesUntouched DEF EncryptedRowsDone
  <1>9. ASSUME NEW p \in Passphrases \cup {NoPassphrase}, SetPassphrase(p)
        PROVE  FileInv'
    <2>1. TypeOK'
      BY <1>0, <1>9 DEF TypeOK, SetPassphrase, data, disk
    <2> QED
      BY <1>9, <2>1, FilesUntouched DEF SetPassphrase
  <1>10. CASE UNCHANGED vars
    <2>1. TypeOK'
      BY <1>0, <1>10 DEF TypeOK, vars
    <2> QED
      BY <1>10, <2>1, FilesUntouched DEF vars, disk
  <1>11. CASE RotateStep
    BY <1>3, <1>4, <1>6, <1>8, <1>11, FilesUnderData, FilesAtBackup, FilesAtRename,
       FilesAtRemove DEF RotateStep
  <1> QED
    BY <1>1, <1>2, <1>5, <1>7, <1>9, <1>10, <1>11, FilesAtStart, FilesUnderData,
       FilesWhenStaged DEF Next

\* The invariant holds from a data directory without key files on.
THEOREM KeyFilesInvariant == Spec => []FileInv
  <1>1. Init => FileInv
    <2> SUFFICES ASSUME Init PROVE FileInv
      OBVIOUS
    <2>1. \A r \in Rows : rows[r] \in {Absent, Plain}
      BY DEF Init
    <2>2. TypeOK
      BY RowsAssumption DEF Init, TypeOK, Stored, NoRow, NoFile, Files
    <2> QED
      BY <2>2 DEF Init, FileInv, EncOnDisk, NewEncStaged, NewEncPromoted, OldKeyRetired, App
  <1>2. FileInv /\ [Next]_vars => FileInv'
    BY StepFileInv
  <1> QED
    BY <1>1, <1>2, PTL DEF Spec

\* Every variable stays in its range, for all databases, bounds and passphrases.
THEOREM RotationTypes == Spec => []TypeOK
  <1>1. FileInv => TypeOK
    BY DEF FileInv
  <1> QED
    BY <1>1, KeyFilesInvariant, PTL

\* When rotate-key reports completion the new key is the current one of its source, the
\* old source is retired, the old material is the backup and nothing is left staged.
THEOREM CompletionLeavesFiles == Spec => CompletionIsDurable
  <1>1. FileInv /\ [Next]_vars =>
          (outcome # "completed" /\ outcome' = "completed" =>
             /\ file'[Final(newEnc.src)] = newEnc.mat
             /\ newEnc.src # enc.src => file'[Final(enc.src)] = NoFile
             /\ file'[Backup(enc.src)] = enc.mat
             /\ \A src \in Sources : file'[Staging(src)] = NoFile)
    <2> SUFFICES ASSUME FileInv, [Next]_vars, outcome # "completed", outcome' = "completed"
                 PROVE  /\ file'[Final(newEnc.src)] = newEnc.mat
                        /\ newEnc.src # enc.src => file'[Final(enc.src)] = NoFile
                        /\ file'[Backup(enc.src)] = enc.mat
                        /\ \A src \in Sources : file'[Staging(src)] = NoFile
      OBVIOUS
    <2>1. CleanupStagingFiles
      BY DEF Next, vars, StartApp, MigrateToEncrypted, AddMessage, Log, StartRotate,
         ResolveNewEncryptor, RefuseStaging, Decline, Confirm, RotateStep, RotateEncryptedRows,
         EncryptedRowsDone, RejectRow, EncryptPlaintextRows, RotateAuditLog, RejectLine,
         BackupOldFile, RenameStagingFile, RemoveOldFile, Interrupt, SetPassphrase, Exit
    <2>2. /\ newEnc \in Key /\ enc \in Key
          /\ file[Final(newEnc.src)] = newEnc.mat
          /\ newEnc.src # enc.src => file[Final(enc.src)] = NoFile
          /\ file[Backup(enc.src)] = enc.mat
          /\ file \in [Files -> Material \cup {NoFile}]
      BY <2>1 DEF FileInv, TypeOK, NewEncPromoted, OldKeyRetired, CleanupStagingFiles
    <2>3. newEnc.src \in Sources /\ enc.src \in Sources
      BY <2>2, KeyFields
    <2>4. file' = [file EXCEPT !["key.new"] = NoFile, !["salt.new"] = NoFile]
      BY <2>1 DEF CleanupStagingFiles
    <2> QED
      BY <2>2, <2>3, <2>4 DEF Sources, Files, Final, Staging, Backup
  <1> QED
    BY <1>1, KeyFilesInvariant, PTL DEF Spec, CompletionIsDurable

\* Encryptors are held by the process that runs, the new one by rotate-key alone.
HeldByProcess ==
    /\ proc = "idle" => enc = NoKey
    /\ proc \in {"idle", "resolved"} \cup App => newEnc = NoKey

\* Every exit drops both encryptors, and only ResolveNewEncryptor takes a new one.
LEMMA HoldersInvariant == Spec => []HeldByProcess
  <1>1. Init => HeldByProcess
    BY DEF Init, HeldByProcess
  <1>2. HeldByProcess /\ [Next]_vars => HeldByProcess'
    <2> SUFFICES ASSUME HeldByProcess, [Next]_vars PROVE HeldByProcess'
      OBVIOUS
    <2>1. CASE \/ Decline \/ RejectRow \/ RejectLine \/ CleanupStagingFiles \/ Interrupt
               \/ \E flag \in Passphrases \cup {NoPassphrase} : RefuseStaging(flag)
      BY <2>1 DEF Decline, RejectRow, RejectLine, CleanupStagingFiles, Interrupt,
         RefuseStaging, Exit, HeldByProcess
    <2>2. CASE \/ StartApp \/ StartRotate \/ MigrateToEncrypted
               \/ (\E r \in Rows : AddMessage(r)) \/ (\E l \in Lines : Log(l))
               \/ \E p \in Passphrases \cup {NoPassphrase} : SetPassphrase(p)
      BY <2>2 DEF StartApp, StartRotate, MigrateToEncrypted, AddMessage, Log, SetPassphrase,
         HeldByProcess, App
    <2>3. CASE \/ Confirm \/ RotateEncryptedRows \/ EncryptedRowsDone \/ EncryptPlaintextRows
               \/ RotateAuditLog \/ BackupOldFile \/ RenameStagingFile \/ RemoveOldFile
               \/ \E flag \in Passphrases \cup {NoPassphrase} : ResolveNewEncryptor(flag)
      BY <2>3 DEF Confirm, RotateEncryptedRows, EncryptedRowsDone, EncryptPlaintextRows,
         RotateAuditLog, BackupOldFile, RenameStagingFile, RemoveOldFile, ResolveNewEncryptor,
         HeldByProcess, App
    <2>4. CASE UNCHANGED vars
      BY <2>4 DEF vars, HeldByProcess
    <2> QED
      BY <2>1, <2>2, <2>3, <2>4 DEF Next, RotateStep
  <1> QED
    BY <1>1, <1>2, PTL DEF Spec

HeldOnDisk == \A k \in {enc, newEnc} \ {NoKey} : k \in Key /\ OnDisk(k)

\* The held keys are in key files: the old one in the current file until the rename, in
\* the backup from the backup on; the new one staged, and then current.
LEMMA HeldKeysOnDisk ==
    ASSUME FileInv, HeldByProcess
    PROVE  HeldOnDisk
  <1> SUFFICES ASSUME NEW k \in {enc, newEnc} \ {NoKey}
               PROVE  k \in Key /\ OnDisk(k)
    BY DEF HeldOnDisk
  <1>1. k \in Key /\ proc \in {"idle"} \cup App \cup RotateCmd
    BY DEF FileInv, TypeOK
  <1>2. CASE k = enc
    <2>1. proc # "idle"
      BY <1>2 DEF HeldByProcess
    <2>2. file[Final(enc.src)] = enc.mat \/ file[Backup(enc.src)] = enc.mat
      BY <1>1, <2>1 DEF FileInv, EncOnDisk, OldKeyRetired, RotateCmd, Rotating
    <2> QED
      BY <1>1, <1>2, <2>2 DEF OnDisk
  <1>3. CASE k = newEnc
    <2>1. proc \notin {"idle", "resolved"} \cup App
      BY <1>3 DEF HeldByProcess
    <2>2. file[Final(newEnc.src)] = newEnc.mat \/ file[Staging(newEnc.src)] = newEnc.mat
      BY <1>1, <2>1 DEF FileInv, NewEncStaged, NewEncPromoted, RotateCmd, Rotating
    <2> QED
      BY <1>1, <1>3, <2>2 DEF OnDisk
  <1> QED
    BY <1>1, <1>2, <1>3

\* A process that starts or stages loses no material, one that ends leaves its keys in
\* the files they are in.
LEMMA DiskKeepsHeld ==
    ASSUME FileInv, HeldOnDisk, NEW k \in {enc, newEnc} \ {NoKey},
           \/ UNCHANGED file
           \/ \A f \in Files : file[f] # NoFile => file'[f] = file[f]
           \/ CleanupStagingFiles
    PROVE  OnDisk(k)'
  <1>1. k \in Key /\ OnDisk(k)
    BY DEF HeldOnDisk
  <1>2. /\ k.src \in Sources /\ k.mat # NoFile
        /\ Final(k.src) \in Files /\ Staging(k.src) \in Files /\ Backup(k.src) \in Files
    BY <1>1, KeyFields, FileNames
  <1>3. CASE UNCHANGED file \/ \A f \in Files : file[f] # NoFile => file'[f] = file[f]
    BY <1>1, <1>2, <1>3 DEF OnDisk
  <1>4. CASE CleanupStagingFiles
    <2>1. file[Final(k.src)] = k.mat \/ file[Backup(k.src)] = k.mat
      BY <1>4 DEF FileInv, NewEncPromoted, OldKeyRetired, CleanupStagingFiles
    <2>2. file' = [file EXCEPT !["key.new"] = NoFile, !["salt.new"] = NoFile]
      BY <1>4 DEF CleanupStagingFiles
    <2>3. /\ file'[Final(k.src)] = file[Final(k.src)]
          /\ file'[Backup(k.src)] = file[Backup(k.src)]
      BY <1>2, <2>2 DEF FileInv, TypeOK, Sources, Final, Backup, Files
    <2> QED
      BY <2>1, <2>3 DEF OnDisk
  <1> QED
    BY <1>3, <1>4

\* What one step does to the keys that are held before it, if they are on disk after it
\* whenever the process still holds them.
LEMMA HeldKeyStays ==
    ASSUME FileInv, HeldOnDisk, HeldOnDisk', [Next]_vars, NEW k \in {enc, newEnc} \ {NoKey}
    PROVE  OnDisk(k)'
  <1>0. TypeOK
    BY DEF FileInv
  <1>1. CASE StartApp \/ StartRotate
    BY <1>0, <1>1, Resolved, DiskKeepsHeld DEF StartApp, StartRotate
  <1>2. ASSUME NEW flag \in Passphrases \cup {NoPassphrase}, ResolveNewEncryptor(flag)
        PROVE  OnDisk(k)'
    BY <1>0, <1>2, Staged, DiskKeepsHeld
  <1>3. CASE BackupOldFile \/ RenameStagingFile \/ RemoveOldFile
    <2>1. enc' = enc /\ newEnc' = newEnc
      BY <1>3 DEF BackupOldFile, RenameStagingFile, RemoveOldFile
    <2> QED
      BY <2>1 DEF HeldOnDisk
  <1>4. CASE CleanupStagingFiles
    BY <1>4, DiskKeepsHeld
  <1>5. CASE \/ MigrateToEncrypted \/ (\E r \in Rows : AddMessage(r)) \/ (\E l \in Lines : Log(l))
             \/ Decline \/ Confirm \/ RotateEncryptedRows \/ EncryptedRowsDone \/ RejectRow
             \/ EncryptPlaintextRows \/ RotateAuditLog \/ RejectLine \/ Interrupt
             \/ (\E flag \in Passphrases \cup {NoPassphrase} : RefuseStaging(flag))
             \/ (\E p \in Passphrases \cup {NoPassphrase} : SetPassphrase(p))
             \/ UNCHANGED vars
    <2>1. UNCHANGED file
      BY <1>5 DEF MigrateToEncrypted, AddMessage, Log, Decline, Confirm, RotateEncryptedRows,
         EncryptedRowsDone, RejectRow, EncryptPlaintextRows, RotateAuditLog, RejectLine,
         Interrupt, RefuseStaging, SetPassphrase, vars, disk
    <2> QED
      BY <2>1, DiskKeepsHeld
  <1> QED
    BY <1>1, <1>2, <1>3, <1>4, <1>5 DEF Next, RotateStep

\* Wherever a process stops, the keys it held are in key files: for every database, also
\* one whose rows a rotation skips, and every history of abandoned attempts.
THEOREM HeldKeysAreKept == Spec => HeldKeysStay
  <1>1. FileInv /\ HeldByProcess => HeldOnDisk
    BY HeldKeysOnDisk
  <1>2. FileInv /\ HeldOnDisk /\ HeldOnDisk' /\ [Next]_vars =>
          [\A k \in {enc, newEnc} \ {NoKey} : OnDisk(k)']_vars
    BY HeldKeyStays
  <1> QED
    BY <1>1, <1>2, KeyFilesInvariant, HoldersInvariant, PTL DEF Spec, HeldKeysStay
-----------------------------------------------------------------------------
(***************************************************************************)
(* The data. IInv is proved for the states in which the rows fit one       *)
(* batch; since no row is ever deleted, a state in which they do comes     *)
(* only after states in which they did.                                    *)
(***************************************************************************)
\* A step writes rows under a key that is held, and makes none absent.
LEMMA RowsStay ==
    ASSUME FileInv, [Next]_vars, NEW r \in Rows, rows[r] # Absent
    PROVE  rows'[r] # Absent
  <1>1. CASE MigrateToEncrypted
    <2>1. enc # Absent
      BY <1>1, KeyFields DEF FileInv, EncOnDisk, MigrateToEncrypted, App
    <2> QED
      BY <1>1, <2>1 DEF MigrateToEncrypted
  <1>2. ASSUME NEW s \in Rows, AddMessage(s)
        PROVE  rows'[r] # Absent
    BY <1>2 DEF AddMessage, FileInv, TypeOK
  <1>3. CASE RotateEncryptedRows \/ EncryptPlaintextRows
    <2>1. newEnc # Absent
      BY <1>3, KeyFields DEF FileInv, NewEncStaged, RotateEncryptedRows, EncryptPlaintextRows
    <2> QED
      BY <1>3, <2>1 DEF RotateEncryptedRows, RotateEncryptedBatch, EncryptPlaintextRows
  <1>4. CASE UNCHANGED rows
    BY <1>4
  <1> QED
    BY <1>1, <1>2, <1>3, <1>4 DEF Next, RotateStep, vars, data, StartApp, Log, StartRotate,
       ResolveNewEncryptor, RefuseStaging, Decline, Confirm, RejectRow, RejectLine,
       EncryptedRowsDone, RotateAuditLog, BackupOldFile, RenameStagingFile, RemoveOldFile,
       CleanupStagingFiles, Interrupt, SetPassphrase

\* So the rows that fit one batch after a step did before it.
LEMMA BatchFitted ==
    ASSUME FileInv, [Next]_vars, OneBatch'
    PROVE  OneBatch
  <1> DEFINE present == {r \in Rows : rows[r] # Absent}
             after   == {r \in Rows : rows'[r] # Absent}
  <1>1. present \in SUBSET after /\ after \in SUBSET Rows
    BY RowsStay
  <1>2. Cardinality(after) <= BatchSize
    BY DEF OneBatch
  <1> HIDE DEF present, after
  <1>3. IsFiniteSet(after)
    BY <1>1, RowsAssumption, FS_Subset
  <1>4. /\ Cardinality(present) <= Cardinality(after)
        /\ Cardinality(present) \in Nat /\ Cardinality(after) \in Nat
    BY <1>1, <1>3, FS_Subset, FS_CardinalityType
  <1>5. Cardinality(present) <= BatchSize
    BY <1>2, <1>4, RowsAssumption
  <1> QED
    BY <1>5 DEF OneBatch, present

\* As long as the rows fit one batch IInv holds, whatever their times, the order of their
\* ids and the form of their created_at.
THEOREM RotationInvariant == Spec => [](OneBatch => IInv)
  <1>1. FileInv /\ (OneBatch => IInv) /\ [Next]_vars => (OneBatch => IInv)'
    BY BatchFitted, StepIInv
  <1> QED
    BY <1>1, InitIInv, KeyFilesInvariant, PTL DEF Spec

\* No message or audit line becomes unrecoverable as long as the rows fit one batch, for
\* any batch size and any number of rotations, crashes and changes of passphrase.
THEOREM RotationLosesNoKey == Spec => []NoKeyLoss
  <1>1. (OneBatch => IInv) => NoKeyLoss
    BY DEF IInv, NoKeyLoss
  <1> QED
    BY <1>1, RotationInvariant, PTL

\* When RotateKeys returns without an error, everything in a database whose rows fit one
\* batch is under the new key.
THEOREM RotationIsComplete == Spec => []RotationReachesAll
  <1>1. (OneBatch => IInv) => RotationReachesAll
    BY DEF IInv, RowsRotated, LinesRotated, AllUnderNewKey, RotationReachesAll
  <1> QED
    BY <1>1, RotationInvariant, PTL
-----------------------------------------------------------------------------
(***************************************************************************)
(* The safety part of EveryPassEnds: an attempt has a number of steps left *)
(* that goes down with every step, and its next step is always possible.   *)
(***************************************************************************)
\* A bound on the steps of an attempt, or of a migration.
StepsLeft ==
    CASE proc = "encrypted" -> Cardinality(Unrotated) + Cardinality(Rows) + 8
      [] proc = "plaintext" -> Cardinality(PlaintextRows) + 7
      [] proc = "audit"     -> 6
      [] proc = "backup"    -> 5
      [] proc = "rename"    -> 4
      [] proc = "remove"    -> 3
      [] proc = "cleanup"   -> 2
      [] proc = "migrating" -> Cardinality(PlaintextRows) + 1
      [] OTHER              -> 0

\* A step of an attempt or a batch of the migration; audit lines may come in between.
Advances ==
    /\ proc \in Rotating => StepsLeft' < StepsLeft
    /\ proc = "migrating" => StepsLeft' < StepsLeft \/ UNCHANGED <<proc, rows>>

\* Rows are counted in numbers.
LEMMA RowsCounted ==
    ASSUME NEW S \in SUBSET Rows
    PROVE  IsFiniteSet(S) /\ Cardinality(S) \in Nat /\ Cardinality(S) <= Cardinality(Rows)
  <1>1. IsFiniteSet(Rows)
    BY RowsAssumption
  <1> QED
    BY <1>1, FS_Subset, FS_CardinalityType

\* A part of some rows that is not all of them is smaller.
LEMMA FewerRows ==
    ASSUME NEW S \in SUBSET Rows, NEW T \in SUBSET S, T # S
    PROVE  Cardinality(T) < Cardinality(S)
  <1>1. IsFiniteSet(S) /\ Cardinality(S) \in Nat /\ Cardinality(T) \in Nat
    BY RowsCounted
  <1> QED
    BY <1>1, FS_Subset

\* The keyset condition is a strict order: a row behind the new cursor was behind the old.
LEMMA CursorMovesOn ==
    ASSUME NEW c \in Rows \cup {NoRow}, NEW last \in Rows, AfterCursor(c, last)
    PROVE  /\ ~ AfterCursor(last, last)
           /\ \A r \in Rows : AfterCursor(last, r) => AfterCursor(c, r)
  <1>1. Rows \subseteq Nat /\ NoRow \notin Rows
    BY RowsAssumption DEF NoRow
  <1>2. \A r \in Rows : Second(r) \in Nat
    BY RowsAssumption DEF Second
  <1>3. \A r \in Rows : AfterCursor(last, r) <=>
          r \in Readable /\ (Second(r) > Second(last) \/ (Second(r) = Second(last) /\ r > last))
    BY <1>1 DEF AfterCursor
  <1>4. last \in Nat /\ ~ AfterCursor(last, last)
    BY <1>1, <1>2, <1>3
  <1>5. ASSUME NEW r \in Rows, AfterCursor(last, r)
        PROVE  AfterCursor(c, r)
    <2>1. CASE c = NoRow
      BY <2>1 DEF AfterCursor
    <2>2. CASE c \in Rows
      <3>1. Second(last) > Second(c) \/ (Second(last) = Second(c) /\ last > c)
        BY <1>1, <2>2 DEF AfterCursor
      <3>2. Second(r) > Second(last) \/ (Second(r) = Second(last) /\ r > last)
        BY <1>3, <1>5
      <3>3. /\ r \in Nat /\ c \in Nat
            /\ Second(r) \in Nat /\ Second(c) \in Nat /\ Second(last) \in Nat
        BY <1>1, <1>2, <2>2
      <3>4. Second(r) > Second(c) \/ (Second(r) = Second(c) /\ r > c)
        BY <1>4, <3>1, <3>2, <3>3
      <3> QED
        BY <1>3, <1>5, <3>4 DEF AfterCursor
    <2> QED
      BY <2>1, <2>2
  <1> QED
    BY <1>4, <1>5

\* A batch of encrypted rows leaves fewer of them behind the cursor, whether or not the
\* cursor follows the order of the query.
LEMMA BatchAdvances ==
    ASSUME FileInv, RotateEncryptedRows
    PROVE  Cardinality(Unrotated') < Cardinality(Unrotated)
  <1>1. PICK batch \in (SUBSET Unrotated) \ {{}} : RotateEncryptedBatch(batch)
    BY DEF RotateEncryptedRows
  <1>2. PICK last \in batch : cursor' = last
    BY <1>1 DEF RotateEncryptedBatch, IsLast
  <1>3. last \in Rows /\ cursor \in Rows \cup {NoRow} /\ AfterCursor(cursor, last)
    BY <1>1, <1>2 DEF FileInv, TypeOK, Unrotated, EncryptedRows
  <1>4. EncryptedRows' \subseteq EncryptedRows
    BY <1>1 DEF RotateEncryptedBatch, EncryptedRows, Unrotated
  <1>5. Unrotated' \subseteq Unrotated \ {last}
    BY <1>2, <1>3, <1>4, CursorMovesOn DEF Unrotated, EncryptedRows
  <1>6. last \in Unrotated /\ Unrotated \in SUBSET Rows
    BY <1>1, <1>2 DEF Unrotated, EncryptedRows
  <1> QED
    BY <1>5, <1>6, FewerRows

\* A batch of plaintext rows is encrypted under a key that is held.
LEMMA PlaintextAdvances ==
    ASSUME NEW batch \in SUBSET PlaintextRows, IsBatch(batch, PlaintextRows), batch # {},
           NEW key \in Key, rows' = [r \in Rows |-> IF r \in batch THEN key ELSE rows[r]]
    PROVE  Cardinality(PlaintextRows') < Cardinality(PlaintextRows)
  <1>1. key # Plain
    BY KeyFields
  <1>2. PlaintextRows' = PlaintextRows \ batch
    BY <1>1 DEF PlaintextRows
  <1>3. PlaintextRows \in SUBSET Rows
    BY DEF PlaintextRows
  <1> QED
    BY <1>2, <1>3, FewerRows

\* The steps of an attempt, by the loops they are in.
LEMMA AttemptAdvances ==
    ASSUME FileInv, proc \in Rotating, Next
    PROVE  StepsLeft' < StepsLeft
  <1>1. /\ Cardinality(Unrotated) \in Nat /\ Cardinality(PlaintextRows) \in Nat
        /\ Cardinality(Rows) \in Nat /\ Cardinality(PlaintextRows) <= Cardinality(Rows)
        /\ Cardinality(PlaintextRows') \in Nat /\ Cardinality(PlaintextRows') <= Cardinality(Rows)
        /\ Cardinality(Unrotated') \in Nat
    BY RowsCounted DEF Unrotated, EncryptedRows, PlaintextRows
  <1>2. StepsLeft \in Nat /\ StepsLeft >= 2
    BY <1>1 DEF StepsLeft, Rotating
  <1>3. CASE proc' = "idle"
    BY <1>2, <1>3 DEF StepsLeft
  <1>4. CASE RotateEncryptedRows
    <2>1. proc = "encrypted" /\ proc' = "encrypted"
      BY <1>4 DEF RotateEncryptedRows
    <2> QED
      BY <1>1, <1>4, <2>1, BatchAdvances DEF StepsLeft
  <1>5. CASE EncryptedRowsDone
    BY <1>1, <1>5 DEF EncryptedRowsDone, StepsLeft
  <1>6. CASE EncryptPlaintextRows
    <2>1. /\ newEnc \in Key /\ proc = "plaintext"
          /\ StepsLeft = Cardinality(PlaintextRows) + 7
      BY <1>6 DEF EncryptPlaintextRows, FileInv, NewEncStaged, StepsLeft
    <2>2. PICK batch \in SUBSET PlaintextRows :
            /\ IsBatch(batch, PlaintextRows)
            /\ rows' = [r \in Rows |-> IF r \in batch THEN newEnc ELSE rows[r]]
            /\ proc' = IF batch = {} THEN "audit" ELSE "plaintext"
      BY <1>6 DEF EncryptPlaintextRows
    <2>3. CASE batch = {}
      BY <1>1, <2>1, <2>2, <2>3 DEF StepsLeft
    <2>4. CASE batch # {}
      <3>1. Cardinality(PlaintextRows') < Cardinality(PlaintextRows)
        BY <2>1, <2>2, <2>4, PlaintextAdvances
      <3> QED
        BY <1>1, <2>1, <2>2, <2>4, <3>1 DEF StepsLeft
    <2> QED
      BY <2>3, <2>4
  <1>7. CASE RotateAuditLog \/ BackupOldFile \/ RenameStagingFile \/ RemoveOldFile
    BY <1>7 DEF RotateAuditLog, BackupOldFile, RenameStagingFile, RemoveOldFile, StepsLeft
  <1>8. \/ proc' = "idle" \/ RotateEncryptedRows \/ EncryptedRowsDone \/ EncryptPlaintextRows
        \/ RotateAuditLog \/ BackupOldFile \/ RenameStagingFile \/ RemoveOldFile
    BY DEF Next, RotateStep, StartApp, MigrateToEncrypted, AddMessage, Log, StartRotate, App,
           ResolveNewEncryptor, RefuseStaging, Decline, Confirm, RejectRow, RejectLine,
           CleanupStagingFiles, Interrupt, SetPassphrase, Exit, Rotating
  <1> QED
    BY <1>3, <1>4, <1>5, <1>6, <1>7, <1>8

\* rotateEncryptedRows, encryptPlaintextRows, MigrateToEncrypted: no batch is read twice, so
\* an attempt on n rows has ended after 2n + 8 steps and a migration after n + 1 batches,
\* also when the cursor skips rows.
THEOREM AttemptsAdvance == Spec => [][Advances]_vars
  <1>1. ASSUME FileInv, Next
        PROVE  Advances
    <2>1. proc = "migrating" => StepsLeft' < StepsLeft \/ UNCHANGED <<proc, rows>>
      <3> SUFFICES ASSUME proc = "migrating"
                   PROVE  StepsLeft' < StepsLeft \/ UNCHANGED <<proc, rows>>
        OBVIOUS
      <3>1. /\ Cardinality(PlaintextRows) \in Nat /\ Cardinality(PlaintextRows') \in Nat
            /\ StepsLeft = Cardinality(PlaintextRows) + 1
        BY RowsCounted DEF PlaintextRows, StepsLeft
      <3>2. CASE proc' \in {"idle", "running"}
        BY <3>1, <3>2 DEF StepsLeft
      <3>3. CASE MigrateToEncrypted /\ proc' = "migrating"
        <4>1. enc \in Key
          BY <1>1 DEF FileInv, EncOnDisk, App
        <4>2. PICK batch \in SUBSET PlaintextRows :
                /\ IsBatch(batch, PlaintextRows) /\ batch # {}
                /\ rows' = [r \in Rows |-> IF r \in batch THEN enc ELSE rows[r]]
          BY <3>3 DEF MigrateToEncrypted
        <4>3. Cardinality(PlaintextRows') < Cardinality(PlaintextRows)
          BY <4>1, <4>2, PlaintextAdvances
        <4>4. StepsLeft' = Cardinality(PlaintextRows') + 1
          BY <3>3 DEF StepsLeft
        <4> QED
          BY <3>1, <4>3, <4>4
      <3>4. proc' \in {"idle", "running"} \/ MigrateToEncrypted \/ UNCHANGED <<proc, rows>>
        BY <1>1 DEF Next, RotateStep, StartApp, AddMessage, Log, StartRotate,
               ResolveNewEncryptor, RefuseStaging, Decline, Confirm, RejectRow, RejectLine,
               RotateEncryptedRows, EncryptedRowsDone, EncryptPlaintextRows, RotateAuditLog,
               BackupOldFile, RenameStagingFile, RemoveOldFile, CleanupStagingFiles,
               Interrupt, SetPassphrase, Exit
      <3>5. MigrateToEncrypted => proc' \in {"running", "migrating"}
        BY DEF MigrateToEncrypted
      <3> QED
        BY <3>2, <3>3, <3>4, <3>5
    <2> QED
      BY <1>1, <2>1, AttemptAdvances DEF Advances
  <1>2. FileInv /\ [Next]_vars => [Advances]_vars
    BY <1>1
  <1> QED
    BY <1>2, KeyFilesInvariant, PTL DEF Spec
-----------------------------------------------------------------------------
\* The guards of the steps of an attempt, and of the migration.
MayGoOn ==
    /\ proc = "encrypted" =>
         \/ Unrotated = {}
         \/ \E batch \in (SUBSET Unrotated) \ {{}} :
              /\ IsBatch(batch, Unrotated)
              /\ \/ \E last \in batch : IsLast(last, batch)
                 \/ \E b \in batch : ~ Decrypts(rows[b])
    /\ proc \in {"plaintext", "migrating"} =>
         \E batch \in SUBSET PlaintextRows : IsBatch(batch, PlaintextRows)
    /\ proc = "backup" => file[Final(enc.src)] # NoFile
    /\ proc = "rename" => file[Staging(newEnc.src)] # NoFile

\* Induction over the numbers, for a set in place of a predicate.
LEMMA SetInduction ==
    ASSUME NEW S \in SUBSET Nat, 0 \in S, \A n \in S : n + 1 \in S
    PROVE  S = Nat
  <1> DEFINE T == Nat \ S
             R == {p \in Nat \X Nat : p[1] < p[2]}
  <1>1. IsWellFoundedOn(R, Nat)
    BY NatLessThanWellFounded DEF OpToRel
  <1>2. ASSUME T # {}
        PROVE  FALSE
    <2>1. \E x \in T : \A y \in T : ~ (<<y, x>> \in R)
      <3> HIDE DEF R
      <3> QED
        BY <1>1, <1>2, WFMin
    <2>2. PICK x \in T : \A y \in T : ~ (y < x)
      BY <2>1
    <2>3. x \in Nat /\ x # 0 /\ x \notin S
      OBVIOUS
    <2>4. x - 1 \in Nat /\ x - 1 < x /\ x - 1 + 1 = x
      BY <2>3
    <2>5. x - 1 \in S
      BY <2>2, <2>4
    <2> QED
      BY <2>3, <2>4, <2>5
  <1> QED
    BY <1>2

\* The order of the queries is a strict one of all rows.
LEMMA SortIsTotal ==
    ASSUME NEW r \in Rows, NEW s \in Rows
    PROVE  /\ r # s => SortBefore(r, s) \/ SortBefore(s, r)
           /\ \A t \in Rows : SortBefore(r, s) /\ SortBefore(s, t) => SortBefore(r, t)
  <1>1. r \in Nat /\ s \in Nat /\ CreatedAt[r] \in Nat /\ CreatedAt[s] \in Nat
    BY RowsAssumption
  <1>2. \A t \in Rows : t \in Nat /\ CreatedAt[t] \in Nat
    BY RowsAssumption
  <1> QED
    BY <1>1, <1>2 DEF SortBefore

\* Some rows have a first and a last one.
LEMMA RowsHaveEnds ==
    ASSUME NEW S \in SUBSET Rows, S # {}
    PROVE  /\ \E first \in S : \A r \in S \ {first} : SortBefore(first, r)
           /\ \E last \in S : \A r \in S \ {last} : SortBefore(r, last)
  <1> DEFINE First(T, x) == x \in T /\ \A r \in T \ {x} : SortBefore(x, r)
             Last(T, x) == x \in T /\ \A r \in T \ {x} : SortBefore(r, x)
             Ends(T) == (\E x : First(T, x)) /\ (\E x : Last(T, x))
             Good == {n \in Nat : \A T \in SUBSET Rows : Cardinality(T) = n + 1 => Ends(T)}
  <1>1. 0 \in Good
    <2> SUFFICES ASSUME NEW T \in SUBSET Rows, Cardinality(T) = 0 + 1
                 PROVE  Ends(T)
      OBVIOUS
    <2>1. IsFiniteSet(T) /\ Cardinality(T) = 1
      BY RowsCounted
    <2>2. PICK x : T = {x}
      BY <2>1, FS_Singleton
    <2> QED
      BY <2>2
  <1>2. ASSUME NEW n \in Good
        PROVE  n + 1 \in Good
    <2> SUFFICES ASSUME NEW T \in SUBSET Rows, Cardinality(T) = n + 1 + 1
                 PROVE  Ends(T)
      OBVIOUS
    <2>1. IsFiniteSet(T) /\ Cardinality(T) # 0
      BY RowsCounted
    <2>2. PICK x \in T : TRUE
      BY <2>1, FS_EmptySet
    <2> DEFINE U == T \ {x}
    <2>3. U \in SUBSET Rows /\ Cardinality(U) = n + 1
      <3>1. Cardinality(U) = Cardinality(T) - 1
        BY <2>1, <2>2, FS_RemoveElement
      <3>2. n \in Nat
        OBVIOUS
      <3> QED
        BY <3>1, <3>2
    <2>4. Ends(U)
      BY <2>3
    <2>5. PICK f, l : First(U, f) /\ Last(U, l)
      BY <2>4
    <2>6. \A r \in T : r = x \/ r \in U
      OBVIOUS
    <2>7. x \in Rows /\ f \in Rows /\ l \in Rows /\ f # x /\ l # x
      BY <2>2, <2>5
    <2>8. \E y : First(T, y)
      <3>1. CASE SortBefore(f, x)
        BY <2>5, <2>6, <3>1
      <3>2. CASE SortBefore(x, f)
        <4>1. \A r \in U : SortBefore(x, r)
          BY <2>3, <2>5, <2>7, <3>2, SortIsTotal
        <4> QED
          BY <2>2, <2>6, <4>1
      <3> QED
        BY <2>7, <3>1, <3>2, SortIsTotal
    <2>9. \E y : Last(T, y)
      <3>1. CASE SortBefore(x, l)
        BY <2>5, <2>6, <3>1
      <3>2. CASE SortBefore(l, x)
        <4>1. \A r \in U : SortBefore(r, x)
          BY <2>3, <2>5, <2>7, <3>2, SortIsTotal
        <4> QED
          BY <2>2, <2>6, <4>1
      <3> QED
        BY <2>7, <3>1, <3>2, SortIsTotal
    <2> QED
      BY <2>8, <2>9
  <1>3. Good = Nat
    <2> HIDE DEF Good
    <2> QED
      BY <1>1, <1>2, SetInduction DEF Good
  <1>4. IsFiniteSet(S) /\ Cardinality(S) \in Nat /\ Cardinality(S) # 0
    BY RowsCounted, FS_EmptySet
  <1>5. Cardinality(S) - 1 \in Good
    <2> HIDE DEF Good
    <2> QED
      BY <1>3, <1>4
  <1>6. Ends(S)
    BY <1>4, <1>5
  <1> QED
    BY <1>6

\* The query with its limit has an answer: the first rows of those that match.
LEMMA BatchExists ==
    ASSUME NEW S \in SUBSET Rows
    PROVE  \E batch \in SUBSET S : IsBatch(batch, S)
  <1> DEFINE Begins(T, n) ==
               /\ T \in SUBSET S /\ Cardinality(T) = n
               /\ \A t \in T, r \in S \ T : SortBefore(t, r)
             Good == {n \in Nat : n <= Cardinality(S) => \E T : Begins(T, n)}
  <1>1. IsFiniteSet(S) /\ Cardinality(S) \in Nat
    BY RowsCounted
  <1>2. 0 \in Good
    <2>1. Begins({}, 0)
      BY FS_EmptySet
    <2> QED
      BY <2>1
  <1>3. ASSUME NEW n \in Good
        PROVE  n + 1 \in Good
    <2> SUFFICES ASSUME n + 1 <= Cardinality(S)
                 PROVE  \E T : Begins(T, n + 1)
      OBVIOUS
    <2>1. PICK T : Begins(T, n)
      BY <1>1
    <2>2. T # S /\ IsFiniteSet(T)
      BY <1>1, <2>1, FS_Subset
    <2>3. PICK f \in S \ T : \A r \in (S \ T) \ {f} : SortBefore(f, r)
      <3>1. S \ T \in SUBSET Rows /\ S \ T # {}
        BY <2>1, <2>2
      <3> QED
        BY <3>1, RowsHaveEnds
    <2>4. Begins(T \cup {f}, n + 1)
      <3>1. Cardinality(T \cup {f}) = n + 1
        BY <2>1, <2>2, <2>3, FS_AddElement
      <3>2. \A t \in T \cup {f}, r \in S \ (T \cup {f}) : SortBefore(t, r)
        BY <2>1, <2>3
      <3> QED
        BY <2>1, <2>3, <3>1, <3>2
    <2> QED
      BY <2>4
  <1>4. Good = Nat
    <2> HIDE DEF Good
    <2> QED
      BY <1>2, <1>3, SetInduction DEF Good
  <1>5. BatchSize \in Nat
    BY RowsAssumption
  <1>6. CASE Cardinality(S) <= BatchSize
    BY <1>6 DEF IsBatch
  <1>7. CASE ~ (Cardinality(S) <= BatchSize)
    <2>1. BatchSize \in Good
      <3> HIDE DEF Good
      <3> QED
        BY <1>4, <1>5
    <2>2. PICK T : Begins(T, BatchSize)
      BY <1>1, <1>5, <1>7, <2>1
    <2> QED
      BY <1>5, <2>2 DEF IsBatch
  <1> QED
    BY <1>6, <1>7

\* The queries always have an answer and the key files that promotion renames are there, so
\* an attempt stops before its end only when it rejects a row or a line, or is
\* interrupted.
THEOREM AttemptsMayGoOn == Spec => []MayGoOn
  <1>1. ASSUME FileInv
        PROVE  MayGoOn
    <2>1. ASSUME Unrotated # {}
          PROVE  \E batch \in (SUBSET Unrotated) \ {{}} :
                   IsBatch(batch, Unrotated) /\ \E last \in batch : IsLast(last, batch)
      <3>1. Unrotated \in SUBSET Rows
        BY DEF Unrotated, EncryptedRows
      <3>2. PICK batch \in SUBSET Unrotated : IsBatch(batch, Unrotated)
        BY <3>1, BatchExists
      <3>3. batch # {}
        BY <2>1, <3>2, EmptyBatch
      <3>4. \E last \in batch : \A r \in batch \ {last} : SortBefore(r, last)
        BY <3>1, <3>2, <3>3, RowsHaveEnds
      <3> QED
        BY <3>2, <3>3, <3>4 DEF IsLast
    <2>2. \E batch \in SUBSET PlaintextRows : IsBatch(batch, PlaintextRows)
      BY BatchExists DEF PlaintextRows
    <2>3. proc = "backup" => file[Final(enc.src)] # NoFile
      BY <1>1, KeyFields DEF FileInv, EncOnDisk
    <2>4. proc = "rename" => file[Staging(newEnc.src)] # NoFile
      BY <1>1, KeyFields DEF FileInv, NewEncStaged
    <2> QED
      BY <2>1, <2>2, <2>3, <2>4 DEF MayGoOn
  <1> QED
    BY <1>1, KeyFilesInvariant, PTL
=============================================================================
