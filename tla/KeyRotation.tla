----------------------------- MODULE KeyRotation -----------------------------
(***************************************************************************)
(* Encryption at rest and the `rotate-key` command.                        *)
(*                                                                         *)
(* One process at a time uses the data directory: the application, which   *)
(* resolves its key from the key files, encrypts legacy plaintext rows and *)
(* appends messages and audit lines, or `rotate-key`, which resolves the   *)
(* old key, stages a new one, re-encrypts the database batch by batch and  *)
(* the audit log in one rename, and then promotes the staged key file.     *)
(* Either may die, or be interrupted, between any two durable steps.       *)
(*                                                                         *)
(* Ciphertext is abstracted to the key that made it; a key is the source   *)
(* it comes from, the material on disk (an auto-key or an Argon2 salt) and *)
(* the passphrase. content and tool_calls of a row are always written by   *)
(* one UPDATE, so a row is one value. A file write or rename is atomic.    *)
(*                                                                         *)
(* The program binds time.Now() to created_at (persistence.go:54), which   *)
(* the driver stores as t.String(): the text sorts by time, but SQLite's   *)
(* datetime() does not read it and yields NULL. Readable has the rows with *)
(* a created_at of another form, none that the program writes.             *)
(***************************************************************************)
EXTENDS Integers, FiniteSets

CONSTANTS
    Rows,            \* messages of the database; a number is the rank of the row's id
    CreatedAt,       \* CreatedAt[r]: the tick at which row r was created
    TicksPerSecond,  \* resolution of created_at against SQLite's datetime()
    Readable,        \* the rows whose created_at datetime() reads
    BatchSize,       \* rotationBatchSize and the migration's batchSize
    Lines,           \* slots for audit lines
    Passphrases,     \* passphrases the operator may export or pass as --new-passphrase
    NoPassphrase,    \* the variable is not set, or the flag is not given
    MaxMaterial,     \* bound: key files and salts generated in a behaviour
    Absent,          \* the row or audit line has not been written yet
    Plain,           \* it is stored in plaintext
    NoKey            \* no encryptor is held

Sources  == {"auto-key", "passphrase"}
Material == 1..MaxMaterial
NoFile   == 0
Files    == {"key", "key.new", "key.bak", "salt", "salt.new", "salt.bak"}

\* An Encryptor.
Key == [src : Sources, mat : Material, pass : Passphrases \cup {NoPassphrase}]

ASSUME RowsAssumption ==
    /\ Rows \subseteq Nat /\ IsFiniteSet(Rows)
    /\ CreatedAt \in [Rows -> Nat]
    /\ TicksPerSecond \in Nat \ {0}
    /\ Readable \subseteq Rows
    /\ BatchSize \in Nat \ {0}
    /\ MaxMaterial \in Nat
ASSUME SentinelAssumption ==
    /\ Absent \notin Key /\ Plain \notin Key /\ NoKey \notin Key
    /\ Absent # Plain
    /\ NoPassphrase \notin Passphrases

VARIABLES
    rows,     \* rows[r]: Absent, Plain, or the key r is encrypted under
    audit,    \* audit[l]: the same for a line of the audit log
    file,     \* file[f]: the material in a key file, or NoFile
    fresh,    \* materials generated so far
    env,      \* the passphrase variable of the next process
    proc,     \* what runs, and how far it is
    enc,      \* the process's current encryptor (the old one for rotate-key)
    newEnc,   \* rotate-key's new encryptor
    cursor,   \* rotateEncryptedRows: the last row of the last batch, or -1
    outcome   \* how the last rotate-key ended

vars == <<rows, audit, file, fresh, env, proc, enc, newEnc, cursor, outcome>>
data == <<rows, audit>>
disk == <<file, fresh>>

NoRow      == -1
Rotating   == {"encrypted", "plaintext", "audit", "backup", "rename", "remove", "cleanup"}
RotateCmd  == {"resolved", "staged"} \cup Rotating
App        == {"migrating", "running"}
-----------------------------------------------------------------------------
(***************************************************************************)
(* Key files.                                                              *)
(***************************************************************************)
Final(src)   == IF src = "auto-key" THEN "key" ELSE "salt"
Staging(src) == IF src = "auto-key" THEN "key.new" ELSE "salt.new"
Backup(src)  == IF src = "auto-key" THEN "key.bak" ELSE "salt.bak"

EnvSource == IF env = NoPassphrase THEN "auto-key" ELSE "passphrase"

KeyOf(src, mat, pass) == [src |-> src, mat |-> mat, pass |-> pass]

\* GenerateKey or GenerateSalt, written to f.
Generate(f) ==
    /\ fresh < MaxMaterial
    /\ fresh' = fresh + 1
    /\ file' = [file EXCEPT ![f] = fresh + 1]

\* ResolveEncryptor with LoadOrCreateKey or LoadOrCreateSalt: the variable selects
\* the source, and a file that is not there is created, whatever the data is under.
ResolveEncryptor ==
    LET f == Final(EnvSource) IN
    \/ /\ file[f] # NoFile
       /\ enc' = KeyOf(EnvSource, file[f], env)
       /\ UNCHANGED disk
    \/ /\ file[f] = NoFile
       /\ Generate(f)
       /\ enc' = KeyOf(EnvSource, fresh + 1, env)
-----------------------------------------------------------------------------
(***************************************************************************)
(* Rows, in the order the queries use.                                     *)
(***************************************************************************)
\* ORDER BY created_at ASC, id ASC
SortBefore(r, s) ==
    \/ CreatedAt[r] < CreatedAt[s]
    \/ CreatedAt[r] = CreatedAt[s] /\ r < s

\* SQLite's datetime() drops the fraction of the second.
Second(r) == CreatedAt[r] \div TicksPerSecond

\* datetime(created_at) > datetime(?) OR (datetime(created_at) = datetime(?) AND id > ?).
\* The driver hands the cursor's created_at back in a form datetime() reads; the row's
\* own is compared as it is stored, and a comparison with NULL is not true.
AfterCursor(c, r) ==
    \/ c = NoRow
    \/ /\ r \in Readable
       /\ Second(r) > Second(c) \/ (Second(r) = Second(c) /\ r > c)

\* batch is what the query with LIMIT BatchSize returns of the rows in cand.
IsBatch(batch, cand) ==
    /\ Cardinality(batch) <= BatchSize
    /\ Cardinality(batch) = BatchSize \/ batch = cand
    /\ \A b \in batch, c \in cand \ batch : SortBefore(b, c)

IsLast(last, batch) ==
    /\ last \in batch
    /\ \A b \in batch \ {last} : SortBefore(b, last)

EncryptedRows == {r \in Rows : rows[r] \in Key}
PlaintextRows == {r \in Rows : rows[r] = Plain}
-----------------------------------------------------------------------------
(***************************************************************************)
(* The application.                                                        *)
(***************************************************************************)
\* The audit log is opened and InitStorage runs with the encryptor just resolved.
StartApp ==
    /\ proc = "idle"
    /\ ResolveEncryptor
    /\ proc' = "migrating"
    /\ UNCHANGED <<data, env, newEnc, cursor, outcome>>

\* MigrateToEncrypted: one transaction per batch of plaintext rows.
MigrateToEncrypted ==
    /\ proc = "migrating"
    /\ \E batch \in SUBSET PlaintextRows :
         /\ IsBatch(batch, PlaintextRows)
         /\ rows' = [r \in Rows |-> IF r \in batch THEN enc ELSE rows[r]]
         /\ proc' = IF batch = {} THEN "running" ELSE "migrating"
    /\ UNCHANGED <<audit, disk, env, enc, newEnc, cursor, outcome>>

\* AddMessage or EnsureConversationAndAddMessage: the clock moves forward.
AddMessage(r) ==
    /\ proc = "running"
    /\ rows[r] = Absent
    /\ \A s \in Rows : rows[s] # Absent => CreatedAt[s] <= CreatedAt[r]
    /\ rows' = [rows EXCEPT ![r] = enc]
    /\ UNCHANGED <<audit, disk, env, proc, enc, newEnc, cursor, outcome>>

\* Logger.Log: the line is encrypted when logging.audit.encrypt is set.
Log(l) ==
    /\ proc \in App
    /\ audit[l] = Absent
    /\ \E form \in {enc, Plain} : audit' = [audit EXCEPT ![l] = form]
    /\ UNCHANGED <<rows, disk, env, proc, enc, newEnc, cursor, outcome>>
-----------------------------------------------------------------------------
(***************************************************************************)
(* rotate-key: the keys.                                                   *)
(***************************************************************************)
Exit(result) ==
    /\ proc' = "idle"
    /\ enc' = NoKey
    /\ newEnc' = NoKey
    /\ cursor' = NoRow
    /\ outcome' = result

StartRotate ==
    /\ proc = "idle"
    /\ ResolveEncryptor
    /\ proc' = "resolved"
    /\ outcome' = "none"
    /\ UNCHANGED <<data, env, newEnc, cursor>>

FlagSource(flag) == IF flag = NoPassphrase THEN "auto-key" ELSE "passphrase"

\* A mutated form: the staging file is not written.
StageInMemory(flag) ==
    /\ fresh < MaxMaterial
    /\ fresh' = fresh + 1
    /\ newEnc' = KeyOf(FlagSource(flag), fresh + 1, flag)
    /\ UNCHANGED file

\* A mutated form: the staging file that is not there is read.
StageMissing(flag) ==
    /\ newEnc' = KeyOf(FlagSource(flag), file[Staging(FlagSource(flag))], flag)
    /\ UNCHANGED disk

\* No staging file: generate the material and stage it before anything uses it.
StageFresh(flag) ==
    /\ Generate(Staging(FlagSource(flag)))
    /\ newEnc' = KeyOf(FlagSource(flag), fresh + 1, flag)

\* ResolveNewEncryptor: a staging file of an earlier attempt is reused, a staged
\* key even when --new-passphrase is given.
ResolveNewEncryptor(flag) ==
    /\ proc = "resolved"
    /\ \/ /\ file["key.new"] # NoFile
          /\ file["salt.new"] = NoFile
          /\ newEnc' = KeyOf("auto-key", file["key.new"], NoPassphrase)
          /\ UNCHANGED disk
       \/ /\ file["key.new"] = NoFile
          /\ file["salt.new"] # NoFile
          /\ flag # NoPassphrase
          /\ newEnc' = KeyOf("passphrase", file["salt.new"], flag)
          /\ UNCHANGED disk
       \/ /\ file["key.new"] = NoFile
          /\ file["salt.new"] = NoFile
          /\ StageFresh(flag)
    /\ proc' = "staged"
    /\ UNCHANGED <<data, env, enc, cursor, outcome>>

\* Both staging files, or a staged salt without --new-passphrase.
RefuseStaging(flag) ==
    /\ proc = "resolved"
    /\ file["salt.new"] # NoFile
    /\ file["key.new"] # NoFile \/ flag = NoPassphrase
    /\ Exit("refused")
    /\ UNCHANGED <<data, disk, env>>

\* --dry-run, which stages nothing, or an answer other than y.
Decline ==
    /\ proc \in {"resolved", "staged"}
    /\ Exit("declined")
    /\ UNCHANGED <<data, disk, env>>

\* The answer is y; RotateKeys first compares the two keys.
Confirm ==
    /\ proc = "staged"
    /\ enc # newEnc
    /\ proc' = "encrypted"
    /\ cursor' = NoRow
    /\ UNCHANGED <<data, disk, env, enc, newEnc, outcome>>
-----------------------------------------------------------------------------
(***************************************************************************)
(* rotate-key: the data.                                                   *)
(***************************************************************************)
Unrotated == {r \in EncryptedRows : AfterCursor(cursor, r)}

\* tryBothKeys
Decrypts(k) == k \in {enc, newEnc}

\* A mutated form: the cursor is not advanced.
RereadEncryptedBatch(batch) ==
    /\ \A b \in batch : Decrypts(rows[b])
    /\ rows' = [r \in Rows |-> IF r \in batch THEN newEnc ELSE rows[r]]
    /\ UNCHANGED cursor

\* One transaction of rotateEncryptedRows, and the cursor moves to its last row.
RotateEncryptedBatch(batch) ==
    /\ \A b \in batch : Decrypts(rows[b])
    /\ rows' = [r \in Rows |-> IF r \in batch THEN newEnc ELSE rows[r]]
    /\ \E last \in batch : IsLast(last, batch) /\ cursor' = last

RotateEncryptedRows ==
    /\ proc = "encrypted"
    /\ \E batch \in (SUBSET Unrotated) \ {{}} :
         IsBatch(batch, Unrotated) /\ RotateEncryptedBatch(batch)
    /\ UNCHANGED <<audit, disk, env, proc, enc, newEnc, outcome>>

EncryptedRowsDone ==
    /\ proc = "encrypted"
    /\ Unrotated = {}
    /\ proc' = "plaintext"
    /\ UNCHANGED <<data, disk, env, enc, newEnc, cursor, outcome>>

\* Neither key decrypts a row of the batch: its transaction is rolled back.
RejectRow ==
    /\ proc = "encrypted"
    /\ \E batch \in SUBSET Unrotated :
         IsBatch(batch, Unrotated) /\ \E b \in batch : ~ Decrypts(rows[b])
    /\ Exit("rejected")
    /\ UNCHANGED <<data, disk, env>>

\* A mutated form: the plaintext rows are encrypted under the old key.
EncryptUnderOldKey ==
    /\ proc = "plaintext"
    /\ \E batch \in SUBSET PlaintextRows :
         /\ IsBatch(batch, PlaintextRows)
         /\ rows' = [r \in Rows |-> IF r \in batch THEN enc ELSE rows[r]]
         /\ proc' = IF batch = {} THEN "audit" ELSE "plaintext"
    /\ UNCHANGED <<audit, disk, env, enc, newEnc, cursor, outcome>>

\* encryptPlaintextRows: no cursor, the rows encrypted so far no longer match.
EncryptPlaintextRows ==
    /\ proc = "plaintext"
    /\ \E batch \in SUBSET PlaintextRows :
         /\ IsBatch(batch, PlaintextRows)
         /\ rows' = [r \in Rows |-> IF r \in batch THEN newEnc ELSE rows[r]]
         /\ proc' = IF batch = {} THEN "audit" ELSE "plaintext"
    /\ UNCHANGED <<audit, disk, env, enc, newEnc, cursor, outcome>>

EncryptedLines == {l \in Lines : audit[l] \in Key}

\* rotateAuditLog: the temporary file replaces the log in one rename.
RotateAuditLog ==
    /\ proc = "audit"
    /\ \A l \in EncryptedLines : audit[l] = enc
    /\ audit' = [l \in Lines |-> IF l \in EncryptedLines THEN newEnc ELSE audit[l]]
    /\ proc' = "backup"
    /\ UNCHANGED <<rows, disk, env, enc, newEnc, cursor, outcome>>

\* A line the old key does not decrypt; the temporary file is removed.
RejectLine ==
    /\ proc = "audit"
    /\ \E l \in EncryptedLines : audit[l] # enc
    /\ Exit("rejected")
    /\ UNCHANGED <<data, disk, env>>
-----------------------------------------------------------------------------
(***************************************************************************)
(* rotate-key: PromoteKeyFiles and CleanupStagingFiles.                    *)
(***************************************************************************)
\* A mutated form: backupFile takes a path without a file for nothing to back up.
SkipBackup ==
    /\ proc = "backup"
    /\ proc' = "rename"
    /\ UNCHANGED <<data, disk, env, enc, newEnc, cursor, outcome>>

BackupOldFile ==
    /\ proc = "backup"
    /\ file[Final(enc.src)] # NoFile
    /\ file' = [file EXCEPT ![Backup(enc.src)] = file[Final(enc.src)]]
    /\ proc' = "rename"
    /\ UNCHANGED <<data, fresh, env, enc, newEnc, cursor, outcome>>

RenameStagingFile ==
    /\ proc = "rename"
    /\ file[Staging(newEnc.src)] # NoFile
    /\ file' = [file EXCEPT ![Final(newEnc.src)] = file[Staging(newEnc.src)],
                            ![Staging(newEnc.src)] = NoFile]
    /\ proc' = IF newEnc.src = enc.src THEN "cleanup" ELSE "remove"
    /\ UNCHANGED <<data, fresh, env, enc, newEnc, cursor, outcome>>

\* A mutated form: os.Remove of the old file is forgotten.
KeepOldFile ==
    /\ proc = "remove"
    /\ proc' = "cleanup"
    /\ UNCHANGED <<data, disk, env, enc, newEnc, cursor, outcome>>

\* Only when the key moves between auto-key and passphrase.
RemoveOldFile ==
    /\ proc = "remove"
    /\ file' = [file EXCEPT ![Final(enc.src)] = NoFile]
    /\ proc' = "cleanup"
    /\ UNCHANGED <<data, fresh, env, enc, newEnc, cursor, outcome>>

CleanupStagingFiles ==
    /\ proc = "cleanup"
    /\ file' = [file EXCEPT !["key.new"] = NoFile, !["salt.new"] = NoFile]
    /\ Exit("completed")
    /\ UNCHANGED <<data, fresh, env>>
-----------------------------------------------------------------------------
(***************************************************************************)
(* The environment.                                                        *)
(***************************************************************************)
\* The process exits, is killed, is interrupted, or an I/O call fails.
Interrupt ==
    /\ proc # "idle"
    /\ Exit(IF proc \in RotateCmd THEN "interrupted" ELSE outcome)
    /\ UNCHANGED <<data, disk, env>>

SetPassphrase(p) ==
    /\ proc = "idle"
    /\ env' = p
    /\ UNCHANGED <<data, disk, proc, enc, newEnc, cursor, outcome>>

\* A database that may hold plaintext rows from before encryption was enabled, in
\* a data directory without key files.
Init ==
    /\ rows \in [Rows -> {Absent, Plain}]
    /\ \A r, s \in Rows : rows[r] = Plain /\ SortBefore(s, r) => rows[s] = Plain
    /\ audit = [l \in Lines |-> Absent]
    /\ file = [f \in Files |-> NoFile]
    /\ fresh = 0
    /\ env \in Passphrases \cup {NoPassphrase}
    /\ proc = "idle"
    /\ enc = NoKey
    /\ newEnc = NoKey
    /\ cursor = NoRow
    /\ outcome = "none"

\* The steps rotate-key takes by itself once it is confirmed.
RotateStep ==
    \/ RotateEncryptedRows \/ EncryptedRowsDone \/ RejectRow
    \/ EncryptPlaintextRows
    \/ RotateAuditLog \/ RejectLine
    \/ BackupOldFile \/ RenameStagingFile \/ RemoveOldFile \/ CleanupStagingFiles

Next ==
    \/ StartApp \/ MigrateToEncrypted
    \/ \E r \in Rows : AddMessage(r)
    \/ \E l \in Lines : Log(l)
    \/ StartRotate
    \/ \E flag \in Passphrases \cup {NoPassphrase} :
         ResolveNewEncryptor(flag) \/ RefuseStaging(flag)
    \/ Decline \/ Confirm
    \/ RotateStep
    \/ Interrupt
    \/ \E p \in Passphrases \cup {NoPassphrase} : SetPassphrase(p)

Spec == Init /\ [][Next]_vars

FairSpec == Spec /\ WF_vars(RotateStep) /\ WF_vars(MigrateToEncrypted)
-----------------------------------------------------------------------------
(***************************************************************************)
(* Properties.                                                             *)
(***************************************************************************)
Stored == {Absent, Plain} \cup Key

\* Every variable stays in its range.
TypeOK ==
    /\ rows \in [Rows -> Stored]
    /\ audit \in [Lines -> Stored]
    /\ file \in [Files -> Material \cup {NoFile}]
    /\ fresh \in 0..MaxMaterial
    /\ env \in Passphrases \cup {NoPassphrase}
    /\ proc \in {"idle"} \cup App \cup RotateCmd
    /\ enc \in Key \cup {NoKey}
    /\ newEnc \in Key \cup {NoKey}
    /\ cursor \in Rows \cup {NoRow}
    /\ outcome \in {"none", "refused", "declined", "rejected", "interrupted", "completed"}

\* The material of k is in one of the files of its source.
OnDisk(k) == k.mat \in {file[Final(k.src)], file[Staging(k.src)], file[Backup(k.src)]}

\* Wherever a process stops, the keys it held are in key files: between the backup, the
\* rename and the removal, with files of abandoned attempts about, neither the key that
\* rows were still under nor the one they were moved to is without a file.
HeldKeysStay == [][\A k \in {enc, newEnc} \ {NoKey} : OnDisk(k)']_vars

\* The first query, which has no cursor, returns every encrypted row there is.
OneBatch == Cardinality({r \in Rows : rows[r] # Absent}) <= BatchSize

\* Everything encrypted is under a key whose material is in some key file.
NothingLost ==
    /\ \A r \in EncryptedRows : OnDisk(rows[r])
    /\ \A l \in EncryptedLines : OnDisk(audit[l])

\* Whatever was encrypted, and wherever the application or rotate-key stopped, the
\* material of its key is still in some key file, as long as there have not been more rows
\* than a batch has: no sequence of starts, rotations, crashes and changes of passphrase
\* makes a message or an audit line unrecoverable ("re-encrypt with new key without data
\* loss"). With more rows it fails: the second rotation overwrites the backup of the key
\* that the first has left rows under.
NoKeyLoss == OneBatch => NothingLost

\* Once RotateKeys has returned without an error nothing is left in plaintext in the
\* database or under another key than the new one, so the old key may be retired
\* ("RotateKeys re-encrypts all data from OldEncryptor to NewEncryptor").
AllUnderNewKey ==
    proc \in {"backup", "rename", "remove", "cleanup"} =>
        /\ \A r \in Rows : rows[r] \in {Absent, newEnc}
        /\ \A l \in Lines : audit[l] \in {Absent, Plain, newEnc}

\* What is left of that sentence for the rows the program writes: it is true as long as
\* the database has no more rows than a batch, whatever the order of their times and ids
\* and also for rows of an attempt that stopped.
RotationReachesAll == OneBatch => AllUnderNewKey

\* When rotate-key reports completion the key files say so: the new material is the
\* current file of its source, a source that is no longer used has none (the next
\* process would take it for the key), the old material is the backup the message
\* names, and no staging file is left for the next rotation to reuse.
CompletionIsDurable ==
    [][outcome # "completed" /\ outcome' = "completed" =>
         /\ file'[Final(newEnc.src)] = newEnc.mat
         /\ newEnc.src # enc.src => file'[Final(enc.src)] = NoFile
         /\ file'[Backup(enc.src)] = enc.mat
         /\ \A src \in Sources : file'[Staging(src)] = NoFile]_vars

\* Every attempt ends, although the rows a batch has re-encrypted still match the query:
\* the cursor leaves them behind, and both plaintext loops run out of rows.
EveryPassEnds ==
    /\ proc \in Rotating ~> proc = "idle"
    /\ proc = "migrating" ~> proc # "migrating"
=============================================================================
