--------------------------- MODULE KeyValueStore ---------------------------
(***************************************************************************)
(* openautosar::runtime::persistency::KeyValueStore on its filesystem       *)
(* backend: the entries in memory, one file per key in the store's          *)
(* directory, and a backup directory.  A file appears by an atomic rename,  *)
(* but operations that write several files do it one by one: a write may    *)
(* fail, the process may crash and be opened again, and a file may be       *)
(* damaged at rest, so that it cannot be read or so that its key is no key  *)
(* of the store.  (Damage that turns a key into another key of the store or *)
(* changes a schema number goes unnoticed, since the checksum covers the    *)
(* value only; it is left out.)  Keys have one file name each; a value is   *)
(* its size in bytes.  Refused calls, reads and exports change nothing.     *)
(***************************************************************************)
EXTENDS Integers, FiniteSets, FiniteSetsExt

CONSTANTS
  Keys,
  Values,      \* sizes of the values in use
  Quota,       \* config_.quota_bytes
  Configured,  \* the schema version the deployment configures
  MaxSchema,   \* bound on migrations
  Faulty,      \* whether writes fail, calls are cut short, files are damaged
  Corrupted,   \* the content of a file that cannot be read
  Denied,      \* the content of one that can, but whose key ValidateKey refuses
  Nothing

Damaged == {Corrupted, Denied}

Entry == [schema : 1 .. MaxSchema, value : Values]

ASSUME StoreAssumption ==
  /\ IsFiniteSet(Keys) /\ Values \subseteq Nat \ {0} /\ Quota \in Nat \ {0}
  /\ Configured \in Nat \ {0} /\ MaxSchema \in Nat /\ Configured <= MaxSchema
  /\ Faulty \in BOOLEAN
  /\ Nothing # Corrupted /\ Nothing # Denied /\ Corrupted # Denied
  /\ {Nothing, Corrupted, Denied} \cap (Values \cup Entry) = {}

VARIABLES
  isOpen,
  schema,      \* config_.schema_version
  entries,     \* entries_: key -> entry or Nothing
  health,      \* health_
  recovered,   \* recovered_entries_
  writing,     \* what the call under way still writes, or Nothing
  files,       \* key -> entry in its file, Corrupted, Denied, or Nothing
  backup,      \* the same for the backup directory; Nothing if there is none
  acked,       \* observer: key -> the value last acknowledged or read
  unsure,      \* observer: keys a failed or unfinished call may have changed
  quarantined,     \* observer: keys an open that failed quarantined, since one succeeded
  shut         \* observer: Shutdown was called

storeVars == <<isOpen, schema, entries, health, recovered>>
observers == <<acked, unsure, quarantined, shut>>
kvsVars == <<storeVars, writing, files, backup, observers>>

Empty == [k \in Keys |-> Nothing]
Held(table) == {k \in Keys : table[k] \notin {Nothing} \cup Damaged}
ValueOf(entry) == IF entry \in {Nothing} \cup Damaged THEN Nothing ELSE entry.value
Bytes(table) == MapThenSumSet(LAMBDA k : table[k].value, Held(table))

StoreInit ==
  /\ isOpen = FALSE /\ schema = Configured /\ entries = Empty
  /\ health = "Healthy" /\ recovered = 0
  /\ writing = Nothing /\ files = Empty /\ backup = Nothing
  /\ acked = Empty /\ unsure = {} /\ quarantined = {} /\ shut = FALSE

Idle == isOpen /\ writing = Nothing

-----------------------------------------------------------------------------
(* One entry.                                                               *)

EnsureQuota(k, v) == Bytes([entries EXCEPT ![k] = Nothing]) + v <= Quota

\* Mutated: memory takes the value before the file is written.
PutFailsLate(k, v) ==
  /\ entries' = [entries EXCEPT ![k] = [schema |-> schema, value |-> v]]
  /\ UNCHANGED <<isOpen, schema, health, recovered, writing, files, backup, observers>>

(* WriteEntryFile failed: the file keeps its content, and so does memory.   *)
PutFails(k, v) == UNCHANGED kvsVars

Put(k, v) ==
  LET entry == [schema |-> schema, value |-> v]
  IN  /\ Idle /\ EnsureQuota(k, v)
      /\ \/ Faulty /\ PutFails(k, v)
         \/ /\ files' = [files EXCEPT ![k] = entry]
            /\ entries' = [entries EXCEPT ![k] = entry]
            /\ acked' = [acked EXCEPT ![k] = v]
            /\ unsure' = unsure \ {k}
            /\ UNCHANGED <<isOpen, schema, health, recovered, writing, backup, quarantined, shut>>

(* The entry leaves memory first; its file may stay.                        *)
RemoveKey(k) ==
  /\ Idle /\ entries[k] # Nothing
  /\ entries' = [entries EXCEPT ![k] = Nothing]
  /\ \/ /\ files' = [files EXCEPT ![k] = Nothing]
        /\ acked' = [acked EXCEPT ![k] = Nothing]
        /\ unsure' = unsure \ {k}
     \/ Faulty /\ unsure' = unsure \cup {k} /\ UNCHANGED <<files, acked>>
  /\ UNCHANGED <<isOpen, schema, health, recovered, writing, backup, quarantined, shut>>

-----------------------------------------------------------------------------
(* Calls that write several files.  "then" is what the call does after the  *)
(* last one.                                                                *)

Writes(target, table, then) ==
  writing' = [target |-> target, todo |-> Held(table), then |-> then]

Flush ==
  /\ Idle
  /\ Writes("store", entries, "Return")
  /\ UNCHANGED <<storeVars, files, backup, observers>>

MigrateSchema(version) ==
  /\ Idle /\ version > schema
  /\ schema' = version
  /\ entries' = [k \in Keys |-> IF entries[k] = Nothing THEN Nothing
                                ELSE [entries[k] EXCEPT !.schema = version]]
  /\ Writes("store", entries, "Return")
  /\ UNCHANGED <<isOpen, health, recovered, files, backup, observers>>

(* What was in the backup directory is removed first.                       *)
BackupTo ==
  /\ Idle
  /\ backup' = Empty
  /\ Writes("backup", entries, "Return")
  /\ UNCHANGED <<storeVars, files, observers>>

(* Files of keys that are not in the backup stay in the store's directory.  *)
RestoreFrom ==
  /\ Idle /\ backup # Nothing /\ Bytes(backup) <= Quota
  /\ entries' = backup
  /\ \E newest \in {schema} \cup {backup[k].schema : k \in Held(backup)} :
       /\ schema <= newest /\ \A k \in Held(backup) : backup[k].schema <= newest
       /\ schema' = newest
  /\ Writes("store", backup, "Restored")
  /\ acked' = [k \in Keys |-> ValueOf(backup[k])]
  /\ unsure' = unsure \cup {k \in Keys : ValueOf(backup[k]) # acked[k]}
  /\ UNCHANGED <<isOpen, health, recovered, files, backup, quarantined, shut>>

Shutdown ==
  /\ Idle
  /\ Writes("store", entries, "Clear")
  /\ UNCHANGED <<storeVars, files, backup, observers>>

(* One file of the call under way, in the order of the hash table.          *)
WriteNext(k) ==
  /\ isOpen /\ writing # Nothing /\ k \in writing.todo
  /\ \/ /\ writing.target = "store"
        /\ files' = [files EXCEPT ![k] = entries[k]]
        /\ UNCHANGED backup
     \/ /\ writing.target = "backup"
        /\ backup' = [backup EXCEPT ![k] = entries[k]]
        /\ UNCHANGED files
  /\ writing' = [writing EXCEPT !.todo = @ \ {k}]
  /\ UNCHANGED <<storeVars, observers>>

(* A write fails: the call returns its error and leaves the rest undone.    *)
WriteFails ==
  /\ Faulty /\ isOpen /\ writing # Nothing /\ writing.todo # {}
  /\ writing' = Nothing
  /\ UNCHANGED <<storeVars, files, backup, observers>>

Completed ==
  /\ isOpen /\ writing # Nothing /\ writing.todo = {}
  /\ writing' = Nothing
  /\ entries' = IF writing.then = "Clear" THEN Empty ELSE entries
  /\ shut' = (shut \/ writing.then = "Clear")
  /\ unsure' = IF writing.then = "Restored" THEN unsure \ Held(entries) ELSE unsure
  /\ UNCHANGED <<isOpen, schema, health, recovered, files, backup, acked, quarantined>>

-----------------------------------------------------------------------------
(* The process and its storage.                                             *)

(* ReadEntryFile of every file in the store's directory.                    *)
CorruptFiles == {k \in Keys : files[k] = Corrupted}
Loaded == [k \in Keys |-> IF files[k] = Corrupted THEN Nothing ELSE files[k]]

\* Mutated: a corrupt file is passed over.
QuarantineSilently ==
  /\ recovered' = 0
  /\ health' = "Healthy"

(* A file that cannot be read is renamed away and counted.                  *)
Quarantine ==
  /\ recovered' = Cardinality(CorruptFiles)
  /\ health' = IF CorruptFiles = {} THEN "Healthy" ELSE "Recovered"

OpenFilesystem ==
  /\ ~isOpen /\ Bytes(files) <= Quota /\ \A k \in Keys : files[k] # Denied
  /\ isOpen' = TRUE /\ schema' = Configured
  /\ entries' = Loaded /\ files' = Loaded
  /\ Quarantine
  /\ acked' = [k \in Keys |-> ValueOf(files[k])]
  /\ unsure' = {} /\ quarantined' = {} /\ shut' = FALSE
  /\ UNCHANGED <<writing, backup>>

(* The store does not open: too much is stored, a key is refused, a file    *)
(* cannot be renamed away, or the process crashes.  The corrupt files met   *)
(* before that are renamed away, and their count is lost with the store.    *)
OpenFails ==
  /\ ~isOpen
  /\ Faulty \/ Bytes(files) > Quota \/ \E k \in Keys : files[k] = Denied
  /\ \E met \in SUBSET CorruptFiles :
       /\ files' = [k \in Keys |-> IF k \in met THEN Nothing ELSE files[k]]
       /\ quarantined' = quarantined \cup met
  /\ UNCHANGED <<storeVars, writing, backup, acked, unsure, shut>>

Gone == isOpen' = FALSE /\ entries' = Empty /\ writing' = Nothing /\ UNCHANGED <<schema, health, recovered>>

(* The process ends, or crashes at any point of a call.                     *)
Crash ==
  /\ isOpen /\ (Faulty \/ writing = Nothing)
  /\ Gone
  /\ UNCHANGED <<files, backup, observers>>

(* It crashes after the rename of one entry's file, or after its removal.   *)
CrashInPut(k, v) ==
  /\ Faulty /\ Idle /\ EnsureQuota(k, v)
  /\ files' = [files EXCEPT ![k] = [schema |-> schema, value |-> v]]
  /\ Gone
  /\ unsure' = unsure \cup {k}
  /\ UNCHANGED <<backup, acked, quarantined, shut>>

CrashInRemove(k) ==
  /\ Faulty /\ Idle /\ entries[k] # Nothing
  /\ files' = [files EXCEPT ![k] = Nothing]
  /\ Gone
  /\ unsure' = unsure \cup {k}
  /\ UNCHANGED <<backup, acked, quarantined, shut>>

Corrupt(k) ==
  /\ Faulty /\ files[k] \notin {Nothing, Corrupted}
  /\ \E damage \in Damaged : files' = [files EXCEPT ![k] = damage]
  /\ UNCHANGED <<storeVars, writing, backup, observers>>

CallNext ==
  \/ \E k \in Keys, v \in Values : Put(k, v)
  \/ \E k \in Keys : RemoveKey(k)
  \/ Flush \/ BackupTo \/ RestoreFrom \/ Shutdown
  \/ \E version \in 1 .. MaxSchema : MigrateSchema(version)
  \/ \E k \in Keys : WriteNext(k)
  \/ WriteFails \/ Completed

ProcessNext ==
  \/ OpenFilesystem \/ OpenFails \/ Crash
  \/ \E k \in Keys, v \in Values : CrashInPut(k, v)
  \/ \E k \in Keys : CrashInRemove(k) \/ Corrupt(k)

StoreNext == CallNext \/ ProcessNext

StoreSpec == StoreInit /\ [][StoreNext]_kvsVars

-----------------------------------------------------------------------------
(* Properties.                                                              *)

StoreTypeOK ==
  /\ isOpen \in BOOLEAN /\ shut \in BOOLEAN
  /\ schema \in 1 .. MaxSchema
  /\ entries \in [Keys -> Entry \cup {Nothing}] /\ Bytes(entries) <= Quota
  /\ health \in {"Healthy", "Recovered"} /\ recovered \in 0 .. Cardinality(Keys)
  /\ files \in [Keys -> Entry \cup {Nothing} \cup Damaged]
  /\ backup = Nothing \/ backup \in [Keys -> Entry \cup {Nothing}]
  /\ writing # Nothing =>
       /\ writing.todo \subseteq Held(entries)
       /\ writing.target \in {"store", "backup"}
       /\ writing.then \in {"Return", "Restored", "Clear"}
  /\ acked \in [Keys -> Values \cup {Nothing}]
  /\ unsure \subseteq Keys /\ quarantined \subseteq Keys

(* What a call acknowledged or the store loaded is on disk unless it was    *)
(* damaged there, and in memory while the store is in use: migrations,      *)
(* backups and flushes that fail or are cut short by a crash at any file    *)
(* lose none of it, and only keys whose own call failed or was cut short,   *)
(* or that a restore left out, are in doubt.                                *)
AcknowledgedIsKept ==
  \A k \in Keys \ (unsure \cup quarantined) :
    /\ files[k] \notin Damaged => ValueOf(files[k]) = acked[k]
    /\ isOpen /\ ~shut => ValueOf(entries[k]) = acked[k]

(* The values that damage to the files took since the store opened last.    *)
Lost ==
  {k \in Keys \ unsure : acked[k] # Nothing /\ entries'[k] = Nothing}
    \cup {k \in unsure : files[k] = Corrupted \/ k \in quarantined}

(* Each of them was quarantined by exactly one open: what the open that     *)
(* succeeds reports and what those before it quarantined and did not live   *)
(* to report are together exactly what damage took, and nothing is reported *)
(* lost that is still there.                                                *)
LossIsAccounted ==
  [][OpenFilesystem => recovered' + Cardinality(quarantined) = Cardinality(Lost)]_kvsVars

(* "recovered entry count": a store that opens reports exactly what damage  *)
(* took.                                                                    *)
LossIsReported ==
  [][OpenFilesystem => recovered' = Cardinality(Lost)]_kvsVars

(* A store that was written by its own calls, none of them after its        *)
(* shutdown, can be opened again.                                           *)
StoreReopens == ~isOpen /\ ~shut => Bytes(files) <= Quota
=============================================================================
