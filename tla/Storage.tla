------------------------------- MODULE Storage -------------------------------
(***************************************************************************)
(* The storage adapters: a provider (LocalProvider, GCSProvider) keeps one *)
(* adapter per name behind a mutex; an adapter stores objects by path.     *)
(* One name is modelled; an adapter is a number, never opened twice.       *)
(***************************************************************************)
EXTENDS Integers, FiniteSets

CONSTANTS
  Kinds,        \* the kinds of storage tried: "local", "gcs"
  StorageType,  \* adapter.storage.<name>.type of each kind's configuration
  BucketName    \* "" when the configuration names no bucket

VARIABLES
  kind,         \* the provider that serves the name
  smu,          \* holder of the provider's mutex, or "free"
  adapter,      \* connections[name], 0 when absent
  adapters,     \* adapters made so far
  shut,         \* adapters closed
  objects       \* path -> the rows of the file

storageVars == <<kind, smu, adapter, adapters, shut, objects>>
providerVars == <<smu, adapter, adapters, shut>>

StorageInit(old) ==
  /\ kind \in Kinds /\ smu = "free"
  /\ adapter = 0 /\ adapters = 0 /\ shut = {} /\ objects = old

\* ResolveStorageConnection finds the provider by the configured type, and the
\* provider refuses a type that is not its own.
LocalResolves == kind = "local" /\ StorageType[kind] = "local"
GcsResolves == kind = "gcs" /\ StorageType[kind] = "gcs"
Resolves == LocalResolves \/ GcsResolves

\* An adapter of the local file system has nothing to close; a closed GCS
\* client refuses every call.
Alive(a) == a > 0 /\ (kind = "local" \/ a \notin shut)

-----------------------------------------------------------------------------
\* GetConnection: under the read lock, then under the write lock with a second
\* look, which is one step because creating an adapter waits for nobody.
LocalGetConnection ==
  /\ kind = "local" /\ smu = "free"
  /\ adapters' = IF adapter = 0 THEN adapters + 1 ELSE adapters
  /\ adapter' = IF adapter = 0 THEN adapters + 1 ELSE adapter
  /\ UNCHANGED <<kind, smu, shut, objects>>
GcsGetConnection ==
  /\ kind = "gcs" /\ smu = "free"
  /\ adapters' = IF adapter = 0 THEN adapters + 1 ELSE adapters
  /\ adapter' = IF adapter = 0 THEN adapters + 1 ELSE adapter
  /\ UNCHANGED <<kind, smu, shut, objects>>
GetConnection == LocalGetConnection \/ GcsGetConnection

\* CloseAll closes and forgets.
LocalCloseAll ==
  /\ kind = "local" /\ smu = "free" /\ adapter > 0
  /\ shut' = shut \cup {adapter} /\ adapter' = 0
  /\ UNCHANGED <<kind, smu, adapters, objects>>
GcsCloseAll ==
  /\ kind = "gcs" /\ smu = "free" /\ adapter > 0
  /\ shut' = shut \cup {adapter} /\ adapter' = 0
  /\ UNCHANGED <<kind, smu, adapters, objects>>

\* ForceReconnect closes the adapter with the write lock held and calls
\* GetConnection, which waits for the read lock: the mutex is never free again.
LocalForceReconnect(c) ==
  /\ kind = "local" /\ smu = "free" /\ smu' = c
  /\ shut' = shut \cup ({adapter} \ {0}) /\ adapter' = 0
  /\ UNCHANGED <<kind, adapters, objects>>
GcsForceReconnect(c) ==
  /\ kind = "gcs" /\ smu = "free" /\ smu' = c
  /\ shut' = shut \cup ({adapter} \ {0}) /\ adapter' = 0
  /\ UNCHANGED <<kind, adapters, objects>>

-----------------------------------------------------------------------------
Stored(path, rows) ==
  [p \in DOMAIN objects \cup {path} |-> IF p = path THEN rows ELSE objects[p]]

\* Upload to a file: created (what was there is gone), then copied; a failure
\* while copying leaves the part already written, one before it leaves nothing.
LocalUpload(path, rows, ok) ==
  /\ kind = "local"
  /\ \/ ok /\ objects' = Stored(path, rows)
     \/ ~ok /\ UNCHANGED objects
     \/ ~ok /\ \E part \in SUBSET rows : part # rows /\ objects' = Stored(path, part)

\* Upload of an object: it appears when its writer is closed, or not at all.
\* It needs a bucket, a live client and a context that has not ended.
GcsUpload(path, rows, ok, ctxDone) ==
  /\ kind = "gcs"
  /\ ok => BucketName # "" /\ ~ctxDone
  /\ objects' = IF ok THEN Stored(path, rows) ELSE objects

\* Upload through adapter a, which may fail of itself if mayFail.
UploadFails(a, ctxDone, mayFail) ==
  \/ mayFail
  \/ kind = "gcs" /\ (BucketName = "" \/ ~Alive(a) \/ ctxDone)
Upload(path, rows, ok, ctxDone) ==
  LocalUpload(path, rows, ok) \/ GcsUpload(path, rows, ok, ctxDone)

\* The queries of an adapter; a prefix is the directory of a partition.
Exists(path) == path \in DOMAIN objects
ListObjects(parts) == {p \in DOMAIN objects : p.part \in parts}
Download(path) == objects[path]

\* Deleting what is not there is an error for GCS and none for a file; nothing
\* changes either way.
DeleteObject(path) ==
  /\ Exists(path)
  /\ objects' = [p \in DOMAIN objects \ {path} |-> objects[p]]
  /\ UNCHANGED <<kind, providerVars>>
=============================================================================
