------------------------------ MODULE Encryption ------------------------------
(***************************************************************************)
(* Encryption at rest: the runtime that keeps the data key                 *)
(* (gated-core/src/encryption/runtime.rs, meta.rs, migration.rs), the HTTP *)
(* handlers that drive it (gated-admin/.../api/encryption.rs), opening and *)
(* closing the database (services.rs), the startup loop that waits for an  *)
(* unlock (gated/src/commands/run.rs) and the command that encrypts an     *)
(* existing database (encrypt_existing_db.rs).                             *)
(*                                                                         *)
(* The disk outlives the process; a process may die at any step.  A key is *)
(* a number, a password a model value: the wrapped key opens with the      *)
(* password it was wrapped with and no other.                              *)
(***************************************************************************)
EXTENDS Naturals, FiniteSets

CONSTANTS
    Requests,      \* concurrent HTTP requests, or the one command
    Passwords,
    MaxDeks,       \* data keys generated (bounds the runs)
    MaxFaults,     \* errors and dropped requests of one process (bounds the runs)
    None

Deks == 1 .. MaxDeks
Plain == 0
Databases == [key : {Plain} \cup Deks, data : {"old", "new"}]
Files == Databases \cup {None}
Metas == [dek : Deks, pw : Passwords]

ASSUME EncryptionAssumption ==
    /\ MaxDeks \in Nat /\ MaxFaults \in Nat
    /\ None \notin Passwords \cup Nat \cup Databases \cup Metas

Verbs == {"init", "migrate", "cli", "unlock", "lock", "rekey"}

VARIABLES
    main, bak, tmp,   \* db.sqlite3, db.sqlite3.plain.bak, db.sqlite3.enc.tmp
    meta,             \* meta.db: the wrapped key and the password it opens with
    stock,            \* whether there was a database before encryption
    auto,             \* whether the command is run with --auto-delete-plaintext
    status, key,      \* EncryptionRuntime
    db,               \* Services.db: the key the open database was opened with
    token,            \* the bootstrap token is there
    boot,             \* where the process is
    pc, req, dek,     \* the requests: position, request, the key it works with
    deks, faults

given == <<stock, auto>>
disk == <<main, bak, tmp, meta, given>>
runtime == <<status, key>>
tasks == <<pc, req, dek>>
vars == <<disk, runtime, db, token, boot, tasks, deks, faults>>

NoReq == [verb |-> "init", pw |-> None, new |-> None]

\* EncryptionRuntime::new
StatusOf(m) == IF m = None THEN "Uninitialized" ELSE "Locked"

Init ==
    /\ stock \in BOOLEAN /\ auto \in BOOLEAN
    /\ main = IF stock THEN [key |-> Plain, data |-> "old"] ELSE None
    /\ bak = None /\ tmp = None /\ meta = None
    /\ status = StatusOf(None) /\ key = None /\ db = None /\ token = TRUE
    /\ boot \in {"check", "cli"}
    /\ pc = [r \in Requests |-> "idle"]
    /\ req = [r \in Requests |-> NoReq]
    /\ dek = [r \in Requests |-> None]
    /\ deks = 0 /\ faults = 0

Goto(r, place) == pc' = [pc EXCEPT ![r] = place]
Fault == faults < MaxFaults /\ faults' = faults + 1

\* The operation_lock is held while a request is at one of these places, and
\* config, for reading, by a request that migrates the database.
OpPlaces == {"copy", "backup", "promote", "delete", "wrap", "setkey", "setstatus",
             "unlocked", "relock", "rewrap"}
OpFree == \A r \in Requests : pc[r] \notin OpPlaces
ConfigFree ==
    \A r \in Requests : pc[r] \in OpPlaces \cup {"op"} => req[r].verb # "migrate"

Minimal == boot \in {"check", "arm", "select"}
Quiet == \A r \in Requests : pc[r] = "idle"

-----------------------------------------------------------------------------
(* Initialization. *)

\* init, up to the runtime: the status, the kind of database and the bootstrap
\* token are checked.  An encrypted or invalid database is refused.
InitBegin(r, p) ==
    /\ pc[r] = "idle" /\ (Minimal \/ boot = "serving")
    /\ status = "Uninitialized" /\ token
    /\ \/ main = None /\ req' = [req EXCEPT ![r] = [verb |-> "init", pw |-> p, new |-> None]]
       \/ /\ main # None /\ main.key = Plain
          /\ req' = [req EXCEPT ![r] = [verb |-> "migrate", pw |-> p, new |-> None]]
    /\ Goto(r, "op")
    /\ UNCHANGED <<disk, runtime, db, token, boot, dek, deks, faults>>

\* encrypt-existing-db, which wants a plaintext database and no metadata.
CliBegin(r, p) ==
    /\ boot = "cli" /\ Quiet
    /\ IF main # None /\ main.key = Plain /\ status = "Uninitialized"
       THEN /\ req' = [req EXCEPT ![r] = [verb |-> "cli", pw |-> p, new |-> None]]
            /\ Goto(r, "op") /\ UNCHANGED boot
       ELSE boot' = "exited" /\ UNCHANGED <<req, pc>>
    /\ UNCHANGED <<disk, runtime, db, token, dek, deks, faults>>

\* A request ends with an error, and with it the command.
Ends(r) ==
    /\ Goto(r, "idle")
    /\ boot' = IF req[r].verb = "cli" THEN "exited" ELSE boot

Migrates(r) == req[r].verb \in {"migrate", "cli"}

\* Mutant: nothing is checked again under the lock.
InitLock_NoCheck(r) ==
    /\ pc[r] = "op" /\ OpFree /\ deks < MaxDeks
    /\ Goto(r, IF Migrates(r) /\ main # None THEN "copy" ELSE "wrap")
    /\ dek' = [dek EXCEPT ![r] = deks + 1] /\ deks' = deks + 1
    /\ UNCHANGED <<disk, runtime, db, token, boot, req, faults>>

\* The operation_lock is taken, and what was checked before is checked again:
\* no metadata; a migration also needs a plaintext database and no backup.
InitLock(r) ==
    /\ pc[r] = "op" /\ OpFree
    /\ LET may == /\ meta = None
                  /\ Migrates(r) => main # None /\ main.key = Plain /\ bak = None
       IN IF may
          THEN /\ deks < MaxDeks
               /\ Goto(r, IF Migrates(r) THEN "copy" ELSE "wrap")
               /\ dek' = [dek EXCEPT ![r] = deks + 1] /\ deks' = deks + 1
               /\ UNCHANGED boot
          ELSE Ends(r) /\ UNCHANGED <<dek, deks>>
    /\ UNCHANGED <<disk, runtime, db, token, req, faults>>

\* migrate_plaintext_database: an encrypted copy, the original renamed to the
\* backup, the copy to the database, and the backup deleted if asked.
Copy(r) ==
    /\ pc[r] = "copy"
    /\ tmp' = [key |-> dek[r], data |-> main.data]
    /\ Goto(r, "backup")
    /\ UNCHANGED <<main, bak, meta, given, runtime, db, token, boot, req, dek,
                   deks, faults>>

Backup(r) ==
    /\ pc[r] = "backup"
    /\ bak' = main /\ main' = None
    /\ Goto(r, "promote")
    /\ UNCHANGED <<tmp, meta, given, runtime, db, token, boot, req, dek,
                   deks, faults>>

\* Mutant: every migration deletes the plaintext.
Promote_Deletes(r) ==
    /\ pc[r] = "promote"
    /\ main' = tmp /\ tmp' = None
    /\ Goto(r, "delete")
    /\ UNCHANGED <<bak, meta, given, runtime, db, token, boot, req, dek,
                   deks, faults>>

Promote(r) ==
    /\ pc[r] = "promote"
    /\ main' = tmp /\ tmp' = None
    /\ Goto(r, IF req[r].verb = "cli" /\ auto THEN "delete" ELSE "wrap")
    /\ UNCHANGED <<bak, meta, given, runtime, db, token, boot, req, dek,
                   deks, faults>>

DeletePlaintext(r) ==
    /\ pc[r] = "delete"
    /\ bak' = None
    /\ Goto(r, "wrap")
    /\ UNCHANGED <<main, tmp, meta, given, runtime, db, token, boot, req, dek,
                   deks, faults>>

\* init_with_dek: the metadata in one transaction, then the key, then the status.
Wrap(r) ==
    /\ pc[r] = "wrap"
    /\ meta' = [dek |-> dek[r], pw |-> req[r].pw]
    /\ Goto(r, "setkey")
    /\ UNCHANGED <<main, bak, tmp, given, runtime, db, token, boot, req, dek,
                   deks, faults>>

SetKey(r) ==
    /\ pc[r] = "setkey"
    /\ key' = dek[r]
    /\ Goto(r, "setstatus")
    /\ UNCHANGED <<disk, status, db, token, boot, req, dek, deks, faults>>

SetStatus(r) ==
    /\ pc[r] = "setstatus"
    /\ status' = "Unlocked"
    /\ Goto(r, "dek")
    /\ UNCHANGED <<disk, key, db, token, boot, req, dek, deks, faults>>

\* An error on the way, or the metadata cannot be written.
InitFails(r) ==
    /\ pc[r] \in {"copy", "backup", "promote", "delete", "wrap"}
    /\ Fault
    /\ Ends(r)
    /\ UNCHANGED <<disk, runtime, db, token, req, dek, deks>>

-----------------------------------------------------------------------------
(* Unlocking, and opening the database. *)

UnlockBegin(r, p) ==
    /\ pc[r] = "idle" /\ (Minimal \/ boot = "serving")
    /\ status = "Locked"
    /\ req' = [req EXCEPT ![r] = [verb |-> "unlock", pw |-> p, new |-> None]]
    /\ Goto(r, "verify")
    /\ UNCHANGED <<disk, runtime, db, token, boot, dek, deks, faults>>

\* EncryptionRuntime::unlock, to where the key is set: no metadata, a wrong
\* password, or the right one.
UnlockVerify(r) ==
    /\ pc[r] = "verify" /\ OpFree
    /\ IF meta # None /\ meta.pw = req[r].pw
       THEN key' = meta.dek /\ UNCHANGED status /\ Goto(r, "unlocked")
       ELSE status' = StatusOf(meta) /\ UNCHANGED key /\ Goto(r, "idle")
    /\ UNCHANGED <<disk, db, token, boot, req, dek, deks, faults>>

\* The status is set before the event is recorded; an error of that ends the
\* request with the database closed.
UnlockDone(r) ==
    /\ pc[r] = "unlocked"
    /\ status' = "Unlocked"
    /\ \/ Goto(r, "dek") /\ UNCHANGED faults
       \/ Fault /\ Goto(r, "idle")
    /\ UNCHANGED <<disk, key, db, token, boot, req, dek, deks>>

\* dek_hex, a try_read: without a key, or while an operation may be writing it,
\* there is none.
DekHex(r) ==
    /\ pc[r] = "dek"
    /\ \/ key # None /\ dek' = [dek EXCEPT ![r] = key] /\ Goto(r, "open")
       \/ (key = None \/ ~OpFree) /\ UNCHANGED dek /\ Goto(r, "undo")
    /\ UNCHANGED <<disk, runtime, db, token, boot, req, deks, faults>>

\* Opening creates a missing file; another key does not open an existing one.
Opens(k) == main # None => main.key = k
Opened(k) == IF main = None THEN [key |-> k, data |-> "new"] ELSE main

\* open_db; the command only opens and closes it.
OpenDb(r) ==
    /\ pc[r] = "open" /\ ConfigFree
    /\ \/ /\ Opens(dek[r])
          /\ main' = Opened(dek[r])
          /\ IF req[r].verb = "cli"
             THEN UNCHANGED db /\ boot' = "exited" /\ Goto(r, "idle")
             ELSE db' = dek[r] /\ UNCHANGED boot /\ Goto(r, "notify")
          /\ UNCHANGED faults
       \/ /\ (~Opens(dek[r]) /\ UNCHANGED faults) \/ Fault
          /\ IF req[r].verb = "cli" THEN Ends(r) ELSE Goto(r, "undo") /\ UNCHANGED boot
          /\ UNCHANGED <<main, db>>
    /\ UNCHANGED <<bak, tmp, meta, given, runtime, token, req, dek, deks>>

\* The dependents are refreshed, the token dropped once there are users, and the
\* startup loop notified if it waits.
Notify(r) ==
    /\ pc[r] = "notify"
    /\ \/ /\ token' = (token /\ ~(req[r].verb # "unlock" /\ main.data = "old"))
          /\ boot' = IF boot = "select" THEN "check" ELSE boot
          /\ Goto(r, "idle") /\ UNCHANGED faults
       \/ Fault /\ Goto(r, "undo") /\ UNCHANGED <<token, boot>>
    /\ UNCHANGED <<disk, runtime, db, req, dek, deks>>

-----------------------------------------------------------------------------
(* Locking and rekeying. *)

LockBegin(r) ==
    /\ pc[r] = "idle" /\ boot = "serving" /\ status = "Unlocked"
    /\ req' = [req EXCEPT ![r] = [verb |-> "lock", pw |-> None, new |-> None]]
    /\ Goto(r, "close")
    /\ UNCHANGED <<disk, runtime, db, token, boot, dek, deks, faults>>

\* close_db: before the runtime is locked by a lock request, after it when the
\* database could not be opened.
CloseDb(r) ==
    /\ pc[r] = "close"
    /\ db' = None
    /\ Goto(r, IF req[r].verb = "lock" THEN "undo" ELSE "idle")
    /\ UNCHANGED <<disk, runtime, token, boot, req, dek, deks, faults>>

\* EncryptionRuntime::lock: the key, then the status; metadata that cannot be
\* read counts as none.
LockKey(r) ==
    /\ pc[r] = "undo" /\ OpFree
    /\ key' = None
    /\ Goto(r, "relock")
    /\ UNCHANGED <<disk, status, db, token, boot, req, dek, deks, faults>>

LockStatus(r) ==
    /\ pc[r] = "relock"
    /\ \/ status' = StatusOf(meta) /\ UNCHANGED faults
       \/ status' = "Uninitialized" /\ Fault
    /\ Goto(r, IF req[r].verb = "lock" THEN "idle" ELSE "close")
    /\ UNCHANGED <<disk, key, db, token, boot, req, dek, deks>>

RekeyBegin(r, old, new) ==
    /\ pc[r] = "idle" /\ boot = "serving" /\ status = "Unlocked"
    /\ req' = [req EXCEPT ![r] = [verb |-> "rekey", pw |-> old, new |-> new]]
    /\ Goto(r, "rekey")
    /\ UNCHANGED <<disk, runtime, db, token, boot, dek, deks, faults>>

\* rekey_master: the key is wrapped anew, in one transaction.
Rekey(r) ==
    /\ pc[r] = "rekey" /\ OpFree
    /\ IF meta # None /\ meta.pw = req[r].pw
       THEN /\ UNCHANGED status
            /\ \/ meta' = [meta EXCEPT !.pw = req[r].new] /\ Goto(r, "rewrap")
                  /\ UNCHANGED faults
               \/ Fault /\ UNCHANGED meta /\ Goto(r, "idle")
       ELSE status' = StatusOf(meta) /\ UNCHANGED <<meta, faults>> /\ Goto(r, "idle")
    /\ UNCHANGED <<main, bak, tmp, given, key, db, token, boot, req, dek, deks>>

RekeyDone(r) ==
    /\ pc[r] = "rewrap"
    /\ IF key # None THEN key' = meta.dek /\ status' = "Unlocked"
                     ELSE UNCHANGED runtime
    /\ Goto(r, "idle")
    /\ UNCHANGED <<disk, db, token, boot, req, dek, deks, faults>>

\* The client disconnects and its request is dropped where it waits (from one
\* rename to the next it does not), or the metadata cannot be read.
Abort(r) ==
    /\ pc[r] \notin {"idle", "promote", "delete"} /\ boot # "cli" /\ Fault
    /\ Goto(r, "idle")
    /\ UNCHANGED <<disk, runtime, db, token, boot, req, dek, deks>>

-----------------------------------------------------------------------------
(* The process. *)

\* The startup loop reads the status, then waits for a notification, which
\* reaches it only once it waits.
BootCheck ==
    /\ boot = "check"
    /\ boot' = IF status = "Unlocked" THEN "drain" ELSE "arm"
    /\ UNCHANGED <<disk, runtime, db, token, tasks, deks, faults>>

BootArm ==
    /\ boot = "arm"
    /\ boot' = "select"
    /\ UNCHANGED <<disk, runtime, db, token, tasks, deks, faults>>

\* The minimal server ends when the requests it serves have ended; then the
\* database is opened once more.
BootOpen ==
    /\ boot = "drain" /\ Quiet
    /\ \/ /\ key # None /\ Opens(key)
          /\ main' = Opened(key) /\ db' = key
          /\ boot' = "serving" /\ token' = (token \/ main'.data = "new")
          /\ UNCHANGED faults
       \/ /\ ((key = None \/ ~Opens(key)) /\ UNCHANGED faults) \/ Fault
          /\ boot' = "exited" /\ UNCHANGED <<main, db, token>>
    /\ UNCHANGED <<bak, tmp, meta, given, runtime, tasks, deks>>

\* The operator deletes the backup once the encrypted gateway is verified.
DeleteBackup ==
    /\ boot = "serving" /\ db # None /\ main.data = "old" /\ bak # None
    /\ bak' = None
    /\ UNCHANGED <<main, tmp, meta, given, runtime, db, token, boot, tasks,
                   deks, faults>>

\* SIGTERM, a crash or an exit, at any time, and the gateway or the command is
\* started.
Restart(next) ==
    /\ status' = StatusOf(meta) /\ key' = None /\ db' = None
    /\ token' = (meta = None)
    /\ boot' = next
    /\ pc' = [r \in Requests |-> "idle"]
    /\ req' = [r \in Requests |-> NoReq]
    /\ dek' = [r \in Requests |-> None]
    /\ faults' = 0
    /\ UNCHANGED <<disk, deks>>

-----------------------------------------------------------------------------
Serve(r) ==
    \/ InitLock(r) \/ Copy(r) \/ Backup(r) \/ Promote(r) \/ DeletePlaintext(r)
    \/ Wrap(r) \/ SetKey(r) \/ SetStatus(r) \/ InitFails(r)
    \/ UnlockVerify(r) \/ UnlockDone(r) \/ DekHex(r) \/ OpenDb(r) \/ Notify(r)
    \/ CloseDb(r) \/ LockKey(r) \/ LockStatus(r) \/ Rekey(r) \/ RekeyDone(r)

Begin(r) ==
    \/ \E p \in Passwords : InitBegin(r, p) \/ CliBegin(r, p) \/ UnlockBegin(r, p)
    \/ LockBegin(r)
    \/ \E old, new \in Passwords : RekeyBegin(r, old, new)

Next ==
    \/ \E r \in Requests : Begin(r) \/ Serve(r) \/ Abort(r)
    \/ BootCheck \/ BootArm \/ BootOpen \/ DeleteBackup
    \/ \E next \in {"check", "cli"} : Restart(next)

Spec == Init /\ [][Next]_vars

-----------------------------------------------------------------------------
(* Properties. *)

Places == OpPlaces \cup {"idle", "op", "verify", "dek", "open", "notify", "close",
                         "undo", "rekey"}

TypeOK ==
    /\ main \in Files /\ bak \in Files /\ tmp \in Files
    /\ stock \in BOOLEAN /\ auto \in BOOLEAN
    /\ meta \in Metas \cup {None}
    /\ status \in {"Uninitialized", "Locked", "Unlocked"}
    /\ key \in Deks \cup {None} /\ db \in Deks \cup {None} /\ token \in BOOLEAN
    /\ boot \in {"check", "arm", "select", "drain", "serving", "cli", "exited"}
    /\ pc \in [Requests -> Places]
    /\ req \in [Requests -> [verb : Verbs, pw : Passwords \cup {None},
                             new : Passwords \cup {None}]]
    /\ dek \in [Requests -> Deks \cup {None}]
    /\ deks \in 0..MaxDeks /\ faults \in 0..MaxFaults

\* The data of f can be read: without a key, or with the one the metadata wraps.
Readable(f) ==
    /\ f # None /\ f.data = "old"
    /\ f.key = Plain \/ (meta # None /\ f.key = meta.dek)

\* Whenever the process dies, a request is dropped or a file operation fails, the
\* data that was there before encryption can be read.  The one exception: with
\* --auto-delete-plaintext, while the key is not wrapped
\* (migrate_plaintext_database, init_with_dek).
DataRecoverable ==
    stock => Readable(main) \/ Readable(bak) \/ (auto /\ meta = None)

\* What is open was opened with the key the metadata wraps, and the runtime holds
\* no other; a database that key does not open is what a migration left that did
\* not finish, and its plaintext is next to it (init_with_dek, rekey_master,
\* open_db, migrate_plaintext_database).
KeyOpensDatabase ==
    /\ key # None => (meta # None /\ key = meta.dek)
    /\ db # None => (meta # None /\ main # None /\ db = meta.dek /\ db = main.key)
    /\ (main # None /\ main.key # Plain /\ (meta = None \/ main.key # meta.dek))
         => bak # None \/ (auto /\ meta = None)

\* The status the operator is shown tells which of init and unlock can work: it
\* differs from the metadata only while an init is under way, or after an error
\* or a dropped request (lock, init_with_dek).
StatusTellsMeta ==
    /\ (status = "Uninitialized" /\ meta # None) =>
         (faults > 0 \/ \E r \in Requests : pc[r] \in {"setkey", "setstatus"})
    /\ status \in {"Locked", "Unlocked"} => meta # None

\* An unlocked runtime has its key, but for a lock under way or a dropped one:
\* dek_hex does not fail when the startup opens the database.
UnlockedHasKey ==
    (status = "Unlocked" /\ key = None) =>
        (faults > 0 \/ \E r \in Requests : pc[r] = "relock")

\* Nothing but a rekey with the right password, which keeps the key, replaces
\* the metadata: not a second init, not a crash in between.
MetaIsKept ==
    [][meta # None => /\ meta' # None /\ meta'.dek = meta.dek
                      /\ \/ meta'.pw = meta.pw
                         \/ \E r \in Requests : pc[r] = "rekey" /\ req[r].pw = meta.pw]_vars
=============================================================================
