--------------------------- MODULE EncryptionProofs ---------------------------
(***************************************************************************)
(* Theorems about Encryption, for any requests, passwords and bounds.      *)
(*                                                                         *)
(* The inductive invariant IndInv says who holds the operation lock and    *)
(* that the command runs alone (LockInv), what a request carries           *)
(* (RequestInv), what is on the disk at each place of an initialization    *)
(* (DiskInv), and how the runtime and its status follow (RuntimeInv).      *)
(***************************************************************************)
EXTENDS Encryption, TLAPS

InitPlaces == {"copy", "backup", "promote", "delete", "wrap", "setkey", "setstatus"}

\* One request is in an operation at a time, and the command has no company.
LockInv ==
    /\ \A t, u \in Requests : pc[t] \in OpPlaces /\ pc[u] \in OpPlaces => t = u
    /\ \A t, u \in Requests :
         pc[t] # "idle" /\ pc[u] # "idle" /\ req[t].verb = "cli" => t = u
    /\ \A t \in Requests : pc[t] # "idle" => (req[t].verb = "cli" <=> boot = "cli")

\* What a request carries at each of its places.
RequestInv ==
    \A t \in Requests :
        /\ pc[t] \in InitPlaces \cup {"op"} =>
             req[t].verb \in {"init", "migrate", "cli"} /\ req[t].pw \in Passwords
        /\ pc[t] \in {"copy", "backup", "promote", "delete"} => Migrates(t)
        /\ pc[t] \in InitPlaces \cup {"open", "notify"} => dek[t] \in Deks
        /\ pc[t] = "rekey" => req[t].new \in Passwords

\* The files.  A plaintext file is the original, a backup is plaintext, and
\* without a backup the database is there and is readable, up to the
\* deletion the command was asked for.
FilesInv ==
    /\ main # None /\ main.key = Plain => main.data = "old"
    /\ bak # None => bak.key = Plain /\ bak.data = "old"
    /\ stock /\ main = None => bak # None
    /\ KeyOpensDatabase
    /\ DataRecoverable

\* What each place of an initialization has made of them.
DiskInv ==
    \A t \in Requests :
        /\ pc[t] \in {"copy", "backup"} =>
             meta = None /\ bak = None /\ main # None /\ main.key = Plain
        /\ pc[t] = "backup" => tmp = [key |-> dek[t], data |-> "old"]
        /\ pc[t] = "promote" =>
             /\ meta = None /\ main = None /\ bak # None
             /\ tmp = [key |-> dek[t], data |-> "old"]
        /\ pc[t] = "delete" => auto /\ req[t].verb = "cli"
        /\ pc[t] \in {"delete", "wrap"} =>
             /\ meta = None
             /\ Migrates(t) => main = [key |-> dek[t], data |-> "old"]
        /\ pc[t] \in {"op", "wrap"} /\ req[t].verb = "init" /\ meta = None =>
             main = None \/ bak # None
        /\ pc[t] \in {"setkey", "setstatus", "open", "notify"} =>
             meta # None /\ dek[t] = meta.dek
        /\ pc[t] \in {"unlocked", "rewrap", "notify"} => meta # None
        /\ pc[t] = "notify" => main # None

\* The key is set before the status says so.
RuntimeInv ==
    /\ \A t \in Requests : pc[t] \in {"setstatus", "unlocked"} => key # None
    /\ StatusTellsMeta
    /\ UnlockedHasKey

IndInv == TypeOK /\ LockInv /\ RequestInv /\ FilesInv /\ DiskInv /\ RuntimeInv

\* Every step keeps the types.
LEMMA NextTypeOK ==
    ASSUME TypeOK, RequestInv, DiskInv, FilesInv, [Next]_vars
    PROVE  TypeOK'
<1> USE EncryptionAssumption DEF TypeOK, RequestInv, DiskInv, FilesInv,
          KeyOpensDatabase, vars, disk, given, runtime, tasks, Goto, Places,
          OpPlaces, InitPlaces, Verbs, Deks, Plain, Files, Databases, Metas
<1>1. ASSUME NEW r \in Requests, NEW p \in Passwords, InitBegin(r, p)
     PROVE  TypeOK'
  BY <1>1 DEF InitBegin, Minimal
<1>2. ASSUME NEW r \in Requests, NEW p \in Passwords, CliBegin(r, p) PROVE TypeOK'
  BY <1>2 DEF CliBegin, Quiet
<1>3. ASSUME NEW r \in Requests, NEW p \in Passwords, UnlockBegin(r, p)
     PROVE  TypeOK'
  BY <1>3 DEF UnlockBegin, Minimal
<1>4. ASSUME NEW r \in Requests, LockBegin(r) PROVE TypeOK'
  BY <1>4 DEF LockBegin
<1>5. ASSUME NEW r \in Requests, NEW old \in Passwords, NEW new \in Passwords,
            RekeyBegin(r, old, new)
     PROVE  TypeOK'
  BY <1>5 DEF RekeyBegin
<1>6. ASSUME NEW r \in Requests, InitLock(r) PROVE TypeOK'
  BY <1>6 DEF InitLock, Ends, OpFree, Migrates
<1>7. ASSUME NEW r \in Requests, Copy(r) PROVE TypeOK'
  BY <1>7 DEF Copy
<1>8. ASSUME NEW r \in Requests, Backup(r) PROVE TypeOK'
  BY <1>8 DEF Backup
<1>9. ASSUME NEW r \in Requests, Promote(r) PROVE TypeOK'
  BY <1>9 DEF Promote
<1>10. ASSUME NEW r \in Requests, DeletePlaintext(r) PROVE TypeOK'
  BY <1>10 DEF DeletePlaintext
<1>11. ASSUME NEW r \in Requests, Wrap(r) PROVE TypeOK'
  BY <1>11 DEF Wrap
<1>12. ASSUME NEW r \in Requests, SetKey(r) PROVE TypeOK'
  BY <1>12 DEF SetKey
<1>13. ASSUME NEW r \in Requests, SetStatus(r) PROVE TypeOK'
  BY <1>13 DEF SetStatus
<1>14. ASSUME NEW r \in Requests, InitFails(r) PROVE TypeOK'
  BY <1>14 DEF InitFails, Ends, Fault
<1>15. ASSUME NEW r \in Requests, UnlockVerify(r) PROVE TypeOK'
  BY <1>15 DEF UnlockVerify, StatusOf, OpFree
<1>16. ASSUME NEW r \in Requests, UnlockDone(r) PROVE TypeOK'
  <2>1. pc' \in [Requests -> Places] /\ faults' \in 0..MaxFaults
    BY <1>16 DEF UnlockDone, Fault
  <2> QED BY <1>16, <2>1 DEF UnlockDone
<1>17. ASSUME NEW r \in Requests, DekHex(r) PROVE TypeOK'
  BY <1>17 DEF DekHex
<1>18. ASSUME NEW r \in Requests, OpenDb(r) PROVE TypeOK'
  BY <1>18 DEF OpenDb, Opens, Opened, Ends, Fault
<1>19. ASSUME NEW r \in Requests, Notify(r) PROVE TypeOK'
  <2>1. token' \in BOOLEAN
    BY <1>19, Zenon DEF Notify
  <2>2. pc' \in [Requests -> Places] /\ faults' \in 0..MaxFaults
    BY <1>19 DEF Notify, Fault
  <2> QED BY <1>19, <2>1, <2>2 DEF Notify
<1>20. ASSUME NEW r \in Requests, CloseDb(r) PROVE TypeOK'
  BY <1>20 DEF CloseDb
<1>21. ASSUME NEW r \in Requests, LockKey(r) PROVE TypeOK'
  BY <1>21 DEF LockKey, OpFree
<1>22. ASSUME NEW r \in Requests, LockStatus(r) PROVE TypeOK'
  BY <1>22 DEF LockStatus, StatusOf, Fault
<1>23. ASSUME NEW r \in Requests, Rekey(r) PROVE TypeOK'
  BY <1>23 DEF Rekey, StatusOf, OpFree, Fault
<1>24. ASSUME NEW r \in Requests, RekeyDone(r) PROVE TypeOK'
  BY <1>24 DEF RekeyDone
<1>25. ASSUME NEW r \in Requests, Abort(r) PROVE TypeOK'
  BY <1>25 DEF Abort, Fault
<1>26. CASE BootCheck
  BY <1>26 DEF BootCheck
<1>27. CASE BootArm
  BY <1>27 DEF BootArm
<1>28. CASE BootOpen
  <2>1. token' \in BOOLEAN
    BY <1>28, Zenon DEF BootOpen
  <2>2. main' \in Files /\ db' \in Deks \cup {None} /\ faults' \in 0..MaxFaults
    BY <1>28 DEF BootOpen, Opened, Fault
  <2> QED BY <1>28, <2>1, <2>2 DEF BootOpen
<1>29. CASE DeleteBackup
  BY <1>29 DEF DeleteBackup
<1>30. ASSUME NEW next \in {"check", "cli"}, Restart(next) PROVE TypeOK'
  BY <1>30 DEF Restart, StatusOf, NoReq
<1>31. CASE UNCHANGED vars
  BY <1>31
<1> QED
  BY <1>1, <1>2, <1>3, <1>4, <1>5, <1>6, <1>7, <1>8, <1>9, <1>10, <1>11,
     <1>12, <1>13, <1>14, <1>15, <1>16, <1>17, <1>18, <1>19, <1>20, <1>21,
     <1>22, <1>23, <1>24, <1>25, <1>26, <1>27, <1>28, <1>29, <1>30, <1>31
     DEF Next, Begin, Serve

\* Every step keeps operations apart and the command alone.
LEMMA NextLockInv ==
    ASSUME TypeOK, LockInv, RequestInv, [Next]_vars
    PROVE  LockInv'
<1> USE DEF TypeOK, LockInv, RequestInv, vars, disk, given, runtime, tasks,
          Goto, Places, OpPlaces, InitPlaces
<1>1. ASSUME NEW r \in Requests, NEW p \in Passwords, InitBegin(r, p)
     PROVE  LockInv'
  BY <1>1 DEF InitBegin, Minimal
<1>2. ASSUME NEW r \in Requests, NEW p \in Passwords, CliBegin(r, p)
     PROVE  LockInv'
  BY <1>2 DEF CliBegin, Quiet
<1>3. ASSUME NEW r \in Requests, NEW p \in Passwords, UnlockBegin(r, p)
     PROVE  LockInv'
  BY <1>3 DEF UnlockBegin, Minimal
<1>4. ASSUME NEW r \in Requests, LockBegin(r) PROVE LockInv'
  BY <1>4 DEF LockBegin
<1>5. ASSUME NEW r \in Requests, NEW old \in Passwords, NEW new \in Passwords,
            RekeyBegin(r, old, new)
     PROVE  LockInv'
  BY <1>5 DEF RekeyBegin
<1>6. ASSUME NEW r \in Requests, InitLock(r) PROVE LockInv'
  BY <1>6 DEF InitLock, Ends, OpFree, Migrates
<1>7. ASSUME NEW r \in Requests, Copy(r) PROVE LockInv'
  BY <1>7 DEF Copy
<1>8. ASSUME NEW r \in Requests, Backup(r) PROVE LockInv'
  BY <1>8 DEF Backup
<1>9. ASSUME NEW r \in Requests, Promote(r) PROVE LockInv'
  BY <1>9 DEF Promote
<1>10. ASSUME NEW r \in Requests, DeletePlaintext(r) PROVE LockInv'
  BY <1>10 DEF DeletePlaintext
<1>11. ASSUME NEW r \in Requests, Wrap(r) PROVE LockInv'
  BY <1>11 DEF Wrap
<1>12. ASSUME NEW r \in Requests, SetKey(r) PROVE LockInv'
  BY <1>12 DEF SetKey
<1>13. ASSUME NEW r \in Requests, SetStatus(r) PROVE LockInv'
  BY <1>13 DEF SetStatus
<1>14. ASSUME NEW r \in Requests, InitFails(r) PROVE LockInv'
  BY <1>14 DEF InitFails, Ends, Fault
<1>15. ASSUME NEW r \in Requests, UnlockVerify(r) PROVE LockInv'
  BY <1>15 DEF UnlockVerify, StatusOf, OpFree
<1>16. ASSUME NEW r \in Requests, UnlockDone(r) PROVE LockInv'
  BY <1>16 DEF UnlockDone, Fault
<1>17. ASSUME NEW r \in Requests, DekHex(r) PROVE LockInv'
  BY <1>17 DEF DekHex
<1>18. ASSUME NEW r \in Requests, OpenDb(r) PROVE LockInv'
  BY <1>18 DEF OpenDb, Opens, Opened, Ends, Fault
<1>19. ASSUME NEW r \in Requests, Notify(r) PROVE LockInv'
  BY <1>19 DEF Notify, Fault
<1>20. ASSUME NEW r \in Requests, CloseDb(r) PROVE LockInv'
  BY <1>20 DEF CloseDb
<1>21. ASSUME NEW r \in Requests, LockKey(r) PROVE LockInv'
  BY <1>21 DEF LockKey, OpFree
<1>22. ASSUME NEW r \in Requests, LockStatus(r) PROVE LockInv'
  BY <1>22 DEF LockStatus, StatusOf, Fault
<1>23. ASSUME NEW r \in Requests, Rekey(r) PROVE LockInv'
  BY <1>23 DEF Rekey, StatusOf, OpFree, Fault
<1>24. ASSUME NEW r \in Requests, RekeyDone(r) PROVE LockInv'
  BY <1>24 DEF RekeyDone
<1>25. ASSUME NEW r \in Requests, Abort(r) PROVE LockInv'
  BY <1>25 DEF Abort, Fault
<1>26. CASE BootCheck
  BY <1>26 DEF BootCheck
<1>27. CASE BootArm
  BY <1>27 DEF BootArm
<1>28. CASE BootOpen
  BY <1>28 DEF BootOpen, Opens, Opened, Fault, Quiet
<1>29. CASE DeleteBackup
  BY <1>29 DEF DeleteBackup
<1>30. ASSUME NEW next \in {"check", "cli"}, Restart(next) PROVE LockInv'
  BY <1>30 DEF Restart, StatusOf, NoReq
<1>31. CASE UNCHANGED vars
  BY <1>31
<1> QED
  BY <1>1, <1>2, <1>3, <1>4, <1>5, <1>6, <1>7, <1>8, <1>9, <1>10, <1>11,
     <1>12, <1>13, <1>14, <1>15, <1>16, <1>17, <1>18, <1>19, <1>20, <1>21,
     <1>22, <1>23, <1>24, <1>25, <1>26, <1>27, <1>28, <1>29, <1>30, <1>31
     DEF Next, Begin, Serve

\* Every step keeps what the requests carry.
LEMMA NextRequestInv ==
    ASSUME TypeOK, LockInv, RequestInv, FilesInv, DiskInv, [Next]_vars
    PROVE  RequestInv'
<1> USE EncryptionAssumption DEF TypeOK, RequestInv, LockInv, FilesInv,
          DiskInv, KeyOpensDatabase, vars, disk, given, runtime, tasks, Goto,
          Places, OpPlaces, InitPlaces, Migrates, Deks, Metas
<1>1. ASSUME NEW r \in Requests, NEW p \in Passwords, InitBegin(r, p)
     PROVE  RequestInv'
  BY <1>1 DEF InitBegin, Minimal
<1>2. ASSUME NEW r \in Requests, NEW p \in Passwords, CliBegin(r, p)
     PROVE  RequestInv'
  BY <1>2 DEF CliBegin, Quiet
<1>3. ASSUME NEW r \in Requests, NEW p \in Passwords, UnlockBegin(r, p)
     PROVE  RequestInv'
  BY <1>3 DEF UnlockBegin, Minimal
<1>4. ASSUME NEW r \in Requests, LockBegin(r) PROVE RequestInv'
  BY <1>4 DEF LockBegin
<1>5. ASSUME NEW r \in Requests, NEW old \in Passwords, NEW new \in Passwords,
            RekeyBegin(r, old, new)
     PROVE  RequestInv'
  BY <1>5 DEF RekeyBegin
<1>6. ASSUME NEW r \in Requests, InitLock(r) PROVE RequestInv'
  BY <1>6 DEF InitLock, Ends, OpFree, Migrates
<1>7. ASSUME NEW r \in Requests, Copy(r) PROVE RequestInv'
  BY <1>7 DEF Copy
<1>8. ASSUME NEW r \in Requests, Backup(r) PROVE RequestInv'
  BY <1>8 DEF Backup
<1>9. ASSUME NEW r \in Requests, Promote(r) PROVE RequestInv'
  BY <1>9 DEF Promote
<1>10. ASSUME NEW r \in Requests, DeletePlaintext(r) PROVE RequestInv'
  BY <1>10 DEF DeletePlaintext
<1>11. ASSUME NEW r \in Requests, Wrap(r) PROVE RequestInv'
  BY <1>11 DEF Wrap
<1>12. ASSUME NEW r \in Requests, SetKey(r) PROVE RequestInv'
  BY <1>12 DEF SetKey
<1>13. ASSUME NEW r \in Requests, SetStatus(r) PROVE RequestInv'
  BY <1>13 DEF SetStatus
<1>14. ASSUME NEW r \in Requests, InitFails(r) PROVE RequestInv'
  BY <1>14 DEF InitFails, Ends, Fault
<1>15. ASSUME NEW r \in Requests, UnlockVerify(r) PROVE RequestInv'
  BY <1>15 DEF UnlockVerify, StatusOf, OpFree
<1>16. ASSUME NEW r \in Requests, UnlockDone(r) PROVE RequestInv'
  BY <1>16 DEF UnlockDone, Fault
<1>17. ASSUME NEW r \in Requests, DekHex(r) PROVE RequestInv'
  BY <1>17 DEF DekHex
<1>18. ASSUME NEW r \in Requests, OpenDb(r) PROVE RequestInv'
  BY <1>18 DEF OpenDb, Opens, Opened, Ends, Fault
<1>19. ASSUME NEW r \in Requests, Notify(r) PROVE RequestInv'
  BY <1>19 DEF Notify, Fault
<1>20. ASSUME NEW r \in Requests, CloseDb(r) PROVE RequestInv'
  BY <1>20 DEF CloseDb
<1>21. ASSUME NEW r \in Requests, LockKey(r) PROVE RequestInv'
  BY <1>21 DEF LockKey, OpFree
<1>22. ASSUME NEW r \in Requests, LockStatus(r) PROVE RequestInv'
  BY <1>22 DEF LockStatus, StatusOf, Fault
<1>23. ASSUME NEW r \in Requests, Rekey(r) PROVE RequestInv'
  BY <1>23 DEF Rekey, StatusOf, OpFree, Fault
<1>24. ASSUME NEW r \in Requests, RekeyDone(r) PROVE RequestInv'
  BY <1>24 DEF RekeyDone
<1>25. ASSUME NEW r \in Requests, Abort(r) PROVE RequestInv'
  BY <1>25 DEF Abort, Fault
<1>26. CASE BootCheck
  BY <1>26 DEF BootCheck
<1>27. CASE BootArm
  BY <1>27 DEF BootArm
<1>28. CASE BootOpen
  BY <1>28 DEF BootOpen, Opens, Opened, Fault, Quiet
<1>29. CASE DeleteBackup
  BY <1>29 DEF DeleteBackup
<1>30. ASSUME NEW next \in {"check", "cli"}, Restart(next) PROVE RequestInv'
  BY <1>30 DEF Restart, StatusOf, NoReq
<1>31. CASE UNCHANGED vars
  BY <1>31
<1> QED
  BY <1>1, <1>2, <1>3, <1>4, <1>5, <1>6, <1>7, <1>8, <1>9, <1>10, <1>11,
     <1>12, <1>13, <1>14, <1>15, <1>16, <1>17, <1>18, <1>19, <1>20, <1>21,
     <1>22, <1>23, <1>24, <1>25, <1>26, <1>27, <1>28, <1>29, <1>30, <1>31
     DEF Next, Begin, Serve

\* Every step keeps the data readable and one key.
LEMMA NextFilesInv ==
    ASSUME TypeOK, LockInv, RequestInv, FilesInv, DiskInv, [Next]_vars
    PROVE  FilesInv'
<1> USE EncryptionAssumption DEF TypeOK, RequestInv, FilesInv, DiskInv, vars,
          disk, given, runtime, tasks, Goto, InitPlaces, Migrates, Deks,
          Plain, Files, Databases, Metas, KeyOpensDatabase, DataRecoverable,
          Readable
<1>1. ASSUME NEW r \in Requests, Backup(r) PROVE FilesInv'
  BY <1>1 DEF Backup
<1>2. ASSUME NEW r \in Requests, Promote(r) PROVE FilesInv'
  BY <1>2 DEF Promote
<1>3. ASSUME NEW r \in Requests, DeletePlaintext(r) PROVE FilesInv'
  BY <1>3 DEF DeletePlaintext
<1>4. ASSUME NEW r \in Requests, Wrap(r) PROVE FilesInv'
  BY <1>4 DEF Wrap
<1>5. ASSUME NEW r \in Requests, SetKey(r) PROVE FilesInv'
  BY <1>5 DEF SetKey
<1>6. ASSUME NEW r \in Requests, UnlockVerify(r) PROVE FilesInv'
  BY <1>6 DEF UnlockVerify, StatusOf, OpFree
<1>7. ASSUME NEW r \in Requests, OpenDb(r) PROVE FilesInv'
  BY <1>7 DEF OpenDb, Opens, Opened, Ends, Fault
<1>8. ASSUME NEW r \in Requests, CloseDb(r) PROVE FilesInv'
  BY <1>8 DEF CloseDb
<1>9. ASSUME NEW r \in Requests, LockKey(r) PROVE FilesInv'
  BY <1>9 DEF LockKey, OpFree
<1>10. ASSUME NEW r \in Requests, Rekey(r) PROVE FilesInv'
  BY <1>10 DEF Rekey, StatusOf, OpFree, Fault
<1>11. ASSUME NEW r \in Requests, RekeyDone(r) PROVE FilesInv'
  BY <1>11 DEF RekeyDone
<1>12. CASE BootOpen
  BY <1>12 DEF BootOpen, Opens, Opened, Fault, Quiet
<1>13. CASE DeleteBackup
  BY <1>13 DEF DeleteBackup
<1>14. ASSUME NEW next \in {"check", "cli"}, Restart(next) PROVE FilesInv'
  BY <1>14 DEF Restart, StatusOf, NoReq
<1>15. CASE UNCHANGED <<main, bak, meta, stock, auto, key, db>>
  BY <1>15
<1> QED
  BY <1>1, <1>2, <1>3, <1>4, <1>5, <1>6, <1>7, <1>8, <1>9, <1>10, <1>11,
     <1>12, <1>13, <1>14, <1>15
     DEF Next, Begin, Serve, InitBegin, CliBegin, UnlockBegin, LockBegin,
         RekeyBegin, InitLock, Copy, SetStatus, InitFails, UnlockDone,
         DekHex, Notify, LockStatus, Abort, BootCheck, BootArm

\* Every step leaves the disk as the next place expects it.
LEMMA NextDiskInv ==
    ASSUME TypeOK, LockInv, RequestInv, FilesInv, DiskInv, [Next]_vars
    PROVE  DiskInv'
<1> USE EncryptionAssumption DEF TypeOK, LockInv, RequestInv, FilesInv,
          DiskInv, vars, disk, given, runtime, tasks, Goto, OpPlaces,
          InitPlaces, Migrates, Deks, Plain, Files, Databases, Metas,
          KeyOpensDatabase
<1>1. ASSUME NEW r \in Requests, NEW p \in Passwords, InitBegin(r, p)
     PROVE  DiskInv'
  BY <1>1 DEF InitBegin, Minimal
<1>2. ASSUME NEW r \in Requests, NEW p \in Passwords, CliBegin(r, p)
     PROVE  DiskInv'
  BY <1>2 DEF CliBegin, Quiet
<1>3. ASSUME NEW r \in Requests, NEW p \in Passwords, UnlockBegin(r, p)
     PROVE  DiskInv'
  BY <1>3 DEF UnlockBegin, Minimal
<1>4. ASSUME NEW r \in Requests, LockBegin(r) PROVE DiskInv'
  BY <1>4 DEF LockBegin
<1>5. ASSUME NEW r \in Requests, NEW old \in Passwords, NEW new \in Passwords,
            RekeyBegin(r, old, new)
     PROVE  DiskInv'
  BY <1>5 DEF RekeyBegin
<1>6. ASSUME NEW r \in Requests, InitLock(r) PROVE DiskInv'
  BY <1>6 DEF InitLock, Ends, OpFree, Migrates
<1>7. ASSUME NEW r \in Requests, Copy(r) PROVE DiskInv'
  BY <1>7 DEF Copy
<1>8. ASSUME NEW r \in Requests, Backup(r) PROVE DiskInv'
  BY <1>8 DEF Backup
<1>9. ASSUME NEW r \in Requests, Promote(r) PROVE DiskInv'
  BY <1>9 DEF Promote
<1>10. ASSUME NEW r \in Requests, DeletePlaintext(r) PROVE DiskInv'
  BY <1>10 DEF DeletePlaintext
<1>11. ASSUME NEW r \in Requests, Wrap(r) PROVE DiskInv'
  BY <1>11 DEF Wrap
<1>12. ASSUME NEW r \in Requests, SetKey(r) PROVE DiskInv'
  BY <1>12 DEF SetKey
<1>13. ASSUME NEW r \in Requests, SetStatus(r) PROVE DiskInv'
  BY <1>13 DEF SetStatus
<1>14. ASSUME NEW r \in Requests, InitFails(r) PROVE DiskInv'
  BY <1>14 DEF InitFails, Ends, Fault
<1>15. ASSUME NEW r \in Requests, UnlockVerify(r) PROVE DiskInv'
  BY <1>15 DEF UnlockVerify, StatusOf, OpFree
<1>16. ASSUME NEW r \in Requests, UnlockDone(r) PROVE DiskInv'
  BY <1>16 DEF UnlockDone, Fault
<1>17. ASSUME NEW r \in Requests, DekHex(r) PROVE DiskInv'
  BY <1>17 DEF DekHex
<1>18. ASSUME NEW r \in Requests, OpenDb(r) PROVE DiskInv'
  BY <1>18 DEF OpenDb, Opens, Opened, Ends, Fault
<1>19. ASSUME NEW r \in Requests, Notify(r) PROVE DiskInv'
  BY <1>19 DEF Notify, Fault
<1>20. ASSUME NEW r \in Requests, CloseDb(r) PROVE DiskInv'
  BY <1>20 DEF CloseDb
<1>21. ASSUME NEW r \in Requests, LockKey(r) PROVE DiskInv'
  BY <1>21 DEF LockKey, OpFree
<1>22. ASSUME NEW r \in Requests, LockStatus(r) PROVE DiskInv'
  BY <1>22 DEF LockStatus, StatusOf, Fault
<1>23. ASSUME NEW r \in Requests, Rekey(r) PROVE DiskInv'
  BY <1>23 DEF Rekey, StatusOf, OpFree, Fault
<1>24. ASSUME NEW r \in Requests, RekeyDone(r) PROVE DiskInv'
  BY <1>24 DEF RekeyDone
<1>25. ASSUME NEW r \in Requests, Abort(r) PROVE DiskInv'
  BY <1>25 DEF Abort, Fault
<1>26. CASE BootCheck
  BY <1>26 DEF BootCheck
<1>27. CASE BootArm
  BY <1>27 DEF BootArm
<1>28. CASE BootOpen
  BY <1>28 DEF BootOpen, Opens, Opened, Fault, Quiet
<1>29. CASE DeleteBackup
  BY <1>29 DEF DeleteBackup
<1>30. ASSUME NEW next \in {"check", "cli"}, Restart(next) PROVE DiskInv'
  BY <1>30 DEF Restart, StatusOf, NoReq
<1>31. CASE UNCHANGED vars
  BY <1>31
<1> QED
  BY <1>1, <1>2, <1>3, <1>4, <1>5, <1>6, <1>7, <1>8, <1>9, <1>10, <1>11,
     <1>12, <1>13, <1>14, <1>15, <1>16, <1>17, <1>18, <1>19, <1>20, <1>21,
     <1>22, <1>23, <1>24, <1>25, <1>26, <1>27, <1>28, <1>29, <1>30, <1>31
     DEF Next, Begin, Serve

\* Every step keeps key, status and metadata in step.
LEMMA NextRuntimeInv ==
    ASSUME TypeOK, LockInv, RequestInv, FilesInv, DiskInv, RuntimeInv, [Next]_vars
    PROVE  RuntimeInv'
<1> USE EncryptionAssumption DEF TypeOK, LockInv, RequestInv, DiskInv,
          RuntimeInv, vars, disk, given, runtime, tasks, Goto, OpPlaces,
          InitPlaces, Deks, Metas, StatusTellsMeta, UnlockedHasKey, FilesInv,
          KeyOpensDatabase
<1>1. ASSUME NEW r \in Requests, NEW p \in Passwords, InitBegin(r, p)
     PROVE  RuntimeInv'
  BY <1>1 DEF InitBegin, Minimal
<1>2. ASSUME NEW r \in Requests, NEW p \in Passwords, CliBegin(r, p)
     PROVE  RuntimeInv'
  BY <1>2 DEF CliBegin, Quiet
<1>3. ASSUME NEW r \in Requests, NEW p \in Passwords, UnlockBegin(r, p)
     PROVE  RuntimeInv'
  BY <1>3 DEF UnlockBegin, Minimal
<1>4. ASSUME NEW r \in Requests, LockBegin(r) PROVE RuntimeInv'
  BY <1>4 DEF LockBegin
<1>5. ASSUME NEW r \in Requests, NEW old \in Passwords, NEW new \in Passwords,
            RekeyBegin(r, old, new)
     PROVE  RuntimeInv'
  BY <1>5 DEF RekeyBegin
<1>6. ASSUME NEW r \in Requests, InitLock(r) PROVE RuntimeInv'
  BY <1>6 DEF InitLock, Ends, OpFree, Migrates
<1>7. ASSUME NEW r \in Requests, Copy(r) PROVE RuntimeInv'
  BY <1>7 DEF Copy
<1>8. ASSUME NEW r \in Requests, Backup(r) PROVE RuntimeInv'
  BY <1>8 DEF Backup
<1>9. ASSUME NEW r \in Requests, Promote(r) PROVE RuntimeInv'
  BY <1>9 DEF Promote
<1>10. ASSUME NEW r \in Requests, DeletePlaintext(r) PROVE RuntimeInv'
  BY <1>10 DEF DeletePlaintext
<1>11. ASSUME NEW r \in Requests, Wrap(r) PROVE RuntimeInv'
  BY <1>11 DEF Wrap
<1>12. ASSUME NEW r \in Requests, SetKey(r) PROVE RuntimeInv'
  BY <1>12 DEF SetKey
<1>13. ASSUME NEW r \in Requests, SetStatus(r) PROVE RuntimeInv'
  BY <1>13 DEF SetStatus
<1>14. ASSUME NEW r \in Requests, InitFails(r) PROVE RuntimeInv'
  BY <1>14 DEF InitFails, Ends, Fault
<1>15. ASSUME NEW r \in Requests, UnlockVerify(r) PROVE RuntimeInv'
  BY <1>15 DEF UnlockVerify, StatusOf, OpFree
<1>16. ASSUME NEW r \in Requests, UnlockDone(r) PROVE RuntimeInv'
  BY <1>16 DEF UnlockDone, Fault
<1>17. ASSUME NEW r \in Requests, DekHex(r) PROVE RuntimeInv'
  BY <1>17 DEF DekHex
<1>18. ASSUME NEW r \in Requests, OpenDb(r) PROVE RuntimeInv'
  BY <1>18 DEF OpenDb, Opens, Opened, Ends, Fault
<1>19. ASSUME NEW r \in Requests, Notify(r) PROVE RuntimeInv'
  BY <1>19 DEF Notify, Fault
<1>20. ASSUME NEW r \in Requests, CloseDb(r) PROVE RuntimeInv'
  BY <1>20 DEF CloseDb
<1>21. ASSUME NEW r \in Requests, LockKey(r) PROVE RuntimeInv'
  BY <1>21 DEF LockKey, OpFree
<1>22. ASSUME NEW r \in Requests, LockStatus(r) PROVE RuntimeInv'
  BY <1>22 DEF LockStatus, StatusOf, Fault
<1>23. ASSUME NEW r \in Requests, Rekey(r) PROVE RuntimeInv'
  BY <1>23 DEF Rekey, StatusOf, OpFree, Fault
<1>24. ASSUME NEW r \in Requests, RekeyDone(r) PROVE RuntimeInv'
  BY <1>24 DEF RekeyDone
<1>25. ASSUME NEW r \in Requests, Abort(r) PROVE RuntimeInv'
  BY <1>25 DEF Abort, Fault
<1>26. CASE BootCheck
  BY <1>26 DEF BootCheck
<1>27. CASE BootArm
  BY <1>27 DEF BootArm
<1>28. CASE BootOpen
  BY <1>28 DEF BootOpen, Opens, Opened, Fault, Quiet
<1>29. CASE DeleteBackup
  BY <1>29 DEF DeleteBackup
<1>30. ASSUME NEW next \in {"check", "cli"}, Restart(next) PROVE RuntimeInv'
  BY <1>30 DEF Restart, StatusOf, NoReq
<1>31. CASE UNCHANGED vars
  BY <1>31
<1> QED
  BY <1>1, <1>2, <1>3, <1>4, <1>5, <1>6, <1>7, <1>8, <1>9, <1>10, <1>11,
     <1>12, <1>13, <1>14, <1>15, <1>16, <1>17, <1>18, <1>19, <1>20, <1>21,
     <1>22, <1>23, <1>24, <1>25, <1>26, <1>27, <1>28, <1>29, <1>30, <1>31
     DEF Next, Begin, Serve

\* The first state of the first process satisfies the invariant.
LEMMA InitIndInv == Init => IndInv
<1> SUFFICES ASSUME Init PROVE IndInv
  OBVIOUS
<1> USE EncryptionAssumption DEF Init, StatusOf, NoReq
<1>1. stock \in BOOLEAN /\ auto \in BOOLEAN /\ token \in BOOLEAN
  BY Zenon
<1>2. TypeOK
  BY <1>1 DEF TypeOK, Places, Verbs, Deks, Plain, Files, Databases, Metas
<1>3. LockInv /\ RequestInv /\ DiskInv
  BY DEF LockInv, RequestInv, DiskInv, OpPlaces, InitPlaces
<1>4. FilesInv
  BY DEF FilesInv, KeyOpensDatabase, DataRecoverable, Readable, Plain, Databases
<1>5. RuntimeInv
  BY DEF RuntimeInv, StatusTellsMeta, UnlockedHasKey
<1> QED BY <1>2, <1>3, <1>4, <1>5 DEF IndInv

\* The types, the locks, the requests, the disk and the runtime, as IndInv has
\* them, hold in every state: with any number of requests, and whatever fails,
\* is dropped or dies.
THEOREM IndInvHolds == Spec => []IndInv
<1>1. IndInv /\ [Next]_vars => IndInv'
  BY NextTypeOK, NextLockInv, NextRequestInv, NextFilesInv, NextDiskInv, NextRuntimeInv
     DEF IndInv
<1> QED BY InitIndInv, <1>1, PTL DEF Spec

\* Every variable of the disk, the runtime and the requests stays in its domain.
THEOREM TypeCorrect == Spec => []TypeOK
<1>1. IndInv => TypeOK
  BY DEF IndInv
<1> QED BY IndInvHolds, <1>1, PTL

\* The data that was there before encryption can be read after a crash, an error
\* or a dropped request anywhere in a migration, an init or a rekey, except
\* between the deletion the command was asked for and the wrapping of the key
\* (migrate_plaintext_database, init_with_dek).
THEOREM DataStaysReadable == Spec => []DataRecoverable
<1>1. IndInv => DataRecoverable
  BY DEF IndInv, FilesInv
<1> QED BY IndInvHolds, <1>1, PTL

\* The key in memory and the one the database was opened with are the wrapped
\* one, however init, unlock, lock, rekey and the startup interleave.
THEOREM OneKey == Spec => []KeyOpensDatabase
<1>1. IndInv => KeyOpensDatabase
  BY DEF IndInv, FilesInv
<1> QED BY IndInvHolds, <1>1, PTL

\* Up to an error of the process at hand, the status tells whether there is
\* metadata, and with it which of init and unlock can work.
THEOREM StatusIsRight == Spec => []StatusTellsMeta
<1>1. IndInv => StatusTellsMeta
  BY DEF IndInv, RuntimeInv
<1> QED BY IndInvHolds, <1>1, PTL

\* Up to an error and a lock under way, an unlocked runtime has its key.
THEOREM UnlockedKeepsKey == Spec => []UnlockedHasKey
<1>1. IndInv => UnlockedHasKey
  BY DEF IndInv, RuntimeInv
<1> QED BY IndInvHolds, <1>1, PTL

\* The wrapped key is never replaced, and its password only by a rekey that knew
\* it: the check of the metadata under the operation lock keeps a second init out.
THEOREM MetadataIsKept == Spec => MetaIsKept
<1> DEFINE Kept ==
      meta # None => /\ meta' # None /\ meta'.dek = meta.dek
                     /\ \/ meta'.pw = meta.pw
                        \/ \E r \in Requests : pc[r] = "rekey" /\ req[r].pw = meta.pw
<1>1. IndInv /\ [Next]_vars => [Kept]_vars
  <2> SUFFICES ASSUME IndInv, Next PROVE Kept
    OBVIOUS
  <2>1. ASSUME NEW r \in Requests, Wrap(r) PROVE Kept
    BY <2>1 DEF Wrap, IndInv, DiskInv
  <2>2. ASSUME NEW r \in Requests, Rekey(r) PROVE Kept
    BY <2>2, EncryptionAssumption DEF Rekey, IndInv, TypeOK, RequestInv, Metas
  <2>3. CASE meta' = meta
    BY <2>3
  <2>4. (\E r \in Requests : Wrap(r) \/ Rekey(r)) \/ meta' = meta
    BY DEF Next, Begin, Serve, disk, InitBegin, CliBegin, UnlockBegin, LockBegin,
           RekeyBegin, InitLock, Copy, Backup, Promote, DeletePlaintext, SetKey,
           SetStatus, InitFails, UnlockVerify, UnlockDone, DekHex, OpenDb, Notify,
           CloseDb, LockKey, LockStatus, RekeyDone, Abort, BootCheck, BootArm,
           BootOpen, DeleteBackup, Restart
  <2> QED BY <2>1, <2>2, <2>3, <2>4
<1> QED BY IndInvHolds, <1>1, PTL DEF Spec, MetaIsKept
=============================================================================
