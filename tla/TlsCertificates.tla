-------------------------- MODULE TlsCertificates ---------------------------
(***************************************************************************)
(* The certificate of a listener: stored in the database, served by a      *)
(* resolver that is swapped in place, and generated, imported or issued    *)
(* through ACME.  Requests of administrators and the renewal task run at   *)
(* the same time; issuing alone is under a lock, and takes minutes.        *)
(***************************************************************************)
EXTENDS Naturals

CONSTANTS Domains,       \* the lists of domains an administrator may ask for
          Edits,         \* the requests of administrators
          MAX_FAILURES,  \* bound: orders the CA does not complete
          MAX_AGED       \* bound: times a certificate comes near its end

ASSUME TlsAssumption ==
    /\ {"self-signed", "imported"} \cap Domains = {}
    /\ "renewals" \notin Edits
    /\ MAX_FAILURES \in Nat /\ MAX_AGED \in Nat

VARIABLES acmeRow,    \* the listener's ACME row
          stored,     \* the certificate in the database: its names, whether it is expiring
          served,     \* the certificate in the resolver
          issueLock,  \* ISSUE_LOCK: who holds it, "free" if nobody
          settings,   \* the ACME directory, and that of the account registered
          jobs,       \* the administrators' requests and the renewal task
          caFailures, aged

tlsVars == <<acmeRow, stored, served, issueLock, settings, jobs, caFailures, aged>>

Jobs == Edits \cup {"renewals"}

Cert(names) == [names |-> names, expiring |-> FALSE]
NoRow == [on |-> FALSE, domains |-> "none", failed |-> FALSE, recent |-> FALSE]
Job(pc, kind, arg) == [pc |-> pc, kind |-> kind, arg |-> arg]
NoJob == Job("idle", "none", "none")

\* activate(): a listener without a certificate has one generated.
TlsInit ==
    /\ stored = Cert("self-signed") /\ served = stored
    /\ acmeRow = NoRow
    /\ issueLock = "free"
    /\ settings \in [directory : {"none", "ca1"}, account : {"none"}]
    /\ jobs = [j \in Jobs |-> NoJob]
    /\ caFailures = 0 /\ aged = 0

GoOn(j, pc) == jobs' = [jobs EXCEPT ![j].pc = pc]
Done(j) == jobs' = [jobs EXCEPT ![j] = IF j = "renewals" THEN NoJob ELSE Job("done", "none", "none")]

-----------------------------------------------------------------------------
(* Requests. *)

\* generate: ACME is stopped first.  import: last.  enable: the settings must be there.
ApiRequest(j) ==
    /\ jobs[j].pc = "idle" /\ j \in Edits
    /\ \/ jobs' = [jobs EXCEPT ![j] = Job("disable", "generate", "self-signed")]
       \/ jobs' = [jobs EXCEPT ![j] = Job("save", "import", "imported")]
       \/ jobs' = [jobs EXCEPT ![j] = Job("disable", "disable", "none")]
       \/ \E d \in Domains :
            IF settings.directory = "none" THEN Done(j)
            ELSE jobs' = [jobs EXCEPT ![j] = Job("enable", "issue", d)]
       \/ \E d \in {"ca1", "ca2"} : jobs' = [jobs EXCEPT ![j] =
            [pc |-> "settings", kind |-> d, arg |-> settings]]
    /\ UNCHANGED <<acmeRow, stored, served, issueLock, settings, caFailures, aged>>

\* api_update_acme_settings: the account is kept if the directory read before is the same.
WriteSettings(j) ==
    /\ jobs[j].pc = "settings"
    /\ settings' = [directory |-> jobs[j].kind,
                    account |-> IF jobs[j].arg.directory = jobs[j].kind
                                THEN jobs[j].arg.account ELSE "none"]
    /\ Done(j)
    /\ UNCHANGED <<acmeRow, stored, served, issueLock, caFailures, aged>>

DisableAcme(j) ==
    /\ jobs[j].pc = "disable"
    /\ acmeRow' = NoRow
    /\ IF jobs[j].kind = "generate" THEN GoOn(j, "save") ELSE Done(j)
    /\ UNCHANGED <<stored, served, issueLock, settings, caFailures, aged>>

\* enable(): the row of a listener that has one keeps how its last attempt went.
EnableAcme(j) ==
    /\ jobs[j].pc = "enable"
    /\ acmeRow' = [acmeRow EXCEPT !.on = TRUE, !.domains = jobs[j].arg]
    /\ GoOn(j, "lock")
    /\ UNCHANGED <<stored, served, issueLock, settings, caFailures, aged>>

-----------------------------------------------------------------------------
(* install(): the database, then the resolver; a request may be between the two. *)

Save(j) ==
    /\ jobs[j].pc = "save"
    /\ stored' = Cert(jobs[j].arg)
    /\ GoOn(j, "serve")
    /\ UNCHANGED <<acmeRow, served, issueLock, settings, caFailures, aged>>

Serve(j) ==
    /\ jobs[j].pc = "serve"
    /\ served' = Cert(jobs[j].arg)
    /\ CASE jobs[j].kind = "generate" -> Done(j)
         [] jobs[j].kind = "import" -> GoOn(j, "disable")
         [] jobs[j].kind = "issue" -> GoOn(j, "issued")
    /\ UNCHANGED <<acmeRow, stored, issueLock, settings, caFailures, aged>>

-----------------------------------------------------------------------------
(* issue(), for a request or the renewal task. *)

\* Under the lock the row is read again, and is an error if it is gone.
BeginIssue(j) ==
    /\ jobs[j].pc = "lock" /\ issueLock = "free"
    /\ IF acmeRow.on
       THEN /\ issueLock' = j
            /\ jobs' = [jobs EXCEPT ![j] = Job("account", "issue", acmeRow.domains)]
       ELSE Done(j) /\ UNCHANGED issueLock
    /\ UNCHANGED <<acmeRow, stored, served, settings, caFailures, aged>>

\* account(): one is registered if the settings have none.  They are written back when the
\* CA has answered, and may be those of another directory by then.
RegisterAccount(j) ==
    /\ jobs[j].pc = "account"
    /\ IF settings.account # "none" THEN GoOn(j, "order")
       ELSE jobs' = [jobs EXCEPT ![j].pc = "registered", ![j].kind = settings.directory]
    /\ UNCHANGED <<acmeRow, stored, served, issueLock, settings, caFailures, aged>>

SaveAccount(j) ==
    /\ jobs[j].pc = "registered"
    /\ settings' = [settings EXCEPT !.account = jobs[j].kind]
    /\ jobs' = [jobs EXCEPT ![j].pc = "order", ![j].kind = "issue"]
    /\ UNCHANGED <<acmeRow, stored, served, issueLock, caFailures, aged>>

\* The challenges are published, the order placed, the records removed and, if the CA is
\* content, the certificate fetched and installed.
Order(j) ==
    /\ jobs[j].pc = "order"
    /\ \/ GoOn(j, "save") /\ UNCHANGED caFailures
       \/ /\ caFailures < MAX_FAILURES /\ caFailures' = caFailures + 1
          /\ GoOn(j, "failed")
    /\ UNCHANGED <<acmeRow, stored, served, issueLock, settings, aged>>

\* The attempt is recorded on the row, if there is one.
RecordAttempt(j) ==
    /\ jobs[j].pc \in {"issued", "failed"}
    /\ acmeRow' = IF ~acmeRow.on THEN acmeRow
                  ELSE [acmeRow EXCEPT !.failed = jobs[j].pc = "failed", !.recent = TRUE]
    /\ issueLock' = "free"
    /\ Done(j)
    /\ UNCHANGED <<stored, served, settings, caFailures, aged>>

Issue(j) == \/ BeginIssue(j) \/ RegisterAccount(j) \/ SaveAccount(j) \/ Order(j)
            \/ RecordAttempt(j)

-----------------------------------------------------------------------------
(* The renewal task. *)

\* Plausible slip: only the end of a certificate makes a renewal due.
renewal_due_Expiry(domains) == stored.expiring

\* It is expiring or has other names than the row asks for.
renewal_due(domains) == stored.expiring \/ stored.names # domains

\* renew_due: a failure within the hour is left alone.
ReadRows ==
    /\ jobs["renewals"].pc = "idle"
    /\ acmeRow.on /\ ~(acmeRow.failed /\ acmeRow.recent)
    /\ jobs' = [jobs EXCEPT !["renewals"] = Job("check", "issue", acmeRow.domains)]
    /\ UNCHANGED <<acmeRow, stored, served, issueLock, settings, caFailures, aged>>

CheckDue ==
    /\ jobs["renewals"].pc = "check"
    /\ IF renewal_due(jobs["renewals"].arg) THEN GoOn("renewals", "lock") ELSE Done("renewals")
    /\ UNCHANGED <<acmeRow, stored, served, issueLock, settings, caFailures, aged>>

\* An hour passes; it comes near the end of the certificate's life.
HourPasses ==
    /\ acmeRow.recent /\ acmeRow' = [acmeRow EXCEPT !.recent = FALSE]
    /\ UNCHANGED <<stored, served, issueLock, settings, jobs, caFailures, aged>>

CertificateAges ==
    /\ aged < MAX_AGED /\ ~stored.expiring
    /\ aged' = aged + 1 /\ stored' = [stored EXCEPT !.expiring = TRUE]
    /\ UNCHANGED <<acmeRow, served, issueLock, settings, jobs, caFailures>>

JobStep(j) == WriteSettings(j) \/ DisableAcme(j) \/ EnableAcme(j) \/ Save(j) \/ Serve(j) \/ Issue(j)

Renewals == ReadRows \/ CheckDue

TlsNext ==
    \/ \E j \in Jobs : ApiRequest(j) \/ JobStep(j)
    \/ Renewals \/ HourPasses \/ CertificateAges

\* A request goes on to its end, the renewal task never stops, and time passes.
TlsFairness ==
    /\ \A j \in Jobs : WF_tlsVars(JobStep(j))
    /\ WF_tlsVars(Renewals) /\ WF_tlsVars(HourPasses)

TlsSpec == TlsInit /\ [][TlsNext]_tlsVars /\ TlsFairness

-----------------------------------------------------------------------------
\* If a CA that has been failing issues at last, the certificate in the database comes to
\* be the one the ACME row asks for and stays it, whatever imports, generated certificates
\* and orders crossed one another: the renewal task repairs what they left ("missing,
\* expiring or for other domains", acme.rs renew_due).
EnabledIsCovered ==
    <>[](acmeRow.on => stored.names = acmeRow.domains /\ ~stored.expiring)
=============================================================================
