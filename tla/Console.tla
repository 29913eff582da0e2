-------------------------------- MODULE Console --------------------------------
(***************************************************************************)
(* Who may use the web interface, and what its settings reach: the setup   *)
(* form, the login with its limiter, the one session, the settings, the    *)
(* test accounts, and the wildcard record at deSEC that follows the        *)
(* server's address (internal/web: handlers_setup, setupcode,              *)
(* handlers_auth, sessions, handlers_stubs, handlers_accounts, dnssync;    *)
(* internal/desec; internal/config).                                       *)
(*                                                                         *)
(* All handlers work on one Config in memory. Only settings and accounts   *)
(* hold the operation lock; setup, logins and the synchronisation that a   *)
(* start begins in the background run beside them.                         *)
(***************************************************************************)
EXTENDS Integers, FiniteSets

CONSTANTS
  Requests,          \* requests the server handles at a time
  Startup,           \* the synchronisation begun by a start
  Clients,           \* addresses that requests come from
  Passwords, Addresses,
  IPs,               \* the addresses that are IP addresses
  V6,                \* those of them of version 6
  Accounts,          \* test accounts, by login
  MaxLoginAttempts,
  Mishaps,           \* sets of things that may happen, of which Init picks one
  None

AllMishaps == {"crash",  \* the process ends between two steps
               "write",  \* a file cannot be written
               "net",    \* deSEC refuses, or its answer is lost
               "typo",   \* a settings form with an invalid delegation target
               "parallel", \* a request arrives while another is handled
               "early"}  \* and while a setup or the synchronisation of a start goes on

ASSUME StartupAssumption  == Startup \notin Requests
ASSUME RequestsAssumption == IsFiniteSet(Requests)
ASSUME LimitAssumption    == MaxLoginAttempts \in Nat \ {0}
ASSUME IPsAssumption      == IPs \subseteq Addresses /\ V6 \subseteq IPs
ASSUME ClientsAssumption  == Clients # {}
ASSUME MishapsAssumption  == Mishaps \subseteq SUBSET AllMishaps

Tasks == Requests \cup {Startup}

\* How certificates and the wildcard record come about: no token yet; in the
\* school network with the domain at deSEC, or with a delegation target; or from
\* the internet.
Dns == {"off", "managed", "delegated", "direct"}

Config ==
  {c \in [ready : BOOLEAN, pw : Passwords \cup {None}, addr : Addresses \cup {None},
          dns : Dns, accounts : SUBSET Accounts] :
     c.ready => c.pw # None /\ c.addr # None /\ c.dns # "off"}

\* What deSEC has for *.{base_domain}: a set of records for each type, one record
\* at most in each that stackctl has written.
RRTypes == {"A", "AAAA"}
Records == [RRTypes -> Addresses \cup {None}]
rrType(ip) == IF ip \in V6 THEN "AAAA" ELSE "A"

NoRecords == [type \in RRTypes |-> None]

\* What a form says: pw is the password typed, new the one to be set, ok whether
\* the setup code or the delegation target is valid.
Form == [from : Clients, pw : Passwords \cup {None}, new : Passwords \cup {None},
         addr : Addresses \cup {None}, dns : Dns, account : Accounts \cup {None}, ok : BOOLEAN]

Kinds == {"login", "setup", "settings", "create", "delete", "startup"}
Steps == {"check", "miss", "verify", "hit", "current", "assign", "save", "env",
          "sync", "get", "put", "finish"}

ASSUME NoneAssumption ==
  None \notin Requests \cup Passwords \cup Addresses \cup Accounts \cup Kinds \cup Steps \cup Config

VARIABLES
  mishaps,   \* what may happen in this behaviour
  mem,       \* the Config of the running process, or None
  file,      \* config.yaml
  envPw,     \* ADMIN_PASSWORD of .env
  code,      \* the setup code: whether its file and the process have it
  session,   \* None, or the password the session was opened with
  attempts,  \* of the limiter
  lock,      \* the request that holds the operation lock, or None
  record,    \* the records of *.{base_domain} at deSEC
  dnsErr,    \* the last synchronisation failed, and the dashboard says so
  dex,       \* the accounts that Dex knows
  warned,    \* the admin has been told that Dex could not be updated
  task       \* the requests and the synchronisation under way

vars == <<mishaps, mem, file, envPw, code, session, attempts, lock, record, dnsErr,
          dex, warned, task>>

NoTask == [kind |-> None, step |-> None, form |-> None, ip |-> None, sync |-> FALSE]

Task == [kind : Kinds, step : Steps, form : Form \cup {None},
         ip : Addresses \cup {None}, sync : BOOLEAN] \cup {NoTask}

TypeOK ==
  /\ mishaps \in Mishaps
  /\ mem \in Config \cup {None}
  /\ file \in Config
  /\ envPw \in Passwords \cup {None}
  /\ code \in [file : BOOLEAN, mem : BOOLEAN]
  /\ session \in Passwords \cup {None}
  /\ attempts \in [Clients -> [count : Nat, locked : BOOLEAN]]
  /\ lock \in Requests \cup {None}
  /\ record \in Records
  /\ dnsErr \in BOOLEAN
  /\ dex \in SUBSET Accounts
  /\ warned \in BOOLEAN
  /\ task \in [Tasks -> Task]

Default == [ready |-> FALSE, pw |-> None, addr |-> None, dns |-> "off", accounts |-> {}]

NoAttempts == [c \in Clients |-> [count |-> 0, locked |-> FALSE]]

\* Before the first start.
Init ==
  /\ mishaps \in Mishaps
  /\ mem = None
  /\ file = Default
  /\ envPw = None
  /\ code = [file |-> FALSE, mem |-> FALSE]
  /\ session = None
  /\ attempts = NoAttempts
  /\ lock = None
  /\ record = NoRecords
  /\ dnsErr = FALSE
  /\ dex = {}
  /\ warned = FALSE
  /\ task = [t \in Tasks |-> NoTask]

Up == mem # None

At(t, kind, step) == Up /\ task[t].kind = kind /\ task[t].step = step

Goto(t, step) == task' = [task EXCEPT ![t].step = step]
Ends(t)       == task' = [task EXCEPT ![t] = NoTask]
Free          == lock' = None

Busy(kinds) == \E t \in Tasks : task[t].kind \in kinds

Begin(r, kind, step, form) ==
  /\ Up /\ task[r] = NoTask
  /\ "parallel" \in mishaps \/ \A other \in Requests : task[other] = NoTask
  /\ "early" \in mishaps \/ ~Busy({"setup", "startup"})
  /\ task' = [task EXCEPT ![r] = [NoTask EXCEPT !.kind = kind, !.step = step, !.form = form]]

NoForm == [from |-> CHOOSE c \in Clients : TRUE, pw |-> None, new |-> None,
           addr |-> None, dns |-> "off", account |-> None, ok |-> TRUE]

\* What is needed of a form once the Config has taken it over.
Rest(form) == [NoForm EXCEPT !.new = form.new]

-----------------------------------------------------------------------------
\* The limiter: five misses from an address lock it out for a minute.

LockedOut(c) == attempts[c].count >= MaxLoginAttempts /\ attempts[c].locked

\* Variant: an expired lockout lets the request in and is not forgotten.
AdmitOnly(c) == ~LockedOut(c) /\ UNCHANGED attempts

\* isLocked also forgets a lockout that has expired.
Admit(c) ==
  /\ ~LockedOut(c)
  /\ attempts' = IF attempts[c].count >= MaxLoginAttempts
                   THEN [attempts EXCEPT ![c] = NoAttempts[c]] ELSE attempts

recordFailure(c) ==
  attempts' = [attempts EXCEPT ![c] =
    [count  |-> @.count + 1,
     locked |-> IF @.count + 1 >= MaxLoginAttempts THEN TRUE ELSE @.locked]]

recordSuccess(c) == attempts' = [attempts EXCEPT ![c] = NoAttempts[c]]

\* The minute is over.
LockoutExpires(c) ==
  /\ Up /\ attempts[c].locked
  /\ attempts' = [attempts EXCEPT ![c].locked = FALSE]
  /\ UNCHANGED <<mishaps, mem, file, envPw, code, session, lock, record, dnsErr,
                 dex, warned, task>>

Miss(r) ==
  /\ Up /\ task[r].step = "miss"
  /\ recordFailure(task[r].form.from)
  /\ Ends(r)
  /\ UNCHANGED <<mishaps, mem, file, envPw, code, session, lock, record, dnsErr, dex, warned>>

Limited(r) ==
  /\ Up /\ task[r].step = "check"
  /\ LockedOut(task[r].form.from)
  /\ Ends(r)
  /\ UNCHANGED <<mishaps, mem, file, envPw, code, session, attempts, lock, record,
                 dnsErr, dex, warned>>

-----------------------------------------------------------------------------
\* Login and logout. The password is compared while other requests go on.

handleLoginPost(r) ==
  /\ Up /\ mem.ready
  /\ \E c \in Clients, p \in Passwords :
       Begin(r, "login", "check", [NoForm EXCEPT !.from = c, !.pw = p])
  /\ UNCHANGED <<mishaps, mem, file, envPw, code, session, attempts, lock, record,
                 dnsErr, dex, warned>>

CheckLogin(r) ==
  /\ At(r, "login", "check")
  /\ Admit(task[r].form.from)
  /\ Goto(r, "verify")
  /\ UNCHANGED <<mishaps, mem, file, envPw, code, session, lock, record, dnsErr, dex, warned>>

VerifyPassword(r) ==
  /\ At(r, "login", "verify")
  /\ Goto(r, IF task[r].form.pw = mem.pw THEN "hit" ELSE "miss")
  /\ UNCHANGED <<mishaps, mem, file, envPw, code, session, attempts, lock, record,
                 dnsErr, dex, warned>>

Hit(r) ==
  /\ At(r, "login", "hit")
  /\ recordSuccess(task[r].form.from)
  /\ session' = task[r].form.pw
  /\ Ends(r)
  /\ UNCHANGED <<mishaps, mem, file, envPw, code, lock, record, dnsErr, dex, warned>>

\* By the admin, or after twelve hours.
SessionEnds ==
  /\ Up /\ session # None
  /\ session' = None
  /\ UNCHANGED <<mishaps, mem, file, envPw, code, attempts, lock, record, dnsErr,
                 dex, warned, task>>

-----------------------------------------------------------------------------
\* Setup.

handleSetupPost(r) ==
  /\ Up /\ ~mem.ready
  /\ \E c \in Clients, p \in Passwords, a \in Addresses, d \in Dns \ {"off"}, ok \in BOOLEAN :
       Begin(r, "setup", "check",
             [NoForm EXCEPT !.from = c, !.new = p, !.addr = a, !.dns = d, !.ok = ok])
  /\ UNCHANGED <<mishaps, mem, file, envPw, code, session, attempts, lock, record,
                 dnsErr, dex, warned>>

checkSetupCode(r) ==
  /\ At(r, "setup", "check")
  /\ Admit(task[r].form.from)
  /\ Goto(r, IF task[r].form.ok /\ code.mem THEN "assign" ELSE "miss")
  /\ UNCHANGED <<mishaps, mem, file, envPw, code, session, lock, record, dnsErr, dex, warned>>

SetupAssign(r) ==
  /\ At(r, "setup", "assign")
  /\ LET form == task[r].form
     IN /\ mem' = [mem EXCEPT !.ready = TRUE, !.pw = form.new, !.addr = form.addr, !.dns = form.dns]
        /\ task' = [task EXCEPT ![r].step = "save", ![r].form = Rest(form)]
  /\ UNCHANGED <<mishaps, file, envPw, code, session, attempts, lock, record, dnsErr,
                 dex, warned>>

SetupSave(r) ==
  /\ At(r, "setup", "save")
  /\ \/ file' = mem /\ Goto(r, "env") /\ UNCHANGED mem
     \/ "write" \in mishaps /\ mem' = [mem EXCEPT !.ready = FALSE] /\ Ends(r) /\ UNCHANGED file
  /\ UNCHANGED <<mishaps, envPw, code, session, attempts, lock, record, dnsErr, dex, warned>>

\* Variant: only what follows from the Config is written.
SaveEnvOfConfig(r) ==
  /\ Up /\ task[r].step = "env"
  /\ Goto(r, IF task[r].sync \/ task[r].kind = "setup" THEN "sync" ELSE "finish")
  /\ UNCHANGED <<mishaps, mem, file, envPw, code, session, attempts, lock, record,
                 dnsErr, dex, warned>>

\* The failure to write .env is logged only. A new password goes in, if any.
SaveEnv(r) ==
  /\ Up /\ task[r].step = "env"
  /\ \/ envPw' = IF task[r].form.new # None THEN task[r].form.new ELSE envPw
     \/ "write" \in mishaps /\ UNCHANGED envPw
  /\ Goto(r, IF task[r].sync \/ task[r].kind = "setup" THEN "sync" ELSE "finish")
  /\ UNCHANGED <<mishaps, mem, file, code, session, attempts, lock, record, dnsErr, dex, warned>>

\* The code goes, the new admin is logged in.
SetupFinish(r) ==
  /\ At(r, "setup", "finish")
  /\ \E kept \in (IF "write" \in mishaps THEN {code.file, FALSE} ELSE {FALSE}) :
       code' = [file |-> kept, mem |-> FALSE]
  /\ session' = task[r].form.new
  /\ Ends(r)
  /\ UNCHANGED <<mishaps, mem, file, envPw, attempts, lock, record, dnsErr, dex, warned>>

-----------------------------------------------------------------------------
\* Settings: a request with the session, under the operation lock.

handleSettingsPost(r) ==
  /\ Up /\ mem.ready /\ session # None /\ lock = None
  /\ lock' = r
  /\ \E change \in {<<None, None>>} \cup (Passwords \X Passwords), a \in Addresses,
        d \in (IF mem.dns = "direct" THEN {"direct"} ELSE {"managed", "delegated"}),
        ok \in {TRUE} \cup (IF "typo" \in mishaps /\ mem.dns # "direct" THEN {FALSE} ELSE {}) :
       Begin(r, "settings", "current",
             [NoForm EXCEPT !.pw = change[1], !.new = change[2], !.addr = a, !.dns = d, !.ok = ok])
  /\ UNCHANGED <<mishaps, mem, file, envPw, code, session, attempts, record, dnsErr, dex, warned>>

\* A change of the password needs the current one.
SettingsVerify(r) ==
  /\ At(r, "settings", "current")
  /\ IF task[r].form.new # None /\ task[r].form.pw # mem.pw
       THEN Ends(r) /\ Free
       ELSE Goto(r, "assign") /\ UNCHANGED lock
  /\ UNCHANGED <<mishaps, mem, file, envPw, code, session, attempts, record, dnsErr, dex, warned>>

\* Variant: an empty field clears the password.
SettingsAssignEmpty(r) ==
  /\ At(r, "settings", "assign")
  /\ LET form == task[r].form
     IN /\ mem' = [mem EXCEPT !.pw = form.new, !.addr = form.addr, !.dns = form.dns]
        /\ task' = [task EXCEPT ![r].step = "save", ![r].form = Rest(form),
                      ![r].sync = form.addr # mem.addr \/ form.dns # mem.dns]
  /\ UNCHANGED <<mishaps, file, envPw, code, session, attempts, lock, record, dnsErr,
                 dex, warned>>

\* Variant: the address is compared after it has been assigned.
SettingsAssignFirst(r) ==
  /\ At(r, "settings", "assign")
  /\ LET form   == task[r].form
         withPw == IF form.new = None THEN mem ELSE [mem EXCEPT !.pw = form.new]
     IN /\ mem' = [withPw EXCEPT !.addr = form.addr, !.dns = form.dns]
        /\ task' = [task EXCEPT ![r].step = "save", ![r].form = Rest(form),
                      ![r].sync = form.dns # mem.dns]
  /\ UNCHANGED <<mishaps, file, envPw, code, session, attempts, lock, record, dnsErr,
                 dex, warned>>

\* The password is set before the delegation target is looked at.
SettingsAssign(r) ==
  /\ At(r, "settings", "assign")
  /\ LET form   == task[r].form
         withPw == IF form.new = None THEN mem ELSE [mem EXCEPT !.pw = form.new]
     IN IF ~form.ok
          THEN mem' = withPw /\ Ends(r) /\ Free
          ELSE /\ mem' = [withPw EXCEPT !.addr = form.addr, !.dns = form.dns]
               /\ task' = [task EXCEPT ![r].step = "save", ![r].form = Rest(form),
                             ![r].sync = form.addr # mem.addr \/ form.dns # mem.dns]
               /\ UNCHANGED lock
  /\ UNCHANGED <<mishaps, file, envPw, code, session, attempts, record, dnsErr, dex, warned>>

SettingsSave(r) ==
  /\ At(r, "settings", "save")
  /\ \/ file' = mem /\ Goto(r, "env") /\ UNCHANGED lock
     \/ "write" \in mishaps /\ Ends(r) /\ Free /\ UNCHANGED file
  /\ UNCHANGED <<mishaps, mem, envPw, code, session, attempts, record, dnsErr, dex, warned>>

SettingsFinish(r) ==
  /\ At(r, "settings", "finish")
  /\ session' = IF task[r].form.new # None THEN None ELSE session
  /\ Ends(r) /\ Free
  /\ UNCHANGED <<mishaps, mem, file, envPw, code, attempts, record, dnsErr, dex, warned>>

-----------------------------------------------------------------------------
\* Test accounts, under the operation lock, with Dex installed.

BeginAccount(r, kind, accounts) ==
  /\ Up /\ mem.ready /\ session # None /\ lock = None
  /\ lock' = r
  /\ \E a \in accounts : Begin(r, kind, "assign", [NoForm EXCEPT !.account = a])
  /\ UNCHANGED <<mishaps, mem, file, envPw, code, session, attempts, record, dnsErr, dex, warned>>

handleAccountCreate(r) == Up /\ BeginAccount(r, "create", Accounts \ mem.accounts)
handleAccountDelete(r) == Up /\ BeginAccount(r, "delete", mem.accounts)

AccountAssign(r) ==
  /\ \/ At(r, "create", "assign") /\ mem' = [mem EXCEPT !.accounts = @ \cup {task[r].form.account}]
     \/ At(r, "delete", "assign") /\ mem' = [mem EXCEPT !.accounts = @ \ {task[r].form.account}]
  /\ Goto(r, "save")
  /\ UNCHANGED <<mishaps, file, envPw, code, session, attempts, lock, record, dnsErr,
                 dex, warned>>

AccountSave(r) ==
  /\ At(r, "create", "save") \/ At(r, "delete", "save")
  /\ file' = mem
  /\ Goto(r, "finish")
  /\ UNCHANGED <<mishaps, mem, envPw, code, session, attempts, lock, record, dnsErr,
                 dex, warned>>

\* Variant: the change stays in memory.
AccountSaveFailsOnly(r) ==
  /\ "write" \in mishaps
  /\ At(r, "create", "save") \/ At(r, "delete", "save")
  /\ Ends(r) /\ Free
  /\ UNCHANGED <<mishaps, mem, file, envPw, code, session, attempts, record, dnsErr,
                 dex, warned>>

\* The change is taken back in memory.
AccountSaveFails(r) ==
  /\ "write" \in mishaps
  /\ \/ At(r, "create", "save") /\ mem' = [mem EXCEPT !.accounts = @ \ {task[r].form.account}]
     \/ At(r, "delete", "save") /\ mem' = [mem EXCEPT !.accounts = @ \cup {task[r].form.account}]
  /\ Ends(r) /\ Free
  /\ UNCHANGED <<mishaps, file, envPw, code, session, attempts, record, dnsErr, dex, warned>>

\* The whole configuration of Dex is written anew and Dex restarted.
applyAccounts(r) ==
  /\ At(r, "create", "finish") \/ At(r, "delete", "finish")
  /\ \/ dex' = mem.accounts /\ warned' = FALSE
     \/ "write" \in mishaps /\ warned' = TRUE /\ UNCHANGED dex
  /\ Ends(r) /\ Free
  /\ UNCHANGED <<mishaps, mem, file, envPw, code, session, attempts, record, dnsErr>>

-----------------------------------------------------------------------------
\* The wildcard record, synchronised by setup, settings and each start. Only the
\* records of the address's own type are read and written.

PointsTo(ip) == record[rrType(ip)] = ip

Put(ip) == [record EXCEPT ![rrType(ip)] = ip]

Synced(t, err) ==
  /\ dnsErr' = err
  /\ IF t = Startup THEN Ends(t)
                    ELSE task' = [task EXCEPT ![t].step = "finish", ![t].ip = None]
  /\ UNCHANGED <<mishaps, mem, file, envPw, code, session, attempts, lock, dex, warned>>

\* The address is read once; what follows are requests to deSEC.
syncWildcard(t) ==
  /\ Up /\ task[t].step = "sync"
  /\ UNCHANGED record
  /\ CASE mem.dns # "managed" -> Synced(t, FALSE)
       [] mem.dns = "managed" /\ mem.addr \notin IPs -> Synced(t, TRUE)
       [] mem.dns = "managed" /\ mem.addr \in IPs ->
            /\ task' = [task EXCEPT ![t].step = "get", ![t].ip = mem.addr]
            /\ UNCHANGED <<mishaps, mem, file, envPw, code, session, attempts, lock,
                           dnsErr, dex, warned>>

\* It writes on a difference only.
GetRecord(t) ==
  /\ Up /\ task[t].step = "get"
  /\ UNCHANGED record
  /\ IF PointsTo(task[t].ip)
       THEN Synced(t, FALSE)
       ELSE /\ Goto(t, "put")
            /\ UNCHANGED <<mishaps, mem, file, envPw, code, session, attempts, lock,
                           dnsErr, dex, warned>>

PutRecord(t) ==
  /\ Up /\ task[t].step = "put"
  /\ record' = Put(task[t].ip)
  /\ Synced(t, FALSE)

\* The request is refused, or it is carried out and its answer lost.
DeSECFails(t) ==
  /\ "net" \in mishaps
  /\ Up /\ task[t].step \in {"get", "put"}
  /\ record' \in (IF task[t].step = "put" THEN {record, Put(task[t].ip)} ELSE {record})
  /\ Synced(t, TRUE)

-----------------------------------------------------------------------------
\* The process.

\* ensureSetupCode keeps the code it finds; without one setup stays closed.
Boot ==
  /\ ~Up
  /\ mem' = file
  /\ IF file.ready
       THEN code' = [code EXCEPT !.mem = FALSE]
       ELSE \/ code' = [file |-> TRUE, mem |-> TRUE]
            \/ "write" \in mishaps /\ ~code.file /\ UNCHANGED code
  /\ task' = IF file.ready /\ file.dns = "managed"
               THEN [task EXCEPT ![Startup] = [NoTask EXCEPT !.kind = "startup", !.step = "sync"]]
               ELSE task
  /\ UNCHANGED <<mishaps, file, envPw, session, attempts, lock, record, dnsErr, dex, warned>>

Crash ==
  /\ "crash" \in mishaps /\ Up
  /\ mem' = None
  /\ code' = [code EXCEPT !.mem = FALSE]
  /\ session' = None
  /\ attempts' = NoAttempts
  /\ lock' = None
  /\ dnsErr' = FALSE
  /\ warned' = FALSE
  /\ task' = [t \in Tasks |-> NoTask]
  /\ UNCHANGED <<mishaps, file, envPw, record, dex>>

Handles(r) ==
  \/ Limited(r) \/ Miss(r)
  \/ handleLoginPost(r) \/ CheckLogin(r) \/ VerifyPassword(r) \/ Hit(r)
  \/ handleSetupPost(r) \/ checkSetupCode(r) \/ SetupAssign(r) \/ SetupSave(r) \/ SetupFinish(r)
  \/ SaveEnv(r)
  \/ handleSettingsPost(r) \/ SettingsVerify(r) \/ SettingsAssign(r) \/ SettingsSave(r)
  \/ SettingsFinish(r)
  \/ handleAccountCreate(r) \/ handleAccountDelete(r) \/ AccountAssign(r)
  \/ AccountSave(r) \/ AccountSaveFails(r) \/ applyAccounts(r)

Synchronises(t) == syncWildcard(t) \/ GetRecord(t) \/ PutRecord(t) \/ DeSECFails(t)

Next ==
  \/ \E r \in Requests : Handles(r)
  \/ \E t \in Tasks : Synchronises(t)
  \/ \E c \in Clients : LockoutExpires(c)
  \/ SessionEnds \/ Boot \/ Crash

Spec == Init /\ [][Next]_vars

-----------------------------------------------------------------------------
\* Attempts that have passed the limiter and are not counted yet.
Pending(c) == {r \in Requests : /\ task[r].step \in {"verify", "hit", "miss"}
                                /\ task[r].form.from = c}

\* Although the limiter looks first and counts after a slow comparison, the
\* misses counted against an address and the attempts under way exceed the limit
\* by no more than the requests that can be under way at a time.
AttemptsBounded ==
  \A c \in Clients :
    attempts[c].count + Cardinality(Pending(c)) <= MaxLoginAttempts - 1 + Cardinality(Requests)

Quiet == Up /\ lock = None /\ ~Busy({"setup", "startup"})

\* The password that opens the interface is the one of config.yaml.
PasswordIsSaved == Quiet => mem.pw = file.pw

\* It is the one that apps get as ADMIN_PASSWORD.
PasswordIsShared == Quiet /\ mem.ready => mem.pw = envPw

\* The three copies of the password agree once no request is under way that
\* changes them: the first two unless a save has failed or a form was rejected,
\* the third unless the process has also died between the two files.
PasswordsAgree ==
  /\ mishaps \cap {"write", "typo", "early"} = {} => PasswordIsSaved
  /\ mishaps \cap {"write", "typo", "early", "crash"} = {} => PasswordIsShared

\* Stackctl keeps the wildcard record and the dashboard reports no error.
WildcardInOrder == Quiet /\ mem.ready /\ mem.dns = "managed" /\ ~dnsErr

\* The record of the type of the server's address is then this address, whatever
\* deSEC answers and wherever the process dies: the next start tries again. (The
\* record of the other type stays what it was, see WildcardIsAddress.)
WildcardFollows ==
  mishaps \cap {"write", "early"} = {} => (WildcardInOrder => PointsTo(mem.addr))

\* "makes *.{base} point at ip and nothing else" (desec.go:83). (It does not, once
\* the address has changed between IPv4 and IPv6.)
WildcardIsAddress ==
  WildcardInOrder => record = [NoRecords EXCEPT ![rrType(mem.addr)] = mem.addr]

\* After a save that failed, the accounts shown are those on disk, and Dex knows
\* them, or the admin has been told that it does not. (The latter unless the
\* process has died between the save and Dex, which then learns of them with the
\* next rewrite of its file only.)
AccountsInEffect ==
  Quiet =>
    /\ "early" \notin mishaps => mem.accounts = file.accounts
    /\ "crash" \notin mishaps => dex = mem.accounts \/ warned

\* A session goes back to the password that is in force.
SessionOfCurrentPassword == Quiet /\ session # None => session = mem.pw
=============================================================================
