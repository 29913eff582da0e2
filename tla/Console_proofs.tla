---------------------------- MODULE Console_proofs ----------------------------
(***************************************************************************)
(* Console, for any number of requests, clients, passwords, addresses and  *)
(* accounts, any login limit and any set of mishaps: types, the bound of   *)
(* the limiter, and the agreement of what is kept in more than one place,  *)
(* the password, the wildcard record and the accounts.                     *)
(*                                                                         *)
(* For every action a lemma (...Does) says once what it does and that it   *)
(* keeps TInv. Each further part of the invariant then has a lemma for the *)
(* steps that leave its state alone (...Kept) and one for each step that   *)
(* does not. That None is no member of the sets it stands beside           *)
(* (NoneAssumption) is used everywhere.                                    *)
(***************************************************************************)
EXTENDS Console, FiniteSetTheorems, TLAPS

USE NoneAssumption

-----------------------------------------------------------------------------
\* Types, and how far each kind of request has come.

Checked == {"check", "miss", "assign"}
Writing == {"save", "env", "sync", "get", "put", "finish"}
Locked  == {"settings", "create", "delete"}

TaskOK(t) ==
  LET k == task[t].kind
      s == task[t].step
      f == task[t].form
  IN \/ task[t] = NoTask
     \/ t = Startup /\ k = "startup" /\ s \in {"sync", "get", "put"}
     \/ /\ t \in Requests /\ f \in Form
        /\ \/ k = "login" /\ s \in {"check", "verify", "hit", "miss"}
           \/ /\ k = "setup" /\ f.new \in Passwords
              /\ s \in Writing \/ (s \in Checked /\ f.addr \in Addresses /\ f.dns # "off")
           \/ /\ k = "settings"
              /\ s \in Writing \/ (s \in {"current", "assign"} /\ f.addr \in Addresses /\ f.dns # "off")
           \/ k \in {"create", "delete"} /\ s \in {"assign", "save", "finish"} /\ f.account \in Accounts

TaskInv == \A t \in Tasks : TaskOK(t)

\* A request that changes settings or accounts holds the lock; nothing is under
\* way while the process is down.
HolderInv ==
  /\ \A r \in Requests : task[r].kind \in Locked => lock = r
  /\ ~Up => \A t \in Tasks : task[t] = NoTask

TInv == TypeOK /\ TaskInv /\ HolderInv

\* While setup or the synchronisation of a start goes on there is nothing else.
AloneInv ==
  "early" \notin mishaps =>
    /\ \A t, u \in Tasks : task[t].kind \in {"setup", "startup"} /\ t # u => task[u] = NoTask
    /\ Up /\ ~mem.ready => \A t \in Tasks : task[t] = NoTask \/ task[t].kind = "setup"
    /\ \A t \in Tasks : task[t].kind = "setup" /\ task[t].step \in Checked => ~mem.ready

\* Only a typing error makes a form of the settings invalid.
TypoInv ==
  \A r \in Requests :
    /\ task[r].kind = "settings" /\ task[r].step \in {"current", "assign"}
    /\ ~task[r].form.ok
    => "typo" \in mishaps

SavedInv ==
  mishaps \cap {"write", "typo", "early"} = {} /\ Up =>
    \/ mem.pw = file.pw
    \/ \E r \in Requests : task[r].kind \in {"setup", "settings"} /\ task[r].step = "save"

\* On its way to put a new password into .env.
Writes(r) == /\ task[r].kind \in {"setup", "settings"} /\ task[r].step \in {"save", "env"}
             /\ task[r].form.new # None

SharedInv ==
  mishaps \cap {"write", "typo", "early", "crash"} = {} =>
    /\ ~Up => ~file.ready
    /\ Up /\ mem.ready =>
         /\ mem.pw = envPw \/ \E r \in Requests : Writes(r)
         /\ \A r \in Requests : Writes(r) => task[r].form.new = mem.pw

Synchronising(t) ==
  \/ task[t].kind \in {"startup", "setup", "settings"} /\ task[t].step \in {"sync", "get", "put"}
  \/ task[t].kind = "setup" /\ task[t].step \in {"save", "env"}
  \/ task[t].kind = "settings" /\ task[t].step \in {"save", "env"} /\ task[t].sync

WildcardInv ==
  mishaps \cap {"write", "early"} = {} /\ Up /\ mem.ready /\ mem.dns = "managed" =>
    /\ ~dnsErr => PointsTo(mem.addr) \/ \E t \in Tasks : Synchronising(t)
    /\ \A t \in Tasks : task[t].step \in {"get", "put"} => task[t].ip = mem.addr

Changing(r) == task[r].kind \in {"create", "delete"}
Account(r)  == task[r].form.account
Before(r)   == IF task[r].kind = "create" THEN mem.accounts \ {Account(r)}
                                          ELSE mem.accounts \cup {Account(r)}

ChangeInv ==
  \A r \in Requests : Changing(r) =>
    /\ task[r].step = "assign" => (Account(r) \in mem.accounts <=> task[r].kind = "delete")
    /\ task[r].step = "save" => (Account(r) \in mem.accounts <=> task[r].kind = "create")

\* Once the change is in memory, what it was before is what is on disk; and,
\* unless the admin has been warned, what Dex knows.
AccountsInv ==
  /\ "early" \notin mishaps /\ Up =>
       /\ \A r \in Requests : Changing(r) /\ task[r].step = "save" => Before(r) = file.accounts
       /\ (\A r \in Requests : ~(Changing(r) /\ task[r].step = "save")) => mem.accounts = file.accounts
  /\ "crash" \notin mishaps =>
       /\ ~Up => dex = file.accounts
       /\ Up /\ ~warned =>
            /\ \A r \in Requests : Changing(r) /\ task[r].step = "save" => Before(r) = dex
            /\ (\A r \in Requests : ~(Changing(r) /\ task[r].step \in {"save", "finish"}))
                 => dex = mem.accounts

-----------------------------------------------------------------------------
\* What happens to the requests under way.

LEMMA NoTaskFields ==
  /\ NoTask.kind = None /\ NoTask.step = None /\ NoTask.form = None /\ NoTask.ip = None
  /\ NoTask.sync = FALSE /\ NoTask \in Task
<1>1. NoTask \in Task
  BY DEF Task
<1> QED  BY <1>1 DEF NoTask

LEMMA Fields ==
  ASSUME NEW x \in Task
  PROVE  /\ x = [kind |-> x.kind, step |-> x.step, form |-> x.form, ip |-> x.ip, sync |-> x.sync]
         /\ x.ip \in Addresses \cup {None} /\ x.sync \in BOOLEAN
         /\ x # NoTask => x.kind \in Kinds /\ x.step \in Steps /\ x.form \in Form \cup {None}
<1>1. CASE x = NoTask
  BY <1>1 DEF NoTask
<1>2. CASE x # NoTask
  BY <1>2 DEF Task
<1> QED  BY <1>1, <1>2

LEMMA GotoDoes ==
  ASSUME task \in [Tasks -> Task], NEW t \in Tasks, task[t] # NoTask, NEW s \in Steps, Goto(t, s)
  PROVE  /\ task' \in [Tasks -> Task] /\ task'[t] # NoTask
         /\ \A u \in Tasks : u # t => task'[u] = task[u]
         /\ task'[t].kind = task[t].kind /\ task'[t].step = s /\ task'[t].form = task[t].form
         /\ task'[t].ip = task[t].ip /\ task'[t].sync = task[t].sync
<1>1. task'[t] = [task[t] EXCEPT !.step = s] /\ \A u \in Tasks : u # t => task'[u] = task[u]
  BY DEF Goto
<1>2. task'[t] = [kind |-> task[t].kind, step |-> s, form |-> task[t].form, ip |-> task[t].ip,
                  sync |-> task[t].sync]
  BY <1>1, Fields
<1>3. task'[t] \in Task
  BY <1>2, Fields DEF Task
<1>4. task'[t].kind # None
  BY <1>2, Fields
<1> QED  BY <1>1, <1>2, <1>3, <1>4, NoTaskFields DEF Goto

LEMMA EndsDoes ==
  ASSUME task \in [Tasks -> Task], NEW t \in Tasks, Ends(t)
  PROVE  /\ task' \in [Tasks -> Task] /\ task'[t] = NoTask
         /\ \A u \in Tasks : u # t => task'[u] = task[u]
BY NoTaskFields DEF Ends

LEMMA BeginDoes ==
  ASSUME task \in [Tasks -> Task], NEW r \in Tasks, NEW k \in Kinds, NEW s \in Steps, NEW f \in Form,
         Begin(r, k, s, f)
  PROVE  /\ task' \in [Tasks -> Task] /\ task'[r] # NoTask /\ task[r] = NoTask /\ Up
         /\ \A u \in Tasks : u # r => task'[u] = task[u]
         /\ task'[r].kind = k /\ task'[r].step = s /\ task'[r].form = f
         /\ task'[r].ip = None /\ task'[r].sync = FALSE
         /\ "early" \notin mishaps => ~Busy({"setup", "startup"})
<1> DEFINE new == [kind |-> k, step |-> s, form |-> f, ip |-> None, sync |-> FALSE]
<1>1. [NoTask EXCEPT !.kind = k, !.step = s, !.form = f] = new
  <2>1. ASSUME NEW x \in Task
        PROVE  [x EXCEPT !.kind = k, !.step = s, !.form = f]
                 = [kind |-> k, step |-> s, form |-> f, ip |-> x.ip, sync |-> x.sync]
    <3>1. x = [kind |-> x.kind, step |-> x.step, form |-> x.form, ip |-> x.ip, sync |-> x.sync]
      BY Fields
    <3>2. \A y : y = [x EXCEPT !.kind = k] =>
            y = [kind |-> k, step |-> x.step, form |-> x.form, ip |-> x.ip, sync |-> x.sync]
      BY <3>1
    <3>3. ASSUME NEW y, y = [x EXCEPT !.kind = k]
          PROVE  \A z : z = [y EXCEPT !.step = s] =>
            z = [kind |-> k, step |-> s, form |-> x.form, ip |-> x.ip, sync |-> x.sync]
      <4>1. y = [kind |-> k, step |-> x.step, form |-> x.form, ip |-> x.ip, sync |-> x.sync]
        BY <3>2, <3>3
      <4> HIDE <3>1
      <4> QED  BY <4>1
    <3>4. ASSUME NEW z,
                 z = [kind |-> k, step |-> s, form |-> x.form, ip |-> x.ip, sync |-> x.sync]
          PROVE  [z EXCEPT !.form = f] = [kind |-> k, step |-> s, form |-> f, ip |-> x.ip, sync |-> x.sync]
      BY <3>4
    <3> QED  BY ONLY <3>3, <3>4
  <2> QED  BY <2>1, NoTaskFields
<1>2. new \in Task /\ new.kind # None
  BY DEF Task
<1>3. task' = [task EXCEPT ![r] = new]
  BY <1>1 DEF Begin
<1>4. new.kind = k /\ new.step = s /\ new.form = f /\ new.ip = None /\ new.sync = FALSE
  OBVIOUS
<1> HIDE DEF new
<1>5. task' \in [Tasks -> Task] /\ task'[r] = new /\ \A u \in Tasks : u # r => task'[u] = task[u]
  BY <1>2, <1>3
<1> QED  BY <1>2, <1>4, <1>5, NoTaskFields DEF Begin

LEMMA NoFormType ==
  /\ NoForm \in Form
  /\ \A p \in Passwords \cup {None} :
       /\ [NoForm EXCEPT !.new = p] \in Form
       /\ [NoForm EXCEPT !.new = p].new = p
<1> DEFINE c == CHOOSE c \in Clients : TRUE
<1>1. c \in Clients
  BY ClientsAssumption
<1> HIDE DEF c
<1>2. NoForm = [from |-> c, pw |-> None, new |-> None, addr |-> None, dns |-> "off",
                account |-> None, ok |-> TRUE]
  BY DEF NoForm, c
<1>3. NoForm \in Form
  BY <1>1, <1>2 DEF Form, Dns
<1>4. ASSUME NEW p \in Passwords \cup {None}
      PROVE  [NoForm EXCEPT !.new = p] \in Form /\ [NoForm EXCEPT !.new = p].new = p
  BY <1>1, <1>2 DEF Form, Dns
<1> QED  BY <1>3, <1>4

\* The Config has taken the form over.
LEMMA AssignDoes ==
  ASSUME task \in [Tasks -> Task], NEW r \in Tasks, task[r] # NoTask, task[r].form \in Form,
         NEW b \in BOOLEAN,
         task' = [task EXCEPT ![r].step = "save", ![r].form = Rest(task[r].form), ![r].sync = b]
  PROVE  /\ task' \in [Tasks -> Task] /\ task'[r] # NoTask
         /\ \A u \in Tasks : u # r => task'[u] = task[u]
         /\ task'[r].kind = task[r].kind /\ task'[r].step = "save" /\ task'[r].form \in Form
         /\ task'[r].form.new = task[r].form.new /\ task'[r].ip = task[r].ip
         /\ task'[r].sync = b
<1>1. Rest(task[r].form) \in Form /\ Rest(task[r].form).new = task[r].form.new
  <2>1. task[r].form.new \in Passwords \cup {None}
    BY DEF Form
  <2> QED  BY <2>1, NoFormType DEF Rest
<1>2. task'[r] = [kind |-> task[r].kind, step |-> "save", form |-> Rest(task[r].form),
                  ip |-> task[r].ip, sync |-> b]
  <2>1. task[r] = [kind |-> task[r].kind, step |-> task[r].step, form |-> task[r].form,
                   ip |-> task[r].ip, sync |-> task[r].sync]
    BY Fields
  <2>2. task'[r] = [[[task[r] EXCEPT !.step = "save"] EXCEPT !.form = Rest(task[r].form)] EXCEPT !.sync = b]
    OBVIOUS
  <2> QED  BY <2>1, <2>2
<1>3. task'[r] \in Task
  BY <1>1, <1>2, Fields DEF Task, Steps
<1> QED  BY <1>1, <1>2, <1>3, Fields, NoTaskFields

LEMMA ConfigFields ==
  ASSUME NEW c \in Config
  PROVE  /\ c = [ready |-> c.ready, pw |-> c.pw, addr |-> c.addr, dns |-> c.dns, accounts |-> c.accounts]
         /\ c.ready \in BOOLEAN /\ c.pw \in Passwords \cup {None} /\ c.addr \in Addresses \cup {None}
         /\ c.dns \in Dns /\ c.accounts \in SUBSET Accounts
         /\ c.ready => c.pw # None /\ c.addr # None /\ c.dns # "off"
         /\ c # None
BY DEF Config

LEMMA ConfigOf ==
  ASSUME NEW b \in BOOLEAN, NEW p \in Passwords \cup {None}, NEW a \in Addresses \cup {None},
         NEW d \in Dns, NEW s \in SUBSET Accounts, b => p # None /\ a # None /\ d # "off"
  PROVE  [ready |-> b, pw |-> p, addr |-> a, dns |-> d, accounts |-> s] \in Config
BY DEF Config

LEMMA FormFields ==
  ASSUME NEW f \in Form
  PROVE  /\ f.from \in Clients /\ f.pw \in Passwords \cup {None} /\ f.new \in Passwords \cup {None}
         /\ f.addr \in Addresses \cup {None} /\ f.dns \in Dns /\ f.account \in Accounts \cup {None}
BY DEF Form

\* What a handler does to the Config in memory.
LEMMA SetupSets ==
  ASSUME mem \in Config, NEW f,
         mem' = [mem EXCEPT !.ready = TRUE, !.pw = f.new, !.addr = f.addr, !.dns = f.dns]
  PROVE  /\ mem'.ready = TRUE /\ mem'.pw = f.new /\ mem'.addr = f.addr /\ mem'.dns = f.dns
         /\ mem'.accounts = mem.accounts
         /\ f \in Form /\ f.new # None /\ f.addr # None /\ f.dns # "off" => mem' \in Config
<1>1. mem = [ready |-> mem.ready, pw |-> mem.pw, addr |-> mem.addr, dns |-> mem.dns,
             accounts |-> mem.accounts]
  BY ConfigFields
<1>2. mem' = [ready |-> TRUE, pw |-> f.new, addr |-> f.addr, dns |-> f.dns, accounts |-> mem.accounts]
  BY <1>1
<1>3. ASSUME f \in Form, f.new # None, f.addr # None, f.dns # "off"
      PROVE  mem' \in Config
  <2>1. mem.accounts \in SUBSET Accounts /\ f.new \in Passwords \cup {None}
        /\ f.addr \in Addresses \cup {None} /\ f.dns \in Dns
    BY <1>3, ConfigFields, FormFields
  <2> QED  BY <1>2, <1>3, <2>1 DEF Config
<1> QED  BY <1>2, <1>3

LEMMA SetupTakesBack ==
  ASSUME mem \in Config, mem' = [mem EXCEPT !.ready = FALSE]
  PROVE  /\ mem' \in Config /\ mem'.ready = FALSE /\ mem'.pw = mem.pw /\ mem'.addr = mem.addr
         /\ mem'.dns = mem.dns /\ mem'.accounts = mem.accounts
<1>1. mem = [ready |-> mem.ready, pw |-> mem.pw, addr |-> mem.addr, dns |-> mem.dns,
             accounts |-> mem.accounts]
  BY ConfigFields
<1>2. mem' = [ready |-> FALSE, pw |-> mem.pw, addr |-> mem.addr, dns |-> mem.dns,
              accounts |-> mem.accounts]
  BY <1>1
<1>3. mem' \in Config
  BY <1>2, ConfigFields DEF Config
<1> QED  BY <1>2, <1>3

LEMMA AccountsSet ==
  ASSUME mem \in Config, NEW s \in SUBSET Accounts, mem' = [mem EXCEPT !.accounts = s]
  PROVE  /\ mem' \in Config /\ mem'.ready = mem.ready /\ mem'.pw = mem.pw /\ mem'.addr = mem.addr
         /\ mem'.dns = mem.dns /\ mem'.accounts = s
<1>1. mem = [ready |-> mem.ready, pw |-> mem.pw, addr |-> mem.addr, dns |-> mem.dns,
             accounts |-> mem.accounts]
  BY ConfigFields
<1>2. mem' = [ready |-> mem.ready, pw |-> mem.pw, addr |-> mem.addr, dns |-> mem.dns, accounts |-> s]
  BY <1>1
<1> QED  BY <1>2, ConfigFields, ConfigOf

LEMMA SettingsSet ==
  ASSUME mem \in Config, NEW f \in Form, NEW w,
         w = IF f.new = None THEN mem ELSE [mem EXCEPT !.pw = f.new]
  PROVE  /\ w \in Config /\ w.ready = mem.ready /\ w.addr = mem.addr /\ w.dns = mem.dns
         /\ w.accounts = mem.accounts
         /\ w.pw = IF f.new = None THEN mem.pw ELSE f.new
         /\ mem' = [w EXCEPT !.addr = f.addr, !.dns = f.dns] =>
              /\ mem'.ready = mem.ready /\ mem'.pw = w.pw /\ mem'.addr = f.addr /\ mem'.dns = f.dns
              /\ mem'.accounts = mem.accounts
              /\ f.addr # None /\ f.dns # "off" => mem' \in Config
<1>1. mem = [ready |-> mem.ready, pw |-> mem.pw, addr |-> mem.addr, dns |-> mem.dns,
             accounts |-> mem.accounts]
  BY ConfigFields
<1>2. w = [ready |-> mem.ready, pw |-> IF f.new = None THEN mem.pw ELSE f.new, addr |-> mem.addr,
           dns |-> mem.dns, accounts |-> mem.accounts]
  <2>1. CASE f.new = None
    BY <1>1, <2>1
  <2>2. CASE f.new # None
    BY <1>1, <2>2
  <2> QED  BY <2>1, <2>2
<1>3. w \in Config
  BY <1>2, ConfigFields, ConfigOf, FormFields
<1>4. ASSUME mem' = [w EXCEPT !.addr = f.addr, !.dns = f.dns]
      PROVE  mem' = [ready |-> mem.ready, pw |-> w.pw, addr |-> f.addr, dns |-> f.dns,
                     accounts |-> mem.accounts]
  <2>1. w = [ready |-> mem.ready, pw |-> w.pw, addr |-> mem.addr, dns |-> mem.dns,
             accounts |-> mem.accounts]
    BY <1>2
  <2> QED  BY <1>4, <2>1
<1>5. ASSUME mem' = [w EXCEPT !.addr = f.addr, !.dns = f.dns], f.addr # None, f.dns # "off"
      PROVE  mem' \in Config
  <2>1. w.pw \in Passwords \cup {None} /\ (mem.ready => w.pw # None)
    BY <1>2, <1>3, ConfigFields
  <2> QED  BY <1>4, <1>5, <2>1, ConfigFields, ConfigOf, FormFields
<1> QED  BY <1>2, <1>3, <1>4, <1>5

\* What the limiter does to the count of an address.
AttemptsType == attempts \in [Clients -> [count : Nat, locked : BOOLEAN]]

LEMMA AdmitDoes ==
  ASSUME AttemptsType, NEW c \in Clients, Admit(c)
  PROVE  /\ AttemptsType' /\ \A d \in Clients : d # c => attempts'[d] = attempts[d]
         /\ attempts'[c].count < MaxLoginAttempts
BY LimitAssumption DEF AttemptsType, Admit, NoAttempts

LEMMA FailureDoes ==
  ASSUME AttemptsType, NEW c \in Clients, recordFailure(c)
  PROVE  /\ AttemptsType' /\ \A d \in Clients : d # c => attempts'[d] = attempts[d]
         /\ attempts'[c].count = attempts[c].count + 1
<1> DEFINE new == [count |-> attempts[c].count + 1,
                   locked |-> IF attempts[c].count + 1 >= MaxLoginAttempts THEN TRUE
                                                                         ELSE attempts[c].locked]
<1>1. attempts' = [attempts EXCEPT ![c] = new]
  BY DEF recordFailure
<1>2. new \in [count : Nat, locked : BOOLEAN] /\ new.count = attempts[c].count + 1
  <2>1. attempts[c].count + 1 \in Nat /\ attempts[c].locked \in BOOLEAN
    BY DEF AttemptsType
  <2>2. CASE attempts[c].count + 1 >= MaxLoginAttempts
    <3>1. new = [count |-> attempts[c].count + 1, locked |-> TRUE]
      BY <2>2
    <3> QED  BY <2>1, <3>1
  <2>3. CASE ~(attempts[c].count + 1 >= MaxLoginAttempts)
    <3>1. new = [count |-> attempts[c].count + 1, locked |-> attempts[c].locked]
      BY <2>3
    <3> QED  BY <2>1, <3>1
  <2> QED  BY <2>2, <2>3
<1> HIDE DEF new
<1> QED  BY <1>1, <1>2 DEF AttemptsType

LEMMA SuccessDoes ==
  ASSUME AttemptsType, NEW c \in Clients, recordSuccess(c)
  PROVE  /\ AttemptsType' /\ \A d \in Clients : d # c => attempts'[d] = attempts[d]
         /\ attempts'[c].count = 0
BY DEF AttemptsType, recordSuccess, NoAttempts

LEMMA LockoutDoes ==
  ASSUME AttemptsType, NEW c \in Clients, LockoutExpires(c)
  PROVE  AttemptsType' /\ \A d \in Clients : attempts'[d].count = attempts[d].count
<1>1. attempts' = [attempts EXCEPT ![c].locked = FALSE]
  BY DEF LockoutExpires
<1>2. AttemptsType'
  BY <1>1 DEF AttemptsType
<1>3. ASSUME NEW d \in Clients
      PROVE  attempts'[d].count = attempts[d].count
  BY <1>1 DEF AttemptsType
<1> QED  BY <1>2, <1>3

-----------------------------------------------------------------------------
\* A step of one request, or of the synchronisation of a start.

LEMMA Alone ==
  ASSUME TaskInv, NEW t \in Tasks, \A u \in Tasks : u # t => task'[u] = task[u], TaskOK(t)'
  PROVE  TaskInv'
BY DEF TaskInv, TaskOK

LEMMA HolderKept ==
  ASSUME HolderInv, NEW t \in Tasks, Up, Up', \A u \in Tasks : u # t => task'[u] = task[u],
         \/ lock' = lock /\ task'[t].kind = task[t].kind
         \/ lock' = lock /\ task'[t].kind \notin Locked
         \/ lock' = None /\ task'[t] = NoTask /\ t \in Requests /\ task[t].kind \in Locked
         \/ lock = None /\ lock' = t
  PROVE  HolderInv'
<1>1. ASSUME NEW r \in Requests, task'[r].kind \in Locked
      PROVE  lock' = r
  BY <1>1, NoTaskFields DEF HolderInv, Tasks, Locked, Kinds
<1> QED  BY <1>1 DEF HolderInv

\* Nothing else changes.
LEMMA SyncedDoes ==
  ASSUME TypeOK, NEW t \in Tasks, task[t] # NoTask, NEW e \in BOOLEAN, Synced(t, e)
  PROVE  /\ task' \in [Tasks -> Task]
         /\ \A u \in Tasks : u # t => task'[u] = task[u]
         /\ t = Startup => task'[t] = NoTask
         /\ t # Startup => /\ task'[t].kind = task[t].kind /\ task'[t].step = "finish"
                           /\ task'[t].form = task[t].form /\ task'[t] # NoTask
                           /\ task'[t].ip = None
         /\ dnsErr' = e
         /\ UNCHANGED <<mishaps, mem, file, envPw, code, session, attempts, lock, dex, warned>>
<1>1. task \in [Tasks -> Task]
  BY DEF TypeOK
<1>2. CASE t = Startup
  BY <1>1, <1>2, EndsDoes DEF Synced
<1>3. CASE t # Startup
  <2>1. task[t] = [kind |-> task[t].kind, step |-> task[t].step, form |-> task[t].form,
                   ip |-> task[t].ip, sync |-> task[t].sync]
    BY <1>1, Fields
  <2>2. task' = [task EXCEPT ![t].step = "finish", ![t].ip = None]
    BY <1>3 DEF Synced
  <2>3. task'[t] = [[task[t] EXCEPT !.step = "finish"] EXCEPT !.ip = None]
        /\ \A u \in Tasks : u # t => task'[u] = task[u]
    BY <1>1, <2>2
  <2>4. task'[t] = [kind |-> task[t].kind, step |-> "finish", form |-> task[t].form,
                    ip |-> None, sync |-> task[t].sync]
    BY <2>1, <2>3
  <2>5. task'[t] \in Task /\ task'[t].kind # None
    <3>1. /\ task[t].kind \in Kinds /\ task[t].form \in Form \cup {None}
          /\ task[t].sync \in BOOLEAN /\ "finish" \in Steps
      BY <1>1, Fields DEF Steps
    <3> QED  BY <2>4, <3>1 DEF Task
  <2> QED  BY <1>1, <1>3, <2>2, <2>3, <2>4, <2>5, NoTaskFields DEF Synced
<1> QED  BY <1>2, <1>3

Others(t)   == \A u \in Tasks : u # t => task'[u] = task[u]
Ended(t)    == Others(t) /\ task'[t] = NoTask
Moved(t, s) == /\ Others(t) /\ task'[t] # NoTask
               /\ task'[t].kind = task[t].kind /\ task'[t].step = s /\ task'[t].form = task[t].form
               /\ task'[t].ip = task[t].ip /\ task'[t].sync = task[t].sync
Began(t, k, s) == /\ Others(t) /\ task[t] = NoTask /\ task'[t] # NoTask
                  /\ task'[t].kind = k /\ task'[t].step = s /\ task'[t].form \in Form
                  /\ task'[t].ip = None /\ task'[t].sync = FALSE
                  /\ "early" \notin mishaps => ~Busy({"setup", "startup"})

LEMMA BeganBy ==
  ASSUME TInv, NEW r \in Requests, NEW k \in Kinds, NEW s \in Steps, NEW f \in Form, Begin(r, k, s, f)
  PROVE  Began(r, k, s) /\ task'[r].form = f /\ task' \in [Tasks -> Task]
<1>1. task \in [Tasks -> Task] /\ r \in Tasks
  BY DEF TInv, TypeOK, Tasks
<1> QED  BY <1>1, BeginDoes DEF Began, Others

LEMMA UnderWay ==
  ASSUME TInv, NEW t \in Tasks, task[t].step \in Steps
  PROVE  task[t] # NoTask /\ TaskOK(t) /\ task \in [Tasks -> Task]
BY NoTaskFields DEF TInv, TaskInv, TypeOK

LEMMA MissDoes ==
  ASSUME TInv, NEW r \in Requests, Miss(r)
  PROVE  /\ TInv' /\ Ended(r)
         /\ task[r].kind \in {"login", "setup"} /\ task[r].form.from \in Clients
<1>1. r \in Tasks /\ task[r] # NoTask /\ TaskOK(r)
  BY UnderWay DEF Miss, Steps, Tasks
<1>2. task[r].kind \in {"login", "setup"} /\ task[r].form.from \in Clients
  BY <1>1, FormFields, StartupAssumption DEF Miss, TaskOK, Writing, Checked
<1>3. Ended(r) /\ task' \in [Tasks -> Task]
  BY <1>1, EndsDoes DEF Miss, TInv, TypeOK, Ended, Others
<1>4. TypeOK'
  BY <1>2, <1>3, FailureDoes DEF Miss, TInv, TypeOK, AttemptsType
<1>5. TaskInv'
  BY <1>1, <1>3, Alone DEF TInv, Ended, Others, TaskOK
<1>6. HolderInv'
  BY <1>1, <1>3, HolderKept, NoTaskFields DEF Miss, TInv, Ended, Others, Up, Locked, Kinds
<1> QED  BY <1>2, <1>3, <1>4, <1>5, <1>6 DEF TInv

LEMMA LimitedDoes ==
  ASSUME TInv, NEW r \in Requests, Limited(r)
  PROVE  TInv' /\ Ended(r) /\ task[r].kind \in {"login", "setup"}
<1>1. r \in Tasks /\ task[r] # NoTask /\ TaskOK(r)
  BY UnderWay DEF Limited, Steps, Tasks
<1>2. task[r].kind \in {"login", "setup"}
  BY <1>1, StartupAssumption DEF Limited, TaskOK, Writing
<1>3. Ended(r) /\ task' \in [Tasks -> Task]
  BY <1>1, EndsDoes DEF Limited, TInv, TypeOK, Ended, Others
<1>4. TypeOK'
  BY <1>3 DEF Limited, TInv, TypeOK
<1>5. TaskInv'
  BY <1>1, <1>3, Alone DEF TInv, Ended, Others, TaskOK
<1>6. HolderInv'
  BY <1>1, <1>3, HolderKept, NoTaskFields DEF Limited, TInv, Ended, Others, Up, Locked, Kinds
<1> QED  BY <1>2, <1>3, <1>4, <1>5, <1>6 DEF TInv

LEMMA LoginDoes ==
  ASSUME TInv, NEW r \in Requests, handleLoginPost(r)
  PROVE  TInv' /\ Began(r, "login", "check")
<1>1. PICK c \in Clients, p \in Passwords :
        Begin(r, "login", "check", [NoForm EXCEPT !.from = c, !.pw = p])
  BY DEF handleLoginPost
<1>2. [NoForm EXCEPT !.from = c, !.pw = p] \in Form
  BY NoFormType DEF Form
<1>3. Began(r, "login", "check") /\ task' \in [Tasks -> Task]
  BY <1>1, <1>2, BeganBy DEF Kinds, Steps
<1>4. TypeOK'
  BY <1>3 DEF handleLoginPost, TInv, TypeOK
<1>5. TaskInv'
  BY <1>3, Alone DEF TInv, Began, Others, TaskOK, Tasks
<1>6. HolderInv'
  BY <1>3, HolderKept DEF handleLoginPost, TInv, Began, Others, Up, Locked, Tasks
<1> QED  BY <1>3, <1>4, <1>5, <1>6 DEF TInv

LEMMA CheckLoginDoes ==
  ASSUME TInv, NEW r \in Requests, CheckLogin(r)
  PROVE  TInv' /\ Moved(r, "verify") /\ task[r].form.from \in Clients
<1>1. r \in Tasks /\ task[r] # NoTask /\ TaskOK(r)
  BY UnderWay DEF CheckLogin, At, Steps, Tasks
<1>2. task[r].form \in Form /\ task[r].form.from \in Clients
  BY <1>1, FormFields, StartupAssumption DEF CheckLogin, At, TaskOK
<1>3. Moved(r, "verify") /\ task' \in [Tasks -> Task]
  BY <1>1, GotoDoes DEF CheckLogin, TInv, TypeOK, Moved, Others, Steps
<1>4. TypeOK'
  BY <1>2, <1>3, AdmitDoes DEF CheckLogin, TInv, TypeOK, AttemptsType
<1>5. TaskInv'
  BY <1>1, <1>2, <1>3, Alone DEF CheckLogin, At, TInv, Moved, Others, TaskOK
<1>6. HolderInv'
  BY <1>1, <1>3, HolderKept DEF CheckLogin, At, TInv, Moved, Others, Up
<1> QED  BY <1>2, <1>3, <1>4, <1>5, <1>6 DEF TInv

LEMMA VerifyDoes ==
  ASSUME TInv, NEW r \in Requests, VerifyPassword(r)
  PROVE  TInv' /\ (Moved(r, "hit") \/ Moved(r, "miss"))
<1>1. r \in Tasks /\ task[r] # NoTask /\ TaskOK(r)
  BY UnderWay DEF VerifyPassword, At, Steps, Tasks
<1>2. PICK s \in {"hit", "miss"} : Goto(r, s)
  BY DEF VerifyPassword
<1>3. Moved(r, s) /\ task' \in [Tasks -> Task]
  BY <1>1, <1>2, GotoDoes DEF TInv, TypeOK, Moved, Others, Steps
<1>4. TypeOK'
  BY <1>3 DEF VerifyPassword, TInv, TypeOK
<1>5. TaskInv'
  BY <1>1, <1>3, Alone, StartupAssumption DEF VerifyPassword, At, TInv, Moved, Others, TaskOK
<1>6. HolderInv'
  BY <1>1, <1>3, HolderKept DEF VerifyPassword, At, TInv, Moved, Others, Up
<1> QED  BY <1>2, <1>3, <1>4, <1>5, <1>6 DEF TInv

LEMMA HitDoes ==
  ASSUME TInv, NEW r \in Requests, Hit(r)
  PROVE  TInv' /\ Ended(r) /\ task[r].form.from \in Clients
<1>1. r \in Tasks /\ task[r] # NoTask /\ TaskOK(r)
  BY UnderWay DEF Hit, At, Steps, Tasks
<1>2. task[r].form.from \in Clients /\ task[r].form.pw \in Passwords \cup {None}
  BY <1>1, FormFields, StartupAssumption DEF Hit, At, TaskOK
<1>3. Ended(r) /\ task' \in [Tasks -> Task]
  BY <1>1, EndsDoes DEF Hit, TInv, TypeOK, Ended, Others
<1>4. TypeOK'
  BY <1>2, <1>3, SuccessDoes DEF Hit, TInv, TypeOK, AttemptsType
<1>5. TaskInv'
  BY <1>1, <1>3, Alone DEF TInv, Ended, Others, TaskOK
<1>6. HolderInv'
  BY <1>1, <1>3, HolderKept, NoTaskFields DEF Hit, At, TInv, Ended, Others, Up, Locked, Kinds
<1> QED  BY <1>2, <1>3, <1>4, <1>5, <1>6 DEF TInv

LEMMA SetupPostDoes ==
  ASSUME TInv, NEW r \in Requests, handleSetupPost(r)
  PROVE  TInv' /\ Began(r, "setup", "check")
<1>1. PICK c \in Clients, p \in Passwords, a \in Addresses, d \in Dns \ {"off"}, ok \in BOOLEAN :
        Begin(r, "setup", "check", [NoForm EXCEPT !.from = c, !.new = p, !.addr = a, !.dns = d, !.ok = ok])
  BY DEF handleSetupPost
<1> DEFINE f == [NoForm EXCEPT !.from = c, !.new = p, !.addr = a, !.dns = d, !.ok = ok]
<1>2. f \in Form /\ f.new = p /\ f.addr = a /\ f.dns = d
  <2>1. NoForm \in Form
    BY NoFormType
  <2> QED  BY <2>1 DEF Form
<1> HIDE DEF f
<1>3. Began(r, "setup", "check") /\ task'[r].form = f /\ task' \in [Tasks -> Task]
  BY <1>1, <1>2, BeganBy DEF Kinds, Steps, f
<1>4. TypeOK'
  BY <1>3 DEF handleSetupPost, TInv, TypeOK
<1>5. TaskInv'
  BY <1>2, <1>3, Alone DEF TInv, Began, Others, TaskOK, Tasks, Checked
<1>6. HolderInv'
  BY <1>3, HolderKept DEF handleSetupPost, TInv, Began, Others, Up, Locked, Tasks
<1> QED  BY <1>3, <1>4, <1>5, <1>6 DEF TInv

LEMMA CheckCodeDoes ==
  ASSUME TInv, NEW r \in Requests, checkSetupCode(r)
  PROVE  TInv' /\ (Moved(r, "assign") \/ Moved(r, "miss")) /\ task[r].form.from \in Clients
<1>1. r \in Tasks /\ task[r] # NoTask /\ TaskOK(r)
  BY UnderWay DEF checkSetupCode, At, Steps, Tasks
<1>2. task[r].form \in Form /\ task[r].form.from \in Clients
  BY <1>1, FormFields, StartupAssumption DEF checkSetupCode, At, TaskOK
<1>3. PICK s \in {"assign", "miss"} : Goto(r, s)
  BY DEF checkSetupCode
<1>4. Moved(r, s) /\ task' \in [Tasks -> Task]
  BY <1>1, <1>3, GotoDoes DEF TInv, TypeOK, Moved, Others, Steps
<1>5. TypeOK'
  BY <1>2, <1>4, AdmitDoes DEF checkSetupCode, TInv, TypeOK, AttemptsType
<1>6. TaskInv'
  BY <1>1, <1>2, <1>4, Alone DEF checkSetupCode, At, TInv, Moved, Others, TaskOK, Writing, Checked
<1>7. HolderInv'
  BY <1>1, <1>4, HolderKept DEF checkSetupCode, At, TInv, Moved, Others, Up
<1> QED  BY <1>2, <1>3, <1>4, <1>5, <1>6, <1>7 DEF TInv

\* The form has gone into the Config; what is left of it is the new password.
Assigned(t) == /\ Others(t) /\ task'[t] # NoTask
               /\ task'[t].kind = task[t].kind /\ task'[t].step = "save"
               /\ task'[t].form \in Form /\ task'[t].form.new = task[t].form.new
               /\ task'[t].ip = task[t].ip /\ task'[t].sync \in BOOLEAN

LEMMA SetupAssignDoes ==
  ASSUME TInv, NEW r \in Requests, SetupAssign(r)
  PROVE  /\ TInv' /\ Assigned(r)
         /\ mem'.ready = TRUE /\ mem'.pw = task[r].form.new /\ mem'.pw \in Passwords
         /\ mem'.accounts = mem.accounts
<1>1. r \in Tasks /\ task[r] # NoTask /\ TaskOK(r) /\ mem \in Config
  BY UnderWay DEF SetupAssign, At, Steps, Tasks, Up, TInv, TypeOK
<1>2. /\ task[r].form \in Form /\ task[r].form.new \in Passwords /\ task[r].form.addr \in Addresses
      /\ task[r].form.dns # "off"
  BY <1>1, StartupAssumption DEF SetupAssign, At, TaskOK, Writing
<1>3. /\ mem'.ready = TRUE /\ mem'.pw = task[r].form.new /\ mem'.accounts = mem.accounts
      /\ mem' \in Config
  <2>1. mem' = [mem EXCEPT !.ready = TRUE, !.pw = task[r].form.new, !.addr = task[r].form.addr,
                           !.dns = task[r].form.dns]
    BY DEF SetupAssign
  <2> QED  BY <1>1, <1>2, <2>1, SetupSets
<1>4. Assigned(r) /\ task' \in [Tasks -> Task]
  <2>1. task' = [task EXCEPT ![r].step = "save", ![r].form = Rest(task[r].form)]
    BY DEF SetupAssign
  <2>2. task[r] = [kind |-> task[r].kind, step |-> task[r].step, form |-> task[r].form,
                   ip |-> task[r].ip, sync |-> task[r].sync] /\ task[r].sync \in BOOLEAN
    BY <1>1, Fields DEF TInv, TypeOK
  <2>3. Rest(task[r].form) \in Form /\ Rest(task[r].form).new = task[r].form.new
    BY <1>2, NoFormType DEF Rest
  <2>4. task'[r] = [[task[r] EXCEPT !.step = "save"] EXCEPT !.form = Rest(task[r].form)]
        /\ Others(r)
    BY <1>1, <2>1 DEF TInv, TypeOK, Others
  <2>5. task'[r] = [kind |-> task[r].kind, step |-> "save", form |-> Rest(task[r].form),
                    ip |-> task[r].ip, sync |-> task[r].sync]
    BY <2>2, <2>4
  <2>6. task'[r] \in Task /\ task'[r] # NoTask
    <3>1. "save" \in Steps /\ task[r].kind \in Kinds /\ task[r].ip \in Addresses \cup {None}
      BY <1>1, Fields DEF Steps, TInv, TypeOK
    <3> QED  BY <2>2, <2>3, <2>5, <3>1, NoTaskFields DEF Task
  <2> QED  BY <1>1, <2>1, <2>2, <2>3, <2>4, <2>5, <2>6 DEF Assigned, Others, TInv, TypeOK
<1>5. TypeOK'
  BY <1>3, <1>4 DEF SetupAssign, TInv, TypeOK
<1>6. TaskInv'
  BY <1>1, <1>2, <1>4, Alone DEF SetupAssign, At, TInv, Assigned, Others, TaskOK, Writing
<1>7. HolderInv'
  BY <1>1, <1>3, <1>4, ConfigFields, HolderKept DEF SetupAssign, At, TInv, Assigned, Others, Up
<1> QED  BY <1>2, <1>3, <1>4, <1>5, <1>6, <1>7 DEF TInv

LEMMA SetupSaveDoes ==
  ASSUME TInv, NEW r \in Requests, SetupSave(r)
  PROVE  /\ TInv'
         /\ \/ Moved(r, "env") /\ file' = mem /\ mem' = mem
            \/ /\ "write" \in mishaps /\ Ended(r) /\ file' = file /\ mem'.ready = FALSE
               /\ mem'.accounts = mem.accounts /\ Up'
<1>1. r \in Tasks /\ task[r] # NoTask /\ TaskOK(r) /\ mem \in Config /\ mem # None
  BY UnderWay DEF SetupSave, At, Steps, Tasks, Up, TInv, TypeOK
<1>2. task[r].form \in Form /\ task[r].form.new \in Passwords
  BY <1>1, StartupAssumption DEF SetupSave, At, TaskOK
<1>3. CASE file' = mem /\ Goto(r, "env") /\ UNCHANGED mem
  <2>1. Moved(r, "env") /\ task' \in [Tasks -> Task]
    BY <1>1, <1>3, GotoDoes DEF TInv, TypeOK, Moved, Others, Steps
  <2>2. TypeOK'
    BY <1>1, <1>3, <2>1 DEF SetupSave, TInv, TypeOK
  <2>3. TaskInv'
    BY <1>1, <1>2, <2>1, Alone DEF SetupSave, At, TInv, Moved, Others, TaskOK, Writing
  <2>4. HolderInv'
    BY <1>1, <1>3, <2>1, HolderKept DEF SetupSave, At, TInv, Moved, Others, Up
  <2> QED  BY <1>3, <2>1, <2>2, <2>3, <2>4 DEF TInv
<1>4. CASE "write" \in mishaps /\ mem' = [mem EXCEPT !.ready = FALSE] /\ Ends(r) /\ UNCHANGED file
  <2>1. Ended(r) /\ task' \in [Tasks -> Task]
    BY <1>1, <1>4, EndsDoes DEF TInv, TypeOK, Ended, Others
  <2>2. mem' \in Config /\ mem'.ready = FALSE /\ mem'.accounts = mem.accounts /\ mem' # None
    BY <1>1, <1>4, SetupTakesBack, ConfigFields
  <2>3. TypeOK'
    BY <1>4, <2>1, <2>2 DEF SetupSave, TInv, TypeOK
  <2>4. TaskInv'
    BY <1>1, <2>1, Alone DEF TInv, Ended, Others, TaskOK
  <2>5. HolderInv'
    BY <1>1, <2>1, <2>2, HolderKept, NoTaskFields DEF SetupSave, At, TInv, Ended, Others, Up, Locked, Kinds
  <2> QED  BY <1>4, <2>1, <2>2, <2>3, <2>4, <2>5 DEF TInv, Up
<1> QED  BY <1>3, <1>4 DEF SetupSave

LEMMA SaveEnvDoes ==
  ASSUME TInv, NEW r \in Requests, SaveEnv(r)
  PROVE  /\ TInv' /\ (Moved(r, "sync") \/ Moved(r, "finish"))
         /\ task[r].kind \in {"setup", "settings"}
         /\ task[r].kind = "setup" \/ task[r].sync => Moved(r, "sync")
<1>1. r \in Tasks /\ task[r] # NoTask /\ TaskOK(r)
  BY UnderWay DEF SaveEnv, Steps, Tasks
<1>2. task[r].form \in Form /\ task[r].kind \in {"setup", "settings"}
      /\ (task[r].kind = "setup" => task[r].form.new \in Passwords)
  BY <1>1, StartupAssumption DEF SaveEnv, TaskOK
<1>3. PICK s \in {"sync", "finish"} :
        Goto(r, s) /\ (task[r].kind = "setup" \/ task[r].sync => s = "sync")
  BY DEF SaveEnv
<1>4. Moved(r, s) /\ task' \in [Tasks -> Task]
  BY <1>1, <1>3, GotoDoes DEF TInv, TypeOK, Moved, Others, Steps
<1>5. TypeOK'
  BY <1>2, <1>4, FormFields DEF SaveEnv, TInv, TypeOK
<1>6. TaskInv'
  BY <1>1, <1>2, <1>4, Alone DEF SaveEnv, TInv, Moved, Others, TaskOK, Writing
<1>7. HolderInv'
  BY <1>1, <1>4, HolderKept DEF SaveEnv, TInv, Moved, Others, Up
<1> QED  BY <1>2, <1>3, <1>4, <1>5, <1>6, <1>7 DEF TInv

LEMMA SetupFinishDoes ==
  ASSUME TInv, NEW r \in Requests, SetupFinish(r)
  PROVE  TInv' /\ Ended(r)
<1>1. r \in Tasks /\ task[r] # NoTask /\ TaskOK(r)
  BY UnderWay DEF SetupFinish, At, Steps, Tasks
<1>2. task[r].form.new \in Passwords
  BY <1>1, StartupAssumption DEF SetupFinish, At, TaskOK
<1>3. Ended(r) /\ task' \in [Tasks -> Task]
  BY <1>1, EndsDoes DEF SetupFinish, TInv, TypeOK, Ended, Others
<1>4. TypeOK'
  <2>1. PICK kept \in {code.file, FALSE} : code' = [file |-> kept, mem |-> FALSE]
    BY DEF SetupFinish
  <2>2. kept \in BOOLEAN
    BY DEF TInv, TypeOK
  <2>3. code' \in [file : BOOLEAN, mem : BOOLEAN]
    BY <2>1, <2>2
  <2> QED  BY <1>2, <1>3, <2>3 DEF SetupFinish, TInv, TypeOK
<1>5. TaskInv'
  BY <1>1, <1>3, Alone DEF TInv, Ended, Others, TaskOK
<1>6. HolderInv'
  BY <1>1, <1>3, HolderKept, NoTaskFields DEF SetupFinish, At, TInv, Ended, Others, Up, Locked, Kinds
<1> QED  BY <1>3, <1>4, <1>5, <1>6 DEF TInv

LEMMA SettingsPostDoes ==
  ASSUME TInv, NEW r \in Requests, handleSettingsPost(r)
  PROVE  /\ TInv' /\ Began(r, "settings", "current")
         /\ ~task'[r].form.ok => "typo" \in mishaps
<1>1. PICK change \in {<<None, None>>} \cup (Passwords \X Passwords), a \in Addresses,
        d \in (IF mem.dns = "direct" THEN {"direct"} ELSE {"managed", "delegated"}),
        ok \in {TRUE} \cup (IF "typo" \in mishaps /\ mem.dns # "direct" THEN {FALSE} ELSE {}) :
       Begin(r, "settings", "current",
             [NoForm EXCEPT !.pw = change[1], !.new = change[2], !.addr = a, !.dns = d, !.ok = ok])
  BY DEF handleSettingsPost
<1> DEFINE f == [NoForm EXCEPT !.pw = change[1], !.new = change[2], !.addr = a, !.dns = d, !.ok = ok]
<1>2. f \in Form /\ f.addr = a /\ f.dns = d /\ d # "off" /\ (~f.ok => "typo" \in mishaps)
  <2>1. NoForm \in Form
    BY NoFormType
  <2>2. change[1] \in Passwords \cup {None} /\ change[2] \in Passwords \cup {None}
    OBVIOUS
  <2>3. d \in Dns /\ d # "off" /\ ok \in BOOLEAN /\ (~ok => "typo" \in mishaps)
    BY DEF Dns
  <2>4. f.ok = ok
    BY <2>1 DEF Form
  <2> QED  BY <2>1, <2>2, <2>3, <2>4 DEF Form
<1> HIDE DEF f
<1>3. Began(r, "settings", "current") /\ task'[r].form = f /\ task' \in [Tasks -> Task]
  BY <1>1, <1>2, BeganBy DEF Kinds, Steps, f
<1>4. TypeOK'
  BY <1>3 DEF handleSettingsPost, TInv, TypeOK
<1>5. TaskInv'
  BY <1>2, <1>3, Alone DEF TInv, Began, Others, TaskOK, Tasks
<1>6. HolderInv'
  BY <1>3, HolderKept DEF handleSettingsPost, TInv, Began, Others, Up, Tasks
<1> QED  BY <1>2, <1>3, <1>4, <1>5, <1>6 DEF TInv

LEMMA SettingsVerifyDoes ==
  ASSUME TInv, NEW r \in Requests, SettingsVerify(r)
  PROVE  TInv' /\ (Ended(r) \/ Moved(r, "assign"))
<1>1. r \in Tasks /\ task[r] # NoTask /\ TaskOK(r)
  BY UnderWay DEF SettingsVerify, At, Steps, Tasks
<1>2. task[r].form \in Form /\ task[r].form.addr \in Addresses /\ task[r].form.dns # "off"
  BY <1>1, StartupAssumption DEF SettingsVerify, At, TaskOK, Writing
<1>3. CASE Ends(r) /\ Free
  <2>1. Ended(r) /\ task' \in [Tasks -> Task]
    BY <1>1, <1>3, EndsDoes DEF TInv, TypeOK, Ended, Others
  <2>2. TypeOK'
    BY <1>3, <2>1 DEF SettingsVerify, Free, TInv, TypeOK
  <2>3. TaskInv'
    BY <1>1, <2>1, Alone DEF TInv, Ended, Others, TaskOK
  <2>4. HolderInv'
    BY <1>1, <1>3, <2>1, HolderKept DEF SettingsVerify, Free, At, TInv, Ended, Others, Up, Locked
  <2> QED  BY <2>1, <2>2, <2>3, <2>4 DEF TInv
<1>4. CASE Goto(r, "assign") /\ UNCHANGED lock
  <2>1. Moved(r, "assign") /\ task' \in [Tasks -> Task]
    BY <1>1, <1>4, GotoDoes DEF TInv, TypeOK, Moved, Others, Steps
  <2>2. TypeOK'
    BY <1>4, <2>1 DEF SettingsVerify, TInv, TypeOK
  <2>3. TaskInv'
    BY <1>1, <1>2, <2>1, Alone DEF SettingsVerify, At, TInv, Moved, Others, TaskOK
  <2>4. HolderInv'
    BY <1>1, <1>4, <2>1, HolderKept DEF SettingsVerify, At, TInv, Moved, Others, Up
  <2> QED  BY <2>1, <2>2, <2>3, <2>4 DEF TInv
<1> QED  BY <1>3, <1>4 DEF SettingsVerify

LEMMA SettingsAssignDoes ==
  ASSUME TInv, NEW r \in Requests, SettingsAssign(r)
  PROVE  /\ TInv' /\ mem \in Config /\ mem' \in Config
         /\ mem'.ready = mem.ready /\ mem'.accounts = mem.accounts
         /\ mem'.pw = IF task[r].form.new = None THEN mem.pw ELSE task[r].form.new
         /\ \/ Ended(r) /\ ~task[r].form.ok /\ mem'.dns = mem.dns /\ mem'.addr = mem.addr
            \/ /\ Assigned(r) /\ mem'.dns = task[r].form.dns /\ mem'.addr = task[r].form.addr
               /\ lock' = lock
               /\ ~task'[r].sync => mem'.dns = mem.dns /\ mem'.addr = mem.addr
<1>1. r \in Tasks /\ task[r] # NoTask /\ TaskOK(r) /\ mem \in Config
  BY UnderWay DEF SettingsAssign, At, Steps, Tasks, Up, TInv, TypeOK
<1>2. /\ task[r].form \in Form /\ task[r].form.addr \in Addresses /\ task[r].form.addr # None
      /\ task[r].form.dns # "off"
  BY <1>1, StartupAssumption DEF SettingsAssign, At, TaskOK, Writing
<1> DEFINE f == task[r].form
           w == IF f.new = None THEN mem ELSE [mem EXCEPT !.pw = f.new]
<1>3. /\ w \in Config /\ w.ready = mem.ready /\ w.addr = mem.addr /\ w.dns = mem.dns
      /\ w.accounts = mem.accounts
      /\ w.pw = IF f.new = None THEN mem.pw ELSE f.new
      /\ mem' = [w EXCEPT !.addr = f.addr, !.dns = f.dns] =>
           /\ mem'.ready = mem.ready /\ mem'.pw = w.pw /\ mem'.addr = f.addr /\ mem'.dns = f.dns
           /\ mem'.accounts = mem.accounts /\ mem' \in Config
  BY <1>1, <1>2, SettingsSet
<1>4. CASE ~f.ok
  <2>1. mem' = w /\ Ends(r) /\ Free
    BY <1>4 DEF SettingsAssign
  <2>2. Ended(r) /\ task' \in [Tasks -> Task]
    BY <1>1, <2>1, EndsDoes DEF TInv, TypeOK, Ended, Others
  <2>3. TypeOK'
    BY <1>3, <2>1, <2>2 DEF SettingsAssign, Free, TInv, TypeOK
  <2>4. TaskInv'
    BY <1>1, <2>2, Alone DEF TInv, Ended, Others, TaskOK
  <2>5. HolderInv'
    BY <1>1, <1>3, <2>1, <2>2, HolderKept, ConfigFields
       DEF SettingsAssign, Free, At, TInv, Ended, Others, Up, Locked
  <2> QED  BY <1>1, <1>3, <1>4, <2>1, <2>2, <2>3, <2>4, <2>5 DEF TInv
<1>5. CASE f.ok
  <2> DEFINE b == f.addr # mem.addr \/ f.dns # mem.dns
  <2>1. /\ mem' = [w EXCEPT !.addr = f.addr, !.dns = f.dns]
        /\ task' = [task EXCEPT ![r].step = "save", ![r].form = Rest(f), ![r].sync = b]
        /\ lock' = lock
    BY <1>5 DEF SettingsAssign
  <2>2. b \in BOOLEAN
    OBVIOUS
  <2>3. b <=> f.addr # mem.addr \/ f.dns # mem.dns
    OBVIOUS
  <2> HIDE DEF b
  <2>4. Assigned(r) /\ task' \in [Tasks -> Task] /\ task'[r].sync = b
    BY <1>1, <1>2, <2>1, <2>2, AssignDoes DEF TInv, TypeOK, Assigned, Others
  <2>5. TypeOK'
    BY <1>3, <2>1, <2>4 DEF SettingsAssign, TInv, TypeOK
  <2>6. TaskInv'
    BY <1>1, <1>2, <2>4, Alone DEF SettingsAssign, At, TInv, Assigned, Others, TaskOK, Writing
  <2>7. HolderInv'
    BY <1>1, <1>3, <2>1, <2>4, HolderKept, ConfigFields
       DEF SettingsAssign, At, TInv, Assigned, Others, Up
  <2> QED  BY <1>1, <1>3, <2>1, <2>3, <2>4, <2>5, <2>6, <2>7 DEF TInv
<1> QED  BY <1>4, <1>5

LEMMA SettingsSaveDoes ==
  ASSUME TInv, NEW r \in Requests, SettingsSave(r)
  PROVE  /\ TInv'
         /\ \/ Moved(r, "env") /\ file' = mem
            \/ "write" \in mishaps /\ Ended(r) /\ file' = file
<1>1. r \in Tasks /\ task[r] # NoTask /\ TaskOK(r) /\ mem \in Config
  BY UnderWay DEF SettingsSave, At, Steps, Tasks, Up, TInv, TypeOK
<1>2. task[r].form \in Form
  BY <1>1, StartupAssumption DEF SettingsSave, At, TaskOK
<1>3. CASE file' = mem /\ Goto(r, "env") /\ UNCHANGED lock
  <2>1. Moved(r, "env") /\ task' \in [Tasks -> Task]
    BY <1>1, <1>3, GotoDoes DEF TInv, TypeOK, Moved, Others, Steps
  <2>2. TypeOK'
    BY <1>1, <1>3, <2>1 DEF SettingsSave, TInv, TypeOK
  <2>3. TaskInv'
    BY <1>1, <1>2, <2>1, Alone DEF SettingsSave, At, TInv, Moved, Others, TaskOK, Writing
  <2>4. HolderInv'
    BY <1>1, <1>3, <2>1, HolderKept DEF SettingsSave, At, TInv, Moved, Others, Up
  <2> QED  BY <1>3, <2>1, <2>2, <2>3, <2>4 DEF TInv
<1>4. CASE "write" \in mishaps /\ Ends(r) /\ Free /\ UNCHANGED file
  <2>1. Ended(r) /\ task' \in [Tasks -> Task]
    BY <1>1, <1>4, EndsDoes DEF TInv, TypeOK, Ended, Others
  <2>2. TypeOK'
    BY <1>4, <2>1 DEF SettingsSave, Free, TInv, TypeOK
  <2>3. TaskInv'
    BY <1>1, <2>1, Alone DEF TInv, Ended, Others, TaskOK
  <2>4. HolderInv'
    BY <1>1, <1>4, <2>1, HolderKept DEF SettingsSave, Free, At, TInv, Ended, Others, Up, Locked
  <2> QED  BY <1>4, <2>1, <2>2, <2>3, <2>4 DEF TInv
<1> QED  BY <1>3, <1>4 DEF SettingsSave

LEMMA SettingsFinishDoes ==
  ASSUME TInv, NEW r \in Requests, SettingsFinish(r)
  PROVE  TInv' /\ Ended(r)
<1>1. r \in Tasks /\ task[r] # NoTask /\ TaskOK(r)
  BY UnderWay DEF SettingsFinish, At, Steps, Tasks
<1>2. Ended(r) /\ task' \in [Tasks -> Task]
  BY <1>1, EndsDoes DEF SettingsFinish, TInv, TypeOK, Ended, Others
<1>3. TypeOK'
  BY <1>2 DEF SettingsFinish, Free, TInv, TypeOK
<1>4. TaskInv'
  BY <1>1, <1>2, Alone DEF TInv, Ended, Others, TaskOK
<1>5. HolderInv'
  BY <1>1, <1>2, HolderKept DEF SettingsFinish, Free, At, TInv, Ended, Others, Up, Locked
<1> QED  BY <1>2, <1>3, <1>4, <1>5 DEF TInv

LEMMA CreateDoes ==
  ASSUME TInv, NEW r \in Requests, handleAccountCreate(r)
  PROVE  /\ TInv' /\ Began(r, "create", "assign") /\ task'[r].form.account \notin mem.accounts
         /\ mem' = mem
<1>1. PICK a \in Accounts \ mem.accounts : Begin(r, "create", "assign", [NoForm EXCEPT !.account = a])
  BY DEF handleAccountCreate, BeginAccount
<1> DEFINE f == [NoForm EXCEPT !.account = a]
<1>2. f \in Form /\ f.account = a
  BY NoFormType DEF Form
<1> HIDE DEF f
<1>3. Began(r, "create", "assign") /\ task'[r].form = f /\ task' \in [Tasks -> Task]
  BY <1>1, <1>2, BeganBy DEF Kinds, Steps, f
<1>4. TypeOK'
  BY <1>3 DEF handleAccountCreate, BeginAccount, TInv, TypeOK
<1>5. TaskInv'
  BY <1>2, <1>3, Alone DEF TInv, Began, Others, TaskOK, Tasks
<1>6. HolderInv'
  BY <1>3, HolderKept DEF handleAccountCreate, BeginAccount, TInv, Began, Others, Up, Tasks
<1> QED  BY <1>2, <1>3, <1>4, <1>5, <1>6 DEF TInv, handleAccountCreate, BeginAccount

LEMMA DeleteDoes ==
  ASSUME TInv, NEW r \in Requests, handleAccountDelete(r)
  PROVE  /\ TInv' /\ Began(r, "delete", "assign") /\ task'[r].form.account \in mem.accounts
         /\ mem' = mem
<1>1. PICK a \in mem.accounts : Begin(r, "delete", "assign", [NoForm EXCEPT !.account = a])
  BY DEF handleAccountDelete, BeginAccount
<1> DEFINE f == [NoForm EXCEPT !.account = a]
<1>2. f \in Form /\ f.account = a /\ a \in Accounts
  <2>1. a \in Accounts
    BY ConfigFields DEF handleAccountDelete, Up, TInv, TypeOK
  <2> QED  BY <2>1, NoFormType DEF Form
<1> HIDE DEF f
<1>3. Began(r, "delete", "assign") /\ task'[r].form = f /\ task' \in [Tasks -> Task]
  BY <1>1, <1>2, BeganBy DEF Kinds, Steps, f
<1>4. TypeOK'
  BY <1>3 DEF handleAccountDelete, BeginAccount, TInv, TypeOK
<1>5. TaskInv'
  BY <1>2, <1>3, Alone DEF TInv, Began, Others, TaskOK, Tasks
<1>6. HolderInv'
  BY <1>3, HolderKept DEF handleAccountDelete, BeginAccount, TInv, Began, Others, Up, Tasks
<1> QED  BY <1>2, <1>3, <1>4, <1>5, <1>6 DEF TInv, handleAccountDelete, BeginAccount

LEMMA AccountStep ==
  ASSUME TInv, NEW r \in Requests, task[r].kind \in {"create", "delete"}, task[r].step \in Steps
  PROVE  task[r] # NoTask /\ task[r].form \in Form /\ task[r].form.account \in Accounts
BY UnderWay, StartupAssumption DEF TaskOK, Tasks

LEMMA AccountAssignDoes ==
  ASSUME TInv, NEW r \in Requests, AccountAssign(r)
  PROVE  /\ TInv' /\ Moved(r, "save") /\ mem \in Config /\ mem' \in Config
         /\ mem'.ready = mem.ready /\ mem'.pw = mem.pw /\ mem'.addr = mem.addr /\ mem'.dns = mem.dns
         /\ mem'.accounts = IF task[r].kind = "create" THEN mem.accounts \cup {Account(r)}
                                                       ELSE mem.accounts \ {Account(r)}
<1>1. r \in Tasks /\ task[r] # NoTask /\ mem \in Config /\ task \in [Tasks -> Task]
  BY UnderWay DEF AccountAssign, At, Steps, Tasks, Up, TInv, TypeOK
<1>2. task[r].form \in Form /\ task[r].form.account \in Accounts
  BY AccountStep DEF AccountAssign, At, Steps
<1> DEFINE s == IF task[r].kind = "create" THEN mem.accounts \cup {Account(r)}
                                           ELSE mem.accounts \ {Account(r)}
<1>3. mem' = [mem EXCEPT !.accounts = s] /\ s \in SUBSET Accounts
  BY <1>1, <1>2, ConfigFields DEF AccountAssign, At, Account
<1> HIDE DEF s
<1>4. /\ mem' \in Config /\ mem'.ready = mem.ready /\ mem'.pw = mem.pw /\ mem'.addr = mem.addr
      /\ mem'.dns = mem.dns /\ mem'.accounts = s
  BY <1>1, <1>3, AccountsSet
<1>5. Moved(r, "save") /\ task' \in [Tasks -> Task]
  BY <1>1, GotoDoes DEF AccountAssign, Moved, Others, Steps
<1>6. TypeOK'
  BY <1>4, <1>5 DEF AccountAssign, TInv, TypeOK
<1>7. TaskInv'
  BY <1>1, <1>2, <1>5, Alone DEF AccountAssign, At, TInv, Moved, Others, TaskOK
<1>8. HolderInv'
  BY <1>1, <1>4, <1>5, HolderKept, ConfigFields DEF AccountAssign, At, TInv, Moved, Others, Up
<1> QED  BY <1>1, <1>4, <1>5, <1>6, <1>7, <1>8 DEF TInv, s

LEMMA AccountSaveDoes ==
  ASSUME TInv, NEW r \in Requests, AccountSave(r)
  PROVE  TInv' /\ Moved(r, "finish")
<1>1. r \in Tasks /\ task[r] # NoTask /\ mem \in Config /\ task \in [Tasks -> Task]
  BY UnderWay DEF AccountSave, At, Steps, Tasks, Up, TInv, TypeOK
<1>2. task[r].form \in Form /\ task[r].form.account \in Accounts
  BY AccountStep DEF AccountSave, At, Steps
<1>3. Moved(r, "finish") /\ task' \in [Tasks -> Task]
  BY <1>1, GotoDoes DEF AccountSave, Moved, Others, Steps
<1>4. TypeOK'
  BY <1>1, <1>3 DEF AccountSave, TInv, TypeOK
<1>5. TaskInv'
  BY <1>1, <1>2, <1>3, Alone DEF AccountSave, At, TInv, Moved, Others, TaskOK
<1>6. HolderInv'
  BY <1>1, <1>3, HolderKept DEF AccountSave, At, TInv, Moved, Others, Up
<1> QED  BY <1>3, <1>4, <1>5, <1>6 DEF TInv

LEMMA AccountSaveFailsDoes ==
  ASSUME TInv, NEW r \in Requests, AccountSaveFails(r)
  PROVE  /\ TInv' /\ Ended(r) /\ mem \in Config /\ mem' \in Config
         /\ mem'.ready = mem.ready /\ mem'.pw = mem.pw /\ mem'.addr = mem.addr /\ mem'.dns = mem.dns
         /\ Changing(r) /\ task[r].step = "save" /\ mem'.accounts = Before(r)
<1>1. r \in Tasks /\ task[r] # NoTask /\ mem \in Config /\ task \in [Tasks -> Task]
  BY UnderWay DEF AccountSaveFails, At, Steps, Tasks, Up, TInv, TypeOK
<1>2. task[r].form.account \in Accounts /\ Changing(r) /\ task[r].step = "save"
  BY AccountStep DEF AccountSaveFails, At, Steps, Changing
<1> DEFINE s == Before(r)
<1>3. mem' = [mem EXCEPT !.accounts = s] /\ s \in SUBSET Accounts
  BY <1>1, <1>2, ConfigFields DEF AccountSaveFails, At, Account, Before
<1> HIDE DEF s
<1>4. /\ mem' \in Config /\ mem'.ready = mem.ready /\ mem'.pw = mem.pw /\ mem'.addr = mem.addr
      /\ mem'.dns = mem.dns /\ mem'.accounts = s
  BY <1>1, <1>3, AccountsSet
<1>5. Ended(r) /\ task' \in [Tasks -> Task]
  BY <1>1, EndsDoes DEF AccountSaveFails, Ended, Others
<1>6. TypeOK'
  BY <1>4, <1>5 DEF AccountSaveFails, Free, TInv, TypeOK
<1>7. TaskInv'
  BY <1>1, <1>5, Alone DEF TInv, Ended, Others, TaskOK
<1>8. HolderInv'
  BY <1>1, <1>4, <1>5, HolderKept, ConfigFields DEF AccountSaveFails, Free, At, TInv, Ended, Others, Up, Locked
<1> QED  BY <1>1, <1>2, <1>4, <1>5, <1>6, <1>7, <1>8 DEF TInv, s

LEMMA ApplyDoes ==
  ASSUME TInv, NEW r \in Requests, applyAccounts(r)
  PROVE  TInv' /\ Ended(r) /\ (dex' = mem.accounts \/ warned')
<1>1. r \in Tasks /\ task[r] # NoTask /\ mem \in Config /\ task \in [Tasks -> Task]
  BY UnderWay DEF applyAccounts, At, Steps, Tasks, Up, TInv, TypeOK
<1>2. Ended(r) /\ task' \in [Tasks -> Task]
  BY <1>1, EndsDoes DEF applyAccounts, Ended, Others
<1>3. (dex' \in SUBSET Accounts) /\ (warned' \in BOOLEAN) /\ (dex' = mem.accounts \/ warned')
  <2>1. CASE dex' = mem.accounts /\ warned' = FALSE
    BY <1>1, <2>1, ConfigFields
  <2>2. CASE warned' = TRUE /\ dex' = dex
    BY <2>2 DEF TInv, TypeOK
  <2> QED  BY <2>1, <2>2 DEF applyAccounts
<1>4. TypeOK'
  BY <1>2, <1>3 DEF applyAccounts, Free, TInv, TypeOK
<1>5. TaskInv'
  BY <1>1, <1>2, Alone DEF TInv, Ended, Others, TaskOK
<1>6. HolderInv'
  BY <1>1, <1>2, HolderKept DEF applyAccounts, Free, At, TInv, Ended, Others, Up, Locked
<1> QED  BY <1>2, <1>3, <1>4, <1>5, <1>6 DEF TInv

\* A synchronisation is over: a start's ends with it, a request goes on.
Done(t) == /\ Others(t)
           /\ t = Startup => task'[t] = NoTask
           /\ t # Startup => /\ task'[t].kind = task[t].kind /\ task'[t].step = "finish"
                             /\ task'[t].form = task[t].form /\ task'[t] # NoTask
Same    == UNCHANGED <<mishaps, mem, file, envPw, code, session, attempts, lock, dex, warned>>

LEMMA SyncStep ==
  ASSUME TInv, NEW t \in Tasks, task[t].step \in {"sync", "get", "put"}
  PROVE  /\ task[t] # NoTask /\ task \in [Tasks -> Task]
         /\ t = Startup => task[t].kind = "startup"
         /\ t # Startup => /\ t \in Requests /\ task[t].form \in Form
                           /\ task[t].kind \in {"setup", "settings"}
                           /\ task[t].kind = "setup" => task[t].form.new \in Passwords
BY UnderWay, StartupAssumption DEF TaskOK, Tasks, Steps

LEMMA SyncedKeeps ==
  ASSUME TInv, NEW t \in Tasks, Up, task[t].step \in {"sync", "get", "put"}, NEW e \in BOOLEAN,
         Synced(t, e), record' \in Records
  PROVE  TInv' /\ Done(t) /\ dnsErr' = e /\ Same
<1>1. /\ task[t] # NoTask
      /\ t # Startup => /\ t \in Requests /\ task[t].form \in Form
                        /\ task[t].kind \in {"setup", "settings"}
                        /\ task[t].kind = "setup" => task[t].form.new \in Passwords
  BY SyncStep
<1>2. Done(t) /\ dnsErr' = e /\ Same /\ task' \in [Tasks -> Task]
  BY <1>1, SyncedDoes DEF TInv, Done, Others, Same
<1>3. TypeOK'
  BY <1>2 DEF Same, TInv, TypeOK
<1>4. TaskOK(t)'
  BY <1>1, <1>2 DEF Done, TaskOK, Writing
<1>5. TaskInv'
  BY <1>2, <1>4, Alone DEF TInv, Done, Others
<1>6. HolderInv'
  BY <1>1, <1>2, HolderKept, NoTaskFields DEF Same, TInv, Done, Others, Up, Locked, Kinds
<1> QED  BY <1>2, <1>3, <1>5, <1>6 DEF TInv

LEMMA SyncDoes ==
  ASSUME TInv, NEW t \in Tasks, syncWildcard(t)
  PROVE  /\ TInv' /\ Same /\ UNCHANGED record
         /\ \/ Done(t) /\ dnsErr' = (mem.dns = "managed")
            \/ /\ Others(t) /\ task'[t].kind = task[t].kind /\ task'[t].step = "get" /\ task'[t] # NoTask
               /\ task'[t].form = task[t].form /\ task'[t].ip = mem.addr /\ UNCHANGED dnsErr
<1>1. Up /\ task[t].step = "sync" /\ record' = record /\ record \in Records
      /\ mem \in Config
  BY DEF syncWildcard, Up, TInv, TypeOK
<1>2. /\ task[t] # NoTask /\ task \in [Tasks -> Task]
      /\ t = Startup => task[t].kind = "startup"
      /\ t # Startup => /\ t \in Requests /\ task[t].form \in Form
                        /\ task[t].kind \in {"setup", "settings"}
                        /\ task[t].kind = "setup" => task[t].form.new \in Passwords
  BY <1>1, SyncStep
<1>3. CASE mem.dns # "managed"
  <2>1. Synced(t, FALSE)
    BY <1>3 DEF syncWildcard
  <2> QED  BY <1>1, <1>3, <2>1, SyncedKeeps
<1>4. CASE mem.dns = "managed" /\ mem.addr \notin IPs
  <2>1. Synced(t, TRUE)
    BY <1>4 DEF syncWildcard
  <2> QED  BY <1>1, <1>4, <2>1, SyncedKeeps
<1>5. CASE mem.dns = "managed" /\ mem.addr \in IPs
  <2>1. task' = [task EXCEPT ![t].step = "get", ![t].ip = mem.addr] /\ Same /\ dnsErr' = dnsErr
    BY <1>5 DEF syncWildcard, Same
  <2>2. task[t] = [kind |-> task[t].kind, step |-> task[t].step, form |-> task[t].form,
                   ip |-> task[t].ip, sync |-> task[t].sync]
    BY <1>2, Fields
  <2>3. task'[t] = [[task[t] EXCEPT !.step = "get"] EXCEPT !.ip = mem.addr] /\ Others(t)
    BY <1>2, <2>1 DEF Others
  <2>4. task'[t] = [kind |-> task[t].kind, step |-> "get", form |-> task[t].form,
                    ip |-> mem.addr, sync |-> task[t].sync]
    BY <2>2, <2>3
  <2>5. task'[t] \in Task /\ task'[t].kind # None
    <3>1. /\ task[t].kind \in Kinds /\ task[t].form \in Form \cup {None}
          /\ task[t].sync \in BOOLEAN /\ "get" \in Steps /\ mem.addr \in Addresses \cup {None}
      BY <1>1, <1>2, Fields, ConfigFields DEF Steps
    <3> QED  BY <2>4, <3>1 DEF Task
  <2>6. task' \in [Tasks -> Task] /\ task'[t] # NoTask
    BY <1>2, <2>1, <2>5, NoTaskFields
  <2>7. TypeOK'
    BY <1>1, <2>1, <2>6 DEF Same, TInv, TypeOK
  <2>8. TaskOK(t)'
    BY <1>2, <2>4, <2>6 DEF TaskOK, Writing
  <2>9. TaskInv'
    BY <2>3, <2>8, Alone DEF TInv, Others
  <2>10. HolderInv'
    <3>1. lock' = lock /\ Up' /\ task'[t].kind = task[t].kind
      BY <1>1, <2>1, <2>4 DEF Same, Up
    <3> QED  BY <1>1, <2>3, <3>1, HolderKept DEF TInv, Others
  <2> QED  BY <1>1, <2>1, <2>3, <2>4, <2>6, <2>7, <2>9, <2>10 DEF TInv
<1> QED  BY <1>3, <1>4, <1>5

LEMMA GetDoes ==
  ASSUME TInv, NEW t \in Tasks, GetRecord(t)
  PROVE  /\ TInv' /\ Same /\ UNCHANGED record
         /\ \/ Done(t) /\ dnsErr' = FALSE /\ PointsTo(task[t].ip)
            \/ Moved(t, "put") /\ UNCHANGED dnsErr
<1>1. Up /\ task[t].step = "get" /\ record' = record /\ record \in Records
  BY DEF GetRecord, TInv, TypeOK
<1>2. CASE PointsTo(task[t].ip)
  <2>1. Synced(t, FALSE)
    BY <1>2 DEF GetRecord
  <2> QED  BY <1>1, <1>2, <2>1, SyncedKeeps
<1>3. CASE ~PointsTo(task[t].ip)
  <2>1. Goto(t, "put") /\ Same /\ dnsErr' = dnsErr
    BY <1>3 DEF GetRecord, Same
  <2>2. /\ task[t] # NoTask /\ task \in [Tasks -> Task]
        /\ t = Startup => task[t].kind = "startup"
        /\ t # Startup => /\ t \in Requests /\ task[t].form \in Form
                          /\ task[t].kind \in {"setup", "settings"}
                          /\ task[t].kind = "setup" => task[t].form.new \in Passwords
    BY <1>1, SyncStep
  <2>3. Moved(t, "put") /\ task' \in [Tasks -> Task]
    BY <2>1, <2>2, GotoDoes DEF Moved, Others, Steps
  <2>4. TypeOK'
    BY <1>1, <2>1, <2>3 DEF Same, TInv, TypeOK
  <2>5. TaskOK(t)'
    BY <2>2, <2>3 DEF Moved, TaskOK, Writing
  <2>6. TaskInv'
    BY <2>3, <2>5, Alone DEF TInv, Moved, Others
  <2>7. HolderInv'
    BY <1>1, <2>1, <2>3, HolderKept DEF Same, TInv, Moved, Others, Up
  <2> QED  BY <1>1, <2>1, <2>3, <2>4, <2>6, <2>7 DEF TInv
<1> QED  BY <1>2, <1>3

LEMMA PutTypes ==
  ASSUME record \in Records, NEW ip \in Addresses \cup {None}
  PROVE  Put(ip) \in Records /\ rrType(ip) \in RRTypes
BY DEF Put, Records, rrType, RRTypes

LEMMA PutDoes ==
  ASSUME TInv, NEW t \in Tasks, PutRecord(t)
  PROVE  /\ TInv' /\ Same /\ Done(t) /\ dnsErr' = FALSE
         /\ task[t].ip = mem.addr => PointsTo(mem.addr)'
<1>1. Up /\ task[t].step = "put" /\ Synced(t, FALSE) /\ record' = Put(task[t].ip)
  BY DEF PutRecord
<1>2. task[t] \in Task /\ record \in Records
  BY DEF TInv, TypeOK
<1>3. record' \in Records /\ rrType(task[t].ip) \in RRTypes
  BY <1>1, <1>2, Fields, PutTypes
<1>4. mem' = mem /\ record'[rrType(task[t].ip)] = task[t].ip
  BY <1>1, <1>2, <1>3, SyncedKeeps DEF Put, Records, Same
<1>5. task[t].ip = mem.addr => PointsTo(mem.addr)'
  BY <1>4 DEF PointsTo, rrType
<1> QED  BY <1>1, <1>3, <1>5, SyncedKeeps

LEMMA DeSECFailsDoes ==
  ASSUME TInv, NEW t \in Tasks, DeSECFails(t)
  PROVE  TInv' /\ Same /\ Done(t) /\ dnsErr' = TRUE
<1>1. Up /\ task[t].step \in {"get", "put"} /\ Synced(t, TRUE) /\ record' \in {record, Put(task[t].ip)}
  BY DEF DeSECFails
<1>2. task[t] \in Task /\ record \in Records
  BY DEF TInv, TypeOK
<1>3. record' \in Records
  BY <1>1, <1>2, Fields, PutTypes
<1> QED  BY <1>1, <1>3, SyncedKeeps

-----------------------------------------------------------------------------
\* The process, and what nobody asks for.

LEMMA BootDoes ==
  ASSUME TInv, Boot
  PROVE  /\ TInv' /\ mem' = file /\ Up' /\ \A t \in Tasks : task[t] = NoTask
         /\ \A r \in Requests : task'[r] = NoTask
         /\ \/ /\ task'[Startup].kind = "startup" /\ task'[Startup].step = "sync"
               /\ file.ready /\ file.dns = "managed"
            \/ task'[Startup] = NoTask /\ ~(file.ready /\ file.dns = "managed")
<1>1. mem' = file /\ file \in Config /\ ~Up /\ task \in [Tasks -> Task] /\ lock' = lock
      /\ Startup \in Tasks
  BY DEF Boot, TInv, TypeOK, Tasks
<1>2. \A t \in Tasks : task[t] = NoTask
  BY <1>1 DEF TInv, HolderInv
<1> DEFINE new == [NoTask EXCEPT !.kind = "startup", !.step = "sync"]
<1>3. new \in Task /\ new.kind = "startup" /\ new.step = "sync"
  <2> DEFINE one == [NoTask EXCEPT !.kind = "startup"]
             b   == NoTask.sync
  <2>1. NoTask = [kind |-> None, step |-> None, form |-> None, ip |-> None, sync |-> b]
        /\ b \in BOOLEAN
    BY DEF NoTask
  <2>2. new = [one EXCEPT !.step = "sync"]
    OBVIOUS
  <2> HIDE DEF new, b
  <2>3. one = [kind |-> "startup", step |-> None, form |-> None, ip |-> None, sync |-> b]
    BY <2>1
  <2> HIDE DEF one
  <2>4. new = [kind |-> "startup", step |-> "sync", form |-> None, ip |-> None, sync |-> b]
    BY <2>2, <2>3
  <2> QED  BY <2>1, <2>4 DEF Task, Kinds, Steps
<1>4. task' = IF file.ready /\ file.dns = "managed" THEN [task EXCEPT ![Startup] = new] ELSE task
  BY DEF Boot
<1> HIDE DEF new
<1>5. task' \in [Tasks -> Task]
  BY <1>1, <1>3, <1>4
<1>6. \A r \in Requests : task'[r] = NoTask
  BY <1>1, <1>2, <1>4, StartupAssumption DEF Tasks
<1>7. \/ task'[Startup].kind = "startup" /\ task'[Startup].step = "sync" /\ file.ready
         /\ file.dns = "managed"
      \/ task'[Startup] = NoTask /\ ~(file.ready /\ file.dns = "managed")
  BY <1>1, <1>2, <1>3, <1>4
<1>8. TypeOK'
  <2>1. code' \in [file : BOOLEAN, mem : BOOLEAN]
    <3>1. CASE code' = [code EXCEPT !.mem = FALSE]
      BY <3>1 DEF TInv, TypeOK
    <3>2. CASE code' = [file |-> TRUE, mem |-> TRUE]
      BY <3>2
    <3>3. CASE code' = code
      BY <3>3 DEF TInv, TypeOK
    <3> QED  BY <3>1, <3>2, <3>3 DEF Boot
  <2> QED  BY <1>1, <1>5, <2>1 DEF Boot, TInv, TypeOK
<1>9. TaskInv'
  BY <1>6, <1>7 DEF TaskInv, TaskOK, Tasks
<1>10. Up'
  BY <1>1, ConfigFields DEF Up
<1>11. HolderInv'
  BY <1>6, <1>10, NoTaskFields DEF HolderInv, Locked, Kinds
<1> QED  BY <1>1, <1>2, <1>6, <1>7, <1>8, <1>9, <1>10, <1>11 DEF TInv

LEMMA CrashDoes ==
  ASSUME TInv, Crash
  PROVE  TInv' /\ mem' = None /\ ~Up' /\ \A t \in Tasks : task'[t] = NoTask
<1>1. mem' = None /\ lock' = None /\ task' = [t \in Tasks |-> NoTask] /\ session' = None
      /\ dnsErr' = FALSE /\ warned' = FALSE /\ attempts' = NoAttempts
      /\ code' = [code EXCEPT !.mem = FALSE]
  BY DEF Crash
<1>2. task' \in [Tasks -> Task] /\ \A t \in Tasks : task'[t] = NoTask
  BY <1>1, NoTaskFields
<1>3. attempts' \in [Clients -> [count : Nat, locked : BOOLEAN]]
  BY <1>1 DEF NoAttempts
<1>4. code' \in [file : BOOLEAN, mem : BOOLEAN]
  BY <1>1 DEF TInv, TypeOK
<1>5. TypeOK'
  BY <1>1, <1>2, <1>3, <1>4 DEF Crash, TInv, TypeOK
<1>6. TaskInv'
  BY <1>2 DEF TaskInv, TaskOK
<1>7. HolderInv'
  BY <1>2, NoTaskFields DEF HolderInv, Locked, Kinds, Tasks
<1> QED  BY <1>1, <1>2, <1>5, <1>6, <1>7 DEF TInv, Up

LEMMA OtherDoes ==
  ASSUME TInv, SessionEnds \/ (\E c \in Clients : LockoutExpires(c)) \/ UNCHANGED vars
  PROVE  TInv' /\ UNCHANGED <<mishaps, mem, file, envPw, lock, record, dnsErr, dex, warned, task>>
<1>1. UNCHANGED <<mishaps, mem, file, envPw, code, lock, record, dnsErr, dex, warned, task>>
  BY DEF SessionEnds, LockoutExpires, vars
<1>2. attempts' \in [Clients -> [count : Nat, locked : BOOLEAN]]
  BY LockoutDoes DEF TInv, TypeOK, SessionEnds, AttemptsType, vars
<1>3. session' \in Passwords \cup {None}
  BY DEF TInv, TypeOK, SessionEnds, LockoutExpires, vars
<1>4. TypeOK'
  BY <1>1, <1>2, <1>3 DEF TInv, TypeOK
<1>5. TaskInv' /\ HolderInv'
  BY <1>1 DEF TInv, TaskInv, TaskOK, HolderInv, Up
<1> QED  BY <1>1, <1>4, <1>5 DEF TInv

-----------------------------------------------------------------------------
LEMMA InitTInv ==
  ASSUME Init
  PROVE  TInv
<1>1. Default \in Config
  BY DEF Default, Config, Dns
<1>2. TypeOK
  BY <1>1, NoTaskFields DEF Init, TypeOK, NoAttempts, NoRecords, Records
<1>3. TaskInv /\ HolderInv
  BY NoTaskFields DEF Init, TaskInv, TaskOK, HolderInv, Locked, Kinds, Tasks
<1> QED  BY <1>2, <1>3 DEF TInv

LEMMA NextTInv ==
  ASSUME TInv, [Next]_vars
  PROVE  TInv'
<1>1. ASSUME NEW r \in Requests, Handles(r)
      PROVE  TInv'
  BY <1>1, LimitedDoes, MissDoes, LoginDoes, CheckLoginDoes, VerifyDoes, HitDoes, SetupPostDoes,
     CheckCodeDoes, SetupAssignDoes, SetupSaveDoes, SetupFinishDoes, SaveEnvDoes, SettingsPostDoes,
     SettingsVerifyDoes, SettingsAssignDoes, SettingsSaveDoes, SettingsFinishDoes, CreateDoes,
     DeleteDoes, AccountAssignDoes, AccountSaveDoes, AccountSaveFailsDoes, ApplyDoes
     DEF Handles
<1>2. ASSUME NEW t \in Tasks, Synchronises(t)
      PROVE  TInv'
  BY <1>2, SyncDoes, GetDoes, PutDoes, DeSECFailsDoes DEF Synchronises
<1> QED  BY <1>1, <1>2, BootDoes, CrashDoes, OtherDoes DEF Next

-----------------------------------------------------------------------------
\* The limiter counts late, yet the count stays bounded.

Compared == {"verify", "hit", "miss"}

Within(c) == attempts[c].count + Cardinality(Pending(c)) <= MaxLoginAttempts - 1 + Cardinality(Requests)

LEMMA PendingFinite ==
  ASSUME NEW c \in Clients
  PROVE  /\ IsFiniteSet(Pending(c)) /\ Cardinality(Pending(c)) \in Nat
         /\ Cardinality(Pending(c)) <= Cardinality(Requests) /\ Cardinality(Requests) \in Nat
<1>1. Pending(c) \subseteq Requests
  BY DEF Pending
<1> QED  BY <1>1, RequestsAssumption, FS_Subset, FS_CardinalityType

\* Three ways to stay within the limit.
LEMMA CountKept ==
  ASSUME TInv, TInv', NEW c \in Clients, Within(c), attempts'[c].count = attempts[c].count,
         Pending(c)' \subseteq Pending(c)
  PROVE  Within(c)'
<1>1. Cardinality(Pending(c)') <= Cardinality(Pending(c)) /\ Cardinality(Pending(c)') \in Nat
  BY PendingFinite, FS_Subset, FS_CardinalityType
<1>2. attempts[c].count \in Nat
  BY DEF TInv, TypeOK
<1> QED  BY <1>1, <1>2, PendingFinite, LimitAssumption DEF Within

LEMMA CountReset ==
  ASSUME TInv', NEW c \in Clients, attempts'[c].count < MaxLoginAttempts
  PROVE  Within(c)'
<1>1. Pending(c)' \subseteq Requests
  BY DEF Pending
<1>2. Cardinality(Pending(c)') <= Cardinality(Requests) /\ Cardinality(Pending(c)') \in Nat
      /\ Cardinality(Requests) \in Nat
  BY <1>1, RequestsAssumption, FS_Subset, FS_CardinalityType
<1>3. attempts'[c].count \in Nat
  BY DEF TInv, TypeOK
<1> QED  BY <1>2, <1>3, LimitAssumption DEF Within

LEMMA CountMoved ==
  ASSUME TInv, NEW c \in Clients, Within(c), attempts'[c].count = attempts[c].count + 1,
         NEW r \in Pending(c), Pending(c)' = Pending(c) \ {r}
  PROVE  Within(c)'
<1>1. Cardinality(Pending(c)') = Cardinality(Pending(c)) - 1
  BY PendingFinite, FS_RemoveElement
<1>2. attempts[c].count \in Nat
  BY DEF TInv, TypeOK
<1> QED  BY <1>1, <1>2, PendingFinite, LimitAssumption DEF Within

\* A step that counts nothing and puts nothing under way.
LEMMA NothingCounted ==
  ASSUME TInv, TInv', AttemptsBounded, attempts' = attempts, NEW t \in Tasks, Others(t),
         \/ task'[t].step \notin Compared
         \/ task[t].step \in Compared /\ task'[t].form = task[t].form
  PROVE  AttemptsBounded'
<1>1. ASSUME NEW c \in Clients
      PROVE  Within(c)'
  <2>1. Pending(c)' \subseteq Pending(c)
    BY DEF Pending, Others, Compared, Tasks
  <2> QED  BY <2>1, <1>1, CountKept DEF AttemptsBounded, Within
<1> QED  BY <1>1 DEF AttemptsBounded, Within

LEMMA RequestCounted ==
  ASSUME TInv, AttemptsBounded, NEW r \in Requests, Handles(r)
  PROVE  AttemptsBounded'
<1>0. r \in Tasks
  BY DEF Tasks
<1>1. CASE Limited(r)
  BY <1>0, <1>1, LimitedDoes, NothingCounted, NoTaskFields DEF Limited, Ended, Compared, Steps
<1>2. CASE Miss(r)
  <2>1. TInv' /\ Ended(r)
    BY <1>2, MissDoes
  <2> PICK c \in Clients : c = task[r].form.from
    BY <1>2, MissDoes
  <2>2. attempts'[c].count = attempts[c].count + 1
        /\ \A d \in Clients : d # c => attempts'[d] = attempts[d]
    BY <1>2, <2>1, FailureDoes DEF Miss, TInv, TypeOK, AttemptsType
  <2>3. r \in Pending(c) /\ Pending(c)' = Pending(c) \ {r}
    BY <1>2, <2>1, NoTaskFields DEF Miss, Pending, Ended, Others, Tasks, Steps
  <2>4. \A d \in Clients : Pending(d)' \subseteq Pending(d)
    BY <2>1, NoTaskFields DEF Pending, Ended, Others, Tasks, Steps
  <2>5. ASSUME NEW d \in Clients
        PROVE  Within(d)'
    <3>1. Within(d)
      BY DEF AttemptsBounded, Within
    <3>2. CASE d = c
      BY <2>2, <2>3, <3>1, <3>2, CountMoved
    <3>3. CASE d # c
      BY <2>1, <2>2, <2>4, <3>1, <3>3, CountKept
    <3> QED  BY <3>2, <3>3
  <2> QED  BY <2>5 DEF AttemptsBounded, Within
<1>3. CASE handleLoginPost(r)
  BY <1>0, <1>3, LoginDoes, NothingCounted DEF handleLoginPost, Began, Compared
<1>4. CASE CheckLogin(r) \/ checkSetupCode(r)
  <2> DEFINE c == task[r].form.from
  <2>1. /\ TInv' /\ c \in Clients /\ Others(r) /\ task'[r].form = task[r].form
        /\ Admit(c)
    BY <1>4, CheckLoginDoes, CheckCodeDoes DEF Moved, CheckLogin, checkSetupCode
  <2>2. attempts'[c].count < MaxLoginAttempts
        /\ \A d \in Clients : d # c => attempts'[d] = attempts[d]
    BY <2>1, AdmitDoes DEF TInv, TypeOK, AttemptsType
  <2>3. ASSUME NEW d \in Clients
        PROVE  Within(d)'
    <3>1. Within(d)
      BY DEF AttemptsBounded, Within
    <3>2. CASE d = c
      BY <2>1, <2>2, <3>2, CountReset
    <3>3. CASE d # c
      <4>1. Pending(d)' \subseteq Pending(d)
        BY <2>1, <3>3 DEF Pending, Others, Tasks
      <4> QED  BY <2>1, <2>2, <3>1, <3>3, <4>1, CountKept
    <3> QED  BY <3>2, <3>3
  <2> QED  BY <2>3 DEF AttemptsBounded, Within
<1>5. CASE VerifyPassword(r)
  BY <1>0, <1>5, VerifyDoes, NothingCounted DEF VerifyPassword, At, Moved, Compared
<1>6. CASE Hit(r)
  <2> DEFINE c == task[r].form.from
  <2>1. TInv' /\ Ended(r) /\ c \in Clients
    BY <1>6, HitDoes
  <2>2. attempts'[c].count < MaxLoginAttempts
        /\ \A d \in Clients : d # c => attempts'[d] = attempts[d]
    BY <1>6, <2>1, SuccessDoes, LimitAssumption DEF Hit, TInv, TypeOK, AttemptsType
  <2>3. \A d \in Clients : Pending(d)' \subseteq Pending(d)
    BY <2>1, NoTaskFields DEF Pending, Ended, Others, Tasks, Steps
  <2> HIDE DEF c
  <2>4. ASSUME NEW d \in Clients
        PROVE  Within(d)'
    <3>1. Within(d)
      BY DEF AttemptsBounded, Within
    <3> QED  BY <2>1, <2>2, <2>3, <3>1, CountReset, CountKept
  <2> QED  BY <2>4 DEF AttemptsBounded, Within
<1>7. CASE handleSetupPost(r)
  BY <1>0, <1>7, SetupPostDoes, NothingCounted DEF handleSetupPost, Began, Compared
<1>8. CASE SetupAssign(r)
  BY <1>0, <1>8, SetupAssignDoes, NothingCounted DEF SetupAssign, Assigned, Compared
<1>9. CASE SetupSave(r)
  BY <1>0, <1>9, SetupSaveDoes, NothingCounted, NoTaskFields DEF SetupSave, Moved, Ended, Compared, Steps
<1>10. CASE SetupFinish(r)
  BY <1>0, <1>10, SetupFinishDoes, NothingCounted, NoTaskFields DEF SetupFinish, Ended, Compared, Steps
<1>11. CASE SaveEnv(r)
  BY <1>0, <1>11, SaveEnvDoes, NothingCounted DEF SaveEnv, Moved, Compared
<1>12. CASE handleSettingsPost(r)
  BY <1>0, <1>12, SettingsPostDoes, NothingCounted DEF handleSettingsPost, Began, Compared
<1>13. CASE SettingsVerify(r)
  BY <1>0, <1>13, SettingsVerifyDoes, NothingCounted, NoTaskFields
     DEF SettingsVerify, Moved, Ended, Compared, Steps
<1>14. CASE SettingsAssign(r)
  BY <1>0, <1>14, SettingsAssignDoes, NothingCounted, NoTaskFields
     DEF SettingsAssign, Assigned, Ended, Compared, Steps
<1>15. CASE SettingsSave(r)
  BY <1>0, <1>15, SettingsSaveDoes, NothingCounted, NoTaskFields
     DEF SettingsSave, Moved, Ended, Compared, Steps
<1>16. CASE SettingsFinish(r)
  BY <1>0, <1>16, SettingsFinishDoes, NothingCounted, NoTaskFields
     DEF SettingsFinish, Ended, Compared, Steps
<1>17. CASE handleAccountCreate(r) \/ handleAccountDelete(r)
  BY <1>0, <1>17, CreateDoes, DeleteDoes, NothingCounted
     DEF handleAccountCreate, handleAccountDelete, BeginAccount, Began, Compared
<1>18. CASE AccountAssign(r)
  BY <1>0, <1>18, AccountAssignDoes, NothingCounted DEF AccountAssign, Moved, Compared
<1>19. CASE AccountSave(r)
  BY <1>0, <1>19, AccountSaveDoes, NothingCounted DEF AccountSave, Moved, Compared
<1>20. CASE AccountSaveFails(r)
  BY <1>0, <1>20, AccountSaveFailsDoes, NothingCounted, NoTaskFields
     DEF AccountSaveFails, Ended, Compared, Steps
<1>21. CASE applyAccounts(r)
  BY <1>0, <1>21, ApplyDoes, NothingCounted, NoTaskFields DEF applyAccounts, Ended, Compared, Steps
<1> QED  BY <1>1, <1>2, <1>3, <1>4, <1>5, <1>6, <1>7, <1>8, <1>9, <1>10, <1>11, <1>12, <1>13, <1>14,
            <1>15, <1>16, <1>17, <1>18, <1>19, <1>20, <1>21 DEF Handles

LEMMA NextCounted ==
  ASSUME TInv, AttemptsBounded, [Next]_vars
  PROVE  AttemptsBounded'
<1>1. ASSUME NEW t \in Tasks, Synchronises(t)
      PROVE  AttemptsBounded'
  <2>1. /\ TInv' /\ Same /\ Others(t)
        /\ task'[t].step \notin Compared
    <3>1. CASE syncWildcard(t)
      BY <3>1, SyncDoes, NoTaskFields DEF Done, Compared, Steps
    <3>2. CASE GetRecord(t)
      BY <3>2, GetDoes, NoTaskFields DEF Done, Moved, Compared, Steps
    <3>3. CASE PutRecord(t)
      BY <3>3, PutDoes, NoTaskFields DEF Done, Compared, Steps
    <3>4. CASE DeSECFails(t)
      BY <3>4, DeSECFailsDoes, NoTaskFields DEF Done, Compared, Steps
    <3> QED  BY <1>1, <3>1, <3>2, <3>3, <3>4 DEF Synchronises
  <2> QED  BY <2>1, NothingCounted DEF Same
<1>2. CASE (\E c \in Clients : LockoutExpires(c)) \/ SessionEnds \/ UNCHANGED vars
  <2>1. /\ TInv' /\ task' = task
        /\ \A d \in Clients : attempts'[d].count = attempts[d].count
    BY <1>2, OtherDoes, LockoutDoes DEF SessionEnds, vars, TInv, TypeOK, AttemptsType
  <2>2. ASSUME NEW d \in Clients
        PROVE  Within(d)'
    <3>1. Pending(d)' = Pending(d)
      BY <2>1 DEF Pending
    <3> QED  BY <2>1, <3>1, CountKept DEF AttemptsBounded, Within
  <2> QED  BY <2>2 DEF AttemptsBounded, Within
<1>3. CASE Boot
  <2>1. TInv' /\ Others(Startup) /\ task'[Startup].step \notin Compared /\ Startup \in Tasks
    BY <1>3, BootDoes, NoTaskFields DEF Others, Tasks, Compared, Steps
  <2> QED  BY <1>3, <2>1, NothingCounted DEF Boot
<1>4. CASE Crash
  <2>1. TInv' /\ \A d \in Clients : attempts'[d].count = 0
    BY <1>4, CrashDoes DEF Crash, NoAttempts
  <2> QED  BY <2>1, CountReset, LimitAssumption DEF AttemptsBounded, Within
<1> QED  BY <1>1, <1>2, <1>3, <1>4, RequestCounted DEF Next

-----------------------------------------------------------------------------
\* The steps that touch neither the Config nor its copies.

Late == {"save", "env", "sync", "get", "put"}

Plain(r) == /\ UNCHANGED <<mishaps, mem, file, envPw, record, dnsErr, dex, warned>>
            /\ Up /\ Others(r) /\ task[r].step \notin Late /\ task'[r].step \notin Late
            /\ ~Changing(r) /\ ~Changing(r)'

LEMMA PlainDoes ==
  ASSUME TInv, NEW r \in Requests,
         \/ Limited(r) \/ Miss(r) \/ handleLoginPost(r) \/ CheckLogin(r) \/ VerifyPassword(r) \/ Hit(r)
         \/ handleSetupPost(r) \/ checkSetupCode(r) \/ SetupFinish(r)
         \/ handleSettingsPost(r) \/ SettingsVerify(r) \/ SettingsFinish(r)
  PROVE  Plain(r)
<1>1. CASE Limited(r)
  BY <1>1, LimitedDoes, NoTaskFields DEF Limited, Ended, Plain, Late, Changing, Steps, Kinds
<1>2. CASE Miss(r)
  BY <1>2, MissDoes, NoTaskFields DEF Miss, Ended, Plain, Late, Changing, Steps, Kinds
<1>3. CASE handleLoginPost(r)
  BY <1>3, LoginDoes, NoTaskFields DEF handleLoginPost, Began, Plain, Late, Changing, Steps, Kinds
<1>4. CASE CheckLogin(r)
  BY <1>4, CheckLoginDoes DEF CheckLogin, At, Moved, Plain, Late, Changing
<1>5. CASE VerifyPassword(r)
  BY <1>5, VerifyDoes DEF VerifyPassword, At, Moved, Plain, Late, Changing
<1>6. CASE Hit(r)
  BY <1>6, HitDoes, NoTaskFields DEF Hit, At, Ended, Plain, Late, Changing, Steps, Kinds
<1>7. CASE handleSetupPost(r)
  BY <1>7, SetupPostDoes, NoTaskFields DEF handleSetupPost, Began, Plain, Late, Changing, Steps, Kinds
<1>8. CASE checkSetupCode(r)
  BY <1>8, CheckCodeDoes DEF checkSetupCode, At, Moved, Plain, Late, Changing
<1>9. CASE SetupFinish(r)
  BY <1>9, SetupFinishDoes, NoTaskFields DEF SetupFinish, At, Ended, Plain, Late, Changing, Steps, Kinds
<1>10. CASE handleSettingsPost(r)
  BY <1>10, SettingsPostDoes, NoTaskFields DEF handleSettingsPost, Began, Plain, Late, Changing, Steps, Kinds
<1>11. CASE SettingsVerify(r)
  BY <1>11, SettingsVerifyDoes, NoTaskFields
     DEF SettingsVerify, At, Moved, Ended, Plain, Late, Changing, Steps, Kinds
<1>12. CASE SettingsFinish(r)
  BY <1>12, SettingsFinishDoes, NoTaskFields DEF SettingsFinish, At, Ended, Plain, Late, Changing, Steps, Kinds
<1> QED  BY <1>1, <1>2, <1>3, <1>4, <1>5, <1>6, <1>7, <1>8, <1>9, <1>10, <1>11, <1>12

\* A synchronisation: of a setup, of settings, or of a start.
Syncs(t) == /\ Same /\ Up /\ Others(t) /\ task[t] # NoTask /\ task[t].step \in {"sync", "get", "put"}
            /\ \/ t = Startup /\ task'[t] = NoTask
               \/ task'[t].kind = task[t].kind /\ task'[t].step \in {"get", "put", "finish"}
            /\ t = Startup => task[t].kind = "startup"
            /\ t # Startup => t \in Requests /\ task[t].kind \in {"setup", "settings"}

LEMMA SyncsDoes ==
  ASSUME TInv, NEW t \in Tasks, Synchronises(t)
  PROVE  Syncs(t) /\ TInv'
<1>1. Up /\ task[t].step \in {"sync", "get", "put"}
  BY DEF Synchronises, syncWildcard, GetRecord, PutRecord, DeSECFails
<1>2. /\ task[t] # NoTask
      /\ t # Startup => t \in Requests /\ task[t].kind \in {"setup", "settings"}
  BY <1>1, SyncStep
<1>3. TInv' /\ Same /\ Others(t)
  BY SyncDoes, GetDoes, PutDoes, DeSECFailsDoes DEF Synchronises, Done, Moved
<1>4. \/ t = Startup /\ task'[t] = NoTask
      \/ task'[t].kind = task[t].kind /\ task'[t].step \in {"get", "put", "finish"}
  BY SyncDoes, GetDoes, PutDoes, DeSECFailsDoes DEF Synchronises, Done, Moved
<1>5. t = Startup => task[t].kind = "startup"
  BY <1>1, SyncStep
<1> QED  BY <1>1, <1>2, <1>3, <1>4, <1>5 DEF Syncs

-----------------------------------------------------------------------------
\* Setup and the synchronisation of a start have the server to themselves.

\* A step of a task that is under way, or ends.
LEMMA AloneKept ==
  ASSUME AloneInv, NEW t \in Tasks, Others(t), task[t] # NoTask, Up, Up', mishaps' = mishaps,
         mem'.ready = mem.ready,
         \/ task'[t] = NoTask
         \/ /\ task'[t].kind = task[t].kind
            /\ task'[t].step \in Checked /\ task[t].kind = "setup" => task[t].step \in Checked
  PROVE  AloneInv'
<1> SUFFICES ASSUME "early" \notin mishaps
             PROVE  AloneInv'
  BY DEF AloneInv
<1>1. ASSUME NEW u \in Tasks, NEW v \in Tasks, task'[u].kind \in {"setup", "startup"}, u # v
      PROVE  task'[v] = NoTask
  BY <1>1, NoTaskFields DEF AloneInv, Others, Kinds
<1>2. ASSUME ~mem'.ready, NEW u \in Tasks
      PROVE  task'[u] = NoTask \/ task'[u].kind = "setup"
  BY <1>2 DEF AloneInv, Others
<1>3. ASSUME NEW u \in Tasks, task'[u].kind = "setup", task'[u].step \in Checked
      PROVE  ~mem'.ready
  BY <1>3, NoTaskFields DEF AloneInv, Others, Kinds
<1> QED  BY <1>1, <1>2, <1>3 DEF AloneInv

LEMMA AloneBegan ==
  ASSUME AloneInv, NEW r \in Requests, NEW k \in Kinds, NEW s \in Steps, Began(r, k, s), Up, mem' = mem,
         mishaps' = mishaps, k # "startup", k = "setup" <=> ~mem.ready
  PROVE  AloneInv'
<1> SUFFICES ASSUME "early" \notin mishaps
             PROVE  AloneInv'
  BY DEF AloneInv
<1>1. \A t \in Tasks : task[t].kind \notin {"setup", "startup"}
  BY DEF Began, Busy
<1>2. ~mem.ready => \A t \in Tasks : task[t] = NoTask
  BY <1>1 DEF AloneInv
<1>3. \A t \in Tasks : t # r => task'[t] = task[t]
  BY DEF Began, Others
<1>4. task'[r].kind = k
  BY DEF Began
<1> QED  BY <1>1, <1>2, <1>3, <1>4 DEF AloneInv, Up

LEMMA RequestAlone ==
  ASSUME TInv, AloneInv, NEW r \in Requests, Handles(r)
  PROVE  AloneInv'
<1>0. r \in Tasks
  BY DEF Tasks
<1>1. CASE Limited(r)
  BY <1>0, <1>1, UnderWay, LimitedDoes, AloneKept DEF Limited, Ended, Up, Steps
<1>2. CASE Miss(r)
  BY <1>0, <1>2, UnderWay, MissDoes, AloneKept DEF Miss, Ended, Up, Steps
<1>3. CASE handleLoginPost(r)
  BY <1>3, LoginDoes, AloneBegan DEF handleLoginPost, Kinds, Steps
<1>4. CASE CheckLogin(r)
  BY <1>0, <1>4, UnderWay, CheckLoginDoes, AloneKept DEF CheckLogin, At, Moved, Up, Steps
<1>5. CASE VerifyPassword(r)
  BY <1>0, <1>5, UnderWay, VerifyDoes, AloneKept DEF VerifyPassword, At, Moved, Up, Steps
<1>6. CASE Hit(r)
  BY <1>0, <1>6, UnderWay, HitDoes, AloneKept DEF Hit, At, Ended, Up, Steps
<1>7. CASE handleSetupPost(r)
  BY <1>7, SetupPostDoes, AloneBegan DEF handleSetupPost, Kinds, Steps
<1>8. CASE checkSetupCode(r)
  BY <1>0, <1>8, UnderWay, CheckCodeDoes, AloneKept DEF checkSetupCode, At, Moved, Up, Steps, Checked
<1>9. CASE SetupAssign(r)
  <2>1. Assigned(r) /\ mem'.ready = TRUE /\ mishaps' = mishaps /\ task[r].kind = "setup"
    BY <1>9, SetupAssignDoes DEF SetupAssign, At
  <2>2. "early" \notin mishaps => \A t \in Tasks : t # r => task'[t] = NoTask
    BY <1>0, <2>1 DEF AloneInv, Assigned, Others
  <2> QED  BY <2>1, <2>2, NoTaskFields DEF AloneInv, Assigned, Checked, Kinds
<1>10. CASE SetupSave(r)
  <2>1. CASE Moved(r, "env") /\ mem' = mem
    BY <1>0, <1>10, <2>1, UnderWay, AloneKept DEF SetupSave, At, Moved, Up, Steps, Checked
  <2>2. CASE Ended(r) /\ mem'.ready = FALSE
    <3>1. "early" \notin mishaps => \A t \in Tasks : task'[t] = NoTask
      BY <1>0, <1>10, <2>2 DEF AloneInv, SetupSave, At, Ended, Others
    <3> QED  BY <1>10, <2>2, <3>1, NoTaskFields DEF AloneInv, SetupSave, Kinds
  <2> QED  BY <1>10, <2>1, <2>2, SetupSaveDoes
<1>11. CASE SetupFinish(r)
  BY <1>0, <1>11, UnderWay, SetupFinishDoes, AloneKept DEF SetupFinish, At, Ended, Up, Steps
<1>12. CASE SaveEnv(r)
  BY <1>0, <1>12, UnderWay, SaveEnvDoes, AloneKept DEF SaveEnv, Moved, Up, Steps, Checked
<1>13. CASE handleSettingsPost(r)
  BY <1>13, SettingsPostDoes, AloneBegan DEF handleSettingsPost, Kinds, Steps
<1>14. CASE SettingsVerify(r)
  BY <1>0, <1>14, UnderWay, SettingsVerifyDoes, AloneKept DEF SettingsVerify, At, Moved, Ended, Up, Steps
<1>15. CASE SettingsAssign(r)
  BY <1>0, <1>15, UnderWay, SettingsAssignDoes, ConfigFields, AloneKept
     DEF SettingsAssign, At, Assigned, Ended, Up, Steps
<1>16. CASE SettingsSave(r)
  BY <1>0, <1>16, UnderWay, SettingsSaveDoes, AloneKept DEF SettingsSave, At, Moved, Ended, Up, Steps
<1>17. CASE SettingsFinish(r)
  BY <1>0, <1>17, UnderWay, SettingsFinishDoes, AloneKept DEF SettingsFinish, At, Ended, Up, Steps
<1>18. CASE handleAccountCreate(r)
  BY <1>18, CreateDoes, AloneBegan DEF handleAccountCreate, BeginAccount, Kinds, Steps
<1>19. CASE handleAccountDelete(r)
  BY <1>19, DeleteDoes, AloneBegan DEF handleAccountDelete, BeginAccount, Kinds, Steps
<1>20. CASE AccountAssign(r)
  BY <1>0, <1>20, UnderWay, AccountAssignDoes, ConfigFields, AloneKept
     DEF AccountAssign, At, Moved, Up, Steps
<1>21. CASE AccountSave(r)
  BY <1>0, <1>21, UnderWay, AccountSaveDoes, AloneKept DEF AccountSave, At, Moved, Up, Steps
<1>22. CASE AccountSaveFails(r)
  BY <1>0, <1>22, UnderWay, AccountSaveFailsDoes, ConfigFields, AloneKept
     DEF AccountSaveFails, At, Ended, Up, Steps
<1>23. CASE applyAccounts(r)
  BY <1>0, <1>23, UnderWay, ApplyDoes, AloneKept DEF applyAccounts, At, Ended, Up, Steps
<1> QED  BY <1>1, <1>2, <1>3, <1>4, <1>5, <1>6, <1>7, <1>8, <1>9, <1>10, <1>11, <1>12, <1>13, <1>14,
            <1>15, <1>16, <1>17, <1>18, <1>19, <1>20, <1>21, <1>22, <1>23 DEF Handles

LEMMA NextAlone ==
  ASSUME TInv, AloneInv, [Next]_vars
  PROVE  AloneInv'
<1>1. ASSUME NEW t \in Tasks, Synchronises(t)
      PROVE  AloneInv'
  BY <1>1, SyncsDoes, AloneKept DEF Syncs, Same, Up, Checked
<1>2. CASE (\E c \in Clients : LockoutExpires(c)) \/ SessionEnds \/ UNCHANGED vars
  BY <1>2, OtherDoes DEF AloneInv, Up
<1>3. CASE Boot
  <2>1. mishaps' = mishaps /\ \A t \in Tasks : t # Startup => task'[t] = NoTask
    BY <1>3, BootDoes DEF Boot, Tasks
  <2>2. \/ task'[Startup].kind = "startup" /\ mem'.ready
        \/ task'[Startup] = NoTask
    BY <1>3, BootDoes
  <2> QED  BY <2>1, <2>2, NoTaskFields DEF AloneInv, Kinds
<1>4. CASE Crash
  BY <1>4, CrashDoes, NoTaskFields DEF AloneInv, Crash, Kinds
<1> QED  BY <1>1, <1>2, <1>3, <1>4, RequestAlone DEF Next

-----------------------------------------------------------------------------
\* The password, in memory, in config.yaml and in .env.

PasswordInv == TypoInv /\ SavedInv /\ SharedInv

\* A step of t that leaves the three copies alone.
LEMMA PasswordKept ==
  ASSUME TInv, PasswordInv, NEW t \in Tasks, Others(t), Up, Up', mishaps' = mishaps,
         mem'.pw = mem.pw, mem'.ready = mem.ready, file'.pw = file.pw, envPw' = envPw,
         /\ ~(task[t].kind \in {"setup", "settings"} /\ task[t].step \in {"save", "env"})
         /\ ~(task'[t].kind \in {"setup", "settings"} /\ task'[t].step \in {"save", "env"}),
         task'[t].kind = "settings" /\ task'[t].step \in {"current", "assign"} /\ ~task'[t].form.ok
           => "typo" \in mishaps
  PROVE  PasswordInv'
<1>1. TypoInv'
  BY DEF PasswordInv, TypoInv, Others, Tasks
<1>2. SavedInv'
  BY DEF PasswordInv, SavedInv, Others, Tasks
<1>3. \A r \in Requests : Writes(r)' <=> Writes(r)
  BY DEF Writes, Others, Tasks
<1>4. \A r \in Requests : Writes(r) => task'[r].form = task[r].form
  BY DEF Writes, Others, Tasks
<1>5. SharedInv'
  BY <1>3, <1>4 DEF PasswordInv, SharedInv
<1> QED  BY <1>1, <1>2, <1>5 DEF PasswordInv

LEMMA PasswordPlain ==
  ASSUME TInv, PasswordInv, NEW r \in Requests, Plain(r),
         task'[r].kind = "settings" /\ task'[r].step \in {"current", "assign"} /\ ~task'[r].form.ok
           => "typo" \in mishaps
  PROVE  PasswordInv'
<1>1. r \in Tasks
  BY DEF Tasks
<1> QED  BY <1>1, PasswordKept DEF Plain, Late, Up

LEMMA SetupAssignPassword ==
  ASSUME TInv, AloneInv, PasswordInv, NEW r \in Requests, SetupAssign(r)
  PROVE  PasswordInv'
<1>1. /\ Assigned(r) /\ mem'.pw = task[r].form.new /\ task[r].form.new \in Passwords
      /\ mishaps' = mishaps /\ task[r].kind = "setup" /\ r \in Tasks /\ Up' /\ Up
  BY SetupAssignDoes, ConfigFields DEF SetupAssign, At, Tasks, TInv, TypeOK, HolderInv, Assigned, Up
<1>2. TypoInv'
  BY <1>1 DEF PasswordInv, TypoInv, Assigned, Others, Tasks
<1>3. SavedInv'
  BY <1>1 DEF SavedInv, Assigned
<1>4. Writes(r)' /\ task'[r].form.new = mem'.pw
  BY <1>1 DEF Writes, Assigned
<1>5. "early" \notin mishaps => \A q \in Requests : q # r => ~Writes(q)'
  BY <1>1, NoTaskFields DEF AloneInv, Assigned, Others, Writes, Tasks, Kinds
<1>6. SharedInv'
  BY <1>1, <1>4, <1>5 DEF SharedInv
<1> QED  BY <1>2, <1>3, <1>6 DEF PasswordInv

LEMMA SettingsAssignPassword ==
  ASSUME TInv, AloneInv, PasswordInv, NEW r \in Requests, SettingsAssign(r)
  PROVE  PasswordInv'
<1>1. /\ mem'.ready = mem.ready /\ mishaps' = mishaps /\ file' = file /\ envPw' = envPw
      /\ mem'.pw = IF task[r].form.new = None THEN mem.pw ELSE task[r].form.new
      /\ task[r].kind = "settings" /\ task[r].step = "assign" /\ r \in Tasks /\ Up /\ Up'
  BY SettingsAssignDoes, ConfigFields DEF SettingsAssign, At, Tasks, Up
<1>2. CASE Ended(r) /\ ~task[r].form.ok
  <2>1. "typo" \in mishaps'
    BY <1>1, <1>2 DEF PasswordInv, TypoInv
  <2> QED  BY <1>1, <1>2, <2>1, NoTaskFields
           DEF PasswordInv, TypoInv, SavedInv, SharedInv, Ended, Others, Tasks, Kinds
<1>3. CASE Assigned(r)
  <2>1. TypoInv'
    BY <1>1, <1>3 DEF PasswordInv, TypoInv, Assigned, Others, Tasks
  <2>2. SavedInv'
    BY <1>1, <1>3 DEF SavedInv, Assigned
  <2>3. \A q \in Requests : q # r => (Writes(q)' <=> Writes(q)) /\ task'[q].form = task[q].form
    BY <1>3 DEF Writes, Assigned, Others, Tasks
  <2>4. ~Writes(r) /\ task'[r].form.new = task[r].form.new /\ (Writes(r)' <=> task[r].form.new # None)
    BY <1>1, <1>3 DEF Writes, Assigned
  <2>5. "early" \notin mishaps => \A q \in Requests : ~Writes(q)
    <3>1. ASSUME NEW q \in Requests, Writes(q), "early" \notin mishaps
          PROVE  FALSE
      <4>1. q # r /\ q \in Tasks
        BY <2>4, <3>1 DEF Tasks
      <4>2. task[q].kind # "setup"
        BY <1>1, <3>1, <4>1, NoTaskFields DEF AloneInv, Kinds
      <4>3. lock = q /\ lock = r
        BY <1>1, <3>1, <4>2 DEF Writes, TInv, HolderInv, Locked
      <4> QED  BY <4>1, <4>3
    <3> QED  BY <3>1
  <2>6. SharedInv'
    BY <1>1, <2>3, <2>4, <2>5 DEF PasswordInv, SharedInv
  <2> QED  BY <2>1, <2>2, <2>6 DEF PasswordInv
<1> QED  BY <1>2, <1>3, SettingsAssignDoes

\* config.yaml takes the Config over.
LEMMA SavePassword ==
  ASSUME TInv, PasswordInv, NEW r \in Requests, SetupSave(r) \/ SettingsSave(r)
  PROVE  PasswordInv'
<1>1. /\ mishaps' = mishaps /\ envPw' = envPw /\ Up /\ task[r].step = "save" /\ r \in Tasks
      /\ task[r].kind \in {"setup", "settings"}
  BY DEF SetupSave, SettingsSave, At, Tasks
<1>2. CASE Moved(r, "env") /\ file' = mem /\ mem' = mem
  <2>1. TypoInv'
    BY <1>1, <1>2 DEF PasswordInv, TypoInv, Moved, Others, Tasks
  <2>2. SavedInv'
    BY <1>2 DEF SavedInv
  <2>3. \A q \in Requests : (Writes(q)' <=> Writes(q)) /\ task'[q].form = task[q].form
    BY <1>1, <1>2 DEF Writes, Moved, Others, Tasks
  <2>4. SharedInv'
    BY <1>1, <1>2, <2>3 DEF PasswordInv, SharedInv, Up
  <2> QED  BY <2>1, <2>2, <2>4 DEF PasswordInv
<1>3. CASE "write" \in mishaps /\ Ended(r)
  <2>1. TypoInv'
    BY <1>1, <1>3, NoTaskFields DEF PasswordInv, TypoInv, Ended, Others, Tasks, Kinds
  <2>2. SavedInv' /\ SharedInv'
    BY <1>1, <1>3 DEF SavedInv, SharedInv
  <2> QED  BY <2>1, <2>2 DEF PasswordInv
<1> QED  BY <1>2, <1>3, SetupSaveDoes, SettingsSaveDoes DEF SettingsSave

\* .env takes the new password over.
LEMMA EnvPassword ==
  ASSUME TInv, PasswordInv, NEW r \in Requests, SaveEnv(r)
  PROVE  PasswordInv'
<1>1. /\ mishaps' = mishaps /\ mem' = mem /\ file' = file /\ Up /\ Up' /\ task[r].step = "env"
      /\ r \in Tasks /\ task[r].kind \in {"setup", "settings"}
      /\ Others(r) /\ task'[r].kind = task[r].kind /\ task'[r].step \in {"sync", "finish"}
  BY SaveEnvDoes DEF SaveEnv, Moved, Tasks, Up
<1>2. TypoInv'
  BY <1>1 DEF PasswordInv, TypoInv, Others, Tasks
<1>3. SavedInv'
  BY <1>1 DEF PasswordInv, SavedInv, Others, Tasks
<1>4. ~Writes(r)' /\ \A q \in Requests : q # r => (Writes(q)' <=> Writes(q)) /\ task'[q] = task[q]
  BY <1>1 DEF Writes, Others, Tasks
<1>5. "write" \in mishaps \/ envPw' = IF task[r].form.new # None THEN task[r].form.new ELSE envPw
  BY DEF SaveEnv
<1>6. Writes(r) <=> task[r].form.new # None
  BY <1>1 DEF Writes
<1>7. SharedInv'
  BY <1>1, <1>4, <1>5, <1>6 DEF PasswordInv, SharedInv
<1> QED  BY <1>2, <1>3, <1>7 DEF PasswordInv

\* The steps of an account touch no password.
LEMMA AccountPassword ==
  ASSUME TInv, PasswordInv, NEW r \in Requests,
         \/ handleAccountCreate(r) \/ handleAccountDelete(r) \/ AccountAssign(r) \/ AccountSaveFails(r)
         \/ applyAccounts(r)
  PROVE  PasswordInv'
<1>1. /\ r \in Tasks /\ Others(r) /\ Up /\ mishaps' = mishaps /\ file' = file /\ envPw' = envPw
      /\ mem \in Config
  BY CreateDoes, DeleteDoes, AccountAssignDoes, AccountSaveFailsDoes, ApplyDoes
     DEF Tasks, Began, Moved, Ended, TInv, TypeOK, Up, handleAccountCreate, handleAccountDelete, BeginAccount,
         AccountAssign, AccountSaveFails, applyAccounts, At
<1>2. /\ mem' \in Config /\ mem'.pw = mem.pw /\ mem'.ready = mem.ready
  BY <1>1, AccountAssignDoes, AccountSaveFailsDoes
     DEF handleAccountCreate, handleAccountDelete, BeginAccount, applyAccounts
<1>3. task[r].kind \notin {"setup", "settings"}
  BY NoTaskFields, CreateDoes, DeleteDoes
     DEF Began, AccountAssign, AccountSaveFails, applyAccounts, At, Kinds
<1>4. task'[r].kind \notin {"setup", "settings"}
  BY <1>3, NoTaskFields, CreateDoes, DeleteDoes, AccountAssignDoes, AccountSaveFailsDoes, ApplyDoes
     DEF Began, Moved, Ended, Kinds
<1>5. Up'
  BY <1>2, ConfigFields DEF Up
<1> QED  BY <1>1, <1>2, <1>3, <1>4, <1>5, PasswordKept

\* The save of an account also saves what else the Config holds.
LEMMA AccountSavePassword ==
  ASSUME TInv, PasswordInv, NEW r \in Requests, AccountSave(r)
  PROVE  PasswordInv'
<1>1. /\ r \in Tasks /\ Others(r) /\ Up /\ Up' /\ mishaps' = mishaps /\ file' = mem /\ mem' = mem
      /\ envPw' = envPw /\ task[r].kind \in {"create", "delete"} /\ task'[r].kind = task[r].kind
  BY AccountSaveDoes DEF AccountSave, At, Moved, Tasks, Up
<1>2. TypoInv'
  BY <1>1 DEF PasswordInv, TypoInv, Others, Tasks
<1>3. SavedInv'
  BY <1>1 DEF SavedInv
<1>4. \A q \in Requests : (Writes(q)' <=> Writes(q)) /\ (Writes(q) => task'[q].form = task[q].form)
  BY <1>1 DEF Writes, Others, Tasks
<1>5. SharedInv'
  BY <1>1, <1>4 DEF PasswordInv, SharedInv
<1> QED  BY <1>2, <1>3, <1>5 DEF PasswordInv

LEMMA NextPassword ==
  ASSUME TInv, AloneInv, PasswordInv, [Next]_vars
  PROVE  PasswordInv'
<1>1. ASSUME NEW r \in Requests, Handles(r)
      PROVE  PasswordInv'
  <2>1. CASE \/ Limited(r) \/ Miss(r) \/ handleLoginPost(r) \/ CheckLogin(r) \/ VerifyPassword(r) \/ Hit(r)
             \/ handleSetupPost(r) \/ checkSetupCode(r) \/ SetupFinish(r)
             \/ handleSettingsPost(r) \/ SettingsVerify(r) \/ SettingsFinish(r)
    <3>1. Plain(r)
      BY <2>1, PlainDoes
    <3>2. task'[r].kind = "settings" /\ task'[r].step \in {"current", "assign"} /\ ~task'[r].form.ok
            => "typo" \in mishaps
      <4>1. CASE handleSettingsPost(r)
        BY <4>1, SettingsPostDoes
      <4>2. CASE SettingsVerify(r)
        BY <4>2, SettingsVerifyDoes, NoTaskFields
           DEF SettingsVerify, At, Moved, Ended, PasswordInv, TypoInv, Kinds
      <4>3. CASE Limited(r) \/ Miss(r) \/ Hit(r) \/ SetupFinish(r) \/ SettingsFinish(r)
        BY <4>3, LimitedDoes, MissDoes, HitDoes, SetupFinishDoes, SettingsFinishDoes, NoTaskFields
           DEF Ended, Kinds
      <4>4. CASE handleLoginPost(r) \/ handleSetupPost(r)
        BY <4>4, LoginDoes, SetupPostDoes DEF Began
      <4>5. CASE CheckLogin(r) \/ VerifyPassword(r) \/ checkSetupCode(r)
        BY <4>5, CheckLoginDoes, VerifyDoes, CheckCodeDoes
           DEF Moved, CheckLogin, VerifyPassword, checkSetupCode, At
      <4> QED  BY <2>1, <4>1, <4>2, <4>3, <4>4, <4>5
    <3> QED  BY <3>1, <3>2, PasswordPlain
  <2> QED  BY <1>1, <2>1, SetupAssignPassword, SettingsAssignPassword, SavePassword, EnvPassword,
              AccountPassword, AccountSavePassword DEF Handles
<1>2. ASSUME NEW t \in Tasks, Synchronises(t)
      PROVE  PasswordInv'
  <2>1. Syncs(t)
    BY <1>2, SyncsDoes
  <2> QED  BY <2>1, NoTaskFields, PasswordKept DEF Syncs, Same, Up, Kinds
<1>3. CASE (\E c \in Clients : LockoutExpires(c)) \/ SessionEnds \/ UNCHANGED vars
  BY <1>3, OtherDoes DEF PasswordInv, TypoInv, SavedInv, SharedInv, Writes, Up
<1>4. CASE Boot
  <2>1. /\ mem' = file /\ mishaps' = mishaps /\ file' = file /\ ~Up
        /\ \A r \in Requests : task'[r] = NoTask
    BY <1>4, BootDoes DEF Boot
  <2> QED  BY <2>1, NoTaskFields, BootDoes, <1>4 DEF PasswordInv, TypoInv, SavedInv, SharedInv, Kinds
<1>5. CASE Crash
  <2>1. ~Up' /\ "crash" \in mishaps' /\ \A r \in Requests : task'[r] = NoTask
    BY <1>5, CrashDoes DEF Crash, Tasks
  <2> QED  BY <2>1, NoTaskFields DEF PasswordInv, TypoInv, SavedInv, SharedInv, Kinds
<1> QED  BY <1>1, <1>2, <1>3, <1>4, <1>5 DEF Next

-----------------------------------------------------------------------------
\* The wildcard record and the address.

\* A step of t that leaves the record and the address alone.
LEMMA WildcardKept ==
  ASSUME WildcardInv, NEW t \in Tasks, Others(t), Up, Up', mishaps' = mishaps, record' = record,
         dnsErr' = dnsErr, mem'.ready = mem.ready, mem'.addr = mem.addr, mem'.dns = mem.dns,
         Synchronising(t) => Synchronising(t)', task'[t].step \notin {"get", "put"}
  PROVE  WildcardInv'
<1>1. \A u \in Tasks : Synchronising(u) => Synchronising(u)'
  BY DEF Synchronising, Others
<1>2. PointsTo(mem.addr) => PointsTo(mem.addr)'
  BY DEF PointsTo, rrType
<1> QED  BY <1>1, <1>2 DEF WildcardInv, Others

LEMMA RequestWildcard ==
  ASSUME TInv, AloneInv, WildcardInv, NEW r \in Requests, Handles(r)
  PROVE  WildcardInv'
<1>0. r \in Tasks
  BY DEF Tasks
<1>1. CASE Plain(r)
  BY <1>0, <1>1, WildcardKept DEF Plain, Late, Synchronising, Up
<1>2. CASE SetupAssign(r)
  <2>1. /\ Assigned(r) /\ task[r].kind = "setup" /\ mishaps' = mishaps
    BY <1>2, SetupAssignDoes DEF SetupAssign, At
  <2>2. Synchronising(r)' /\ task'[r].step = "save"
    BY <2>1 DEF Synchronising, Assigned
  <2>3. "early" \notin mishaps => \A u \in Tasks : u # r => task'[u] = NoTask
    BY <1>0, <2>1 DEF AloneInv, Assigned, Others
  <2> QED  BY <1>0, <2>1, <2>2, <2>3, NoTaskFields DEF WildcardInv, Steps
<1>3. CASE SetupSave(r) \/ SettingsSave(r)
  <2>1. CASE Moved(r, "env") /\ mem' = mem
    BY <1>0, <1>3, <2>1, WildcardKept DEF SetupSave, SettingsSave, At, Moved, Synchronising, Up
  <2>2. CASE "write" \in mishaps
    BY <1>3, <2>2 DEF WildcardInv, SetupSave, SettingsSave
  <2> QED  BY <1>3, <2>1, <2>2, SetupSaveDoes, SettingsSaveDoes DEF SettingsSave
<1>4. CASE SaveEnv(r)
  <2>1. /\ Others(r) /\ task'[r].kind = task[r].kind /\ task[r].kind \in {"setup", "settings"}
        /\ task'[r].step \in {"sync", "finish"}
        /\ task[r].kind = "setup" \/ task[r].sync => task'[r].step = "sync"
    BY <1>4, SaveEnvDoes DEF Moved
  <2>2. Synchronising(r) => Synchronising(r)'
    BY <1>4, <2>1 DEF SaveEnv, Synchronising
  <2> QED  BY <1>0, <1>4, <2>1, <2>2, WildcardKept DEF SaveEnv, Up
<1>5. CASE SettingsAssign(r)
  <2>1. /\ mem'.ready = mem.ready /\ mishaps' = mishaps /\ record' = record /\ dnsErr' = dnsErr
        /\ task[r].kind = "settings" /\ task[r].step = "assign" /\ Up /\ Up' /\ ~Synchronising(r)
        /\ lock = r
    BY <1>5, SettingsAssignDoes, ConfigFields
       DEF SettingsAssign, At, Up, Synchronising, TInv, HolderInv, Locked
  <2>2. CASE Ended(r) /\ mem'.dns = mem.dns /\ mem'.addr = mem.addr
    BY <1>0, <2>1, <2>2, NoTaskFields, WildcardKept DEF Ended, Steps
  <2>3. CASE Assigned(r) /\ ~task'[r].sync /\ mem'.dns = mem.dns /\ mem'.addr = mem.addr
    BY <1>0, <2>1, <2>3, WildcardKept DEF Assigned
  <2>4. CASE Assigned(r) /\ task'[r].sync
    <3>1. Synchronising(r)' /\ task'[r].step = "save"
      BY <2>1, <2>4 DEF Synchronising, Assigned
    <3>2. ASSUME "early" \notin mishaps, NEW u \in Tasks, task'[u].step \in {"get", "put"}
          PROVE  FALSE
      <4>1. u # r /\ task[u].step \in {"get", "put"}
        BY <2>4, <3>1, <3>2 DEF Assigned, Others
      <4>2. task[u].kind \notin {"setup", "startup"}
        BY <1>0, <2>1, <3>2, <4>1, NoTaskFields DEF AloneInv, Kinds
      <4>3. u \in Requests /\ task[u].kind = "settings"
        BY <4>1, <4>2, SyncStep
      <4> QED  BY <2>1, <4>1, <4>3 DEF TInv, HolderInv, Locked
    <3> QED  BY <1>0, <2>1, <3>1, <3>2 DEF WildcardInv
  <2> QED  BY <1>5, <2>2, <2>3, <2>4, SettingsAssignDoes
<1>6. CASE \/ handleAccountCreate(r) \/ handleAccountDelete(r) \/ AccountAssign(r) \/ AccountSave(r)
           \/ AccountSaveFails(r) \/ applyAccounts(r)
  <2>1. /\ Others(r) /\ Up /\ Up' /\ mishaps' = mishaps /\ record' = record /\ dnsErr' = dnsErr
        /\ mem'.ready = mem.ready /\ mem'.addr = mem.addr /\ mem'.dns = mem.dns
    <3>1. CASE handleAccountCreate(r) \/ handleAccountDelete(r)
      BY <3>1, CreateDoes, DeleteDoes DEF Began, handleAccountCreate, handleAccountDelete, BeginAccount, Up
    <3>2. CASE AccountAssign(r)
      BY <3>2, AccountAssignDoes, ConfigFields DEF Moved, AccountAssign, At, Up
    <3>3. CASE AccountSave(r)
      BY <3>3, AccountSaveDoes DEF Moved, AccountSave, At, Up
    <3>4. CASE AccountSaveFails(r)
      BY <3>4, AccountSaveFailsDoes, ConfigFields DEF Ended, AccountSaveFails, At, Up
    <3>5. CASE applyAccounts(r)
      BY <3>5, ApplyDoes DEF Ended, applyAccounts, At, Up
    <3> QED  BY <1>6, <3>1, <3>2, <3>3, <3>4, <3>5
  <2>2. ~Synchronising(r)
    BY <1>6, CreateDoes, DeleteDoes, NoTaskFields
       DEF Began, AccountAssign, AccountSave, AccountSaveFails, applyAccounts, At, Synchronising, Kinds
  <2>3. task'[r].step \notin {"get", "put"}
    BY <1>6, CreateDoes, DeleteDoes, AccountAssignDoes, AccountSaveDoes, AccountSaveFailsDoes, ApplyDoes,
       NoTaskFields DEF Began, Moved, Ended, Steps
  <2> QED  BY <1>0, <2>1, <2>2, <2>3, WildcardKept
<1> QED  BY <1>1, <1>2, <1>3, <1>4, <1>5, <1>6, PlainDoes DEF Handles

LEMMA SynchronisesWildcard ==
  ASSUME TInv, WildcardInv, NEW t \in Tasks, Synchronises(t)
  PROVE  WildcardInv'
<1>1. mem' = mem /\ mishaps' = mishaps /\ Others(t) /\ Up
      /\ task[t].kind \in {"startup", "setup", "settings"}
  BY SyncsDoes DEF Syncs, Same
<1> SUFFICES ASSUME mishaps \cap {"write", "early"} = {}, mem.ready, mem.dns = "managed"
             PROVE  WildcardInv'
  BY <1>1 DEF WildcardInv
<1>2. \A u \in Tasks : task[u].step \in {"get", "put"} => task[u].ip = mem.addr
  BY <1>1 DEF WildcardInv
<1>3. CASE Done(t)
  <2>1. \A u \in Tasks : task'[u].step \in {"get", "put"} => task'[u].ip = mem.addr
    BY <1>2, <1>3, NoTaskFields DEF Done, Others, Steps
  <2>2. dnsErr' \/ PointsTo(mem.addr)'
    <3>1. CASE syncWildcard(t)
      <4>1. dnsErr' = (mem.dns = "managed") \/ task'[t].step = "get"
        BY <3>1, SyncDoes
      <4> QED  BY <1>3, <4>1, NoTaskFields DEF Done, Steps
    <3>2. CASE GetRecord(t)
      <4>1. task[t].step = "get"
        BY <3>2 DEF GetRecord
      <4>2. dnsErr' = FALSE /\ PointsTo(task[t].ip) /\ record' = record /\ task[t].ip = mem.addr
        BY <1>2, <1>3, <3>2, <4>1, GetDoes, NoTaskFields DEF Done, Moved, Steps
      <4> QED  BY <1>1, <4>2 DEF PointsTo, rrType
    <3>3. CASE PutRecord(t)
      BY <1>2, <3>3, PutDoes DEF PutRecord
    <3>4. CASE DeSECFails(t)
      BY <3>4, DeSECFailsDoes
    <3> QED  BY <3>1, <3>2, <3>3, <3>4 DEF Synchronises
  <2> QED  BY <1>1, <2>1, <2>2 DEF WildcardInv
<1>4. CASE ~Done(t)
  <2>1. \/ task'[t].step = "get" /\ task'[t].ip = mem.addr
        \/ task'[t].step = "put" /\ task'[t].ip = task[t].ip /\ task[t].step = "get"
    BY <1>4, SyncDoes, GetDoes, PutDoes, DeSECFailsDoes DEF Synchronises, GetRecord, Moved
  <2>2. task'[t].kind = task[t].kind
    BY <1>4, SyncDoes, GetDoes, PutDoes, DeSECFailsDoes DEF Synchronises, Moved
  <2>3. Synchronising(t)'
    BY <1>1, <2>1, <2>2 DEF Synchronising
  <2> QED  BY <1>1, <1>2, <2>1, <2>3 DEF WildcardInv, Others
<1> QED  BY <1>3, <1>4

LEMMA NextWildcard ==
  ASSUME TInv, AloneInv, WildcardInv, [Next]_vars
  PROVE  WildcardInv'
<1>1. CASE (\E c \in Clients : LockoutExpires(c)) \/ SessionEnds \/ UNCHANGED vars
  BY <1>1, OtherDoes DEF WildcardInv, Synchronising, Up, PointsTo, rrType
<1>2. CASE Boot
  <2>1. /\ mem' = file /\ \A r \in Requests : task'[r] = NoTask
        /\ Startup \in Tasks
        /\ \/ task'[Startup].kind = "startup" /\ task'[Startup].step = "sync"
           \/ task'[Startup] = NoTask /\ ~(file.ready /\ file.dns = "managed")
    BY <1>2, BootDoes DEF Tasks
  <2> QED  BY <2>1, NoTaskFields DEF WildcardInv, Synchronising, Tasks, Steps
<1>3. CASE Crash
  BY <1>3, CrashDoes DEF WildcardInv
<1> QED  BY <1>1, <1>2, <1>3, RequestWildcard, SynchronisesWildcard DEF Next

-----------------------------------------------------------------------------
\* The test accounts, in memory, in config.yaml and in Dex.

AccountInv == ChangeInv /\ AccountsInv

\* A step of t that leaves the accounts alone.
LEMMA AccountsKept ==
  ASSUME AccountInv, NEW t \in Tasks, Others(t), Up, Up', mishaps' = mishaps,
         mem'.accounts = mem.accounts, file'.accounts = file.accounts, dex' = dex, warned' = warned,
         ~Changing(t), ~Changing(t)'
  PROVE  AccountInv'
<1>1. \A r \in Requests : Changing(r)' <=> Changing(r)
  BY DEF Changing, Others, Tasks
<1>2. \A r \in Requests : Changing(r) => task'[r] = task[r]
  BY DEF Changing, Others, Tasks
<1>3. \A r \in Requests : Changing(r) => (Before(r)' = Before(r) /\ Account(r)' = Account(r))
  BY <1>2 DEF Before, Account
<1>4. ChangeInv'
  BY <1>1, <1>2, <1>3 DEF AccountInv, ChangeInv
<1>5. AccountsInv'
  BY <1>1, <1>2, <1>3 DEF AccountInv, AccountsInv
<1> QED  BY <1>4, <1>5 DEF AccountInv

\* The one that changes the accounts is alone in it.
LEMMA OneChanges ==
  ASSUME TInv, NEW r \in Requests, task[r].kind \in Locked, NEW q \in Requests, Changing(q)
  PROVE  q = r
BY DEF TInv, HolderInv, Locked, Changing

LEMMA BeginAccounts ==
  ASSUME TInv, AccountInv, NEW r \in Requests, handleAccountCreate(r) \/ handleAccountDelete(r)
  PROVE  AccountInv'
<1>1. /\ Others(r) /\ Up /\ Up' /\ mem' = mem /\ file' = file /\ dex' = dex /\ warned' = warned
      /\ mishaps' = mishaps /\ task'[r].step = "assign" /\ Changing(r)' /\ ~Changing(r) /\ r \in Tasks
  BY CreateDoes, DeleteDoes, NoTaskFields
     DEF handleAccountCreate, handleAccountDelete, BeginAccount, Began, Up, Changing, Kinds, Tasks
<1>2. Account(r)' \in mem'.accounts <=> task'[r].kind = "delete"
  BY <1>1, CreateDoes, DeleteDoes DEF Began, Account
<1>3. \A q \in Requests : q # r => task'[q] = task[q] /\ (Changing(q)' <=> Changing(q))
                                   /\ Before(q)' = Before(q) /\ Account(q)' = Account(q)
  BY <1>1 DEF Others, Tasks, Changing, Before, Account
<1>4. ChangeInv'
  BY <1>1, <1>2, <1>3 DEF AccountInv, ChangeInv
<1>5. AccountsInv'
  <2>1. \A q \in Requests : Changing(q)' /\ task'[q].step \in {"save", "finish"}
                              <=> Changing(q) /\ task[q].step \in {"save", "finish"}
    BY <1>1, <1>3
  <2>2. \A q \in Requests : Changing(q)' /\ task'[q].step = "save"
                              <=> Changing(q) /\ task[q].step = "save"
    BY <1>1, <1>3
  <2>3. \A q \in Requests : Changing(q) => Before(q)' = Before(q)
    BY <1>1, <1>3
  <2> QED  BY <1>1, <2>1, <2>2, <2>3 DEF AccountInv, AccountsInv
<1> QED  BY <1>4, <1>5 DEF AccountInv

LEMMA AssignAccounts ==
  ASSUME TInv, AccountInv, NEW r \in Requests, AccountAssign(r)
  PROVE  AccountInv'
<1>1. /\ Moved(r, "save") /\ Up /\ Up' /\ file' = file /\ dex' = dex /\ warned' = warned
      /\ mishaps' = mishaps /\ task[r].step = "assign" /\ Changing(r) /\ r \in Tasks
      /\ mem'.accounts = IF task[r].kind = "create" THEN mem.accounts \cup {Account(r)}
                                                    ELSE mem.accounts \ {Account(r)}
  BY AccountAssignDoes, ConfigFields DEF AccountAssign, At, Up, Changing, Tasks
<1>2. Changing(r)' /\ Account(r)' = Account(r) /\ task'[r].kind = task[r].kind /\ task'[r].step = "save"
  BY <1>1 DEF Moved, Changing, Account
<1>3. \A q \in Requests : q # r => ~Changing(q) /\ ~Changing(q)'
  <2>1. \A q \in Requests : q # r => ~Changing(q)
    BY <1>1, OneChanges DEF Changing, Locked
  <2> QED  BY <1>1, <2>1 DEF Moved, Others, Changing, Tasks
<1>4. Account(r) \in mem.accounts <=> task[r].kind = "delete"
  BY <1>1 DEF AccountInv, ChangeInv
<1>5. Account(r)' \in mem'.accounts <=> task'[r].kind = "create"
  BY <1>1, <1>2 DEF Changing
<1>6. Before(r)' = mem.accounts
  BY <1>1, <1>2, <1>4 DEF Before, Changing
<1>7. ChangeInv'
  BY <1>2, <1>3, <1>5 DEF ChangeInv
<1>8. AccountsInv'
  BY <1>1, <1>2, <1>3, <1>6 DEF AccountInv, AccountsInv
<1> QED  BY <1>7, <1>8 DEF AccountInv

LEMMA SaveAccounts ==
  ASSUME TInv, AccountInv, NEW r \in Requests, AccountSave(r)
  PROVE  AccountInv'
<1>1. /\ Moved(r, "finish") /\ Up /\ Up' /\ mem' = mem /\ file' = mem /\ dex' = dex /\ warned' = warned
      /\ mishaps' = mishaps /\ task[r].step = "save" /\ Changing(r) /\ r \in Tasks
  BY AccountSaveDoes DEF AccountSave, At, Up, Changing, Tasks
<1>2. Changing(r)' /\ task'[r].step = "finish"
  BY <1>1 DEF Moved, Changing
<1>3. \A q \in Requests : q # r => ~Changing(q)'
  <2>1. \A q \in Requests : q # r => ~Changing(q)
    BY <1>1, OneChanges DEF Changing, Locked
  <2> QED  BY <1>1, <2>1 DEF Moved, Others, Changing, Tasks
<1> QED  BY <1>1, <1>2, <1>3 DEF AccountInv, ChangeInv, AccountsInv

LEMMA SaveFailsAccounts ==
  ASSUME TInv, AccountInv, NEW r \in Requests, AccountSaveFails(r)
  PROVE  AccountInv'
<1>1. /\ Ended(r) /\ Up /\ Up' /\ file' = file /\ dex' = dex /\ warned' = warned
      /\ mishaps' = mishaps /\ task[r].step = "save" /\ Changing(r) /\ r \in Tasks
      /\ mem'.accounts = Before(r)
  BY AccountSaveFailsDoes, ConfigFields DEF AccountSaveFails, At, Up, Tasks
<1>2. \A q \in Requests : ~Changing(q)'
  <2>1. \A q \in Requests : q # r => ~Changing(q)
    BY <1>1, OneChanges DEF Changing, Locked
  <2> QED  BY <1>1, <2>1, NoTaskFields DEF Ended, Others, Changing, Tasks, Kinds
<1> QED  BY <1>1, <1>2 DEF AccountInv, ChangeInv, AccountsInv

LEMMA ApplyAccounts ==
  ASSUME TInv, AccountInv, NEW r \in Requests, applyAccounts(r)
  PROVE  AccountInv'
<1>1. /\ Ended(r) /\ Up /\ Up' /\ mem' = mem /\ file' = file /\ (dex' = mem.accounts \/ warned')
      /\ mishaps' = mishaps /\ task[r].step = "finish" /\ Changing(r) /\ r \in Tasks
  BY ApplyDoes DEF applyAccounts, At, Up, Changing, Tasks
<1>2. \A q \in Requests : q # r => ~Changing(q)
  BY <1>1, OneChanges DEF Changing, Locked
<1>3. \A q \in Requests : ~Changing(q)'
  BY <1>1, <1>2, NoTaskFields DEF Ended, Others, Changing, Tasks, Kinds
<1> QED  BY <1>1, <1>2, <1>3 DEF AccountInv, ChangeInv, AccountsInv

\* The handlers of other forms.
LEMMA OtherAccounts ==
  ASSUME TInv, AloneInv, AccountInv, NEW r \in Requests,
         SetupAssign(r) \/ SetupSave(r) \/ SaveEnv(r) \/ SettingsAssign(r) \/ SettingsSave(r)
  PROVE  AccountInv'
<1>1. /\ Others(r) /\ Up /\ Up' /\ dex' = dex /\ warned' = warned /\ mishaps' = mishaps /\ r \in Tasks
      /\ mem'.accounts = mem.accounts /\ task[r].kind \in {"setup", "settings"}
      /\ task'[r] = NoTask \/ task'[r].kind = task[r].kind
  <2>1. CASE SetupAssign(r)
    BY <2>1, SetupAssignDoes, ConfigFields
       DEF SetupAssign, At, Assigned, Up, Tasks, TInv, HolderInv
  <2>2. CASE SetupSave(r)
    BY <2>2, SetupSaveDoes DEF SetupSave, At, Moved, Ended, Up, Tasks
  <2>3. CASE SaveEnv(r)
    BY <2>3, SaveEnvDoes DEF SaveEnv, Moved, Up, Tasks
  <2>4. CASE SettingsAssign(r)
    BY <2>4, SettingsAssignDoes, ConfigFields DEF SettingsAssign, At, Assigned, Ended, Up, Tasks
  <2>5. CASE SettingsSave(r)
    BY <2>5, SettingsSaveDoes DEF SettingsSave, At, Moved, Ended, Up, Tasks
  <2> QED  BY <2>1, <2>2, <2>3, <2>4, <2>5
<1>2. ~Changing(r) /\ ~Changing(r)'
  BY <1>1, NoTaskFields DEF Changing, Kinds
<1>3. CASE file' = file
  BY <1>1, <1>2, <1>3, AccountsKept
<1>4. CASE file' = mem
  <2>1. \A q \in Requests : Changing(q)' <=> Changing(q)
    BY <1>1, <1>2 DEF Changing, Others, Tasks
  <2>2. \A q \in Requests : Changing(q) => task'[q] = task[q]
    BY <1>1, <1>2 DEF Others, Tasks
  <2>3. \A q \in Requests : Changing(q) => (Before(q)' = Before(q) /\ Account(q)' = Account(q))
    BY <1>1, <2>2 DEF Before, Account
  <2>4. "early" \notin mishaps => \A q \in Requests : ~Changing(q)
    <3>1. CASE task[r].kind = "setup"
      BY <1>1, <1>2, <3>1, NoTaskFields DEF AloneInv, Changing, Kinds, Tasks
    <3>2. CASE task[r].kind = "settings"
      BY <1>2, <3>2, OneChanges DEF Locked
    <3> QED  BY <1>1, <3>1, <3>2
  <2>5. ChangeInv'
    BY <1>1, <2>1, <2>2, <2>3 DEF AccountInv, ChangeInv
  <2>6. AccountsInv'
    BY <1>1, <1>4, <2>1, <2>2, <2>3, <2>4 DEF AccountInv, AccountsInv
  <2> QED  BY <2>5, <2>6 DEF AccountInv
<1>5. file' = file \/ file' = mem
  BY DEF SetupAssign, SetupSave, SaveEnv, SettingsAssign, SettingsSave
<1> QED  BY <1>3, <1>4, <1>5

LEMMA NextAccounts ==
  ASSUME TInv, AloneInv, AccountInv, [Next]_vars
  PROVE  AccountInv'
<1>1. ASSUME NEW r \in Requests, Plain(r)
      PROVE  AccountInv'
  BY <1>1, AccountsKept DEF Plain, Up, Tasks
<1>2. ASSUME NEW r \in Requests, Handles(r)
      PROVE  AccountInv'
  BY <1>1, <1>2, PlainDoes, BeginAccounts, AssignAccounts, SaveAccounts, SaveFailsAccounts, ApplyAccounts,
     OtherAccounts DEF Handles
<1>3. ASSUME NEW t \in Tasks, Synchronises(t)
      PROVE  AccountInv'
  <2>1. Syncs(t)
    BY <1>3, SyncsDoes
  <2>2. ~Changing(t) /\ ~Changing(t)'
    BY <2>1, NoTaskFields DEF Syncs, Changing, Kinds
  <2> QED  BY <2>1, <2>2, AccountsKept DEF Syncs, Same, Up
<1>4. CASE (\E c \in Clients : LockoutExpires(c)) \/ SessionEnds \/ UNCHANGED vars
  BY <1>4, OtherDoes DEF AccountInv, ChangeInv, AccountsInv, Changing, Before, Account, Up
<1>5. CASE Boot
  <2>1. /\ mem' = file /\ file' = file /\ mishaps' = mishaps /\ dex' = dex /\ ~Up
        /\ \A r \in Requests : ~Changing(r)'
    BY <1>5, BootDoes, NoTaskFields DEF Boot, Changing, Kinds
  <2> QED  BY <2>1 DEF AccountInv, ChangeInv, AccountsInv
<1>6. CASE Crash
  <2>1. /\ "crash" \in mishaps' /\ ~Up'
        /\ \A r \in Requests : ~Changing(r)'
    BY <1>6, CrashDoes, NoTaskFields DEF Crash, Changing, Kinds, Tasks
  <2> QED  BY <2>1 DEF AccountInv, ChangeInv, AccountsInv
<1> QED  BY <1>2, <1>3, <1>4, <1>5, <1>6 DEF Next

-----------------------------------------------------------------------------
\* What the invariants say once no change is under way.

LEMMA QuietHolds ==
  ASSUME TInv, Quiet
  PROVE  \A r \in Requests : task[r].kind \notin {"setup", "settings", "create", "delete"}
BY DEF TInv, HolderInv, Locked, Quiet, Busy, Tasks

LEMMA PasswordsWhenQuiet ==
  ASSUME TInv, PasswordInv
  PROVE  PasswordsAgree
<1>1. ASSUME mishaps \cap {"write", "typo", "early"} = {}, Quiet
      PROVE  mem.pw = file.pw
  BY <1>1, QuietHolds DEF PasswordInv, SavedInv, Quiet
<1>2. ASSUME mishaps \cap {"write", "typo", "early", "crash"} = {}, Quiet, mem.ready
      PROVE  mem.pw = envPw
  BY <1>2, QuietHolds DEF PasswordInv, SharedInv, Writes, Quiet
<1> QED  BY <1>1, <1>2 DEF PasswordsAgree, PasswordIsSaved, PasswordIsShared

LEMMA WildcardWhenQuiet ==
  ASSUME TInv, WildcardInv
  PROVE  WildcardFollows
<1>1. ASSUME mishaps \cap {"write", "early"} = {}, Quiet, mem.ready, mem.dns = "managed", ~dnsErr,
             ~PointsTo(mem.addr)
      PROVE  FALSE
  <2>1. PICK t \in Tasks : Synchronising(t)
    BY <1>1 DEF WildcardInv, Quiet
  <2>2. task[t].kind \notin {"setup", "startup"}
    BY <1>1 DEF Quiet, Busy
  <2>3. task[t].kind = "settings"
    BY <2>1, <2>2 DEF Synchronising
  <2>4. t \in Requests
    BY <2>3, NoTaskFields DEF TInv, TaskInv, TaskOK, Kinds
  <2> QED  BY <1>1, <2>3, <2>4, QuietHolds
<1> QED  BY <1>1 DEF WildcardFollows, WildcardInOrder

LEMMA AccountsWhenQuiet ==
  ASSUME TInv, AccountInv
  PROVE  AccountsInEffect
<1>1. ASSUME Quiet
      PROVE  Up /\ \A r \in Requests : ~Changing(r)
  BY <1>1, QuietHolds DEF Changing, Quiet
<1> QED  BY <1>1 DEF AccountInv, AccountsInv, AccountsInEffect

-----------------------------------------------------------------------------
\* The inductive invariant.
IInv == TInv /\ AttemptsBounded /\ AloneInv /\ PasswordInv /\ WildcardInv /\ AccountInv

LEMMA InitIInv ==
  ASSUME Init
  PROVE  IInv
<1>1. TInv /\ ~Up /\ \A t \in Tasks : task[t] = NoTask
  BY InitTInv DEF Init, Up
<1>2. ASSUME NEW c \in Clients
      PROVE  Within(c)
  <2>1. Pending(c) = {}
    BY <1>1, NoTaskFields DEF Pending, Tasks, Steps
  <2>2. attempts[c].count = 0
    BY DEF Init, NoAttempts
  <2> QED  BY <2>1, <2>2, FS_EmptySet, PendingFinite, LimitAssumption DEF Within
<1>3. AloneInv
  BY <1>1, NoTaskFields DEF AloneInv, Kinds
<1>4. PasswordInv
  BY <1>1, NoTaskFields DEF PasswordInv, TypoInv, SavedInv, SharedInv, Init, Default, Kinds, Tasks
<1>5. WildcardInv
  BY <1>1 DEF WildcardInv
<1>6. AccountInv
  BY <1>1, NoTaskFields DEF AccountInv, ChangeInv, AccountsInv, Changing, Init, Default, Kinds, Tasks
<1> QED  BY <1>1, <1>2, <1>3, <1>4, <1>5, <1>6 DEF IInv, AttemptsBounded, Within

LEMMA Invariance == Spec => []IInv
<1>1. Init => IInv
  BY InitIInv
<1>2. IInv /\ [Next]_vars => IInv'
  BY NextTInv, NextCounted, NextAlone, NextPassword, NextWildcard, NextAccounts DEF IInv
<1> QED  BY <1>1, <1>2, PTL DEF Spec

\* Every variable keeps its type: the Config in memory stays one that the start
\* accepts (a server that is ready has a password and an address), whatever the
\* setup form, the settings and the accounts do to it (config.go, Config).
THEOREM TypeCorrect == Spec => []TypeOK
<1>1. IInv => TypeOK
  BY DEF IInv, TInv
<1> QED  BY Invariance, <1>1, PTL

\* The limiter (handlers_auth.go, sessions.go) looks at the count before the
\* slow comparison of the password and adds to it afterwards. For every limit
\* and every number of requests at a time, an address gets no more guesses than
\* the limit and the requests under way: the misses counted and the comparisons
\* under way together stay below their sum.
THEOREM LimitHolds == Spec => []AttemptsBounded
<1>1. IInv => AttemptsBounded
  BY DEF IInv
<1> QED  BY Invariance, <1>1, PTL

\* The password of the interface is the one in config.yaml and the one in .env
\* whenever no request is changing it (handlers_setup.go, handlers_stubs.go),
\* under the conditions PasswordsAgree names.
THEOREM PasswordsStayOne == Spec => []PasswordsAgree
<1>1. IInv => PasswordsAgree
  BY PasswordsWhenQuiet DEF IInv
<1> QED  BY Invariance, <1>1, PTL

\* Where the dashboard shows no error, the wildcard record of the address's own
\* type (A or AAAA) is the server's address (dnssync.go), whatever deSEC answers
\* and wherever the process dies. The record of the other type is not claimed:
\* no request ever removes it (desec.go:87-129).
THEOREM WildcardIsKept == Spec => []WildcardFollows
<1>1. IInv => WildcardFollows
  BY WildcardWhenQuiet DEF IInv
<1> QED  BY Invariance, <1>1, PTL

\* A save of the accounts that fails is taken back (handlers_accounts.go), so
\* the accounts shown are those on disk, and Dex knows them or the admin has
\* been told that it does not.
THEOREM AccountsApply == Spec => []AccountsInEffect
<1>1. IInv => AccountsInEffect
  BY AccountsWhenQuiet DEF IInv
<1> QED  BY Invariance, <1>1, PTL
=============================================================================
