---------------------------- MODULE ClaimedStore ----------------------------
(***************************************************************************)
(* What the operation lock (internal/lock) promises to the code that takes *)
(* it, independent of how handlers, jobs and files bring it about: at most *)
(* one process operates at a time, it claims the items it is going to      *)
(* change when it takes the lock, and until it lets go nothing but those   *)
(* items changes.  In stackctl an item is an app and the store is          *)
(* state.yaml.                                                             *)
(***************************************************************************)

CONSTANTS
  Procs,   \* everybody who may take the lock
  Nobody,  \* the value of owner while the lock is free
  Items,   \* what the store holds a value for
  Values

VARIABLES store, owner, claim

vars == <<store, owner, claim>>

TypeOK ==
  /\ store \in [Items -> Values]
  /\ owner \in Procs \cup {Nobody}
  /\ claim \in SUBSET Items

Init ==
  /\ store \in [Items -> Values]
  /\ owner = Nobody
  /\ claim = {}

\* Take the free lock for an operation on the items of S.
Acquire(p, S) ==
  /\ owner = Nobody
  /\ owner' = p
  /\ claim' = S
  /\ UNCHANGED store

\* The owner changes what it claimed, and only that.
Write ==
  /\ owner # Nobody
  /\ store' \in [Items -> Values]
  /\ \A i \in Items \ claim : store'[i] = store[i]
  /\ UNCHANGED <<owner, claim>>

\* The owner lets go: its operation is over, or its process has died.
Release ==
  /\ owner # Nobody
  /\ owner' = Nobody
  /\ claim' = {}
  /\ UNCHANGED store

Next ==
  \/ \E p \in Procs, S \in SUBSET Items : Acquire(p, S)
  \/ Write
  \/ Release

Spec == Init /\ [][Next]_vars
=============================================================================
