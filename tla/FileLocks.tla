----------------------------- MODULE FileLocks -----------------------------
(***************************************************************************)
(* Transactions over files inside one process (inkpod-io/src/file_lock.rs, *)
(* transaction.rs).  A transaction enlists paths, locks a mutex per path,  *)
(* reads which physical file each path names, locks a mutex per file       *)
(* identity, and only then runs its action.  Paths that are hard links to  *)
(* one file share its identity.  The mutex of a key lives as long as some  *)
(* transaction owns it: the table holds weak references.                   *)
(***************************************************************************)
EXTENDS Integers, FiniteSets, Functions

CONSTANTS Task,      \* the threads that run transactions
          Path,      \* normalized paths, numbered in their order
          Identity,  \* physical file identities, numbered in their order
          Initial,   \* what the paths may name before the program starts
          MaxEnlist, \* bound of the model on the paths of a transaction
          MaxRuns    \* bound of the model on the transactions begun

ASSUME LocksAssumption ==
    /\ IsFiniteSet(Task)
    /\ Path \subseteq Nat /\ Identity \subseteq Nat \ {0}
    /\ Initial \subseteq [Path -> Identity \cup {0}]
    /\ {MaxEnlist, MaxRuns} \subseteq Nat

Absent == 0

(* LockKey: every path key comes before every identity key. *)
PathKey(p) == <<1, p>>
IdKey(i) == <<2, i>>
Key == {PathKey(p) : p \in Path} \cup {IdKey(i) : i \in Identity}

Before(k, l) == k[1] < l[1] \/ (k[1] = l[1] /\ k[2] < l[2])

(* A mutex is the n-th one of its key; Copies is enough for every task to  *)
(* own a different one.                                                    *)
Copies == 1..Cardinality(Task)
Mutex == Key \X Copies

VARIABLES file,      \* the identity each path names on disk, or Absent
          pc,        \* the control point of each task
          enlisted,  \* the normalized paths of its transaction
          owners,    \* the mutexes it holds a strong reference to
          held,      \* the mutexes it has locked
          entries,   \* FileLocks::entries: the mutex each key refers to
          poisoned,  \* mutexes whose holder panicked
          runs       \* transactions begun, at most MaxRuns

vars == <<file, pc, enlisted, owners, held, entries, poisoned, runs>>

Live(table) == {m \in table : \E t \in Task : m \in owners[t]}

-----------------------------------------------------------------------------
(* Mutant of Upgradable: the table holds strong references. *)
AlwaysUpgradable(k) == {m \in entries : m[1] = k}

(* Mutant of Upgradable: a key whose mutex is locked gets another one. *)
UpgradableIfFree(k) == {m \in Live(entries) :
                           m[1] = k /\ \A t \in Task : m \notin held[t]}

(* entries.get(&key).and_then(Weak::upgrade) *)
Upgradable(k) == {m \in Live(entries) : m[1] = k}

(* The mutex acquire_owner returns for a key: the one in use, or a new one *)
(* that no transaction owns.                                               *)
Owner(k) ==
    IF Upgradable(k) # {} THEN CHOOSE m \in Upgradable(k) : TRUE
    ELSE <<k, CHOOSE n \in Copies : \A t \in Task : <<k, n>> \notin owners[t]>>

(* acquire_owner for a set of keys.  A new record drops the dead ones.     *)
Acquire(t, keys) ==
    LET new == {Owner(k) : k \in {l \in keys : Upgradable(l) = {}}}
    IN  /\ owners' = [owners EXCEPT ![t] = @ \cup {Owner(k) : k \in keys}]
        /\ entries' = IF new = {} THEN entries
                      ELSE {m \in Live(entries) : \A n \in new : n[1] # m[1]}
                               \cup new
        /\ poisoned' = poisoned \ new

(* Guards are dropped before owners, both with the transaction's frame. *)
Finish(t) ==
    /\ pc' = [pc EXCEPT ![t] = "idle"]
    /\ enlisted' = [enlisted EXCEPT ![t] = {}]
    /\ owners' = [owners EXCEPT ![t] = {}]
    /\ held' = [held EXCEPT ![t] = {}]
    /\ UNCHANGED <<entries, runs>>

-----------------------------------------------------------------------------
(* with_file_locks_cancellable: resolve the targets, own their mutexes. *)
Begin(t) ==
    /\ pc[t] = "idle"
    /\ runs < MaxRuns
    /\ runs' = runs + 1
    /\ \E paths \in SUBSET Path \ {{}} :
          /\ Cardinality(paths) <= MaxEnlist
          /\ enlisted' = [enlisted EXCEPT ![t] = paths]
          /\ Acquire(t, {PathKey(p) : p \in paths})
    /\ pc' = [pc EXCEPT ![t] = "paths"]
    /\ UNCHANGED <<file, held>>

(* The next mutex to lock: owners are listed in the order of their keys. *)
Wanted(t) == {m \in owners[t] \ held[t] :
                 \A n \in owners[t] \ held[t] : m = n \/ Before(m[1], n[1])}

Free(m) == \A t \in Task : m \notin held[t]

(* Mutant of Lock: the mutexes are taken in the order of the caller. *)
LockInAnyOrder(t) ==
    /\ pc[t] \in {"paths", "ids"}
    /\ \E m \in owners[t] \ held[t] :
          /\ Free(m)
          /\ m \notin poisoned
          /\ held' = [held EXCEPT ![t] = @ \cup {m}]
    /\ UNCHANGED <<file, pc, enlisted, owners, entries, poisoned, runs>>

(* lock_cancel_with, the round that gets the lock. *)
Lock(t) ==
    /\ pc[t] \in {"paths", "ids"}
    /\ \E m \in Wanted(t) :
          /\ Free(m)
          /\ m \notin poisoned
          /\ held' = [held EXCEPT ![t] = @ \cup {m}]
    /\ UNCHANGED <<file, pc, enlisted, owners, entries, poisoned, runs>>

(* lock_cancel_with: a poisoned mutex ends the transaction. *)
MeetPoison(t) ==
    /\ pc[t] \in {"paths", "ids"}
    /\ \E m \in Wanted(t) : Free(m) /\ m \in poisoned
    /\ Finish(t)
    /\ UNCHANGED <<file, poisoned>>

(* Cancellation is polled in every round. *)
Cancel(t) ==
    /\ pc[t] \in {"paths", "ids"}
    /\ Finish(t)
    /\ UNCHANGED <<file, poisoned>>

(* With every path locked, open the files that exist and own the mutexes   *)
(* of their identities.                                                    *)
Identify(t) ==
    /\ pc[t] = "paths"
    /\ owners[t] = held[t]
    /\ Acquire(t, {IdKey(file[p]) : p \in {q \in enlisted[t] : file[q] # Absent}})
    /\ pc' = [pc EXCEPT ![t] = "ids"]
    /\ UNCHANGED <<file, enlisted, held, runs>>

(* Everything is locked: the action runs. *)
Enter(t) ==
    /\ pc[t] = "ids"
    /\ owners[t] = held[t]
    /\ pc' = [pc EXCEPT ![t] = "act"]
    /\ UNCHANGED <<file, enlisted, owners, held, entries, poisoned, runs>>

(* write_with_policy: the temporary file, a new identity, replaces the     *)
(* destination.                                                            *)
WriteAtomic(t) ==
    /\ pc[t] = "act"
    /\ \E p \in enlisted[t], i \in Identity \ Range(file) :
          file' = [file EXCEPT ![p] = i]
    /\ UNCHANGED <<pc, enlisted, owners, held, entries, poisoned, runs>>

(* LockedFiles::remove *)
Remove(t) ==
    /\ pc[t] = "act"
    /\ \E p \in enlisted[t] : /\ file[p] # Absent
                              /\ file' = [file EXCEPT ![p] = Absent]
    /\ UNCHANGED <<pc, enlisted, owners, held, entries, poisoned, runs>>

(* rename_with_policy, with and without replacing the destination. *)
Rename(t) ==
    /\ pc[t] = "act"
    /\ \E p, q \in enlisted[t] :
          /\ p # q
          /\ file[p] # Absent
          /\ file' = [file EXCEPT ![p] = Absent, ![q] = file[p]]
    /\ UNCHANGED <<pc, enlisted, owners, held, entries, poisoned, runs>>

(* The action returned, with a value or an error. *)
Return(t) ==
    /\ pc[t] = "act"
    /\ Finish(t)
    /\ UNCHANGED <<file, poisoned>>

(* The action panicked: unwinding drops every guard and poisons its mutex. *)
Panic(t) ==
    /\ pc[t] = "act"
    /\ Finish(t)
    /\ poisoned' = poisoned \cup held[t]
    /\ UNCHANGED file

Init ==
    /\ file \in Initial
    /\ pc = [t \in Task |-> "idle"]
    /\ enlisted = [t \in Task |-> {}]
    /\ owners = [t \in Task |-> {}]
    /\ held = [t \in Task |-> {}]
    /\ entries = {}
    /\ poisoned = {}
    /\ runs = 0

Act(t) == WriteAtomic(t) \/ Remove(t) \/ Rename(t)

(* What a transaction does by itself: it locks when it can, and its action *)
(* returns.                                                                *)
Proceed(t) == Lock(t) \/ MeetPoison(t) \/ Identify(t) \/ Enter(t) \/ Return(t)

Next == \E t \in Task : Begin(t) \/ Proceed(t) \/ Cancel(t) \/ Act(t) \/ Panic(t)

(* A waiting thread polls its lock forever, and an action is finite.       *)
Fairness == \A t \in Task : WF_vars(Proceed(t)) /\ WF_vars(Return(t))

Spec == Init /\ [][Next]_vars

LiveSpec == Spec /\ Fairness

-----------------------------------------------------------------------------
TypeOK ==
    /\ file \in [Path -> Identity \cup {Absent}]
    /\ pc \in [Task -> {"idle", "paths", "ids", "act"}]
    /\ enlisted \in [Task -> SUBSET Path]
    /\ owners \in [Task -> SUBSET Mutex]
    /\ held \in [Task -> SUBSET Mutex]
    /\ \A t \in Task : held[t] \subseteq owners[t]
    /\ entries \subseteq Mutex
    /\ poisoned \subseteq Mutex
    /\ runs \in 0..MaxRuns

Named(t) == {file[p] : p \in enlisted[t]} \ {Absent}

(* Two actions that run at a time touch neither a common path nor a common *)
(* physical file, under whatever names and whatever became of the files    *)
(* while they waited.                                                      *)
Exclusive ==
    \A t, u \in Task :
        t # u /\ pc[t] = "act" /\ pc[u] = "act"
            => enlisted[t] \cap enlisted[u] = {} /\ Named(t) \cap Named(u) = {}

(* No transaction waits forever: transactions over several paths, with     *)
(* identities shared in any pattern, do not wait for each other in a ring. *)
Finishes == \A t \in Task : pc[t] # "idle" ~> pc[t] = "idle"

(* A panic does not close a file for good: once the transactions that saw  *)
(* the poisoned mutex are gone, the key has a sound mutex again.           *)
Usable(k) == Owner(k) \notin poisoned \/ Upgradable(k) = {}
PoisonPasses == \A k \in Key : ~Usable(k) ~> Usable(k)
=============================================================================
