-------------------------- MODULE FileLocksProofs --------------------------
(***************************************************************************)
(* Mutual exclusion of file transactions, for any number of tasks, paths   *)
(* and identities, any hard links and any panics: Spec => []Exclusive.     *)
(*                                                                         *)
(* The argument.  The table lists every mutex somebody owns, and one mutex *)
(* per key (OwnedListed, OnePerKey); a mutex has one holder (HeldApart).   *)
(* So two transactions that hold the mutex of one key are one transaction, *)
(* and from the moment its paths are locked nobody else changes what they  *)
(* name.  What an acting transaction names is then either an identity it   *)
(* has locked, or a file it wrote itself, which only its own paths name    *)
(* (ActsAlone): renames keep that, and a new file is nobody's yet.         *)
(*                                                                         *)
(* Nor do they wait in a ring (NobodyWaitsInARing): what a transaction     *)
(* holds comes before what it still waits for, in the order of the keys.   *)
(* Of those that wait, the one whose mutex is last would wait for one      *)
(* whose mutex is later still.                                             *)
(***************************************************************************)
EXTENDS FileLocks, FiniteSums

Has(mutexes, k) == \E m \in mutexes : m[1] = k

OwnedListed == \A t \in Task : owners[t] \subseteq entries
OnePerKey == \A m, n \in entries : m[1] = n[1] => m = n
HeldApart == \A t, u \in Task : t # u => held[t] \cap held[u] = {}
OwnsPaths == \A t \in Task : pc[t] # "idle" =>
                 \A p \in enlisted[t] : Has(owners[t], PathKey(p))
HoldsPaths == \A t \in Task : pc[t] \in {"ids", "act"} =>
                 \A p \in enlisted[t] : Has(held[t], PathKey(p))
OwnsIds == \A t \in Task : pc[t] = "ids" =>
               \A p \in enlisted[t] :
                   file[p] # Absent => Has(owners[t], IdKey(file[p]))
ActsAlone == \A t \in Task : pc[t] = "act" =>
               \A p \in enlisted[t] : file[p] # Absent =>
                   \/ Has(held[t], IdKey(file[p]))
                   \/ \A q \in Path : file[q] = file[p] => q \in enlisted[t]

Table == OwnedListed /\ OnePerKey
Locked == HeldApart /\ OwnsPaths /\ HoldsPaths /\ OwnsIds /\ ActsAlone

IInv == TypeOK /\ Table /\ Locked

-----------------------------------------------------------------------------
LEMMA CopiesExist == ASSUME NEW t \in Task PROVE 1 \in Copies
<1>1. Cardinality(Task) \in Nat /\ IsFiniteSet(Task)
  BY LocksAssumption, FS_CardinalityType
<1>2. Cardinality(Task) # 0
  BY <1>1, FS_EmptySet
<1> QED BY <1>1, <1>2 DEF Copies

(* The mutex of a key has that key, and a new one is nobody's. *)
LEMMA OwnerOfKey ==
  ASSUME TypeOK, Table, NEW t \in Task, NEW k \in Key
  PROVE  /\ Owner(k) \in Mutex /\ Owner(k)[1] = k
         /\ Upgradable(k) # {} => Owner(k) \in entries
<1>1. CASE Upgradable(k) # {}
  <2>1. Owner(k) \in Upgradable(k)
    BY <1>1 DEF Owner
  <2> QED BY <2>1, <1>1 DEF Upgradable, Live, TypeOK
<1>2. CASE Upgradable(k) = {}
  <2> DEFINE n == CHOOSE c \in Copies : \A u \in Task : <<k, c>> \notin owners[u]
  <2>1. Owner(k) = <<k, n>>
    BY <1>2 DEF Owner
  <2>2. \A u \in Task : <<k, 1>> \notin owners[u]
    BY <1>2 DEF Upgradable, Live, Table, OwnedListed
  <2>3. n \in Copies
    BY <2>2, CopiesExist
  <2> HIDE DEF n
  <2> QED BY <2>1, <2>3, <1>2 DEF Mutex
<1> QED BY <1>1, <1>2

(* Acquiring keys gives their mutexes and keeps the table in order. *)
LEMMA AcquireKeeps ==
  ASSUME TypeOK, Table, NEW t \in Task, NEW keys \in SUBSET Key, Acquire(t, keys)
  PROVE  /\ Table'
         /\ owners' \in [Task -> SUBSET Mutex]
         /\ entries' \subseteq Mutex /\ poisoned' \subseteq Mutex
         /\ owners[t] \subseteq owners'[t]
         /\ \A u \in Task : u # t => owners'[u] = owners[u]
         /\ \A k \in keys : Has(owners'[t], k)
<1> DEFINE fresh == {Owner(k) : k \in {l \in keys : Upgradable(l) = {}}}
<1>1. \A k \in keys : /\ Owner(k) \in Mutex /\ Owner(k)[1] = k
                      /\ Upgradable(k) # {} => Owner(k) \in entries
  BY OwnerOfKey
<1>2. owners' = [owners EXCEPT ![t] = @ \cup {Owner(k) : k \in keys}]
  BY DEF Acquire
<1>3. /\ entries' = IF fresh = {} THEN entries
                    ELSE {m \in Live(entries) : \A n \in fresh : n[1] # m[1]} \cup fresh
      /\ poisoned' = poisoned \ fresh
  BY DEF Acquire
<1>4. /\ owners' \in [Task -> SUBSET Mutex]
      /\ owners[t] \subseteq owners'[t]
      /\ \A u \in Task : u # t => owners'[u] = owners[u]
      /\ owners'[t] = owners[t] \cup {Owner(k) : k \in keys}
  BY <1>1, <1>2 DEF TypeOK
<1>5. \A k \in keys : Has(owners'[t], k)
  BY <1>1, <1>4 DEF Has
<1>6. fresh \subseteq Mutex
  BY <1>1
<1>7. entries' \subseteq Mutex /\ poisoned' \subseteq Mutex
  BY <1>3, <1>6 DEF TypeOK, Live
<1>8. \A u \in Task : owners[u] \subseteq entries'
  <2> SUFFICES ASSUME NEW u \in Task, NEW m \in owners[u], fresh # {}
               PROVE  m \in entries'
    BY <1>3 DEF Table, OwnedListed
  <2>1. m \in Live(entries)
    BY DEF Live, Table, OwnedListed
  <2>2. ASSUME NEW k \in keys, Upgradable(k) = {}, Owner(k)[1] = m[1] PROVE FALSE
    BY <2>1, <2>2, <1>1 DEF Upgradable
  <2>3. \A n \in fresh : n[1] # m[1]
    BY <2>2
  <2> QED BY <2>1, <2>3, <1>3
<1>9. \A k \in keys : Owner(k) \in entries'
  <2> SUFFICES ASSUME NEW k \in keys PROVE Owner(k) \in entries'
    OBVIOUS
  <2>1. CASE Upgradable(k) = {}
    BY <2>1, <1>3
  <2>2. CASE Upgradable(k) # {}
    <3>1. Owner(k) \in Upgradable(k)
      BY <2>2 DEF Owner
    <3>2. PICK u \in Task : Owner(k) \in owners[u]
      BY <3>1 DEF Upgradable, Live
    <3> QED BY <3>2, <1>8
  <2> QED BY <2>1, <2>2
<1>10. OwnedListed'
  BY <1>4, <1>8, <1>9 DEF OwnedListed
<1>11. \A m, n \in fresh : m[1] = n[1] => m = n
  BY <1>1
<1>12. OnePerKey'
  <2> SUFFICES ASSUME NEW m \in entries', NEW n \in entries', m[1] = n[1]
               PROVE  m = n
    BY DEF OnePerKey
  <2>1. CASE fresh = {}
    BY <2>1, <1>3 DEF Table, OnePerKey
  <2>2. CASE fresh # {}
    BY <2>2, <1>3, <1>11 DEF Table, OnePerKey, Live
  <2> QED BY <2>1, <2>2
<1> QED BY <1>4, <1>5, <1>7, <1>10, <1>12 DEF Table

(* Ending a transaction drops its mutexes and nobody else's. *)
LEMMA FinishKeeps ==
  ASSUME IInv, NEW t \in Task, Finish(t), file' = file,
         poisoned' = poisoned \/ poisoned' = poisoned \cup held[t]
  PROVE  IInv'
<1>1. TypeOK'
  BY DEF IInv, TypeOK, Finish
<1>2. Table'
  BY DEF IInv, Table, OwnedListed, OnePerKey, Finish, TypeOK
<1>3. /\ \A u \in Task : u # t => /\ pc'[u] = pc[u] /\ enlisted'[u] = enlisted[u]
                                  /\ owners'[u] = owners[u] /\ held'[u] = held[u]
      /\ pc'[t] = "idle" /\ held'[t] = {}
  BY DEF IInv, TypeOK, Finish
<1>4. HeldApart'
  BY <1>3 DEF IInv, Locked, HeldApart
<1>5. OwnsPaths' /\ HoldsPaths' /\ OwnsIds' /\ ActsAlone'
  BY <1>3 DEF IInv, Locked, OwnsPaths, HoldsPaths, OwnsIds, ActsAlone, Has
<1> QED BY <1>1, <1>2, <1>4, <1>5 DEF IInv, Locked

(* Transactions that have locked their paths share none. *)
LEMMA PathsApart ==
  ASSUME IInv, NEW t \in Task, NEW u \in Task, t # u,
         pc[t] \in {"ids", "act"}, pc[u] \in {"ids", "act"}
  PROVE  enlisted[t] \cap enlisted[u] = {}
<1> SUFFICES ASSUME NEW p \in enlisted[t], p \in enlisted[u] PROVE FALSE
  OBVIOUS
<1>1. PICK m \in held[t] : m[1] = PathKey(p)
  BY DEF IInv, Locked, HoldsPaths, Has
<1>2. PICK n \in held[u] : n[1] = PathKey(p)
  BY DEF IInv, Locked, HoldsPaths, Has
<1>3. m = n
  BY <1>1, <1>2 DEF IInv, TypeOK, Table, OwnedListed, OnePerKey
<1> QED BY <1>1, <1>2, <1>3 DEF IInv, Locked, HeldApart

LEMMA Separation == ASSUME IInv PROVE Exclusive
<1> SUFFICES ASSUME NEW t \in Task, NEW u \in Task, t # u, pc[t] = "act", pc[u] = "act",
                    NEW p \in enlisted[t], NEW q \in enlisted[u],
                    file[p] = file[q], file[p] # Absent
             PROVE  FALSE
  BY PathsApart DEF Exclusive, Named
<1>1. p \in Path /\ q \in Path
  BY DEF IInv, TypeOK
<1>2. p \notin enlisted[u] /\ q \notin enlisted[t]
  BY PathsApart
<1>3. Has(held[t], IdKey(file[p])) /\ Has(held[u], IdKey(file[p]))
  BY <1>1, <1>2 DEF IInv, Locked, ActsAlone
<1>4. PICK m \in held[t] : m[1] = IdKey(file[p])
  BY <1>3 DEF Has
<1>5. PICK n \in held[u] : n[1] = IdKey(file[p])
  BY <1>3 DEF Has
<1>6. m = n
  BY <1>4, <1>5 DEF IInv, TypeOK, Table, OwnedListed, OnePerKey
<1> QED BY <1>4, <1>5, <1>6 DEF IInv, Locked, HeldApart

-----------------------------------------------------------------------------
LEMMA InitKeeps == Init => IInv
BY LocksAssumption DEF Init, IInv, TypeOK, Table, Locked, OwnedListed, OnePerKey, HeldApart,
   OwnsPaths, HoldsPaths, OwnsIds, ActsAlone, Has, Absent

LEMMA BeginKeeps == ASSUME IInv, NEW t \in Task, Begin(t) PROVE IInv'
<1>1. PICK paths \in SUBSET Path :
        /\ enlisted' = [enlisted EXCEPT ![t] = paths]
        /\ Acquire(t, {PathKey(p) : p \in paths})
  BY DEF Begin
<1>2. /\ pc[t] = "idle" /\ runs < MaxRuns /\ runs' = runs + 1
      /\ pc' = [pc EXCEPT ![t] = "paths"] /\ UNCHANGED <<file, held>>
  BY DEF Begin
<1> DEFINE keys == {PathKey(p) : p \in paths}
<1>3. keys \in SUBSET Key
  BY DEF Key
<1> HIDE DEF keys
<1>4. /\ Table' /\ owners' \in [Task -> SUBSET Mutex]
      /\ entries' \subseteq Mutex /\ poisoned' \subseteq Mutex
      /\ owners[t] \subseteq owners'[t]
      /\ \A u \in Task : u # t => owners'[u] = owners[u]
      /\ \A k \in keys : Has(owners'[t], k)
  BY <1>1, <1>3, AcquireKeeps DEF IInv, keys
<1>5. \A u \in Task : u # t => pc'[u] = pc[u] /\ enlisted'[u] = enlisted[u]
  BY <1>1, <1>2 DEF IInv, TypeOK
<1>6. pc'[t] = "paths" /\ enlisted'[t] = paths
  BY <1>1, <1>2 DEF IInv, TypeOK
<1>7. TypeOK'
  <2>1. runs' \in 0..MaxRuns
    BY <1>2, LocksAssumption DEF IInv, TypeOK
  <2>2. \A u \in Task : held'[u] \subseteq owners'[u]
    BY <1>2, <1>4 DEF IInv, TypeOK
  <2> QED BY <1>1, <1>2, <1>4, <2>1, <2>2 DEF IInv, TypeOK
<1>8. OwnsPaths'
  <2>1. \A p \in paths : Has(owners'[t], PathKey(p))
    BY <1>4 DEF keys
  <2> QED BY <2>1, <1>4, <1>5, <1>6 DEF IInv, Locked, OwnsPaths, Has
<1>9. HeldApart' /\ HoldsPaths' /\ OwnsIds' /\ ActsAlone'
  BY <1>2, <1>4, <1>5, <1>6 DEF IInv, Locked, HeldApart, HoldsPaths, OwnsIds, ActsAlone, Has
<1> QED BY <1>4, <1>7, <1>8, <1>9 DEF IInv, Locked

LEMMA LockKeeps == ASSUME IInv, NEW t \in Task, Lock(t) PROVE IInv'
<1>1. PICK m \in Wanted(t) : Free(m) /\ held' = [held EXCEPT ![t] = @ \cup {m}]
  BY DEF Lock
<1>2. UNCHANGED <<file, pc, enlisted, owners, entries, poisoned, runs>>
  BY DEF Lock
<1>3. m \in owners[t]
  BY <1>1 DEF Wanted
<1>4. \A u \in Task : u # t => m \notin held[u]
  BY <1>1 DEF Free
<1>5. /\ held'[t] = held[t] \cup {m}
      /\ \A u \in Task : u # t => held'[u] = held[u]
  BY <1>1 DEF IInv, TypeOK
<1>6. TypeOK' /\ Table'
  BY <1>1, <1>2, <1>3, <1>5 DEF IInv, TypeOK, Table, OwnedListed, OnePerKey
<1>7. HeldApart'
  BY <1>4, <1>5 DEF IInv, Locked, HeldApart
<1>8. OwnsPaths' /\ HoldsPaths' /\ OwnsIds' /\ ActsAlone'
  BY <1>2, <1>5 DEF IInv, Locked, OwnsPaths, HoldsPaths, OwnsIds, ActsAlone, Has
<1> QED BY <1>6, <1>7, <1>8 DEF IInv, Locked

LEMMA IdentifyKeeps == ASSUME IInv, NEW t \in Task, Identify(t) PROVE IInv'
<1> DEFINE keys == {IdKey(file[p]) : p \in {q \in enlisted[t] : file[q] # Absent}}
<1>1. /\ pc[t] = "paths" /\ owners[t] = held[t] /\ Acquire(t, keys)
      /\ pc' = [pc EXCEPT ![t] = "ids"] /\ UNCHANGED <<file, enlisted, held, runs>>
  BY DEF Identify
<1>2. keys \in SUBSET Key
  BY DEF Key, IInv, TypeOK
<1>3. \A p \in enlisted[t] : file[p] # Absent => IdKey(file[p]) \in keys
  OBVIOUS
<1> HIDE DEF keys
<1>4. /\ Table' /\ owners' \in [Task -> SUBSET Mutex]
      /\ entries' \subseteq Mutex /\ poisoned' \subseteq Mutex
      /\ owners[t] \subseteq owners'[t]
      /\ \A u \in Task : u # t => owners'[u] = owners[u]
      /\ \A k \in keys : Has(owners'[t], k)
  BY <1>1, <1>2, AcquireKeeps DEF IInv
<1>5. pc'[t] = "ids" /\ \A u \in Task : u # t => pc'[u] = pc[u]
  BY <1>1 DEF IInv, TypeOK
<1>6. TypeOK'
  <2>1. \A u \in Task : held'[u] \subseteq owners'[u]
    BY <1>1, <1>4 DEF IInv, TypeOK
  <2> QED BY <1>1, <1>4, <2>1 DEF IInv, TypeOK
<1>7. OwnsIds'
  BY <1>1, <1>3, <1>4, <1>5 DEF IInv, Locked, OwnsIds
<1>8. HoldsPaths'
  BY <1>1, <1>5 DEF IInv, Locked, HoldsPaths, OwnsPaths
<1>9. HeldApart' /\ OwnsPaths' /\ ActsAlone'
  BY <1>1, <1>4, <1>5 DEF IInv, Locked, HeldApart, OwnsPaths, ActsAlone, Has
<1> QED BY <1>4, <1>6, <1>7, <1>8, <1>9 DEF IInv, Locked

LEMMA EnterKeeps == ASSUME IInv, NEW t \in Task, Enter(t) PROVE IInv'
<1>1. /\ pc[t] = "ids" /\ owners[t] = held[t] /\ pc' = [pc EXCEPT ![t] = "act"]
      /\ UNCHANGED <<file, enlisted, owners, held, entries, poisoned, runs>>
  BY DEF Enter
<1>2. pc'[t] = "act" /\ \A u \in Task : u # t => pc'[u] = pc[u]
  BY <1>1 DEF IInv, TypeOK
<1>3. TypeOK' /\ Table'
  BY <1>1 DEF IInv, TypeOK, Table, OwnedListed, OnePerKey
<1>4. HeldApart' /\ OwnsPaths' /\ HoldsPaths' /\ OwnsIds'
  BY <1>1, <1>2 DEF IInv, Locked, HeldApart, OwnsPaths, HoldsPaths, OwnsIds
<1>5. ActsAlone'
  BY <1>1, <1>2 DEF IInv, Locked, OwnsIds, ActsAlone
<1> QED BY <1>3, <1>4, <1>5 DEF IInv, Locked

(* Whatever an acting transaction does to the files it enlisted, it leaves *)
(* the names of the others alone.                                          *)
LEMMA ActKeeps == ASSUME IInv, NEW t \in Task, Act(t) PROVE IInv'
<1>1. pc[t] = "act" /\ UNCHANGED <<pc, enlisted, owners, held, entries, poisoned, runs>>
  BY DEF Act, WriteAtomic, Remove, Rename
<1>2. \A p \in Path : p \notin enlisted[t] => file'[p] = file[p]
  BY DEF Act, WriteAtomic, Remove, Rename, IInv, TypeOK
<1>3. file' \in [Path -> Identity \cup {Absent}]
  BY DEF Act, WriteAtomic, Remove, Rename, IInv, TypeOK
<1>4. TypeOK' /\ Table'
  BY <1>1, <1>3 DEF IInv, TypeOK, Table, OwnedListed, OnePerKey
<1>5. HeldApart' /\ OwnsPaths' /\ HoldsPaths'
  BY <1>1 DEF IInv, Locked, HeldApart, OwnsPaths, HoldsPaths
<1>6. \A u \in Task : u # t /\ pc[u] \in {"ids", "act"} =>
          \A p \in enlisted[u] : p \in Path /\ p \notin enlisted[t] /\ file'[p] = file[p]
  BY <1>1, <1>2, PathsApart DEF IInv, TypeOK
<1>7. OwnsIds'
  BY <1>1, <1>6 DEF IInv, Locked, OwnsIds
<1>8. ASSUME NEW p \in enlisted[t], file'[p] # Absent
      PROVE  \/ Has(held[t], IdKey(file'[p]))
             \/ \A q \in Path : file'[q] = file'[p] => q \in enlisted[t]
  <2>1. p \in Path
    BY DEF IInv, TypeOK
  <2>2. CASE WriteAtomic(t)
    <3>1. PICK s \in enlisted[t], i \in Identity \ Range(file) :
            file' = [file EXCEPT ![s] = i]
      BY <2>2 DEF WriteAtomic
    <3>2. \A q \in Path : file[q] # i
      BY <3>1 DEF Range, IInv, TypeOK
    <3>3. \A q \in Path : file'[q] = IF q = s THEN i ELSE file[q]
      BY <3>1 DEF IInv, TypeOK
    <3>4. CASE p = s
      BY <3>2, <3>3, <3>4, <2>1
    <3>5. CASE p # s
      BY <3>2, <3>3, <3>5, <2>1, <1>1, <1>8 DEF IInv, Locked, ActsAlone
    <3> QED BY <3>4, <3>5
  <2>3. CASE Remove(t)
    <3>1. PICK s \in enlisted[t] : file' = [file EXCEPT ![s] = Absent]
      BY <2>3 DEF Remove
    <3> QED BY <3>1, <2>1, <1>1, <1>8 DEF IInv, TypeOK, Locked, ActsAlone
  <2>4. CASE Rename(t)
    <3>1. PICK r \in enlisted[t], s \in enlisted[t] :
            r # s /\ file[r] # Absent /\ file' = [file EXCEPT ![r] = Absent, ![s] = file[r]]
      BY <2>4 DEF Rename
    <3> QED BY <3>1, <2>1, <1>1, <1>8 DEF IInv, TypeOK, Locked, ActsAlone
  <2> QED BY <2>2, <2>3, <2>4 DEF Act
<1>9. ASSUME NEW u \in Task, u # t, pc[u] = "act", NEW p \in enlisted[u], file[p] # Absent
      PROVE  \/ Has(held[u], IdKey(file[p]))
             \/ \A q \in Path : file'[q] = file[p] => q \in enlisted[u]
  <2> SUFFICES ASSUME ~Has(held[u], IdKey(file[p])), NEW q \in Path, file'[q] = file[p]
               PROVE  q \in enlisted[u]
    OBVIOUS
  <2>1. \A r \in Path : file[r] = file[p] => r \in enlisted[u]
    BY <1>9 DEF IInv, Locked, ActsAlone
  <2>2. \A r \in enlisted[t] : r \in Path /\ file[r] # file[p]
    BY <2>1, <1>1, <1>9, PathsApart DEF IInv, TypeOK
  <2>3. p \in Path /\ file[p] \in Range(file)
    BY <1>9 DEF IInv, TypeOK, Range
  <2>4. \A r \in enlisted[t] : file'[r] # file[p]
    <3>1. CASE WriteAtomic(t)
      BY <3>1, <2>2, <2>3 DEF WriteAtomic, IInv, TypeOK
    <3>2. CASE Remove(t)
      BY <3>2, <2>2, <1>9 DEF Remove, IInv, TypeOK
    <3>3. CASE Rename(t)
      BY <3>3, <2>2, <1>9 DEF Rename, IInv, TypeOK
    <3> QED BY <3>1, <3>2, <3>3 DEF Act
  <2> QED BY <2>1, <2>4, <1>2
<1>10. ActsAlone'
  <2> SUFFICES ASSUME NEW u \in Task, pc[u] = "act", NEW p \in enlisted[u], file'[p] # Absent
               PROVE  \/ Has(held[u], IdKey(file'[p]))
                      \/ \A q \in Path : file'[q] = file'[p] => q \in enlisted[u]
    BY <1>1 DEF ActsAlone
  <2>1. CASE u = t
    BY <2>1, <1>8
  <2>2. CASE u # t
    BY <2>2, <1>6, <1>9
  <2> QED BY <2>1, <2>2
<1> QED BY <1>4, <1>5, <1>7, <1>10 DEF IInv, Locked

LEMMA NextKeeps == IInv /\ [Next]_vars => IInv'
<1> SUFFICES ASSUME IInv, [Next]_vars PROVE IInv'
  OBVIOUS
<1>1. CASE UNCHANGED vars
  BY <1>1 DEF vars, IInv, TypeOK, Table, Locked, OwnedListed, OnePerKey, HeldApart,
     OwnsPaths, HoldsPaths, OwnsIds, ActsAlone
<1>2. ASSUME NEW t \in Task, MeetPoison(t) \/ Cancel(t) \/ Return(t) \/ Panic(t)
      PROVE  IInv'
  BY <1>2, FinishKeeps DEF MeetPoison, Cancel, Return, Panic
<1>3. ASSUME NEW t \in Task, Begin(t) \/ Lock(t) \/ Identify(t) \/ Enter(t) \/ Act(t)
      PROVE  IInv'
  BY <1>3, BeginKeeps, LockKeeps, IdentifyKeeps, EnterKeeps, ActKeeps
<1> QED BY <1>1, <1>2, <1>3 DEF Next, Proceed

(* The inductive invariant holds of every behaviour of the lock table. *)
LEMMA LocksInvariant == Spec => []IInv
BY InitKeeps, NextKeeps, PTL DEF Spec

(* Every variable keeps its type; a task holds only mutexes it owns. *)
THEOREM LocksTypeCorrect == Spec => []TypeOK
<1>1. IInv => TypeOK
  BY DEF IInv
<1> QED BY <1>1, LocksInvariant, PTL

(* Two actions that run at a time share neither a path nor a physical file *)
(* (transaction.rs: path keys, then the identities they name).             *)
THEOREM FileTransactionsExclude == Spec => []Exclusive
<1>1. IInv => Exclusive
  BY Separation
<1> QED BY <1>1, LocksInvariant, PTL
-----------------------------------------------------------------------------
(* Locks are taken in the order of their keys, across the two rounds too:  *)
(* what a task holds comes before everything it still waits for.           *)
WaitsInOrder == \A t \in Task : \A m \in held[t], n \in owners[t] \ held[t] :
                    Before(m[1], n[1])
PathsFirst == \A t \in Task : pc[t] = "paths" => \A m \in owners[t] : m[1][1] = 1
IdleOwnsNothing == \A t \in Task : pc[t] = "idle" => owners[t] = {}

Ordered == WaitsInOrder /\ PathsFirst /\ IdleOwnsNothing

(* What lets a transaction take its next step: its action runs, a round is *)
(* complete, or the mutex it wants is free.                                *)
GoesOn(t) ==
    /\ pc[t] # "idle"
    /\ pc[t] = "act" \/ owners[t] = held[t] \/ \E m \in Wanted(t) : Free(m)

(* While there are transactions, one of them is not waiting for another.   *)
NoRing == (\E t \in Task : pc[t] # "idle") => \E t \in Task : GoesOn(t)

LEMMA KeyOrder ==
  ASSUME NEW k \in Key, NEW l \in Key
  PROVE  /\ k = l \/ Before(k, l) \/ Before(l, k)
         /\ ~Before(k, k)
         /\ ~(Before(k, l) /\ Before(l, k))
         /\ \A j \in Key : Before(k, l) /\ Before(l, j) => Before(k, j)
<1>1. \A j \in Key : j[1] \in {1, 2} /\ j[2] \in Nat /\ j = <<j[1], j[2]>>
  BY LocksAssumption DEF Key, PathKey, IdKey
<1>2. k = l \/ Before(k, l) \/ Before(l, k)
  BY <1>1 DEF Before
<1>3. ~Before(k, k) /\ ~(Before(k, l) /\ Before(l, k))
  BY <1>1 DEF Before
<1>4. \A j \in Key : Before(k, l) /\ Before(l, j) => Before(k, j)
  BY <1>1 DEF Before
<1> QED BY <1>2, <1>3, <1>4

(* A set of keys has a first one. *)
LEMMA FirstKey ==
  ASSUME NEW K \in SUBSET Key, K # {}
  PROVE  \E k \in K : \A l \in K : k = l \/ Before(k, l)
<1>1. \A k \in Key : k[1] \in {1, 2} /\ k[2] \in Nat /\ k = <<k[1], k[2]>>
  BY LocksAssumption DEF Key, PathKey, IdKey
<1>2. PICK c \in {1, 2} : /\ \E k \in K : k[1] = c
                          /\ \A k \in K : c <= k[1]
  BY <1>1
<1> DEFINE T == {k[2] : k \in {l \in K : l[1] = c}}
<1>3. T \subseteq Nat /\ T # {}
  BY <1>1, <1>2
<1>4. PICK x \in T : \A y \in T : x <= y
  <2> HIDE DEF T
  <2> QED BY <1>3, Least
<1>5. PICK k \in K : k[1] = c /\ k[2] = x
  BY <1>4
<1>6. ASSUME NEW l \in K PROVE k = l \/ Before(k, l)
  <2>1. k[1] \in {1, 2} /\ l[1] \in {1, 2} /\ k[2] \in Nat /\ l[2] \in Nat
        /\ k = <<k[1], k[2]>> /\ l = <<l[1], l[2]>>
    BY <1>1
  <2>2. CASE l[1] = c
    <3>1. l[2] \in T
      BY <2>2
    <3>2. k[2] <= l[2]
      BY <3>1, <1>4, <1>5
    <3> QED BY <2>1, <2>2, <3>2, <1>5 DEF Before
  <2>3. CASE l[1] # c
    BY <2>1, <2>3, <1>2, <1>5 DEF Before
  <2> QED BY <2>2, <2>3
<1> QED BY <1>5, <1>6

(* What Acquire adds has one of the keys it was asked for. *)
LEMMA AcquireAdds ==
  ASSUME TypeOK, Table, NEW t \in Task, NEW keys \in SUBSET Key, Acquire(t, keys)
  PROVE  \A m \in owners'[t] : m \in owners[t] \/ m[1] \in keys
<1>1. owners'[t] = owners[t] \cup {Owner(k) : k \in keys}
  BY DEF Acquire, TypeOK
<1> QED BY <1>1, OwnerOfKey

LEMMA OrderedInit == Init => Ordered
BY DEF Init, Ordered, WaitsInOrder, PathsFirst, IdleOwnsNothing

LEMMA OrderedFinish ==
  ASSUME IInv, Ordered, NEW t \in Task, Finish(t) PROVE Ordered'
<1>1. /\ \A u \in Task : u # t => /\ pc'[u] = pc[u] /\ owners'[u] = owners[u]
                                  /\ held'[u] = held[u]
      /\ pc'[t] = "idle" /\ held'[t] = {} /\ owners'[t] = {}
  BY DEF IInv, TypeOK, Finish
<1> QED BY <1>1 DEF Ordered, WaitsInOrder, PathsFirst, IdleOwnsNothing

LEMMA OrderedBegin == ASSUME IInv, Ordered, NEW t \in Task, Begin(t) PROVE Ordered'
<1>1. PICK paths \in SUBSET Path : Acquire(t, {PathKey(p) : p \in paths})
  BY DEF Begin
<1>2. pc[t] = "idle" /\ pc' = [pc EXCEPT ![t] = "paths"] /\ held' = held
  BY DEF Begin
<1> DEFINE keys == {PathKey(p) : p \in paths}
<1>3. keys \in SUBSET Key /\ \A k \in keys : k[1] = 1
  BY DEF Key, PathKey
<1> HIDE DEF keys
<1>4. /\ \A u \in Task : u # t => owners'[u] = owners[u]
      /\ \A m \in owners'[t] : m \in owners[t] \/ m[1] \in keys
  BY <1>1, <1>3, AcquireKeeps, AcquireAdds DEF IInv, keys
<1>5. owners[t] = {} /\ held[t] = {}
  BY <1>2 DEF IInv, TypeOK, Ordered, IdleOwnsNothing
<1>6. pc'[t] = "paths" /\ \A u \in Task : u # t => pc'[u] = pc[u]
  BY <1>2 DEF IInv, TypeOK
<1>7. \A m \in owners'[t] : m[1][1] = 1
  BY <1>3, <1>4, <1>5
<1> QED BY <1>2, <1>4, <1>5, <1>6, <1>7 DEF Ordered, WaitsInOrder, PathsFirst, IdleOwnsNothing

LEMMA OrderedLock == ASSUME IInv, Ordered, NEW t \in Task, Lock(t) PROVE Ordered'
<1>1. PICK m \in Wanted(t) : held' = [held EXCEPT ![t] = @ \cup {m}]
  BY DEF Lock
<1>2. UNCHANGED <<pc, owners>>
  BY DEF Lock
<1>3. /\ held'[t] = held[t] \cup {m}
      /\ \A u \in Task : u # t => held'[u] = held[u]
  BY <1>1 DEF IInv, TypeOK
<1>4. \A n \in owners[t] \ held[t] : m = n \/ Before(m[1], n[1])
  BY <1>1 DEF Wanted
<1> QED BY <1>2, <1>3, <1>4 DEF Ordered, WaitsInOrder, PathsFirst, IdleOwnsNothing

(* The identities come after every path that is locked by then. *)
LEMMA OrderedIdentify == ASSUME IInv, Ordered, NEW t \in Task, Identify(t) PROVE Ordered'
<1> DEFINE keys == {IdKey(file[p]) : p \in {q \in enlisted[t] : file[q] # Absent}}
<1>1. /\ pc[t] = "paths" /\ owners[t] = held[t] /\ Acquire(t, keys)
      /\ pc' = [pc EXCEPT ![t] = "ids"] /\ held' = held
  BY DEF Identify
<1>2. keys \in SUBSET Key /\ \A k \in keys : k[1] = 2
  BY DEF Key, IdKey, IInv, TypeOK
<1> HIDE DEF keys
<1>3. /\ \A u \in Task : u # t => owners'[u] = owners[u]
      /\ \A m \in owners'[t] : m \in owners[t] \/ m[1] \in keys
  BY <1>1, <1>2, AcquireKeeps, AcquireAdds DEF IInv
<1>4. pc'[t] = "ids" /\ \A u \in Task : u # t => pc'[u] = pc[u]
  BY <1>1 DEF IInv, TypeOK
<1>5. \A m \in held[t] : m[1][1] = 1
  BY <1>1 DEF Ordered, PathsFirst
<1>6. \A n \in owners'[t] \ held[t] : n[1][1] = 2
  BY <1>1, <1>2, <1>3
<1>7. \A m \in held[t], n \in owners'[t] \ held[t] : Before(m[1], n[1])
  BY <1>5, <1>6 DEF Before
<1> QED BY <1>1, <1>3, <1>4, <1>7 DEF Ordered, WaitsInOrder, PathsFirst, IdleOwnsNothing

LEMMA OrderedNext == IInv /\ Ordered /\ [Next]_vars => Ordered'
<1> SUFFICES ASSUME IInv, Ordered, [Next]_vars PROVE Ordered'
  OBVIOUS
<1>1. CASE UNCHANGED vars
  BY <1>1 DEF vars, Ordered, WaitsInOrder, PathsFirst, IdleOwnsNothing
<1>2. ASSUME NEW t \in Task, MeetPoison(t) \/ Cancel(t) \/ Return(t) \/ Panic(t)
      PROVE  Ordered'
  BY <1>2, OrderedFinish DEF MeetPoison, Cancel, Return, Panic
<1>3. ASSUME NEW t \in Task, Enter(t) PROVE Ordered'
  <2>1. pc[t] = "ids" /\ pc' = [pc EXCEPT ![t] = "act"] /\ UNCHANGED <<owners, held>>
    BY <1>3 DEF Enter
  <2>2. pc'[t] = "act" /\ \A u \in Task : u # t => pc'[u] = pc[u]
    BY <2>1 DEF IInv, TypeOK
  <2> QED BY <2>1, <2>2 DEF Ordered, WaitsInOrder, PathsFirst, IdleOwnsNothing
<1>4. ASSUME NEW t \in Task, Act(t) PROVE Ordered'
  <2>1. UNCHANGED <<pc, owners, held>>
    BY <1>4 DEF Act, WriteAtomic, Remove, Rename
  <2> QED BY <2>1 DEF Ordered, WaitsInOrder, PathsFirst, IdleOwnsNothing
<1>5. ASSUME NEW t \in Task, Begin(t) \/ Lock(t) \/ Identify(t) PROVE Ordered'
  BY <1>5, OrderedBegin, OrderedLock, OrderedIdentify
<1> QED BY <1>1, <1>2, <1>3, <1>4, <1>5 DEF Next, Proceed

(* A task that has not locked all it owns wants one mutex. *)
LEMMA WantsOne ==
  ASSUME IInv, NEW t \in Task, owners[t] # held[t]
  PROVE  \E m \in Wanted(t) : Wanted(t) = {m}
<1> DEFINE Rest == owners[t] \ held[t]
           K == {m[1] : m \in Rest}
<1>1. Rest # {} /\ Rest \subseteq Mutex
  BY DEF IInv, TypeOK
<1>2. K \in SUBSET Key /\ K # {}
  BY <1>1 DEF Mutex
<1>3. PICK k \in K : \A l \in K : k = l \/ Before(k, l)
  <2> HIDE DEF K
  <2> QED BY <1>2, FirstKey
<1>4. PICK m \in Rest : m[1] = k
  BY <1>3
<1>5. \A n \in Rest : n[1] = k => n = m
  BY <1>4 DEF IInv, Table, OwnedListed, OnePerKey
<1>6. \A n \in Rest : m = n \/ Before(m[1], n[1])
  BY <1>3, <1>4, <1>5
<1>7. m \in Wanted(t)
  BY <1>4, <1>6 DEF Wanted
<1>8. ASSUME NEW n \in Wanted(t) PROVE n = m
  <2>1. n \in Rest /\ (n = m \/ Before(n[1], m[1])) /\ (n = m \/ Before(m[1], n[1]))
    BY <1>4, <1>6 DEF Wanted
  <2>2. n[1] \in Key /\ m[1] \in Key
    BY <2>1, <1>1, <1>4 DEF Mutex
  <2> QED BY <2>1, <2>2, KeyOrder
<1> QED BY <1>7, <1>8

Waits(t) == pc[t] # "idle" /\ ~GoesOn(t)

(* Who holds up a transaction waits, if at all, for a later key. *)
LEMMA HolderIsLater ==
  ASSUME IInv, Ordered, NEW t \in Task, Waits(t)
  PROVE  \E u \in Task : /\ pc[u] # "idle"
                         /\ Waits(u) => \E m \in Wanted(t), n \in Wanted(u) : Before(m[1], n[1])
<1>1. owners[t] # held[t] /\ \A m \in Wanted(t) : ~Free(m)
  BY DEF Waits, GoesOn
<1>2. PICK m \in Wanted(t) : Wanted(t) = {m}
  BY <1>1, WantsOne
<1>3. PICK u \in Task : m \in held[u]
  BY <1>1, <1>2 DEF Free
<1>4. pc[u] # "idle"
  BY <1>3 DEF IInv, TypeOK, Ordered, IdleOwnsNothing
<1>5. ASSUME Waits(u) PROVE \E n \in Wanted(u) : Before(m[1], n[1])
  <2>1. owners[u] # held[u]
    BY <1>5 DEF Waits, GoesOn
  <2>2. PICK n \in Wanted(u) : Wanted(u) = {n}
    BY <2>1, WantsOne
  <2> QED BY <2>2, <1>3 DEF Wanted, Ordered, WaitsInOrder
<1> QED BY <1>4, <1>5

(* The waiting tasks whose wanted key is after the one t wants. *)
After(t) == {u \in Task : Waits(u) /\ \E m \in Wanted(t), n \in Wanted(u) : Before(m[1], n[1])}

LEMMA OrderedHasNoRing == ASSUME IInv, Ordered PROVE NoRing
<1> SUFFICES ASSUME NEW s \in Task, pc[s] # "idle", \A t \in Task : ~GoesOn(t)
             PROVE  FALSE
  BY DEF NoRing
<1> DEFINE W == {t \in Task : Waits(t)}
           Sizes == {Cardinality(After(t)) : t \in W}
<1>1. \A t \in Task : IsFiniteSet(After(t)) /\ Cardinality(After(t)) \in Nat
  BY LocksAssumption, FS_Subset, FS_CardinalityType DEF After
<1>2. s \in W
  BY DEF Waits
<1>3. Sizes \subseteq Nat /\ Sizes # {}
  BY <1>1, <1>2
<1>4. PICK x \in Sizes : \A y \in Sizes : x <= y
  <2> HIDE DEF Sizes
  <2> QED BY <1>3, Least
<1>5. PICK t \in W : \A v \in W : Cardinality(After(t)) <= Cardinality(After(v))
  BY <1>4
<1>6. PICK u \in Task : /\ pc[u] # "idle"
                        /\ Waits(u) => \E m \in Wanted(t), n \in Wanted(u) : Before(m[1], n[1])
  BY <1>5, HolderIsLater
<1>7. Waits(u) /\ Waits(t)
  BY <1>5, <1>6 DEF Waits
<1>8. owners[t] # held[t] /\ owners[u] # held[u]
  BY <1>7 DEF Waits, GoesOn
<1>9. PICK m \in Wanted(t) : Wanted(t) = {m}
  BY <1>8, WantsOne
<1>10. PICK n \in Wanted(u) : Wanted(u) = {n}
  BY <1>8, WantsOne
<1>11. Before(m[1], n[1])
  BY <1>6, <1>7, <1>9, <1>10
<1>12. \A v \in Task : \A k \in Wanted(v) : k[1] \in Key
  BY DEF Wanted, Mutex, IInv, TypeOK
<1>13. u \in After(t) /\ u \notin After(u)
  BY <1>7, <1>9, <1>10, <1>11, <1>12, KeyOrder DEF After
<1>14. ASSUME NEW v \in After(u) PROVE v \in After(t)
  <2>1. PICK k \in Wanted(v) : Before(n[1], k[1])
    BY <1>10 DEF After
  <2>2. v \in Task /\ Waits(v)
    BY DEF After
  <2>3. Before(m[1], k[1])
    BY <2>1, <2>2, <1>11, <1>12, KeyOrder
  <2> QED BY <2>1, <2>2, <2>3 DEF After
<1>15. /\ Cardinality(After(u)) <= Cardinality(After(t))
       /\ Cardinality(After(t)) = Cardinality(After(u)) => After(t) = After(u)
  BY <1>1, <1>14, FS_Subset
<1>16. Cardinality(After(t)) <= Cardinality(After(u))
  BY <1>5, <1>7
<1>17. Cardinality(After(t)) = Cardinality(After(u))
  BY <1>1, <1>15, <1>16
<1> QED BY <1>13, <1>15, <1>17

(* Transactions over several paths, hard links in any pattern, do not wait *)
(* for each other in a ring: the keys are sorted in either round, and every *)
(* path comes before every identity (file_lock.rs: LockKey, acquire_owner). *)
(* This is what Finishes needs besides fairness.                           *)
THEOREM NobodyWaitsInARing == Spec => []NoRing
<1>1. Spec => []Ordered
  BY LocksInvariant, OrderedInit, OrderedNext, PTL DEF Spec
<1>2. IInv /\ Ordered => NoRing
  BY OrderedHasNoRing
<1> QED BY <1>1, <1>2, LocksInvariant, PTL
=============================================================================
