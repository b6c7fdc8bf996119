-------------------------- MODULE ImageCacheProofs --------------------------
(***************************************************************************)
(* What the cache of images promises, for any workers, files, contents and *)
(* limits.                                                                 *)
(*                                                                         *)
(* IInv is about contents: every source that anything names is what its    *)
(* file held under its stamp, no two sources share a generation, an entry's *)
(* pixels are of its bytes, and what a worker has read so far agrees with  *)
(* the file as long as the stamp it took first is still the file's.        *)
(*                                                                         *)
(* Inv adds the budgets and what they need: between the two halves of a    *)
(* reservation for a sequence (ChargeInv) the worker is in the mutex, its  *)
(* victims are still cached, unpinned and decoded, and what they free is   *)
(* enough for the charge.  A budget is a sum over its owners (FiniteSums), *)
(* so a step is judged by the owners it adds: at most one, or the one that *)
(* a reservation already paid for.                                         *)
(***************************************************************************)
EXTENDS ImageCache, FiniteSums, SequenceTheorems, TLAPS

Labels == {"idle", "slot", "encoded", "read", "stamp", "verify", "insert",
           "loaded", "decode", "decoding", "derive", "charge", "retain"}
Kinds == {"bytes", "image", "pixels", "derived", "sequence"}

Lease_ == [kind : Kinds, source : Source_, image : Nat, id : Nat]
Read_ == [file : File, want : {"bytes", "image"}, stamp : Nat, length : Nat,
          bytes : Seq(Nat), seen : Nat]
Charge_ == [file : {NoOne}, victims : SUBSET File]

TypeOK ==
    /\ disk \in [File -> Seq(Seq(Nat))]
    /\ entries \in [File -> Entry_ \cup {NoEntry}]
    /\ order \in Seq(File)
    /\ lock \in Worker \cup {NoOne}
    /\ pc \in [Worker -> Labels]
    /\ job \in [Worker -> Read_ \cup Charge_ \cup {NoJob}]
    /\ mine \in [Worker -> SUBSET Lease_]
    /\ leases \in SUBSET Lease_
    /\ reads \in Nat /\ decodes \in Nat

(* What a source says of its file, now and for good. *)
Faithful(s) == /\ s.stamp \in 1..Len(disk[s.file])
               /\ s.content = disk[s.file][s.stamp]
               /\ s.generation \in 1..reads

DiskInv == \A f \in File : Len(disk[f]) >= 1
SlotInv == \A s \in Slots : Faithful(s)
GenerationInv == \A s, t \in Slots : s.generation = t.generation => s = t
EntryInv ==
    \A f \in Cached : /\ entries[f].source.file = f
                      /\ entries[f].image # 0 => entries[f].origin = entries[f].source
OrderInv == /\ \A i, j \in DOMAIN order : order[i] = order[j] => i = j
            /\ Cached = {order[i] : i \in DOMAIN order}

(* A read: its stamp, the length under it, and what the chunks so far are  *)
(* worth as long as the file has this stamp.                               *)
ReadOf(w) ==
    /\ job[w] \in Read_
    /\ mine[w] = {}
    /\ job[w].stamp \in 1..Stamp(job[w].file)
    /\ job[w].length = Len(disk[job[w].file][job[w].stamp])
ChunksOf(w) ==
    /\ pc[w] = "read" => Len(job[w].bytes) < job[w].length
    /\ (pc[w] \in {"read", "stamp"} /\ Stamp(job[w].file) = job[w].stamp) =>
           \A i \in 1..Len(job[w].bytes) : job[w].bytes[i] = Now(job[w].file)[i]
    /\ pc[w] \in {"stamp", "verify"} => Len(job[w].bytes) = job[w].length
    /\ pc[w] = "verify" => job[w].seen \in 0..job[w].length
    /\ (pc[w] = "verify" /\ Stamp(job[w].file) = job[w].stamp) =>
           \A i \in 1..job[w].seen : job[w].bytes[i] = Now(job[w].file)[i]
    /\ pc[w] = "insert" => job[w].bytes = disk[job[w].file][job[w].stamp]
    /\ pc[w] \in {"slot", "encoded"} => job[w].bytes = <<>>
    /\ pc[w] \in {"slot", "encoded", "read", "stamp"} => job[w].seen = 0

(* A load: the bytes are owned, and while the file is cached it is them.   *)
LoadOf(w) ==
    /\ job[w] \in Read_
    /\ \E s \in Source_ :
          /\ mine[w] = {Lease("bytes", s, 0, 0)}
          /\ s.file = job[w].file
          /\ s.file \in Cached => entries[s.file].source = s

Gathers == {"slot", "encoded"} \cup Filling
Loads == {"loaded", "decode", "decoding"}
Borrows == {"idle", "derive", "charge", "retain"}

WorkerInv(w) ==
    /\ pc[w] \in Gathers => ReadOf(w) /\ ChunksOf(w)
    /\ pc[w] \in Loads => LoadOf(w)
    /\ pc[w] \in Borrows => job[w].file = NoOne
    /\ pc[w] = "idle" => mine[w] = {}
    /\ pc[w] = "derive" => \E h \in Lease_ : mine[w] = {h} /\ h.kind = "image"
    /\ pc[w] = "charge" => /\ job[w] \in Charge_
                           /\ \E h \in Lease_ : /\ mine[w] = {h}
                                                /\ h.kind \in {"derived", "sequence"}
JobInv == \A w \in Worker : WorkerInv(w)

(* The files that are read are apart: FileLocks. *)
ApartInv == \A u, w \in Worker : job[u].file = job[w].file /\ job[w].file # NoOne => u = w

FiniteInv == IsFiniteSet(Held) /\ IsFiniteSet(Cached)

Contents == DiskInv /\ SlotInv /\ GenerationInv /\ EntryInv
IInv == TypeOK /\ Contents /\ OrderInv /\ JobInv /\ ApartInv /\ FiniteInv

-----------------------------------------------------------------------------
(* Types and records. *)

(* What a lease consists of. *)
LEMMA LeaseIs ==
  ASSUME NEW k \in Kinds, NEW s \in Source_, NEW i \in Nat, NEW n \in Nat
  PROVE  /\ Lease(k, s, i, n) \in Lease_
         /\ Lease(k, s, i, n).kind = k
         /\ Lease(k, s, i, n).source = s
         /\ Lease(k, s, i, n).image = i
         /\ Lease(k, s, i, n).id = n
BY DEF Lease, Lease_

(* A lease over a known source is well formed. *)
LEMMA LeaseTyped ==
  ASSUME NEW h \in Lease_
  PROVE  h.kind \in Kinds /\ h.source \in Source_ /\ h.image \in Nat /\ h.id \in Nat
BY DEF Lease_

(* Every lease that counts is well formed. *)
LEMMA HeldTyped ==
  ASSUME TypeOK
  PROVE  /\ \A h \in Held : h \in Lease_
         /\ \A w \in Worker : \A h \in mine[w] : h \in Held
         /\ \A h \in leases : h \in Held
BY DEF TypeOK, Held

(* An entry that is there is an entry. *)
LEMMA CachedTyped ==
  ASSUME TypeOK, NEW f \in Cached
  PROVE  /\ f \in File /\ entries[f] \in Entry_
         /\ entries[f].source \in Source_ /\ entries[f].origin \in Source_
         /\ entries[f].image \in Nat
BY DEF TypeOK, Cached, Entry_

(* What the leases are after a step of w that changes its own to M and adds*)
(* at most the leases L to those of the consumers.                         *)
LEMMA HeldAfter ==
  ASSUME TypeOK, NEW w \in Worker, NEW M, NEW L,
         mine' = [mine EXCEPT ![w] = M], leases' \subseteq leases \cup L
  PROVE  Held' \subseteq Held \cup M \cup L
<1>1. \A u \in Worker : mine'[u] = IF u = w THEN M ELSE mine[u]
  BY DEF TypeOK
<1> QED BY <1>1 DEF Held

(* The sets of owners, by membership. *)
LEMMA Owners ==
  ASSUME TypeOK
  PROVE  /\ \A s : s \in HeldBytes <=> \E h \in Held : h.kind \in {"bytes", "image"} /\ h.source = s
         /\ \A r : r \in HeldPixels <=> \E h \in Held : h.kind \in {"image", "pixels"} /\ r = <<h.source, h.image>>
         /\ \A s : s \in Sources <=> s \in HeldBytes \/ \E f \in Cached : s = entries[f].source
         /\ \A r : r \in Rasters <=> \/ r \in HeldPixels
                                     \/ \E f \in Cached : entries[f].image # 0
                                            /\ r = <<entries[f].origin, entries[f].image>>
         /\ \A s : s \in Slots <=> \/ s \in Sources
                                   \/ \E h \in Held : h.source = s
                                   \/ \E r \in Rasters : r[1] = s
<1>1. \A s : s \in HeldBytes <=> \E h \in Held : h.kind \in {"bytes", "image"} /\ h.source = s
  BY DEF HeldBytes
<1>2. \A r : r \in HeldPixels <=> \E h \in Held : h.kind \in {"image", "pixels"} /\ r = <<h.source, h.image>>
  BY DEF HeldPixels
<1>3. \A s : s \in Sources <=> s \in HeldBytes \/ \E f \in Cached : s = entries[f].source
  BY DEF Sources
<1>4. \A r : r \in Rasters <=> \/ r \in HeldPixels
                               \/ \E f \in Cached : entries[f].image # 0
                                      /\ r = <<entries[f].origin, entries[f].image>>
  BY DEF Rasters
<1>5. \A s : s \in Slots <=> \/ s \in Sources
                             \/ \E h \in Held : h.source = s
                             \/ \E r \in Rasters : r[1] = s
  BY DEF Slots
<1> QED BY <1>1, <1>2, <1>3, <1>4, <1>5

-----------------------------------------------------------------------------
(* The order of the cached files. *)

Distinct(q) == \A i, j \in DOMAIN q : q[i] = q[j] => i = j
Members(q) == {q[i] : i \in DOMAIN q}

(* The smaller of two lengths. *)
LEMMA MinIs ==
  ASSUME NEW S, S \subseteq Nat, S # {}
  PROVE  Min(S) \in S /\ \A y \in S : Min(S) <= y
BY Least DEF Min

(* Removing a file from the order of use: what is left, in the same order. *)
LEMMA RemoveIs ==
  ASSUME NEW q \in Seq(File), Distinct(q), NEW f
  PROVE  /\ RemoveFirst(q, f) \in Seq(File)
         /\ Distinct(RemoveFirst(q, f))
         /\ Members(RemoveFirst(q, f)) = Members(q) \ {f}
<1>0. DOMAIN q = 1..Len(q) /\ Len(q) \in Nat /\ \A i \in 1..Len(q) : q[i] \in File
  BY LenProperties, ElementOfSeq
<1>1. CASE \A i \in 1..Len(q) : q[i] # f
  <2>1. RemoveFirst(q, f) = q
    BY <1>1 DEF RemoveFirst
  <2>2. Members(q) \ {f} = Members(q)
    BY <1>0, <1>1 DEF Members
  <2> QED BY <2>1, <2>2
<1>2. CASE \E i \in 1..Len(q) : q[i] = f
  <2>1. PICK k \in 1..Len(q) : q[k] = f
    BY <1>2
  <2>2. {i \in 1..Len(q) : q[i] = f} = {k}
    BY <2>1, <1>0 DEF Distinct
  <2>3. SelectInSeq(q, LAMBDA v : v = f) = k
    <3>1. Min({k}) = k
      BY <2>1, MinIs
    <3> QED BY <2>2, <3>1 DEF SelectInSeq
  <2>4. RemoveFirst(q, f) = SubSeq(q, 1, k - 1) \o SubSeq(q, k + 1, Len(q))
    BY <1>2, <2>3 DEF RemoveFirst, RemoveAt
  <2> DEFINE a == SubSeq(q, 1, k - 1)
             b == SubSeq(q, k + 1, Len(q))
  <2>5. a \in Seq(File) /\ Len(a) = k - 1 /\ \A i \in 1..(k - 1) : a[i] = q[i]
    <3>1. \A i \in 1..(k - 1) : q[i] \in File
      BY <1>0
    <3>2. k - 1 \in Int /\ 1 \in Int /\ k - 1 >= 0
      BY <1>0
    <3>3. /\ SubSeq(q, 1, k - 1) \in Seq(File)
          /\ Len(SubSeq(q, 1, k - 1)) = IF 1 <= k - 1 THEN (k - 1) - 1 + 1 ELSE 0
          /\ \A i \in 1..((k - 1) - 1 + 1) : SubSeq(q, 1, k - 1)[i] = q[1 + i - 1]
      BY <3>1, <3>2, SubSeqProperties
    <3> QED BY <3>2, <3>3
  <2>6. b \in Seq(File) /\ Len(b) = Len(q) - k /\ \A i \in 1..(Len(q) - k) : b[i] = q[k + i]
    <3>1. \A i \in (k + 1)..Len(q) : q[i] \in File
      BY <1>0
    <3>2. k + 1 \in Int /\ Len(q) \in Int /\ Len(q) - k >= 0
      BY <1>0
    <3>3. /\ SubSeq(q, k + 1, Len(q)) \in Seq(File)
          /\ Len(SubSeq(q, k + 1, Len(q))) = IF k + 1 <= Len(q) THEN Len(q) - (k + 1) + 1 ELSE 0
          /\ \A i \in 1..(Len(q) - (k + 1) + 1) : SubSeq(q, k + 1, Len(q))[i] = q[(k + 1) + i - 1]
      BY <3>1, <3>2, SubSeqProperties
    <3> QED BY <3>2, <3>3
  <2> HIDE DEF a, b
  <2>7. PICK c : c = RemoveFirst(q, f)
    OBVIOUS
  <2>8. /\ c \in Seq(File) /\ Len(c) = Len(q) - 1
        /\ \A i \in 1..(Len(q) - 1) : c[i] = IF i < k THEN q[i] ELSE q[i + 1]
    <3>1. c = a \o b
      BY <2>4, <2>7 DEF a, b
    <3>2. /\ c \in Seq(File) /\ Len(c) = Len(a) + Len(b)
          /\ \A i \in 1..(Len(a) + Len(b)) : c[i] = IF i <= Len(a) THEN a[i] ELSE b[i - Len(a)]
      BY <3>1, <2>5, <2>6, ConcatProperties
    <3>3. Len(a) + Len(b) = Len(q) - 1 /\ Len(a) = k - 1 /\ k \in Nat /\ Len(q) \in Nat
      BY <2>5, <2>6, <1>0
    <3>4. ASSUME NEW i \in 1..(Len(q) - 1)
          PROVE  c[i] = IF i < k THEN q[i] ELSE q[i + 1]
      <4>1. c[i] = IF i <= k - 1 THEN a[i] ELSE b[i - (k - 1)]
        BY <3>2, <3>3
      <4>2. CASE i < k
        <5>1. i \in 1..(k - 1)
          BY <3>3, <4>2
        <5> QED BY <5>1, <4>1, <4>2, <2>5
      <4>3. CASE ~ (i < k)
        <5>1. i - (k - 1) \in 1..(Len(q) - k) /\ k + (i - (k - 1)) = i + 1 /\ ~ (i <= k - 1)
          BY <3>3, <4>3
        <5> QED BY <5>1, <4>1, <4>3, <2>6
      <4> QED BY <4>2, <4>3
    <3> QED BY <3>2, <3>3, <3>4
  <2>9. DOMAIN c = 1..(Len(q) - 1)
    BY <2>8, LenProperties
  <2>10. Distinct(c)
    <3> SUFFICES ASSUME NEW i \in 1..(Len(q) - 1), NEW j \in 1..(Len(q) - 1), c[i] = c[j]
                 PROVE  i = j
      BY <2>9 DEF Distinct
    <3>1. PICK x \in 1..Len(q) : x = IF i < k THEN i ELSE i + 1
      BY <1>0
    <3>2. PICK y \in 1..Len(q) : y = IF j < k THEN j ELSE j + 1
      BY <1>0
    <3>3. q[x] = q[y]
      BY <2>8, <3>1, <3>2
    <3>4. x = y
      BY <3>3, <1>0 DEF Distinct
    <3> QED BY <3>1, <3>2, <3>4, <1>0
  <2>11. Members(c) = Members(q) \ {f}
    <3>1. ASSUME NEW x \in Members(c) PROVE x \in Members(q) \ {f}
      <4>1. PICK i \in 1..(Len(q) - 1) : c[i] = x
        BY <2>9 DEF Members
      <4>2. PICK y \in 1..Len(q) : y = IF i < k THEN i ELSE i + 1
        BY <1>0
      <4>3. x = q[y] /\ y # k
        BY <4>1, <4>2, <2>8, <1>0
      <4>4. q[y] # f
        BY <4>3, <2>1, <1>0 DEF Distinct
      <4> QED BY <4>3, <4>4, <1>0 DEF Members
    <3>2. ASSUME NEW x \in Members(q) \ {f} PROVE x \in Members(c)
      <4>1. PICK y \in 1..Len(q) : q[y] = x /\ x # f
        BY <1>0 DEF Members
      <4>2. y # k
        BY <4>1, <2>1
      <4>3. PICK i \in 1..(Len(q) - 1) : i = IF y < k THEN y ELSE y - 1
        BY <4>2, <1>0
      <4>4. c[i] = x
        BY <4>1, <4>2, <4>3, <2>8, <1>0
      <4> QED BY <4>4, <2>9 DEF Members
    <3> QED BY <3>1, <3>2
  <2> QED BY <2>7, <2>8, <2>10, <2>11
<1> QED BY <1>1, <1>2

(* Appending a file that was not in the order. *)
LEMMA AppendMember ==
  ASSUME NEW q \in Seq(File), Distinct(q), NEW f \in File, f \notin Members(q)
  PROVE  /\ Append(q, f) \in Seq(File)
         /\ Distinct(Append(q, f))
         /\ Members(Append(q, f)) = Members(q) \cup {f}
<1>1. PICK c : c = Append(q, f)
  OBVIOUS
<1>2. /\ c \in Seq(File) /\ Len(c) = Len(q) + 1 /\ Len(q) \in Nat
      /\ \A i \in 1..Len(q) : c[i] = q[i]
      /\ c[Len(q) + 1] = f
  BY <1>1, AppendProperties, LenProperties
<1>3. DOMAIN c = 1..(Len(q) + 1) /\ DOMAIN q = 1..Len(q)
  BY <1>2, LenProperties
<1>4. \A i \in 1..Len(q) : q[i] # f
  BY <1>3 DEF Members
<1>5. Distinct(c)
  BY <1>2, <1>3, <1>4 DEF Distinct
<1>6. Members(c) = Members(q) \cup {f}
  <2>1. ASSUME NEW x \in Members(c) PROVE x \in Members(q) \cup {f}
    BY <1>2, <1>3 DEF Members
  <2>2. ASSUME NEW x \in Members(q) PROVE x \in Members(c)
    <3>1. PICK i \in 1..Len(q) : q[i] = x
      BY <1>3 DEF Members
    <3>2. i \in DOMAIN c /\ c[i] = x
      BY <3>1, <1>2, <1>3
    <3> QED BY <3>2 DEF Members
  <2>3. f \in Members(c)
    <3>1. Len(q) + 1 \in DOMAIN c
      BY <1>2, <1>3
    <3> QED BY <3>1, <1>2 DEF Members
  <2> QED BY <2>1, <2>2, <2>3
<1> QED BY <1>1, <1>2, <1>5, <1>6

(* The order of use, by position. *)
LEMMA OrderIs ==
  ASSUME TypeOK, OrderInv
  PROVE  order \in Seq(File) /\ Distinct(order) /\ Cached = Members(order)
BY DEF TypeOK, OrderInv, Distinct, Members

(* What the order is when a file is dropped, or is the last one used.      *)
LEMMA WithoutIs ==
  ASSUME TypeOK, OrderInv, NEW f
  PROVE  Without(f) \in Seq(File) /\ Distinct(Without(f)) /\ Members(Without(f)) = Cached \ {f}
BY OrderIs, RemoveIs DEF Without

(* A file that is used is the last of the order, and the others stay. *)
LEMMA TouchedIs ==
  ASSUME TypeOK, OrderInv, NEW f \in File
  PROVE  Touched(f) \in Seq(File) /\ Distinct(Touched(f)) /\ Members(Touched(f)) = Cached \cup {f}
<1>1. /\ Without(f) \in Seq(File) /\ Distinct(Without(f)) /\ Members(Without(f)) = Cached \ {f}
  BY WithoutIs
<1>2. f \notin Members(Without(f))
  BY <1>1
<1> QED BY <1>1, <1>2, AppendMember DEF Touched

(* An unpinned entry is found at a position of the order. *)
LEMMA OldestIs ==
  ASSUME TypeOK, OrderInv, NEW S, S \subseteq Cached, S # {}
  PROVE  Oldest(S) \in S
<1> DEFINE I == {i \in DOMAIN order : order[i] \in S}
<1>1. I # {} /\ I \subseteq Nat
  <2>1. PICK f \in S : TRUE
    OBVIOUS
  <2>2. f \in Members(order)
    BY OrderIs
  <2>3. DOMAIN order = 1..Len(order)
    BY OrderIs, LenProperties
  <2> QED BY <2>1, <2>2, <2>3 DEF Members
<1>2. Min(I) \in I
  BY <1>1, MinIs
<1> QED BY <1>2 DEF Oldest

-----------------------------------------------------------------------------
(* What a step may do to the owners of bytes and pixels. *)

Fits(h) == /\ h.source \in Slots
           /\ h.kind \in {"bytes", "image"} => h.source \in Sources
           /\ h.kind \in {"image", "pixels"} => <<h.source, h.image>> \in Rasters

(* Every cached entry was cached, with the same bytes and at most the same *)
(* pixels. *)
EntriesKept ==
    \A f \in Cached' :
        /\ f \in Cached
        /\ entries'[f].source = entries[f].source
        /\ entries'[f].image # 0 => /\ entries'[f].image = entries[f].image
                                    /\ entries'[f].origin = entries[f].origin

(* A source that a lease names is a slot. *)
LEMMA HeldFits ==
  ASSUME TypeOK
  PROVE  \A h \in Held : Fits(h)
<1> TAKE h \in Held
<1>1. h.source \in Slots
  BY Owners
<1>2. h.kind \in {"bytes", "image"} => h.source \in Sources
  BY Owners
<1>3. h.kind \in {"image", "pixels"} => <<h.source, h.image>> \in Rasters
  BY Owners
<1> QED BY <1>1, <1>2, <1>3 DEF Fits

(* Which sources are left, and that they are the same, when a step adds    *)
(* none.                                                                   *)
LEMMA Settled ==
  ASSUME TypeOK, TypeOK', EntriesKept, \A h \in Held' : h \in Held \/ Fits(h)
  PROVE  Sources' \subseteq Sources /\ Rasters' \subseteq Rasters /\ Slots' \subseteq Slots
<1>0. \A h \in Held' : Fits(h)
  BY HeldFits
<1>1. \A s \in HeldBytes' : s \in Sources
  <2> TAKE s \in HeldBytes'
  <2>1. PICK h \in Held' : h.kind \in {"bytes", "image"} /\ h.source = s
    BY DEF HeldBytes
  <2> QED BY <2>1, <1>0 DEF Fits
<1>2. \A r \in HeldPixels' : r \in Rasters
  <2> TAKE r \in HeldPixels'
  <2>1. PICK h \in Held' : h.kind \in {"image", "pixels"} /\ r = <<h.source, h.image>>
    BY DEF HeldPixels
  <2> QED BY <2>1, <1>0 DEF Fits
<1>3. \A s \in Sources' : s \in Sources
  <2> TAKE s \in Sources'
  <2>1. CASE s \in HeldBytes'
    BY <2>1, <1>1
  <2>2. CASE \E f \in Cached' : s = entries'[f].source
    BY <2>2, Owners DEF EntriesKept
  <2> QED BY <2>1, <2>2 DEF Sources
<1>4. \A r \in Rasters' : r \in Rasters
  <2> TAKE r \in Rasters'
  <2>1. CASE r \in HeldPixels'
    BY <2>1, <1>2
  <2>2. CASE \E f \in Cached' : entries'[f].image # 0 /\ r = <<entries'[f].origin, entries'[f].image>>
    <3>1. PICK f \in Cached' : entries'[f].image # 0 /\ r = <<entries'[f].origin, entries'[f].image>>
      BY <2>2
    <3>2. f \in Cached /\ entries[f].image # 0 /\ r = <<entries[f].origin, entries[f].image>>
      BY <3>1 DEF EntriesKept
    <3> QED BY <3>2, Owners
  <2> QED BY <2>1, <2>2 DEF Rasters
<1>5. \A s \in Slots' : s \in Slots
  <2> TAKE s \in Slots'
  <2>1. CASE s \in Sources'
    BY <2>1, <1>3, Owners
  <2>2. CASE \E h \in Held' : h.source = s
    BY <2>2, <1>0 DEF Fits
  <2>3. CASE \E r \in Rasters' : r[1] = s
    BY <2>3, <1>4, Owners
  <2> QED BY <2>1, <2>2, <2>3 DEF Slots
<1> QED BY <1>3, <1>4, <1>5

(* The files keep what they held. *)
DiskKept == \A f \in File : /\ Len(disk[f]) <= Len(disk'[f])
                            /\ \A i \in 1..Len(disk[f]) : disk'[f][i] = disk[f][i]

(* A slot is a source. *)
LEMMA SlotTyped ==
  ASSUME TypeOK, NEW s \in Slots
  PROVE  s \in Source_ /\ s.file \in File
<1>1. s \in Source_
  <2>1. CASE \E h \in Held : h.source = s
    BY <2>1, HeldTyped, LeaseTyped
  <2>2. CASE s \in Sources
    <3>1. CASE s \in HeldBytes
      BY <3>1, Owners, HeldTyped, LeaseTyped
    <3>2. CASE \E f \in Cached : s = entries[f].source
      BY <3>2, CachedTyped
    <3> QED BY <2>2, <3>1, <3>2 DEF Sources
  <2>3. CASE \E r \in Rasters : r[1] = s
    <3>1. PICK r \in Rasters : r[1] = s
      BY <2>3
    <3>2. CASE r \in HeldPixels
      <4>1. PICK h \in Held : r = <<h.source, h.image>>
        BY <3>2, Owners
      <4> QED BY <4>1, <3>1, HeldTyped, LeaseTyped
    <3>3. CASE \E f \in Cached : r = <<entries[f].origin, entries[f].image>>
      BY <3>3, <3>1, CachedTyped
    <3> QED BY <3>1, <3>2, <3>3 DEF Rasters
  <2> QED BY <2>1, <2>2, <2>3 DEF Slots
<1> QED BY <1>1 DEF Source_

(* Sources that were faithful stay so. *)
LEMMA FaithfulKept ==
  ASSUME TypeOK, TypeOK', SlotInv, DiskKept, reads <= reads', NEW s \in Slots
  PROVE  Faithful(s)'
<1>1. s.file \in File /\ Faithful(s)
  BY SlotTyped DEF SlotInv
<1>2. Len(disk[s.file]) \in Nat /\ Len(disk'[s.file]) \in Nat
  <2>1. disk[s.file] \in Seq(Seq(Nat)) /\ disk'[s.file] \in Seq(Seq(Nat))
    BY <1>1 DEF TypeOK
  <2> QED BY <2>1, LenProperties
<1>3. s.stamp \in 1..Len(disk'[s.file]) /\ disk'[s.file][s.stamp] = disk[s.file][s.stamp]
  BY <1>1, <1>2 DEF Faithful, DiskKept
<1>4. s.generation \in 1..reads'
  BY <1>1 DEF Faithful, TypeOK
<1> QED BY <1>1, <1>3, <1>4 DEF Faithful

(* The layer of the sources is kept by a step that adds none. *)
LEMMA ContentsKept ==
  ASSUME TypeOK, TypeOK', Contents, DiskKept, reads <= reads', EntriesKept,
         \A h \in Held' : h \in Held \/ Fits(h)
  PROVE  Contents'
<1>1. Slots' \subseteq Slots
  BY Settled
<1>2. SlotInv'
  BY <1>1, FaithfulKept DEF SlotInv, Contents
<1>3. GenerationInv'
  BY <1>1 DEF GenerationInv, Contents
<1>4. EntryInv'
  BY DEF EntryInv, Contents, EntriesKept
<1>5. DiskInv'
  <2>1. \A f \in File : Len(disk[f]) \in Nat /\ Len(disk'[f]) \in Nat
    <3> TAKE f \in File
    <3>1. disk[f] \in Seq(Seq(Nat)) /\ disk'[f] \in Seq(Seq(Nat))
      BY DEF TypeOK
    <3> QED BY <3>1, LenProperties
  <2> QED BY <2>1 DEF DiskInv, Contents, DiskKept
<1> QED BY <1>2, <1>3, <1>4, <1>5 DEF Contents

-----------------------------------------------------------------------------
(* What a step of one worker leaves to the others. *)

Quiet(w) == \A u \in Worker \ {w} :
                pc'[u] = pc[u] /\ job'[u] = job[u] /\ mine'[u] = mine[u]

(* A step of w that keeps or drops entries, and whose new leases, if any,  *)
(* share what is owned already.                                            *)
Gentle(w) == /\ EntriesKept /\ Quiet(w)
             /\ \A h \in Held' : h \in Held \/ (Fits(h) /\ h.kind \notin {"derived", "sequence"})

(* Fields of a read that is written. *)
LEMMA ReadTyped ==
  ASSUME NEW j \in Read_
  PROVE  /\ j.file \in File /\ j.file # NoOne /\ j.want \in {"bytes", "image"}
         /\ j.stamp \in Nat /\ j.length \in Nat /\ j.bytes \in Seq(Nat) /\ j.seen \in Nat
BY CacheAssumption DEF Read_

(* The phases of the workers that gather, load and borrow are apart. *)
LEMMA LabelsApart ==
  ASSUME NEW l \in Labels
  PROVE  /\ l \in Gathers \/ l \in Loads \/ l \in Borrows
         /\ ~ (l \in Gathers /\ l \in Loads)
         /\ ~ (l \in Gathers /\ l \in Borrows)
         /\ ~ (l \in Loads /\ l \in Borrows)
BY DEF Labels, Gathers, Loads, Borrows, Filling

(* A worker that does nothing while entries of other files come and go.    *)
LEMMA StillWorks ==
  ASSUME JobInv, NEW w \in Worker, disk' = disk,
         pc'[w] = pc[w], job'[w] = job[w], mine'[w] = mine[w],
         \A f \in Cached' : \/ f \in Cached /\ entries'[f].source = entries[f].source
                            \/ f # job[w].file
  PROVE  WorkerInv(w)'
<1>1. WorkerInv(w)
  BY DEF JobInv
<1>2. ASSUME pc'[w] \in Gathers PROVE ReadOf(w)' /\ ChunksOf(w)'
  <2>1. ReadOf(w) /\ ChunksOf(w)
    BY <1>1, <1>2 DEF WorkerInv
  <2>2. ReadOf(w)'
    BY <2>1 DEF ReadOf, Stamp
  <2>3. ChunksOf(w)'
    BY <2>1 DEF ChunksOf, Stamp, Now
  <2> QED BY <2>2, <2>3
<1>3. ASSUME pc'[w] \in Loads PROVE LoadOf(w)'
  <2>1. LoadOf(w)
    BY <1>1, <1>3 DEF WorkerInv
  <2>2. PICK s \in Source_ : /\ mine[w] = {Lease("bytes", s, 0, 0)}
                             /\ s.file = job[w].file
                             /\ s.file \in Cached => entries[s.file].source = s
    BY <2>1 DEF LoadOf
  <2>3. s.file \in Cached' => entries'[s.file].source = s
    BY <2>2
  <2> QED BY <2>1, <2>2, <2>3 DEF LoadOf
<1>4. pc'[w] \in Borrows => job'[w].file = NoOne
  BY <1>1 DEF WorkerInv
<1>5. pc'[w] = "idle" => mine'[w] = {}
  BY <1>1 DEF WorkerInv
<1>6. pc'[w] = "derive" => \E h \in Lease_ : mine'[w] = {h} /\ h.kind = "image"
  BY <1>1 DEF WorkerInv
<1>7. pc'[w] = "charge" => /\ job'[w] \in Charge_
                           /\ \E h \in Lease_ : /\ mine'[w] = {h}
                                                /\ h.kind \in {"derived", "sequence"}
  BY <1>1 DEF WorkerInv
<1> QED BY <1>2, <1>3, <1>4, <1>5, <1>6, <1>7 DEF WorkerInv

(* The other workers when w steps. *)
LEMMA OthersKept ==
  ASSUME TypeOK, JobInv, ApartInv, NEW w \in Worker, disk' = disk, Quiet(w),
         \A f \in Cached' : \/ f \in Cached /\ entries'[f].source = entries[f].source
                            \/ f = job[w].file,
         NEW u \in Worker \ {w}
  PROVE  WorkerInv(u)'
<1>1. pc'[u] = pc[u] /\ job'[u] = job[u] /\ mine'[u] = mine[u]
  BY DEF Quiet
<1>2. \A f \in Cached' : f = job[w].file => f # job[u].file
  BY CacheAssumption DEF ApartInv, Cached
<1>3. \A f \in Cached' : \/ f \in Cached /\ entries'[f].source = entries[f].source
                         \/ f # job[u].file
  BY <1>2
<1> QED BY <1>1, <1>3, StillWorks

(* All workers: w by its own step, the others by StillWorks. *)
LEMMA JobsKept ==
  ASSUME TypeOK, JobInv, ApartInv, NEW w \in Worker, disk' = disk, Quiet(w),
         \A f \in Cached' : \/ f \in Cached /\ entries'[f].source = entries[f].source
                            \/ f = job[w].file,
         WorkerInv(w)'
  PROVE  JobInv'
<1>1. \A u \in Worker \ {w} : WorkerInv(u)'
  BY OthersKept
<1> QED BY <1>1 DEF JobInv

(* No two workers read one file, when w reads what it read, or nothing. *)
LEMMA ApartKept ==
  ASSUME ApartInv, NEW w \in Worker, Quiet(w),
         \/ job'[w].file = NoOne
         \/ job'[w].file = job[w].file
         \/ \A u \in Worker : job[u].file # job'[w].file
  PROVE  ApartInv'
BY DEF ApartInv, Quiet

(* The leases and the entries stay finitely many. *)
LEMMA FiniteKept ==
  ASSUME FiniteInv, NEW H, IsFiniteSet(H), Held' \subseteq Held \cup H,
         NEW f, Cached' \subseteq Cached \cup {f}
  PROVE  FiniteInv'
<1>1. IsFiniteSet(Held \cup H)
  BY FS_Union DEF FiniteInv
<1>2. IsFiniteSet(Cached \cup {f})
  BY FS_AddElement DEF FiniteInv
<1> QED BY <1>1, <1>2, FS_Subset DEF FiniteInv

(* The step of a worker that reads no new bytes and decodes no new pixels: *)
(* what is left to show.                                                   *)
LEMMA WorkerStep ==
  ASSUME IInv, TypeOK', NEW w \in Worker, disk' = disk, reads' = reads,
         Quiet(w), EntriesKept,
         NEW h, Fits(h), Held' \subseteq Held \cup {h},
         Distinct(order'), Cached' = Members(order'),
         WorkerInv(w)',
         \/ job'[w].file = NoOne
         \/ job'[w].file = job[w].file
         \/ \A u \in Worker : job[u].file # job'[w].file
  PROVE  IInv'
<1> USE DEF IInv
<1>1. DiskKept
  BY DEF DiskKept, Contents, DiskInv, TypeOK
<1>2. Contents'
  <2>1. \A x \in Held' : x \in Held \/ Fits(x)
    OBVIOUS
  <2>2. reads <= reads'
    BY DEF TypeOK
  <2> QED BY <1>1, <2>1, <2>2, ContentsKept
<1>3. OrderInv'
  BY DEF OrderInv, Distinct, Members
<1>4. JobInv'
  <2>1. \A f \in Cached' : f \in Cached /\ entries'[f].source = entries[f].source
    BY DEF EntriesKept
  <2> QED BY <2>1, JobsKept
<1>5. ApartInv'
  BY ApartKept
<1>6. FiniteInv'
  <2>1. IsFiniteSet({h})
    BY FS_Singleton
  <2>2. Cached' \subseteq Cached \cup {h}
    BY DEF EntriesKept
  <2> QED BY <2>1, <2>2, FiniteKept
<1> QED BY <1>2, <1>3, <1>4, <1>5, <1>6

(* The same when no lease is new. *)
LEMMA QuietStep ==
  ASSUME IInv, TypeOK', NEW w \in Worker, disk' = disk, reads' = reads,
         Quiet(w), EntriesKept, Held' \subseteq Held,
         Distinct(order'), Cached' = Members(order'),
         WorkerInv(w)',
         \/ job'[w].file = NoOne
         \/ job'[w].file = job[w].file
         \/ \A u \in Worker : job[u].file # job'[w].file
  PROVE  IInv'
<1> USE DEF IInv
<1>1. DiskKept
  BY DEF DiskKept, Contents, DiskInv, TypeOK
<1>2. Contents'
  <2>1. \A x \in Held' : x \in Held \/ Fits(x)
    OBVIOUS
  <2>2. reads <= reads'
    BY DEF TypeOK
  <2> QED BY <1>1, <2>1, <2>2, ContentsKept
<1>3. OrderInv'
  BY DEF OrderInv, Distinct, Members
<1>4. JobInv'
  <2>1. \A f \in Cached' : f \in Cached /\ entries'[f].source = entries[f].source
    BY DEF EntriesKept
  <2> QED BY <2>1, JobsKept
<1>5. ApartInv'
  BY ApartKept
<1>6. FiniteInv'
  <2>1. IsFiniteSet({})
    BY FS_EmptySet
  <2>2. Cached' \subseteq Cached \cup {w}
    BY DEF EntriesKept
  <2>3. Held' \subseteq Held \cup {}
    OBVIOUS
  <2> QED BY <2>1, <2>2, <2>3, FiniteKept
<1> QED BY <1>2, <1>3, <1>4, <1>5, <1>6

-----------------------------------------------------------------------------
(* The parts the actions are made of. *)

(* What End does to the worker. *)
LEMMA EndIs ==
  ASSUME TypeOK, NEW w \in Worker, End(w)
  PROVE  /\ Quiet(w) /\ pc'[w] = "idle" /\ job'[w] = NoJob /\ job'[w].file = NoOne /\ mine'[w] = {}
         /\ pc' \in [Worker -> Labels]
         /\ job' \in [Worker -> Read_ \cup Charge_ \cup {NoJob}]
         /\ mine' \in [Worker -> SUBSET Lease_]
         /\ WorkerInv(w)'
<1>1. /\ Quiet(w) /\ pc'[w] = "idle" /\ job'[w] = NoJob /\ mine'[w] = {}
  BY DEF TypeOK, End, Quiet
<1>2. pc' \in [Worker -> Labels]
  BY DEF TypeOK, End, Labels
<1>3. job' \in [Worker -> Read_ \cup Charge_ \cup {NoJob}]
  BY DEF TypeOK, End
<1>4. mine' \in [Worker -> SUBSET Lease_]
  BY DEF TypeOK, End
<1>5. job'[w].file = NoOne
  BY <1>1 DEF NoJob
<1>6. WorkerInv(w)'
  BY <1>1, <1>5 DEF WorkerInv, Gathers, Loads, Filling
<1> QED BY <1>1, <1>2, <1>3, <1>4, <1>5, <1>6

(* What Goto does to the worker. *)
LEMMA GotoIs ==
  ASSUME TypeOK, NEW w \in Worker, NEW l \in Labels, Goto(w, l)
  PROVE  /\ pc' \in [Worker -> Labels] /\ pc'[w] = l
         /\ \A u \in Worker \ {w} : pc'[u] = pc[u]
BY DEF TypeOK, Goto

(* Entries that are not written. *)
LEMMA SameEntries ==
  ASSUME TypeOK, OrderInv, entries' = entries
  PROVE  EntriesKept /\ Cached' = Cached /\ (order' = order => Distinct(order') /\ Cached' = Members(order'))
<1>1. Cached' = Cached
  BY DEF Cached
<1>2. EntriesKept
  BY <1>1 DEF EntriesKept
<1> QED BY <1>1, <1>2, OrderIs

(* Leases that are not written. *)
LEMMA SameHeld ==
  ASSUME mine' = mine, leases' = leases
  PROVE  Held' \subseteq Held
BY DEF Held

(* An entry that is forgotten: the others stay. *)
LEMMA ForgetIs ==
  ASSUME TypeOK, OrderInv, NEW f, Forget(f)
  PROVE  /\ entries' \in [File -> Entry_ \cup {NoEntry}]
         /\ order' \in Seq(File)
         /\ EntriesKept
         /\ Distinct(order') /\ Cached' = Members(order')
         /\ Cached' = Cached \ {f}
         /\ \A g \in Cached' : entries'[g] = entries[g]
<1>1. entries' \in [File -> Entry_ \cup {NoEntry}]
  BY DEF TypeOK, Forget
<1>2. order' \in Seq(File) /\ Distinct(order') /\ Members(order') = Cached \ {f}
  BY WithoutIs DEF Forget
<1>3. \A g \in File : entries'[g] = IF g = f THEN NoEntry ELSE entries[g]
  BY DEF TypeOK, Forget
<1>4. Cached' = Cached \ {f}
  BY <1>3 DEF Cached
<1>5. \A g \in Cached' : entries'[g] = entries[g]
  BY <1>3, <1>4 DEF Cached
<1>6. EntriesKept
  BY <1>4, <1>5 DEF EntriesKept
<1> QED BY <1>1, <1>2, <1>4, <1>5, <1>6

(* A field of a read is written. *)
LEMMA NoteIs ==
  ASSUME TypeOK, NEW w \in Worker, job[w] \in Read_,
         NEW field \in {"bytes", "stamp", "seen"}, NEW v, Note(w, field, v),
         field = "bytes" => v \in Seq(Nat),
         field \in {"stamp", "seen"} => v \in Nat
  PROVE  /\ job' \in [Worker -> Read_ \cup Charge_ \cup {NoJob}]
         /\ job'[w] \in Read_ /\ job'[w].file = job[w].file /\ job'[w].length = job[w].length
         /\ job'[w].want = job[w].want
         /\ job'[w].bytes = IF field = "bytes" THEN v ELSE job[w].bytes
         /\ job'[w].stamp = IF field = "stamp" THEN v ELSE job[w].stamp
         /\ job'[w].seen = IF field = "seen" THEN v ELSE job[w].seen
         /\ \A u \in Worker \ {w} : job'[u] = job[u]
<1>1. job'[w] = [job[w] EXCEPT ![field] = v] /\ \A u \in Worker \ {w} : job'[u] = job[u]
  BY DEF TypeOK, Note
<1>2. /\ job'[w] \in Read_ /\ job'[w].file = job[w].file /\ job'[w].length = job[w].length
      /\ job'[w].want = job[w].want
      /\ job'[w].bytes = IF field = "bytes" THEN v ELSE job[w].bytes
      /\ job'[w].stamp = IF field = "stamp" THEN v ELSE job[w].stamp
      /\ job'[w].seen = IF field = "seen" THEN v ELSE job[w].seen
  <2>1. CASE field = "bytes"
    BY <1>1, <2>1 DEF Read_
  <2>2. CASE field = "stamp"
    BY <1>1, <2>2 DEF Read_
  <2>3. CASE field = "seen"
    BY <1>1, <2>3 DEF Read_
  <2> QED BY <2>1, <2>2, <2>3
<1>3. job' \in [Worker -> Read_ \cup Charge_ \cup {NoJob}]
  BY <1>1, <1>2 DEF TypeOK, Note
<1> QED BY <1>1, <1>2, <1>3

(* A worker that gathers has a read. *)
LEMMA ReadOfTyped ==
  ASSUME TypeOK, DiskInv, NEW f \in File
  PROVE  /\ disk[f] \in Seq(Seq(Nat)) /\ Stamp(f) \in Nat /\ Stamp(f) >= 1
         /\ Now(f) \in Seq(Nat) /\ Len(Now(f)) \in Nat
         /\ \A i \in 1..Stamp(f) : disk[f][i] \in Seq(Nat) /\ Len(disk[f][i]) \in Nat
<1>1. disk[f] \in Seq(Seq(Nat))
  BY DEF TypeOK
<1>2. Len(disk[f]) \in Nat /\ Len(disk[f]) >= 1
  BY <1>1, LenProperties DEF DiskInv
<1>3. \A i \in 1..Len(disk[f]) : disk[f][i] \in Seq(Nat)
  BY <1>1, ElementOfSeq
<1>4. \A i \in 1..Len(disk[f]) : Len(disk[f][i]) \in Nat
  BY <1>3, LenProperties
<1> QED BY <1>1, <1>2, <1>3, <1>4 DEF Stamp, Now

(* The job of a worker ends without a lease for anybody. *)
LEMMA EndStep ==
  ASSUME IInv, NEW w \in Worker, End(w), lock' \in Worker \cup {NoOne},
         UNCHANGED <<disk, entries, order, leases, reads, decodes>>
  PROVE  IInv'
<1> USE DEF IInv
<1>1. /\ Quiet(w) /\ WorkerInv(w)' /\ job'[w].file = NoOne
      /\ pc' \in [Worker -> Labels]
      /\ job' \in [Worker -> Read_ \cup Charge_ \cup {NoJob}]
      /\ mine' \in [Worker -> SUBSET Lease_]
  BY EndIs
<1>2. TypeOK'
  BY <1>1 DEF TypeOK
<1>3. Held' \subseteq Held
  <2>1. mine' = [mine EXCEPT ![w] = {}] /\ leases' \subseteq leases \cup {}
    BY DEF End
  <2>2. Held' \subseteq Held \cup {} \cup {}
    BY <2>1, HeldAfter
  <2> QED BY <2>2
<1>4. EntriesKept /\ Distinct(order') /\ Cached' = Members(order')
  BY SameEntries
<1> QED BY <1>1, <1>2, <1>3, <1>4, QuietStep

(* The job of a worker ends with a lease h for its caller. *)
LEMMA GiveStep ==
  ASSUME IInv, NEW w \in Worker, NEW h \in Lease_, Fits(h), Give(w, h),
         disk' = disk, reads' = reads, decodes' \in Nat, lock' \in Worker \cup {NoOne},
         entries' \in [File -> Entry_ \cup {NoEntry}], order' \in Seq(File),
         EntriesKept, Distinct(order'), Cached' = Members(order')
  PROVE  IInv'
<1> USE DEF IInv
<1>0. End(w) /\ leases' = leases \cup {h}
  BY DEF Give
<1>1. /\ Quiet(w) /\ WorkerInv(w)' /\ job'[w].file = NoOne
      /\ pc' \in [Worker -> Labels]
      /\ job' \in [Worker -> Read_ \cup Charge_ \cup {NoJob}]
      /\ mine' \in [Worker -> SUBSET Lease_]
  BY <1>0, EndIs
<1>2. TypeOK'
  BY <1>0, <1>1 DEF TypeOK
<1>3. Held' \subseteq Held \cup {h}
  <2>1. mine' = [mine EXCEPT ![w] = {}] /\ leases' \subseteq leases \cup {h}
    BY <1>0 DEF End
  <2>2. Held' \subseteq Held \cup {} \cup {h}
    BY <2>1, HeldAfter
  <2> QED BY <2>2
<1> QED BY <1>1, <1>2, <1>3, WorkerStep

(* A worker moves on with the job it has. *)
LEMMA GotoStep ==
  ASSUME IInv, NEW w \in Worker, NEW l \in Labels, Goto(w, l), WorkerInv(w)',
         lock' \in Worker \cup {NoOne},
         UNCHANGED <<disk, entries, order, job, mine, leases, reads, decodes>>
  PROVE  IInv'
<1> USE DEF IInv
<1>1. pc' \in [Worker -> Labels] /\ Quiet(w)
  BY GotoIs DEF Quiet
<1>2. TypeOK'
  BY <1>1 DEF TypeOK
<1>3. Held' \subseteq Held
  BY SameHeld
<1>4. EntriesKept /\ Distinct(order') /\ Cached' = Members(order')
  BY SameEntries
<1>5. job'[w].file = job[w].file
  OBVIOUS
<1> QED BY <1>1, <1>2, <1>3, <1>4, <1>5, QuietStep

-----------------------------------------------------------------------------
(* One lemma per action: it keeps the invariant. *)

(* Open keeps the invariant: the file lock keeps the readers apart. *)
LEMMA OpenKeeps ==
  ASSUME IInv, NEW w \in Worker, NEW f \in File, NEW want \in {"bytes", "image"}, Open(w, f, want)
  PROVE  IInv' /\ Gentle(w) /\ pc'[w] \in {"loaded", "slot"}
<1> USE DEF IInv
<1> DEFINE j == [file |-> f, want |-> want, stamp |-> Stamp(f), length |-> Len(Now(f)),
                 bytes |-> <<>>, seen |-> 0]
<1>0. pc[w] = "idle" /\ Lookup(w, f, want) /\ DiskInv
  BY DEF Open, Contents
<1>1. j \in Read_ /\ Stamp(f) \in 1..Stamp(f)
  BY <1>0, ReadOfTyped, EmptySeq DEF Read_
<1>2. PICK k : k = j
  OBVIOUS
<1>3. /\ k.file = f /\ k.want = want /\ k.stamp = Stamp(f) /\ k.length = Len(Now(f))
      /\ k.bytes = <<>> /\ k.seen = 0 /\ k \in Read_
  BY <1>1, <1>2
<1>4. /\ job' = [job EXCEPT ![w] = k]
      /\ UNCHANGED <<disk, lock, leases, reads, decodes>>
  BY <1>0, <1>2 DEF Lookup
<1>5. /\ job' \in [Worker -> Read_ \cup Charge_ \cup {NoJob}] /\ job'[w] = k
      /\ \A u \in Worker \ {w} : job'[u] = job[u]
  BY <1>3, <1>4 DEF TypeOK
<1>6. \A u \in Worker : job[u].file # job'[w].file
  BY <1>5, <1>3 DEF Open
<1> HIDE DEF j
<1>7. CASE /\ f \in Cached
           /\ entries[f].source.stamp = Stamp(f)
           /\ order' = Touched(f)
           /\ Own(w, entries[f].source)
           /\ Goto(w, "loaded")
           /\ UNCHANGED entries
  <2>1. PICK s : s = entries[f].source
    OBVIOUS
  <2>2. s \in Source_ /\ s.file = f
    BY <1>7, <2>1, CachedTyped DEF EntryInv, Contents
  <2>3. PICK h : h = Lease("bytes", s, 0, 0)
    OBVIOUS
  <2>4. h \in Lease_ /\ h.kind = "bytes" /\ h.source = s
    BY <2>2, <2>3, LeaseIs DEF Kinds
  <2>5. /\ mine' = [mine EXCEPT ![w] = {h}]
        /\ mine' \in [Worker -> SUBSET Lease_] /\ mine'[w] = {h}
        /\ \A u \in Worker \ {w} : mine'[u] = mine[u]
    BY <1>7, <2>1, <2>3, <2>4 DEF Own, TypeOK
  <2>6. /\ pc' \in [Worker -> Labels] /\ pc'[w] = "loaded"
        /\ \A u \in Worker \ {w} : pc'[u] = pc[u]
    BY <1>7, GotoIs DEF Labels
  <2>7. order' \in Seq(File) /\ Distinct(order') /\ Members(order') = Cached \cup {f}
    BY <1>7, TouchedIs
  <2>8. TypeOK'
    BY <1>4, <1>5, <1>7, <2>5, <2>6, <2>7 DEF TypeOK
  <2>9. EntriesKept /\ Cached' = Cached
    BY <1>7, SameEntries
  <2>10. Held' \subseteq Held \cup {h}
    <3>1. leases' \subseteq leases \cup {}
      BY <1>4
    <3>2. Held' \subseteq Held \cup {h} \cup {}
      BY <3>1, <2>5, HeldAfter
    <3> QED BY <3>2
  <2>11. Fits(h)
    <3>1. s \in Sources
      BY <1>7, <2>1, Owners
    <3>2. s \in Slots
      BY <3>1, Owners
    <3> QED BY <3>1, <3>2, <2>4 DEF Fits
  <2>12. WorkerInv(w)'
    <3>1. LoadOf(w)'
      <4>1. s.file \in Cached' => entries'[s.file].source = s
        BY <1>7, <2>1, <2>2
      <4> QED BY <4>1, <1>3, <1>5, <2>2, <2>3, <2>5 DEF LoadOf
    <3> QED BY <3>1, <2>6 DEF WorkerInv, Gathers, Borrows, Filling
  <2>13. Quiet(w)
    BY <1>5, <2>5, <2>6 DEF Quiet
  <2>14. Cached' = Members(order')
    BY <1>7, <2>7, <2>9
  <2>15. IInv'
    BY <1>4, <1>6, <2>7, <2>8, <2>9, <2>10, <2>11, <2>12, <2>13, <2>14, WorkerStep
  <2>16. Gentle(w)
    BY <2>4, <2>9, <2>10, <2>11, <2>13 DEF Gentle
  <2> QED BY <2>6, <2>15, <2>16
<1>8. CASE Forget(f) /\ Goto(w, "slot") /\ UNCHANGED mine
  <2>1. /\ entries' \in [File -> Entry_ \cup {NoEntry}]
        /\ order' \in Seq(File)
        /\ EntriesKept
        /\ Distinct(order') /\ Cached' = Members(order')
    BY <1>8, ForgetIs
  <2>2. /\ pc' \in [Worker -> Labels] /\ pc'[w] = "slot"
        /\ \A u \in Worker \ {w} : pc'[u] = pc[u]
    BY <1>8, GotoIs DEF Labels
  <2>3. TypeOK'
    BY <1>4, <1>5, <1>8, <2>1, <2>2 DEF TypeOK
  <2>4. Held' \subseteq Held
    BY <1>4, <1>8, SameHeld
  <2>5. mine'[w] = {}
    BY <1>0, <1>8 DEF JobInv, WorkerInv
  <2>6. ReadOf(w)'
    BY <1>1, <1>3, <1>4, <1>5, <2>5 DEF ReadOf, Stamp, Now
  <2>7. ChunksOf(w)'
    BY <1>3, <1>5, <2>2 DEF ChunksOf
  <2>8. WorkerInv(w)'
    BY <2>2, <2>6, <2>7 DEF WorkerInv, Loads, Borrows
  <2>9. Quiet(w)
    BY <1>5, <1>8, <2>2 DEF Quiet
  <2>10. IInv'
    BY <1>4, <1>6, <2>1, <2>3, <2>4, <2>8, <2>9, QuietStep
  <2>11. Gentle(w)
    BY <2>1, <2>4, <2>9 DEF Gentle
  <2> QED BY <2>2, <2>10, <2>11
<1> QED BY <1>0, <1>7, <1>8 DEF Lookup

(* Evict keeps the invariant. *)
LEMMA EvictKeeps ==
  ASSUME IInv, NEW w \in Worker, Evict(w)
  PROVE  IInv'
<1> USE DEF IInv
<1> DEFINE f == Oldest(Evictable(Cached))
<1>1. /\ Forget(f) /\ lock' = w
      /\ UNCHANGED <<disk, pc, job, mine, leases, reads, decodes>>
  BY DEF Evict
<1> HIDE DEF f
<1>2. /\ entries' \in [File -> Entry_ \cup {NoEntry}]
      /\ order' \in Seq(File)
      /\ EntriesKept
      /\ Distinct(order') /\ Cached' = Members(order')
      /\ \A g \in Cached' : g \in Cached /\ entries'[g] = entries[g]
  BY <1>1, ForgetIs
<1>3. TypeOK'
  BY <1>1, <1>2 DEF TypeOK
<1>4. Held' \subseteq Held
  BY <1>1, SameHeld
<1>5. Quiet(w)
  BY <1>1 DEF Quiet
<1>6. WorkerInv(w)'
  BY <1>1, <1>2, StillWorks
<1> QED BY <1>1, <1>2, <1>3, <1>4, <1>5, <1>6, QuietStep

(* Refuse keeps the invariant. *)
LEMMA RefuseKeeps ==
  ASSUME IInv, NEW w \in Worker, Refuse(w)
  PROVE  IInv'
<1>1. End(w) /\ lock' = NoOne /\ UNCHANGED <<disk, entries, order, leases, reads, decodes>>
  BY DEF Refuse
<1> QED BY <1>1, EndStep

(* What a worker that gathers, loads or borrows has. *)
LEMMA Gathering ==
  ASSUME IInv, NEW w \in Worker, pc[w] \in Gathers
  PROVE  /\ ReadOf(w) /\ ChunksOf(w) /\ job[w] \in Read_ /\ mine[w] = {}
         /\ job[w].file \in File /\ job[w].length \in Nat /\ job[w].bytes \in Seq(Nat)
         /\ Len(job[w].bytes) \in Nat
         /\ job[w].seen \in Nat /\ job[w].stamp \in 1..Stamp(job[w].file)
<1>1. ReadOf(w) /\ ChunksOf(w)
  BY DEF IInv, JobInv, WorkerInv
<1>2. job[w] \in Read_ /\ mine[w] = {} /\ job[w].stamp \in 1..Stamp(job[w].file)
  BY <1>1 DEF ReadOf
<1> QED BY <1>1, <1>2, ReadTyped, LenProperties

(* A worker that loads owns its bytes. *)
LEMMA Loading ==
  ASSUME IInv, NEW w \in Worker, pc[w] \in Loads
  PROVE  /\ LoadOf(w) /\ job[w] \in Read_
         /\ Source(w) \in Source_ /\ mine[w] = {Lease("bytes", Source(w), 0, 0)}
         /\ Source(w).file = job[w].file /\ Source(w).file \in File
         /\ Source(w).file \in Cached => entries[Source(w).file].source = Source(w)
         /\ Lease("bytes", Source(w), 0, 0) \in Held
         /\ Source(w) \in Sources /\ Source(w) \in Slots
<1>1. LoadOf(w)
  BY DEF IInv, JobInv, WorkerInv
<1>2. PICK s \in Source_ : /\ mine[w] = {Lease("bytes", s, 0, 0)}
                           /\ s.file = job[w].file
                           /\ s.file \in Cached => entries[s.file].source = s
  BY <1>1 DEF LoadOf
<1>3. PICK h : h = Lease("bytes", s, 0, 0)
  OBVIOUS
<1>4. h.source = s /\ h.kind = "bytes"
  BY <1>3, LeaseIs DEF Kinds
<1>5. Source(w) = s
  BY <1>2, <1>3, <1>4 DEF Source
<1>6. h \in Held
  BY <1>2, <1>3, HeldTyped DEF IInv
<1>7. s \in Sources /\ s \in Slots
  <2>1. s \in HeldBytes
    BY <1>4, <1>6, Owners DEF IInv
  <2>2. s \in Sources
    BY <2>1, Owners DEF IInv
  <2> QED BY <2>2, Owners DEF IInv
<1>8. s.file \in File
  BY DEF Source_
<1>9. job[w] \in Read_
  BY <1>1 DEF LoadOf
<1> QED BY <1>1, <1>2, <1>3, <1>5, <1>6, <1>7, <1>8, <1>9

(* Admit keeps the invariant. *)
LEMMA AdmitKeeps ==
  ASSUME IInv, NEW w \in Worker, Admit(w)
  PROVE  IInv'
<1> USE DEF IInv
<1>1. lock' = NoOne /\ UNCHANGED <<disk, entries, order, reads, decodes>>
  BY DEF Admit
<1>2. CASE pc[w] = "slot" /\ Goto(w, "encoded") /\ UNCHANGED <<job, mine, leases>>
  <2>1. ReadOf(w) /\ ChunksOf(w)
    BY <1>2, Gathering DEF Gathers
  <2>2. pc'[w] = "encoded"
    BY <1>2, GotoIs DEF Labels
  <2>3. ReadOf(w)'
    BY <1>1, <1>2, <2>1 DEF ReadOf, Stamp
  <2>4. ChunksOf(w)'
    BY <1>1, <1>2, <2>1, <2>2 DEF ChunksOf
  <2>5. WorkerInv(w)'
    BY <2>2, <2>3, <2>4 DEF WorkerInv, Loads, Borrows
  <2> QED BY <1>1, <1>2, <2>5, GotoStep DEF Labels
<1>3. CASE pc[w] = "encoded" /\ Goto(w, NextChunk(w, 0)) /\ UNCHANGED <<job, mine, leases>>
  <2>1. /\ ReadOf(w) /\ ChunksOf(w) /\ job[w].bytes = <<>> /\ job[w].seen = 0
        /\ job[w].length \in Nat
    BY <1>3, Gathering DEF Gathers, ChunksOf
  <2>2. PICK l : l = NextChunk(w, 0)
    OBVIOUS
  <2>3. l \in {"read", "stamp"} /\ (l = "stamp" <=> job[w].length = 0)
    BY <2>2 DEF NextChunk
  <2>4. pc'[w] = l
    BY <1>3, <2>2, <2>3, GotoIs DEF Labels
  <2>5. ReadOf(w)'
    BY <1>1, <1>3, <2>1 DEF ReadOf, Stamp
  <2>6. ChunksOf(w)'
    <3>1. /\ Len(job'[w].bytes) = 0 /\ job'[w].bytes = <<>> /\ job'[w].length = job[w].length
          /\ job'[w].seen = 0
      BY <2>1, <1>3, EmptySeq
    <3> QED BY <2>1, <2>3, <2>4, <3>1 DEF ChunksOf
  <2>7. WorkerInv(w)'
    BY <2>3, <2>4, <2>5, <2>6 DEF WorkerInv, Loads, Borrows
  <2> QED BY <1>1, <1>3, <2>2, <2>3, <2>7, GotoStep DEF Labels
<1>4. CASE pc[w] = "decode" /\ Goto(w, "decoding") /\ UNCHANGED <<job, mine, leases>>
  <2>1. LoadOf(w)
    BY <1>4, Loading DEF Loads
  <2>2. pc'[w] = "decoding"
    BY <1>4, GotoIs DEF Labels
  <2>3. LoadOf(w)'
    BY <1>1, <1>4, <2>1 DEF LoadOf, Cached
  <2>4. WorkerInv(w)'
    BY <2>2, <2>3 DEF WorkerInv, Gathers, Borrows, Filling
  <2> QED BY <1>1, <1>4, <2>4, GotoStep DEF Labels
<1>5. CASE /\ pc[w] = "derive"
           /\ \E h \in mine[w] : \E i \in Fresh("derived", h.source) :
                Give(w, Lease("derived", h.source, h.image, i))
  <2>1. PICK h \in mine[w], i \in 1..MaxLeases : Give(w, Lease("derived", h.source, h.image, i))
    BY <1>5 DEF Fresh
  <2>2. PICK n : n = Lease("derived", h.source, h.image, i)
    OBVIOUS
  <2>3. h \in Held /\ h \in Lease_ /\ h.source \in Source_ /\ h.image \in Nat /\ i \in Nat
    BY <2>1, HeldTyped, LeaseTyped
  <2>4. n \in Lease_ /\ n.kind = "derived" /\ n.source = h.source
    BY <2>2, <2>3, LeaseIs DEF Kinds
  <2>5. Fits(n)
    BY <2>3, <2>4, Owners DEF Fits
  <2>6. EntriesKept /\ Distinct(order') /\ Cached' = Members(order')
    BY <1>1, SameEntries
  <2> QED BY <1>1, <2>1, <2>2, <2>4, <2>5, <2>6, GiveStep DEF TypeOK
<1> QED BY <1>2, <1>3, <1>4, <1>5 DEF Admit

(* A worker notes something in its read, and moves on. *)
LEMMA ReadStep ==
  ASSUME IInv, NEW w \in Worker, pc[w] \in Gathers,
         pc' \in [Worker -> Labels], \A u \in Worker \ {w} : pc'[u] = pc[u],
         job' \in [Worker -> Read_ \cup Charge_ \cup {NoJob}],
         \A u \in Worker \ {w} : job'[u] = job[u], job'[w].file = job[w].file,
         pc'[w] \in Gathers, ReadOf(w)', ChunksOf(w)',
         UNCHANGED <<disk, entries, order, lock, mine, leases, reads, decodes>>
  PROVE  IInv'
<1> USE DEF IInv
<1>1. TypeOK'
  BY DEF TypeOK
<1>2. WorkerInv(w)'
  <2>1. pc'[w] \in Labels
    OBVIOUS
  <2>2. pc'[w] \notin Loads /\ pc'[w] \notin Borrows
    BY <2>1, LabelsApart
  <2> QED BY <2>2 DEF WorkerInv, Borrows
<1>3. Quiet(w)
  BY DEF Quiet
<1>4. Held' \subseteq Held
  BY SameHeld
<1>5. EntriesKept /\ Distinct(order') /\ Cached' = Members(order')
  BY SameEntries
<1> QED BY <1>1, <1>2, <1>3, <1>4, <1>5, QuietStep

(* A failed read keeps the invariant. *)
LEMMA FailKeeps ==
  ASSUME IInv, NEW w \in Worker, Fail(w)
  PROVE  IInv'
<1>1. End(w) /\ UNCHANGED <<disk, entries, order, lock, leases, reads, decodes>>
  BY DEF Fail
<1> QED BY <1>1, EndStep DEF IInv, TypeOK

(* A chunk is what the file holds while its stamp is the one the read      *)
(* began with.                                                             *)
LEMMA ReadChunkKeeps ==
  ASSUME IInv, NEW w \in Worker, ReadChunk(w)
  PROVE  IInv'
<1> DEFINE i == Len(job[w].bytes) + 1
           f == job[w].file
<1>1. pc[w] = "read" /\ pc[w] \in Gathers
  BY DEF ReadChunk, Gathers, Filling
<1>2. /\ ReadOf(w) /\ ChunksOf(w) /\ job[w] \in Read_ /\ mine[w] = {}
      /\ f \in File /\ job[w].length \in Nat /\ job[w].bytes \in Seq(Nat)
      /\ Len(job[w].bytes) \in Nat
      /\ job[w].seen \in Nat /\ job[w].stamp \in 1..Stamp(f)
  BY <1>1, Gathering
<1>3. /\ disk[f] \in Seq(Seq(Nat)) /\ Now(f) \in Seq(Nat) /\ Len(Now(f)) \in Nat /\ Stamp(f) \in Nat
  BY <1>2, ReadOfTyped DEF IInv, Contents
<1>4. CASE /\ i <= Len(Now(f))
           /\ Note(w, "bytes", Append(job[w].bytes, Now(f)[i]))
           /\ Goto(w, NextChunk(w, i))
           /\ UNCHANGED <<disk, entries, order, lock, mine, leases, reads, decodes>>
  <2>1. PICK b : b = Append(job[w].bytes, Now(f)[i])
    OBVIOUS
  <2>2. Now(f)[i] \in Nat
    BY <1>2, <1>3, <1>4, ElementOfSeq
  <2>3. /\ b \in Seq(Nat) /\ Len(b) = i
        /\ \A k \in 1..Len(job[w].bytes) : b[k] = job[w].bytes[k]
        /\ b[i] = Now(f)[i]
    BY <1>2, <2>1, <2>2, AppendProperties
  <2>4. /\ job' \in [Worker -> Read_ \cup Charge_ \cup {NoJob}]
        /\ job'[w] \in Read_ /\ job'[w].file = f /\ job'[w].length = job[w].length
        /\ job'[w].bytes = b /\ job'[w].stamp = job[w].stamp /\ job'[w].seen = job[w].seen
        /\ \A u \in Worker \ {w} : job'[u] = job[u]
    <3>1. Note(w, "bytes", b)
      BY <1>4, <2>1
    <3> QED BY <3>1, <2>3, <1>2, NoteIs DEF IInv
  <2>5. PICK l : l = NextChunk(w, i)
    OBVIOUS
  <2>6. l \in {"read", "stamp"} /\ (l = "stamp" <=> job[w].length = i)
    BY <2>5 DEF NextChunk
  <2>7. /\ pc' \in [Worker -> Labels] /\ pc'[w] = l
        /\ \A u \in Worker \ {w} : pc'[u] = pc[u]
    BY <1>4, <2>5, <2>6, GotoIs DEF Labels, IInv
  <2>8. ReadOf(w)'
    BY <1>2, <1>4, <2>4 DEF ReadOf, Stamp
  <2>9. disk' = disk
    BY <1>4
  <2>10. ChunksOf(w)'
    <3>1. pc'[w] = "read" => Len(b) < job[w].length
      <4>1. Len(job[w].bytes) < job[w].length
        BY <1>1, <1>2 DEF ChunksOf
      <4> QED BY <4>1, <1>2, <2>3, <2>6, <2>7
    <3>2. Stamp(f) = job[w].stamp => \A k \in 1..Len(b) : b[k] = Now(f)[k]
      <4>1. Stamp(f) = job[w].stamp => \A k \in 1..Len(job[w].bytes) : job[w].bytes[k] = Now(f)[k]
        BY <1>1, <1>2 DEF ChunksOf
      <4>2. \A k \in 1..Len(b) : k \in 1..Len(job[w].bytes) \/ k = i
        BY <2>3, <1>2
      <4> QED BY <4>1, <4>2, <2>3
    <3>3. pc'[w] = "stamp" => Len(b) = job[w].length
      BY <2>3, <2>6, <2>7
    <3>4. job[w].seen = 0
      BY <1>1, <1>2 DEF ChunksOf
    <3>5. pc'[w] \notin {"verify", "insert", "slot", "encoded"}
      BY <2>6, <2>7
    <3> QED BY <3>1, <3>2, <3>3, <3>4, <3>5, <2>4, <2>9 DEF ChunksOf, Stamp, Now
  <2>11. pc'[w] \in Gathers
    BY <2>6, <2>7 DEF Gathers, Filling
  <2> QED BY <1>1, <1>2, <1>4, <2>4, <2>7, <2>8, <2>10, <2>11, ReadStep
<1>5. CASE Fail(w)
  BY <1>5, FailKeeps
<1> QED BY <1>4, <1>5 DEF ReadChunk

(* Bytes that agree with what the file held are that. *)
LEMMA WholeContent ==
  ASSUME IInv, NEW w \in Worker, pc[w] \in Gathers, Len(job[w].bytes) = job[w].length,
         \A k \in 1..job[w].length : job[w].bytes[k] = disk[job[w].file][job[w].stamp][k]
  PROVE  job[w].bytes = disk[job[w].file][job[w].stamp]
<1>1. /\ ReadOf(w) /\ job[w].file \in File /\ job[w].bytes \in Seq(Nat)
      /\ job[w].stamp \in 1..Stamp(job[w].file)
  BY Gathering
<1>2. disk[job[w].file][job[w].stamp] \in Seq(Nat)
  BY <1>1, ReadOfTyped DEF IInv, Contents
<1>3. job[w].length = Len(disk[job[w].file][job[w].stamp])
  BY <1>1 DEF ReadOf
<1> QED BY <1>1, <1>2, <1>3, SeqEqual

(* CheckStamp keeps the invariant. *)
LEMMA CheckStampKeeps ==
  ASSUME IInv, NEW w \in Worker, CheckStamp(w)
  PROVE  IInv'
<1> DEFINE f == job[w].file
           rest == <<disk, entries, order, lock, mine, leases, reads, decodes>>
<1>1. pc[w] = "stamp" /\ pc[w] \in Gathers
  BY DEF CheckStamp, Gathers, Filling
<1>2. /\ ReadOf(w) /\ ChunksOf(w) /\ job[w] \in Read_ /\ mine[w] = {}
      /\ f \in File /\ job[w].length \in Nat /\ job[w].bytes \in Seq(Nat)
      /\ job[w].stamp \in 1..Stamp(f)
      /\ Len(job[w].bytes) = job[w].length /\ job[w].seen = 0
  BY <1>1, Gathering DEF ChunksOf
<1>3. Stamp(f) \in Nat /\ Stamp(f) >= 1
  BY <1>2, ReadOfTyped DEF IInv, Contents
<1>4. CASE Stamp(f) = job[w].stamp /\ Goto(w, "insert") /\ UNCHANGED <<rest, job>>
  <2>1. /\ pc' \in [Worker -> Labels] /\ pc'[w] = "insert"
        /\ \A u \in Worker \ {w} : pc'[u] = pc[u]
    BY <1>4, GotoIs DEF Labels, IInv
  <2>2. job[w].bytes = disk[f][job[w].stamp]
    <3>1. \A k \in 1..job[w].length : job[w].bytes[k] = disk[f][job[w].stamp][k]
      BY <1>1, <1>2, <1>4 DEF ChunksOf, Now
    <3> QED BY <3>1, <1>1, <1>2, WholeContent
  <2>3. ReadOf(w)'
    BY <1>2, <1>4 DEF ReadOf, Stamp
  <2>4. ChunksOf(w)'
    BY <1>4, <2>1, <2>2 DEF ChunksOf
  <2>5. pc'[w] \in Gathers
    BY <2>1 DEF Gathers, Filling
  <2> QED BY <1>1, <1>4, <2>1, <2>3, <2>4, <2>5, ReadStep DEF IInv, TypeOK
<1>5. CASE /\ Stamp(f) # job[w].stamp
           /\ Len(Now(f)) = job[w].length
           /\ Note(w, "stamp", Stamp(f))
           /\ Goto(w, "verify")
           /\ UNCHANGED rest
  <2>1. /\ pc' \in [Worker -> Labels] /\ pc'[w] = "verify"
        /\ \A u \in Worker \ {w} : pc'[u] = pc[u]
    BY <1>5, GotoIs DEF Labels, IInv
  <2>2. /\ job' \in [Worker -> Read_ \cup Charge_ \cup {NoJob}]
        /\ job'[w] \in Read_ /\ job'[w].file = f /\ job'[w].length = job[w].length
        /\ job'[w].bytes = job[w].bytes /\ job'[w].stamp = Stamp(f) /\ job'[w].seen = job[w].seen
        /\ \A u \in Worker \ {w} : job'[u] = job[u]
    BY <1>2, <1>3, <1>5, NoteIs DEF IInv
  <2>3. ReadOf(w)'
    <3>1. mine'[w] = {} /\ disk' = disk /\ Stamp(f) \in 1..Stamp(f)
      BY <1>2, <1>3, <1>5
    <3>2. job[w].length = Len(disk'[f][Stamp(f)])
      BY <1>5 DEF Now
    <3> QED BY <2>2, <3>1, <3>2 DEF ReadOf, Stamp
  <2>4. ChunksOf(w)'
    BY <1>2, <2>1, <2>2 DEF ChunksOf
  <2>5. pc'[w] \in Gathers
    BY <2>1 DEF Gathers, Filling
  <2> QED BY <1>1, <1>2, <1>5, <2>1, <2>2, <2>3, <2>4, <2>5, ReadStep
<1>6. CASE Fail(w)
  BY <1>6, FailKeeps
<1> QED BY <1>4, <1>5, <1>6 DEF CheckStamp

(* A verified chunk agrees with what the file holds while the stamp is the *)
(* same.                                                                   *)
LEMMA VerifyChunkKeeps ==
  ASSUME IInv, NEW w \in Worker, VerifyChunk(w)
  PROVE  IInv'
<1> DEFINE f == job[w].file
<1>1. pc[w] = "verify" /\ pc[w] \in Gathers /\ job[w].seen < job[w].length
  BY DEF VerifyChunk, Gathers, Filling
<1>2. /\ ReadOf(w) /\ ChunksOf(w) /\ job[w] \in Read_ /\ mine[w] = {}
      /\ f \in File /\ job[w].length \in Nat /\ job[w].bytes \in Seq(Nat)
      /\ job[w].stamp \in 1..Stamp(f)
      /\ Len(job[w].bytes) = job[w].length /\ job[w].seen \in Nat
  BY <1>1, Gathering DEF ChunksOf
<1>3. CASE /\ Same(w)
           /\ Note(w, "seen", job[w].seen + 1)
           /\ UNCHANGED <<disk, entries, order, lock, pc, mine, leases, reads, decodes>>
  <2>1. PICK n \in Nat : n = job[w].seen + 1
    BY <1>2
  <2>2. /\ job' \in [Worker -> Read_ \cup Charge_ \cup {NoJob}]
        /\ job'[w] \in Read_ /\ job'[w].file = f /\ job'[w].length = job[w].length
        /\ job'[w].bytes = job[w].bytes /\ job'[w].stamp = job[w].stamp /\ job'[w].seen = n
        /\ \A u \in Worker \ {w} : job'[u] = job[u]
    <3>1. Note(w, "seen", n)
      BY <1>3, <2>1
    <3> QED BY <3>1, <1>2, NoteIs DEF IInv
  <2>3. ReadOf(w)'
    BY <1>2, <1>3, <2>2 DEF ReadOf, Stamp
  <2>4. ChunksOf(w)'
    <3>1. n \in 0..job[w].length
      BY <2>1, <1>1, <1>2
    <3>2. Stamp(f) = job[w].stamp => \A k \in 1..n : job[w].bytes[k] = Now(f)[k]
      <4>1. Stamp(f) = job[w].stamp => \A k \in 1..job[w].seen : job[w].bytes[k] = Now(f)[k]
        BY <1>1, <1>2 DEF ChunksOf
      <4>2. Now(f)[n] = job[w].bytes[n]
        BY <1>3, <2>1 DEF Same
      <4>3. \A k \in 1..n : k \in 1..job[w].seen \/ k = n
        BY <1>2, <2>1
      <4> QED BY <4>1, <4>2, <4>3
    <3>3. disk' = disk /\ pc'[w] = "verify"
      BY <1>1, <1>3
    <3> QED BY <3>1, <3>2, <3>3, <2>2, <1>2 DEF ChunksOf, Stamp, Now
  <2>5. pc' \in [Worker -> Labels] /\ pc'[w] \in Gathers
    BY <1>1, <1>3 DEF IInv, TypeOK
  <2> QED BY <1>1, <1>3, <2>2, <2>3, <2>4, <2>5, ReadStep
<1>4. CASE Fail(w)
  BY <1>4, FailKeeps
<1> QED BY <1>3, <1>4 DEF VerifyChunk

(* VerifyStamp: with the same stamp the whole of the bytes is the content  *)
(* of it.                                                                  *)
LEMMA VerifyStampKeeps ==
  ASSUME IInv, NEW w \in Worker, VerifyStamp(w)
  PROVE  IInv'
<1> DEFINE f == job[w].file
<1>1. pc[w] = "verify" /\ pc[w] \in Gathers /\ job[w].seen = job[w].length
  BY DEF VerifyStamp, Gathers, Filling
<1>2. ReadOf(w) /\ ChunksOf(w) /\ Len(job[w].bytes) = job[w].length
  BY <1>1, Gathering DEF ChunksOf
<1>3. CASE /\ Stamp(f) = job[w].stamp
           /\ Goto(w, "insert")
           /\ UNCHANGED <<disk, entries, order, lock, job, mine, leases, reads, decodes>>
  <2>1. /\ pc' \in [Worker -> Labels] /\ pc'[w] = "insert"
        /\ \A u \in Worker \ {w} : pc'[u] = pc[u]
    BY <1>3, GotoIs DEF Labels, IInv
  <2>2. job[w].bytes = disk[f][job[w].stamp]
    <3>1. \A k \in 1..job[w].length : job[w].bytes[k] = disk[f][job[w].stamp][k]
      BY <1>1, <1>2, <1>3 DEF ChunksOf, Now
    <3> QED BY <3>1, <1>1, <1>2, WholeContent
  <2>3. ReadOf(w)'
    BY <1>2, <1>3 DEF ReadOf, Stamp
  <2>4. ChunksOf(w)'
    BY <1>3, <2>1, <2>2 DEF ChunksOf
  <2>5. pc'[w] \in Gathers
    BY <2>1 DEF Gathers, Filling
  <2> QED BY <1>1, <1>3, <2>1, <2>3, <2>4, <2>5, ReadStep DEF IInv, TypeOK
<1>4. CASE Fail(w)
  BY <1>4, FailKeeps
<1> QED BY <1>3, <1>4 DEF VerifyStamp

(* What the sets of owners can become when the sources S and the rasters R *)
(* are new.                                                                *)
EntriesWithin(S, R) ==
  \A f \in Cached' :
     /\ entries'[f].source \in Sources \cup S
     /\ entries'[f].image # 0 => <<entries'[f].origin, entries'[f].image>> \in Rasters \cup R
HeldWithin(S, R) ==
  \A h \in Held' :
     \/ h \in Held
     \/ /\ h.source \in Slots \cup S
        /\ h.kind \in {"bytes", "image"} => h.source \in Sources \cup S
        /\ h.kind \in {"image", "pixels"} => <<h.source, h.image>> \in Rasters \cup R
OwnersWithin(S, R) == /\ Slots' \subseteq Slots \cup S
                      /\ Sources' \subseteq Sources \cup S
                      /\ Rasters' \subseteq Rasters \cup R
LEMMA Grown ==
  ASSUME TypeOK, TypeOK', NEW S, NEW R, \A r \in R : r[1] \in Slots \cup S,
         EntriesWithin(S, R), HeldWithin(S, R)
  PROVE  OwnersWithin(S, R)
<1> USE DEF EntriesWithin, HeldWithin, OwnersWithin
<1>0. \A h \in Held' :
        /\ h.source \in Slots \cup S
        /\ h.kind \in {"bytes", "image"} => h.source \in Sources \cup S
        /\ h.kind \in {"image", "pixels"} => <<h.source, h.image>> \in Rasters \cup R
  BY HeldFits DEF Fits
<1>1. \A s \in HeldBytes' : s \in Sources \cup S
  BY <1>0 DEF HeldBytes
<1>2. \A r \in HeldPixels' : r \in Rasters \cup R
  BY <1>0 DEF HeldPixels
<1>3. \A s \in Sources' : s \in Sources \cup S
  <2> TAKE s \in Sources'
  <2>1. s \in HeldBytes' \/ \E f \in Cached' : s = entries'[f].source
    BY DEF Sources
  <2> QED BY <2>1, <1>1
<1>4. \A r \in Rasters' : r \in Rasters \cup R
  <2> TAKE r \in Rasters'
  <2>1. \/ r \in HeldPixels'
        \/ \E f \in Cached' : entries'[f].image # 0 /\ r = <<entries'[f].origin, entries'[f].image>>
    BY DEF Rasters
  <2> QED BY <2>1, <1>2
<1>5. \A s \in Slots' : s \in Slots \cup S
  <2> TAKE s \in Slots'
  <2>1. CASE s \in Sources'
    BY <2>1, <1>3, Owners
  <2>2. CASE \E h \in Held' : h.source = s
    BY <2>2, <1>0
  <2>3. CASE \E r \in Rasters' : r[1] = s
    BY <2>3, <1>4, Owners
  <2> QED BY <2>1, <2>2, <2>3 DEF Slots
<1> QED BY <1>3, <1>4, <1>5

(* InsertBytes keeps the invariant: the new source is faithful and its     *)
(* generation new.                                                         *)
LEMMA InsertBytesKeeps ==
  ASSUME IInv, NEW w \in Worker, InsertBytes(w)
  PROVE  /\ IInv' /\ Quiet(w) /\ pc[w] = "insert" /\ pc'[w] = "loaded"
         /\ \E s \in Source_ : /\ Sources' \subseteq Sources \cup {s}
                              /\ Slots' \subseteq Slots \cup {s}
                              /\ Len(s.content) = job[w].length
         /\ Rasters' \subseteq Rasters
         /\ \A x \in Held' : x \in Held \/ x.kind = "bytes"
<1> USE DEF IInv
<1> DEFINE f == job[w].file
           new == [file |-> f, stamp |-> job[w].stamp, generation |-> reads + 1,
                   content |-> job[w].bytes]
<1>1. pc[w] = "insert" /\ pc[w] \in Gathers
  BY DEF InsertBytes, Gathers, Filling
<1>2. /\ ReadOf(w) /\ job[w] \in Read_ /\ mine[w] = {}
      /\ f \in File /\ job[w].bytes \in Seq(Nat) /\ job[w].stamp \in 1..Stamp(f)
      /\ job[w].bytes = disk[f][job[w].stamp] /\ job[w].stamp \in Nat
  BY <1>1, Gathering, ReadTyped DEF ChunksOf
<1>3. PICK s : s = new
  OBVIOUS
<1>4. /\ s.file = f /\ s.stamp = job[w].stamp /\ s.generation = reads + 1
      /\ s.content = job[w].bytes /\ s \in Source_
  BY <1>2, <1>3 DEF Source_, TypeOK
<1>5. PICK e : e = [source |-> s, origin |-> s, image |-> 0]
  OBVIOUS
<1>6. e.source = s /\ e.origin = s /\ e.image = 0 /\ e \in Entry_
  BY <1>4, <1>5 DEF Entry_
<1>7. PICK h : h = Lease("bytes", s, 0, 0)
  OBVIOUS
<1>8. h \in Lease_ /\ h.kind = "bytes" /\ h.source = s
  BY <1>4, <1>7, LeaseIs DEF Kinds
<1>9. /\ reads' = reads + 1 /\ entries' = [entries EXCEPT ![f] = e] /\ order' = Touched(f)
      /\ Own(w, s) /\ Goto(w, "loaded") /\ UNCHANGED <<disk, lock, job, leases, decodes>>
  BY <1>3, <1>5 DEF InsertBytes
<1> HIDE DEF f, new
<1>10. /\ mine' = [mine EXCEPT ![w] = {h}]
       /\ mine' \in [Worker -> SUBSET Lease_] /\ mine'[w] = {h}
       /\ \A u \in Worker \ {w} : mine'[u] = mine[u]
  BY <1>7, <1>8, <1>9 DEF Own, TypeOK
<1>11. /\ pc' \in [Worker -> Labels] /\ pc'[w] = "loaded"
       /\ \A u \in Worker \ {w} : pc'[u] = pc[u]
  BY <1>9, GotoIs DEF Labels
<1>12. order' \in Seq(File) /\ Distinct(order') /\ Members(order') = Cached \cup {f}
  BY <1>2, <1>9, TouchedIs
<1>13. TypeOK'
  <2>1. entries' \in [File -> Entry_ \cup {NoEntry}]
    BY <1>6, <1>9 DEF TypeOK
  <2>2. reads' \in Nat /\ decodes' \in Nat
    BY <1>9 DEF TypeOK
  <2> QED BY <1>9, <1>10, <1>11, <1>12, <2>1, <2>2 DEF TypeOK
<1>14. \A g \in File : entries'[g] = IF g = f THEN e ELSE entries[g]
  BY <1>9 DEF TypeOK
<1>15. e # NoEntry => Cached' = Cached \cup {f}
  BY <1>2, <1>14 DEF Cached
<1>16. e # NoEntry
  BY <1>6, CacheAssumption
<1>17. \A g \in Cached' : (g = f /\ entries'[g] = e) \/ (g \in Cached /\ entries'[g] = entries[g])
  BY <1>14, <1>15, <1>16 DEF Cached
<1>18. Held' \subseteq Held \cup {h}
  <2>1. leases' \subseteq leases \cup {}
    BY <1>9
  <2>2. Held' \subseteq Held \cup {h} \cup {}
    BY <2>1, <1>10, HeldAfter
  <2> QED BY <2>2
<1>19. Slots' \subseteq Slots \cup {s} /\ Sources' \subseteq Sources \cup {s} /\ Rasters' \subseteq Rasters
  <2> DEFINE S == {s}
             R == {}
  <2>1. \A r \in R : r[1] \in Slots \cup S
    OBVIOUS
  <2>2. \A g \in Cached' :
            /\ entries'[g].source \in Sources \cup S
            /\ entries'[g].image # 0 => <<entries'[g].origin, entries'[g].image>> \in Rasters \cup R
    BY <1>17, <1>6, Owners
  <2>3. \A x \in Held' :
            \/ x \in Held
            \/ /\ x.source \in Slots \cup S
               /\ x.kind \in {"bytes", "image"} => x.source \in Sources \cup S
               /\ x.kind \in {"image", "pixels"} => <<x.source, x.image>> \in Rasters \cup R
    BY <1>18, <1>8
  <2>4. EntriesWithin(S, R)
    BY <2>2 DEF EntriesWithin
  <2>5. HeldWithin(S, R)
    BY <2>3 DEF HeldWithin
  <2> HIDE DEF S, R
  <2>6. OwnersWithin(S, R)
    BY <1>13, <2>1, <2>4, <2>5, Grown
  <2> QED BY <2>6 DEF S, R, OwnersWithin
<1>31. Slots' \subseteq Slots \cup {s}
  BY <1>19
<1>20. DiskKept
  BY <1>9 DEF DiskKept, Contents, DiskInv, TypeOK
<1>21. Contents'
  <2>1. \A t \in Slots : Faithful(t)'
    <3>1. reads <= reads'
      BY <1>9 DEF TypeOK
    <3> QED BY <1>13, <1>20, <3>1, FaithfulKept DEF Contents
  <2>2. Faithful(s)'
    BY <1>2, <1>4, <1>9 DEF Faithful, TypeOK, Stamp
  <2>3. SlotInv'
    BY <1>31, <2>1, <2>2 DEF SlotInv
  <2>4. \A t \in Slots : t.generation \in 1..reads
    BY DEF Contents, SlotInv, Faithful
  <2>5. GenerationInv'
    <3>1. \A t \in Slots : t.generation # s.generation
      BY <1>4, <2>4 DEF TypeOK
    <3>2. GenerationInv
      BY DEF Contents
    <3> QED BY <1>31, <3>1, <3>2 DEF GenerationInv
  <2>6. EntryInv'
    BY <1>17, <1>6, <1>4 DEF EntryInv, Contents
  <2>7. DiskInv'
    BY <1>9 DEF DiskInv, Contents
  <2> QED BY <2>3, <2>5, <2>6, <2>7 DEF Contents
<1>22. OrderInv'
  BY <1>12, <1>15, <1>16 DEF OrderInv, Distinct, Members
<1>23. Quiet(w)
  BY <1>9, <1>10, <1>11 DEF Quiet
<1>24. WorkerInv(w)'
  <2>1. s.file \in Cached' => entries'[s.file].source = s
    BY <1>4, <1>14, <1>2, <1>6
  <2>2. LoadOf(w)'
    BY <1>2, <1>4, <1>7, <1>9, <1>10, <2>1 DEF LoadOf, f
  <2> QED BY <2>2, <1>11 DEF WorkerInv, Gathers, Borrows, Filling
<1>25. JobInv'
  <2>1. \A g \in Cached' : \/ g \in Cached /\ entries'[g].source = entries[g].source
                           \/ g = job[w].file
    BY <1>17 DEF f
  <2> QED BY <2>1, <1>9, <1>23, <1>24, JobsKept
<1>26. ApartInv'
  BY <1>9, <1>23, ApartKept
<1>27. FiniteInv'
  <2>1. IsFiniteSet({h})
    BY FS_Singleton
  <2> QED BY <2>1, <1>18, <1>15, <1>16, FiniteKept
<1>28. Len(s.content) = job[w].length
  BY <1>2, <1>4 DEF ReadOf, f
<1>29. \A x \in Held' : x \in Held \/ x.kind = "bytes"
  BY <1>8, <1>18
<1>30. IInv'
  BY <1>13, <1>21, <1>22, <1>25, <1>26, <1>27
<1> QED BY <1>1, <1>4, <1>11, <1>19, <1>23, <1>28, <1>29, <1>30

(* ReturnBytes keeps the invariant. *)
LEMMA ReturnBytesKeeps ==
  ASSUME IInv, NEW w \in Worker, ReturnBytes(w)
  PROVE  IInv'
<1> USE DEF IInv
<1>1. PICK h : h = Lease("bytes", Source(w), 0, 0)
  OBVIOUS
<1>2. /\ pc[w] \in Loads /\ Give(w, h)
      /\ UNCHANGED <<disk, entries, order, lock, reads, decodes>>
  BY <1>1 DEF ReturnBytes, Loads
<1>3. h \in Held
  BY <1>1, <1>2, Loading
<1>4. h \in Lease_ /\ Fits(h)
  BY <1>3, HeldTyped, HeldFits
<1>5. EntriesKept /\ Distinct(order') /\ Cached' = Members(order')
  BY <1>2, SameEntries
<1> QED BY <1>2, <1>4, <1>5, GiveStep DEF TypeOK

(* LookupDecoded keeps the invariant. *)
LEMMA LookupDecodedKeeps ==
  ASSUME IInv, NEW w \in Worker, LookupDecoded(w)
  PROVE  IInv' /\ Gentle(w) /\ pc'[w] \in {"idle", "decode"}
<1> USE DEF IInv
<1>1. PICK s : s = Source(w)
  OBVIOUS
<1>2. /\ pc[w] = "loaded" /\ pc[w] \in Loads
      /\ UNCHANGED <<disk, entries, lock, reads, decodes>>
  BY DEF LookupDecoded, Loads
<1>3. /\ LoadOf(w) /\ job[w] \in Read_
      /\ s \in Source_ /\ s.file \in File
      /\ s.file \in Cached => entries[s.file].source = s
      /\ s \in Sources /\ s \in Slots
  BY <1>1, <1>2, Loading
<1>4. EntriesKept /\ Cached' = Cached /\ (order' = order => Distinct(order') /\ Cached' = Members(order'))
  BY <1>2, SameEntries
<1>5. CASE /\ Current(s) /\ entries[s.file].image # 0
           /\ order' = Touched(s.file)
           /\ Give(w, Lease("image", s, entries[s.file].image, 0))
  <2>1. s.file \in Cached /\ entries[s.file].image \in Nat
    BY <1>5, CachedTyped DEF Current
  <2>2. PICK h : h = Lease("image", s, entries[s.file].image, 0)
    OBVIOUS
  <2>3. h \in Lease_ /\ h.kind = "image" /\ h.source = s /\ h.image = entries[s.file].image
    BY <1>3, <2>1, <2>2, LeaseIs DEF Kinds
  <2>4. entries[s.file].origin = s
    BY <1>3, <1>5, <2>1 DEF Contents, EntryInv
  <2>5. <<s, entries[s.file].image>> \in Rasters
    BY <1>5, <2>1, <2>4, Owners
  <2>6. Fits(h)
    BY <1>3, <2>3, <2>5 DEF Fits
  <2>7. order' \in Seq(File) /\ Distinct(order') /\ Members(order') = Cached \cup {s.file}
    BY <1>3, <1>5, TouchedIs
  <2>8. Cached' = Members(order')
    BY <1>4, <2>1, <2>7
  <2>9. IInv'
    BY <1>2, <1>4, <1>5, <2>2, <2>3, <2>6, <2>7, <2>8, GiveStep DEF TypeOK
  <2>10. Give(w, h)
    BY <1>5, <2>2
  <2>11. Gentle(w) /\ pc'[w] = "idle"
    <3>1. /\ Quiet(w) /\ pc'[w] = "idle" /\ mine' = [mine EXCEPT ![w] = {}]
          /\ leases' \subseteq leases \cup {h}
      BY <2>10, EndIs DEF Give, End
    <3>2. Held' \subseteq Held \cup {} \cup {h}
      BY <3>1, HeldAfter
    <3> QED BY <1>4, <2>3, <2>6, <3>1, <3>2 DEF Gentle
  <2> QED BY <2>9, <2>11
<1>6. CASE Goto(w, "decode") /\ UNCHANGED <<order, job, mine, leases>>
  <2>1. pc'[w] = "decode"
    BY <1>6, GotoIs DEF Labels
  <2>2. LoadOf(w)'
    BY <1>2, <1>3, <1>4, <1>6 DEF LoadOf
  <2>3. WorkerInv(w)'
    BY <2>1, <2>2 DEF WorkerInv, Gathers, Borrows, Filling
  <2>4. IInv'
    BY <1>2, <1>6, <2>3, GotoStep DEF Labels, TypeOK
  <2>5. Quiet(w)
    BY <1>6, GotoIs DEF Quiet, Labels
  <2>6. Gentle(w)
    BY <1>4, <1>6, <2>5, SameHeld DEF Gentle
  <2> QED BY <2>1, <2>4, <2>6
<1> QED BY <1>1, <1>5, <1>6 DEF LookupDecoded

(* What the entries are after a decode of source s: the pixels of an entry *)
(* are new only where it is the entry of these bytes.                      *)
LEMMA DecodeKeeps ==
  ASSUME IInv, NEW w \in Worker, Decode(w)
  PROVE  /\ IInv' /\ Quiet(w) /\ pc[w] = "decoding" /\ pc'[w] = "idle"
         /\ Sources' \subseteq Sources /\ Slots' \subseteq Slots
         /\ \E r : Rasters' \subseteq Rasters \cup {r}
         /\ \A x \in Held' : x \in Held \/ x.kind = "image"
<1> USE DEF IInv
<1>1. PICK s : s = Source(w)
  OBVIOUS
<1>2. PICK d \in Nat : d = decodes + 1
  BY DEF TypeOK
<1>3. PICK h : h = Lease("image", s, d, 0)
  OBVIOUS
<1>4. /\ pc[w] \in Loads /\ decodes' = d /\ d # 0
      /\ entries' = IF Current(s)
                    THEN [entries EXCEPT ![s.file].image = d, ![s.file].origin = s]
                    ELSE entries
      /\ Give(w, h)
      /\ UNCHANGED <<disk, order, lock, reads>>
  BY <1>1, <1>2, <1>3 DEF Decode, Decoding, Loads, TypeOK
<1>5. /\ LoadOf(w) /\ job[w] \in Read_
      /\ s \in Source_ /\ s.file \in File
      /\ s.file \in Cached => entries[s.file].source = s
      /\ s \in Sources /\ s \in Slots
  BY <1>1, <1>4, Loading
<1>6. h \in Lease_ /\ h.kind = "image" /\ h.source = s /\ h.image = d
  BY <1>3, <1>5, LeaseIs DEF Kinds
<1>7. /\ entries' \in [File -> Entry_ \cup {NoEntry}] /\ Cached' = Cached
      /\ \A f \in Cached' : /\ entries'[f].source = entries[f].source
                            /\ \/ entries'[f] = entries[f]
                               \/ /\ f = s.file /\ entries'[f].image = d
                                  /\ entries'[f].origin = s
  <2>1. CASE Current(s)
    <3>1. s.file \in Cached /\ entries[s.file] \in Entry_
      BY <2>1, CachedTyped DEF Current
    <3>2. PICK e : e = [entries[s.file] EXCEPT !.image = d, !.origin = s]
      OBVIOUS
    <3>3. e \in Entry_ /\ e.source = entries[s.file].source /\ e.image = d /\ e.origin = s
      BY <3>1, <3>2, <1>5 DEF Entry_
    <3>4. entries' = [entries EXCEPT ![s.file] = e]
      BY <1>4, <2>1, <3>2, <1>5 DEF TypeOK
    <3>5. \A f \in File : entries'[f] = IF f = s.file THEN e ELSE entries[f]
      BY <3>4 DEF TypeOK
    <3>6. entries' \in [File -> Entry_ \cup {NoEntry}]
      BY <3>3, <3>4 DEF TypeOK
    <3>7. e # NoEntry
      BY <3>3, CacheAssumption
    <3>8. Cached' = Cached
      BY <3>1, <3>5, <3>7 DEF Cached
    <3>9. \A f \in Cached' : f \in File
      BY DEF Cached
    <3> QED BY <3>3, <3>5, <3>6, <3>8, <3>9
  <2>2. CASE ~Current(s)
    BY <1>4, <2>2 DEF Cached, TypeOK
  <2> QED BY <2>1, <2>2
<1>8. /\ Quiet(w) /\ WorkerInv(w)' /\ job'[w].file = NoOne
      /\ pc' \in [Worker -> Labels]
      /\ job' \in [Worker -> Read_ \cup Charge_ \cup {NoJob}]
      /\ mine' \in [Worker -> SUBSET Lease_]
      /\ leases' = leases \cup {h} /\ mine' = [mine EXCEPT ![w] = {}]
  BY <1>4, EndIs DEF Give, End
<1>9. TypeOK'
  BY <1>4, <1>6, <1>7, <1>8 DEF TypeOK
<1>10. Held' \subseteq Held \cup {h}
  <2>1. Held' \subseteq Held \cup {} \cup {h}
    BY <1>8, HeldAfter
  <2> QED BY <2>1
<1>11. Slots' \subseteq Slots /\ Sources' \subseteq Sources /\ Rasters' \subseteq Rasters \cup {<<s, d>>}
  <2> DEFINE S == {}
             R == {<<s, d>>}
  <2>1. \A r \in R : r[1] \in Slots \cup S
    BY <1>5
  <2>2. \A g \in Cached' :
            /\ entries'[g].source \in Sources \cup S
            /\ entries'[g].image # 0 => <<entries'[g].origin, entries'[g].image>> \in Rasters \cup R
    <3> TAKE g \in Cached'
    <3>1. entries'[g].source \in Sources
      BY <1>7, Owners
    <3>2. CASE entries'[g] = entries[g]
      <4>1. entries'[g].image # 0 => <<entries'[g].origin, entries'[g].image>> \in Rasters
        BY <3>2, <1>7, Owners
      <4> QED BY <3>1, <4>1
    <3>3. CASE entries'[g].image = d /\ entries'[g].origin = s
      BY <3>1, <3>3
    <3> QED BY <3>2, <3>3, <1>7
  <2>3. \A x \in Held' :
            \/ x \in Held
            \/ /\ x.source \in Slots \cup S
               /\ x.kind \in {"bytes", "image"} => x.source \in Sources \cup S
               /\ x.kind \in {"image", "pixels"} => <<x.source, x.image>> \in Rasters \cup R
    BY <1>10, <1>6, <1>5
  <2>4. EntriesWithin(S, R)
    BY <2>2 DEF EntriesWithin
  <2>5. HeldWithin(S, R)
    BY <2>3 DEF HeldWithin
  <2> HIDE DEF S, R
  <2>6. OwnersWithin(S, R)
    BY <1>9, <2>1, <2>4, <2>5, Grown
  <2> QED BY <2>6 DEF S, R, OwnersWithin
<1>12. DiskKept
  BY <1>4 DEF DiskKept, Contents, DiskInv, TypeOK
<1>13. Contents'
  <2>1. \A t \in Slots : Faithful(t)'
    <3>1. reads <= reads'
      BY <1>4 DEF TypeOK
    <3> QED BY <1>9, <1>12, <3>1, FaithfulKept DEF Contents
  <2>2. SlotInv' /\ GenerationInv'
    BY <1>11, <2>1 DEF SlotInv, GenerationInv, Contents
  <2>3. EntryInv'
    <3> SUFFICES ASSUME NEW g \in Cached'
                 PROVE  /\ entries'[g].source.file = g
                        /\ entries'[g].image # 0 => entries'[g].origin = entries'[g].source
      BY DEF EntryInv
    <3>1. g \in Cached /\ entries'[g].source = entries[g].source /\ entries[g].source.file = g
      BY <1>7 DEF EntryInv, Contents
    <3>2. CASE entries'[g] = entries[g]
      BY <3>1, <3>2 DEF EntryInv, Contents
    <3>3. CASE g = s.file /\ entries'[g].origin = s
      BY <3>1, <3>3, <1>5
    <3> QED BY <3>2, <3>3, <1>7
  <2>4. DiskInv'
    BY <1>4 DEF DiskInv, Contents
  <2> QED BY <2>2, <2>3, <2>4 DEF Contents
<1>14. OrderInv'
  BY <1>4, <1>7 DEF OrderInv
<1>15. JobInv'
  <2>1. \A g \in Cached' : \/ g \in Cached /\ entries'[g].source = entries[g].source
                           \/ g = job[w].file
    BY <1>7
  <2> QED BY <2>1, <1>4, <1>8, JobsKept
<1>16. ApartInv'
  BY <1>8, ApartKept
<1>17. FiniteInv'
  <2>1. IsFiniteSet({h}) /\ Cached' \subseteq Cached \cup {w}
    BY FS_Singleton, <1>7
  <2> QED BY <2>1, <1>10, FiniteKept
<1>18. \A x \in Held' : x \in Held \/ x.kind = "image"
  BY <1>6, <1>10
<1>19. pc[w] = "decoding" /\ pc'[w] = "idle"
  BY <1>4, EndIs DEF Decode, Decoding, Give
<1>20. IInv'
  BY <1>9, <1>13, <1>14, <1>15, <1>16, <1>17
<1> QED BY <1>8, <1>11, <1>18, <1>19, <1>20

(* Abandon keeps the invariant. *)
LEMMA AbandonKeeps ==
  ASSUME IInv, NEW w \in Worker, Abandon(w)
  PROVE  IInv'
BY FailKeeps DEF Abandon

(* A worker borrows leases, and at most the lease n is new.                *)
LEMMA BorrowStep ==
  ASSUME IInv, NEW w \in Worker, pc[w] = "idle",
         NEW l \in {"derive", "charge", "retain"}, Goto(w, l),
         NEW M \in SUBSET Lease_, mine' = [mine EXCEPT ![w] = M],
         NEW n, Fits(n), M \subseteq Held \cup {n},
         job' \in [Worker -> Read_ \cup Charge_ \cup {NoJob}], job'[w].file = NoOne,
         \A u \in Worker \ {w} : job'[u] = job[u],
         l = "derive" => \E h \in Lease_ : M = {h} /\ h.kind = "image",
         l = "charge" => /\ job'[w] \in Charge_
                         /\ \E h \in Lease_ : /\ M = {h}
                                              /\ h.kind \in {"derived", "sequence"},
         lock' \in Worker \cup {NoOne},
         UNCHANGED <<disk, entries, order, leases, reads, decodes>>
  PROVE  IInv'
<1> USE DEF IInv
<1>1. /\ pc' \in [Worker -> Labels] /\ pc'[w] = l
      /\ \A u \in Worker \ {w} : pc'[u] = pc[u]
  BY GotoIs DEF Labels
<1>2. /\ mine' \in [Worker -> SUBSET Lease_] /\ mine'[w] = M
      /\ \A u \in Worker \ {w} : mine'[u] = mine[u]
  BY DEF TypeOK
<1>3. TypeOK'
  BY <1>1, <1>2 DEF TypeOK
<1>4. Held' \subseteq Held \cup {n}
  <2>1. leases' \subseteq leases \cup {}
    OBVIOUS
  <2>2. Held' \subseteq Held \cup M \cup {}
    BY <2>1, HeldAfter
  <2> QED BY <2>2
<1>5. WorkerInv(w)'
  BY <1>1, <1>2 DEF WorkerInv, Gathers, Loads, Filling
<1>6. Quiet(w)
  BY <1>1, <1>2 DEF Quiet
<1>7. EntriesKept /\ Distinct(order') /\ Cached' = Members(order')
  BY SameEntries
<1> QED BY <1>3, <1>4, <1>5, <1>6, <1>7, WorkerStep

(* An idle worker owns no lease. *)
LEMMA Idle ==
  ASSUME IInv, NEW w \in Worker, pc[w] \in Borrows
  PROVE  job[w].file = NoOne
BY DEF IInv, JobInv, WorkerInv

(* Derive keeps the invariant. *)
LEMMA DeriveKeeps ==
  ASSUME IInv, NEW w \in Worker, Derive(w)
  PROVE  IInv'
<1>1. PICK h \in leases : h.kind = "image" /\ mine' = [mine EXCEPT ![w] = {h}]
  BY DEF Derive
<1>2. h \in Held /\ h \in Lease_ /\ Fits(h)
  BY <1>1, HeldTyped, HeldFits DEF IInv
<1>3. /\ pc[w] = "idle" /\ Goto(w, "derive")
      /\ UNCHANGED <<disk, entries, order, lock, job, leases, reads, decodes>>
  BY DEF Derive
<1>4. job[w].file = NoOne
  BY <1>3, Idle DEF Borrows
<1>5. {h} \in SUBSET Lease_ /\ {h} \subseteq Held \cup {h}
  BY <1>2
<1>6. /\ job' \in [Worker -> Read_ \cup Charge_ \cup {NoJob}] /\ job'[w].file = NoOne
      /\ \A u \in Worker \ {w} : job'[u] = job[u]
      /\ lock' \in Worker \cup {NoOne}
  BY <1>3, <1>4 DEF IInv, TypeOK
<1>7. \E x \in Lease_ : {h} = {x} /\ x.kind = "image"
  BY <1>1, <1>2
<1> QED BY <1>1, <1>2, <1>3, <1>5, <1>6, <1>7, BorrowStep

(* Collect keeps the invariant. *)
LEMMA CollectKeeps ==
  ASSUME IInv, NEW w \in Worker, Collect(w)
  PROVE  IInv'
<1>1. PICK h \in leases :
          /\ h.kind \in {"derived", "sequence"}
          /\ mine' = [mine EXCEPT ![w] = {h}]
          /\ job' = [job EXCEPT ![w] = [file |-> NoOne, victims |-> Reclaimable]]
  BY DEF Collect
<1>2. h \in Held /\ h \in Lease_ /\ Fits(h)
  BY <1>1, HeldTyped, HeldFits DEF IInv
<1>3. /\ pc[w] = "idle" /\ Goto(w, "charge") /\ lock' = w
      /\ UNCHANGED <<disk, entries, order, leases, reads, decodes>>
  BY DEF Collect
<1>4. PICK c : c = [file |-> NoOne, victims |-> Reclaimable]
  OBVIOUS
<1>5. c \in Charge_ /\ c.file = NoOne
  BY <1>4 DEF Charge_, Reclaimable, Cached
<1>6. {h} \in SUBSET Lease_ /\ {h} \subseteq Held \cup {h}
  BY <1>2
<1>7. /\ job' \in [Worker -> Read_ \cup Charge_ \cup {NoJob}] /\ job'[w] = c
      /\ \A u \in Worker \ {w} : job'[u] = job[u]
  BY <1>1, <1>4, <1>5 DEF IInv, TypeOK
<1>8. \E x \in Lease_ : {h} = {x} /\ x.kind \in {"derived", "sequence"}
  BY <1>1, <1>2
<1>9. job'[w].file = NoOne /\ lock' \in Worker \cup {NoOne} /\ job'[w] \in Charge_
  BY <1>3, <1>5, <1>7
<1> QED BY <1>1, <1>2, <1>3, <1>6, <1>7, <1>8, <1>9, BorrowStep

(* Upgrade keeps the invariant: an image becomes the entry of its own      *)
(* bytes only.                                                             *)
LEMMA UpgradeKeeps ==
  ASSUME IInv, NEW w \in Worker, Upgrade(w)
  PROVE  IInv'
<1>1. PICK h \in leases, l \in leases :
          /\ <<h.source, h.image>> \in Rasters
          /\ mine' = [mine EXCEPT ![w] = {h, l, Lease("pixels", h.source, h.image, 0)}]
  BY DEF Upgrade
<1>2. PICK n : n = Lease("pixels", h.source, h.image, 0)
  OBVIOUS
<1>3. /\ h \in Held /\ h \in Lease_ /\ l \in Held /\ l \in Lease_
      /\ h.source \in Source_ /\ h.image \in Nat
  BY <1>1, HeldTyped, LeaseTyped DEF IInv
<1>4. n \in Lease_ /\ n.kind = "pixels" /\ n.source = h.source /\ n.image = h.image
  BY <1>2, <1>3, LeaseIs DEF Kinds
<1>5. Fits(n)
  BY <1>1, <1>3, <1>4, Owners DEF Fits, IInv
<1>6. /\ pc[w] = "idle" /\ Goto(w, "retain")
      /\ UNCHANGED <<disk, entries, order, lock, job, leases, reads, decodes>>
  BY DEF Upgrade
<1>7. job[w].file = NoOne
  BY <1>6, Idle DEF Borrows
<1>8. PICK M : M = {h, l, n}
  OBVIOUS
<1>9. M \in SUBSET Lease_ /\ M \subseteq Held \cup {n} /\ mine' = [mine EXCEPT ![w] = M]
  BY <1>1, <1>2, <1>3, <1>4, <1>8
<1>10. /\ job' \in [Worker -> Read_ \cup Charge_ \cup {NoJob}] /\ job'[w].file = NoOne
       /\ \A u \in Worker \ {w} : job'[u] = job[u]
       /\ lock' \in Worker \cup {NoOne}
  BY <1>6, <1>7 DEF IInv, TypeOK
<1> QED BY <1>5, <1>6, <1>9, <1>10, BorrowStep

(* Retain keeps the invariant. *)
LEMMA RetainKeeps ==
  ASSUME IInv, NEW w \in Worker, Retain(w)
  PROVE  IInv'
<1>1. /\ pc[w] = "retain"
      /\ UNCHANGED <<disk, entries, order, lock, reads, decodes>>
  BY DEF Retain
<1>2. PICK p \in mine[w] : Give(w, p) \/ (End(w) /\ UNCHANGED leases)
  BY DEF Retain
<1>3. p \in Held /\ p \in Lease_ /\ Fits(p)
  BY <1>2, HeldTyped, HeldFits DEF IInv
<1>4. EntriesKept /\ Distinct(order') /\ Cached' = Members(order')
  BY <1>1, SameEntries DEF IInv
<1>5. CASE Give(w, p)
  BY <1>1, <1>3, <1>4, <1>5, GiveStep DEF IInv, TypeOK
<1>6. CASE End(w) /\ UNCHANGED leases
  BY <1>1, <1>6, EndStep DEF IInv, TypeOK
<1> QED BY <1>2, <1>5, <1>6

(* What a worker that charges has. *)
LEMMA Charging ==
  ASSUME IInv, NEW w \in Worker, pc[w] = "charge"
  PROVE  /\ job[w] \in Charge_ /\ job[w].file = NoOne /\ job[w].victims \in SUBSET File
         /\ \E h \in Lease_ : mine[w] = {h} /\ h.kind \in {"derived", "sequence"}
<1>1. job[w] \in Charge_ /\ \E h \in Lease_ : mine[w] = {h} /\ h.kind \in {"derived", "sequence"}
  BY DEF IInv, JobInv, WorkerInv
<1> QED BY <1>1 DEF Charge_

(* Reclaim keeps the invariant. *)
LEMMA ReclaimKeeps ==
  ASSUME IInv, NEW w \in Worker, Reclaim(w)
  PROVE  IInv'
<1> USE DEF IInv
<1> DEFINE f == Oldest(job[w].victims)
           V == job[w].victims \ {f}
<1>1. /\ pc[w] = "charge" /\ Forget(f) /\ Note(w, "victims", V)
      /\ UNCHANGED <<disk, lock, pc, mine, leases, reads, decodes>>
  BY DEF Reclaim
<1>2. /\ job[w] \in Charge_ /\ job[w].file = NoOne /\ V \in SUBSET File
      /\ \E h \in Lease_ : mine[w] = {h} /\ h.kind \in {"derived", "sequence"}
  BY <1>1, Charging
<1> HIDE DEF f, V
<1>3. /\ job' = [job EXCEPT ![w] = [job[w] EXCEPT !["victims"] = V]]
      /\ [job[w] EXCEPT !["victims"] = V] \in Charge_
  BY <1>1, <1>2 DEF Note, Charge_, TypeOK
<1>4. /\ job' \in [Worker -> Read_ \cup Charge_ \cup {NoJob}] /\ job'[w] \in Charge_
      /\ \A u \in Worker \ {w} : job'[u] = job[u]
  BY <1>3 DEF TypeOK
<1>5. job'[w].file = NoOne
  BY <1>4 DEF Charge_
<1>6. /\ entries' \in [File -> Entry_ \cup {NoEntry}]
      /\ order' \in Seq(File)
      /\ EntriesKept
      /\ Distinct(order') /\ Cached' = Members(order')
  BY <1>1, ForgetIs
<1>7. TypeOK'
  BY <1>1, <1>4, <1>6 DEF TypeOK
<1>8. Held' \subseteq Held
  BY <1>1, SameHeld
<1>9. Quiet(w)
  BY <1>1, <1>4 DEF Quiet
<1>10. WorkerInv(w)'
  BY <1>1, <1>2, <1>4, <1>5 DEF WorkerInv, Gathers, Loads, Filling
<1> QED BY <1>1, <1>5, <1>6, <1>7, <1>8, <1>9, <1>10, QuietStep

(* Charge keeps the invariant. *)
LEMMA ChargeKeeps ==
  ASSUME IInv, NEW w \in Worker, Charge(w)
  PROVE  IInv'
<1> USE DEF IInv
<1>1. lock' = NoOne /\ UNCHANGED <<disk, entries, order, reads, decodes>>
  BY DEF Charge
<1>2. PICK h \in mine[w], i \in 1..MaxLeases : Give(w, Lease("sequence", h.source, h.image, i))
  BY DEF Charge, Fresh
<1>3. PICK n : n = Lease("sequence", h.source, h.image, i)
  OBVIOUS
<1>4. h \in Held /\ h \in Lease_ /\ h.source \in Source_ /\ h.image \in Nat /\ i \in Nat
  BY <1>2, HeldTyped, LeaseTyped
<1>5. n \in Lease_ /\ n.kind = "sequence" /\ n.source = h.source
  BY <1>3, <1>4, LeaseIs DEF Kinds
<1>6. Fits(n)
  BY <1>4, <1>5, Owners DEF Fits
<1>7. EntriesKept /\ Distinct(order') /\ Cached' = Members(order')
  BY <1>1, SameEntries
<1> QED BY <1>1, <1>2, <1>3, <1>5, <1>6, <1>7, GiveStep DEF TypeOK

-----------------------------------------------------------------------------
(* What others do: consumers, the owners of the cache, other programs.     *)

(* A step of the consumers, or of the host, with no worker. *)
LEMMA WorldStep ==
  ASSUME IInv, EntriesKept, entries' \in [File -> Entry_ \cup {NoEntry}],
         order' \in Seq(File), Distinct(order'), Cached' = Members(order'),
         leases' \subseteq leases,
         UNCHANGED <<disk, lock, pc, job, mine, reads, decodes>>
  PROVE  IInv'
<1> USE DEF IInv
<1>1. TypeOK'
  BY DEF TypeOK
<1>2. Held' \subseteq Held
  BY DEF Held
<1>3. Contents'
  <2>1. DiskKept /\ reads <= reads'
    BY DEF DiskKept, Contents, DiskInv, TypeOK
  <2>2. \A x \in Held' : x \in Held \/ Fits(x)
    BY <1>2
  <2> QED BY <1>1, <2>1, <2>2, ContentsKept
<1>4. OrderInv'
  BY DEF OrderInv, Distinct, Members
<1>5. JobInv'
  <2>1. ASSUME NEW w \in Worker PROVE WorkerInv(w)'
    <3>1. \A f \in Cached' : f \in Cached /\ entries'[f].source = entries[f].source
      BY DEF EntriesKept
    <3> QED BY <3>1, StillWorks
  <2> QED BY <2>1 DEF JobInv
<1>6. ApartInv'
  BY DEF ApartInv
<1>7. FiniteInv'
  <2>1. Cached' \subseteq Cached
    BY DEF EntriesKept
  <2> QED BY <1>2, <2>1, FS_Subset DEF FiniteInv
<1> QED BY <1>1, <1>3, <1>4, <1>5, <1>6, <1>7

(* A lease that is dropped. *)
LEMMA DropKeeps ==
  ASSUME IInv, Drop
  PROVE  IInv'
<1>1. leases' \subseteq leases /\ UNCHANGED <<disk, entries, order, lock, pc, job, mine, reads, decodes>>
  BY DEF Drop
<1>2. EntriesKept /\ Distinct(order') /\ Cached' = Members(order')
  BY <1>1, SameEntries DEF IInv
<1> QED BY <1>1, <1>2, WorldStep DEF IInv, TypeOK

(* Discard keeps the invariant. *)
LEMMA DiscardKeeps ==
  ASSUME IInv, Discard
  PROVE  IInv' /\ EntriesKept
<1> USE DEF IInv
<1>1. PICK h \in leases : /\ Current(h.source)
                          /\ entries' = [entries EXCEPT ![h.source.file].image = 0]
  BY DEF Discard
<1>2. PICK f : f = h.source.file
  OBVIOUS
<1>3. f \in Cached /\ f \in File /\ entries[f] \in Entry_
  BY <1>1, <1>2, CachedTyped DEF Current
<1>4. PICK e : e = [entries[f] EXCEPT !.image = 0]
  OBVIOUS
<1>5. e \in Entry_ /\ e.source = entries[f].source /\ e.image = 0
  BY <1>3, <1>4 DEF Entry_
<1>6. e # NoEntry
  BY <1>5, CacheAssumption
<1>7. entries' = [entries EXCEPT ![f] = e]
  BY <1>1, <1>2, <1>4
<1>8. /\ entries' \in [File -> Entry_ \cup {NoEntry}]
      /\ \A g \in File : entries'[g] = IF g = f THEN e ELSE entries[g]
  BY <1>5, <1>7 DEF TypeOK
<1>9. Cached' = Cached
  BY <1>3, <1>6, <1>8 DEF Cached
<1>10. EntriesKept
  <2>1. \A g \in Cached' : g \in File
    BY DEF Cached
  <2> QED BY <1>5, <1>8, <1>9, <2>1 DEF EntriesKept
<1>11. UNCHANGED <<disk, order, lock, pc, job, mine, leases, reads, decodes>>
  BY DEF Discard
<1>12. order' \in Seq(File) /\ Distinct(order') /\ Cached' = Members(order')
  BY <1>9, <1>11, OrderIs
<1> QED BY <1>8, <1>10, <1>11, <1>12, WorldStep

(* Invalidate keeps the invariant. *)
LEMMA InvalidateKeeps ==
  ASSUME IInv, Invalidate
  PROVE  IInv'
<1>1. PICK f \in File : Forget(f)
  BY DEF Invalidate
<1>2. UNCHANGED <<disk, lock, pc, job, mine, leases, reads, decodes>>
  BY DEF Invalidate
<1>3. /\ entries' \in [File -> Entry_ \cup {NoEntry}]
      /\ order' \in Seq(File)
      /\ EntriesKept
      /\ Distinct(order') /\ Cached' = Members(order')
  BY <1>1, ForgetIs DEF IInv
<1> QED BY <1>2, <1>3, WorldStep

(* A read that goes on while the file is written: its chunks count for     *)
(* nothing under the new stamp, and what the file held under the old one   *)
(* stays what it was.                                                      *)
LEMMA WriteOutsideKeeps ==
  ASSUME IInv, WriteOutside
  PROVE  IInv'
<1> USE DEF IInv
<1>0. PICK f \in File : \E v \in Versions[f] :
          /\ Stamp(f) < Len(v)
          /\ disk' = [disk EXCEPT ![f] = Append(disk[f], v[Stamp(f) + 1])]
  BY DEF WriteOutside
<1>1. PICK v \in Versions[f] :
          /\ Stamp(f) < Len(v)
          /\ disk' = [disk EXCEPT ![f] = Append(disk[f], v[Stamp(f) + 1])]
  BY <1>0
<1>2. UNCHANGED <<entries, order, lock, pc, job, mine, leases, reads, decodes>>
  BY DEF WriteOutside
<1>3. PICK c : c = v[Stamp(f) + 1]
  OBVIOUS
<1>4. \A g \in File : disk[g] \in Seq(Seq(Nat)) /\ Len(disk[g]) \in Nat /\ Len(disk[g]) >= 1
  BY ReadOfTyped DEF Contents, Stamp
<1>5. c \in Seq(Nat)
  <2>1. v \in Seq(Seq(Nat)) /\ Len(v) \in Nat
    BY CacheAssumption, LenProperties
  <2>2. Stamp(f) + 1 \in 1..Len(v)
    BY <1>1, <1>4, <2>1 DEF Stamp
  <2> QED BY <1>3, <2>1, <2>2, ElementOfSeq
<1>6. PICK q : q = Append(disk[f], c)
  OBVIOUS
<1>7. /\ q \in Seq(Seq(Nat)) /\ Len(q) = Len(disk[f]) + 1
      /\ \A i \in 1..Len(disk[f]) : q[i] = disk[f][i]
  BY <1>4, <1>5, <1>6, AppendProperties
<1>8. disk' \in [File -> Seq(Seq(Nat))] /\ \A g \in File : disk'[g] = IF g = f THEN q ELSE disk[g]
  BY <1>1, <1>3, <1>6, <1>7 DEF TypeOK
<1>9. TypeOK'
  BY <1>2, <1>8 DEF TypeOK
<1>10. DiskKept
  <2>1. ASSUME NEW g \in File
        PROVE  /\ Len(disk[g]) <= Len(disk'[g])
               /\ \A i \in 1..Len(disk[g]) : disk'[g][i] = disk[g][i]
    <3>1. CASE g = f
      <4>1. disk'[g] = q /\ disk[g] = disk[f]
        BY <1>8, <3>1
      <4>2. Len(disk[f]) \in Nat
        BY <1>4
      <4> QED BY <1>7, <4>1, <4>2
    <3>2. CASE g # f
      <4>1. disk'[g] = disk[g] /\ Len(disk[g]) \in Nat
        BY <1>8, <3>2, <1>4
      <4> QED BY <4>1
    <3> QED BY <3>1, <3>2
  <2> QED BY <2>1 DEF DiskKept
<1>11. EntriesKept /\ Distinct(order') /\ Cached' = Members(order') /\ Cached' = Cached
  BY <1>2, SameEntries
<1>12. Held' \subseteq Held
  BY <1>2, SameHeld
<1>13. Contents'
  <2>1. reads <= reads'
    BY <1>2 DEF TypeOK
  <2>2. \A x \in Held' : x \in Held \/ Fits(x)
    BY <1>12
  <2> QED BY <1>9, <1>10, <1>11, <2>1, <2>2, ContentsKept
<1>14. OrderInv'
  BY <1>11 DEF OrderInv, Distinct, Members
<1>15. JobInv'
  <2> SUFFICES ASSUME NEW w \in Worker PROVE WorkerInv(w)'
    BY DEF JobInv
  <2>1. WorkerInv(w)
    BY DEF JobInv
  <2>2. ASSUME pc[w] \in Gathers PROVE ReadOf(w)' /\ ChunksOf(w)'
    <3> DEFINE g == job[w].file
    <3>1. /\ ReadOf(w) /\ ChunksOf(w) /\ g \in File /\ job[w].stamp \in 1..Len(disk[g])
      BY <2>2, Gathering DEF Stamp
    <3>2. /\ Len(disk[g]) \in Nat /\ Len(disk'[g]) \in Nat /\ Len(disk[g]) <= Len(disk'[g])
          /\ job[w].stamp \in 1..Len(disk'[g])
          /\ disk'[g][job[w].stamp] = disk[g][job[w].stamp]
      <4>1. Len(disk[g]) \in Nat /\ Len(disk'[g]) \in Nat
        BY <3>1, <1>4, <1>7, <1>8
      <4> QED BY <3>1, <4>1, <1>10 DEF DiskKept
    <3>3. ReadOf(w)'
      BY <1>2, <3>1, <3>2 DEF ReadOf, Stamp
    <3>4. disk'[g] = disk[g] \/ Len(disk'[g]) # job[w].stamp
      BY <3>1, <1>4, <1>7, <1>8
    <3>5. ChunksOf(w)'
      <4>1. CASE disk'[g] = disk[g]
        BY <1>2, <3>1, <4>1 DEF ChunksOf, Stamp, Now
      <4>2. CASE Len(disk'[g]) # job[w].stamp
        BY <1>2, <3>1, <3>2, <4>2 DEF ChunksOf, Stamp
      <4> QED BY <3>4, <4>1, <4>2
    <3> QED BY <3>3, <3>5
  <2>3. ASSUME pc[w] \in Loads PROVE LoadOf(w)'
    BY <1>2, <1>11, <2>1, <2>3 DEF LoadOf, WorkerInv
  <2> QED BY <1>2, <2>1, <2>2, <2>3 DEF WorkerInv
<1>16. ApartInv'
  BY <1>2 DEF ApartInv
<1>17. FiniteInv'
  BY <1>11, <1>12, FS_Subset DEF FiniteInv
<1> QED BY <1>9, <1>13, <1>14, <1>15, <1>16, <1>17

(* A stutter keeps the invariant. *)
LEMMA StutterKeeps ==
  ASSUME IInv, UNCHANGED vars
  PROVE  IInv'
<1>1. UNCHANGED <<disk, entries, order, lock, pc, job, mine, leases, reads, decodes>>
  BY DEF vars
<1>2. EntriesKept /\ Distinct(order') /\ Cached' = Members(order')
  BY <1>1, SameEntries DEF IInv
<1>3. leases' \subseteq leases
  BY <1>1
<1> QED BY <1>1, <1>2, <1>3, WorldStep DEF IInv, TypeOK

(* The empty cache satisfies the invariant. *)
LEMMA InitHolds ==
  ASSUME Init
  PROVE  IInv
<1> USE DEF Init
<1>1. \A f \in File : disk[f] \in Seq(Seq(Nat)) /\ Len(disk[f]) = 1
  <2> TAKE f \in File
  <2>1. PICK v : v = (CHOOSE u \in Versions[f] : TRUE)
    OBVIOUS
  <2>2. v \in Versions[f]
    BY <2>1, CacheAssumption
  <2>3. v \in Seq(Seq(Nat)) /\ v # <<>>
    BY <2>2, CacheAssumption
  <2>4. Len(v) \in Nat /\ 1 \in 1..Len(v)
    BY <2>3, LenProperties, EmptySeq
  <2>5. v[1] \in Seq(Nat)
    BY <2>3, <2>4, ElementOfSeq
  <2>6. disk[f] = <<v[1]>>
    BY <2>1
  <2> QED BY <2>5, <2>6
<1>2. disk \in [File -> Seq(Seq(Nat))]
  BY <1>1
<1>3. NoJob.file = NoOne
  BY DEF NoJob
<1>4. TypeOK
  BY <1>2 DEF TypeOK, Labels
<1>5. Cached = {} /\ Held = {}
  BY DEF Cached, Held
<1>6. Slots = {}
  <2>1. HeldBytes = {} /\ HeldPixels = {}
    BY <1>5 DEF HeldBytes, HeldPixels
  <2>2. Sources = {} /\ Rasters = {}
    BY <1>5, <2>1 DEF Sources, Rasters
  <2> QED BY <1>5, <2>2 DEF Slots
<1>7. Contents
  BY <1>1, <1>5, <1>6 DEF Contents, DiskInv, SlotInv, GenerationInv, EntryInv
<1>8. OrderInv
  BY <1>5 DEF OrderInv
<1>9. JobInv
  BY <1>3 DEF JobInv, WorkerInv, Gathers, Loads, Filling
<1>10. ApartInv
  BY <1>3 DEF ApartInv
<1>11. FiniteInv
  BY <1>5, FS_EmptySet DEF FiniteInv
<1> QED BY <1>4, <1>7, <1>8, <1>9, <1>10, <1>11 DEF IInv

(* Every step keeps the invariant. *)
LEMMA NextKeeps ==
  ASSUME IInv, [Next]_vars
  PROVE  IInv'
<1>1. ASSUME NEW w \in Worker, NEW r \in Reads, Open(w, r[1], r[2]) PROVE IInv'
  <2>1. r[1] \in File /\ r[2] \in {"bytes", "image"}
    BY CacheAssumption
  <2> QED BY <1>1, <2>1, OpenKeeps
<1>2. ASSUME NEW w \in Worker, Reserve(w) PROVE IInv'
  BY <1>2, EvictKeeps, RefuseKeeps, AdmitKeeps DEF Reserve
<1>3. ASSUME NEW w \in Worker, ReadFile(w) PROVE IInv'
  BY <1>3, ReadChunkKeeps, CheckStampKeeps, VerifyChunkKeeps, VerifyStampKeeps,
     InsertBytesKeeps DEF ReadFile
<1>4. ASSUME NEW w \in Worker, Load(w) PROVE IInv'
  BY <1>4, ReturnBytesKeeps, LookupDecodedKeeps, DecodeKeeps, AbandonKeeps DEF Load
<1>5. ASSUME NEW w \in Worker, Consume(w) PROVE IInv'
  BY <1>5, DeriveKeeps, CollectKeeps, ReclaimKeeps, ChargeKeeps, UpgradeKeeps,
     RetainKeeps DEF Consume
<1>6. CASE Drop
  BY <1>6, DropKeeps
<1>7. CASE Discard
  BY <1>7, DiscardKeeps
<1>8. CASE Invalidate
  BY <1>8, InvalidateKeeps
<1>9. CASE WriteOutside
  BY <1>9, WriteOutsideKeeps
<1>10. CASE UNCHANGED vars
  BY <1>10, StutterKeeps
<1> QED BY <1>1, <1>2, <1>3, <1>4, <1>5, <1>6, <1>7, <1>8, <1>9, <1>10 DEF Next

(***************************************************************************)
(* The inductive layer about contents holds in every state. *)
(***************************************************************************)
THEOREM Invariance == Spec => []IInv
<1>1. Init => IInv
  BY InitHolds
<1>2. IInv /\ [Next]_vars => IInv'
  BY NextKeeps
<1> QED BY <1>1, <1>2, PTL DEF Spec

(***************************************************************************)
(* The fields of the cache, its entries and the jobs of its workers keep   *)
(* their shapes, for any number of workers and files and any contents      *)
(* (cache.rs).                                                             *)
(***************************************************************************)
THEOREM Typing == Spec => []TypeOK
<1>1. IInv => TypeOK
  BY DEF IInv
<1> QED BY <1>1, Invariance, PTL

(***************************************************************************)
(* A lease holds the bytes that its file held under the stamp it names,    *)
(* whatever was written to the file while it was read: the stamp is        *)
(* compared after the bytes were read, and again after they were verified  *)
(* (read_source, verify).                                                  *)
(***************************************************************************)
THEOREM Serves == Spec => []ServesContent
<1>1. IInv => ServesContent
  BY DEF IInv, Contents, SlotInv, Faithful, ServesContent
<1> QED BY <1>1, Invariance, PTL

(***************************************************************************)
(* The pixels of an entry were decoded from the entry's own bytes:         *)
(* insert_decoded finds the entry by its stamp, and a stamp does not come  *)
(* back with other bytes.                                                  *)
(***************************************************************************)
THEOREM SharesBytes == Spec => []PixelsOfBytes
<1>1. IInv => PixelsOfBytes
  BY DEF IInv, Contents, EntryInv, PixelsOfBytes
<1> QED BY <1>1, Invariance, PTL

-----------------------------------------------------------------------------
(* The budgets: what they count, and what one step can add.                *)

Fillers == {w \in Worker : HoldsSlot(w)}
Readers == {w \in Worker : Reading(w)}
Decoders == {w \in Worker : Decoding(w)}
Loans == Charged({"derived", "sequence"})
Renders == Charged({"sequence"})

Weight == [s \in Source_ |-> Len(s.content)]
Extent(j) == [w \in Worker |-> j[w].length]

OwnersFinite ==
    /\ IsFiniteSet(Sources) /\ IsFiniteSet(Rasters) /\ IsFiniteSet(Slots)
    /\ IsFiniteSet(Fillers) /\ IsFiniteSet(Readers) /\ IsFiniteSet(Decoders)
    /\ IsFiniteSet(Loans) /\ IsFiniteSet(Renders)
    /\ Sources \subseteq Source_

(* The owners of each budget are finitely many. *)
LEMMA FiniteOwners ==
  ASSUME IInv
  PROVE  OwnersFinite
<1> USE DEF IInv
<1>0. IsFiniteSet(Held) /\ IsFiniteSet(Cached)
  BY DEF FiniteInv
<1>1. IsFiniteSet(Fillers) /\ IsFiniteSet(Readers) /\ IsFiniteSet(Decoders)
  <2>1. Fillers \in SUBSET Worker /\ Readers \in SUBSET Worker /\ Decoders \in SUBSET Worker
    BY DEF Fillers, Readers, Decoders
  <2> QED BY <2>1, FS_Subset, CacheAssumption
<1>2. IsFiniteSet(Loans) /\ IsFiniteSet(Renders)
  <2>1. Loans \in SUBSET Held /\ Renders \in SUBSET Held
    BY DEF Loans, Renders, Charged
  <2> QED BY <1>0, <2>1, FS_Subset
<1>3. \E S : IsFiniteSet(S) /\ \A h \in Held : h.source \in S
  <2> DEFINE f == [h \in Held |-> h.source]
  <2>1. IsFiniteSet({f[h] : h \in Held})
    BY <1>0, ImageFinite
  <2> QED BY <2>1
<1>4. PICK S : IsFiniteSet(S) /\ \A h \in Held : h.source \in S
  BY <1>3
<1>5. \E P : IsFiniteSet(P) /\ \A h \in Held : <<h.source, h.image>> \in P
  <2> DEFINE f == [h \in Held |-> <<h.source, h.image>>]
  <2>1. IsFiniteSet({f[h] : h \in Held})
    BY <1>0, ImageFinite
  <2> QED BY <2>1
<1>6. PICK P : IsFiniteSet(P) /\ \A h \in Held : <<h.source, h.image>> \in P
  BY <1>5
<1>7. \E S1 : IsFiniteSet(S1) /\ \A g \in Cached : entries[g].source \in S1
  <2> DEFINE f == [g \in Cached |-> entries[g].source]
  <2>1. IsFiniteSet({f[g] : g \in Cached})
    BY <1>0, ImageFinite
  <2> QED BY <2>1
<1>8. PICK S1 : IsFiniteSet(S1) /\ \A g \in Cached : entries[g].source \in S1
  BY <1>7
<1>9. \E P1 : IsFiniteSet(P1) /\ \A g \in Cached : <<entries[g].origin, entries[g].image>> \in P1
  <2> DEFINE f == [g \in Cached |-> <<entries[g].origin, entries[g].image>>]
  <2>1. IsFiniteSet({f[g] : g \in Cached})
    BY <1>0, ImageFinite
  <2> QED BY <2>1
<1>10. PICK P1 : IsFiniteSet(P1) /\ \A g \in Cached : <<entries[g].origin, entries[g].image>> \in P1
  BY <1>9
<1>11. IsFiniteSet(Sources)
  <2>1. Sources \in SUBSET (S \cup S1)
    BY <1>4, <1>8, Owners
  <2>2. IsFiniteSet(S \cup S1)
    BY <1>4, <1>8, FS_Union
  <2> QED BY <2>1, <2>2, FS_Subset
<1>12. IsFiniteSet(Rasters)
  <2>1. Rasters \in SUBSET (P \cup P1)
    BY <1>6, <1>10, Owners
  <2>2. IsFiniteSet(P \cup P1)
    BY <1>6, <1>10, FS_Union
  <2> QED BY <2>1, <2>2, FS_Subset
<1>13. IsFiniteSet(Slots)
  <2> DEFINE f == [r \in Rasters |-> r[1]]
             R == {f[r] : r \in Rasters}
  <2>1. IsFiniteSet(R)
    BY <1>12, ImageFinite
  <2>2. \A r \in Rasters : r[1] \in R
    OBVIOUS
  <2> HIDE DEF R
  <2>3. Slots \in SUBSET (Sources \cup S \cup R)
    BY <1>4, <2>2, Owners
  <2>4. IsFiniteSet(Sources \cup S \cup R)
    BY <1>4, <1>11, <2>1, FS_Union
  <2> QED BY <2>3, <2>4, FS_Subset
<1>14. Sources \subseteq Source_
  <2>1. \A s \in Sources : s \in Slots
    BY Owners
  <2> QED BY <2>1, SlotTyped
<1> QED BY <1>1, <1>2, <1>11, <1>12, <1>13, <1>14 DEF OwnersFinite

(* The budgets as sums over the owners. *)
Sums ==
    /\ Images = Cardinality(Slots) + Cardinality(Fillers)
    /\ Encoded = SumFunctionOnSet(Weight, Sources)
                 + SumFunctionOnSet(Extent(job), Readers)
    /\ Decoded = Pixels * Cardinality(Rasters) + Bound * Cardinality(Decoders)
                 + Derived * Cardinality(Loans)

(* Each budget as a sum over its owners. *)
LEMMA BudgetsAre ==
  ASSUME IInv
  PROVE  Sums
<1>1. Images = Cardinality(Slots) + Cardinality(Fillers)
  BY DEF Images, Fillers
<1>2. Decoded = Pixels * Cardinality(Rasters) + Bound * Cardinality(Decoders)
                + Derived * Cardinality(Loans)
  BY DEF Decoded, Decoders, Loans
<1>3. SumFunction([s \in Sources |-> Len(s.content)]) = SumFunctionOnSet(Weight, Sources)
  <2> DEFINE F == [s \in Sources |-> Len(s.content)]
  <2>1. \A s \in Sources : F[s] = Weight[s]
    BY FiniteOwners DEF Weight, OwnersFinite
  <2>2. SumFunctionOnSet(F, Sources) = SumFunctionOnSet(Weight, Sources)
    <3> HIDE DEF F
    <3> QED BY <2>1, SumAgree
  <2> QED BY <2>2 DEF SumFunction
<1>4. SumFunction([w \in {u \in Worker : Reading(u)} |-> job[w].length])
        = SumFunctionOnSet(Extent(job), Readers)
  <2> DEFINE F == [w \in Readers |-> job[w].length]
  <2>1. \A w \in Readers : F[w] = Extent(job)[w]
    BY DEF Extent, Readers
  <2>2. SumFunctionOnSet(F, Readers) = SumFunctionOnSet(Extent(job), Readers)
    <3> HIDE DEF F
    <3> QED BY <2>1, SumAgree
  <2> QED BY <2>2 DEF SumFunction, Readers
<1>5. Encoded = SumFunctionOnSet(Weight, Sources) + SumFunctionOnSet(Extent(job), Readers)
  BY <1>3, <1>4 DEF Encoded
<1> QED BY <1>1, <1>2, <1>5 DEF Sums

(* The weight of an image is a length. *)
LEMMA WeightTyped ==
  /\ \A s \in Source_ : Weight[s] \in Nat /\ Weight[s] = Len(s.content)
<1> SUFFICES ASSUME NEW s \in Source_ PROVE Weight[s] \in Nat /\ Weight[s] = Len(s.content)
  OBVIOUS
<1>1. s.content \in Seq(Nat)
  BY DEF Source_
<1> QED BY <1>1, LenProperties DEF Weight

(* The length of a reader is a length. *)
LEMMA ExtentTyped ==
  ASSUME IInv
  PROVE  \A w \in Readers : Extent(job)[w] \in Nat /\ Extent(job)[w] = job[w].length
<1> SUFFICES ASSUME NEW w \in Readers
             PROVE  Extent(job)[w] \in Nat /\ Extent(job)[w] = job[w].length
  OBVIOUS
<1>1. w \in Worker /\ pc[w] \in Gathers
  BY DEF Readers, Reading, Gathers
<1>2. job[w].length \in Nat
  BY <1>1, Gathering
<1> QED BY <1>1, <1>2 DEF Extent

(* A product of lengths is a length, and grows with each. *)
LEMMA Products ==
  ASSUME NEW p \in Nat, NEW a \in Nat, NEW b \in Nat
  PROVE  /\ p * a \in Nat
         /\ a <= b => p * a <= p * b
         /\ a + 1 <= b => p * a + p <= p * b
         /\ a <= b + 1 => p * a <= p * b + p
OBVIOUS

(* The same after a step. *)
LEMMA OwnersNext == IInv' => OwnersFinite'
<1>1. IInv => OwnersFinite
  BY FiniteOwners
<1> QED BY <1>1, PTL

(* The budgets as sums, after a step. *)
LEMMA BudgetsNext == IInv' => Sums'
<1>1. IInv => Sums
  BY BudgetsAre
<1> QED BY <1>1, PTL

(* The budgets are numbers. *)
Numbers ==
    /\ Images \in Nat /\ Encoded \in Nat /\ Decoded \in Nat
    /\ Cardinality(Slots) \in Nat /\ Cardinality(Fillers) \in Nat
    /\ Cardinality(Rasters) \in Nat /\ Cardinality(Decoders) \in Nat
    /\ Cardinality(Loans) \in Nat /\ Cardinality(Renders) \in Nat
    /\ SumFunctionOnSet(Weight, Sources) \in Nat
    /\ SumFunctionOnSet(Extent(job), Readers) \in Nat

(* The budgets are lengths. *)
LEMMA BudgetsTyped ==
  ASSUME IInv
  PROVE  Numbers
<1>1. /\ Cardinality(Slots) \in Nat /\ Cardinality(Fillers) \in Nat
      /\ Cardinality(Rasters) \in Nat /\ Cardinality(Decoders) \in Nat
      /\ Cardinality(Loans) \in Nat /\ Cardinality(Renders) \in Nat
  BY FiniteOwners, FS_CardinalityType DEF OwnersFinite
<1>2. SumFunctionOnSet(Weight, Sources) \in Nat /\ SumFunctionOnSet(Extent(job), Readers) \in Nat
  <2>1. \A s \in Sources : Weight[s] \in Nat
    BY FiniteOwners, WeightTyped DEF OwnersFinite
  <2>2. \A w \in Readers : Extent(job)[w] \in Nat
    BY ExtentTyped
  <2>3. Sources \in SUBSET Sources /\ Readers \in SUBSET Readers
    OBVIOUS
  <2>4. SumFunctionOnSet(Weight, Sources) \in Nat
    BY <2>1, <2>3, FiniteOwners, SumOfPart DEF OwnersFinite
  <2>5. SumFunctionOnSet(Extent(job), Readers) \in Nat
    BY <2>2, <2>3, FiniteOwners, SumOfPart DEF OwnersFinite
  <2> QED BY <2>4, <2>5
<1>3. /\ Pixels * Cardinality(Rasters) \in Nat /\ Bound * Cardinality(Decoders) \in Nat
      /\ Derived * Cardinality(Loans) \in Nat
  BY <1>1, Products, CacheAssumption
<1> QED BY <1>1, <1>2, <1>3, BudgetsAre DEF Sums, Numbers

(* ... and after a step. *)
LEMMA NumbersNext == IInv' => Numbers'
<1>1. IInv => Numbers
  BY BudgetsTyped
<1> QED BY <1>1, PTL

(* No budget grows when its owners are among those that were.              *)
LEMMA ImagesLess ==
  ASSUME IInv, IInv', Slots' \subseteq Slots, Fillers' \subseteq Fillers
  PROVE  Images' <= Images
<1>1. Cardinality(Slots') <= Cardinality(Slots)
  BY FiniteOwners, SizeOfPart DEF OwnersFinite
<1>2. Cardinality(Fillers') <= Cardinality(Fillers)
  BY FiniteOwners, SizeOfPart DEF OwnersFinite
<1>3. Images = Cardinality(Slots) + Cardinality(Fillers)
  BY BudgetsAre DEF Sums
<1>4. Images' = Cardinality(Slots') + Cardinality(Fillers')
  BY BudgetsNext DEF Sums
<1>5. /\ Cardinality(Slots) \in Nat /\ Cardinality(Fillers) \in Nat
      /\ Cardinality(Slots') \in Nat /\ Cardinality(Fillers') \in Nat
  BY BudgetsTyped, NumbersNext DEF Numbers
<1> QED BY <1>1, <1>2, <1>3, <1>4, <1>5

(* The lengths of the readers, after a step that keeps those it keeps. *)
LEMMA ExtentKept ==
  ASSUME IInv, IInv', NEW R, \A w \in Readers' : w \in R /\ job'[w].length = Extent(job)[w]
  PROVE  /\ SumFunctionOnSet(Extent(job'), Readers') = SumFunctionOnSet(Extent(job), Readers')
         /\ Readers' \in SUBSET R
<1>1. \A w \in Readers' : Extent(job')[w] = Extent(job)[w]
  <2> TAKE w \in Readers'
  <2>1. w \in Worker
    BY DEF Readers
  <2>2. Extent(job')[w] = job'[w].length
    BY <2>1 DEF Extent
  <2> QED BY <2>2
<1>2. SumFunctionOnSet(Extent(job'), Readers') = SumFunctionOnSet(Extent(job), Readers')
  BY <1>1, SumAgree
<1> QED BY <1>2

(* The encoded budget does not grow when no owner of bytes is new. *)
LEMMA EncodedLess ==
  ASSUME IInv, IInv', Sources' \subseteq Sources, Readers' \subseteq Readers,
         \A w \in Readers' : job'[w].length = job[w].length
  PROVE  Encoded' <= Encoded
<1>1. /\ SumFunctionOnSet(Weight, Sources') <= SumFunctionOnSet(Weight, Sources)
      /\ SumFunctionOnSet(Weight, Sources') \in Nat
      /\ SumFunctionOnSet(Weight, Sources) \in Nat
  <2>1. \A s \in Sources : Weight[s] \in Nat
    BY FiniteOwners, WeightTyped DEF OwnersFinite
  <2>2. Sources' \in SUBSET Sources /\ Sources \in SUBSET Sources
    OBVIOUS
  <2> QED BY <2>1, <2>2, FiniteOwners, SumOfPart DEF OwnersFinite
<1>2. /\ SumFunctionOnSet(Extent(job'), Readers') <= SumFunctionOnSet(Extent(job), Readers)
      /\ SumFunctionOnSet(Extent(job'), Readers') \in Nat
      /\ SumFunctionOnSet(Extent(job), Readers) \in Nat
  <2>1. \A w \in Readers : Extent(job)[w] \in Nat /\ Extent(job)[w] = job[w].length
    BY ExtentTyped
  <2>2. \A w \in Readers' : w \in Readers /\ job'[w].length = Extent(job)[w]
    BY <2>1
  <2>3. /\ SumFunctionOnSet(Extent(job'), Readers') = SumFunctionOnSet(Extent(job), Readers')
        /\ Readers' \in SUBSET Readers
    BY <2>2, ExtentKept
  <2>4. Readers \in SUBSET Readers
    OBVIOUS
  <2>5. /\ SumFunctionOnSet(Extent(job), Readers') <= SumFunctionOnSet(Extent(job), Readers)
        /\ SumFunctionOnSet(Extent(job), Readers') \in Nat
        /\ SumFunctionOnSet(Extent(job), Readers) \in Nat
    BY <2>1, <2>3, <2>4, FiniteOwners, SumOfPart DEF OwnersFinite
  <2> QED BY <2>3, <2>5
<1>3. Encoded = SumFunctionOnSet(Weight, Sources) + SumFunctionOnSet(Extent(job), Readers)
  BY BudgetsAre DEF Sums
<1>4. Encoded' = SumFunctionOnSet(Weight, Sources') + SumFunctionOnSet(Extent(job'), Readers')
  BY BudgetsNext DEF Sums
<1> QED BY <1>1, <1>2, <1>3, <1>4

(* The three parts of the decoded budget. *)
LEMMA DecodedParts ==
  ASSUME IInv, IInv'
  PROVE  /\ Cardinality(Rasters) \in Nat /\ Cardinality(Decoders) \in Nat
         /\ Cardinality(Loans) \in Nat /\ Cardinality(Renders) \in Nat
         /\ Cardinality(Rasters') \in Nat /\ Cardinality(Decoders') \in Nat
         /\ Cardinality(Loans') \in Nat /\ Cardinality(Renders') \in Nat
         /\ Decoded = Pixels * Cardinality(Rasters) + Bound * Cardinality(Decoders)
                      + Derived * Cardinality(Loans)
         /\ Decoded' = Pixels * Cardinality(Rasters') + Bound * Cardinality(Decoders')
                       + Derived * Cardinality(Loans')
         /\ Pixels \in Nat /\ Bound \in Nat /\ Derived \in Nat /\ MaxDecoded \in Nat
         /\ MaxSequences \in Nat /\ Pixels <= Bound
<1>1. /\ Cardinality(Rasters) \in Nat /\ Cardinality(Decoders) \in Nat
      /\ Cardinality(Loans) \in Nat /\ Cardinality(Renders) \in Nat
  BY BudgetsTyped DEF Numbers
<1>2. /\ Cardinality(Rasters') \in Nat /\ Cardinality(Decoders') \in Nat
      /\ Cardinality(Loans') \in Nat /\ Cardinality(Renders') \in Nat
  BY NumbersNext DEF Numbers
<1>3. Decoded = Pixels * Cardinality(Rasters) + Bound * Cardinality(Decoders)
                + Derived * Cardinality(Loans)
  BY BudgetsAre DEF Sums
<1>4. Decoded' = Pixels * Cardinality(Rasters') + Bound * Cardinality(Decoders')
                 + Derived * Cardinality(Loans')
  BY BudgetsNext DEF Sums
<1> QED BY <1>1, <1>2, <1>3, <1>4, CacheAssumption

(* The decoded budget does not grow when no owner of pixels is new. *)
LEMMA DecodedLess ==
  ASSUME IInv, IInv', Rasters' \subseteq Rasters, Decoders' \subseteq Decoders,
         Loans' \subseteq Loans
  PROVE  Decoded' <= Decoded
<1>1. /\ Cardinality(Rasters') <= Cardinality(Rasters)
      /\ Cardinality(Decoders') <= Cardinality(Decoders)
      /\ Cardinality(Loans') <= Cardinality(Loans)
  BY FiniteOwners, SizeOfPart DEF OwnersFinite
<1>2. /\ Pixels * Cardinality(Rasters') <= Pixels * Cardinality(Rasters)
      /\ Pixels * Cardinality(Rasters') \in Nat /\ Pixels * Cardinality(Rasters) \in Nat
  BY <1>1, DecodedParts, Products
<1>3. /\ Bound * Cardinality(Decoders') <= Bound * Cardinality(Decoders)
      /\ Bound * Cardinality(Decoders') \in Nat /\ Bound * Cardinality(Decoders) \in Nat
  BY <1>1, DecodedParts, Products
<1>4. /\ Derived * Cardinality(Loans') <= Derived * Cardinality(Loans)
      /\ Derived * Cardinality(Loans') \in Nat /\ Derived * Cardinality(Loans) \in Nat
  BY <1>1, DecodedParts, Products
<1> QED BY <1>2, <1>3, <1>4, DecodedParts

(* A loan more. *)
LEMMA DecodedGrows ==
  ASSUME IInv, IInv',
         Cardinality(Rasters') <= Cardinality(Rasters),
         Cardinality(Decoders') <= Cardinality(Decoders),
         Cardinality(Loans') <= Cardinality(Loans) + 1
  PROVE  Decoded' <= Decoded + Derived
<1>1. /\ Pixels * Cardinality(Rasters') <= Pixels * Cardinality(Rasters)
      /\ Pixels * Cardinality(Rasters') \in Nat /\ Pixels * Cardinality(Rasters) \in Nat
  BY DecodedParts, Products
<1>2. /\ Bound * Cardinality(Decoders') <= Bound * Cardinality(Decoders)
      /\ Bound * Cardinality(Decoders') \in Nat /\ Bound * Cardinality(Decoders) \in Nat
  BY DecodedParts, Products
<1>3. /\ Derived * Cardinality(Loans') <= Derived * Cardinality(Loans) + Derived
      /\ Derived * Cardinality(Loans') \in Nat /\ Derived * Cardinality(Loans) \in Nat
  BY DecodedParts, Products
<1> QED BY <1>1, <1>2, <1>3, DecodedParts

(* The rendered pixels are those of the leases. *)
LEMMA RendersLess ==
  ASSUME IInv, IInv', Renders' \subseteq Renders
  PROVE  Cardinality(Renders') <= Cardinality(Renders)
BY FiniteOwners, SizeOfPart DEF OwnersFinite

(* What the phases of the workers can become. *)
LEMMA PhasesLess ==
  ASSUME NEW w \in Worker, Quiet(w), HoldsSlot(w)' => HoldsSlot(w),
         Reading(w)' => Reading(w) /\ job'[w].length = job[w].length,
         Decoding(w)' => Decoding(w)
  PROVE  /\ Fillers' \subseteq Fillers /\ Readers' \subseteq Readers
         /\ Decoders' \subseteq Decoders
         /\ \A u \in Readers' : job'[u].length = job[u].length
<1>1. \A u \in Worker \ {w} : /\ HoldsSlot(u)' <=> HoldsSlot(u)
                              /\ Reading(u)' <=> Reading(u)
                              /\ Decoding(u)' <=> Decoding(u)
                              /\ job'[u].length = job[u].length
  BY DEF Quiet, HoldsSlot, Reading, Decoding
<1>2. Fillers' \subseteq Fillers
  BY <1>1 DEF Fillers
<1>3. Readers' \subseteq Readers /\ \A u \in Readers' : job'[u].length = job[u].length
  BY <1>1 DEF Readers
<1>4. Decoders' \subseteq Decoders
  BY <1>1 DEF Decoders
<1> QED BY <1>2, <1>3, <1>4

(* The loans of workers that are in no new phase. *)
LEMMA LoansLess ==
  ASSUME \A h \in Held' : h \in Held \/ h.kind \notin {"derived", "sequence"}
  PROVE  Loans' \subseteq Loans /\ Renders' \subseteq Renders
BY DEF Loans, Renders, Charged

(* Budgets that did not grow are kept. *)
LEMMA BudgetsFollow ==
  ASSUME IInv, IInv', BudgetsKept, Images' <= Images, Encoded' <= Encoded, Decoded' <= Decoded,
         Cardinality(Renders') <= Cardinality(Renders)
  PROVE  BudgetsKept'
<1>1. Images \in Nat /\ Encoded \in Nat /\ Decoded \in Nat /\ Cardinality(Renders) \in Nat
  BY BudgetsTyped DEF Numbers
<1>2. Images' \in Nat /\ Encoded' \in Nat /\ Decoded' \in Nat /\ Cardinality(Renders') \in Nat
  BY NumbersNext DEF Numbers
<1>3. MaxImages \in Nat /\ MaxEncoded \in Nat /\ MaxDecoded \in Nat /\ MaxSequences \in Nat
  BY CacheAssumption
<1>4. /\ Images <= MaxImages /\ Encoded <= MaxEncoded /\ Decoded <= MaxDecoded
      /\ Cardinality(Renders) <= MaxSequences
  BY DEF BudgetsKept, Renders
<1>5. BudgetsKept' <=> /\ Images' <= MaxImages /\ Encoded' <= MaxEncoded /\ Decoded' <= MaxDecoded
                       /\ Cardinality(Renders') <= MaxSequences
  BY DEF BudgetsKept, Renders
<1> QED BY <1>1, <1>2, <1>3, <1>4, <1>5

(* A step whose owners are those of before, or fewer, keeps the budgets. *)
LEMMA BudgetsLess ==
  ASSUME IInv, IInv', EntriesKept,
         \A h \in Held' : h \in Held \/ (Fits(h) /\ h.kind \notin {"derived", "sequence"}),
         Fillers' \subseteq Fillers, Readers' \subseteq Readers, Decoders' \subseteq Decoders,
         \A u \in Readers' : job'[u].length = job[u].length
  PROVE  /\ Decoded' <= Decoded /\ Cardinality(Renders') <= Cardinality(Renders)
         /\ BudgetsKept => BudgetsKept'
<1>1. Sources' \subseteq Sources /\ Rasters' \subseteq Rasters /\ Slots' \subseteq Slots
  <2>1. \A h \in Held' : h \in Held \/ Fits(h)
    OBVIOUS
  <2> QED BY <2>1, Settled DEF IInv
<1>2. Loans' \subseteq Loans /\ Renders' \subseteq Renders
  BY LoansLess
<1>3. /\ Images' <= Images /\ Encoded' <= Encoded /\ Decoded' <= Decoded
      /\ Cardinality(Renders') <= Cardinality(Renders)
  BY <1>1, <1>2, ImagesLess, EncodedLess, DecodedLess, RendersLess
<1> QED BY <1>3, BudgetsFollow

-----------------------------------------------------------------------------
(* While a worker charges a sequence render it is inside the mutex, what it*)
(* may evict stays unpinned, and what that frees covers the charge.        *)
ChargeOf(w) ==
    /\ lock = w
    /\ job[w].victims \subseteq Reclaimable
    /\ Derived <= MaxDecoded
    /\ Cardinality(Renders) < MaxSequences
    /\ Decoded - (MaxDecoded - Derived) <= Pixels * Cardinality(job[w].victims)
ChargeInv == \A w \in Worker : pc[w] = "charge" => ChargeOf(w)

Inv == IInv /\ BudgetsKept /\ ChargeInv

(* Who is in the mutex keeps the others out. *)
LEMMA LockedOut ==
  ASSUME ChargeInv, NEW w \in Worker, lock \in {NoOne, w}, pc[w] # "charge"
  PROVE  \A u \in Worker : pc[u] # "charge"
BY CacheAssumption DEF ChargeInv, ChargeOf

(* Outside the mutex nobody charges. *)
LEMMA Unlocked ==
  ASSUME ChargeInv, NotLocked
  PROVE  \A u \in Worker : pc[u] # "charge"
BY CacheAssumption DEF ChargeInv, ChargeOf, NotLocked

(* A step that ends outside the mutex leaves no charge. *)
LEMMA NoCharge ==
  ASSUME \A u \in Worker : pc'[u] # "charge"
  PROVE  ChargeInv'
BY DEF ChargeInv

(* No entry is pinned anew by a step that adds no lease. *)
LEMMA PinsLess ==
  ASSUME Held' \subseteq Held, NEW f, entries'[f] = entries[f], Unpinned(f)
  PROVE  Unpinned(f)'
<1>1. HeldBytes' \subseteq HeldBytes
  BY DEF HeldBytes
<1>2. HeldPixels' \subseteq HeldPixels
  BY DEF HeldPixels
<1> QED BY <1>1, <1>2 DEF Unpinned

(* The victims are finitely many. *)
LEMMA VictimsFinite ==
  ASSUME IInv, NEW w \in Worker, job[w].victims \subseteq Reclaimable
  PROVE  IsFiniteSet(job[w].victims) /\ Cardinality(job[w].victims) \in Nat
<1>1. job[w].victims \in SUBSET Cached
  BY DEF Reclaimable
<1> QED BY <1>1, SizeOfPart DEF IInv, FiniteInv

(* A charge goes on when another worker steps outside the mutex. *)
LEMMA ChargesGoOn ==
  ASSUME IInv, IInv', ChargeInv, entries' = entries, lock' = lock,
         \A f \in Reclaimable : Unpinned(f)',
         \A u \in Worker : pc'[u] = "charge" => pc[u] = "charge" /\ job'[u] = job[u],
         Decoded' <= Decoded, Cardinality(Renders') <= Cardinality(Renders)
  PROVE  ChargeInv'
<1> SUFFICES ASSUME NEW w \in Worker, pc'[w] = "charge"
             PROVE  ChargeOf(w)'
  BY DEF ChargeInv
<1>1. pc[w] = "charge" /\ job'[w] = job[w] /\ ChargeOf(w)
  BY DEF ChargeInv
<1>2. Cached' = Cached
  BY DEF Cached
<1>3. Reclaimable \subseteq Reclaimable'
  BY <1>2 DEF Reclaimable
<1>4. Cardinality(job[w].victims) \in Nat
  BY <1>1, VictimsFinite DEF ChargeOf
<1>5. Decoded' - (MaxDecoded - Derived) <= Pixels * Cardinality(job[w].victims)
  <2>1. Pixels * Cardinality(job[w].victims) \in Nat
    BY <1>4, Products, CacheAssumption
  <2>2. Decoded \in Nat /\ Decoded' \in Nat /\ MaxDecoded \in Nat /\ Derived \in Nat
    BY BudgetsTyped, NumbersNext, CacheAssumption DEF Numbers
  <2> QED BY <1>1, <2>1, <2>2 DEF ChargeOf
<1>6. Cardinality(Renders') < MaxSequences
  <2>1. Cardinality(Renders) \in Nat /\ Cardinality(Renders') \in Nat /\ MaxSequences \in Nat
    BY BudgetsTyped, NumbersNext, CacheAssumption DEF Numbers
  <2> QED BY <1>1, <2>1 DEF ChargeOf
<1> QED BY <1>1, <1>3, <1>5, <1>6 DEF ChargeOf

(* A step of w outside the mutex, that adds nothing.                       *)
LEMMA HeldStep ==
  ASSUME Inv, IInv', entries' = entries, lock' = lock, Held' \subseteq Held,
         NEW w \in Worker, Quiet(w), HoldsSlot(w)' => HoldsSlot(w),
         Reading(w)' => Reading(w) /\ job'[w].length = job[w].length,
         Decoding(w)' => Decoding(w), pc'[w] # "charge"
  PROVE  BudgetsKept' /\ ChargeInv'
<1> USE DEF Inv
<1>1. EntriesKept
  BY SameEntries DEF IInv
<1>2. /\ Fillers' \subseteq Fillers /\ Readers' \subseteq Readers
      /\ Decoders' \subseteq Decoders
      /\ \A u \in Readers' : job'[u].length = job[u].length
  BY PhasesLess
<1>3. /\ Decoded' <= Decoded /\ Cardinality(Renders') <= Cardinality(Renders)
      /\ BudgetsKept'
  BY <1>1, <1>2, BudgetsLess
<1>4. \A f \in Reclaimable : Unpinned(f)'
  BY PinsLess DEF Reclaimable
<1>5. \A u \in Worker : pc'[u] = "charge" => pc[u] = "charge" /\ job'[u] = job[u]
  BY DEF Quiet
<1>6. ChargeInv'
  BY <1>3, <1>4, <1>5, ChargesGoOn
<1> QED BY <1>3, <1>6

(* A step of w with nobody else in the mutex, that adds nothing.           *)
LEMMA LockStep ==
  ASSUME Inv, IInv', NEW w \in Worker, Gentle(w), lock \in {NoOne, w},
         HoldsSlot(w)' => HoldsSlot(w),
         Reading(w)' => Reading(w) /\ job'[w].length = job[w].length,
         Decoding(w)' => Decoding(w), pc[w] # "charge", pc'[w] # "charge"
  PROVE  BudgetsKept' /\ ChargeInv'
<1> USE DEF Inv
<1>1. EntriesKept /\ Quiet(w)
  BY DEF Gentle
<1>2. /\ Fillers' \subseteq Fillers /\ Readers' \subseteq Readers
      /\ Decoders' \subseteq Decoders
      /\ \A u \in Readers' : job'[u].length = job[u].length
  BY <1>1, PhasesLess
<1>3. BudgetsKept'
  BY <1>1, <1>2, BudgetsLess DEF Gentle
<1>4. \A u \in Worker : pc[u] # "charge"
  BY LockedOut
<1>5. \A u \in Worker : pc'[u] # "charge"
  BY <1>1, <1>4 DEF Quiet
<1> QED BY <1>3, <1>5, NoCharge

(* The job of a worker ends, and what it gives is owned already.           *)
LEMMA EndBudget ==
  ASSUME Inv, IInv', NEW w \in Worker, End(w), lock' = lock, entries' = entries,
         Held' \subseteq Held
  PROVE  BudgetsKept' /\ ChargeInv'
<1>1. Quiet(w) /\ pc'[w] = "idle"
  BY EndIs DEF Inv, IInv
<1> QED BY <1>1, HeldStep DEF HoldsSlot, Reading, Decoding, Filling

(* Open keeps the budgets. *)
LEMMA OpenBudget ==
  ASSUME Inv, IInv', NEW w \in Worker, NEW f \in File, NEW want \in {"bytes", "image"},
         Open(w, f, want)
  PROVE  BudgetsKept' /\ ChargeInv'
<1>1. Gentle(w) /\ pc'[w] \in {"loaded", "slot"}
  BY OpenKeeps DEF Inv
<1>2. pc[w] = "idle" /\ lock = NoOne
  BY DEF Open, Lookup, NotLocked
<1> QED BY <1>1, <1>2, LockStep DEF HoldsSlot, Reading, Decoding, Filling

(* Evict keeps the budgets. *)
LEMMA EvictBudget ==
  ASSUME Inv, IInv', NEW w \in Worker, Evict(w)
  PROVE  BudgetsKept' /\ ChargeInv'
<1> DEFINE f == Oldest(Evictable(Cached))
<1>1. /\ Forget(f) /\ Reserving(w) /\ lock \in {NoOne, w}
      /\ UNCHANGED <<disk, pc, job, mine, leases, reads, decodes>>
  BY DEF Evict, Enters
<1> HIDE DEF f
<1>2. EntriesKept
  BY <1>1, ForgetIs DEF Inv, IInv
<1>3. Held' \subseteq Held
  BY <1>1, SameHeld
<1>4. Gentle(w)
  BY <1>1, <1>2, <1>3 DEF Gentle, Quiet
<1>5. pc[w] # "charge" /\ pc'[w] = pc[w]
  BY <1>1 DEF Reserving
<1> QED BY <1>1, <1>4, <1>5, LockStep DEF HoldsSlot, Reading, Decoding

(* Refuse keeps the budgets. *)
LEMMA RefuseBudget ==
  ASSUME Inv, IInv', NEW w \in Worker, Refuse(w)
  PROVE  BudgetsKept' /\ ChargeInv'
<1>1. /\ End(w) /\ Reserving(w) /\ lock \in {NoOne, w}
      /\ UNCHANGED <<disk, entries, order, leases, reads, decodes>>
  BY DEF Refuse, Enters
<1>2. Quiet(w) /\ pc'[w] = "idle"
  BY <1>1, EndIs DEF Inv, IInv
<1>3. Held' \subseteq Held
  <2>1. mine' = [mine EXCEPT ![w] = {}] /\ leases' \subseteq leases \cup {}
    BY <1>1 DEF End
  <2>2. Held' \subseteq Held \cup {} \cup {}
    BY <2>1, HeldAfter DEF Inv, IInv
  <2> QED BY <2>2
<1>4. EntriesKept
  BY <1>1, SameEntries DEF Inv, IInv
<1>5. Gentle(w)
  BY <1>2, <1>3, <1>4 DEF Gentle
<1>6. pc[w] # "charge"
  BY <1>1 DEF Reserving
<1> QED BY <1>1, <1>2, <1>5, <1>6, LockStep DEF HoldsSlot, Reading, Decoding, Filling

(* The last part: nothing but one budget grows.                            *)
LEMMA AdmitBudget ==
  ASSUME Inv, IInv', NEW w \in Worker, Admit(w)
  PROVE  BudgetsKept' /\ ChargeInv'
<1> USE DEF Inv
<1>1. /\ Reserving(w) /\ lock \in {NoOne, w} /\ Room(Kind(w)) >= Amount(w)
      /\ UNCHANGED <<disk, entries, order, reads, decodes>>
  BY DEF Admit, Enters
<1>2. pc[w] # "charge" /\ \A u \in Worker : pc[u] # "charge"
  BY <1>1, LockedOut DEF Reserving
<1>3. EntriesKept
  BY <1>1, SameEntries DEF IInv
<1>4. /\ Images \in Nat /\ Encoded \in Nat /\ Decoded \in Nat /\ Cardinality(Renders) \in Nat
      /\ Images' \in Nat /\ Encoded' \in Nat /\ Decoded' \in Nat
      /\ Cardinality(Renders') \in Nat
      /\ MaxImages \in Nat /\ MaxEncoded \in Nat /\ MaxDecoded \in Nat /\ MaxSequences \in Nat
      /\ Bound \in Nat /\ Derived \in Nat
  BY BudgetsTyped, NumbersNext, CacheAssumption DEF Numbers
<1>5. /\ Images <= MaxImages /\ Encoded <= MaxEncoded /\ Decoded <= MaxDecoded
      /\ Cardinality(Renders) <= MaxSequences
  BY DEF BudgetsKept, Renders
<1>6. (/\ Images' <= MaxImages /\ Encoded' <= MaxEncoded /\ Decoded' <= MaxDecoded
       /\ Cardinality(Renders') <= MaxSequences) => BudgetsKept'
  BY DEF BudgetsKept, Renders
<1>7. CASE pc[w] \in {"slot", "encoded", "decode"} /\ UNCHANGED <<job, mine, leases>>
           /\ \E l \in Labels : Goto(w, l) /\ l # "charge"
  <2>1. PICK l \in Labels : Goto(w, l) /\ l # "charge"
    BY <1>7
  <2>2. /\ pc'[w] = l /\ \A u \in Worker \ {w} : pc'[u] = pc[u]
    BY <2>1, GotoIs DEF IInv
  <2>3. ChargeInv'
    BY <1>2, <2>1, <2>2, NoCharge
  <2>4. Held' \subseteq Held
    BY <1>7, SameHeld
  <2>5. Sources' \subseteq Sources /\ Rasters' \subseteq Rasters /\ Slots' \subseteq Slots
    <3>1. \A h \in Held' : h \in Held \/ Fits(h)
      BY <2>4
    <3> QED BY <1>3, <3>1, Settled DEF IInv
  <2>6. Loans' \subseteq Loans /\ Renders' \subseteq Renders
    BY <2>4, LoansLess
  <2>7. Cardinality(Renders') <= MaxSequences
    BY <2>6, <1>4, <1>5, RendersLess
  <2>8. CASE pc[w] = "slot" /\ l = "encoded"
    <3>1. Readers' \subseteq Readers /\ Decoders' \subseteq Decoders /\ Fillers' \subseteq Fillers \cup {w}
      BY <2>2, <2>8 DEF Readers, Decoders, Fillers, Reading, Decoding, HoldsSlot, Filling
    <3>2. Encoded' <= Encoded /\ Decoded' <= Decoded
      BY <1>7, <2>5, <2>6, <3>1, EncodedLess, DecodedLess
    <3>3. Images' <= Images + 1
      <4>1. Cardinality(Slots') <= Cardinality(Slots)
        BY <2>5, FiniteOwners, SizeOfPart DEF OwnersFinite
      <4>2. Cardinality(Fillers') <= Cardinality(Fillers) + 1
        BY <3>1, FiniteOwners, SizeOfMore DEF OwnersFinite
      <4>3. Images = Cardinality(Slots) + Cardinality(Fillers)
        BY BudgetsAre DEF Sums
      <4>4. Images' = Cardinality(Slots') + Cardinality(Fillers')
        BY BudgetsNext DEF Sums
      <4>5. /\ Cardinality(Slots) \in Nat /\ Cardinality(Fillers) \in Nat
            /\ Cardinality(Slots') \in Nat /\ Cardinality(Fillers') \in Nat
        BY BudgetsTyped, NumbersNext DEF Numbers
      <4> QED BY <4>1, <4>2, <4>3, <4>4, <4>5
    <3>4. MaxImages - Images >= 1
      BY <1>1, <2>8 DEF Room, Kind, Amount, Limit
    <3> QED BY <1>4, <1>5, <1>6, <2>3, <2>7, <3>2, <3>3, <3>4
  <2>9. CASE pc[w] = "encoded" /\ l \in {"read", "stamp"}
    <3>1. Readers' \subseteq Readers \cup {w} /\ Decoders' \subseteq Decoders /\ Fillers' \subseteq Fillers
      BY <2>2, <2>9 DEF Readers, Decoders, Fillers, Reading, Decoding, HoldsSlot, Filling
    <3>2. Images' <= Images /\ Decoded' <= Decoded
      BY <2>5, <2>6, <3>1, ImagesLess, DecodedLess
    <3>3. job[w].length \in Nat /\ Extent(job)[w] = job[w].length
      BY <2>9, Gathering DEF Gathers, Extent
    <3>4. Encoded' <= Encoded + job[w].length
      <4>1. SumFunctionOnSet(Weight, Sources') <= SumFunctionOnSet(Weight, Sources)
        <5>1. \A s \in Sources : Weight[s] \in Nat
          BY FiniteOwners, WeightTyped DEF OwnersFinite
        <5> QED BY <2>5, <5>1, FiniteOwners, SumOfPart DEF OwnersFinite
      <4>2. /\ SumFunctionOnSet(Extent(job), Readers') <= SumFunctionOnSet(Extent(job), Readers) + job[w].length
        <5>1. \A u \in Readers \cup {w} : Extent(job)[u] \in Nat
          BY <3>3, ExtentTyped
        <5> QED BY <3>1, <3>3, <5>1, FiniteOwners, SumOfMore DEF OwnersFinite
      <4>3. SumFunctionOnSet(Extent(job'), Readers') = SumFunctionOnSet(Extent(job), Readers')
        BY <1>7
      <4>4. Encoded = SumFunctionOnSet(Weight, Sources) + SumFunctionOnSet(Extent(job), Readers)
        BY BudgetsAre DEF Sums
      <4>5. Encoded' = SumFunctionOnSet(Weight, Sources') + SumFunctionOnSet(Extent(job'), Readers')
        BY BudgetsNext DEF Sums
      <4>6. /\ SumFunctionOnSet(Weight, Sources) \in Nat /\ SumFunctionOnSet(Extent(job), Readers) \in Nat
            /\ SumFunctionOnSet(Weight, Sources') \in Nat /\ SumFunctionOnSet(Extent(job'), Readers') \in Nat
        BY BudgetsTyped, NumbersNext DEF Numbers
      <4> QED BY <3>3, <4>1, <4>2, <4>3, <4>4, <4>5, <4>6
    <3>5. MaxEncoded - Encoded >= job[w].length
      BY <1>1, <2>9 DEF Room, Kind, Amount, Limit
    <3> QED BY <1>4, <1>5, <1>6, <2>3, <2>7, <3>2, <3>3, <3>4, <3>5
  <2>10. CASE pc[w] = "decode" /\ l = "decoding"
    <3>1. Readers' \subseteq Readers /\ Decoders' \subseteq Decoders \cup {w} /\ Fillers' \subseteq Fillers
      BY <2>2, <2>10 DEF Readers, Decoders, Fillers, Reading, Decoding, HoldsSlot, Filling
    <3>2. Images' <= Images /\ Encoded' <= Encoded
      BY <1>7, <2>5, <3>1, ImagesLess, EncodedLess
    <3>3. Decoded' <= Decoded + Bound
      <4>1. /\ Cardinality(Rasters') <= Cardinality(Rasters)
            /\ Cardinality(Loans') <= Cardinality(Loans)
        BY <2>5, <2>6, FiniteOwners, SizeOfPart DEF OwnersFinite
      <4>2. Cardinality(Decoders') <= Cardinality(Decoders) + 1
        BY <3>1, FiniteOwners, SizeOfMore DEF OwnersFinite
      <4>3. /\ Pixels * Cardinality(Rasters') <= Pixels * Cardinality(Rasters)
            /\ Pixels * Cardinality(Rasters') \in Nat /\ Pixels * Cardinality(Rasters) \in Nat
        BY <4>1, DecodedParts, Products
      <4>4. /\ Bound * Cardinality(Decoders') <= Bound * Cardinality(Decoders) + Bound
            /\ Bound * Cardinality(Decoders') \in Nat /\ Bound * Cardinality(Decoders) \in Nat
        BY <4>2, DecodedParts, Products
      <4>5. /\ Derived * Cardinality(Loans') <= Derived * Cardinality(Loans)
            /\ Derived * Cardinality(Loans') \in Nat /\ Derived * Cardinality(Loans) \in Nat
        BY <4>1, DecodedParts, Products
      <4> QED BY <4>3, <4>4, <4>5, DecodedParts
    <3>4. MaxDecoded - Decoded >= Bound
      BY <1>1, <2>10 DEF Room, Kind, Amount, Limit
    <3> QED BY <1>4, <1>5, <1>6, <2>3, <2>7, <3>2, <3>3, <3>4
  <2>11. (/\ pc[w] = "slot" /\ l = "encoded") \/ (pc[w] = "encoded" /\ l \in {"read", "stamp"})
           \/ (pc[w] = "decode" /\ l = "decoding")
    <3>1. \/ pc[w] = "slot" /\ Goto(w, "encoded")
          \/ pc[w] = "encoded" /\ Goto(w, NextChunk(w, 0))
          \/ pc[w] = "decode" /\ Goto(w, "decoding")
      BY <1>7 DEF Admit
    <3>2. \A k : Goto(w, k) => pc'[w] = k
      BY DEF Goto, IInv, TypeOK
    <3> QED BY <2>2, <3>1, <3>2 DEF NextChunk
  <2> QED BY <2>8, <2>9, <2>10, <2>11
<1>8. CASE /\ pc[w] = "derive"
           /\ \E h \in mine[w] : \E i \in Fresh("derived", h.source) :
                Give(w, Lease("derived", h.source, h.image, i))
  <2>1. PICK h \in mine[w], i \in 1..MaxLeases : Give(w, Lease("derived", h.source, h.image, i))
    BY <1>8 DEF Fresh
  <2>2. PICK n : n = Lease("derived", h.source, h.image, i)
    OBVIOUS
  <2>3. h \in Held /\ h \in Lease_ /\ h.source \in Source_ /\ h.image \in Nat /\ i \in Nat
    BY <2>1, HeldTyped, LeaseTyped DEF IInv
  <2>4. n \in Lease_ /\ n.kind = "derived" /\ n.source = h.source
    BY <2>2, <2>3, LeaseIs DEF Kinds
  <2>5. Fits(n)
    BY <2>3, <2>4, Owners DEF Fits, IInv
  <2>6. /\ Quiet(w) /\ pc'[w] = "idle" /\ mine' = [mine EXCEPT ![w] = {}]
        /\ leases' \subseteq leases \cup {n}
    BY <2>1, <2>2, EndIs DEF Give, End, IInv
  <2>7. Held' \subseteq Held \cup {n}
    <3>1. Held' \subseteq Held \cup {} \cup {n}
      BY <2>6, HeldAfter DEF IInv
    <3> QED BY <3>1
  <2>8. Sources' \subseteq Sources /\ Rasters' \subseteq Rasters /\ Slots' \subseteq Slots
    <3>1. \A x \in Held' : x \in Held \/ Fits(x)
      BY <2>5, <2>7
    <3> QED BY <1>3, <3>1, Settled DEF IInv
  <2>9. /\ Fillers' \subseteq Fillers /\ Readers' \subseteq Readers
        /\ Decoders' \subseteq Decoders
        /\ \A u \in Readers' : job'[u].length = job[u].length
    BY <2>6, PhasesLess DEF HoldsSlot, Reading, Decoding, Filling
  <2>10. Images' <= Images /\ Encoded' <= Encoded
    BY <2>8, <2>9, ImagesLess, EncodedLess
  <2>11. Loans' \subseteq Loans \cup {n} /\ Renders' \subseteq Renders
    BY <2>4, <2>7 DEF Loans, Renders, Charged
  <2>12. Decoded' <= Decoded + Derived
    <3>1. /\ Cardinality(Rasters') <= Cardinality(Rasters)
          /\ Cardinality(Decoders') <= Cardinality(Decoders)
      BY <2>8, <2>9, FiniteOwners, SizeOfPart DEF OwnersFinite
    <3>2. Cardinality(Loans') <= Cardinality(Loans) + 1
      BY <2>11, FiniteOwners, SizeOfMore DEF OwnersFinite
    <3> QED BY <3>1, <3>2, DecodedGrows
  <2>13. MaxDecoded - Decoded >= Derived
    BY <1>1, <1>8 DEF Room, Kind, Amount, Limit
  <2>14. Cardinality(Renders') <= MaxSequences
    BY <2>11, <1>4, <1>5, RendersLess
  <2>15. ChargeInv'
    BY <1>2, <2>6, NoCharge DEF Quiet
  <2> QED BY <1>4, <1>5, <1>6, <2>10, <2>12, <2>13, <2>14, <2>15
<1>9. QED
  <2>1. CASE pc[w] = "slot" /\ Goto(w, "encoded") /\ UNCHANGED <<job, mine, leases>>
    <3>1. "encoded" \in Labels
      BY DEF Labels
    <3> QED BY <1>7, <2>1, <3>1
  <2>2. CASE pc[w] = "encoded" /\ Goto(w, NextChunk(w, 0)) /\ UNCHANGED <<job, mine, leases>>
    <3>1. NextChunk(w, 0) \in Labels /\ NextChunk(w, 0) # "charge"
      BY DEF Labels, NextChunk
    <3> QED BY <1>7, <2>2, <3>1
  <2>3. CASE pc[w] = "decode" /\ Goto(w, "decoding") /\ UNCHANGED <<job, mine, leases>>
    <3>1. "decoding" \in Labels
      BY DEF Labels
    <3> QED BY <1>7, <2>3, <3>1
  <2> QED BY <1>8, <2>1, <2>2, <2>3 DEF Admit

(* The steps of a read touch nothing but the worker.                       *)
LEMMA FailBudget ==
  ASSUME Inv, IInv', NEW w \in Worker, Fail(w)
  PROVE  BudgetsKept' /\ ChargeInv'
<1>1. End(w) /\ UNCHANGED <<disk, entries, order, lock, leases, reads, decodes>>
  BY DEF Fail
<1>2. Held' \subseteq Held
  <2>1. mine' = [mine EXCEPT ![w] = {}] /\ leases' \subseteq leases \cup {}
    BY <1>1 DEF End
  <2>2. Held' \subseteq Held \cup {} \cup {}
    BY <2>1, HeldAfter DEF Inv, IInv
  <2> QED BY <2>2
<1> QED BY <1>1, <1>2, EndBudget

(* The buffer of a read grows up to what it reserved. *)
LEMMA FillBudget ==
  ASSUME Inv, IInv', NEW w \in Worker, pc[w] \in Filling, pc'[w] \in Filling,
         \A u \in Worker \ {w} : pc'[u] = pc[u] /\ job'[u] = job[u],
         job'[w].length = job[w].length,
         UNCHANGED <<entries, lock, mine, leases>>
  PROVE  BudgetsKept' /\ ChargeInv'
<1>1. Held' \subseteq Held
  BY SameHeld
<1>2. Quiet(w)
  BY DEF Quiet
<1>3. pc'[w] # "charge"
  BY DEF Filling
<1> QED BY <1>1, <1>2, <1>3, HeldStep DEF HoldsSlot, Reading, Decoding, Filling

(* The steps of a read keep the budgets. *)
LEMMA ReadBudget ==
  ASSUME Inv, IInv', NEW w \in Worker,
         ReadChunk(w) \/ CheckStamp(w) \/ VerifyChunk(w) \/ VerifyStamp(w)
  PROVE  BudgetsKept' /\ ChargeInv'
<1> USE DEF Inv
<1>1. pc[w] \in Filling
  BY DEF ReadChunk, CheckStamp, VerifyChunk, VerifyStamp, Filling
<1>2. job[w] \in Read_
  BY <1>1, Gathering DEF Gathers
<1>3. CASE Fail(w)
  BY <1>3, FailBudget
<1>4. ASSUME NEW v, NEW field \in {"bytes", "stamp", "seen"}, Note(w, field, v)
      PROVE  /\ job'[w].length = job[w].length
             /\ \A u \in Worker \ {w} : job'[u] = job[u]
  <2>1. /\ job'[w] = [job[w] EXCEPT ![field] = v]
        /\ \A u \in Worker \ {w} : job'[u] = job[u]
    BY <1>4 DEF Note, IInv, TypeOK
  <2>2. [job[w] EXCEPT ![field] = v].length = job[w].length
    <3>1. CASE field = "bytes"
      BY <1>2, <3>1 DEF Read_
    <3>2. CASE field = "stamp"
      BY <1>2, <3>2 DEF Read_
    <3>3. CASE field = "seen"
      BY <1>2, <3>3 DEF Read_
    <3> QED BY <3>1, <3>2, <3>3
  <2> QED BY <2>1, <2>2
<1>5. ASSUME NEW l \in Filling, Goto(w, l)
      PROVE  pc'[w] \in Filling /\ \A u \in Worker \ {w} : pc'[u] = pc[u]
  BY <1>5 DEF Goto, IInv, TypeOK
<1>6. CASE ReadChunk(w) /\ ~Fail(w)
  <2>1. /\ \E v : Note(w, "bytes", v)
        /\ \E l \in Filling : Goto(w, l)
        /\ UNCHANGED <<disk, entries, order, lock, mine, leases, reads, decodes>>
    <3>1. \A i : NextChunk(w, i) \in Filling
      BY DEF NextChunk, Filling
    <3> QED BY <1>6, <3>1 DEF ReadChunk
  <2> QED BY <1>1, <1>4, <1>5, <2>1, FillBudget
<1>7. CASE CheckStamp(w) /\ ~Fail(w)
  <2>1. /\ job' = job \/ \E v : Note(w, "stamp", v)
        /\ \E l \in Filling : Goto(w, l)
        /\ UNCHANGED <<disk, entries, order, lock, mine, leases, reads, decodes>>
    <3>1. "insert" \in Filling /\ "verify" \in Filling
      BY DEF Filling
    <3> QED BY <1>7, <3>1 DEF CheckStamp
  <2> QED BY <1>1, <1>4, <1>5, <2>1, FillBudget
<1>8. CASE VerifyChunk(w) /\ ~Fail(w)
  <2>1. /\ \E v : Note(w, "seen", v)
        /\ UNCHANGED <<disk, entries, order, lock, pc, mine, leases, reads, decodes>>
    BY <1>8 DEF VerifyChunk
  <2> QED BY <1>1, <1>4, <2>1, FillBudget
<1>9. CASE VerifyStamp(w) /\ ~Fail(w)
  <2>1. /\ \E l \in Filling : Goto(w, l)
        /\ UNCHANGED <<disk, entries, order, lock, job, mine, leases, reads, decodes>>
    <3>1. "insert" \in Filling
      BY DEF Filling
    <3> QED BY <1>9, <3>1 DEF VerifyStamp
  <2> QED BY <1>1, <1>5, <2>1, FillBudget
<1> QED BY <1>3, <1>6, <1>7, <1>8, <1>9

(* InsertBytes keeps the budgets: the reservation becomes the entry. *)
LEMMA InsertBytesBudget ==
  ASSUME Inv, IInv', NEW w \in Worker, InsertBytes(w)
  PROVE  BudgetsKept' /\ ChargeInv'
<1> USE DEF Inv
<1>1. /\ Quiet(w) /\ pc[w] = "insert" /\ pc'[w] = "loaded" /\ Rasters' \subseteq Rasters
      /\ \A x \in Held' : x \in Held \/ x.kind = "bytes"
  BY InsertBytesKeeps
<1>2. PICK s \in Source_ : /\ Sources' \subseteq Sources \cup {s}
                           /\ Slots' \subseteq Slots \cup {s}
                           /\ Len(s.content) = job[w].length
  BY InsertBytesKeeps
<1>3. job' = job /\ NotLocked
  BY DEF InsertBytes
<1>4. /\ Fillers' \subseteq Fillers \ {w} /\ Readers' \subseteq Readers \ {w}
      /\ Decoders' \subseteq Decoders /\ w \in Fillers /\ w \in Readers
  BY <1>1 DEF Quiet, Fillers, Readers, Decoders, HoldsSlot, Reading, Decoding, Filling
<1>5. Images' <= Images
  <2>1. Cardinality(Slots') <= Cardinality(Slots) + 1
    BY <1>2, FiniteOwners, SizeOfMore DEF OwnersFinite
  <2>2. Cardinality(Fillers') + 1 <= Cardinality(Fillers)
    BY <1>4, FiniteOwners, SizeOfRest DEF OwnersFinite
  <2>3. Images = Cardinality(Slots) + Cardinality(Fillers)
    BY BudgetsAre DEF Sums
  <2>4. Images' = Cardinality(Slots') + Cardinality(Fillers')
    BY BudgetsNext DEF Sums
  <2>5. /\ Cardinality(Slots) \in Nat /\ Cardinality(Fillers) \in Nat
        /\ Cardinality(Slots') \in Nat /\ Cardinality(Fillers') \in Nat
    BY BudgetsTyped, NumbersNext DEF Numbers
  <2> QED BY <2>1, <2>2, <2>3, <2>4, <2>5
<1>6. Encoded' <= Encoded
  <2>0. Weight[s] = job[w].length /\ Weight[s] \in Nat
    BY <1>2, WeightTyped
  <2>1. SumFunctionOnSet(Weight, Sources') <= SumFunctionOnSet(Weight, Sources) + Weight[s]
    <3>1. \A t \in Sources \cup {s} : Weight[t] \in Nat
      BY <2>0, FiniteOwners, WeightTyped DEF OwnersFinite
    <3> QED BY <1>2, <3>1, FiniteOwners, SumOfMore DEF OwnersFinite
  <2>2. \A u \in Readers : Extent(job)[u] \in Nat /\ Extent(job)[u] = job[u].length
    BY ExtentTyped
  <2>3. SumFunctionOnSet(Extent(job), Readers') + job[w].length <= SumFunctionOnSet(Extent(job), Readers)
    <3>1. SumFunctionOnSet(Extent(job), Readers') + Extent(job)[w] <= SumFunctionOnSet(Extent(job), Readers)
      BY <1>4, <2>2, FiniteOwners, SumOfRest DEF OwnersFinite
    <3> QED BY <1>4, <2>2, <3>1
  <2>4. SumFunctionOnSet(Extent(job'), Readers') = SumFunctionOnSet(Extent(job), Readers')
    BY <1>3
  <2>5. Encoded = SumFunctionOnSet(Weight, Sources) + SumFunctionOnSet(Extent(job), Readers)
    BY BudgetsAre DEF Sums
  <2>6. Encoded' = SumFunctionOnSet(Weight, Sources') + SumFunctionOnSet(Extent(job'), Readers')
    BY BudgetsNext DEF Sums
  <2>7. /\ SumFunctionOnSet(Weight, Sources) \in Nat /\ SumFunctionOnSet(Extent(job), Readers) \in Nat
        /\ SumFunctionOnSet(Weight, Sources') \in Nat /\ SumFunctionOnSet(Extent(job'), Readers') \in Nat
    BY BudgetsTyped, NumbersNext DEF Numbers
  <2> QED BY <2>0, <2>1, <2>3, <2>4, <2>5, <2>6, <2>7
<1>7. Loans' \subseteq Loans /\ Renders' \subseteq Renders
  BY <1>1, LoansLess
<1>8. Decoded' <= Decoded /\ Cardinality(Renders') <= Cardinality(Renders)
  BY <1>1, <1>4, <1>7, DecodedLess, RendersLess
<1>9. BudgetsKept'
  BY <1>5, <1>6, <1>8, BudgetsFollow
<1>10. ChargeInv'
  <2>1. \A u \in Worker : pc[u] # "charge"
    BY <1>3, Unlocked
  <2> QED BY <1>1, <2>1, NoCharge DEF Quiet
<1> QED BY <1>9, <1>10

(* Decode keeps the budgets: the loan becomes the raster. *)
LEMMA DecodeBudget ==
  ASSUME Inv, IInv', NEW w \in Worker, Decode(w)
  PROVE  BudgetsKept' /\ ChargeInv'
<1> USE DEF Inv
<1>1. /\ Quiet(w) /\ pc[w] = "decoding" /\ pc'[w] = "idle"
      /\ Sources' \subseteq Sources /\ Slots' \subseteq Slots
      /\ \A x \in Held' : x \in Held \/ x.kind = "image"
  BY DecodeKeeps
<1>2. PICK r : Rasters' \subseteq Rasters \cup {r}
  BY DecodeKeeps
<1>3. NotLocked
  BY DEF Decode
<1>4. /\ Fillers' \subseteq Fillers /\ Readers' \subseteq Readers
      /\ Decoders' \subseteq Decoders \ {w} /\ w \in Decoders
  BY <1>1 DEF Quiet, Fillers, Readers, Decoders, HoldsSlot, Reading, Decoding, Filling
<1>5. \A u \in Readers' : job'[u].length = job[u].length
  BY <1>1 DEF Quiet, Readers, Reading, Filling
<1>6. Images' <= Images /\ Encoded' <= Encoded
  BY <1>1, <1>4, <1>5, ImagesLess, EncodedLess
<1>7. Loans' \subseteq Loans /\ Renders' \subseteq Renders
  BY <1>1, LoansLess
<1>8. Decoded' <= Decoded
  <2>1. Cardinality(Rasters') <= Cardinality(Rasters) + 1
    BY <1>2, FiniteOwners, SizeOfMore DEF OwnersFinite
  <2>2. Cardinality(Decoders') + 1 <= Cardinality(Decoders)
    BY <1>4, FiniteOwners, SizeOfRest DEF OwnersFinite
  <2>3. Cardinality(Loans') <= Cardinality(Loans)
    BY <1>7, FiniteOwners, SizeOfPart DEF OwnersFinite
  <2>4. /\ Pixels * Cardinality(Rasters') <= Pixels * Cardinality(Rasters) + Pixels
        /\ Pixels * Cardinality(Rasters') \in Nat /\ Pixels * Cardinality(Rasters) \in Nat
    BY <2>1, DecodedParts, Products
  <2>5. /\ Bound * Cardinality(Decoders') + Bound <= Bound * Cardinality(Decoders)
        /\ Bound * Cardinality(Decoders') \in Nat /\ Bound * Cardinality(Decoders) \in Nat
    BY <2>2, DecodedParts, Products
  <2>6. /\ Derived * Cardinality(Loans') <= Derived * Cardinality(Loans)
        /\ Derived * Cardinality(Loans') \in Nat /\ Derived * Cardinality(Loans) \in Nat
    BY <2>3, DecodedParts, Products
  <2> QED BY <2>4, <2>5, <2>6, DecodedParts
<1>9. Cardinality(Renders') <= Cardinality(Renders)
  BY <1>7, RendersLess
<1>10. BudgetsKept'
  BY <1>6, <1>8, <1>9, BudgetsFollow
<1>11. ChargeInv'
  <2>1. \A u \in Worker : pc[u] # "charge"
    BY <1>3, Unlocked
  <2> QED BY <1>1, <2>1, NoCharge DEF Quiet
<1> QED BY <1>10, <1>11

(* ReturnBytes keeps the budgets. *)
LEMMA ReturnBytesBudget ==
  ASSUME Inv, IInv', NEW w \in Worker, ReturnBytes(w)
  PROVE  BudgetsKept' /\ ChargeInv'
<1> USE DEF Inv
<1>1. PICK h : h = Lease("bytes", Source(w), 0, 0)
  OBVIOUS
<1>2. /\ pc[w] \in Loads /\ Give(w, h)
      /\ UNCHANGED <<disk, entries, order, lock, reads, decodes>>
  BY <1>1 DEF ReturnBytes, Loads
<1>3. h \in Held
  BY <1>1, <1>2, Loading
<1>4. Held' \subseteq Held
  <2>1. mine' = [mine EXCEPT ![w] = {}] /\ leases' \subseteq leases \cup {h}
    BY <1>2 DEF Give, End
  <2>2. Held' \subseteq Held \cup {} \cup {h}
    BY <2>1, HeldAfter DEF IInv
  <2> QED BY <1>3, <2>2
<1> QED BY <1>2, <1>4, EndBudget DEF Give

(* LookupDecoded keeps the budgets. *)
LEMMA LookupDecodedBudget ==
  ASSUME Inv, IInv', NEW w \in Worker, LookupDecoded(w)
  PROVE  BudgetsKept' /\ ChargeInv'
<1>1. Gentle(w) /\ pc'[w] \in {"idle", "decode"}
  BY LookupDecodedKeeps DEF Inv
<1>2. pc[w] = "loaded" /\ lock = NoOne
  BY DEF LookupDecoded, NotLocked
<1> QED BY <1>1, <1>2, LockStep DEF HoldsSlot, Reading, Decoding, Filling

(* A worker borrows leases of consumers.                                   *)
LEMMA DeriveBudget ==
  ASSUME Inv, IInv', NEW w \in Worker, Derive(w)
  PROVE  BudgetsKept' /\ ChargeInv'
<1> USE DEF Inv
<1>1. PICK h \in leases : mine' = [mine EXCEPT ![w] = {h}]
  BY DEF Derive
<1>2. /\ pc[w] = "idle" /\ Goto(w, "derive")
      /\ UNCHANGED <<disk, entries, order, lock, job, leases, reads, decodes>>
  BY DEF Derive
<1>3. Held' \subseteq Held
  <2>1. leases' \subseteq leases \cup {} /\ h \in Held
    BY <1>2, HeldTyped DEF IInv
  <2>2. Held' \subseteq Held \cup {h} \cup {}
    BY <1>1, <2>1, HeldAfter DEF IInv
  <2> QED BY <2>1, <2>2
<1>4. pc'[w] = "derive" /\ \A u \in Worker \ {w} : pc'[u] = pc[u]
  BY <1>2, GotoIs DEF Labels, IInv
<1>5. Quiet(w)
  BY <1>1, <1>2, <1>4 DEF Quiet, IInv, TypeOK
<1> QED BY <1>2, <1>3, <1>4, <1>5, HeldStep DEF HoldsSlot, Reading, Decoding, Filling

(* Retain keeps the budgets. *)
LEMMA RetainBudget ==
  ASSUME Inv, IInv', NEW w \in Worker, Retain(w)
  PROVE  BudgetsKept' /\ ChargeInv'
<1> USE DEF Inv
<1>1. UNCHANGED <<disk, entries, order, lock, reads, decodes>>
  BY DEF Retain
<1>2. PICK p \in mine[w] : Give(w, p) \/ (End(w) /\ UNCHANGED leases)
  BY DEF Retain
<1>3. p \in Held
  BY <1>2, HeldTyped DEF IInv
<1>4. End(w) /\ leases' \subseteq leases \cup {p}
  BY <1>2 DEF Give
<1>5. Held' \subseteq Held
  <2>1. mine' = [mine EXCEPT ![w] = {}]
    BY <1>4 DEF End
  <2>2. Held' \subseteq Held \cup {} \cup {p}
    BY <1>4, <2>1, HeldAfter DEF IInv
  <2> QED BY <1>3, <2>2
<1> QED BY <1>1, <1>4, <1>5, EndBudget

(* Collect keeps the budgets: its victims free at least what is charged. *)
LEMMA CollectBudget ==
  ASSUME Inv, IInv', NEW w \in Worker, Collect(w)
  PROVE  BudgetsKept' /\ ChargeInv'
<1> USE DEF Inv
<1>1. PICK c : c = [file |-> NoOne, victims |-> Reclaimable]
  OBVIOUS
<1>2. PICK h \in leases : /\ mine' = [mine EXCEPT ![w] = {h}]
                          /\ job' = [job EXCEPT ![w] = c]
  BY <1>1 DEF Collect
<1>3. /\ pc[w] = "idle" /\ Goto(w, "charge") /\ lock' = w /\ lock = NoOne
      /\ UNCHANGED <<disk, entries, order, leases, reads, decodes>>
      /\ Derived <= MaxDecoded
      /\ Cardinality(Renders) < MaxSequences
      /\ Decoded - (MaxDecoded - Derived) <= Pixels * Cardinality(Reclaimable)
  BY DEF Collect, NotLocked, Renders
<1>4. Held' \subseteq Held
  <2>1. leases' \subseteq leases \cup {} /\ h \in Held
    BY <1>3, HeldTyped DEF IInv
  <2>2. Held' \subseteq Held \cup {h} \cup {}
    BY <1>2, <2>1, HeldAfter DEF IInv
  <2> QED BY <2>1, <2>2
<1>5. pc'[w] = "charge" /\ \A u \in Worker \ {w} : pc'[u] = pc[u]
  BY <1>3, GotoIs DEF Labels, IInv
<1>6. job'[w] = c /\ Quiet(w)
  BY <1>2, <1>5 DEF Quiet, IInv, TypeOK
<1>7. EntriesKept /\ Cached' = Cached
  BY <1>3, SameEntries DEF IInv
<1>8. /\ Fillers' \subseteq Fillers /\ Readers' \subseteq Readers
      /\ Decoders' \subseteq Decoders
      /\ \A u \in Readers' : job'[u].length = job[u].length
  BY <1>5, <1>6, PhasesLess DEF HoldsSlot, Reading, Decoding, Filling
<1>9. /\ Decoded' <= Decoded /\ Cardinality(Renders') <= Cardinality(Renders)
      /\ BudgetsKept'
  BY <1>4, <1>7, <1>8, BudgetsLess
<1>10. Reclaimable \subseteq Reclaimable'
  BY <1>3, <1>4, <1>7, PinsLess DEF Reclaimable
<1>11. ChargeOf(w)'
  <2>1. Cardinality(Reclaimable) \in Nat
    <3>1. Reclaimable \in SUBSET Cached
      BY DEF Reclaimable
    <3> QED BY <3>1, SizeOfPart DEF IInv, FiniteInv
  <2>2. Pixels * Cardinality(Reclaimable) \in Nat
    BY <2>1, Products, CacheAssumption
  <2>3. /\ Decoded \in Nat /\ Decoded' \in Nat /\ MaxDecoded \in Nat /\ Derived \in Nat
        /\ Cardinality(Renders) \in Nat /\ Cardinality(Renders') \in Nat /\ MaxSequences \in Nat
    BY BudgetsTyped, NumbersNext, CacheAssumption DEF Numbers
  <2>4. Decoded' - (MaxDecoded - Derived) <= Pixels * Cardinality(Reclaimable)
    BY <1>3, <1>9, <2>2, <2>3
  <2>5. Cardinality(Renders') < MaxSequences
    BY <1>3, <1>9, <2>3
  <2>6. job'[w].victims = Reclaimable
    BY <1>1, <1>6
  <2> QED BY <1>3, <1>10, <2>4, <2>5, <2>6 DEF ChargeOf
<1>12. ChargeInv'
  <2>1. \A u \in Worker : pc[u] # "charge"
    BY <1>3, Unlocked DEF NotLocked
  <2> QED BY <1>5, <1>11, <2>1 DEF ChargeInv
<1> QED BY <1>9, <1>12

(* What a victim frees: its raster has no other owner.                     *)
LEMMA ReclaimBudget ==
  ASSUME Inv, IInv', NEW w \in Worker, Reclaim(w)
  PROVE  BudgetsKept' /\ ChargeInv'
<1> USE DEF Inv
<1>1. PICK f : f = Oldest(job[w].victims)
  OBVIOUS
<1>2. PICK V : V = job[w].victims \ {f}
  OBVIOUS
<1>3. /\ pc[w] = "charge" /\ Forget(f) /\ Note(w, "victims", V) /\ job[w].victims # {}
      /\ UNCHANGED <<disk, lock, pc, mine, leases, reads, decodes>>
  BY <1>1, <1>2 DEF Reclaim
<1>4. ChargeOf(w)
  BY <1>3 DEF ChargeInv
<1>5. f \in job[w].victims /\ f \in Reclaimable
  <2>1. job[w].victims \subseteq Cached
    BY <1>4 DEF ChargeOf, Reclaimable
  <2> QED BY <1>1, <1>3, <1>4, <2>1, OldestIs DEF ChargeOf, IInv
<1>6. /\ EntriesKept /\ Cached' = Cached \ {f}
      /\ \A g \in Cached' : entries'[g] = entries[g]
  BY <1>3, ForgetIs DEF IInv
<1>7. Held' \subseteq Held
  BY <1>3, SameHeld
<1>8. job'[w].victims = V /\ \A u \in Worker \ {w} : job'[u] = job[u]
  <2>1. job[w] \in Charge_
    BY <1>3, Charging
  <2>2. job'[w] = [job[w] EXCEPT !["victims"] = V] /\ \A u \in Worker \ {w} : job'[u] = job[u]
    BY <1>3 DEF Note, IInv, TypeOK
  <2>3. [job[w] EXCEPT !["victims"] = V].victims = V
    BY <2>1 DEF Charge_
  <2> QED BY <2>2, <2>3
<1>9. /\ Fillers' \subseteq Fillers /\ Readers' \subseteq Readers
      /\ Decoders' \subseteq Decoders
      /\ \A u \in Readers' : job'[u].length = job[u].length
  BY <1>3, <1>8 DEF Fillers, Readers, Decoders, HoldsSlot, Reading, Decoding, Filling
<1>10. /\ Cardinality(Renders') <= Cardinality(Renders) /\ BudgetsKept'
  BY <1>6, <1>7, <1>9, BudgetsLess
<1>11. Rasters' \subseteq Rasters /\ Loans' \subseteq Loans
  <2>1. \A h \in Held' : h \in Held \/ Fits(h)
    BY <1>7
  <2>2. \A h \in Held' : h \in Held \/ h.kind \notin {"derived", "sequence"}
    BY <1>7
  <2> QED BY <1>6, <2>1, <2>2, Settled, LoansLess DEF IInv
<1>12. PICK r : r = <<entries[f].origin, entries[f].image>>
  OBVIOUS
<1>13. r \in Rasters
  <2>1. f \in Cached /\ entries[f].image # 0
    BY <1>5 DEF Reclaimable
  <2> QED BY <1>12, <2>1, Owners DEF IInv
<1>14. r \notin Rasters'
  <2>1. r \notin HeldPixels'
    <3>1. r \notin HeldPixels
      BY <1>5, <1>12 DEF Reclaimable, Unpinned
    <3> QED BY <1>7, <3>1 DEF HeldPixels
  <2>2. \A g \in Cached' : entries'[g].image # 0 => r # <<entries'[g].origin, entries'[g].image>>
    <3> SUFFICES ASSUME NEW g \in Cached', entries'[g].image # 0
                 PROVE  r # <<entries'[g].origin, entries'[g].image>>
      OBVIOUS
    <3>1. g \in Cached /\ g # f /\ entries'[g] = entries[g] /\ f \in Cached /\ entries[f].image # 0
      BY <1>5, <1>6 DEF Reclaimable
    <3>2. entries[g].origin.file = g /\ entries[f].origin.file = f
      BY <3>1 DEF IInv, Contents, EntryInv
    <3>3. entries[g].origin # entries[f].origin
      BY <3>1, <3>2
    <3> QED BY <1>12, <3>1, <3>3
  <2> QED BY <2>1, <2>2 DEF Rasters
<1>15. Decoded' + Pixels <= Decoded
  <2>1. Cardinality(Rasters') + 1 <= Cardinality(Rasters)
    <3>1. Rasters' \in SUBSET (Rasters \ {r})
      BY <1>11, <1>14
    <3> QED BY <1>13, <3>1, FiniteOwners, SizeOfRest DEF OwnersFinite
  <2>2. /\ Cardinality(Decoders') <= Cardinality(Decoders)
        /\ Cardinality(Loans') <= Cardinality(Loans)
    BY <1>9, <1>11, FiniteOwners, SizeOfPart DEF OwnersFinite
  <2>3. /\ Pixels * Cardinality(Rasters') + Pixels <= Pixels * Cardinality(Rasters)
        /\ Pixels * Cardinality(Rasters') \in Nat /\ Pixels * Cardinality(Rasters) \in Nat
    BY <2>1, DecodedParts, Products
  <2>4. /\ Bound * Cardinality(Decoders') <= Bound * Cardinality(Decoders)
        /\ Bound * Cardinality(Decoders') \in Nat /\ Bound * Cardinality(Decoders) \in Nat
    BY <2>2, DecodedParts, Products
  <2>5. /\ Derived * Cardinality(Loans') <= Derived * Cardinality(Loans)
        /\ Derived * Cardinality(Loans') \in Nat /\ Derived * Cardinality(Loans) \in Nat
    BY <2>2, DecodedParts, Products
  <2> QED BY <2>3, <2>4, <2>5, DecodedParts
<1>16. V \subseteq Reclaimable'
  <2>1. \A g \in V : g \in Reclaimable /\ g # f
    BY <1>2, <1>4 DEF ChargeOf
  <2>2. \A g \in V : g \in Cached' /\ entries'[g] = entries[g]
    BY <1>6, <2>1 DEF Reclaimable
  <2> QED BY <1>7, <2>1, <2>2, PinsLess DEF Reclaimable
<1>17. ChargeOf(w)'
  <2>1. IsFiniteSet(job[w].victims) /\ Cardinality(job[w].victims) \in Nat
    BY <1>4, VictimsFinite DEF ChargeOf
  <2>2. Cardinality(V) = Cardinality(job[w].victims) - 1
    BY <1>2, <1>5, <2>1, FS_RemoveElement
  <2>3. Cardinality(V) \in Nat
    BY <1>2, <2>1, FS_RemoveElement, FS_CardinalityType
  <2>4. /\ Pixels * Cardinality(job[w].victims) <= Pixels * Cardinality(V) + Pixels
        /\ Pixels * Cardinality(V) \in Nat /\ Pixels * Cardinality(job[w].victims) \in Nat
    <3>1. \A a, b \in Nat : a <= b + 1 => /\ Pixels * a <= Pixels * b + Pixels
                                         /\ Pixels * b \in Nat /\ Pixels * a \in Nat
      BY Products, CacheAssumption
    <3>2. Cardinality(job[w].victims) <= Cardinality(V) + 1
      BY <2>1, <2>2, <2>3
    <3> QED BY <2>1, <2>3, <3>1, <3>2
  <2>5. /\ Decoded \in Nat /\ Decoded' \in Nat /\ MaxDecoded \in Nat /\ Derived \in Nat
        /\ Cardinality(Renders) \in Nat /\ Cardinality(Renders') \in Nat /\ MaxSequences \in Nat
        /\ Pixels \in Nat
    BY BudgetsTyped, NumbersNext, CacheAssumption DEF Numbers
  <2>6. Decoded - (MaxDecoded - Derived) <= Pixels * Cardinality(job[w].victims)
    BY <1>4 DEF ChargeOf
  <2>7. Decoded' - (MaxDecoded - Derived) <= Pixels * Cardinality(V)
    <3>1. PICK a \in Nat : a = Pixels * Cardinality(V)
      BY <2>4
    <3>2. PICK b \in Nat : b = Pixels * Cardinality(job[w].victims)
      BY <2>4
    <3>3. b <= a + Pixels
      BY <2>4, <3>1, <3>2
    <3>4. Decoded - (MaxDecoded - Derived) <= b
      BY <2>6, <3>2
    <3>5. \A d, e, m, q, p, x, y \in Nat :
             e + p <= d /\ y <= x + p /\ d - (m - q) <= y => e - (m - q) <= x
      OBVIOUS
    <3>6. /\ Decoded \in Nat /\ Decoded' \in Nat /\ MaxDecoded \in Nat /\ Derived \in Nat
          /\ Pixels \in Nat
      BY <2>5
    <3>7. Decoded' - (MaxDecoded - Derived) <= a
      BY <1>15, <3>3, <3>4, <3>5, <3>6
    <3> QED BY <3>1, <3>7
  <2>8. Cardinality(Renders') < MaxSequences /\ Derived <= MaxDecoded
    BY <1>4, <1>10, <2>5 DEF ChargeOf
  <2> QED BY <1>3, <1>4, <1>8, <1>16, <2>7, <2>8 DEF ChargeOf
<1>18. ChargeInv'
  <2>1. \A u \in Worker : pc[u] = "charge" => u = w
    BY <1>4 DEF ChargeInv, ChargeOf
  <2> QED BY <1>3, <1>17, <2>1 DEF ChargeInv
<1> QED BY <1>10, <1>18

(* Charge keeps the budgets: no victim is left, so all that they hold is   *)
(* free.                                                                   *)
LEMMA ChargeBudget ==
  ASSUME Inv, IInv', NEW w \in Worker, Charge(w)
  PROVE  BudgetsKept' /\ ChargeInv'
<1> USE DEF Inv
<1>1. /\ pc[w] = "charge" /\ lock' = NoOne /\ UNCHANGED <<disk, entries, order, reads, decodes>>
      /\ Room("decoded") >= Derived \/ job[w].victims = {}
  BY DEF Charge
<1>2. PICK h \in mine[w], i \in 1..MaxLeases : Give(w, Lease("sequence", h.source, h.image, i))
  BY DEF Charge, Fresh
<1>3. PICK n : n = Lease("sequence", h.source, h.image, i)
  OBVIOUS
<1>4. h \in Held /\ h \in Lease_ /\ h.source \in Source_ /\ h.image \in Nat /\ i \in Nat
  BY <1>2, HeldTyped, LeaseTyped DEF IInv
<1>5. n \in Lease_ /\ n.kind = "sequence" /\ n.source = h.source
  BY <1>3, <1>4, LeaseIs DEF Kinds
<1>6. Fits(n)
  BY <1>4, <1>5, Owners DEF Fits, IInv
<1>7. /\ Quiet(w) /\ pc'[w] = "idle" /\ mine' = [mine EXCEPT ![w] = {}]
      /\ leases' \subseteq leases \cup {n}
  BY <1>2, <1>3, EndIs DEF Give, End, IInv
<1>8. Held' \subseteq Held \cup {n}
  <2>1. Held' \subseteq Held \cup {} \cup {n}
    BY <1>7, HeldAfter DEF IInv
  <2> QED BY <2>1
<1>9. EntriesKept
  BY <1>1, SameEntries DEF IInv
<1>10. Sources' \subseteq Sources /\ Rasters' \subseteq Rasters /\ Slots' \subseteq Slots
  <2>1. \A x \in Held' : x \in Held \/ Fits(x)
    BY <1>6, <1>8
  <2> QED BY <1>9, <2>1, Settled DEF IInv
<1>11. /\ Fillers' \subseteq Fillers /\ Readers' \subseteq Readers
       /\ Decoders' \subseteq Decoders
       /\ \A u \in Readers' : job'[u].length = job[u].length
  BY <1>7, PhasesLess DEF HoldsSlot, Reading, Decoding, Filling
<1>12. Images' <= Images /\ Encoded' <= Encoded
  BY <1>10, <1>11, ImagesLess, EncodedLess
<1>13. Loans' \subseteq Loans \cup {n} /\ Renders' \subseteq Renders \cup {n}
  BY <1>8 DEF Loans, Renders, Charged
<1>14. Decoded' <= Decoded + Derived
  <2>1. /\ Cardinality(Rasters') <= Cardinality(Rasters)
        /\ Cardinality(Decoders') <= Cardinality(Decoders)
    BY <1>10, <1>11, FiniteOwners, SizeOfPart DEF OwnersFinite
  <2>2. Cardinality(Loans') <= Cardinality(Loans) + 1
    BY <1>13, FiniteOwners, SizeOfMore DEF OwnersFinite
  <2> QED BY <2>1, <2>2, DecodedGrows
<1>15. Cardinality(Renders') <= Cardinality(Renders) + 1
  BY <1>13, FiniteOwners, SizeOfMore DEF OwnersFinite
<1>16. ChargeOf(w)
  BY <1>1 DEF ChargeInv
<1>17. /\ Images \in Nat /\ Encoded \in Nat /\ Decoded \in Nat /\ Cardinality(Renders) \in Nat
       /\ Images' \in Nat /\ Encoded' \in Nat /\ Decoded' \in Nat
       /\ Cardinality(Renders') \in Nat
       /\ MaxImages \in Nat /\ MaxEncoded \in Nat /\ MaxDecoded \in Nat /\ MaxSequences \in Nat
       /\ Derived \in Nat /\ Pixels \in Nat
  BY BudgetsTyped, NumbersNext, CacheAssumption DEF Numbers
<1>18. Decoded + Derived <= MaxDecoded
  <2>1. CASE Room("decoded") >= Derived
    <3>1. Room("decoded") = MaxDecoded - Decoded
      BY DEF Room, Limit
    <3> QED BY <1>17, <2>1, <3>1
  <2>2. CASE job[w].victims = {}
    <3>1. Cardinality(job[w].victims) = 0
      BY <2>2, FS_EmptySet
    <3>2. Decoded - (MaxDecoded - Derived) <= Pixels * 0
      BY <1>16, <3>1 DEF ChargeOf
    <3> QED BY <1>17, <3>2
  <2> QED BY <1>1, <2>1, <2>2
<1>19. Images <= MaxImages /\ Encoded <= MaxEncoded /\ Cardinality(Renders) < MaxSequences
  BY <1>16 DEF BudgetsKept, ChargeOf
<1>20. /\ Images' <= MaxImages /\ Encoded' <= MaxEncoded /\ Decoded' <= MaxDecoded
       /\ Cardinality(Renders') <= MaxSequences
  BY <1>12, <1>14, <1>15, <1>17, <1>18, <1>19
<1>21. BudgetsKept'
  BY <1>20 DEF BudgetsKept, Renders
<1>22. ChargeInv'
  <2>1. \A u \in Worker : pc[u] = "charge" => u = w
    BY <1>16 DEF ChargeInv, ChargeOf
  <2> QED BY <1>7, <2>1, NoCharge DEF Quiet
<1> QED BY <1>21, <1>22

(* The pixels that are upgraded are of a source whose bytes are leased: no *)
(* victim loses them.                                                      *)
LEMMA UpgradeBudget ==
  ASSUME Inv, IInv', NEW w \in Worker, Upgrade(w)
  PROVE  BudgetsKept' /\ ChargeInv'
<1> USE DEF Inv
<1>1. PICK h \in leases, l \in leases :
          /\ l.kind = "image" /\ h.source.generation = l.source.generation
          /\ <<h.source, h.image>> \in Rasters
          /\ mine' = [mine EXCEPT ![w] = {h, l, Lease("pixels", h.source, h.image, 0)}]
  BY DEF Upgrade
<1>2. PICK n : n = Lease("pixels", h.source, h.image, 0)
  OBVIOUS
<1>3. /\ h \in Held /\ h \in Lease_ /\ l \in Held /\ l \in Lease_
      /\ h.source \in Source_ /\ h.image \in Nat
  BY <1>1, HeldTyped, LeaseTyped DEF IInv
<1>4. n \in Lease_ /\ n.kind = "pixels" /\ n.source = h.source /\ n.image = h.image
  BY <1>2, <1>3, LeaseIs DEF Kinds
<1>5. Fits(n)
  BY <1>1, <1>3, <1>4, Owners DEF Fits, IInv
<1>6. /\ pc[w] = "idle" /\ Goto(w, "retain")
      /\ UNCHANGED <<disk, entries, order, lock, job, leases, reads, decodes>>
  BY DEF Upgrade
<1>7. pc'[w] = "retain" /\ \A u \in Worker \ {w} : pc'[u] = pc[u]
  BY <1>6, GotoIs DEF Labels, IInv
<1>8. Quiet(w)
  BY <1>1, <1>6, <1>7 DEF Quiet, IInv, TypeOK
<1>9. Held' \subseteq Held \cup {n}
  <2>1. leases' \subseteq leases \cup {} /\ mine' = [mine EXCEPT ![w] = {h, l, n}]
    BY <1>1, <1>2, <1>6
  <2>2. Held' \subseteq Held \cup {h, l, n} \cup {}
    BY <2>1, HeldAfter DEF IInv
  <2> QED BY <1>3, <2>2
<1>10. EntriesKept /\ Cached' = Cached
  BY <1>6, SameEntries DEF IInv
<1>11. /\ Fillers' \subseteq Fillers /\ Readers' \subseteq Readers
       /\ Decoders' \subseteq Decoders
       /\ \A u \in Readers' : job'[u].length = job[u].length
  BY <1>7, <1>8, PhasesLess DEF HoldsSlot, Reading, Decoding, Filling
<1>12. /\ Decoded' <= Decoded /\ Cardinality(Renders') <= Cardinality(Renders)
       /\ BudgetsKept'
  <2>1. \A x \in Held' : x \in Held \/ (Fits(x) /\ x.kind \notin {"derived", "sequence"})
    BY <1>4, <1>5, <1>9
  <2> QED BY <1>10, <1>11, <2>1, BudgetsLess
<1>13. h.source = l.source /\ l.source \in HeldBytes
  <2>1. h.source \in Slots /\ l.source \in Slots
    BY <1>3, Owners DEF IInv
  <2> QED BY <1>1, <1>3, <2>1, Owners DEF IInv, Contents, GenerationInv
<1>14. \A f \in Reclaimable : Unpinned(f)'
  <2> SUFFICES ASSUME NEW f \in Reclaimable PROVE Unpinned(f)'
    OBVIOUS
  <2>1. /\ f \in Cached /\ Unpinned(f) /\ entries[f].image # 0
        /\ entries[f].origin = entries[f].source /\ entries'[f] = entries[f]
    BY <1>6 DEF Reclaimable, IInv, Contents, EntryInv
  <2>2. entries[f].source # h.source
    BY <1>13, <2>1 DEF Unpinned
  <2>3. entries[f].source \notin HeldBytes'
    BY <1>4, <1>9, <2>1 DEF Unpinned, HeldBytes
  <2>4. <<entries[f].origin, entries[f].image>> \notin HeldPixels'
    BY <1>4, <1>9, <2>1, <2>2 DEF Unpinned, HeldPixels
  <2> QED BY <2>1, <2>3, <2>4 DEF Unpinned
<1>15. \A u \in Worker : pc'[u] = "charge" => pc[u] = "charge" /\ job'[u] = job[u]
  BY <1>6, <1>7
<1>16. ChargeInv'
  BY <1>6, <1>12, <1>14, <1>15, ChargesGoOn
<1> QED BY <1>12, <1>16

(* What others do. *)
LEMMA WorldBudget ==
  ASSUME Inv, IInv', EntriesKept, leases' \subseteq leases,
         UNCHANGED <<lock, pc, job, mine>>, entries' = entries \/ NotLocked
  PROVE  BudgetsKept' /\ ChargeInv'
<1> USE DEF Inv
<1>1. Held' \subseteq Held
  BY DEF Held
<1>2. /\ Fillers' \subseteq Fillers /\ Readers' \subseteq Readers
      /\ Decoders' \subseteq Decoders
      /\ \A u \in Readers' : job'[u].length = job[u].length
  BY DEF Fillers, Readers, Decoders, HoldsSlot, Reading, Decoding
<1>3. /\ Decoded' <= Decoded /\ Cardinality(Renders') <= Cardinality(Renders)
      /\ BudgetsKept'
  BY <1>1, <1>2, BudgetsLess
<1>4. CASE NotLocked
  BY <1>3, <1>4, Unlocked, NoCharge
<1>5. CASE entries' = entries
  <2>1. \A f \in Reclaimable : Unpinned(f)'
    BY <1>1, <1>5, PinsLess DEF Reclaimable
  <2> QED BY <1>3, <1>5, <2>1, ChargesGoOn
<1> QED BY <1>4, <1>5

(* A step of the consumers or of the host keeps the budgets. *)
LEMMA OthersBudget ==
  ASSUME Inv, IInv', Drop \/ Discard \/ Invalidate \/ WriteOutside \/ UNCHANGED vars
  PROVE  BudgetsKept' /\ ChargeInv'
<1> USE DEF Inv
<1>1. CASE Drop \/ WriteOutside \/ UNCHANGED vars
  <2>1. leases' \subseteq leases /\ UNCHANGED <<entries, lock, pc, job, mine>>
    BY <1>1 DEF Drop, WriteOutside, vars
  <2>2. EntriesKept
    BY <2>1, SameEntries DEF IInv
  <2> QED BY <2>1, <2>2, WorldBudget
<1>2. CASE Discard
  <2>1. NotLocked /\ UNCHANGED <<lock, pc, job, mine, leases>>
    BY <1>2 DEF Discard
  <2>2. EntriesKept
    BY <1>2, DiscardKeeps
  <2> QED BY <2>1, <2>2, WorldBudget
<1>3. CASE Invalidate
  <2>1. NotLocked /\ UNCHANGED <<lock, pc, job, mine, leases>>
    BY <1>3 DEF Invalidate
  <2>2. EntriesKept
    BY <1>3, ForgetIs DEF Invalidate, IInv
  <2> QED BY <2>1, <2>2, WorldBudget
<1> QED BY <1>1, <1>2, <1>3

(* Every step keeps the whole invariant. *)
LEMMA NextKeepsAll ==
  ASSUME Inv, [Next]_vars
  PROVE  Inv'
<1>0. IInv'
  BY NextKeeps DEF Inv
<1> SUFFICES BudgetsKept' /\ ChargeInv'
  BY <1>0 DEF Inv
<1>1. ASSUME NEW w \in Worker, NEW r \in Reads, Open(w, r[1], r[2])
      PROVE  BudgetsKept' /\ ChargeInv'
  <2>1. r[1] \in File /\ r[2] \in {"bytes", "image"}
    BY CacheAssumption
  <2> QED BY <1>0, <1>1, <2>1, OpenBudget
<1>2. ASSUME NEW w \in Worker, Reserve(w) PROVE BudgetsKept' /\ ChargeInv'
  BY <1>0, <1>2, EvictBudget, RefuseBudget, AdmitBudget DEF Reserve
<1>3. ASSUME NEW w \in Worker, ReadFile(w) PROVE BudgetsKept' /\ ChargeInv'
  BY <1>0, <1>3, ReadBudget, InsertBytesBudget DEF ReadFile
<1>4. ASSUME NEW w \in Worker, Load(w) PROVE BudgetsKept' /\ ChargeInv'
  BY <1>0, <1>4, ReturnBytesBudget, LookupDecodedBudget, DecodeBudget, FailBudget DEF Load, Abandon
<1>5. ASSUME NEW w \in Worker, Consume(w) PROVE BudgetsKept' /\ ChargeInv'
  BY <1>0, <1>5, DeriveBudget, CollectBudget, ReclaimBudget, ChargeBudget, UpgradeBudget,
     RetainBudget DEF Consume
<1>6. CASE Drop \/ Discard \/ Invalidate \/ WriteOutside \/ UNCHANGED vars
  BY <1>0, <1>6, OthersBudget
<1> QED BY <1>1, <1>2, <1>3, <1>4, <1>5, <1>6 DEF Next

(* The empty cache satisfies the whole invariant. *)
LEMMA InitHoldsAll ==
  ASSUME Init
  PROVE  Inv
<1>1. IInv
  BY InitHolds
<1>2. ChargeInv
  BY DEF Init, ChargeInv
<1>3. Held = {} /\ Cached = {}
  BY DEF Init, Held, Cached
<1>4. Slots = {} /\ Sources = {} /\ Rasters = {}
  <2>1. HeldBytes = {} /\ HeldPixels = {}
    BY <1>3 DEF HeldBytes, HeldPixels
  <2>2. Sources = {} /\ Rasters = {}
    BY <1>3, <2>1 DEF Sources, Rasters
  <2> QED BY <1>3, <2>2 DEF Slots
<1>5. Fillers = {} /\ Readers = {} /\ Decoders = {}
  BY DEF Init, Fillers, Readers, Decoders, HoldsSlot, Reading, Decoding, Filling
<1>6. Loans = {} /\ Renders = {}
  BY <1>3 DEF Loans, Renders, Charged
<1>7. Images = 0
  BY <1>1, <1>4, <1>5, BudgetsAre, FS_EmptySet DEF Sums
<1>8. Encoded = 0
  <2>1. Encoded = SumFunctionOnSet(Weight, Sources) + SumFunctionOnSet(Extent(job), Readers)
    BY <1>1, BudgetsAre DEF Sums
  <2>2. SumFunctionOnSet(Weight, Sources) = 0
    BY <1>4, SumEmpty
  <2>3. SumFunctionOnSet(Extent(job), Readers) = 0
    BY <1>5, SumEmpty
  <2> QED BY <2>1, <2>2, <2>3
<1>9. Decoded = 0
  <2>1. Cardinality(Rasters) = 0 /\ Cardinality(Decoders) = 0 /\ Cardinality(Loans) = 0
    BY <1>4, <1>5, <1>6, FS_EmptySet
  <2>2. Decoded = Pixels * 0 + Bound * 0 + Derived * 0
    BY <1>1, <2>1, BudgetsAre DEF Sums
  <2> QED BY <2>2, CacheAssumption
<1>10. Cardinality(Renders) = 0
  BY <1>6, FS_EmptySet
<1>11. MaxImages \in Nat /\ MaxEncoded \in Nat /\ MaxDecoded \in Nat /\ MaxSequences \in Nat
  BY CacheAssumption
<1>12. BudgetsKept
  BY <1>7, <1>8, <1>9, <1>10, <1>11 DEF BudgetsKept, Renders
<1> QED BY <1>1, <1>2, <1>12 DEF Inv

(* A pinned entry stays while the mutex is held: only Evict and Reclaim    *)
(* drop one then, and both take an unpinned entry.                         *)
LEMMA PinnedStays ==
  ASSUME Inv, [Next]_vars, NEW f \in Cached, ~Unpinned(f), lock' # NoOne
  PROVE  entries'[f] # NoEntry
<1> USE DEF Inv
<1>0. f \in File /\ entries[f] # NoEntry
  BY DEF Cached
<1>1. CASE UNCHANGED entries
  BY <1>0, <1>1
<1>2. ASSUME NotLocked, lock' = lock PROVE FALSE
  BY <1>2 DEF NotLocked
<1>3. ASSUME NEW g, Forget(g), g # f PROVE entries'[f] # NoEntry
  <2>1. entries'[f] = entries[f]
    BY <1>0, <1>3 DEF Forget, IInv, TypeOK
  <2> QED BY <1>0, <2>1
<1>4. ASSUME NEW w \in Worker, Evict(w) PROVE entries'[f] # NoEntry
  <2>1. PICK g : g = Oldest(Evictable(Cached))
    OBVIOUS
  <2>2. Forget(g) /\ Evictable(Cached) # {} /\ Evictable(Cached) \subseteq Cached
    BY <1>4, <2>1 DEF Evict, Evictable
  <2>3. g \in Evictable(Cached)
    BY <2>1, <2>2, OldestIs DEF IInv
  <2>4. g # f
    BY <2>3 DEF Evictable
  <2> QED BY <2>2, <2>4, <1>3
<1>5. ASSUME NEW w \in Worker, Reclaim(w) PROVE entries'[f] # NoEntry
  <2>1. PICK g : g = Oldest(job[w].victims)
    OBVIOUS
  <2>2. Forget(g) /\ job[w].victims # {} /\ pc[w] = "charge"
    BY <1>5, <2>1 DEF Reclaim
  <2>3. job[w].victims \subseteq Reclaimable
    BY <2>2 DEF ChargeInv, ChargeOf
  <2>4. job[w].victims \subseteq Cached
    BY <2>3 DEF Reclaimable
  <2>5. g \in job[w].victims
    BY <2>1, <2>2, <2>4, OldestIs DEF IInv
  <2>6. g # f
    BY <2>3, <2>5 DEF Reclaimable
  <2> QED BY <2>2, <2>6, <1>3
<1>6. ASSUME NEW w \in Worker, NEW r \in Reads, Open(w, r[1], r[2]) PROVE entries'[f] # NoEntry
  BY <1>2, <1>6 DEF Open, Lookup
<1>7. ASSUME NEW w \in Worker, Reserve(w) PROVE entries'[f] # NoEntry
  BY <1>1, <1>4, <1>7 DEF Reserve, Refuse, Admit
<1>8. ASSUME NEW w \in Worker, ReadFile(w) PROVE entries'[f] # NoEntry
  <2>1. CASE InsertBytes(w)
    BY <1>2, <2>1 DEF InsertBytes
  <2>2. CASE ReadChunk(w)
    BY <1>1, <2>2 DEF ReadChunk, Fail
  <2>3. CASE CheckStamp(w)
    BY <1>1, <2>3 DEF CheckStamp, Fail
  <2>4. CASE VerifyChunk(w)
    BY <1>1, <2>4 DEF VerifyChunk, Fail
  <2>5. CASE VerifyStamp(w)
    BY <1>1, <2>5 DEF VerifyStamp, Fail
  <2> QED BY <1>8, <2>1, <2>2, <2>3, <2>4, <2>5 DEF ReadFile
<1>9. ASSUME NEW w \in Worker, Load(w) PROVE entries'[f] # NoEntry
  <2>1. CASE Decode(w)
    BY <1>2, <2>1 DEF Decode
  <2>2. CASE ReturnBytes(w) \/ LookupDecoded(w)
    BY <1>1, <2>2 DEF ReturnBytes, LookupDecoded
  <2>3. CASE Abandon(w)
    BY <1>1, <2>3 DEF Abandon, Fail
  <2> QED BY <1>9, <2>1, <2>2, <2>3 DEF Load
<1>10. ASSUME NEW w \in Worker, Consume(w) PROVE entries'[f] # NoEntry
  <2>1. CASE Collect(w)
    BY <1>1, <2>1 DEF Collect
  <2>2. CASE Derive(w) \/ Charge(w) \/ Upgrade(w) \/ Retain(w)
    BY <1>1, <2>2 DEF Derive, Charge, Upgrade, Retain
  <2> QED BY <1>5, <1>10, <2>1, <2>2 DEF Consume
<1>11. CASE Drop \/ WriteOutside \/ UNCHANGED vars
  BY <1>1, <1>11 DEF Drop, WriteOutside, vars
<1>12. CASE Discard \/ Invalidate
  BY <1>2, <1>12 DEF Discard, Invalidate
<1> QED BY <1>6, <1>7, <1>8, <1>9, <1>10, <1>11, <1>12 DEF Next

(***************************************************************************)
(* The whole inductive invariant, budgets and charges included, holds in   *)
(* every state.                                                            *)
(***************************************************************************)
THEOREM InvarianceOfAll == Spec => []Inv
<1>1. Init => Inv
  BY InitHoldsAll
<1>2. Inv /\ [Next]_vars => Inv'
  BY NextKeepsAll
<1> QED BY <1>1, <1>2, PTL DEF Spec

(***************************************************************************)
(* What is reserved, cached and leased never exceeds the encoded, decoded  *)
(* and render limits, also between the two halves of a charge: what the    *)
(* victims of a reclaim free is not given to anybody else in between       *)
(* (reserve, decode, reserve_sequence_render).                             *)
(***************************************************************************)
THEOREM Bounded == Spec => []BudgetsKept
<1>1. Inv => BudgetsKept
  BY DEF Inv
<1> QED BY <1>1, InvarianceOfAll, PTL

(***************************************************************************)
(* Making room never takes an entry whose bytes or pixels somebody outside *)
(* the cache holds: neither the eviction loop of reserve nor the victims   *)
(* of reserve_sequence_render, chosen before the first of them is removed. *)
(***************************************************************************)
THEOREM Pinned == Spec => KeepsPinned
<1> DEFINE A == \A f \in Cached : ~Unpinned(f) /\ lock' # NoOne => entries'[f] # NoEntry
<1>1. Inv /\ [Next]_vars => [A]_vars
  <2>1. Inv /\ [Next]_vars => A
    BY PinnedStays
  <2> QED BY <2>1
<1>2. KeepsPinned <=> [][A]_vars
  BY DEF KeepsPinned
<1> HIDE DEF A
<1> QED BY <1>1, <1>2, InvarianceOfAll, PTL DEF Spec
=============================================================================
