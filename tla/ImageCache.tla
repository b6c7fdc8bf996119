----------------------------- MODULE ImageCache -----------------------------
(***************************************************************************)
(* The bounded cache of encoded and decoded images (inkpod-io/src/cache.rs,*)
(* image.rs, and the reads of manager.rs).  Entries are keyed by physical  *)
(* identity; the bytes and pixels they own are reference counted and stay  *)
(* charged to the shared budgets until their last owner drops them, so an  *)
(* entry that a consumer still uses cannot make room by being evicted.     *)
(*                                                                         *)
(* The state mutex of the cache is held over several steps of a worker,    *)
(* because leases are cloned and dropped without it.  Other programs write *)
(* the files at any time; FileLocks keeps two workers from one file.       *)
(***************************************************************************)
EXTENDS Integers, SequencesExt, FiniteSetsExt

CONSTANTS Worker, File,
          Reads,         \* what is read: pairs of a file and bytes or image
          Versions,      \* what each file may hold one after the other, as
                         \* other programs write it: sequences of contents,
                         \* which are sequences of chunks
          MaxImages, MaxEncoded, MaxDecoded,   \* IoConfig
          MaxSequences,  \* MAX_SEQUENCE_RENDER_ALLOCATIONS, or as many as
                         \* MAX_SEQUENCE_RENDER_BYTES has room for if fewer
          Bound, Pixels, \* bytes reserved to decode, bytes a raster keeps
          Derived,       \* bytes of a derived or a sequence allocation
          NoOne, NoEntry,
          MaxReads,      \* bound of the model on the generations of the cache
          MaxDecodes,    \* bound on the rasters decoded
          MaxLeases      \* bound on the leases consumers keep

(* EncodedAllocation and CacheEntry: the bytes of a file under a stamp, and *)
(* an entry with its bytes, its pixels (0: none) and what these are of.    *)
Source_ == [file : File, stamp : Nat, generation : Nat, content : Seq(Nat)]
Entry_ == [source : Source_, origin : Source_, image : Nat]

ASSUME CacheAssumption ==
    /\ {MaxImages, MaxEncoded, MaxDecoded, MaxSequences, Bound, Pixels,
        Derived, MaxReads, MaxDecodes, MaxLeases} \subseteq Nat
    /\ Reads \subseteq File \X {"bytes", "image"}
    /\ \A f \in File : /\ Versions[f] # {}
                       /\ \A v \in Versions[f] : v \in Seq(Seq(Nat)) /\ v # <<>>
                       /\ \A u, v \in Versions[f] : u[1] = v[1]
    /\ Pixels <= Bound  \* Reservation::reduce_to only shrinks
    /\ IsFiniteSet(Worker) /\ NoOne \notin Worker \cup File /\ NoEntry \notin Entry_

VARIABLES disk,     \* the contents of each file so far; a stamp is an index
          entries,  \* CacheState::entries
          order,    \* the cached files, least recently used first
          lock,     \* the worker inside the cache's mutex
          pc, job,  \* what each worker does and its local variables
          mine,     \* the leases a worker owns or borrows while it works
          leases,   \* the leases the consumers keep
          reads, decodes

vars == <<disk, entries, order, lock, pc, job, mine, leases, reads, decodes>>

Stamp(f) == Len(disk[f])
Now(f) == disk[f][Stamp(f)]

-----------------------------------------------------------------------------
(* Who owns what.  A source is one encoded allocation with its slot; a     *)
(* lease names its source, and its raster when it has one (0: none).       *)
Lease(kind, source, image, id) ==
    [kind |-> kind, source |-> source, image |-> image, id |-> id]

Held == leases \cup UNION {mine[w] : w \in Worker}
Cached == {f \in File : entries[f] # NoEntry}

HeldBytes == {h.source : h \in {l \in Held : l.kind \in {"bytes", "image"}}}
HeldPixels == {<<h.source, h.image>> :
                   h \in {l \in Held : l.kind \in {"image", "pixels"}}}

Sources == HeldBytes \cup {entries[f].source : f \in Cached}
Rasters == HeldPixels \cup {<<entries[f].origin, entries[f].image>> :
                               f \in {g \in Cached : entries[g].image # 0}}

(* A lease of any kind, a source and a raster keep the slot of the source. *)
Slots == Sources \cup {h.source : h \in Held} \cup {r[1] : r \in Rasters}

(* bytes.unpinned() and decoded.is_none_or(unpinned) *)
Unpinned(f) ==
    /\ entries[f].source \notin HeldBytes
    /\ <<entries[f].origin, entries[f].image>> \notin HeldPixels

(* Reservations that a worker holds before it has the allocation.          *)
Filling == {"read", "stamp", "verify", "insert"}
HoldsSlot(w) == pc[w] \in Filling \cup {"encoded"}
Reading(w) == pc[w] \in Filling
Decoding(w) == pc[w] = "decoding"

Charged(kinds) == {h \in Held : h.kind \in kinds}

Images == Cardinality(Slots) + Cardinality({w \in Worker : HoldsSlot(w)})
Encoded == SumFunction([s \in Sources |-> Len(s.content)])
           + SumFunction([w \in {u \in Worker : Reading(u)} |-> job[w].length])
Decoded == Pixels * Cardinality(Rasters)
           + Bound * Cardinality({w \in Worker : Decoding(w)})
           + Derived * Cardinality(Charged({"derived", "sequence"}))

Limit(kind) == CASE kind = "image" -> MaxImages
                 [] kind = "encoded" -> MaxEncoded
                 [] kind = "decoded" -> MaxDecoded
Room(kind) == Limit(kind) - CASE kind = "image" -> Images
                              [] kind = "encoded" -> Encoded
                              [] kind = "decoded" -> Decoded

-----------------------------------------------------------------------------
NoJob == [file |-> NoOne]

Without(f) == RemoveFirst(order, f)
Touched(f) == Append(Without(f), f)
Oldest(S) == order[Min({i \in DOMAIN order : order[i] \in S})]

(* state.entries.remove(f) *)
Forget(f) == /\ entries' = [entries EXCEPT ![f] = NoEntry]
             /\ order' = Without(f)

(* The job ends: what it reserved or owned is dropped.                     *)
End(w) == /\ pc' = [pc EXCEPT ![w] = "idle"]
          /\ job' = [job EXCEPT ![w] = NoJob]
          /\ mine' = [mine EXCEPT ![w] = {}]

Goto(w, l) == pc' = [pc EXCEPT ![w] = l]

(* The job ends with a lease for its caller.                               *)
Give(w, h) == /\ End(w)
              /\ leases' = leases \cup {h}
              /\ Cardinality(leases') <= MaxLeases

Fresh(kind, s) == {i \in 1..MaxLeases :
                      \A h \in Held : h.kind = kind /\ h.source = s => h.id # i}

NotLocked == lock = NoOne

-----------------------------------------------------------------------------
Own(w, s) == mine' = [mine EXCEPT ![w] = {Lease("bytes", s, 0, 0)}]

(* ImageCache::bytes: an entry of another stamp is dropped, and an entry   *)
(* of this stamp gives a lease of its bytes.  A forced reload of an image  *)
(* drops the entry first.                                                  *)
Lookup(w, f, want) ==
    /\ NotLocked
    /\ job' = [job EXCEPT ![w] = [file |-> f, want |-> want, stamp |-> Stamp(f),
                                  length |-> Len(Now(f)), bytes |-> <<>>,
                                  seen |-> 0]]
    /\ \/ /\ f \in Cached
          /\ entries[f].source.stamp = Stamp(f)
          /\ order' = Touched(f)
          /\ Own(w, entries[f].source)
          /\ Goto(w, "loaded")
          /\ UNCHANGED entries
       \/ /\ \/ want = "image"
             \/ f \in Cached => entries[f].source.stamp # Stamp(f)
          /\ Forget(f)
          /\ Goto(w, "slot")
          /\ UNCHANGED mine
    /\ UNCHANGED <<disk, lock, leases, reads, decodes>>

(* Mutant of Open: a read outside the locks of the file. *)
OpenUnlocked(w, f, want) == pc[w] = "idle" /\ Lookup(w, f, want)

(* read_image_with_reload, read_bytes: under the locks of the file, open   *)
(* it, take its stamp and ask the cache.                                   *)
Open(w, f, want) ==
    /\ pc[w] = "idle"
    /\ \A u \in Worker : job[u].file # f
    /\ Lookup(w, f, want)

-----------------------------------------------------------------------------
(* ImageCache::reserve: what the worker asks for, and where it goes.       *)
Kind(w) == CASE pc[w] = "slot" -> "image"
             [] pc[w] = "encoded" -> "encoded"
             [] OTHER -> "decoded"
Amount(w) == CASE pc[w] = "slot" -> 1
               [] pc[w] = "encoded" -> job[w].length
               [] pc[w] = "decode" -> Bound
               [] OTHER -> Derived
TooLarge(w) == Amount(w) > Limit(Kind(w))
Reserving(w) == pc[w] \in {"slot", "encoded", "decode", "derive"}
Enters(w) == lock \in {NoOne, w}

(* The read goes on until it has as many chunks as the file had. *)
NextChunk(w, read) == IF read = job[w].length THEN "stamp" ELSE "read"

(* Mutant of Evictable: the decoded image is not asked for its owners. *)
EvictableByBytes(S) == {f \in S : entries[f].source \notin HeldBytes}

Evictable(S) == {f \in S : Unpinned(f)}

Evict(w) ==
    /\ Reserving(w) /\ Enters(w)
    /\ Room(Kind(w)) < Amount(w) /\ ~TooLarge(w)
    /\ Evictable(Cached) # {}
    /\ Forget(Oldest(Evictable(Cached)))
    /\ lock' = w
    /\ UNCHANGED <<disk, pc, job, mine, leases, reads, decodes>>

(* LimitExceeded, or ResourceBusy: everything cached is pinned. *)
Refuse(w) ==
    /\ Reserving(w) /\ Enters(w)
    /\ Room(Kind(w)) < Amount(w)
    /\ TooLarge(w) \/ Evictable(Cached) = {}
    /\ lock' = NoOne
    /\ End(w)
    /\ UNCHANGED <<disk, entries, order, leases, reads, decodes>>

Admit(w) ==
    /\ Reserving(w) /\ Enters(w)
    /\ Room(Kind(w)) >= Amount(w)
    /\ lock' = NoOne
    /\ \/ pc[w] = "slot" /\ Goto(w, "encoded") /\ UNCHANGED <<job, mine, leases>>
       \/ pc[w] = "encoded" /\ Goto(w, NextChunk(w, 0)) /\ UNCHANGED <<job, mine, leases>>
       \/ pc[w] = "decode" /\ Goto(w, "decoding") /\ UNCHANGED <<job, mine, leases>>
       \/ /\ pc[w] = "derive"
          /\ \E h \in mine[w] : \E i \in Fresh("derived", h.source) :
                Give(w, Lease("derived", h.source, h.image, i))
    /\ UNCHANGED <<disk, entries, order, reads, decodes>>

-----------------------------------------------------------------------------
Fail(w) == /\ End(w)
           /\ UNCHANGED <<disk, entries, order, lock, leases, reads, decodes>>

Note(w, field, v) == job' = [job EXCEPT ![w][field] = v]

(* read_exact of the next chunk; a file cut short is an error. *)
ReadChunk(w) ==
    LET i == Len(job[w].bytes) + 1
        f == job[w].file
    IN  /\ pc[w] = "read"
        /\ \/ /\ i <= Len(Now(f))
              /\ Note(w, "bytes", Append(job[w].bytes, Now(f)[i]))
              /\ Goto(w, NextChunk(w, i))
              /\ UNCHANGED <<disk, entries, order, lock, mine, leases, reads, decodes>>
           \/ i > Len(Now(f)) /\ Fail(w)

(* Mutant of CheckStamp: the same extent is taken for the same bytes. *)
CheckExtent(w) ==
    LET f == job[w].file
        rest == <<disk, entries, order, lock, mine, leases, reads, decodes>>
    IN  /\ pc[w] = "stamp"
        /\ \/ Len(Now(f)) = job[w].length /\ Goto(w, "insert") /\ UNCHANGED <<rest, job>>
           \/ Len(Now(f)) # job[w].length /\ Fail(w)

(* validate_or_retry_buffered_read: with another stamp and the same extent *)
(* a second pass begins, from a stamp of its own.                          *)
CheckStamp(w) ==
    LET f == job[w].file
        rest == <<disk, entries, order, lock, mine, leases, reads, decodes>>
    IN  /\ pc[w] = "stamp"
        /\ \/ Stamp(f) = job[w].stamp /\ Goto(w, "insert") /\ UNCHANGED <<rest, job>>
           \/ /\ Stamp(f) # job[w].stamp
              /\ Len(Now(f)) = job[w].length
              /\ Note(w, "stamp", Stamp(f))
              /\ Goto(w, "verify")
              /\ UNCHANGED rest
           \/ Len(Now(f)) # job[w].length /\ Fail(w)

Same(w) == LET i == job[w].seen + 1
           IN  /\ i <= Len(Now(job[w].file))
               /\ Now(job[w].file)[i] = job[w].bytes[i]

VerifyChunk(w) ==
    /\ pc[w] = "verify"
    /\ job[w].seen < job[w].length
    /\ \/ /\ Same(w)
          /\ Note(w, "seen", job[w].seen + 1)
          /\ UNCHANGED <<disk, entries, order, lock, pc, mine, leases, reads, decodes>>
       \/ ~Same(w) /\ Fail(w)

VerifyStamp(w) ==
    /\ pc[w] = "verify"
    /\ job[w].seen = job[w].length
    /\ \/ /\ Stamp(job[w].file) = job[w].stamp
          /\ Goto(w, "insert")
          /\ UNCHANGED <<disk, entries, order, lock, job, mine, leases, reads, decodes>>
       \/ Stamp(job[w].file) # job[w].stamp /\ Fail(w)

(* insert_bytes: a new entry without pixels, under a new generation. *)
InsertBytes(w) ==
    LET f == job[w].file
        s == [file |-> f, stamp |-> job[w].stamp, generation |-> reads + 1,
              content |-> job[w].bytes]
    IN  /\ pc[w] = "insert"
        /\ NotLocked
        /\ reads < MaxReads
        /\ reads' = reads + 1
        /\ entries' = [entries EXCEPT ![f] = [source |-> s, origin |-> s, image |-> 0]]
        /\ order' = Touched(f)
        /\ Own(w, s)
        /\ Goto(w, "loaded")
        /\ UNCHANGED <<disk, lock, job, leases, decodes>>

-----------------------------------------------------------------------------
Source(w) == (CHOOSE h \in mine[w] : TRUE).source

(* The entry of f, when it still has the stamp of source s. *)
Current(s) == s.file \in Cached /\ entries[s.file].source.stamp = s.stamp

ReturnBytes(w) ==
    /\ pc[w] = "loaded"
    /\ job[w].want = "bytes"
    /\ Give(w, Lease("bytes", Source(w), 0, 0))
    /\ UNCHANGED <<disk, entries, order, lock, reads, decodes>>

(* ImageCache::decoded *)
LookupDecoded(w) ==
    LET s == Source(w) IN
    /\ pc[w] = "loaded"
    /\ job[w].want = "image"
    /\ NotLocked
    /\ \/ /\ Current(s) /\ entries[s.file].image # 0
          /\ order' = Touched(s.file)
          /\ Give(w, Lease("image", s, entries[s.file].image, 0))
       \/ /\ ~(Current(s) /\ entries[s.file].image # 0)
          /\ Goto(w, "decode")
          /\ UNCHANGED <<order, job, mine, leases>>
    /\ UNCHANGED <<disk, entries, lock, reads, decodes>>

(* Decode, shrink the reservation, insert_decoded, return the image. *)
Decode(w) ==
    LET s == Source(w) IN
    /\ Decoding(w)
    /\ NotLocked
    /\ decodes < MaxDecodes
    /\ decodes' = decodes + 1
    /\ entries' = IF Current(s)
                  THEN [entries EXCEPT ![s.file].image = decodes + 1,
                                       ![s.file].origin = s]
                  ELSE entries
    /\ Give(w, Lease("image", s, decodes + 1, 0))
    /\ UNCHANGED <<disk, order, lock, reads>>

(* Cancellation, an I/O error or an undecodable file. *)
Abandon(w) == /\ pc[w] \in Filling \cup {"loaded", "decoding"}
              /\ Fail(w)

-----------------------------------------------------------------------------
(* reserve_derived: the caller keeps the image borrowed meanwhile. *)
Derive(w) ==
    /\ pc[w] = "idle"
    /\ \E h \in leases : /\ h.kind = "image"
                         /\ mine' = [mine EXCEPT ![w] = {h}]
    /\ Goto(w, "derive")
    /\ UNCHANGED <<disk, entries, order, lock, job, leases, reads, decodes>>

(* What reserve_sequence_render may evict: the entries with unpinned       *)
(* pixels, the least recently used first.                                  *)
Reclaimable == {f \in Cached : Unpinned(f) /\ entries[f].image # 0}

(* reserve_sequence_render: as all allocations are of one size here, the   *)
(* limits on their number and on their bytes are one.                      *)
Collect(w) ==
    /\ pc[w] = "idle"
    /\ NotLocked
    /\ Derived <= MaxDecoded
    /\ Cardinality(Charged({"sequence"})) < MaxSequences
    /\ Decoded - (MaxDecoded - Derived) <= Pixels * Cardinality(Reclaimable)
    /\ \E h \in leases :
          /\ h.kind \in {"derived", "sequence"}
          /\ mine' = [mine EXCEPT ![w] = {h}]
          /\ job' = [job EXCEPT ![w] = [file |-> NoOne, victims |-> Reclaimable]]
    /\ lock' = w
    /\ Goto(w, "charge")
    /\ UNCHANGED <<disk, entries, order, leases, reads, decodes>>

Reclaim(w) ==
    /\ pc[w] = "charge"
    /\ Room("decoded") < Derived
    /\ job[w].victims # {}
    /\ Forget(Oldest(job[w].victims))
    /\ Note(w, "victims", job[w].victims \ {Oldest(job[w].victims)})
    /\ UNCHANGED <<disk, lock, pc, mine, leases, reads, decodes>>

(* The charge is added without another look at the budget. *)
Charge(w) ==
    /\ pc[w] = "charge"
    /\ Room("decoded") >= Derived \/ job[w].victims = {}
    /\ lock' = NoOne
    /\ \E h \in mine[w] : \E i \in Fresh("sequence", h.source) :
          Give(w, Lease("sequence", h.source, h.image, i))
    /\ UNCHANGED <<disk, entries, order, reads, decodes>>

(* Mutant of Upgrade: the generations are not compared. *)
UpgradeByStamp(w) ==
    /\ pc[w] = "idle"
    /\ \E h, l \in leases :
          /\ h.kind \in {"derived", "sequence"} /\ l.kind = "image"
          /\ h.source.file = l.source.file /\ h.source.stamp = l.source.stamp
          /\ <<h.source, h.image>> \in Rasters
          /\ mine' = [mine EXCEPT ![w] = {h, l, Lease("pixels", h.source, h.image, 0)}]
    /\ Goto(w, "retain")
    /\ UNCHANGED <<disk, entries, order, lock, job, leases, reads, decodes>>

(* retain_exact, the checks: the weak reference is upgraded, and the other *)
(* raster stays alive until the two are compared.                          *)
Upgrade(w) ==
    /\ pc[w] = "idle"
    /\ \E h, l \in leases :
          /\ h.kind \in {"derived", "sequence"} /\ l.kind = "image"
          /\ h.source.file = l.source.file /\ h.source.stamp = l.source.stamp
          /\ h.source.generation = l.source.generation
          /\ <<h.source, h.image>> \in Rasters
          /\ mine' = [mine EXCEPT ![w] = {h, l, Lease("pixels", h.source, h.image, 0)}]
    /\ Goto(w, "retain")
    /\ UNCHANGED <<disk, entries, order, lock, job, leases, reads, decodes>>

(* Arc::ptr_eq decides; the pixels are shared and the temporary is gone. *)
Retain(w) ==
    /\ pc[w] = "retain"
    /\ \E l, p \in mine[w] :
          /\ l.kind = "image" /\ p.kind = "pixels"
          /\ IF l.image = p.image THEN Give(w, p) ELSE End(w) /\ UNCHANGED leases
    /\ UNCHANGED <<disk, entries, order, lock, reads, decodes>>

-----------------------------------------------------------------------------
(* A consumer drops the last clone of a lease, at any time. *)
Drop ==
    /\ \E h \in leases : leases' = leases \ {h}
    /\ UNCHANGED <<disk, entries, order, lock, pc, job, mine, reads, decodes>>

(* discard_decoded *)
Discard ==
    /\ NotLocked
    /\ \E h \in leases :
          /\ h.kind = "image" /\ Current(h.source)
          /\ entries' = [entries EXCEPT ![h.source.file].image = 0]
    /\ UNCHANGED <<disk, order, lock, pc, job, mine, leases, reads, decodes>>

(* clear, invalidate, invalidate_under *)
Invalidate ==
    /\ NotLocked
    /\ \E f \in File : Forget(f)
    /\ UNCHANGED <<disk, lock, pc, job, mine, leases, reads, decodes>>

(* Another program writes a file, or only touches it. *)
WriteOutside ==
    /\ \E f \in File : \E v \in Versions[f] :
          /\ Stamp(f) < Len(v) /\ IsPrefix(disk[f], v)
          /\ disk' = [disk EXCEPT ![f] = Append(@, v[Stamp(f) + 1])]
    /\ UNCHANGED <<entries, order, lock, pc, job, mine, leases, reads, decodes>>

Init ==
    /\ disk = [f \in File |-> <<(CHOOSE v \in Versions[f] : TRUE)[1]>>]
    /\ entries = [f \in File |-> NoEntry]
    /\ order = <<>>
    /\ lock = NoOne
    /\ pc = [w \in Worker |-> "idle"]
    /\ job = [w \in Worker |-> NoJob]
    /\ mine = [w \in Worker |-> {}]
    /\ leases = {}
    /\ reads = 0 /\ decodes = 0

Reserve(w) == Evict(w) \/ Refuse(w) \/ Admit(w)
ReadFile(w) == ReadChunk(w) \/ CheckStamp(w) \/ VerifyChunk(w)
                   \/ VerifyStamp(w) \/ InsertBytes(w)
Load(w) == ReturnBytes(w) \/ LookupDecoded(w) \/ Decode(w) \/ Abandon(w)
Consume(w) == Derive(w) \/ Collect(w) \/ Reclaim(w) \/ Charge(w) \/ Upgrade(w)
                  \/ Retain(w)

Next ==
    \/ \E w \in Worker : \/ \E r \in Reads : Open(w, r[1], r[2])
                         \/ Reserve(w) \/ ReadFile(w)
                         \/ Load(w) \/ Consume(w)
    \/ Drop \/ Discard \/ Invalidate \/ WriteOutside

Spec == Init /\ [][Next]_vars

-----------------------------------------------------------------------------
(* Whoever gets bytes with a stamp gets what the file held under it, though *)
(* other programs write between the chunks of a read and the bytes outlive *)
(* the file's version in the cache.                                        *)
ServesContent ==
    \A s \in Slots : disk[s.file][s.stamp] = s.content

(* The budgets hold at every moment, counting what consumers keep, what is *)
(* being read or decoded and what the cache has.                           *)
BudgetsKept ==
    /\ Images <= MaxImages
    /\ Encoded <= MaxEncoded
    /\ Decoded <= MaxDecoded
    /\ Cardinality(Charged({"sequence"})) <= MaxSequences

(* The pixels of an entry were decoded from the entry's own bytes: they    *)
(* share one slot, and an image keeps the generation it was decoded under. *)
PixelsOfBytes ==
    \A f \in Cached : entries[f].image # 0 => entries[f].origin = entries[f].source

(* Making room never takes an entry whose bytes or pixels somebody uses:   *)
(* it would free nothing, and the next reader would load a second copy.    *)
KeepsPinned ==
    [][\A f \in Cached : ~Unpinned(f) /\ lock' # NoOne => entries'[f] # NoEntry]_vars
=============================================================================
