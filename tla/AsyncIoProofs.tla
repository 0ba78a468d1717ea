------------------------------ MODULE AsyncIoProofs ------------------------------
(***************************************************************************)
(* Theorems about BufferPool and about AsyncIo, the operations of files    *)
(* and sockets built on it, for every size of buffers, of the pool and of  *)
(* the file, and any number of operations: GetZeroed of any use a thread   *)
(* makes of the pool and of the uses AsyncIo makes of it, ReadSeesWrites,  *)
(* SyncDurable, and that AsyncIo keeps to IoPromise.                       *)
(***************************************************************************)
EXTENDS AsyncIo, TLAPS, SequenceTheorems, FiniteSetTheorems

\* The buffers recycle puts into the pool.
Standard == {v \in Buffers : v.len = 0 /\ v.capacity = BUFFER_SIZE /\ v.dirty = 0}

\* The inductive invariant: what get() returns is zeroed because what recycle
\* pushed was cleared.
PoolSafe ==
    /\ pool \in Seq(Standard) /\ Len(pool) <= POOL_SIZE
    /\ held \in [Holder -> Buffers] /\ asked \in [Holder -> Nat]
    /\ GetZeroed

-----------------------------------------------------------------------------
(* Vec<u8>.                                                                *)

\* A Vec is a buffer when its length is within its capacity.
LEMMA VecFields ==
    ASSUME NEW l \in Nat, NEW c \in Nat, NEW d \in Nat
    PROVE  /\ Vec(l, c, d).len = l /\ Vec(l, c, d).capacity = c /\ Vec(l, c, d).dirty = d
           /\ l <= c => Vec(l, c, d) \in Buffers
BY DEF Vec, Buffers

\* resize keeps the length within the capacity, and zeros stay zeros.
LEMMA ResizeFields ==
    ASSUME NEW v \in Buffers, NEW n \in Nat
    PROVE  /\ Resize(v, n) \in Buffers /\ Resize(v, n).len = n
           /\ v.dirty = 0 => Resize(v, n).dirty = 0
           /\ Written(v, n) \in Buffers
<1> DEFINE c == IF n <= v.capacity THEN v.capacity
                ELSE Larger(n, Larger(2 * v.capacity, GrowMin))
           d == IF v.dirty <= n THEN v.dirty ELSE n
<1>1. v.capacity \in Nat /\ v.dirty \in Nat
  BY DEF Buffers
<1>2. c \in Nat /\ n <= c /\ d \in Nat /\ (v.dirty = 0 => d = 0)
  BY <1>1, BufferAssumption DEF Larger
<1>3. Resize(v, n) = Vec(n, c, d)
  BY DEF Resize
<1> HIDE DEF c, d
<1>4. /\ Resize(v, n) \in Buffers /\ Resize(v, n).len = n /\ Resize(v, n).dirty = d
  BY <1>2, <1>3, VecFields
<1>5. Written(v, n) \in Buffers
  BY <1>4 DEF Written, Buffers
<1> QED  BY <1>2, <1>4, <1>5

\* recycle clears a buffer and makes room in it.
LEMMA RecycledFields ==
    ASSUME NEW v \in Buffers, Recycled(v).capacity = BUFFER_SIZE
    PROVE  Recycled(v) \in Standard
<1> DEFINE a == IF v.capacity < BUFFER_SIZE THEN BUFFER_SIZE - v.capacity ELSE 0
           c == Larger(v.capacity, 0 + a)
<1>1. v.capacity \in Nat
  BY DEF Buffers
<1>2. a \in Nat /\ c \in Nat
  BY <1>1, BufferAssumption DEF Larger
<1>3. Vec(0, v.capacity, 0).len = 0 /\ Vec(0, v.capacity, 0).capacity = v.capacity
      /\ Vec(0, v.capacity, 0).dirty = 0
  BY <1>1, VecFields
<1>4. Recycled(v) = Vec(0, c, 0)
  BY <1>3 DEF Recycled, ReserveExact
<1> HIDE DEF c
<1> QED  BY <1>2, <1>4, VecFields DEF Standard

\* The pool after recycle.
LEMMA RecyclePool ==
    ASSUME NEW p \in Seq(Standard), Len(p) <= POOL_SIZE, NEW v \in Buffers
    PROVE  Recycle(p, v) \in Seq(Standard) /\ Len(Recycle(p, v)) <= POOL_SIZE
<1>1. CASE Recycled(v).capacity = BUFFER_SIZE /\ Len(p) < POOL_SIZE
  <2>1. Recycled(v) \in Standard /\ Recycle(p, v) = Append(p, Recycled(v))
    BY <1>1, RecycledFields DEF Recycle
  <2>2. Append(p, Recycled(v)) \in Seq(Standard) /\ Len(Append(p, Recycled(v))) = Len(p) + 1
    BY <2>1, AppendProperties
  <2>3. Len(p) \in Nat
    OBVIOUS
  <2> QED  BY <1>1, <2>1, <2>2, <2>3, BufferAssumption
<1>2. CASE ~(Recycled(v).capacity = BUFFER_SIZE /\ Len(p) < POOL_SIZE)
  BY <1>2 DEF Recycle
<1> QED  BY <1>1, <1>2

\* What get() returns, from a pool of standard buffers, and what it leaves.
LEMMA GottenFields ==
    ASSUME PoolSafe, NEW n \in Nat
    PROVE  /\ Gotten(n) \in Buffers /\ Gotten(n).len = n /\ Gotten(n).dirty = 0
           /\ PoolAfterGet(n) \in Seq(Standard) /\ Len(PoolAfterGet(n)) <= POOL_SIZE
<1>1. Zeroed(n) \in Buffers /\ Zeroed(n).len = n /\ Zeroed(n).dirty = 0
  BY VecFields DEF Zeroed
<1>2. ASSUME pool # <<>>
      PROVE  /\ Head(pool) \in Standard /\ Tail(pool) \in Seq(Standard)
             /\ Len(Tail(pool)) <= POOL_SIZE
  BY <1>2, BufferAssumption DEF PoolSafe
<1>3. pool # <<>> => /\ Resize(Head(pool), n) \in Buffers /\ Resize(Head(pool), n).len = n
                     /\ Resize(Head(pool), n).dirty = 0
  BY <1>2, ResizeFields DEF Standard
<1>4. FromPool(n) => pool # <<>>
  BY DEF FromPool
<1>5. Gotten(n) \in Buffers /\ Gotten(n).len = n /\ Gotten(n).dirty = 0
  BY <1>1, <1>3, <1>4 DEF Gotten
<1>6. PoolAfterGet(n) \in Seq(Standard) /\ Len(PoolAfterGet(n)) <= POOL_SIZE
  BY <1>2, <1>4 DEF PoolAfterGet, PoolSafe
<1> QED  BY <1>5, <1>6

-----------------------------------------------------------------------------
(* The invariant.                                                          *)

\* A holder's buffer is replaced: zeroed and of the length asked for, or one
\* that nobody takes for what get() returned.
LEMMA PutSafe ==
    ASSUME PoolSafe, NEW h \in Holder, NEW v \in Buffers, NEW a \in Nat, Put(h, v, a),
           a # Changed => v.len + 1 = a /\ v.dirty = 0,
           pool' \in Seq(Standard), Len(pool') <= POOL_SIZE
    PROVE  PoolSafe'
<1>1. held' \in [Holder -> Buffers] /\ asked' \in [Holder -> Nat]
  BY DEF PoolSafe, Put
<1>2. /\ held'[h] = v /\ asked'[h] = a
      /\ \A g \in Holder \ {h} : held'[g] = held[g] /\ asked'[g] = asked[g]
  BY DEF PoolSafe, Put
<1>3. GetZeroed'
  BY <1>2 DEF PoolSafe, GetZeroed
<1> QED  BY <1>1, <1>3 DEF PoolSafe

\* Every call keeps the invariant.
LEMMA NextSafe ==
    ASSUME PoolSafe, PoolNext
    PROVE  PoolSafe'
<1>1. PICK h \in Holder : \/ RecycleHeld(h) \/ Drop(h)
                          \/ \E n \in Nat : \/ Get(h, n) \/ FromSlice(h, n)
                                            \/ CopyFromSlice(h, n) \/ SetLen(h, n)
  BY DEF PoolNext
<1>2. /\ held[h] \in Buffers /\ Changed \in Nat /\ NoBuffer \in Buffers
      /\ pool \in Seq(Standard) /\ Len(pool) <= POOL_SIZE
  BY VecFields DEF PoolSafe, Changed, NoBuffer, Buffers, Vec
<1>3. CASE RecycleHeld(h)
  <2>1. pool' \in Seq(Standard) /\ Len(pool') <= POOL_SIZE
    BY <1>2, <1>3, RecyclePool DEF RecycleHeld
  <2> QED  BY <1>2, <1>3, <2>1, PutSafe DEF RecycleHeld
<1>4. CASE Drop(h)
  BY <1>2, <1>4, PutSafe DEF Drop
<1>5. ASSUME NEW n \in Nat, Get(h, n)
      PROVE  PoolSafe'
  <2>1. /\ Gotten(n) \in Buffers /\ Gotten(n).len = n /\ Gotten(n).dirty = 0
        /\ pool' \in Seq(Standard) /\ Len(pool') <= POOL_SIZE
    BY <1>5, GottenFields DEF Get
  <2>2. n + 1 \in Nat /\ Put(h, Gotten(n), n + 1)
    BY <1>5 DEF Get
  <2> QED  BY <2>1, <2>2, PutSafe
<1>6. ASSUME NEW n \in Nat, FromSlice(h, n)
      PROVE  PoolSafe'
  <2>1. Vec(n, n, n) \in Buffers
    BY VecFields
  <2> QED  BY <1>2, <1>6, <2>1, PutSafe DEF FromSlice
<1>7. ASSUME NEW n \in Nat, CopyFromSlice(h, n)
      PROVE  PoolSafe'
  <2>1. Written(held[h], n) \in Buffers
    BY <1>2, ResizeFields
  <2> QED  BY <1>2, <1>7, <2>1, PutSafe DEF CopyFromSlice
<1>8. ASSUME NEW n \in Nat, SetLen(h, n)
      PROVE  PoolSafe'
  <2>1. held[h].capacity \in Nat /\ n <= held[h].capacity
    BY <1>2, <1>8 DEF SetLen, Buffers
  <2>2. WithLen(held[h], n) \in Buffers
    BY <2>1, VecFields DEF WithLen
  <2> QED  BY <1>2, <1>8, <2>2, PutSafe DEF SetLen
<1> QED  BY <1>1, <1>3, <1>4, <1>5, <1>6, <1>7, <1>8

\* PoolSafe is an invariant of every use of the pool.
THEOREM BufferPoolSafe == PoolSpec => []PoolSafe
<1>1. PoolInit => PoolSafe
  <2>1. NoBuffer \in Buffers /\ Changed \in Nat
    BY DEF NoBuffer, Vec, Buffers, Changed
  <2> QED  BY <2>1, BufferAssumption DEF PoolInit, PoolSafe, GetZeroed
<1>2. PoolSafe /\ [PoolNext]_poolVars => PoolSafe'
  <2>1. PoolSafe /\ UNCHANGED poolVars => PoolSafe'
    BY DEF PoolSafe, GetZeroed, poolVars
  <2> QED  BY <2>1, NextSafe
<1> QED  BY <1>1, <1>2, PTL DEF PoolSpec

\* get() returns zeroed buffers of the length asked for, of whatever size, and
\* whatever was done to the buffers that were recycled before.
THEOREM BufferPoolGetZeroed == PoolSpec => []GetZeroed
<1>1. PoolSafe => GetZeroed
  BY DEF PoolSafe
<1> QED  BY <1>1, BufferPoolSafe, PTL

\* The pool never exceeds POOL_SIZE, holds empty buffers of the standard capacity
\* only, so that get() never throws one away, and no buffer's length exceeds its
\* capacity.
THEOREM BufferPoolStandard == PoolSpec => [](PoolTypeOK /\ PoolStandard)
<1>1. PoolSafe => PoolTypeOK /\ PoolStandard
  <2> SUFFICES ASSUME PoolSafe PROVE PoolTypeOK /\ PoolStandard
    OBVIOUS
  <2>1. \A i \in DOMAIN pool : pool[i] \in Standard
    BY DEF PoolSafe
  <2>2. pool \in Seq(Buffers)
    BY DEF PoolSafe, Standard
  <2> QED  BY <2>1, <2>2 DEF PoolSafe, PoolTypeOK, PoolStandard, Standard
<1> QED  BY <1>1, BufferPoolSafe, PTL

-----------------------------------------------------------------------------
(* poll_complete recycles a set of buffers, one after the other.  FoldSet  *)
(* is a recursive function on the subsets of that set; what it returns is  *)
(* found by induction on their size.                                       *)

\* Induction over the naturals, for a set of them.
LEMMA SetOfNaturals ==
    ASSUME NEW T \in SUBSET Nat, 0 \in T, \A n \in T : n + 1 \in T
    PROVE  \A n \in Nat : n \in T
<1> SUFFICES ASSUME Nat \ T # {} PROVE FALSE
  OBVIOUS
<1>1. PICK m \in Nat \ T : \A n \in Nat \ T : ~ (<<n, m>> \in OpToRel(<, Nat))
  <2>1. Nat \ T \subseteq Nat
    OBVIOUS
  <2> QED  BY <2>1, WFMin, NatLessThanWellFounded, Zenon
<1>2. m # 0 /\ m - 1 \in Nat /\ m - 1 < m /\ m - 1 + 1 = m
  <2>1. m # 0
    OBVIOUS
  <2> QED  BY <2>1
<1>3. m - 1 \notin T
  BY <1>2
<1>4. <<m - 1, m>> \in OpToRel(<, Nat)
  BY <1>2 DEF OpToRel
<1> QED  BY <1>1, <1>2, <1>3, <1>4

Pools == {p \in Seq(Standard) : Len(p) <= POOL_SIZE}
Pick(s) == CHOOSE x \in s : TRUE

\* One step of the fold that recycles the buffers h[o], o in s, into the pool p.
FoldStep(p, h, it, s) ==
    IF s = {} THEN p ELSE Recycle(it[s \ {Pick(s)}], h[Pick(s)])

\* it is the recursive function of that fold, on the subsets of S.
IsFold(it, S, p, h) == it = [s \in SUBSET S |-> FoldStep(p, h, it, s)]

\* Taking elements out of a finite set one by one.
LEMMA PickOne ==
    ASSUME NEW S, IsFiniteSet(S), NEW s \in SUBSET S
    PROVE  /\ Cardinality(s) \in Nat /\ Cardinality(s) <= Cardinality(S)
           /\ s # {} => /\ Pick(s) \in s /\ s \ {Pick(s)} \in SUBSET S
                        /\ Cardinality(s \ {Pick(s)}) = Cardinality(s) - 1
           /\ Cardinality(s) <= 0 => s = {}
<1>1. IsFiniteSet(s) /\ Cardinality(s) <= Cardinality(S) /\ Cardinality(s) \in Nat
  BY FS_Subset, FS_CardinalityType
<1>2. s # {} => Pick(s) \in s
  BY DEF Pick
<1>3. s # {} => Cardinality(s \ {Pick(s)}) = Cardinality(s) - 1
  BY <1>1, <1>2, FS_RemoveElement
<1>4. Cardinality(s) <= 0 => s = {}
  BY <1>1, FS_EmptySet
<1> QED  BY <1>1, <1>2, <1>3, <1>4

\* The recursive function of the fold exists: it is built for the subsets of at
\* most n elements, for one n after the other.
LEMMA FoldExists ==
    ASSUME NEW S, IsFiniteSet(S), NEW h, NEW p
    PROVE  \E it : IsFold(it, S, p, h)
<1> DEFINE upTo(n) == {s \in SUBSET S : Cardinality(s) <= n}
           T == {n \in Nat : \E g : g = [s \in upTo(n) |-> FoldStep(p, h, g, s)]}
<1>1. 0 \in T
  <2> DEFINE g == [s \in upTo(0) |-> p]
  <2>1. \A s \in upTo(0) : FoldStep(p, h, g, s) = p
    BY PickOne DEF FoldStep
  <2>2. g = [s \in upTo(0) |-> FoldStep(p, h, g, s)]
    BY <2>1
  <2> HIDE DEF g, upTo
  <2> QED  BY <2>2
<1>2. ASSUME NEW n \in T PROVE n + 1 \in T
  <2>1. n \in Nat
    OBVIOUS
  <2>2. PICK g : g = [s \in upTo(n) |-> FoldStep(p, h, g, s)]
    OBVIOUS
  <2> DEFINE f == [s \in upTo(n + 1) |-> FoldStep(p, h, g, s)]
  <2>3. ASSUME NEW s \in upTo(n) PROVE s \in upTo(n + 1)
    <3>1. Cardinality(s) \in Nat
      BY PickOne
    <3> QED  BY <3>1, <2>1
  <2>4. \A s \in upTo(n + 1) : s # {} => s \ {Pick(s)} \in upTo(n)
    BY PickOne, <2>1
  <2> HIDE DEF upTo
  <2>5. \A s \in upTo(n) : f[s] = g[s]
    BY <2>2, <2>3
  <2>6. f = [s \in upTo(n + 1) |-> FoldStep(p, h, g, s)]
    OBVIOUS
  <2> HIDE DEF f
  <2>7. \A s \in upTo(n + 1) : FoldStep(p, h, f, s) = FoldStep(p, h, g, s)
    BY <2>4, <2>5 DEF FoldStep
  <2>8. f = [s \in upTo(n + 1) |-> FoldStep(p, h, f, s)]
    BY <2>6, <2>7
  <2> QED  BY <2>1, <2>8
<1>3. Cardinality(S) \in T
  <2>1. T \in SUBSET Nat /\ Cardinality(S) \in Nat
    BY PickOne
  <2> HIDE DEF T
  <2> QED  BY <2>1, <1>1, <1>2, SetOfNaturals
<1>4. upTo(Cardinality(S)) = SUBSET S
  BY PickOne
<1> QED  BY <1>3, <1>4 DEF IsFold

\* Whatever the buffers and their order, the pool stays a pool of standard buffers
\* within its limit.
LEMMA FoldPools ==
    ASSUME NEW S, IsFiniteSet(S), NEW h, \A o \in S : h[o] \in Buffers,
           NEW p \in Pools, NEW it, IsFold(it, S, p, h)
    PROVE  it[S] \in Pools
<1> DEFINE upTo(n) == {s \in SUBSET S : Cardinality(s) <= n}
           T == {n \in Nat : \A s \in upTo(n) : it[s] \in Pools}
<1>0. it = [s \in SUBSET S |-> FoldStep(p, h, it, s)]
  BY DEF IsFold
<1>1. \A q \in Pools, o \in S : Recycle(q, h[o]) \in Pools
  BY RecyclePool DEF Pools
<1>2. 0 \in T
  BY <1>0, PickOne DEF FoldStep
<1>3. ASSUME NEW n \in T PROVE n + 1 \in T
  <2>1. ASSUME NEW s \in upTo(n + 1) PROVE it[s] \in Pools
    <3>1. CASE s = {}
      BY <1>0, <3>1 DEF FoldStep
    <3>2. CASE s # {}
      <4>1. s \ {Pick(s)} \in upTo(n) /\ Pick(s) \in S
        BY <3>2, PickOne
      <4>2. it[s \ {Pick(s)}] \in Pools
        BY <4>1
      <4>3. it[s] = Recycle(it[s \ {Pick(s)}], h[Pick(s)])
        BY <1>0, <3>2 DEF FoldStep
      <4> QED  BY <4>1, <4>2, <4>3, <1>1
    <3> QED  BY <3>1, <3>2
  <2>2. n + 1 \in Nat
    OBVIOUS
  <2> HIDE DEF upTo
  <2> QED  BY <2>1, <2>2
<1>4. \A n \in Nat : n \in T
  <2>1. T \in SUBSET Nat
    OBVIOUS
  <2> HIDE DEF T
  <2> QED  BY <2>1, <1>2, <1>3, SetOfNaturals
<1>5. S \in upTo(Cardinality(S)) /\ Cardinality(S) \in Nat
  BY PickOne
<1> QED  BY <1>4, <1>5

-----------------------------------------------------------------------------
(* AsyncIo: the types, and that it keeps to IoPromise.                     *)

Stage == {"idle", "submitted", "refused", "succeeded", "failed", "Ok", "Err", "gone"}
Future == {"none", "waiting", "Ok", "Err", "dropped"}
Kind == {"none", "write_at", "read_at", "recv_from", "sync_all"}
Content == [1 .. Cells -> Nat]
Transfer == UNION {[1 .. n -> Nat] : n \in 0 .. Cells}

FileTypes ==
    /\ kernel \in [Op -> Stage] /\ future \in [Op -> Future] /\ kind \in [Op -> Kind]
    /\ before \in [Op -> SUBSET Op] /\ data \in [Op -> Transfer]
    /\ file \in Content /\ disk \in Content /\ writes \in Nat

\* The cells of a transfer.
LEMMA TransferCells ==
    /\ <<>> \in Transfer
    /\ \A d \in Transfer : DOMAIN d \subseteq 1 .. Cells /\ \A i \in DOMAIN d : d[i] \in Nat
    /\ \A n \in 0 .. Cells, f \in Content :
          /\ SubSeq(f, 1, n) \in Transfer /\ DOMAIN SubSeq(f, 1, n) = 1 .. n
          /\ \A i \in 1 .. n : SubSeq(f, 1, n)[i] = f[i]
<1>0. Cells \in Nat
  BY AsyncIoAssumption
<1>1. <<>> \in Transfer
  <2>1. <<>> \in [1 .. 0 -> Nat] /\ 0 \in 0 .. Cells
    BY <1>0
  <2> QED  BY <2>1 DEF Transfer
<1>2. ASSUME NEW d \in Transfer
      PROVE  DOMAIN d \subseteq 1 .. Cells /\ \A i \in DOMAIN d : d[i] \in Nat
  <2>1. PICK n \in 0 .. Cells : d \in [1 .. n -> Nat]
    BY DEF Transfer
  <2> QED  BY <2>1, <1>0
<1>3. ASSUME NEW n \in 0 .. Cells, NEW f \in Content
      PROVE  /\ SubSeq(f, 1, n) \in Transfer /\ DOMAIN SubSeq(f, 1, n) = 1 .. n
             /\ \A i \in 1 .. n : SubSeq(f, 1, n)[i] = f[i]
  <2>1. f \in Seq(Nat) /\ Len(f) = Cells /\ n \in Nat /\ n <= Cells
    BY <1>0 DEF Content
  <2>2. SubSeq(f, 1, n) = [i \in 1 .. n |-> f[i]]
    BY <2>1, <1>0 DEF Content
  <2>3. \A i \in 1 .. n : f[i] \in Nat
    BY <1>0 DEF Content
  <2>4. [i \in 1 .. n |-> f[i]] \in [1 .. n -> Nat]
    BY <2>3
  <2>5. SubSeq(f, 1, n) \in Transfer
    BY <2>2, <2>4 DEF Transfer
  <2> QED  BY <2>2, <2>5
<1> QED  BY <1>1, <1>2, <1>3

\* Every step is one of IoPromise: the calls, the kernel and the pool do nothing
\* to an operation that the promise does not allow.
LEMMA PromiseStep ==
    ASSUME Next
    PROVE  PromiseNext
<1>1. CASE KernelStep
  BY <1>1 DEF KernelStep, KernelReads, KernelWrites, KernelSyncs, KernelFails, PromiseNext
<1>2. CASE \E r \in [Finished -> {"Ok", "Err"}] : PollComplete(r)
  BY <1>2 DEF PollComplete, PromiseNext
<1>3. ASSUME NEW o \in Op,
             \/ \E n \in Lengths : read_at(o, n) \/ write_at(o, n) \/ recv_from(o, n)
             \/ sync_all(o) \/ CallReturns(o) \/ CallDropped(o)
      PROVE  PromiseNext
  BY <1>3 DEF read_at, write_at, recv_from, sync_all, Call, CallReturns, CallDropped, PromiseNext
<1> QED  BY <1>1, <1>2, <1>3 DEF Next

\* What the operations of files and sockets see of the backend is what IoPromise
\* says of it, and Io implements.
THEOREM AsyncIoPromise == Spec => PromiseSpec
<1>1. Init => PromiseInit
  BY DEF Init
<1>2. [Next]_vars => [PromiseNext]_promiseVars
  BY PromiseStep DEF vars
<1> QED  BY <1>1, <1>2, PTL DEF Spec, PromiseSpec

-----------------------------------------------------------------------------
(* The files.                                                              *)

\* A future has returned what its operation ended with.
Returned == \A o \in Op : future[o] \in {"Ok", "Err"} => kernel[o] = future[o]

\* What the kernel has not done has transferred nothing, and what an operation
\* found done is done.
InOrder ==
    \A o \in Op : /\ kernel[o] \in {"idle", "submitted"} => data[o] = <<>>
                  /\ \A w \in before[o] : future[w] \in {"Ok", "Err"}

\* Writes are numbered in the order in which the kernel does them, so a cell of
\* the file only grows, and the disk is behind it.
Numbered ==
    /\ \A i \in 1 .. Cells : disk[i] <= file[i] /\ file[i] <= writes
    /\ \A w \in Op : kind[w] = "write_at" => \A i \in DOMAIN data[w] : data[w][i] <= file[i]

\* ReadSeesWrites from the moment the kernel reads.
Seen ==
    \A r, w \in Op :
        kind[r] = "read_at" /\ w \in before[r] /\ kind[w] = "write_at" =>
            \A i \in DOMAIN data[r] \cap DOMAIN data[w] : data[w][i] <= data[r][i]

\* SyncDurable from the moment the kernel syncs.
Flushed ==
    \A s, w \in Op :
        kind[s] = "sync_all" /\ kernel[s] \in {"succeeded", "Ok"} /\ w \in before[s]
        /\ kind[w] = "write_at" =>
            \A i \in DOMAIN data[w] : data[w][i] <= disk[i]

\* The inductive invariant of the files.
FilesSafe == FileTypes /\ Returned /\ InOrder /\ Numbered /\ Seen /\ Flushed

\* What a step of the promise does to one operation.
LEMMA PromiseMoves ==
    ASSUME kernel \in [Op -> Stage], future \in [Op -> Future], Returned, PromiseNext
    PROVE  /\ kernel' \in [Op -> Stage] /\ future' \in [Op -> Future] /\ Returned'
           /\ \A o \in Op :
                 /\ future[o] \in {"Ok", "Err"} => future'[o] = future[o]
                 /\ kernel'[o] \in {"idle", "submitted"} => kernel[o] \in {"idle", "submitted"}
                 /\ kernel'[o] = "Ok" => kernel[o] \in {"succeeded", "Ok"}
<1>1. CASE Stop
  BY <1>1 DEF Stop, Stage, Future, Returned
<1>2. CASE \E r \in [Finished -> {"Ok", "Err"}] : Complete(r)
  <2>1. PICK r \in [Finished -> {"Ok", "Err"}] : Complete(r)
    BY <1>2
  <2>2. \A o \in Op : kernel'[o] = IF o \notin Finished THEN kernel[o]
                                   ELSE IF future[o] = "dropped" THEN "gone" ELSE r[o]
    BY <2>1 DEF Complete
  <2>3. kernel' \in [Op -> Stage] /\ future' = future
    BY <2>1 DEF Complete, Stage
  <2>4. \A o \in Finished : r[o] = "Ok" => kernel[o] = "succeeded"
    BY <2>1 DEF Complete, Results, Finished
  <2>5. \A o \in Op : o \in Finished => kernel[o] \in {"succeeded", "failed"}
    BY DEF Finished
  <2>6. \A o \in Finished : r[o] \in {"Ok", "Err"}
    BY <2>1
  <2> QED  BY <2>2, <2>3, <2>4, <2>5, <2>6 DEF Returned
<1>3. ASSUME NEW o \in Op, \/ SubmitOp(o) \/ Return(o) \/ Abandon(o)
                           \/ \E k \in {"succeeded", "failed"} : Finish(o, k)
      PROVE  /\ kernel' \in [Op -> Stage] /\ future' \in [Op -> Future] /\ Returned'
             /\ \A p \in Op :
                   /\ future[p] \in {"Ok", "Err"} => future'[p] = future[p]
                   /\ kernel'[p] \in {"idle", "submitted"} => kernel[p] \in {"idle", "submitted"}
                   /\ kernel'[p] = "Ok" => kernel[p] \in {"succeeded", "Ok"}
  <2>1. CASE SubmitOp(o)
    BY <2>1 DEF SubmitOp, Returned, Stage, Future
  <2>2. CASE Return(o)
    BY <2>2 DEF Return, Returned, Stage, Future
  <2>3. CASE Abandon(o)
    BY <2>3 DEF Abandon, Returned, Stage, Future
  <2>4. CASE \E k \in {"succeeded", "failed"} : Finish(o, k)
    BY <2>4 DEF Finish, Returned, Stage, Future
  <2> QED  BY <1>3, <2>1, <2>2, <2>3, <2>4
<1> QED  BY <1>1, <1>2, <1>3 DEF PromiseNext

\* A call is submitted.
LEMMA CallFiles ==
    ASSUME FilesSafe, NEW o \in Op, NEW k \in Kind, Call(o, k), PromiseNext
    PROVE  FilesSafe'
<1>1. /\ kernel' \in [Op -> Stage] /\ future' \in [Op -> Future] /\ Returned'
      /\ \A p \in Op :
            /\ future[p] \in {"Ok", "Err"} => future'[p] = future[p]
            /\ kernel'[p] \in {"idle", "submitted"} => kernel[p] \in {"idle", "submitted"}
            /\ kernel'[p] = "Ok" => kernel[p] \in {"succeeded", "Ok"}
  BY PromiseMoves DEF FilesSafe, FileTypes
<1>2. /\ kind' = [kind EXCEPT ![o] = k] /\ UNCHANGED <<data, file, disk, writes>>
      /\ before' = [before EXCEPT ![o] = {p \in Op : future[p] \in {"Ok", "Err"}}]
      /\ kernel[o] = "idle" /\ kernel'[o] \in {"submitted", "refused"}
      /\ \A p \in Op \ {o} : kernel'[p] = kernel[p]
  BY DEF Call, SubmitOp, fileVars, FilesSafe, FileTypes
<1>3. /\ kind'[o] = k /\ before'[o] = {p \in Op : future[p] \in {"Ok", "Err"}}
      /\ \A p \in Op \ {o} : kind'[p] = kind[p] /\ before'[p] = before[p]
  BY <1>2 DEF FilesSafe, FileTypes
<1>4. FileTypes'
  BY <1>1, <1>2 DEF FilesSafe, FileTypes
<1>5. InOrder'
  BY <1>1, <1>2, <1>3 DEF FilesSafe, InOrder, FileTypes
<1>6. data[o] = <<>> /\ DOMAIN data[o] = {}
  BY <1>2 DEF FilesSafe, InOrder
<1>7. Numbered'
  BY <1>2, <1>3, <1>6 DEF FilesSafe, Numbered
<1>8. Seen'
  BY <1>2, <1>3, <1>6 DEF FilesSafe, Seen
<1>9. Flushed'
  BY <1>1, <1>2, <1>3, <1>6 DEF FilesSafe, Flushed
<1> QED  BY <1>1, <1>4, <1>5, <1>7, <1>8, <1>9 DEF FilesSafe

\* The kernel writes: the numbers of the cells go up, and nobody has waited for
\* this write yet.
LEMMA WriteFiles ==
    ASSUME FilesSafe, NEW o \in Op, NEW n \in 0 .. Cells, KernelWrites(o, n), PromiseNext
    PROVE  FilesSafe'
<1>1. /\ kernel' \in [Op -> Stage] /\ future' \in [Op -> Future] /\ Returned'
      /\ \A p \in Op :
            /\ future[p] \in {"Ok", "Err"} => future'[p] = future[p]
            /\ kernel'[p] \in {"idle", "submitted"} => kernel[p] \in {"idle", "submitted"}
            /\ kernel'[p] = "Ok" => kernel[p] \in {"succeeded", "Ok"}
  BY PromiseMoves DEF FilesSafe, FileTypes
<1>2. /\ kind[o] = "write_at" /\ kernel[o] = "submitted" /\ kernel'[o] = "succeeded"
      /\ \A p \in Op \ {o} : kernel'[p] = kernel[p]
      /\ writes' = writes + 1 /\ UNCHANGED <<kind, before, disk>>
      /\ data' = [data EXCEPT ![o] = [i \in 1 .. n |-> writes + 1]]
      /\ file' = [i \in 1 .. Cells |-> IF i <= n THEN writes + 1 ELSE file[i]]
  BY DEF KernelWrites, Finish, Untouched, FilesSafe, FileTypes
<1>3. /\ DOMAIN data'[o] = 1 .. n /\ \A i \in 1 .. n : data'[o][i] = writes + 1
      /\ \A p \in Op \ {o} : data'[p] = data[p]
      /\ n \in Nat /\ n <= Cells /\ Cells \in Nat /\ writes \in Nat
  BY <1>2, AsyncIoAssumption DEF FilesSafe, FileTypes
<1>4. \A i \in 1 .. Cells : /\ file'[i] = IF i <= n THEN writes + 1 ELSE file[i]
                            /\ file[i] \in Nat /\ disk[i] \in Nat
                            /\ disk[i] <= file[i] /\ file[i] <= writes /\ file[i] <= file'[i]
  <2>1. \A i \in 1 .. Cells : /\ file'[i] = IF i <= n THEN writes + 1 ELSE file[i]
                              /\ file[i] \in Nat /\ disk[i] \in Nat
                              /\ disk[i] <= file[i] /\ file[i] <= writes
    BY <1>2 DEF FilesSafe, FileTypes, Content, Numbered
  <2> QED  BY <2>1, <1>3
<1>5. FileTypes'
  <2>1. file' \in Content /\ writes' \in Nat
    BY <1>2, <1>3, <1>4 DEF Content
  <2>2. [i \in 1 .. n |-> writes + 1] \in Transfer
    <3>1. [i \in 1 .. n |-> writes + 1] \in [1 .. n -> Nat]
      BY <1>3
    <3> QED  BY <3>1 DEF Transfer
  <2>3. data' \in [Op -> Transfer]
    BY <1>2, <2>2 DEF FilesSafe, FileTypes
  <2> QED  BY <1>1, <1>2, <2>1, <2>3 DEF FilesSafe, FileTypes
<1>6. InOrder'
  BY <1>1, <1>2, <1>3 DEF FilesSafe, InOrder, FileTypes
<1>7. Numbered'
  <2>1. \A i \in 1 .. Cells : disk'[i] <= file'[i] /\ file'[i] <= writes'
    BY <1>2, <1>3, <1>4
  <2>2. \A i \in 1 .. n : i \in 1 .. Cells /\ data'[o][i] <= file'[i]
    BY <1>3, <1>4
  <2>3. ASSUME NEW w \in Op \ {o}, kind[w] = "write_at", NEW i \in DOMAIN data[w]
        PROVE  data[w][i] <= file'[i]
    <3>1. data[w] \in Transfer /\ data[w][i] <= file[i]
      BY <2>3 DEF FilesSafe, FileTypes, Numbered
    <3>2. i \in 1 .. Cells /\ data[w][i] \in Nat
      BY <3>1, TransferCells
    <3>3. file[i] \in Nat /\ file'[i] \in Nat /\ file[i] <= file'[i]
      BY <3>2, <1>3, <1>4
    <3> QED  BY <3>1, <3>2, <3>3
  <2> QED  BY <2>1, <2>2, <2>3, <1>2, <1>3 DEF Numbered
<1>8. \A p \in Op : o \notin before[p]
  BY <1>2 DEF FilesSafe, InOrder, Returned
<1>9. Seen'
  BY <1>2, <1>3, <1>8 DEF FilesSafe, Seen
<1>10. Flushed'
  BY <1>2, <1>3, <1>8 DEF FilesSafe, Flushed
<1> QED  BY <1>1, <1>5, <1>6, <1>7, <1>9, <1>10 DEF FilesSafe

\* The kernel reads: the file holds what the writes that returned left, or later.
LEMMA ReadFiles ==
    ASSUME FilesSafe, NEW o \in Op, NEW n \in 0 .. Cells, KernelReads(o, n), PromiseNext
    PROVE  FilesSafe'
<1>1. /\ kernel' \in [Op -> Stage] /\ future' \in [Op -> Future] /\ Returned'
      /\ \A p \in Op :
            /\ future[p] \in {"Ok", "Err"} => future'[p] = future[p]
            /\ kernel'[p] \in {"idle", "submitted"} => kernel[p] \in {"idle", "submitted"}
            /\ kernel'[p] = "Ok" => kernel[p] \in {"succeeded", "Ok"}
  BY PromiseMoves DEF FilesSafe, FileTypes
<1> DEFINE d == IF kind[o] = "read_at" THEN SubSeq(file, 1, n) ELSE <<>>
<1>2. /\ kind[o] \in {"read_at", "recv_from"} /\ kernel'[o] = "succeeded"
      /\ \A p \in Op \ {o} : kernel'[p] = kernel[p]
      /\ UNCHANGED <<kind, before, file, disk, writes>>
      /\ data' = [data EXCEPT ![o] = d]
  BY DEF KernelReads, Finish, Untouched, FilesSafe, FileTypes, fileVars
<1>3. d \in Transfer /\ \A i \in DOMAIN d : d[i] = file[i]
  BY TransferCells DEF FilesSafe, FileTypes
<1> HIDE DEF d
<1>4. data'[o] = d /\ \A p \in Op \ {o} : data'[p] = data[p]
  BY <1>2 DEF FilesSafe, FileTypes
<1>5. FileTypes'
  BY <1>1, <1>2, <1>3 DEF FilesSafe, FileTypes
<1>6. InOrder'
  BY <1>1, <1>2, <1>4 DEF FilesSafe, InOrder, FileTypes
<1>7. Numbered'
  BY <1>2, <1>4 DEF FilesSafe, Numbered
<1>8. ASSUME NEW w \in Op, kind[w] = "write_at"
      PROVE  w # o /\ \A i \in DOMAIN d \cap DOMAIN data[w] : data[w][i] <= d[i]
  BY <1>2, <1>3, <1>8 DEF FilesSafe, Numbered
<1>9. Seen'
  BY <1>2, <1>4, <1>8 DEF FilesSafe, Seen
<1>10. Flushed'
  BY <1>2, <1>4, <1>8 DEF FilesSafe, Flushed
<1> QED  BY <1>1, <1>5, <1>6, <1>7, <1>9, <1>10 DEF FilesSafe

\* The kernel syncs: the disk catches up with the file.
LEMMA SyncFiles ==
    ASSUME FilesSafe, NEW o \in Op, KernelSyncs(o), PromiseNext
    PROVE  FilesSafe'
<1>1. /\ kernel' \in [Op -> Stage] /\ future' \in [Op -> Future] /\ Returned'
      /\ \A p \in Op :
            /\ future[p] \in {"Ok", "Err"} => future'[p] = future[p]
            /\ kernel'[p] \in {"idle", "submitted"} => kernel[p] \in {"idle", "submitted"}
            /\ kernel'[p] = "Ok" => kernel[p] \in {"succeeded", "Ok"}
  BY PromiseMoves DEF FilesSafe, FileTypes
<1>2. disk' = file /\ UNCHANGED <<kind, before, data, file, writes>>
  BY DEF KernelSyncs, Untouched
<1>3. FileTypes'
  BY <1>1, <1>2 DEF FilesSafe, FileTypes
<1>4. InOrder'
  BY <1>1, <1>2 DEF FilesSafe, InOrder, FileTypes
<1>5. Numbered'
  BY <1>2 DEF FilesSafe, FileTypes, Content, Numbered
<1>6. Seen'
  BY <1>2 DEF FilesSafe, Seen
<1>7. Flushed'
  BY <1>2 DEF FilesSafe, Numbered, Flushed
<1> QED  BY <1>1, <1>3, <1>4, <1>5, <1>6, <1>7 DEF FilesSafe

\* The steps that pass results on, or fail, touch no file.
LEMMA OtherFiles ==
    ASSUME FilesSafe, PromiseNext, UNCHANGED <<kind, before, data, file, disk, writes>>,
           \A o \in Op : kernel'[o] = "succeeded" => kernel[o] = "succeeded"
    PROVE  FilesSafe'
<1>1. /\ kernel' \in [Op -> Stage] /\ future' \in [Op -> Future] /\ Returned'
      /\ \A p \in Op :
            /\ future[p] \in {"Ok", "Err"} => future'[p] = future[p]
            /\ kernel'[p] \in {"idle", "submitted"} => kernel[p] \in {"idle", "submitted"}
            /\ kernel'[p] = "Ok" => kernel[p] \in {"succeeded", "Ok"}
  BY PromiseMoves DEF FilesSafe, FileTypes
<1>2. FileTypes' /\ InOrder'
  BY <1>1 DEF FilesSafe, FileTypes, InOrder
<1>3. Numbered' /\ Seen'
  BY DEF FilesSafe, Numbered, Seen
<1>4. Flushed'
  BY <1>1 DEF FilesSafe, Flushed
<1> QED  BY <1>1, <1>2, <1>3, <1>4 DEF FilesSafe

\* FilesSafe is an invariant of AsyncIo.
THEOREM AsyncIoFilesSafe == Spec => []FilesSafe
<1>1. Init => FilesSafe
  <2> SUFFICES ASSUME Init PROVE FilesSafe
    OBVIOUS
  <2>0. Cells \in Nat
    BY AsyncIoAssumption
  <2>1. FileTypes
    BY TransferCells DEF Init, PromiseInit, FileTypes, Stage, Future, Kind, Content
  <2>2. Numbered /\ Returned /\ InOrder
    BY <2>0 DEF Init, PromiseInit, Numbered, Returned, InOrder
  <2>3. Seen /\ Flushed
    BY DEF Init, Seen, Flushed
  <2> QED  BY <2>1, <2>2, <2>3 DEF FilesSafe
<1>2. ASSUME FilesSafe, Next
      PROVE  FilesSafe'
  <2>0. PromiseNext
    BY <1>2, PromiseStep
  <2>1. CASE \E o \in Op : \/ KernelSyncs(o)
                           \/ \E n \in 0 .. Cells : KernelReads(o, n) \/ KernelWrites(o, n)
    BY <1>2, <2>0, <2>1, ReadFiles, WriteFiles, SyncFiles
  <2>2. ASSUME NEW o \in Op, KernelFails(o) \/ CallReturns(o) \/ CallDropped(o)
        PROVE  FilesSafe'
    <3>1. UNCHANGED <<kind, before, data, file, disk, writes>>
      BY <2>2 DEF KernelFails, CallReturns, CallDropped, Untouched, fileVars
    <3>2. \A p \in Op : kernel'[p] = "succeeded" => kernel[p] = "succeeded"
      BY <2>2, <1>2 DEF KernelFails, CallReturns, CallDropped, Finish, Return, Abandon,
                        FilesSafe, FileTypes
    <3> QED  BY <1>2, <2>0, <3>1, <3>2, OtherFiles
  <2>3. ASSUME NEW r \in [Finished -> {"Ok", "Err"}], PollComplete(r)
        PROVE  FilesSafe'
    <3>1. UNCHANGED <<kind, before, data, file, disk, writes>>
      BY <2>3 DEF PollComplete, fileVars
    <3>2. \A p \in Op : kernel'[p] = "succeeded" => kernel[p] = "succeeded"
      BY <2>3 DEF PollComplete, Complete
    <3> QED  BY <1>2, <2>0, <3>1, <3>2, OtherFiles
  <2>4. ASSUME NEW o \in Op,
               \/ \E n \in Lengths : read_at(o, n) \/ write_at(o, n) \/ recv_from(o, n)
               \/ sync_all(o)
        PROVE  FilesSafe'
    <3>1. PICK k \in Kind : Call(o, k)
      BY <2>4 DEF read_at, write_at, recv_from, sync_all, Kind
    <3> QED  BY <1>2, <2>0, <3>1, CallFiles
  <2> QED  BY <1>2, <2>1, <2>2, <2>3, <2>4 DEF Next, KernelStep
<1>3. FilesSafe /\ UNCHANGED vars => FilesSafe'
  BY DEF FilesSafe, FileTypes, Returned, InOrder, Numbered, Seen, Flushed, vars, promiseVars,
         fileVars
<1> QED  BY <1>1, <1>2, <1>3, PTL DEF Spec

\* A read that begins after a write returned sees it, in files of any length and
\* however many operations are under way.
THEOREM AsyncIoReadSeesWrites == Spec => []ReadSeesWrites
<1>1. FilesSafe => ReadSeesWrites
  <2> SUFFICES ASSUME FilesSafe, NEW r \in Op, NEW w \in Op, Done(r, "read_at"), w \in before[r],
                      Done(w, "write_at"), NEW i \in DOMAIN data[r] \cap DOMAIN data[w]
               PROVE  data[r][i] >= data[w][i]
    BY DEF ReadSeesWrites
  <2>1. data[w][i] <= data[r][i]
    BY DEF FilesSafe, Seen, Done
  <2>2. data[w][i] \in Nat /\ data[r][i] \in Nat
    BY TransferCells DEF FilesSafe, FileTypes
  <2> QED  BY <2>1, <2>2
<1> QED  BY <1>1, AsyncIoFilesSafe, PTL

\* Once sync_all has returned Ok, every write that returned before it survives a
\* crash at any time.
THEOREM AsyncIoSyncDurable == Spec => []SyncDurable
<1>1. FilesSafe => SyncDurable
  <2> SUFFICES ASSUME FilesSafe, NEW s \in Op, NEW w \in Op, Done(s, "sync_all"), w \in before[s],
                      Done(w, "write_at"), NEW i \in DOMAIN data[w]
               PROVE  disk[i] >= data[w][i]
    BY DEF SyncDurable
  <2>1. kernel[s] = "Ok"
    BY DEF FilesSafe, Returned, Done
  <2>2. data[w][i] <= disk[i]
    BY <2>1 DEF FilesSafe, Flushed, Done
  <2>3. data[w][i] \in Nat /\ i \in 1 .. Cells
    BY TransferCells DEF FilesSafe, FileTypes
  <2>4. disk[i] \in Nat
    BY <2>3 DEF FilesSafe, FileTypes, Content
  <2> QED  BY <2>2, <2>3, <2>4
<1> QED  BY <1>1, AsyncIoFilesSafe, PTL

-----------------------------------------------------------------------------
(* The pool under the calls of AsyncIo.                                    *)

\* Beyond PoolSafe: a buffer is dirty at most as far as it goes, so that the
\* length poll_complete gives it is within its capacity; and what is finished is
\* finite, since the kernel finishes one operation at a time.
AsyncPoolSafe ==
    /\ FileTypes /\ PoolSafe /\ IsFiniteSet(Finished)
    /\ \A o \in Op : held[o] # NoBuffer => held[o].dirty <= held[o].len

\* Every step leaves finitely many operations finished and not yet handed out.
LEMMA FinishedFinite ==
    ASSUME FileTypes, IsFiniteSet(Finished), Next
    PROVE  IsFiniteSet(Finished')
<1>1. ASSUME NEW S, S \subseteq Finished \/ \E o \in Op : S \subseteq Finished \cup {o}
      PROVE  IsFiniteSet(S)
  BY <1>1, FS_Subset, FS_AddElement
<1>2. CASE \E o \in Op, k \in {"succeeded", "failed"} : Finish(o, k)
  BY <1>1, <1>2 DEF Finish, Finished, FileTypes
<1>3. CASE ~ \E o \in Op, k \in {"succeeded", "failed"} : Finish(o, k)
  <2>1. \A o \in Op : kernel'[o] \in {"succeeded", "failed"} => kernel[o] = kernel'[o]
    <3>1. CASE \E r \in [Finished -> {"Ok", "Err"}] : PollComplete(r)
      BY <3>1 DEF PollComplete, Complete, Finished
    <3>2. CASE \E o \in Op : SubmitOp(o) \/ Return(o) \/ Abandon(o)
      BY <3>2 DEF SubmitOp, Return, Abandon, FileTypes
    <3>3. ~KernelStep
      BY <1>3 DEF KernelStep, KernelReads, KernelWrites, KernelSyncs, KernelFails
    <3> QED  BY <3>1, <3>2, <3>3 DEF Next, read_at, write_at, recv_from, sync_all, Call,
                                     CallReturns, CallDropped
  <2> QED  BY <1>1, <2>1 DEF Finished
<1> QED  BY <1>2, <1>3

\* poll_complete: what it recycles goes through Recycle one by one.
LEMMA PollPool ==
    ASSUME AsyncPoolSafe, NEW r \in [Finished -> {"Ok", "Err"}], PollComplete(r)
    PROVE  pool' \in Pools
<1> DEFINE S == {o \in Finished : Recyclable(o) /\ held[o] # NoBuffer}
           it == CHOOSE f : IsFold(f, S, pool, held)
<1>1. pool' = it[S]
  BY Zenon DEF PollComplete, FoldSet, MapThenFoldSet, IsFold, FoldStep, Pick
<1>2. IsFiniteSet(S)
  BY FS_Subset DEF AsyncPoolSafe
<1>3. \A o \in S : held[o] \in Buffers
  BY AsyncIoAssumption DEF AsyncPoolSafe, PoolSafe, Finished
<1>4. pool \in Pools
  BY DEF AsyncPoolSafe, PoolSafe, Pools
<1> HIDE DEF S
<1>5. IsFold(it, S, pool, held)
  BY <1>2, FoldExists
<1> HIDE DEF it
<1> QED  BY <1>1, <1>2, <1>3, <1>4, <1>5, FoldPools

\* A buffer that a step gives to an operation, or takes from it.
LEMMA PutAsync ==
    ASSUME AsyncPoolSafe, FileTypes', IsFiniteSet(Finished'), NEW o \in Op, NEW v \in Buffers,
           NEW a \in Nat, Put(o, v, a), a # Changed => v.len + 1 = a /\ v.dirty = 0,
           v = NoBuffer \/ v.dirty <= v.len, pool' \in Pools
    PROVE  AsyncPoolSafe'
<1>1. PoolSafe'
  BY AsyncIoAssumption, PutSafe DEF AsyncPoolSafe, Pools
<1>2. held'[o] = v /\ \A p \in Op \ {o} : held'[p] = held[p]
  BY AsyncIoAssumption DEF AsyncPoolSafe, PoolSafe, Put
<1> QED  BY <1>1, <1>2 DEF AsyncPoolSafe

\* A step that leaves the buffers of the operations alone.
LEMMA KeepAsync ==
    ASSUME AsyncPoolSafe, FileTypes', IsFiniteSet(Finished'), UNCHANGED <<held, asked>>,
           pool' \in Pools
    PROVE  AsyncPoolSafe'
BY DEF AsyncPoolSafe, PoolSafe, Pools, GetZeroed

\* What a call takes from the pool.
LEMMA TakeAsync ==
    ASSUME AsyncPoolSafe, FileTypes', IsFiniteSet(Finished'), NEW o \in Op, NEW n \in Nat,
           \/ Take(o, Gotten(n), n, n + 1) \/ Take(o, Written(Gotten(n), n), n, Changed)
    PROVE  AsyncPoolSafe'
<1>1. /\ Gotten(n) \in Buffers /\ Gotten(n).len = n /\ Gotten(n).dirty = 0
      /\ PoolAfterGet(n) \in Pools
  BY GottenFields DEF AsyncPoolSafe, Pools
<1>2. /\ Written(Gotten(n), n) \in Buffers
      /\ Written(Gotten(n), n).dirty <= Written(Gotten(n), n).len
  <2>1. Written(Gotten(n), n) \in Buffers /\ Resize(Gotten(n), n) \in Buffers
        /\ Resize(Gotten(n), n).len = n
    BY <1>1, ResizeFields
  <2>2. Written(Gotten(n), n).dirty = n /\ Written(Gotten(n), n).len = n
    BY <2>1 DEF Written, Buffers
  <2> QED  BY <2>1, <2>2
<1>3. pool' \in Pools
  BY <1>1 DEF Take
<1>4. CASE UNCHANGED <<held, asked>>
  BY <1>3, <1>4, KeepAsync
<1>5. CASE Put(o, Gotten(n), n + 1)
  BY <1>1, <1>3, <1>5, PutAsync
<1>6. CASE Put(o, Written(Gotten(n), n), Changed)
  BY <1>2, <1>3, <1>6, PutAsync DEF Changed
<1> QED  BY <1>4, <1>5, <1>6 DEF Take

\* Every step keeps the pool safe.
LEMMA NextAsync ==
    ASSUME AsyncPoolSafe, FileTypes', Next
    PROVE  AsyncPoolSafe'
<1>0. /\ IsFiniteSet(Finished') /\ pool \in Pools /\ Changed \in Nat /\ NoBuffer \in Buffers
      /\ \A o \in Op : held[o] \in Buffers
  BY FinishedFinite, VecFields, AsyncIoAssumption
     DEF AsyncPoolSafe, PoolSafe, Pools, Changed, NoBuffer, Vec, Buffers
<1>1. ASSUME NEW o \in Op, NEW n \in Lengths, read_at(o, n) \/ write_at(o, n) \/ recv_from(o, n)
      PROVE  AsyncPoolSafe'
  BY <1>0, <1>1, AsyncIoAssumption, TakeAsync DEF read_at, write_at, recv_from
<1>2. ASSUME NEW o \in Op, \/ sync_all(o) \/ KernelSyncs(o) \/ KernelFails(o)
                           \/ \E n \in 0 .. Cells : KernelWrites(o, n)
      PROVE  AsyncPoolSafe'
  BY <1>0, <1>2, KeepAsync DEF sync_all, KernelSyncs, KernelFails, KernelWrites, Untouched, poolVars
<1>3. ASSUME NEW o \in Op, NEW n \in 0 .. Cells, KernelReads(o, n)
      PROVE  AsyncPoolSafe'
  <2> DEFINE v == [held[o] EXCEPT !.dirty = n]
  <2>1. n \in Nat /\ n <= held[o].len /\ Put(o, v, Changed) /\ pool' = pool
    BY <1>3, AsyncIoAssumption DEF KernelReads, Untouched
  <2>2. v \in Buffers /\ v.dirty <= v.len
    BY <1>0, <2>1 DEF Buffers
  <2> HIDE DEF v
  <2> QED  BY <1>0, <2>1, <2>2, PutAsync
<1>4. ASSUME NEW o \in Op, CallReturns(o)
      PROVE  AsyncPoolSafe'
  <2>1. Recycle(pool, held[o]) \in Pools
    BY <1>0, RecyclePool DEF Pools
  <2>2. pool' \in Pools /\ Put(o, NoBuffer, Changed)
    BY <1>0, <1>4, <2>1 DEF CallReturns
  <2> QED  BY <1>0, <2>2, PutAsync
<1>5. ASSUME NEW o \in Op, CallDropped(o)
      PROVE  AsyncPoolSafe'
  BY <1>0, <1>5, PutAsync, KeepAsync DEF CallDropped
<1>6. ASSUME NEW r \in [Finished -> {"Ok", "Err"}], PollComplete(r)
      PROVE  AsyncPoolSafe'
  <2>1. pool' \in Pools
    BY <1>6, PollPool
  <2>2. ASSUME NEW o \in Op, held[o] # NoBuffer
        PROVE  LET v == WithLen(held[o], held[o].dirty)
               IN v \in Buffers /\ v.dirty <= v.len
    <3>1. /\ held[o].dirty \in Nat /\ held[o].len \in Nat /\ held[o].capacity \in Nat
          /\ held[o].len <= held[o].capacity /\ held[o].dirty <= held[o].len
      BY <1>0, <2>2 DEF AsyncPoolSafe, Buffers
    <3> QED  BY <3>1, VecFields DEF WithLen
  <2>3. held' = [o \in Op |-> IF o \notin Finished \/ held[o] = NoBuffer THEN held[o]
                              ELSE IF Recyclable(o) \/ r[o] = "Err" THEN NoBuffer
                              ELSE WithLen(held[o], held[o].dirty)]
        /\ asked' = [o \in Op |-> IF o \in Finished THEN Changed ELSE asked[o]]
    BY <1>6 DEF PollComplete
  <2>4. ASSUME NEW o \in Op
        PROVE  /\ held'[o] \in Buffers
               /\ held'[o] # NoBuffer => held'[o].dirty <= held'[o].len
               /\ o \notin Finished => held'[o] = held[o]
    BY <1>0, <2>2, <2>3 DEF AsyncPoolSafe
  <2>5. held' \in [Holder -> Buffers] /\ asked' \in [Holder -> Nat]
    BY <1>0, <2>3, <2>4, AsyncIoAssumption DEF AsyncPoolSafe, PoolSafe
  <2>6. GetZeroed'
    BY <2>3, <2>4, AsyncIoAssumption DEF AsyncPoolSafe, PoolSafe, GetZeroed
  <2> QED  BY <1>0, <2>1, <2>4, <2>5, <2>6 DEF AsyncPoolSafe, PoolSafe, Pools
<1> QED  BY <1>1, <1>2, <1>3, <1>4, <1>5, <1>6 DEF Next, KernelStep

\* The pool is safe at all times, whatever the calls, the kernel and the drops of
\* futures do with its buffers.
THEOREM AsyncIoPoolSafe == Spec => []AsyncPoolSafe
<1>1. Init => AsyncPoolSafe
  <2> SUFFICES ASSUME Init PROVE AsyncPoolSafe
    OBVIOUS
  <2>1. NoBuffer \in Buffers /\ Changed \in Nat
    BY DEF NoBuffer, Vec, Buffers, Changed
  <2>2. PoolSafe
    BY <2>1, BufferAssumption DEF Init, PoolInit, PoolSafe, GetZeroed
  <2>3. FileTypes
    BY TransferCells, AsyncIoAssumption
       DEF Init, PromiseInit, FileTypes, Stage, Future, Kind, Content
  <2>4. Finished = {}
    BY DEF Init, PromiseInit, Finished
  <2>5. \A o \in Op : held[o] = NoBuffer
    BY AsyncIoAssumption DEF Init, PoolInit
  <2> QED  BY <2>2, <2>3, <2>4, <2>5, FS_EmptySet DEF AsyncPoolSafe
<1>2. AsyncPoolSafe /\ FilesSafe' /\ [Next]_vars => AsyncPoolSafe'
  <2>1. AsyncPoolSafe /\ UNCHANGED vars => AsyncPoolSafe'
    BY DEF AsyncPoolSafe, FileTypes, PoolSafe, GetZeroed, Finished, vars, promiseVars, poolVars,
           fileVars
  <2>2. FilesSafe' => FileTypes'
    BY DEF FilesSafe
  <2> QED  BY <2>1, <2>2, NextAsync
<1> QED  BY <1>1, <1>2, AsyncIoFilesSafe, PTL DEF Spec

\* read_at and recv_from hand the kernel zeroed buffers of the length asked for,
\* whatever was written to them in earlier operations.
THEOREM AsyncIoGetZeroed == Spec => []GetZeroed
<1>1. AsyncPoolSafe => GetZeroed
  BY DEF AsyncPoolSafe, PoolSafe
<1> QED  BY <1>1, AsyncIoPoolSafe, PTL
=================================================================================
