------------------------------ MODULE BufferPool ------------------------------
(***************************************************************************)
(* The per-thread buffer pool of src/buffer.rs: BufferPool::get,           *)
(* Buffer::recycle and the calls that change a Buffer in between.  A       *)
(* Buffer is a Vec<u8>: a length, a capacity, and which of its bytes are   *)
(* not zero, kept as the number of leading bytes that may be dirty.        *)
(***************************************************************************)
EXTENDS Naturals, Sequences

CONSTANTS BUFFER_SIZE,   \* 4096
          POOL_SIZE,     \* 100
          Holder,        \* places in which the program keeps a Buffer
          GrowMin        \* least capacity a growing Vec<u8> allocates (8)

ASSUME BufferAssumption ==
    /\ BUFFER_SIZE \in Nat \ {0} /\ POOL_SIZE \in Nat \ {0} /\ GrowMin \in Nat

VARIABLES pool,    \* CPU_BUFFER_POOL
          held,    \* held[h]: the Buffer at h, or NoBuffer
          asked    \* asked[h]: 1 + the capacity get() was called with, as long
                   \* as the Buffer is as get() returned it, and 0 after that

poolVars == <<pool, held, asked>>

Vec(len, capacity, dirty) == [len |-> len, capacity |-> capacity, dirty |-> dirty]
NoBuffer == Vec(0, 0, 1)   \* no Vec is like this
Changed == 0

PoolInit == /\ pool = <<>> /\ held = [h \in Holder |-> NoBuffer]
            /\ asked = [h \in Holder |-> Changed]

-----------------------------------------------------------------------------
(* Vec<u8>.                                                                *)

Larger(a, b) == IF a >= b THEN a ELSE b

\* vec![0; capacity]
Zeroed(capacity) == Vec(capacity, capacity, 0)

\* reserve_exact(additional): room for that many bytes after the length.
ReserveExact(v, additional) ==
    Vec(v.len, Larger(v.capacity, v.len + additional), v.dirty)

\* resize(n, 0): zeros beyond the old length; a Vec that must grow at least
\* doubles.
Resize(v, n) ==
    Vec(n, IF n <= v.capacity THEN v.capacity
           ELSE Larger(n, Larger(2 * v.capacity, GrowMin)),
        IF v.dirty <= n THEN v.dirty ELSE n)

\* Its first n bytes, or all of the n it then has, are written.
Written(v, n) == [Resize(v, n) EXCEPT !.dirty = n]

\* set_len, after a read of n bytes.
WithLen(v, n) == Vec(n, v.capacity, n)

-----------------------------------------------------------------------------
(* BufferPool::get(n): sizes the pool does not serve, an empty pool, or the *)
(* Vec at its front, which is let go if it is too small.                    *)

FromPool(n) == n > 0 /\ n <= BUFFER_SIZE /\ pool # <<>>

Gotten(n) == IF FromPool(n) /\ Head(pool).capacity >= n
             THEN Resize(Head(pool), n) ELSE Zeroed(n)

PoolAfterGet(n) == IF FromPool(n) THEN Tail(pool) ELSE pool

-----------------------------------------------------------------------------
(* Buffer::recycle                                                          *)

\* What it pushes: cleared, and given more capacity.
Recycled(v) ==
    ReserveExact(Vec(0, v.capacity, 0), IF v.capacity < BUFFER_SIZE
                                        THEN BUFFER_SIZE - v.capacity ELSE 0)

\* Faulty variant: a buffer that is large enough is pooled as it is.
RecycleDirty(p, v) ==
    IF v.capacity = BUFFER_SIZE /\ Len(p) < POOL_SIZE THEN Append(p, v) ELSE p

\* The pool after it.
Recycle(p, v) ==
    IF Recycled(v).capacity = BUFFER_SIZE /\ Len(p) < POOL_SIZE
    THEN Append(p, Recycled(v)) ELSE p

-----------------------------------------------------------------------------
(* Any use of the pool by the thread that owns it.                         *)

Put(h, v, a) == /\ held' = [held EXCEPT ![h] = v]
                /\ asked' = [asked EXCEPT ![h] = a]

Get(h, n) == /\ held[h] = NoBuffer /\ Put(h, Gotten(n), n + 1)
             /\ pool' = PoolAfterGet(n)

\* Buffer::from_slice, and clone of a buffer that was written to.
FromSlice(h, n) == held[h] = NoBuffer /\ Put(h, Vec(n, n, n), Changed) /\ UNCHANGED pool

\* copy_from_slice, as_mut_slice, or the kernel through as_mut_ptr.
CopyFromSlice(h, n) ==
    held[h] # NoBuffer /\ Put(h, Written(held[h], n), Changed) /\ UNCHANGED pool

SetLen(h, n) ==
    /\ held[h] # NoBuffer /\ n <= held[h].len
    /\ Put(h, WithLen(held[h], n), Changed) /\ UNCHANGED pool

Drop(h) == held[h] # NoBuffer /\ Put(h, NoBuffer, Changed) /\ UNCHANGED pool

RecycleHeld(h) == /\ held[h] # NoBuffer /\ Put(h, NoBuffer, Changed)
                  /\ pool' = Recycle(pool, held[h])

PoolNext == \E h \in Holder :
               \/ RecycleHeld(h) \/ Drop(h)
               \/ \E n \in Nat : \/ Get(h, n) \/ FromSlice(h, n)
                                 \/ CopyFromSlice(h, n) \/ SetLen(h, n)

PoolSpec == PoolInit /\ [][PoolNext]_poolVars

-----------------------------------------------------------------------------
(* Properties.                                                             *)

Buffers == {v \in [len : Nat, capacity : Nat, dirty : Nat] : v.len <= v.capacity}

\* The types of the state: no length beyond the capacity, which is what set_len
\* and the kernel rely on, and a pool within its limit.
PoolTypeOK == /\ pool \in Seq(Buffers) /\ Len(pool) <= POOL_SIZE
              /\ held \in [Holder -> Buffers] /\ asked \in [Holder -> Nat]

\* get: "The returned buffer will have its `len()` set to `capacity` and be
\* zeroed", whoever used it before.
GetZeroed ==
    \A h \in Holder : asked[h] # Changed =>
        held[h].len + 1 = asked[h] /\ held[h].dirty = 0

\* The pool holds empty buffers of exactly the standard capacity, so get() never
\* has to throw one away.
PoolStandard ==
    \A i \in DOMAIN pool :
        pool[i].len = 0 /\ pool[i].capacity = BUFFER_SIZE /\ pool[i].dirty = 0
===============================================================================
