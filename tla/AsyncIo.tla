-------------------------------- MODULE AsyncIo --------------------------------
(***************************************************************************)
(* The operations of src/fs.rs and the receiving end of src/net.rs: an     *)
(* AsyncFile's write_at, read_at and sync_all and an AsyncUdpSocket's      *)
(* recv_from, each a buffer of the pool, an operation handed to the        *)
(* backend and an IoFuture.  Backend and loop are what IoPromise says of   *)
(* them.  The file is a row of cells and every operation starts at the     *)
(* first; a cell holds the number of the write that was the last to reach  *)
(* it.                                                                     *)
(***************************************************************************)
EXTENDS IoPromise, BufferPool, FiniteSetsExt

CONSTANTS Lengths,   \* bound: the lengths of buffers used
          Cells      \* bound: the length of the file

ASSUME AsyncIoAssumption == Lengths \subseteq Nat /\ Cells \in Nat /\ Holder = Op

VARIABLES kind,      \* kind[o]: the call that is o
          before,    \* before[o]: what had returned when o was submitted
          data,      \* data[o]: the cells o has transferred, short or not
          file,      \* the file as every process sees it
          disk,      \* what a crash of the machine leaves of it at worst
          writes     \* number of writes the kernel has done

fileVars == <<file, disk, writes>>
vars == <<promiseVars, poolVars, kind, before, data, fileVars>>

Init ==
    /\ PromiseInit /\ PoolInit
    /\ kind = [o \in Op |-> "none"] /\ before = [o \in Op |-> {}]
    /\ data = [o \in Op |-> <<>>]
    /\ file = [i \in 1 .. Cells |-> 0] /\ disk = file /\ writes = 0

-----------------------------------------------------------------------------
(* The calls, up to the first poll of the IoFuture.                        *)

\* What a call does with the pool before submit (write_at, recv_from) or in it
\* (read_at); a buffer the backend turns down is let go.
Take(o, v, n, a) ==
    /\ pool' = PoolAfterGet(n)
    /\ IF kernel'[o] = "submitted" THEN Put(o, v, a) ELSE UNCHANGED <<held, asked>>

Call(o, k) ==
    /\ SubmitOp(o)
    /\ kind' = [kind EXCEPT ![o] = k]
    /\ before' = [before EXCEPT ![o] = {p \in Op : future[p] \in {"Ok", "Err"}}]
    /\ UNCHANGED <<data, fileVars>>

\* Faulty variant: the call submits the operation and does not await it.
NotAwaited(o, k) ==
    /\ kernel[o] = "idle" /\ kernel' = [kernel EXCEPT ![o] = "submitted"]
    /\ future' = [future EXCEPT ![o] = "Ok"]
    /\ kind' = [kind EXCEPT ![o] = k]
    /\ before' = [before EXCEPT ![o] = {p \in Op : future[p] \in {"Ok", "Err"}}]
    /\ UNCHANGED <<data, fileVars>>

write_at_unawaited(o, n) ==
    NotAwaited(o, "write_at") /\ Take(o, Written(Gotten(n), n), n, Changed)

sync_all_unawaited(o) == NotAwaited(o, "sync_all") /\ UNCHANGED poolVars

write_at(o, n) == Call(o, "write_at") /\ Take(o, Written(Gotten(n), n), n, Changed)

read_at(o, n) == Call(o, "read_at") /\ Take(o, Gotten(n), n, n + 1)

recv_from(o, n) ==
    o \in Address /\ Call(o, "recv_from") /\ Take(o, Gotten(n), n, n + 1)

sync_all(o) == Call(o, "sync_all") /\ UNCHANGED poolVars

-----------------------------------------------------------------------------
(* The kernel.                                                             *)

Untouched == UNCHANGED <<pool, kind, before>>

KernelWrites(o, n) ==
    /\ kind[o] = "write_at" /\ n <= held[o].len
    /\ Finish(o, "succeeded")
    /\ writes' = writes + 1
    /\ data' = [data EXCEPT ![o] = [i \in 1 .. n |-> writes']]
    /\ file' = [i \in 1 .. Cells |-> IF i <= n THEN writes' ELSE file[i]]
    /\ UNCHANGED <<held, asked, disk>> /\ Untouched

KernelReads(o, n) ==
    /\ kind[o] \in {"read_at", "recv_from"} /\ n <= held[o].len
    /\ Finish(o, "succeeded")
    /\ Put(o, [held[o] EXCEPT !.dirty = n], Changed)
    /\ data' = [data EXCEPT ![o] = IF kind[o] = "read_at" THEN SubSeq(file, 1, n) ELSE <<>>]
    /\ UNCHANGED fileVars /\ Untouched

KernelSyncs(o) ==
    /\ kind[o] = "sync_all" /\ Finish(o, "succeeded") /\ disk' = file
    /\ UNCHANGED <<held, asked, data, file, writes>> /\ Untouched

KernelFails(o) ==
    Finish(o, "failed") /\ UNCHANGED <<held, asked, data, fileVars>> /\ Untouched

-----------------------------------------------------------------------------
(* The results.                                                            *)

\* What poll_complete recycles: what was written, and what was not read.
Recyclable(o) == kind[o] = "write_at" \/ kernel[o] = "failed"

\* poll_complete: a buffer that was read into has the length read, goes with the
\* result, and is let go if there is none.
PollComplete(r) ==
    /\ Finished # {} /\ Complete(r)
    /\ pool' = FoldSet(LAMBDA o, p : Recycle(p, held[o]), pool,
                       {o \in Finished : Recyclable(o) /\ held[o] # NoBuffer})
    /\ held' = [o \in Op |-> IF o \notin Finished \/ held[o] = NoBuffer THEN held[o]
                             ELSE IF Recyclable(o) \/ r[o] = "Err" THEN NoBuffer
                             ELSE WithLen(held[o], held[o].dirty)]
    /\ asked' = [o \in Op |-> IF o \in Finished THEN Changed ELSE asked[o]]
    /\ UNCHANGED <<kind, before, data, fileVars>>

\* The call returns: recv_from recycles its buffer, read_at gives it away.
CallReturns(o) ==
    /\ Return(o)
    /\ Put(o, NoBuffer, Changed)
    /\ pool' = IF kind[o] = "recv_from" /\ held[o] # NoBuffer
               THEN Recycle(pool, held[o]) ELSE pool
    /\ UNCHANGED <<kind, before, data, fileVars>>

\* The future of the call is dropped: a result that is there goes with it, one
\* that comes later stays in completed_io.
CallDropped(o) ==
    /\ Abandon(o)
    /\ IF kernel[o] \in {"Ok", "Err"} THEN Put(o, NoBuffer, Changed)
       ELSE UNCHANGED <<held, asked>>
    /\ UNCHANGED <<pool, kind, before, data, fileVars>>

KernelStep == \E o \in Op : \/ \E n \in 0 .. Cells : KernelReads(o, n) \/ KernelWrites(o, n)
                            \/ KernelSyncs(o) \/ KernelFails(o)

Next ==
    \/ KernelStep
    \/ \E r \in [Finished -> {"Ok", "Err"}] : PollComplete(r)
    \/ \E o \in Op : \/ \E n \in Lengths : read_at(o, n) \/ write_at(o, n) \/ recv_from(o, n)
                     \/ sync_all(o) \/ CallReturns(o) \/ CallDropped(o)

Spec == Init /\ [][Next]_vars

-----------------------------------------------------------------------------
(* Properties.                                                             *)

Done(o, k) == kind[o] = k /\ future[o] = "Ok"

\* A read_at that begins after a write_at returned reads what that wrote, or
\* something later, in all the bytes it said it wrote.
ReadSeesWrites ==
    \A r, w \in Op :
        Done(r, "read_at") /\ w \in before[r] /\ Done(w, "write_at") =>
            \A i \in DOMAIN data[r] \cap DOMAIN data[w] : data[r][i] >= data[w][i]

\* sync_all: "ensures that all previously written data is flushed to disk".  Once
\* it has returned Ok, what the write_at calls that returned before it said they
\* wrote is there after a crash at any time, or something later is.
SyncDurable ==
    \A s, w \in Op :
        Done(s, "sync_all") /\ w \in before[s] /\ Done(w, "write_at") =>
            \A i \in DOMAIN data[w] : disk[i] >= data[w][i]
================================================================================
