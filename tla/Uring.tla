--------------------------------- MODULE Uring ---------------------------------
(***************************************************************************)
(* The io_uring backend of src/io/uring.rs: submit and poll_complete over  *)
(* the submission queue, the kernel and the completion queue.  IoTokens    *)
(* are unique, so an operation stands for its token and for the user_data  *)
(* of its entry.  One thread owns the backend; only the kernel interleaves.*)
(***************************************************************************)
EXTENDS Naturals, FiniteSets

CONSTANTS Op,        \* the operations that are submitted, each once
          Address,   \* those whose result carries an address (Accept, UdpRecv)
          Entries    \* size of the submission queue (32 in block_on)

ASSUME UringAssumption == Address \subseteq Op /\ Entries \in Nat \ {0}

VARIABLES sq,           \* entries pushed and not yet taken by the kernel
          inflight,     \* operations the kernel is working on
          cq,           \* cqes nobody has read: an op, and whether it succeeded
          pending_ops   \* UringBackend::pending_ops, which owns the buffers

uringVars == <<sq, inflight, cq, pending_ops>>

UringInit == sq = {} /\ inflight = {} /\ cq = {} /\ pending_ops = {}

CqOps == {e.op : e \in cq}

\* ring.submit(): the kernel takes all entries, or the call fails, which
\* submit() ignores; only the next submit() tries again.
RingSubmit(entries, accepts) ==
    IF accepts THEN inflight' = inflight \cup entries /\ sq' = {}
    ELSE sq' = entries /\ UNCHANGED inflight

\* submit(op): a full queue drops the operation, and the caller gets a token
\* all the same.
Submit(o, accepts) ==
    /\ \/ /\ Cardinality(sq) < Entries
          /\ pending_ops' = pending_ops \cup {o}
          /\ RingSubmit(sq \cup {o}, accepts)
       \/ /\ Cardinality(sq) = Entries
          /\ UNCHANGED pending_ops
          /\ RingSubmit(sq, accepts)
    /\ UNCHANGED cq

\* The kernel finishes an operation, in any order.
KernelComplete(o, ok) ==
    /\ o \in inflight
    /\ inflight' = inflight \ {o}
    /\ cq' = cq \cup {[op |-> o, ok |-> ok]}
    /\ UNCHANGED <<sq, pending_ops>>

\* The address of an operation that succeeded: of a known family, or an Err.
Decode(o) == IF o \in Address THEN {"Ok", "Err"} ELSE {"Ok"}

\* The results a cqe can turn into.
Outcomes(e) == IF e.ok THEN Decode(e.op) ELSE {"Err"}

\* What poll_complete may return: a result for every cqe of a known operation.
Completions ==
    {f \in [CqOps \cap pending_ops -> {"Ok", "Err"}] :
        \A e \in cq : e.op \in pending_ops => f[e.op] \in Outcomes(e)}

\* ... and its effect: the completion queue is read to the end, and what the
\* operations owned leaves pending_ops.
PollComplete ==
    /\ cq' = {}
    /\ pending_ops' = pending_ops \ CqOps
    /\ UNCHANGED <<sq, inflight>>

\* The backend is dropped; what becomes of operations in flight is the kernel's.
DropBackend == sq' = {} /\ inflight' = {} /\ cq' = {} /\ pending_ops' = {}

UringTypeOK ==
    /\ sq \subseteq Op /\ Cardinality(sq) <= Entries /\ inflight \subseteq Op
    /\ cq \subseteq [op : Op, ok : BOOLEAN] /\ pending_ops \subseteq Op
================================================================================
