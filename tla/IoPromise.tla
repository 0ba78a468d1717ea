------------------------------- MODULE IoPromise -------------------------------
(***************************************************************************)
(* What submit, poll_complete and IoFuture (src/io/mod.rs, src/io/future.rs)*)
(* promise to the code that awaits an operation, whatever backend and loop  *)
(* are behind them: the kernel finishes an operation at most once, the      *)
(* future returns the outcome after that and not before, and an operation   *)
(* whose future is dropped runs on unobserved.  Io implements this; AsyncIo *)
(* is built on it.                                                          *)
(***************************************************************************)
CONSTANTS Op,        \* the operations, each submitted at most once
          Address    \* those whose result carries an address

VARIABLES kernel,    \* kernel[o]: how far o is
          future     \* future[o]: its IoFuture, or what it returned

promiseVars == <<kernel, future>>

PromiseInit ==
    /\ kernel = [o \in Op |-> "idle"] /\ future = [o \in Op |-> "none"]

\* submit and the first poll; the backend may turn the operation down, and does
\* not say so.
SubmitOp(o) ==
    /\ kernel[o] = "idle"
    /\ \E k \in {"submitted", "refused"} : kernel' = [kernel EXCEPT ![o] = k]
    /\ future' = [future EXCEPT ![o] = "waiting"]

\* The kernel finishes it.
Finish(o, k) ==
    /\ kernel[o] = "submitted" /\ kernel' = [kernel EXCEPT ![o] = k]
    /\ UNCHANGED future

Finished == {o \in Op : kernel[o] \in {"succeeded", "failed"}}

\* The results poll_complete may make of it: an address may not be understood.
Results(o) ==
    IF kernel[o] = "failed" THEN {"Err"}
    ELSE IF o \in Address THEN {"Ok", "Err"} ELSE {"Ok"}

\* poll_complete hands out a result for everything that is finished; nobody will
\* take those of dropped futures.
Complete(r) ==
    /\ \A o \in Finished : r[o] \in Results(o)
    /\ kernel' = [o \in Op |-> IF o \notin Finished THEN kernel[o]
                               ELSE IF future[o] = "dropped" THEN "gone" ELSE r[o]]
    /\ UNCHANGED future

\* The future returns.
Return(o) ==
    /\ future[o] = "waiting" /\ kernel[o] \in {"Ok", "Err"}
    /\ future' = [future EXCEPT ![o] = kernel[o]]
    /\ UNCHANGED kernel

\* The future is dropped.
Abandon(o) ==
    /\ future[o] = "waiting"
    /\ future' = [future EXCEPT ![o] = "dropped"]
    /\ kernel' = [kernel EXCEPT ![o] = IF @ \in {"Ok", "Err", "refused"} THEN "gone" ELSE @]

\* The loop ends, and with it every future that waits and all that was submitted.
Stop ==
    /\ future' = [o \in Op |-> IF future[o] = "waiting" THEN "dropped" ELSE future[o]]
    /\ kernel' = [o \in Op |-> IF future[o] \in {"waiting", "dropped"} THEN "gone"
                               ELSE kernel[o]]

PromiseNext ==
    \/ Stop \/ \E r \in [Finished -> {"Ok", "Err"}] : Complete(r)
    \/ \E o \in Op : \/ SubmitOp(o) \/ Return(o) \/ Abandon(o)
                     \/ \E k \in {"succeeded", "failed"} : Finish(o, k)

PromiseSpec == PromiseInit /\ [][PromiseNext]_promiseVars
================================================================================
