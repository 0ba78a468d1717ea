-------------------------------- MODULE IoProofs --------------------------------
(***************************************************************************)
(* Theorems about Io, for any operations, any size of the submission queue *)
(* and both loops: TypeOK, BuffersAlive, IoNoLostWake, and that the ring,  *)
(* the tables and the loops implement IoPromise.                           *)
(***************************************************************************)
EXTENDS Io, TLAPS, FiniteSetTheorems

Cqe == [op : Op, ok : BOOLEAN]
Future == {"none", "waiting", "Ok", "Err", "dropped"}
Result == {"Ok", "Err"}

IoTypes ==
    /\ sq \subseteq Op /\ inflight \subseteq Op /\ cq \subseteq Cqe /\ pending_ops \subseteq Op
    /\ fut \in [Op -> Future] /\ completed_io \in [Op -> Result \cup {"none"}]
    /\ io_wakers \subseteq Waiting /\ ready \subseteq Waiting

\* An operation is in one place of the ring at a time, and finishes once.
OneStage ==
    /\ sq \cap inflight = {} /\ (sq \cup inflight) \cap CqOps = {}
    /\ \A o \in Op : ~ ([op |-> o, ok |-> TRUE] \in cq /\ [op |-> o, ok |-> FALSE] \in cq)

\* What the backend still owns has been started and has no result yet, and a
\* result is there for a future that waits.
Tables ==
    /\ \A o \in pending_ops : fut[o] \in {"waiting", "dropped"} /\ completed_io[o] = "none"
    /\ \A o \in Op : completed_io[o] # "none" => fut[o] \in {"waiting", "dropped"}

\* The inductive invariant.
Safe == IoTypes /\ OneStage /\ Tables /\ BuffersAlive /\ IoNoLostWake

-----------------------------------------------------------------------------
(* The completion queue.                                                   *)

\* An operation has a cqe when one of the two that can be there is.
LEMMA CqeOf ==
    ASSUME NEW q, q \subseteq Cqe, NEW o \in Op
    PROVE  o \in {e.op : e \in q} <=> \/ [op |-> o, ok |-> TRUE] \in q
                                      \/ [op |-> o, ok |-> FALSE] \in q
<1>1. ASSUME o \in {e.op : e \in q}
      PROVE  [op |-> o, ok |-> TRUE] \in q \/ [op |-> o, ok |-> FALSE] \in q
  <2>1. PICK e \in q : e.op = o
    BY <1>1
  <2>2. e = [op |-> o, ok |-> e.ok] /\ e.ok \in BOOLEAN
    BY <2>1 DEF Cqe
  <2> QED  BY <2>1, <2>2
<1>2. ASSUME [op |-> o, ok |-> TRUE] \in q \/ [op |-> o, ok |-> FALSE] \in q
      PROVE  o \in {e.op : e \in q}
  BY <1>2
<1> QED  BY <1>1, <1>2

\* What is in the completion queue after the kernel posts a cqe.
LEMMA CqePosted ==
    ASSUME NEW q, q \subseteq Cqe, NEW o \in Op, NEW ok \in BOOLEAN
    PROVE  LET r == q \cup {[op |-> o, ok |-> ok]} IN
           /\ r \subseteq Cqe
           /\ {e.op : e \in r} = {e.op : e \in q} \cup {o}
           /\ \A p \in Op, b \in BOOLEAN :
                 [op |-> p, ok |-> b] \in r <=> [op |-> p, ok |-> b] \in q \/ (p = o /\ b = ok)
<1> DEFINE r == q \cup {[op |-> o, ok |-> ok]}
<1>1. r \subseteq Cqe
  BY DEF Cqe
<1>2. {e.op : e \in r} = {e.op : e \in q} \cup {o}
  <2>1. \A e \in r : e \in q \/ e.op = o
    OBVIOUS
  <2>2. o \in {e.op : e \in r}
    <3>1. [op |-> o, ok |-> ok] \in r /\ [op |-> o, ok |-> ok].op = o
      OBVIOUS
    <3> QED  BY <3>1
  <2> QED  BY <2>1, <2>2, Zenon
<1>3. ASSUME NEW p \in Op, NEW b \in BOOLEAN
      PROVE  [op |-> p, ok |-> b] \in r <=> [op |-> p, ok |-> b] \in q \/ (p = o /\ b = ok)
  BY <1>3
<1> QED  BY <1>1, <1>2, <1>3

-----------------------------------------------------------------------------
(* The invariant.                                                          *)

\* A loop starts with empty queues and tables.
LEMMA InitSafe == Init => Safe
BY DEF Init, UringInit, Safe, IoTypes, OneStage, Tables, BuffersAlive, IoNoLostWake,
       Waiting, CqOps, Future

\* Submitting keeps it.
LEMMA StartSafe ==
    ASSUME Safe, NEW o \in Op, NEW accepts \in BOOLEAN, Start(o, accepts)
    PROVE  Safe'
<1>1. o \notin sq \cup inflight \cup CqOps /\ completed_io[o] = "none" /\ CqOps' = CqOps
  BY DEF Safe, Start, Tables, BuffersAlive, CqOps, Submit
<1>2. \E S \in {{}, {o}} : /\ sq' \cup inflight' = sq \cup inflight \cup S
                           /\ sq' \cap inflight' = {}
                           /\ pending_ops' = pending_ops \cup S
  BY <1>1 DEF Safe, OneStage, Start, Submit, RingSubmit
<1>3. PICK S \in {{}, {o}} : /\ sq' \cup inflight' = sq \cup inflight \cup S
                             /\ sq' \cap inflight' = {}
                             /\ pending_ops' = pending_ops \cup S
  BY <1>2
<1>4. /\ fut' = [fut EXCEPT ![o] = "waiting"] /\ io_wakers' = io_wakers \cup {o}
      /\ completed_io' = completed_io /\ ready' = ready /\ cq' = cq
  BY DEF Start, Submit
<1>5. IoTypes'
  BY <1>3, <1>4 DEF Safe, IoTypes, Waiting, Future
<1>6. OneStage' /\ BuffersAlive'
  BY <1>1, <1>3, <1>4 DEF Safe, OneStage, BuffersAlive
<1>7. Tables'
  BY <1>1, <1>3, <1>4 DEF Safe, IoTypes, Tables
<1>8. IoNoLostWake'
  BY <1>1, <1>4 DEF Safe, IoTypes, IoNoLostWake, Waiting
<1> QED  BY <1>5, <1>6, <1>7, <1>8 DEF Safe

\* Polling and dropping a future keep it: they do not touch the ring.
LEMMA FutureSafe ==
    ASSUME Safe, NEW o \in Op, PollFuture(o) \/ DropFuture(o)
    PROVE  Safe'
<1>1. UNCHANGED uringVars /\ CqOps' = CqOps
  BY DEF PollFuture, DropFuture, uringVars, CqOps
<1>2. OneStage' /\ BuffersAlive'
  BY <1>1 DEF Safe, OneStage, BuffersAlive, uringVars
<1>3. \/ /\ fut' \in {[fut EXCEPT ![o] = "dropped"], [fut EXCEPT ![o] = completed_io[o]]}
         /\ fut'[o] \in Future \ {"none", "waiting"}
         /\ io_wakers' = io_wakers \ {o} /\ ready' = ready \ {o}
         /\ completed_io' = [completed_io EXCEPT ![o] = "none"]
         /\ completed_io[o] # "none" \/ fut'[o] = "dropped"
      \/ /\ o \in Waiting /\ completed_io[o] = "none" /\ fut' = fut
         /\ io_wakers' = io_wakers \cup {o} /\ ready' = ready \ {o}
         /\ completed_io' = completed_io
  BY DEF PollFuture, DropFuture, Forget, Safe, IoTypes, Future, Result
<1>4. IoTypes'
  BY <1>1, <1>3 DEF Safe, IoTypes, Waiting, Future, uringVars
<1>5. Tables'
  BY <1>1, <1>3 DEF Safe, IoTypes, Tables, uringVars
<1>6. IoNoLostWake'
  BY <1>3 DEF Safe, IoTypes, IoNoLostWake, Waiting
<1> QED  BY <1>2, <1>4, <1>5, <1>6 DEF Safe

\* The kernel finishing an operation keeps it.
LEMMA KernelSafe ==
    ASSUME Safe, NEW o \in Op, Kernel(o)
    PROVE  Safe'
<1>1. PICK ok \in BOOLEAN : KernelComplete(o, ok)
  BY DEF Kernel
<1>2. /\ cq' \subseteq Cqe /\ CqOps' = CqOps \cup {o}
      /\ \A p \in Op, b \in BOOLEAN :
            [op |-> p, ok |-> b] \in cq' <=> [op |-> p, ok |-> b] \in cq \/ (p = o /\ b = ok)
  <2>1. cq \subseteq Cqe /\ cq' = cq \cup {[op |-> o, ok |-> ok]}
    BY <1>1 DEF KernelComplete, Safe, IoTypes
  <2> DEFINE r == cq \cup {[op |-> o, ok |-> ok]}
  <2>2. /\ r \subseteq Cqe /\ {e.op : e \in r} = {e.op : e \in cq} \cup {o}
        /\ \A p \in Op, b \in BOOLEAN :
              [op |-> p, ok |-> b] \in r <=> [op |-> p, ok |-> b] \in cq \/ (p = o /\ b = ok)
    BY <2>1, CqePosted
  <2>3. cq' = r
    BY <2>1
  <2>4. CqOps = {e.op : e \in cq} /\ CqOps' = {e.op : e \in cq'}
    BY DEF CqOps
  <2> HIDE DEF r
  <2> QED  BY <2>2, <2>3, <2>4
<1>3. \A b \in BOOLEAN : [op |-> o, ok |-> b] \notin cq
  BY <1>1, CqeOf DEF KernelComplete, Safe, IoTypes, OneStage, CqOps
<1>4. OneStage' /\ BuffersAlive'
  BY <1>1, <1>2, <1>3 DEF KernelComplete, Safe, OneStage, BuffersAlive
<1>5. IoTypes' /\ Tables' /\ IoNoLostWake'
  BY <1>1, <1>2 DEF KernelComplete, Kernel, ioVars, Safe, IoTypes, Tables, IoNoLostWake, Waiting
<1> QED  BY <1>4, <1>5 DEF Safe

\* Every finished operation has a result, and only those.
LEMMA CompletionsCover ==
    ASSUME Safe, NEW f \in Completions
    PROVE  /\ DOMAIN f = CqOps /\ f \in [CqOps -> Result]
           /\ \A e \in cq : f[e.op] \in Outcomes(e)
<1>1. CqOps \cap pending_ops = CqOps
  BY DEF Safe, BuffersAlive
<1>2. \A e \in cq : e.op \in CqOps
  BY DEF CqOps
<1> QED  BY <1>1, <1>2 DEF Completions, Result

\* Delivering the results keeps it.
LEMMA DeliverSafe ==
    ASSUME Safe, Deliver
    PROVE  Safe'
<1>1. PICK f \in Completions :
         /\ completed_io' = [o \in Op |-> IF o \in DOMAIN f THEN f[o] ELSE completed_io[o]]
         /\ ready' = ready \cup (io_wakers \cap DOMAIN f)
         /\ io_wakers' = io_wakers \ DOMAIN f
  BY DEF Deliver
<1>2. DOMAIN f = CqOps /\ f \in [CqOps -> Result]
  BY CompletionsCover
<1>3. /\ cq' = {} /\ pending_ops' = pending_ops \ CqOps /\ sq' = sq /\ inflight' = inflight
      /\ fut' = fut
  BY DEF Deliver, PollComplete
<1>4. CqOps' = {}
  BY <1>3 DEF CqOps
<1>5. OneStage' /\ BuffersAlive'
  BY <1>3, <1>4 DEF Safe, OneStage, BuffersAlive
<1>6. IoTypes'
  BY <1>1, <1>2, <1>3 DEF Safe, IoTypes, Waiting
<1>7. Tables'
  BY <1>1, <1>2, <1>3 DEF Safe, IoTypes, Tables, BuffersAlive
<1>8. IoNoLostWake'
  BY <1>1, <1>2, <1>3 DEF Safe, IoTypes, IoNoLostWake, Waiting
<1> QED  BY <1>5, <1>6, <1>7, <1>8 DEF Safe

\* Every step keeps the invariant.
LEMMA NextSafe ==
    ASSUME Safe, [Next]_vars
    PROVE  Safe'
<1> USE DEF Safe, IoTypes, OneStage, Tables, BuffersAlive, IoNoLostWake, Waiting, CqOps
<1>1. CASE Leave
  BY <1>1 DEF Leave, DropBackend, Future
<1>2. CASE EndPolls
  BY <1>2 DEF EndPolls, uringVars, ioVars
<1>3. CASE Unpark
  BY <1>3 DEF Unpark, uringVars
<1>4. ASSUME NEW o \in Op, OtherWake(o) PROVE Safe'
  BY <1>4 DEF OtherWake, uringVars
<1>5. CASE UNCHANGED vars
  BY <1>5 DEF vars, uringVars, ioVars
<1> HIDE DEF Safe, IoTypes, OneStage, Tables, BuffersAlive, IoNoLostWake, Waiting, CqOps
<1> QED
  BY <1>1, <1>2, <1>3, <1>4, <1>5, StartSafe, FutureSafe, KernelSafe, DeliverSafe
  DEF Next, Loop

\* Safe is an invariant.
THEOREM IoSafe == Spec => []Safe
<1> QED  BY InitSafe, NextSafe, PTL DEF Spec

\* pending_ops owns the buffers of an operation exactly as long as the kernel may
\* use them, whatever the size of the ring and however futures are dropped.
THEOREM IoBuffersAlive == Spec => []BuffersAlive
<1>1. Safe => BuffersAlive
  BY DEF Safe
<1> QED  BY <1>1, IoSafe, PTL

\* No future that waits is left without a waker or a poll to come, on either loop.
THEOREM IoWakes == Spec => []IoNoLostWake
<1>1. Safe => IoNoLostWake
  BY DEF Safe
<1> QED  BY <1>1, IoSafe, PTL
-----------------------------------------------------------------------------
(* Io implements IoPromise.  Progress only looks at one operation, so each *)
(* step is shown to change it for that operation alone, or as Complete and *)
(* Stop do for all.                                                        *)

\* Progress, where the invariant tells the stages apart.
LEMMA ProgressIs ==
    ASSUME Safe, NEW o \in Op
    PROVE  /\ Progress(o) = "idle" <=> fut[o] = "none"
           /\ Progress(o) = "submitted" <=> o \in sq \cup inflight
           /\ Progress(o) = "succeeded" <=> [op |-> o, ok |-> TRUE] \in cq
           /\ Progress(o) = "failed" <=> [op |-> o, ok |-> FALSE] \in cq
           /\ o \notin CqOps <=> Progress(o) \notin {"succeeded", "failed"}
           /\ Progress(o) \in {"Ok", "Err", "refused"} /\ fut[o] = "waiting" <=>
                 o \notin pending_ops /\ fut[o] = "waiting"
<1>1. o \in CqOps <=> [op |-> o, ok |-> TRUE] \in cq \/ [op |-> o, ok |-> FALSE] \in cq
  BY CqeOf DEF Safe, IoTypes, CqOps
<1>2. /\ fut[o] \in Future /\ completed_io[o] \in Result \cup {"none"}
      /\ ~ ([op |-> o, ok |-> TRUE] \in cq /\ [op |-> o, ok |-> FALSE] \in cq)
      /\ o \in sq \cup inflight => o \notin CqOps
      /\ o \in sq \cup inflight \cup CqOps <=> o \in pending_ops
      /\ o \in pending_ops => fut[o] \in {"waiting", "dropped"}
  BY DEF Safe, IoTypes, OneStage, Tables, BuffersAlive
<1> QED  BY <1>1, <1>2 DEF Progress, Future, Result

\* Submitting is SubmitOp.
LEMMA StartRefines ==
    ASSUME Safe, NEW o \in Op, NEW accepts \in BOOLEAN, Start(o, accepts)
    PROVE  Promise!SubmitOp(o)
<1>1. /\ o \notin sq \cup inflight \cup CqOps /\ completed_io[o] = "none" /\ cq' = cq
      /\ fut[o] = "none" /\ fut' = [fut EXCEPT ![o] = "waiting"] /\ completed_io' = completed_io
      /\ sq' \cup inflight' \in {sq \cup inflight, sq \cup inflight \cup {o}}
  BY DEF Safe, Start, Tables, BuffersAlive, Submit, RingSubmit
<1>2. Progress(o) = "idle" /\ Progress(o)' \in {"submitted", "refused"}
  <2>1. [op |-> o, ok |-> TRUE] \notin cq /\ [op |-> o, ok |-> FALSE] \notin cq
    BY <1>1, CqeOf DEF Safe, IoTypes, CqOps
  <2> QED  BY <1>1, <2>1 DEF Progress, Safe, IoTypes
<1>3. \A p \in Op \ {o} : Progress(p)' = Progress(p)
  BY <1>1 DEF Progress, Safe, IoTypes
<1> QED  BY <1>1, <1>2, <1>3 DEF Promise!SubmitOp

\* A future that takes its result is Return; one that registers again, a stutter.
LEMMA PollRefines ==
    ASSUME Safe, NEW o \in Op, PollFuture(o)
    PROVE  Promise!Return(o) \/ UNCHANGED Promise!promiseVars
<1>1. /\ fut[o] = "waiting" /\ UNCHANGED <<sq, inflight, cq>>
      /\ completed_io[o] \in Result \cup {"none"}
      /\ completed_io[o] # "none" => o \notin pending_ops
  BY DEF Safe, IoTypes, Tables, PollFuture, Waiting, uringVars
<1>2. CASE completed_io[o] = "none"
  <2>1. fut' = fut /\ \A p \in Op : Progress(p)' = Progress(p)
    BY <1>1, <1>2 DEF PollFuture, Progress
  <2> QED  BY <2>1 DEF Promise!promiseVars
<1>3. CASE completed_io[o] # "none"
  <2>1. /\ fut' = [fut EXCEPT ![o] = completed_io[o]]
        /\ completed_io' = [completed_io EXCEPT ![o] = "none"]
    BY <1>3 DEF PollFuture, Forget
  <2>2. /\ o \notin sq \cup inflight
        /\ [op |-> o, ok |-> TRUE] \notin cq /\ [op |-> o, ok |-> FALSE] \notin cq
    BY <1>1, <1>3, CqeOf DEF Safe, IoTypes, BuffersAlive, CqOps
  <2>3. Progress(o) = completed_io[o] /\ Progress(o)' = completed_io[o]
    BY <1>1, <1>3, <2>1, <2>2 DEF Progress, Safe, IoTypes, Result
  <2>4. \A p \in Op \ {o} : Progress(p)' = Progress(p)
    BY <1>1, <2>1 DEF Progress, Safe, IoTypes
  <2> QED  BY <1>1, <1>3, <2>1, <2>3, <2>4 DEF Promise!Return, Result
<1> QED  BY <1>2, <1>3

\* Dropping a future is Abandon: what the kernel still has is left to it.
LEMMA DropRefines ==
    ASSUME Safe, NEW o \in Op, DropFuture(o)
    PROVE  Promise!Abandon(o)
<1>1. /\ fut[o] = "waiting" /\ UNCHANGED <<sq, inflight, cq>>
      /\ fut' = [fut EXCEPT ![o] = "dropped"]
      /\ completed_io' = [completed_io EXCEPT ![o] = "none"]
  BY DEF DropFuture, Forget, Waiting, uringVars
<1>2. Progress(o)' = IF Progress(o) \in {"Ok", "Err", "refused"} THEN "gone" ELSE Progress(o)
  BY <1>1 DEF Progress, Safe, IoTypes, Result
<1>3. \A p \in Op \ {o} : Progress(p)' = Progress(p)
  BY <1>1 DEF Progress, Safe, IoTypes
<1> QED  BY <1>1, <1>2, <1>3 DEF Promise!Abandon

\* The kernel finishing an operation is Finish.
LEMMA KernelRefines ==
    ASSUME Safe, NEW o \in Op, Kernel(o)
    PROVE  \E k \in {"succeeded", "failed"} : Promise!Finish(o, k)
<1>1. PICK ok \in BOOLEAN : KernelComplete(o, ok)
  BY DEF Kernel
<1>2. /\ o \in inflight /\ inflight' = inflight \ {o} /\ sq' = sq
      /\ cq' = cq \cup {[op |-> o, ok |-> ok]} /\ fut' = fut /\ completed_io' = completed_io
  BY <1>1 DEF KernelComplete, Kernel, ioVars
<1>3. /\ o \notin sq /\ fut[o] # "none"
      /\ [op |-> o, ok |-> TRUE] \notin cq /\ [op |-> o, ok |-> FALSE] \notin cq
  BY <1>2, CqeOf DEF Safe, IoTypes, OneStage, Tables, BuffersAlive, CqOps
<1>4. Progress(o) = "submitted"
  BY <1>2, <1>3 DEF Progress
<1>5. Progress(o)' = IF ok THEN "succeeded" ELSE "failed"
  BY <1>2, <1>3 DEF Progress
<1>6. \A p \in Op \ {o} : Progress(p)' = Progress(p)
  BY <1>2 DEF Progress
<1> QED  BY <1>2, <1>4, <1>5, <1>6 DEF Promise!Finish

\* Delivering the results is Complete.
LEMMA DeliverRefines ==
    ASSUME Safe, Deliver
    PROVE  \E r \in [Promise!Finished -> {"Ok", "Err"}] : Promise!Complete(r)
<1>1. PICK f \in Completions :
         completed_io' = [o \in Op |-> IF o \in DOMAIN f THEN f[o] ELSE completed_io[o]]
  BY DEF Deliver
<1>2. DOMAIN f = CqOps /\ f \in [CqOps -> Result] /\ \A e \in cq : f[e.op] \in Outcomes(e)
  BY CompletionsCover
<1>3. cq' = {} /\ sq' = sq /\ inflight' = inflight /\ fut' = fut
  BY DEF Deliver, PollComplete
<1>4. Promise!Finished = CqOps
  <2>1. CqOps \subseteq Op
    BY DEF Safe, IoTypes, CqOps, Cqe
  <2>2. \A o \in Op : o \in CqOps <=> Progress(o) \in {"succeeded", "failed"}
    BY ProgressIs
  <2> QED  BY <2>1, <2>2 DEF Promise!Finished
<1>5. ASSUME NEW o \in CqOps
      PROVE  f[o] \in Promise!Results(o)
  <2>1. PICK e \in cq : e.op = o
    BY <1>5 DEF CqOps
  <2>2. /\ o \in Op /\ e.ok \in BOOLEAN /\ e = [op |-> o, ok |-> e.ok]
        /\ f[o] \in Outcomes(e)
    BY <1>2, <2>1 DEF Safe, IoTypes, Cqe
  <2>3. e.ok <=> Progress(o) # "failed"
    BY <2>1, <2>2, ProgressIs DEF Safe, OneStage
  <2> QED  BY <2>1, <2>2, <2>3 DEF Promise!Results, Outcomes, Decode
<1>6. ASSUME NEW o \in Op
      PROVE  Progress(o)' = IF o \notin CqOps THEN Progress(o)
                            ELSE IF fut[o] = "dropped" THEN "gone" ELSE f[o]
  <2>1. /\ o \in CqOps => /\ o \notin sq \cup inflight
                          /\ fut[o] \in {"waiting", "dropped"} /\ f[o] \in Result
        /\ o \notin CqOps => /\ [op |-> o, ok |-> TRUE] \notin cq
                             /\ [op |-> o, ok |-> FALSE] \notin cq
    BY <1>2, CqeOf DEF Safe, IoTypes, OneStage, Tables, BuffersAlive, CqOps
  <2> QED  BY <1>1, <1>2, <1>3, <2>1 DEF Progress, Result
<1>7. Promise!Complete(f)
  BY <1>3, <1>4, <1>5, <1>6 DEF Promise!Complete
<1> QED  BY <1>2, <1>4, <1>7 DEF Result

\* The end of a loop is Stop.
LEMMA LeaveRefines ==
    ASSUME Safe, Leave
    PROVE  Promise!Stop
<1>1. /\ sq' = {} /\ inflight' = {} /\ cq' = {} /\ completed_io' = [o \in Op |-> "none"]
      /\ fut' = [o \in Op |-> IF fut[o] = "waiting" THEN "dropped" ELSE fut[o]]
  BY DEF Leave, DropBackend, Waiting
<1>2. ASSUME NEW o \in Op
      PROVE  Progress(o)' = IF fut[o] \in {"waiting", "dropped"} THEN "gone" ELSE Progress(o)
  <2>1. fut[o] \in Future
    BY DEF Safe, IoTypes
  <2>2. fut[o] \in Result => /\ o \notin sq \cup inflight
                             /\ [op |-> o, ok |-> TRUE] \notin cq
                             /\ [op |-> o, ok |-> FALSE] \notin cq
    BY CqeOf DEF Safe, IoTypes, Tables, BuffersAlive, CqOps, Result
  <2> QED  BY <1>1, <2>1, <2>2 DEF Progress, Future, Result
<1> QED  BY <1>1, <1>2 DEF Promise!Stop

\* Every step of Io is a step of IoPromise, or a stutter.
LEMMA NextRefines ==
    ASSUME Safe, [Next]_vars
    PROVE  [Promise!PromiseNext]_(Promise!promiseVars)
<1>1. ASSUME EndPolls \/ Unpark \/ (\E o \in Op : OtherWake(o)) \/ UNCHANGED vars
      PROVE  UNCHANGED Promise!promiseVars
  <2>1. UNCHANGED <<sq, inflight, cq, fut, completed_io>>
    BY <1>1 DEF EndPolls, Unpark, OtherWake, vars, uringVars, ioVars
  <2>2. \A p \in Op : Progress(p)' = Progress(p)
    BY <2>1 DEF Progress
  <2> QED  BY <2>1, <2>2 DEF Promise!promiseVars
<1> QED
  BY <1>1, StartRefines, PollRefines, DropRefines, KernelRefines, DeliverRefines, LeaveRefines
  DEF Next, Loop, Promise!PromiseNext

\* The ring, the tables and both loops implement IoPromise: a future returns what
\* the kernel reported for its own operation, once, and not before it finished.
THEOREM IoKeepsPromise == Spec => KeepsPromise
<1>1. Init => Promise!PromiseInit
  <2> SUFFICES ASSUME Init PROVE Promise!PromiseInit
    OBVIOUS
  <2>1. \A o \in Op : Progress(o) = "idle"
    BY DEF Init, Progress
  <2> QED  BY <2>1 DEF Init, Promise!PromiseInit
<1>2. Safe /\ [Next]_vars => [Promise!PromiseNext]_(Promise!promiseVars)
  BY NextRefines
<1> QED  BY <1>1, <1>2, IoSafe, PTL DEF Spec, KeepsPromise, Promise!PromiseSpec

-----------------------------------------------------------------------------
(* The types.                                                              *)

\* The bounds of the state: Submit pushes to a queue with room only, and the
\* wake-ups are counted.
Bounds ==
    /\ IsFiniteSet(sq) /\ Cardinality(sq) <= Entries
    /\ driver \in Driver /\ pc \in {"poll", "io", "park", "returned", "panicked"}
    /\ wakes \in 0 .. MaxWakes

\* What submit() leaves in the submission queue: with the new entry, when there
\* was room for it, or nothing.
LEMMA SubmitBound ==
    ASSUME NEW o \in Op, NEW accepts \in BOOLEAN, IsFiniteSet(sq), Cardinality(sq) <= Entries,
           Submit(o, accepts)
    PROVE  IsFiniteSet(sq') /\ Cardinality(sq') <= Entries
<1>1. Entries \in Nat /\ Cardinality(sq) \in Nat
  BY UringAssumption, FS_CardinalityType
<1>2. IsFiniteSet({}) /\ Cardinality({}) <= Entries
  BY <1>1, FS_EmptySet
<1>3. /\ IsFiniteSet(sq \cup {o})
      /\ Cardinality(sq) < Entries => Cardinality(sq \cup {o}) <= Entries
  BY <1>1, FS_AddElement
<1>4. \/ sq' = {} \/ sq' = sq
      \/ sq' = sq \cup {o} /\ Cardinality(sq) < Entries
  BY DEF Submit, RingSubmit
<1> QED  BY <1>2, <1>3, <1>4

\* Every step keeps the bounds.
LEMMA NextBounds ==
    ASSUME Bounds, [Next]_vars
    PROVE  Bounds'
<1>1. IsFiniteSet({}) /\ Cardinality({}) <= Entries
  BY UringAssumption, FS_EmptySet
<1>2. CASE \E o \in Op, accepts \in BOOLEAN : Start(o, accepts)
  BY <1>2, SubmitBound DEF Bounds, Start
<1>3. CASE Leave
  BY <1>1, <1>3 DEF Bounds, Leave, DropBackend
<1>4. CASE \E o \in Op : OtherWake(o)
  BY <1>4, IoAssumption DEF Bounds, OtherWake, uringVars
<1>5. CASE Loop \/ (\E o \in Op : DropFuture(o) \/ Kernel(o)) \/ UNCHANGED vars
  BY <1>5 DEF Bounds, Loop, EndPolls, Deliver, Unpark, PollFuture, DropFuture, Kernel,
              KernelComplete, PollComplete, vars, uringVars, ioVars
<1> QED  BY <1>2, <1>3, <1>4, <1>5 DEF Next

\* The state is well typed: in particular no submission queue of whatever size
\* overflows, and only futures that wait have a waker or a poll to come.
THEOREM IoTypeOK == Spec => []TypeOK
<1>1. Init => Bounds
  BY UringAssumption, IoAssumption, FS_EmptySet DEF Init, UringInit, Bounds
<1>2. Bounds /\ [Next]_vars => Bounds'
  BY NextBounds
<1>3. Bounds /\ Safe => TypeOK
  BY DEF Bounds, Safe, IoTypes, Cqe, Future, Result, TypeOK, UringTypeOK
<1> QED  BY <1>1, <1>2, <1>3, IoSafe, PTL DEF Spec
=================================================================================
