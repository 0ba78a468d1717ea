------------------------------ MODULE JoinHandle ------------------------------
(***************************************************************************)
(* The result channel and the JoinHandle of src/task.rs.  spawn makes a    *)
(* bounded(1) channel per task; the wrapped future sends Ok(result) and    *)
(* drops the Sender when it ends, in two steps another thread can see;     *)
(* the thread holding the handle calls is_finished or cancel, or blocks on *)
(* it.  The executors that run the tasks extend this module.               *)
(***************************************************************************)
CONSTANTS Task,     \* spawned futures, each with one channel and one handle
          Parked    \* the handles awaited with Executor::block_on, which
                    \* parks without a timeout; the others use
                    \* Runtime::block_on, which polls again after 1 ms

VARIABLES value,    \* value[t]: an Ok(result) is in the channel of t
          sender,   \* sender[t]: the Sender of t is alive
          holder,   \* holder[t]: what the thread with the handle is doing
          outcome,  \* outcome[t]: what awaiting the handle returned
          taken     \* history: tasks whose result is_finished or cancel took

handleVars == <<value, sender, holder, outcome, taken>>

HandleInit ==
    /\ value = [t \in Task |-> FALSE] /\ sender = [t \in Task |-> FALSE]
    /\ holder = [t \in Task |-> "none"] /\ outcome = [t \in Task |-> "none"]
    /\ taken = {}

\* spawn returns JoinHandle::new(task_id, receiver).
Open(t) ==
    /\ sender' = [sender EXCEPT ![t] = TRUE]
    /\ holder' = [holder EXCEPT ![t] = "holding"]
    /\ UNCHANGED <<value, outcome, taken>>

\* let _ = sender.send(Ok(result)): lost if the handle is gone.
SendResult(t) ==
    /\ value' = [value EXCEPT ![t] = holder[t] \notin {"dropped", "returned"}]
    /\ UNCHANGED <<sender, holder, outcome, taken>>

\* The Senders of tasks in S go with their futures.
DropSenders(S) ==
    /\ sender' = [t \in Task |-> sender[t] /\ t \notin S]
    /\ UNCHANGED <<value, holder, outcome, taken>>

\* JoinHandle::is_finished, and cancel, which only calls it: try_recv takes the
\* result out of the channel.  True when there is one or the Sender is gone.
is_finished(t) ==
    /\ holder[t] = "holding"
    /\ value' = [value EXCEPT ![t] = FALSE]
    /\ taken' = IF value[t] THEN taken \cup {t} ELSE taken
    /\ UNCHANGED <<sender, holder, outcome>>

\* block_on(handle), or the wait of a parked thread timing out.
Await(t) ==
    /\ \/ holder[t] = "holding"
       \/ holder[t] = "parked" /\ t \notin Parked
    /\ holder' = [holder EXCEPT ![t] = "polling"]
    /\ UNCHANGED <<value, sender, outcome, taken>>

\* Faulty variant: an empty channel counts as a cancelled task.
AwaitPollEmptyEnds(t) ==
    /\ holder[t] = "polling"
    /\ value' = [value EXCEPT ![t] = FALSE]
    /\ holder' = [holder EXCEPT ![t] = "returned"]
    /\ outcome' = [outcome EXCEPT ![t] = IF value[t] THEN "Ok" ELSE "Cancelled"]
    /\ UNCHANGED <<sender, taken>>

\* Faulty variant: a closed channel looks like an empty one.
AwaitPollIgnoresClosed(t) ==
    /\ holder[t] = "polling"
    /\ value' = [value EXCEPT ![t] = FALSE]
    /\ outcome' = [outcome EXCEPT ![t] = IF value[t] THEN "Ok" ELSE @]
    /\ holder' = [holder EXCEPT ![t] = IF value[t] THEN "returned" ELSE "parked"]
    /\ UNCHANGED <<sender, taken>>

\* JoinHandle::poll: try_recv gives the result, Empty or Disconnected.  The
\* waker stored on Empty is read by nobody, so the thread just parks.
AwaitPoll(t) ==
    /\ holder[t] = "polling"
    /\ value' = [value EXCEPT ![t] = FALSE]
    /\ \/ /\ value[t] /\ outcome' = [outcome EXCEPT ![t] = "Ok"]
          /\ holder' = [holder EXCEPT ![t] = "returned"]
       \/ /\ ~value[t] /\ sender[t] /\ UNCHANGED outcome
          /\ holder' = [holder EXCEPT ![t] = "parked"]
       \/ /\ ~value[t] /\ ~sender[t]
          /\ outcome' = [outcome EXCEPT ![t] = "Cancelled"]
          /\ holder' = [holder EXCEPT ![t] = "returned"]
    /\ UNCHANGED <<sender, taken>>

DropHandle(t) ==
    /\ holder[t] = "holding"
    /\ holder' = [holder EXCEPT ![t] = "dropped"]
    /\ value' = [value EXCEPT ![t] = FALSE]
    /\ UNCHANGED <<sender, outcome, taken>>

Holder(t) == is_finished(t) \/ Await(t) \/ AwaitPoll(t) \/ DropHandle(t)

=============================================================================
