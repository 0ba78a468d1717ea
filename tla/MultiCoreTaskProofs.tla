------------------------- MODULE MultiCoreTaskProofs ---------------------------
(***************************************************************************)
(* Theorems about the tasks of MultiCore, for any number of cores, clients *)
(* and tasks: Placed, which says that every task is in one place, is       *)
(* inductive relative to Safe of MultiCoreProofs, and gives TypeOK and     *)
(* that the runtime implements TaskLifecycle.                              *)
(***************************************************************************)
EXTENDS MultiCoreProofs

-----------------------------------------------------------------------------
(* The types, and that every task is in one place.                         *)

Has(k) == Holds(inbox[k], task_queue[k], core[k].cur)

\* What a core has, and local_task_count.
CorePlaces ==
    \A k \in Core :
        /\ Neat(inbox[k], task_queue[k], core[k].cur)
        /\ Has(k) \subseteq accepted \ finished
        /\ core[k].cur = None <=> core[k].pc # "poll"
        /\ core[k].count = Len(task_queue[k]) + (IF core[k].cur = None THEN 0 ELSE 1)

\* No two cores have the same task.
Apart == \A j, k \in Core : j # k => Has(j) \cap Has(k) = {}

\* The tasks inside a spawn are new, and no two clients spawn the same.
ClientPlaces ==
    \A c \in Client :
        /\ client[c].task \notin accepted
        /\ client[c].pc = "push" => client[c].at \in Core
        /\ \A d \in Client : client[c].task = client[d].task /\ client[c].task # None => c = d

History ==
    /\ finished \subseteq accepted /\ accepted \subseteq Task /\ late \subseteq accepted
    /\ polls \in [Task -> 0 .. MaxPolls]
    /\ state \in {"Initializing", "Running", "ShuttingDown", "Terminated", "failed"}

Placed == CorePlaces /\ Apart /\ ClientPlaces /\ History

\* What a step of core k does to its tasks: nothing, or they stay and a poll begins
\* or ends with Pending, or one finishes, or the core lets go of some.
Stays(k) == Has(k)' = Has(k) /\ core'[k].cur = core[k].cur /\ finished' = finished
Begins(k) == /\ Has(k)' = Has(k) /\ core[k].cur = None /\ core'[k].cur \in Has(k)
             /\ core'[k].cur \in Task /\ finished' = finished
Pauses(k) == /\ Has(k)' = Has(k) /\ core[k].cur \in Task /\ core'[k].cur = None
             /\ finished' = finished
Finishes(k) == /\ Has(k)' = Has(k) \ {core[k].cur} /\ core[k].cur \in Task \cap Has(k)
               /\ core'[k].cur = None /\ finished' = finished \cup {core[k].cur}
LetsGo(k) == /\ Has(k)' \subseteq Has(k) /\ core[k].cur \notin Has(k)'
             /\ core'[k].cur = None /\ finished' = finished

\* Core k is the only one to change, neatly, and in one of these ways.
CoreMoves(k) ==
    /\ \A j \in Core \ {k} : /\ inbox'[j] = inbox[j] /\ task_queue'[j] = task_queue[j]
                             /\ core'[j] = core[j]
    /\ Neat(inbox'[k], task_queue'[k], core'[k].cur)
    /\ core'[k].cur = None <=> core'[k].pc # "poll"
    /\ core'[k].count = Len(task_queue'[k]) + (IF core'[k].cur = None THEN 0 ELSE 1)
    /\ Stays(k) \/ Begins(k) \/ Pauses(k) \/ Finishes(k) \/ LetsGo(k)

\* A step of a core, from what it does to the queues and the record.
LEMMA Moves ==
    ASSUME CoreTypes, InboxTypes, Placed, NEW k \in Core, NewCore(k) \/ CoreStep(k)
    PROVE  CoreMoves(k)
<1> DEFINE q == inbox[k]
           r == task_queue[k]
           s == core[k]
<1>0. /\ Neat(q, r, s.cur) /\ s \in CoreState /\ Has(k) = Holds(q, r, s.cur)
      /\ s.cur = None <=> s.pc # "poll"
      /\ s.count = Len(r) + (IF s.cur = None THEN 0 ELSE 1)
      /\ None \notin Task
  BY MultiCoreAssumption DEF Placed, CorePlaces, CoreTypes, Has
<1>1. \A j \in Core \ {k} : /\ inbox'[j] = inbox[j] /\ task_queue'[j] = task_queue[j]
                            /\ core'[j] = core[j]
  <2>1. CASE NewCore(k) \/ EndMessages(k) \/ EndTasks(k)
    BY <2>1 DEF NewCore, EndMessages, EndTasks, Goto, CoreTypes
  <2>2. CASE While(k) \/ PollPanic(k)
    BY <2>2 DEF While, PollPanic, Goto, End, CoreTypes, InboxTypes
  <2>3. CASE Receive(k)
    BY <2>3 DEF Receive, CoreTypes, InboxTypes
  <2>4. CASE Pop(k) \/ PollReady(k) \/ PollPending(k)
    BY <2>4 DEF Pop, PollReady, PollPending, CoreTypes
  <2> QED  BY <2>1, <2>2, <2>3, <2>4 DEF CoreStep
<1>2. ASSUME UNCHANGED <<inbox, task_queue, finished>>, core'[k].cur = s.cur,
             core'[k].count = s.count, core'[k].pc # "poll", s.pc # "poll"
      PROVE  CoreMoves(k)
  BY <1>0, <1>1, <1>2 DEF CoreMoves, Stays, Has
<1>3. CASE NewCore(k) \/ EndMessages(k) \/ EndTasks(k) \/ (While(k) /\ ~s.shutdown)
  <2>1. UNCHANGED <<inbox, task_queue, finished>> /\ s.pc # "poll"
    BY <1>3 DEF NewCore, EndMessages, EndTasks, While
  <2>2. core'[k].cur = s.cur /\ core'[k].count = s.count /\ core'[k].pc # "poll"
    BY <1>3 DEF NewCore, EndMessages, EndTasks, While, Goto, CoreTypes, CoreState
  <2> QED  BY <1>2, <2>1, <2>2
<1>4. CASE (While(k) /\ s.shutdown) \/ PollPanic(k)
  <2>1. PICK pc \in {"exited", "panicked"} : End(k, pc) /\ finished' = finished
    BY <1>4 DEF While, PollPanic
  <2>2. core'[k].cur = None /\ core'[k].count = 0 /\ core'[k].pc # "poll"
    BY <2>1 DEF End, CoreTypes, CoreState
  <2>3. task_queue'[k] = <<>> /\ (inbox'[k] = q \/ inbox'[k] = <<>>)
    BY <2>1 DEF End, CoreTypes, InboxTypes
  <2>4. /\ Neat(q, <<>>, None) /\ Neat(<<>>, <<>>, None)
        /\ Holds(q, <<>>, None) \subseteq Has(k) /\ Holds(<<>>, <<>>, None) = {}
        /\ s.cur \notin Holds(q, <<>>, None)
    BY <1>0, NeatEnd
  <2>5. Len(<<>>) = 0
    OBVIOUS
  <2>6. Has(k)' = Holds(inbox'[k], <<>>, None)
    BY <2>2, <2>3 DEF Has
  <2>7. LetsGo(k)
    BY <2>1, <2>2, <2>3, <2>4, <2>6 DEF LetsGo
  <2> QED  BY <1>1, <2>2, <2>3, <2>4, <2>5, <2>7 DEF CoreMoves
<1>5. CASE Receive(k)
  <2>1. /\ q # <<>> /\ inbox'[k] = Tail(q) /\ finished' = finished /\ s.pc = "messages"
    BY <1>5 DEF Receive, InboxTypes
  <2>2. core'[k].cur = s.cur /\ core'[k].pc # "poll"
    <3>1. Head(q).type \in {"Task", "Ping", "Shutdown"}
      BY <1>5, Zenon DEF Receive
    <3>2. CASE Head(q).type = "Task"
      <4>1. core' = [core EXCEPT ![k].n = @ + 1, ![k].count = @ + 1]
        BY <1>5, <3>2, Zenon DEF Receive
      <4> QED  BY <2>1, <4>1 DEF CoreTypes, CoreState
    <3>3. CASE Head(q).type = "Ping"
      BY <1>5, <3>3 DEF Receive, CoreTypes, CoreState
    <3>4. CASE Head(q).type = "Shutdown"
      BY <1>5, <3>4 DEF Receive, CoreTypes, CoreState
    <3> QED  BY <3>1, <3>2, <3>3, <3>4
  <2>3. CASE Head(q).type = "Task"
    <3>1. task_queue'[k] = Append(r, Head(q).task) /\ core'[k].count = s.count + 1
      BY <1>5, <2>3 DEF Receive, CoreTypes, CoreState
    <3>2. /\ Neat(Tail(q), Append(r, Head(q).task), s.cur)
          /\ Holds(Tail(q), Append(r, Head(q).task), s.cur) = Has(k)
      BY <1>0, <2>1, <2>3, NeatReceive
    <3>3. Len(Append(r, Head(q).task)) = Len(r) + 1 /\ Len(r) \in Nat
      <4>1. r \in Seq(Task) /\ Head(q).task \in Task
        BY <1>0, <2>1, <2>3, InboxTail, TaskOf DEF Neat
      <4> QED  BY <4>1, PushQueue
    <3>4. s.cur = None
      BY <1>0, <2>1
    <3>5. Stays(k)
      BY <2>1, <2>2, <3>1, <3>2 DEF Stays, Has
    <3>6. Neat(inbox'[k], task_queue'[k], core'[k].cur)
      BY <2>1, <2>2, <3>1, <3>2
    <3>7. core'[k].count = Len(task_queue'[k]) + (IF core'[k].cur = None THEN 0 ELSE 1)
      BY <1>0, <2>2, <3>1, <3>3, <3>4
    <3> QED  BY <1>1, <2>2, <3>4, <3>5, <3>6, <3>7 DEF CoreMoves
  <2>4. CASE Head(q).type # "Task"
    <3>1. task_queue'[k] = r /\ core'[k].count = s.count
      BY <1>5, <2>4 DEF Receive, CoreTypes, CoreState
    <3>2. Neat(Tail(q), r, s.cur) /\ Holds(Tail(q), r, s.cur) = Has(k)
      BY <1>0, <2>1, <2>4, NeatReceive
    <3>3. Stays(k)
      BY <2>1, <2>2, <3>1, <3>2 DEF Stays, Has
    <3> QED  BY <1>0, <1>1, <2>1, <2>2, <3>1, <3>2, <3>3 DEF CoreMoves
  <2> QED  BY <2>3, <2>4
<1>6. CASE Pop(k)
  <2>1. /\ r # <<>> /\ inbox'[k] = q /\ finished' = finished /\ s.pc = "tasks"
        /\ task_queue'[k] = Tail(r)
    BY <1>6 DEF Pop, CoreTypes
  <2>2. core'[k].cur = Head(r) /\ core'[k].pc = "poll" /\ core'[k].count = s.count
    BY <1>6 DEF Pop, CoreTypes, CoreState
  <2>3. s.cur = None
    BY <1>0, <2>1
  <2>4. /\ Neat(q, Tail(r), Head(r)) /\ Holds(q, Tail(r), Head(r)) = Has(k)
        /\ Head(r) \in Has(k) /\ Head(r) \in Task
    BY <1>0, <2>1, <2>3, NeatPop
  <2>5. Begins(k)
    BY <2>1, <2>2, <2>3, <2>4 DEF Begins, Has
  <2>6. Len(Tail(r)) = Len(r) - 1 /\ Len(r) \in Nat
    BY <1>0, <2>1, PopQueue DEF Neat
  <2>7. core'[k].count = Len(task_queue'[k]) + (IF core'[k].cur = None THEN 0 ELSE 1)
    <3>1. s.count = Len(r) + 0 /\ (IF core'[k].cur = None THEN 0 ELSE 1) = 1
      BY <1>0, <2>2, <2>3, <2>4
    <3> HIDE DEF s, r
    <3> QED  BY <2>1, <2>2, <2>6, <3>1
  <2> QED  BY <1>0, <1>1, <2>1, <2>2, <2>4, <2>5, <2>7 DEF CoreMoves
<1>7. CASE PollReady(k)
  <2>1. /\ s.pc = "poll" /\ inbox'[k] = q /\ finished' = finished \cup {s.cur}
        /\ task_queue'[k] = r
    BY <1>7 DEF PollReady
  <2>2. core'[k].cur = None /\ core'[k].pc # "poll" /\ core'[k].count = s.count - 1
    BY <1>7 DEF PollReady, CoreTypes, CoreState
  <2>3. s.cur \in Task
    BY <1>0, <2>1 DEF Neat, MaybeTask
  <2>4. /\ Neat(q, r, None) /\ Holds(q, r, None) = Has(k) \ {s.cur} /\ s.cur \in Has(k)
    BY <1>0, <2>3, NeatPolled
  <2>5. Finishes(k)
    BY <2>1, <2>2, <2>3, <2>4 DEF Finishes, Has
  <2>6. Len(r) \in Nat
    BY <1>0 DEF Neat
  <2>7. core'[k].count = Len(task_queue'[k]) + (IF core'[k].cur = None THEN 0 ELSE 1)
    <3>1. s.count = Len(r) + 1 /\ (IF core'[k].cur = None THEN 0 ELSE 1) = 0
      BY <1>0, <2>2, <2>3
    <3> HIDE DEF s, r
    <3> QED  BY <2>1, <2>2, <2>6, <3>1
  <2> QED  BY <1>1, <2>1, <2>2, <2>4, <2>5, <2>7 DEF CoreMoves
<1>8. CASE PollPending(k)
  <2>1. /\ s.pc = "poll" /\ inbox'[k] = q /\ finished' = finished
        /\ task_queue'[k] = Append(r, s.cur)
    BY <1>8 DEF PollPending, CoreTypes
  <2>2. core'[k].cur = None /\ core'[k].pc # "poll" /\ core'[k].count = s.count
    BY <1>8 DEF PollPending, CoreTypes, CoreState
  <2>3. s.cur \in Task
    BY <1>0, <2>1 DEF Neat, MaybeTask
  <2>4. Neat(q, Append(r, s.cur), None) /\ Holds(q, Append(r, s.cur), None) = Has(k)
    BY <1>0, <2>3, NeatPolled
  <2>5. Pauses(k)
    BY <2>1, <2>2, <2>3, <2>4 DEF Pauses, Has
  <2>6. Len(Append(r, s.cur)) = Len(r) + 1 /\ Len(r) \in Nat
    BY <1>0, <2>3, PushQueue DEF Neat
  <2>7. core'[k].count = Len(task_queue'[k]) + (IF core'[k].cur = None THEN 0 ELSE 1)
    <3>1. s.count = Len(r) + 1 /\ (IF core'[k].cur = None THEN 0 ELSE 1) = 0
      BY <1>0, <2>2, <2>3
    <3> HIDE DEF s, r
    <3> QED  BY <2>1, <2>2, <2>6, <3>1
  <2> QED  BY <1>1, <2>1, <2>2, <2>4, <2>5, <2>7 DEF CoreMoves
<1> QED  BY <1>3, <1>4, <1>5, <1>6, <1>7, <1>8 DEF CoreStep

\* A step of a core keeps every task in one place.
LEMMA CorePlaced ==
    ASSUME CoreTypes, InboxTypes, Placed, NEW k \in Core, NewCore(k) \/ CoreStep(k)
    PROVE  Placed'
<1>1. CoreMoves(k)
  BY Moves
<1>2. UNCHANGED <<client, accepted, late, state>>
  BY DEF CoreStep, NewCore, While, Receive, EndMessages, Pop, PollReady, PollPending,
         PollPanic, EndTasks, callVars
<1>3. CorePlaces /\ Apart /\ ClientPlaces /\ History
  BY DEF Placed
<1>4. \A j \in Core \ {k} : Has(j)' = Has(j)
  BY <1>1 DEF CoreMoves, Has
<1>5. Has(k)' \subseteq Has(k) /\ Has(k)' \subseteq accepted \ finished'
  <2>1. Has(k) \subseteq accepted \ finished
    BY <1>3 DEF CorePlaces
  <2> QED  BY <1>1, <2>1 DEF CoreMoves, Stays, Begins, Pauses, Finishes, LetsGo
<1>6. finished' = finished \/ \E t \in Has(k) : finished' = finished \cup {t}
  BY <1>1 DEF CoreMoves, Stays, Begins, Pauses, Finishes, LetsGo
<1>7. \A j \in Core \ {k} : Has(j) \subseteq accepted \ finished'
  BY <1>3, <1>6 DEF CorePlaces, Apart
<1>8. CorePlaces'
  <2> SUFFICES ASSUME NEW j \in Core
               PROVE  /\ Neat(inbox[j], task_queue[j], core[j].cur)'
                      /\ (Has(j) \subseteq accepted \ finished)'
                      /\ (core[j].cur = None <=> core[j].pc # "poll")'
                      /\ (core[j].count = Len(task_queue[j])
                                            + (IF core[j].cur = None THEN 0 ELSE 1))'
    BY DEF CorePlaces
  <2>1. CASE j = k
    BY <1>1, <1>2, <1>5, <2>1 DEF CoreMoves
  <2>2. CASE j # k
    <3>1. /\ inbox'[j] = inbox[j] /\ task_queue'[j] = task_queue[j] /\ core'[j] = core[j]
      BY <1>1, <2>2 DEF CoreMoves
    <3>2. (Has(j) \subseteq accepted \ finished)'
      BY <1>2, <1>4, <1>7, <2>2
    <3> QED  BY <1>3, <3>1, <3>2 DEF CorePlaces
  <2> QED  BY <2>1, <2>2
<1>9. Apart'
  BY <1>3, <1>4, <1>5 DEF Apart
<1>10. ClientPlaces'
  BY <1>2, <1>3 DEF ClientPlaces
<1>11. polls' \in [Task -> 0 .. MaxPolls]
  <2>1. CASE Pop(k)
    <3>1. Head(task_queue[k]) \in Task
      BY <1>3, <2>1, PopQueue DEF CorePlaces, Neat, Pop
    <3> QED  BY <1>3, <2>1, <3>1, MultiCoreAssumption DEF Pop, History
  <2>2. CASE ~Pop(k)
    <3>1. polls' = polls
      BY <2>2 DEF CoreStep, NewCore, While, Receive, EndMessages, PollReady, PollPending,
                  PollPanic, EndTasks
    <3> QED  BY <1>3, <3>1 DEF History
  <2> QED  BY <2>1, <2>2
<1>12. finished' \subseteq accepted
  BY <1>3, <1>6 DEF History, CorePlaces
<1>13. History'
  BY <1>2, <1>3, <1>11, <1>12 DEF History
<1> QED  BY <1>8, <1>9, <1>10, <1>13 DEF Placed

\* What a client step does to the client: it keeps its task, takes a fresh one, or
\* hands it over; and a push is always for a core that exists.
ClientMoves(c) ==
    /\ \A d \in Client \ {c} : client'[d] = client[d]
    /\ client'[c].pc = "push" => client'[c].at \in Core
    /\ \/ client'[c].task = client[c].task /\ accepted' = accepted
       \/ client'[c].task \in Task /\ Fresh(client'[c].task) /\ accepted' = accepted
       \/ /\ client[c].task \in Task /\ client'[c].task = None
          /\ accepted' = accepted \cup {client[c].task}

\* Every step of a call is one of these.
LEMMA ClientMove ==
    ASSUME ClientTypes, NEW c \in Client, InCall(c) \/ Call(c)
    PROVE  ClientMoves(c)
<1>0. client \in [Client -> ClientState] /\ next_core \in Nat
  BY DEF ClientTypes
<1>1. CASE SpawnSelect(c)
  <2>1. next_core % NumCores \in Core
    BY <1>0, MultiCoreAssumption DEF Core
  <2> QED  BY <1>0, <1>1, <2>1 DEF SpawnSelect, ClientMoves, ClientState, callVars
<1>2. CASE SpawnOnCore(c)
  <2>1. client[c].task \in Task
    BY <1>2 DEF SpawnOnCore, ClientTypes
  <2> QED  BY <1>0, <1>2, <2>1 DEF SpawnOnCore, ClientMoves, ClientState
<1>3. CASE CompareExchange(c)
  BY <1>0, <1>3 DEF CompareExchange, ClientMoves, ClientState, callVars
<1>4. CASE SendShutdown(c)
  BY <1>0, <1>4 DEF SendShutdown, ClientMoves, ClientState, callVars
<1>5. CASE SendPing(c)
  BY <1>0, <1>5 DEF SendPing, ClientMoves, ClientState, callVars
<1>6. CASE JoinCore(c)
  BY <1>0, <1>6 DEF JoinCore, ClientMoves, ClientState, callVars
<1>7. CASE FreeRuntime(c)
  BY <1>0, <1>7 DEF FreeRuntime, ClientMoves, ClientState, callVars
<1>8. CASE ShutdownLoad(c) \/ PingAll(c) \/ Join(c)
  BY <1>0, <1>8 DEF ShutdownLoad, PingAll, Join, ClientMoves, ClientState, callVars
<1>9. CASE DropArc(c)
  BY <1>0, <1>9 DEF DropArc, ClientMoves, ClientState, callVars
<1>10. ASSUME NEW t \in Task, SpawnLoad(c, t)
       PROVE  ClientMoves(c)
  BY <1>0, <1>10 DEF SpawnLoad, ClientMoves, ClientState, callVars
<1>11. ASSUME NEW t \in Task, NEW k \in Core, SpawnOnLoad(c, t, k)
       PROVE  ClientMoves(c)
  BY <1>0, <1>11 DEF SpawnOnLoad, ClientMoves, ClientState, callVars
<1> QED  BY <1>1, <1>2, <1>3, <1>4, <1>5, <1>6, <1>7, <1>8, <1>9, <1>10, <1>11
         DEF InCall, Call

\* The inboxes after a client step: as they were, or with one more message that
\* carries the client's own task or none, or some of them freed.
InboxesMove(c) ==
    \/ inbox' = inbox /\ accepted' = accepted
    \/ /\ client[c].at \in Core /\ client[c].task \in Task
       /\ inbox' = [inbox EXCEPT ![client[c].at] = Append(@, TaskMsg(client[c].task))]
       /\ accepted' = accepted \cup {client[c].task}
    \/ \E k \in Core, m \in Message :
          /\ m.type # "Task" /\ inbox' = [inbox EXCEPT ![k] = Append(@, m)]
          /\ accepted' = accepted
    \/ /\ inbox' = [k \in Core |-> IF Ended(k) THEN <<>> ELSE inbox[k]]
       /\ accepted' = accepted

\* Every step of a call does one of these to the inboxes.
LEMMA InboxesMoved ==
    ASSUME ClientTypes, InboxTypes, Placed, NEW c \in Client, InCall(c) \/ Call(c)
    PROVE  InboxesMove(c)
<1>0. client[c] \in ClientState /\ client[c].at \in Nat
  BY DEF ClientTypes, ClientState
<1>1. CASE SpawnOnCore(c)
  <2>1. client[c].at \in Core /\ client[c].task \in Task
    BY <1>1 DEF SpawnOnCore, ClientTypes, Placed, ClientPlaces
  <2> QED  BY <1>1, <2>1 DEF SpawnOnCore, InboxesMove, Send
<1>2. CASE SendShutdown(c)
  <2>1. CASE client[c].at < NumCores
    <3>1. client[c].at \in Core
      BY <1>0, <2>1, MultiCoreAssumption DEF Core
    <3>2. inbox' = [inbox EXCEPT ![client[c].at] = Append(@, ShutdownMsg)] /\ accepted' = accepted
      BY <1>0, <1>2, <2>1, MultiCoreAssumption DEF SendShutdown, Send, callVars
    <3>3. ShutdownMsg \in Message /\ ShutdownMsg.type # "Task"
      BY MessageKinds
    <3> QED  BY <3>1, <3>2, <3>3 DEF InboxesMove
  <2>2. CASE ~(client[c].at < NumCores)
    BY <1>2, <2>2 DEF SendShutdown, InboxesMove, callVars
  <2> QED  BY <2>1, <2>2
<1>3. CASE SendPing(c)
  <2>1. accepted' = accepted
    BY <1>3 DEF SendPing, callVars
  <2>2. CASE UNCHANGED inbox
    BY <2>1, <2>2 DEF InboxesMove
  <2>3. CASE ~(UNCHANGED inbox)
    <3>1. PICK k : Send(k, PingMsg(k))
      BY <1>3, <2>3 DEF SendPing
    <3>2. k \in Core
      <4>1. k \notin Core => inbox' = inbox
        BY <3>1 DEF Send, InboxTypes
      <4> QED  BY <2>3, <4>1
    <3>3. PingMsg(k) \in Message /\ PingMsg(k).type # "Task"
      BY <3>2, MessageKinds
    <3> QED  BY <2>1, <3>1, <3>2, <3>3 DEF InboxesMove, Send
  <2> QED  BY <2>2, <2>3
<1>4. CASE FreeRuntime(c)
  BY <1>4 DEF FreeRuntime, InboxesMove, callVars
<1>5. CASE SpawnSelect(c) \/ CompareExchange(c) \/ JoinCore(c) \/ Call(c)
  BY <1>5, ZenonT(30)
     DEF SpawnSelect, CompareExchange, JoinCore, Call, ShutdownLoad, PingAll, DropArc, Join,
         SpawnLoad, SpawnOnLoad, InboxesMove, callVars
<1> QED  BY <1>1, <1>2, <1>3, <1>4, <1>5 DEF InCall

\* A step of a client keeps every task in one place, and the tasks inside a spawn
\* away from those that were accepted.
LEMMA ClientPlaced ==
    ASSUME ClientTypes, InboxTypes, Placed, NEW c \in Client, InCall(c) \/ Call(c)
    PROVE  Placed'
<1>1. ClientMoves(c) /\ InboxesMove(c)
  BY ClientMove, InboxesMoved
<1>2. UNCHANGED <<core, task_queue, finished, polls>>
  BY ZenonT(30)
     DEF InCall, Call, SpawnSelect, SpawnOnCore, CompareExchange, SendShutdown, SendPing,
         JoinCore, FreeRuntime, ShutdownLoad, PingAll, DropArc, Join, SpawnLoad, SpawnOnLoad,
         coreVars
<1>3. CorePlaces /\ Apart /\ ClientPlaces /\ History
  BY DEF Placed
<1>4. ClientPlaces'
  <2>0. None \notin Task /\ accepted \subseteq Task
    BY <1>3, MultiCoreAssumption DEF History
  <2>1. CASE client'[c].task = client[c].task /\ accepted' = accepted
    <3>1. \A d \in Client : client'[d].task = client[d].task
      BY <1>1, <2>1 DEF ClientMoves
    <3>2. \A d \in Client : client'[d].pc = "push" => client'[d].at \in Core
      BY <1>1, <1>3 DEF ClientMoves, ClientPlaces
    <3> QED  BY <1>3, <2>1, <3>1, <3>2 DEF ClientPlaces
  <2>2. CASE client'[c].task \in Task /\ Fresh(client'[c].task) /\ accepted' = accepted
    BY <1>1, <1>3, <2>2 DEF ClientMoves, ClientPlaces, Fresh
  <2>3. CASE /\ client[c].task \in Task /\ client'[c].task = None
             /\ accepted' = accepted \cup {client[c].task}
    BY <1>1, <1>3, <2>0, <2>3 DEF ClientMoves, ClientPlaces
  <2> QED  BY <1>1, <2>1, <2>2, <2>3 DEF ClientMoves
<1>5. History'
  <2>1. accepted \subseteq accepted' /\ accepted' \subseteq Task
    BY <1>1, <1>3 DEF InboxesMove, History
  <2>2. late' \subseteq accepted'
    <3>1. CASE SpawnOnCore(c)
      BY <1>3, <3>1 DEF SpawnOnCore, History
    <3>2. CASE ~SpawnOnCore(c)
      <4>1. late' = late
        BY <3>2, ZenonT(30)
           DEF InCall, Call, SpawnSelect, CompareExchange, SendShutdown, SendPing,
               JoinCore, FreeRuntime, ShutdownLoad, PingAll, DropArc, Join, SpawnLoad,
               SpawnOnLoad, callVars
      <4> QED  BY <1>3, <2>1, <4>1 DEF History
    <3> QED  BY <3>1, <3>2
  <2>3. state' = state \/ state' \in {"ShuttingDown", "Terminated"}
    BY ZenonT(30)
       DEF InCall, Call, SpawnSelect, SpawnOnCore, CompareExchange, SendShutdown, SendPing,
           JoinCore, FreeRuntime, ShutdownLoad, PingAll, DropArc, Join, SpawnLoad, SpawnOnLoad
  <2> QED  BY <1>2, <1>3, <2>1, <2>2, <2>3 DEF History
<1>6. ASSUME accepted \subseteq accepted', 
             \A k \in Core : /\ Neat(inbox'[k], task_queue[k], core[k].cur)
                             /\ Holds(inbox'[k], task_queue[k], core[k].cur) \subseteq Has(k)
      PROVE  CorePlaces' /\ Apart'
  <2>1. \A k \in Core : Has(k)' \subseteq Has(k)
    BY <1>2, <1>6 DEF Has
  <2>2. Apart'
    BY <1>3, <2>1 DEF Apart
  <2>3. \A k \in Core : (Has(k) \subseteq accepted \ finished)'
    BY <1>2, <1>3, <1>6, <2>1 DEF CorePlaces
  <2> QED  BY <1>2, <1>3, <1>6, <2>2, <2>3 DEF CorePlaces
<1>7. \A k \in Core : Neat(inbox[k], task_queue[k], core[k].cur)
  BY <1>3 DEF CorePlaces
<1>8. CASE inbox' = inbox /\ accepted' = accepted
  BY <1>4, <1>5, <1>6, <1>7, <1>8 DEF Placed, Has
<1>9. CASE \E k \in Core, m \in Message :
             /\ m.type # "Task" /\ inbox' = [inbox EXCEPT ![k] = Append(@, m)]
             /\ accepted' = accepted
  <2>1. PICK k \in Core, m \in Message :
             /\ m.type # "Task" /\ inbox' = [inbox EXCEPT ![k] = Append(@, m)]
             /\ accepted' = accepted
    BY <1>9
  <2>2. inbox'[k] = Append(inbox[k], m) /\ \A j \in Core \ {k} : inbox'[j] = inbox[j]
    BY <2>1 DEF InboxTypes
  <2>3. /\ Neat(Append(inbox[k], m), task_queue[k], core[k].cur)
        /\ Holds(Append(inbox[k], m), task_queue[k], core[k].cur) = Has(k)
    BY <1>7, <2>1, NeatOther DEF Has
  <2>4. \A j \in Core : /\ Neat(inbox'[j], task_queue[j], core[j].cur)
                        /\ Holds(inbox'[j], task_queue[j], core[j].cur) \subseteq Has(j)
    BY <1>7, <2>2, <2>3 DEF Has
  <2> QED  BY <1>4, <1>5, <1>6, <2>1, <2>4 DEF Placed
<1>10. CASE /\ inbox' = [k \in Core |-> IF Ended(k) THEN <<>> ELSE inbox[k]]
            /\ accepted' = accepted
  <2>1. \A j \in Core : inbox'[j] = <<>> \/ inbox'[j] = inbox[j]
    BY <1>10
  <2>2. \A j \in Core : /\ Neat(<<>>, task_queue[j], core[j].cur)
                        /\ Holds(<<>>, task_queue[j], core[j].cur) \subseteq Has(j)
    BY <1>7, NeatEnd DEF Has
  <2>3. \A j \in Core : /\ Neat(inbox'[j], task_queue[j], core[j].cur)
                        /\ Holds(inbox'[j], task_queue[j], core[j].cur) \subseteq Has(j)
    BY <1>7, <2>1, <2>2 DEF Has
  <2> QED  BY <1>4, <1>5, <1>6, <1>10, <2>3 DEF Placed
<1>11. CASE /\ client[c].at \in Core /\ client[c].task \in Task
            /\ inbox' = [inbox EXCEPT ![client[c].at] = Append(@, TaskMsg(client[c].task))]
            /\ accepted' = accepted \cup {client[c].task}
  <2>0. PICK k \in Core, t \in Task : k = client[c].at /\ t = client[c].task
    BY <1>11
  <2>1. /\ inbox'[k] = Append(inbox[k], TaskMsg(t)) /\ \A j \in Core \ {k} : inbox'[j] = inbox[j]
    BY <1>11, <2>0 DEF InboxTypes
  <2>2. t \notin accepted /\ t \in Task /\ k \in Core /\ accepted' = accepted \cup {t}
    BY <1>3, <1>11, <2>0 DEF ClientPlaces
  <2>3. \A j \in Core : Has(j) \subseteq accepted \ finished /\ t \notin Has(j)
    BY <1>3, <2>2 DEF CorePlaces
  <2>4. /\ Neat(Append(inbox[k], TaskMsg(t)), task_queue[k], core[k].cur)
        /\ Holds(Append(inbox[k], TaskMsg(t)), task_queue[k], core[k].cur) = Has(k) \cup {t}
    BY <1>7, <2>2, <2>3, NeatPush DEF Has
  <2>5. Has(k)' = Has(k) \cup {t} /\ \A j \in Core \ {k} : Has(j)' = Has(j)
    BY <1>2, <2>1, <2>4 DEF Has
  <2>6. t \notin finished
    BY <1>3, <2>2 DEF History
  <2>7. Apart'
    BY <1>3, <2>2, <2>3, <2>5 DEF Apart
  <2>8. \A j \in Core : (Has(j) \subseteq accepted \ finished)'
    BY <1>2, <2>2, <2>3, <2>5, <2>6
  <2>9. \A j \in Core : Neat(inbox'[j], task_queue[j], core[j].cur)
    BY <1>7, <2>1, <2>4
  <2>10. CorePlaces'
    BY <1>2, <1>3, <2>8, <2>9 DEF CorePlaces
  <2> QED  BY <1>4, <1>5, <2>7, <2>10 DEF Placed
<1> QED  BY <1>1, <1>8, <1>9, <1>10, <1>11 DEF InboxesMove

\* Nothing has been spawned in a runtime that is being built.
LEMMA InitPlaced == Init => Placed
<1> SUFFICES ASSUME Init PROVE Placed
  OBVIOUS
<1>1. \A k \in Core : /\ inbox[k] = <<>> /\ task_queue[k] = <<>> /\ core[k].cur = None
                      /\ core[k].pc = "none" /\ core[k].count = 0
  BY DEF Init
<1>2. Neat(<<>>, <<>>, None) /\ Holds(<<>>, <<>>, None) = {}
  <2>1. None \notin Task /\ None \in MaybeTask
    BY MultiCoreAssumption DEF MaybeTask
  <2>2. <<>> \in Seq(Message) /\ <<>> \in Seq(Task) /\ DOMAIN <<>> = {}
    OBVIOUS
  <2>3. Neat(<<>>, <<>>, None)
    BY <2>1, <2>2, NoTasks DEF Neat
  <2>4. Holds(<<>>, <<>>, None) = {}
    BY <2>1, NoTasks DEF Holds
  <2> QED  BY <2>3, <2>4
<1>3. \A k \in Core : Has(k) = {}
  BY <1>1, <1>2 DEF Has
<1>4. CorePlaces
  <2> SUFFICES ASSUME NEW k \in Core
               PROVE  /\ Neat(inbox[k], task_queue[k], core[k].cur)
                      /\ Has(k) \subseteq accepted \ finished
                      /\ core[k].cur = None <=> core[k].pc # "poll"
                      /\ core[k].count = Len(task_queue[k])
                                           + (IF core[k].cur = None THEN 0 ELSE 1)
    BY DEF CorePlaces
  <2>1. Neat(inbox[k], task_queue[k], core[k].cur) /\ Has(k) \subseteq accepted \ finished
    <3>1. inbox[k] = <<>> /\ task_queue[k] = <<>> /\ core[k].cur = None
      BY <1>1
    <3>2. Neat(inbox[k], task_queue[k], core[k].cur)
      BY <1>2, <3>1, Zenon
    <3> QED  BY <1>3, <3>2
  <2>2. core[k].cur = None <=> core[k].pc # "poll"
    BY <1>1
  <2>3. core[k].count = Len(task_queue[k]) + (IF core[k].cur = None THEN 0 ELSE 1)
    <3>1. Len(task_queue[k]) = 0
      BY <1>1
    <3>2. (IF core[k].cur = None THEN 0 ELSE 1) = 0 /\ core[k].count = 0
      BY <1>1
    <3> QED  BY <3>1, <3>2
  <2> QED  BY <2>1, <2>2, <2>3
<1>5. Apart
  BY <1>3 DEF Apart
<1>6. ClientPlaces
  BY DEF Init, ClientPlaces
<1>7. History
  BY MultiCoreAssumption DEF Init, History
<1> QED  BY <1>4, <1>5, <1>6, <1>7 DEF Placed

\* Every task is in one place, at most: an inbox, a run queue or a poll, of one
\* core.  A task inside a spawn is in none of them, and one that finished is
\* nowhere.
THEOREM MultiCorePlaced == Spec => []Placed
<1>1. ASSUME Safe, Placed, [Next]_vars
      PROVE  Placed'
  <2>0. ClientTypes /\ CoreTypes /\ InboxTypes
    BY <1>1 DEF Safe
  <2>1. ASSUME NEW k \in Core, NewCore(k) \/ CoreStep(k)
        PROVE  Placed'
    BY <1>1, <2>0, <2>1, CorePlaced
  <2>2. ASSUME NEW c \in Client, InCall(c) \/ Call(c)
        PROVE  Placed'
    BY <1>1, <2>0, <2>2, ClientPlaced
  <2>3. CASE NewReturns \/ UNCHANGED vars
    <3>1. UNCHANGED <<client, inbox, core, task_queue, finished, polls, accepted, late>>
      BY <2>3 DEF NewReturns, vars, coreVars, callVars
    <3>2. state' = state \/ state' \in {"Running", "failed"}
      BY <2>3 DEF NewReturns, vars
    <3>3. CorePlaces' /\ Apart' /\ ClientPlaces'
      BY <1>1, <3>1 DEF Placed, CorePlaces, Apart, ClientPlaces, Has
    <3>4. History'
      BY <1>1, <3>1, <3>2 DEF Placed, History
    <3> QED  BY <3>3, <3>4 DEF Placed
  <2> QED  BY <1>1, <2>1, <2>2, <2>3 DEF Next
<1> QED  BY <1>1, InitPlaced, MultiCoreSafe, PTL DEF Spec

-----------------------------------------------------------------------------
(* The runtime implements TaskLifecycle.                                   *)

\* The tasks some core has, and the phase of a task: A are the accepted tasks, F
\* the finished ones and L those that some core has.
Alive == {t \in Task : \E k \in Core : t \in Has(k)}
Stage(t, A, F, L) ==
    IF t \in F THEN "finished" ELSE IF t \notin A THEN "fresh"
    ELSE IF t \in L THEN "live" ELSE "dropped"
Polling == [k \in Core |-> core[k].cur]

\* The refinement mapping, in these terms.
LEMMA PhaseIs == Phase = [t \in Task |-> Stage(t, accepted, finished, Alive)]
<1>1. ASSUME NEW t \in Task
      PROVE  t \in Inboxed \cup Queued \cup {core[k].cur : k \in Core} <=> t \in Alive
  <2>1. t \in Inboxed <=> \E k \in Core : t \in InTasks(inbox[k])
    BY DEF Inboxed, InTasks, Range
  <2>2. t \in Queued <=> \E k \in Core : t \in QTasks(task_queue[k])
    BY DEF Queued, QTasks, Range
  <2> QED  BY <2>1, <2>2 DEF Alive, Has, Holds
<1> QED  BY <1>1 DEF Phase, Stage

\* A step of the life of a task, as this runtime sees it.
LifeStep == [Life!Next]_(Life!vars)

\* No task changes its phase.
LEMMA LifeSame ==
    ASSUME Phase' = Phase, Polling' = Polling
    PROVE  LifeStep
BY DEF LifeStep, Life!vars, Polling

\* A core that polls a task has it, and no other core has.
LEMMA PolledBy ==
    ASSUME Placed
    PROVE  /\ Alive \subseteq accepted \ finished
           /\ \A k \in Core : core[k].cur \in Task => core[k].cur \in Has(k)
           /\ \A t \in Task, j, k \in Core : t \in Has(j) /\ t \in Has(k) => j = k
           /\ None \notin Task
<1>1. CorePlaces /\ Apart
  BY DEF Placed
<1>2. Alive \subseteq accepted \ finished
  BY <1>1 DEF CorePlaces, Alive
<1>3. \A k \in Core : core[k].cur \in Task => core[k].cur \in Has(k)
  BY DEF Has, Holds
<1>4. \A t \in Task, j, k \in Core : t \in Has(j) /\ t \in Has(k) => j = k
  BY <1>1 DEF Apart
<1> QED  BY <1>2, <1>3, <1>4, MultiCoreAssumption

\* Some tasks are dropped, of which only the one core w polls is inside a poll.
LEMMA LifeDiscard ==
    ASSUME Placed, NEW w \in Core, NEW S, S = Alive \ Alive', Alive' \subseteq Alive,
           accepted' = accepted, finished' = finished,
           \A t \in S, j \in Core : core[j].cur = t => j = w,
           Polling' = [Polling EXCEPT ![w] = IF @ \in S THEN None ELSE @],
           Phase' = [t \in Task |-> Stage(t, accepted', finished', Alive')]
    PROVE  LifeStep
<1>1. Alive \subseteq accepted \ finished /\ Alive \subseteq Task
  BY PolledBy DEF Alive
<1>2. CASE S = {}
  <2>1. Alive' = Alive
    BY <1>2
  <2>2. Polling' = Polling
    BY <1>2 DEF Polling
  <2> QED  BY <2>1, <2>2, PhaseIs, LifeSame
<1>3. CASE S # {}
  <2>1. S \in SUBSET Task /\ S \subseteq Life!Live
    BY <1>1, PhaseIs DEF Life!Live, Stage
  <2>2. S \cap Life!Polled \subseteq {Polling[w]}
    BY DEF Life!Polled, Polling
  <2>3. Phase' = [t \in Task |-> IF t \in S THEN "dropped" ELSE Phase[t]]
    BY <1>1, PhaseIs DEF Stage
  <2>4. Life!Discard(w, S)
    BY <1>3, <2>1, <2>2, <2>3 DEF Life!Discard, Polling
  <2> QED  BY <2>1, <2>4 DEF Life!Next, LifeStep
<1> QED  BY <1>2, <1>3

\* A step of a core.
LEMMA CoreRefines ==
    ASSUME CoreTypes, InboxTypes, Placed, NEW k \in Core, NewCore(k) \/ CoreStep(k),
           Phase' = [t \in Task |-> Stage(t, accepted', finished', Alive')]
    PROVE  LifeStep
<1>1. CoreMoves(k) /\ accepted' = accepted
  <2>1. accepted' = accepted
    BY DEF CoreStep, NewCore, While, Receive, EndMessages, Pop, PollReady, PollPending,
           PollPanic, EndTasks, callVars
  <2> QED  BY <2>1, Moves
<1>2. \A j \in Core \ {k} : Has(j)' = Has(j) /\ core'[j].cur = core[j].cur
  BY <1>1 DEF CoreMoves, Has
<1>3. /\ Alive \subseteq accepted \ finished
      /\ \A j \in Core : core[j].cur \in Task => core[j].cur \in Has(j)
      /\ \A t \in Task, i, j \in Core : t \in Has(i) /\ t \in Has(j) => i = j
      /\ None \notin Task
  BY PolledBy
<1>4. Polling' = [Polling EXCEPT ![k] = core'[k].cur]
  BY <1>2 DEF Polling
<1>5. ASSUME Has(k)' = Has(k)
      PROVE  Alive' = Alive
  BY <1>2, <1>5 DEF Alive
<1>6. CASE Stays(k)
  <2>1. Alive' = Alive /\ finished' = finished /\ core'[k].cur = core[k].cur
    BY <1>5, <1>6 DEF Stays
  <2>2. Polling' = Polling
    BY <1>4, <2>1 DEF Polling
  <2> QED  BY <1>1, <2>1, <2>2, PhaseIs, LifeSame
<1>7. CASE Begins(k)
  <2>1. PICK t \in Task : core'[k].cur = t
    BY <1>7 DEF Begins
  <2>2. Alive' = Alive /\ finished' = finished /\ core[k].cur = None /\ t \in Has(k)
    BY <1>5, <1>7, <2>1 DEF Begins
  <2>3. Phase' = Phase
    BY <1>1, <2>2, PhaseIs
  <2>4. t \in Life!Live
    BY <1>3, <2>2, PhaseIs DEF Life!Live, Stage, Alive
  <2>5. t \notin Life!Polled
    BY <1>3, <2>2 DEF Life!Polled
  <2>6. Life!BeginPoll(k, t)
    BY <1>4, <2>1, <2>2, <2>3, <2>4, <2>5 DEF Life!BeginPoll, Polling
  <2> QED  BY <2>6 DEF Life!Next, LifeStep
<1>8. CASE Pauses(k)
  <2>1. Alive' = Alive /\ finished' = finished /\ core[k].cur \in Task /\ core'[k].cur = None
    BY <1>5, <1>8 DEF Pauses
  <2>2. Phase' = Phase
    BY <1>1, <2>1, PhaseIs
  <2>3. Life!Suspend(k)
    BY <1>3, <1>4, <2>1, <2>2 DEF Life!Suspend, Polling
  <2> QED  BY <2>3 DEF Life!Next, LifeStep
<1>9. CASE Finishes(k)
  <2>1. PICK t \in Task : core[k].cur = t
    BY <1>9 DEF Finishes
  <2>2. /\ Has(k)' = Has(k) \ {t} /\ t \in Has(k) /\ core'[k].cur = None
        /\ finished' = finished \cup {t}
    BY <1>9, <2>1 DEF Finishes
  <2>3. Alive' = Alive \ {t}
    BY <1>2, <1>3, <2>2 DEF Alive
  <2>4. t \in accepted \ finished
    BY <1>3, <2>2 DEF Alive
  <2>5. Phase' = [Phase EXCEPT ![t] = "finished"]
    BY <1>1, <2>2, <2>3, <2>4, PhaseIs DEF Stage
  <2>6. Life!Finish(k)
    BY <1>3, <1>4, <2>1, <2>2, <2>5 DEF Life!Finish, Polling
  <2> QED  BY <2>6 DEF Life!Next, LifeStep
<1>10. CASE LetsGo(k)
  <2>1. /\ Has(k)' \subseteq Has(k) /\ core[k].cur \notin Has(k)'
        /\ core'[k].cur = None /\ finished' = finished
    BY <1>10 DEF LetsGo
  <2> DEFINE S == Alive \ Alive'
  <2>2. S = {t \in Task : t \in Has(k) /\ t \notin Has(k)'} /\ Alive' \subseteq Alive
    BY <1>2, <1>3, <2>1 DEF Alive
  <2>3. \A t \in S, j \in Core : core[j].cur = t => j = k
    BY <1>3, <2>2
  <2>4. core[k].cur \in S \/ core[k].cur = None
    <3>1. core[k].cur \in Task \/ core[k].cur = None
      BY DEF CoreTypes, CoreState, MaybeTask
    <3> QED  BY <1>3, <2>1, <2>2, <3>1
  <2>5. Polling' = [Polling EXCEPT ![k] = IF @ \in S THEN None ELSE @]
    BY <1>4, <2>1, <2>4 DEF Polling
  <2> HIDE DEF S
  <2> QED  BY <1>1, <2>1, <2>2, <2>3, <2>5, LifeDiscard DEF S
<1> QED  BY <1>1, <1>6, <1>7, <1>8, <1>9, <1>10 DEF CoreMoves

\* A step of a client.
LEMMA ClientRefines ==
    ASSUME ClientTypes, InboxTypes, Placed, NEW c \in Client, InCall(c) \/ Call(c),
           Phase' = [t \in Task |-> Stage(t, accepted', finished', Alive')]
    PROVE  LifeStep
<1>1. InboxesMove(c)
  BY InboxesMoved
<1>2. UNCHANGED <<core, task_queue, finished>>
  BY ZenonT(30)
     DEF InCall, Call, SpawnSelect, SpawnOnCore, CompareExchange, SendShutdown, SendPing,
         JoinCore, FreeRuntime, ShutdownLoad, PingAll, DropArc, Join, SpawnLoad, SpawnOnLoad,
         coreVars
<1>3. Polling' = Polling
  BY <1>2 DEF Polling
<1>4. \A k \in Core : Neat(inbox[k], task_queue[k], core[k].cur)
  BY DEF Placed, CorePlaces
<1>5. CASE inbox' = inbox /\ accepted' = accepted
  <2>1. Alive' = Alive
    BY <1>2, <1>5 DEF Alive, Has
  <2> QED  BY <1>2, <1>3, <1>5, <2>1, PhaseIs, LifeSame
<1>6. CASE \E k \in Core, m \in Message :
             /\ m.type # "Task" /\ inbox' = [inbox EXCEPT ![k] = Append(@, m)]
             /\ accepted' = accepted
  <2>1. PICK k \in Core, m \in Message :
             /\ m.type # "Task" /\ inbox' = [inbox EXCEPT ![k] = Append(@, m)]
             /\ accepted' = accepted
    BY <1>6
  <2>2. inbox'[k] = Append(inbox[k], m) /\ \A j \in Core \ {k} : inbox'[j] = inbox[j]
    BY <2>1 DEF InboxTypes
  <2>3. Holds(Append(inbox[k], m), task_queue[k], core[k].cur) = Has(k)
    BY <1>4, <2>1, NeatOther DEF Has
  <2>4. \A j \in Core : Has(j)' = Has(j)
    BY <1>2, <2>2, <2>3 DEF Has
  <2>5. Alive' = Alive
    BY <2>4 DEF Alive
  <2> QED  BY <1>2, <1>3, <2>1, <2>5, PhaseIs, LifeSame
<1>7. CASE /\ inbox' = [k \in Core |-> IF Ended(k) THEN <<>> ELSE inbox[k]]
           /\ accepted' = accepted
  <2>1. \A j \in Core : inbox'[j] = <<>> \/ inbox'[j] = inbox[j]
    BY <1>7
  <2>2. \A j \in Core : Holds(<<>>, task_queue[j], core[j].cur) \subseteq Has(j)
    BY <1>4, NeatEnd DEF Has
  <2>3. \A j \in Core : Has(j)' \subseteq Has(j)
    BY <1>2, <2>1, <2>2 DEF Has
  <2>4. \A j \in Core : core[j].cur \in Task => core[j].cur \in Has(j)'
    BY <1>2 DEF Has, Holds
  <2> DEFINE S == Alive \ Alive'
  <2>5. Alive' \subseteq Alive /\ S \subseteq Task
    BY <2>3 DEF Alive
  <2>6. \A t \in S, j \in Core : core[j].cur # t
    BY <2>4 DEF Alive
  <2>7. 0 \in Core
    BY MultiCoreAssumption DEF Core
  <2>8. Polling' = [Polling EXCEPT ![0] = IF @ \in S THEN None ELSE @]
    <3>1. Polling[0] \notin S
      BY <2>6, <2>7 DEF Polling
    <3> HIDE DEF S
    <3> QED  BY <1>3, <3>1 DEF Polling
  <2> HIDE DEF S
  <2> QED  BY <1>2, <1>7, <2>5, <2>6, <2>7, <2>8, LifeDiscard DEF S
<1>8. CASE /\ client[c].at \in Core /\ client[c].task \in Task
           /\ inbox' = [inbox EXCEPT ![client[c].at] = Append(@, TaskMsg(client[c].task))]
           /\ accepted' = accepted \cup {client[c].task}
  <2>1. PICK k \in Core, t \in Task : k = client[c].at /\ t = client[c].task
    BY <1>8
  <2>2. /\ inbox'[k] = Append(inbox[k], TaskMsg(t)) /\ \A j \in Core \ {k} : inbox'[j] = inbox[j]
    BY <1>8, <2>1 DEF InboxTypes
  <2>3. /\ t \notin accepted /\ t \notin finished /\ accepted' = accepted \cup {t}
    BY <1>8, <2>1 DEF Placed, ClientPlaces, History
  <2>4. t \notin Has(k)
    BY <2>3 DEF Placed, CorePlaces
  <2>5. Holds(Append(inbox[k], TaskMsg(t)), task_queue[k], core[k].cur) = Has(k) \cup {t}
    BY <1>4, <2>4, NeatPush DEF Has
  <2>6. Has(k)' = Has(k) \cup {t} /\ \A j \in Core \ {k} : Has(j)' = Has(j)
    BY <1>2, <2>2, <2>5 DEF Has
  <2>7. Alive' = Alive \cup {t}
    BY <2>6 DEF Alive
  <2>8. Phase[t] = "fresh" /\ Phase' = [Phase EXCEPT ![t] = "live"]
    BY <1>2, <2>3, <2>7, PhaseIs DEF Stage
  <2>9. Life!Accept(t)
    BY <1>3, <2>8 DEF Life!Accept, Polling
  <2> QED  BY <2>9 DEF Life!Next, LifeStep
<1> QED  BY <1>1, <1>5, <1>6, <1>7, <1>8 DEF InboxesMove

\* The multi-core runtime implements TaskLifecycle: with any number of cores,
\* clients and tasks, a task is accepted once, polled by one core at a time, and
\* never again after it finished or was dropped, by a panic, by a core that exits
\* or with the inbox of a core that is gone.
THEOREM MultiCoreLifecycle == Spec => Lifecycle
<1>1. Init => Life!Init
  <2> SUFFICES ASSUME Init PROVE Life!Init
    OBVIOUS
  <2>1. Phase = [t \in Task |-> "fresh"]
    BY PhaseIs DEF Init, Stage
  <2>2. Polling = [k \in Core |-> None]
    BY DEF Init, Polling
  <2> QED  BY <2>1, <2>2 DEF Life!Init, Polling
<1>2. ASSUME Safe, Placed, [Next]_vars,
             Phase' = [t \in Task |-> Stage(t, accepted', finished', Alive')]
      PROVE  LifeStep
  <2>0. ClientTypes /\ CoreTypes /\ InboxTypes
    BY <1>2 DEF Safe
  <2>1. ASSUME NEW k \in Core, NewCore(k) \/ CoreStep(k)
        PROVE  LifeStep
    BY <1>2, <2>0, <2>1, CoreRefines
  <2>2. ASSUME NEW c \in Client, InCall(c) \/ Call(c)
        PROVE  LifeStep
    BY <1>2, <2>0, <2>2, ClientRefines
  <2>3. CASE NewReturns \/ UNCHANGED vars
    <3>1. UNCHANGED <<inbox, core, task_queue, finished, accepted>>
      BY <2>3 DEF NewReturns, vars, coreVars, callVars
    <3>2. Polling' = Polling /\ Alive' = Alive
      BY <3>1 DEF Polling, Alive, Has
    <3> QED  BY <1>2, <3>1, <3>2, PhaseIs, LifeSame
  <2> QED  BY <1>2, <2>1, <2>2, <2>3 DEF Next
<1>3. (Phase = [t \in Task |-> Stage(t, accepted, finished, Alive)])'
  BY PhaseIs, PTL
<1>4. Safe /\ Placed /\ [Next]_vars => [Life!Next]_(Life!vars)
  BY <1>2, <1>3 DEF LifeStep
<1> QED  BY <1>1, <1>4, MultiCoreSafe, MultiCorePlaced, PTL DEF Spec, Lifecycle, Life!Spec

-----------------------------------------------------------------------------
(* The round-robin counter counts tasks.                                   *)
INSTANCE FiniteSetTheorems

\* The tasks that have been given a core.
Pushing == {t \in Task : \E c \in Client : client[c].pc = "push" /\ client[c].task = t}
Routed == accepted \cup Pushing

\* No step of a client but the fetch_add moves the counter; that one gives a core
\* to a task that had none.
LEMMA RoutedGrows ==
    ASSUME ClientTypes, Placed, NEW c \in Client, InCall(c) \/ Call(c)
    PROVE  /\ Routed \subseteq Routed'
           /\ \/ next_core' = next_core
              \/ /\ next_core' = next_core + 1
                 /\ \E t \in Task : t \notin Routed /\ t \in Routed'
<1>0. client \in [Client -> ClientState] /\ ClientMoves(c)
  BY ClientMove DEF ClientTypes
<1>1. accepted \subseteq accepted'
  BY <1>0 DEF ClientMoves
<1>2. CASE client[c].pc = "push"
  <2>1. SpawnOnCore(c)
    BY <1>2 DEF InCall, Call, SpawnSelect, CompareExchange, SendShutdown, SendPing, JoinCore,
                FreeRuntime, ShutdownLoad, PingAll, DropArc, Join, SpawnLoad, SpawnOnLoad
  <2>2. accepted' = accepted \cup {client[c].task} /\ next_core' = next_core
    BY <2>1 DEF SpawnOnCore
  <2>3. \A d \in Client \ {c} : client'[d] = client[d]
    BY <1>0 DEF ClientMoves
  <2>4. Routed \subseteq Routed'
    BY <2>2, <2>3 DEF Routed, Pushing
  <2> QED  BY <2>2, <2>4
<1>3. CASE client[c].pc # "push"
  <2>1. \A d \in Client \ {c} : client'[d] = client[d]
    BY <1>0 DEF ClientMoves
  <2>2. Routed \subseteq Routed'
    BY <1>1, <1>3, <2>1 DEF Routed, Pushing
  <2>3. CASE SpawnSelect(c)
    <3>1. /\ client[c].pc = "select" /\ client'[c].pc = "push"
          /\ client'[c].task = client[c].task /\ next_core' = next_core + 1
      BY <1>0, <2>3 DEF SpawnSelect, ClientState
    <3>2. client[c].task \in Task /\ client[c].task # None
      BY <3>1, MultiCoreAssumption DEF ClientTypes
    <3>3. client[c].task \in Routed'
      BY <3>1, <3>2 DEF Routed, Pushing
    <3>4. client[c].task \notin Routed
      BY <1>3, <3>2 DEF Routed, Pushing, Placed, ClientPlaces
    <3> QED  BY <2>2, <3>1, <3>2, <3>3, <3>4
  <2>4. CASE ~SpawnSelect(c)
    <3>1. next_core' = next_core
      BY <2>4, ZenonT(30)
         DEF InCall, Call, SpawnOnCore, CompareExchange, SendShutdown, SendPing, JoinCore,
             FreeRuntime, ShutdownLoad, PingAll, DropArc, Join, SpawnLoad, SpawnOnLoad
    <3> QED  BY <2>2, <3>1
  <2> QED  BY <2>3, <2>4
<1> QED  BY <1>2, <1>3

\* The counter is at most the number of tasks that have been given a core.
Counted == next_core <= Cardinality(Routed)

\* Every step keeps it so.
LEMMA CountedStep ==
    ASSUME IsFiniteSet(Task), Safe, Placed, Counted, [Next]_vars, Placed'
    PROVE  Counted'
<1>0. ClientTypes /\ next_core \in Nat
  BY DEF Safe, ClientTypes
<1>1. /\ Routed \subseteq Task /\ Routed' \subseteq Task
      /\ IsFiniteSet(Routed) /\ IsFiniteSet(Routed')
  <2>1. Routed \subseteq Task /\ Routed' \subseteq Task
    BY DEF Routed, Pushing, Placed, History
  <2> QED  BY <2>1, FS_Subset
<1>2. Cardinality(Routed) \in Nat /\ Cardinality(Routed') \in Nat
  BY <1>1, FS_CardinalityType
<1>3. ASSUME Routed \subseteq Routed', next_core' = next_core
      PROVE  Counted'
  <2>1. Cardinality(Routed) <= Cardinality(Routed')
    BY <1>1, <1>3, FS_Subset
  <2> QED  BY <1>0, <1>2, <1>3, <2>1 DEF Counted
<1>4. ASSUME NEW c \in Client, InCall(c) \/ Call(c)
      PROVE  Counted'
  <2>1. /\ Routed \subseteq Routed'
        /\ \/ next_core' = next_core
           \/ /\ next_core' = next_core + 1
              /\ \E t \in Task : t \notin Routed /\ t \in Routed'
    BY <1>0, <1>4, RoutedGrows
  <2>2. CASE next_core' = next_core
    BY <1>3, <2>1, <2>2
  <2>3. CASE /\ next_core' = next_core + 1
             /\ \E t \in Task : t \notin Routed /\ t \in Routed'
    <3>1. PICK t \in Task : t \notin Routed /\ t \in Routed'
      BY <2>3
    <3>2. /\ IsFiniteSet(Routed \cup {t})
          /\ Cardinality(Routed \cup {t}) = Cardinality(Routed) + 1
      BY <1>1, <3>1, FS_AddElement
    <3>3. Cardinality(Routed \cup {t}) <= Cardinality(Routed')
      <4>1. Routed \cup {t} \subseteq Routed'
        BY <2>1, <3>1
      <4> QED  BY <1>1, <4>1, FS_Subset
    <3> QED  BY <1>0, <1>2, <2>3, <3>2, <3>3 DEF Counted
  <2> QED  BY <2>1, <2>2, <2>3
<1>5. ASSUME UNCHANGED <<next_core, client, accepted>>
      PROVE  Counted'
  <2>1. Routed' = Routed
    BY <1>5 DEF Routed, Pushing
  <2> QED  BY <1>3, <1>5, <2>1
<1>6. ASSUME NEW k \in Core, NewCore(k) \/ CoreStep(k)
      PROVE  UNCHANGED <<next_core, client, accepted>>
  BY <1>6 DEF CoreStep, NewCore, While, Receive, EndMessages, Pop, PollReady, PollPending,
              PollPanic, EndTasks, callVars
<1>7. NewReturns \/ UNCHANGED vars => UNCHANGED <<next_core, client, accepted>>
  BY DEF NewReturns, vars, callVars
<1> QED  BY <1>4, <1>5, <1>6, <1>7 DEF Next

\* The state keeps its types, local_task_count is the number of tasks the core has
\* (so the decrement never wraps), and the round-robin counter does not run ahead
\* of the tasks, for any number of cores and clients and finitely many tasks.
THEOREM MultiCoreTypeOK ==
    ASSUME IsFiniteSet(Task)
    PROVE  Spec => []TypeOK
<1>1. Init => Counted
  <2> SUFFICES ASSUME Init PROVE Counted
    OBVIOUS
  <2>1. Routed \subseteq Task
    BY DEF Init, Routed, Pushing
  <2>2. next_core = 0 /\ Cardinality(Routed) \in Nat
    BY <2>1, FS_Subset, FS_CardinalityType DEF Init
  <2> QED  BY <2>2 DEF Counted
<1>2. ASSUME Safe, Placed, Counted
      PROVE  TypeOK
  <2>1. client \in [Client -> ClientState] /\ next_core \in Nat
    BY <1>2 DEF Safe, ClientTypes
  <2>2. core \in [Core -> CoreState]
    BY <1>2 DEF Safe, CoreTypes
  <2>3. \A k \in Core :
          /\ inbox[k] \in Seq(Message) /\ task_queue[k] \in Seq(Task)
          /\ core[k].count = Len(task_queue[k]) + (IF core[k].cur = None THEN 0 ELSE 1)
    BY <1>2 DEF Placed, CorePlaces, Neat
  <2>4. \A k \in Core : core[k].count \in Nat
    <3> SUFFICES ASSUME NEW k \in Core PROVE core[k].count \in Nat
      OBVIOUS
    <3>1. Len(task_queue[k]) \in Nat
      BY <2>3
    <3>2. core[k].count = Len(task_queue[k]) + 0 \/ core[k].count = Len(task_queue[k]) + 1
      BY <2>3, Zenon
    <3> QED  BY <3>1, <3>2
  <2>5. core \in [Core -> [pc : CorePc, n : Nat, cur : MaybeTask, shutdown : BOOLEAN,
                           count : Nat]]
    <3> DEFINE R == [pc : CorePc, n : Nat, cur : MaybeTask, shutdown : BOOLEAN, count : Nat]
    <3>1. \A r \in CoreState : r.count \in Nat => r \in R
      BY DEF CoreState
    <3>2. \A k \in Core : core[k] \in R
      BY <2>2, <2>4, <3>1
    <3> HIDE DEF R
    <3>3. core \in [Core -> R]
      BY <2>2, <3>2
    <3> QED  BY <3>3 DEF R
  <2>6. next_core \in 0 .. Cardinality(Task)
    <3>1. Routed \subseteq Task
      BY <1>2 DEF Routed, Pushing, Placed, History
    <3>2. /\ Cardinality(Routed) \in Nat /\ Cardinality(Task) \in Nat
          /\ Cardinality(Routed) <= Cardinality(Task)
      BY <3>1, FS_Subset, FS_CardinalityType
    <3> QED  BY <1>2, <2>1, <3>2 DEF Counted
  <2>7. History
    BY <1>2 DEF Placed
  <2> QED  BY <2>1, <2>3, <2>5, <2>6, <2>7, ZenonT(30)
           DEF TypeOK, History, ClientState, ClientPc, CorePc, MaybeTask
<1> QED  BY <1>1, <1>2, CountedStep, MultiCoreSafe, MultiCorePlaced, PTL DEF Spec
================================================================================
