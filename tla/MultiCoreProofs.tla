---------------------------- MODULE MultiCoreProofs ----------------------------
(***************************************************************************)
(* Theorems about MultiCore, for any number of cores, clients and tasks:   *)
(* Safe is inductive and gives OneShutdown and NotStranded.  The last      *)
(* lemmas, on where tasks are, are for MultiCoreTaskProofs.                *)
(***************************************************************************)
EXTENDS MultiCore, TLAPS

\* A core nobody has told to shut down: q is its inbox, sd its shutdown flag.
Untold(q, sd) == ~sd /\ \A i \in DOMAIN q : q[i] # ShutdownMsg

\* What holds of a core at any time: it is told once, and the tasks behind the
\* Shutdown, in the inbox or after it was read, are late ones (in L).
Told(q, sd, pc, L) ==
    /\ \A i \in DOMAIN q : q[i] = ShutdownMsg =>
          /\ ~sd
          /\ \A j \in DOMAIN q : q[j] = ShutdownMsg => i = j
          /\ \A j \in DOMAIN q : i < j /\ q[j].type = "Task" => q[j].task \in L
    /\ sd => \A i \in DOMAIN q : q[i].type = "Task" => q[i].task \in L
    /\ pc = "exited" => sd

MaybeTask == Task \cup {None}
Counter == Int
ClientPc == {"idle", "select", "push", "cas", "send", "ping", "join", "free", "gone"}
CorePc == {"none", "while", "messages", "tasks", "poll", "exited", "panicked"}
ClientState == [pc : ClientPc, task : MaybeTask, at : Nat, leaving : BOOLEAN]
CoreState ==
    [pc : CorePc, n : Nat, cur : MaybeTask, shutdown : BOOLEAN, count : Counter]

\* The types the argument needs, of the clients, the cores and the inboxes.
ClientTypes ==
    /\ client \in [Client -> ClientState] /\ next_core \in Nat
    /\ \A c \in Client : client[c].pc \in {"select", "push"} => client[c].task \in Task
CoreTypes ==
    core \in [Core -> CoreState] /\ task_queue \in [Core -> Seq(MaybeTask)]
InboxTypes == inbox \in [Core -> Seq(Message)]

\* Nobody is told anything before the compare_exchange, one client tells the
\* cores, and those it has still to reach know nothing.
Order ==
    /\ state \in {"Initializing", "Running", "failed"} =>
          \A k \in Core : Untold(inbox[k], core[k].shutdown)
    /\ \A c \in Client : client[c].pc = "send" =>
          /\ state \in {"ShuttingDown", "Terminated"}
          /\ \A d \in Client : client[d].pc = "send" => d = c
          /\ \A k \in Core : client[c].at <= k => Untold(inbox[k], core[k].shutdown)

Safe ==
    /\ ClientTypes /\ CoreTypes /\ InboxTypes /\ Order
    /\ \A k \in Core : Told(inbox[k], core[k].shutdown, core[k].pc, late)

-----------------------------------------------------------------------------
(* Messages and inboxes.                                                   *)

\* The three kinds of message a core handles cannot be taken for one another.
LEMMA MessageKinds ==
    /\ \A t \in Task : /\ TaskMsg(t) \in Message /\ TaskMsg(t) # ShutdownMsg
                       /\ TaskMsg(t).type = "Task" /\ TaskMsg(t).task = t
    /\ \A k \in Core : /\ PingMsg(k) \in Message /\ PingMsg(k) # ShutdownMsg
                       /\ PingMsg(k).type = "Ping"
    /\ ShutdownMsg \in Message /\ ShutdownMsg.type = "Shutdown"
    /\ \A m \in Message : /\ m.type = "Shutdown" <=> m = ShutdownMsg
                          /\ m.type = "Task" => m.task \in Task
<1>1. \A t \in Task : /\ TaskMsg(t).type = "Task" /\ TaskMsg(t).task = t
                      /\ TaskMsg(t) \in Message
  BY DEF TaskMsg, Message
<1>2. \A k \in Core : PingMsg(k).type = "Ping" /\ PingMsg(k) \in Message
  BY DEF PingMsg, Message
<1>3. ShutdownMsg.type = "Shutdown" /\ ShutdownMsg \in Message
  BY DEF ShutdownMsg, Message
<1>4. ASSUME NEW m \in Message
      PROVE  \/ \E t \in Task : m = TaskMsg(t)
             \/ \E k \in Core : m = PingMsg(k)
             \/ m = ShutdownMsg
  BY DEF Message
<1> QED  BY <1>1, <1>2, <1>3, <1>4

\* What a push does to an inbox, entry by entry.
LEMMA InboxAppend ==
    ASSUME NEW q \in Seq(Message), NEW m \in Message
    PROVE  /\ Append(q, m) \in Seq(Message)
           /\ DOMAIN q = 1 .. Len(q) /\ Len(q) \in Nat
           /\ DOMAIN Append(q, m) = 1 .. Len(q) + 1
           /\ \A i \in DOMAIN q : Append(q, m)[i] = q[i]
           /\ Append(q, m)[Len(q) + 1] = m
OBVIOUS

\* What process_messages finds when it pops the head of an inbox.
LEMMA InboxTail ==
    ASSUME NEW q \in Seq(Message), q # <<>>
    PROVE  /\ Head(q) \in Message /\ Head(q) = q[1]
           /\ Tail(q) \in Seq(Message)
           /\ Len(q) \in Nat \ {0} /\ DOMAIN q = 1 .. Len(q)
           /\ DOMAIN Tail(q) = 1 .. Len(q) - 1
           /\ \A i \in DOMAIN Tail(q) : Tail(q)[i] = q[i + 1]
<1>1. Len(q) \in Nat \ {0} /\ DOMAIN q = 1 .. Len(q) /\ Head(q) = q[1]
  OBVIOUS
<1>2. Tail(q) \in Seq(Message) /\ Len(Tail(q)) = Len(q) - 1
      /\ \A i \in 1 .. Len(q) - 1 : Tail(q)[i] = q[i + 1]
  OBVIOUS
<1>3. Head(q) \in Message
  BY <1>1
<1>4. DOMAIN Tail(q) = 1 .. Len(Tail(q))
  BY <1>2
<1> QED  BY <1>1, <1>2, <1>3, <1>4

\* More tasks may be late, and a core may move on as long as it does not exit.
LEMMA TellGrow ==
    ASSUME NEW q, NEW sd, NEW pc, NEW L, NEW M, NEW pc2,
           Told(q, sd, pc, L), L \subseteq M, pc2 = "exited" => sd
    PROVE  Told(q, sd, pc2, M)
BY DEF Told

\* A push of spawn_on_core or ping_all: where the core has been told, the task is
\* a late one.
LEMMA TellPush ==
    ASSUME NEW q \in Seq(Message), NEW sd, NEW pc, NEW L, NEW m \in Message,
           m # ShutdownMsg, Told(q, sd, pc, L),
           Untold(q, sd) \/ (m.type = "Task" => m.task \in L)
    PROVE  /\ Told(Append(q, m), sd, pc, L)
           /\ Untold(q, sd) => Untold(Append(q, m), sd)
<1> DEFINE r == Append(q, m)
<1>1. /\ DOMAIN q = 1 .. Len(q) /\ Len(q) \in Nat /\ DOMAIN r = 1 .. Len(q) + 1
      /\ \A i \in DOMAIN q : r[i] = q[i]
      /\ r[Len(q) + 1] = m
  BY InboxAppend
<1> HIDE DEF r
<1>2. \A i \in DOMAIN r : r[i] = ShutdownMsg => i \in DOMAIN q /\ q[i] = ShutdownMsg
  BY <1>1
<1>3. \A i \in DOMAIN r : i \in DOMAIN q \/ i = Len(q) + 1
  BY <1>1
<1>4. Untold(q, sd) => Untold(r, sd)
  BY <1>2 DEF Untold
<1>5. \A i \in DOMAIN r : r[i] = ShutdownMsg => ~sd
  BY <1>2 DEF Told
<1>6. \A i, j \in DOMAIN r : r[i] = ShutdownMsg /\ r[j] = ShutdownMsg => i = j
  BY <1>2 DEF Told
<1>7. ASSUME NEW i \in DOMAIN r, NEW j \in DOMAIN r, r[i] = ShutdownMsg, i < j,
             r[j].type = "Task"
      PROVE  r[j].task \in L
  <2>1. i \in DOMAIN q /\ q[i] = ShutdownMsg
    BY <1>2, <1>7
  <2>2. CASE j \in DOMAIN q
    BY <2>1, <2>2, <1>1, <1>7 DEF Told
  <2>3. CASE j = Len(q) + 1
    BY <2>1, <2>3, <1>1, <1>7 DEF Untold
  <2> QED  BY <2>2, <2>3, <1>3
<1>8. ASSUME sd, NEW i \in DOMAIN r, r[i].type = "Task"
      PROVE  r[i].task \in L
  <2>1. CASE i \in DOMAIN q
    BY <2>1, <1>1, <1>8 DEF Told
  <2>2. CASE i = Len(q) + 1
    BY <2>2, <1>1, <1>8 DEF Untold
  <2> QED  BY <2>1, <2>2, <1>3
<1>9. pc = "exited" => sd
  BY DEF Told
<1>10. Told(r, sd, pc, L)
  BY <1>5, <1>6, <1>7, <1>8, <1>9 DEF Told
<1> QED  BY <1>4, <1>10 DEF r

\* The push of the one Shutdown, to a core that was not told.
LEMMA TellShutdown ==
    ASSUME NEW q \in Seq(Message), NEW sd, NEW pc, NEW L,
           Untold(q, sd), Told(q, sd, pc, L)
    PROVE  Told(Append(q, ShutdownMsg), sd, pc, L)
<1> DEFINE r == Append(q, ShutdownMsg)
<1>1. /\ DOMAIN q = 1 .. Len(q) /\ Len(q) \in Nat /\ DOMAIN r = 1 .. Len(q) + 1
      /\ \A i \in DOMAIN q : r[i] = q[i]
  BY InboxAppend, MessageKinds
<1> HIDE DEF r
<1>2. ~sd /\ (pc = "exited" => sd)
  BY DEF Untold, Told
<1>3. \A i \in DOMAIN r : r[i] = ShutdownMsg => i = Len(q) + 1
  BY <1>1 DEF Untold
<1>4. \A j \in DOMAIN r : ~(Len(q) + 1 < j)
  BY <1>1
<1>5. Told(r, sd, pc, L)
  BY <1>2, <1>3, <1>4 DEF Told
<1> QED  BY <1>5 DEF r

\* process_messages takes the head; what is left was behind it.
LEMMA TellTail ==
    ASSUME NEW q \in Seq(Message), q # <<>>, NEW sd, NEW pc, NEW L,
           Told(q, sd, pc, L)
    PROVE  /\ Told(Tail(q), sd, pc, L)
           /\ Untold(q, sd) => Untold(Tail(q), sd) /\ Head(q) # ShutdownMsg
           /\ Head(q) = ShutdownMsg =>
                 \A p : Told(Tail(q), TRUE, p, L)
<1> DEFINE r == Tail(q)
<1>1. /\ Head(q) = q[1] /\ Len(q) \in Nat \ {0} /\ DOMAIN q = 1 .. Len(q)
      /\ DOMAIN r = 1 .. Len(q) - 1
      /\ \A i \in DOMAIN r : r[i] = q[i + 1]
  BY InboxTail
<1> HIDE DEF r
<1>2. 1 \in DOMAIN q /\ \A i \in DOMAIN r : i + 1 \in DOMAIN q /\ 1 < i + 1 /\ i \in Nat
  BY <1>1
<1>3. Untold(q, sd) => Untold(r, sd) /\ Head(q) # ShutdownMsg
  BY <1>1, <1>2 DEF Untold
<1>4. \A i \in DOMAIN r : r[i] = ShutdownMsg => ~sd
  BY <1>1, <1>2 DEF Told
<1>5. ASSUME NEW i \in DOMAIN r, NEW j \in DOMAIN r, r[i] = ShutdownMsg,
             r[j] = ShutdownMsg
      PROVE  i = j
  <2>1. i + 1 = j + 1
    BY <1>1, <1>2, <1>5 DEF Told
  <2> QED  BY <2>1, <1>2
<1>6. ASSUME NEW i \in DOMAIN r, NEW j \in DOMAIN r, r[i] = ShutdownMsg, i < j,
             r[j].type = "Task"
      PROVE  r[j].task \in L
  <2>1. i + 1 < j + 1
    BY <1>2, <1>6
  <2> QED  BY <2>1, <1>1, <1>2, <1>6 DEF Told
<1>7. sd => \A i \in DOMAIN r : r[i].type = "Task" => r[i].task \in L
  BY <1>1, <1>2 DEF Told
<1>8. Told(r, sd, pc, L)
  BY <1>4, <1>5, <1>6, <1>7 DEF Told
<1>9. ASSUME Head(q) = ShutdownMsg, NEW p
      PROVE  Told(r, TRUE, p, L)
  <2>1. q[1] = ShutdownMsg
    BY <1>1, <1>9
  <2>2. \A i \in DOMAIN r : r[i].type = "Task" => r[i].task \in L
    BY <2>1, <1>1, <1>2 DEF Told
  <2>3. \A i \in DOMAIN r : r[i] # ShutdownMsg
    <3>1. \A i \in DOMAIN r : q[i + 1] = ShutdownMsg => 1 = i + 1
      BY <2>1, <1>2 DEF Told
    <3> QED  BY <3>1, <1>1, <1>2
  <2> QED  BY <2>2, <2>3 DEF Told
<1> QED  BY <1>3, <1>8, <1>9, ZenonT(30) DEF r

-----------------------------------------------------------------------------
(* What a step does to the record of its core or its client.               *)

\* Facts about the sets of the types, which stay folded in the proofs.
LEMMA Parts ==
    /\ None \in MaybeTask /\ Task \subseteq MaybeTask
    /\ 0 \in Counter /\ \A i \in Counter : i + 1 \in Counter /\ i - 1 \in Counter
BY DEF MaybeTask, Counter

\* s is the core r after a step that leaves the shutdown flag alone.
Moved(r, s, pc) == s \in CoreState /\ s.shutdown = r.shutdown /\ s.pc = pc

\* The updates of a core: all but the handling of Shutdown keep the flag.
LEMMA CoreUpdate ==
    ASSUME NEW r \in CoreState, NEW pc \in CorePc, NEW t \in MaybeTask
    PROVE  /\ Moved(r, [r EXCEPT !.pc = pc, !.n = 0, !.cur = None, !.count = 0], pc)
           /\ Moved(r, [r EXCEPT !.pc = pc, !.n = 0], pc)
           /\ Moved(r, [r EXCEPT !.pc = pc], pc)
           /\ Moved(r, [r EXCEPT !.n = @ + 1, !.count = @ + 1], r.pc)
           /\ Moved(r, [r EXCEPT !.n = @ + 1], r.pc)
           /\ Moved(r, [r EXCEPT !.pc = pc, !.cur = t, !.n = @ + 1], pc)
           /\ Moved(r, [r EXCEPT !.pc = pc, !.cur = None, !.count = @ - 1], pc)
           /\ Moved(r, [r EXCEPT !.pc = pc, !.cur = None], pc)
           /\ [r EXCEPT !.shutdown = TRUE, !.pc = pc, !.n = 0] \in CoreState
           /\ [r EXCEPT !.shutdown = TRUE, !.pc = pc, !.n = 0].shutdown
<1>1. r.n + 1 \in Nat /\ r.count + 1 \in Counter /\ r.count - 1 \in Counter
  BY Parts DEF CoreState
<1> QED  BY <1>1, Parts, ZenonT(30) DEF CoreState, Moved

\* core k goes on, q being its new inbox and r its new record: nothing of what
\* the invariant is about happens, or it reads a message, or the Shutdown.
Passes(k, q, r) ==
    /\ r \in CoreState /\ r.shutdown = core[k].shutdown
    /\ r.pc = "exited" => core[k].shutdown
    /\ q \in {inbox[k], <<>>}
Reads(k, q, r) ==
    /\ inbox[k] # <<>> /\ q = Tail(inbox[k]) /\ Head(inbox[k]) # ShutdownMsg
    /\ Moved(core[k], r, core[k].pc)
ReadsShutdown(k, q, r) ==
    /\ inbox[k] # <<>> /\ q = Tail(inbox[k]) /\ Head(inbox[k]) = ShutdownMsg
    /\ r \in CoreState /\ r.shutdown

\* Every step of a core's thread is one of the three, and about that core only.
LEMMA CoreEffect ==
    ASSUME CoreTypes, InboxTypes, NEW k \in Core, NewCore(k) \/ CoreStep(k)
    PROVE  \E q, r : /\ inbox' = [inbox EXCEPT ![k] = q]
                     /\ core' = [core EXCEPT ![k] = r]
                     /\ \/ Passes(k, q, r) \/ Reads(k, q, r) \/ ReadsShutdown(k, q, r)
<1> DEFINE q == inbox'[k]
           r == core'[k]
<1> SUFFICES /\ inbox' = [inbox EXCEPT ![k] = q]
             /\ core' = [core EXCEPT ![k] = r]
             /\ Passes(k, q, r) \/ Reads(k, q, r) \/ ReadsShutdown(k, q, r)
  OBVIOUS
<1>0. /\ core[k] \in CoreState /\ core[k].pc \in CorePc
      /\ {"while", "messages", "tasks", "poll", "exited", "panicked"} \subseteq CorePc
      /\ inbox = [inbox EXCEPT ![k] = inbox[k]]
      /\ inbox[k] \in Seq(Message) /\ None \in MaybeTask
  BY Parts DEF CoreTypes, InboxTypes, CoreState, CorePc
<1>a. ASSUME NEW pc \in CorePc, pc # "exited", UNCHANGED inbox,
             NEW s, core' = [core EXCEPT ![k] = s], Moved(core[k], s, pc)
      PROVE  /\ inbox' = [inbox EXCEPT ![k] = q] /\ core' = [core EXCEPT ![k] = r]
             /\ Passes(k, q, r)
  BY <1>0, <1>a DEF CoreTypes, InboxTypes, Passes, Moved
<1>1. CASE NewCore(k)
  <2>1. core' = [core EXCEPT ![k] = [core[k] EXCEPT !.pc = "while"]]
    BY <1>1 DEF NewCore
  <2> QED  BY <2>1, <1>0, <1>1, <1>a, CoreUpdate, ZenonT(30) DEF NewCore
<1>2. CASE While(k) /\ ~core[k].shutdown
  <2>1. core' = [core EXCEPT ![k] = [core[k] EXCEPT !.pc = "messages", !.n = 0]]
    BY <1>2, ZenonT(30) DEF While, Goto
  <2>2. UNCHANGED inbox
    BY <1>2 DEF While
  <2> QED  BY <2>1, <2>2, <1>0, <1>a, CoreUpdate, ZenonT(30)
<1>3. CASE (While(k) /\ core[k].shutdown) \/ PollPanic(k)
  <2>1. PICK pc \in CorePc : /\ End(k, pc)
                             /\ pc = "exited" => core[k].shutdown
    BY <1>0, <1>3 DEF While, PollPanic
  <2> DEFINE s == [core[k] EXCEPT !.pc = pc, !.n = 0, !.cur = None, !.count = 0]
  <2>2. core' = [core EXCEPT ![k] = s]
    BY <2>1, ZenonT(30) DEF End
  <2>3. Moved(core[k], s, pc)
    BY <1>0, CoreUpdate, ZenonT(30)
  <2>4. inbox' = [inbox EXCEPT ![k] = q] /\ q \in {inbox[k], <<>>}
    BY <2>1, <1>0, ZenonT(30) DEF End, InboxTypes
  <2> QED  BY <2>1, <2>2, <2>3, <2>4 DEF CoreTypes, Passes, Moved
<1>4. CASE Receive(k)
  <2>1. /\ inbox[k] # <<>> /\ inbox' = [inbox EXCEPT ![k] = q] /\ q = Tail(inbox[k])
        /\ core[k].pc = "messages"
    BY <1>4 DEF Receive, InboxTypes
  <2>2. Head(inbox[k]).type = "Shutdown" <=> Head(inbox[k]) = ShutdownMsg
    BY <2>1, <1>0, InboxTail, MessageKinds
  <2>3. CASE Head(inbox[k]).type = "Task"
    <3>1. core' = [core EXCEPT ![k] = [core[k] EXCEPT !.n = @ + 1, !.count = @ + 1]]
      BY <1>4, <2>3, ZenonT(30) DEF Receive
    <3>2. Moved(core[k], [core[k] EXCEPT !.n = @ + 1, !.count = @ + 1], core[k].pc)
      BY <1>0, CoreUpdate, ZenonT(30)
    <3>3. core' = [core EXCEPT ![k] = r] /\ r = [core[k] EXCEPT !.n = @ + 1, !.count = @ + 1]
      BY <3>1 DEF CoreTypes
    <3> QED  BY <3>2, <3>3, <2>1, <2>2, <2>3 DEF Reads
  <2>4. CASE Head(inbox[k]).type = "Ping"
    <3>1. core' = [core EXCEPT ![k] = [core[k] EXCEPT !.n = @ + 1]]
      BY <1>4, <2>4 DEF Receive
    <3>2. Moved(core[k], [core[k] EXCEPT !.n = @ + 1], core[k].pc)
      BY <1>0, CoreUpdate, ZenonT(30)
    <3>3. core' = [core EXCEPT ![k] = r] /\ r = [core[k] EXCEPT !.n = @ + 1]
      BY <3>1 DEF CoreTypes
    <3> QED  BY <3>2, <3>3, <2>1, <2>2, <2>4 DEF Reads
  <2>5. CASE Head(inbox[k]).type = "Shutdown"
    <3>1. core' = [core EXCEPT ![k] = [core[k] EXCEPT !.shutdown = TRUE, !.pc = "tasks",
                                                      !.n = 0]]
      BY <1>4, <2>5, ZenonT(30) DEF Receive
    <3>2. /\ [core[k] EXCEPT !.shutdown = TRUE, !.pc = "tasks", !.n = 0] \in CoreState
          /\ [core[k] EXCEPT !.shutdown = TRUE, !.pc = "tasks", !.n = 0].shutdown
      BY <1>0, CoreUpdate, ZenonT(30)
    <3>3. /\ core' = [core EXCEPT ![k] = r]
          /\ r = [core[k] EXCEPT !.shutdown = TRUE, !.pc = "tasks", !.n = 0]
      BY <3>1 DEF CoreTypes
    <3> QED  BY <3>2, <3>3, <2>1, <2>2, <2>5 DEF ReadsShutdown
  <2> QED  BY <1>4, <2>3, <2>4, <2>5 DEF Receive
<1>5. CASE EndMessages(k)
  <2>1. core' = [core EXCEPT ![k] = [core[k] EXCEPT !.pc = "tasks", !.n = 0]]
    BY <1>5, ZenonT(30) DEF EndMessages, Goto
  <2> QED  BY <2>1, <1>0, <1>5, <1>a, CoreUpdate, ZenonT(30) DEF EndMessages
<1>6. CASE Pop(k)
  <2>1. Head(task_queue[k]) \in MaybeTask
    BY <1>6 DEF CoreTypes, Pop
  <2>2. core' = [core EXCEPT ![k] = [core[k] EXCEPT !.pc = "poll",
                                        !.cur = Head(task_queue[k]), !.n = @ + 1]]
    BY <1>6, ZenonT(30) DEF Pop
  <2>3. Moved(core[k], [core[k] EXCEPT !.pc = "poll", !.cur = Head(task_queue[k]), !.n = @ + 1],
             "poll")
    BY <2>1, <1>0, CoreUpdate, ZenonT(30)
  <2>4. UNCHANGED inbox
    BY <1>6 DEF Pop
  <2> QED  BY <2>2, <2>3, <2>4, <1>0, <1>a, ZenonT(30)
<1>7. CASE PollReady(k)
  <2>1. core' = [core EXCEPT ![k] = [core[k] EXCEPT !.pc = "tasks", !.cur = None,
                                                    !.count = @ - 1]]
    BY <1>7, ZenonT(30) DEF PollReady
  <2>2. Moved(core[k], [core[k] EXCEPT !.pc = "tasks", !.cur = None, !.count = @ - 1],
             "tasks")
    BY <1>0, CoreUpdate, ZenonT(30)
  <2>3. UNCHANGED inbox
    BY <1>7 DEF PollReady
  <2> QED  BY <2>1, <2>2, <2>3, <1>0, <1>a, ZenonT(30)
<1>8. CASE PollPending(k)
  <2>1. core' = [core EXCEPT ![k] = [core[k] EXCEPT !.pc = "tasks", !.cur = None]]
    BY <1>8, ZenonT(30) DEF PollPending
  <2>2. Moved(core[k], [core[k] EXCEPT !.pc = "tasks", !.cur = None],
             "tasks")
    BY <1>0, CoreUpdate, ZenonT(30)
  <2>3. UNCHANGED inbox
    BY <1>8 DEF PollPending
  <2> QED  BY <2>1, <2>2, <2>3, <1>0, <1>a, ZenonT(30)
<1>9. CASE EndTasks(k)
  <2>1. core' = [core EXCEPT ![k] = [core[k] EXCEPT !.pc = "while", !.n = 0]]
    BY <1>9, ZenonT(30) DEF EndTasks, Goto
  <2> QED  BY <2>1, <1>0, <1>9, <1>a, CoreUpdate, ZenonT(30) DEF EndTasks
<1> HIDE DEF q, r
<1> QED  BY <1>1, <1>2, <1>3, <1>4, <1>5, <1>6, <1>7, <1>8, <1>9
         DEF CoreStep

\* The run queues hold tasks.
LEMMA QueueTypes ==
    ASSUME CoreTypes, InboxTypes, NEW k \in Core, NewCore(k) \/ CoreStep(k)
    PROVE  task_queue' \in [Core -> Seq(MaybeTask)]
<1>a. ASSUME NEW s \in Seq(MaybeTask), task_queue' = [task_queue EXCEPT ![k] = s]
      PROVE  task_queue' \in [Core -> Seq(MaybeTask)]
  BY <1>a DEF CoreTypes
<1>1. CASE Receive(k)
  <2>1. Head(inbox[k]) \in Message
    BY <1>1, InboxTail DEF InboxTypes, Receive
  <2>2. Head(inbox[k]).type = "Task" => Head(inbox[k]).task \in MaybeTask
    BY <2>1, MessageKinds, Parts
  <2>3. task_queue[k] \in Seq(MaybeTask)
    BY DEF CoreTypes
  <2>4. \/ task_queue' = task_queue
        \/ /\ Head(inbox[k]).type = "Task"
           /\ task_queue' = [task_queue EXCEPT ![k] = Append(@, Head(inbox[k]).task)]
    BY <1>1 DEF Receive
  <2>5. Head(inbox[k]).type = "Task" =>
           Append(task_queue[k], Head(inbox[k]).task) \in Seq(MaybeTask)
    BY <2>2, <2>3
  <2> QED  BY <2>4, <2>5, <1>a, ZenonT(30) DEF CoreTypes
<1>2. CASE PollPending(k)
  <2>1. core[k].cur \in MaybeTask
    BY DEF CoreTypes, CoreState
  <2> QED  BY <1>2, <2>1 DEF CoreTypes, PollPending
<1>3. CASE Pop(k)
  BY <1>3 DEF CoreTypes, Pop
<1>4. CASE While(k) \/ PollPanic(k)
  <2>1. \/ task_queue' = task_queue
        \/ task_queue' = [task_queue EXCEPT ![k] = <<>>]
    BY <1>4 DEF While, PollPanic, End
  <2>2. <<>> \in Seq(MaybeTask)
    OBVIOUS
  <2> QED  BY <2>1, <2>2, <1>a, ZenonT(30) DEF CoreTypes
<1>5. CASE NewCore(k) \/ EndMessages(k) \/ PollReady(k) \/ EndTasks(k)
  BY <1>5 DEF CoreTypes, NewCore, EndMessages, PollReady, EndTasks
<1> QED  BY <1>1, <1>2, <1>3, <1>4, <1>5 DEF CoreStep

\* A client's record after the steps of its calls.
LEMMA ClientUpdate ==
    ASSUME NEW r \in ClientState, NEW pc \in ClientPc, NEW t \in MaybeTask, NEW n \in Nat
    PROVE  /\ [r EXCEPT !.pc = pc] \in ClientState
           /\ [r EXCEPT !.pc = pc, !.task = t] \in ClientState
           /\ [r EXCEPT !.pc = pc, !.at = n] \in ClientState
           /\ [r EXCEPT !.pc = pc, !.task = t, !.at = n] \in ClientState
           /\ [r EXCEPT !.at = n, !.pc = pc] \in ClientState
           /\ [r EXCEPT !.at = @ + 1] \in ClientState
           /\ [r EXCEPT !.leaving = TRUE, !.pc = pc] \in ClientState
           /\ [r EXCEPT !.at = n, !.leaving = TRUE, !.pc = pc] \in ClientState
<1>1. r.at + 1 \in Nat
  BY DEF ClientState
<1> QED  BY <1>1, ZenonT(30) DEF ClientState

\* Every step of a call leaves the clients well typed, and only the winner of
\* the compare_exchange begins to send.
LEMMA ClientKeeps ==
    ASSUME ClientTypes, NEW c \in Client, InCall(c) \/ Call(c)
    PROVE  /\ ClientTypes'
           /\ \A d \in Client \ {c} : client'[d] = client[d]
           /\ client'[c].pc = "send" =>
                 SendShutdown(c) \/ (CompareExchange(c) /\ state = "Running")
<1> DEFINE r == client[c]
           sent == IF r.leaving THEN "free" ELSE "idle"
           dropped == IF state = "Running" THEN "cas" ELSE "free"
<1>0. /\ r \in ClientState /\ r.at \in Nat /\ r.task \in MaybeTask
      /\ r.pc \in {"select", "push"} => r.task \in Task
      /\ None \in MaybeTask /\ Task \subseteq MaybeTask
      /\ next_core \in Nat
  BY Parts DEF ClientTypes, ClientState
<1>p. {"idle", "select", "push", "cas", "send", "ping", "join", "free", "gone"} \subseteq ClientPc
  BY DEF ClientPc
<1>a. ASSUME NEW s \in ClientState, client' = [client EXCEPT ![c] = s],
             s.pc \in {"select", "push"} => s.task \in Task, next_core' \in Nat
      PROVE  ClientTypes' /\ client'[c] = s /\ \A d \in Client \ {c} : client'[d] = client[d]
  BY <1>a DEF ClientTypes
<1>1. CASE SpawnSelect(c)
  <2>0. next_core % NumCores \in Nat
    BY <1>0, MultiCoreAssumption
  <2> DEFINE s == [r EXCEPT !.pc = "push", !.at = next_core % NumCores]
  <2>1. client' = [client EXCEPT ![c] = s]
    BY <1>1, ZenonT(30) DEF SpawnSelect
  <2>2. next_core' \in Nat
    BY <1>1, <1>0 DEF SpawnSelect
  <2>3. s \in ClientState
    BY <1>0, <1>p, <2>0, ClientUpdate, ZenonT(30)
  <2>4. s.pc = "push" /\ (s.pc \in {"select", "push"} => s.task \in Task)
    BY <1>0, <1>1 DEF ClientState, SpawnSelect
  <2> HIDE DEF s
  <2> QED  BY <2>1, <2>2, <2>3, <2>4, <1>a, ZenonT(30)
<1>2. CASE SpawnOnCore(c)
  <2> DEFINE s == [r EXCEPT !.pc = "idle", !.task = None, !.at = 0]
  <2>1. client' = [client EXCEPT ![c] = s]
    BY <1>2, ZenonT(30) DEF SpawnOnCore
  <2>2. next_core' \in Nat
    BY <1>2, <1>0 DEF SpawnOnCore
  <2>3. s \in ClientState
    BY <1>0, <1>p, ClientUpdate, ZenonT(30)
  <2>4. s.pc = "idle" /\ (s.pc \in {"select", "push"} => s.task \in Task)
    BY <1>0, <1>2 DEF ClientState, SpawnOnCore
  <2> HIDE DEF s
  <2> QED  BY <2>1, <2>2, <2>3, <2>4, <1>a, ZenonT(30)
<1>3. CASE FreeRuntime(c)
  <2> DEFINE s == [r EXCEPT !.pc = "gone"]
  <2>1. client' = [client EXCEPT ![c] = s]
    BY <1>3 DEF FreeRuntime
  <2>2. next_core' \in Nat
    BY <1>3, <1>0 DEF FreeRuntime
  <2>3. s \in ClientState
    BY <1>0, <1>p, ClientUpdate, ZenonT(30)
  <2>4. s.pc = "gone" /\ (s.pc \in {"select", "push"} => s.task \in Task)
    BY <1>0, <1>3 DEF ClientState, FreeRuntime
  <2> HIDE DEF s
  <2> QED  BY <2>1, <2>2, <2>3, <2>4, <1>a, ZenonT(30)
<1>4. CASE ShutdownLoad(c)
  <2> DEFINE s == [r EXCEPT !.pc = "cas"]
  <2>1. client' = [client EXCEPT ![c] = s]
    BY <1>4 DEF ShutdownLoad
  <2>2. next_core' \in Nat
    BY <1>4, <1>0 DEF ShutdownLoad
  <2>3. s \in ClientState
    BY <1>0, <1>p, ClientUpdate, ZenonT(30)
  <2>4. s.pc = "cas" /\ (s.pc \in {"select", "push"} => s.task \in Task)
    BY <1>0, <1>4 DEF ClientState, ShutdownLoad
  <2> HIDE DEF s
  <2> QED  BY <2>1, <2>2, <2>3, <2>4, <1>a, ZenonT(30)
<1>5. CASE PingAll(c)
  <2> DEFINE s == [r EXCEPT !.pc = "ping"]
  <2>1. client' = [client EXCEPT ![c] = s]
    BY <1>5 DEF PingAll
  <2>2. next_core' \in Nat
    BY <1>5, <1>0 DEF PingAll
  <2>3. s \in ClientState
    BY <1>0, <1>p, ClientUpdate, ZenonT(30)
  <2>4. s.pc = "ping" /\ (s.pc \in {"select", "push"} => s.task \in Task)
    BY <1>0, <1>5 DEF ClientState, PingAll
  <2> HIDE DEF s
  <2> QED  BY <2>1, <2>2, <2>3, <2>4, <1>a, ZenonT(30)
<1>6. CASE Join(c)
  <2> DEFINE s == [r EXCEPT !.pc = "join"]
  <2>1. client' = [client EXCEPT ![c] = s]
    BY <1>6 DEF Join
  <2>2. next_core' \in Nat
    BY <1>6, <1>0 DEF Join
  <2>3. s \in ClientState
    BY <1>0, <1>p, ClientUpdate, ZenonT(30)
  <2>4. s.pc = "join" /\ (s.pc \in {"select", "push"} => s.task \in Task)
    BY <1>0, <1>6 DEF ClientState, Join
  <2> HIDE DEF s
  <2> QED  BY <2>1, <2>2, <2>3, <2>4, <1>a, ZenonT(30)
<1>7. ASSUME NEW t \in Task, SpawnLoad(c, t)
      PROVE  /\ ClientTypes' /\ client'[c].pc # "send"
             /\ \A d \in Client \ {c} : client'[d] = client[d]
  <2> DEFINE s == [r EXCEPT !.pc = "select", !.task = t]
  <2>1. client' = [client EXCEPT ![c] = s]
    BY <1>7, ZenonT(30) DEF SpawnLoad
  <2>2. next_core' \in Nat
    BY <1>7, <1>0 DEF SpawnLoad
  <2>3. s \in ClientState
    BY <1>0, <1>p, ClientUpdate, ZenonT(30)
  <2>4. s.pc = "select" /\ (s.pc \in {"select", "push"} => s.task \in Task)
    BY <1>0, <1>7 DEF ClientState, SpawnLoad
  <2> HIDE DEF s
  <2> QED  BY <2>1, <2>2, <2>3, <2>4, <1>a, ZenonT(30)
<1>8. ASSUME NEW t \in Task, NEW k \in Core, SpawnOnLoad(c, t, k)
      PROVE  /\ ClientTypes' /\ client'[c].pc # "send"
             /\ \A d \in Client \ {c} : client'[d] = client[d]
  <2>0. k \in Nat
    BY MultiCoreAssumption DEF Core
  <2> DEFINE s == [r EXCEPT !.pc = "push", !.task = t, !.at = k]
  <2>1. client' = [client EXCEPT ![c] = s]
    BY <1>8, ZenonT(30) DEF SpawnOnLoad
  <2>2. next_core' \in Nat
    BY <1>8, <1>0 DEF SpawnOnLoad
  <2>3. s \in ClientState
    BY <1>0, <1>p, <2>0, ClientUpdate, ZenonT(30)
  <2>4. s.pc = "push" /\ (s.pc \in {"select", "push"} => s.task \in Task)
    BY <1>0, <1>8 DEF ClientState, SpawnOnLoad
  <2> HIDE DEF s
  <2> QED  BY <2>1, <2>2, <2>3, <2>4, <1>a, ZenonT(30)
<1>9. CASE CompareExchange(c)
  <2>0. next_core' \in Nat
    BY <1>9, <1>0 DEF CompareExchange
  <2>1. CASE state = "Running"
    <3> DEFINE s == [r EXCEPT !.pc = "send"]
    <3>1. client' = [client EXCEPT ![c] = s]
      BY <1>9, <2>1 DEF CompareExchange
    <3>2. s \in ClientState
      BY <1>0, <1>p, ClientUpdate, ZenonT(30)
    <3>3. s.pc = "send"
      BY <1>0 DEF ClientState
    <3> HIDE DEF s
    <3> QED  BY <2>0, <3>1, <3>2, <3>3, <1>9, <2>1, <1>a, ZenonT(30)
  <2>2. CASE state # "Running"
    <3> DEFINE s == [r EXCEPT !.pc = "idle"]
    <3>1. client' = [client EXCEPT ![c] = s]
      BY <1>9, <2>2 DEF CompareExchange
    <3>2. s \in ClientState
      BY <1>0, <1>p, ClientUpdate, ZenonT(30)
    <3>3. s.pc = "idle"
      BY <1>0 DEF ClientState
    <3> HIDE DEF s
    <3> QED  BY <2>0, <3>1, <3>2, <3>3, <1>a, ZenonT(30)
  <2> QED  BY <2>1, <2>2
<1>10. CASE SendShutdown(c)
  <2>0. PICK s \in ClientState : /\ client' = [client EXCEPT ![c] = s]
                                  /\ s.pc \in {"idle", "free", "gone", "cas", r.pc}
    <3>0. \/ client' = [client EXCEPT ![c].at = @ + 1]
          \/ client' = [client EXCEPT ![c].at = 0, ![c].pc = sent]
      BY <1>10 DEF SendShutdown
    <3>1. CASE client' = [client EXCEPT ![c].at = @ + 1]
      <4> DEFINE s == [r EXCEPT !.at = @ + 1]
      <4>1. client' = [client EXCEPT ![c] = s]
        BY <3>1
      <4>2. s \in ClientState
        BY <1>0, <1>p, ClientUpdate, ZenonT(30)
      <4>3. s.pc \in {"idle", "free", "gone", "cas", r.pc}
        BY <1>0 DEF ClientState
      <4> HIDE DEF s
      <4> QED  BY <4>1, <4>2, <4>3, ZenonT(30)
    <3>2. CASE client' = [client EXCEPT ![c].at = 0, ![c].pc = sent]
      <4> DEFINE s == [r EXCEPT !.at = 0, !.pc = sent]
      <4>1. client' = [client EXCEPT ![c] = s]
        BY <3>2, ZenonT(30)
      <4>2. s \in ClientState
        BY <1>0, <1>p, ClientUpdate, ZenonT(30)
      <4>3. s.pc \in {"idle", "free", "gone", "cas", r.pc}
        BY <1>0 DEF ClientState
      <4> HIDE DEF s
      <4> QED  BY <4>1, <4>2, <4>3, ZenonT(30)
    <3> QED  BY <3>0, <3>1, <3>2
  <2>1. next_core' \in Nat
    BY <1>10, <1>0 DEF SendShutdown
  <2>2. r.pc = "send"
    BY <1>10 DEF SendShutdown
  <2> QED  BY <2>0, <2>1, <2>2, <1>10, <1>a, ZenonT(30)
<1>11. CASE SendPing(c)
  <2>0. PICK s \in ClientState : /\ client' = [client EXCEPT ![c] = s]
                                  /\ s.pc \in {"idle", "free", "gone", "cas", r.pc}
    <3>0. \/ client' = [client EXCEPT ![c].at = @ + 1]
          \/ client' = [client EXCEPT ![c].pc = "idle", ![c].at = 0]
      BY <1>11 DEF SendPing
    <3>1. CASE client' = [client EXCEPT ![c].at = @ + 1]
      <4> DEFINE s == [r EXCEPT !.at = @ + 1]
      <4>1. client' = [client EXCEPT ![c] = s]
        BY <3>1
      <4>2. s \in ClientState
        BY <1>0, <1>p, ClientUpdate, ZenonT(30)
      <4>3. s.pc \in {"idle", "free", "gone", "cas", r.pc}
        BY <1>0 DEF ClientState
      <4> HIDE DEF s
      <4> QED  BY <4>1, <4>2, <4>3, ZenonT(30)
    <3>2. CASE client' = [client EXCEPT ![c].pc = "idle", ![c].at = 0]
      <4> DEFINE s == [r EXCEPT !.pc = "idle", !.at = 0]
      <4>1. client' = [client EXCEPT ![c] = s]
        BY <3>2, ZenonT(30)
      <4>2. s \in ClientState
        BY <1>0, <1>p, ClientUpdate, ZenonT(30)
      <4>3. s.pc \in {"idle", "free", "gone", "cas", r.pc}
        BY <1>0 DEF ClientState
      <4> HIDE DEF s
      <4> QED  BY <4>1, <4>2, <4>3, ZenonT(30)
    <3> QED  BY <3>0, <3>1, <3>2
  <2>1. next_core' \in Nat
    BY <1>11, <1>0 DEF SendPing
  <2>2. r.pc = "ping"
    BY <1>11 DEF SendPing
  <2> QED  BY <2>0, <2>1, <2>2, <1>11, <1>a, ZenonT(30)
<1>12. CASE DropArc(c)
  <2>0. PICK s \in ClientState : /\ client' = [client EXCEPT ![c] = s]
                                  /\ s.pc \in {"idle", "free", "gone", "cas", r.pc}
    <3>0. \/ client' = [client EXCEPT ![c].pc = "gone"]
          \/ client' = [client EXCEPT ![c].leaving = TRUE, ![c].pc = dropped]
      BY <1>12, ZenonT(30) DEF DropArc
    <3>1. CASE client' = [client EXCEPT ![c].pc = "gone"]
      <4> DEFINE s == [r EXCEPT !.pc = "gone"]
      <4>1. client' = [client EXCEPT ![c] = s]
        BY <3>1
      <4>2. s \in ClientState
        BY <1>0, <1>p, ClientUpdate, ZenonT(30)
      <4>3. s.pc \in {"idle", "free", "gone", "cas", r.pc}
        BY <1>0 DEF ClientState
      <4> HIDE DEF s
      <4> QED  BY <4>1, <4>2, <4>3, ZenonT(30)
    <3>2. CASE client' = [client EXCEPT ![c].leaving = TRUE, ![c].pc = dropped]
      <4> DEFINE s == [r EXCEPT !.leaving = TRUE, !.pc = dropped]
      <4>1. client' = [client EXCEPT ![c] = s]
        BY <3>2, ZenonT(30)
      <4>2. s \in ClientState
        BY <1>0, <1>p, ClientUpdate, ZenonT(30)
      <4>3. s.pc \in {"idle", "free", "gone", "cas", r.pc}
        BY <1>0 DEF ClientState
      <4> HIDE DEF s
      <4> QED  BY <4>1, <4>2, <4>3, ZenonT(30)
    <3> QED  BY <3>0, <3>1, <3>2, ZenonT(30)
  <2>1. next_core' \in Nat
    BY <1>12, <1>0 DEF DropArc
  <2>2. r.pc = "idle"
    BY <1>12 DEF DropArc
  <2> QED  BY <2>0, <2>1, <2>2, <1>12, <1>a, ZenonT(30)
<1>13. CASE JoinCore(c)
  <2>0. PICK s \in ClientState : /\ client' = [client EXCEPT ![c] = s]
                                  /\ s.pc \in {"idle", "free", "gone", "cas", r.pc}
    <3>0. \/ client' = [client EXCEPT ![c].at = @ + 1]
          \/ client' = [client EXCEPT ![c].at = 0, ![c].leaving = TRUE, ![c].pc = dropped]
          \/ client' = [client EXCEPT ![c].pc = "free", ![c].at = 0]
      BY <1>13 DEF JoinCore
    <3>1. CASE client' = [client EXCEPT ![c].at = @ + 1]
      <4> DEFINE s == [r EXCEPT !.at = @ + 1]
      <4>1. client' = [client EXCEPT ![c] = s]
        BY <3>1
      <4>2. s \in ClientState
        BY <1>0, <1>p, ClientUpdate, ZenonT(30)
      <4>3. s.pc \in {"idle", "free", "gone", "cas", r.pc}
        BY <1>0 DEF ClientState
      <4> HIDE DEF s
      <4> QED  BY <4>1, <4>2, <4>3, ZenonT(30)
    <3>2. CASE client' = [client EXCEPT ![c].at = 0, ![c].leaving = TRUE, ![c].pc = dropped]
      <4> DEFINE s == [r EXCEPT !.at = 0, !.leaving = TRUE, !.pc = dropped]
      <4>1. client' = [client EXCEPT ![c] = s]
        BY <3>2, ZenonT(30)
      <4>2. s \in ClientState
        BY <1>0, <1>p, ClientUpdate, ZenonT(30)
      <4>3. s.pc \in {"idle", "free", "gone", "cas", r.pc}
        BY <1>0 DEF ClientState
      <4> HIDE DEF s
      <4> QED  BY <4>1, <4>2, <4>3, ZenonT(30)
    <3>3. CASE client' = [client EXCEPT ![c].pc = "free", ![c].at = 0]
      <4> DEFINE s == [r EXCEPT !.pc = "free", !.at = 0]
      <4>1. client' = [client EXCEPT ![c] = s]
        BY <3>3, ZenonT(30)
      <4>2. s \in ClientState
        BY <1>0, <1>p, ClientUpdate, ZenonT(30)
      <4>3. s.pc \in {"idle", "free", "gone", "cas", r.pc}
        BY <1>0 DEF ClientState
      <4> HIDE DEF s
      <4> QED  BY <4>1, <4>2, <4>3, ZenonT(30)
    <3> QED  BY <3>0, <3>1, <3>2, <3>3
  <2>1. next_core' \in Nat
    BY <1>13, <1>0 DEF JoinCore
  <2>2. r.pc = "join"
    BY <1>13 DEF JoinCore
  <2> QED  BY <2>0, <2>1, <2>2, <1>13, <1>a, ZenonT(30)
<1> QED  BY <1>1, <1>2, <1>3, <1>4, <1>5, <1>6, <1>7, <1>8, <1>9, <1>10, <1>11,
            <1>12, <1>13 DEF InCall, Call

-----------------------------------------------------------------------------
(* The steps keep Safe.                                                    *)

AllTold == \A k \in Core : Told(inbox[k], core[k].shutdown, core[k].pc, late)

\* Where no core that was untold is told, nobody begins to send and the runtime
\* does not go back, the order is kept.
LEMMA OrderKept ==
    ASSUME Order,
           \A k \in Core : Untold(inbox[k], core[k].shutdown) =>
                              Untold(inbox'[k], core'[k].shutdown),
           state' \in {"Initializing", "Running", "failed"} =>
               state \in {"Initializing", "Running", "failed"},
           state \in {"ShuttingDown", "Terminated"} =>
               state' \in {"ShuttingDown", "Terminated"},
           \A c \in Client : client'[c].pc = "send" =>
               client[c].pc = "send" /\ client'[c].at = client[c].at
    PROVE  Order'
BY DEF Order

\* A step of a core.
LEMMA CoreSafe ==
    ASSUME Safe, NEW k \in Core, NewCore(k) \/ CoreStep(k)
    PROVE  Safe'
<1>0. ClientTypes /\ CoreTypes /\ InboxTypes /\ Order /\ AllTold
  BY DEF Safe, AllTold
<1>1. PICK q, r : /\ inbox' = [inbox EXCEPT ![k] = q]
                  /\ core' = [core EXCEPT ![k] = r]
                  /\ \/ Passes(k, q, r) \/ Reads(k, q, r) \/ ReadsShutdown(k, q, r)
  BY <1>0, CoreEffect
<1>2. /\ inbox'[k] = q /\ core'[k] = r
      /\ \A j \in Core \ {k} : inbox'[j] = inbox[j] /\ core'[j] = core[j]
  BY <1>0, <1>1, SMTT(30) DEF InboxTypes, CoreTypes
<1>3. UNCHANGED <<state, client, next_core, late>>
  BY DEF CoreStep, NewCore, While, Receive, EndMessages, Pop, PollReady, PollPending,
         PollPanic, EndTasks, callVars
<1>4. inbox[k] \in Seq(Message) /\ Told(inbox[k], core[k].shutdown, core[k].pc, late)
  BY <1>0 DEF InboxTypes, AllTold
<1>5. /\ r \in CoreState /\ q \in Seq(Message)
      /\ Told(q, r.shutdown, r.pc, late)
      /\ Untold(inbox[k], core[k].shutdown) => Untold(q, r.shutdown)
  <2>1. CASE Passes(k, q, r)
    <3>1. /\ r \in CoreState /\ r.shutdown = core[k].shutdown
          /\ r.pc = "exited" => r.shutdown
          /\ q = inbox[k] \/ q = <<>>
      BY <2>1 DEF Passes
    <3>2. CASE q = inbox[k]
      BY <1>4, <3>1, <3>2, TellGrow
    <3>3. CASE q = <<>>
      <4>1. Told(<<>>, r.shutdown, r.pc, late) /\ (~r.shutdown => Untold(<<>>, r.shutdown))
        BY <3>1 DEF Told, Untold
      <4>2. Untold(inbox[k], core[k].shutdown) => ~core[k].shutdown
        BY DEF Untold
      <4> QED  BY <4>1, <4>2, <3>1, <3>3
    <3> QED  BY <3>1, <3>2, <3>3
  <2>2. CASE Reads(k, q, r)
    <3>1. /\ inbox[k] # <<>> /\ q = Tail(inbox[k])
          /\ r \in CoreState /\ r.shutdown = core[k].shutdown /\ r.pc = core[k].pc
      BY <2>2 DEF Reads, Moved
    <3> QED  BY <3>1, <1>4, InboxTail, TellTail, ZenonT(30)
  <2>3. CASE ReadsShutdown(k, q, r)
    <3>1. /\ inbox[k] # <<>> /\ q = Tail(inbox[k]) /\ Head(inbox[k]) = ShutdownMsg
          /\ r \in CoreState /\ r.shutdown = TRUE
      BY <2>3 DEF ReadsShutdown, CoreState
    <3>2. Told(q, TRUE, r.pc, late) /\ ~Untold(inbox[k], core[k].shutdown)
      BY <3>1, <1>4, TellTail, ZenonT(30)
    <3> QED  BY <3>1, <3>2, <1>4, InboxTail, ZenonT(30)
  <2> QED  BY <1>1, <2>1, <2>2, <2>3, SMTT(30)
<1>6. ClientTypes'
  BY <1>0, <1>3 DEF ClientTypes
<1>7. CoreTypes' /\ InboxTypes'
  BY <1>0, <1>1, <1>5, QueueTypes DEF CoreTypes, InboxTypes
<1>8. AllTold'
  BY <1>0, <1>2, <1>3, <1>5 DEF AllTold
<1>9. \A j \in Core : Untold(inbox[j], core[j].shutdown) => Untold(inbox'[j], core'[j].shutdown)
  BY <1>2, <1>5
<1>10. Order'
  BY <1>0, <1>3, <1>9, OrderKept
<1> QED  BY <1>6, <1>7, <1>8, <1>10 DEF Safe, AllTold

\* A push to the inbox of one core, by any client.
LEMMA PushSafe ==
    ASSUME InboxTypes, AllTold, NEW k, NEW m, Send(k, m), UNCHANGED core,
           late \subseteq late', k \in Core => m \in Message /\ m # ShutdownMsg,
           k \in Core => \/ Untold(inbox[k], core[k].shutdown)
                         \/ m.type = "Task" => m.task \in late'
    PROVE  /\ InboxTypes' /\ AllTold'
           /\ \A j \in Core : Untold(inbox[j], core[j].shutdown) =>
                                 Untold(inbox'[j], core'[j].shutdown)
<1>1. \A j \in Core : inbox'[j] = IF j = k THEN Append(inbox[j], m) ELSE inbox[j]
  BY DEF Send, InboxTypes
<1>2. ASSUME NEW j \in Core
      PROVE  /\ inbox'[j] \in Seq(Message)
             /\ Told(inbox'[j], core[j].shutdown, core[j].pc, late')
             /\ Untold(inbox[j], core[j].shutdown) => Untold(inbox'[j], core[j].shutdown)
  <2>1. /\ inbox[j] \in Seq(Message)
        /\ Told(inbox[j], core[j].shutdown, core[j].pc, late)
    BY DEF InboxTypes, AllTold
  <2>2. Told(inbox[j], core[j].shutdown, core[j].pc, late')
    <3>1. core[j].pc = "exited" => core[j].shutdown
      BY <2>1 DEF Told
    <3> QED  BY <2>1, <3>1, TellGrow
  <2>3. CASE j = k
    <3>1. inbox'[j] = Append(inbox[j], m) /\ m \in Message /\ m # ShutdownMsg
      BY <1>1, <2>3
    <3>2. Untold(inbox[j], core[j].shutdown) \/ (m.type = "Task" => m.task \in late')
      BY <2>3
    <3>3. /\ Told(Append(inbox[j], m), core[j].shutdown, core[j].pc, late')
          /\ Untold(inbox[j], core[j].shutdown) => Untold(Append(inbox[j], m), core[j].shutdown)
      BY <2>1, <2>2, <3>1, <3>2, TellPush
    <3> QED  BY <2>1, <3>1, <3>3, InboxAppend
  <2>4. CASE j # k
    BY <1>1, <2>1, <2>2, <2>4
  <2> QED  BY <2>3, <2>4
<1>3. inbox' \in [Core -> Seq(Message)]
  <2>1. inbox' = [j \in Core |-> inbox'[j]]
    BY DEF Send, InboxTypes
  <2> QED  BY <2>1, <1>2
<1> QED  BY <1>2, <1>3 DEF InboxTypes, AllTold

\* A step of a call.
LEMMA ClientSafe ==
    ASSUME Safe, NEW c \in Client, InCall(c) \/ Call(c)
    PROVE  Safe'
<1>0. ClientTypes /\ CoreTypes /\ InboxTypes /\ Order /\ AllTold
  BY DEF Safe, AllTold
<1>1. /\ ClientTypes'
      /\ \A d \in Client \ {c} : client'[d] = client[d]
      /\ client'[c].pc = "send" => SendShutdown(c) \/ (CompareExchange(c) /\ state = "Running")
  BY <1>0, ClientKeeps
<1>2. UNCHANGED <<core, task_queue>> /\ CoreTypes'
  <2>1. UNCHANGED <<core, task_queue>>
    BY ZenonT(30)
       DEF InCall, Call, SpawnSelect, SpawnOnCore, CompareExchange, SendShutdown, SendPing,
           JoinCore, FreeRuntime, ShutdownLoad, PingAll, DropArc, Join, SpawnLoad,
           SpawnOnLoad, coreVars
  <2> QED  BY <1>0, <2>1 DEF CoreTypes
<1>a. ASSUME InboxTypes', AllTold', client'[c].pc # "send",
             \A j \in Core : Untold(inbox[j], core[j].shutdown) =>
                                Untold(inbox'[j], core'[j].shutdown),
             state' = state \/ state' = "Terminated"
      PROVE  Safe'
  <2>1. \A d \in Client : client'[d].pc = "send" =>
               client[d].pc = "send" /\ client'[d].at = client[d].at
    BY <1>1, <1>a
  <2>2. Order'
    BY <1>0, <1>a, <2>1, OrderKept
  <2> QED  BY <1>1, <1>2, <1>a, <2>2, SMTT(30) DEF Safe, AllTold
<1>b. ASSUME UNCHANGED <<inbox, late>>
      PROVE  InboxTypes' /\ AllTold'
             /\ \A j \in Core : Untold(inbox[j], core[j].shutdown) =>
                                   Untold(inbox'[j], core'[j].shutdown)
  BY <1>0, <1>2, <1>b, SMTT(30) DEF InboxTypes, AllTold
<1>3. CASE SpawnOnCore(c)
  <2>1. client[c].task \in Task
    BY <1>0, <1>3 DEF ClientTypes, SpawnOnCore
  <2> DEFINE m == TaskMsg(client[c].task)
  <2>2. m \in Message /\ m # ShutdownMsg /\ m.type = "Task" /\ m.task = client[c].task
    BY <2>1, MessageKinds
  <2>3. /\ Send(client[c].at, m) /\ late \subseteq late' /\ UNCHANGED state
        /\ state = "Running" \/ client[c].task \in late'
    BY <1>3 DEF SpawnOnCore
  <2> HIDE DEF m
  <2>4. state = "Running" => \A j \in Core : Untold(inbox[j], core[j].shutdown)
    BY <1>0 DEF Order
  <2>5. /\ InboxTypes' /\ AllTold'
        /\ \A j \in Core : Untold(inbox[j], core[j].shutdown) =>
                              Untold(inbox'[j], core'[j].shutdown)
    BY <1>0, <1>2, <2>2, <2>3, <2>4, PushSafe
  <2>6. ~SendShutdown(c) /\ ~CompareExchange(c)
    BY <1>3 DEF SpawnOnCore, SendShutdown, CompareExchange
  <2> QED  BY <2>3, <2>5, <2>6, <1>1, <1>a
<1>4. CASE SendPing(c)
  <2>1. UNCHANGED <<state, late>>
    BY <1>4 DEF SendPing, callVars
  <2>2. ~SendShutdown(c) /\ ~CompareExchange(c)
    BY <1>4 DEF SendPing, SendShutdown, CompareExchange
  <2>3. CASE UNCHANGED inbox
    BY <2>1, <2>2, <2>3, <1>1, <1>a, <1>b, SMTT(30)
  <2>4. CASE ~UNCHANGED inbox
    <3>1. PICK k : Send(k, PingMsg(k))
      BY <1>4, <2>4 DEF SendPing
    <3>2. k \in Core => PingMsg(k) \in Message /\ PingMsg(k) # ShutdownMsg
                        /\ PingMsg(k).type # "Task"
      BY MessageKinds, SMTT(30)
    <3>3. /\ InboxTypes' /\ AllTold'
          /\ \A j \in Core : Untold(inbox[j], core[j].shutdown) =>
                                Untold(inbox'[j], core'[j].shutdown)
      BY <1>0, <1>2, <2>1, <3>1, <3>2, PushSafe
    <3> QED  BY <2>1, <2>2, <3>3, <1>1, <1>a
  <2> QED  BY <2>3, <2>4
<1>5. CASE FreeRuntime(c)
  <2>1. UNCHANGED <<state, late>> /\ ~SendShutdown(c) /\ ~CompareExchange(c)
    BY <1>5 DEF FreeRuntime, callVars, SendShutdown, CompareExchange
  <2>2. inbox' = [k \in Core |-> IF Ended(k) THEN <<>> ELSE inbox[k]]
    BY <1>5 DEF FreeRuntime
  <2>3. InboxTypes'
    <3>1. <<>> \in Seq(Message)
      OBVIOUS
    <3> QED  BY <2>2, <3>1, <1>0 DEF InboxTypes
  <2>4. ASSUME NEW k \in Core
        PROVE  /\ Told(inbox'[k], core[k].shutdown, core[k].pc, late)
               /\ Untold(inbox[k], core[k].shutdown) => Untold(inbox'[k], core[k].shutdown)
    <3>1. Told(inbox[k], core[k].shutdown, core[k].pc, late)
      BY <1>0 DEF AllTold
    <3>2. inbox'[k] = inbox[k] \/ inbox'[k] = <<>>
      BY <2>2, SMTT(30)
    <3>3. CASE inbox'[k] = inbox[k]
      BY <3>1, <3>3
    <3>4. CASE inbox'[k] = <<>>
      BY <3>1, <3>4, SMTT(30) DEF Told, Untold
    <3> QED  BY <3>2, <3>3, <3>4
  <2>5. AllTold'
    BY <1>2, <2>1, <2>4, SMTT(30) DEF AllTold
  <2> QED  BY <1>1, <1>2, <1>a, <2>1, <2>3, <2>4, <2>5
<1>6. CASE CompareExchange(c) /\ state = "Running"
  <2>1. UNCHANGED <<inbox, late>> /\ state' = "ShuttingDown"
    BY <1>6, SMTT(30) DEF CompareExchange, callVars
  <2>2. \A k \in Core : Untold(inbox[k], core[k].shutdown)
    BY <1>0, <1>6 DEF Order
  <2>3. \A d \in Client : client[d].pc # "send"
    BY <1>0, <1>6 DEF Order
  <2>4. \A d \in Client : client'[d].pc = "send" => d = c
    BY <1>1, <2>3
  <2>5. Order'
    BY <1>2, <2>1, <2>2, <2>4 DEF Order
  <2> QED  BY <1>1, <1>2, <1>b, <2>1, <2>5 DEF Safe, AllTold
<1>7. CASE SendShutdown(c)
  <2>1. UNCHANGED <<state, late>> /\ client[c].pc = "send" /\ client[c].at \in Nat
    BY <1>0, <1>7 DEF SendShutdown, callVars, ClientTypes, ClientState
  <2>2. /\ state \in {"ShuttingDown", "Terminated"}
        /\ \A d \in Client : client[d].pc = "send" => d = c
        /\ \A k \in Core : client[c].at <= k => Untold(inbox[k], core[k].shutdown)
    BY <1>0, <2>1 DEF Order
  <2>3. \A d \in Client : client'[d].pc = "send" => d = c
    BY <1>1, <2>2
  <2>4. CASE client[c].at = NumCores
    <3>1. UNCHANGED inbox /\ client'[c].pc # "send"
      BY <1>0, <1>7, <2>4 DEF SendShutdown, ClientTypes, ClientState
    <3> QED  BY <3>1, <2>1, <1>a, <1>b
  <2>5. CASE client[c].at < NumCores
    <3> DEFINE k == client[c].at
    <3>1. k \in Core
      BY <2>1, <2>5, MultiCoreAssumption DEF Core
    <3>2. Send(k, ShutdownMsg) /\ client' = [client EXCEPT ![c].at = @ + 1]
      BY <1>7, <2>1, <2>5, MultiCoreAssumption DEF SendShutdown
    <3>3. client'[c].at = k + 1
      BY <3>2, <1>0 DEF ClientTypes, ClientState
    <3>4. /\ inbox'[k] = Append(inbox[k], ShutdownMsg)
          /\ \A j \in Core \ {k} : inbox'[j] = inbox[j]
      BY <3>1, <3>2, <1>0, SMTT(30) DEF Send, InboxTypes
    <3>5. inbox[k] \in Seq(Message) /\ Told(inbox[k], core[k].shutdown, core[k].pc, late)
      BY <3>1, <1>0 DEF InboxTypes, AllTold
    <3>6. Untold(inbox[k], core[k].shutdown)
      BY <2>1, <2>2, <3>1, SMTT(30)
    <3>7. Told(inbox'[k], core[k].shutdown, core[k].pc, late)
      BY <3>4, <3>5, <3>6, TellShutdown
    <3>8. AllTold'
      BY <1>0, <1>2, <2>1, <3>4, <3>7, ZenonT(30) DEF AllTold
    <3>9. InboxTypes'
      <4>1. Append(inbox[k], ShutdownMsg) \in Seq(Message)
        BY <3>5, MessageKinds, InboxAppend
      <4> QED  BY <4>1, <3>2, <1>0, ZenonT(30) DEF InboxTypes, Send
    <3>10. \A j \in Core : k + 1 <= j => Untold(inbox'[j], core[j].shutdown)
      <4>1. \A j \in Core : k + 1 <= j => k <= j /\ j # k
        BY <3>1, MultiCoreAssumption DEF Core
      <4> QED  BY <4>1, <2>2, <3>4
    <3>11. Order'
      BY <1>2, <2>1, <2>2, <2>3, <3>3, <3>10 DEF Order
    <3> QED  BY <1>1, <1>2, <3>8, <3>9, <3>11 DEF Safe, AllTold
  <2> QED  BY <1>7, <2>4, <2>5 DEF SendShutdown
<1>8. CASE \/ SpawnSelect(c) \/ (CompareExchange(c) /\ state # "Running") \/ JoinCore(c)
           \/ Call(c)
  <2>1. UNCHANGED <<inbox, late>> /\ (state' = state \/ state' = "Terminated")
    BY <1>8, ZenonT(30)
       DEF SpawnSelect, CompareExchange, JoinCore, Call, ShutdownLoad, PingAll, DropArc,
                Join, SpawnLoad, SpawnOnLoad, callVars
  <2>2. ~SendShutdown(c) /\ (CompareExchange(c) => state # "Running")
    BY <1>8, ZenonT(30)
       DEF SpawnSelect, CompareExchange, JoinCore, Call, ShutdownLoad, PingAll, DropArc,
                Join, SpawnLoad, SpawnOnLoad, SendShutdown
  <2> QED  BY <1>1, <1>a, <1>b, <2>1, <2>2
<1> QED  BY <1>3, <1>4, <1>5, <1>6, <1>7, <1>8 DEF InCall

\* new() returns.
LEMMA NewSafe ==
    ASSUME Safe, NewReturns
    PROVE  Safe'
<1>1. /\ UNCHANGED <<next_core, client, inbox, core, task_queue, late>>
      /\ state \notin {"ShuttingDown", "Terminated"} /\ state = "Initializing"
  BY DEF NewReturns, coreVars, callVars
<1>2. ClientTypes' /\ CoreTypes' /\ InboxTypes'
  BY <1>1 DEF Safe, ClientTypes, CoreTypes, InboxTypes
<1>3. Order'
  BY <1>1 DEF Safe, Order
<1> QED  BY <1>1, <1>2, <1>3, SMTT(30) DEF Safe

\* The cores of a runtime that is being built know nothing.
LEMMA InitSafe == Init => Safe
<1> SUFFICES ASSUME Init PROVE Safe
  OBVIOUS
<1>1. ClientTypes
  <2>1. [pc |-> "idle", task |-> None, at |-> 0, leaving |-> FALSE] \in ClientState
    BY Parts DEF ClientState, ClientPc
  <2> QED  BY <2>1 DEF Init, ClientTypes
<1>2. CoreTypes
  <2>1. [pc |-> "none", n |-> 0, cur |-> None, shutdown |-> FALSE, count |-> 0] \in CoreState
    BY Parts DEF CoreState, CorePc
  <2> QED  BY <2>1 DEF Init, CoreTypes
<1>3. InboxTypes
  BY DEF Init, InboxTypes
<1>4. \A k \in Core : inbox[k] = <<>> /\ ~core[k].shutdown /\ core[k].pc = "none"
  BY DEF Init
<1>5. \A c \in Client : client[c].pc = "idle"
  BY DEF Init
<1>6. Order
  BY <1>4, <1>5 DEF Order, Untold
<1>7. \A k \in Core : Told(inbox[k], core[k].shutdown, core[k].pc, late)
  BY <1>4 DEF Told
<1> QED  BY <1>1, <1>2, <1>3, <1>6, <1>7 DEF Safe

\* Safe is an invariant of MultiCore.
THEOREM MultiCoreSafe == Spec => []Safe
<1>1. ASSUME Safe, [Next]_vars
      PROVE  Safe'
  <2>1. CASE Next
    BY <1>1, <2>1, CoreSafe, NewSafe, ClientSafe, SMTT(30) DEF Next
  <2>2. CASE UNCHANGED vars
    <3>1. UNCHANGED <<state, next_core, client, inbox, core, task_queue, late>>
      BY <2>2 DEF vars, coreVars, callVars
    <3> QED  BY <1>1, <3>1 DEF Safe, ClientTypes, CoreTypes, InboxTypes, Order
  <2> QED  BY <1>1, <2>1, <2>2
<1> QED  BY <1>1, InitSafe, PTL DEF Spec

\* However many threads call shutdown(), drop the runtime or do both, each core
\* of however many is sent one Shutdown at most.
THEOREM MultiCoreOneShutdown == Spec => []OneShutdown
<1>1. Safe => OneShutdown
  BY DEF Safe, Told, OneShutdown
<1> QED  BY <1>1, MultiCoreSafe, PTL

\* A core that exits has read every task that was pushed while the runtime was
\* Running, with any number of cores, clients and tasks.
THEOREM MultiCoreNotStranded == Spec => []NotStranded
<1>1. Safe => NotStranded
  BY DEF Safe, Told, NotStranded
<1> QED  BY <1>1, MultiCoreSafe, PTL

-----------------------------------------------------------------------------
(* Where the tasks are: in an inbox, in a run queue or inside a poll, and  *)
(* each in one place only.                                                 *)

InTasks(q) == {t \in Task : \E i \in DOMAIN q : q[i] = TaskMsg(t)}
QTasks(r) == {t \in Task : \E i \in DOMAIN r : r[i] = t}

\* The tasks a core has, q being its inbox, r its run queue, and c what it polls.
Holds(q, r, c) == InTasks(q) \cup QTasks(r) \cup ({c} \cap Task)

\* ... each of them once.
Neat(q, r, c) ==
    /\ q \in Seq(Message) /\ r \in Seq(Task) /\ c \in MaybeTask
    /\ \A t \in Task : \A i, j \in DOMAIN q : q[i] = TaskMsg(t) /\ q[j] = TaskMsg(t) => i = j
    /\ \A i, j \in DOMAIN r : r[i] = r[j] => i = j
    /\ InTasks(q) \cap QTasks(r) = {} /\ c \notin InTasks(q) \cup QTasks(r)

\* A message says which task it carries.
LEMMA TaskOf ==
    /\ \A t, u \in Task : TaskMsg(t) = TaskMsg(u) => t = u
    /\ \A m \in Message : m.type = "Task" => m.task \in Task /\ m = TaskMsg(m.task)
    /\ \A m \in Message, t \in Task : m.type # "Task" => m # TaskMsg(t)
<1>1. \A t, u \in Task : TaskMsg(t) = TaskMsg(u) => t = u
  BY MessageKinds
<1>2. ASSUME NEW m \in Message, m.type = "Task"
      PROVE  m.task \in Task /\ m = TaskMsg(m.task)
  <2>1. \E t \in Task : m = TaskMsg(t)
    BY <1>2, MessageKinds DEF Message
  <2> QED  BY <2>1, MessageKinds
<1>3. \A m \in Message, t \in Task : m.type # "Task" => m # TaskMsg(t)
  BY MessageKinds
<1> QED  BY <1>1, <1>2, <1>3

\* The tasks of an inbox after a push.
LEMMA PushIn ==
    ASSUME NEW q \in Seq(Message), NEW m \in Message
    PROVE  InTasks(Append(q, m)) = InTasks(q) \cup {t \in Task : m = TaskMsg(t)}
<1> DEFINE s == Append(q, m)
<1>1. /\ DOMAIN q = 1 .. Len(q) /\ Len(q) \in Nat /\ DOMAIN s = 1 .. Len(q) + 1
      /\ \A i \in DOMAIN q : s[i] = q[i]
      /\ s[Len(q) + 1] = m
  BY InboxAppend
<1> HIDE DEF s
<1>2. \A i \in DOMAIN s : i \in DOMAIN q \/ i = Len(q) + 1
  BY <1>1
<1>3. DOMAIN q \subseteq DOMAIN s /\ Len(q) + 1 \in DOMAIN s
  BY <1>1
<1>4. InTasks(s) = InTasks(q) \cup {t \in Task : m = TaskMsg(t)}
  BY <1>1, <1>2, <1>3 DEF InTasks
<1> QED  BY <1>4 DEF s

\* The tasks of an inbox, and those behind its head.
LEMMA HeadIn ==
    ASSUME NEW q \in Seq(Message), q # <<>>
    PROVE  InTasks(q) = InTasks(Tail(q)) \cup {t \in Task : Head(q) = TaskMsg(t)}
<1> DEFINE s == Tail(q)
<1>1. /\ Head(q) = q[1] /\ Len(q) \in Nat \ {0} /\ DOMAIN q = 1 .. Len(q)
      /\ DOMAIN s = 1 .. Len(q) - 1
      /\ \A i \in DOMAIN s : s[i] = q[i + 1]
  BY InboxTail
<1> HIDE DEF s
<1>2. /\ 1 \in DOMAIN q /\ \A i \in DOMAIN s : i + 1 \in DOMAIN q
      /\ \A i \in DOMAIN q : i = 1 \/ (i - 1 \in DOMAIN s /\ s[i - 1] = q[i])
  BY <1>1
<1>3. InTasks(q) \subseteq InTasks(s) \cup {t \in Task : Head(q) = TaskMsg(t)}
  BY <1>1, <1>2 DEF InTasks
<1>4. InTasks(s) \cup {t \in Task : Head(q) = TaskMsg(t)} \subseteq InTasks(q)
  BY <1>1, <1>2 DEF InTasks
<1> QED  BY <1>3, <1>4 DEF s

\* A run queue after a push: its tasks, and that they are still all different.
LEMMA PushQueue ==
    ASSUME NEW r \in Seq(Task), NEW t \in Task
    PROVE  /\ Append(r, t) \in Seq(Task) /\ Len(Append(r, t)) = Len(r) + 1
           /\ QTasks(Append(r, t)) = QTasks(r) \cup {t}
           /\ (\A i, j \in DOMAIN r : r[i] = r[j] => i = j) /\ t \notin QTasks(r) =>
                 \A i, j \in DOMAIN Append(r, t) : Append(r, t)[i] = Append(r, t)[j] => i = j
<1> DEFINE s == Append(r, t)
<1>1. /\ s \in Seq(Task) /\ Len(s) = Len(r) + 1 /\ Len(r) \in Nat
      /\ DOMAIN r = 1 .. Len(r) /\ DOMAIN s = 1 .. Len(r) + 1
      /\ \A i \in DOMAIN r : s[i] = r[i]
      /\ s[Len(r) + 1] = t
  OBVIOUS
<1> HIDE DEF s
<1>2. \A i \in DOMAIN s : i \in DOMAIN r \/ i = Len(r) + 1
  BY <1>1
<1>3. DOMAIN r \subseteq DOMAIN s /\ Len(r) + 1 \in DOMAIN s
  BY <1>1
<1>4. QTasks(s) = QTasks(r) \cup {t}
  BY <1>1, <1>2, <1>3 DEF QTasks
<1>5. ASSUME \A i, j \in DOMAIN r : r[i] = r[j] => i = j, t \notin QTasks(r)
      PROVE  \A i, j \in DOMAIN s : s[i] = s[j] => i = j
  BY <1>1, <1>2, <1>5 DEF QTasks
<1> QED  BY <1>1, <1>4, <1>5 DEF s

\* A run queue, its head and what is behind it.
LEMMA PopQueue ==
    ASSUME NEW r \in Seq(Task), r # <<>>, \A i, j \in DOMAIN r : r[i] = r[j] => i = j
    PROVE  /\ Head(r) \in Task /\ Tail(r) \in Seq(Task) /\ Len(Tail(r)) = Len(r) - 1
           /\ Len(r) \in Nat
           /\ QTasks(r) = QTasks(Tail(r)) \cup {Head(r)} /\ Head(r) \notin QTasks(Tail(r))
           /\ \A i, j \in DOMAIN Tail(r) : Tail(r)[i] = Tail(r)[j] => i = j
<1> DEFINE s == Tail(r)
<1>1. /\ Head(r) = r[1] /\ Head(r) \in Task /\ Len(r) \in Nat \ {0} /\ DOMAIN r = 1 .. Len(r)
      /\ s \in Seq(Task) /\ Len(s) = Len(r) - 1
      /\ \A i \in 1 .. Len(r) - 1 : s[i] = r[i + 1]
  OBVIOUS
<1>2. DOMAIN s = 1 .. Len(s)
  BY <1>1
<1> HIDE DEF s
<1>3. /\ 1 \in DOMAIN r
      /\ \A i \in DOMAIN s : i + 1 \in DOMAIN r /\ i + 1 # 1 /\ s[i] = r[i + 1] /\ i \in Int
      /\ \A i \in DOMAIN r : i = 1 \/ (i - 1 \in DOMAIN s /\ s[i - 1] = r[i])
  BY <1>1, <1>2
<1>4. QTasks(r) \subseteq QTasks(s) \cup {Head(r)}
  BY <1>1, <1>3 DEF QTasks
<1>5. QTasks(s) \cup {Head(r)} \subseteq QTasks(r)
  <2>1. Head(r) \in QTasks(r)
    BY <1>1, <1>3 DEF QTasks
  <2>2. ASSUME NEW t \in QTasks(s) PROVE t \in QTasks(r)
    BY <1>3 DEF QTasks
  <2> QED  BY <2>1, <2>2
<1>6. Head(r) \notin QTasks(s)
  BY <1>1, <1>3 DEF QTasks
<1>7. ASSUME NEW i \in DOMAIN s, NEW j \in DOMAIN s, s[i] = s[j]
      PROVE  i = j
  <2>1. i + 1 = j + 1 /\ i \in Int /\ j \in Int
    BY <1>3, <1>7
  <2> QED  BY <2>1
<1> QED  BY <1>1, <1>4, <1>5, <1>6, <1>7 DEF s

\* Nothing is in an empty queue.
LEMMA NoTasks == InTasks(<<>>) = {} /\ QTasks(<<>>) = {}
BY DEF InTasks, QTasks

\* A push of a task the core does not have.
LEMMA NeatPush ==
    ASSUME NEW q, NEW r, NEW c, Neat(q, r, c), NEW t \in Task, t \notin Holds(q, r, c)
    PROVE  /\ Neat(Append(q, TaskMsg(t)), r, c)
           /\ Holds(Append(q, TaskMsg(t)), r, c) = Holds(q, r, c) \cup {t}
<1> DEFINE s == Append(q, TaskMsg(t))
<1>1. q \in Seq(Message) /\ TaskMsg(t) \in Message
  BY MessageKinds DEF Neat
<1>2. InTasks(s) = InTasks(q) \cup {t}
  BY <1>1, PushIn, TaskOf
<1>3. /\ s \in Seq(Message) /\ DOMAIN q = 1 .. Len(q) /\ Len(q) \in Nat
      /\ DOMAIN s = 1 .. Len(q) + 1
      /\ \A i \in DOMAIN q : s[i] = q[i]
      /\ s[Len(q) + 1] = TaskMsg(t)
  BY <1>1, InboxAppend
<1> HIDE DEF s
<1>4. \A i \in DOMAIN s : i \in DOMAIN q \/ i = Len(q) + 1
  BY <1>3
<1>5. t \notin InTasks(q) /\ t \notin QTasks(r) /\ t # c
  BY DEF Holds
<1>6. \A i \in DOMAIN q : q[i] # TaskMsg(t)
  BY <1>5 DEF InTasks
<1>7. ASSUME NEW u \in Task, NEW i \in DOMAIN s, NEW j \in DOMAIN s, s[i] = TaskMsg(u),
             s[j] = TaskMsg(u)
      PROVE  i = j
  <2>1. CASE u = t
    BY <1>3, <1>4, <1>6, <1>7, <2>1
  <2>2. CASE u # t
    <3>1. i \in DOMAIN q /\ j \in DOMAIN q
      BY <1>3, <1>4, <1>7, <2>2, TaskOf
    <3> QED  BY <3>1, <1>3, <1>7 DEF Neat
  <2> QED  BY <2>1, <2>2
<1>8. Neat(s, r, c)
  BY <1>2, <1>3, <1>5, <1>7 DEF Neat
<1> QED  BY <1>2, <1>8 DEF Holds, s

\* A push of a message that carries no task.
LEMMA NeatOther ==
    ASSUME NEW q, NEW r, NEW c, Neat(q, r, c), NEW m \in Message, m.type # "Task"
    PROVE  Neat(Append(q, m), r, c) /\ Holds(Append(q, m), r, c) = Holds(q, r, c)
<1> DEFINE s == Append(q, m)
<1>1. q \in Seq(Message) /\ \A t \in Task : m # TaskMsg(t)
  BY TaskOf DEF Neat
<1>2. InTasks(s) = InTasks(q)
  <2>1. {t \in Task : m = TaskMsg(t)} = {}
    BY <1>1
  <2>2. InTasks(s) = InTasks(q) \cup {t \in Task : m = TaskMsg(t)}
    BY <1>1, PushIn
  <2> QED  BY <2>1, <2>2
<1>3. /\ s \in Seq(Message) /\ DOMAIN q = 1 .. Len(q) /\ Len(q) \in Nat
      /\ DOMAIN s = 1 .. Len(q) + 1
      /\ \A i \in DOMAIN q : s[i] = q[i]
      /\ s[Len(q) + 1] = m
  BY <1>1, InboxAppend
<1> HIDE DEF s
<1>4. \A i \in DOMAIN s : i \in DOMAIN q \/ i = Len(q) + 1
  BY <1>3
<1>5. ASSUME NEW u \in Task, NEW i \in DOMAIN s, NEW j \in DOMAIN s, s[i] = TaskMsg(u),
             s[j] = TaskMsg(u)
      PROVE  i = j
  <2>1. i \in DOMAIN q /\ j \in DOMAIN q
    BY <1>1, <1>3, <1>4, <1>5
  <2> QED  BY <2>1, <1>3, <1>5 DEF Neat
<1>6. Neat(s, r, c)
  BY <1>2, <1>3, <1>5 DEF Neat
<1> QED  BY <1>2, <1>6 DEF Holds, s

\* process_messages takes the head of the inbox: a task goes to the run queue.
LEMMA NeatReceive ==
    ASSUME NEW q, NEW r, NEW c, Neat(q, r, c), q # <<>>
    PROVE  /\ Head(q).type # "Task" =>
                 Neat(Tail(q), r, c) /\ Holds(Tail(q), r, c) = Holds(q, r, c)
           /\ Head(q).type = "Task" =>
                 /\ Neat(Tail(q), Append(r, Head(q).task), c)
                 /\ Holds(Tail(q), Append(r, Head(q).task), c) = Holds(q, r, c)
<1> DEFINE s == Tail(q)
           t == Head(q).task
<1>1. /\ Head(q) \in Message /\ Head(q) = q[1] /\ s \in Seq(Message)
      /\ Len(q) \in Nat \ {0} /\ DOMAIN q = 1 .. Len(q) /\ DOMAIN s = 1 .. Len(q) - 1
      /\ \A i \in DOMAIN s : s[i] = q[i + 1]
  BY InboxTail DEF Neat
<1>2. InTasks(q) = InTasks(s) \cup {u \in Task : Head(q) = TaskMsg(u)}
  BY HeadIn DEF Neat
<1> HIDE DEF s
<1>3. /\ 1 \in DOMAIN q
      /\ \A i \in DOMAIN s : i + 1 \in DOMAIN q /\ i + 1 # 1 /\ s[i] = q[i + 1] /\ i \in Int
  BY <1>1
<1>4. ASSUME NEW u \in Task, NEW i \in DOMAIN s, NEW j \in DOMAIN s, s[i] = TaskMsg(u),
             s[j] = TaskMsg(u)
      PROVE  i = j
  <2>1. i + 1 = j + 1 /\ i \in Int /\ j \in Int
    BY <1>3, <1>4 DEF Neat
  <2> QED  BY <2>1
<1>5. ASSUME Head(q).type # "Task"
      PROVE  Neat(s, r, c) /\ Holds(s, r, c) = Holds(q, r, c)
  <2>1. InTasks(s) = InTasks(q)
    BY <1>1, <1>2, <1>5, TaskOf
  <2>2. Neat(s, r, c)
    BY <2>1, <1>1, <1>4 DEF Neat
  <2> QED  BY <2>1, <2>2 DEF Holds
<1>6. ASSUME Head(q).type = "Task"
      PROVE  /\ Neat(s, Append(r, t), c)
             /\ Holds(s, Append(r, t), c) = Holds(q, r, c)
  <2>1. t \in Task /\ Head(q) = TaskMsg(t)
    BY <1>1, <1>6, TaskOf
  <2> HIDE DEF t
  <2>2. InTasks(q) = InTasks(s) \cup {t}
    BY <1>2, <2>1, TaskOf
  <2>3. t \notin InTasks(s)
    BY <1>1, <1>3, <2>1 DEF InTasks, Neat
  <2>4. t \notin QTasks(r) /\ t # c /\ r \in Seq(Task)
    BY <2>2 DEF Neat
  <2>5. /\ Append(r, t) \in Seq(Task) /\ QTasks(Append(r, t)) = QTasks(r) \cup {t}
        /\ \A i, j \in DOMAIN Append(r, t) : Append(r, t)[i] = Append(r, t)[j] => i = j
    BY <2>1, <2>4, PushQueue DEF Neat
  <2>6. InTasks(s) \cap QTasks(Append(r, t)) = {} /\ c \notin InTasks(s) \cup QTasks(Append(r, t))
    BY <2>2, <2>3, <2>4, <2>5 DEF Neat
  <2>7. Neat(s, Append(r, t), c)
    BY <1>1, <1>4, <2>5, <2>6 DEF Neat
  <2> QED  BY <2>2, <2>5, <2>7 DEF Holds
<1> QED  BY <1>5, <1>6 DEF s, t

\* execute_tasks pops the head of the run queue and polls it.
LEMMA NeatPop ==
    ASSUME NEW q, NEW r, NEW c, Neat(q, r, c), c = None, r # <<>>
    PROVE  /\ Neat(q, Tail(r), Head(r)) /\ Holds(q, Tail(r), Head(r)) = Holds(q, r, c)
           /\ Head(r) \in Holds(q, r, c) /\ Head(r) \in Task
<1>1. /\ Head(r) \in Task /\ Tail(r) \in Seq(Task)
      /\ QTasks(r) = QTasks(Tail(r)) \cup {Head(r)} /\ Head(r) \notin QTasks(Tail(r))
      /\ \A i, j \in DOMAIN Tail(r) : Tail(r)[i] = Tail(r)[j] => i = j
  BY PopQueue DEF Neat
<1>2. c \notin Task
  BY MultiCoreAssumption
<1>3. Head(r) \in MaybeTask
  BY <1>1 DEF MaybeTask
<1>4. Neat(q, Tail(r), Head(r))
  BY <1>1, <1>3 DEF Neat
<1> QED  BY <1>1, <1>2, <1>4 DEF Holds

\* A poll is over: the task is gone, or back in the queue.
LEMMA NeatPolled ==
    ASSUME NEW q, NEW r, NEW c, Neat(q, r, c), c \in Task
    PROVE  /\ Neat(q, r, None) /\ Holds(q, r, None) = Holds(q, r, c) \ {c}
           /\ Neat(q, Append(r, c), None) /\ Holds(q, Append(r, c), None) = Holds(q, r, c)
           /\ c \in Holds(q, r, c)
<1>1. /\ None \notin Task /\ None \in MaybeTask /\ InTasks(q) \subseteq Task
      /\ QTasks(r) \subseteq Task
  BY MultiCoreAssumption DEF MaybeTask, InTasks, QTasks
<1>2. /\ Append(r, c) \in Seq(Task) /\ QTasks(Append(r, c)) = QTasks(r) \cup {c}
      /\ \A i, j \in DOMAIN Append(r, c) : Append(r, c)[i] = Append(r, c)[j] => i = j
  BY PushQueue DEF Neat
<1>3. Neat(q, r, None) /\ Neat(q, Append(r, c), None)
  BY <1>1, <1>2 DEF Neat
<1>4. Holds(q, r, None) = Holds(q, r, c) \ {c}
  BY <1>1 DEF Holds, Neat
<1>5. Holds(q, Append(r, c), None) = Holds(q, r, c) /\ c \in Holds(q, r, c)
  BY <1>1, <1>2 DEF Holds
<1> QED  BY <1>3, <1>4, <1>5

\* A core ends, and its inbox with it or not; or the inbox of a core that ended
\* is freed.
LEMMA NeatEnd ==
    ASSUME NEW q, NEW r, NEW c, Neat(q, r, c)
    PROVE  /\ Neat(q, <<>>, None) /\ Neat(<<>>, <<>>, None) /\ Neat(<<>>, r, c)
           /\ Holds(q, <<>>, None) \subseteq Holds(q, r, c) /\ Holds(<<>>, <<>>, None) = {}
           /\ c \notin Holds(q, <<>>, None)
           /\ Holds(<<>>, r, c) \subseteq Holds(q, r, c)
           /\ c \notin Holds(q, r, c) \ Holds(<<>>, r, c)
<1>1. /\ None \notin Task /\ None \in MaybeTask /\ InTasks(q) \subseteq Task
  BY MultiCoreAssumption DEF MaybeTask, InTasks
<1>2. <<>> \in Seq(Message) /\ <<>> \in Seq(Task) /\ DOMAIN <<>> = {}
  OBVIOUS
<1>3. Neat(q, <<>>, None) /\ Neat(<<>>, <<>>, None) /\ Neat(<<>>, r, c)
  BY <1>1, <1>2, NoTasks DEF Neat
<1>4. /\ Holds(q, <<>>, None) = InTasks(q) /\ Holds(<<>>, <<>>, None) = {}
      /\ Holds(<<>>, r, c) = QTasks(r) \cup ({c} \cap Task)
  BY <1>1, NoTasks DEF Holds
<1>5. c \notin InTasks(q)
  BY DEF Neat
<1> QED  BY <1>3, <1>4, <1>5 DEF Holds
================================================================================
