------------------------------- MODULE CpuProofs -------------------------------
(***************************************************************************)
(* Theorems about Cpu, for any number of tasks, clients and calls and any  *)
(* channel capacity: Safe is inductive and gives TypeOK and NoLostWake.    *)
(* CancelSticks, AcceptedNotLost and Lifecycle need task ids to be unique, *)
(* so they are proved on top of Safe under the assumption that the ids     *)
(* submit_task draws stay below the ids spawn draws: true of every CPU but *)
(* CPU 0, whose local ids start at 0.                                      *)
(***************************************************************************)
EXTENDS Cpu, TLAPS

\* What a message promises about the task it names.  This and the other parts of
\* the invariants take the state they read as parameters, so that a step that
\* leaves it alone needs no look inside.
MsgOK(m, ids, acc) ==
    /\ m.type = "SubmitTask" => /\ m.task \in Task \ Local /\ m.id \in Nat
                                /\ ids[m.task] = m.id
    /\ m.type # "SubmitTask" => m.task = None
    /\ m.type = "CancelTask" => m.id \in Nat /\ \E t \in acc : ids[t] = m.id

ChannelOK(ch, ids, acc) ==
    \A k \in DOMAIN ch : /\ MsgOK(ch[k], ids, acc)
                         /\ ch[k].type = "SubmitTask" => ch[k].task \in acc

SendingOK(snd, ids, acc) ==
    \A c \in Client : snd[c] # None => MsgOK(snd[c], ids, acc)

\* Tasks reach the map, a poll, a waker or an IoFuture only once accepted, and
\* accepted tasks have an id.
Shape ==
    /\ ChannelOK(channel, id, accepted)
    /\ SendingOK(sending, id, accepted)
    /\ cur # None => cur \in accepted \ task_queue
    /\ \A t \in accepted : id[t] \in Nat
    /\ \A t \in Task : wakers[t] > 0 \/ io[t] # "none" => t \in accepted

\* task_queue is a map: its entries have different keys.
MapKeys == \A t, u \in task_queue : id[t] = id[u] => t = u

Safe == TypeOK /\ Shape /\ MapKeys /\ NoLostWake

-----------------------------------------------------------------------------
(* Sequences.                                                              *)

\* Append adds one entry at the end and moves none.
LEMMA AppendAt ==
    ASSUME NEW S, NEW s \in Seq(S), NEW x \in S
    PROVE  /\ Append(s, x) \in Seq(S)
           /\ Len(Append(s, x)) = Len(s) + 1
           /\ DOMAIN Append(s, x) = DOMAIN s \cup {Len(s) + 1}
           /\ \A k \in DOMAIN s : Append(s, x)[k] = s[k]
           /\ Append(s, x)[Len(s) + 1] = x
OBVIOUS

\* Tail moves every entry but the first one place down.
LEMMA TailAt ==
    ASSUME NEW S, NEW s \in Seq(S), s # <<>>
    PROVE  /\ Head(s) \in S
           /\ Head(s) = s[1] /\ 1 \in DOMAIN s
           /\ Tail(s) \in Seq(S)
           /\ Len(Tail(s)) = Len(s) - 1
           /\ \A k \in DOMAIN Tail(s) : k + 1 \in DOMAIN s /\ Tail(s)[k] = s[k + 1]
           /\ \A k \in DOMAIN s : k # 1 => k - 1 \in DOMAIN Tail(s)
                                           /\ Tail(s)[k - 1] = s[k]
OBVIOUS

\* The ids in a queue after a push.
LEMMA RangeAppend ==
    ASSUME NEW S, NEW s \in Seq(S), NEW x \in S
    PROVE  Range(Append(s, x)) = Range(s) \cup {x}
<1>1. Range(Append(s, x)) \subseteq Range(s) \cup {x}
  BY AppendAt DEF Range
<1>2. Range(s) \subseteq Range(Append(s, x))
  <2>1. SUFFICES ASSUME NEW k \in DOMAIN s PROVE s[k] \in Range(Append(s, x))
    BY DEF Range
  <2>2. k \in DOMAIN Append(s, x) /\ Append(s, x)[k] = s[k]
    BY AppendAt
  <2> QED BY <2>2 DEF Range
<1>3. x \in Range(Append(s, x))
  <2>1. Len(s) + 1 \in DOMAIN Append(s, x) /\ Append(s, x)[Len(s) + 1] = x
    BY AppendAt
  <2> QED BY <2>1 DEF Range
<1> QED BY <1>1, <1>2, <1>3

\* A pop loses nothing but the head.
LEMMA RangePop ==
    ASSUME NEW S, NEW s \in Seq(S), s # <<>>
    PROVE  Range(s) \subseteq {Head(s)} \cup Range(Tail(s))
<1>1. SUFFICES ASSUME NEW k \in DOMAIN s
               PROVE  s[k] \in {Head(s)} \cup Range(Tail(s))
  BY DEF Range
<1>2. CASE k = 1
  BY <1>2, TailAt
<1>3. CASE k # 1
  <2>1. k - 1 \in DOMAIN Tail(s) /\ Tail(s)[k - 1] = s[k]
    BY <1>3, TailAt
  <2> QED BY <2>1 DEF Range
<1> QED BY <1>2, <1>3

\* The tasks on their way in a channel, which carries each of them once.
Carried(ch) == {t \in Task : \E k \in DOMAIN ch : ch[k].task = t}
Distinct(ch) ==
    \A k, l \in DOMAIN ch : ch[k].task = ch[l].task /\ ch[k].task \in Task => k = l

\* An empty channel carries nothing.
LEMMA CarriedNone == Distinct(<<>>) /\ Carried(<<>>) = {}
BY DEF Distinct, Carried

\* A message at the end of the channel.
LEMMA CarriedAppend ==
    ASSUME NEW ch \in Seq(Message), NEW m \in Message, Distinct(ch),
           m.task \in Task => m.task \notin Carried(ch)
    PROVE  /\ Distinct(Append(ch, m))
           /\ Carried(Append(ch, m)) = Carried(ch) \cup ({m.task} \cap Task)
<1> DEFINE s == Append(ch, m)
           n == Len(ch) + 1
<1>1. DOMAIN s = DOMAIN ch \cup {n} /\ s[n] = m /\ \A k \in DOMAIN ch : s[k] = ch[k]
  BY AppendAt
<1> HIDE DEF s, n
<1>2. Distinct(s)
  BY <1>1 DEF Distinct, Carried
<1>3. Carried(s) = Carried(ch) \cup ({m.task} \cap Task)
  BY <1>1 DEF Carried
<1> QED  BY <1>2, <1>3 DEF s

\* A message leaves the channel.
LEMMA CarriedTail ==
    ASSUME NEW ch \in Seq(Message), ch # <<>>, Distinct(ch)
    PROVE  /\ Distinct(Tail(ch))
           /\ Carried(Tail(ch)) = Carried(ch) \ {Head(ch).task}
           /\ Head(ch).task \in Task => Head(ch).task \in Carried(ch)
<1> DEFINE s == Tail(ch)
<1>1. /\ Head(ch) = ch[1] /\ 1 \in DOMAIN ch
      /\ \A k \in DOMAIN s : k + 1 \in DOMAIN ch /\ s[k] = ch[k + 1]
      /\ \A k \in DOMAIN ch : k # 1 => k - 1 \in DOMAIN s /\ s[k - 1] = ch[k]
  BY TailAt
<1>2. \A k \in DOMAIN s : k \in Nat \ {0}
  BY TailAt
<1> HIDE DEF s
<1>3. \A k \in DOMAIN s : k + 1 # 1
  BY <1>2
<1>4. ASSUME NEW k \in DOMAIN s, NEW l \in DOMAIN s, s[k].task = s[l].task, s[k].task \in Task
      PROVE  k = l
  <2>1. k + 1 = l + 1
    BY <1>1, <1>4 DEF Distinct
  <2> QED  BY <1>2, <2>1
<1>5. Carried(s) \subseteq Carried(ch)
  BY <1>1 DEF Carried
<1>6. ASSUME NEW t \in Carried(s) PROVE t # Head(ch).task
  BY <1>1, <1>3 DEF Carried, Distinct
<1>7. ASSUME NEW t \in Carried(ch), t # Head(ch).task PROVE t \in Carried(s)
  BY <1>1, <1>7 DEF Carried
<1>8. Head(ch).task \in Task => Head(ch).task \in Carried(ch)
  BY <1>1 DEF Carried
<1>9. Distinct(s)
  BY <1>4 DEF Distinct
<1>10. Carried(s) = Carried(ch) \ {Head(ch).task}
  BY <1>5, <1>6, <1>7
<1> QED  BY <1>8, <1>9, <1>10 DEF s

-----------------------------------------------------------------------------
(* Messages.                                                               *)

\* What a message promises still holds when more tasks have been accepted and ids
\* given to tasks that had none.
LEMMA MsgKeeps ==
    ASSUME NEW m, NEW ids, NEW ids2, NEW acc, NEW acc2, MsgOK(m, ids, acc),
           acc \subseteq acc2, acc \subseteq Task,
           \A t \in Task : ids[t] \in Nat => ids2[t] = ids[t]
    PROVE  MsgOK(m, ids2, acc2)
BY DEF MsgOK

\* So do the promises of the messages sent and being sent.
LEMMA MessagesKeep ==
    ASSUME NEW ch, NEW snd, NEW ids, NEW ids2, NEW acc, NEW acc2,
           ChannelOK(ch, ids, acc), SendingOK(snd, ids, acc),
           acc \subseteq acc2, acc \subseteq Task,
           \A t \in Task : ids[t] \in Nat => ids2[t] = ids[t]
    PROVE  ChannelOK(ch, ids2, acc2) /\ SendingOK(snd, ids2, acc2)
<1>1. ChannelOK(ch, ids2, acc2)
  BY MsgKeeps DEF ChannelOK
<1>2. SendingOK(snd, ids2, acc2)
  BY MsgKeeps DEF SendingOK
<1> QED BY <1>1, <1>2

-----------------------------------------------------------------------------
(* Safe is inductive.                                                      *)

\* A Cpu as Cpu::new makes it satisfies Safe.
LEMMA InitSafe == Init => Safe
<1> SUFFICES ASSUME Init PROVE Safe
  OBVIOUS
<1>1. TypeOK
  <2>1. /\ inRun \in BOOLEAN /\ running \in BOOLEAN /\ connected \in BOOLEAN
    BY Zenon DEF Init
  <2>2. ready_queue \in Seq(Nat) /\ channel \in Seq(Message) /\ Len(channel) <= Capacity
    BY CpuAssumption DEF Init
  <2>3. /\ io \in [Task -> {"none", "waiting", "done"}]
        /\ id \in [Task -> Nat \cup {None}] /\ wakers \in [Task -> Nat]
        /\ sending \in [Client -> Message \cup {None}]
        /\ polls \in [Task -> Nat]
    BY DEF Init
  <2> QED BY <2>1, <2>2, <2>3, CpuAssumption DEF Init, TypeOK
<1>2. Shape /\ MapKeys /\ NoLostWake
  BY CpuAssumption DEF Init, Shape, ChannelOK, SendingOK, MapKeys, NoLostWake
<1> QED BY <1>1, <1>2 DEF Safe

\* A push of an id keeps every wake-up already queued and records its own.
LEMMA WakeKeeps ==
    ASSUME TypeOK, NoLostWake, NEW i \in Nat, Wake(i),
           \A t \in task_queue' \cup {cur'} :
                 t \in task_queue \cup {cur} \/ id'[t] = i,
           cur = None \/ cur \in Task,
           id' = id
    PROVE  ready_queue' \in Seq(Nat) /\ woken' \subseteq Task /\ NoLostWake'
<1> ready_queue \in Seq(Nat)
  BY DEF TypeOK
<1>1. Range(ready_queue') = Range(ready_queue) \cup {i} /\ ready_queue' \in Seq(Nat)
  BY RangeAppend, AppendAt DEF Wake
<1>2. woken' \subseteq Task
  BY DEF TypeOK, Wake, WithId
<1>3. NoLostWake'
  BY <1>1 DEF NoLostWake, Wake, WithId
<1> QED BY <1>1, <1>2, <1>3

\* Whatever loop takes the next message, handling it keeps Safe.
LEMMA ReceiveSafe ==
    ASSUME Safe, Receive, cur = None,
           pc' \in {"messages", "drain", "leave"},
           UNCHANGED <<inRun, cur, idVars, clientVars, wakers>>
    PROVE  Safe'
<1> USE DEF Safe
<1> DEFINE m == Head(channel)
<1>1. /\ m \in Message /\ MsgOK(m, id, accepted)
      /\ m.type = "SubmitTask" => m.task \in accepted
      /\ channel' \in Seq(Message) /\ Len(channel') <= Capacity
      /\ \A k \in DOMAIN channel' :
            k + 1 \in DOMAIN channel /\ channel'[k] = channel[k + 1]
  <2>1. channel \in Seq(Message) /\ Len(channel) <= Capacity /\ channel # <<>>
    BY DEF TypeOK, Receive
  <2>2. channel' = Tail(channel)
    BY DEF Receive
  <2>3. Len(channel) \in Nat /\ Capacity \in Nat
    BY <2>1, CpuAssumption
  <2> QED BY <2>1, <2>2, <2>3, TailAt DEF Shape, ChannelOK
<1>2. /\ UNCHANGED <<timer, accepted, finished, polls>>
      /\ HandleSubmit(m) \/ HandleCancel(m) \/ HandleShutdown(m) \/ HandlePing(m)
  BY DEF Receive, HandleMessage
<1> USE DEF idVars, clientVars
<1>3. ChannelOK(channel, id, accepted)' /\ SendingOK(sending, id, accepted)'
  BY <1>1, <1>2 DEF Shape, ChannelOK
<1>4. CASE HandleSubmit(m)
  <2>1. /\ m.task \in accepted /\ m.id \in Nat /\ id[m.task] = m.id
        /\ m.task \in Task
    BY <1>1, <1>4 DEF HandleSubmit, MsgOK
  <2>2. /\ task_queue' = Insert(m.task, m.id) /\ Wake(m.id)
        /\ io' = DropIo(task_queue \cap WithId(m.id))
        /\ UNCHANGED <<cancelled_tasks, running, cancelHandled>>
    BY <1>4 DEF HandleSubmit
  <2>3. ready_queue' \in Seq(Nat) /\ woken' \subseteq Task /\ NoLostWake'
    <3>1. \A t \in task_queue' \cup {cur'} :
             t \in task_queue \cup {cur} \/ id'[t] = m.id
      BY <2>1, <2>2 DEF Insert
    <3> QED BY <2>1, <2>2, <3>1, WakeKeeps
  <2>4. TypeOK'
    BY <1>1, <1>2, <2>1, <2>2, <2>3 DEF TypeOK, Insert, DropIo
  <2>5. Shape'
    <3>1. \A t \in Task : io'[t] # "none" => io[t] # "none"
      BY <2>2 DEF DropIo, TypeOK
    <3> QED BY <1>2, <1>3, <3>1 DEF Shape
  <2>6. MapKeys'
    BY <1>2, <2>1, <2>2 DEF MapKeys, Insert, WithId, TypeOK
  <2> QED BY <2>3, <2>4, <2>5, <2>6
<1>5. CASE HandleCancel(m)
  <2>1. m.id \in Nat
    BY <1>1, <1>5 DEF HandleCancel, MsgOK
  <2>2. /\ task_queue' \subseteq task_queue
        /\ io' = DropIo(task_queue \cap WithId(m.id))
        /\ cancelled_tasks' = cancelled_tasks \cup {m.id}
        /\ cancelHandled' = cancelHandled \cup {m.id}
        /\ UNCHANGED <<ready_queue, woken, running>>
    BY <1>5 DEF HandleCancel
  <2>4. TypeOK'
    BY <1>1, <1>2, <2>1, <2>2, ZenonT(30) DEF TypeOK, DropIo
  <2>5. Shape'
    <3>1. \A t \in Task : io'[t] # "none" => io[t] # "none"
      BY <2>2 DEF DropIo, TypeOK
    <3> QED BY <1>2, <1>3, <2>2, <3>1 DEF Shape
  <2>6. MapKeys' /\ NoLostWake'
    BY <1>2, <2>2 DEF MapKeys, NoLostWake
  <2> QED BY <2>4, <2>5, <2>6
<1>6. CASE HandleShutdown(m) \/ HandlePing(m)
  <2>1. /\ UNCHANGED <<task_queue, io, ready_queue, woken, cancelled_tasks,
                       cancelHandled>>
        /\ running' = FALSE \/ running' = running
    BY <1>6 DEF HandleShutdown, HandlePing
  <2>2. running' \in BOOLEAN
    BY <2>1, ZenonT(30) DEF TypeOK
  <2>4. TypeOK'
    BY <1>1, <1>2, <2>1, <2>2 DEF TypeOK
  <2>5. Shape'
    BY <1>2, <1>3, <2>1 DEF Shape
  <2>6. MapKeys' /\ NoLostWake'
    BY <1>2, <2>1 DEF MapKeys, NoLostWake
  <2> QED BY <2>4, <2>5, <2>6
<1> QED BY <1>2, <1>4, <1>5, <1>6

\* Every step of the owner, the CPU thread, a client or a waker keeps Safe.
LEMMA NextSafe == Safe /\ [Next]_vars => Safe'
<1> SUFFICES ASSUME Safe, [Next]_vars PROVE Safe'
  OBVIOUS
<1> USE DEF Safe, loopVars, queueVars, idVars, clientVars, history
<1>1. ASSUME NEW t \in Task, Spawn(t) PROVE Safe'
  <2>1. id' = [id EXCEPT ![t] = next_task_id] /\ id[t] = None /\ t \notin accepted
    BY <1>1, CpuAssumption DEF Spawn, Shape, TypeOK
  <2>2. Range(ready_queue') = Range(ready_queue) \cup {next_task_id}
        /\ ready_queue' \in Seq(Nat)
    <3>1. ready_queue \in Seq(Nat) /\ next_task_id \in Nat
          /\ ready_queue' = Append(ready_queue, next_task_id)
      BY <1>1 DEF Spawn, TypeOK
    <3> QED BY <3>1, RangeAppend, AppendAt
  <2>3. TypeOK'
    BY <1>1, <2>1, <2>2 DEF Spawn, TypeOK, Insert, DropIo
  <2>4. Shape'
    <3>1. ChannelOK(channel, id, accepted)' /\ SendingOK(sending, id, accepted)'
      <4>1. /\ channel' = channel /\ sending' = sending
            /\ accepted \subseteq accepted' /\ accepted \subseteq Task
            /\ \A u \in Task : id[u] \in Nat => id'[u] = id[u]
        BY <1>1, <2>1, CpuAssumption DEF Spawn, TypeOK
      <4> QED BY <4>1, MessagesKeep DEF Shape
    <3>2. \A u \in Task : io'[u] # "none" => io[u] # "none"
      BY <1>1 DEF Spawn, DropIo, TypeOK
    <3>3. cur' = None /\ wakers' = wakers /\ accepted' = accepted \cup {t}
      BY <1>1, CpuAssumption DEF Spawn, TypeOK
    <3>4. \A u \in accepted' : id'[u] \in Nat
      BY <2>1, <3>3 DEF Shape, TypeOK
    <3> QED BY <3>1, <3>2, <3>3, <3>4 DEF Shape
  <2>5. MapKeys'
    BY <1>1, <2>1 DEF Spawn, MapKeys, Insert, WithId, TypeOK
  <2>6. NoLostWake'
    BY <1>1, <2>1, <2>2 DEF Spawn, NoLostWake, Insert, WithId, TypeOK, Shape
  <2> QED BY <2>3, <2>4, <2>5, <2>6
<1>2. ASSUME NEW t \in Task, ScheduleTimer(t) PROVE Safe'
  BY <1>2, ZenonT(30) DEF ScheduleTimer, TypeOK, Shape, MapKeys, NoLostWake
<1>3. ASSUME NEW run \in BOOLEAN, Enter(run) PROVE Safe'
  BY <1>3 DEF Enter, TypeOK, Shape, MapKeys, NoLostWake
<1>4. CASE ProcessMessages
  <2>1. CASE Receive /\ UNCHANGED pc
    BY <1>4, <2>1, ReceiveSafe, ZenonT(30) DEF ProcessMessages, TypeOK
  <2>2. CASE pc' = "timers" /\ UNCHANGED <<channel, running, queueVars, history>>
    BY <1>4, <2>2 DEF ProcessMessages, TypeOK, Shape, MapKeys, NoLostWake
  <2> QED BY <1>4, <2>1, <2>2 DEF ProcessMessages
<1>5. CASE ExpireTimers
  <2>1. ASSUME NEW i \in timer, timer' = timer \ {i}, Wake(i), UNCHANGED pc
        PROVE  Safe'
    <3>1. ready_queue' \in Seq(Nat) /\ woken' \subseteq Task /\ NoLostWake'
      BY <1>5, <2>1, WakeKeeps DEF ExpireTimers, TypeOK
    <3> QED BY <1>5, <2>1, <3>1 DEF ExpireTimers, TypeOK, Shape, MapKeys
  <2>2. CASE pc' = "ready" /\ UNCHANGED <<timer, ready_queue, woken>>
    BY <1>5, <2>2 DEF ExpireTimers, TypeOK, Shape, MapKeys, NoLostWake
  <2> QED BY <1>5, <2>1, <2>2 DEF ExpireTimers
<1>6. CASE PopReady
  <2>1. ASSUME ready_queue # <<>>, NEW i, i = Head(ready_queue),
               ready_queue' = Tail(ready_queue),
               SkipCancelled(i) \/ BeginPoll(i) \/ SkipUnknown(i)
        PROVE  Safe'
    <3>1. /\ i \in Nat /\ ready_queue' \in Seq(Nat)
          /\ Range(ready_queue) \subseteq {i} \cup Range(ready_queue')
      BY <2>1, TailAt, RangePop DEF TypeOK
    <3>2. CASE SkipCancelled(i)
      <4>1. TypeOK'
        BY <1>6, <2>1, <3>1, <3>2, ZenonT(30)
           DEF PopReady, SkipCancelled, TypeOK, DropIo
      <4>2. Shape' /\ MapKeys'
        BY <1>6, <2>1, <3>2 DEF PopReady, SkipCancelled, TypeOK, Shape,
                                MapKeys, DropIo
      <4>3. NoLostWake'
        BY <1>6, <2>1, <3>1, <3>2, CpuAssumption
           DEF PopReady, SkipCancelled, TypeOK, NoLostWake, WithId
      <4> QED BY <4>1, <4>2, <4>3
    <3>3. CASE BeginPoll(i)
      <4>1. PICK t \in task_queue \cap WithId(i) :
                /\ task_queue' = task_queue \ {t} /\ cur' = t
                /\ woken' = woken \ {t}
                /\ polls' = IF t \in Endless THEN polls
                            ELSE [polls EXCEPT ![t] = @ + 1]
        BY <3>3 DEF BeginPoll
      <4>2. TypeOK'
        <5>1. t \in Task /\ t # None /\ polls' \in [Task -> Nat]
          BY <4>1, CpuAssumption DEF TypeOK
        <5> QED BY <1>6, <2>1, <3>1, <3>3, <4>1, <5>1, ZenonT(30)
               DEF PopReady, BeginPoll, TypeOK
      <4>3. Shape' /\ MapKeys'
        BY <1>6, <2>1, <3>3, <4>1 DEF PopReady, BeginPoll, TypeOK, Shape,
                                      MapKeys
      <4>4. NoLostWake'
        BY <1>6, <2>1, <3>1, <3>3, <4>1 DEF PopReady, BeginPoll, TypeOK, MapKeys,
                                            NoLostWake, WithId
      <4> QED BY <4>2, <4>3, <4>4
    <3>4. CASE SkipUnknown(i)
      <4>1. TypeOK'
        BY <1>6, <2>1, <3>1, <3>4 DEF PopReady, SkipUnknown, TypeOK
      <4>2. Shape' /\ MapKeys'
        BY <1>6, <2>1, <3>4, ZenonT(30) DEF PopReady, SkipUnknown, Shape, MapKeys
      <4>3. NoLostWake'
        BY <1>6, <2>1, <3>1, <3>4, CpuAssumption
           DEF PopReady, SkipUnknown, TypeOK, NoLostWake, WithId
      <4> QED BY <4>1, <4>2, <4>3
    <3> QED BY <2>1, <3>2, <3>3, <3>4
  <2>2. CASE ready_queue = <<>>
    BY <1>6, <2>2, ZenonT(30) DEF PopReady, TypeOK, Shape, MapKeys, NoLostWake
  <2> QED BY <1>6, <2>1, <2>2 DEF PopReady
<1>7. CASE PollReady
  <2>1. TypeOK'
    BY <1>7 DEF PollReady, TypeOK, Shape
  <2>2. Shape'
    BY <1>7 DEF PollReady, TypeOK, Shape
  <2>3. MapKeys' /\ NoLostWake'
    BY <1>7, CpuAssumption DEF PollReady, TypeOK, MapKeys, NoLostWake
  <2> QED BY <2>1, <2>2, <2>3
<1>8. ASSUME NEW how \in {"yield", "thread", "io"}, PollPending(how) PROVE Safe'
  <2>1. cur \in accepted \ task_queue /\ id[cur] \in Nat /\ cur \in Task
    BY <1>8 DEF PollPending, TypeOK, Shape
  <2>2. /\ task_queue' = Insert(cur, id[cur]) /\ cur' = None /\ id' = id
        /\ cur' \notin Task
    BY <1>8, CpuAssumption DEF PollPending
  <2>3. ready_queue' \in Seq(Nat) /\ woken' \subseteq Task /\ NoLostWake'
    <3>1. \A t \in task_queue' : t \in task_queue \cup {cur}
      BY <2>2 DEF Insert
    <3>2. CASE how = "yield"
      <4>1. \A t \in task_queue' \cup {cur'} :
               t \in task_queue \cup {cur} \/ id'[t] = id[cur] \/ t = None
        BY <2>2, <3>1
      <4>2. Wake(id[cur])
        BY <1>8, <3>2 DEF PollPending
      <4>3. Range(ready_queue') = Range(ready_queue) \cup {id[cur]}
            /\ ready_queue' \in Seq(Nat)
        <5>1. ready_queue \in Seq(Nat) /\ ready_queue' = Append(ready_queue, id[cur])
          BY <4>2 DEF TypeOK, Wake
        <5> QED BY <2>1, <5>1, RangeAppend, AppendAt
      <4> QED BY <2>1, <2>2, <3>1, <4>2, <4>3 DEF Wake, WithId, TypeOK, NoLostWake
    <3>3. CASE how # "yield"
      BY <1>8, <2>1, <2>2, <3>1, <3>3 DEF PollPending, TypeOK, NoLostWake
    <3> QED BY <3>2, <3>3
  <2>4. TypeOK'
    BY <1>8, <2>1, <2>2, <2>3 DEF PollPending, TypeOK, Insert
  <2>5. Shape'
    BY <1>8, <2>1, <2>2 DEF PollPending, TypeOK, Shape
  <2>6. MapKeys'
    BY <2>1, <2>2 DEF MapKeys, Insert, WithId, TypeOK
  <2> QED BY <2>3, <2>4, <2>5, <2>6
<1>9. CASE PollPanic
  <2>1. TypeOK'
    BY <1>9, CpuAssumption DEF PollPanic, Teardown, TypeOK, Shape
  <2>2. Shape' /\ MapKeys' /\ NoLostWake'
    BY <1>9, CpuAssumption DEF PollPanic, Teardown, TypeOK, Shape, ChannelOK, MapKeys,
                               NoLostWake
  <2> QED BY <2>1, <2>2
<1>10. CASE PollIo
  <2>1. ASSUME NEW t \in Task, io[t] = "waiting", Wake(id[t]), UNCHANGED pc,
               io' = [io EXCEPT ![t] = "done"]
        PROVE  Safe'
    <3>1. t \in accepted /\ id[t] \in Nat
      BY <2>1 DEF Shape
    <3>2. ready_queue' \in Seq(Nat) /\ woken' \subseteq Task /\ NoLostWake'
      BY <1>10, <2>1, <3>1, WakeKeeps DEF PollIo, TypeOK
    <3> QED BY <1>10, <2>1, <3>1, <3>2 DEF PollIo, TypeOK, Shape, MapKeys
  <2>2. CASE UNCHANGED <<io, ready_queue, woken>>
             /\ pc' = IF inRun THEN "wait" ELSE "owner"
    BY <1>10, <2>2 DEF PollIo, TypeOK, Shape, MapKeys, NoLostWake
  <2> QED BY <1>10, <2>1, <2>2, ZenonT(30) DEF PollIo
<1>11. CASE Wait
  BY <1>11 DEF Wait, TypeOK, Shape, MapKeys, NoLostWake
<1>12. CASE RecvTimeout
  <2>1. CASE Receive
    BY <1>12, <2>1, ReceiveSafe DEF RecvTimeout, LoopHead, TypeOK
  <2>2. CASE /\ running' = FALSE \/ running' = running
             /\ UNCHANGED <<channel, queueVars, history>>
    <3>1. running' \in BOOLEAN
      BY <2>2, ZenonT(30) DEF TypeOK
    <3> QED BY <1>12, <2>2, <3>1 DEF RecvTimeout, LoopHead, TypeOK, Shape,
                                     MapKeys, NoLostWake
  <2> QED BY <1>12, <2>1, <2>2, ZenonT(30) DEF RecvTimeout
<1>13. CASE Drain
  <2>1. CASE Receive /\ UNCHANGED pc
    BY <1>13, <2>1, ReceiveSafe, ZenonT(30) DEF Drain, TypeOK
  <2>2. CASE pc' = LoopHead(running)
             /\ UNCHANGED <<channel, running, queueVars, history>>
    BY <1>13, <2>2 DEF Drain, LoopHead, TypeOK, Shape, MapKeys, NoLostWake
  <2> QED BY <1>13, <2>1, <2>2 DEF Drain
<1>14. CASE Exit
  <2>1. TypeOK'
    BY <1>14, CpuAssumption DEF Exit, Teardown, TypeOK
  <2>2. Shape' /\ MapKeys' /\ NoLostWake'
    BY <1>14 DEF Exit, Teardown, TypeOK, Shape, ChannelOK, MapKeys, NoLostWake
  <2> QED BY <2>1, <2>2
<1>15. ASSUME NEW c \in Client, NEW t \in Task, CallSubmit(c, t) PROVE Safe'
  <2> DEFINE m == SubmitTask(t, GLOBAL_TASK_ID_COUNTER)
  <2>1. /\ id' = [id EXCEPT ![t] = GLOBAL_TASK_ID_COUNTER] /\ id[t] = None
        /\ t \notin accepted /\ t \notin Local
        /\ sending' = [sending EXCEPT ![c] = m]
    BY <1>15, CpuAssumption DEF CallSubmit, Call, Shape, TypeOK
  <2>2. m \in Message /\ m.type = "SubmitTask" /\ m.task = t
        /\ m.id = GLOBAL_TASK_ID_COUNTER
    BY DEF SubmitTask, Message, TypeOK
  <2> HIDE DEF m
  <2>3. TypeOK'
    BY <1>15, <2>1, <2>2 DEF CallSubmit, Call, TypeOK
  <2>4. Shape'
    <3>1. /\ UNCHANGED <<channel, accepted, cur, task_queue, wakers, io>>
          /\ accepted \subseteq Task
          /\ \A u \in Task : id[u] \in Nat => id'[u] = id[u]
      BY <1>15, <2>1, CpuAssumption DEF CallSubmit, Call, TypeOK
    <3>2. ChannelOK(channel, id', accepted) /\ SendingOK(sending, id', accepted)
      BY <3>1, MessagesKeep, ZenonT(30) DEF Shape
    <3>3. MsgOK(m, id', accepted)
      BY <2>1, <2>2 DEF MsgOK, TypeOK
    <3>4. SendingOK(sending', id', accepted)
      BY <2>1, <3>2, <3>3 DEF SendingOK, TypeOK
    <3>5. \A u \in accepted : id'[u] \in Nat
      BY <3>1, ZenonT(30) DEF Shape
    <3> QED BY <3>1, <3>2, <3>4, <3>5, ZenonT(30) DEF Shape
  <2>5. MapKeys' /\ NoLostWake'
    <3>1. \A u \in task_queue \cup {cur} : u # None => u # t /\ id'[u] = id[u]
      BY <2>1 DEF TypeOK, Shape
    <3>2. UNCHANGED <<task_queue, cur, ready_queue, woken>>
      BY <1>15 DEF CallSubmit, Call
    <3>3. \A u \in task_queue \cup woken : u \in Task /\ u # None
      BY CpuAssumption DEF TypeOK
    <3>4. MapKeys'
      BY <3>1, <3>2, <3>3 DEF MapKeys
    <3>5. NoLostWake'
      BY <3>1, <3>2, <3>3 DEF NoLostWake
    <3> QED BY <3>4, <3>5
  <2> QED BY <2>3, <2>4, <2>5
<1>16. ASSUME NEW c \in Client, NEW m \in Message, MsgOK(m, id, accepted), Call(c, m),
              UNCHANGED <<id, GLOBAL_TASK_ID_COUNTER>>
       PROVE  Safe'
  <2>1. TypeOK'
    BY <1>16 DEF Call, TypeOK
  <2>2. Shape'
    <3>1. UNCHANGED <<channel, id, accepted, cur, task_queue, wakers, io>>
      BY <1>16 DEF Call
    <3>2. SendingOK(sending', id, accepted)
      BY <1>16 DEF Call, Shape, SendingOK, TypeOK
    <3> QED BY <3>1, <3>2, ZenonT(30) DEF Shape
  <2>3. MapKeys' /\ NoLostWake'
    BY <1>16, ZenonT(30) DEF Call, MapKeys, NoLostWake
  <2> QED BY <2>1, <2>2, <2>3
<1>17. ASSUME NEW c \in Client, NEW t \in Task, CallCancel(c, t) PROVE Safe'
  <2>1. CancelTask(id[t]) \in Message /\ MsgOK(CancelTask(id[t]), id, accepted)
    BY <1>17, ZenonT(30) DEF CallCancel, CancelTask, Message, MsgOK, Shape, TypeOK
  <2> QED BY <1>16, <1>17, <2>1 DEF CallCancel
<1>18. ASSUME NEW c \in Client, CallOther(c) PROVE Safe'
  <2>1. /\ Shutdown \in Message /\ MsgOK(Shutdown, id, accepted)
        /\ Ping \in Message /\ MsgOK(Ping, id, accepted)
    BY DEF Shutdown, Ping, Message, MsgOK
  <2> QED BY <1>16, <1>18, <2>1 DEF CallOther
<1>19. ASSUME NEW c \in Client, SendOk(c) PROVE Safe'
  <2> DEFINE m == sending[c]
  <2>1. /\ m \in Message /\ MsgOK(m, id, accepted)
        /\ channel \in Seq(Message) /\ Len(channel) < Capacity
        /\ channel' = Append(channel, m) /\ sending' = [sending EXCEPT ![c] = None]
        /\ accepted' = accepted \cup ({m.task} \ {None})
        /\ UNCHANGED <<loopVars, queueVars, idVars, connected, calls, wakers>>
        /\ UNCHANGED <<finished, polls, woken, cancelHandled>>
    BY <1>19 DEF SendOk, TypeOK, Shape, SendingOK
  <2> HIDE DEF m
  <2>2. /\ channel' \in Seq(Message) /\ Len(channel') <= Capacity
        /\ \A k \in DOMAIN channel' : \/ k \in DOMAIN channel
                                         /\ channel'[k] = channel[k]
                                      \/ channel'[k] = m
    <3>1. Len(channel) \in Nat /\ Capacity \in Nat
      BY <2>1, CpuAssumption
    <3>2. /\ channel \in Seq(Message) /\ m \in Message /\ Len(channel) < Capacity
          /\ channel' = Append(channel, m)
      BY <2>1, Zenon
    <3>3. /\ channel' \in Seq(Message) /\ Len(channel') = Len(channel) + 1
          /\ DOMAIN channel' = DOMAIN channel \cup {Len(channel) + 1}
          /\ \A k \in DOMAIN channel : channel'[k] = channel[k]
          /\ channel'[Len(channel) + 1] = m
      BY <3>2, AppendAt
    <3>4. Len(channel') <= Capacity
      BY <3>1, <3>2, <3>3
    <3> QED BY <3>3, <3>4, Zenon
  <2>3. \/ accepted' = accepted /\ m.type # "SubmitTask"
        \/ /\ accepted' = accepted \cup {m.task} /\ m.task \in Task
           /\ id[m.task] \in Nat
    BY <2>1, CpuAssumption DEF MsgOK
  <2>4. /\ accepted \subseteq accepted' /\ accepted' \subseteq Task
        /\ \A t \in accepted' : id[t] \in Nat
        /\ m.type = "SubmitTask" => m.task \in accepted'
    BY <2>3 DEF Shape, TypeOK
  <2>5. TypeOK'
    <3>1. sending' \in [Client -> Message \cup {None}]
      BY <2>1, ZenonT(30) DEF TypeOK
    <3> QED BY <2>1, <2>2, <2>4, <3>1, ZenonT(30) DEF TypeOK
  <2>6. Shape'
    <3>1. /\ ChannelOK(channel, id, accepted') /\ SendingOK(sending, id, accepted')
          /\ MsgOK(m, id, accepted')
      <4>1. /\ ChannelOK(channel, id, accepted) /\ SendingOK(sending, id, accepted)
            /\ MsgOK(m, id, accepted)
            /\ accepted \subseteq accepted' /\ accepted \subseteq Task
        BY <2>1, <2>4 DEF Shape, TypeOK
      <4>2. ChannelOK(channel, id, accepted') /\ SendingOK(sending, id, accepted')
        BY <4>1, MessagesKeep, Zenon
      <4>3. MsgOK(m, id, accepted')
        BY <4>1, MsgKeeps, Zenon
      <4> QED BY <4>2, <4>3
    <3>2. ChannelOK(channel', id, accepted')
      BY <2>2, <2>4, <3>1, ZenonT(30) DEF ChannelOK
    <3>3. SendingOK(sending', id, accepted')
      BY <2>1, <3>1, ZenonT(30) DEF SendingOK, TypeOK
    <3> QED BY <2>1, <2>4, <3>2, <3>3, ZenonT(30) DEF Shape
  <2>7. MapKeys' /\ NoLostWake'
    BY <2>1 DEF MapKeys, NoLostWake
  <2> QED BY <2>5, <2>6, <2>7
<1>20. ASSUME NEW c \in Client, SendErr(c) PROVE Safe'
  <2>1. /\ UNCHANGED <<loopVars, queueVars, idVars, channel, connected, calls,
                       wakers, history>>
        /\ sending' = [sending EXCEPT ![c] = None]
    BY <1>20 DEF SendErr
  <2>2. /\ sending' \in [Client -> Message \cup {None}]
        /\ SendingOK(sending', id, accepted)
    BY <2>1 DEF TypeOK, Shape, SendingOK
  <2>3. TypeOK'
    BY <2>1, <2>2 DEF TypeOK
  <2>4. Shape' /\ MapKeys' /\ NoLostWake'
    BY <2>1, <2>2, ZenonT(30) DEF Shape, MapKeys, NoLostWake
  <2> QED BY <2>3, <2>4
<1>21. CASE DropHandles
  BY <1>21, ZenonT(30) DEF DropHandles, TypeOK, Shape, MapKeys, NoLostWake
<1>22. ASSUME NEW t \in Task, ThreadWake(t) PROVE Safe'
  <2>1. t \in accepted /\ id[t] \in Nat
    BY <1>22, ZenonT(30) DEF ThreadWake, Shape
  <2>2. ready_queue' \in Seq(Nat) /\ woken' \subseteq Task /\ NoLostWake'
    BY <1>22, <2>1, WakeKeeps DEF ThreadWake, TypeOK
  <2>3. wakers' \in [Task -> Nat] /\ \A u \in Task : wakers'[u] > 0 => u \in accepted
    BY <1>22, <2>1 DEF ThreadWake, TypeOK, Shape
  <2> QED BY <1>22, <2>1, <2>2, <2>3, ZenonT(30)
         DEF ThreadWake, TypeOK, Shape, MapKeys
<1>23. CASE UNCHANGED vars
  BY <1>23 DEF vars, TypeOK, Shape, MapKeys, NoLostWake
<1> QED
  BY <1>1, <1>2, <1>3, <1>4, <1>5, <1>6, <1>7, <1>8, <1>9, <1>10, <1>11, <1>12,
     <1>13, <1>14, <1>15, <1>17, <1>18, <1>19, <1>20, <1>21, <1>22, <1>23
     DEF Next, Owner, CpuThread, Clients, Done

\* For every instance, the loop keeps its types: among them that the channel
\* never exceeds its capacity and that only accepted tasks are ever in the map.
THEOREM CpuTypeOK == Spec => []TypeOK
<1>1. Spec => []Safe
  BY InitSafe, NextSafe, PTL DEF Spec
<1>2. Safe => TypeOK
  BY DEF Safe
<1> QED BY <1>1, <1>2, PTL

\* For every instance, CPU 0 included, no wake-up is lost: not one that arrives
\* while tick() has the task out of the map, nor one that overtakes a cancel or
\* an overwritten map entry.
THEOREM CpuNoLostWake == Spec => []NoLostWake
<1>1. Spec => []Safe
  BY InitSafe, NextSafe, PTL DEF Spec
<1>2. Safe => NoLostWake
  BY DEF Safe
<1> QED BY <1>1, <1>2, PTL

-----------------------------------------------------------------------------
(* Unique ids, and the order of the channel.                               *)

\* The ids drawn so far are below the two counters, and no two tasks share one.
IdsOK(ids, local, global) ==
    /\ global \in 1..(MaxSubmits + 1) /\ local >= LocalBase
    /\ \A t \in Task : ids[t] # None =>
          \/ t \in Local /\ LocalBase <= ids[t] /\ ids[t] < local
          \/ t \notin Local /\ 1 <= ids[t] /\ ids[t] < global
    /\ \A t, u \in Task : ids[t] # None /\ ids[t] = ids[u] => t = u

\* A task's SubmitTask is sent once ...
SentOnce(snd, acc) ==
    /\ \A c \in Client : snd[c] # None /\ snd[c].type = "SubmitTask"
                            => snd[c].task \notin acc
    /\ \A c, d \in Client :
          /\ snd[c] # None /\ snd[c].type = "SubmitTask"
          /\ snd[d] # None /\ snd[d].type = "SubmitTask"
          /\ snd[c].task = snd[d].task
          => c = d

\* ... before any CancelTask that names it, and the channel keeps that order.
CancelAfter(ch, handled) ==
    /\ \A k, l \in DOMAIN ch :
          k < l /\ ch[k].type = "CancelTask" /\ ch[l].type = "SubmitTask"
             => ch[k].id # ch[l].id
    /\ \A k \in DOMAIN ch : ch[k].type = "SubmitTask" => ch[k].id \notin handled

\* Only ids of accepted tasks are cancelled, and only handled cancels leave marks.
HandledOK(handled, marks, ids, acc) ==
    /\ \A i \in handled : \E t \in acc : ids[t] = i
    /\ marks \subseteq handled

Ids == IdsOK(id, next_task_id, GLOBAL_TASK_ID_COUNTER)
Fifo == /\ SentOnce(sending, accepted)
        /\ CancelAfter(channel, cancelHandled)
        /\ HandledOK(cancelHandled, cancelled_tasks, id, accepted)

Ordered == Ids /\ Fifo /\ CancelSticks /\ AcceptedNotLost

-----------------------------------------------------------------------------
(* Ordered is inductive relative to Safe, when local and global ids cannot *)
(* meet.                                                                   *)

\* A message that leaves a sender for the channel is not sent again.
LEMMA SentOnceDone ==
    ASSUME NEW snd \in [Client -> Message \cup {None}], NEW acc, NEW c \in Client,
           SentOnce(snd, acc), snd[c] # None
    PROVE  LET snd2 == [snd EXCEPT ![c] = None]
           IN /\ SentOnce(snd2, acc)
              /\ snd[c].type = "SubmitTask" => /\ snd[c].task \notin acc
                                               /\ SentOnce(snd2, acc \cup {snd[c].task})
<1> DEFINE snd2 == [snd EXCEPT ![c] = None]
<1>1. \A d \in Client : snd2[d] # None => d # c /\ snd2[d] = snd[d]
  OBVIOUS
<1> HIDE DEF snd2
<1>2. SentOnce(snd2, acc)
  BY <1>1, Zenon DEF SentOnce
<1>3. ASSUME snd[c].type = "SubmitTask"
      PROVE  snd[c].task \notin acc /\ SentOnce(snd2, acc \cup {snd[c].task})
  <2>1. snd[c].task \notin acc
    BY <1>3, Zenon DEF SentOnce
  <2>2. \A d \in Client : snd2[d] # None /\ snd2[d].type = "SubmitTask"
                             => snd2[d].task # snd[c].task
    BY <1>1, <1>3, Zenon DEF SentOnce
  <2> QED BY <1>2, <2>1, <2>2, Zenon DEF SentOnce
<1> QED BY <1>2, <1>3, Zenon DEF snd2

\* A message appended to the channel keeps cancels behind what they cancel.
LEMMA CancelAfterAppend ==
    ASSUME NEW ch \in Seq(Message), NEW m \in Message, NEW handled,
           CancelAfter(ch, handled),
           m.type = "SubmitTask" => m.id \notin handled,
           m.type = "SubmitTask" =>
              \A k \in DOMAIN ch : ch[k].type = "CancelTask" => ch[k].id # m.id
    PROVE  CancelAfter(Append(ch, m), handled)
<1> DEFINE ch2 == Append(ch, m)
           n == Len(ch) + 1
<1>1. /\ DOMAIN ch2 = DOMAIN ch \cup {n} /\ ch2[n] = m
      /\ \A k \in DOMAIN ch : ch2[k] = ch[k]
  BY AppendAt
<1>2. \A k \in DOMAIN ch : ~(n < k)
  OBVIOUS
<1>3. ~(n < n)
  OBVIOUS
<1> HIDE DEF ch2, n
<1> QED BY <1>1, <1>2, <1>3 DEF CancelAfter, ch2

\* A Cpu as Cpu::new makes it satisfies Ordered.
LEMMA InitOrdered == Init => Ordered
<1> SUFFICES ASSUME Init PROVE Ordered
  OBVIOUS
<1>1. Ids
  BY CpuAssumption DEF Init, Ids, IdsOK
<1>2. Fifo
  BY CpuAssumption DEF Init, Fifo, SentOnce, CancelAfter, HandledOK
<1>3. CancelSticks /\ AcceptedNotLost
  BY DEF Init, CancelSticks, AcceptedNotLost
<1> QED BY <1>1, <1>2, <1>3 DEF Ordered

\* Handling a message neither revives a cancelled task nor mislays one: when a
\* CancelTask is handled, its SubmitTask is already out of the channel.
LEMMA ReceiveOrdered ==
    ASSUME Safe, Ordered, Receive, cur = None, ~Stopped,
           UNCHANGED <<inRun, cur, idVars, clientVars, wakers>>
    PROVE  Ordered'
<1> USE DEF Safe, Ordered, idVars, clientVars
<1> DEFINE m == Head(channel)
<1>1. /\ m \in Message /\ MsgOK(m, id, accepted)
      /\ m.type = "SubmitTask" => m.task \in accepted /\ m.id \notin cancelHandled
      /\ \A k \in DOMAIN channel' :
            k + 1 \in DOMAIN channel /\ channel'[k] = channel[k + 1]
      /\ \A k \in DOMAIN channel : \/ k = 1 /\ channel[k] = m
                                   \/ k - 1 \in DOMAIN channel'
                                      /\ channel'[k - 1] = channel[k]
      /\ \A k \in DOMAIN channel' :
            m.type = "CancelTask" /\ channel'[k].type = "SubmitTask"
               => m.id # channel'[k].id
      /\ DOMAIN channel \subseteq Nat /\ DOMAIN channel' \subseteq Nat \ {0}
  <2>1. channel \in Seq(Message) /\ channel # <<>> /\ channel' = Tail(channel)
    BY DEF TypeOK, Receive
  <2>2. /\ m \in Message /\ 1 \in DOMAIN channel /\ m = channel[1]
        /\ \A k \in DOMAIN channel' :
              k + 1 \in DOMAIN channel /\ channel'[k] = channel[k + 1]
        /\ \A k \in DOMAIN channel : \/ k = 1
                                     \/ k - 1 \in DOMAIN channel'
                                        /\ channel'[k - 1] = channel[k]
        /\ DOMAIN channel \subseteq Nat /\ DOMAIN channel' \subseteq Nat \ {0}
    BY <2>1, TailAt
  <2>3. \A k \in DOMAIN channel' : 1 < k + 1
    BY <2>2
  <2>4. ChannelOK(channel, id, accepted) /\ CancelAfter(channel, cancelHandled)
    BY DEF Shape, Fifo
  <2>5. /\ MsgOK(m, id, accepted)
        /\ m.type = "SubmitTask" => m.task \in accepted /\ m.id \notin cancelHandled
    BY <2>2, <2>4 DEF ChannelOK, CancelAfter
  <2>6. \A k \in DOMAIN channel' :
           m.type = "CancelTask" /\ channel'[k].type = "SubmitTask"
              => m.id # channel'[k].id
    BY <2>2, <2>3, <2>4 DEF CancelAfter
  <2> QED BY <2>2, <2>5, <2>6
<1>2. /\ UNCHANGED <<timer, accepted, finished, polls>>
      /\ HandleSubmit(m) \/ HandleCancel(m) \/ HandleShutdown(m) \/ HandlePing(m)
  BY DEF Receive, HandleMessage
<1>3. Ids' /\ SentOnce(sending, accepted)'
  BY <1>2 DEF Ids, Fifo
<1>4. CancelAfter(channel', cancelHandled)
  <2>1. \A k, l \in DOMAIN channel' : k < l => k + 1 < l + 1
    BY <1>1
  <2>2. CancelAfter(channel, cancelHandled)
    BY DEF Fifo
  <2> QED BY <1>1, <2>1, <2>2 DEF CancelAfter
<1>5. \A t \in accepted : InChannel(t) => InChannel(t)' \/ m.task = t
  BY <1>1, <1>2 DEF InChannel
<1>6. \A t \in accepted : Kept(t)
  BY DEF AcceptedNotLost
<1>7. \A t \in accepted : t \in Task /\ t # None /\ id[t] # None
  BY CpuAssumption DEF TypeOK, Shape
<1> HIDE DEF m
<1>8. CASE HandleSubmit(m)
  <2>1. /\ m.task \in accepted /\ id[m.task] = m.id /\ m.id \notin cancelHandled
        /\ task_queue' = Insert(m.task, m.id)
        /\ UNCHANGED <<cancelled_tasks, running, cancelHandled>>
    BY <1>1, <1>8 DEF HandleSubmit, MsgOK
  <2>2. Fifo'
    BY <1>2, <1>3, <1>4, <2>1 DEF Fifo
  <2>3. CancelSticks'
    BY <1>2, <2>1 DEF CancelSticks, Insert
  <2>4. ASSUME NEW t \in accepted PROVE Kept(t)'
    <3>1. t \in task_queue => t \in task_queue'
      BY <1>7, <2>1 DEF Insert, WithId, Ids, IdsOK
    <3>2. m.task = t => t \in task_queue'
      BY <2>1 DEF Insert
    <3> QED BY <1>2, <1>5, <1>6, <2>1, <3>1, <3>2 DEF Kept
  <2> QED BY <1>2, <1>3, <2>2, <2>3, <2>4 DEF AcceptedNotLost
<1>9. CASE HandleCancel(m)
  <2>1. /\ \E t \in accepted : id[t] = m.id
        /\ m.task = None
        /\ task_queue' = task_queue \ WithId(m.id)
        /\ cancelled_tasks' = cancelled_tasks \cup {m.id}
        /\ cancelHandled' = cancelHandled \cup {m.id}
        /\ m.type = "CancelTask"
    BY <1>1, <1>9 DEF HandleCancel, MsgOK
  <2>2. Fifo'
    <3>1. CancelAfter(channel', cancelHandled')
      BY <1>1, <1>4, <2>1 DEF CancelAfter
    <3>2. HandledOK(cancelHandled', cancelled_tasks', id, accepted)
      BY <2>1 DEF Fifo, HandledOK
    <3> QED BY <1>2, <1>3, <3>1, <3>2 DEF Fifo
  <2>3. CancelSticks'
    BY <1>2, <2>1 DEF CancelSticks, WithId, TypeOK
  <2>4. ASSUME NEW t \in accepted PROVE Kept(t)'
    <3>1. t \in task_queue => t \in task_queue' \/ id[t] \in cancelHandled'
      BY <1>7, <2>1 DEF WithId
    <3> QED BY <1>2, <1>5, <1>6, <1>7, <2>1, <3>1 DEF Kept
  <2> QED BY <1>2, <1>3, <2>2, <2>3, <2>4 DEF AcceptedNotLost
<1>10. CASE HandleShutdown(m) \/ HandlePing(m)
  <2>1. m.task = None /\ UNCHANGED <<task_queue, cancelled_tasks, cancelHandled>>
    BY <1>1, <1>10 DEF HandleShutdown, HandlePing, MsgOK
  <2>2. Fifo'
    BY <1>2, <1>3, <1>4, <2>1 DEF Fifo
  <2>3. CancelSticks'
    BY <1>2, <2>1 DEF CancelSticks
  <2>4. ASSUME NEW t \in accepted PROVE Kept(t)'
    BY <1>2, <1>5, <1>6, <1>7, <2>1 DEF Kept
  <2> QED BY <1>2, <1>3, <2>2, <2>3, <2>4 DEF AcceptedNotLost
<1> QED BY <1>2, <1>8, <1>9, <1>10

\* Steps that move no message, no task and no mark.
LEMMA QuietOrdered ==
    ASSUME Ordered, ~Stopped \/ UNCHANGED pc,
           UNCHANGED <<idVars, channel, sending, accepted, finished, cur,
                       task_queue, cancelled_tasks, cancelHandled>>
    PROVE  Ordered'
<1>1. Ids'
  BY DEF Ordered, Ids, idVars
<1>2. Fifo'
  BY DEF Ordered, Fifo, idVars
<1>3. CancelSticks'
  BY DEF Ordered, CancelSticks, idVars
<1>4. AcceptedNotLost'
  BY DEF Ordered, AcceptedNotLost, Kept, InChannel, Stopped, idVars
<1> QED BY <1>1, <1>2, <1>3, <1>4 DEF Ordered

\* A new id is none of the ids in use.
LEMMA FreshId ==
    ASSUME MaxSubmits < LocalBase, Safe, Ids, NEW t \in Task, id[t] = None,
           NEW i \in Nat, id' = [id EXCEPT ![t] = i],
           \/ /\ t \in Local /\ i = next_task_id
              /\ next_task_id' = next_task_id + 1
              /\ UNCHANGED GLOBAL_TASK_ID_COUNTER
           \/ /\ t \notin Local /\ i = GLOBAL_TASK_ID_COUNTER
              /\ GLOBAL_TASK_ID_COUNTER <= MaxSubmits
              /\ GLOBAL_TASK_ID_COUNTER' = GLOBAL_TASK_ID_COUNTER + 1
              /\ UNCHANGED next_task_id
    PROVE  Ids' /\ \A u \in Task : id[u] # i
<1>1. /\ next_task_id \in Nat /\ GLOBAL_TASK_ID_COUNTER \in Nat
      /\ id \in [Task -> Nat \cup {None}] /\ None \notin Nat
      /\ LocalBase \in Nat /\ MaxSubmits \in Nat
  BY CpuAssumption DEF Safe, TypeOK
<1>2. \A u \in Task : id[u] # i
  BY <1>1 DEF Ids, IdsOK
<1>3. /\ GLOBAL_TASK_ID_COUNTER' \in 1..(MaxSubmits + 1)
      /\ next_task_id' >= LocalBase
  BY <1>1 DEF Ids, IdsOK
<1>4. \A u \in Task : id'[u] # None =>
         \/ u \in Local /\ LocalBase <= id'[u] /\ id'[u] < next_task_id'
         \/ u \notin Local /\ 1 <= id'[u] /\ id'[u] < GLOBAL_TASK_ID_COUNTER'
  BY <1>1 DEF Ids, IdsOK
<1>5. \A u, v \in Task : id'[u] # None /\ id'[u] = id'[v] => u = v
  BY <1>1, <1>2 DEF Ids, IdsOK
<1> QED BY <1>2, <1>3, <1>4, <1>5 DEF Ids, IdsOK

\* Every step keeps Ordered.
LEMMA NextOrdered ==
    ASSUME MaxSubmits < LocalBase, Safe, Ordered, [Next]_vars
    PROVE  Ordered'
<1> USE DEF loopVars, queueVars, clientVars, history
<1>1. ASSUME NEW t \in Task, Spawn(t) PROVE Ordered'
  <2>1. /\ id' = [id EXCEPT ![t] = next_task_id] /\ id[t] = None
        /\ t \notin accepted /\ next_task_id \in Nat
    BY <1>1, CpuAssumption DEF Spawn, Safe, Shape, TypeOK
  <2>2. Ids' /\ \A u \in Task : id[u] # next_task_id
    BY <1>1, <2>1, FreshId, Zenon DEF Spawn, Ordered
  <2>3. /\ accepted' = accepted \cup {t} /\ task_queue' = task_queue \cup {t}
        /\ \A u \in Task : u # t => id'[u] = id[u]
        /\ id'[t] = next_task_id
    BY <1>1, <2>1, <2>2 DEF Spawn, Insert, WithId, Safe, TypeOK
  <2>4. next_task_id \notin cancelHandled
    BY <2>2 DEF Ordered, Fifo, HandledOK, Safe, TypeOK
  <2>5. Fifo'
    <3>1. \A c \in Client : sending[c] # None /\ sending[c].type = "SubmitTask"
                               => sending[c].task # t
      BY <1>1, CpuAssumption DEF Spawn, Safe, Shape, SendingOK, MsgOK
    <3>2. \A u \in accepted : u \in Task /\ u # t
      BY <2>1 DEF Safe, TypeOK
    <3>3. UNCHANGED <<channel, sending, cancelHandled, cancelled_tasks>>
      BY <1>1 DEF Spawn
    <3>4. SentOnce(sending, accepted')
      BY <2>3, <3>1 DEF Ordered, Fifo, SentOnce
    <3>5. HandledOK(cancelHandled, cancelled_tasks, id', accepted')
      BY <2>3, <3>2 DEF Ordered, Fifo, HandledOK
    <3> QED BY <3>3, <3>4, <3>5 DEF Ordered, Fifo
  <2>6. CancelSticks'
    BY <1>1, <2>1, <2>3, <2>4, CpuAssumption
       DEF Spawn, Ordered, CancelSticks, Safe, Shape, TypeOK
  <2>7. AcceptedNotLost'
    BY <1>1, <2>1, <2>3 DEF Spawn, Ordered, AcceptedNotLost, Kept, InChannel,
                            Stopped, Safe, TypeOK
  <2> QED BY <2>2, <2>5, <2>6, <2>7 DEF Ordered
<1>2. ASSUME NEW t \in Task, ScheduleTimer(t) PROVE Ordered'
  BY <1>2, QuietOrdered DEF ScheduleTimer, Stopped
<1>3. ASSUME NEW run \in BOOLEAN, Enter(run) PROVE Ordered'
  BY <1>3, QuietOrdered DEF Enter, Stopped
<1>4. CASE ProcessMessages
  <2>1. CASE Receive
    BY <1>4, <2>1, ReceiveOrdered DEF ProcessMessages, Stopped, Safe, TypeOK
  <2>2. CASE UNCHANGED <<channel, running, queueVars, history>>
    BY <1>4, <2>2, QuietOrdered DEF ProcessMessages, Stopped
  <2> QED BY <1>4, <2>1, <2>2 DEF ProcessMessages
<1>5. CASE ExpireTimers
  BY <1>5, QuietOrdered DEF ExpireTimers, Stopped
<1>6. CASE PopReady
  <2>0. /\ UNCHANGED <<idVars, channel, sending, accepted, finished, cancelHandled>>
        /\ ~Stopped /\ cur = None
    BY <1>6 DEF PopReady, Stopped, Safe, TypeOK
  <2>1. ASSUME NEW i, SkipCancelled(i) PROVE Ordered'
    <3>1. /\ i \in cancelHandled /\ cur' = None
          /\ task_queue' = task_queue \ WithId(i)
          /\ cancelled_tasks' \subseteq cancelled_tasks
      BY <2>0, <2>1 DEF SkipCancelled, Ordered, Fifo, HandledOK
    <3>2. Ids' /\ Fifo'
      <4>1. HandledOK(cancelHandled, cancelled_tasks', id, accepted)
        BY <3>1 DEF Ordered, Fifo, HandledOK
      <4> QED BY <2>0, <4>1 DEF Ordered, Ids, Fifo, idVars
    <3>3. CancelSticks'
      BY <2>0, <3>1 DEF Ordered, CancelSticks, idVars
    <3>4. AcceptedNotLost'
      BY <2>0, <3>1 DEF Ordered, AcceptedNotLost, Kept, InChannel, WithId, idVars
    <3> QED BY <3>2, <3>3, <3>4 DEF Ordered
  <2>2. ASSUME NEW i, BeginPoll(i) PROVE Ordered'
    <3>1. PICK t \in task_queue : task_queue' = task_queue \ {t} /\ cur' = t
      BY <2>2 DEF BeginPoll
    <3>2. Ids' /\ Fifo'
      BY <2>0, <2>2 DEF BeginPoll, Ordered, Ids, Fifo, idVars
    <3>3. CancelSticks'
      BY <2>0, <3>1 DEF Ordered, CancelSticks, idVars
    <3>4. AcceptedNotLost'
      <4>1. \A u \in accepted : u # cur
        BY <2>0, CpuAssumption DEF Safe, TypeOK
      <4>2. \A u \in accepted : Kept(u)
        BY <2>0 DEF Ordered, AcceptedNotLost
      <4>3. \A u \in accepted : Kept(u)'
        BY <2>0, <3>1, <4>1, <4>2 DEF Kept, InChannel, idVars
      <4> QED BY <2>0, <4>3 DEF AcceptedNotLost
    <3> QED BY <3>2, <3>3, <3>4 DEF Ordered
  <2>3. ASSUME NEW i, SkipUnknown(i) PROVE Ordered'
    BY <2>0, <2>3, QuietOrdered DEF SkipUnknown
  <2>4. CASE ready_queue = <<>>
    BY <1>6, <2>0, <2>4, QuietOrdered DEF PopReady
  <2> QED BY <1>6, <2>1, <2>2, <2>3, <2>4 DEF PopReady
<1>7. CASE PollReady
  <2>0. /\ UNCHANGED <<idVars, channel, sending, accepted, cancelHandled,
                       task_queue, cancelled_tasks>>
        /\ ~Stopped /\ cur' = None /\ finished' = finished \cup {cur}
    BY <1>7 DEF PollReady, Stopped
  <2>1. Ids' /\ Fifo' /\ CancelSticks'
    BY <2>0 DEF Ordered, Ids, Fifo, CancelSticks, idVars
  <2>2. AcceptedNotLost'
    BY <2>0 DEF Ordered, AcceptedNotLost, Kept, InChannel, idVars
  <2> QED BY <2>1, <2>2 DEF Ordered
<1>8. ASSUME NEW how \in {"yield", "thread", "io"}, PollPending(how) PROVE Ordered'
  <2>0. /\ UNCHANGED <<idVars, channel, sending, accepted, finished,
                       cancelHandled, cancelled_tasks>>
        /\ ~Stopped /\ cur' = None /\ task_queue' = Insert(cur, id[cur])
        /\ cur # None /\ cur \in accepted
    BY <1>8 DEF PollPending, Stopped, Safe, TypeOK, Shape
  <2>1. Ids' /\ Fifo'
    BY <2>0 DEF Ordered, Ids, Fifo, idVars
  <2>2. CancelSticks'
    BY <2>0 DEF Ordered, CancelSticks, idVars, Insert
  <2>3. \A t \in task_queue : t \in task_queue'
    BY <2>0, CpuAssumption DEF Insert, WithId, Ordered, Ids, IdsOK, Safe, Shape,
                               TypeOK
  <2>4. AcceptedNotLost'
    BY <2>0, <2>3 DEF Ordered, AcceptedNotLost, Kept, InChannel, idVars, Insert
  <2> QED BY <2>1, <2>2, <2>4 DEF Ordered
<1>9. CASE PollPanic \/ Exit
  <2>0. /\ UNCHANGED <<idVars, sending, accepted, cancelHandled, cancelled_tasks>>
        /\ Stopped' /\ channel' = <<>> /\ task_queue' = {} /\ cur' = None
    BY <1>9 DEF PollPanic, Exit, Teardown, Stopped, Safe, TypeOK
  <2>1. Ids'
    BY <2>0 DEF Ordered, Ids, idVars
  <2>2. Fifo'
    <3>1. CancelAfter(channel', cancelHandled)
      BY <2>0 DEF CancelAfter
    <3> QED BY <2>0, <3>1 DEF Ordered, Fifo, idVars
  <2>3. CancelSticks' /\ AcceptedNotLost'
    BY <2>0 DEF CancelSticks, AcceptedNotLost
  <2> QED BY <2>1, <2>2, <2>3 DEF Ordered
<1>10. CASE PollIo \/ Wait
  BY <1>10, QuietOrdered DEF PollIo, Wait, Stopped
<1>11. CASE RecvTimeout
  <2>1. CASE Receive
    BY <1>11, <2>1, ReceiveOrdered DEF RecvTimeout, Stopped, Safe, TypeOK
  <2>2. CASE UNCHANGED <<channel, queueVars, history>>
    BY <1>11, <2>2, QuietOrdered DEF RecvTimeout, Stopped
  <2> QED BY <1>11, <2>1, <2>2 DEF RecvTimeout
<1>12. CASE Drain
  <2>1. CASE Receive
    BY <1>12, <2>1, ReceiveOrdered DEF Drain, Stopped, Safe, TypeOK
  <2>2. CASE UNCHANGED <<channel, running, queueVars, history>>
    BY <1>12, <2>2, QuietOrdered DEF Drain, Stopped
  <2> QED BY <1>12, <2>1, <2>2 DEF Drain
<1>13. ASSUME NEW c \in Client, NEW t \in Task, CallSubmit(c, t) PROVE Ordered'
  <2> DEFINE m == SubmitTask(t, GLOBAL_TASK_ID_COUNTER)
  <2>1. /\ id' = [id EXCEPT ![t] = GLOBAL_TASK_ID_COUNTER] /\ id[t] = None
        /\ t \notin accepted /\ GLOBAL_TASK_ID_COUNTER \in Nat
        /\ sending' = [sending EXCEPT ![c] = m] /\ sending[c] = None
        /\ UNCHANGED <<loopVars, queueVars, channel, history>>
    BY <1>13, CpuAssumption DEF CallSubmit, Call, Safe, Shape, TypeOK
  <2>2. m.type = "SubmitTask" /\ m.task = t
    BY DEF SubmitTask
  <2> HIDE DEF m
  <2>3. Ids'
    BY <1>13, <2>1, FreshId, ZenonT(30) DEF CallSubmit, Call, Ordered
  <2>4. \A u \in accepted : u \in Task /\ u # None /\ u # t /\ id'[u] = id[u]
    BY <2>1, CpuAssumption DEF Safe, TypeOK
  <2>5. Fifo'
    <3>1. \A d \in Client : sending[d] # None /\ sending[d].type = "SubmitTask"
                               => sending[d].task # t
      BY <2>1, CpuAssumption DEF Safe, Shape, SendingOK, MsgOK
    <3>2. \A d \in Client : d # c => sending'[d] = sending[d]
      BY <2>1 DEF Safe, TypeOK
    <3>3. sending'[c] = m
      BY <2>1 DEF Safe, TypeOK
    <3>4. SentOnce(sending', accepted)
      <4>1. SentOnce(sending, accepted)
        BY DEF Ordered, Fifo
      <4>2. m # None => m.type = "SubmitTask" /\ m.task = t /\ t \notin accepted
        BY <2>1, <2>2
      <4> QED BY <3>1, <3>2, <3>3, <4>1, <4>2, ZenonT(30) DEF SentOnce
    <3>5. HandledOK(cancelHandled, cancelled_tasks, id', accepted)
      BY <2>4 DEF Ordered, Fifo, HandledOK
    <3> QED BY <2>1, <3>4, <3>5 DEF Ordered, Fifo
  <2>6. CancelSticks'
    BY <2>1, <2>4 DEF Ordered, CancelSticks, Safe, Shape, TypeOK
  <2>7. AcceptedNotLost'
    <3>1. UNCHANGED <<pc, channel, task_queue, cur, finished, cancelHandled, accepted>>
      BY <2>1 DEF loopVars, queueVars, history
    <3>2. \A u \in accepted : Kept(u) => Kept(u)'
      BY <2>4, <3>1 DEF Kept, InChannel
    <3> QED BY <3>1, <3>2 DEF Ordered, AcceptedNotLost, Stopped
  <2> QED BY <2>3, <2>5, <2>6, <2>7 DEF Ordered
<1>14. ASSUME NEW c \in Client, (\E t \in Task : CallCancel(c, t)) \/ CallOther(c)
       PROVE  Ordered'
  <2>1. PICK m : m.type # "SubmitTask" /\ Call(c, m)
                 /\ UNCHANGED <<id, GLOBAL_TASK_ID_COUNTER>>
    BY <1>14, Zenon DEF CallCancel, CallOther, CancelTask, Shutdown, Ping
  <2>2. Ids'
    BY <2>1 DEF Call, Ordered, Ids
  <2>3. Fifo'
    <3>1. UNCHANGED <<channel, cancelHandled, cancelled_tasks, id, accepted>>
      BY <2>1 DEF Call
    <3>2. \A d \in Client : sending'[d] = IF d = c THEN m ELSE sending[d]
      BY <2>1 DEF Call, Safe, TypeOK
    <3>3. SentOnce(sending', accepted)
      BY <2>1, <3>2, Zenon DEF Ordered, Fifo, SentOnce
    <3> QED BY <3>1, <3>3 DEF Ordered, Fifo
  <2>4. CancelSticks' /\ AcceptedNotLost'
    BY <2>1 DEF Call, Ordered, CancelSticks, AcceptedNotLost, Kept, InChannel,
                Stopped
  <2> QED BY <2>2, <2>3, <2>4 DEF Ordered
<1>15. ASSUME NEW c \in Client, SendOk(c) PROVE Ordered'
  <2> DEFINE m == sending[c]
  <2>1. /\ channel' = Append(channel, m) /\ sending' = [sending EXCEPT ![c] = None]
        /\ accepted' = accepted \cup ({m.task} \ {None})
        /\ ~Stopped /\ m # None
    BY <1>15 DEF SendOk
  <2>2. UNCHANGED <<id, next_task_id, GLOBAL_TASK_ID_COUNTER, cancelled_tasks,
                    cancelHandled, task_queue, cur, finished>>
    BY <1>15 DEF SendOk, idVars
  <2>3. /\ m \in Message /\ MsgOK(m, id, accepted) /\ channel \in Seq(Message)
        /\ sending \in [Client -> Message \cup {None}]
        /\ id \in [Task -> Nat \cup {None}] /\ accepted \subseteq Task
    BY <2>1 DEF Safe, TypeOK, Shape, SendingOK
  <2>4. Ids'
    BY <2>2 DEF Ordered, Ids
  <2>5. SentOnce(sending, accepted)
    BY DEF Ordered, Fifo
  <2>6. m.type = "SubmitTask" => m.task \notin accepted
    BY <2>1, <2>3, <2>5, SentOnceDone, ZenonT(30)
  <2>7. /\ SentOnce(sending', accepted)
        /\ m.type = "SubmitTask" => SentOnce(sending', accepted \cup {m.task})
    BY <2>1, <2>3, <2>5, SentOnceDone, ZenonT(30)
  <2> HIDE DEF m
  <2>8. m.type # "SubmitTask" => accepted' = accepted
    <3>1. m.type # "SubmitTask" => m.task = None
      BY <2>3, Zenon DEF MsgOK
    <3> QED BY <2>1, <3>1
  <2>9. m.type = "SubmitTask" => /\ accepted' = accepted \cup {m.task}
                                 /\ \A u \in accepted : id[u] # m.id
    <3>1. SUFFICES ASSUME m.type = "SubmitTask"
                   PROVE  /\ accepted' = accepted \cup {m.task}
                          /\ \A u \in accepted : id[u] # m.id
      OBVIOUS
    <3>2. m.task \in Task /\ m.id \in Nat /\ id[m.task] = m.id
      BY <2>3, <3>1, Zenon DEF MsgOK
    <3>3. \A t, u \in Task : id[t] # None /\ id[t] = id[u] => t = u
      BY DEF Ordered, Ids, IdsOK
    <3> QED BY <2>1, <2>3, <2>6, <3>1, <3>2, <3>3, CpuAssumption
  <2>10. Fifo'
    <3>1. SentOnce(sending', accepted')
      BY <2>7, <2>8, <2>9
    <3>2. CancelAfter(channel', cancelHandled)
      <4>1. \A k \in DOMAIN channel : channel[k].type = "CancelTask" =>
               \E u \in accepted : id[u] = channel[k].id
        BY DEF Safe, Shape, ChannelOK, MsgOK
      <4>2. CancelAfter(channel, cancelHandled)
        BY DEF Ordered, Fifo
      <4>3. m.type = "SubmitTask" => m.id \notin cancelHandled
        BY <2>9 DEF Ordered, Fifo, HandledOK
      <4>4. m.type = "SubmitTask" =>
               \A k \in DOMAIN channel :
                  channel[k].type = "CancelTask" => channel[k].id # m.id
        BY <2>9, <4>1
      <4> QED BY <2>1, <2>3, <4>2, <4>3, <4>4, CancelAfterAppend
    <3>3. HandledOK(cancelHandled, cancelled_tasks, id, accepted')
      BY <2>1 DEF Ordered, Fifo, HandledOK
    <3> QED BY <2>2, <3>1, <3>2, <3>3 DEF Fifo
  <2>11. CancelSticks'
    BY <2>2 DEF Ordered, CancelSticks
  <2>12. AcceptedNotLost'
    <3>1. /\ DOMAIN channel' = DOMAIN channel \cup {Len(channel) + 1}
          /\ \A k \in DOMAIN channel : channel'[k] = channel[k]
          /\ channel'[Len(channel) + 1] = m
      BY <2>1, <2>3, AppendAt
    <3>2. \A t \in accepted : InChannel(t) => InChannel(t)'
      BY <3>1 DEF InChannel
    <3>3. \A t : t = m.task => InChannel(t)'
      BY <3>1 DEF InChannel
    <3> QED BY <2>1, <2>2, <3>2, <3>3 DEF Ordered, AcceptedNotLost, Kept
  <2> QED BY <2>4, <2>10, <2>11, <2>12 DEF Ordered
<1>16. ASSUME NEW c \in Client, SendErr(c) PROVE Ordered'
  <2>1. Ids' /\ CancelSticks' /\ AcceptedNotLost'
    BY <1>16 DEF SendErr, Ordered, Ids, idVars, CancelSticks, AcceptedNotLost,
                 Stopped
  <2>2. Fifo'
    <3>1. UNCHANGED <<channel, id, accepted, cancelHandled, cancelled_tasks>>
      BY <1>16 DEF SendErr, idVars
    <3>2. \A d \in Client : sending'[d] # None => sending'[d] = sending[d]
      BY <1>16 DEF SendErr, Safe, TypeOK
    <3>3. SentOnce(sending', accepted)
      BY <3>2, Zenon DEF Ordered, Fifo, SentOnce
    <3> QED BY <3>1, <3>3 DEF Ordered, Fifo
  <2> QED BY <2>1, <2>2 DEF Ordered
<1>17. CASE DropHandles \/ UNCHANGED vars
  BY <1>17, QuietOrdered DEF DropHandles, vars
<1>18. ASSUME NEW t \in Task, ThreadWake(t) PROVE Ordered'
  BY <1>18, QuietOrdered, Zenon DEF ThreadWake
<1> QED
  BY <1>1, <1>2, <1>3, <1>4, <1>5, <1>6, <1>7, <1>8, <1>9, <1>10, <1>11, <1>12,
     <1>13, <1>14, <1>15, <1>16, <1>17, <1>18, Zenon
     DEF Next, Owner, CpuThread, Clients, Done

\* With ids that cannot meet, a handled CancelTask is final: for every instance
\* no poll of that task ever begins again.
THEOREM CpuCancelSticks ==
    ASSUME MaxSubmits < LocalBase PROVE Spec => []CancelSticks
<1>1. Init => Safe /\ Ordered
  BY InitSafe, InitOrdered
<1>2. (Safe /\ Ordered) /\ [Next]_vars => (Safe /\ Ordered)'
  BY NextSafe, NextOrdered
<1>3. Safe /\ Ordered => CancelSticks
  BY DEF Ordered
<1> QED BY <1>1, <1>2, <1>3, PTL DEF Spec

\* With ids that cannot meet, the loop never mislays a task it has accepted: for
\* every instance it is in the channel, in the map, in a poll, or accounted for.
THEOREM CpuAcceptedNotLost ==
    ASSUME MaxSubmits < LocalBase PROVE Spec => []AcceptedNotLost
<1>1. Init => Safe /\ Ordered
  BY InitSafe, InitOrdered
<1>2. (Safe /\ Ordered) /\ [Next]_vars => (Safe /\ Ordered)'
  BY NextSafe, NextOrdered
<1>3. Safe /\ Ordered => AcceptedNotLost
  BY DEF Ordered
<1> QED BY <1>1, <1>2, <1>3, PTL DEF Spec

-----------------------------------------------------------------------------
(* The Cpu implements TaskLifecycle.                                       *)

\* The tasks on their way.
Coming == Carried(channel)

\* A task is on its way, in the map, in a poll or finished, and only one of these.
Single ==
    /\ Distinct(channel)
    /\ Coming \cap (task_queue \cup {cur} \cup finished) = {}
    /\ finished \cap (task_queue \cup {cur}) = {}

\* What a step does to the tasks: nothing; one comes in, by the channel or by
\* spawn; one enters the map; some go, the one in a poll among them; a poll begins
\* or ends.
SameTasks == Coming' = Coming /\ UNCHANGED <<task_queue, cur, finished, accepted>>
Comes(t) ==
    /\ t \notin accepted /\ accepted' = accepted \cup {t} /\ UNCHANGED <<cur, finished>>
    /\ \/ Coming' = Coming \cup {t} /\ task_queue' = task_queue
       \/ Coming' = Coming /\ task_queue' = task_queue \cup {t}
Enters(t) ==
    /\ t \in Coming /\ Coming' = Coming \ {t} /\ task_queue' = task_queue \cup {t}
    /\ UNCHANGED <<cur, finished, accepted>>
Goes ==
    /\ Coming' \subseteq Coming /\ task_queue' \subseteq task_queue /\ cur' = None
    /\ UNCHANGED <<finished, accepted>>
Begins(t) ==
    /\ cur = None /\ t \in task_queue /\ task_queue' = task_queue \ {t} /\ cur' = t
    /\ Coming' = Coming /\ UNCHANGED <<finished, accepted>>
Pauses ==
    /\ cur \in Task /\ task_queue' = task_queue \cup {cur} /\ cur' = None
    /\ Coming' = Coming /\ UNCHANGED <<finished, accepted>>
Finishes ==
    /\ cur \in Task /\ finished' = finished \cup {cur} /\ cur' = None
    /\ Coming' = Coming /\ UNCHANGED <<task_queue, accepted>>

Moves == \/ SameTasks \/ (\E t \in Task : Comes(t) \/ Enters(t) \/ Begins(t))
         \/ Goes \/ Pauses \/ Finishes

\* Every task of the model is where the types say.
LEMMA Places ==
    ASSUME Safe
    PROVE  /\ None \notin Task /\ accepted \subseteq Task /\ Coming \subseteq accepted
           /\ task_queue \subseteq accepted /\ finished \subseteq accepted
           /\ cur = None \/ cur \in accepted \ task_queue
           /\ cur # None <=> pc = "poll"
<1>1. Coming \subseteq accepted
  BY CpuAssumption DEF Safe, Shape, ChannelOK, MsgOK, Coming, Carried
<1> QED  BY <1>1, CpuAssumption DEF Safe, TypeOK, Shape

\* Handling a message: a task enters the map, or some are dropped from it.
LEMMA ReceiveMoves ==
    ASSUME Safe, Ordered, Single, Receive, cur = None, cur' = cur, id' = id
    PROVE  Distinct(channel') /\ Moves
<1> DEFINE m == Head(channel)
<1>1. channel \in Seq(Message) /\ channel # <<>> /\ channel' = Tail(channel)
  BY DEF Safe, TypeOK, Receive
<1>2. /\ Distinct(channel') /\ Coming' = Coming \ {m.task}
      /\ m.task \in Task => m.task \in Coming
  BY <1>1, CarriedTail DEF Single, Coming
<1>3. MsgOK(m, id, accepted)
  BY <1>1, TailAt DEF Safe, Shape, ChannelOK
<1>4. /\ UNCHANGED <<accepted, finished>>
      /\ HandleSubmit(m) \/ HandleCancel(m) \/ HandleShutdown(m) \/ HandlePing(m)
  BY DEF Receive, HandleMessage
<1>5. None \notin Task /\ task_queue \subseteq Task /\ Coming \subseteq Task
  BY Places
<1> HIDE DEF m
<1>6. CASE HandleSubmit(m)
  <2>1. m.task \in Task /\ id[m.task] = m.id /\ m.id \in Nat
    BY <1>3, <1>6 DEF HandleSubmit, MsgOK
  <2>2. task_queue' = task_queue \cup {m.task}
    BY <1>5, <1>6, <2>1, CpuAssumption
       DEF HandleSubmit, Insert, WithId, Ordered, Ids, IdsOK
  <2>3. Enters(m.task)
    BY <1>2, <1>4, <2>1, <2>2 DEF Enters
  <2> QED  BY <1>2, <2>1, <2>3 DEF Moves
<1>7. CASE HandleCancel(m)
  <2>1. task_queue' \subseteq task_queue
    BY <1>7 DEF HandleCancel
  <2> QED  BY <1>2, <1>4, <2>1 DEF Goes, Moves
<1>8. CASE HandleShutdown(m) \/ HandlePing(m)
  <2>1. m.task = None /\ task_queue' = task_queue
    BY <1>3, <1>8 DEF HandleShutdown, HandlePing, MsgOK
  <2>2. Coming' = Coming
    BY <1>2, <1>5, <2>1
  <2> QED  BY <1>2, <1>4, <2>1, <2>2 DEF SameTasks, Moves
<1> QED  BY <1>4, <1>6, <1>7, <1>8

\* A step that leaves the channel and the maps alone moves no task.
LEMMA QuietMoves ==
    ASSUME Single, UNCHANGED <<channel, task_queue, cur, finished, accepted>>
    PROVE  Distinct(channel') /\ Moves
BY DEF Single, Moves, SameTasks, Coming

\* What every step does to the tasks, when ids cannot meet.
LEMMA NextMoves ==
    ASSUME MaxSubmits < LocalBase, Safe, Ordered, Single, [Next]_vars
    PROVE  Distinct(channel') /\ Moves
<1> USE DEF loopVars, queueVars, clientVars, history
<1>0. /\ None \notin Task /\ accepted \subseteq Task /\ Coming \subseteq accepted
      /\ task_queue \subseteq accepted
      /\ cur = None \/ cur \in accepted \ task_queue
      /\ cur # None <=> pc = "poll"
  BY Places
<1>1. ASSUME NEW t \in Task, Spawn(t) PROVE Distinct(channel') /\ Moves
  <2>1. /\ id' = [id EXCEPT ![t] = next_task_id] /\ id[t] = None
        /\ t \notin accepted /\ next_task_id \in Nat
    BY <1>1, CpuAssumption DEF Spawn, Safe, Shape, TypeOK
  <2>2. \A u \in Task : id[u] # next_task_id
    BY <1>1, <2>1, FreshId, Zenon DEF Spawn, Ordered
  <2>3. task_queue' = task_queue \cup {t}
    BY <1>1, <2>2 DEF Spawn, Insert, WithId
  <2>4. Comes(t) /\ channel' = channel
    BY <1>1, <2>1, <2>3 DEF Spawn, Comes, Coming
  <2> QED  BY <2>4 DEF Moves, Single
<1>2. CASE ProcessMessages \/ RecvTimeout \/ Drain
  <2>1. cur = None /\ cur' = cur /\ id' = id
    BY <1>0, <1>2 DEF ProcessMessages, RecvTimeout, Drain, idVars
  <2>2. CASE Receive
    BY <2>1, <2>2, ReceiveMoves
  <2>3. CASE UNCHANGED <<channel, queueVars, history>>
    BY <2>1, <2>3, QuietMoves
  <2> QED  BY <1>2, <2>2, <2>3 DEF ProcessMessages, RecvTimeout, Drain
<1>3. CASE PopReady
  <2>0. UNCHANGED <<channel, accepted, finished>> /\ cur = None
    BY <1>0, <1>3 DEF PopReady
  <2>1. Distinct(channel') /\ Coming' = Coming
    BY <2>0 DEF Single, Coming
  <2>2. ASSUME NEW i, SkipCancelled(i) PROVE Moves
    <3>1. task_queue' \subseteq task_queue /\ cur' = None
      BY <2>0, <2>2 DEF SkipCancelled
    <3> QED  BY <2>0, <2>1, <3>1 DEF Moves, Goes
  <2>3. ASSUME NEW i, BeginPoll(i) PROVE Moves
    <3>1. PICK t \in task_queue : task_queue' = task_queue \ {t} /\ cur' = t
      BY <2>3 DEF BeginPoll
    <3>2. Begins(t) /\ t \in Task
      BY <1>0, <2>0, <2>1, <3>1 DEF Begins
    <3> QED  BY <3>2 DEF Moves
  <2>4. CASE UNCHANGED <<task_queue, cur>>
    BY <2>0, <2>4, QuietMoves
  <2> QED  BY <1>3, <2>1, <2>2, <2>3, <2>4 DEF PopReady, SkipUnknown
<1>4. CASE PollReady
  BY <1>0, <1>4 DEF PollReady, Single, Moves, Finishes, Coming
<1>5. ASSUME NEW how \in {"yield", "thread", "io"}, PollPending(how)
      PROVE  Distinct(channel') /\ Moves
  <2>1. /\ UNCHANGED <<channel, accepted, finished>> /\ cur' = None
        /\ task_queue' = Insert(cur, id[cur]) /\ cur \in Task /\ cur \in accepted
    BY <1>0, <1>5 DEF PollPending
  <2>2. task_queue' = task_queue \cup {cur}
    <3>1. id[cur] # None /\ \A t, u \in Task : id[t] # None /\ id[t] = id[u] => t = u
      BY <2>1, CpuAssumption DEF Safe, Shape, Ordered, Ids, IdsOK
    <3> QED  BY <1>0, <2>1, <3>1 DEF Insert, WithId
  <2> QED  BY <2>1, <2>2 DEF Single, Moves, Pauses, Coming
<1>6. CASE PollPanic \/ Exit
  <2>1. /\ UNCHANGED <<accepted, finished>> /\ channel' = <<>>
        /\ task_queue' = {} /\ cur' = None
    BY <1>0, <1>6 DEF PollPanic, Exit, Teardown
  <2>2. Distinct(channel') /\ Coming' = {}
    BY <2>1, CarriedNone DEF Coming
  <2> QED  BY <2>1, <2>2 DEF Moves, Goes
<1>7. ASSUME NEW c \in Client, SendOk(c) PROVE Distinct(channel') /\ Moves
  <2> DEFINE m == sending[c]
  <2>1. /\ channel' = Append(channel, m) /\ m # None
        /\ accepted' = accepted \cup ({m.task} \ {None})
        /\ UNCHANGED <<task_queue, cur, finished>>
    BY <1>7 DEF SendOk
  <2>2. m \in Message /\ MsgOK(m, id, accepted) /\ channel \in Seq(Message)
    BY <2>1 DEF Safe, TypeOK, Shape, SendingOK
  <2>3. m.type = "SubmitTask" => m.task \notin accepted
    BY <2>1 DEF Ordered, Fifo, SentOnce
  <2> HIDE DEF m
  <2>4. \/ m.task = None
        \/ m.task \in Task /\ m.task \notin accepted
    BY <2>2, <2>3 DEF MsgOK
  <2>5. Distinct(channel') /\ Coming' = Coming \cup ({m.task} \cap Task)
    BY <1>0, <2>1, <2>2, <2>4, CarriedAppend DEF Coming, Single
  <2>6. CASE m.task = None
    BY <1>0, <2>1, <2>5, <2>6 DEF Moves, SameTasks
  <2>7. CASE m.task \in Task /\ m.task \notin accepted
    <3>1. Comes(m.task)
      BY <1>0, <2>1, <2>5, <2>7 DEF Comes
    <3> QED  BY <2>5, <2>7, <3>1 DEF Moves
  <2> QED  BY <2>4, <2>6, <2>7
<1>8. CASE (\E t \in Task : ScheduleTimer(t) \/ ThreadWake(t)) \/ ExpireTimers \/ PollIo
  BY <1>8, QuietMoves, Zenon DEF ScheduleTimer, ThreadWake, ExpireTimers, PollIo
<1>9. CASE (\E run \in BOOLEAN : Enter(run)) \/ Wait \/ DropHandles \/ UNCHANGED vars
  BY <1>9, QuietMoves, Zenon DEF Enter, Wait, DropHandles, vars
<1>10. ASSUME NEW c \in Client,
              \/ \E t \in Task : CallSubmit(c, t) \/ CallCancel(c, t)
              \/ CallOther(c) \/ SendErr(c)
       PROVE  Distinct(channel') /\ Moves
  BY <1>10, QuietMoves, Zenon DEF CallSubmit, CallCancel, CallOther, Call, SendErr
<1> QED
  BY <1>1, <1>2, <1>3, <1>4, <1>5, <1>6, <1>7, <1>8, <1>9, <1>10, Zenon
     DEF Next, Owner, CpuThread, Clients, Done

\* The moves keep the tasks apart.
LEMMA MovesSingle ==
    ASSUME Safe, Single, Distinct(channel'), Moves
    PROVE  Single'
<1>1. /\ None \notin Task /\ accepted \subseteq Task /\ Coming \subseteq accepted
      /\ task_queue \subseteq accepted /\ finished \subseteq accepted
      /\ cur = None \/ cur \in accepted \ task_queue
  BY Places
<1>2. /\ Coming \cap (task_queue \cup {cur} \cup finished) = {}
      /\ finished \cap (task_queue \cup {cur}) = {}
  BY DEF Single
<1> DEFINE Parts == /\ Coming' \cap (task_queue' \cup {cur'} \cup finished') = {}
                    /\ finished' \cap (task_queue' \cup {cur'}) = {}
<1>3. ASSUME SameTasks \/ Goes \/ Pauses \/ Finishes PROVE Parts
  BY <1>1, <1>2, <1>3 DEF SameTasks, Goes, Pauses, Finishes
<1>4. ASSUME NEW t \in Task, Comes(t) \/ Enters(t) \/ Begins(t) PROVE Parts
  BY <1>1, <1>2, <1>4 DEF Comes, Enters, Begins
<1>5. Parts
  BY <1>3, <1>4 DEF Moves
<1> QED  BY <1>5 DEF Single

\* The tasks the Cpu has, and the phase of a task: A are the accepted tasks, F the
\* finished ones and L those the Cpu has.
Alive == Coming \cup task_queue \cup ({cur} \cap Task)
Stage(t, A, F, L) ==
    IF t \in F THEN "finished" ELSE IF t \notin A THEN "fresh"
    ELSE IF t \in L THEN "live" ELSE "dropped"
Polling == [w \in {"cpu"} |-> cur]

\* The refinement mapping, in these terms.
LEMMA PhaseIs == Phase = [t \in Task |-> Stage(t, accepted, finished, Alive)]
<1>1. ASSUME NEW t \in Task
      PROVE  InChannel(t) \/ t \in task_queue \/ t = cur <=> t \in Alive
  BY DEF InChannel, Alive, Coming, Carried
<1> QED  BY <1>1 DEF Phase, Stage

\* A step of the life of a task, as the Cpu sees it.
LifeStep == [Life!Next]_(Life!vars)

\* Every move of the tasks is a step of TaskLifecycle.
LEMMA MovesRefine ==
    ASSUME Safe, Single, Moves,
           Phase' = [t \in Task |-> Stage(t, accepted', finished', Alive')]
    PROVE  LifeStep
<1>1. /\ None \notin Task /\ accepted \subseteq Task /\ Coming \subseteq accepted
      /\ task_queue \subseteq accepted /\ finished \subseteq accepted
      /\ cur = None \/ cur \in accepted \ task_queue
  BY Places
<1>2. /\ Coming \cap (task_queue \cup {cur} \cup finished) = {}
      /\ finished \cap (task_queue \cup {cur}) = {}
  BY DEF Single
<1>3. Alive \subseteq accepted \ finished /\ (cur # None => cur \in Alive)
  BY <1>1, <1>2 DEF Alive
<1>4. Phase = [t \in Task |-> Stage(t, accepted, finished, Alive)]
  BY PhaseIs
<1>5. /\ Polling' = [Polling EXCEPT !["cpu"] = cur'] /\ Polling["cpu"] = cur
      /\ Life!Polled = {cur} \ {None}
  BY DEF Polling, Life!Polled
<1>6. ASSUME Alive' = Alive, UNCHANGED <<accepted, finished, cur>> PROVE LifeStep
  BY <1>4, <1>6 DEF LifeStep, Life!vars
<1>7. ASSUME SameTasks PROVE LifeStep
  BY <1>6, <1>7 DEF SameTasks, Alive
<1>8. ASSUME NEW t \in Task, Enters(t) PROVE LifeStep
  BY <1>6, <1>8 DEF Enters, Alive
<1>9. ASSUME NEW t \in Task, Comes(t) PROVE LifeStep
  <2>1. /\ t \notin accepted /\ accepted' = accepted \cup {t} /\ finished' = finished
        /\ cur' = cur /\ Alive' = Alive \cup {t}
    BY <1>9 DEF Comes, Alive
  <2>2. Phase[t] = "fresh" /\ Phase' = [Phase EXCEPT ![t] = "live"]
    BY <1>1, <1>3, <1>4, <2>1 DEF Stage
  <2>3. Life!Accept(t)
    BY <2>1, <2>2 DEF Life!Accept
  <2> QED  BY <2>3 DEF Life!Next, LifeStep
<1>10. ASSUME NEW t \in Task, Begins(t) PROVE LifeStep
  <2>1. /\ cur = None /\ cur' = t /\ t \in task_queue
        /\ UNCHANGED <<accepted, finished>> /\ Alive' = Alive
    BY <1>1, <1>10 DEF Begins, Alive
  <2>2. Phase' = Phase /\ Phase[t] = "live"
    BY <1>3, <1>4, <2>1 DEF Stage, Alive
  <2>3. t \in Life!Live \ Life!Polled
    BY <1>5, <2>1, <2>2 DEF Life!Live
  <2>4. Life!BeginPoll("cpu", t)
    BY <1>5, <2>1, <2>2, <2>3 DEF Life!BeginPoll, Polling
  <2> QED  BY <2>4 DEF Life!Next, LifeStep
<1>11. ASSUME Pauses PROVE LifeStep
  <2>1. /\ cur # None /\ cur' = None /\ UNCHANGED <<accepted, finished>>
        /\ Alive' = Alive
    BY <1>1, <1>11 DEF Pauses, Alive
  <2>2. Phase' = Phase
    BY <1>4, <2>1
  <2>3. Life!Suspend("cpu")
    BY <1>5, <2>1, <2>2 DEF Life!Suspend, Polling
  <2> QED  BY <2>3 DEF Life!Next, LifeStep
<1>12. ASSUME Finishes PROVE LifeStep
  <2>1. /\ cur \in Task /\ cur' = None /\ accepted' = accepted
        /\ finished' = finished \cup {cur} /\ Alive' = Alive \ {cur}
    BY <1>1, <1>2, <1>12 DEF Finishes, Alive
  <2>2. Phase' = [Phase EXCEPT ![cur] = "finished"]
    BY <1>4, <2>1 DEF Stage
  <2>3. Life!Finish("cpu")
    BY <1>1, <1>5, <2>1, <2>2 DEF Life!Finish, Polling
  <2> QED  BY <2>3 DEF Life!Next, LifeStep
<1>13. ASSUME Goes PROVE LifeStep
  <2> DEFINE S == Alive \ Alive'
  <2>1. /\ Alive' \subseteq Alive /\ cur' = None /\ UNCHANGED <<accepted, finished>>
        /\ cur # None => cur \in S
    BY <1>1, <1>2, <1>13 DEF Goes, Alive
  <2>2. CASE S = {}
    BY <1>1, <1>6, <2>1, <2>2
  <2>3. CASE S # {}
    <3>1. S \in SUBSET Task /\ S \subseteq Life!Live
      BY <1>1, <1>3, <1>4 DEF Life!Live, Stage
    <3>2. Phase' = [t \in Task |-> IF t \in S THEN "dropped" ELSE Phase[t]]
      BY <1>3, <1>4, <2>1 DEF Stage
    <3>3. S \cap Life!Polled \subseteq {Polling["cpu"]}
      BY <1>5
    <3>4. Polling' = [Polling EXCEPT !["cpu"] = IF @ \in S THEN None ELSE @]
      BY <1>5, <2>1 DEF Polling
    <3> HIDE DEF S
    <3>5. Life!Discard("cpu", S)
      BY <2>3, <3>1, <3>2, <3>3, <3>4 DEF Life!Discard, Polling
    <3> QED  BY <3>1, <3>5 DEF Life!Next, LifeStep
  <2> QED  BY <2>2, <2>3
<1> QED
  BY <1>7, <1>8, <1>9, <1>10, <1>11, <1>12, <1>13 DEF Moves

\* With ids that cannot meet, the Cpu implements TaskLifecycle: for every instance
\* a task is accepted once, polled only between then and its end, and never again
\* after it finished, was cancelled, panicked or went down with the loop.
THEOREM CpuLifecycle ==
    ASSUME MaxSubmits < LocalBase
    PROVE  Spec => Lifecycle
<1>1. Init => Life!Init /\ Single
  <2> SUFFICES ASSUME Init PROVE Life!Init /\ Single
    OBVIOUS
  <2>1. Phase = [t \in Task |-> "fresh"]
    BY PhaseIs DEF Init, Stage
  <2>2. Life!Init
    BY <2>1 DEF Init, Life!Init
  <2>3. Single
    BY DEF Init, Single, Distinct, Coming, Carried
  <2> QED  BY <2>2, <2>3
<1>2. Safe /\ Ordered /\ Single /\ [Next]_vars => Single'
  BY NextMoves, MovesSingle
<1>3. (Phase = [t \in Task |-> Stage(t, accepted, finished, Alive)])'
  BY PhaseIs, PTL
<1>4. Safe /\ Ordered /\ Single /\ [Next]_vars => [Life!Next]_(Life!vars)
  BY <1>3, NextMoves, MovesRefine DEF LifeStep
<1>5. Safe /\ [Next]_vars => Safe'
  BY NextSafe
<1>6. Safe /\ Ordered /\ [Next]_vars => Ordered'
  BY NextOrdered
<1> QED
  BY <1>1, <1>2, <1>4, <1>5, <1>6, InitSafe, InitOrdered, PTL
     DEF Spec, Lifecycle, Life!Spec
=============================================================================
