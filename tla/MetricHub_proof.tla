--------------------------- MODULE MetricHub_proof ---------------------------
(* Theorems about MetricHub, for any subscribers, jobs, buffer sizes and number
   of messages.                                                              *)
EXTENDS MetricHub, SequenceTheorems, TLAPS

-----------------------------------------------------------------------------
(* Types.                                                                     *)

\* What runHub can hold.
HubState == [pc : {"select", "deliver", "kick", "stopped"},
             msg : Message \cup {NoMsg}, rest : SUBSET Subscribers]

\* What it holds between two messages, and when it has stopped, is such a state.
LEMMA IdleType == Idle \in HubState /\ [Idle EXCEPT !.pc = "stopped"] \in HubState
BY DEF Idle, HubState

\* Appending below the capacity of a channel respects it.
LEMMA AppendType ==
  ASSUME NEW S, NEW q \in Seq(S), NEW m \in S, NEW cap \in Nat, Len(q) < cap
  PROVE  Append(q, m) \in Seq(S) /\ Len(Append(q, m)) <= cap
BY AppendProperties, LenProperties

\* Taking from a channel leaves it within its capacity.
LEMMA TailType ==
  ASSUME NEW S, NEW q \in Seq(S), q # <<>>, NEW cap \in Nat, Len(q) <= cap
  PROVE  Head(q) \in S /\ Tail(q) \in Seq(S) /\ Len(Tail(q)) <= cap
BY HeadTailProperties, LenProperties

\* The initial state is typed.
LEMMA InitTypeOK == Init => TypeOK
<1> SUFFICES ASSUME Init PROVE TypeOK
  OBVIOUS
<1>1. hub \in HubState /\ hub.pc = "select"
  BY IdleType DEF Init, Idle
<1>2. <<>> \in Seq(Message) /\ Len(<<>>) = 0
  OBVIOUS
<1>3. 0 \in 0..MaxMessages /\ 0 <= SendCap /\ 0 <= BroadcastCap
  BY HubAssumption
<1> QED BY <1>1, <1>2, <1>3 DEF Init, TypeOK, HubState

\* The steps of the hub keep the types.
LEMMA HubTypeOK ==
  ASSUME TypeOK, HubStep
  PROVE  TypeOK'
<1> USE DEF clientVars, histVars
<1>h. hub \in HubState
  BY DEF TypeOK, HubState
<1>1. ASSUME NEW s \in Subscribers, HubRegister(s) PROVE TypeOK'
  <2>1. Len(log[TopicOf[s]]) \in Nat
    BY HubAssumption, LenProperties DEF TypeOK
  <2> QED BY <1>1, <2>1 DEF HubRegister, TypeOK
<1>2. ASSUME NEW s \in Subscribers, HubUnregister(s) PROVE TypeOK'
  BY <1>2 DEF HubUnregister, TypeOK
<1>3. ASSUME NEW s \in Subscribers, HubSend(s) PROVE TypeOK'
  <2>1. /\ [hub EXCEPT !.rest = hub.rest \ {s}] \in HubState
        /\ [hub EXCEPT !.pc = "kick"] \in HubState
    BY <1>h DEF HubState
  <2>2. hub' \in HubState /\ panicked' \in BOOLEAN
    <3>1. panicked \in BOOLEAN
      BY DEF TypeOK
    <3>2. CASE hub' = hub
      BY <1>3, <3>1, <3>2, <1>h, Zenon DEF HubSend
    <3>3. CASE hub' # hub
      BY <1>3, <2>1, <3>1, <3>3, Zenon DEF HubSend
    <3> QED BY <3>2, <3>3
  <2>3. hub.msg \in Message
    BY <1>3 DEF HubSend, TypeOK
  <2>4. /\ send' \in [Subscribers -> Seq(Message)]
        /\ \A r \in Subscribers : Len(send'[r]) <= SendCap
    <3>1. CASE UNCHANGED send
      BY <3>1 DEF TypeOK
    <3>2. CASE Len(send[s]) < SendCap
               /\ send' = [send EXCEPT ![s] = Append(send[s], hub.msg)]
      <4>1. /\ Append(send[s], hub.msg) \in Seq(Message)
            /\ Len(Append(send[s], hub.msg)) <= SendCap
        BY <2>3, <3>2, AppendType, HubAssumption DEF TypeOK
      <4> QED BY <3>2, <4>1 DEF TypeOK
    <3> QED BY <1>3, <3>1, <3>2 DEF HubSend
  <2>5. hub'.pc = "deliver" => hub'.msg \in Message
    BY <1>3, <1>h, <2>3 DEF HubSend, HubState
  <2> QED BY <1>3, <2>2, <2>4, <2>5 DEF HubSend, TypeOK, HubState
<1>4. ASSUME HubTake PROVE TypeOK'
  <2>1. /\ Head(broadcast) \in Message /\ Tail(broadcast) \in Seq(Message)
        /\ Len(Tail(broadcast)) <= BroadcastCap
    BY <1>4, TailType, HubAssumption DEF HubTake, TypeOK
  <2>2. log' \in [Topics -> Seq(Message)]
    <3>1. PICK t \in Topics : t = Head(broadcast).topic
      BY <2>1 DEF Message
    <3>2. Append(log[t], Head(broadcast)) \in Seq(Message)
      BY <2>1 DEF TypeOK
    <3>3. log' = [log EXCEPT ![t] = Append(log[t], Head(broadcast))]
      BY <1>4, <3>1 DEF HubTake
    <3> QED BY <3>2, <3>3 DEF TypeOK
  <2>3. {s \in members : TopicOf[s] = Head(broadcast).topic} \in SUBSET Subscribers
    BY DEF TypeOK
  <2>4. hub' \in HubState /\ hub'.msg \in Message
    BY <1>4, <2>1, <2>3 DEF HubTake, HubState
  <2> QED BY <1>4, <2>1, <2>2, <2>4 DEF HubTake, TypeOK, HubState
<1>5. ASSUME HubDelivered \/ HubStops PROVE TypeOK'
  <2>1. hub' \in HubState /\ hub'.pc # "deliver"
    BY <1>5, IdleType DEF HubDelivered, HubStops, Idle
  <2> QED BY <1>5, <2>1 DEF HubDelivered, HubStops, TypeOK, HubState
<1> QED BY <1>1, <1>2, <1>3, <1>4, <1>5 DEF HubStep

\* The steps of the pumps keep the types.
LEMMA PumpTypeOK ==
  ASSUME TypeOK, NEW s \in Subscribers, PumpStep(s)
  PROVE  TypeOK'
<1> USE DEF histVars
<1>1. CASE Connect(s)
  BY <1>1 DEF Connect, TypeOK
<1>2. CASE ReaderFails(s)
  BY <1>2 DEF ReaderFails, TypeOK
<1>3. CASE WriterTake(s)
  <2>1. /\ send[s] \in Seq(Message) /\ send[s] # <<>>
        /\ Tail(send[s]) \in Seq(Message) /\ Len(Tail(send[s])) <= SendCap
        /\ <<>> \in Seq(Message) /\ Len(<<>>) <= SendCap
    BY <1>3, TailType, HubAssumption DEF WriterTake, TypeOK
  <2>2. /\ send' \in [Subscribers -> Seq(Message)]
        /\ \A r \in Subscribers : Len(send'[r]) <= SendCap
    <3>1. PICK q \in Seq(Message) : Len(q) <= SendCap
                                    /\ send' = [send EXCEPT ![s] = q]
      BY <1>3, <2>1, Zenon DEF WriterTake
    <3> QED BY <3>1 DEF TypeOK
  <2>3. batch' \in [Subscribers -> Seq(Message)]
    <3>1. batch' = [batch EXCEPT ![s] = send[s]] \/ UNCHANGED batch
      BY <1>3 DEF WriterTake
    <3> QED BY <2>1, <3>1 DEF TypeOK
  <2>4. writer' \in [Subscribers -> {"none", "idle", "writing", "done"}]
    BY <1>3 DEF WriterTake, TypeOK
  <2> QED BY <1>3, <2>2, <2>3, <2>4 DEF WriterTake, TypeOK
<1>4. CASE WriterWrites(s)
  <2>1. got[s] \o batch[s] \in Seq(Message) /\ <<>> \in Seq(Message)
    BY ConcatProperties DEF TypeOK
  <2>2. /\ got' \in [Subscribers -> Seq(Message)]
        /\ batch' \in [Subscribers -> Seq(Message)]
    BY <1>4, <2>1 DEF WriterWrites, TypeOK
  <2> QED BY <1>4, <2>2 DEF WriterWrites, TypeOK
<1>5. CASE WriterEnds(s)
  BY <1>5 DEF WriterEnds, TypeOK
<1> QED BY <1>1, <1>2, <1>3, <1>4, <1>5 DEF PumpStep

\* BroadcastMetric keeps the types.
LEMMA BroadcastTypeOK ==
  ASSUME TypeOK, NEW t \in Topics, BroadcastMetric(t)
  PROVE  TypeOK'
<1>1. sent \in Nat /\ sent + 1 \in 0..MaxMessages /\ sent + 1 \in 1..MaxMessages
  BY HubAssumption DEF BroadcastMetric, TypeOK
<1>2. [topic |-> t, n |-> sent + 1] \in Message
  BY <1>1 DEF Message
<1>3. broadcast' \in Seq(Message) /\ Len(broadcast') <= BroadcastCap
  BY <1>2, AppendType, HubAssumption DEF BroadcastMetric, TypeOK
<1> QED BY <1>1, <1>3 DEF BroadcastMetric, TypeOK, clientVars

\* TypeOK is inductive.
LEMMA NextTypeOK == TypeOK /\ [Next]_vars => TypeOK'
<1> SUFFICES ASSUME TypeOK, [Next]_vars PROVE TypeOK'
  OBVIOUS
<1>1. CASE UNCHANGED vars
  BY <1>1 DEF vars, clientVars, histVars, TypeOK
<1>2. CASE StopHub \/ StopLock \/ StopDone
  BY <1>2 DEF StopHub, StopLock, StopDone, clientVars, histVars, TypeOK
<1>3. ASSUME NEW s \in Subscribers, StopClient(s) PROVE TypeOK'
  BY <1>3 DEF StopClient, histVars, TypeOK
<1> QED BY <1>1, <1>2, <1>3, HubTypeOK, PumpTypeOK, BroadcastTypeOK
           DEF Next, StopStep

(* Every reachable state of the hub is well typed; in particular no channel holds
   more than its capacity.                                                   *)
THEOREM TypeCorrect == Spec => []TypeOK
BY InitTypeOK, NextTypeOK, PTL DEF Spec

-----------------------------------------------------------------------------
(* Closing channels.  A channel is closed by the hub, which takes its client out
   of the map in the same step, or by Stop, which empties the map afterwards.
   Before Stop has the lock, the clients that the range loop has yet to reach are
   therefore in the map, and those in the map are open; a client that waits to be
   registered is not in the map and has never been closed.                   *)

NewcomersOpen ==
  \A s \in Subscribers : reader[s] \in {"none", "registering"} =>
                            s \notin closed /\ s \notin members

LoopInMap == stop \in {"no", "closing"} => hub.rest \subseteq members

RestOnlyInLoop == hub.pc \in {"select", "stopped"} => hub.rest = {}

CloseInv == /\ TypeOK /\ MembersOpen /\ PanicsOnlyAfterStop
            /\ NewcomersOpen /\ LoopInMap /\ RestOnlyInLoop

\* Nothing is in the map, closed or being delivered at first.
LEMMA InitClose == Init => CloseInv
BY InitTypeOK DEF Init, CloseInv, MembersOpen, PanicsOnlyAfterStop, NewcomersOpen,
   LoopInMap, RestOnlyInLoop, Idle, MapUnlocked

\* The steps of the hub keep the order of closing.
LEMMA HubClose ==
  ASSUME CloseInv, HubStep, TypeOK'
  PROVE  CloseInv'
<1> USE DEF MembersOpen, PanicsOnlyAfterStop, NewcomersOpen, LoopInMap,
            RestOnlyInLoop, MapUnlocked, clientVars, histVars
<1>1. ASSUME NEW s \in Subscribers, HubRegister(s) PROVE CloseInv'
  BY <1>1 DEF HubRegister, CloseInv, TypeOK
<1>2. ASSUME NEW s \in Subscribers, HubUnregister(s) PROVE CloseInv'
  BY <1>2 DEF HubUnregister, CloseInv, TypeOK
<1>3. ASSUME NEW s \in Subscribers, HubSend(s) PROVE CloseInv'
  <2>1. hub \in HubState
    BY DEF CloseInv, TypeOK, HubState
  <2>2. hub'.rest \subseteq hub.rest /\ hub'.pc \in {"deliver", "kick"}
    BY <1>3, <2>1 DEF HubSend, HubState
  <2>3. panicked' => s \in closed /\ s \in hub.rest
    BY <1>3 DEF HubSend
  <2>4. UNCHANGED <<members, closed, stop, reader>>
    BY <1>3 DEF HubSend
  <2>5. PanicsOnlyAfterStop'
    BY <2>3, <2>4 DEF CloseInv, TypeOK
  <2> QED BY <2>2, <2>4, <2>5 DEF CloseInv
<1>4. ASSUME HubTake PROVE CloseInv'
  <2>1. hub'.pc = "deliver" /\ hub'.rest \subseteq members
    BY <1>4 DEF HubTake
  <2> QED BY <1>4, <2>1 DEF HubTake, CloseInv
<1>5. ASSUME HubDelivered \/ HubStops PROVE CloseInv'
  <2>1. hub'.rest = {}
    BY <1>5 DEF HubDelivered, HubStops, Idle
  <2> QED BY <1>5, <2>1 DEF HubDelivered, HubStops, CloseInv
<1> QED BY <1>1, <1>2, <1>3, <1>4, <1>5 DEF HubStep

\* So do all the others.
LEMMA NextClose == CloseInv /\ [Next]_vars => CloseInv'
<1> SUFFICES ASSUME CloseInv, [Next]_vars PROVE CloseInv'
  OBVIOUS
<1> USE DEF MembersOpen, PanicsOnlyAfterStop, NewcomersOpen, LoopInMap,
            RestOnlyInLoop, MapUnlocked, clientVars, histVars
<1>t. TypeOK'
  BY NextTypeOK DEF CloseInv
<1>1. CASE UNCHANGED vars
  BY <1>1, <1>t DEF vars, CloseInv
<1>2. ASSUME NEW s \in Subscribers, PumpStep(s) PROVE CloseInv'
  <2>1. UNCHANGED <<hub, members, closed, stop, panicked>>
    BY <1>2 DEF PumpStep, Connect, ReaderFails, WriterTake, WriterWrites, WriterEnds
  <2>2. \A r \in Subscribers : reader'[r] \in {"none", "registering"} =>
                                 reader[r] \in {"none", "registering"}
    BY <1>2 DEF PumpStep, Connect, ReaderFails, WriterTake, WriterWrites,
       WriterEnds, CloseInv, TypeOK
  <2> QED BY <1>t, <2>1, <2>2 DEF CloseInv
<1>3. ASSUME NEW t \in Topics, BroadcastMetric(t) PROVE CloseInv'
  BY <1>3, <1>t DEF BroadcastMetric, CloseInv
<1>4. CASE StopHub \/ StopLock \/ StopDone
  BY <1>4, <1>t DEF StopHub, StopLock, StopDone, CloseInv, TypeOK
<1>5. ASSUME NEW s \in Subscribers, StopClient(s) PROVE CloseInv'
  BY <1>5, <1>t DEF StopClient, CloseInv, TypeOK
<1> QED BY <1>1, <1>t, <1>2, <1>3, <1>4, <1>5, HubClose DEF Next, StopStep

(* The clients in the map have open channels whenever Stop is not clearing it:
   neither the hub nor Stop closes a channel that is closed.                 *)
THEOREM NoDoubleClose == Spec => []MembersOpen
<1>1. CloseInv => MembersOpen
  BY DEF CloseInv
<1> QED BY <1>1, InitClose, NextClose, PTL DEF Spec

(* The hub never sends on a closed channel before Stop clears the map, however
   many clients come and go between and during its deliveries.               *)
THEOREM NoPanicBeforeStop == Spec => []PanicsOnlyAfterStop
<1>1. CloseInv => PanicsOnlyAfterStop
  BY DEF CloseInv
<1> QED BY <1>1, InitClose, NextClose, PTL DEF Spec

-----------------------------------------------------------------------------
(* Delivery.  What a subscriber got, writes and has queued, one after another,
   is a stretch of its job's log, which begins where the log stood when it was
   registered.  While it is in the map and its writer runs, the stretch ends with
   what the hub has offered it; a writer that ends loses what was on the way, and
   what the browser got remains.                                             *)

\* How much of the log of its job the hub has offered a subscriber.
Offered(s) == IF s \in hub.rest THEN Len(log[TopicOf[s]]) - 1
                                ELSE Len(log[TopicOf[s]])

\* What the subscriber got and what is on its way to it.
Way(s) == got[s] \o batch[s] \o send[s]

\* q is the stretch of l behind its first j elements, and ends by the m-th.
Follows(q, l, j, m) ==
  j + Len(q) <= m /\ \A i \in 1..Len(q) : q[i] = l[j + i]

Started ==
  \A s \in Subscribers :
    /\ writer[s] = "none" <=> reader[s] \in {"none", "registering"}
    /\ writer[s] = "none" => got[s] = <<>> /\ batch[s] = <<>> /\ send[s] = <<>>
    /\ writer[s] = "idle" => batch[s] = <<>>

Offering ==
  \A s \in hub.rest :
    /\ Len(log[TopicOf[s]]) > joined[s]
    /\ log[TopicOf[s]][Len(log[TopicOf[s]])] = hub.msg

RestKnown == hub.rest \subseteq members \cup closed

Flow(s) ==
  writer[s] # "none" =>
    /\ Follows(got[s], log[TopicOf[s]], joined[s], Offered(s))
    /\ writer[s] # "done" =>
         /\ Follows(Way(s), log[TopicOf[s]], joined[s], Offered(s))
         /\ s \in members => joined[s] + Len(Way(s)) = Offered(s)

FlowInv == /\ CloseInv /\ Started /\ Offering /\ RestKnown
           /\ \A s \in Subscribers : Flow(s)

-----------------------------------------------------------------------------
(* Stretches of a sequence.                                                   *)

\* A stretch remains one when the sequence grows at its end.
LEMMA FollowsLonger ==
  ASSUME NEW S, NEW q \in Seq(S), NEW l \in Seq(S), NEW x \in S, NEW j \in Nat,
         NEW m \in Nat, NEW k \in Nat, m <= Len(l), m <= k, Follows(q, l, j, m)
  PROVE  Follows(q, Append(l, x), j, k)
<1>1. \A i \in 1..Len(l) : Append(l, x)[i] = l[i]
  BY AppendProperties
<1>2. Len(q) \in Nat /\ Len(l) \in Nat
  BY LenProperties
<1>3. j + Len(q) <= k
  BY <1>2 DEF Follows
<1>4. ASSUME NEW i \in 1..Len(q) PROVE q[i] = Append(l, x)[j + i]
  <2>1. j + i \in 1..Len(l)
    BY <1>2 DEF Follows
  <2> QED BY <2>1, <1>1 DEF Follows
<1> QED BY <1>3, <1>4 DEF Follows

\* The stretch that ends before the last element is one with it.
LEMMA FollowsNext ==
  ASSUME NEW S, NEW q \in Seq(S), NEW l \in Seq(S), NEW x \in S, NEW j \in Nat,
         NEW m \in Nat, j + Len(q) = m, Follows(q, l, j, m), x = l[m + 1]
  PROVE  /\ Follows(Append(q, x), l, j, m + 1)
         /\ j + Len(Append(q, x)) = m + 1
<1>1. /\ Len(Append(q, x)) = Len(q) + 1
      /\ \A i \in 1..Len(q) : Append(q, x)[i] = q[i]
      /\ Append(q, x)[Len(q) + 1] = x
  BY AppendProperties
<1>2. Len(q) \in Nat
  BY LenProperties
<1>3. j + Len(Append(q, x)) = m + 1
  BY <1>1, <1>2
<1>4. ASSUME NEW i \in 1..Len(Append(q, x)) PROVE Append(q, x)[i] = l[j + i]
  <2>1. CASE i = Len(q) + 1
    <3>1. j + i = m + 1
      BY <2>1, <1>2
    <3> QED BY <3>1, <2>1, <1>1
  <2>2. CASE i # Len(q) + 1
    <3>1. i \in 1..Len(q)
      BY <2>2, <1>1, <1>2
    <3> QED BY <3>1, <1>1 DEF Follows
  <2> QED BY <2>1, <2>2
<1> QED BY <1>3, <1>4 DEF Follows

\* Appending to the second of two sequences appends to both.
LEMMA AppendBehind ==
  ASSUME NEW S, NEW q \in Seq(S), NEW r \in Seq(S), NEW x \in S
  PROVE  q \o Append(r, x) = Append(q \o r, x)
<1>1. Append(r, x) = r \o <<x>>
  BY AppendIsConcat
<1>2. q \o r \in Seq(S) /\ <<x>> \in Seq(S)
  BY ConcatProperties
<1>3. Append(q \o r, x) = (q \o r) \o <<x>>
  BY <1>2, AppendIsConcat
<1>4. (q \o r) \o <<x>> = q \o (r \o <<x>>)
  BY <1>2, ConcatAssociative
<1> QED BY <1>1, <1>3, <1>4

\* The beginning of a stretch is one.
LEMMA FollowsFirst ==
  ASSUME NEW S, NEW q \in Seq(S), NEW r \in Seq(S), NEW l \in Seq(S),
         NEW j \in Nat, NEW m \in Nat, Follows(q \o r, l, j, m)
  PROVE  Follows(q, l, j, m)
<1>1. /\ Len(q \o r) = Len(q) + Len(r)
      /\ \A i \in 1..Len(q) : (q \o r)[i] = q[i]
  BY ConcatProperties
<1>2. Len(q) \in Nat /\ Len(r) \in Nat
  BY LenProperties
<1>3. \A i \in 1..Len(q) : i \in 1..Len(q \o r)
  BY <1>1, <1>2
<1>4. j + Len(q) <= m
  BY <1>1, <1>2 DEF Follows
<1> QED BY <1>1, <1>3, <1>4 DEF Follows

\* All of l behind its first j elements, up to the m-th.
Behind(l, j, m) == SubSeq(l, j + 1, m)

\* A stretch is a beginning of all that is due, and all of it when it ends there.
LEMMA FollowsDue ==
  ASSUME NEW q \in Seq(Message), NEW l \in Seq(Message), NEW j \in Nat,
         NEW m \in Nat, m <= Len(l), Follows(q, l, j, m)
  PROVE  /\ Len(q) <= Len(Behind(l, j, m))
         /\ q = SubSeq(Behind(l, j, m), 1, Len(q))
         /\ j + Len(q) = m => q = Behind(l, j, m)
<1> DEFINE d == Behind(l, j, m)
<1>1. Len(q) \in Nat /\ Len(l) \in Nat /\ j <= m
  BY LenProperties DEF Follows
<1>2. /\ d \in Seq(Message) /\ Len(d) = m - j
      /\ \A i \in 1..(m - j) : d[i] = l[j + i]
  <2>0. d = SubSeq(l, j + 1, m)
    BY DEF Behind
  <2> HIDE DEF d
  <2>1. /\ d \in Seq(Message)
        /\ Len(d) = IF j + 1 <= m THEN m - (j + 1) + 1 ELSE 0
        /\ \A i \in 1..(m - (j + 1) + 1) : d[i] = l[(j + 1) + i - 1]
    BY <1>1, <2>0, SubSeqProperties
  <2>2. \A i \in 1..(m - j) : i \in 1..(m - (j + 1) + 1) /\ (j + 1) + i - 1 = j + i
    BY <1>1
  <2>3. Len(d) = m - j
    BY <2>1, <1>1
  <2> QED BY <2>1, <2>2, <2>3
<1> HIDE DEF d
<1>3. Len(q) <= Len(d)
  BY <1>1, <1>2 DEF Follows
<1>4. \A i \in 1..Len(q) : q[i] = d[i]
  <2> TAKE i \in 1..Len(q)
  <2>1. i \in 1..(m - j)
    BY <1>1, <1>2, <1>3
  <2> QED BY <2>1, <1>2 DEF Follows
<1>5. q = SubSeq(d, 1, Len(q))
  <2> DEFINE e == SubSeq(d, 1, Len(q))
  <2>1. /\ e \in Seq(Message) /\ Len(e) = Len(q)
        /\ \A i \in 1..Len(q) : e[i] = d[i]
    <3>1. /\ e \in Seq(Message)
          /\ Len(e) = IF 1 <= Len(q) THEN Len(q) - 1 + 1 ELSE 0
          /\ \A i \in 1..(Len(q) - 1 + 1) : e[i] = d[1 + i - 1]
      BY <1>1, <1>2, <1>3, SubSeqProperties
    <3> HIDE DEF e
    <3>2. \A i \in 1..Len(q) : i \in 1..(Len(q) - 1 + 1) /\ 1 + i - 1 = i
      BY <1>1
    <3>3. Len(e) = Len(q)
      BY <3>1, <1>1
    <3> QED BY <3>1, <3>2, <3>3
  <2> HIDE DEF e
  <2>2. q = e
    BY <2>1, <1>4, SeqEqual
  <2> QED BY <2>2 DEF e
<1>6. ASSUME j + Len(q) = m PROVE q = d
  <2>1. Len(q) = Len(d)
    BY <1>6, <1>1, <1>2
  <2> QED BY <2>1, <1>2, <1>4, SeqEqual
<1> QED BY <1>3, <1>5, <1>6 DEF d

-----------------------------------------------------------------------------
(* The steps.                                                                 *)

\* Nothing is on its way to anyone at first.
LEMMA InitFlow == Init => FlowInv
<1> SUFFICES ASSUME Init PROVE FlowInv
  OBVIOUS
<1>1. CloseInv
  BY InitClose
<1>2. hub.rest = {} /\ \A s \in Subscribers : writer[s] = "none"
  BY DEF Init, Idle
<1>3. Started
  BY DEF Init, Started
<1> QED BY <1>1, <1>2, <1>3 DEF FlowInv, Offering, RestKnown, Flow

\* What FlowInv says of the sequences of a subscriber: they are messages, and
\* what it was offered is in the log.
LEMMA FlowTypes ==
  ASSUME FlowInv, NEW s \in Subscribers
  PROVE  /\ got[s] \in Seq(Message) /\ batch[s] \in Seq(Message)
         /\ send[s] \in Seq(Message) /\ log[TopicOf[s]] \in Seq(Message)
         /\ got[s] \o batch[s] \in Seq(Message) /\ Way(s) \in Seq(Message)
         /\ joined[s] \in Nat /\ Offered(s) \in Nat
         /\ Offered(s) <= Len(log[TopicOf[s]])
<1>1. TypeOK
  BY DEF FlowInv, CloseInv
<1>2. /\ got[s] \in Seq(Message) /\ batch[s] \in Seq(Message)
      /\ send[s] \in Seq(Message) /\ log[TopicOf[s]] \in Seq(Message)
      /\ joined[s] \in Nat
  BY <1>1, HubAssumption DEF TypeOK
<1>3. got[s] \o batch[s] \in Seq(Message)
  BY <1>2, ConcatProperties
<1>4. Way(s) \in Seq(Message)
  BY <1>2, <1>3, ConcatProperties DEF Way
<1>5. Len(log[TopicOf[s]]) \in Nat
  BY <1>2, LenProperties
<1>6. s \in hub.rest => Len(log[TopicOf[s]]) > joined[s]
  BY DEF FlowInv, Offering
<1>7. Offered(s) \in Nat /\ Offered(s) <= Len(log[TopicOf[s]])
  BY <1>2, <1>5, <1>6 DEF Offered
<1> QED BY <1>2, <1>3, <1>4, <1>7

\* Whoever the range loop has yet to reach and can send to is in the map, and a
\* client in the map has its pumps.
LEMMA MembersRun ==
  ASSUME FlowInv, NEW s \in Subscribers, s \in members \/ s \in hub.rest \ closed
  PROVE  s \in members /\ writer[s] # "none"
BY DEF FlowInv, CloseInv, NewcomersOpen, RestKnown, Started

\* Pumps start with empty hands, and an idle one has them empty.
LEMMA StartedKept == FlowInv /\ [Next]_vars => Started'
<1> SUFFICES ASSUME FlowInv, [Next]_vars PROVE Started'
  OBVIOUS
<1> USE DEF Started, clientVars, histVars
<1>1. TypeOK /\ Started
  BY DEF FlowInv, CloseInv
<1>2. CASE UNCHANGED <<reader, writer, got, batch, send>>
  BY <1>1, <1>2
<1>3. ASSUME NEW s \in Subscribers, HubRegister(s) PROVE Started'
  BY <1>1, <1>3 DEF HubRegister, TypeOK
<1>4. ASSUME NEW s \in Subscribers, HubUnregister(s) PROVE Started'
  BY <1>1, <1>4 DEF HubUnregister, TypeOK
<1>5. ASSUME NEW s \in Subscribers, HubSend(s) PROVE Started'
  <2>1. UNCHANGED <<reader, writer, got, batch>>
    BY <1>5 DEF HubSend
  <2>2. CASE UNCHANGED send
    BY <1>2, <2>1, <2>2
  <2>3. CASE s \notin closed /\ send' = [send EXCEPT ![s] = Append(send[s], hub.msg)]
    <3>1. writer[s] # "none"
      BY <1>5, <2>3, MembersRun DEF HubSend
    <3> QED BY <1>1, <2>1, <2>3, <3>1 DEF TypeOK
  <2> QED BY <1>5, <2>2, <2>3 DEF HubSend
<1>6. ASSUME NEW s \in Subscribers, Connect(s) \/ ReaderFails(s) PROVE Started'
  BY <1>1, <1>6 DEF Connect, ReaderFails, TypeOK
<1>7. ASSUME NEW s \in Subscribers, WriterTake(s) PROVE Started'
  <2>1. UNCHANGED <<reader, got>> /\ writer[s] = "idle"
    BY <1>7 DEF WriterTake
  <2>2. writer' = [writer EXCEPT ![s] = "writing"] \/ writer' = [writer EXCEPT ![s] = "done"]
    BY <1>7 DEF WriterTake
  <2>3. \A r \in Subscribers : r # s => batch'[r] = batch[r] /\ send'[r] = send[r]
    BY <1>1, <1>7 DEF WriterTake, TypeOK
  <2> QED BY <1>1, <2>1, <2>2, <2>3 DEF TypeOK
<1>8. ASSUME NEW s \in Subscribers, WriterWrites(s) PROVE Started'
  BY <1>1, <1>8 DEF WriterWrites, TypeOK
<1>9. ASSUME NEW s \in Subscribers, WriterEnds(s) PROVE Started'
  BY <1>1, <1>9 DEF WriterEnds, TypeOK
<1>10. CASE HubTake \/ HubDelivered \/ HubStops \/ UNCHANGED vars
  BY <1>2, <1>10 DEF HubTake, HubDelivered, HubStops, vars
<1>11. CASE StopHub \/ StopStep \/ \E t \in Topics : BroadcastMetric(t)
  BY <1>2, <1>11 DEF StopHub, StopStep, StopLock, StopClient, StopDone,
     BroadcastMetric
<1> QED BY <1>3, <1>4, <1>5, <1>6, <1>7, <1>8, <1>9, <1>10, <1>11
           DEF Next, HubStep, PumpStep

\* What is being delivered is the last message of its job's log, newer than the
\* registration of everyone it has yet to reach; and whoever leaves the map under
\* the range loop is closed.
LEMMA OfferingKept == FlowInv /\ [Next]_vars => Offering' /\ RestKnown'
<1> SUFFICES ASSUME FlowInv, [Next]_vars PROVE Offering' /\ RestKnown'
  OBVIOUS
<1> USE DEF clientVars, histVars
<1>1. /\ TypeOK /\ Offering /\ RestKnown
      /\ hub.rest \subseteq Subscribers /\ hub \in HubState
  BY DEF FlowInv, CloseInv, TypeOK, HubState
<1>2. ASSUME hub'.rest \subseteq hub.rest, hub'.msg = hub.msg, UNCHANGED <<log, joined>>,
             members \cup closed \subseteq members' \cup closed'
      PROVE  Offering' /\ RestKnown'
  BY <1>1, <1>2, Zenon DEF Offering, RestKnown
<1>3. ASSUME hub'.rest = {} PROVE Offering' /\ RestKnown'
  BY <1>3 DEF Offering, RestKnown
<1>4. hub.pc = "select" => hub.rest = {}
  BY DEF FlowInv, CloseInv, RestOnlyInLoop
<1>5. ASSUME NEW s \in Subscribers, HubRegister(s) \/ HubUnregister(s)
      PROVE  Offering' /\ RestKnown'
  BY <1>3, <1>4, <1>5 DEF HubRegister, HubUnregister
<1>6. ASSUME NEW s \in Subscribers, HubSend(s) PROVE Offering' /\ RestKnown'
  <2>1. hub'.rest \subseteq hub.rest /\ hub'.msg = hub.msg
    BY <1>1, <1>6 DEF HubSend, HubState
  <2>2. UNCHANGED <<members, closed, log, joined>>
    BY <1>6 DEF HubSend
  <2> QED BY <1>2, <2>1, <2>2
<1>7. ASSUME HubTake PROVE Offering' /\ RestKnown'
  <2>1. /\ hub'.msg = Head(broadcast) /\ UNCHANGED <<members, joined>>
        /\ hub'.rest = {s \in members : TopicOf[s] = Head(broadcast).topic}
    BY <1>7 DEF HubTake
  <2>2. Head(broadcast) \in Message
    BY <1>1, <1>7, HeadTailProperties DEF HubTake, TypeOK
  <2>3. RestKnown'
    BY <2>1 DEF RestKnown
  <2>4. ASSUME NEW s \in hub'.rest
        PROVE  /\ Len(log'[TopicOf[s]]) > joined[s]
               /\ log'[TopicOf[s]][Len(log'[TopicOf[s]])] = Head(broadcast)
    <3>1. s \in members /\ s \in Subscribers /\ TopicOf[s] = Head(broadcast).topic
      BY <1>1, <2>1, <2>4 DEF TypeOK
    <3>2. log'[TopicOf[s]] = Append(log[TopicOf[s]], Head(broadcast))
      BY <1>1, <1>7, <3>1, HubAssumption DEF HubTake, TypeOK
    <3>3. writer[s] # "none"
      BY <3>1, MembersRun
    <3>4. /\ log[TopicOf[s]] \in Seq(Message) /\ joined[s] \in Nat
          /\ got[s] \in Seq(Message)
      BY <3>1, FlowTypes
    <3>5. joined[s] <= Len(log[TopicOf[s]])
      <4>1. joined[s] + Len(got[s]) <= Offered(s) /\ s \notin hub.rest
        BY <1>4, <1>7, <3>1, <3>3 DEF FlowInv, Flow, Follows, HubTake
      <4>2. Len(got[s]) \in Nat /\ Len(log[TopicOf[s]]) \in Nat
        BY <3>4, LenProperties
      <4> QED BY <4>1, <4>2, <3>4 DEF Offered
    <3> QED BY <2>2, <3>2, <3>4, <3>5, AppendProperties, LenProperties
  <2>5. Offering'
    BY <2>1, <2>4 DEF Offering
  <2> QED BY <2>3, <2>5
<1>8. CASE HubDelivered \/ HubStops
  BY <1>3, <1>8 DEF HubDelivered, HubStops, Idle
<1>9. ASSUME NEW s \in Subscribers, PumpStep(s) \/ StopClient(s)
      PROVE  Offering' /\ RestKnown'
  <2>1. hub' = hub /\ UNCHANGED <<members, log, joined>> /\ closed \subseteq closed'
    BY <1>9 DEF PumpStep, Connect, ReaderFails, WriterTake, WriterWrites,
       WriterEnds, StopClient
  <2> QED BY <1>2, <2>1
<1>10. CASE StopDone
  <2>1. hub' = hub /\ UNCHANGED <<closed, log, joined>> /\ members \subseteq closed
    BY <1>10 DEF StopDone
  <2> QED BY <1>2, <2>1
<1>11. CASE StopHub \/ StopLock \/ UNCHANGED vars \/ \E t \in Topics : BroadcastMetric(t)
  <2>1. hub' = hub /\ UNCHANGED <<members, closed, log, joined>>
    BY <1>11 DEF StopHub, StopLock, BroadcastMetric, vars
  <2> QED BY <1>2, <2>1
<1> QED BY <1>5, <1>6, <1>7, <1>8, <1>9, <1>10, <1>11 DEF Next, HubStep, StopStep

\* A step that neither offers nor takes anything of a subscriber keeps its flow,
\* also when its writer ends or it leaves the map.
LEMMA FlowSame ==
  ASSUME FlowInv, NEW s \in Subscribers,
         log'[TopicOf[s]] = log[TopicOf[s]], joined'[s] = joined[s],
         s \in hub'.rest <=> s \in hub.rest, s \in members' => s \in members,
         got'[s] = got[s],
         \/ writer'[s] = "done" /\ writer[s] # "none"
         \/ writer'[s] = writer[s] /\ Way(s)' = Way(s)
  PROVE  Flow(s)'
<1>1. Flow(s)
  BY DEF FlowInv
<1>2. Offered(s)' = Offered(s)
  BY DEF Offered
<1>3. writer'[s] # "none" => Follows(got'[s], log'[TopicOf[s]], joined'[s], Offered(s)')
  BY <1>1, <1>2 DEF Flow
<1>4. writer'[s] \notin {"none", "done"} =>
         /\ Follows(Way(s)', log'[TopicOf[s]], joined'[s], Offered(s)')
         /\ s \in members' => joined'[s] + Len(Way(s)') = Offered(s)'
  <2> SUFFICES ASSUME writer'[s] \notin {"none", "done"}
               PROVE  /\ Follows(Way(s)', log'[TopicOf[s]], joined'[s], Offered(s)')
                      /\ s \in members' => joined'[s] + Len(Way(s)') = Offered(s)'
    OBVIOUS
  <2>1. writer[s] \notin {"none", "done"} /\ Way(s)' = Way(s)
    OBVIOUS
  <2> QED BY <1>1, <1>2, <2>1 DEF Flow
<1> QED BY <1>3, <1>4 DEF Flow

\* A client that is registered starts at the end of the log.
LEMMA RegisterFlow ==
  ASSUME FlowInv, TypeOK', NEW r \in Subscribers, HubRegister(r), NEW s \in Subscribers
  PROVE  Flow(s)'
<1> USE DEF clientVars, histVars
<1>1. /\ UNCHANGED <<hub, log, got, batch, send>> /\ TypeOK
  BY DEF HubRegister, FlowInv, CloseInv
<1>2. CASE s # r
  <2>1. /\ joined'[s] = joined[s] /\ writer'[s] = writer[s]
        /\ s \in members' => s \in members
    BY <1>1, <1>2 DEF HubRegister, TypeOK
  <2>2. Way(s)' = Way(s)
    BY <1>1 DEF Way
  <2> QED BY <1>1, <2>1, <2>2, FlowSame
<1>3. CASE s = r
  <2>1. got[s] = <<>> /\ batch[s] = <<>> /\ send[s] = <<>>
    BY <1>3 DEF HubRegister, FlowInv, Started
  <2>2. Way(s)' = <<>> /\ got'[s] = <<>>
    <3>1. <<>> \o <<>> \o <<>> = <<>>
      OBVIOUS
    <3> QED BY <1>1, <2>1, <3>1 DEF Way
  <2>3. s \notin hub.rest
    BY DEF HubRegister, FlowInv, CloseInv, RestOnlyInLoop
  <2>4. Offered(s)' = Len(log[TopicOf[s]]) /\ joined'[s] = Len(log[TopicOf[s]])
    BY <1>1, <1>3, <2>3 DEF Offered, HubRegister, TypeOK
  <2>5. Len(log[TopicOf[s]]) \in Nat
    BY FlowTypes, LenProperties
  <2>6. /\ Len(<<>>) = 0 /\ \A i \in 1..Len(<<>>) : FALSE
    OBVIOUS
  <2>7. Follows(<<>>, log'[TopicOf[s]], joined'[s], Offered(s)')
    BY <2>4, <2>5, <2>6 DEF Follows
  <2>8. joined'[s] + Len(<<>>) = Offered(s)'
    BY <2>4, <2>5, <2>6
  <2> QED BY <2>2, <2>7, <2>8 DEF Flow
<1> QED BY <1>2, <1>3

\* A message the hub takes is not offered yet to those it will be sent to, and is
\* nothing to those who are not in the map.
LEMMA TakeFlow ==
  ASSUME FlowInv, HubTake, NEW s \in Subscribers
  PROVE  Flow(s)'
<1> USE DEF clientVars, histVars
<1>1. TypeOK /\ Flow(s) /\ hub.rest = {}
  BY DEF HubTake, FlowInv, CloseInv, RestOnlyInLoop
<1>2. UNCHANGED <<members, got, batch, send, writer, joined>>
  BY DEF HubTake
<1>3. Way(s)' = Way(s)
  BY <1>2 DEF Way
<1>4. Head(broadcast) \in Message
  BY <1>1, HeadTailProperties DEF HubTake, TypeOK
<1>5. hub'.rest = {r \in members : TopicOf[r] = Head(broadcast).topic}
  BY DEF HubTake
<1>6. CASE TopicOf[s] # Head(broadcast).topic
  <2>1. log'[TopicOf[s]] = log[TopicOf[s]]
    BY <1>1, <1>6, HubAssumption DEF HubTake, TypeOK
  <2>2. s \notin hub'.rest /\ s \notin hub.rest
    BY <1>1, <1>5, <1>6
  <2> QED BY <1>2, <1>3, <2>1, <2>2, FlowSame
<1>7. CASE TopicOf[s] = Head(broadcast).topic
  <2> DEFINE job == log[TopicOf[s]]
             m   == Head(broadcast)
  <2>1. /\ job \in Seq(Message) /\ got[s] \in Seq(Message) /\ Way(s) \in Seq(Message)
        /\ joined[s] \in Nat /\ Len(job) \in Nat
    BY FlowTypes, LenProperties
  <2>2. log'[TopicOf[s]] = Append(job, m)
    BY <1>1, <1>7, HubAssumption DEF HubTake, TypeOK
  <2>3. Offered(s) = Len(job) /\ Len(Append(job, m)) = Len(job) + 1
    BY <1>1, <1>4, <2>1, AppendProperties DEF Offered
  <2>4. Offered(s)' = IF s \in members THEN Len(job) ELSE Len(job) + 1
    BY <1>5, <1>7, <2>1, <2>2, <2>3 DEF Offered
  <2> HIDE DEF job, m
  <2>5. Offered(s)' \in Nat /\ Len(job) <= Offered(s)'
    BY <2>1, <2>4
  <2>6. ASSUME NEW q \in Seq(Message), Follows(q, job, joined[s], Len(job))
        PROVE  Follows(q, Append(job, m), joined[s], Offered(s)')
    BY <1>4, <2>1, <2>5, <2>6, FollowsLonger DEF m
  <2>7. writer'[s] # "none" => Follows(got'[s], log'[TopicOf[s]], joined'[s], Offered(s)')
    BY <1>1, <1>2, <2>1, <2>2, <2>3, <2>6, Zenon DEF Flow, job
  <2>8. writer'[s] \notin {"none", "done"} =>
          /\ Follows(Way(s)', log'[TopicOf[s]], joined'[s], Offered(s)')
          /\ s \in members' => joined'[s] + Len(Way(s)') = Offered(s)'
    <3> SUFFICES ASSUME writer[s] # "none", writer[s] # "done"
                 PROVE  /\ Follows(Way(s)', log'[TopicOf[s]], joined'[s], Offered(s)')
                        /\ s \in members' => joined'[s] + Len(Way(s)') = Offered(s)'
      BY <1>2
    <3>1. /\ Follows(Way(s), job, joined[s], Len(job))
          /\ s \in members => joined[s] + Len(Way(s)) = Len(job)
      BY <1>1, <2>3, Zenon DEF Flow, job
    <3>2. Follows(Way(s)', log'[TopicOf[s]], joined'[s], Offered(s)')
      BY <1>2, <1>3, <2>1, <2>2, <2>6, <3>1, Zenon
    <3>3. s \in members' => joined'[s] + Len(Way(s)') = Offered(s)'
      BY <1>2, <1>3, <2>4, <3>1
    <3> QED BY <3>2, <3>3
  <2> QED BY <2>7, <2>8 DEF Flow
<1> QED BY <1>6, <1>7

\* Sending a client the message puts it behind everything on its way.
LEMMA SendFlow ==
  ASSUME FlowInv, NEW r \in Subscribers, HubSend(r), NEW s \in Subscribers
  PROVE  Flow(s)'
<1> USE DEF clientVars, histVars
<1>1. /\ TypeOK /\ Flow(s) /\ Offering /\ hub \in HubState /\ r \in hub.rest
      /\ hub.msg \in Message
  BY DEF HubSend, FlowInv, CloseInv, TypeOK, HubState
<1>2. UNCHANGED <<members, got, batch, writer, joined, log>>
  BY DEF HubSend
<1>3. CASE UNCHANGED send /\ hub'.rest = hub.rest
  <2>1. Way(s)' = Way(s)
    BY <1>2, <1>3 DEF Way
  <2> QED BY <1>2, <1>3, <2>1, FlowSame
<1>4. CASE /\ r \notin closed /\ hub'.rest = hub.rest \ {r}
           /\ send' = [send EXCEPT ![r] = Append(send[r], hub.msg)]
  <2>1. CASE s # r
    <3>1. send'[s] = send[s] /\ (s \in hub'.rest <=> s \in hub.rest)
      BY <1>1, <1>4, <2>1 DEF TypeOK
    <3>2. Way(s)' = Way(s)
      BY <1>2, <3>1 DEF Way
    <3> QED BY <1>2, <3>1, <3>2, FlowSame
  <2>2. CASE s = r
    <3> DEFINE job == log[TopicOf[s]]
    <3>1. s \in members /\ writer[s] # "none"
      BY <1>1, <1>4, <2>2, MembersRun
    <3>2. /\ job \in Seq(Message) /\ got[s] \in Seq(Message) /\ Way(s) \in Seq(Message)
          /\ got[s] \o batch[s] \in Seq(Message) /\ send[s] \in Seq(Message)
          /\ joined[s] \in Nat /\ Len(job) \in Nat
      BY FlowTypes, LenProperties
    <3>3. /\ Offered(s) = Len(job) - 1 /\ Offered(s)' = Len(job)
          /\ job[Len(job)] = hub.msg
      BY <1>1, <1>2, <1>4, <2>2 DEF Offered, Offering
    <3>4. Offered(s) \in Nat
      BY FlowTypes
    <3>5. Way(s)' = Append(Way(s), hub.msg)
      <4>1. send'[s] = Append(send[s], hub.msg)
        BY <1>1, <1>4, <2>2 DEF TypeOK
      <4>2. (got[s] \o batch[s]) \o Append(send[s], hub.msg)
              = Append((got[s] \o batch[s]) \o send[s], hub.msg)
        <5>1. ASSUME NEW q \in Seq(Message), NEW p \in Seq(Message), NEW x \in Message
              PROVE  q \o Append(p, x) = Append(q \o p, x)
          BY AppendBehind
        <5>2. hub.msg \in Message /\ got[s] \o batch[s] \in Seq(Message)
              /\ send[s] \in Seq(Message)
          BY <1>1, <3>2
        <5> QED BY <5>1, <5>2, Zenon
      <4> QED BY <1>2, <4>1, <4>2 DEF Way
    <3> HIDE DEF job
    <3>6. Follows(got'[s], log'[TopicOf[s]], joined'[s], Offered(s)')
      <4>1. Follows(got[s], job, joined[s], Offered(s))
        BY <1>1, <3>1 DEF Flow, job
      <4>2. Len(got[s]) \in Nat
        BY <3>2, LenProperties
      <4>3. Follows(got[s], job, joined[s], Len(job))
        BY <3>2, <3>3, <4>1, <4>2 DEF Follows
      <4> QED BY <1>2, <3>3, <4>3 DEF job
    <3>7. ASSUME writer[s] # "done"
          PROVE  /\ Follows(Way(s)', log'[TopicOf[s]], joined'[s], Offered(s)')
                 /\ joined'[s] + Len(Way(s)') = Offered(s)'
      <4>1. /\ Follows(Way(s), job, joined[s], Offered(s))
            /\ joined[s] + Len(Way(s)) = Offered(s)
        BY <1>1, <3>1, <3>7 DEF Flow, job
      <4>2. Offered(s) + 1 = Len(job)
        BY <3>2, <3>3
      <4>3. hub.msg = job[Offered(s) + 1]
        BY <3>3, <4>2
      <4>5. ASSUME NEW q \in Seq(Message), NEW m \in Nat, joined[s] + Len(q) = m,
                   Follows(q, job, joined[s], m), hub.msg = job[m + 1]
            PROVE  /\ Follows(Append(q, hub.msg), job, joined[s], m + 1)
                   /\ joined[s] + Len(Append(q, hub.msg)) = m + 1
        BY <1>1, <3>2, <4>5, FollowsNext
      <4>4. /\ Follows(Append(Way(s), hub.msg), job, joined[s], Offered(s) + 1)
            /\ joined[s] + Len(Append(Way(s), hub.msg)) = Offered(s) + 1
        BY <3>2, <3>4, <4>1, <4>3, <4>5, Zenon
      <4> QED BY <1>2, <3>3, <3>5, <4>2, <4>4 DEF job
    <3> QED BY <1>2, <3>6, <3>7 DEF Flow
  <2> QED BY <2>1, <2>2
<1> QED BY <1>1, <1>3, <1>4 DEF HubSend, HubState

\* A pump moves what is on its way to the browser, or ends.
LEMMA PumpFlow ==
  ASSUME FlowInv, NEW r \in Subscribers, PumpStep(r), NEW s \in Subscribers
  PROVE  Flow(s)'
<1> USE DEF clientVars, histVars
<1>1. /\ UNCHANGED <<hub, members, log, joined>> /\ TypeOK /\ Flow(s)
  BY DEF PumpStep, Connect, ReaderFails, WriterTake, WriterWrites, WriterEnds,
     FlowInv, CloseInv
<1>2. ASSUME UNCHANGED <<got, batch, send>>, writer'[s] = writer[s] PROVE Flow(s)'
  <2>1. Way(s)' = Way(s)
    BY <1>2 DEF Way
  <2> QED BY <1>1, <1>2, <2>1, FlowSame
<1>3. CASE Connect(r) \/ ReaderFails(r)
  BY <1>2, <1>3 DEF Connect, ReaderFails
<1>4. CASE WriterEnds(r)
  <2>1. UNCHANGED <<got, batch, send>> /\ writer' = [writer EXCEPT ![r] = "done"]
        /\ writer[r] # "none"
    BY <1>4 DEF WriterEnds
  <2>2. CASE s = r
    BY <1>1, <2>1, <2>2, FlowSame DEF TypeOK
  <2>3. CASE s # r
    BY <1>1, <1>2, <2>1, <2>3 DEF TypeOK
  <2> QED BY <2>2, <2>3
<1>5. ASSUME s # r, WriterTake(r) \/ WriterWrites(r) PROVE Flow(s)'
  <2>1. got'[s] = got[s] /\ batch'[s] = batch[s] /\ send'[s] = send[s]
        /\ writer'[s] = writer[s]
    BY <1>1, <1>5 DEF WriterTake, WriterWrites, TypeOK
  <2>2. Way(s)' = Way(s)
    BY <2>1 DEF Way
  <2> QED BY <1>1, <2>1, <2>2, FlowSame
<1>6. got[s] \in Seq(Message) /\ batch[s] \in Seq(Message) /\ send[s] \in Seq(Message)
      /\ got[s] \o batch[s] \in Seq(Message)
  BY FlowTypes
<1>7. ASSUME s = r, WriterTake(r) PROVE Flow(s)'
  <2>1. got' = got /\ writer[s] = "idle" /\ batch[s] = <<>>
    BY <1>7 DEF WriterTake, FlowInv, Started
  <2>2. CASE batch'[s] = send[s] /\ send'[s] = <<>> /\ writer'[s] = "writing"
    <3>1. got[s] \o <<>> = got[s] /\ (got[s] \o send[s]) \o <<>> = got[s] \o send[s]
      BY <1>6, ConcatEmptySeq, ConcatProperties
    <3>2. Way(s)' = Way(s)
      BY <2>1, <2>2, <3>1 DEF Way
    <3>3. Follows(got'[s], log'[TopicOf[s]], joined'[s], Offered(s)')
      BY <1>1, <2>1 DEF Flow, Offered
    <3>4. /\ Follows(Way(s)', log'[TopicOf[s]], joined'[s], Offered(s)')
          /\ s \in members' => joined'[s] + Len(Way(s)') = Offered(s)'
      BY <1>1, <2>1, <3>2 DEF Flow, Offered
    <3> QED BY <3>3, <3>4 DEF Flow
  <2>3. CASE writer'[s] = "done"
    BY <1>1, <2>1, <2>3, FlowSame
  <2> QED BY <1>1, <1>7, <2>2, <2>3 DEF WriterTake, TypeOK
<1>8. ASSUME s = r, WriterWrites(r) PROVE Flow(s)'
  <2>1. /\ got'[s] = got[s] \o batch[s] /\ batch'[s] = <<>> /\ send' = send
        /\ writer[s] = "writing" /\ writer'[s] = "idle"
    BY <1>1, <1>8 DEF WriterWrites, TypeOK
  <2>2. (got[s] \o batch[s]) \o <<>> = got[s] \o batch[s]
    BY <1>6, ConcatEmptySeq
  <2>3. Way(s)' = Way(s)
    BY <2>1, <2>2 DEF Way
  <2>4. /\ Follows(Way(s), log[TopicOf[s]], joined[s], Offered(s))
        /\ s \in members => joined[s] + Len(Way(s)) = Offered(s)
    BY <1>1, <2>1 DEF Flow
  <2>5. Follows(got[s] \o batch[s], log[TopicOf[s]], joined[s], Offered(s))
    <3>1. /\ log[TopicOf[s]] \in Seq(Message) /\ joined[s] \in Nat
          /\ Offered(s) \in Nat
      BY FlowTypes
    <3>2. ASSUME NEW q \in Seq(Message), NEW p \in Seq(Message),
                 Follows(q \o p, log[TopicOf[s]], joined[s], Offered(s))
          PROVE  Follows(q, log[TopicOf[s]], joined[s], Offered(s))
      BY <3>1, <3>2, FollowsFirst
    <3> QED BY <1>6, <2>4, <3>2, Zenon DEF Way
  <2>6. Offered(s)' = Offered(s)
    BY <1>1 DEF Offered
  <2> QED BY <1>1, <2>1, <2>3, <2>4, <2>5, <2>6 DEF Flow
<1> QED BY <1>3, <1>4, <1>5, <1>7, <1>8 DEF PumpStep

\* Every step keeps every flow.
LEMMA FlowKept ==
  ASSUME FlowInv, [Next]_vars, NEW s \in Subscribers
  PROVE  Flow(s)'
<1> USE DEF clientVars, histVars
<1>1. TypeOK'
  BY NextTypeOK DEF FlowInv, CloseInv
<1>2. ASSUME UNCHANGED <<got, batch, send, writer, log, joined>>, hub'.rest = hub.rest,
             members' \subseteq members
      PROVE  Flow(s)'
  <2>1. Way(s)' = Way(s)
    BY <1>2 DEF Way
  <2> QED BY <1>2, <2>1, FlowSame
<1>3. ASSUME NEW r \in Subscribers, HubUnregister(r) \/ StopClient(r) PROVE Flow(s)'
  BY <1>2, <1>3 DEF HubUnregister, StopClient
<1>4. CASE HubDelivered \/ HubStops
  <2>1. hub.rest = {} /\ hub'.rest = {}
    BY <1>4 DEF HubDelivered, HubStops, Idle, FlowInv, CloseInv, RestOnlyInLoop
  <2> QED BY <1>2, <1>4, <2>1 DEF HubDelivered, HubStops
<1>5. CASE StopHub \/ StopLock \/ StopDone \/ \E t \in Topics : BroadcastMetric(t)
  BY <1>2, <1>5 DEF StopHub, StopLock, StopDone, BroadcastMetric
<1>6. CASE UNCHANGED vars
  BY <1>2, <1>6 DEF vars
<1>7. CASE HubTake
  BY <1>7, TakeFlow
<1>8. ASSUME NEW r \in Subscribers, HubRegister(r) \/ HubSend(r) \/ PumpStep(r)
      PROVE  Flow(s)'
  BY <1>1, <1>8, RegisterFlow, SendFlow, PumpFlow
<1> QED BY <1>3, <1>4, <1>5, <1>6, <1>7, <1>8 DEF Next, HubStep, StopStep

\* FlowInv is inductive.
LEMMA NextFlow == FlowInv /\ [Next]_vars => FlowInv'
<1> SUFFICES ASSUME FlowInv, [Next]_vars PROVE FlowInv'
  OBVIOUS
<1>1. CloseInv' /\ Started' /\ Offering' /\ RestKnown'
  BY NextClose, StartedKept, OfferingKept DEF FlowInv
<1>2. ASSUME NEW s \in Subscribers PROVE Flow(s)'
  BY FlowKept
<1> QED BY <1>1, <1>2 DEF FlowInv

\* Stretches that begin at registration are what DeliveredWithoutGaps asks for.
LEMMA FlowDelivers == FlowInv => DeliveredWithoutGaps
<1> SUFFICES ASSUME FlowInv, NEW s \in Subscribers, writer[s] # "none"
             PROVE  /\ LET d == Due(s) IN
                       Len(got[s]) <= Len(d) /\ got[s] = SubSeq(d, 1, Len(got[s]))
                    /\ s \in members /\ writer[s] # "done" =>
                         got[s] \o batch[s] \o send[s] = Due(s)
  BY DEF DeliveredWithoutGaps
<1>1. Due(s) = Behind(log[TopicOf[s]], joined[s], Offered(s))
  BY DEF Due, Offered, Behind
<1>2. /\ got[s] \in Seq(Message) /\ Way(s) \in Seq(Message)
      /\ log[TopicOf[s]] \in Seq(Message) /\ joined[s] \in Nat
      /\ Offered(s) \in Nat /\ Offered(s) <= Len(log[TopicOf[s]])
  BY FlowTypes
<1>3. ASSUME NEW q \in Seq(Message),
             Follows(q, log[TopicOf[s]], joined[s], Offered(s))
      PROVE  /\ Len(q) <= Len(Due(s)) /\ q = SubSeq(Due(s), 1, Len(q))
             /\ joined[s] + Len(q) = Offered(s) => q = Due(s)
  BY <1>1, <1>2, <1>3, FollowsDue
<1>4. Flow(s)
  BY DEF FlowInv
<1>5. Len(got[s]) <= Len(Due(s)) /\ got[s] = SubSeq(Due(s), 1, Len(got[s]))
  BY <1>2, <1>3, <1>4 DEF Flow
<1>6. s \in members /\ writer[s] # "done" => Way(s) = Due(s)
  BY <1>2, <1>3, <1>4 DEF Flow
<1> QED BY <1>5, <1>6 DEF Way

(* A browser gets the messages of its job in the order the hub took them, from
   its registration on, none twice and none left out, and what it has not got
   while it is connected is on its way: however the hub, the pumps, leaving
   clients and Stop interleave, and whatever the sizes of the channels.       *)
THEOREM DeliveryHasNoGaps == Spec => []DeliveredWithoutGaps
BY InitFlow, NextFlow, FlowDelivers, PTL DEF Spec
=============================================================================
