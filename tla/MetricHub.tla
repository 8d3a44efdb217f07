------------------------------ MODULE MetricHub ------------------------------
(****************************************************************************)
(* The WebSocket hub that pushes training metrics to the browsers: one hub    *)
(* goroutine over unbuffered register and unregister channels and a buffered  *)
(* broadcast channel, two pumps per connection, and Stop.                    *)
(*                                                                          *)
(*   services/training/internal/executor/metrics.go                         *)
(*                                                                          *)
(* A send on an unbuffered channel is a rendezvous: the sender waits at its   *)
(* program counter until a step of the hub takes the value.                  *)
(****************************************************************************)
EXTENDS FiniteSets, Naturals, Sequences

CONSTANTS Subscribers,   \* WebSocket connections, each opened once
          Topics,        \* the jobs that metrics are broadcast for
          TopicOf,       \* the job a subscriber watches
          SendCap,       \* capacity of MetricClient.Send (256)
          BroadcastCap,  \* capacity of MetricCollector.broadcast (256)
          MaxMessages    \* bound: how many metrics are broadcast

ASSUME HubAssumption ==
  /\ TopicOf \in [Subscribers -> Topics]
  /\ SendCap \in Nat \ {0} /\ BroadcastCap \in Nat \ {0}
  /\ MaxMessages \in Nat

(* Once a goroutine panicked the process is gone, and no action is enabled.   *)
VARIABLES hub,        \* runHub: where it is, the message it delivers, and the
                      \* subscribers the range loop has not reached
          members,    \* the clients in MetricCollector.clients
          broadcast,  \* the broadcast channel
          send,       \* MetricClient.Send
          closed,     \* the clients whose Send is closed
          conn,       \* the clients whose connection is open
          reader,     \* HandleWebSocket until it registered, then readPump
          writer,     \* writePump
          batch,      \* what writePump is writing
          got,        \* what the browser received
          stop,       \* Stop: "no", "closing" (stopCh closed), "clearing"
                      \* (has clientsMu), "done"
          panicked,   \* a goroutine panicked: the process is gone
          sent,       \* metrics broadcast so far
          log,        \* history: the messages of each job the hub took, in order
          joined      \* history: the length of its log when a client was registered

clientVars == <<conn, reader, writer, batch, got>>
histVars   == <<sent, log, joined>>
vars == <<hub, members, broadcast, send, closed, clientVars, stop, panicked,
          histVars>>

Message == [topic : Topics, n : 1..MaxMessages]
NoMsg   == [topic |-> CHOOSE t \in Topics : TRUE, n |-> 0]
Idle    == [pc |-> "select", msg |-> NoMsg, rest |-> {}]

TypeOK ==
  /\ hub \in [pc : {"select", "deliver", "kick", "stopped"},
              msg : Message \cup {NoMsg}, rest : SUBSET Subscribers]
  /\ hub.pc = "deliver" => hub.msg \in Message
  /\ members \subseteq Subscribers /\ closed \subseteq Subscribers
  /\ conn \subseteq Subscribers
  /\ broadcast \in Seq(Message) /\ Len(broadcast) <= BroadcastCap
  /\ send \in [Subscribers -> Seq(Message)]
  /\ \A s \in Subscribers : Len(send[s]) <= SendCap
  /\ batch \in [Subscribers -> Seq(Message)]
  /\ got \in [Subscribers -> Seq(Message)]
  /\ reader \in [Subscribers -> {"none", "registering", "reading", "leaving",
                                 "gone"}]
  /\ writer \in [Subscribers -> {"none", "idle", "writing", "done"}]
  /\ stop \in {"no", "closing", "clearing", "done"}
  /\ panicked \in BOOLEAN
  /\ sent \in 0..MaxMessages
  /\ log \in [Topics -> Seq(Message)]
  /\ joined \in [Subscribers -> Nat]

Init ==
  /\ hub = Idle
  /\ members = {} /\ closed = {} /\ conn = {}
  /\ broadcast = <<>>
  /\ send = [s \in Subscribers |-> <<>>]
  /\ batch = [s \in Subscribers |-> <<>>]
  /\ got = [s \in Subscribers |-> <<>>]
  /\ reader = [s \in Subscribers |-> "none"]
  /\ writer = [s \in Subscribers |-> "none"]
  /\ stop = "no"
  /\ panicked = FALSE
  /\ sent = 0 /\ log = [t \in Topics |-> <<>>]
  /\ joined = [s \in Subscribers |-> 0]

-----------------------------------------------------------------------------
(* runHub.  What it does with the map of clients waits for Stop's lock; the    *)
(* range loop has no lock.                                                   *)

MapUnlocked == stop # "clearing"

HubRegister(s) ==
  /\ ~panicked /\ hub.pc = "select" /\ MapUnlocked
  /\ reader[s] = "registering"
  /\ members' = members \cup {s}
  /\ joined' = [joined EXCEPT ![s] = Len(log[TopicOf[s]])]
  /\ reader' = [reader EXCEPT ![s] = "reading"]
  /\ writer' = [writer EXCEPT ![s] = "idle"]
  /\ UNCHANGED <<hub, broadcast, send, closed, conn, batch, got, stop, panicked,
                 sent, log>>

\* Mutant: the client is closed and stays in the map.
HubUnregister_KeepsMember(s) ==
  /\ ~panicked /\ hub.pc = "select" /\ MapUnlocked
  /\ reader[s] = "leaving"
  /\ closed' = closed \cup {s}
  /\ reader' = [reader EXCEPT ![s] = "gone"]
  /\ conn' = conn \ {s}
  /\ UNCHANGED <<hub, members, broadcast, send, writer, batch, got, stop,
                 panicked, histVars>>

\* Mutant: the client leaves the map, its channel and connection stay open.
HubUnregister_LeavesOpen(s) ==
  /\ ~panicked /\ hub.pc = "select" /\ MapUnlocked
  /\ reader[s] = "leaving"
  /\ members' = members \ {s}
  /\ reader' = [reader EXCEPT ![s] = "gone"]
  /\ UNCHANGED <<hub, broadcast, send, closed, conn, writer, batch, got, stop,
                 panicked, histVars>>

\* readPump's deferred function: the hub takes the client out, and the
\* connection is closed then.
HubUnregister(s) ==
  /\ ~panicked /\ hub.pc = "select" /\ MapUnlocked
  /\ reader[s] = "leaving"
  /\ IF s \in members
     THEN members' = members \ {s} /\ closed' = closed \cup {s}
     ELSE UNCHANGED <<members, closed>>
  /\ reader' = [reader EXCEPT ![s] = "gone"]
  /\ conn' = conn \ {s}
  /\ UNCHANGED <<hub, broadcast, send, writer, batch, got, stop, panicked,
                 histVars>>

HubTake ==
  /\ ~panicked /\ hub.pc = "select" /\ MapUnlocked
  /\ broadcast # <<>>
  /\ hub' = [pc |-> "deliver", msg |-> Head(broadcast),
             rest |-> {s \in members : TopicOf[s] = Head(broadcast).topic}]
  /\ broadcast' = Tail(broadcast)
  /\ log' = [log EXCEPT ![Head(broadcast).topic] = Append(@, Head(broadcast))]
  /\ UNCHANGED <<members, send, closed, clientVars, stop, panicked, sent, joined>>

\* Mutant: a full client just misses the message.
HubSend_Drops(s) ==
  /\ ~panicked /\ hub.pc = "deliver" /\ s \in hub.rest
  /\ hub' = [hub EXCEPT !.rest = @ \ {s}]
  /\ panicked' = (s \in closed)
  /\ IF s \notin closed /\ Len(send[s]) < SendCap
     THEN send' = [send EXCEPT ![s] = Append(@, hub.msg)]
     ELSE UNCHANGED send
  /\ UNCHANGED <<members, broadcast, closed, clientVars, stop, histVars>>

\* One turn of the range loop: a send on a closed channel panics; a full client
\* is to be unregistered, by a send that only this goroutine would receive.
HubSend(s) ==
  /\ ~panicked /\ hub.pc = "deliver" /\ s \in hub.rest
  /\ \/ /\ s \in closed
        /\ panicked' = TRUE
        /\ UNCHANGED <<hub, send>>
     \/ /\ s \notin closed /\ Len(send[s]) < SendCap
        /\ send' = [send EXCEPT ![s] = Append(@, hub.msg)]
        /\ hub' = [hub EXCEPT !.rest = @ \ {s}]
        /\ UNCHANGED panicked
     \/ /\ s \notin closed /\ Len(send[s]) = SendCap
        /\ hub' = [hub EXCEPT !.pc = "kick"]
        /\ UNCHANGED <<send, panicked>>
  /\ UNCHANGED <<members, broadcast, closed, clientVars, stop, histVars>>

HubDelivered ==
  /\ ~panicked /\ hub.pc = "deliver" /\ hub.rest = {}
  /\ hub' = Idle
  /\ UNCHANGED <<members, broadcast, send, closed, clientVars, stop, panicked,
                 histVars>>

HubStops ==
  /\ ~panicked /\ hub.pc = "select"
  /\ stop # "no"
  /\ hub' = [Idle EXCEPT !.pc = "stopped"]
  /\ UNCHANGED <<members, broadcast, send, closed, clientVars, stop, panicked,
                 histVars>>

-----------------------------------------------------------------------------
(* HandleWebSocket, readPump, writePump.                                      *)

Connect(s) ==
  /\ ~panicked /\ reader[s] = "none"
  /\ reader' = [reader EXCEPT ![s] = "registering"]
  /\ conn' = conn \cup {s}
  /\ UNCHANGED <<hub, members, broadcast, send, closed, writer, batch, got, stop,
                 panicked, histVars>>

\* ReadMessage fails: the browser went away, was silent for 60 s, or the
\* connection was closed on this side.
ReaderFails(s) ==
  /\ ~panicked /\ reader[s] = "reading"
  /\ reader' = [reader EXCEPT ![s] = "leaving"]
  /\ UNCHANGED <<hub, members, broadcast, send, closed, conn, writer, batch, got,
                 stop, panicked, histVars>>

\* writePump takes the message and all that is queued behind it; on a closed
\* connection NextWriter fails, with the message taken.
WriterTake(s) ==
  /\ ~panicked /\ writer[s] = "idle" /\ send[s] # <<>>
  /\ \/ /\ s \in conn
        /\ batch' = [batch EXCEPT ![s] = send[s]]
        /\ send' = [send EXCEPT ![s] = <<>>]
        /\ writer' = [writer EXCEPT ![s] = "writing"]
     \/ /\ s \notin conn
        /\ send' = [send EXCEPT ![s] = Tail(@)]
        /\ writer' = [writer EXCEPT ![s] = "done"]
        /\ UNCHANGED batch
  /\ UNCHANGED <<hub, members, broadcast, closed, conn, reader, got, stop,
                 panicked, histVars>>

WriterWrites(s) ==
  /\ ~panicked /\ writer[s] = "writing" /\ s \in conn
  /\ got' = [got EXCEPT ![s] = @ \o batch[s]]
  /\ batch' = [batch EXCEPT ![s] = <<>>]
  /\ writer' = [writer EXCEPT ![s] = "idle"]
  /\ UNCHANGED <<hub, members, broadcast, send, closed, conn, reader, stop,
                 panicked, histVars>>

\* A write or a ping fails or misses its deadline, or Send is closed and empty:
\* writePump ends and closes the connection.
WriterEnds(s) ==
  /\ ~panicked /\ writer[s] \in {"idle", "writing"}
  /\ writer' = [writer EXCEPT ![s] = "done"]
  /\ conn' = conn \ {s}
  /\ UNCHANGED <<hub, members, broadcast, send, closed, reader, batch, got, stop,
                 panicked, histVars>>

-----------------------------------------------------------------------------
(* BroadcastMetric drops what finds the channel full.                         *)

\* Mutant: a queue without a limit in place of the channel.
BroadcastMetric_Unbounded(t) ==
  /\ ~panicked /\ sent < MaxMessages
  /\ sent' = sent + 1
  /\ broadcast' = Append(broadcast, [topic |-> t, n |-> sent + 1])
  /\ UNCHANGED <<hub, members, send, closed, clientVars, stop, panicked, log,
                 joined>>

BroadcastMetric(t) ==
  /\ ~panicked /\ sent < MaxMessages
  /\ sent' = sent + 1
  /\ broadcast' = IF Len(broadcast) < BroadcastCap
                  THEN Append(broadcast, [topic |-> t, n |-> sent + 1])
                  ELSE broadcast
  /\ UNCHANGED <<hub, members, send, closed, clientVars, stop, panicked, log,
                 joined>>

(* Stop closes stopCh, then every client under clientsMu, then empties the map. *)
StopHub ==
  /\ ~panicked /\ stop = "no"
  /\ stop' = "closing"
  /\ UNCHANGED <<hub, members, broadcast, send, closed, clientVars, panicked,
                 histVars>>

StopLock ==
  /\ ~panicked /\ stop = "closing"
  /\ stop' = "clearing"
  /\ UNCHANGED <<hub, members, broadcast, send, closed, clientVars, panicked,
                 histVars>>

StopClient(s) ==
  /\ ~panicked /\ stop = "clearing"
  /\ s \in members \ closed
  /\ closed' = closed \cup {s}
  /\ conn' = conn \ {s}
  /\ UNCHANGED <<hub, members, broadcast, send, reader, writer, batch, got, stop,
                 panicked, histVars>>

\* Mutant: Stop leaves the map as it was.
StopDone_KeepsMap ==
  /\ ~panicked /\ stop = "clearing" /\ members \subseteq closed
  /\ stop' = "done"
  /\ UNCHANGED <<hub, members, broadcast, send, closed, clientVars, panicked,
                 histVars>>

StopDone ==
  /\ ~panicked /\ stop = "clearing" /\ members \subseteq closed
  /\ stop' = "done"
  /\ members' = {}
  /\ UNCHANGED <<hub, broadcast, send, closed, clientVars, panicked, histVars>>

-----------------------------------------------------------------------------
HubStep ==
  \/ \E s \in Subscribers : HubRegister(s) \/ HubUnregister(s) \/ HubSend(s)
  \/ HubTake \/ HubDelivered \/ HubStops

PumpStep(s) ==
  \/ Connect(s) \/ ReaderFails(s)
  \/ WriterTake(s) \/ WriterWrites(s) \/ WriterEnds(s)

StopStep == StopLock \/ (\E s \in Subscribers : StopClient(s)) \/ StopDone

Next ==
  \/ HubStep
  \/ \E s \in Subscribers : PumpStep(s)
  \/ \E t \in Topics : BroadcastMetric(t)
  \/ StopHub \/ StopStep

Spec == Init /\ [][Next]_vars

\* The goroutines run, that of Stop once it is called; select gives every ready
\* case its turn in the end; a write ends, well or at its 10 s deadline; a pump
\* whose connection is closed gets an error, writePump from its next ping at the
\* latest.
HubFairness ==
  /\ WF_vars(HubStep) /\ WF_vars(StopStep)
  /\ \A s \in Subscribers :
       /\ SF_vars(HubRegister(s) \/ HubUnregister(s))
       /\ WF_vars(\/ WriterTake(s) \/ WriterWrites(s)
                  \/ /\ WriterEnds(s)
                     /\ \/ writer[s] = "writing" \/ s \notin conn
                        \/ send[s] = <<>> /\ s \in closed)
       /\ WF_vars(ReaderFails(s) /\ s \notin conn)

FairSpec == Spec /\ HubFairness

-----------------------------------------------------------------------------
(* Properties.                                                                *)

\* A client in the map has an open Send channel, but while Stop clears the map:
\* the hub and Stop, which both close the channels of the clients they find
\* there, never close one twice.
MembersOpen == MapUnlocked => members \cap closed = {}

\* Only Stop makes the hub send on a closed channel: leaving clients never do,
\* however their unregistration falls between two deliveries.
PanicsOnlyAfterStop == panicked => stop \in {"clearing", "done"}

\* What a subscriber is due: the messages of its job the hub took since it was
\* registered, but for the one the hub has not offered it yet.
Due(s) ==
  LET job == log[TopicOf[s]] IN
  SubSeq(job, joined[s] + 1, IF s \in hub.rest THEN Len(job) - 1 ELSE Len(job))

\* A browser gets what it is due in order, without repetition and without a
\* gap; while it is connected nothing is missing but what is still on its way.
DeliveredWithoutGaps ==
  \A s \in Subscribers : writer[s] # "none" =>
    /\ LET d == Due(s) IN
       Len(got[s]) <= Len(d) /\ got[s] = SubSeq(d, 1, Len(got[s]))
    /\ s \in members /\ writer[s] # "done" =>
         got[s] \o batch[s] \o send[s] = Due(s)

\* Who waits for the hub is served, unless the hub has stopped, died or blocked
\* itself: a new connection is registered, and one that ended leaves the map, its
\* channel is closed and both its pumps end.
HubLost == panicked \/ hub.pc \in {"kick", "stopped"}

HubAnswers ==
  \A s \in Subscribers :
    reader[s] \in {"registering", "leaving"} ~>
      reader[s] = "reading" \/ (reader[s] = "gone" /\ writer[s] = "done") \/ HubLost

\* "Real-time push: log stream, metric updates": what was broadcast reaches the
\* hub as long as nobody stops it.
HubServes ==
  broadcast # <<>> ~> broadcast = <<>> \/ stop # "no" \/ panicked
=============================================================================
