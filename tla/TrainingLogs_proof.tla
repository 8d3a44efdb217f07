------------------------- MODULE TrainingLogs_proof -------------------------
(* Theorems about the log of a training job: TrainingScript, which writes it, and
   LogStream, by which a client reads it.  Of LogStream, for any number of
   entries, any limits, capacity and faults: types, delivery, and that it
   implements LogChannel.  Of TrainingScript, for any hyperparameters, defaults,
   environments and sizes of a read: types, true exit codes, and whole lines.
   The two share no variable.                                                *)
EXTENDS LogStream, TrainingScript, FiniteSetTheorems, SequenceTheorems,
        WellFoundedInduction, TLAPS

-----------------------------------------------------------------------------
(* Sequences.                                                                 *)

\* Moving the head of one part to the end of the part before changes nothing.
LEMMA MoveHead ==
  ASSUME NEW S, NEW s \in Seq(S), NEW t \in Seq(S), t # <<>>
  PROVE  Append(s, Head(t)) \o Tail(t) = s \o t
<1>1. Head(t) \in S /\ Tail(t) \in Seq(S) /\ <<Head(t)>> \in Seq(S)
  BY HeadTailProperties
<1>2. Append(s, Head(t)) = s \o <<Head(t)>>
  BY <1>1, AppendIsConcat
<1>3. (s \o <<Head(t)>>) \o Tail(t) = s \o (<<Head(t)>> \o Tail(t))
  BY <1>1, ConcatAssociative
<1>4. <<Head(t)>> \o Tail(t) = t
  <2>1. Len(t) \in Nat \ {0}
    BY EmptySeq
  <2>2. <<Head(t)>> \o Tail(t) \in Seq(S)
    BY <1>1, ConcatProperties
  <2>3. Len(<<Head(t)>> \o Tail(t)) = Len(t)
    BY <1>1, <2>1, ConcatProperties, HeadTailProperties
  <2>4. \A i \in 1..Len(t) : (<<Head(t)>> \o Tail(t))[i] = t[i]
    BY <1>1, <2>1, ConcatProperties, HeadTailProperties
  <2> QED BY <2>2, <2>3, <2>4, SeqEqual
<1> QED BY <1>2, <1>3, <1>4

\* Three parts can be grouped either way.
LEMMA Regroup ==
  ASSUME NEW m, NEW s \in Seq(1..m), NEW t \in Seq(1..m), NEW u \in Seq(1..m)
  PROVE  (s \o t) \o u = s \o (t \o u)
BY ConcatAssociative

\* Entries of a stream are entries of the longer one.
LEMMA Longer ==
  ASSUME NEW m \in Nat, NEW s \in Seq(1..m)
  PROVE  s \in Seq(1..(m + 1))
<1>1. 1..m \subseteq 1..(m + 1)
  OBVIOUS
<1> QED BY <1>1, SeqMonotonic

\* A sequence of ids in the stream's order.
Increasing(s) == \A i, j \in 1..Len(s) : i < j => s[i] < s[j]

\* The next id keeps the order.
LEMMA NextIncreasing ==
  ASSUME NEW m \in Nat, NEW s \in Seq(1..m), Increasing(s)
  PROVE  Increasing(s \o <<m + 1>>)
<1>1. s \in Seq(1..(m + 1)) /\ <<m + 1>> \in Seq(1..(m + 1))
  BY Longer
<1>2. Len(s) \in Nat /\ \A i \in 1..Len(s) : s[i] \in 1..m
  BY LenProperties, ElementOfSeq
<1>3. /\ Len(s \o <<m + 1>>) = Len(s) + 1
      /\ \A i \in 1..(Len(s) + 1) :
           (s \o <<m + 1>>)[i] = IF i <= Len(s) THEN s[i]
                                               ELSE <<m + 1>>[i - Len(s)]
  BY <1>1, ConcatProperties
<1> QED BY <1>2, <1>3 DEF Increasing

\* The history is a run of ids.
LEMMA HistoryType ==
  ASSUME NEW m \in Nat, made = m, NEW count \in Nat
  PROVE  ReadLogs(count) \in Seq(1..made) /\ Increasing(ReadLogs(count))
<1> DEFINE n == IF made - Oldest < count THEN made - Oldest ELSE count
<1>1. Oldest \in Nat /\ Oldest <= made
  BY StreamAssumption DEF Oldest
<1>2. n \in Nat /\ Oldest + n <= made
  BY <1>1
<1>3. ReadLogs(count) = [i \in 1..n |-> Oldest + i]
  BY DEF ReadLogs
<1> HIDE DEF n
<1>4. \A i \in 1..n : Oldest + i \in 1..made
  BY <1>1, <1>2
<1>5. [i \in 1..n |-> Oldest + i] \in Seq(1..made)
  BY <1>2, <1>4
<1>6. Len([i \in 1..n |-> Oldest + i]) = n
  BY <1>2, <1>5
<1> QED BY <1>1, <1>2, <1>3, <1>5, <1>6 DEF Increasing

-----------------------------------------------------------------------------
(* Types.                                                                     *)

\* Where StreamLogs can be.
ReaderState == [pc : {"find", "read", "wait", "push", "check", "done"},
                phase : Phase]

\* Every program counter in every phase is such a place.
LEMMA AtType ==
  ASSUME NEW p \in {"find", "read", "wait", "push", "check", "done"},
         NEW f \in Phase
  PROVE  At(p, f) \in ReaderState
BY DEF At, ReaderState

\* Initially.
LEMMA InitTypeOK == Init => TypeOK
<1> SUFFICES ASSUME Init PROVE TypeOK
  OBVIOUS
<1>1. reader \in ReaderState
  BY AtType DEF Init, Phase
<1>2. <<>> \in Seq(1..made) /\ Len(<<>>) = 0
  OBVIOUS
<1> QED BY <1>1, <1>2, StreamAssumption DEF Init, TypeOK, ReaderState

\* A step keeps the types.
LEMMA StepTypeOK ==
  ASSUME TypeOK, [Next]_vars
  PROVE  TypeOK'
<1> USE DEF streamVars, sseVars
<1>m. made \in Nat /\ fails \in Nat /\ MaxFails \in Nat
  BY StreamAssumption DEF TypeOK
<1>r. reader \in ReaderState /\ reader.phase \in Phase
  BY DEF TypeOK, ReaderState
<1>a. \A p \in {"find", "read", "wait", "push", "check", "done"}, f \in Phase :
        At(p, f) \in ReaderState
  BY AtType
<1>p. {"history", "live", "last"} = Phase
  BY DEF Phase
<1>f. ASSUME NEW kind, Fail(kind) PROVE fails' \in 0..MaxFails
  BY <1>m, <1>f DEF Fail
<1>q. [reader EXCEPT !.pc = "push"] \in ReaderState
  BY <1>r DEF ReaderState
<1>1. CASE JobMoves
  BY <1>1 DEF JobMoves, TypeOK
<1>2. CASE AppendLog
  <2>1. made' \in 0..MaxEntries /\ made' = made + 1
    BY <1>2, <1>m, StreamAssumption DEF AppendLog
  <2>2. /\ batch \in Seq(1..(made + 1)) /\ logChan \in Seq(1..(made + 1))
        /\ out \in Seq(1..(made + 1)) /\ heard \in Seq(1..(made + 1))
    BY <1>m, Longer DEF TypeOK
  <2>3. <<made + 1>> \in Seq(1..(made + 1))
    BY <1>m
  <2>4. heard \o <<made + 1>> \in Seq(1..(made + 1))
    BY <2>2, <2>3, ConcatProperties
  <2>5. /\ reader' \in ReaderState /\ batch' \in Seq(1..(made + 1))
        /\ heard' \in Seq(1..(made + 1))
    BY <1>2, <1>q, <1>r, <2>2, <2>3, <2>4 DEF AppendLog, Returned
  <2> QED BY <1>2, <2>1, <2>2, <2>5 DEF AppendLog, TypeOK, ReaderState
<1>3. CASE Find
  <2>1. reader' \in ReaderState /\ batch' = batch /\ heard' = heard
    BY <1>3, <1>a, <1>p DEF Find, ReaderTo
  <2>2. fails' \in 0..MaxFails
    BY <1>3, <1>f DEF Find, TypeOK
  <2> QED BY <1>3, <2>1, <2>2 DEF Find, TypeOK, ReaderState
<1>4. CASE ReadHistory
  <2>1. ReadLogs(HistoryCount) \in Seq(1..made)
    BY <1>m, HistoryType, StreamAssumption
  <2>2. heard \o ReadLogs(HistoryCount) \in Seq(1..made)
    BY <2>1, ConcatProperties DEF TypeOK
  <2>3. /\ reader' \in ReaderState /\ batch' \in Seq(1..made)
        /\ heard' \in Seq(1..made)
    BY <1>4, <1>a, <1>p, <1>q, <2>1, <2>2 DEF ReadHistory, Returned, ReaderTo, TypeOK
  <2>4. fails' \in 0..MaxFails
    BY <1>4, <1>f DEF ReadHistory, TypeOK
  <2> QED BY <1>4, <2>3, <2>4 DEF ReadHistory, TypeOK, ReaderState
<1>5. CASE Push
  <2>1. /\ Append(logChan, Head(batch)) \in Seq(1..made)
        /\ Tail(batch) \in Seq(1..made)
        /\ Len(Append(logChan, Head(batch))) = Len(logChan) + 1
    BY <1>5, HeadTailProperties, AppendProperties DEF Push, TypeOK
  <2>2. Len(logChan) + 1 <= Buffer
    BY <1>5, LenProperties, StreamAssumption DEF Push, TypeOK
  <2> QED BY <1>5, <2>1, <2>2 DEF Push, TypeOK
<1>6. CASE PushCancelled
  BY <1>6, <1>a, <1>r DEF PushCancelled, ReaderTo, TypeOK, ReaderState
<1>7. CASE Pushed
  <2>1. reader' \in ReaderState
    BY <1>7, <1>a, <1>p, <1>r DEF Pushed, ReaderTo
  <2> QED BY <1>7, <2>1 DEF Pushed, ReaderTo, TypeOK, ReaderState
<1>8. CASE ReadLive
  <2>1. reader' \in ReaderState
    BY <1>8, <1>a, <1>p, <1>r DEF ReadLive, ReaderTo
  <2> QED BY <1>8, <2>1 DEF ReadLive, ReaderTo, TypeOK, ReaderState
<1>9. CASE ReadTimesOut
  <2>1. heard \o <<>> = heard
    BY ConcatEmptySeq DEF TypeOK
  <2> QED BY <1>9, <1>q, <2>1 DEF ReadTimesOut, Returned, TypeOK, ReaderState
<1>10. CASE ReadFails
  <2>1. reader' \in ReaderState /\ batch' = batch /\ heard' = heard
    BY <1>10, <1>a, <1>p DEF ReadFails, ReaderTo
  <2>2. fails' \in 0..MaxFails
    BY <1>10, <1>f DEF ReadFails
  <2> QED BY <1>10, <2>1, <2>2 DEF ReadFails, TypeOK, ReaderState
<1>11. CASE IsRunning
  <2>1. reader' \in ReaderState /\ batch' = batch /\ heard' = heard
    BY <1>11, <1>a, <1>p DEF IsRunning, ReaderTo
  <2>2. fails' \in 0..MaxFails
    BY <1>11, <1>f DEF IsRunning, TypeOK
  <2> QED BY <1>11, <2>1, <2>2 DEF IsRunning, TypeOK, ReaderState
<1>12. CASE Deliver
  <2>1. /\ Head(logChan) \in 1..made /\ Tail(logChan) \in Seq(1..made)
        /\ Len(Tail(logChan)) = Len(logChan) - 1
    BY <1>12, HeadTailProperties DEF Deliver, TypeOK
  <2>2. Append(out, Head(logChan)) \in Seq(1..made)
    BY <2>1, AppendProperties DEF TypeOK
  <2>3. Len(logChan) - 1 <= Buffer
    BY LenProperties, StreamAssumption DEF TypeOK
  <2> QED BY <1>12, <2>1, <2>2, <2>3 DEF Deliver, TypeOK
<1>13. CASE EndStream
  BY <1>13 DEF EndStream, TypeOK
<1>14. CASE HandlerLeaves
  BY <1>14 DEF HandlerLeaves, TypeOK
<1>15. CASE ClientLeaves
  BY <1>15 DEF ClientLeaves, TypeOK
<1>16. CASE UNCHANGED vars
  BY <1>16 DEF vars, TypeOK
<1> QED
  BY <1>1, <1>2, <1>3, <1>4, <1>5, <1>6, <1>7, <1>8, <1>9, <1>10, <1>11, <1>12,
     <1>13, <1>14, <1>15, <1>16 DEF Next, ReaderStep, HandlerStep

\* Every reachable state is well typed: the channel never holds more than its
\* capacity, and no id is heard of that the stream has not given out.
THEOREM TypeCorrect == Spec => []TypeOK
<1>1. Init => TypeOK
  BY InitTypeOK
<1>2. TypeOK /\ [Next]_vars => TypeOK'
  BY StepTypeOK
<1> QED BY <1>1, <1>2, PTL DEF Spec

-----------------------------------------------------------------------------
(* Delivery.  What was heard is in the client, the channel or the batch, in that
   order; the batch is empty but while it is pushed, or when the reader gave up
   because the client is gone; the history is read before anything is heard.  *)

Delivery ==
  /\ client = "here" => heard = out \o logChan \o batch
  /\ Increasing(heard)
  /\ reader.pc \notin {"push", "done"} => batch = <<>>
  /\ reader.pc = "done" /\ client = "here" => batch = <<>>
  /\ handler = "ended" => reader.pc = "done" /\ logChan = <<>>
  /\ reader.pc = "find" \/ reader = At("read", "history") => heard = <<>>

\* Delivery says at least what the property does.
LEMMA DeliveryIsEnough == TypeOK /\ Delivery => HeardIsDelivered
<1> SUFFICES ASSUME TypeOK, Delivery, client = "here"
             PROVE  /\ heard = out \o logChan \o batch
                    /\ handler = "ended" => out = heard
  BY DEF HeardIsDelivered
<1>1. out \o <<>> = out
  BY ConcatEmptySeq DEF TypeOK
<1>2. CASE handler = "ended"
  <2>1. logChan = <<>> /\ batch = <<>>
    BY <1>2 DEF Delivery
  <2> QED BY <1>1, <2>1 DEF Delivery
<1> QED BY <1>2 DEF Delivery

\* Initially nothing was heard.
LEMMA InitDelivery == Init => Delivery
<1>1. <<>> \o <<>> \o <<>> = <<>> /\ Increasing(<<>>)
  BY DEF Increasing
<1> QED BY <1>1 DEF Init, Delivery, At

\* A read that returns entries which continue what was heard.
LEMMA ReturnedDelivery ==
  ASSUME TypeOK, Delivery, NEW entries \in Seq(Nat), Returned(entries),
         reader.pc \in {"read", "wait"}, Increasing(heard \o entries),
         UNCHANGED sseVars
  PROVE  Delivery'
<1> USE DEF sseVars
<1>1. batch = <<>> /\ handler # "ended"
  BY DEF Delivery
<1>2. reader'.pc = "push"
  BY DEF Returned, TypeOK
<1>3. heard' = heard \o entries /\ batch' = entries /\ Increasing(heard')
  BY DEF Returned, Increasing
<1>4. ASSUME client = "here" PROVE heard' = out' \o logChan' \o batch'
  <2>1. out \in Seq(Nat) /\ logChan \in Seq(Nat)
    <3>1. 1..made \subseteq Nat
      BY DEF TypeOK
    <3> QED BY <3>1, SeqMonotonic DEF TypeOK
  <2>2. (out \o logChan) \o <<>> = out \o logChan
    BY <2>1, ConcatProperties, ConcatEmptySeq
  <2> QED BY <1>1, <1>3, <1>4, <2>2 DEF Delivery
<1>5. reader' # At("read", "history")
  BY <1>2 DEF At
<1> QED BY <1>1, <1>2, <1>3, <1>4, <1>5 DEF Delivery

\* A step of the reader that reads and pushes nothing.
LEMMA MoveDelivery ==
  ASSUME TypeOK, Delivery, NEW r, ReaderTo(r), UNCHANGED sseVars,
         reader.pc # "done",
         batch = <<>> \/ (r.pc = "done" /\ client = "gone"),
         r.pc # "find", r # At("read", "history") \/ heard = <<>>
  PROVE  Delivery'
<1>1. handler # "ended"
  BY DEF Delivery
<1> QED BY <1>1 DEF Delivery, ReaderTo, sseVars, Increasing

\* A step keeps Delivery.
LEMMA StepDelivery ==
  ASSUME TypeOK, Delivery, [Next]_vars
  PROVE  Delivery'
<1> USE DEF streamVars, sseVars
<1>t. /\ made \in Nat /\ batch \in Seq(1..made) /\ logChan \in Seq(1..made)
      /\ out \in Seq(1..made) /\ heard \in Seq(1..made)
  BY DEF TypeOK
<1>n. \A s \in Seq(1..made) : s \in Seq(Nat)
  <2>1. 1..made \subseteq Nat
    BY <1>t
  <2> QED BY <2>1, SeqMonotonic
<1>a. \A p, f : At(p, f).pc = p /\ At(p, f).phase = f
  BY DEF At
<1>1. CASE JobMoves
  BY <1>1 DEF JobMoves, Delivery, Increasing
<1>2. CASE AppendLog
  <2>1. CASE reader.pc = "wait"
    <3>1. Increasing(heard \o <<made + 1>>)
      BY <1>t, NextIncreasing DEF Delivery
    <3>2. <<made + 1>> \in Seq(Nat)
      BY <1>t
    <3> QED BY <1>2, <2>1, <3>1, <3>2, ReturnedDelivery DEF AppendLog
  <2>2. CASE reader.pc # "wait"
    BY <1>2, <2>2 DEF AppendLog, Delivery, Increasing
  <2> QED BY <2>1, <2>2
<1>3. CASE Find
  <2>1. PICK r : ReaderTo(r) /\ r \in {At("read", "history"), At("done", "history")}
    BY <1>3 DEF Find
  <2>2. batch = <<>> /\ heard = <<>>
    BY <1>3 DEF Find, Delivery
  <2>3. r.pc # "find"
    BY <2>1, <1>a
  <2> QED BY <1>3, <2>1, <2>2, <2>3, MoveDelivery DEF Find
<1>4. CASE ReadHistory
  <2>1. batch = <<>> /\ heard = <<>> /\ reader.pc = "read"
    BY <1>4, <1>a DEF ReadHistory, Delivery
  <2>2. CASE Returned(ReadLogs(HistoryCount))
    <3>1. ReadLogs(HistoryCount) \in Seq(1..made) /\ Increasing(ReadLogs(HistoryCount))
      BY <1>t, HistoryType, StreamAssumption
    <3>2. heard \o ReadLogs(HistoryCount) = ReadLogs(HistoryCount)
      BY <2>1, <3>1, ConcatEmptySeq
    <3>3. ReadLogs(HistoryCount) \in Seq(Nat)
      BY <3>1, <1>n
    <3>4. Increasing(heard \o ReadLogs(HistoryCount))
      BY <3>1, <3>2
    <3> QED BY <1>4, <2>1, <2>2, <3>3, <3>4, ReturnedDelivery DEF ReadHistory
  <2>3. CASE ReaderTo(At("read", "live"))
    BY <1>4, <1>a, <2>1, <2>3, MoveDelivery DEF ReadHistory
  <2> QED BY <1>4, <2>2, <2>3 DEF ReadHistory
<1>5. CASE Push
  <2>1. Head(batch) \in 1..made /\ Tail(batch) \in Seq(1..made)
    BY <1>5, <1>t, HeadTailProperties DEF Push
  <2>2. Append(logChan, Head(batch)) \in Seq(1..made)
    BY <1>t, <2>1, AppendProperties
  <2>3. Append(logChan, Head(batch)) \o Tail(batch) = logChan \o batch
    BY <1>5, <1>t, MoveHead DEF Push
  <2>4. \A s, t, u \in Seq(1..made) : (s \o t) \o u = s \o (t \o u)
    BY Regroup
  <2>5. (out \o Append(logChan, Head(batch))) \o Tail(batch)
          = out \o (Append(logChan, Head(batch)) \o Tail(batch))
    BY <1>t, <2>1, <2>2, <2>4
  <2>6. (out \o logChan) \o batch = out \o (logChan \o batch)
    BY <1>t, <2>4
  <2>7. client = "here" => heard' = out' \o logChan' \o batch'
    BY <1>5, <2>3, <2>5, <2>6 DEF Push, Delivery
  <2> QED BY <1>5, <2>7 DEF Push, Delivery, Increasing, At
<1>6. CASE PushCancelled
  BY <1>6, <1>a, MoveDelivery DEF PushCancelled
<1>7. CASE Pushed
  <2>1. PICK r : ReaderTo(r) /\ r \in {At("read", "live"), At("check", "live"),
                                       At("done", "last")}
    BY <1>7 DEF Pushed, TypeOK, Phase
  <2>2. r.pc # "find" /\ r # At("read", "history")
    BY <2>1, <1>a DEF At
  <2> QED BY <1>7, <2>1, <2>2, MoveDelivery DEF Pushed
<1>8. CASE ReadLive
  <2>1. PICK r : ReaderTo(r) /\ r \in {At("done", "live"), At("wait", reader.phase)}
    BY <1>8 DEF ReadLive
  <2>2. r.pc # "find" /\ r # At("read", "history")
    BY <2>1, <1>a DEF At
  <2>3. batch = <<>>
    BY <1>8 DEF ReadLive, Delivery
  <2> QED BY <1>8, <2>1, <2>2, <2>3, MoveDelivery DEF ReadLive
<1>9. CASE ReadTimesOut
  <2>1. heard \o <<>> = heard /\ <<>> \in Seq(Nat)
    BY <1>t, ConcatEmptySeq
  <2>2. Increasing(heard \o <<>>)
    BY <2>1 DEF Delivery
  <2> QED BY <1>9, <2>1, <2>2, ReturnedDelivery DEF ReadTimesOut
<1>10. CASE ReadFails
  <2>1. PICK r : ReaderTo(r) /\ r \in {At("push", "last"), At("done", "live"),
                                       At("read", "live")}
    BY <1>10 DEF ReadFails
  <2>2. r.pc # "find" /\ r # At("read", "history")
    BY <2>1, <1>a DEF At
  <2>3. batch = <<>>
    BY <1>10 DEF ReadFails, Delivery
  <2> QED BY <1>10, <2>1, <2>2, <2>3, MoveDelivery DEF ReadFails
<1>11. CASE IsRunning
  <2>1. PICK r : ReaderTo(r) /\ r \in {At("read", "live"), At("read", "last")}
    BY <1>11 DEF IsRunning
  <2>2. r.pc # "find" /\ r # At("read", "history")
    BY <2>1, <1>a DEF At
  <2>3. batch = <<>>
    BY <1>11 DEF IsRunning, Delivery
  <2> QED BY <1>11, <2>1, <2>2, <2>3, MoveDelivery DEF IsRunning
<1>12. CASE Deliver
  <2>1. client = "here" => Append(out, Head(logChan)) \o Tail(logChan) = out \o logChan
    BY <1>12, <1>t, MoveHead DEF Deliver
  <2> QED BY <1>12, <2>1 DEF Deliver, Delivery, Increasing
<1>13. CASE EndStream
  BY <1>13 DEF EndStream, Closed, Delivery, Increasing
<1>14. CASE HandlerLeaves
  BY <1>14 DEF HandlerLeaves, Delivery, Increasing
<1>15. CASE ClientLeaves
  BY <1>15 DEF ClientLeaves, Delivery, Increasing
<1>16. CASE UNCHANGED vars
  BY <1>16 DEF vars, Delivery, Increasing
<1> QED
  BY <1>1, <1>2, <1>3, <1>4, <1>5, <1>6, <1>7, <1>8, <1>9, <1>10, <1>11, <1>12,
     <1>13, <1>14, <1>15, <1>16 DEF Next, ReaderStep, HandlerStep

\* Every reachable state satisfies both.
LEMMA Inductive == Spec => [](TypeOK /\ Delivery)
<1>1. Init => TypeOK /\ Delivery
  BY InitTypeOK, InitDelivery
<1>2. TypeOK /\ Delivery /\ [Next]_vars => TypeOK' /\ Delivery'
  BY StepTypeOK, StepDelivery
<1> QED BY <1>1, <1>2, PTL DEF Spec

\* Nothing a read of the stream returned is lost on its way to a client that
\* stays, and nothing is left of it when the end event is sent.
THEOREM HeardReachesClient == Spec => []HeardIsDelivered
BY Inductive, DeliveryIsEnough, PTL

-----------------------------------------------------------------------------
(* The stream implements the channel.                                         *)

\* Delivering to a client that is there shows it a newer entry.
LEMMA DeliverShows ==
  ASSUME TypeOK, Delivery, Deliver, client = "here"
  PROVE  Channel!Show
<1>t. /\ made \in Nat /\ logChan \in Seq(1..made) /\ batch \in Seq(1..made)
      /\ out \in Seq(1..made) /\ logChan # <<>>
  BY DEF TypeOK, Deliver
<1> DEFINE n == Len(out)
           rest == logChan \o batch
<1>1. n \in Nat /\ Len(logChan) \in Nat \ {0} /\ Head(logChan) = logChan[1]
  BY <1>t, LenProperties, EmptySeq
<1>2. rest \in Seq(1..made) /\ rest[1] = Head(logChan) /\ Len(rest) \in Nat \ {0}
  <2>1. Len(batch) \in Nat
    BY <1>t, LenProperties
  <2> QED BY <1>t, <1>1, <2>1, ConcatProperties
<1>3. heard = out \o rest
  <2>1. \A s, t, u \in Seq(1..made) : (s \o t) \o u = s \o (t \o u)
    BY Regroup
  <2>2. (out \o logChan) \o batch = out \o (logChan \o batch)
    BY <1>t, <2>1
  <2> QED BY <2>2 DEF Delivery
<1> HIDE DEF rest
<1>4. /\ Len(heard) = n + Len(rest)
      /\ \A i \in 1..(n + Len(rest)) :
           heard[i] = IF i <= n THEN out[i] ELSE rest[i - n]
  BY <1>t, <1>2, <1>3, ConcatProperties
<1>5. heard[n + 1] = Head(logChan) /\ n + 1 \in 1..Len(heard)
  BY <1>1, <1>2, <1>4
<1>6. Head(logChan) \in 1..made
  BY <1>t, HeadTailProperties
<1>7. Head(logChan) \in Channel!Newest + 1 .. made
  <2>1. CASE out = <<>>
    BY <1>6, <2>1 DEF Channel!Newest
  <2>2. CASE out # <<>>
    <3>1. n \in 1..Len(heard) /\ out[n] \in 1..made
      BY <1>t, <1>1, <1>2, <1>4, <2>2, EmptySeq, ElementOfSeq
    <3>2. heard[n] = out[n] /\ heard[n] < heard[n + 1]
      BY <1>1, <1>4, <1>5, <3>1 DEF Delivery, Increasing
    <3>3. Channel!Newest = out[n]
      BY <2>2 DEF Channel!Newest
    <3> QED BY <1>5, <1>6, <3>1, <3>2, <3>3
  <2> QED BY <2>1, <2>2
<1>8. out' = Append(out, Head(logChan)) /\ UNCHANGED <<made, handler>>
      /\ handler = "serving"
  BY DEF Deliver
<1> QED BY <1>7, <1>8 DEF Channel!Show

\* Every step is a step of the channel or leaves it as it is.
LEMMA StepRefines ==
  ASSUME TypeOK, Delivery, [Next]_vars
  PROVE  [Channel!Next]_(Channel!vars)
<1> USE DEF streamVars, sseVars, Channel!vars
<1>1. CASE AppendLog
  BY <1>1 DEF AppendLog, Channel!Make, Channel!Next
<1>2. CASE Deliver
  <2>1. CASE client = "here"
    BY <1>2, <2>1, DeliverShows DEF Channel!Next
  <2>2. CASE client # "here"
    BY <1>2, <2>2 DEF Deliver
  <2> QED BY <2>1, <2>2
<1>3. CASE EndStream \/ HandlerLeaves
  BY <1>3 DEF EndStream, HandlerLeaves, Channel!End, Channel!Next
<1>4. CASE JobMoves \/ ClientLeaves \/ UNCHANGED vars
  BY <1>4 DEF JobMoves, ClientLeaves, vars
<1>5. CASE ReaderStep
  BY <1>5 DEF ReaderStep, Find, ReadHistory, Push, PushCancelled, Pushed,
     ReadLive, ReadTimesOut, ReadFails, IsRunning
<1> QED BY <1>1, <1>2, <1>3, <1>4, <1>5 DEF Next, HandlerStep

\* The SSE stream implements the lossy channel that keeps the order: whatever
\* fails and however readers and writers interleave, entries arrive in the order
\* they were made, at most once, and never after the end.
THEOREM StreamKeepsOrder == Spec => InOrder
<1>1. Init => Channel!Init
  BY DEF Init, Channel!Init
<1>2. TypeOK /\ Delivery /\ [Next]_vars => [Channel!Next]_(Channel!vars)
  BY StepRefines
<1> QED BY <1>1, <1>2, Inductive, PTL DEF Spec, InOrder, Channel!Spec

-----------------------------------------------------------------------------
(* TrainingScript: types.                                                     *)

\* What the script is while it runs, and a frame of what it writes.
ScriptState == [pc : {"class", "start", "try", "done"}, epoch : Nat,
                hyper : SUBSET ToSet(Keys), left : Seq(DOMAIN Defaults)]
Line == [source : {"stdout", "stderr"}, text : Texts, epoch : Nat]

\* The steps of the script; the others are collectLogs's.
RunStep == \/ Import \/ DefineHyper \/ DefineDefault \/ StartTrain \/ MakeOutput
           \/ TrainEpoch \/ PyTorchCompletes \/ TensorFlowCompletes
           \/ HuggingFaceCompletes \/ Except \/ CustomScript \/ Kill

\* A map from some names has its names and values among those.
LEMMA PartialType ==
  ASSUME NEW S, NEW T, NEW f \in Partial(S, T)
  PROVE  DOMAIN f \subseteq S /\ \A x \in DOMAIN f : f[x] \in T
<1>1. PICK D \in SUBSET S : f \in [D -> T]
  BY DEF Partial
<1> QED BY <1>1

\* The names every script sets are names it has defaults for.
LEMMA CommonType ==
  Common \in Seq(DOMAIN Defaults)
  /\ Append(Common, "MAX_LENGTH") \in Seq(DOMAIN Defaults)
<1>1. Common \in Seq(STRING) /\ "MAX_LENGTH" \in DOMAIN Defaults
  BY ScriptAssumption
<1>2. \A i \in 1..Len(Common) : Common[i] \in DOMAIN Defaults
  BY <1>1, ScriptAssumption DEF ToSet
<1>3. Len(Common) \in Nat /\ Common = [i \in 1..Len(Common) |-> Common[i]]
  BY <1>1
<1>4. Common \in Seq(DOMAIN Defaults)
  BY <1>2, <1>3
<1> QED BY <1>1, <1>4, AppendProperties

\* What is generated is a script.
LEMMA GenerateType == ASSUME NEW j \in Settings PROVE Generate(j) \in ScriptState
<1>1. DOMAIN j.hyper \subseteq ToSet(Keys)
  BY PartialType DEF Settings
<1>2. <<>> \in Seq(DOMAIN Defaults) /\ 0 \in Nat
  OBVIOUS
<1>3. CustomTemplate \in ScriptState
  BY <1>2 DEF CustomTemplate, ScriptState
<1>4. ASSUME NEW left \in Seq(DOMAIN Defaults) PROVE Program(j.hyper, left) \in ScriptState
  BY <1>1, <1>2, <1>4 DEF Program, ScriptState
<1>5. /\ PyTorchTemplate(j.hyper) \in ScriptState
      /\ TensorFlowTemplate(j.hyper) \in ScriptState
      /\ HuggingFaceTemplate(j.hyper) \in ScriptState
  BY <1>4, CommonType DEF PyTorchTemplate, TensorFlowTemplate, HuggingFaceTemplate
<1> QED BY <1>3, <1>5, Zenon DEF Generate

\* The initial state is typed.
LEMMA ScriptInitTypeOK == ScriptInit => ScriptTypeOK
<1> SUFFICES ASSUME ScriptInit PROVE ScriptTypeOK
  OBVIOUS
<1>1. settings \in Settings /\ script \in ScriptState
  BY GenerateType DEF ScriptInit
<1>2. script.pc # "done"
  BY DEF ScriptInit, Generate, PyTorchTemplate, TensorFlowTemplate,
     HuggingFaceTemplate, CustomTemplate, Program
<1>3. output \in Seq(Line) /\ Len(output) = 0
  <2>1. output = <<>>
    BY Zenon DEF ScriptInit
  <2> QED BY <2>1
<1>4. NoEntry \in Entry /\ NoEntry.lo = 0 /\ NoEntry.hi = 0
  <2>1. PICK none \in Sources : NoEntry = [lo |-> 0, hi |-> 0, source |-> none,
                                          level |-> "INFO", metrics |-> FALSE]
    BY Zenon DEF NoEntry, Sources
  <2> QED BY <2>1 DEF Entry
<1>5. log \in [length : Nat, newest : Entry] /\ log.newest = NoEntry
  BY <1>4 DEF ScriptInit
<1>6. exit = None /\ collector = "reading" /\ stream \in Sources
  BY Zenon DEF ScriptInit, Sources
<1>7. pos = 0
  BY DEF ScriptInit
<1>8. sound \in BOOLEAN
  BY Zenon DEF ScriptInit
<1>9. pos \in 0..3 * Len(output)
  BY <1>3, <1>7
<1>10. log.newest.lo <= log.newest.hi /\ log.newest.hi <= pos
  BY <1>4, <1>5, <1>7
<1>11. /\ exit \in Codes \cup {None} /\ (exit # None <=> script.pc = "done")
       /\ collector \in {"reading", "done"} /\ stream \in Sources
  BY <1>2, <1>6
<1> QED BY <1>1, <1>3, <1>5, <1>8, <1>9, <1>10, <1>11, Zenon DEF ScriptTypeOK, ScriptState, Line

\* A script that writes adds a line, and one that ends keeps all but its place.
LEMMA WriteType ==
  ASSUME ScriptTypeOK, NEW source \in {"stdout", "stderr"}, NEW text \in Texts,
         Write(source, text)
  PROVE  \E f \in Line : /\ f.source = source /\ f.text = text /\ f.epoch = script.epoch
                         /\ output' = Append(output, f)
<1>1. script.epoch \in Nat
  BY DEF ScriptTypeOK
<1>2. [source |-> source, text |-> text, epoch |-> script.epoch] \in Line
  BY <1>1 DEF Line
<1> QED BY <1>2 DEF Write

LEMMA EndsType ==
  ASSUME ScriptTypeOK, NEW code \in Codes, Ends(code)
  PROVE  /\ script' \in ScriptState /\ script'.pc = "done"
         /\ script'.epoch = script.epoch
         /\ exit' = code /\ exit' # None
<1>1. script \in ScriptState
  BY DEF ScriptTypeOK, ScriptState
<1>2. code \in Nat /\ None \notin Nat
  BY ScriptAssumption
<1>3. script' = [script EXCEPT !.pc = "done"] /\ exit' = code
  BY DEF Ends
<1>4. script' \in ScriptState /\ script'.pc = "done" /\ script'.epoch = script.epoch
  BY <1>1, <1>3 DEF ScriptState
<1> QED BY <1>2, <1>3, <1>4

\* Frames once written stay, and new ones come behind them.
Extends(q, r) == /\ r \in Seq(Line) /\ Len(q) <= Len(r)
                 /\ \A i \in 1..Len(q) : r[i] = q[i]

\* What a step of the script leaves behind, apart from the class Config.
Runs == /\ script' \in ScriptState /\ Extends(output, output')
        /\ exit' \in Codes \cup {None} /\ (exit' # None <=> script'.pc = "done")

\* The script's part of the types, by the names used here.
LEMMA RunTypes ==
  ASSUME ScriptTypeOK
  PROVE  /\ script \in ScriptState /\ output \in Seq(Line) /\ Extends(output, output)
         /\ exit \in Codes \cup {None} /\ (exit # None <=> script.pc = "done")
<1>1. script \in ScriptState /\ output \in Seq(Line)
  BY DEF ScriptTypeOK, ScriptState, Line
<1>2. Extends(output, output)
  BY <1>1 DEF Extends
<1>3. exit \in Codes \cup {None} /\ (exit # None <=> script.pc = "done")
  BY DEF ScriptTypeOK
<1> QED BY <1>1, <1>2, <1>3

\* One more frame.
LEMMA AppendExtends ==
  ASSUME NEW q \in Seq(Line), NEW f \in Line
  PROVE  Extends(q, Append(q, f))
<1>1. Append(q, f) \in Seq(Line) /\ Len(Append(q, f)) = Len(q) + 1
  BY AppendProperties
<1>2. \A i \in 1..Len(q) : Append(q, f)[i] = q[i]
  BY AppendProperties
<1>3. Len(q) \in Nat
  OBVIOUS
<1> QED BY <1>1, <1>2, <1>3 DEF Extends

\* A step that writes a line, and one that writes it and ends.
LEMMA WriteExtends ==
  ASSUME ScriptTypeOK, NEW source \in {"stdout", "stderr"}, NEW text \in Texts,
         Write(source, text)
  PROVE  Extends(output, output')
<1>1. PICK f \in Line : output' = Append(output, f)
  BY WriteType
<1> QED BY <1>1, RunTypes, AppendExtends

LEMMA LastWords ==
  ASSUME ScriptTypeOK, NEW source \in {"stdout", "stderr"}, NEW text \in Texts,
         Write(source, text), NEW code \in Codes, Ends(code)
  PROVE  Runs
<1>1. Extends(output, output')
  BY WriteExtends
<1>2. script' \in ScriptState /\ script'.pc = "done" /\ exit' = code /\ exit' # None
  BY EndsType
<1> QED BY <1>1, <1>2 DEF Runs

LEMMA UncaughtRuns == ASSUME ScriptTypeOK, Uncaught PROVE Runs
<1>1. "stderr" \in {"stdout", "stderr"} /\ "traceback" \in Texts /\ 1 \in Codes
  BY ScriptAssumption DEF Texts
<1> QED BY <1>1, LastWords, Zenon DEF Uncaught

\* Each of the script's steps leaves its state typed, adds frames behind those
\* written, and touches neither the job nor the collector.
LEMMA RunStepRuns == ASSUME ScriptTypeOK, RunStep PROVE Runs
<1> USE RunTypes
<1>1. CASE Import
  BY <1>1, UncaughtRuns DEF Import
<1>2. CASE DefineHyper
  <2>1. CASE Uncaught
    BY <2>1, UncaughtRuns
  <2>2. CASE ~Uncaught
    <3>1. PICK k : script' = [script EXCEPT !.hyper = @ \ {k}]
      BY <1>2, <2>2, Zenon DEF DefineHyper
    <3>2. script.pc = "class" /\ output' = output /\ exit' = exit
      BY <1>2, <2>2, Zenon DEF DefineHyper
    <3>3. script' \in ScriptState /\ script'.pc = script.pc
      BY <3>1 DEF ScriptState
    <3> QED BY <3>2, <3>3 DEF Runs
  <2> QED BY <2>1, <2>2
<1>3. CASE DefineDefault
  <2>1. CASE Uncaught
    BY <2>1, UncaughtRuns
  <2>2. CASE ~Uncaught
    <3>1. script' = [script EXCEPT !.left = Tail(@)]
      BY <1>3, <2>2, Zenon DEF DefineDefault
    <3>2. /\ script.pc = "class" /\ output' = output /\ exit' = exit
          /\ script.left # <<>>
      BY <1>3, <2>2, Zenon DEF DefineDefault
    <3>3. script.left \in Seq(DOMAIN Defaults)
      BY DEF ScriptState
    <3>4. Tail(script.left) \in Seq(DOMAIN Defaults)
      BY <3>2, <3>3, HeadTailProperties
    <3>5. script' \in ScriptState /\ script'.pc = script.pc
      BY <3>1, <3>4 DEF ScriptState
    <3> QED BY <3>2, <3>5 DEF Runs
  <2> QED BY <2>1, <2>2
<1>4. CASE StartTrain
  <2>1. Write("stdout", "info") /\ "info" \in Texts
    BY <1>4 DEF StartTrain, Texts
  <2>2. Extends(output, output')
    BY <2>1, WriteExtends
  <2>3. script.pc = "class" /\ exit' = exit /\ script' = [script EXCEPT !.pc = "start"]
    BY <1>4 DEF StartTrain
  <2>4. script' \in ScriptState /\ script'.pc = "start"
    BY <2>3 DEF ScriptState
  <2> QED BY <2>2, <2>3, <2>4 DEF Runs
<1>5. CASE MakeOutput
  <2>1. CASE Uncaught
    BY <2>1, UncaughtRuns
  <2>2. CASE script' = [script EXCEPT !.pc = "try"] /\ UNCHANGED <<output, exit>>
    <3>1. script.pc = "start"
      BY <1>5 DEF MakeOutput
    <3>2. script' \in ScriptState /\ script'.pc = "try"
      BY <2>2 DEF ScriptState
    <3> QED BY <2>2, <3>1, <3>2 DEF Runs
  <2> QED BY <1>5, <2>1, <2>2 DEF MakeOutput
<1>6. CASE TrainEpoch
  <2> DEFINE L(text) == [source |-> "stdout", text |-> text, epoch |-> script.epoch + 1]
             q == Append(output, L("epoch"))
  <2>1. script.epoch \in Nat /\ script.epoch + 1 \in Nat
    BY DEF ScriptState
  <2>2. L("epoch") \in Line /\ L("metrics") \in Line
    BY <2>1 DEF Line, Texts
  <2>3. output' = output \o <<L("epoch"), L("metrics")>>
    BY <1>6, Zenon DEF TrainEpoch
  <2>4. script' = [script EXCEPT !.epoch = @ + 1] /\ script.pc = "try" /\ exit' = exit
    BY <1>6 DEF TrainEpoch
  <2> HIDE DEF L
  <2>5. output' = Append(q, L("metrics"))
    BY <2>2, <2>3
  <2>6. Extends(output, q) /\ q \in Seq(Line)
    BY <2>2, AppendExtends DEF Extends
  <2> HIDE DEF q
  <2>7. Extends(q, output')
    BY <2>2, <2>5, <2>6, AppendExtends
  <2>8. Len(output) \in Nat /\ Len(q) \in Nat /\ Len(output') \in Nat
    BY <2>6, <2>7 DEF Extends
  <2>9. Extends(output, output')
    BY <2>6, <2>7, <2>8 DEF Extends
  <2>10. script' \in ScriptState /\ script'.pc = "try"
    BY <2>1, <2>4 DEF ScriptState
  <2> QED BY <2>4, <2>9, <2>10 DEF Runs
<1>7. CASE PyTorchCompletes \/ TensorFlowCompletes \/ HuggingFaceCompletes
  <2>1. Write("stdout", "completed") /\ Ends(0)
    BY <1>7, Zenon DEF PyTorchCompletes, TensorFlowCompletes, HuggingFaceCompletes, Complete
  <2>2. "stdout" \in {"stdout", "stderr"} /\ "completed" \in Texts /\ 0 \in Codes
    BY ScriptAssumption DEF Texts
  <2> QED BY <2>1, <2>2, LastWords, Zenon
<1>8. CASE Except
  <2>1. Write("stdout", "failed") /\ Ends(1)
    BY <1>8, Zenon DEF Except
  <2>2. "stdout" \in {"stdout", "stderr"} /\ "failed" \in Texts /\ 1 \in Codes
    BY ScriptAssumption DEF Texts
  <2> QED BY <2>1, <2>2, LastWords, Zenon
<1>9. CASE CustomScript
  <2>1. CASE Uncaught
    BY <2>1, UncaughtRuns
  <2>2. CASE \E code \in Codes : Ends(code) /\ UNCHANGED output
    <3>1. PICK code \in Codes : Ends(code) /\ output' = output
      BY <2>2
    <3>2. script' \in ScriptState /\ script'.pc = "done" /\ exit' = code /\ exit' # None
      BY <3>1, EndsType
    <3> QED BY <3>1, <3>2 DEF Runs
  <2>3. CASE /\ \E source \in {"stdout", "stderr"}, text \in Texts : Write(source, text)
             /\ UNCHANGED <<script, exit>>
    <3>1. PICK source \in {"stdout", "stderr"}, text \in Texts : Write(source, text)
      BY <2>3
    <3>2. Extends(output, output')
      BY <3>1, WriteExtends
    <3> QED BY <2>3, <3>2 DEF Runs
  <2>4. 0 \in Codes
    BY ScriptAssumption
  <2> QED BY <1>9, <2>1, <2>2, <2>3, <2>4, Zenon DEF CustomScript
<1>10. CASE Kill
  <2>1. Ends(137) /\ output' = output
    BY <1>10 DEF Kill
  <2>2. 137 \in Codes
    BY ScriptAssumption
  <2>3. script' \in ScriptState /\ script'.pc = "done" /\ exit' = 137 /\ exit' # None
    BY <2>1, <2>2, EndsType
  <2>4. Extends(output, output')
    BY <2>1 DEF Extends, ScriptTypeOK
  <2> QED BY <2>2, <2>3, <2>4, Zenon DEF Runs
<1> QED BY <1>1, <1>2, <1>3, <1>4, <1>5, <1>6, <1>7, <1>8, <1>9, <1>10, Zenon DEF RunStep

LEMMA RunStepLeaves == ASSUME RunStep PROVE UNCHANGED <<settings, env, readVars>>
<1>1. CASE PyTorchCompletes \/ TensorFlowCompletes \/ HuggingFaceCompletes
  BY <1>1, Zenon DEF PyTorchCompletes, TensorFlowCompletes, HuggingFaceCompletes, Complete
<1>2. CASE Import \/ DefineHyper \/ DefineDefault
  BY <1>2, Zenon DEF Import, DefineHyper, DefineDefault
<1>3. CASE StartTrain \/ MakeOutput \/ TrainEpoch
  BY <1>3, Zenon DEF StartTrain, MakeOutput, TrainEpoch
<1>4. CASE Except \/ CustomScript \/ Kill
  BY <1>4, Zenon DEF Except, CustomScript, Kill
<1> QED BY <1>1, <1>2, <1>3, <1>4, Zenon DEF RunStep

-----------------------------------------------------------------------------
(* TrainingScript: what collectLogs reads.                                     *)

\* A unit lies in its frame.
LEMMA FrameOf ==
  ASSUME NEW u \in Nat \ {0}
  PROVE  Frame(u) \in Nat \ {0} /\ 3 * Frame(u) - 2 <= u /\ u <= 3 * Frame(u)
<1>1. /\ (u + 2) \div 3 \in Int
      /\ 3 * ((u + 2) \div 3) <= u + 2 /\ u + 2 < 3 * ((u + 2) \div 3) + 3
  BY SMT
<1> QED BY <1>1, SMT DEF Frame

\* A header is the first unit of its frame.
LEMMA HeaderOf ==
  ASSUME NEW u \in Nat \ {0}, Header(u)
  PROVE  u = 3 * Frame(u) - 2
<1>1. u % 3 = 1
  BY DEF Header
<1>2. PICK m \in Int : u = 3 * m + 1
  BY <1>1, SMT
<1> QED BY <1>2, FrameOf, SMT

\* The length of the output, and the unit a read begins with.
LEMMA Bounds ==
  ASSUME ScriptTypeOK, NEW n \in 1..MaxRead, pos + n <= 3 * Len(output)
  PROVE  /\ pos \in Nat /\ n \in Nat \ {0} /\ Len(output) \in Nat
         /\ Frame(pos + 1) \in 1..Len(output) /\ Frame(pos + n) \in 1..Len(output)
<1>1. Len(output) \in Nat /\ MaxRead \in Nat
  BY RunTypes, ScriptAssumption
<1>2. pos \in 0..3 * Len(output)
  BY DEF ScriptTypeOK
<1>3. pos \in Nat /\ n \in Nat \ {0}
  BY <1>1, <1>2
<1>4. ASSUME NEW u \in Nat \ {0}, u <= 3 * Len(output) PROVE Frame(u) \in 1..Len(output)
  <2>1. PICK k \in Nat \ {0} : Frame(u) = k /\ 3 * k - 2 <= u
    BY FrameOf, Zenon
  <2> QED BY <1>1, <1>4, <2>1
<1>5. /\ pos + 1 \in Nat \ {0} /\ pos + 1 <= 3 * Len(output)
      /\ pos + n \in Nat \ {0} /\ pos + n <= 3 * Len(output)
  BY <1>1, <1>3
<1>6. Frame(pos + 1) \in 1..Len(output)
  BY <1>4, <1>5
<1>7. Frame(pos + n) \in 1..Len(output)
  BY <1>4, <1>5
<1> QED BY <1>1, <1>3, <1>6, <1>7

\* An entry, from where it begins to where it ends.
LEMMA EntryType ==
  ASSUME NEW a \in Nat, NEW b \in Nat, NEW source \in Sources
  PROVE  /\ EntryOf(a, b, source) \in Entry
         /\ EntryOf(a, b, source).lo = a /\ EntryOf(a, b, source).hi = b
<1> DEFINE f == output[Frame(a)]
           level == IF source = "stderr" \/ (f.text = "failed" /\ a <= 3 * Frame(a) - 1)
                    THEN "ERROR" ELSE "INFO"
           metrics == b = 3 * Frame(a) /\ Parse(f.text)
<1>1. level \in {"INFO", "ERROR"}
  BY Zenon
<1>2. metrics \in BOOLEAN
  BY Zenon
<1>3. EntryOf(a, b, source) = [lo |-> a, hi |-> b, source |-> source, level |-> level,
                               metrics |-> metrics]
  BY Zenon DEF EntryOf
<1>4. PICK l \in {"INFO", "ERROR"}, m \in BOOLEAN :
           EntryOf(a, b, source) = [lo |-> a, hi |-> b, source |-> source, level |-> l,
                                    metrics |-> m]
  BY <1>1, <1>2, <1>3, Zenon
<1> HIDE DEF level, metrics
<1>5. EntryOf(a, b, source) \in Entry
  BY <1>4 DEF Entry
<1> QED BY <1>4, <1>5

\* The pieces of a text begin before they end, and end no later than it.
LEMMA SplitType ==
  ASSUME NEW a \in Nat \ {0}, NEW b \in Nat, a <= b,
         NEW source \in Sources,
         NEW i \in DOMAIN Split(a, b, source)
  PROVE  /\ Split(a, b, source)[i] \in Entry
         /\ Split(a, b, source)[i].lo <= Split(a, b, source)[i].hi
         /\ Split(a, b, source)[i].hi <= b
<1>1. PICK p \in Nat \ {0} : Frame(a) = p /\ 3 * p - 2 <= a /\ a <= 3 * p
  BY FrameOf, Zenon
<1>2. b \in Nat \ {0}
  OBVIOUS
<1>3. PICK q \in Nat \ {0} : Frame(b) = q /\ 3 * q - 2 <= b /\ b <= 3 * q
  BY <1>2, FrameOf, Zenon
<1> DEFINE k == p + i - 1
           lo == IF i = 1 THEN a ELSE 3 * k - 2
           hi == IF k = q THEN b ELSE 3 * k
<1>4. i \in 1..(q - p + 1)
  BY <1>1, <1>3 DEF Split
<1>5. Split(a, b, source)[i] = EntryOf(lo, hi, source)
  BY <1>1, <1>3, <1>4, Zenon DEF Split
<1>6. lo \in Nat /\ hi \in Nat /\ lo <= hi /\ hi <= b
  BY <1>1, <1>3, <1>4
<1> HIDE DEF lo, hi
<1>7. /\ EntryOf(lo, hi, source) \in Entry
      /\ EntryOf(lo, hi, source).lo = lo /\ EntryOf(lo, hi, source).hi = hi
  BY <1>6, EntryType
<1> QED BY <1>5, <1>6, <1>7

\* Some numbers from 1 to k have a greatest among them.
LEMMA Greatest ==
  ASSUME NEW k \in Nat, NEW S \in SUBSET (1..k), S # {}
  PROVE  \E i \in S : \A j \in S : j <= i
<1> DEFINE R == {k - i : i \in S}
<1>1. R \subseteq Nat /\ R # {}
  <2>1. PICK i \in S : TRUE
    OBVIOUS
  <2>2. k - i \in R
    OBVIOUS
  <2>3. R \subseteq Nat
    OBVIOUS
  <2> QED BY <2>2, <2>3
<1> HIDE DEF R
<1>2. PICK m \in R : \A x \in R : m <= x
  <2>1. PICK m \in R : \A x \in R : <<x, m>> \notin OpToRel(<, Nat)
    BY <1>1, WFMin, NatLessThanWellFounded, Zenon
  <2>2. ASSUME NEW x \in R PROVE ~ (x < m)
    BY <1>1, <2>1, Zenon DEF OpToRel
  <2>3. \A x \in R : m <= x
    BY <1>1, <2>2
  <2> QED BY <2>3
<1>3. PICK i \in S : m = k - i
  BY <1>2 DEF R
<1>4. \A j \in S : k - j \in R
  BY DEF R
<1>5. \A j \in S : j <= i
  BY <1>2, <1>3, <1>4
<1> QED BY <1>5

\* A read leaves the collector's state typed, and its newest entry inside what
\* is read.
LEMMA ReadTypes ==
  ASSUME ScriptTypeOK, NEW n \in 1..MaxRead, Read(n)
  PROVE  /\ pos' \in 0..3 * Len(output) /\ stream' \in Sources
         /\ log' \in [length : Nat, newest : Entry]
         /\ log'.newest.lo <= log'.newest.hi /\ log'.newest.hi <= pos'
         /\ sound' \in BOOLEAN
<1>1. pos + n <= 3 * Len(output) /\ pos' = pos + n
  BY DEF Read
<1>2. /\ pos \in Nat /\ n \in Nat \ {0} /\ Len(output) \in Nat
      /\ Frame(pos + 1) \in 1..Len(output)
  BY <1>1, Bounds
<1>3. pos' \in 0..3 * Len(output)
  BY <1>1, <1>2
<1>4. /\ log \in [length : Nat, newest : Entry] /\ stream \in Sources
      /\ log.newest.lo <= log.newest.hi /\ log.newest.hi <= pos
  BY DEF ScriptTypeOK
<1>5. log.newest.hi \in Nat
  BY <1>4 DEF Entry
<1>6. log.newest.hi <= pos'
  BY <1>1, <1>2, <1>4, <1>5
<1>7. CASE n = 1
  <2>1. stream' = stream /\ log' = log /\ sound' = FALSE
    BY <1>7, Zenon DEF Read
  <2> QED BY <1>3, <1>4, <1>6, <2>1
<1>8. CASE n # 1
  <2> DEFINE new == Split(TextFrom(pos + 1), pos + n, stream')
  <2>1. stream' = IF Header(pos + 1) THEN output[Frame(pos + 1)].source ELSE stream
    BY <1>8, Zenon DEF Read
  <2>2. PICK S \in SUBSET DOMAIN new :
          /\ log' = IF S = {} THEN log
                    ELSE [length |-> log.length + Cardinality(S),
                          newest |-> new[CHOOSE i \in S : \A j \in S : j <= i]]
          /\ sound' = (sound /\ n = 3 /\ Header(pos + 1) /\ S = DOMAIN new)
    BY <1>8, Zenon DEF Read
  <2>3. sound' \in BOOLEAN
    BY <2>2, Zenon
  <2>4. stream' \in Sources
    <3>1. output[Frame(pos + 1)] \in Line
      BY <1>2, RunTypes
    <3>2. output[Frame(pos + 1)].source \in {"stdout", "stderr"}
      BY <3>1 DEF Line
    <3>3. output[Frame(pos + 1)].source \in Sources
      BY <3>2, Zenon DEF Sources
    <3> QED BY <1>4, <2>1, <3>3, Zenon
  <2>5. /\ TextFrom(pos + 1) \in Nat \ {0} /\ pos + n \in Nat
        /\ TextFrom(pos + 1) <= pos + n
    BY <1>2, <1>8 DEF TextFrom
  <2>6. CASE S = {}
    BY <1>3, <1>4, <1>6, <2>2, <2>3, <2>4, <2>6
  <2>7. CASE S # {}
    <3>1. PICK p \in Nat \ {0} : Frame(TextFrom(pos + 1)) = p
      BY <2>5, FrameOf, Zenon
    <3>2. PICK q \in Nat \ {0} :
            Frame(pos + n) = q /\ 3 * q - 2 <= pos + n /\ pos + n <= 3 * q
      <4>1. pos + n \in Nat \ {0}
        BY <1>2
      <4> QED BY <4>1, FrameOf, Zenon
    <3>3. DOMAIN new = 1..(q - p + 1)
      BY <3>1, <3>2 DEF Split
    <3>4. q - p + 1 \in Nat
      BY <2>2, <2>7, <3>3
    <3> HIDE DEF new
    <3>5. PICK m \in S : \A j \in S : j <= m
      <4>1. S \in SUBSET (1..(q - p + 1))
        BY <2>2, <3>3
      <4> QED BY <2>7, <3>4, <4>1, Greatest, Zenon
    <3> DEFINE last == CHOOSE i \in S : \A j \in S : j <= i
    <3>6. last \in S
      BY <3>5, Zenon
    <3>7. last \in DOMAIN new
      BY <3>6
    <3>8. IsFiniteSet(S)
      <4>1. IsFiniteSet(1..(q - p + 1))
        BY <3>4, FS_Interval
      <4> QED BY <2>2, <3>3, <4>1, FS_Subset
    <3>9. Cardinality(S) \in Nat
      BY <3>8, FS_CardinalityType
    <3>10. log' = [length |-> log.length + Cardinality(S), newest |-> new[last]]
      BY <2>2, <2>7
    <3> HIDE DEF last
    <3>11. new[last] \in Entry /\ new[last].lo <= new[last].hi /\ new[last].hi <= pos + n
      BY <2>4, <2>5, <3>7, SplitType, Zenon DEF new
    <3>12. /\ log' \in [length : Nat, newest : Entry]
           /\ log'.newest = new[last]
      BY <1>4, <3>9, <3>10, <3>11
    <3> QED BY <1>1, <1>3, <2>3, <2>4, <3>11, <3>12
  <2> QED BY <2>6, <2>7
<1> QED BY <1>7, <1>8

\* The types are an inductive invariant.
LEMMA ScriptNextTypeOK ==
  ScriptTypeOK /\ [ScriptNext]_scriptVars => ScriptTypeOK'
<1> SUFFICES ASSUME ScriptTypeOK, [ScriptNext]_scriptVars PROVE ScriptTypeOK'
  OBVIOUS
<1>1. ASSUME RunStep PROVE ScriptTypeOK'
  <2>1. Runs /\ UNCHANGED <<settings, env, readVars>>
    BY <1>1, RunStepRuns, RunStepLeaves
  <2>2. /\ settings' = settings /\ collector' = collector /\ pos' = pos
        /\ stream' = stream /\ log' = log /\ sound' = sound
    BY <2>1 DEF readVars
  <2>3. /\ script' \in ScriptState /\ output' \in Seq(Line) /\ Len(output) <= Len(output')
        /\ exit' \in Codes \cup {None} /\ (exit' # None <=> script'.pc = "done")
    BY <2>1 DEF Runs, Extends
  <2>4. output \in Seq(Line) /\ pos \in 0..3 * Len(output)
    BY RunTypes DEF ScriptTypeOK
  <2>5. pos \in 0..3 * Len(output')
    BY <2>3, <2>4
  <2>6. /\ settings \in Settings /\ collector \in {"reading", "done"} /\ stream \in Sources
        /\ log \in [length : Nat, newest : Entry]
        /\ log.newest.lo <= log.newest.hi /\ log.newest.hi <= pos /\ sound \in BOOLEAN
    BY Zenon DEF ScriptTypeOK
  <2> QED BY <2>2, <2>3, <2>5, <2>6, Zenon DEF ScriptTypeOK, ScriptState, Line
<1>2. ASSUME NEW n \in 1..MaxRead, Read(n) PROVE ScriptTypeOK'
  <2>1. /\ settings' = settings /\ script' = script /\ output' = output /\ exit' = exit
        /\ collector' = collector
    BY <1>2, Zenon DEF Read, runVars
  <2> QED BY <1>2, <2>1, ReadTypes, Zenon DEF ScriptTypeOK
<1>3. CASE ReadEOF \/ Cancel
  <2>1. /\ settings' = settings /\ script' = script /\ output' = output /\ exit' = exit
        /\ pos' = pos /\ stream' = stream /\ log' = log /\ sound' = sound
        /\ collector' = "done"
    BY <1>3, Zenon DEF ReadEOF, Cancel, runVars
  <2> QED BY <2>1, Zenon DEF ScriptTypeOK
<1>4. CASE UNCHANGED scriptVars
  BY <1>4, Zenon DEF ScriptTypeOK, scriptVars, runVars, readVars
<1> QED BY <1>1, <1>2, <1>3, <1>4, Zenon DEF ScriptNext, RunStep

\* The script, what it has written and what is read of it stay typed: a job has
\* an exit code exactly when its script is over, no more is read than was
\* written, and the newest entry of the log lies within what is read.
THEOREM ScriptTypeCorrect == ScriptSpec => []ScriptTypeOK
<1>1. ScriptInit => ScriptTypeOK
  BY ScriptInitTypeOK
<1>2. ScriptTypeOK /\ [ScriptNext]_scriptVars => ScriptTypeOK'
  BY ScriptNextTypeOK
<1> QED BY <1>1, <1>2, PTL DEF ScriptSpec

-----------------------------------------------------------------------------
(* TrainingScript: whole lines.                                               *)

\* The frame of a unit is the one it lies in.
LEMMA FrameIs ==
  ASSUME NEW k \in Nat, NEW u \in Nat \ {0}, 3 * k - 2 <= u, u <= 3 * k
  PROVE  Frame(u) = k
<1>1. PICK p \in Nat \ {0} : Frame(u) = p /\ 3 * p - 2 <= u /\ u <= 3 * p
  BY FrameOf, Zenon
<1> QED BY <1>1

\* What is read stays as it is while the script writes on.
LEMMA WrittenStays ==
  ASSUME ScriptTypeOK, RunStep, NEW u \in Nat \ {0}, u <= 3 * Len(output)
  PROVE  output'[Frame(u)] = output[Frame(u)]
<1>1. PICK p \in Nat \ {0} : Frame(u) = p /\ 3 * p - 2 <= u /\ u <= 3 * p
  BY FrameOf, Zenon
<1>2. Len(output) \in Nat
  BY RunTypes
<1>3. p \in 1..Len(output)
  BY <1>1, <1>2
<1>4. \A i \in 1..Len(output) : output'[i] = output[i]
  BY RunStepRuns DEF Runs, Extends
<1> QED BY <1>1, <1>3, <1>4

\* The initial state has read nothing.
LEMMA InitLinesArrive == ScriptInit => LinesArrive
<1> SUFFICES ASSUME ScriptInit PROVE LinesArrive
  OBVIOUS
<1>1. pos = 0 /\ log = [length |-> 0, newest |-> NoEntry]
  BY Zenon DEF ScriptInit
<1>2. log.length * 3 = pos /\ ~(pos > 0)
  BY <1>1
<1> QED BY <1>2, Zenon DEF LinesArrive

\* The script changes no line that is read.
LEMMA RunLinesArrive == ASSUME ScriptTypeOK, LinesArrive, RunStep PROVE LinesArrive'
<1>1. pos' = pos /\ log' = log /\ sound' = sound
  BY RunStepLeaves DEF readVars
<1>2. ASSUME sound PROVE (log.length * 3 = pos)'
  BY <1>1, <1>2 DEF LinesArrive
<1>3. ASSUME sound, pos > 0
      PROVE  (log.newest = EntryOf(pos - 1, pos, output[Frame(pos)].source))'
  <2>1. log.length * 3 = pos /\ log.newest = EntryOf(pos - 1, pos, output[Frame(pos)].source)
    BY <1>3 DEF LinesArrive
  <2>2. log.length \in Nat /\ Len(output) \in Nat /\ pos \in 0..3 * Len(output)
    BY RunTypes DEF ScriptTypeOK
  <2>3. /\ pos \in Nat \ {0} /\ pos <= 3 * Len(output)
        /\ pos - 1 \in Nat \ {0} /\ pos - 1 <= 3 * Len(output)
    BY <1>3, <2>1, <2>2
  <2>4. output'[Frame(pos)] = output[Frame(pos)]
    BY <2>3, WrittenStays
  <2>5. output'[Frame(pos - 1)] = output[Frame(pos - 1)]
    BY <2>3, WrittenStays
  <2> QED BY <1>1, <2>1, <2>4, <2>5, Zenon DEF EntryOf
<1> QED BY <1>1, <1>2, <1>3, Zenon DEF LinesArrive

\* A read of one frame adds its line.
LEMMA ReadLinesArrive ==
  ASSUME ScriptTypeOK, LinesArrive, NEW n \in 1..MaxRead, Read(n) PROVE LinesArrive'
<1> SUFFICES ASSUME sound'
             PROVE  /\ log'.length * 3 = pos'
                    /\ log'.newest = (EntryOf(pos - 1, pos, output[Frame(pos)].source))'
  BY Zenon DEF LinesArrive
<1> DEFINE new == Split(TextFrom(pos + 1), pos + n, stream')
<1>1. n # 1
  BY Zenon DEF Read
<1>2. PICK S \in SUBSET DOMAIN new :
        /\ log' = IF S = {} THEN log
                  ELSE [length |-> log.length + Cardinality(S),
                        newest |-> new[CHOOSE i \in S : \A j \in S : j <= i]]
        /\ sound' = (sound /\ n = 3 /\ Header(pos + 1) /\ S = DOMAIN new)
  BY <1>1, Zenon DEF Read
<1>3. sound /\ n = 3 /\ Header(pos + 1) /\ S = DOMAIN new
  BY <1>2, Zenon
<1>4. pos' = pos + 3 /\ pos + 3 <= 3 * Len(output)
  BY <1>3 DEF Read
<1>5. output' = output /\ stream' = output[Frame(pos + 1)].source
  BY <1>1, <1>3, Zenon DEF Read, runVars
<1>6. log.length * 3 = pos /\ log.length \in Nat
  BY <1>3 DEF LinesArrive, ScriptTypeOK
<1> DEFINE k == log.length + 1
<1>7. k \in Nat /\ pos = 3 * k - 3
  BY <1>6
<1> HIDE DEF k
<1>8. Frame(pos + 1) = k /\ Frame(pos + 2) = k /\ Frame(pos + 3) = k
  <2>1. pos + 1 \in Nat \ {0} /\ 3 * k - 2 <= pos + 1 /\ pos + 1 <= 3 * k
    BY <1>6, <1>7
  <2>2. pos + 2 \in Nat \ {0} /\ 3 * k - 2 <= pos + 2 /\ pos + 2 <= 3 * k
    BY <1>6, <1>7
  <2>3. pos + 3 \in Nat \ {0} /\ 3 * k - 2 <= pos + 3 /\ pos + 3 <= 3 * k
    BY <1>6, <1>7
  <2>4. ASSUME NEW u \in Nat \ {0}, 3 * k - 2 <= u, u <= 3 * k PROVE Frame(u) = k
    BY <1>7, <2>4, FrameIs
  <2> QED BY <2>1, <2>2, <2>3, <2>4, Zenon
<1>9. TextFrom(pos + 1) = pos + 2 /\ pos + n = pos + 3
  BY <1>3, <1>7 DEF TextFrom
<1>10. new = Split(pos + 2, pos + 3, stream')
  BY <1>9
<1>11. DOMAIN new = {1} /\ new[1] = EntryOf(pos + 2, pos + 3, stream')
  <2> DEFINE p == k + 1 - 1
  <2>1. new = [i \in 1..(k - k + 1) |->
                 EntryOf(IF i = 1 THEN pos + 2 ELSE 3 * (k + i - 1) - 2,
                         IF k + i - 1 = k THEN pos + 3 ELSE 3 * (k + i - 1), stream')]
    BY <1>8, <1>10, Zenon DEF Split
  <2>2. k - k + 1 = 1 /\ k + 1 - 1 = k /\ 1..1 = {1} /\ 1 \in 1..1
    BY <1>7
  <2> HIDE DEF new
  <2>3. DOMAIN new = {1}
    BY <2>1, <2>2
  <2>4. new[1] = EntryOf(IF 1 = 1 THEN pos + 2 ELSE 3 * (k + 1 - 1) - 2,
                         IF k + 1 - 1 = k THEN pos + 3 ELSE 3 * (k + 1 - 1), stream')
    BY <2>1, <2>2
  <2> QED BY <2>2, <2>3, <2>4, Zenon
<1> HIDE DEF new
<1>12. S = {1} /\ Cardinality(S) = 1
  BY <1>3, <1>11, FS_Singleton
<1>13. (CHOOSE i \in S : \A j \in S : j <= i) = 1
  BY <1>12
<1>14. log' = [length |-> k, newest |-> EntryOf(pos + 2, pos + 3, stream')]
  <2>1. log' = [length |-> log.length + Cardinality(S),
                newest |-> new[CHOOSE i \in S : \A j \in S : j <= i]]
    BY <1>2, <1>12
  <2> QED BY <1>11, <1>12, <1>13, <2>1, Zenon DEF k
<1>15. log'.length * 3 = pos'
  BY <1>4, <1>7, <1>14
<1>16. pos' - 1 = pos + 2 /\ pos' = pos + 3
  BY <1>4, <1>7
<1>17. log'.newest = EntryOf(pos' - 1, pos', output[Frame(pos')].source)
  BY <1>5, <1>8, <1>14, <1>16, Zenon
<1> QED BY <1>5, <1>15, <1>17, Zenon DEF EntryOf

\* While each Read returns one frame and no append fails, the log holds every
\* line read, whole and in order, the newest as the script wrote it: under its
\* stream, at its level, with its metrics.  It is what collectLogs promises the
\* readers of a job's log when Docker's frames and its reads coincide.
THEOREM LinesAreWhole == ScriptSpec => []LinesArrive
<1> DEFINE Inv == ScriptTypeOK /\ LinesArrive
<1>1. ScriptInit => Inv
  BY ScriptInitTypeOK, InitLinesArrive
<1>2. ASSUME Inv, [ScriptNext]_scriptVars PROVE Inv'
  <2>1. ScriptTypeOK'
    BY <1>2, ScriptNextTypeOK
  <2>2. CASE RunStep
    BY <1>2, <2>1, <2>2, RunLinesArrive
  <2>3. CASE \E n \in 1..MaxRead : Read(n)
    BY <1>2, <2>1, <2>3, ReadLinesArrive
  <2>4. CASE ReadEOF \/ Cancel \/ UNCHANGED scriptVars
    <3>1. pos' = pos /\ log' = log /\ sound' = sound /\ output' = output
      BY <2>4, Zenon DEF ReadEOF, Cancel, scriptVars, runVars, readVars
    <3>2. LinesArrive'
      BY <1>2, <3>1, Zenon DEF LinesArrive, EntryOf
    <3> QED BY <2>1, <3>2
  <2> QED BY <1>2, <2>2, <2>3, <2>4, Zenon DEF ScriptNext, RunStep
<1>3. Inv => LinesArrive
  OBVIOUS
<1> QED BY <1>1, <1>2, <1>3, PTL DEF ScriptSpec

-----------------------------------------------------------------------------
(* TrainingScript: true exit codes.                                           *)

\* The lines of a log that tell an epoch, and a log that tells the first n
\* epochs, each once and in order.
EpochLines(q) == {i \in DOMAIN q : q[i].text = "epoch"}
Trained(q, n) == /\ {q[i].epoch : i \in EpochLines(q)} = 1..n
                 /\ \A i, j \in EpochLines(q) : i < j => q[i].epoch < q[j].epoch

\* The last line written is one of these.
Says(texts) == output # <<>> /\ output[Len(output)].text \in texts

\* The class Config has the number of epochs wanted.
EpochsSet == "EPOCHS" \in DOMAIN config /\ config["EPOCHS"] = Wanted /\ Wanted \in Nat

\* It will have, or has: EPOCHS is among the defaults still to be set, which come
\* after the hyperparameters, or nothing comes after it that could change it.
ToConfigure == \/ \E i \in 1..Len(script.left) : script.left[i] = "EPOCHS"
               \/ EpochsSet /\ script.hyper = {}
Configured ==
  /\ env = Environment(settings)
  /\ settings.framework # "other" =>
       /\ script.pc = "class" => ToConfigure
       /\ script.pc \in {"start", "try"} => EpochsSet

\* The epochs a generated script told are those the loop has gone through, and no
\* more than wanted.
InOrderTrained ==
  settings.framework # "other" =>
    /\ Trained(output, script.epoch)
    /\ script.pc \in {"class", "start"} => script.epoch = 0
    /\ settings.framework = "pytorch" /\ script.pc = "try" => script.epoch <= Wanted

\* What its exit code says is what its log says last.
Told ==
  settings.framework # "other" =>
    /\ exit = 0 => Says({"completed"})
    /\ exit = 0 /\ settings.framework = "pytorch" => script.epoch = Wanted
    /\ exit = 1 => Says({"failed", "traceback"})

ExitInv == ScriptTypeOK /\ Configured /\ InOrderTrained /\ Told

\* An environment has EPOCHS under its own name when the job's has it.
LEMMA EnvironmentEpochs ==
  ASSUME NEW j \in Settings, NEW n
  PROVE  /\ <<NoPrefix, n>> \in DOMAIN Environment(j) <=> n \in DOMAIN j.env
         /\ n \in DOMAIN j.env => Environment(j)[<<NoPrefix, n>>] = j.env[n]
<1>1. NoPrefix # "HP_"
  BY Zenon DEF NoPrefix
<1> DEFINE D == {<<NoPrefix, x>> : x \in DOMAIN j.env}
                  \cup {<<"HP_", Upper[k]>> : k \in DOMAIN j.hyper}
           V(m) == IF m[1] = NoPrefix THEN j.env[m[2]]
                   ELSE j.hyper[CHOOSE k \in DOMAIN j.hyper : Upper[k] = m[2]]
<1>2. Environment(j) = [m \in D |-> V(m)]
  BY Zenon DEF Environment
<1>3. <<NoPrefix, n>> \in D <=> n \in DOMAIN j.env
  BY <1>1
<1>4. V(<<NoPrefix, n>>) = j.env[n]
  OBVIOUS
<1> HIDE DEF D, V
<1> QED BY <1>2, <1>3, <1>4

\* A line that tells no epoch changes nothing of what is told, and one that tells
\* the next adds it.
LEMMA NoEpoch ==
  ASSUME NEW q \in Seq(Line), NEW n \in Nat, Trained(q, n), NEW f \in Line, f.text # "epoch"
  PROVE  Trained(Append(q, f), n)
<1> DEFINE r == Append(q, f)
<1>1. /\ Len(q) \in Nat /\ DOMAIN q = 1..Len(q) /\ DOMAIN r = 1..(Len(q) + 1)
      /\ r[Len(q) + 1] = f /\ \A i \in 1..Len(q) : r[i] = q[i]
  BY AppendProperties
<1> HIDE DEF r
<1>2. EpochLines(r) = EpochLines(q)
  BY <1>1 DEF EpochLines
<1>3. \A i \in EpochLines(q) : r[i] = q[i]
  BY <1>1 DEF EpochLines
<1>4. {r[i].epoch : i \in EpochLines(r)} = {q[i].epoch : i \in EpochLines(q)}
  BY <1>2, <1>3
<1>5. \A i, j \in EpochLines(r) : i < j => r[i].epoch < r[j].epoch
  BY <1>2, <1>3 DEF Trained
<1>6. Trained(r, n)
  BY <1>4, <1>5 DEF Trained
<1> QED BY <1>6 DEF r

LEMMA OneEpoch ==
  ASSUME NEW q \in Seq(Line), NEW n \in Nat, Trained(q, n),
         NEW f \in Line, f.text = "epoch", f.epoch = n + 1
  PROVE  Trained(Append(q, f), n + 1)
<1> DEFINE r == Append(q, f)
           l == Len(q) + 1
<1>1. /\ Len(q) \in Nat /\ DOMAIN q = 1..Len(q) /\ DOMAIN r = 1..(Len(q) + 1)
      /\ r[l] = f /\ \A i \in 1..Len(q) : r[i] = q[i]
  BY AppendProperties
<1> HIDE DEF r
<1>2. EpochLines(r) = EpochLines(q) \cup {l} /\ \A i \in EpochLines(q) : i \in 1..Len(q)
  BY <1>1 DEF EpochLines
<1>3. \A i \in EpochLines(q) : r[i] = q[i]
  BY <1>1, <1>2
<1>4. {q[i].epoch : i \in EpochLines(q)} = 1..n
  BY DEF Trained
<1>5. {r[i].epoch : i \in EpochLines(r)} = 1..(n + 1)
  <2>1. {r[i].epoch : i \in EpochLines(r)} = {q[i].epoch : i \in EpochLines(q)} \cup {n + 1}
    BY <1>1, <1>2, <1>3
  <2>2. (1..n) \cup {n + 1} = 1..(n + 1)
    OBVIOUS
  <2> QED BY <1>4, <2>1, <2>2, Zenon
<1>6. \A i \in EpochLines(q) : q[i].epoch \in 1..n
  BY <1>4
<1>7. ASSUME NEW i \in EpochLines(r), NEW j \in EpochLines(r), i < j
      PROVE  r[i].epoch < r[j].epoch
  <2>1. i \in EpochLines(q)
    <3>1. j <= l /\ i # l
      BY <1>1, <1>2, <1>7
    <3> QED BY <1>2, <3>1
  <2>2. CASE j = l
    <3>1. PICK e \in 1..n : r[i].epoch = e
      BY <1>3, <1>6, <2>1, Zenon
    <3>2. r[j].epoch = n + 1
      BY <1>1, <2>2, Zenon
    <3> QED BY <3>1, <3>2
  <2>3. CASE j \in EpochLines(q)
    BY <1>3, <1>7, <2>1, <2>3 DEF Trained
  <2> QED BY <1>2, <2>2, <2>3
<1>8. Trained(r, n + 1)
  BY <1>5, <1>7 DEF Trained
<1> QED BY <1>8 DEF r

\* A line just written is the last.
LEMMA SaysWritten ==
  ASSUME ScriptTypeOK, NEW source \in {"stdout", "stderr"}, NEW text \in Texts,
         Write(source, text)
  PROVE  output' # <<>> /\ output'[Len(output')].text = text
<1>1. PICK f \in Line : f.text = text /\ output' = Append(output, f)
  BY WriteType
<1>2. output \in Seq(Line)
  BY RunTypes
<1>3. /\ Append(output, f) # <<>> /\ Len(Append(output, f)) = Len(output) + 1
      /\ Append(output, f)[Len(output) + 1] = f
  BY <1>2, AppendProperties
<1> QED BY <1>1, <1>3

\* A script that writes any line but an epoch's has trained what it had.
LEMMA WriteTrains ==
  ASSUME ScriptTypeOK, InOrderTrained, settings.framework # "other",
         NEW source \in {"stdout", "stderr"},
         NEW text \in Texts, text # "epoch", Write(source, text)
  PROVE  Trained(output', script.epoch)
<1>1. PICK f \in Line : f.text = text /\ output' = Append(output, f)
  BY WriteType
<1>2. output \in Seq(Line) /\ script.epoch \in Nat
  BY RunTypes DEF ScriptState
<1>3. Trained(output, script.epoch)
  BY DEF InOrderTrained
<1> QED BY <1>1, <1>2, <1>3, NoEpoch

\* What is over needs no class Config, and what goes on has no exit code.
LEMMA DoneConfigured ==
  ASSUME Configured, RunStep, script'.pc = "done" PROVE Configured'
<1>1. settings' = settings /\ env' = env
  BY RunStepLeaves
<1> QED BY <1>1, Zenon DEF Configured

LEMMA RunningTold ==
  ASSUME ScriptTypeOK, script.pc # "done", exit' = exit PROVE Told'
<1>1. exit = None /\ None \notin Nat
  BY ScriptAssumption DEF ScriptTypeOK
<1>2. exit' # 0 /\ exit' # 1
  BY <1>1
<1> QED BY <1>2, Zenon DEF Told

\* A step that writes its last words and ends keeps what is told true.
LEMMA EndsTrained ==
  ASSUME ScriptTypeOK, InOrderTrained, settings.framework # "other",
         NEW source \in {"stdout", "stderr"},
         NEW text \in Texts, text # "epoch", Write(source, text),
         NEW code \in Codes, Ends(code)
  PROVE  /\ script'.pc = "done" /\ script'.epoch = script.epoch /\ exit' = code
         /\ InOrderTrained' /\ Says({text})'
<1>1. script'.pc = "done" /\ script'.epoch = script.epoch /\ exit' = code
  BY EndsType
<1>2. Trained(output', script.epoch)
  BY WriteTrains
<1>3. InOrderTrained'
  BY <1>1, <1>2, Zenon DEF InOrderTrained, Trained, EpochLines
<1>4. output' # <<>> /\ output'[Len(output')].text = text
  BY SaysWritten
<1>5. Says({text})'
  BY <1>4, Zenon DEF Says
<1> QED BY <1>1, <1>3, <1>5

\* Failing, whether caught or not, keeps the invariant.
LEMMA Fails ==
  ASSUME ScriptTypeOK, Configured, InOrderTrained, settings.framework # "other",
         RunStep,
         NEW source \in {"stdout", "stderr"}, NEW text \in {"failed", "traceback"},
         Write(source, text), Ends(1)
  PROVE  Configured' /\ InOrderTrained' /\ Told'
<1>1. text \in Texts /\ text # "epoch" /\ 1 \in Codes
  BY ScriptAssumption DEF Texts
<1>2. /\ script'.pc = "done" /\ exit' = 1 /\ InOrderTrained' /\ Says({text})'
  BY <1>1, EndsTrained
<1>3. Says({"failed", "traceback"})' /\ exit' # 0
  BY <1>2 DEF Says
<1>4. Told'
  BY <1>3, Zenon DEF Told
<1> QED BY <1>2, <1>4, DoneConfigured

LEMMA UncaughtExit ==
  ASSUME ScriptTypeOK, Configured, InOrderTrained, settings.framework # "other",
         RunStep, Uncaught
  PROVE  Configured' /\ InOrderTrained' /\ Told'
<1>1. "stderr" \in {"stdout", "stderr"} /\ "traceback" \in {"failed", "traceback"}
  OBVIOUS
<1>2. Write("stderr", "traceback") /\ Ends(1)
  BY DEF Uncaught
<1> QED BY <1>1, <1>2, Fails, Zenon

\* An assignment of the class Config: a hyperparameter's leaves EPOCHS to the
\* default that follows, whatever it is named.
LEMMA HyperExit ==
  ASSUME ScriptTypeOK, Configured, InOrderTrained, settings.framework # "other",
         DefineHyper
  PROVE  Configured' /\ InOrderTrained' /\ Told'
<1>1. RunStep
  BY Zenon DEF RunStep
<1>2. CASE Uncaught
  BY <1>1, <1>2, UncaughtExit
<1>3. CASE ~Uncaught
  <2>1. PICK k : script' = [script EXCEPT !.hyper = @ \ {k}]
    BY <1>3, Zenon DEF DefineHyper
  <2>2. /\ script.pc = "class" /\ script.hyper # {} /\ output' = output /\ exit' = exit
        /\ settings' = settings /\ env' = env
    BY <1>3, Zenon DEF DefineHyper
  <2>3. script \in ScriptState
    BY RunTypes
  <2>4. script'.pc = "class" /\ script'.left = script.left /\ script'.epoch = script.epoch
    BY <2>1, <2>2, <2>3 DEF ScriptState
  <2>5. settings.framework # "other" => \E i \in 1..Len(script.left) : script.left[i] = "EPOCHS"
    BY <2>2, Zenon DEF Configured, ToConfigure
  <2>6. Configured'
    BY <2>2, <2>4, <2>5, Zenon DEF Configured, ToConfigure
  <2>7. InOrderTrained'
    BY <2>2, <2>4, Zenon DEF InOrderTrained, Trained, EpochLines
  <2>8. script.pc # "done"
    BY <2>2
  <2> QED BY <2>2, <2>6, <2>7, <2>8, RunningTold
<1> QED BY <1>2, <1>3

\* EPOCHS is set from the environment of the job, or to its default.
LEMMA WantedIsSet ==
  ASSUME ScriptTypeOK, Configured,
         (IF <<NoPrefix, "EPOCHS">> \in DOMAIN env THEN env[<<NoPrefix, "EPOCHS">>]
          ELSE Defaults["EPOCHS"]) # Text
  PROVE  /\ Wanted \in Nat
         /\ Wanted = IF <<NoPrefix, "EPOCHS">> \in DOMAIN env THEN env[<<NoPrefix, "EPOCHS">>]
                     ELSE Defaults["EPOCHS"]
<1>1. settings \in Settings /\ env = Environment(settings)
  BY DEF ScriptTypeOK, Configured
<1>2. Wanted = IF <<NoPrefix, "EPOCHS">> \in DOMAIN env THEN env[<<NoPrefix, "EPOCHS">>]
               ELSE Defaults["EPOCHS"]
  BY <1>1, EnvironmentEpochs, Zenon DEF Wanted
<1>3. settings.env \in Partial(Settable, Numbers \cup {Text})
  BY <1>1 DEF Settings
<1>4. "EPOCHS" \in DOMAIN settings.env => settings.env["EPOCHS"] \in Numbers \cup {Text}
  BY <1>3, PartialType
<1>5. "EPOCHS" \in DOMAIN Defaults /\ Defaults["EPOCHS"] \in Nat /\ Numbers \subseteq Nat
  BY ScriptAssumption
<1>6. CASE "EPOCHS" \in DOMAIN settings.env
  <2>1. Wanted = settings.env["EPOCHS"] /\ Wanted # Text
    BY <1>2, <1>6, Zenon DEF Wanted
  <2>2. Wanted \in Nat
    BY <1>4, <1>5, <1>6, <2>1
  <2> QED BY <1>2, <2>2
<1>7. CASE "EPOCHS" \notin DOMAIN settings.env
  BY <1>2, <1>5, <1>7, Zenon DEF Wanted
<1> QED BY <1>6, <1>7

LEMMA DefaultExit ==
  ASSUME ScriptTypeOK, Configured, InOrderTrained, settings.framework # "other",
         DefineDefault
  PROVE  Configured' /\ InOrderTrained' /\ Told'
<1>1. RunStep
  BY Zenon DEF RunStep
<1>2. CASE Uncaught
  BY <1>1, <1>2, UncaughtExit
<1>3. CASE ~Uncaught
  <2> DEFINE n == Head(script.left)
             v == IF <<NoPrefix, n>> \in DOMAIN env THEN env[<<NoPrefix, n>>] ELSE Defaults[n]
  <2>1. /\ v # Text /\ script' = [script EXCEPT !.left = Tail(@)]
        /\ config' = [x \in DOMAIN config \cup {n} |-> IF x = n THEN v ELSE config[x]]
    BY <1>3, Zenon DEF DefineDefault, Assign
  <2>2. /\ script.pc = "class" /\ script.hyper = {} /\ script.left # <<>>
        /\ output' = output /\ exit' = exit /\ settings' = settings /\ env' = env
    BY <1>3, Zenon DEF DefineDefault
  <2>3. script \in ScriptState
    BY RunTypes
  <2>4. /\ script'.pc = "class" /\ script'.left = Tail(script.left)
        /\ script'.hyper = {} /\ script'.epoch = script.epoch
    BY <2>1, <2>2, <2>3 DEF ScriptState
  <2>5. script.left \in Seq(DOMAIN Defaults)
    BY <2>3 DEF ScriptState
  <2>6. Wanted' = Wanted
    BY <2>2, Zenon DEF Wanted
  <2>7. ASSUME n = "EPOCHS" PROVE ToConfigure'
    <3>1. Wanted \in Nat /\ Wanted = v
      BY <2>1, <2>7, WantedIsSet, Zenon
    <3> HIDE DEF v
    <3>2. "EPOCHS" \in DOMAIN config' /\ config'["EPOCHS"] = Wanted
      BY <2>1, <2>7, <3>1
    <3>3. EpochsSet'
      BY <2>6, <3>1, <3>2, Zenon DEF EpochsSet
    <3> QED BY <2>4, <3>3, Zenon DEF ToConfigure
  <2>8. ASSUME n # "EPOCHS", \E i \in 1..Len(script.left) : script.left[i] = "EPOCHS"
        PROVE  ToConfigure'
    <3>1. PICK i \in 1..Len(script.left) : script.left[i] = "EPOCHS"
      BY <2>8
    <3>2. i # 1 /\ Len(script.left) \in Nat
      BY <2>2, <2>5, <2>8, <3>1
    <3>3. Len(Tail(script.left)) = Len(script.left) - 1
      BY <2>2, <2>5
    <3>4. i - 1 \in 1..Len(Tail(script.left))
      BY <3>1, <3>2, <3>3
    <3>5. Tail(script.left)[i - 1] = "EPOCHS"
      BY <2>2, <2>5, <3>1, <3>2, <3>3, <3>4
    <3> QED BY <2>4, <3>4, <3>5, Zenon DEF ToConfigure
  <2>9. ASSUME n # "EPOCHS", EpochsSet PROVE ToConfigure'
    <3> HIDE DEF v
    <3>1. "EPOCHS" \in DOMAIN config' /\ config'["EPOCHS"] = Wanted /\ Wanted \in Nat
      BY <2>1, <2>9 DEF EpochsSet
    <3>2. EpochsSet'
      BY <2>6, <3>1, Zenon DEF EpochsSet
    <3> QED BY <2>4, <3>2, Zenon DEF ToConfigure
  <2>10. settings.framework # "other" => ToConfigure'
    BY <2>2, <2>7, <2>8, <2>9, Zenon DEF Configured, ToConfigure
  <2>11. Configured'
    BY <2>2, <2>4, <2>10, Zenon DEF Configured
  <2>12. InOrderTrained'
    BY <2>2, <2>4, <2>6, Zenon DEF InOrderTrained, Trained, EpochLines
  <2>13. script.pc # "done"
    BY <2>2
  <2> QED BY <2>2, <2>11, <2>12, <2>13, RunningTold
<1> QED BY <1>2, <1>3

\* Between the class Config and the try.
LEMMA StartExit ==
  ASSUME ScriptTypeOK, Configured, InOrderTrained, settings.framework # "other",
         StartTrain
  PROVE  Configured' /\ InOrderTrained' /\ Told'
<1>1. /\ script.pc = "class" /\ script.hyper = {} /\ script.left = <<>>
      /\ Write("stdout", "info") /\ script' = [script EXCEPT !.pc = "start"]
      /\ settings' = settings /\ env' = env /\ config' = config /\ exit' = exit
  BY Zenon DEF StartTrain
<1>2. script \in ScriptState
  BY RunTypes
<1>3. script'.pc = "start" /\ script'.epoch = script.epoch
  BY <1>1, <1>2 DEF ScriptState
<1>4. ~ \E i \in 1..Len(script.left) : script.left[i] = "EPOCHS"
  BY <1>1
<1>5. settings.framework # "other" => EpochsSet
  BY <1>1, <1>4, Zenon DEF Configured, ToConfigure
<1>6. Configured'
  BY <1>1, <1>3, <1>5, Zenon DEF Configured, EpochsSet, Wanted
<1>7. "info" \in Texts /\ "info" # "epoch" /\ "stdout" \in {"stdout", "stderr"}
  BY DEF Texts
<1>8. Trained(output', script.epoch) /\ script.epoch = 0
  BY <1>1, <1>7, WriteTrains, Zenon DEF InOrderTrained
<1>9. InOrderTrained'
  BY <1>3, <1>8, Zenon DEF InOrderTrained, Trained, EpochLines
<1>10. script.pc # "done"
  BY <1>1
<1> QED BY <1>1, <1>6, <1>9, <1>10, RunningTold

LEMMA MakeOutputExit ==
  ASSUME ScriptTypeOK, Configured, InOrderTrained, settings.framework # "other",
         MakeOutput
  PROVE  Configured' /\ InOrderTrained' /\ Told'
<1>1. RunStep
  BY Zenon DEF RunStep
<1>2. CASE Uncaught
  BY <1>1, <1>2, UncaughtExit
<1>3. CASE ~Uncaught
  <2>1. /\ script.pc = "start" /\ script' = [script EXCEPT !.pc = "try"]
        /\ output' = output /\ exit' = exit
        /\ settings' = settings /\ env' = env /\ config' = config
    BY <1>3, Zenon DEF MakeOutput
  <2>2. script \in ScriptState
    BY RunTypes
  <2>3. script'.pc = "try" /\ script'.epoch = script.epoch
    BY <2>1, <2>2 DEF ScriptState
  <2>4. settings.framework # "other" => EpochsSet
    BY <2>1, Zenon DEF Configured
  <2>5. Configured'
    BY <2>1, <2>3, <2>4, Zenon DEF Configured, EpochsSet, Wanted
  <2>6. script.epoch = 0 /\ Trained(output, script.epoch)
    BY <2>1, Zenon DEF InOrderTrained
  <2>7. settings.framework = "pytorch" => script.epoch <= Wanted
    BY <2>4, <2>6 DEF EpochsSet
  <2>8. InOrderTrained'
    BY <2>1, <2>3, <2>6, <2>7, Zenon DEF InOrderTrained, Trained, EpochLines, Wanted
  <2>9. script.pc # "done"
    BY <2>1
  <2> QED BY <2>1, <2>5, <2>8, <2>9, RunningTold
<1> QED BY <1>2, <1>3

\* The loop goes through one more epoch, and tells it.
LEMMA EpochExit ==
  ASSUME ScriptTypeOK, Configured, InOrderTrained, settings.framework # "other",
         TrainEpoch
  PROVE  Configured' /\ InOrderTrained' /\ Told'
<1> DEFINE L(text) == [source |-> "stdout", text |-> text, epoch |-> script.epoch + 1]
           n == script.epoch
           q == Append(output, L("epoch"))
<1>1. /\ script.pc = "try" /\ settings.framework = "pytorch" /\ n < config["EPOCHS"]
      /\ script' = [script EXCEPT !.epoch = @ + 1]
      /\ settings' = settings /\ env' = env /\ config' = config /\ exit' = exit
  BY DEF TrainEpoch
<1>2. output' = output \o <<L("epoch"), L("metrics")>>
  BY Zenon DEF TrainEpoch
<1>3. script \in ScriptState /\ output \in Seq(Line)
  BY RunTypes
<1>4. n \in Nat /\ script'.pc = "try" /\ script'.epoch = n + 1
  BY <1>1, <1>3 DEF ScriptState
<1>5. /\ L("epoch") \in Line /\ L("epoch").text = "epoch" /\ L("epoch").epoch = n + 1
      /\ L("metrics") \in Line /\ L("metrics").text # "epoch"
  BY <1>4 DEF Line, Texts
<1>6. Trained(output, n)
  BY DEF InOrderTrained
<1> HIDE DEF L, n
<1>7. q \in Seq(Line) /\ output' = Append(q, L("metrics"))
  BY <1>2, <1>3, <1>5
<1>8. Trained(q, n + 1)
  BY <1>3, <1>4, <1>5, <1>6, OneEpoch
<1> HIDE DEF q
<1>9. n + 1 \in Nat
  BY <1>4
<1>10. Trained(output', n + 1)
  BY <1>5, <1>7, <1>8, <1>9, NoEpoch
<1>11. EpochsSet
  BY <1>1 DEF Configured
<1>12. n + 1 <= Wanted
  BY <1>1, <1>4, <1>11 DEF EpochsSet
<1>13. InOrderTrained'
  BY <1>1, <1>4, <1>10, <1>12, Zenon DEF InOrderTrained, Trained, EpochLines, Wanted
<1>14. Configured'
  BY <1>1, <1>4, <1>11, Zenon DEF Configured, EpochsSet, Wanted
<1>15. script.pc # "done"
  BY <1>1
<1> QED BY <1>1, <1>13, <1>14, <1>15, RunningTold

\* The loop is over when the epochs wanted are trained.
LEMMA CompleteExit ==
  ASSUME ScriptTypeOK, Configured, InOrderTrained, settings.framework # "other",
         RunStep, NEW framework,
         Complete(framework),
         framework = "pytorch" => script.epoch >= config["EPOCHS"]
  PROVE  Configured' /\ InOrderTrained' /\ Told'
<1>1. /\ script.pc = "try" /\ settings.framework = framework
      /\ Write("stdout", "completed") /\ Ends(0) /\ settings' = settings
  BY Zenon DEF Complete
<1>2. /\ "completed" \in Texts /\ "completed" # "epoch"
      /\ "stdout" \in {"stdout", "stderr"} /\ 0 \in Codes
  BY ScriptAssumption DEF Texts
<1>3. /\ script'.pc = "done" /\ script'.epoch = script.epoch /\ exit' = 0
      /\ InOrderTrained' /\ Says({"completed"})'
  BY <1>1, <1>2, EndsTrained, Zenon
<1>4. ASSUME settings.framework = "pytorch" PROVE script.epoch = Wanted
  <2>1. EpochsSet /\ script.epoch <= Wanted
    BY <1>1, <1>4 DEF Configured, InOrderTrained
  <2>2. script.epoch \in Nat
    BY RunTypes DEF ScriptState
  <2> QED BY <1>1, <1>4, <2>1, <2>2 DEF EpochsSet
<1>5. Wanted' = Wanted
  BY <1>1, Zenon DEF Wanted
<1>6. exit' # 1
  BY <1>3
<1>7. Told'
  BY <1>1, <1>3, <1>4, <1>5, <1>6, Zenon DEF Told
<1> QED BY <1>3, <1>7, DoneConfigured

\* Of the job's own script nothing is said, whatever it does.
LEMMA OwnScriptExit ==
  ASSUME Configured, RunStep, settings.framework = "other"
  PROVE  Configured' /\ InOrderTrained' /\ Told'
<1>1. settings' = settings /\ env' = env
  BY RunStepLeaves
<1> QED BY <1>1, Zenon DEF Configured, InOrderTrained, Told

\* A container that is killed says nothing of training.
LEMMA KillExit ==
  ASSUME ScriptTypeOK, Configured, InOrderTrained, settings.framework # "other",
         Kill
  PROVE  Configured' /\ InOrderTrained' /\ Told'
<1>1. RunStep
  BY Zenon DEF RunStep
<1>2. Ends(137) /\ output' = output
  BY DEF Kill
<1>3. script'.pc = "done" /\ script'.epoch = script.epoch /\ exit' = 137
  <2>1. 137 \in Codes
    BY ScriptAssumption
  <2> QED BY <1>2, <2>1, EndsType
<1>4. InOrderTrained'
  BY <1>2, <1>3, Zenon DEF InOrderTrained, Trained, EpochLines
<1>5. exit' # 0 /\ exit' # 1
  BY <1>3
<1>6. Told'
  BY <1>5, Zenon DEF Told
<1> QED BY <1>1, <1>3, <1>4, <1>6, DoneConfigured

\* Nothing is told and no epoch trained when a job begins; the script then has
\* EPOCHS among its defaults, whichever template made it.
LEMMA ExitInit == ScriptInit => ExitInv
<1> SUFFICES ASSUME ScriptInit PROVE ExitInv
  OBVIOUS
<1>1. ScriptTypeOK
  BY ScriptInitTypeOK
<1>2. settings \in Settings /\ env = Environment(settings) /\ script = Generate(settings)
  BY Zenon DEF ScriptInit
<1>3. output = <<>> /\ exit = None
  BY Zenon DEF ScriptInit
<1>4. script.epoch = 0
  BY <1>2 DEF Generate, PyTorchTemplate, TensorFlowTemplate, HuggingFaceTemplate,
     CustomTemplate, Program
<1>5. PICK i \in 1..Len(Common) : Common[i] = "EPOCHS"
  BY ScriptAssumption DEF ToSet
<1>6. ASSUME settings.framework # "other"
      PROVE  script.pc = "class" /\ ToConfigure
  <2>1. settings.framework \in {"pytorch", "tensorflow", "huggingface"}
    BY <1>2, <1>6 DEF Settings, Frameworks
  <2>2. /\ script.pc = "class"
        /\ script.left = Common \/ script.left = Append(Common, "MAX_LENGTH")
    BY <1>2, <2>1 DEF Generate, PyTorchTemplate, TensorFlowTemplate, HuggingFaceTemplate,
       Program
  <2>3. CASE script.left = Common
    BY <1>5, <2>2, <2>3 DEF ToConfigure
  <2>4. CASE script.left = Append(Common, "MAX_LENGTH")
    <3>1. Common \in Seq(STRING) /\ Len(Common) \in Nat
      BY ScriptAssumption
    <3>2. /\ Len(Append(Common, "MAX_LENGTH")) = Len(Common) + 1
          /\ Append(Common, "MAX_LENGTH")[i] = Common[i]
      BY <1>5, <3>1, AppendProperties
    <3>3. i \in 1..Len(script.left) /\ script.left[i] = "EPOCHS"
      BY <1>5, <2>4, <3>1, <3>2
    <3> QED BY <2>2, <3>3, Zenon DEF ToConfigure
  <2> QED BY <2>2, <2>3, <2>4
<1>7. Configured
  BY <1>2, <1>6, Zenon DEF Configured
<1>8. Trained(output, script.epoch)
  <2>1. EpochLines(output) = {} /\ 1..0 = {}
    BY <1>3 DEF EpochLines
  <2> QED BY <1>4, <2>1 DEF Trained
<1>9. script.pc # "try" \/ settings.framework = "other"
  BY <1>6
<1>10. InOrderTrained
  BY <1>4, <1>8, <1>9 DEF InOrderTrained
<1>11. exit # 0 /\ exit # 1
  BY <1>3, ScriptAssumption
<1> QED BY <1>1, <1>7, <1>10, <1>11 DEF ExitInv, Told

\* A step of the script keeps the invariant; the collector's touch nothing of it.
LEMMA ExitNext == ExitInv /\ [ScriptNext]_scriptVars => ExitInv'
<1> SUFFICES ASSUME ExitInv, [ScriptNext]_scriptVars PROVE ExitInv'
  OBVIOUS
<1>1. ScriptTypeOK /\ Configured /\ InOrderTrained /\ Told
  BY DEF ExitInv
<1>2. ScriptTypeOK'
  BY <1>1, ScriptNextTypeOK
<1>3. CASE RunStep
  <2> SUFFICES ASSUME settings.framework # "other"
               PROVE  Configured' /\ InOrderTrained' /\ Told'
    BY <1>1, <1>2, <1>3, OwnScriptExit, Zenon DEF ExitInv
  <2>1. CASE Import
    BY <1>1, <1>3, <2>1, UncaughtExit DEF Import
  <2>2. CASE DefineHyper \/ DefineDefault
    BY <1>1, <2>2, HyperExit, DefaultExit
  <2>3. CASE StartTrain \/ MakeOutput
    BY <1>1, <2>3, StartExit, MakeOutputExit
  <2>4. CASE TrainEpoch
    BY <1>1, <2>4, EpochExit
  <2>5. CASE PyTorchCompletes
    BY <1>1, <1>3, <2>5, CompleteExit, Zenon DEF PyTorchCompletes
  <2>6. CASE TensorFlowCompletes
    <3>1. Complete("tensorflow") /\ "tensorflow" # "pytorch"
      BY <2>6 DEF TensorFlowCompletes
    <3> QED BY <1>1, <1>3, <3>1, CompleteExit, Zenon
  <2>7. CASE HuggingFaceCompletes
    <3>1. Complete("huggingface") /\ "huggingface" # "pytorch"
      BY <2>7 DEF HuggingFaceCompletes
    <3> QED BY <1>1, <1>3, <3>1, CompleteExit, Zenon
  <2>8. CASE Except
    <3>1. Write("stdout", "failed") /\ Ends(1)
      BY <2>8, Zenon DEF Except
    <3>2. "stdout" \in {"stdout", "stderr"} /\ "failed" \in {"failed", "traceback"}
      OBVIOUS
    <3> QED BY <1>1, <1>3, <3>1, <3>2, Fails, Zenon
  <2>9. CASE CustomScript
    BY <2>9, OwnScriptExit, <1>1, <1>3 DEF CustomScript
  <2>10. CASE Kill
    BY <1>1, <2>10, KillExit
  <2> QED BY <1>3, <2>1, <2>2, <2>3, <2>4, <2>5, <2>6, <2>7, <2>8, <2>9, <2>10, Zenon DEF RunStep
<1>4. CASE (\E n \in 1..MaxRead : Read(n)) \/ ReadEOF \/ Cancel \/ UNCHANGED scriptVars
  <2>1. /\ settings' = settings /\ env' = env /\ script' = script /\ config' = config
        /\ output' = output /\ exit' = exit
    BY <1>4, Zenon DEF Read, ReadEOF, Cancel, scriptVars, runVars
  <2>2. Configured'
    BY <1>1, <2>1, Zenon DEF Configured, ToConfigure, EpochsSet, Wanted
  <2>3. InOrderTrained'
    BY <1>1, <2>1, Zenon DEF InOrderTrained, Trained, EpochLines, Wanted
  <2>4. Told'
    BY <1>1, <2>1, Zenon DEF Told, Says, Wanted
  <2> QED BY <1>2, <2>2, <2>3, <2>4, Zenon DEF ExitInv
<1> QED BY <1>3, <1>4, Zenon DEF ScriptNext, RunStep

\* A generated script that exits with 0 came to its end and said so last (a PyTorch
\* one has trained the epochs wanted, each once and in order), and one that exits with
\* 1 wrote why: of such a job the executor may believe the exit code.  Nothing is
\* said of a job's own script.
THEOREM ExitIsTrue == ScriptSpec => []ExitTellsTheTruth
<1>1. ScriptInit => ExitInv
  BY ExitInit
<1>2. ExitInv /\ [ScriptNext]_scriptVars => ExitInv'
  BY ExitNext
<1>3. ASSUME ExitInv PROVE ExitTellsTheTruth
  <2> SUFFICES ASSUME settings.framework # "other" PROVE ExitTellsTheTruth
    BY DEF ExitTellsTheTruth
  <2>1. Last(output) = output[Len(output)]
    BY DEF Last
  <2>2. Told /\ Trained(output, script.epoch)
    BY <1>3 DEF ExitInv, InOrderTrained
  <2> QED BY <2>1, <2>2 DEF ExitTellsTheTruth, Told, Says, Trained, EpochLines
<1> QED BY <1>1, <1>2, <1>3, PTL DEF ScriptSpec
=============================================================================
