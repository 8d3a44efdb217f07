----------------------------- MODULE LogStream -----------------------------
(****************************************************************************)
(* The live log of one training job: the executor and the job service append  *)
(* to a Redis stream, and one SSE request reads it through StreamLogs, a Go   *)
(* channel and the handler that writes to the client.                        *)
(*                                                                          *)
(*   services/training/internal/repository/log_repo.go                      *)
(*   services/training/internal/service/job_service.go    StreamLogs        *)
(*   services/training/internal/handler/job_handler.go    streamLogsSSE     *)
(*   services/training/internal/executor/docker.go        collectLogs       *)
(*                                                                          *)
(* A reader shares nothing with another one but the stream, which readers do  *)
(* not change: one is enough.                                               *)
(****************************************************************************)
EXTENDS Naturals, Sequences

CONSTANTS MaxEntries,    \* bound: entries appended to the stream
          MaxLen,        \* entries the stream keeps (LOG_STREAM_MAX_LEN, 10000)
          HistoryCount,  \* entries of the history that are read (100)
          Buffer,        \* capacity of logChan (100)
          MaxFails,      \* bound: calls of the reader that fail
          Faults         \* subset of {"db", "redis", "docker"}: calls that fail

ASSUME StreamAssumption ==
  /\ MaxEntries \in Nat /\ MaxFails \in Nat
  /\ MaxLen \in Nat \ {0} /\ HistoryCount \in Nat \ {0} /\ Buffer \in Nat \ {0}
  /\ Faults \subseteq {"db", "redis", "docker"}

VARIABLES job,      \* "waiting" until Start registered it, "running", "over"
          made,     \* entries appended so far: the stream's ids are 1..made
          reader,   \* StreamLogs: where it is, and whether it reads the
                    \* history, live, or for the last time
          batch,    \* what its last read returned and is not pushed yet
          logChan,  \* the channel between StreamLogs and the handler
          handler,  \* "serving"; "ended" (sent the end event); "left"
          client,   \* "here" or "gone": the request's context
          out,      \* what the client received
          fails,    \* calls of the reader that failed
          heard     \* history: what the reads returned, in order

streamVars == <<reader, batch, heard>>
sseVars    == <<logChan, handler, client, out>>
vars == <<job, made, streamVars, sseVars, fails>>

Phase    == {"history", "live", "last"}
At(p, f) == [pc |-> p, phase |-> f]
Closed   == reader.pc = "done"   \* the deferred close(logChan)

TypeOK ==
  /\ job \in {"waiting", "running", "over"}
  /\ made \in 0..MaxEntries
  /\ reader \in [pc : {"find", "read", "wait", "push", "check", "done"},
                 phase : Phase]
  /\ batch \in Seq(1..made) /\ logChan \in Seq(1..made)
  /\ out \in Seq(1..made) /\ heard \in Seq(1..made)
  /\ Len(logChan) <= Buffer
  /\ handler \in {"serving", "ended", "left"}
  /\ client \in {"here", "gone"}
  /\ fails \in 0..MaxFails

Init ==
  /\ job = "waiting" /\ made = 0
  /\ reader = At("find", "history")
  /\ batch = <<>> /\ logChan = <<>> /\ out = <<>> /\ heard = <<>>
  /\ handler = "serving" /\ client = "here"
  /\ fails = 0

-----------------------------------------------------------------------------
(* The job and its log.                                                      *)

\* What IsRunning looks at.  A start that fails, or a job that is stopped
\* before it, never runs.
JobMoves ==
  /\ \/ job = "waiting" /\ job' \in {"running", "over"}
     \/ job = "running" /\ job' = "over"
  /\ UNCHANGED <<made, streamVars, sseVars, fails>>

\* A read returned these entries: StreamLogs is going to push them.
Returned(entries) ==
  /\ reader' = [reader EXCEPT !.pc = "push"]
  /\ batch' = entries
  /\ heard' = heard \o entries

\* XADD.  A reader blocked in XREAD is served with this entry and nothing else:
\* Redis wakes it as soon as the stream has one.  The collector's lines and the
\* services' own messages go the same way, and a call that fails, whose error
\* everybody drops, leaves no trace.
AppendLog ==
  /\ made < MaxEntries
  /\ made' = made + 1
  /\ IF reader.pc = "wait" THEN Returned(<<made + 1>>) ELSE UNCHANGED streamVars
  /\ UNCHANGED <<job, sseVars, fails>>

-----------------------------------------------------------------------------
(* The reader, StreamLogs.                                                   *)

Fail(kind) == kind \in Faults /\ fails < MaxFails /\ fails' = fails + 1

ReaderTo(r) == reader' = r /\ UNCHANGED <<batch, heard>>

\* GetByID: the row is there, or the call fails or finds none.
Find ==
  /\ reader.pc = "find"
  /\ \/ ReaderTo(At("read", "history")) /\ UNCHANGED fails
     \/ ReaderTo(At("done", "history")) /\ Fail("db")
  /\ UNCHANGED <<job, made, sseVars>>

\* XRANGE of what the stream retains, cut to the first `count' entries.
Oldest == IF made > MaxLen THEN made - MaxLen ELSE 0

ReadLogs(count) ==
  [i \in 1..(IF made - Oldest < count THEN made - Oldest ELSE count) |->
     Oldest + i]

ReadHistory ==
  /\ reader = At("read", "history")
  /\ \/ Returned(ReadLogs(HistoryCount)) /\ UNCHANGED fails
     \/ ReaderTo(At("read", "live")) /\ Fail("redis")
  /\ UNCHANGED <<job, made, sseVars>>

\* The select of a push: room in the channel, or a context that is done; with
\* both, either.
\* Mutant: does not wait for room.
Push_Drops ==
  /\ reader.pc = "push" /\ batch # <<>>
  /\ logChan' = IF Len(logChan) < Buffer THEN Append(logChan, Head(batch))
                                         ELSE logChan
  /\ batch' = Tail(batch)
  /\ UNCHANGED <<job, made, reader, heard, handler, client, out, fails>>

\* Mutant: one entry over the capacity.
Push_OneMore ==
  /\ reader.pc = "push" /\ batch # <<>> /\ Len(logChan) <= Buffer
  /\ logChan' = Append(logChan, Head(batch))
  /\ batch' = Tail(batch)
  /\ UNCHANGED <<job, made, reader, heard, handler, client, out, fails>>

Push ==
  /\ reader.pc = "push" /\ batch # <<>> /\ Len(logChan) < Buffer
  /\ logChan' = Append(logChan, Head(batch))
  /\ batch' = Tail(batch)
  /\ UNCHANGED <<job, made, reader, heard, handler, client, out, fails>>

\* Mutant: a push that has no select waits for room only.
PushCancelled_Never == FALSE /\ UNCHANGED vars

PushCancelled ==
  /\ reader.pc = "push" /\ batch # <<>> /\ client = "gone"
  /\ ReaderTo(At("done", reader.phase))
  /\ UNCHANGED <<job, made, sseVars, fails>>

Pushed ==
  /\ reader.pc = "push" /\ batch = <<>>
  /\ ReaderTo(CASE reader.phase = "history" -> At("read", "live")
                [] reader.phase = "live"    -> At("check", "live")
                [] reader.phase = "last"    -> At("done", "last"))
  /\ UNCHANGED <<job, made, sseVars, fails>>

\* XREAD BLOCK from "$", the stream's end at this moment: nothing older is
\* returned.  The live loop looks at its context before, the last read does not.
\* Mutant: reads the stream from its start.
ReadLive_FromStart ==
  /\ reader.pc = "read" /\ reader.phase # "history"
  /\ IF reader.phase = "live" /\ client = "gone"
       THEN ReaderTo(At("done", "live"))
       ELSE IF reader.phase = "last" /\ made > 0
              THEN Returned(ReadLogs(HistoryCount))
              ELSE ReaderTo(At("wait", reader.phase))
  /\ UNCHANGED <<job, made, sseVars, fails>>

ReadLive ==
  /\ reader.pc = "read" /\ reader.phase # "history"
  /\ ReaderTo(IF reader.phase = "live" /\ client = "gone"
                THEN At("done", "live") ELSE At("wait", reader.phase))
  /\ UNCHANGED <<job, made, sseVars, fails>>

\* 2 s, or 500 ms for the last read, without an entry.
ReadTimesOut ==
  /\ reader.pc = "wait"
  /\ Returned(<<>>)
  /\ UNCHANGED <<job, made, sseVars, fails>>

\* The call fails.  The live loop begins again, without asking whether the job
\* runs; the last read's error is dropped.
ReadFails ==
  /\ reader.pc = "wait"
  /\ Fail("redis")
  /\ ReaderTo(CASE reader.phase = "last" -> At("push", "last")
                [] client = "gone"       -> At("done", "live")
                [] OTHER                 -> At("read", "live"))
  /\ UNCHANGED <<job, made, sseVars>>

\* Mutant: the loop has no way out but its context.
IsRunning_Ignored ==
  /\ reader.pc = "check"
  /\ ReaderTo(At("read", "live"))
  /\ UNCHANGED <<job, made, sseVars, fails>>

\* An unregistered job does not run, and neither does one whose container
\* cannot be inspected.
IsRunning ==
  /\ reader.pc = "check"
  /\ \/ job = "running" /\ ReaderTo(At("read", "live")) /\ UNCHANGED fails
     \/ job # "running" /\ ReaderTo(At("read", "last")) /\ UNCHANGED fails
     \/ job = "running" /\ ReaderTo(At("read", "last")) /\ Fail("docker")
  /\ UNCHANGED <<job, made, sseVars>>

ReaderStep ==
  \/ Find \/ ReadHistory \/ Push \/ PushCancelled \/ Pushed
  \/ ReadLive \/ ReadTimesOut \/ ReadFails \/ IsRunning

-----------------------------------------------------------------------------
(* The handler, streamLogsSSE, and the client.                               *)

\* What is written to a client that is gone arrives nowhere.
Deliver ==
  /\ handler = "serving" /\ logChan # <<>>
  /\ logChan' = Tail(logChan)
  /\ out' = IF client = "here" THEN Append(out, Head(logChan)) ELSE out
  /\ UNCHANGED <<job, made, streamVars, handler, client, fails>>

\* The channel is closed and empty: the end event.
EndStream ==
  /\ handler = "serving" /\ Closed /\ logChan = <<>>
  /\ handler' = "ended"
  /\ UNCHANGED <<job, made, streamVars, logChan, client, out, fails>>

HandlerLeaves ==
  /\ handler = "serving" /\ client = "gone"
  /\ handler' = "left"
  /\ UNCHANGED <<job, made, streamVars, logChan, client, out, fails>>

HandlerStep == Deliver \/ EndStream \/ HandlerLeaves

ClientLeaves ==
  /\ handler = "serving" /\ client = "here"
  /\ client' = "gone"
  /\ UNCHANGED <<job, made, streamVars, logChan, handler, out, fails>>

-----------------------------------------------------------------------------
Next == JobMoves \/ AppendLog \/ ReaderStep \/ HandlerStep \/ ClientLeaves

Spec == Init /\ [][Next]_vars

\* Both goroutines run; Redis answers, or the call times out; what is written to
\* a client that is there is written in the end.  Nothing makes the job move,
\* log or end, nor the client leave.
FairSpec == Spec /\ WF_vars(ReaderStep) /\ WF_vars(HandlerStep)

-----------------------------------------------------------------------------
(* Properties.                                                                *)

\* The client's view of the log is a lossy channel that keeps the order: however
\* history, live reads, the channel and the handler interleave with the writers,
\* no entry comes twice, out of order or after the end.
Channel == INSTANCE LogChannel
             WITH seen <- out, ended <- handler # "serving"

InOrder == Channel!Spec

\* What a read of the stream returned reaches a client that stays: it is
\* delivered, in the channel or waiting to be pushed, and none of it is left
\* when the end event is sent.
HeardIsDelivered ==
  client = "here" =>
    /\ heard = out \o logChan \o batch
    /\ handler = "ended" => out = heard

\* A stream of a job that is over ends, with an end event if the client stays.
StreamEnds == job = "over" ~> handler \in {"ended", "left"}

\* Once the client is gone neither goroutine stays: StreamLogs does not block
\* for ever on a channel nobody empties any more.
NothingLeaks == client = "gone" ~> Closed /\ handler # "serving"
=============================================================================
