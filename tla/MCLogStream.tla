----------------------------- MODULE MCLogStream -----------------------------
(* LogStream for TLC: a history longer than its limit, a stream that is
   trimmed, a channel smaller than a batch, and every fault.                  *)
EXTENDS LogStream, TLC

MCFaults == {"db", "redis", "docker"}
=============================================================================
