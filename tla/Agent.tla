------------------------------- MODULE Agent -------------------------------
(***************************************************************************)
(* The node agent's sampling loop (internal/agent/agent.go: Run, tick,     *)
(* post).  One goroutine takes a sample every interval, appends it to an   *)
(* in-memory buffer that keeps the newest BufferSize samples, and flushes  *)
(* the buffer oldest first, stopping at the first post that fails.  What a *)
(* sample is, and what the collector does with it, is left to the modules  *)
(* that extend this one.                                                   *)
(***************************************************************************)
EXTENDS Naturals, Sequences

CONSTANT BufferSize     \* AGENT_BUFFER, at least 1 (FromEnv rejects others)

ASSUME BufferAssumption == BufferSize \in Nat \ {0}

VARIABLES
    buffer,     \* Agent.buffer: samples waiting for the collector, oldest first
    phase       \* where the loop is: see Phase

agentVars == <<buffer, phase>>

\* idle: waiting for the ticker.  flush: at the top of the flush loop.
\* wait: inside post, the request for buffer[1] is outstanding.
Phase == {"idle", "flush", "wait"}

AgentInit ==
    /\ buffer = <<>>
    /\ phase = "idle"

\* Mutant: one sample too few is kept.
NewestButOne(q) ==
    IF Len(q) > BufferSize THEN SubSeq(q, Len(q) - BufferSize + 2, Len(q)) ELSE q

\* The samples tick keeps: all of them, or the newest BufferSize.
Newest(q) ==
    IF Len(q) > BufferSize
    THEN SubSeq(q, Len(q) - BufferSize + 1, Len(q))
    ELSE q

\* Mutant: the newest sample is flushed first.
TakeSampleFront(s) ==
    /\ phase = "idle"
    /\ buffer' = Newest(<<s>> \o buffer)
    /\ phase' = "flush"

\* tick up to the flush loop: sample, append, drop the oldest if over size.
TakeSample(s) ==
    /\ phase = "idle"
    /\ buffer' = Newest(Append(buffer, s))
    /\ phase' = "flush"

\* post(&buffer[0]) sends its request.
BeginPost ==
    /\ phase = "flush"
    /\ buffer # <<>>
    /\ phase' = "wait"
    /\ UNCHANGED buffer

\* post returned nil: the head leaves the buffer and the loop continues.
PostSucceeds ==
    /\ phase = "wait"
    /\ buffer' = Tail(buffer)
    /\ phase' = "flush"

\* Mutant: a failed post is retried at once, for ever.
PostFailsRetries ==
    /\ phase = "wait"
    /\ UNCHANGED <<buffer, phase>>

\* post returned an error: the head stays and tick returns.
PostFails ==
    /\ phase = "wait"
    /\ phase' = "idle"
    /\ UNCHANGED buffer

\* The flush loop ends with an empty buffer.
EndFlush ==
    /\ phase = "flush"
    /\ buffer = <<>>
    /\ phase' = "idle"
    /\ UNCHANGED buffer

\* The agent process is replaced: the buffer lives in memory only.
LoseBuffer ==
    /\ buffer' = <<>>
    /\ phase' = "idle"
=============================================================================
