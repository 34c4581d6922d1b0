----------------------------- MODULE AgentLoop -----------------------------
(***************************************************************************)
(* The agent's loop over an unlimited number of ticks, against a collector *)
(* that comes and goes, followed through the fate of one sample.           *)
(*                                                                         *)
(* A sample is reduced to whether the collector can accept it at all: one  *)
(* it answers with 400 (larger than the handler's limit, or invalid) is    *)
(* never accepted, and stays at the head of the buffer like any other      *)
(* failed post.                                                            *)
(***************************************************************************)
EXTENDS Agent, Collector

VARIABLES
    fate,   \* of the watched sample
    clean   \* history: up has been TRUE ever since the watched sample was taken

vars == <<buffer, phase, up, fate, clean>>

Sample == [acceptable : BOOLEAN, watched : BOOLEAN]

Fate == {"untaken", "buffered", "stored", "dropped", "lost"}

Watched(q) == \E i \in DOMAIN q : q[i].watched

Init ==
    /\ AgentInit
    /\ up \in BOOLEAN
    /\ fate = "untaken"
    /\ clean = FALSE

\* At most one sample is watched: any one of them.
Tick(s) ==
    /\ s.watched => fate = "untaken"
    /\ TakeSample(s)
    /\ fate' = IF Watched(buffer') THEN "buffered"
               ELSE IF Watched(buffer) THEN "dropped" ELSE fate
    /\ clean' = IF s.watched THEN up ELSE clean
    /\ UNCHANGED up

Post ==
    /\ BeginPost
    /\ UNCHANGED <<up, fate, clean>>

StopFlush ==
    /\ EndFlush
    /\ UNCHANGED <<up, fate, clean>>

\* The answer to the post of the head: accepted only by a collector that is
\* up, and only if acceptable.
Accepted ==
    /\ up /\ Head(buffer).acceptable
    /\ PostSucceeds
    /\ fate' = IF Head(buffer).watched THEN "stored" ELSE fate
    /\ UNCHANGED <<up, clean>>

Failed ==
    /\ ~(up /\ Head(buffer).acceptable)
    /\ PostFails
    /\ UNCHANGED <<up, fate, clean>>

Answer == phase = "wait" /\ (Accepted \/ Failed)

Restart ==
    /\ LoseBuffer
    /\ fate' = IF Watched(buffer) THEN "lost" ELSE fate
    /\ UNCHANGED <<up, clean>>

CollectorGoes ==
    /\ up
    /\ up' = FALSE
    /\ clean' = FALSE
    /\ UNCHANGED <<buffer, phase, fate>>

CollectorComes ==
    /\ ~up
    /\ up' = TRUE
    /\ UNCHANGED <<buffer, phase, fate, clean>>

Next ==
    \/ \E s \in Sample : Tick(s)
    \/ Post
    \/ StopFlush
    \/ Answer
    \/ Restart
    \/ CollectorGoes
    \/ CollectorComes

\* The ticker fires, the loop is scheduled and every post returns (it has a
\* timeout).  Nothing is assumed of the collector.
Fairness ==
    /\ WF_vars(\E s \in Sample : Tick(s))
    /\ WF_vars(Post)
    /\ WF_vars(StopFlush)
    /\ WF_vars(Answer)

Spec == Init /\ [][Next]_vars /\ Fairness

(***************************************************************************)
(* Properties.                                                             *)
(***************************************************************************)
\* The variables keep their types, and the buffer its bound.
TypeOK ==
    /\ buffer \in Seq(Sample) /\ Len(buffer) <= BufferSize
    /\ phase \in Phase
    /\ up \in BOOLEAN /\ clean \in BOOLEAN
    /\ fate \in Fate

\* While the collector is reachable no sample it could accept is discarded
\* for want of room, however many unacceptable ones are in its way: overflow
\* removes the oldest sample, and that is the one that cannot be posted.
OnlyUnacceptableDropped ==
    [][fate' = "dropped" /\ fate # "dropped" =>
        ~clean \/ \E i \in DOMAIN buffer : buffer[i].watched /\ ~buffer[i].acceptable]_vars

\* Such a sample is stored, unless the agent restarts first.
AcceptableStored ==
    (fate = "buffered" /\ clean /\ \E i \in DOMAIN buffer : buffer[i].watched /\ buffer[i].acceptable)
        ~> (fate \in {"stored", "lost"} \/ ~clean)

\* A sample the collector refuses holds up the ones behind it, but not for
\* ever: every sample leaves the buffer in the end.
NothingStuck == fate = "buffered" ~> fate # "buffered"
=============================================================================
