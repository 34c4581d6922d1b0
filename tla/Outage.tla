------------------------------- MODULE Outage -------------------------------
(***************************************************************************)
(* What arrives at a collector that comes and goes: the samples of an      *)
(* agent, which buffers them meanwhile, and the events of the API server,  *)
(* which keeps them for an hour.  Both end up in one database, whose size  *)
(* is capped.                                                              *)
(***************************************************************************)
EXTENDS AgentLoop, EventLog

allVars == <<vars, logVars>>

OutageInit == Init /\ LogInit

\* An accepted sample is one more raw snapshot.
AnswerStored ==
    /\ Answer
    /\ IF Len(buffer') < Len(buffer) THEN AddSnapshot ELSE UNCHANGED snaps
    /\ UNCHANGED <<clusterVars, lister, due, events, cap>>

AgentStep ==
    \/ (\E s \in Sample : Tick(s)) \/ Post \/ StopFlush \/ Restart

OutageNext ==
    \/ AgentStep /\ UNCHANGED logVars
    \/ AnswerStored
    \/ LogStep /\ UNCHANGED vars
    \/ CollectorGoes /\ LogStops
    \/ CollectorComes /\ LogStarts

OutageSpec ==
    OutageInit /\ [][OutageNext]_allVars /\ Fairness /\ LogFairness

\* The variables of the agent's loop and of the database keep their types.
OutageTypeOK == TypeOK /\ LogTypeOK
=============================================================================
