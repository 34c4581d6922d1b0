----------------------------- MODULE HostFacts -----------------------------
(***************************************************************************)
(* The agent's facts about the processes of one name on the node, kubelet  *)
(* or containerd (internal/host/facts.go): whether one runs, and since     *)
(* when.  The kernel tells the start of a process in ticks since boot; the *)
(* boot time, read anew for every sample, is what the wall clock now makes *)
(* of it.  Each of the reads may fail.                                     *)
(***************************************************************************)
EXTENDS Naturals, Sequences

CONSTANTS
    Pids,       \* bound: the PIDs that processes of the name may have
    Starts,     \* bound: when they may start, in seconds since boot
    BootTimes,  \* bound: what btime of /proc/stat may tell, in seconds
    ReadsFail   \* whether reads of /proc may fail

ASSUME HostAssumption ==
    /\ Pids \subseteq Nat \ {0} /\ Starts \subseteq Nat
    /\ BootTimes \subseteq Nat \ {0} /\ BootTimes # {}
    /\ ReadsFail \in BOOLEAN

VARIABLES
    running,    \* the processes of the name there are: when each PID started
    btime,      \* btime of /proc/stat
    started,    \* the field started_at of the latest sample
    found,      \* history: the processes of the name that sample came upon
    same        \* history: there have been the same processes since

hostVars == <<running, btime, started, found, same>>

Processes == UNION {[pids -> Starts] : pids \in SUBSET Pids}

NoProcess == [p \in {} |-> 0]

NoStart(state) == [state |-> state, value |-> 0]
StartedAt(s)   == [state |-> "present", value |-> s]

StartFields ==
    {NoStart("absent"), NoStart("unknown")}
    \cup {StartedAt(b + t) : b \in BootTimes \cup {0}, t \in Starts}

\* os.ReadDir sorts the entries of /proc by name: PIDs as strings of digits.
Digits[n \in Nat] == IF n < 10 THEN <<n>> ELSE Append(Digits[n \div 10], n % 10)

ListedBefore(p, q) ==
    LET a == Digits[p]
        b == Digits[q]
    IN  \E i \in 1..Len(b) :
            /\ i <= Len(a) + 1
            /\ \A j \in 1..(i - 1) : a[j] = b[j]
            /\ i <= Len(a) => a[i] < b[i]

FirstListed(pids) == {p \in pids : \A q \in pids \ {p} : ListedBefore(p, q)}

HostInit ==
    /\ running \in Processes
    /\ btime \in BootTimes
    /\ started = NoStart("unknown")
    /\ found = NoProcess
    /\ same = TRUE

\* processStart, when it returns no error: the first of the entries whose comm
\* it could read and found to be the name.
ProcessStart(boot, seen) ==
    IF seen = {} THEN {NoStart("absent")}
    ELSE {StartedAt(boot + running[p]) : p \in FirstListed(seen)}

\* Fields: when /proc or the stat of the process cannot be read the field is
\* unknown; when only the boot time cannot, processStart goes on with 0.
HostFields(seen) ==
    ProcessStart(btime, seen)
    \cup (IF ReadsFail THEN {NoStart("unknown")} \cup ProcessStart(0, seen) ELSE {})

\* A process whose comm cannot be read is passed over.
HostSample ==
    \E seen \in SUBSET DOMAIN running :
        /\ seen = DOMAIN running \/ ReadsFail
        /\ started' \in HostFields(seen)
        /\ found' = [p \in seen |-> running[p]]
        /\ same' = TRUE
        /\ UNCHANGED <<running, btime>>

\* A process starts or ends.
ProcessesChange ==
    /\ running' \in Processes
    /\ running' # running
    /\ same' = FALSE
    /\ UNCHANGED <<btime, started, found>>

\* The node's wall clock is set, and the time it booted moves along.
ClockIsSet ==
    /\ btime' \in BootTimes
    /\ btime' # btime
    /\ UNCHANGED <<running, started, found, same>>

HostNext == HostSample \/ ProcessesChange \/ ClockIsSet

HostSpec == HostInit /\ [][HostNext]_hostVars

HostTypeOK ==
    /\ running \in Processes
    /\ btime \in BootTimes
    /\ started \in StartFields
    /\ found \in Processes
    /\ same \in BOOLEAN

(***************************************************************************)
(* Properties.                                                             *)
(***************************************************************************)
\* "start times (a change is a restart)": when two samples in a row tell start
\* times that differ, a process of the name has started or ended in between.
RestartsReal ==
    [][started.state = "present" /\ started'.state = "present" /\ started' # started
        => ~same]_hostVars

\* "The lowest PID wins when several match": the start told is that of the
\* lowest PID among the processes the sample came upon.
LowestPidWins ==
    started.state = "present" =>
        \E p \in DOMAIN found :
            /\ \A q \in DOMAIN found : p <= q
            /\ \E boot \in BootTimes \cup {0} : started = StartedAt(boot + found[p])
=============================================================================
