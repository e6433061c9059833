------------------------------- MODULE Daemon -------------------------------
(***************************************************************************)
(* ensure_daemon (src/app.py) for one warp: the table of processes, the    *)
(* socket file of warp-svc in /run/warpN, and several calls at a time: the *)
(* scheduler's, and those of boot_one, which retry_unready starts again    *)
(* while an earlier one may still run.                                     *)
(*                                                                         *)
(* A call that trusts the socket it finds returns True at once and changes *)
(* nothing, like one that cannot create its directories or its log file:   *)
(* neither is a step.  warp-svc, docker and the machine are the            *)
(* environment; processes are named by recycled numbers.                   *)
(***************************************************************************)
EXTENDS Integers, FiniteSets

CONSTANTS
    Calls,        \* calls of ensure_daemon in flight at a time
    MaxProcs,     \* bound: warp-svc processes known at a time
    CanSettle     \* whether the environment may become well-behaved

ASSUME DaemonAssumption ==
    /\ MaxProcs \in Nat \ {0}
    /\ CanSettle \in BOOLEAN

Procs == 1 .. MaxProcs

VARIABLES
    proc,        \* each process: free, starting, up (it has bound the socket),
                 \* dead, or reaped (asyncio has set its returncode)
    server,      \* the process that listens on the socket file, 0 if none does
    socketFile,  \* /run/warpN/warp_service exists
    tracked,     \* _daemons.get(idx), 0 for None
    call,        \* each call: idle, spawning, or waiting for the socket of mine
    mishap,      \* history: a start overlapped another, timed out or was
                 \* orphaned, since the daemons were last all gone
    due,         \* retry_unready (for a registered warp that is not ready) or the
                 \* scheduler (for one that is not registered) comes back to it
    calm         \* from here on warp-svc works and nothing is restarted

vars == <<proc, server, socketFile, tracked, call, mishap, due, calm>>

Idle == [at |-> "idle", mine |-> 0]
Spawning == [at |-> "spawning", mine |-> 0]
Waiting(p) == [at |-> "waiting", mine |-> p]

Running == {p \in Procs : proc[p] \in {"starting", "up"}}

\* Numbers that a new process may take.  A daemon that is neither in the table nor
\* the one that listens may be forgotten: that is part of the bound MaxProcs.
Available ==
    {p \in Procs : /\ proc[p] # "starting" /\ p # server /\ p # tracked
                   /\ \A c \in Calls : call[c].mine # p}

Init ==
    /\ proc = [p \in Procs |-> "free"]
    /\ server = 0
    /\ socketFile = FALSE
    /\ tracked = 0
    /\ call = [c \in Calls |-> Idle]
    /\ mishap = FALSE
    /\ due = TRUE
    /\ calm = FALSE

-----------------------------------------------------------------------------
(* ensure_daemon *)

\* Bug: the table is not looked at, any socket file will do.
Trusts_AnySocket == socketFile

\* Bug: no socket is trusted.
Trusts_None == FALSE

\* Bug: a daemon that an earlier app.py has started is not trusted.
Trusts_TableOnly == socketFile /\ tracked # 0 /\ proc[tracked] # "reaped"

\* The socket exists and its process, if there is one in the table, is not
\* known to have exited: nothing is started.
Trusts == socketFile /\ (tracked = 0 \/ proc[tracked] # "reaped")

Pending == {c \in Calls : call[c].at = "spawning"}

\* The checks, the directories and the log file are done, the spawn is awaited.
\* That a number is left for the process is the bound MaxProcs.
Begin(c) ==
    /\ call[c].at = "idle" /\ ~Trusts
    /\ Cardinality(Available) > Cardinality(Pending)
    /\ call' = [call EXCEPT ![c] = Spawning]
    /\ mishap' = (mishap \/ \E o \in Calls : call[o].at # "idle")
    /\ UNCHANGED <<proc, server, socketFile, tracked, due, calm>>

SpawnFails(c) ==
    /\ call[c].at = "spawning" /\ ~calm
    /\ call' = [call EXCEPT ![c] = Idle]
    /\ UNCHANGED <<proc, server, socketFile, tracked, mishap, due, calm>>

\* The process enters the table over whatever was there, and the loop looks for a
\* socket at once: one of an earlier process will do.
Spawned(c) ==
    /\ call[c].at = "spawning"
    /\ \E p \in Available :
          /\ proc' = [proc EXCEPT ![p] = "starting"]
          /\ tracked' = p
          /\ call' = [call EXCEPT ![c] = IF socketFile THEN Idle ELSE Waiting(p)]
    /\ UNCHANGED <<server, socketFile, mishap, due, calm>>

\* Bug: a call that runs out of time goes on waiting.
TimedOut_Never(c) ==
    /\ call[c].at = "waiting" /\ ~socketFile
    /\ UNCHANGED vars

\* The loop ends: its process has exited, the socket is there,
LoopEnds(c) ==
    /\ call[c].at = "waiting"
    /\ proc[call[c].mine] = "reaped" \/ socketFile
    /\ call' = [call EXCEPT ![c] = Idle]
    /\ UNCHANGED <<proc, server, socketFile, tracked, mishap, due, calm>>

\* or the time is up, and a process that still starts is left behind; a calm
\* warp-svc binds or exits before that.
TimedOut(c) ==
    /\ call[c].at = "waiting" /\ ~socketFile
    /\ proc[call[c].mine] # "reaped"
    /\ calm => proc[call[c].mine] # "starting"
    /\ call' = [call EXCEPT ![c] = Idle]
    /\ mishap' = (mishap \/ call[c].mine \in Running)
    /\ UNCHANGED <<proc, server, socketFile, tracked, due, calm>>

\* The event loop hears that a process has exited.
Reap(p) ==
    /\ proc[p] = "dead"
    /\ proc' = [proc EXCEPT ![p] = "reaped"]
    /\ UNCHANGED <<server, socketFile, tracked, call, mishap, due, calm>>

-----------------------------------------------------------------------------
(* warp-svc, docker and the machine *)

\* warp-svc binds its socket; one that finds another serving may replace its file.
Bind(p) ==
    /\ proc[p] = "starting"
    /\ proc' = [proc EXCEPT ![p] = "up"]
    /\ server' = p
    /\ socketFile' = TRUE
    /\ UNCHANGED <<tracked, call, mishap, due, calm>>

\* It exits: killed, which leaves its file, or in order.  When all is calm only
\* one that finds another serving does.
Die(p) ==
    /\ p \in Running
    /\ calm => proc[p] = "starting" /\ server # 0
    /\ proc' = [proc EXCEPT ![p] = "dead"]
    /\ server' = IF server = p THEN 0 ELSE server
    /\ socketFile' \in IF proc[p] = "up" THEN {socketFile, FALSE} ELSE {socketFile}
    /\ UNCHANGED <<tracked, call, mishap, due, calm>>

\* Bug: the table survives the program it belongs to.
Forget_KeepsTable ==
    /\ tracked' = tracked
    /\ call' = [c \in Calls |-> Idle]
    /\ due' = TRUE

\* What a restarted app.py knows; no warp is ready, so that it boots or registers
\* every one.
Forget ==
    /\ tracked' = 0
    /\ call' = [c \in Calls |-> Idle]
    /\ due' = TRUE

\* Docker restarts the container: every process is gone, the file system stays.
ContainerRestart ==
    /\ ~calm
    /\ Forget
    /\ proc' = [p \in Procs |-> "free"]
    /\ server' = 0
    /\ mishap' = FALSE
    /\ UNCHANGED <<socketFile, calm>>

\* On a host (just local) the daemons outlive the program.
HostRestart ==
    /\ ~calm
    /\ Forget
    /\ proc' = [p \in Procs |-> IF p \in Running THEN proc[p] ELSE "free"]
    /\ mishap' = (mishap \/ \E p \in Running : server # p)
    /\ UNCHANGED <<server, socketFile, calm>>

\* A new container, or a machine that was rebooted: nothing is left in /run.
Reboot ==
    /\ ~calm
    /\ Forget
    /\ proc' = [p \in Procs |-> "free"]
    /\ server' = 0
    /\ socketFile' = FALSE
    /\ mishap' = FALSE
    /\ UNCHANGED calm

\* The warp becomes ready, loses its registration to a heal, or the coroutine that
\* looks after it dies: nobody calls for it any more.  Or a verification finds a
\* ready warp unconnected, and the retry loop turns to it again.
Turn ==
    /\ due' = ~due
    /\ UNCHANGED <<proc, server, socketFile, tracked, call, mishap, calm>>

Calm ==
    /\ CanSettle /\ ~calm
    /\ calm' = TRUE
    /\ UNCHANGED <<proc, server, socketFile, tracked, call, mishap, due>>

Returns(c) == LoopEnds(c) \/ TimedOut(c)

Next ==
    \/ \E c \in Calls : Begin(c) \/ SpawnFails(c) \/ Spawned(c) \/ Returns(c)
    \/ \E p \in Procs : Reap(p) \/ Bind(p) \/ Die(p)
    \/ ContainerRestart \/ HostRestart \/ Reboot \/ Turn \/ Calm

Spec == Init /\ [][Next]_vars

\* A warp that stays due is booted or registered again and again (a call may also
\* come late, when it no longer is), a spawn returns, the waiting loop has a clock,
\* exits are heard of, and a calm warp-svc binds its socket or exits.
Fairness ==
    /\ WF_vars(due /\ \E c \in Calls : Begin(c))
    /\ \A c \in Calls : WF_vars(SpawnFails(c) \/ Spawned(c)) /\ WF_vars(Returns(c))
    /\ \A p \in Procs : WF_vars(Reap(p)) /\ WF_vars(calm /\ (Bind(p) \/ Die(p)))

FairSpec == Spec /\ Fairness

-----------------------------------------------------------------------------
(* Properties *)

\* The variables have their types, a call waits for a process of this container,
\* and the table names one.
TypeOK ==
    /\ proc \in [Procs -> {"free", "starting", "up", "dead", "reaped"}]
    /\ server \in 0 .. MaxProcs
    /\ server # 0 => proc[server] = "up"
    /\ socketFile \in BOOLEAN
    /\ tracked \in 0 .. MaxProcs
    /\ tracked # 0 => proc[tracked] # "free"
    /\ call \in [Calls -> [at : {"idle", "spawning", "waiting"}, mine : 0 .. MaxProcs]]
    /\ \A c \in Calls :
          call[c].at = "waiting" => call[c].mine # 0 /\ proc[call[c].mine] # "free"
    /\ mishap \in BOOLEAN
    /\ due \in BOOLEAN
    /\ calm \in BOOLEAN

\* A warp has one daemon: two run only after starts that overlapped, timed out or
\* were orphaned; deaths, stale socket files and restarts alone never lead there.
OneDaemon == ~mishap => \A p, q \in Running : p = q

\* "Daemons start lazily (1 at first, more as registrations arrive), so churn stays
\* minimal": there is one for a warp.
OneForAWarp == \A p, q \in Running : p = q

\* The socket file is there, nobody listens, and ensure_daemon has no reason to
\* start anything: the process in its table is alive, or it has none.
CutOff ==
    /\ socketFile /\ server = 0
    /\ tracked = 0 \/ proc[tracked] = "up"
    /\ \A p \in Procs : proc[p] # "starting"
    /\ \A c \in Calls : call[c].at = "idle"

\* A warp that is cut off stays so, through any number of calls and restarts of
\* the container, until somebody removes the file or kills the process in the
\* table: ensure_daemon answers True all along.
CutOffForGood ==
    [][CutOff => \/ CutOff' \/ ~socketFile'
                 \/ tracked # 0 /\ proc'[tracked] = "dead"]_vars

\* Once warp-svc behaves a warp gets a daemon that serves it, whatever has died,
\* timed out or been left over before, as long as somebody comes back to it: it may
\* be cut off, or nobody calls for it because it counts as ready, has lost its
\* registration, or lost its retry loop.
DaemonComesUp == calm ~> (server # 0 \/ CutOff \/ ~due)

\* entrypoint.sh: "app supervises warp-svc on demand", and Justfile restarts the
\* container by itself: a warp is served again once warp-svc behaves.
SupervisedOnDemand == (calm /\ ~mishap) ~> (server # 0 \/ mishap \/ ~due)

\* Every call returns, also when its process neither exits nor binds.
CallsEnd == \A c \in Calls : (call[c].at # "idle") ~> (call[c].at = "idle")
=============================================================================
