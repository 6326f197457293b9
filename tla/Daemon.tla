-------------------------------- MODULE Daemon ---------------------------------
(***************************************************************************)
(* The life of daemon processes and of the PID file through which the init *)
(* script dist/ipvshttpd.init starts and stops them: main of ipvshttpd.cpp *)
(* from the fork on, http_server::start and stop, and the script's start,  *)
(* stop and restart.  The script is run as root, one run at a time.        *)
(***************************************************************************)
EXTENDS Naturals, FiniteSets

CONSTANTS
  Pids,
  NoPid,       \* no process
  Missing,     \* the PID file when there is none
  Blank,       \* the PID file between its creation and the write
  MaxRuns,     \* bound: runs of the script
  Crashes      \* whether processes may be killed from outside and their PIDs reused

ASSUME PidAssumption ==
  /\ Missing \notin Pids /\ Blank \notin Pids /\ NoPid \notin Pids
  /\ Missing # Blank
  /\ MaxRuns \in Nat /\ Crashes \in BOOLEAN

VARIABLES
  patient,   \* whether no run of the script begins while a daemon is starting
  state,     \* process -> where its main thread is
  pending,   \* processes with a SIGTERM that signal_set has caught
  opened,    \* processes whose open PID file is the one the name refers to
  stuck,     \* processes with a worker that waits for ipvs_mutex for ever
  pidfile,   \* what the file holds
  runs,      \* runs of the script begun
  op,        \* the script's argument
  pc,        \* where the script is
  target,    \* PID in stop_script
  said       \* the last message of the script

vars == <<patient, state, pending, opened, stuck, pidfile, runs, op, pc, target, said>>

script == <<patient, runs, op, pc, target, said>>

\* "other" is a process of another program.
Starting == {"forked", "file_open", "file_written", "ipvs_open", "signal_set"}
Alive == Starting \cup {"serving", "stopped", "deleted", "returned", "removed"}
Ended == {"exit_0", "exit_1", "killed"}
Status == {"free", "other"} \cup Alive \cup Ended

IsAlive(p) == state[p] \in Alive

Become(p, s) == state' = [state EXCEPT ![p] = s]

-----------------------------------------------------------------------------
(* The daemon: main from the fork to its end.                              *)

OpenPidFile(p) ==
  /\ state[p] = "forked"
  /\ \/ /\ Become(p, "file_open")
        /\ pidfile' = Blank
        /\ opened' = opened \cup {p}
     \/ Become(p, "exit_1") /\ UNCHANGED <<pidfile, opened>>
  /\ UNCHANGED <<pending, stuck, script>>

\* A file whose name is gone takes the text with it.
WritePidFile(p) ==
  /\ state[p] = "file_open"
  /\ pidfile' = IF p \in opened THEN p ELSE pidfile
  /\ opened' = opened \ {p}
  /\ Become(p, "file_written")
  /\ UNCHANGED <<pending, stuck, script>>

\* start: without the IPVS interface it returns at once, and nobody looks at
\* what it returns.
InitIpvs(p) ==
  /\ state[p] = "file_written"
  /\ \E s \in {"ipvs_open", "returned"} : Become(p, s)
  /\ UNCHANGED <<pending, opened, stuck, pidfile, script>>

\* The SSL context, the server and the signal set; an exception of the first
\* ends the process.
SetSignals(p) ==
  /\ state[p] = "ipvs_open"
  /\ \E s \in {"signal_set", "killed"} : Become(p, s)
  /\ UNCHANGED <<pending, opened, stuck, pidfile, script>>

PortInUse == \E p \in Pids : state[p] = "serving"

\* run binds the port, and throws when it cannot.
Listen(p) ==
  /\ state[p] = "signal_set"
  /\ Become(p, IF PortInUse THEN "killed" ELSE "serving")
  /\ UNCHANGED <<pending, opened, stuck, pidfile, script>>

\* A request leaves ipvs_mutex locked and another waits for it (HttpServer).
Wedge(p) ==
  /\ state[p] = "serving"
  /\ stuck' = stuck \cup {p}
  /\ UNCHANGED <<state, pending, opened, pidfile, script>>

\* Mutation: the file is removed first, before the server is down.
Stop_removes(p) ==
  /\ state[p] = "serving" /\ p \in pending
  /\ Become(p, "stopped")
  /\ pidfile' = Missing
  /\ UNCHANGED <<pending, opened, stuck, script>>

\* The signal handler: stop closes the port.
Stop(p) ==
  /\ state[p] = "serving" /\ p \in pending
  /\ Become(p, "stopped")
  /\ UNCHANGED <<pending, opened, stuck, pidfile, script>>

\* Still in the handler: delete waits for the workers of the pool.
Delete(p) ==
  /\ state[p] = "stopped" /\ p \notin stuck
  /\ Become(p, "deleted")
  /\ UNCHANGED <<pending, opened, stuck, pidfile, script>>

\* The handler returns into run of the deleted server, which is undefined: run
\* returns to start and start to main, or the process dies.
ReturnFromRun(p) ==
  /\ state[p] = "deleted"
  /\ \E s \in {"returned", "killed"} : Become(p, s)
  /\ UNCHANGED <<pending, opened, stuck, pidfile, script>>

\* Mutation: the file is forgotten.
RemovePidFile_kept(p) ==
  /\ state[p] = "returned"
  /\ Become(p, "removed")
  /\ UNCHANGED <<pending, opened, stuck, pidfile, script>>

\* Whoever wrote it: the name is removed.
RemovePidFile(p) ==
  /\ state[p] = "returned"
  /\ Become(p, IF pidfile = Missing THEN "exit_1" ELSE "removed")
  /\ pidfile' = Missing
  /\ opened' = {}
  /\ UNCHANGED <<pending, stuck, script>>

\* The destructors of the globals, and the end.
Exit(p) ==
  /\ state[p] = "removed"
  /\ Become(p, "exit_0")
  /\ UNCHANGED <<pending, opened, stuck, pidfile, script>>

Run(p) ==
  \/ OpenPidFile(p) \/ WritePidFile(p) \/ InitIpvs(p) \/ SetSignals(p) \/ Listen(p)
  \/ Stop(p) \/ Delete(p) \/ ReturnFromRun(p) \/ RemovePidFile(p) \/ Exit(p)

-----------------------------------------------------------------------------
(* The world around it.                                                    *)

Crash(p) ==
  /\ Crashes /\ IsAlive(p)
  /\ Become(p, "killed")
  /\ opened' = opened \ {p}
  /\ UNCHANGED <<pending, stuck, pidfile, script>>

\* The PID of a dead daemon is given to a process of another program.
ReusePid(p) ==
  /\ Crashes /\ state[p] \in Ended
  /\ Become(p, "other")
  /\ UNCHANGED <<pending, opened, stuck, pidfile, script>>

-----------------------------------------------------------------------------
(* The init script.                                                        *)

\* pgrep -F finds a process, of whatever program, under the PID in the file.
check_proc == pidfile \in Pids /\ (IsAlive(pidfile) \/ state[pidfile] = "other")

Say(text) == said' = text

daemons == <<patient, state, pending, opened, stuck, pidfile>>

Begin ==
  /\ pc = "idle" /\ runs < MaxRuns
  /\ patient => \A p \in Pids : state[p] \notin Starting
  /\ runs' = runs + 1
  /\ op' \in {"start", "stop", "restart"}
  /\ pc' = IF op' = "start" THEN "start" ELSE "stop"
  /\ target' = NoPid /\ Say("")
  /\ UNCHANGED daemons

\* Mutation: a running daemon is not looked for.
StartScript_unchecked ==
  /\ pc = "start"
  /\ pc' = "start_cmd"
  /\ UNCHANGED <<daemons, runs, op, target, said>>

StartScript ==
  /\ pc = "start"
  /\ IF check_proc THEN pc' = "idle" /\ Say("already running")
                   ELSE pc' = "start_cmd" /\ UNCHANGED said
  /\ UNCHANGED <<daemons, runs, op, target>>

\* The parent exits as soon as it has forked, or fails to get that far.
StartCmd ==
  /\ pc = "start_cmd"
  /\ \/ \E p \in Pids : state[p] = "free" /\ Become(p, "forked")
     \/ UNCHANGED state
  /\ pc' = "started"
  /\ UNCHANGED <<patient, pending, opened, stuck, pidfile, runs, op, target, said>>

StartReport ==
  /\ pc = "started"
  /\ pc' = "idle"
  /\ Say(IF check_proc THEN "started" ELSE "error starting")
  /\ UNCHANGED <<daemons, runs, op, target>>

\* restart goes on with the start whenever stop_script returns.
StopDone(text) ==
  IF op = "restart" THEN pc' = "start" /\ Say(text) ELSE pc' = "idle" /\ Say(text)

StopScript ==
  /\ pc = "stop"
  /\ IF check_proc THEN pc' = "cat" /\ UNCHANGED said ELSE StopDone("not running")
  /\ UNCHANGED <<daemons, runs, op, target>>

\* Mutation: the text is taken for a PID without a look.
ReadPid_unchecked ==
  /\ pc = "cat"
  /\ target' = pidfile /\ pc' = "kill"
  /\ UNCHANGED <<daemons, runs, op, said>>

\* cat of a file that has gone, or is empty, yields no number.
ReadPid ==
  /\ pc = "cat"
  /\ IF pidfile \in Pids
     THEN target' = pidfile /\ pc' = "kill" /\ UNCHANGED said
     ELSE pc' = "idle" /\ Say("bad pid") /\ UNCHANGED target
  /\ UNCHANGED <<daemons, runs, op>>

Catching == {"signal_set", "serving", "stopped", "deleted"}

\* SIGTERM ends a process whose signal set is not there yet or no longer.
Kill ==
  /\ pc = "kill"
  /\ \/ /\ state[target] \in Catching
        /\ pending' = pending \cup {target}
        /\ pc' = "wait" /\ UNCHANGED <<state, opened>>
     \/ /\ state[target] \in (Alive \cup {"other"}) \ Catching
        /\ Become(target, "killed") /\ opened' = opened \ {target}
        /\ pc' = "wait" /\ UNCHANGED pending
     \/ /\ state[target] \in Ended
        /\ pc' = "stop_report" /\ UNCHANGED <<state, pending, opened>>
  /\ UNCHANGED <<patient, stuck, pidfile, runs, op, target, said>>

\* Mutation: the loop waits for the file to go, not for the process.
Wait_file ==
  /\ pc = "wait" /\ pidfile = Missing
  /\ pc' = "stop_report"
  /\ UNCHANGED <<daemons, runs, op, target, said>>

\* The until loop: sleep and check_proc.
Wait ==
  /\ pc = "wait" /\ ~ check_proc
  /\ pc' = "stop_report"
  /\ UNCHANGED <<daemons, runs, op, target, said>>

StopReport ==
  /\ pc = "stop_report"
  /\ IF check_proc THEN pc' = "idle" /\ Say("error stopping") ELSE StopDone("stopped")
  /\ UNCHANGED <<daemons, runs, op, target>>

Script == StartScript \/ StartCmd \/ StartReport \/ StopScript \/ ReadPid \/ Kill \/ Wait
            \/ StopReport

-----------------------------------------------------------------------------
Init ==
  /\ patient \in BOOLEAN
  /\ state = [p \in Pids |-> "free"]
  /\ pending = {} /\ opened = {} /\ stuck = {}
  /\ pidfile = Missing
  /\ runs = 0 /\ op = "start" /\ pc = "idle" /\ target = NoPid /\ said = ""

Next ==
  \/ Begin \/ Script
  \/ \E p \in Pids : Run(p) \/ Wedge(p) \/ Crash(p) \/ ReusePid(p)

Spec == Init /\ [][Next]_vars

\* The processes and the script run on.
FairSpec == Spec /\ WF_vars(Script) /\ \A p \in Pids : WF_vars(Run(p))

-----------------------------------------------------------------------------
(* Properties.                                                             *)

\* The type invariant.
TypeOK ==
  /\ patient \in BOOLEAN
  /\ state \in [Pids -> Status]
  /\ pending \subseteq Pids /\ stuck \subseteq Pids
  /\ opened \subseteq {p \in Pids : state[p] = "file_open"}
  /\ pidfile \in Pids \cup {Missing, Blank}
  /\ runs \in 0 .. MaxRuns
  /\ op \in {"start", "stop", "restart"}
  /\ pc \in {"idle", "start", "start_cmd", "started", "stop", "cat", "kill", "wait", "stop_report"}
  /\ target \in Pids \cup {NoPid}
  /\ pc \in {"kill", "wait", "stop_report"} => target \in Pids
  /\ said \in {"", "already running", "started", "error starting", "not running", "bad pid",
               "error stopping", "stopped"}

Serving(p) == state[p] = "serving"

\* When nobody runs the script while a daemon is starting, the daemon that
\* serves is the one the PID file names, through every restart and crash.
NamedServer == patient => \A p \in Pids : Serving(p) => pidfile = p

\* A daemon that exits with 0 leaves no PID file that names it behind, however
\* many daemons write and remove the file in the meantime.
CleanExit == \A p \in Pids : state[p] = "exit_0" => pidfile # p

\* When stop_script says that the daemon is stopped, it has closed its port and
\* removed its PID file, or has died; it need not be dead yet, though the comment
\* in the script wants it to be.
StoppedIsOut ==
  patient /\ pc = "idle" /\ said = "stopped" => state[target] \notin Alive \ {"removed"}

\* stop_script comes to its end, unless a worker of the daemon is stuck or the
\* PID in the file is another program's.
StopEnds ==
  patient /\ pc = "wait" ~> \/ pc # "wait"
                            \/ target \in stuck
                            \/ \E p \in Pids : pidfile = p /\ state[p] = "other"

\* dist/ipvshttpd.init:56, "Error starting": then nothing was started.
ErrorMeansDown ==
  pc = "idle" /\ said = "error starting" => \A p \in Pids : ~ Serving(p)
=============================================================================
