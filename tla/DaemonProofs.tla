----------------------------- MODULE DaemonProofs ------------------------------
(***************************************************************************)
(* For any number of processes and runs of the init script: the types, the *)
(* orderly exit, and the PID file that names the serving daemon.           *)
(***************************************************************************)
EXTENDS Daemon, TLAPS

\* The environment's and the processes' steps, for one process.
Process(p) == Run(p) \/ Wedge(p) \/ Crash(p) \/ ReusePid(p)

LEMMA Steps ==
  ASSUME Next
  PROVE  Begin \/ Script \/ \E p \in Pids : Process(p)
BY DEF Next, Process

-----------------------------------------------------------------------------
(* Types.                                                                  *)

LEMMA Statuses ==
  /\ "free" \in Status /\ "other" \in Status /\ "forked" \in Status /\ "file_open" \in Status
  /\ "file_written" \in Status /\ "ipvs_open" \in Status /\ "signal_set" \in Status
  /\ "serving" \in Status /\ "stopped" \in Status /\ "deleted" \in Status
  /\ "returned" \in Status /\ "removed" \in Status /\ "exit_0" \in Status
  /\ "exit_1" \in Status /\ "killed" \in Status
BY DEF Status, Alive, Starting, Ended

LEMMA TypeInit == ASSUME Init PROVE TypeOK
<1>1. state \in [Pids -> Status]
  BY Statuses DEF Init
<1>2. runs = 0 /\ MaxRuns \in Nat
  BY PidAssumption DEF Init
<1>3. runs \in 0 .. MaxRuns
  BY <1>2
<1> QED
  BY <1>1, <1>3 DEF Init, TypeOK

LEMMA TypeProcess ==
  ASSUME TypeOK, NEW p \in Pids, Process(p)
  PROVE  TypeOK'
<1> USE PidAssumption, Statuses DEF TypeOK, Become, script, IsAlive
<1>1. CASE OpenPidFile(p)
  BY <1>1 DEF OpenPidFile
<1>2. CASE WritePidFile(p)
  BY <1>2 DEF WritePidFile
<1>3. CASE InitIpvs(p)
  <2>1. PICK s \in Status : state' = [state EXCEPT ![p] = s]
    BY <1>3 DEF InitIpvs
  <2> QED
    BY <1>3, <2>1 DEF InitIpvs
<1>4. CASE SetSignals(p)
  <2>1. PICK s \in Status : state' = [state EXCEPT ![p] = s]
    BY <1>4 DEF SetSignals
  <2> QED
    BY <1>4, <2>1 DEF SetSignals
<1>5. CASE Listen(p)
  BY <1>5 DEF Listen
<1>6. CASE Wedge(p)
  BY <1>6 DEF Wedge
<1>7. CASE Stop(p)
  BY <1>7 DEF Stop
<1>8. CASE Delete(p)
  BY <1>8 DEF Delete
<1>9. CASE ReturnFromRun(p)
  <2>1. PICK s \in Status : state' = [state EXCEPT ![p] = s]
    BY <1>9 DEF ReturnFromRun
  <2> QED
    BY <1>9, <2>1 DEF ReturnFromRun
<1>10. CASE RemovePidFile(p)
  BY <1>10 DEF RemovePidFile
<1>11. CASE Exit(p)
  BY <1>11 DEF Exit
<1>12. CASE Crash(p)
  BY <1>12 DEF Crash
<1>13. CASE ReusePid(p)
  <2>1. state[p] # "file_open"
    BY <1>13 DEF ReusePid, Ended
  <2> QED
    BY <1>13, <2>1 DEF ReusePid
<1> QED
  BY <1>1, <1>2, <1>3, <1>4, <1>5, <1>6, <1>7, <1>8, <1>9, <1>10, <1>11, <1>12, <1>13
  DEF Process, Run

LEMMA NextRun ==
  ASSUME NEW m \in Nat, NEW n \in 0 .. m, n < m
  PROVE  n + 1 \in 0 .. m
OBVIOUS

LEMMA TypeScript ==
  ASSUME TypeOK, Begin \/ Script
  PROVE  TypeOK'
<1> USE PidAssumption, Statuses DEF TypeOK, Become, daemons, Say
<1>1. CASE Begin
  <2>1. runs' = runs + 1 /\ runs < MaxRuns
    BY <1>1 DEF Begin
  <2>2. op' \in {"start", "stop", "restart"} /\ pc' \in {"start", "stop"}
    BY <1>1 DEF Begin
  <2>3. target' = NoPid /\ said' = "" /\ UNCHANGED <<patient, state, pending, opened, stuck, pidfile>>
    BY <1>1 DEF Begin
  <2> QED
    BY <2>1, <2>2, <2>3, NextRun
<1>2. CASE StartScript
  BY <1>2 DEF StartScript
<1>3. CASE StartCmd
  BY <1>3 DEF StartCmd
<1>4. CASE StartReport
  BY <1>4 DEF StartReport
<1>5. CASE StopScript
  BY <1>5 DEF StopScript, StopDone
<1>6. CASE ReadPid
  BY <1>6 DEF ReadPid
<1>7. CASE Kill
  BY <1>7 DEF Kill, Catching
<1>8. CASE Wait
  BY <1>8 DEF Wait
<1>9. CASE StopReport
  BY <1>9 DEF StopReport, StopDone
<1> QED
  BY <1>1, <1>2, <1>3, <1>4, <1>5, <1>6, <1>7, <1>8, <1>9 DEF Script

LEMMA TypeStutter == ASSUME TypeOK, UNCHANGED vars PROVE TypeOK'
BY DEF TypeOK, vars

\* Every variable of the daemons and of the script keeps its type.
THEOREM DaemonTyped == Spec => []TypeOK
<1>1. TypeOK /\ [Next]_vars => TypeOK'
  BY Steps, TypeProcess, TypeScript, TypeStutter
<1> QED
  BY TypeInit, <1>1, PTL DEF Spec

-----------------------------------------------------------------------------
(* The orderly exit.  Once a daemon has removed the file, nothing writes   *)
(* its PID there again.                                                    *)

Leaving == {"removed", "exit_0"}

ExitInv == \A p \in Pids : state[p] \in Leaving => pidfile # p

LEMMA ExitStep ==
  ASSUME TypeOK, TypeOK', ExitInv, Next
  PROVE  ExitInv'
<1> SUFFICES ASSUME NEW q \in Pids, state'[q] \in Leaving PROVE pidfile' # q
  BY DEF ExitInv
<1> USE PidAssumption DEF Leaving
<1>1. ASSUME NEW p \in Pids, Process(p) PROVE pidfile' # q
  <2>1. CASE OpenPidFile(p)
    BY <2>1 DEF OpenPidFile, Become, TypeOK, ExitInv
  <2>2. CASE WritePidFile(p)
    BY <2>2 DEF WritePidFile, Become, TypeOK, ExitInv
  <2>3. CASE RemovePidFile(p)
    BY <2>3 DEF RemovePidFile, Become, TypeOK
  <2>4. CASE Exit(p)
    BY <2>4 DEF Exit, Become, TypeOK, ExitInv
  <2>5. CASE InitIpvs(p) \/ SetSignals(p) \/ Listen(p) \/ Stop(p) \/ Delete(p) \/ ReturnFromRun(p)
    BY <2>5 DEF InitIpvs, SetSignals, Listen, Stop, Delete, ReturnFromRun, Become, TypeOK, ExitInv
  <2>6. CASE Wedge(p) \/ Crash(p) \/ ReusePid(p)
    BY <2>6 DEF Wedge, Crash, ReusePid, Become, TypeOK, ExitInv
  <2> QED
    BY <1>1, <2>1, <2>2, <2>3, <2>4, <2>5, <2>6 DEF Process, Run
<1>2. ASSUME Begin \/ Script PROVE pidfile' # q
  <2>1. CASE StartCmd
    BY <2>1 DEF StartCmd, Become, TypeOK, ExitInv
  <2>2. CASE Kill
    BY <2>2 DEF Kill, Become, TypeOK, ExitInv
  <2>3. CASE Begin \/ StartScript \/ StartReport \/ StopScript \/ ReadPid \/ Wait \/ StopReport
    BY <2>3 DEF Begin, StartScript, StartReport, StopScript, ReadPid, Wait, StopReport,
       daemons, ExitInv
  <2> QED
    BY <1>2, <2>1, <2>2, <2>3 DEF Script
<1> QED
  BY <1>1, <1>2, Steps

\* A daemon that exits with 0 leaves no PID file that names it, with any number
\* of daemons and of runs of the script, at any time.
THEOREM DaemonCleanExit == Spec => []CleanExit
<1>1. Init => ExitInv
  BY DEF Init, ExitInv, Leaving
<1>2. TypeOK /\ TypeOK' /\ ExitInv /\ [Next]_vars => ExitInv'
  BY ExitStep DEF ExitInv, vars
<1>3. ExitInv => CleanExit
  BY DEF ExitInv, CleanExit, Leaving
<1> QED
  BY <1>1, <1>2, <1>3, DaemonTyped, PTL DEF Spec
-----------------------------------------------------------------------------
(* The PID file and the serving daemon, when runs of the script wait for   *)
(* daemons that are starting.  A daemon that has written the file and not  *)
(* yet removed it is named there; one that is about to write it has no     *)
(* rival.  So a script that finds no live process under the file knows     *)
(* that there is no daemon to disturb.                                     *)

Writing == {"forked", "file_open"}
Named   == {"file_written", "ipvs_open", "signal_set", "serving", "stopped", "deleted", "returned"}

NamedInFile == \A p \in Pids : state[p] \in Named => pidfile = p

NoRival ==
  \A p, q \in Pids : state[p] \in Writing /\ q # p => state[q] \notin Writing \cup Named

OpenIsBlank == \A p \in Pids : state[p] = "file_open" => p \in opened

Waited == pc \notin {"idle", "started"} => \A p \in Pids : state[p] \notin Writing

Clear == pc = "start_cmd" => \A p \in Pids : state[p] \notin Writing \cup Named

Told ==
  pc = "idle" /\ said = "stopped" => target \in Pids /\ state[target] \notin Writing \cup Named

FileInv == NamedInFile /\ NoRival /\ OpenIsBlank /\ Waited /\ Clear /\ Told

LEMMA FileInit == ASSUME Init PROVE FileInv
BY DEF Init, FileInv, NamedInFile, NoRival, OpenIsBlank, Waited, Clear, Told, Writing, Named

LEMMA FileProcess ==
  ASSUME TypeOK, FileInv, NEW p \in Pids, Process(p)
  PROVE  FileInv'
<1>1. CASE OpenPidFile(p)
  <2>1. NamedInFile'
    BY <1>1 DEF OpenPidFile, FileInv, Become, TypeOK, script, NamedInFile, Named, Writing, NoRival
  <2>2. NoRival'
    BY <1>1 DEF OpenPidFile, FileInv, Become, TypeOK, script, NoRival, Writing, Named
  <2>3. OpenIsBlank'
    BY <1>1 DEF OpenPidFile, FileInv, Become, TypeOK, script, OpenIsBlank, NoRival, Writing
  <2>4. Waited'
    BY <1>1 DEF OpenPidFile, FileInv, Become, TypeOK, script, Waited, Writing
  <2>5. Clear'
    BY <1>1 DEF OpenPidFile, FileInv, Become, TypeOK, script, Clear, Writing, Named
  <2>6. Told'
    BY <1>1 DEF OpenPidFile, FileInv, Become, TypeOK, script, Told, Writing, Named
  <2> QED
    BY <2>1, <2>2, <2>3, <2>4, <2>5, <2>6 DEF FileInv
<1>2. CASE WritePidFile(p)
  <2>1. NamedInFile'
    BY <1>2 DEF WritePidFile, FileInv, Become, TypeOK, script, NamedInFile, Named, Writing, NoRival, OpenIsBlank
  <2>2. NoRival'
    BY <1>2 DEF WritePidFile, FileInv, Become, TypeOK, script, NoRival, Writing, Named
  <2>3. OpenIsBlank'
    BY <1>2 DEF WritePidFile, FileInv, Become, TypeOK, script, OpenIsBlank
  <2>4. Waited'
    BY <1>2 DEF WritePidFile, FileInv, Become, TypeOK, script, Waited, Writing
  <2>5. Clear'
    BY <1>2 DEF WritePidFile, FileInv, Become, TypeOK, script, Clear, Writing, Named
  <2>6. Told'
    BY <1>2 DEF WritePidFile, FileInv, Become, TypeOK, script, Told, Writing, Named
  <2> QED
    BY <2>1, <2>2, <2>3, <2>4, <2>5, <2>6 DEF FileInv
<1>3. CASE RemovePidFile(p)
  <2>1. NamedInFile'
    BY <1>3 DEF RemovePidFile, FileInv, Become, TypeOK, script, NamedInFile, Named, Writing
  <2>2. NoRival'
    BY <1>3 DEF RemovePidFile, FileInv, Become, TypeOK, script, NoRival, Writing, Named
  <2>3. OpenIsBlank'
    BY <1>3 DEF RemovePidFile, FileInv, Become, TypeOK, script, OpenIsBlank, NoRival, Writing, Named, NamedInFile
  <2>4. Waited'
    BY <1>3 DEF RemovePidFile, FileInv, Become, TypeOK, script, Waited, Writing
  <2>5. Clear'
    BY <1>3 DEF RemovePidFile, FileInv, Become, TypeOK, script, Clear, Writing, Named
  <2>6. Told'
    BY <1>3 DEF RemovePidFile, FileInv, Become, TypeOK, script, Told, Writing, Named
  <2> QED
    BY <2>1, <2>2, <2>3, <2>4, <2>5, <2>6 DEF FileInv
<1>4. CASE InitIpvs(p) \/ SetSignals(p) \/ Listen(p)
  <2>1. NamedInFile'
    BY <1>4 DEF InitIpvs, SetSignals, Listen, FileInv, Become, TypeOK, script, NamedInFile, Named, Writing
  <2>2. NoRival'
    BY <1>4 DEF InitIpvs, SetSignals, Listen, FileInv, Become, TypeOK, script, NoRival, Writing, Named
  <2>3. OpenIsBlank'
    BY <1>4 DEF InitIpvs, SetSignals, Listen, FileInv, Become, TypeOK, script, OpenIsBlank
  <2>4. Waited'
    BY <1>4 DEF InitIpvs, SetSignals, Listen, FileInv, Become, TypeOK, script, Waited, Writing
  <2>5. Clear'
    BY <1>4 DEF InitIpvs, SetSignals, Listen, FileInv, Become, TypeOK, script, Clear, Writing, Named
  <2>6. Told'
    BY <1>4 DEF InitIpvs, SetSignals, Listen, FileInv, Become, TypeOK, script, Told, Writing, Named
  <2> QED
    BY <2>1, <2>2, <2>3, <2>4, <2>5, <2>6 DEF FileInv
<1>5. CASE Stop(p) \/ Delete(p) \/ ReturnFromRun(p) \/ Exit(p)
  <2>1. NamedInFile'
    BY <1>5 DEF Stop, Delete, ReturnFromRun, Exit, FileInv, Become, TypeOK, script, NamedInFile, Named, Writing
  <2>2. NoRival'
    BY <1>5 DEF Stop, Delete, ReturnFromRun, Exit, FileInv, Become, TypeOK, script, NoRival, Writing, Named
  <2>3. OpenIsBlank'
    BY <1>5 DEF Stop, Delete, ReturnFromRun, Exit, FileInv, Become, TypeOK, script, OpenIsBlank
  <2>4. Waited'
    BY <1>5 DEF Stop, Delete, ReturnFromRun, Exit, FileInv, Become, TypeOK, script, Waited, Writing
  <2>5. Clear'
    BY <1>5 DEF Stop, Delete, ReturnFromRun, Exit, FileInv, Become, TypeOK, script, Clear, Writing, Named
  <2>6. Told'
    BY <1>5 DEF Stop, Delete, ReturnFromRun, Exit, FileInv, Become, TypeOK, script, Told, Writing, Named
  <2> QED
    BY <2>1, <2>2, <2>3, <2>4, <2>5, <2>6 DEF FileInv
<1>6. CASE Wedge(p) \/ Crash(p) \/ ReusePid(p)
  <2>1. NamedInFile'
    BY <1>6 DEF Wedge, Crash, ReusePid, FileInv, Become, TypeOK, script, NamedInFile, Named, Writing
  <2>2. NoRival'
    BY <1>6 DEF Wedge, Crash, ReusePid, FileInv, Become, TypeOK, script, NoRival, Writing, Named
  <2>3. OpenIsBlank'
    BY <1>6 DEF Wedge, Crash, ReusePid, FileInv, Become, TypeOK, script, OpenIsBlank
  <2>4. Waited'
    BY <1>6 DEF Wedge, Crash, ReusePid, FileInv, Become, TypeOK, script, Waited, Writing
  <2>5. Clear'
    BY <1>6 DEF Wedge, Crash, ReusePid, FileInv, Become, TypeOK, script, Clear, Writing, Named
  <2>6. Told'
    BY <1>6 DEF Wedge, Crash, ReusePid, FileInv, Become, TypeOK, script, Told, Writing, Named
  <2> QED
    BY <2>1, <2>2, <2>3, <2>4, <2>5, <2>6 DEF FileInv
<1> QED
  BY <1>1, <1>2, <1>3, <1>4, <1>5, <1>6 DEF Process, Run

LEMMA FileScript ==
  ASSUME TypeOK, FileInv, patient, Begin \/ Script
  PROVE  FileInv'
<1> USE DEF FileInv, TypeOK, daemons
<1>1. CASE Begin
  BY <1>1 DEF Begin, NamedInFile, NoRival, OpenIsBlank, Waited, Clear, Told, Writing, Named, Starting
<1>2. CASE StartScript
  \* The heart: had a daemon been there, check_proc would have found it.
  <2>1. ASSUME ~ check_proc, NEW p \in Pids PROVE state[p] \notin Writing \cup Named
    BY <1>2, <2>1 DEF StartScript, check_proc, IsAlive, Alive, Starting, Waited, NamedInFile, Named,
       Writing
  <2>2. CASE check_proc
    BY <1>2, <2>2 DEF StartScript, Say, NamedInFile, NoRival, OpenIsBlank, Waited, Clear, Told
  <2>3. CASE ~ check_proc
    BY <1>2, <2>1, <2>3 DEF StartScript, NamedInFile, NoRival, OpenIsBlank, Waited, Clear, Told
  <2> QED
    BY <2>2, <2>3
<1>3. CASE StartCmd
  BY <1>3 DEF StartCmd, Become, NamedInFile, NoRival, OpenIsBlank, Waited, Clear, Told, Writing, Named
<1>4. CASE Kill
  BY <1>4 DEF Kill, Become, NamedInFile, NoRival, OpenIsBlank, Waited, Clear, Told, Writing, Named
<1>5. CASE StartReport \/ StopScript \/ ReadPid \/ Wait
  BY <1>5 DEF StartReport, StopScript, ReadPid, Wait, StopDone, Say, NamedInFile, NoRival,
     OpenIsBlank, Waited, Clear, Told
<1>6. CASE StopReport
  \* Nor is there one that the script still waits for.
  <2>1. ASSUME ~ check_proc PROVE state[target] \notin Writing \cup Named
    BY <1>6, <2>1 DEF StopReport, check_proc, IsAlive, Alive, Starting, Waited, NamedInFile, Named,
       Writing
  <2> QED
    BY <1>6, <2>1 DEF StopReport, StopDone, Say, NamedInFile, NoRival, OpenIsBlank, Waited, Clear,
       Told
<1> QED
  BY <1>1, <1>2, <1>3, <1>4, <1>5, <1>6 DEF Script

PatientInv == patient => FileInv

LEMMA PatientStep ==
  ASSUME TypeOK, PatientInv, [Next]_vars
  PROVE  PatientInv'
<1> SUFFICES ASSUME patient' PROVE FileInv'
  BY DEF PatientInv
<1>1. ASSUME NEW p \in Pids, Process(p) PROVE patient' = patient
  BY <1>1 DEF Process, Run, OpenPidFile, WritePidFile, InitIpvs, SetSignals, Listen, Wedge, Stop,
     Delete, ReturnFromRun, RemovePidFile, Exit, Crash, ReusePid, script
<1>2. ASSUME Begin \/ Script PROVE patient' = patient
  BY <1>2 DEF Script, Begin, StartScript, StartCmd, StartReport, StopScript, ReadPid, Kill, Wait,
     StopReport, daemons
<1>3. CASE UNCHANGED vars
  BY <1>3 DEF PatientInv, FileInv, NamedInFile, NoRival, OpenIsBlank, Waited, Clear, Told, vars
<1> QED
  BY <1>1, <1>2, <1>3, Steps, FileProcess, FileScript DEF PatientInv

LEMMA PatientAlways == Spec => []PatientInv
<1>1. Init => PatientInv
  BY FileInit DEF PatientInv
<1>2. TypeOK /\ PatientInv /\ [Next]_vars => PatientInv'
  BY PatientStep
<1> QED
  BY <1>1, <1>2, DaemonTyped, PTL DEF Spec

\* As long as no run of the script begins while a daemon is starting, the PID
\* file names the daemon that serves, whatever else stops, crashes or restarts.
THEOREM DaemonNamedServer == Spec => []NamedServer
<1>1. PatientInv => NamedServer
  BY DEF PatientInv, FileInv, NamedInFile, NamedServer, Serving, Named
<1> QED
  BY <1>1, PatientAlways, PTL

\* Then, too, stop_script says that the daemon is stopped only when it has left
\* the port and removed the PID file, or is dead.
THEOREM DaemonStoppedIsOut == Spec => []StoppedIsOut
<1>1. PatientInv => StoppedIsOut
  BY DEF PatientInv, FileInv, Told, StoppedIsOut, Alive, Starting, Writing, Named
<1> QED
  BY <1>1, PatientAlways, PTL
=============================================================================
