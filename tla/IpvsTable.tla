------------------------------- MODULE IpvsTable -------------------------------
(***************************************************************************)
(* What libipvs promises the one thread that calls it: a command changes   *)
(* the kernel's table in one step, at most once, between its call and its  *)
(* return, and a call that returns 0 has done so.  A call that returns -1  *)
(* may have done so too, when the kernel's answer was lost.  Other         *)
(* programs change the table at any time, in steps that are not the        *)
(* library's.  Libipvs implements this over both of its transports.        *)
(***************************************************************************)
CONSTANTS
  Tables,         \* the states of the kernel's table
  Commands,       \* what the caller may ask for
  Accepts(_, _),  \* whether a table lets a command take effect
  Effect(_, _),   \* the table it makes of it
  None            \* no command

VARIABLES
  table,   \* the kernel's table
  phase,   \* how far the command of the caller is
  asked    \* that command, or None

tableVars == <<table, phase, asked>>

Phases == {"none", "pending", "applied", "done", "failed"}

Returned == phase \in {"none", "done", "failed"}

TableInit ==
  /\ table \in Tables
  /\ phase = "none"
  /\ asked = None

Ask ==
  /\ Returned
  /\ phase' = "pending" /\ asked' \in Commands
  /\ UNCHANGED table

Apply ==
  /\ phase = "pending"
  /\ Accepts(table, asked)
  /\ table' = Effect(table, asked)
  /\ phase' = "applied"
  /\ UNCHANGED asked

Succeed ==
  /\ phase = "applied"
  /\ phase' = "done"
  /\ UNCHANGED <<table, asked>>

Fail ==
  /\ phase \in {"pending", "applied"}
  /\ phase' = "failed"
  /\ UNCHANGED <<table, asked>>

\* A whole call that nothing interrupts.
Execute ==
  /\ Returned
  /\ phase' = "done" /\ asked' \in Commands
  /\ Accepts(table, asked')
  /\ table' = Effect(table, asked')

Refuse ==
  /\ Returned
  /\ phase' = "failed" /\ asked' \in Commands
  /\ UNCHANGED table

\* Any call that only reads.
Consult ==
  /\ Returned
  /\ phase' = "none" /\ asked' = None
  /\ UNCHANGED table

\* The library's part: these are all the steps it may take.
Serve == Ask \/ Execute \/ Refuse \/ Apply \/ Succeed \/ Fail \/ Consult

\* Everybody else's.
Administer == table' \in Tables /\ UNCHANGED <<phase, asked>>

TableNext == Serve \/ Administer

TableSpec == TableInit /\ [][TableNext]_tableVars
=============================================================================
