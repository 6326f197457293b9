------------------------------ MODULE IpvsKernel ------------------------------
(***************************************************************************)
(* The kernel's side of IPVS as src/depend/libipvs/libipvs.c uses it: the  *)
(* table of virtual services and their destinations, the timeouts and the  *)
(* connection synchronisation daemons, and what each command asks of them. *)
(* This is external code, modelled from the commands the library sends and *)
(* the errors its ipvs_strerror explains.                                  *)
(***************************************************************************)
EXTENDS Integers

CONSTANTS
  Services,  \* the virtual services there may be
  Dests,     \* the real servers a service may have
  Options,   \* the settings of a service, a destination or the timeouts
  Default,   \* the timeouts of a module just loaded
  V4,        \* the services and destinations with an IPv4 address
  None       \* no service, no destination

ASSUME KernelAssumption ==
  /\ None \notin Services \cup Dests \cup Options
  /\ Default \in Options

Daemons == {"master", "backup"}

\* The connection counter stands for all the statistics of an entry.
Entries == [opt : Options, conns : Nat]

Tables ==
  [services : [Services -> Entries \cup {None}],
   dests    : [Services -> [Dests -> Entries \cup {None}]],
   timeouts : Options,
   daemons  : SUBSET Daemons]

ServiceOps == {"new_service", "set_service", "del_service", "zero"}
DestOps    == {"new_dest", "set_dest", "del_dest"}
DaemonOps  == {"new_daemon", "del_daemon"}
OtherOps   == {"flush", "zero_all", "set_timeout"}

Commands ==
  [op : ServiceOps, svc : Services, dest : {None}, opt : Options]
    \cup [op : DestOps, svc : Services, dest : Dests, opt : Options]
    \cup [op : DaemonOps, svc : {None}, dest : {None}, opt : Daemons]
    \cup [op : OtherOps, svc : {None}, dest : {None}, opt : Options]

Fresh(opt) == [opt |-> opt, conns |-> 0]

NoDests == [d \in Dests |-> None]

ServiceExists(t, s) == t.services[s] # None

DestExists(t, s, d) == ServiceExists(t, s) /\ t.dests[s][d] # None

SameFamily(s, d) == s \in V4 <=> d \in V4

\* The errors ESRCH, ENOENT and EEXIST of ipvs_strerror's table; a destination
\* has the address family of its service.
Accepts(t, c) ==
  CASE c.op = "new_service" -> ~ ServiceExists(t, c.svc)
    [] c.op \in ServiceOps \ {"new_service"} -> ServiceExists(t, c.svc)
    [] c.op = "new_dest" -> /\ SameFamily(c.svc, c.dest)
                            /\ ServiceExists(t, c.svc) /\ ~ DestExists(t, c.svc, c.dest)
    [] c.op \in DestOps \ {"new_dest"} -> DestExists(t, c.svc, c.dest)
    [] c.op = "new_daemon" -> c.opt \notin t.daemons
    [] c.op = "del_daemon" -> c.opt \in t.daemons
    [] OTHER -> TRUE

Zeroed(entry) == IF entry = None THEN None ELSE [entry EXCEPT !.conns = 0]

ZeroService(t, s) ==
  [t EXCEPT !.services[s] = Zeroed(@),
            !.dests[s] = [d \in Dests |-> Zeroed(t.dests[s][d])]]

ZeroAll(t) ==
  [t EXCEPT !.services = [s \in Services |-> Zeroed(t.services[s])],
            !.dests = [s \in Services |-> [d \in Dests |-> Zeroed(t.dests[s][d])]]]

\* A command that is accepted takes effect at once.
Effect(t, c) ==
  CASE c.op = "new_service" -> [t EXCEPT !.services[c.svc] = Fresh(c.opt)]
    [] c.op = "set_service" -> [t EXCEPT !.services[c.svc].opt = c.opt]
    [] c.op = "del_service" -> [t EXCEPT !.services[c.svc] = None, !.dests[c.svc] = NoDests]
    [] c.op = "zero"        -> ZeroService(t, c.svc)
    [] c.op = "new_dest"    -> [t EXCEPT !.dests[c.svc][c.dest] = Fresh(c.opt)]
    [] c.op = "set_dest"    -> [t EXCEPT !.dests[c.svc][c.dest].opt = c.opt]
    [] c.op = "del_dest"    -> [t EXCEPT !.dests[c.svc][c.dest] = None]
    [] c.op = "new_daemon"  -> [t EXCEPT !.daemons = @ \cup {c.opt}]
    [] c.op = "del_daemon"  -> [t EXCEPT !.daemons = @ \ {c.opt}]
    [] c.op = "set_timeout" -> [t EXCEPT !.timeouts = c.opt]
    [] c.op = "zero_all"    -> ZeroAll(t)
    [] c.op = "flush"       -> [t EXCEPT !.services = [s \in Services |-> None],
                                         !.dests = [s \in Services |-> NoDests]]

\* What the module starts with when it is loaded.
EmptyTable ==
  [services |-> [s \in Services |-> None], dests |-> [s \in Services |-> NoDests],
   timeouts |-> Default, daemons |-> {}]
=============================================================================
